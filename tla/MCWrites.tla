------------------------------- MODULE MCWrites -------------------------------
(***************************************************************************)
(* Small instances of the two ways by which local changes reach a container, *)
(* the FUSE mount's and the Windows provider's, in one state space: the      *)
(* front end is chosen at the start, and only its own steps happen.          *)
(***************************************************************************)
EXTENDS FuseWrites, WindowsSync, TLC

CONSTANTS f1, f2, p1, p2

VARIABLE which   \* the front end

writesVars == <<which, allVars, winVars>>

\* The first two contents saved may have one size.
Sizes3 == (1 :> 1) @@ (2 :> 1) @@ (3 :> 2)

Perms == Permutations(Path) \cup Permutations(Proc)

WritesInit == which \in {"fuse", "windows"} /\ FuseInit /\ WinInit

WritesNext ==
    /\ UNCHANGED which
    /\ \/ which = "fuse" /\ FuseNext /\ UNCHANGED winVars
       \/ which = "windows" /\ WinNext /\ UNCHANGED allVars

WritesSpec == WritesInit /\ [][WritesNext]_writesVars
===============================================================================
