---------------------------- MODULE MCWindowsSync ----------------------------
(* Small instances of WindowsSync. *)
EXTENDS WindowsSync, TLC

CONSTANTS f1, f2, j1, j2, j3

\* The first two contents saved may have one size.
Sizes3 == (1 :> 1) @@ (2 :> 1) @@ (3 :> 2)

WinPerms == Permutations(WinPath) \cup Permutations(Job)
=============================================================================
