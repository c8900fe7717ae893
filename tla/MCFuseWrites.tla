---------------------------- MODULE MCFuseWrites ----------------------------
(* Small instances of FuseWrites; the objects are 1, 2, 3 in order of puts. *)
EXTENDS FuseWrites, TLC

CONSTANTS p1, p2, f1, f2, f3

Perms == Permutations(Proc) \cup Permutations(Path)
=============================================================================
