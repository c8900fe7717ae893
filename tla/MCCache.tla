------------------------------- MODULE MCCache -------------------------------
(* Small instances of Cache: payloads of one or two chunks. *)
EXTENDS Cache, TLC

CONSTANTS k1, k2, p1, p2, p3

TwoKeys == {k1, k2}
OneTwo  == (k1 :> 1) @@ (k2 :> 2)
OneKey  == {k1}
Two     == k1 :> 2

Perms2  == Permutations({p1, p2})
=============================================================================
