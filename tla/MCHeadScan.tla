----------------------------- MODULE MCHeadScan -----------------------------
(* Small instances of HeadScan. *)
EXTENDS HeadScan

CONSTANTS o1, o2, p1, p2, p3
=============================================================================
