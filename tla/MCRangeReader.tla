---------------------------- MODULE MCRangeReader ----------------------------
(* Small instances of RangeReader. *)
EXTENDS RangeReader

CONSTANTS r1, r2, q1

\* A read of the head, and one that spans two windows.
HeadAndSpan == {<<0, 1>>, <<1, 3>>}
=============================================================================
