---------------------------- MODULE MCDirListing -----------------------------
(* A directory that was made, which leaves a marker object of its name, and a file in it. *)
EXTENDS DirListing

MadeDirectory == <<<<"a">>, <<"a", "b">>>>
=============================================================================
