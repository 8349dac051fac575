--------------------------- MODULE MCShoutIndexing ---------------------------
(* An edit gives the title, or the text and the filters. *)
EXTENDS ShoutIndexing, TLC

MCEdits == {{"title"}, {"text", "filters"}}

MCSymmetry == Permutations(Shout)
==============================================================================
