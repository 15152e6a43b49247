-------------------------- MODULE MCSessionOverlap --------------------------
(* Two runs at once. *)
EXTENDS Session

MCRuns == {"first", "second"}
MCFiles == {1, 2, 3}
=============================================================================
