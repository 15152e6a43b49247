------------------------------ MODULE MCSession -----------------------------
(* Three runs one after the other, each of which may die at any point and   *)
(* be started again; six starts in all, enough for each run to die once     *)
(* with any leftovers.  One run at a time uses at most one file beside the  *)
(* one at the path.                                                         *)
EXTENDS Session

MCRuns == {"first", "second", "third"}
MCFiles == {1, 2}
=============================================================================
