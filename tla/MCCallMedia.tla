----------------------------- MODULE MCCallMedia -----------------------------
(* Instance of CallMedia for TLC: the configurations give MaxRuns.         *)
EXTENDS CallMedia
=============================================================================
