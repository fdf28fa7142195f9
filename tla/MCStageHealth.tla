---------------------------- MODULE MCStageHealth ----------------------------
(* Small instances of StageHealth.                                         *)
EXTENDS StageHealth

CONSTANTS t1, t2
=============================================================================
