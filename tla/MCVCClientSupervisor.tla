------------------------ MODULE MCVCClientSupervisor ------------------------
(* Small instances of VCClientSupervisor.                                  *)
EXTENDS VCClientSupervisor

CONSTANTS c1, c2
=============================================================================
