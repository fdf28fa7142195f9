----------------------------- MODULE MCAiSession -----------------------------
(* Small instances of AiSession.                                           *)
EXTENDS AiSession
=============================================================================
