--------------------------- MODULE MCVoiceIdentity ---------------------------
(* Small instances of VoiceIdentity.                                       *)
EXTENDS VoiceIdentity

CONSTANTS t1, t2, s1, s2, m1, m2

TwoVoices == [s \in {s1, s2} |-> IF s = s1 THEN m1 ELSE m2]
=============================================================================
