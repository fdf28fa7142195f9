--------------------------- MODULE MCMeetingRoom ---------------------------
(* Small instances of MeetingRoom.                                         *)
EXTENDS MeetingRoom, TLC

CONSTANTS g1, g2, g3, host, admin, h0, p1, p2, p3, r1, r2

(* A guest alone, under a name and an e-mail of their own.                 *)
Solo == [g \in {g1} |-> g]

(* Two guests, each under a name and an e-mail of their own.               *)
Pair == [g \in {g1, g2} |-> g]

(* Three guests of different names, the first two with one e-mail.         *)
TrioName == [g \in {g1, g2, g3} |-> g]
TrioEmail == [g \in {g1, g2, g3} |-> IF g = g3 THEN g3 ELSE g1]

(* The guest rows and the handler slots are interchangeable.               *)
RowSymmetry == Permutations(RowId \ {HostRow}) \cup Permutations(Requests)
=============================================================================
