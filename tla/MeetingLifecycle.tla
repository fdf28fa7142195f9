-------------------------- MODULE MeetingLifecycle --------------------------
(***************************************************************************)
(* What a meeting is to the people in it, whatever queries the service     *)
(* makes: each request acts at once.  A meeting with somebody in the call  *)
(* is LIVE, one that has ended stays ended, and nobody enters it.          *)
(***************************************************************************)
CONSTANT Seat   \* the places a participant can have

VARIABLES
  phase,     \* where the meeting stands
  inside,    \* the seats in the call
  waiting    \* the seats that asked to be let in

view == <<phase, inside, waiting>>

Phases == {"SCHEDULED", "WAITING", "LIVE", "ENDED", "DELETED"}

Over == phase \in {"ENDED", "DELETED"}

Opened(p) == IF p = "SCHEDULED" THEN "WAITING" ELSE p

(* Where a meeting stands that somebody has left.                          *)
Remaining(in, wait) ==
  IF in # {} THEN "LIVE" ELSE IF wait # {} THEN "WAITING" ELSE "SCHEDULED"

Init == phase = "SCHEDULED" /\ inside = {} /\ waiting = {}

Enter(s) ==
  /\ ~Over
  /\ phase' = "LIVE"
  /\ inside' = inside \union {s}
  /\ waiting' = waiting \ {s}

(* Whoever is in the call and asks again waits again.                      *)
Ask(s) ==
  /\ ~Over
  /\ phase' = Opened(phase)
  /\ inside' = inside \ {s}
  /\ waiting' = waiting \union {s}

(* Letting somebody in is telling them that they may enter.                *)
LetIn ==
  /\ phase # "DELETED"
  /\ phase' = Opened(phase)
  /\ UNCHANGED <<inside, waiting>>

Leave(s) ==
  /\ phase # "DELETED"
  /\ inside' = inside \ {s}
  /\ waiting' = waiting \ {s}
  /\ phase' = IF Over THEN phase ELSE Remaining(inside', waiting')

End ==
  /\ phase # "DELETED"
  /\ phase' = "ENDED"
  /\ inside' = {}
  /\ UNCHANGED waiting

Delete ==
  /\ phase # "DELETED"
  /\ phase' = "DELETED"
  /\ inside' = {}
  /\ waiting' = {}

Next == (\E s \in Seat : Enter(s) \/ Ask(s) \/ Leave(s)) \/ LetIn \/ End \/ Delete

Spec == Init /\ [][Next]_view
=============================================================================
