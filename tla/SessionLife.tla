----------------------------- MODULE SessionLife -----------------------------
(***************************************************************************)
(* What a call promises of its AI sessions, whatever requests it takes:    *)
(* at most one is wanted at a time, that one is ended by nothing but the   *)
(* death of the sidecar, and one that is over never comes back.            *)
(***************************************************************************)
CONSTANT Session   \* the sessions a call may ask for

VARIABLES
  open,   \* the call goes on
  life    \* what has become of each session

view == <<open, life>>

(* A session's turn is ahead; it is due; it runs; it is passed, as its     *)
(* turn was over before it ran, and may still start unwanted; it is over.  *)
Init == open = TRUE /\ life = [s \in Session |-> "ahead"]

(* The life of the session that was wanted, now that it is no longer.      *)
Dismissed(s) ==
  CASE life[s] = "due" -> "passed"
    [] life[s] = "running" -> "unwanted"
    [] OTHER -> life[s]

Begin(s, on) ==
  /\ open /\ life[s] = "ahead"
  /\ life' = [t \in Session |-> IF t # s THEN Dismissed(t) ELSE IF on THEN "due" ELSE "over"]
  /\ UNCHANGED open

Leave ==
  /\ open
  /\ open' = FALSE
  /\ life' = [s \in Session |-> Dismissed(s)]

Start(s) ==
  /\ life[s] \in {"due", "passed"}
  /\ life' = [life EXCEPT ![s] = IF @ = "due" THEN "running" ELSE "unwanted"]
  /\ UNCHANGED open

GiveUp(s) ==
  /\ life[s] \in {"due", "passed"}
  /\ life' = [life EXCEPT ![s] = "over"]
  /\ UNCHANGED open

Stop(s) ==
  /\ life[s] = "unwanted"
  /\ life' = [life EXCEPT ![s] = "over"]
  /\ UNCHANGED open

Crash ==
  /\ life' = [s \in Session |-> IF life[s] \in {"running", "unwanted"} THEN "over" ELSE life[s]]
  /\ UNCHANGED open

Next ==
  \/ \E s \in Session :
       (\E on \in BOOLEAN : Begin(s, on)) \/ Start(s) \/ GiveUp(s) \/ Stop(s)
  \/ Leave
  \/ Crash

Spec == Init /\ [][Next]_view
=============================================================================
