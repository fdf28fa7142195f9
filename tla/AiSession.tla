------------------------------ MODULE AiSession ------------------------------
(***************************************************************************)
(* The AI session of a call: the desktop's effect that starts one and      *)
(* stops it, its poll every two seconds (apps/desktop/src/App.tsx,         *)
(* ActiveCallScreen) and the sidecar's table of sessions                   *)
(* (apps/ai-sidecar/server.py).  An effect that was superseded goes on     *)
(* after what it waits for; requests overtake each other; the sidecar may  *)
(* die, which forgets every session, and is started again by the next run  *)
(* of the effect.  Any request, and any answer, may be lost on the way.    *)
(***************************************************************************)
EXTENDS Naturals

CONSTANT MaxRuns   \* how often the effect runs during the call

ASSUME MaxRunsAssumption == MaxRuns \in Nat \ {0}

VARIABLES
  open,     \* the call screen is there
  run,      \* what each run of the effect is at
  cur,      \* the last run begun
  shown,    \* aiSession: which run's session, 0 for none, and its status
  error,    \* aiSessionError is set
  up,       \* the sidecar runs
  sess,     \* SESSIONS: the session each run created
  stops,    \* sessions a DELETE is under way for
  polls,    \* GETs under way and their answers
  late,     \* an answer about another session than the current one was shown
  lost      \* sessions the answer that brings them, or their stop, was lost of

vars == <<open, run, cur, shown, error, up, sess, stops, polls, late, lost>>

Run == 1..MaxRuns

Poll == [id: Run, answer: {"none", "running", "stopped", "lost"}]

NoSession == [id |-> 0, status |-> "stopped"]

Init ==
  /\ open = TRUE
  /\ run = [n \in Run |-> "new"]
  /\ cur = 0
  /\ shown = NoSession
  /\ error = FALSE
  /\ up \in BOOLEAN
  /\ sess = [n \in Run |-> "none"]
  /\ stops = {}
  /\ polls = {}
  /\ late = FALSE
  /\ lost = {}

(* The flag cancelled of a run.                                            *)
Superseded(n) == n # cur \/ ~open

(* Faulty variant: the session that was started is left running.           *)
CleanUpNothing == stops

(* The clean-up function stops the session, if its id is known already.    *)
CleanUp == stops \union {n \in {cur} : n \in Run /\ run[n] = "done"}

(* What the session depends on changes, effects being on after it or not.  *)
(* The session on the screen stays until there is another.                 *)
Rerun(on) ==
  /\ open /\ cur < MaxRuns
  /\ stops' = CleanUp
  /\ cur' = cur + 1
  /\ run' = [run EXCEPT ![cur + 1] = IF on THEN "ensure" ELSE "off"]
  /\ shown' = IF on THEN shown ELSE NoSession
  /\ error' = FALSE
  /\ late' = (on /\ late)
  /\ UNCHANGED <<open, up, sess, polls, lost>>

(* The call is left.  Nothing is shown any more, what is under way goes on.*)
Leave ==
  /\ open /\ cur # 0
  /\ open' = FALSE
  /\ stops' = CleanUp
  /\ UNCHANGED <<run, cur, shown, error, up, sess, polls, late, lost>>

(* ensureLocalAiRuntime: the sidecar runs already, or is started.          *)
Ensure(n) ==
  /\ run[n] = "ensure"
  /\ run' = [run EXCEPT ![n] = "prepare"]
  /\ up' = TRUE
  /\ UNCHANGED <<open, cur, shown, error, sess, stops, polls, late, lost>>

(* The identity is at hand, and the session is asked for, unless the run   *)
(* was superseded meanwhile.                                               *)
Prepare(n) ==
  /\ run[n] = "prepare"
  /\ run' = [run EXCEPT ![n] = IF Superseded(n) THEN "off" ELSE "posting"]
  /\ UNCHANGED <<open, cur, shown, error, up, sess, stops, polls, late, lost>>

(* Faulty variant: the sidecar keeps one session, the one created last.    *)
CreateAlone(n) ==
  /\ run[n] = "posting" /\ up
  /\ run' = [run EXCEPT ![n] = "created"]
  /\ sess' = [m \in Run |-> IF m = n THEN "running"
                            ELSE IF sess[m] = "running" THEN "stopped" ELSE sess[m]]
  /\ UNCHANGED <<open, cur, shown, error, up, stops, polls, late, lost>>

(* POST /sessions; the answer is under way.                                *)
Create(n) ==
  /\ run[n] = "posting" /\ up
  /\ run' = [run EXCEPT ![n] = "created"]
  /\ sess' = [sess EXCEPT ![n] = "running"]
  /\ UNCHANGED <<open, cur, shown, error, up, stops, polls, late, lost>>

(* Faulty variant: the answer a superseded run waits for is not awaited.   *)
AdoptCurrent(n) ==
  /\ run[n] = "created" /\ ~Superseded(n)
  /\ run' = [run EXCEPT ![n] = "done"]
  /\ shown' = [id |-> n, status |-> "running"]
  /\ late' = FALSE
  /\ UNCHANGED <<open, cur, error, up, sess, stops, polls, lost>>

(* Faulty variant: cancelled is not looked at after the answer.            *)
AdoptUnchecked(n) ==
  /\ run[n] = "created"
  /\ run' = [run EXCEPT ![n] = "done"]
  /\ shown' = IF open THEN [id |-> n, status |-> "running"] ELSE shown
  /\ late' = (late /\ Superseded(n))
  /\ UNCHANGED <<open, cur, error, up, sess, stops, polls, lost>>

(* The session is shown, or stopped at once if nobody wants it any more.   *)
Adopt(n) ==
  /\ run[n] = "created"
  /\ run' = [run EXCEPT ![n] = "done"]
  /\ IF Superseded(n)
     THEN stops' = stops \union {n} /\ UNCHANGED <<shown, late>>
     ELSE /\ shown' = [id |-> n, status |-> "running"]
          /\ late' = FALSE
          /\ UNCHANGED stops
  /\ UNCHANGED <<open, cur, error, up, sess, polls, lost>>

(* The runtime cannot be started, the identity not prepared, the request   *)
(* not served; or the answer is lost, and the session, should the sidecar  *)
(* live, runs on without anybody knowing its id.                           *)
Fail(n) ==
  /\ run[n] \in {"ensure", "prepare", "posting", "created"}
  /\ run' = [run EXCEPT ![n] = "failed"]
  /\ error' = TRUE
  /\ lost' = lost \union {m \in {n} : sess[m] = "running"}
  /\ UNCHANGED <<open, cur, shown, up, sess, stops, polls, late>>

(* DELETE /sessions/{id}: a session that is not there needs no stop.       *)
Stop(n) ==
  /\ n \in stops
  /\ stops' = stops \ {n}
  /\ sess' = [sess EXCEPT ![n] = IF up /\ @ = "running" THEN "stopped" ELSE @]
  /\ UNCHANGED <<open, run, cur, shown, error, up, polls, late, lost>>

(* The request fails on its way, which nobody is told.                     *)
LoseStop(n) ==
  /\ n \in stops /\ sess[n] = "running"
  /\ stops' = stops \ {n}
  /\ lost' = lost \union {n}
  /\ UNCHANGED <<open, run, cur, shown, error, up, sess, polls, late>>

(* Faulty variant: only the session of the current run is asked about.     *)
AskCurrent ==
  /\ open /\ shown.status = "running" /\ shown.id = cur
  /\ polls' = polls \union {[id |-> shown.id, answer |-> "none"]}
  /\ UNCHANGED <<open, run, cur, shown, error, up, sess, stops, late, lost>>

(* The interval: the session that is shown as running is asked about.      *)
Ask ==
  /\ open /\ shown.status = "running"
  /\ polls' = polls \union {[id |-> shown.id, answer |-> "none"]}
  /\ UNCHANGED <<open, run, cur, shown, error, up, sess, stops, late, lost>>

(* GET /sessions/{id}, if the sidecar is there and the answer comes back.  *)
Answer(p) ==
  /\ p \in polls /\ p.answer = "none"
  /\ polls' = (polls \ {p}) \union {[p EXCEPT !.answer = IF up THEN sess[p.id] ELSE "lost"]}
  /\ UNCHANGED <<open, run, cur, shown, error, up, sess, stops, late, lost>>

LoseAnswer(p) ==
  /\ p \in polls /\ p.answer = "none"
  /\ polls' = (polls \ {p}) \union {[p EXCEPT !.answer = "lost"]}
  /\ UNCHANGED <<open, run, cur, shown, error, up, sess, stops, late, lost>>

(* Faulty variant: an answer that is lost is passed over.                  *)
ArriveSilently(p) ==
  /\ p \in polls /\ p.answer # "none"
  /\ polls' = polls \ {p}
  /\ IF ~open \/ p.answer = "lost"
     THEN UNCHANGED <<shown, late>>
     ELSE /\ shown' = [id |-> p.id, status |-> p.answer]
          /\ late' = (late \/ p.id # shown.id)
  /\ UNCHANGED <<open, run, cur, error, up, sess, stops, lost>>

(* The answer is shown, whatever session is the current one by then.       *)
Arrive(p) ==
  /\ p \in polls /\ p.answer # "none"
  /\ polls' = polls \ {p}
  /\ IF ~open
     THEN UNCHANGED <<shown, error, late>>
     ELSE IF p.answer = "lost"
     THEN error' = TRUE /\ UNCHANGED <<shown, late>>
     ELSE /\ shown' = [id |-> p.id, status |-> p.answer]
          /\ late' = (late \/ p.id # shown.id)
          /\ UNCHANGED error
  /\ UNCHANGED <<open, run, cur, up, sess, stops, lost>>

(* The sidecar dies with its table.                                        *)
Crash ==
  /\ up
  /\ up' = FALSE
  /\ sess' = [n \in Run |-> IF sess[n] = "none" THEN "none" ELSE "lost"]
  /\ UNCHANGED <<open, run, cur, shown, error, stops, polls, late, lost>>

Next ==
  \/ \E on \in BOOLEAN : Rerun(on)
  \/ Leave
  \/ \E n \in Run : Ensure(n) \/ Prepare(n) \/ Create(n) \/ Adopt(n) \/ Fail(n)
  \/ \E n \in Run : Stop(n) \/ LoseStop(n)
  \/ Ask
  \/ \E p \in polls : Answer(p) \/ LoseAnswer(p) \/ Arrive(p)
  \/ Crash

Spec == Init /\ [][Next]_vars

(* What a run waits for ends, an answer that is not lost arrives, every    *)
(* request is served or fails, and the interval goes off; nothing need     *)
(* succeed, but for the poll, which is repeated until it is answered.      *)
Fairness ==
  /\ \A n \in Run : WF_vars(Ensure(n) \/ Prepare(n) \/ Create(n) \/ (run[n] # "created" /\ Fail(n)))
  /\ \A n \in Run : WF_vars(Adopt(n))
  /\ \A n \in Run : WF_vars(Stop(n) \/ LoseStop(n))
  /\ WF_vars(Ask)
  /\ \A n \in Run : SF_vars(\E p \in polls : p.id = n /\ Answer(p))
  /\ \A n \in Run : WF_vars(\E p \in polls : p.id = n /\ p.answer = "lost" /\ Arrive(p))
  /\ \A n \in Run : WF_vars(\E p \in polls : p.id = n /\ p.answer # "lost" /\ Arrive(p))

FairSpec == Spec /\ Fairness

-----------------------------------------------------------------------------
(* Types of the state.                                                     *)
TypeOK ==
  /\ open \in BOOLEAN
  /\ run \in [Run -> {"new", "off", "ensure", "prepare", "posting", "created", "done", "failed"}]
  /\ cur \in 0..MaxRuns
  /\ shown \in [id: 0..MaxRuns, status: {"running", "stopped"}]
  /\ error \in BOOLEAN
  /\ up \in BOOLEAN
  /\ sess \in [Run -> {"none", "running", "stopped", "lost"}]
  /\ stops \in SUBSET Run
  /\ polls \in SUBSET Poll
  /\ late \in BOOLEAN
  /\ lost \in SUBSET Run

(* A session nobody wants any more is not forgotten: while it runs, either *)
(* its stop is under way or the answer that will bring it about, wherever  *)
(* the run was when it was superseded.  Nothing but the loss of that       *)
(* answer, or of the stop, leaves it running, for the sidecar ends no      *)
(* session by itself.                                                      *)
NoForgottenSession ==
  \A n \in Run :
    sess[n] = "running" /\ Superseded(n) /\ n \notin lost => n \in stops \/ run[n] = "created"

(* The screen agrees with the current run: its session, once there is one, *)
(* is the one the pipelines send to; a failure to start it is reported;    *)
(* with the effects off there is none.  Only an answer about an older      *)
(* session that comes late can take its place.                             *)
ScreenAgrees ==
  open /\ cur # 0 =>
    /\ run[cur] = "done" => shown.id = cur \/ late
    /\ run[cur] = "failed" => error
    /\ run[cur] = "off" => shown.id = 0 \/ late

(* A session that is superseded ends, whenever its run was superseded,     *)
(* unless the answer that brings it or its stop is lost.                   *)
Unwanted == {n \in Run : sess[n] = "running" /\ Superseded(n)} \ lost

SessionsEnd == (Unwanted # {}) ~> (Unwanted = {})

(* A session that was stopped is not shown as running for ever.            *)
ShownStale == open /\ shown.status = "running" /\ sess[shown.id] = "stopped"

StopIsSeen == ShownStale ~> ~ShownStale

(* A session the sidecar lost with its life is reported, as long as it is  *)
(* the one on the screen, also when another sidecar answers the polls.     *)
ShownGone == open /\ shown.status = "running" /\ sess[shown.id] = "lost"

LossIsReported == ShownGone ~> (error \/ ~ShownGone)

(* What has become of the session of a run, from its request to its end.   *)
LifeOf(n) ==
  CASE n > cur -> "ahead"
    [] n <= cur /\ sess[n] = "none" ->
         IF run[n] \in {"off", "failed"} THEN "over"
         ELSE IF Superseded(n) THEN "passed" ELSE "due"
    [] n <= cur /\ sess[n] = "running" -> IF Superseded(n) THEN "unwanted" ELSE "running"
    [] OTHER -> "over"

Promise == INSTANCE SessionLife WITH Session <- Run, life <- [n \in Run |-> LifeOf(n)]

(* The session that is wanted is ended by nothing but the death of the     *)
(* sidecar, however late the requests of the runs before it are served,    *)
(* and one that is over never comes back.                                  *)
KeepsLife == Promise!Spec
=============================================================================
