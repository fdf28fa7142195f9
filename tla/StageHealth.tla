----------------------------- MODULE StageHealth -----------------------------
(***************************************************************************)
(* The health of one AI session in the sidecar (apps/ai-sidecar/server.py):*)
(* the record of each stage with its hysteresis, and lastAdapterError.     *)
(* Frames and audio chunks are served by the threads of a threading HTTP   *)
(* server, which share the session without a lock; a desktop that gave up  *)
(* on a frame sends the next while the first is still being served.        *)
(***************************************************************************)
EXTENDS Naturals

CONSTANTS
  Threads,      \* handlers at work at once
  Effects,      \* what the user may switch on
  Recover,      \* SHAPE_STAGE_RECOVER_FRAMES
  FailStreak    \* SHAPE_STAGE_FAIL_STREAK

Stage == {"face", "background", "voice"}

ASSUME HysteresisAssumption ==
  /\ Recover \in Nat \ {0}
  /\ FailStreak \in Nat \ {0}
  /\ Effects \subseteq Stage

VARIABLES
  enabled,   \* session["enabled"]
  stage,     \* session["stages"]
  error,     \* session["lastAdapterError"]: the stage or the group it names
  req,       \* what each handler is at
  raced      \* stages of which two results were applied at once

vars == <<enabled, stage, error, req, raced>>

Group == {"video", "audio"}

(* The stages of a group; one that is never switched on keeps its record.  *)
StagesOf(g) == Effects \intersect IF g = "video" THEN {"face", "background"} ELSE {"voice"}

(* The desktop keeps a session only while some effect is on.               *)
Asked == SUBSET Effects \ {{}}

NewRecord == [state |-> "active", fails |-> 0, oks |-> 0]

Idle == [pc |-> "idle", group |-> "video", todo |-> {}, changed |-> {},
         now |-> "none", verdict |-> "keep"]

Init ==
  /\ enabled \in Asked
  /\ stage = [s \in Stage |-> NewRecord]
  /\ error = "none"
  /\ req = [t \in Threads |-> Idle]
  /\ raced = {}

(* Counters are compared with the two thresholds only: they are counted up *)
(* to them.                                                                *)
Up(n, limit) == IF n < limit THEN n + 1 ELSE n

Succeeded(r) == [r EXCEPT !.fails = 0, !.oks = Up(@, Recover)]

(* Faulty variant: the failures do not break the row of successes.         *)
FailedKeepingOks(r) == [r EXCEPT !.fails = Up(@, FailStreak)]

Failed(r) == [r EXCEPT !.oks = 0, !.fails = Up(@, FailStreak)]

(* Faulty variant: a stage that failed outright never recovers.            *)
AfterSuccessDegradedOnly(r) ==
  IF r.state = "degraded" /\ r.oks >= Recover THEN "active" ELSE "keep"

(* The state a record deserves after a success, or a failure, was counted. *)
AfterSuccess(r) == IF r.state # "active" /\ r.oks >= Recover THEN "active" ELSE "keep"

AfterFailure(r) == IF r.fails >= FailStreak THEN "failed" ELSE "degraded"

(* The stage that is first in a handler's list.                            *)
First(S) == IF "face" \in S THEN "face" ELSE CHOOSE s \in S : TRUE

(* No other handler works on the stages of the group.                      *)
Alone(t, g) == \A u \in Threads \ {t} : req[u].pc = "idle" \/ req[u].group # g

(* The chunk or the frame goes to the processor, which changes some of the *)
(* stages it is asked for, or none, or cannot be reached.                  *)
Proxied(g, on, changed, reached) ==
  /\ changed \subseteq on
  /\ ~reached => on \intersect StagesOf(g) # {} /\ changed = {}
  /\ error' = IF reached THEN error ELSE g

(* A frame or an audio chunk comes, a frame saying which effects are on.   *)
(* The wait for the processor touches nothing of the session: the handler  *)
(* begins to work on it here.                                              *)
Receive(t, g, on, changed, reached) ==
  /\ g = "audio" => on = enabled
  /\ enabled' = on
  /\ Proxied(g, on, changed, reached)
  /\ req' = [req EXCEPT ![t] = [Idle EXCEPT !.pc = "begin", !.group = g, !.todo = StagesOf(g),
                                            !.changed = changed]]
  /\ raced' = IF Alone(t, g) THEN raced ELSE raced \union StagesOf(g)
  /\ UNCHANGED stage

(* The handler applies the result to the stages that are on at this time;  *)
(* one that is not asked for keeps its record.                             *)
Begin(t) ==
  /\ req[t].pc = "begin"
  /\ req' = [req EXCEPT ![t].pc = "count", ![t].todo = @ \intersect enabled]
  /\ UNCHANGED <<enabled, stage, error, raced>>

(* A result is counted and the state it calls for decided, to be set next. *)
Count(t) ==
  /\ req[t].pc = "count" /\ req[t].todo # {}
  /\ LET s == First(req[t].todo)
         ok == s \in req[t].changed
         r == IF ok THEN Succeeded(stage[s]) ELSE Failed(stage[s])
     IN /\ stage' = [stage EXCEPT ![s] = r]
        /\ req' = [req EXCEPT ![t].pc = "set", ![t].now = s,
                              ![t].todo = @ \ {s}, ![t].changed = @ \ {s},
                              ![t].verdict = IF ok THEN AfterSuccess(r) ELSE AfterFailure(r)]
        /\ raced' = IF Alone(t, req[t].group) THEN raced \ {s} ELSE raced
  /\ UNCHANGED <<enabled, error>>

Set(t) ==
  /\ req[t].pc = "set"
  /\ stage' = [stage EXCEPT ![req[t].now].state =
                 IF req[t].verdict = "keep" THEN @ ELSE req[t].verdict]
  /\ req' = [req EXCEPT ![t].pc = "count", ![t].now = "none", ![t].verdict = "keep"]
  /\ UNCHANGED <<enabled, error, raced>>

Unhealthy(g) == {s \in StagesOf(g) \intersect enabled : stage[s].state # "active"}

(* Faulty variant: errors named after a stage are left.                    *)
OwnedProcessorOnly(g) == {g}

(* What a group may clear: its stages and its processor.                   *)
Owned(g) == StagesOf(g) \union {g}

(* The error of the group's first unhealthy stage, of those that are on by *)
(* now, or no error of its own.                                            *)
Look(t) ==
  /\ req[t].pc = "count" /\ req[t].todo = {}
  /\ LET g == req[t].group
         v == IF Unhealthy(g) # {} THEN First(Unhealthy(g))
              ELSE IF error \in Owned(g) THEN "none" ELSE "keep"
     IN req' = [req EXCEPT ![t].pc = "write", ![t].changed = {}, ![t].verdict = v]
  /\ UNCHANGED <<enabled, stage, error, raced>>

Write(t) ==
  /\ req[t].pc = "write"
  /\ error' = IF req[t].verdict = "keep" THEN error ELSE req[t].verdict
  /\ req' = [req EXCEPT ![t] = Idle]
  /\ UNCHANGED <<enabled, stage, raced>>

Work(t) == Begin(t) \/ Count(t) \/ Set(t) \/ Look(t) \/ Write(t)

Arrival(t, g) ==
  /\ req[t].pc = "idle"
  /\ \E on \in Asked, changed \in SUBSET StagesOf(g), reached \in BOOLEAN :
       Receive(t, g, on, changed, reached)

Next == \E t \in Threads : Work(t) \/ \E g \in Group : Arrival(t, g)

Spec == Init /\ [][Next]_vars

(* Every request ends, by an answer or the processor's time limit, and the *)
(* desktop goes on sending what it captures.  The server starts a thread   *)
(* for every connection: a busy one keeps nobody waiting, which strong     *)
(* fairness says of a bounded number of them.                              *)
Fairness ==
  /\ \A t \in Threads : WF_vars(Work(t))
  /\ \A g \in Group : SF_vars(\E t \in Threads : Arrival(t, g))

FairSpec == Spec /\ Fairness

-----------------------------------------------------------------------------
(* Types of the session and of what its handlers are at.                   *)
TypeOK ==
  /\ enabled \in Asked
  /\ stage \in [Stage -> [state: {"active", "degraded", "failed"}, fails: 0..FailStreak,
                          oks: 0..Recover]]
  /\ error \in Stage \union Group \union {"none"}
  /\ req \in [Threads -> [pc: {"idle", "begin", "count", "set", "write"}, group: Group,
                          todo: SUBSET Stage, changed: SUBSET Stage,
                          now: Stage \union {"none"},
                          verdict: Stage \union {"active", "degraded", "failed", "keep", "none"}]]
  /\ raced \in SUBSET Stage

Quiet(g) == \A t \in Threads : req[t].group = g => req[t].pc = "idle"

(* Between two results a stage's state tells what its last results were:   *)
(* active after no failure, failed after a full streak, unhealthy only     *)
(* until enough successes in a row; two results applied at the same time   *)
(* may break this, but the next one that is applied alone repairs it.      *)
Truthful(r) ==
  /\ r.state = "active" => r.fails = 0
  /\ r.fails >= FailStreak => r.state = "failed"
  /\ r.state # "active" => r.oks < Recover

HealthTellsTruth ==
  \A g \in Group : Quiet(g) => \A s \in StagesOf(g) \ raced : Truthful(stage[s])

(* The error the session shows is of a stage that is not healthy: neither  *)
(* a stage that recovered nor a processor that answers again is blamed,    *)
(* whatever the other group writes and clears at the same time.            *)
ErrorHasCause ==
  \A g \in Group : Quiet(g) =>
    /\ error # g
    /\ error \in StagesOf(g) \ raced => stage[error].state # "active"

(* A stage that is on and works again is shown active again, however the   *)
(* handlers interleaved before.                                            *)
Works(s) ==
  /\ s \in enabled
  /\ \A t \in Threads : s \in req[t].todo => s \in req[t].changed

HealsAtLast == \A s \in Effects : <>[]Works(s) => []<>(stage[s].state = "active")
=============================================================================
