-------------------------- MODULE StageHealthProofs --------------------------
(* What holds of the health of a session for any number of handlers and    *)
(* any thresholds.                                                         *)
EXTENDS StageHealth, TLAPS

Record == [state: {"active", "degraded", "failed"}, fails: 0..FailStreak, oks: 0..Recover]

Handler == [pc: {"idle", "begin", "count", "set", "write"}, group: Group, todo: SUBSET Stage,
          changed: SUBSET Stage, now: Stage \union {"none"},
          verdict: Stage \union {"active", "degraded", "failed", "keep", "none"}]

(* A handler is busy with stages of its group only.                        *)
InGroup(q) ==
  /\ q.todo \subseteq StagesOf(q.group)
  /\ q.pc = "set" => /\ q.now \in StagesOf(q.group)
                     /\ q.verdict \in {"active", "degraded", "failed", "keep"}
  /\ q.pc = "write" => q.verdict \in StagesOf(q.group) \union {"none", "keep"}

InGroups == \A t \in Threads : InGroup(req[t])

Busy(t, g) == req[t].group = g /\ req[t].pc # "idle"

(* While two handlers work on a group, its stages are marked.              *)
OverlapsMarked ==
  \A g \in Group : \A t, u \in Threads :
    t # u /\ Busy(t, g) /\ Busy(u, g) => StagesOf(g) \subseteq raced

(* The record as it is once the verdict under way is set.                  *)
Applied(r, verdict) == [r EXCEPT !.state = IF verdict = "keep" THEN @ ELSE verdict]

Setting(t, s) == req[t].pc = "set" /\ req[t].now = s

TruthUnderWay ==
  \A s \in Effects \ raced :
    /\ (\A t \in Threads : ~Setting(t, s)) => Truthful(stage[s])
    /\ \A t \in Threads : Setting(t, s) => Truthful(Applied(stage[s], req[t].verdict))

(* A handler that will yet write the error of its group.                   *)
Corrects(t, g) ==
  /\ req[t].group = g
  /\ (req[t].pc \in {"begin", "count", "set"} \/ (req[t].pc = "write" /\ req[t].verdict # "keep"))

Blamed(g) ==
  error = g \/ (error \in StagesOf(g) \ raced /\ stage[error].state = "active")

BlameCorrected == \A g \in Group : Blamed(g) => \E t \in Threads : Corrects(t, g)

(* The stage about to be named is not healthy.                             *)
VerdictsFounded ==
  \A t \in Threads :
    req[t].pc = "write" /\ req[t].verdict \in StagesOf(req[t].group) \ raced =>
      stage[req[t].verdict].state # "active"

IInv ==
  /\ TypeOK /\ InGroups /\ OverlapsMarked
  /\ TruthUnderWay /\ BlameCorrected /\ VerdictsFounded

LEMMA TypeIs ==
  TypeOK <=> /\ enabled \in Asked
             /\ stage \in [Stage -> Record]
             /\ error \in Stage \union Group \union {"none"}
             /\ req \in [Threads -> Handler]
             /\ raced \in SUBSET Stage
  BY DEF TypeOK, Record, Handler

-----------------------------------------------------------------------------
(* Groups have stages of their own.                                        *)
LEMMA GroupsApart ==
  /\ \A g \in Group : StagesOf(g) \subseteq Stage /\ g \notin Stage /\ g # "none"
  /\ \A g, h \in Group : g # h => StagesOf(g) \intersect StagesOf(h) = {}
  /\ \A s \in Effects : \E g \in Group : s \in StagesOf(g)
  /\ \A g \in Group : StagesOf(g) \subseteq Effects
  BY HysteresisAssumption DEF StagesOf, Group, Stage

LEMMA FirstIn == ASSUME NEW S, S # {} PROVE First(S) \in S
  BY DEF First

(* Counting a result leaves a record that tells the truth once the verdict *)
(* that goes with it is set.                                               *)
LEMMA AppliedIs ==
  ASSUME NEW r \in Record, NEW v \in {"active", "degraded", "failed", "keep"}
  PROVE  /\ Applied(r, v).fails = r.fails /\ Applied(r, v).oks = r.oks
         /\ Applied(r, v).state = IF v = "keep" THEN r.state ELSE v
  BY DEF Record, Applied

LEMMA SuccessTold ==
  ASSUME NEW r \in Record
  PROVE  /\ Succeeded(r) \in Record
         /\ AfterSuccess(Succeeded(r)) \in {"active", "keep"}
         /\ Truthful(Applied(Succeeded(r), AfterSuccess(Succeeded(r))))
<1> DEFINE c == Succeeded(r)
<1>a. r.oks \in 0..Recover /\ 0 \in 0..FailStreak
  BY HysteresisAssumption DEF Record
<1>b. Up(r.oks, Recover) \in 0..Recover BY <1>a, HysteresisAssumption DEF Up
<1>1. c \in Record /\ c.fails = 0 /\ c.state = r.state /\ c.oks \in 0..Recover
  BY <1>a, <1>b DEF Record, Succeeded
<1>2. AfterSuccess(c) = IF c.state # "active" /\ c.oks >= Recover THEN "active" ELSE "keep"
  BY DEF AfterSuccess
<1> HIDE DEF c
<1>3. Truthful(Applied(c, AfterSuccess(c)))
  BY <1>1, <1>2, AppliedIs, HysteresisAssumption DEF Truthful
<1> QED BY <1>1, <1>2, <1>3 DEF c

LEMMA FailureTold ==
  ASSUME NEW r \in Record
  PROVE  /\ Failed(r) \in Record
         /\ AfterFailure(Failed(r)) \in {"degraded", "failed"}
         /\ Truthful(Applied(Failed(r), AfterFailure(Failed(r))))
<1> DEFINE c == Failed(r)
<1>a. r.fails \in 0..FailStreak /\ 0 \in 0..Recover
  BY HysteresisAssumption DEF Record
<1>b. Up(r.fails, FailStreak) \in 0..FailStreak BY <1>a, HysteresisAssumption DEF Up
<1>1. c \in Record /\ c.oks = 0 /\ c.fails \in 0..FailStreak
  BY <1>a, <1>b DEF Record, Failed
<1>2. AfterFailure(c) = IF c.fails >= FailStreak THEN "failed" ELSE "degraded"
  BY DEF AfterFailure
<1> HIDE DEF c
<1>3. Truthful(Applied(c, AfterFailure(c)))
  BY <1>1, <1>2, AppliedIs, HysteresisAssumption DEF Truthful
<1> QED BY <1>1, <1>2, <1>3 DEF c

-----------------------------------------------------------------------------
(* What each step does, to the handler that takes it and to the session.   *)
LEMMA Received ==
  ASSUME TypeOK, NEW t \in Threads, NEW g \in Group, Arrival(t, g)
  PROVE  /\ req[t].pc = "idle"
         /\ enabled' \in Asked
         /\ stage' = stage
         /\ error' \in {error, g}
         /\ req' \in [Threads -> Handler]
         /\ \A u \in Threads \ {t} : req'[u] = req[u]
         /\ req'[t].pc = "begin" /\ req'[t].group = g /\ req'[t].todo = StagesOf(g)
         /\ raced' = IF Alone(t, g) THEN raced ELSE raced \union StagesOf(g)
<1> USE TypeIs
<1>1. PICK on \in Asked, changed \in SUBSET StagesOf(g), reached \in BOOLEAN :
        Receive(t, g, on, changed, reached)
  BY DEF Arrival
<1>2. StagesOf(g) \in SUBSET Stage BY GroupsApart
<1> DEFINE q == [Idle EXCEPT !.pc = "begin", !.group = g, !.todo = StagesOf(g),
                             !.changed = changed]
<1>3. q \in Handler /\ q.pc = "begin" /\ q.group = g /\ q.todo = StagesOf(g)
  BY <1>2 DEF Idle, Handler, Group
<1>4. req' = [req EXCEPT ![t] = q] BY <1>1 DEF Receive
<1> HIDE DEF q
<1> QED BY <1>1, <1>3, <1>4 DEF Receive, Proxied, Arrival

LEMMA Begun ==
  ASSUME TypeOK, InGroups, NEW t \in Threads, Begin(t)
  PROVE  /\ req[t].pc = "begin"
         /\ UNCHANGED <<enabled, stage, error, raced>>
         /\ req' \in [Threads -> Handler]
         /\ \A u \in Threads \ {t} : req'[u] = req[u]
         /\ req'[t].pc = "count" /\ req'[t].group = req[t].group
         /\ req'[t].todo \subseteq req[t].todo
<1> USE TypeIs
<1> DEFINE q == [req[t] EXCEPT !.pc = "count", !.todo = @ \intersect enabled]
<1>1. req[t] \in Handler OBVIOUS
<1>2. req' = [req EXCEPT ![t] = q] BY DEF Begin
<1>3. q \in Handler /\ q.pc = "count" /\ q.group = req[t].group /\ q.todo \subseteq req[t].todo
  BY <1>1 DEF Handler
<1> HIDE DEF q
<1> QED BY <1>2, <1>3 DEF Begin

LEMMA Counted ==
  ASSUME TypeOK, InGroups, NEW t \in Threads, Count(t)
  PROVE  \E s \in StagesOf(req[t].group) :
           /\ req[t].pc = "count"
           /\ UNCHANGED <<enabled, error>>
           /\ stage' \in [Stage -> Record]
           /\ \A x \in Stage \ {s} : stage'[x] = stage[x]
           /\ Truthful(Applied(stage'[s], req'[t].verdict))
           /\ req' \in [Threads -> Handler]
           /\ \A u \in Threads \ {t} : req'[u] = req[u]
           /\ req'[t].pc = "set" /\ req'[t].group = req[t].group /\ req'[t].now = s
           /\ req'[t].todo \subseteq req[t].todo
           /\ req'[t].verdict \in {"active", "degraded", "failed", "keep"}
           /\ raced' = IF Alone(t, req[t].group) THEN raced \ {s} ELSE raced
<1> USE TypeIs
<1> DEFINE s == First(req[t].todo)
           ok == s \in req[t].changed
           r == IF ok THEN Succeeded(stage[s]) ELSE Failed(stage[s])
           v == IF ok THEN AfterSuccess(r) ELSE AfterFailure(r)
           q == [req[t] EXCEPT !.pc = "set", !.now = s, !.todo = @ \ {s},
                               !.changed = @ \ {s}, !.verdict = v]
<1>1. s \in req[t].todo BY FirstIn DEF Count
<1>2. s \in StagesOf(req[t].group) /\ s \in Stage
  BY <1>1, GroupsApart DEF InGroups, InGroup, Handler
<1>3. stage[s] \in Record BY <1>2
<1>4. /\ r \in Record
      /\ v \in {"active", "degraded", "failed", "keep"}
      /\ Truthful(Applied(r, v))
  BY <1>3, SuccessTold, FailureTold
<1>5. stage' = [stage EXCEPT ![s] = r] BY DEF Count
<1>6. req' = [req EXCEPT ![t] = q] BY DEF Count
<1>7. req[t] \in Handler OBVIOUS
<1> HIDE DEF r, v, ok, s
<1>8. /\ q \in Handler
      /\ q.pc = "set" /\ q.group = req[t].group /\ q.now = s
      /\ q.todo \subseteq req[t].todo /\ q.verdict = v
  BY <1>7, <1>2, <1>4 DEF Handler
<1> HIDE DEF q
<1>9. raced' = IF Alone(t, req[t].group) THEN raced \ {s} ELSE raced
  BY DEF Count, s
<1>10. stage' \in [Stage -> Record] /\ stage'[s] = r /\ \A x \in Stage \ {s} : stage'[x] = stage[x]
  BY <1>2, <1>4, <1>5
<1>11. req' \in [Threads -> Handler] /\ req'[t] = q /\ \A u \in Threads \ {t} : req'[u] = req[u]
  BY <1>6, <1>8
<1>12. req[t].pc = "count" /\ UNCHANGED <<enabled, error>> BY DEF Count
<1> QED BY <1>2, <1>4, <1>8, <1>9, <1>10, <1>11, <1>12

LEMMA WasSet ==
  ASSUME TypeOK, InGroups, NEW t \in Threads, Set(t)
  PROVE  LET s == req[t].now IN
         /\ req[t].pc = "set" /\ s \in StagesOf(req[t].group)
         /\ UNCHANGED <<enabled, error, raced>>
         /\ stage' \in [Stage -> Record]
         /\ stage'[s] = Applied(stage[s], req[t].verdict)
         /\ \A x \in Stage \ {s} : stage'[x] = stage[x]
         /\ req' \in [Threads -> Handler]
         /\ \A u \in Threads \ {t} : req'[u] = req[u]
         /\ req'[t].pc = "count" /\ req'[t].group = req[t].group /\ req'[t].todo = req[t].todo
<1> USE TypeIs
<1> DEFINE s == req[t].now
           q == [req[t] EXCEPT !.pc = "count", !.now = "none", !.verdict = "keep"]
<1>1. /\ req[t].pc = "set" /\ s \in StagesOf(req[t].group) /\ req[t] \in Handler
      /\ req[t].verdict \in {"active", "degraded", "failed", "keep"}
  BY DEF Set, InGroups, InGroup
<1>2. s \in Stage BY <1>1, GroupsApart DEF Handler
<1>3. stage' = [stage EXCEPT ![s] = Applied(stage[s], req[t].verdict)]
  BY <1>2 DEF Set, Applied
<1>4. Applied(stage[s], req[t].verdict) \in Record BY <1>1, <1>2 DEF Applied, Record
<1>5. req' = [req EXCEPT ![t] = q] BY DEF Set
<1>6. q \in Handler /\ q.pc = "count" /\ q.group = req[t].group /\ q.todo = req[t].todo
  BY <1>1 DEF Handler
<1> HIDE DEF q
<1>7. UNCHANGED <<enabled, error, raced>> BY DEF Set
<1>8. stage' \in [Stage -> Record] /\ stage'[s] = Applied(stage[s], req[t].verdict)
      /\ \A x \in Stage \ {s} : stage'[x] = stage[x]
  BY <1>2, <1>3, <1>4
<1>9. req' \in [Threads -> Handler] /\ req'[t] = q /\ \A u \in Threads \ {t} : req'[u] = req[u]
  BY <1>5, <1>6
<1> QED BY <1>1, <1>6, <1>7, <1>8, <1>9

LEMMA Looked ==
  ASSUME TypeOK, InGroups, NEW t \in Threads, Look(t)
  PROVE  LET g == req[t].group IN
         /\ req[t].pc = "count"
         /\ UNCHANGED <<enabled, stage, error, raced>>
         /\ req' \in [Threads -> Handler]
         /\ \A u \in Threads \ {t} : req'[u] = req[u]
         /\ req'[t].pc = "write" /\ req'[t].group = g /\ req'[t].todo = {}
         /\ req'[t].verdict \in StagesOf(g) \union {"none", "keep"}
         /\ req'[t].verdict \in StagesOf(g) => stage[req'[t].verdict].state # "active"
         /\ req'[t].verdict = "keep" => error \notin StagesOf(g) \union {g}
<1> USE TypeIs
<1> DEFINE g == req[t].group
           v == IF Unhealthy(g) # {} THEN First(Unhealthy(g))
                ELSE IF error \in Owned(g) THEN "none" ELSE "keep"
           q == [req[t] EXCEPT !.pc = "write", !.changed = {}, !.verdict = v]
<1>1. req[t] \in Handler /\ g \in Group /\ req[t].todo = {} BY DEF Handler, Look
<1>2. StagesOf(g) \subseteq Stage /\ "none" \notin Stage /\ "keep" \notin Stage
  BY <1>1, GroupsApart DEF Stage
<1>3. /\ v \in StagesOf(g) \union {"none", "keep"}
      /\ v \in StagesOf(g) => stage[v].state # "active"
      /\ v = "keep" => error \notin StagesOf(g) \union {g}
  <2>1. CASE Unhealthy(g) # {}
    <3>1. v \in Unhealthy(g) BY <2>1, FirstIn
    <3> QED BY <1>2, <3>1 DEF Unhealthy
  <2>2. CASE Unhealthy(g) = {} BY <1>2, <2>2 DEF Owned
  <2> QED BY <2>1, <2>2
<1>4. req' = [req EXCEPT ![t] = q] BY DEF Look
<1> HIDE DEF v
<1>5. q \in Handler /\ q.pc = "write" /\ q.group = g /\ q.todo = {} /\ q.verdict = v
  BY <1>1, <1>2, <1>3 DEF Handler
<1> HIDE DEF q
<1>6. req' \in [Threads -> Handler] /\ req'[t] = q /\ \A u \in Threads \ {t} : req'[u] = req[u]
  BY <1>4, <1>5
<1>7. req[t].pc = "count" /\ UNCHANGED <<enabled, stage, error, raced>> BY DEF Look
<1> QED BY <1>3, <1>5, <1>6, <1>7

LEMMA Written ==
  ASSUME TypeOK, InGroups, NEW t \in Threads, Write(t)
  PROVE  /\ req[t].pc = "write"
         /\ UNCHANGED <<enabled, stage, raced>>
         /\ error' = IF req[t].verdict = "keep" THEN error ELSE req[t].verdict
         /\ req[t].verdict \in StagesOf(req[t].group) \union {"none", "keep"}
         /\ req' \in [Threads -> Handler]
         /\ \A u \in Threads \ {t} : req'[u] = req[u]
         /\ req'[t] = Idle
<1> USE TypeIs
<1>1. Idle \in Handler BY DEF Idle, Handler, Group
<1>2. req' = [req EXCEPT ![t] = Idle] BY DEF Write
<1>3. req[t].verdict \in StagesOf(req[t].group) \union {"none", "keep"}
  BY DEF Write, InGroups, InGroup
<1> QED BY <1>1, <1>2, <1>3 DEF Write

-----------------------------------------------------------------------------
(* The inductive step, conjunct by conjunct.                               *)
Step(t) == Work(t) \/ \E g \in Group : Arrival(t, g)

LEMMA InitInv == Init => IInv
<1> SUFFICES ASSUME Init PROVE IInv OBVIOUS
<1>1. Idle \in Handler /\ Idle.pc = "idle" /\ Idle.todo = {} BY DEF Idle, Handler, Group
<1>2. NewRecord \in Record /\ Truthful(NewRecord)
  BY HysteresisAssumption DEF NewRecord, Record, Truthful
<1>3. TypeOK BY <1>1, <1>2, TypeIs DEF Init
<1>4. \A t \in Threads : req[t] = Idle BY DEF Init
<1>5. InGroups BY <1>1, <1>4 DEF InGroups, InGroup
<1>6. OverlapsMarked BY <1>1, <1>4 DEF OverlapsMarked, Busy
<1>7. \A s \in Effects : stage[s] = NewRecord BY HysteresisAssumption DEF Init
<1>8. TruthUnderWay BY <1>1, <1>2, <1>4, <1>7 DEF TruthUnderWay, Setting
<1>9. BlameCorrected
  <2>1. "none" \notin Stage BY DEF Stage
  <2> QED BY <2>1, GroupsApart DEF BlameCorrected, Blamed, Init
<1>10. VerdictsFounded BY <1>1, <1>4 DEF VerdictsFounded
<1> QED BY <1>3, <1>5, <1>6, <1>8, <1>9, <1>10 DEF IInv

LEMMA TypeStep == ASSUME TypeOK, InGroups, NEW t \in Threads, Step(t) PROVE TypeOK'
<1> DEFINE Typed == /\ enabled' \in Asked
                    /\ stage' \in [Stage -> Record]
                    /\ error' \in Stage \union Group \union {"none"}
                    /\ req' \in [Threads -> Handler]
                    /\ raced' \in SUBSET Stage
<1> SUFFICES Typed BY DEF TypeOK, Record, Handler
<1> USE TypeIs
<1>1. ASSUME NEW g \in Group, Arrival(t, g) PROVE Typed
  <2>1. StagesOf(g) \subseteq Stage BY GroupsApart
  <2> QED BY <1>1, <2>1, Received
<1>2. CASE Count(t) BY <1>2, Counted
<1>3. CASE Set(t) BY <1>3, WasSet
<1>4. CASE Look(t) BY <1>4, Looked
<1>6. CASE Begin(t) BY <1>6, Begun
<1>5. CASE Write(t)
  <2>1. req[t].group \in Group BY DEF Handler
  <2>2. StagesOf(req[t].group) \subseteq Stage BY <2>1, GroupsApart
  <2> QED BY <1>5, <2>2, Written
<1> QED BY <1>1, <1>2, <1>3, <1>4, <1>5, <1>6 DEF Step, Work

LEMMA InGroupsStep == ASSUME TypeOK, InGroups, NEW t \in Threads, Step(t) PROVE InGroups'
<1> SUFFICES InGroup(req'[t]) /\ \A u \in Threads \ {t} : req'[u] = req[u]
  BY DEF InGroups, InGroup
<1>0. req[t] \in Handler /\ InGroup(req[t]) BY TypeIs DEF InGroups
<1> USE <1>0 DEF InGroup
<1>1. ASSUME NEW g \in Group, Arrival(t, g)
      PROVE  InGroup(req'[t]) /\ \A u \in Threads \ {t} : req'[u] = req[u]
  BY <1>1, Received
<1>2. CASE Count(t) BY <1>2, Counted
<1>3. CASE Set(t) BY <1>3, WasSet
<1>4. CASE Look(t) BY <1>4, Looked
<1>5. CASE Write(t) BY <1>5, Written DEF Idle
<1>6. CASE Begin(t) BY <1>6, Begun
<1> QED BY <1>1, <1>2, <1>3, <1>4, <1>5, <1>6 DEF Step, Work

(* A handler that finds the group busy marks its stages; one mark is taken *)
(* away only by a handler that is alone.                                   *)
LEMMA OverlapStep ==
  ASSUME TypeOK, InGroups, OverlapsMarked, NEW t \in Threads, Step(t)
  PROVE  OverlapsMarked'
<1> SUFFICES ASSUME NEW h \in Group, NEW u \in Threads, NEW w \in Threads, u # w,
                    Busy(u, h)', Busy(w, h)'
             PROVE  StagesOf(h) \subseteq raced'
  BY DEF OverlapsMarked, StagesOf
<1> USE DEF Busy
<1>1. ASSUME NEW g \in Group, Arrival(t, g) PROVE StagesOf(h) \subseteq raced'
  <2>1. CASE u # t /\ w # t BY <1>1, <2>1, Received DEF OverlapsMarked
  <2>2. CASE u = t \/ w = t
    <3>1. h = g BY <1>1, <2>2, Received
    <3>2. ~Alone(t, g) BY <1>1, <2>2, <3>1, Received DEF Alone
    <3> QED BY <1>1, <3>1, <3>2, Received
  <2> QED BY <2>1, <2>2
<1>2. ASSUME Work(t), Busy(u, h), Busy(w, h), raced' = raced PROVE StagesOf(h) \subseteq raced'
  BY <1>2 DEF OverlapsMarked
<1>3. CASE Count(t)
  <2>1. Busy(u, h) /\ Busy(w, h) BY <1>3, Counted
  <2>2. StagesOf(h) \subseteq raced BY <2>1 DEF OverlapsMarked
  <2>3. PICK s \in StagesOf(req[t].group) : raced' = IF Alone(t, req[t].group) THEN raced \ {s} ELSE raced
    BY <1>3, Counted
  <2>4. CASE req[t].group = h
    <3>1. ~Alone(t, h) BY <2>1 DEF Alone
    <3> QED BY <2>2, <2>3, <2>4, <3>1
  <2>5. CASE req[t].group # h
    <3>1. req[t].group \in Group BY TypeIs DEF Handler
    <3>2. s \notin StagesOf(h) BY <2>3, <2>5, <3>1, GroupsApart
    <3> QED BY <2>2, <2>3, <3>2
  <2> QED BY <2>4, <2>5
<1>4. CASE Set(t) BY <1>4, <1>2, WasSet DEF Work
<1>5. CASE Look(t) BY <1>5, <1>2, Looked DEF Work
<1>6. CASE Write(t) BY <1>6, <1>2, Written DEF Work, Idle
<1>7. CASE Begin(t) BY <1>7, <1>2, Begun DEF Work
<1> QED BY <1>1, <1>3, <1>4, <1>5, <1>6, <1>7 DEF Step, Work

(* Of a stage that is not marked, no second handler is at work.            *)
LEMMA SoleHandler ==
  ASSUME TypeOK, InGroups, OverlapsMarked, NEW t \in Threads, NEW u \in Threads \ {t},
         NEW g \in Group, Busy(t, g), Busy(u, g)
  PROVE  StagesOf(g) \subseteq raced /\ ~Alone(t, g)
  BY DEF OverlapsMarked, Alone, Busy

LEMMA SettingIn ==
  ASSUME TypeOK, InGroups, NEW u \in Threads, NEW g \in Group, NEW s \in StagesOf(g),
         Setting(u, s)
  PROVE  Busy(u, g)
<1>1. req[u].group \in Group /\ s \in StagesOf(req[u].group)
  BY TypeIs DEF Setting, InGroups, InGroup, Handler
<1> QED BY <1>1, GroupsApart DEF Busy, Setting

LEMMA TruthStep ==
  ASSUME TypeOK, InGroups, OverlapsMarked, TruthUnderWay, NEW t \in Threads, Step(t)
  PROVE  TruthUnderWay'
<1> DEFINE G == req[t].group
<1> SUFFICES ASSUME NEW s \in Effects, s \notin raced'
             PROVE  /\ (\A u \in Threads : ~Setting(u, s)') => Truthful(stage'[s])
                    /\ \A u \in Threads :
                         Setting(u, s)' => Truthful(Applied(stage'[s], req'[u].verdict))
  BY DEF TruthUnderWay, Truthful, Applied
<1>0. s \in Stage /\ G \in Group BY HysteresisAssumption, TypeIs DEF Handler
(* A step that leaves the record of s and those who set it alone.          *)
<1>1. ASSUME s \notin raced, stage'[s] = stage[s], ~Setting(t, s), ~Setting(t, s)',
             \A u \in Threads \ {t} : req'[u] = req[u]
      PROVE  /\ (\A u \in Threads : ~Setting(u, s)') => Truthful(stage'[s])
             /\ \A u \in Threads :
                  Setting(u, s)' => Truthful(Applied(stage'[s], req'[u].verdict))
  BY <1>1 DEF TruthUnderWay, Setting
<1>2. ASSUME NEW g \in Group, Arrival(t, g)
      PROVE  /\ (\A u \in Threads : ~Setting(u, s)') => Truthful(stage'[s])
             /\ \A u \in Threads :
                  Setting(u, s)' => Truthful(Applied(stage'[s], req'[u].verdict))
  <2>1. s \notin raced BY <1>2, Received
  <2>2. ~Setting(t, s) /\ ~Setting(t, s)' BY <1>2, Received DEF Setting
  <2> QED BY <1>1, <1>2, <2>1, <2>2, Received
<1>3. CASE Count(t)
  <2>1. PICK x \in StagesOf(G) :
           /\ req[t].pc = "count"
           /\ \A y \in Stage \ {x} : stage'[y] = stage[y]
           /\ Truthful(Applied(stage'[x], req'[t].verdict))
           /\ \A u \in Threads \ {t} : req'[u] = req[u]
           /\ req'[t].pc = "set" /\ req'[t].now = x
           /\ raced' = IF Alone(t, G) THEN raced \ {x} ELSE raced
    BY <1>3, Counted
  <2>2. Busy(t, G) BY <2>1 DEF Busy
  <2>3. CASE s = x
    <3>1. Setting(t, s)' BY <2>1, <2>3 DEF Setting
    <3>2. ASSUME NEW u \in Threads \ {t}, Setting(u, s)' PROVE FALSE
      <4>1. Setting(u, s) BY <2>1, <3>2 DEF Setting
      <4>2. Busy(u, G) BY <4>1, <1>0, <2>1, <2>3, SettingIn
      <4>3. StagesOf(G) \subseteq raced /\ ~Alone(t, G) BY <1>0, <2>2, <4>2, SoleHandler
      <4> QED BY <2>1, <2>3, <4>3
    <3> QED BY <2>1, <2>3, <3>1, <3>2
  <2>4. CASE s # x
    <3>1. s \notin raced /\ stage'[s] = stage[s] BY <1>0, <2>1, <2>4
    <3>2. ~Setting(t, s) /\ ~Setting(t, s)' BY <2>1, <2>4 DEF Setting
    <3> QED BY <1>1, <2>1, <3>1, <3>2
  <2> QED BY <2>3, <2>4
<1>4. CASE Set(t)
  <2> DEFINE x == req[t].now
  <2>1. /\ req[t].pc = "set" /\ x \in StagesOf(G)
        /\ raced' = raced
        /\ stage'[x] = Applied(stage[x], req[t].verdict)
        /\ \A y \in Stage \ {x} : stage'[y] = stage[y]
        /\ \A u \in Threads \ {t} : req'[u] = req[u]
        /\ req'[t].pc = "count"
    BY <1>4, WasSet
  <2>2. Busy(t, G) BY <2>1 DEF Busy
  <2>3. CASE s = x
    <3>1. Truthful(stage'[s]) BY <2>1, <2>3 DEF TruthUnderWay, Setting
    <3>2. ASSUME NEW u \in Threads, Setting(u, s)' PROVE FALSE
      <4>1. u # t /\ Setting(u, s) BY <2>1, <3>2 DEF Setting
      <4>2. Busy(u, G) BY <4>1, <1>0, <2>1, <2>3, SettingIn
      <4>3. StagesOf(G) \subseteq raced BY <1>0, <2>2, <4>1, <4>2, SoleHandler
      <4> QED BY <2>1, <2>3, <4>3
    <3> QED BY <3>1, <3>2
  <2>4. CASE s # x
    <3>1. s \notin raced /\ stage'[s] = stage[s] BY <1>0, <2>1, <2>4
    <3>2. ~Setting(t, s) /\ ~Setting(t, s)' BY <2>1, <2>4 DEF Setting
    <3> QED BY <1>1, <2>1, <3>1, <3>2
  <2> QED BY <2>3, <2>4
<1>5. CASE Look(t)
  <2>1. ~Setting(t, s) /\ ~Setting(t, s)' BY <1>5, Looked DEF Setting
  <2> QED BY <1>1, <1>5, <2>1, Looked
<1>6. CASE Write(t)
  <2>1. ~Setting(t, s) /\ ~Setting(t, s)' BY <1>6, Written DEF Setting, Idle
  <2> QED BY <1>1, <1>6, <2>1, Written
<1>7. CASE Begin(t)
  <2>1. ~Setting(t, s) /\ ~Setting(t, s)' BY <1>7, Begun DEF Setting
  <2> QED BY <1>1, <1>7, <2>1, Begun
<1> QED BY <1>2, <1>3, <1>4, <1>5, <1>6, <1>7 DEF Step, Work

(* Who made an error wrong still looks at it; what is written is founded.  *)
LEMMA BlameStep ==
  ASSUME TypeOK, InGroups, OverlapsMarked, BlameCorrected, VerdictsFounded,
         NEW t \in Threads, Step(t)
  PROVE  BlameCorrected'
<1> DEFINE G == req[t].group
<1> SUFFICES ASSUME NEW h \in Group, Blamed(h)' PROVE \E u \in Threads : Corrects(u, h)'
  BY DEF BlameCorrected
<1>0. G \in Group BY TypeIs DEF Handler
<1>a. error' = h \/ (error' \in StagesOf(h) \ raced' /\ stage'[error'].state = "active")
  BY DEF Blamed, StagesOf
(* A step of a handler of another group.                                   *)
<1>1. ASSUME Blamed(h), ~Corrects(t, h), \A u \in Threads \ {t} : req'[u] = req[u]
      PROVE  \E u \in Threads : Corrects(u, h)'
  <2>1. PICK u \in Threads : Corrects(u, h) BY <1>1 DEF BlameCorrected
  <2>2. req'[u] = req[u] BY <1>1, <2>1
  <2> QED BY <2>1, <2>2 DEF Corrects
<1>2. ASSUME NEW g \in Group, Arrival(t, g) PROVE \E u \in Threads : Corrects(u, h)'
  <2>1. CASE h = g
    <3>1. Corrects(t, h)' BY <1>2, <2>1, Received DEF Corrects
    <3> QED BY <3>1
  <2>2. CASE h # g
    <3>1. error' = error BY <1>2, <2>2, Received, GroupsApart DEF Blamed, StagesOf
    <3>2. Blamed(h) BY <1>2, <3>1, Received DEF Blamed, StagesOf
    <3>3. ~Corrects(t, h) BY <1>2, Received DEF Corrects
    <3> QED BY <1>1, <1>2, <3>2, <3>3, Received
  <2> QED BY <2>1, <2>2
<1>3. CASE Count(t)
  <2>1. PICK x \in StagesOf(G) :
           /\ req[t].pc = "count" /\ error' = error
           /\ \A y \in Stage \ {x} : stage'[y] = stage[y]
           /\ \A u \in Threads \ {t} : req'[u] = req[u]
           /\ req'[t].pc = "set" /\ req'[t].group = G
           /\ raced' = IF Alone(t, G) THEN raced \ {x} ELSE raced
    BY <1>3, Counted
  <2>2. CASE h = G
    <3>1. Corrects(t, h)' BY <2>1, <2>2 DEF Corrects
    <3> QED BY <3>1
  <2>3. CASE h # G
    <3>1. x \notin StagesOf(h) /\ StagesOf(h) \subseteq Stage BY <1>0, <2>1, <2>3, GroupsApart
    <3>2. Blamed(h) BY <1>a, <2>1, <3>1 DEF Blamed
    <3>3. ~Corrects(t, h) BY <2>3 DEF Corrects
    <3> QED BY <1>1, <2>1, <3>2, <3>3
  <2> QED BY <2>2, <2>3
<1>4. CASE Set(t)
  <2>1. CASE h = G
    <3>1. Corrects(t, h)' BY <1>4, <2>1, WasSet DEF Corrects
    <3> QED BY <3>1
  <2>2. CASE h # G
    <3>1. req[t].now \notin StagesOf(h) /\ StagesOf(h) \subseteq Stage
      BY <1>0, <1>4, <2>2, WasSet, GroupsApart
    <3>2. Blamed(h) BY <1>a, <1>4, <3>1, WasSet DEF Blamed
    <3>3. ~Corrects(t, h) BY <2>2 DEF Corrects
    <3> QED BY <1>1, <1>4, <3>2, <3>3, WasSet
  <2> QED BY <2>1, <2>2
<1>5. CASE Look(t)
  <2>1. Blamed(h) BY <1>5, Looked DEF Blamed, StagesOf
  <2>2. CASE h # G
    <3>1. ~Corrects(t, h) BY <2>2 DEF Corrects
    <3> QED BY <1>1, <1>5, <2>1, <3>1, Looked
  <2>3. CASE h = G
    <3>1. req'[t].verdict # "keep" BY <1>5, <2>1, <2>3, Looked DEF Blamed
    <3> QED BY <1>5, <2>3, <3>1, Looked DEF Corrects
  <2> QED BY <2>2, <2>3
<1>6. CASE Write(t)
  <2>1. CASE req[t].verdict = "keep"
    <3>1. Blamed(h) BY <1>6, <2>1, Written DEF Blamed, StagesOf
    <3>2. ~Corrects(t, h) BY <1>6, <2>1, Written DEF Corrects
    <3> QED BY <1>1, <1>6, <3>1, <3>2, Written
  <2>2. CASE req[t].verdict # "keep"
    <3>1. error' = req[t].verdict /\ error' \in StagesOf(G) \union {"none"}
          /\ stage' = stage /\ raced' = raced /\ req[t].pc = "write"
      BY <1>6, <2>2, Written
    <3>2. "none" \notin Stage BY DEF Stage
    <3>3. error' # h BY <1>0, <3>1, GroupsApart
    <3>4. error' \in StagesOf(h) \ raced /\ stage[error'].state = "active"
      BY <3>1, <3>3 DEF Blamed, StagesOf
    <3>5. h = G BY <1>0, <3>1, <3>2, <3>4, GroupsApart
    <3> QED BY <3>1, <3>4, <3>5 DEF VerdictsFounded
  <2> QED BY <2>1, <2>2
<1>7. CASE Begin(t)
  <2>1. Blamed(h) BY <1>7, Begun DEF Blamed, StagesOf
  <2>2. CASE h = G
    <3>1. Corrects(t, h)' BY <1>7, <2>2, Begun DEF Corrects
    <3> QED BY <3>1
  <2>3. CASE h # G
    <3>1. ~Corrects(t, h) BY <2>3 DEF Corrects
    <3> QED BY <1>1, <1>7, <2>1, <3>1, Begun
  <2> QED BY <2>2, <2>3
<1> QED BY <1>2, <1>3, <1>4, <1>5, <1>6, <1>7 DEF Step, Work

LEMMA VerdictStep ==
  ASSUME TypeOK, InGroups, OverlapsMarked, VerdictsFounded, NEW t \in Threads, Step(t)
  PROVE  VerdictsFounded'
<1> DEFINE G == req[t].group
<1> SUFFICES ASSUME NEW u \in Threads, req'[u].pc = "write",
                    req'[u].verdict \in StagesOf(req'[u].group), req'[u].verdict \notin raced'
             PROVE  stage'[req'[u].verdict].state # "active"
  BY DEF VerdictsFounded, StagesOf
<1> DEFINE v == req'[u].verdict
<1>0. G \in Group /\ req[u].group \in Group BY TypeIs DEF Handler
<1>1. ASSUME req'[u] = req[u], v \notin raced, stage'[v] = stage[v]
      PROVE  stage'[v].state # "active"
  BY <1>1 DEF VerdictsFounded
<1>2. ASSUME NEW g \in Group, Arrival(t, g) PROVE stage'[v].state # "active"
  <2>1. u # t BY <1>2, Received
  <2> QED BY <1>1, <1>2, <2>1, Received
(* A handler of the same group would have marked the stage.                *)
<1>3. ASSUME u # t, req[u].pc = "write", req[t].pc # "idle", req[u].group = G
      PROVE  StagesOf(G) \subseteq raced /\ ~Alone(t, G)
  <2>1. Busy(t, G) /\ Busy(u, G) BY <1>3 DEF Busy
  <2> QED BY <1>0, <1>3, <2>1, SoleHandler
<1>4. CASE Count(t)
  <2>1. PICK x \in StagesOf(G) :
           /\ req[t].pc = "count"
           /\ \A y \in Stage \ {x} : stage'[y] = stage[y]
           /\ \A w \in Threads \ {t} : req'[w] = req[w]
           /\ req'[t].pc = "set"
           /\ raced' = IF Alone(t, G) THEN raced \ {x} ELSE raced
    BY <1>4, Counted
  <2>2. u # t /\ req'[u] = req[u] BY <2>1
  <2>3. req[u].group # G BY <1>3, <2>1, <2>2
  <2>4. v \in Stage \ {x} BY <1>0, <2>1, <2>2, <2>3, GroupsApart
  <2> QED BY <1>1, <2>1, <2>2, <2>4
<1>5. CASE Set(t)
  <2>1. u # t /\ req'[u] = req[u] /\ raced' = raced /\ req[t].pc = "set"
    BY <1>5, WasSet
  <2>2. req[u].group # G BY <1>3, <2>1
  <2>3. v \in Stage \ {req[t].now} BY <1>0, <1>5, <2>1, <2>2, WasSet, GroupsApart
  <2> QED BY <1>1, <1>5, <2>1, <2>3, WasSet
<1>6. CASE Look(t)
  <2>1. CASE u = t BY <1>6, <2>1, Looked
  <2>2. CASE u # t BY <1>1, <1>6, <2>2, Looked
  <2> QED BY <2>1, <2>2
<1>7. CASE Write(t)
  <2>1. u # t BY <1>7, Written DEF Idle
  <2> QED BY <1>1, <1>7, <2>1, Written
<1>8. CASE Begin(t)
  <2>1. u # t BY <1>8, Begun
  <2> QED BY <1>1, <1>8, <2>1, Begun
<1> QED BY <1>2, <1>4, <1>5, <1>6, <1>7, <1>8 DEF Step, Work

LEMMA InvStep == IInv /\ [Next]_vars => IInv'
<1> SUFFICES ASSUME IInv, [Next]_vars PROVE IInv' OBVIOUS
<1>1. ASSUME NEW t \in Threads, Step(t) PROVE IInv'
  BY <1>1, TypeStep, InGroupsStep, OverlapStep, TruthStep, BlameStep, VerdictStep DEF IInv
<1>2. CASE UNCHANGED vars
  BY <1>2 DEF vars, IInv, TypeOK, InGroups, InGroup, OverlapsMarked, Busy, TruthUnderWay, Setting,
     BlameCorrected, Blamed, Corrects, VerdictsFounded, StagesOf
<1> QED BY <1>1, <1>2 DEF Next, Step

THEOREM Invariance == Spec => []IInv
  BY InitInv, InvStep, PTL DEF Spec

-----------------------------------------------------------------------------
(* The state of a session keeps its type: its counters stop where they are *)
(* compared.                                                               *)
THEOREM TypeCorrect == Spec => []TypeOK
<1>1. IInv => TypeOK BY DEF IInv
<1> QED BY Invariance, <1>1, PTL

(* The state of a stage tells what its last results were, for any number   *)
(* of handlers, unless two results were applied to it at once.             *)
THEOREM HealthIsTrue == Spec => []HealthTellsTruth
<1>1. IInv => HealthTellsTruth
  <2> SUFFICES ASSUME IInv, NEW g \in Group, Quiet(g), NEW s \in StagesOf(g) \ raced
               PROVE  Truthful(stage[s])
    BY DEF HealthTellsTruth
  <2>1. s \in Effects BY GroupsApart
  <2>2. \A t \in Threads : ~Setting(t, s) BY SettingIn DEF IInv, Quiet, Busy
  <2> QED BY <2>1, <2>2 DEF IInv, TruthUnderWay
<1> QED BY Invariance, <1>1, PTL

(* The error shown is of a stage that is not healthy, whatever two groups  *)
(* and any number of handlers write and clear.                             *)
THEOREM ErrorIsFounded == Spec => []ErrorHasCause
<1>1. IInv => ErrorHasCause
  <2> SUFFICES ASSUME IInv, NEW g \in Group, Quiet(g)
               PROVE  error # g /\ (error \in StagesOf(g) \ raced => stage[error].state # "active")
    BY DEF ErrorHasCause
  <2>1. \A t \in Threads : ~Corrects(t, g) BY DEF Quiet, Corrects
  <2>2. ~Blamed(g) BY <2>1 DEF IInv, BlameCorrected
  <2> QED BY <2>2 DEF Blamed
<1> QED BY Invariance, <1>1, PTL
=============================================================================
