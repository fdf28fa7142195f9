--------------------------- MODULE AiSessionProofs ---------------------------
(* What holds of the AI session of a call however often its effect runs.   *)
EXTENDS AiSession, TLAPS

(* Runs begin in order, and a run that has not begun has no session.       *)
NotBegun == \A n \in Run : n > cur => run[n] = "new" /\ sess[n] = "none"

(* A session that runs was asked for, and its sidecar is there: no stop    *)
(* that reaches the sidecar misses it.  Its run did not fail, or the       *)
(* answer that brought it was lost.                                        *)
Alive ==
  \A n \in Run : sess[n] = "running" => up /\ (run[n] \in {"created", "done"} \/ n \in lost)

(* What is shown as running is a session.                                  *)
ShownIsRun == shown.status = "running" => shown.id # 0

IInv == TypeOK /\ ShownIsRun /\ NotBegun /\ Alive /\ NoForgottenSession /\ ScreenAgrees

LEMMA InitInv == Init => IInv
<1> SUFFICES ASSUME Init PROVE IInv OBVIOUS
<1> USE MaxRunsAssumption DEF Init, Run
<1>1. shown \in [id: 0..MaxRuns, status: {"running", "stopped"}] /\ ShownIsRun
  BY DEF ShownIsRun, NoSession
<1>4. cur \in 0..MaxRuns OBVIOUS
<1>5. /\ run \in [Run -> {"new", "off", "ensure", "prepare", "posting", "created", "done", "failed"}]
      /\ sess \in [Run -> {"none", "running", "stopped", "lost"}]
  OBVIOUS
<1>6. TypeOK BY <1>1, <1>4, <1>5, Zenon DEF TypeOK
<1>2. NotBegun /\ Alive /\ NoForgottenSession
  BY DEF NotBegun, Alive, NoForgottenSession
<1>3. ScreenAgrees BY DEF ScreenAgrees
<1> QED BY <1>1, <1>2, <1>3, <1>6 DEF IInv

(* The state keeps its type.                                               *)
LEMMA TypeStep == ASSUME TypeOK, ShownIsRun, [Next]_vars PROVE TypeOK'
<1> USE MaxRunsAssumption DEF TypeOK, Run
<1>1. ASSUME NEW on \in BOOLEAN, Rerun(on) PROVE TypeOK'
  <2>1. CleanUp \in SUBSET Run BY DEF CleanUp
  <2>2. NoSession \in [id: 0..MaxRuns, status: {"running", "stopped"}] BY DEF NoSession
  <2>3. shown' \in [id: 0..MaxRuns, status: {"running", "stopped"}]
    BY <1>1, <2>2 DEF Rerun
  <2>4. run' \in [Run -> {"new", "off", "ensure", "prepare", "posting", "created", "done",
                          "failed"}]
    BY <1>1 DEF Rerun
  <2>5. stops' \in SUBSET Run BY <1>1, <2>1 DEF Rerun
  <2>6. late' \in BOOLEAN BY <1>1 DEF Rerun
  <2>7. cur' \in 0..MaxRuns
    <3>1. cur < MaxRuns /\ cur' = cur + 1 BY <1>1 DEF Rerun
    <3> QED BY <3>1
  <2> QED BY <1>1, <2>3, <2>4, <2>5, <2>6, <2>7 DEF Rerun
<1>2. ASSUME Leave PROVE TypeOK'
  BY <1>2 DEF Leave, CleanUp
<1>3. ASSUME NEW n \in Run, Ensure(n) PROVE TypeOK'
  BY <1>3 DEF Ensure
<1>4. ASSUME NEW n \in Run, Prepare(n) PROVE TypeOK'
  BY <1>4 DEF Prepare
<1>5. ASSUME NEW n \in Run, Create(n) PROVE TypeOK'
  BY <1>5 DEF Create
<1>6. ASSUME NEW n \in Run, Adopt(n) PROVE TypeOK'
  <2>1. CASE Superseded(n) BY <1>6, <2>1 DEF Adopt
  <2>2. CASE ~Superseded(n)
    <3>1. [id |-> n, status |-> "running"] \in [id: 0..MaxRuns, status: {"running", "stopped"}]
      OBVIOUS
    <3> QED BY <1>6, <2>2, <3>1 DEF Adopt
  <2> QED BY <2>1, <2>2
<1>7. ASSUME NEW n \in Run, Fail(n) PROVE TypeOK'
  BY <1>7 DEF Fail
<1>8. ASSUME NEW n \in Run, Stop(n) PROVE TypeOK'
  BY <1>8 DEF Stop
<1>14. ASSUME NEW n \in Run, LoseStop(n) PROVE TypeOK'
  BY <1>14 DEF LoseStop
<1>9. ASSUME Ask PROVE TypeOK'
  <2>1. shown.id \in Run BY <1>9 DEF Ask, ShownIsRun
  <2>2. [id |-> shown.id, answer |-> "none"] \in Poll BY <2>1 DEF Poll
  <2> QED BY <1>9, <2>2 DEF Ask
<1>10. ASSUME NEW p \in polls, Answer(p) PROVE TypeOK'
  BY <1>10 DEF Answer, Poll
<1>15. ASSUME NEW p \in polls, LoseAnswer(p) PROVE TypeOK'
  BY <1>15 DEF LoseAnswer, Poll
<1>11. ASSUME NEW p \in polls, Arrive(p) PROVE TypeOK'
  <2>1. p.id \in Run /\ p.answer \in {"none", "running", "stopped", "lost"} BY DEF Poll
  <2>2. shown' \in [id: 0..MaxRuns, status: {"running", "stopped"}]
    BY <1>11, <2>1 DEF Arrive
  <2>3. error' \in BOOLEAN /\ late' \in BOOLEAN
    BY <1>11 DEF Arrive
  <2> QED BY <1>11, <2>2, <2>3 DEF Arrive
<1>12. ASSUME Crash PROVE TypeOK'
  BY <1>12 DEF Crash
<1>13. CASE UNCHANGED vars BY <1>13 DEF vars
<1> QED BY <1>1, <1>2, <1>3, <1>4, <1>5, <1>6, <1>7, <1>8, <1>9, <1>10, <1>11, <1>12, <1>13, <1>14,
           <1>15 DEF Next

LEMMA ShownStep == ASSUME TypeOK, ShownIsRun, [Next]_vars PROVE ShownIsRun'
<1> USE MaxRunsAssumption DEF TypeOK, ShownIsRun, Run
<1>1. ASSUME NEW on \in BOOLEAN, Rerun(on) PROVE ShownIsRun'
  BY <1>1 DEF Rerun, NoSession
<1>2. ASSUME NEW n \in Run, Adopt(n) PROVE ShownIsRun'
  BY <1>2 DEF Adopt
<1>3. ASSUME NEW p \in polls, Arrive(p) PROVE ShownIsRun'
  <2>1. p.id \in Run BY DEF Poll
  <2> QED BY <1>3, <2>1 DEF Arrive
<1>4. CASE UNCHANGED shown BY <1>4
<1> QED BY <1>1, <1>2, <1>3, <1>4
    DEF Next, vars, Leave, Ensure, Prepare, Create, Fail, Stop, LoseStop, Ask, Answer, LoseAnswer,
        Crash

LEMMA NotBegunStep == ASSUME TypeOK, NotBegun, [Next]_vars PROVE NotBegun'
<1> USE MaxRunsAssumption DEF TypeOK, NotBegun, Run
<1>1. ASSUME NEW on \in BOOLEAN, Rerun(on) PROVE NotBegun'
  BY <1>1 DEF Rerun
<1>2. ASSUME Leave PROVE NotBegun'
  BY <1>2 DEF Leave, CleanUp
<1>3. ASSUME NEW n \in Run, Ensure(n) PROVE NotBegun'
  BY <1>3 DEF Ensure
<1>4. ASSUME NEW n \in Run, Prepare(n) PROVE NotBegun'
  BY <1>4 DEF Prepare
<1>5. ASSUME NEW n \in Run, Create(n) PROVE NotBegun'
  BY <1>5 DEF Create
<1>6. ASSUME NEW n \in Run, Adopt(n) PROVE NotBegun'
  BY <1>6 DEF Adopt
<1>7. ASSUME NEW n \in Run, Fail(n) PROVE NotBegun'
  BY <1>7 DEF Fail
<1>8. ASSUME NEW n \in Run, Stop(n) PROVE NotBegun'
  BY <1>8 DEF Stop
<1>14. ASSUME NEW n \in Run, LoseStop(n) PROVE NotBegun'
  BY <1>14 DEF LoseStop
<1>9. ASSUME Ask PROVE NotBegun'
  BY <1>9 DEF Ask
<1>10. ASSUME NEW p \in polls, Answer(p) PROVE NotBegun'
  BY <1>10 DEF Answer
<1>15. ASSUME NEW p \in polls, LoseAnswer(p) PROVE NotBegun'
  BY <1>15 DEF LoseAnswer
<1>11. ASSUME NEW p \in polls, Arrive(p) PROVE NotBegun'
  BY <1>11 DEF Arrive
<1>12. ASSUME Crash PROVE NotBegun'
  BY <1>12 DEF Crash
<1>13. CASE UNCHANGED vars BY <1>13 DEF vars
<1> QED BY <1>1, <1>2, <1>3, <1>4, <1>5, <1>6, <1>7, <1>8, <1>9, <1>10, <1>11, <1>12, <1>13, <1>14,
           <1>15 DEF Next

LEMMA AliveStep == ASSUME TypeOK, NotBegun, Alive, [Next]_vars PROVE Alive'
<1> USE MaxRunsAssumption DEF TypeOK, NotBegun, Alive, Run
<1>1. ASSUME NEW on \in BOOLEAN, Rerun(on) PROVE Alive'
  BY <1>1 DEF Rerun
<1>2. ASSUME Leave PROVE Alive'
  BY <1>2 DEF Leave, CleanUp
<1>3. ASSUME NEW n \in Run, Ensure(n) PROVE Alive'
  BY <1>3 DEF Ensure
<1>4. ASSUME NEW n \in Run, Prepare(n) PROVE Alive'
  BY <1>4 DEF Prepare
<1>5. ASSUME NEW n \in Run, Create(n) PROVE Alive'
  BY <1>5 DEF Create
<1>6. ASSUME NEW n \in Run, Adopt(n) PROVE Alive'
  BY <1>6 DEF Adopt
<1>7. ASSUME NEW n \in Run, Fail(n) PROVE Alive'
  BY <1>7 DEF Fail
<1>8. ASSUME NEW n \in Run, Stop(n) PROVE Alive'
  BY <1>8 DEF Stop
<1>14. ASSUME NEW n \in Run, LoseStop(n) PROVE Alive'
  BY <1>14 DEF LoseStop
<1>9. ASSUME Ask PROVE Alive'
  BY <1>9 DEF Ask
<1>10. ASSUME NEW p \in polls, Answer(p) PROVE Alive'
  BY <1>10 DEF Answer
<1>15. ASSUME NEW p \in polls, LoseAnswer(p) PROVE Alive'
  BY <1>15 DEF LoseAnswer
<1>11. ASSUME NEW p \in polls, Arrive(p) PROVE Alive'
  BY <1>11 DEF Arrive
<1>12. ASSUME Crash PROVE Alive'
  BY <1>12 DEF Crash
<1>13. CASE UNCHANGED vars BY <1>13 DEF vars
<1> QED BY <1>1, <1>2, <1>3, <1>4, <1>5, <1>6, <1>7, <1>8, <1>9, <1>10, <1>11, <1>12, <1>13, <1>14,
           <1>15 DEF Next

(* The clean-up of the current run finds its session as soon as the answer *)
(* that brought it is there; an answer that comes later finds the run      *)
(* superseded.                                                             *)
LEMMA ForgottenStep ==
  ASSUME TypeOK, NotBegun, Alive, NoForgottenSession, [Next]_vars PROVE NoForgottenSession'
<1> USE MaxRunsAssumption DEF TypeOK, NotBegun, Alive, NoForgottenSession, Superseded, Run
<1>1. ASSUME NEW on \in BOOLEAN, Rerun(on) PROVE NoForgottenSession'
  BY <1>1 DEF Rerun, CleanUp
<1>2. ASSUME Leave PROVE NoForgottenSession'
  BY <1>2 DEF Leave, CleanUp
<1>3. ASSUME NEW n \in Run, Ensure(n) PROVE NoForgottenSession'
  BY <1>3 DEF Ensure
<1>4. ASSUME NEW n \in Run, Prepare(n) PROVE NoForgottenSession'
  BY <1>4 DEF Prepare
<1>5. ASSUME NEW n \in Run, Create(n) PROVE NoForgottenSession'
  BY <1>5 DEF Create
<1>6. ASSUME NEW n \in Run, Adopt(n) PROVE NoForgottenSession'
  BY <1>6 DEF Adopt
<1>7. ASSUME NEW n \in Run, Fail(n) PROVE NoForgottenSession'
  BY <1>7 DEF Fail
<1>8. ASSUME NEW n \in Run, Stop(n) PROVE NoForgottenSession'
  BY <1>8 DEF Stop
<1>14. ASSUME NEW n \in Run, LoseStop(n) PROVE NoForgottenSession'
  BY <1>14 DEF LoseStop
<1>9. ASSUME Ask PROVE NoForgottenSession'
  BY <1>9 DEF Ask
<1>10. ASSUME NEW p \in polls, Answer(p) PROVE NoForgottenSession'
  BY <1>10 DEF Answer
<1>15. ASSUME NEW p \in polls, LoseAnswer(p) PROVE NoForgottenSession'
  BY <1>15 DEF LoseAnswer
<1>11. ASSUME NEW p \in polls, Arrive(p) PROVE NoForgottenSession'
  BY <1>11 DEF Arrive
<1>12. ASSUME Crash PROVE NoForgottenSession'
  BY <1>12 DEF Crash
<1>13. CASE UNCHANGED vars BY <1>13 DEF vars
<1> QED BY <1>1, <1>2, <1>3, <1>4, <1>5, <1>6, <1>7, <1>8, <1>9, <1>10, <1>11, <1>12, <1>13, <1>14,
           <1>15 DEF Next

LEMMA ScreenStep == ASSUME TypeOK, NotBegun, ScreenAgrees, [Next]_vars PROVE ScreenAgrees'
<1> USE MaxRunsAssumption DEF TypeOK, NotBegun, ScreenAgrees, Superseded, Run
<1>1. ASSUME NEW on \in BOOLEAN, Rerun(on) PROVE ScreenAgrees'
  BY <1>1 DEF Rerun, NoSession
<1>2. ASSUME Leave PROVE ScreenAgrees'
  BY <1>2 DEF Leave
<1>3. ASSUME NEW n \in Run, Ensure(n) PROVE ScreenAgrees'
  BY <1>3 DEF Ensure
<1>4. ASSUME NEW n \in Run, Prepare(n) PROVE ScreenAgrees'
  BY <1>4 DEF Prepare
<1>5. ASSUME NEW n \in Run, Create(n) PROVE ScreenAgrees'
  BY <1>5 DEF Create
<1>6. ASSUME NEW n \in Run, Adopt(n) PROVE ScreenAgrees'
  BY <1>6 DEF Adopt
<1>7. ASSUME NEW n \in Run, Fail(n) PROVE ScreenAgrees'
  BY <1>7 DEF Fail
<1>8. ASSUME NEW n \in Run, Stop(n) PROVE ScreenAgrees'
  BY <1>8 DEF Stop
<1>14. ASSUME NEW n \in Run, LoseStop(n) PROVE ScreenAgrees'
  BY <1>14 DEF LoseStop
<1>9. ASSUME Ask PROVE ScreenAgrees'
  BY <1>9 DEF Ask
<1>10. ASSUME NEW p \in polls, Answer(p) PROVE ScreenAgrees'
  BY <1>10 DEF Answer
<1>15. ASSUME NEW p \in polls, LoseAnswer(p) PROVE ScreenAgrees'
  BY <1>15 DEF LoseAnswer
<1>11. ASSUME NEW p \in polls, Arrive(p) PROVE ScreenAgrees'
  <2>1. CASE UNCHANGED <<shown, late>> BY <1>11, <2>1 DEF Arrive
  <2>2. CASE /\ shown' = [id |-> p.id, status |-> p.answer]
             /\ late' = (late \/ p.id # shown.id)
             /\ UNCHANGED error
    <3>1. shown'.id = p.id BY <2>2
    <3>2. CASE p.id = shown.id /\ ~late BY <1>11, <2>2, <3>1, <3>2 DEF Arrive
    <3>3. CASE p.id # shown.id \/ late
      <4>1. late' BY <2>2, <3>3
      <4> QED BY <1>11, <2>2, <3>1, <4>1 DEF Arrive
    <3> QED BY <3>2, <3>3
  <2> QED BY <1>11, <2>1, <2>2 DEF Arrive
<1>12. ASSUME Crash PROVE ScreenAgrees'
  BY <1>12 DEF Crash
<1>13. CASE UNCHANGED vars BY <1>13 DEF vars
<1> QED BY <1>1, <1>2, <1>3, <1>4, <1>5, <1>6, <1>7, <1>8, <1>9, <1>10, <1>11, <1>12, <1>13, <1>14,
           <1>15 DEF Next

LEMMA InvStep == IInv /\ [Next]_vars => IInv'
  BY TypeStep, ShownStep, NotBegunStep, AliveStep, ForgottenStep, ScreenStep DEF IInv

THEOREM Invariance == Spec => []IInv
  BY InitInv, InvStep, PTL DEF Spec

(* The state of the session keeps its type.                                *)
THEOREM TypeCorrect == Spec => []TypeOK
<1>1. IInv => TypeOK BY DEF IInv
<1> QED BY Invariance, <1>1, PTL

(* Wherever a run was when it was superseded, the session it brings about  *)
(* is stopped or is about to be, unless the answer that brings it or its   *)
(* stop is lost.                                                           *)
THEOREM NoneForgotten == Spec => []NoForgottenSession
<1>1. IInv => NoForgottenSession BY DEF IInv
<1> QED BY Invariance, <1>1, PTL

(* The screen shows the session of the current run, its failure, or none,  *)
(* unless an answer about another session came late.                       *)
THEOREM ScreenIsRight == Spec => []ScreenAgrees
<1>1. IInv => ScreenAgrees BY DEF IInv
<1> QED BY Invariance, <1>1, PTL
-----------------------------------------------------------------------------
(* A stop is never under way for the session that is wanted: the clean-up  *)
(* of a run stops its own session only.                                    *)
StopsDue == \A n \in stops : n <= cur /\ Superseded(n)

(* A run that gave up has no session but one that was lost, and one that   *)
(* waits for its answer has asked for one.                                 *)
Asking ==
  \A n \in Run :
    /\ run[n] \in {"ensure", "prepare", "posting"} => sess[n] = "none"
    /\ run[n] \in {"created", "done"} => sess[n] # "none"

LifeInv == StopsDue /\ Asking

LEMMA LifeInvStep == ASSUME TypeOK, NotBegun, LifeInv, [Next]_vars PROVE LifeInv'
<1> USE MaxRunsAssumption DEF TypeOK, NotBegun, LifeInv, StopsDue, Asking, Superseded, Run
<1>1. ASSUME NEW on \in BOOLEAN, Rerun(on) PROVE LifeInv'
  BY <1>1 DEF Rerun, CleanUp
<1>2. ASSUME Leave PROVE LifeInv'
  BY <1>2 DEF Leave, CleanUp
<1>3. ASSUME NEW n \in Run, Ensure(n) PROVE LifeInv'
  BY <1>3 DEF Ensure
<1>4. ASSUME NEW n \in Run, Prepare(n) PROVE LifeInv'
  BY <1>4 DEF Prepare
<1>5. ASSUME NEW n \in Run, Create(n) PROVE LifeInv'
  BY <1>5 DEF Create
<1>6. ASSUME NEW n \in Run, Adopt(n) PROVE LifeInv'
  <2>1. n <= cur /\ sess[n] # "none"
    BY <1>6 DEF Adopt
  <2>2. CASE Superseded(n)
    BY <1>6, <2>1, <2>2 DEF Adopt
  <2>3. CASE ~Superseded(n)
    BY <1>6, <2>1, <2>3 DEF Adopt
  <2> QED BY <2>2, <2>3
<1>7. ASSUME NEW n \in Run, Fail(n) PROVE LifeInv'
  BY <1>7 DEF Fail
<1>8. ASSUME NEW n \in Run, Stop(n) PROVE LifeInv'
  BY <1>8 DEF Stop
<1>14. ASSUME NEW n \in Run, LoseStop(n) PROVE LifeInv'
  BY <1>14 DEF LoseStop
<1>9. ASSUME Ask PROVE LifeInv'
  BY <1>9 DEF Ask
<1>10. ASSUME NEW p \in polls, Answer(p) PROVE LifeInv'
  BY <1>10 DEF Answer
<1>15. ASSUME NEW p \in polls, LoseAnswer(p) PROVE LifeInv'
  BY <1>15 DEF LoseAnswer
<1>11. ASSUME NEW p \in polls, Arrive(p) PROVE LifeInv'
  BY <1>11 DEF Arrive
<1>12. ASSUME Crash PROVE LifeInv'
  BY <1>12 DEF Crash
<1>13. CASE UNCHANGED vars BY <1>13 DEF vars
<1> QED BY <1>1, <1>2, <1>3, <1>4, <1>5, <1>6, <1>7, <1>8, <1>9, <1>10, <1>11, <1>12, <1>13, <1>14,
           <1>15 DEF Next

LEMMA LifeInvCorrect == Spec => [](IInv /\ LifeInv)
<1>1. Init => LifeInv
  BY DEF Init, LifeInv, StopsDue, Asking
<1>2. IInv /\ LifeInv /\ [Next]_vars => LifeInv'
  BY LifeInvStep DEF IInv
<1> QED BY Invariance, <1>1, <1>2, PTL DEF Spec

(* The life of every session, before and after a step.                     *)
Life == [n \in Run |-> LifeOf(n)]

LEMMA LivesAre ==
  /\ Life = [n \in Run |-> LifeOf(n)]
  /\ Life' = [n \in Run |-> LifeOf(n)']
  BY DEF Life

LEMMA OneLife ==
  ASSUME NEW n \in Run, \A m \in Run : m # n => LifeOf(m)' = LifeOf(m)
  PROVE  Life' = [Life EXCEPT ![n] = LifeOf(n)'] /\ Life[n] = LifeOf(n)
  BY LivesAre

(* The steps of the runs and of the sidecar are those of the promise, or   *)
(* change nothing there.                                                   *)
LEMMA LifeStep ==
  ASSUME IInv, LifeInv, [Next]_vars
  PROVE  [Promise!Next]_(Promise!view)
<1> DEFINE Kept == Promise!Next \/ UNCHANGED <<open, Life>>
<1> SUFFICES Kept
  BY DEF Promise!view, Life
<1> USE MaxRunsAssumption DEF IInv, TypeOK, NotBegun, Alive, LifeInv, StopsDue, Asking, Run, Superseded
<1>s. ASSUME UNCHANGED open, \A n \in Run : LifeOf(n)' = LifeOf(n) PROVE Kept
  BY <1>s, LivesAre
<1>1. ASSUME NEW on \in BOOLEAN, Rerun(on) PROVE Kept
  <2>1. cur + 1 \in Run /\ Life[cur + 1] = "ahead"
    BY <1>1 DEF Rerun, Life, LifeOf
  <2>2. \A n \in Run :
          LifeOf(n)' = IF n # cur + 1 THEN Promise!Dismissed(n) ELSE IF on THEN "due" ELSE "over"
    BY <1>1 DEF Rerun, LifeOf, Promise!Dismissed
  <2>3. Promise!Begin(cur + 1, on)
    BY <1>1, <2>1, <2>2, LivesAre DEF Rerun, Promise!Begin, Life
  <2> QED BY <2>1, <2>3 DEF Promise!Next
<1>2. ASSUME Leave PROVE Kept
  <2>1. \A n \in Run : LifeOf(n)' = Promise!Dismissed(n)
    BY <1>2 DEF Leave, LifeOf, Promise!Dismissed
  <2>2. Promise!Leave
    BY <1>2, <2>1, LivesAre DEF Leave, Promise!Leave, Life
  <2> QED BY <2>2 DEF Promise!Next
<1>3. ASSUME NEW n \in Run, Ensure(n) PROVE Kept
  BY <1>3, <1>s DEF Ensure, LifeOf
<1>4. ASSUME NEW n \in Run, Prepare(n) PROVE Kept
  <2>1. CASE Superseded(n)
    <3>1. n <= cur /\ sess[n] = "none" /\ LifeOf(n) = "passed" /\ LifeOf(n)' = "over"
      BY <1>4, <2>1 DEF Prepare, LifeOf
    <3>2. \A m \in Run : m # n => LifeOf(m)' = LifeOf(m)
      BY <1>4 DEF Prepare, LifeOf
    <3>3. Promise!GiveUp(n)
      BY <1>4, <3>1, <3>2, OneLife DEF Prepare, Promise!GiveUp, Life
    <3> QED BY <3>3 DEF Promise!Next
  <2>2. CASE ~Superseded(n)
    BY <1>4, <2>2, <1>s DEF Prepare, LifeOf
  <2> QED BY <2>1, <2>2
<1>5. ASSUME NEW n \in Run, Create(n) PROVE Kept
  <2>1. n <= cur /\ sess[n] = "none"
    BY <1>5 DEF Create
  <2>2. /\ LifeOf(n) = IF Superseded(n) THEN "passed" ELSE "due"
        /\ LifeOf(n)' = IF Superseded(n) THEN "unwanted" ELSE "running"
    BY <1>5, <2>1 DEF Create, LifeOf
  <2>3. \A m \in Run : m # n => LifeOf(m)' = LifeOf(m)
    BY <1>5 DEF Create, LifeOf
  <2>4. Promise!Start(n)
    BY <1>5, <2>2, <2>3, OneLife DEF Create, Promise!Start, Life
  <2> QED BY <2>4 DEF Promise!Next
<1>6. ASSUME NEW n \in Run, Adopt(n) PROVE Kept
  BY <1>6, <1>s DEF Adopt, LifeOf
<1>7. ASSUME NEW n \in Run, Fail(n) PROVE Kept
  <2>1. CASE run[n] = "created"
    BY <1>7, <2>1, <1>s DEF Fail, LifeOf
  <2>2. CASE run[n] # "created"
    <3>1. n <= cur /\ sess[n] = "none" /\ LifeOf(n) \in {"passed", "due"} /\ LifeOf(n)' = "over"
      BY <1>7, <2>2 DEF Fail, LifeOf
    <3>2. \A m \in Run : m # n => LifeOf(m)' = LifeOf(m)
      BY <1>7 DEF Fail, LifeOf
    <3>3. Promise!GiveUp(n)
      BY <1>7, <3>1, <3>2, OneLife DEF Fail, Promise!GiveUp, Life
    <3> QED BY <3>3 DEF Promise!Next
  <2> QED BY <2>1, <2>2
<1>8. ASSUME NEW n \in Run, Stop(n) PROVE Kept
  <2>1. CASE up /\ sess[n] = "running"
    <3>1. n <= cur /\ LifeOf(n) = "unwanted" /\ LifeOf(n)' = "over"
      BY <1>8, <2>1 DEF Stop, LifeOf
    <3>2. \A m \in Run : m # n => LifeOf(m)' = LifeOf(m)
      BY <1>8 DEF Stop, LifeOf
    <3>3. Promise!Stop(n)
      BY <1>8, <3>1, <3>2, OneLife DEF Stop, Promise!Stop, Life
    <3> QED BY <3>3 DEF Promise!Next
  <2>2. CASE ~(up /\ sess[n] = "running")
    BY <1>8, <2>2, <1>s DEF Stop, LifeOf
  <2> QED BY <2>1, <2>2
<1>12. ASSUME NEW n \in Run, LoseStop(n) PROVE Kept
  BY <1>12, <1>s DEF LoseStop, LifeOf
<1>9. CASE Ask \/ \E p \in polls : Answer(p) \/ LoseAnswer(p) \/ Arrive(p)
  BY <1>9, <1>s DEF Ask, Answer, LoseAnswer, Arrive, LifeOf
<1>10. ASSUME Crash PROVE Kept
  <2>1. Promise!Crash
    BY <1>10, LivesAre DEF Crash, Promise!Crash, LifeOf, Life
  <2> QED BY <2>1 DEF Promise!Next
<1>11. CASE UNCHANGED vars
  BY <1>11, <1>s DEF vars, LifeOf
<1> QED BY <1>1, <1>2, <1>3, <1>4, <1>5, <1>6, <1>7, <1>8, <1>9, <1>10, <1>11, <1>12
    DEF Next

(* The AI sessions of a call keep the promise of SessionLife, however      *)
(* often the effect runs and whatever requests come late.                  *)
THEOREM LifeKept == Spec => KeepsLife
<1>1. Init => Promise!Init
  BY MaxRunsAssumption DEF Init, Promise!Init, LifeOf, Run
<1>2. IInv /\ LifeInv /\ [Next]_vars => [Promise!Next]_(Promise!view)
  BY LifeStep
<1> QED BY <1>1, <1>2, LifeInvCorrect, PTL DEF Spec, KeepsLife, Promise!Spec
=============================================================================
