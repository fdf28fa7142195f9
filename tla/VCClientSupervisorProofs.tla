----------------------- MODULE VCClientSupervisorProofs -----------------------
(***************************************************************************)
(* Theorems about VCClientSupervisor for every restart budget, window,     *)
(* number of starts and set of processes.                                  *)
(***************************************************************************)
EXTENDS VCClientSupervisor, FiniteSetTheorems, SequenceTheorems, TLAPS

-----------------------------------------------------------------------------
Ages == 0 .. Window + 1

(* Pruning keeps a sequence of ages and does not lengthen it.              *)
LEMMA PrunedShorter ==
  ASSUME NEW s \in Seq(Ages)
  PROVE  Pruned(s) \in Seq(Ages) /\ Len(Pruned(s)) <= Len(s)
<1> DEFINE old == {i \in DOMAIN s : s[i] > Window}
<1>1. IsFiniteSet(1 .. Len(s)) /\ Cardinality(1 .. Len(s)) = Len(s)
  <2>1. Len(s) \in Nat
    BY LenProperties
  <2>2. /\ IsFiniteSet(1 .. Len(s))
        /\ Cardinality(1 .. Len(s)) = IF 1 > Len(s) THEN 0 ELSE Len(s) - 1 + 1
    BY <2>1, FS_Interval
  <2> QED
    BY <2>1, <2>2
<1>2. old \subseteq 1 .. Len(s)
  BY LenProperties
<1>3. Cardinality(old) \in Nat /\ Cardinality(old) <= Len(s)
  BY <1>1, <1>2, FS_Subset, FS_CardinalityType
<1>4. Expired(s) = Cardinality(old)
  BY DEF Expired
<1> HIDE DEF old
<1>5. Expired(s) \in 0 .. Len(s)
  BY <1>3, <1>4, LenProperties
<1>6. /\ SubSeq(s, Expired(s) + 1, Len(s)) \in Seq(Ages)
      /\ Len(SubSeq(s, Expired(s) + 1, Len(s))) <= Len(s)
  BY <1>5, SubSeqProperties, LenProperties
<1> QED
  BY <1>6 DEF Pruned

LEMMA AgedTimes ==
  ASSUME NEW s \in Seq(Ages)
  PROVE  LET t == [i \in DOMAIN s |-> IF s[i] <= Window THEN s[i] + 1 ELSE s[i]]
         IN  t \in Seq(Ages) /\ Len(t) = Len(s)
<1> DEFINE t == [i \in 1 .. Len(s) |-> IF s[i] <= Window THEN s[i] + 1 ELSE s[i]]
<1>1. DOMAIN s = 1 .. Len(s) /\ Len(s) \in Nat /\ \A i \in 1 .. Len(s) : s[i] \in Ages
  BY LenProperties, ElementOfSeq
<1>2. \A i \in 1 .. Len(s) :
        (IF s[i] <= Window THEN s[i] + 1 ELSE s[i]) \in Ages
  BY <1>1, BudgetAssumption DEF Ages
<1>3. t \in Seq(Ages) /\ Len(t) = Len(s)
  BY <1>1, <1>2
<1> QED
  BY <1>1, <1>3

(* A crash that was just registered: one entry more at most.               *)
LEMMA RegisteredTimes ==
  ASSUME NEW s \in Seq(Ages)
  PROVE  Pruned(Append(s, 0)) \in Seq(Ages) /\ Len(Pruned(Append(s, 0))) <= Len(s) + 1
<1>1. 0 \in Ages
  BY BudgetAssumption DEF Ages
<1>2. Append(s, 0) \in Seq(Ages) /\ Len(Append(s, 0)) = Len(s) + 1
  BY <1>1, AppendProperties
<1> QED
  BY <1>2, PrunedShorter
-----------------------------------------------------------------------------
(* Every state is well typed.                                              *)
THEOREM TypeCorrect == Spec => []TypeOK
<1>1. Init => TypeOK
  <2> SUFFICES ASSUME Init PROVE TypeOK
    OBVIOUS
  <2>1. times \in Seq(0 .. Window + 1) /\ starts \in 0 .. MaxStarts
    BY BudgetAssumption, EmptySeq DEF Init
  <2> QED
    BY <2>1 DEF Init, TypeOK, States, WatchdogPcs, StopperPcs
<1>2. TypeOK /\ [Next]_vars => TypeOK'
  <2> SUFFICES ASSUME TypeOK, [Next]_vars PROVE TypeOK'
    OBVIOUS
  <2> USE DEF States, WatchdogPcs, StopperPcs
  <2>t. times \in Seq(Ages)
    BY DEF TypeOK, Ages
  <2>1. CASE UNCHANGED vars
    BY <2>1 DEF vars, TypeOK
  <2>2. CASE Start
    <3>1. starts' \in 0 .. MaxStarts
      BY <2>2, BudgetAssumption DEF Start, TypeOK
    <3> QED
      BY <2>2, <3>1 DEF Start, TypeOK
  <2>3. CASE StartMisconfigured
    BY <2>3 DEF StartMisconfigured, TypeOK
  <2>4. CASE Status
    BY <2>4, <2>t, PrunedShorter DEF Status, TypeOK, Ages
  <2>5. CASE Watchdog
    <3>1. ASSUME NEW from \in WatchdogPcs, Leave(from) PROVE TypeOK'
      BY <2>5, <3>1 DEF Watchdog, Leave, TypeOK
    <3>2. ASSUME NEW p, Terminate(p)
          PROVE  /\ child' \in [Child -> {"none", "booting", "serving"}]
                 /\ parent' \in [Child -> {"gone", "up", "spared"}]
      BY <3>2 DEF Terminate, TypeOK
    <3>3. CASE Loop
      BY <2>5, <3>1, <3>3 DEF Watchdog, Loop, TypeOK
    <3>4. CASE Spawn
      BY <2>5, <3>4 DEF Watchdog, Spawn, TypeOK
    <3>5. CASE Publish
      BY <2>5, <3>5 DEF Watchdog, Publish, MarkUnlessStopped, TypeOK
    <3>6. CASE Boot
      BY <2>5, <3>1, <3>6 DEF Watchdog, Boot, Answerer, TypeOK
    <3>7. CASE BecomeHealthy
      BY <2>5, <3>7 DEF Watchdog, BecomeHealthy, TypeOK
    <3>8. CASE BootFailed
      BY <2>5, <3>1, <3>2, <3>8 DEF Watchdog, BootFailed, TypeOK
    <3>9. CASE Watch
      BY <2>5, <3>1, <3>9 DEF Watchdog, Watch, TypeOK
    <3>10. CASE RegisterCrash
      BY <2>5, <2>t, <3>10, RegisteredTimes DEF Watchdog, RegisterCrash, TypeOK, Ages
    <3>11. CASE Budget
      BY <2>5, <2>t, <3>1, <3>11, PrunedShorter DEF Watchdog, Budget, TypeOK, Ages
    <3>12. CASE GiveUp
      BY <2>5, <3>12 DEF Watchdog, GiveUp, TypeOK
    <3>13. CASE Cooling
      BY <2>5, <2>t, <3>1, <3>13, PrunedShorter DEF Watchdog, Cooling, TypeOK, Ages
    <3>14. CASE Backoff
      BY <2>5, <3>14 DEF Watchdog, Backoff, MarkUnlessStopped, TypeOK
    <3>15. CASE Waiting
      BY <2>5, <3>1, <3>15 DEF Watchdog, Waiting, TypeOK
    <3> QED
      BY <2>5, <3>3, <3>4, <3>5, <3>6, <3>7, <3>8, <3>9, <3>10, <3>11, <3>12, <3>13,
         <3>14, <3>15 DEF Watchdog
  <2>6. CASE Stopper
    <3>1. CASE StopKill
      <4>1. /\ child' \in [Child -> {"none", "booting", "serving"}]
            /\ parent' \in [Child -> {"gone", "up", "spared"}]
        BY <3>1 DEF StopKill, Terminate, TypeOK
      <4> QED
        BY <3>1, <4>1 DEF StopKill, TypeOK
    <3>2. CASE StopRequest
      BY <3>2 DEF StopRequest, TypeOK
    <3>3. CASE StopMark
      BY <3>3 DEF StopMark, TypeOK
    <3>4. CASE StopJoin \/ Exit
      BY <3>4 DEF StopJoin, Exit, TypeOK
    <3> QED
      BY <2>6, <3>1, <3>2, <3>3, <3>4 DEF Stopper
  <2>7. ASSUME NEW c \in Child, Serve(c) \/ Die(c) \/ Orphan(c) PROVE TypeOK'
    BY <2>7 DEF Serve, Die, Orphan, TypeOK
  <2>8. CASE Tick
    BY <2>8, <2>t, AgedTimes DEF Tick, TypeOK, Ages
  <2> QED
    BY <2>1, <2>2, <2>3, <2>4, <2>5, <2>6, <2>7, <2>8 DEF Next
<1> QED
  BY <1>1, <1>2, PTL DEF Spec

-----------------------------------------------------------------------------
(* CrashBudget, strengthened with what each stage of the watchdog knows of *)
(* the crashes on record.                                                  *)
Launching == {"loop", "spawn", "publish", "boot", "probed", "failed", "watch", "crash"}

BudgetInv ==
  /\ Alive => starts > 0
  /\ pc \in Launching => Len(times) <= MaxRestarts + starts - 1
  /\ pc \in {"backoff", "waiting"} => Len(times) <= MaxRestarts
  /\ Len(times) <= MaxRestarts + starts

(* However start(), stop() and the crashes interleave, the crashes on      *)
(* record stay within the budget.                                          *)
THEOREM BudgetCorrect == Spec => []CrashBudget
<1> USE BudgetAssumption DEF Launching, Alive
<1>1. Init => BudgetInv
  BY DEF Init, BudgetInv
<1>2. TypeOK /\ BudgetInv /\ [Next]_vars => BudgetInv'
  <2> SUFFICES ASSUME TypeOK, BudgetInv, [Next]_vars PROVE BudgetInv'
    OBVIOUS
  <2>t. times \in Seq(Ages) /\ starts \in Nat /\ Len(times) \in Nat
    BY LenProperties DEF TypeOK, Ages
  <2>p. Len(Pruned(times)) \in Nat /\ Len(Pruned(times)) <= Len(times)
    BY <2>t, PrunedShorter, LenProperties
  <2>1. CASE UNCHANGED vars
    BY <2>1 DEF vars, BudgetInv
  <2>2. CASE Start
    BY <2>2, <2>t DEF Start, BudgetInv
  <2>3. CASE StartMisconfigured
    BY <2>3 DEF StartMisconfigured, BudgetInv
  <2>4. CASE Status
    BY <2>4, <2>t, <2>p DEF Status, BudgetInv
  <2>5. CASE Watchdog
    <3>1. CASE Loop \/ Spawn \/ Publish \/ Boot \/ BecomeHealthy \/ BootFailed \/ Watch
      BY <2>5, <2>t, <3>1 DEF Watchdog, Loop, Spawn, Publish, Boot, BecomeHealthy,
                              BootFailed, Watch, Leave, BudgetInv
    <3>2. CASE RegisterCrash
      <4>1. Len(times') \in Nat /\ Len(times') <= Len(times) + 1
        BY <2>t, <3>2, RegisteredTimes, LenProperties DEF RegisterCrash
      <4> QED
        BY <2>5, <2>t, <3>2, <4>1 DEF Watchdog, RegisterCrash, BudgetInv
    <3>3. CASE Budget
      BY <2>5, <2>t, <2>p, <3>3 DEF Watchdog, Budget, Leave, BudgetInv
    <3>4. CASE GiveUp \/ Backoff \/ Waiting
      BY <2>5, <2>t, <3>4 DEF Watchdog, GiveUp, Backoff, Waiting, Leave, BudgetInv
    <3>5. CASE Cooling
      BY <2>5, <2>t, <2>p, <3>5 DEF Watchdog, Cooling, Leave, BudgetInv
    <3> QED
      BY <2>5, <3>1, <3>2, <3>3, <3>4, <3>5 DEF Watchdog
  <2>6. CASE Stopper
    BY <2>6 DEF Stopper, StopRequest, StopMark, StopKill, StopJoin, Exit, BudgetInv
  <2>7. ASSUME NEW c \in Child, Serve(c) \/ Die(c) \/ Orphan(c) PROVE BudgetInv'
    BY <2>7 DEF Serve, Die, Orphan, BudgetInv
  <2>8. CASE Tick
    <3>1. Len(times') = Len(times)
      BY <2>8, <2>t, AgedTimes DEF Tick
    <3> QED
      BY <2>8, <3>1 DEF Tick, BudgetInv
  <2> QED
    BY <2>1, <2>2, <2>3, <2>4, <2>5, <2>6, <2>7, <2>8 DEF Next
<1>3. BudgetInv => CrashBudget
  BY DEF BudgetInv, CrashBudget
<1> QED
  BY <1>1, <1>2, <1>3, TypeCorrect, PTL DEF Spec
-----------------------------------------------------------------------------
(* OneChildPerStart, strengthened: while the watchdog holds a process, the *)
(* others were left behind by earlier watchdogs; between two launches it   *)
(* has none of its own.                                                    *)
Holding == {"publish", "boot", "probed", "failed", "watch"}
Between == {"loop", "spawn", "crash", "budget", "giveup", "cooling", "backoff", "waiting"}

ChildInv ==
  /\ Alive => starts > 0
  /\ pc \in Holding => mine \in Child /\ Cardinality(Kept \ {mine}) <= starts - 1
  /\ pc \in Between => Cardinality(Kept) <= starts - 1
  /\ Cardinality(Kept) <= starts

LEMMA ChildCount ==
  ASSUME NEW S \in SUBSET Child
  PROVE  IsFiniteSet(S) /\ Cardinality(S) \in Nat
BY ChildAssumption, FS_Subset, FS_CardinalityType

LEMMA FewerChildren ==
  ASSUME NEW S \in SUBSET Child, NEW T \in SUBSET S
  PROVE  Cardinality(T) <= Cardinality(S)
BY ChildCount, FS_Subset

LEMMA OneMoreChild ==
  ASSUME NEW S \in SUBSET Child, NEW c \in Child
  PROVE  Cardinality(S) <= Cardinality(S \ {c}) + 1
<1>1. IsFiniteSet(S) /\ Cardinality(S) \in Nat
  BY ChildCount
<1>2. Cardinality(S \ {c}) = IF c \in S THEN Cardinality(S) - 1 ELSE Cardinality(S)
  BY <1>1, FS_RemoveElement
<1> QED
  BY <1>1, <1>2

(* A step that starts no process and keeps the watchdog where it is.       *)
LEMMA NoNewChild ==
  ASSUME TypeOK, ChildInv, Kept' \subseteq Kept, UNCHANGED <<starts, mine>>,
         \/ pc' = pc
         \/ pc \in Holding /\ pc' \in Holding
         \/ pc \in Between /\ pc' \in Between
         \/ pc' = "done"
  PROVE  ChildInv'
<1>1. Kept \in SUBSET Child /\ Kept \ {mine} \in SUBSET Child
  BY DEF Kept
<1>2. Kept' \in SUBSET Kept /\ Kept' \ {mine} \in SUBSET (Kept \ {mine})
  OBVIOUS
<1>3. /\ Cardinality(Kept') <= Cardinality(Kept)
      /\ Cardinality(Kept' \ {mine}) <= Cardinality(Kept \ {mine})
  BY <1>1, <1>2, FewerChildren
<1>4. /\ Cardinality(Kept) \in Nat /\ Cardinality(Kept \ {mine}) \in Nat
      /\ Cardinality(Kept') \in Nat /\ Cardinality(Kept' \ {mine}) \in Nat
  BY <1>1, <1>2, ChildCount
<1>5. starts \in Nat
  BY BudgetAssumption DEF TypeOK
<1> QED
  BY <1>3, <1>4, <1>5 DEF ChildInv, Alive, Holding, Between

(* A step after which the process the watchdog held is not running.        *)
LEMMA GivesUpChild ==
  ASSUME TypeOK, ChildInv, Kept' \subseteq Kept \ {mine}, UNCHANGED <<starts, mine>>,
         pc \in Holding, pc' = "crash"
  PROVE  ChildInv'
<1>1. Kept \ {mine} \in SUBSET Child /\ Kept' \in SUBSET (Kept \ {mine})
  BY DEF Kept
<1>2. Cardinality(Kept') <= Cardinality(Kept \ {mine})
  BY <1>1, FewerChildren
<1>3. Cardinality(Kept') \in Nat /\ Cardinality(Kept \ {mine}) \in Nat /\ starts \in Nat
  BY <1>1, ChildCount, BudgetAssumption DEF TypeOK
<1> QED
  BY <1>2, <1>3 DEF ChildInv, Alive, Holding, Between

LEMMA SpawnChild ==
  ASSUME TypeOK, ChildInv, Spawn, UNCHANGED starts
  PROVE  ChildInv'
<1>0. /\ Kept \in SUBSET Child /\ Cardinality(Kept) \in Nat /\ starts \in Nat
      /\ Cardinality(Kept) <= starts - 1 /\ starts > 0
  BY ChildCount, BudgetAssumption DEF Kept, TypeOK, Spawn, ChildInv, Between, Alive
<1>1. CASE pc' = "crash" /\ UNCHANGED parent
  BY <1>0, <1>1 DEF ChildInv, Kept, Alive, Holding, Between
<1>2. CASE \E c \in Child : /\ parent' = [parent EXCEPT ![c] = "up"]
                           /\ mine' = c /\ pc' = "publish"
  <2>1. PICK c \in Child : /\ parent' = [parent EXCEPT ![c] = "up"]
                          /\ mine' = c /\ pc' = "publish"
    BY <1>2
  <2>2. Kept' \in SUBSET Child /\ Kept' \ {c} \in SUBSET Kept
    BY <2>1 DEF Kept, TypeOK
  <2>3. /\ Cardinality(Kept' \ {mine'}) <= Cardinality(Kept)
        /\ Cardinality(Kept' \ {mine'}) \in Nat
    BY <1>0, <2>1, <2>2, FewerChildren, ChildCount
  <2>4. Cardinality(Kept') <= Cardinality(Kept' \ {c}) + 1
    BY <1>0, <2>2, OneMoreChild
  <2>5. Cardinality(Kept') \in Nat
    BY <1>0, <2>2, ChildCount
  <2> QED
    BY <1>0, <2>1, <2>3, <2>4, <2>5 DEF ChildInv, Alive, Holding, Between
<1> QED
  BY <1>1, <1>2 DEF Spawn

LEMMA ChildAlways == Spec => []ChildInv
<1>1. Init => ChildInv
  <2> SUFFICES ASSUME Init PROVE ChildInv
    OBVIOUS
  <2>1. Kept = {}
    BY DEF Init, Kept
  <2> QED
    BY <2>1, FS_EmptySet DEF Init, ChildInv, Alive, Holding, Between
<1>2. TypeOK /\ ChildInv /\ [Next]_vars => ChildInv'
  <2> SUFFICES ASSUME TypeOK, ChildInv, [Next]_vars PROVE ChildInv'
    OBVIOUS
  <2>0. \A p : Terminate(p) => Kept' \subseteq Kept /\ (p \in Child => p \notin Kept')
    BY ChildAssumption DEF Terminate, Running, Kept, TypeOK
  <2>1. CASE UNCHANGED vars \/ StartMisconfigured \/ Status \/ Tick
    <3>1. UNCHANGED <<starts, mine, pc, parent>>
      BY <2>1 DEF vars, StartMisconfigured, Status, Tick
    <3> QED
      BY <3>1, NoNewChild DEF Kept
  <2>2. CASE Start
    <3>1. Cardinality(Kept) \in Nat /\ starts \in Nat
      BY ChildCount, BudgetAssumption DEF Kept, TypeOK
    <3>2. Kept' = Kept
      BY <2>2 DEF Start, Kept
    <3> QED
      BY <2>2, <3>1, <3>2 DEF Start, ChildInv, Alive, Holding, Between
  <2>3. CASE Watchdog
    <3>0. UNCHANGED starts
      BY <2>3 DEF Watchdog
    <3>1. CASE Spawn
      BY <3>0, <3>1, SpawnChild
    <3>2. CASE BootFailed
      <4>1. CASE Leave("failed")
        BY <3>0, <4>1, NoNewChild DEF Leave, Kept
      <4>2. CASE ~Leave("failed")
        <5>1. Terminate(mine) /\ pc = "failed" /\ pc' = "crash" /\ UNCHANGED mine
          BY <3>2, <4>2 DEF BootFailed
        <5>2. mine \in Child
          BY <5>1 DEF ChildInv, Holding
        <5>3. Kept' \subseteq Kept \ {mine}
          BY <2>0, <5>1, <5>2
        <5> QED
          BY <3>0, <5>1, <5>3, GivesUpChild DEF Holding
      <4> QED
        BY <4>1, <4>2
    <3>3. CASE Watch
      <4>1. CASE Leave("watch")
        BY <3>0, <4>1, NoNewChild DEF Leave, Kept
      <4>2. CASE ~Leave("watch")
        <5>1. /\ ~Running(mine) /\ pc = "watch" /\ pc' = "crash"
              /\ UNCHANGED <<mine, parent>>
          BY <3>3, <4>2 DEF Watch
        <5>2. Kept' \subseteq Kept \ {mine}
          BY <5>1, ChildAssumption DEF Kept, Running
        <5> QED
          BY <3>0, <5>1, <5>2, GivesUpChild DEF Holding
      <4> QED
        BY <4>1, <4>2
    <3>4. CASE Loop \/ Publish \/ Boot \/ BecomeHealthy \/ RegisterCrash \/ Budget
               \/ GiveUp \/ Cooling \/ Backoff \/ Waiting
      <4>1. /\ UNCHANGED <<mine, parent>>
            /\ \/ pc' = pc
               \/ pc \in Holding /\ pc' \in Holding
               \/ pc \in Between /\ pc' \in Between
               \/ pc' = "done"
        BY <3>4 DEF Loop, Publish, Boot, BecomeHealthy, RegisterCrash, Budget, GiveUp,
                    Cooling, Backoff, Waiting, Leave, Holding, Between
      <4>2. Kept' \subseteq Kept
        BY <4>1 DEF Kept
      <4> QED
        BY <3>0, <4>1, <4>2, NoNewChild
    <3> QED
      BY <2>3, <3>1, <3>2, <3>3, <3>4 DEF Watchdog
  <2>4. CASE Stopper
    <3>1. UNCHANGED <<starts, mine, pc>>
      BY <2>4 DEF Stopper, StopRequest, StopMark, StopKill, StopJoin, Exit
    <3>2. Kept' \subseteq Kept
      BY <2>0, <2>4 DEF Stopper, StopRequest, StopMark, StopKill, StopJoin, Exit, Kept
    <3> QED
      BY <3>1, <3>2, NoNewChild
  <2>5. ASSUME NEW c \in Child, Serve(c) \/ Die(c) \/ Orphan(c) PROVE ChildInv'
    <3>1. UNCHANGED <<starts, mine, pc>> /\ Kept' \subseteq Kept
      BY <2>5 DEF Serve, Die, Orphan, Kept, TypeOK
    <3> QED
      BY <3>1, NoNewChild
  <2> QED
    BY <2>1, <2>2, <2>3, <2>4, <2>5 DEF Next
<1> QED
  BY <1>1, <1>2, TypeCorrect, PTL DEF Spec

(* Each watchdog is responsible for one process, and leaves at most one     *)
(* behind, but what a kill or the death of its parent left over.           *)
THEOREM ChildCorrect == Spec => []OneChildPerStart
<1>1. ChildInv => OneChildPerStart
  BY DEF ChildInv, OneChildPerStart
<1> QED
  BY <1>1, ChildAlways, PTL
-----------------------------------------------------------------------------
(* A probe that another VCClient answers which is whole and was not meant  *)
(* to be killed: ChildInv says that it is of an earlier start.  Otherwise  *)
(* only a probe that was answered writes "healthy", and every way out of   *)
(* the watch rewrites the state before the next launch unless the stop     *)
(* event is set.                                                           *)
HealthyInv ==
  /\ HealthyIsCurrent
  /\ pc = "probed" /\ answer = "other" => starts > 1

LEMMA OtherIsOlder ==
  ASSUME TypeOK, ChildInv, pc \in Holding, NEW c \in Kept \ {mine}
  PROVE  starts > 1
<1>1. {c} \in SUBSET (Kept \ {mine}) /\ Kept \ {mine} \in SUBSET Child
  BY DEF Kept
<1>2. Cardinality({c}) = 1 /\ Cardinality({c}) <= Cardinality(Kept \ {mine})
  BY <1>1, FewerChildren, FS_Singleton
<1>3. Cardinality(Kept \ {mine}) \in Nat /\ starts \in Nat
  BY <1>1, ChildCount, BudgetAssumption DEF TypeOK
<1> QED BY <1>2, <1>3 DEF ChildInv

(* Healthy is reported for an answer that came from the launch itself or    *)
(* from what is left of another one, unless start() was called again.      *)
THEOREM HealthyCorrect == Spec => []HealthyIsCurrent
<1>1. Init => HealthyInv
  BY DEF Init, HealthyIsCurrent, HealthyInv
<1>2. TypeOK /\ ChildInv /\ HealthyInv /\ [Next]_vars => HealthyInv'
  <2> SUFFICES ASSUME TypeOK, ChildInv, HealthyInv, [Next]_vars PROVE HealthyInv'
    OBVIOUS
  <2> USE DEF HealthyInv, HealthyIsCurrent
  <2>t. starts \in Nat
    BY BudgetAssumption DEF TypeOK
  <2>1. CASE UNCHANGED vars
    BY <2>1 DEF vars
  <2>2. CASE Start \/ StartMisconfigured \/ Status \/ Tick
    BY <2>2, <2>t DEF Start, StartMisconfigured, Status, Tick, Alive
  <2>3. CASE Watchdog
    <3>1. CASE Boot
      <4>1. CASE pc' = "probed"
        <5>1. PICK c \in Child : answer' = Answerer(c)
          BY <3>1, <4>1 DEF Boot, Leave
        <5>2. answer' = "other" => c \in Kept \ {mine}
          BY <5>1 DEF Answerer, Kept
        <5>3. pc \in Holding /\ UNCHANGED <<state, starts>> /\ (state = "healthy" => stop)
          BY <2>3, <3>1 DEF Watchdog, Boot, Leave, Holding
        <5> QED BY <2>3, <4>1, <5>2, <5>3, OtherIsOlder DEF Watchdog
      <4>2. CASE pc' # "probed"
        BY <2>3, <3>1, <4>2 DEF Watchdog, Boot, Leave
      <4> QED BY <4>1, <4>2
    <3>2. CASE ~Boot
      BY <2>3, <3>2 DEF Watchdog, Loop, Spawn, Publish, BecomeHealthy, BootFailed, Watch,
                        RegisterCrash, Budget, GiveUp, Cooling, Backoff, Waiting, Leave,
                        MarkUnlessStopped
    <3> QED BY <3>1, <3>2
  <2>4. CASE Stopper
    BY <2>4 DEF Stopper, StopRequest, StopMark, StopKill, StopJoin, Exit
  <2>5. ASSUME NEW c \in Child, Serve(c) \/ Die(c) \/ Orphan(c) PROVE HealthyInv'
    BY <2>5 DEF Serve, Die, Orphan
  <2> QED
    BY <2>1, <2>2, <2>3, <2>4, <2>5 DEF Next
<1>3. Spec => []ChildInv
  BY ChildAlways
<1> QED
  BY <1>1, <1>2, <1>3, TypeCorrect, PTL DEF Spec, HealthyInv
-----------------------------------------------------------------------------
(* Crash times in order are those that left the window, then those within. *)
InOrder(s) == \A i, j \in 1 .. Len(s) : i <= j => s[j] <= s[i]

LEMMA AgesAre ==
  ASSUME NEW s \in Seq(Ages)
  PROVE  /\ Len(s) \in Nat /\ DOMAIN s = 1 .. Len(s)
         /\ \A i \in 1 .. Len(s) : s[i] \in Ages /\ s[i] \in Nat
  BY LenProperties, ElementOfSeq, BudgetAssumption DEF Ages

LEMMA Interval ==
  ASSUME NEW a \in Nat, NEW b \in Nat, a <= b + 1
  PROVE  IsFiniteSet(a .. b) /\ Cardinality(a .. b) = b + 1 - a
<1>1. Cardinality(a .. b) = IF a > b THEN 0 ELSE b - a + 1
  BY FS_Interval
<1> QED BY <1>1, FS_Interval

(* The count of the old ones is the place where they end.                  *)
LEMMA OldFirst ==
  ASSUME NEW s \in Seq(Ages), InOrder(s)
  PROVE  /\ Expired(s) \in 0 .. Len(s)
         /\ \A i \in 1 .. Len(s) : (i <= Expired(s)) <=> (s[i] > Window)
<1> DEFINE old == {i \in DOMAIN s : s[i] > Window}
<1>0. /\ Len(s) \in Nat /\ DOMAIN s = 1 .. Len(s)
      /\ \A i \in 1 .. Len(s) : s[i] \in Nat
  BY AgesAre
<1>1. IsFiniteSet(1 .. Len(s)) /\ Cardinality(1 .. Len(s)) = Len(s)
  BY <1>0, Interval
<1>2. old \subseteq 1 .. Len(s)
  BY <1>0
<1>3. IsFiniteSet(old) /\ Cardinality(old) \in 0 .. Len(s)
  BY <1>0, <1>1, <1>2, FS_Subset, FS_CardinalityType
<1>4. Expired(s) = Cardinality(old)
  BY DEF Expired
<1>5. ASSUME NEW i \in 1 .. Len(s), s[i] > Window PROVE i <= Cardinality(old)
  <2>1. 1 .. i \subseteq old
    BY <1>0, <1>5, BudgetAssumption DEF InOrder
  <2>2. Cardinality(1 .. i) = i
    BY <1>0, Interval
  <2>3. Cardinality(1 .. i) <= Cardinality(old)
    BY <1>3, <2>1, FS_Subset
  <2> QED BY <2>2, <2>3
<1>6. ASSUME NEW i \in 1 .. Len(s), ~(s[i] > Window) PROVE ~(i <= Cardinality(old))
  <2>1. old \subseteq 1 .. (i - 1)
    BY <1>0, <1>6, BudgetAssumption DEF InOrder
  <2>2. IsFiniteSet(1 .. (i - 1)) /\ Cardinality(1 .. (i - 1)) = i - 1
    BY <1>0, Interval
  <2>3. Cardinality(old) <= i - 1
    BY <2>1, <2>2, FS_Subset
  <2> QED BY <1>0, <1>3, <2>3
<1> HIDE DEF old
<1> QED BY <1>3, <1>4, <1>5, <1>6

LEMMA ExpiredIs ==
  ASSUME NEW s \in Seq(Ages), InOrder(s), NEW k \in 0 .. Len(s),
         \A i \in 1 .. Len(s) : (i <= k) <=> (s[i] > Window)
  PROVE  Expired(s) = k
<1>0. Len(s) \in Nat
  BY AgesAre
<1>1. /\ Expired(s) \in 0 .. Len(s)
      /\ \A i \in 1 .. Len(s) : (i <= Expired(s)) <=> (i <= k)
  BY OldFirst
<1>2. CASE Expired(s) < k
  BY <1>0, <1>1, <1>2
<1>3. CASE k < Expired(s)
  BY <1>0, <1>1, <1>3
<1> QED BY <1>0, <1>1, <1>2, <1>3

(* Pruning leaves the crashes within the window, in order.                 *)
LEMMA PrunedIs ==
  ASSUME NEW s \in Seq(Ages), InOrder(s)
  PROVE  /\ Pruned(s) \in Seq(Ages) /\ InOrder(Pruned(s))
         /\ Len(Pruned(s)) = Len(s) - Expired(s)
         /\ \A i \in 1 .. Len(s) - Expired(s) :
              Pruned(s)[i] = s[i + Expired(s)] /\ Pruned(s)[i] <= Window
<1>0. /\ Len(s) \in Nat /\ \A i \in 1 .. Len(s) : s[i] \in Ages /\ s[i] \in Nat
  BY AgesAre
<1>1. /\ Expired(s) \in 0 .. Len(s)
      /\ \A i \in 1 .. Len(s) : (i <= Expired(s)) <=> (s[i] > Window)
  BY OldFirst
<1> DEFINE m == Expired(s) + 1
<1>2. m \in Int /\ Len(s) \in Int /\ \A i \in m .. Len(s) : s[i] \in Ages
  BY <1>0, <1>1
<1>3. /\ SubSeq(s, m, Len(s)) \in Seq(Ages)
      /\ Len(SubSeq(s, m, Len(s))) = IF m <= Len(s) THEN Len(s) - m + 1 ELSE 0
      /\ \A i \in 1 .. Len(s) - m + 1 : SubSeq(s, m, Len(s))[i] = s[m + i - 1]
  BY <1>2, SubSeqProperties
<1>4. Pruned(s) = SubSeq(s, m, Len(s))
  BY DEF Pruned
<1>5. Len(Pruned(s)) = Len(s) - Expired(s)
  BY <1>0, <1>1, <1>3, <1>4
<1>6. ASSUME NEW i \in 1 .. Len(s) - Expired(s)
      PROVE  Pruned(s)[i] = s[i + Expired(s)] /\ Pruned(s)[i] <= Window
  <2>0. i \in 1 .. Len(s) - m + 1 /\ m + i - 1 = i + Expired(s)
    BY <1>0, <1>1
  <2>1. Pruned(s)[i] = s[i + Expired(s)]
    BY <2>0, <1>3, <1>4
  <2>2. i + Expired(s) \in 1 .. Len(s) /\ ~(i + Expired(s) <= Expired(s))
    BY <1>0, <1>1
  <2> QED BY <1>0, <1>1, <2>1, <2>2, BudgetAssumption
<1>7. InOrder(Pruned(s))
  <2> SUFFICES ASSUME NEW i \in 1 .. Len(Pruned(s)), NEW j \in 1 .. Len(Pruned(s)), i <= j
               PROVE  Pruned(s)[j] <= Pruned(s)[i]
    BY DEF InOrder
  <2>1. Pruned(s)[i] = s[i + Expired(s)] /\ Pruned(s)[j] = s[j + Expired(s)]
    BY <1>5, <1>6
  <2>2. /\ i + Expired(s) \in 1 .. Len(s) /\ j + Expired(s) \in 1 .. Len(s)
        /\ i + Expired(s) <= j + Expired(s)
    BY <1>0, <1>1, <1>5
  <2> QED BY <2>1, <2>2 DEF InOrder
<1> QED BY <1>3, <1>4, <1>5, <1>6, <1>7

LEMMA WindowIsPruned ==
  ASSUME NEW s \in Seq(Ages), InOrder(s)
  PROVE  InWindow(s) = Pruned(s)
<1> DEFINE young == {i \in DOMAIN s : s[i] <= Window}
<1>0. /\ Len(s) \in Nat /\ DOMAIN s = 1 .. Len(s)
      /\ \A i \in 1 .. Len(s) : s[i] \in Nat
  BY AgesAre
<1>1. /\ Expired(s) \in 0 .. Len(s)
      /\ \A i \in 1 .. Len(s) : (i <= Expired(s)) <=> (s[i] > Window)
  BY OldFirst
<1>2. young = (Expired(s) + 1) .. Len(s)
  BY <1>0, <1>1, BudgetAssumption
<1>3. Cardinality(young) = Len(s) + 1 - (Expired(s) + 1)
  <2>1. Expired(s) + 1 \in Nat /\ Expired(s) + 1 <= Len(s) + 1
    BY <1>0, <1>1
  <2> QED BY <1>0, <1>2, <2>1, Interval
<1>4. InWindow(s) = SubSeq(s, Len(s) + 1 - Cardinality(young), Len(s))
  BY DEF InWindow
<1>5. Len(s) + 1 - Cardinality(young) = Expired(s) + 1
  BY <1>0, <1>1, <1>3
<1> HIDE DEF young
<1> QED BY <1>4, <1>5 DEF Pruned

(* Pruning loses no crash that counts, ...                                 *)
LEMMA WindowOfPruned ==
  ASSUME NEW s \in Seq(Ages), InOrder(s)
  PROVE  InWindow(Pruned(s)) = InWindow(s)
<1> DEFINE t == Pruned(s)
<1>1. /\ t \in Seq(Ages) /\ InOrder(t) /\ Len(t) = Len(s) - Expired(s)
      /\ \A i \in 1 .. Len(s) - Expired(s) : t[i] <= Window
  BY PrunedIs
<1> HIDE DEF t
<1>2. \A i \in 1 .. Len(t) : t[i] \in Nat /\ ~(i <= 0) /\ ~(t[i] > Window)
  BY <1>1, AgesAre, BudgetAssumption
<1>3. 0 \in 0 .. Len(t) /\ Len(t) \in Nat
  BY <1>1, AgesAre
<1>4. Expired(t) = 0
  BY <1>1, <1>2, <1>3, ExpiredIs
<1>5. /\ Pruned(t) \in Seq(Ages) /\ Len(Pruned(t)) = Len(t)
      /\ \A i \in 1 .. Len(t) : Pruned(t)[i] = t[i]
  <2>1. /\ Pruned(t) \in Seq(Ages) /\ Len(Pruned(t)) = Len(t) - 0
        /\ \A i \in 1 .. Len(t) - 0 : Pruned(t)[i] = t[i + 0]
    BY <1>1, <1>4, PrunedIs
  <2>2. Len(t) - 0 = Len(t) /\ \A i \in 1 .. Len(t) : i + 0 = i
    BY <1>3
  <2> QED BY <2>1, <2>2
<1>6. Pruned(t) = t
  BY <1>1, <1>5, SeqEqual
<1>7. InWindow(t) = Pruned(t) /\ InWindow(s) = t
  BY <1>1, WindowIsPruned DEF t
<1> QED BY <1>6, <1>7 DEF t

(* ... a new one is the last, ...                                          *)
LEMMA WindowOfAppended ==
  ASSUME NEW s \in Seq(Ages), InOrder(s)
  PROVE  /\ Append(s, 0) \in Seq(Ages) /\ InOrder(Append(s, 0))
         /\ InWindow(Append(s, 0)) = Append(InWindow(s), 0)
<1> DEFINE a == Append(s, 0)
<1>0. /\ 0 \in Ages /\ Len(s) \in Nat
      /\ \A i \in 1 .. Len(s) : s[i] \in Nat
  BY AgesAre, BudgetAssumption DEF Ages
<1>1. /\ a \in Seq(Ages) /\ Len(a) = Len(s) + 1
      /\ \A i \in 1 .. Len(s) : a[i] = s[i]
      /\ a[Len(s) + 1] = 0
  BY <1>0, AppendProperties
<1> HIDE DEF a
<1>2. \A i \in 1 .. Len(a) : i \in 1 .. Len(s) \/ i = Len(s) + 1
  BY <1>0, <1>1
<1>3. InOrder(a)
  <2> SUFFICES ASSUME NEW i \in 1 .. Len(a), NEW j \in 1 .. Len(a), i <= j PROVE a[j] <= a[i]
    BY DEF InOrder
  <2>1. CASE j \in 1 .. Len(s)
    <3>1. i \in 1 .. Len(s)
      BY <2>1, <1>0, <1>1
    <3> QED BY <1>1, <2>1, <3>1 DEF InOrder
  <2>2. CASE j = Len(s) + 1
    BY <1>0, <1>1, <1>2, <2>2
  <2> QED BY <1>2, <2>1, <2>2
<1>4. /\ Expired(s) \in 0 .. Len(s)
      /\ \A i \in 1 .. Len(s) : (i <= Expired(s)) <=> (s[i] > Window)
  BY OldFirst
<1>5. Expired(a) = Expired(s)
  <2>1. Expired(s) \in 0 .. Len(a)
    BY <1>0, <1>1, <1>4
  <2>2. ASSUME NEW i \in 1 .. Len(a) PROVE (i <= Expired(s)) <=> (a[i] > Window)
    <3>1. CASE i \in 1 .. Len(s)
      BY <1>1, <1>4, <3>1
    <3>2. CASE i = Len(s) + 1
      BY <1>0, <1>1, <1>4, <3>2, BudgetAssumption
    <3> QED BY <1>2, <3>1, <3>2
  <2> QED BY <1>1, <1>3, <2>1, <2>2, ExpiredIs
<1> DEFINE n == Len(s) - Expired(s)
<1>6. n \in Nat /\ Len(a) - Expired(a) = n + 1 /\ n + 1 + Expired(s) = Len(s) + 1
  BY <1>0, <1>1, <1>4, <1>5
<1>a. Len(s) - Expired(s) = n
  OBVIOUS
<1> HIDE DEF n
<1>b. \A i \in 1 .. n + 1 : i \in 1 .. n \/ i = n + 1
  BY <1>6
<1>7. /\ Pruned(a) \in Seq(Ages) /\ Len(Pruned(a)) = n + 1
      /\ \A i \in 1 .. n + 1 : Pruned(a)[i] = a[i + Expired(s)]
  <2>1. /\ Pruned(a) \in Seq(Ages) /\ Len(Pruned(a)) = Len(a) - Expired(a)
        /\ \A i \in 1 .. Len(a) - Expired(a) : Pruned(a)[i] = a[i + Expired(a)]
    BY <1>1, <1>3, PrunedIs
  <2> QED BY <1>5, <1>6, <2>1
<1>8. /\ Pruned(s) \in Seq(Ages) /\ Len(Pruned(s)) = n
      /\ \A i \in 1 .. n : Pruned(s)[i] = s[i + Expired(s)]
  BY <1>a, PrunedIs
<1>9. /\ Append(Pruned(s), 0) \in Seq(Ages) /\ Len(Append(Pruned(s), 0)) = n + 1
      /\ \A i \in 1 .. n : Append(Pruned(s), 0)[i] = Pruned(s)[i]
      /\ Append(Pruned(s), 0)[n + 1] = 0
  BY <1>0, <1>8, AppendProperties
<1>10. ASSUME NEW i \in 1 .. n + 1 PROVE Pruned(a)[i] = Append(Pruned(s), 0)[i]
  <2>1. CASE i \in 1 .. n
    <3>1. i + Expired(s) \in 1 .. Len(s)
      BY <1>0, <1>4, <1>6, <1>a, <2>1
    <3>2. Pruned(a)[i] = a[i + Expired(s)] /\ a[i + Expired(s)] = s[i + Expired(s)]
      BY <1>1, <1>7, <3>1
    <3>3. Append(Pruned(s), 0)[i] = s[i + Expired(s)]
      BY <1>8, <1>9, <2>1
    <3> QED BY <3>2, <3>3
  <2>2. CASE i = n + 1
    BY <1>1, <1>6, <1>7, <1>9, <2>2
  <2> QED BY <1>b, <2>1, <2>2
<1>11. Pruned(a) = Append(Pruned(s), 0)
  BY <1>6, <1>7, <1>9, <1>10, SeqEqual
<1> QED BY <1>1, <1>3, <1>11, WindowIsPruned DEF a

(* ... and when time passes those that are too old then leave it.          *)
LEMMA WindowOfAged ==
  ASSUME NEW s \in Seq(Ages), InOrder(s), NEW t,
         t = [i \in DOMAIN s |-> IF s[i] <= Window THEN s[i] + 1 ELSE s[i]]
  PROVE  LET r == InWindow(s)
             aged == [i \in DOMAIN r |-> r[i] + 1]
         IN  /\ t \in Seq(Ages) /\ InOrder(t)
             /\ \E k \in 0 .. Len(r) :
                  /\ \A i \in DOMAIN r : (i <= k) <=> (aged[i] > Window)
                  /\ InWindow(t) = SubSeq(aged, k + 1, Len(r))
<1> DEFINE r == InWindow(s)
           aged == [i \in DOMAIN r |-> r[i] + 1]
<1>0. /\ Len(s) \in Nat /\ DOMAIN s = 1 .. Len(s)
      /\ \A i \in 1 .. Len(s) : s[i] \in Nat
  BY AgesAre
<1>1. t \in Seq(Ages) /\ Len(t) = Len(s)
  BY AgedTimes
<1>2. \A i \in 1 .. Len(s) : t[i] = IF s[i] <= Window THEN s[i] + 1 ELSE s[i]
  BY <1>0
<1>3. InOrder(t)
  <2> SUFFICES ASSUME NEW i \in 1 .. Len(s), NEW j \in 1 .. Len(s), i <= j PROVE t[j] <= t[i]
    BY <1>1 DEF InOrder
  <2>1. s[j] <= s[i]
    BY DEF InOrder
  <2> QED BY <1>0, <1>2, <2>1, BudgetAssumption
<1> DEFINE E == Expired(s)
           F == Expired(t)
           n == Len(s) - E
           k == F - E
<1>4. E \in 0 .. Len(s) /\ \A i \in 1 .. Len(s) : (i <= E) <=> (s[i] > Window)
  BY OldFirst
<1>5. F \in 0 .. Len(s) /\ \A i \in 1 .. Len(s) : (i <= F) <=> (t[i] > Window)
  BY <1>1, <1>3, OldFirst
<1>6. /\ r \in Seq(Ages) /\ Len(r) = n
      /\ \A i \in 1 .. n : r[i] = s[i + E] /\ r[i] <= Window
  BY PrunedIs, WindowIsPruned
<1>7. /\ InWindow(t) \in Seq(Ages) /\ Len(InWindow(t)) = Len(s) - F
      /\ \A i \in 1 .. Len(s) - F : InWindow(t)[i] = t[i + F]
  BY <1>1, <1>3, PrunedIs, WindowIsPruned
<1>8. DOMAIN r = 1 .. n
  BY <1>6, LenProperties
<1>9. \A i \in 1 .. n : aged[i] = r[i] + 1
  BY <1>8
<1> HIDE DEF r, aged, E, F
<1>10. E <= F
  <2>1. CASE E = 0
    BY <1>5, <2>1
  <2>2. CASE E # 0
    <3>0. E \in 1 .. Len(s) /\ E <= E
      BY <1>0, <1>4, <2>2
    <3>1. E \in 1 .. Len(s) /\ s[E] > Window
      BY <1>4, <3>0
    <3>2. t[E] > Window
      BY <1>0, <1>2, <3>1, BudgetAssumption
    <3> QED BY <1>5, <3>1, <3>2
  <2> QED BY <2>1, <2>2
<1>11. k \in 0 .. n /\ n \in Nat /\ n - k = Len(s) - F /\ k + E = F
  BY <1>0, <1>4, <1>5, <1>10
<1>12. ASSUME NEW i \in 1 .. n
       PROVE  aged[i] = t[i + E] /\ i + E \in 1 .. Len(s)
  <2>1. i + E \in 1 .. Len(s)
    BY <1>0, <1>4
  <2>2. r[i] = s[i + E] /\ r[i] <= Window
    BY <1>6
  <2> QED BY <1>2, <1>9, <2>1, <2>2
<1>13. \A i \in DOMAIN r : (i <= k) <=> (aged[i] > Window)
  <2> SUFFICES ASSUME NEW i \in 1 .. n PROVE (i <= k) <=> (aged[i] > Window)
    BY <1>8
  <2>1. (i <= k) <=> (i + E <= F)
    BY <1>0, <1>4, <1>5
  <2> QED BY <1>5, <1>12, <2>1
<1>14. \A i \in 1 .. n : aged[i] \in Ages
  BY <1>1, <1>12, AgesAre
<1> HIDE DEF n, k
<1>15. /\ SubSeq(aged, k + 1, n) \in Seq(Ages)
       /\ Len(SubSeq(aged, k + 1, n)) = n - k
       /\ \A i \in 1 .. n - k : SubSeq(aged, k + 1, n)[i] = aged[i + k]
  <2>1. k + 1 \in Int /\ n \in Int /\ \A i \in k + 1 .. n : aged[i] \in Ages
    BY <1>11, <1>14
  <2>2. /\ SubSeq(aged, k + 1, n) \in Seq(Ages)
        /\ Len(SubSeq(aged, k + 1, n)) = IF k + 1 <= n THEN n - (k + 1) + 1 ELSE 0
        /\ \A i \in 1 .. n - (k + 1) + 1 : SubSeq(aged, k + 1, n)[i] = aged[k + 1 + i - 1]
    BY <2>1, SubSeqProperties
  <2>3. n - (k + 1) + 1 = n - k /\ \A i \in 1 .. n - k : k + 1 + i - 1 = i + k
    BY <1>11
  <2>4. (IF k + 1 <= n THEN n - (k + 1) + 1 ELSE 0) = n - k
    BY <1>11
  <2> QED BY <2>2, <2>3, <2>4
<1>16. ASSUME NEW i \in 1 .. n - k
       PROVE  InWindow(t)[i] = SubSeq(aged, k + 1, n)[i]
  <2>1. i + k \in 1 .. n /\ (i + k) + E = i + F
    BY <1>4, <1>5, <1>11
  <2>2. SubSeq(aged, k + 1, n)[i] = t[i + F]
    BY <1>12, <1>15, <2>1
  <2> QED BY <1>7, <1>11, <2>2
<1>17. InWindow(t) = SubSeq(aged, k + 1, n)
  BY <1>7, <1>11, <1>15, <1>16, SeqEqual
<1>18. /\ k \in 0 .. Len(r) /\ InWindow(t) = SubSeq(aged, k + 1, Len(r))
  BY <1>6, <1>11, <1>17 DEF n
<1> QED BY <1>1, <1>3, <1>13, <1>18 DEF r, aged
-----------------------------------------------------------------------------
(* The crashes are recorded in their order.                                *)
OrderInv == TypeOK /\ InOrder(times)

(* A step that leaves the times alone, or prunes them.                     *)
LEMMA SameWindow ==
  ASSUME OrderInv, times' \in {times, Pruned(times)}
  PROVE  InOrder(times') /\ InWindow(times)' = InWindow(times)
<1>1. times \in Seq(Ages)
  BY DEF OrderInv, TypeOK, Ages
<1>2. CASE times' = times
  BY <1>2 DEF OrderInv, InWindow
<1>3. CASE times' = Pruned(times)
  <2>1. InWindow(times)' = InWindow(times')
    BY DEF InWindow
  <2> QED BY <1>1, <1>3, <2>1, PrunedIs, WindowOfPruned DEF OrderInv
<1> QED BY <1>2, <1>3

(* The watchdog asks before each relaunch: what it counts are the crashes  *)
(* within the window.                                                      *)
LEMMA WatchdogLimited ==
  ASSUME OrderInv, Watchdog
  PROVE  InOrder(times') /\ (Limiter!Next \/ UNCHANGED Limiter!view)
<1> DEFINE Goal == InOrder(times') /\ (Limiter!Next \/ UNCHANGED Limiter!view)
<1> USE DEF Phase, Alive
<1>t. times \in Seq(Ages) /\ InOrder(times)
  BY DEF OrderInv, TypeOK, Ages
<1>s. ASSUME times' = times PROVE InOrder(times') /\ InWindow(times)' = InWindow(times)
  BY <1>s, SameWindow
<1>0. ASSUME NEW from \in WatchdogPcs \ {"none", "done"}, Leave(from) PROVE Goal
  <2>1. times' = times
    BY <1>0 DEF Leave
  <2>2. Limiter!Stop
    BY <1>0, <2>1, <1>s DEF Leave, Limiter!Stop, WatchdogPcs
  <2> QED BY <2>1, <2>2, <1>s DEF Limiter!Next
<1>1. CASE Loop \/ Boot \/ BootFailed \/ Watch \/ Waiting
  <2>1. CASE stop
    BY <1>0, <1>1, <2>1 DEF Loop, Boot, BootFailed, Watch, Waiting, WatchdogPcs
  <2>2. CASE ~stop
    <3>1. times' = times /\ Phase' = Phase
      BY <1>1, <2>2 DEF Loop, Boot, BootFailed, Watch, Waiting, Leave
    <3> QED BY <3>1, <1>s DEF Limiter!view
  <2> QED BY <2>1, <2>2
<1>2. CASE Spawn
  <2>1. times' = times
    BY <1>2 DEF Spawn
  <2>2. Limiter!Launch
    BY <1>2, <2>1, <1>s DEF Spawn, Limiter!Launch
  <2> QED BY <2>1, <2>2, <1>s DEF Limiter!Next
<1>3. CASE Publish \/ BecomeHealthy \/ GiveUp \/ Backoff
  <2>1. times' = times /\ Phase' = Phase
    BY <1>3 DEF Publish, BecomeHealthy, GiveUp, Backoff
  <2> QED BY <2>1, <1>s DEF Limiter!view
<1>4. CASE RegisterCrash
  <2>1. /\ Append(times, 0) \in Seq(Ages) /\ InOrder(Append(times, 0))
        /\ InWindow(Append(times, 0)) = Append(InWindow(times), 0)
    BY <1>t, WindowOfAppended
  <2>2. times' = Pruned(Append(times, 0))
    BY <1>4 DEF RegisterCrash
  <2>3. InOrder(times') /\ InWindow(times') = Append(InWindow(times), 0)
    BY <2>1, <2>2, PrunedIs, WindowOfPruned
  <2>4. InWindow(times)' = InWindow(times')
    BY DEF InWindow
  <2>5. Limiter!Crash
    BY <1>4, <2>3, <2>4 DEF RegisterCrash, Limiter!Crash
  <2> QED BY <2>3, <2>5 DEF Limiter!Next
<1>5. CASE Budget \/ Cooling
  <2>1. CASE stop
    BY <1>0, <1>5, <2>1 DEF Budget, Cooling, WatchdogPcs
  <2>2. CASE ~stop
    <3>1. times' = Pruned(times) /\ Pruned(times) = InWindow(times)
      BY <1>5, <1>t, <2>2, WindowIsPruned DEF Budget, Cooling, Leave
    <3>2. InOrder(times') /\ InWindow(times)' = InWindow(times)
      BY <3>1, SameWindow
    <3>3. Len(times') > MaxRestarts \/ Len(times') <= MaxRestarts
      <4>1. Len(times') \in Nat
        BY <1>t, <3>1, PrunedIs, LenProperties
      <4> QED BY <4>1, BudgetAssumption
    <3>4. Phase' = Phase \/ Limiter!Permit
      BY <1>5, <2>2, <3>1, <3>2, <3>3 DEF Budget, Cooling, Leave, Limiter!Permit
    <3> QED BY <3>2, <3>4 DEF Limiter!Next, Limiter!view
  <2> QED BY <2>1, <2>2
<1> QED BY <1>1, <1>2, <1>3, <1>4, <1>5 DEF Watchdog

LEMMA LimitStep ==
  ASSUME OrderInv, [Next]_vars
  PROVE  InOrder(times') /\ [Limiter!Next]_(Limiter!view)
<1> DEFINE Goal == InOrder(times') /\ (Limiter!Next \/ UNCHANGED Limiter!view)
<1> SUFFICES Goal
  OBVIOUS
<1>t. times \in Seq(Ages) /\ InOrder(times)
  BY DEF OrderInv, TypeOK, Ages
<1>s. ASSUME times' \in {times, Pruned(times)}, pc' = pc PROVE Goal
  <2>1. InOrder(times') /\ InWindow(times)' = InWindow(times)
    BY <1>s, SameWindow
  <2> QED BY <1>s, <2>1 DEF Limiter!view, Phase, Alive
<1>1. CASE Start
  <2>1. InOrder(times') /\ InWindow(times)' = InWindow(times)
    BY <1>1, SameWindow DEF Start
  <2>2. Limiter!Start
    BY <1>1, <2>1 DEF Start, Limiter!Start, Phase, Alive
  <2> QED BY <2>1, <2>2 DEF Limiter!Next
<1>2. CASE StartMisconfigured \/ Status
  BY <1>2, <1>s DEF StartMisconfigured, Status
<1>3. CASE Watchdog
  BY <1>3, WatchdogLimited
<1>4. CASE Stopper
  BY <1>4, <1>s DEF Stopper, StopRequest, StopMark, StopKill, StopJoin, Exit
<1>5. ASSUME NEW c \in Child, Serve(c) \/ Die(c) \/ Orphan(c) PROVE Goal
  BY <1>5, <1>s DEF Serve, Die, Orphan
<1>6. CASE Tick
  <2> DEFINE r == InWindow(times)
             aged == [i \in DOMAIN r |-> r[i] + 1]
  <2>1. times' = [i \in DOMAIN times |-> IF times[i] <= Window THEN times[i] + 1 ELSE times[i]]
    BY <1>6 DEF Tick
  <2>2. /\ InOrder(times')
        /\ \E k \in 0 .. Len(r) :
             /\ \A i \in DOMAIN r : (i <= k) <=> (aged[i] > Window)
             /\ InWindow(times') = SubSeq(aged, k + 1, Len(r))
    BY <1>t, <2>1, WindowOfAged
  <2>3. InWindow(times)' = InWindow(times')
    BY DEF InWindow
  <2>4. Phase' = Phase
    BY <1>6 DEF Tick, Phase, Alive
  <2>5. Limiter!Tick
    BY <2>2, <2>3, <2>4 DEF Limiter!Tick, Limiter!Aged
  <2> QED BY <2>2, <2>5 DEF Limiter!Next
<1>7. CASE UNCHANGED vars
  BY <1>7, <1>s DEF vars
<1> QED BY <1>1, <1>2, <1>3, <1>4, <1>5, <1>6, <1>7 DEF Next

(* VCClient is relaunched within the budget only, for every budget and     *)
(* window, and no crash is forgotten before its time.                      *)
THEOREM LimitKept == Spec => KeepsLimit
<1>1. Init => Limiter!Init /\ InOrder(times)
  <2> SUFFICES ASSUME Init PROVE Limiter!Init /\ InOrder(times)
    OBVIOUS
  <2>1. times = << >> /\ << >> \in Seq(Ages) /\ Len(<< >>) = 0
    BY EmptySeq DEF Init
  <2>2. InOrder(times)
    BY <2>1 DEF InOrder
  <2>3. InWindow(times) = << >>
    <3>1. Pruned(times) = << >>
      <4>1. Pruned(times) \in Seq(Ages) /\ Len(Pruned(times)) = 0 - Expired(times)
        BY <2>1, <2>2, PrunedIs
      <4>2. Expired(times) \in 0 .. 0
        BY <2>1, <2>2, OldFirst
      <4>3. Len(Pruned(times)) = 0
        BY <4>1, <4>2
      <4> QED BY <4>1, <4>3, EmptySeq
    <3> QED BY <2>1, <2>2, <3>1, WindowIsPruned
  <2> QED BY <2>2, <2>3 DEF Init, Limiter!Init, Phase, Alive
<1>2. TypeOK /\ InOrder(times) /\ [Next]_vars => InOrder(times)' /\ [Limiter!Next]_(Limiter!view)
  BY LimitStep DEF OrderInv, InOrder
<1> QED BY <1>1, <1>2, TypeCorrect, PTL DEF Spec, KeepsLimit, Limiter!Spec
=============================================================================
