------------------------- MODULE VoiceIdentityProofs -------------------------
(* What holds of the voice of every identity, however many handlers, AI    *)
(* sessions and models there are and whichever requests fail.              *)
EXTENDS VoiceIdentity, TLAPS

(* A handler that works has a session, and one that bootstraps a model.    *)
HasSession == \A t \in Threads : req[t].pc # "idle" => req[t].s \in Sessions
HasModel ==
  \A t \in Threads : req[t].pc \in Bootstrapping \union {"lock"} => ModelAt(t) \in Model

(* The handler that bootstraps holds the lock.                             *)
Locked == \A t \in Threads : req[t].pc \in Bootstrapping => lock = t

(* What the bootstrap has found out by each of its steps is still so.      *)
Found ==
  \A t \in Threads :
    /\ req[t].pc \in {"upload", "register"} => server.slots[ModelAt(t)] = 0
    /\ req[t].pc \in {"sanitize", "select"} => server.slots[ModelAt(t)] = 1
    /\ req[t].pc = "select" => server.safe[ModelAt(t)]

(* A session that is bootstrapped has its slot, with index_ratio 0, and    *)
(* the slot is active unless another session's was made so after it.       *)
Booted ==
  \A s \in booted :
    /\ ModelOf[s] \in Model
    /\ server.slots[ModelOf[s]] = 1
    /\ server.safe[ModelOf[s]]
    /\ s \notin excused \union replaced => server.current = ModelOf[s]

(* Whoever has passed the bootstrap has had one, or is excused.            *)
MustBeBooted(s) == ModelOf[s] = None \/ s \in excused \/ s \in booted
Passed ==
  /\ \A s \in prepared : MustBeBooted(s)
  /\ \A t \in Threads : req[t].pc \in {"mark", "convert"} => MustBeBooted(req[t].s)

IInv == /\ TypeOK /\ HasSession /\ HasModel /\ Locked /\ Found /\ OneSlotPerModel
        /\ Booted /\ Passed

States == Bootstrapping \union {"idle", "check", "lock", "mark", "convert"}
Server == [slots: [Model -> 0..2], safe: [Model -> BOOLEAN], current: Model \union {None}]

(* What a request changes in VCClient.                                     *)
LEMMA Effects ==
  ASSUME TypeOK, HasModel, NEW t \in Threads, Effect(t)
  PROVE  /\ server' \in Server
         /\ ModelAt(t) \in Model
         /\ \A m \in Model \ {ModelAt(t)} :
              server'.slots[m] = server.slots[m] /\ server'.safe[m] = server.safe[m]
         /\ req[t].pc # "register" => server'.slots = server.slots
         /\ (req[t].pc = "register" /\ server.slots[ModelAt(t)] = 0) => server'.slots[ModelAt(t)] = 1
         /\ server.slots[ModelAt(t)] # 0 /\ server.safe[ModelAt(t)] => server'.safe[ModelAt(t)]
         /\ req[t].pc = "sanitize" => server'.safe[ModelAt(t)]
         /\ IF req[t].pc = "select"
            THEN server'.safe = server.safe /\ server'.current = ModelAt(t)
            ELSE server'.current = server.current
<1> DEFINE m == ModelAt(t)
<1>1. server \in Server BY DEF TypeOK, Server
<1>2. m \in Model BY DEF Effect, HasModel, Bootstrapping
<1>3. CASE req[t].pc = "register"
  <2>1. PICK ratio \in BOOLEAN :
          server' = [server EXCEPT !.slots[m] = IF @ < 2 THEN @ + 1 ELSE @,
                                   !.safe[m] = IF server.slots[m] = 0 THEN ratio ELSE @]
    BY <1>3 DEF Effect, Registered
  <2> DEFINE count == IF server.slots[m] < 2 THEN server.slots[m] + 1 ELSE server.slots[m]
             ok == IF server.slots[m] = 0 THEN ratio ELSE server.safe[m]
  <2>2. server' = [slots |-> [server.slots EXCEPT ![m] = count],
                   safe |-> [server.safe EXCEPT ![m] = ok], current |-> server.current]
    BY <1>1, <2>1 DEF Server
  <2>3. count \in 0..2 /\ (server.slots[m] = 0 => count = 1) BY <1>1, <1>2 DEF Server
  <2>4. ok \in BOOLEAN BY <1>1, <1>2 DEF Server
  <2> HIDE DEF count, ok
  <2>5. server' \in Server BY <1>1, <1>2, <2>2, <2>3, <2>4 DEF Server
  <2>6. server.slots[m] # 0 => ok = server.safe[m] BY DEF ok
  <2> QED BY <1>1, <1>2, <1>3, <2>2, <2>3, <2>5, <2>6 DEF Server
<1>4. CASE req[t].pc = "sanitize"
  BY <1>1, <1>2, <1>4 DEF Effect, Server
<1>5. CASE req[t].pc = "select"
  BY <1>1, <1>2, <1>5 DEF Effect, Server
<1> QED BY <1>3, <1>4, <1>5 DEF Effect

(* The state keeps its type.                                               *)
LEMMA TypeStep == ASSUME TypeOK, HasSession, HasModel, [Next]_vars PROVE TypeOK'
<1> USE ModelAssumption DEF TypeOK, Bootstrapping
<1>1. ASSUME NEW t \in Threads, Check(t) PROVE TypeOK'
  BY <1>1 DEF Check, Goto, HasSession
<1>2. ASSUME NEW t \in Threads, Lock(t) PROVE TypeOK'
  BY <1>2 DEF Lock, Goto
<1>3. ASSUME NEW t \in Threads, Look(t) PROVE TypeOK'
  BY <1>3 DEF Look, Goto
<1>4. ASSUME NEW t \in Threads, Upload(t) PROVE TypeOK'
  BY <1>4 DEF Upload, Goto
<1>5. ASSUME NEW t \in Threads, Effect(t) PROVE server' \in Server
  BY <1>5, Effects
<1>6. ASSUME NEW t \in Threads, Request(t) PROVE TypeOK'
  BY <1>5, <1>6 DEF Request, Goto, Server
<1>7. ASSUME NEW t \in Threads, Select(t) PROVE TypeOK'
  <2>1. replaced' \in SUBSET Sessions BY <1>7 DEF Select, Replacing
  <2> QED BY <1>5, <1>7, <2>1 DEF Select, Goto, Server, HasSession
<1>8. ASSUME NEW t \in Threads, Fail(t) PROVE TypeOK'
  <2>1. replaced' \in SUBSET Sessions BY <1>8 DEF Fail, Replacing
  <2> QED BY <1>5, <1>8, <2>1 DEF Fail, Goto, Server, HasSession
<1>9. ASSUME NEW t \in Threads, Mark(t) PROVE TypeOK'
  BY <1>9 DEF Mark, Goto, After, HasSession
<1>10. ASSUME NEW t \in Threads, Convert(t) PROVE TypeOK'
  BY <1>10 DEF Convert, Idle
<1>11. ASSUME NEW t \in Threads, NEW s \in Sessions, NEW audio \in BOOLEAN, Arrive(t, s, audio)
       PROVE TypeOK'
  BY <1>11 DEF Arrive
<1>12. CASE Health BY <1>12 DEF Health
<1>13. CASE UNCHANGED vars BY <1>13 DEF vars
<1> QED
  BY <1>1, <1>2, <1>3, <1>4, <1>6, <1>7, <1>8, <1>9, <1>10, <1>11, <1>12, <1>13 DEF Next, Work

LEMMA InitInv == Init => IInv
<1> SUFFICES ASSUME Init PROVE IInv OBVIOUS
<1> USE ModelAssumption
<1>1. PICK known \in SUBSET Model :
        server \in [slots: {[m \in Model |-> IF m \in known THEN 1 ELSE 0]},
                   safe: [Model -> BOOLEAN], current: known \union {None}]
  BY DEF Init
<1>2. server.slots = [m \in Model |-> IF m \in known THEN 1 ELSE 0]
  BY <1>1
<1>3. server \in Server /\ OneSlotPerModel
  BY <1>1, <1>2 DEF Server, OneSlotPerModel
<1>4. \A t \in Threads : req[t].pc = "idle" BY DEF Init, Idle
<1>5. TypeOK BY <1>3 DEF Init, TypeOK, Server, Idle
<1>6. HasSession /\ HasModel /\ Locked /\ Found
  BY <1>4 DEF HasSession, HasModel, Locked, Found, Bootstrapping
<1>7. Booted /\ Passed BY <1>4 DEF Booted, Passed, Init
<1> QED BY <1>3, <1>5, <1>6, <1>7 DEF IInv

(* A handler that moves leaves the others where they are.                  *)
LEMMA HandlersStep ==
  ASSUME IInv, [Next]_vars
  PROVE  HasSession' /\ HasModel' /\ Locked'
<1> USE ModelAssumption DEF TypeOK, IInv, HasSession, HasModel, Locked, ModelAt, Bootstrapping
<1>1. ASSUME NEW t \in Threads, Check(t) PROVE HasSession' /\ HasModel' /\ Locked'
  BY <1>1 DEF Check, Goto
<1>2. ASSUME NEW t \in Threads, Lock(t) PROVE HasSession' /\ HasModel' /\ Locked'
  BY <1>2 DEF Lock, Goto
<1>3. ASSUME NEW t \in Threads, Look(t) PROVE HasSession' /\ HasModel' /\ Locked'
  BY <1>3 DEF Look, Goto
<1>4. ASSUME NEW t \in Threads, Upload(t) PROVE HasSession' /\ HasModel' /\ Locked'
  BY <1>4 DEF Upload, Goto
<1>5. ASSUME NEW t \in Threads, Request(t) PROVE HasSession' /\ HasModel' /\ Locked'
  BY <1>5 DEF Request, Goto
<1>6. ASSUME NEW t \in Threads, Select(t) PROVE HasSession' /\ HasModel' /\ Locked'
  BY <1>6 DEF Select, Goto
<1>7. ASSUME NEW t \in Threads, Fail(t) PROVE HasSession' /\ HasModel' /\ Locked'
  BY <1>7 DEF Fail, Goto
<1>8. ASSUME NEW t \in Threads, Mark(t) PROVE HasSession' /\ HasModel' /\ Locked'
  BY <1>8 DEF Mark, Goto, After
<1>9. ASSUME NEW t \in Threads, Convert(t) PROVE HasSession' /\ HasModel' /\ Locked'
  BY <1>9 DEF Convert, Idle
<1>10. ASSUME NEW t \in Threads, NEW s \in Sessions, NEW audio \in BOOLEAN, Arrive(t, s, audio)
       PROVE HasSession' /\ HasModel' /\ Locked'
  BY <1>10 DEF Arrive
<1>11. CASE Health BY <1>11 DEF Health
<1>12. CASE UNCHANGED vars BY <1>12 DEF vars
<1> QED
  BY <1>1, <1>2, <1>3, <1>4, <1>5, <1>6, <1>7, <1>8, <1>9, <1>10, <1>11, <1>12 DEF Next, Work

(* The lock keeps what a bootstrap has found out true until it is done, so *)
(* no model is registered twice.                                           *)
LEMMA SlotsStep ==
  ASSUME IInv, [Next]_vars
  PROVE  Found' /\ OneSlotPerModel'
<1> USE ModelAssumption
<1>1. ASSUME NEW t \in Threads, req[t].pc \in Bootstrapping,
             NEW pc \in States \ {"upload", "register", "sanitize", "select"},
             req' = [req EXCEPT ![t].pc = pc]
      PROVE  Found'
  <2> SUFFICES ASSUME NEW u \in Threads, req'[u].pc \in {"upload", "register", "sanitize", "select"}
               PROVE FALSE
    BY DEF Found
  <2>1. u # t BY <1>1 DEF IInv, TypeOK
  <2>2. req[u].pc \in Bootstrapping BY <1>1, <2>1 DEF IInv, TypeOK, Bootstrapping
  <2>3. lock = t /\ lock = u BY <1>1, <2>2 DEF IInv, Locked
  <2> QED BY <2>1, <2>3
<1>2. ASSUME NEW t \in Threads, Effect(t) PROVE OneSlotPerModel'
  <2>1. server.slots[ModelAt(t)] = 0 => server'.slots[ModelAt(t)] \in 0..1
    BY <1>2, Effects DEF IInv
  <2> QED
    BY <1>2, <2>1, Effects DEF IInv, OneSlotPerModel, Effect, Found, Server
<1>3. ASSUME NEW t \in Threads, Check(t) PROVE Found' /\ OneSlotPerModel'
  BY <1>3 DEF Check, Goto, IInv, TypeOK, Found, OneSlotPerModel, ModelAt
<1>4. ASSUME NEW t \in Threads, Lock(t) PROVE Found' /\ OneSlotPerModel'
  BY <1>4 DEF Lock, Goto, IInv, TypeOK, Found, OneSlotPerModel, ModelAt
<1>5. ASSUME NEW t \in Threads, Look(t) PROVE Found' /\ OneSlotPerModel'
  <2>1. server.slots[ModelAt(t)] \in 0..1
    BY <1>5 DEF Look, IInv, TypeOK, HasModel, OneSlotPerModel, Bootstrapping
  <2> QED BY <1>5, <2>1 DEF Look, Goto, IInv, TypeOK, Found, OneSlotPerModel, ModelAt
<1>6. ASSUME NEW t \in Threads, Upload(t) PROVE Found' /\ OneSlotPerModel'
  BY <1>6 DEF Upload, Goto, IInv, TypeOK, Found, OneSlotPerModel, ModelAt
<1>7. ASSUME NEW t \in Threads, Request(t) PROVE Found' /\ OneSlotPerModel'
  <2>1. CASE req[t].pc = "register"
    BY <1>1, <1>2, <1>7, <2>1 DEF Request, Goto, Bootstrapping, States
  <2>2. CASE req[t].pc = "sanitize"
    <3>1. /\ server'.slots = server.slots /\ server'.safe[ModelAt(t)]
          /\ req' = [req EXCEPT ![t].pc = "select"]
      BY <1>7, <2>2, Effects DEF Request, Goto, IInv
    <3>2. ASSUME NEW u \in Threads, u # t
          PROVE req'[u].pc \notin {"upload", "register", "sanitize", "select"}
      <4>1. req'[u].pc = req[u].pc BY <3>1, <3>2 DEF IInv, TypeOK
      <4> QED BY <2>2, <3>2, <4>1 DEF IInv, Locked, Bootstrapping
    <3>3. req'[t].pc = "select" /\ req'[t].s = req[t].s BY <3>1 DEF IInv, TypeOK
    <3> QED
      BY <1>2, <1>7, <2>2, <3>1, <3>2, <3>3 DEF Request, Found, IInv, ModelAt
  <2> QED BY <1>7, <2>1, <2>2 DEF Request
<1>8. ASSUME NEW t \in Threads, Select(t) PROVE Found' /\ OneSlotPerModel'
  BY <1>1, <1>2, <1>8 DEF Select, Goto, Bootstrapping, States
<1>9. ASSUME NEW t \in Threads, Fail(t) PROVE Found' /\ OneSlotPerModel'
  BY <1>1, <1>2, <1>9 DEF Fail, Goto, Bootstrapping, States, IInv, OneSlotPerModel
<1>10. ASSUME NEW t \in Threads, Mark(t) PROVE Found' /\ OneSlotPerModel'
  BY <1>10 DEF Mark, Goto, After, IInv, TypeOK, Found, OneSlotPerModel, ModelAt
<1>11. ASSUME NEW t \in Threads, Convert(t) PROVE Found' /\ OneSlotPerModel'
  BY <1>11 DEF Convert, Idle, IInv, TypeOK, Found, OneSlotPerModel, ModelAt
<1>12. ASSUME NEW t \in Threads, NEW s \in Sessions, NEW audio \in BOOLEAN, Arrive(t, s, audio)
       PROVE Found' /\ OneSlotPerModel'
  BY <1>12 DEF Arrive, IInv, TypeOK, Found, OneSlotPerModel, ModelAt
<1>13. CASE Health BY <1>13 DEF Health, IInv, Found, OneSlotPerModel, ModelAt
<1>14. CASE UNCHANGED vars BY <1>14 DEF vars, IInv, Found, OneSlotPerModel, ModelAt
<1> QED
  BY <1>3, <1>4, <1>5, <1>6, <1>7, <1>8, <1>9, <1>10, <1>11, <1>12, <1>13, <1>14 DEF Next, Work

(* A slot that is there stays as it is, and becomes inactive only when     *)
(* another is made the active one.                                         *)
LEMMA BootedStep ==
  ASSUME IInv, [Next]_vars
  PROVE  Booted'
<1> USE ModelAssumption
<1>1. ASSUME NEW t \in Threads, Effect(t), NEW s \in booted
      PROVE  server'.slots[ModelOf[s]] = 1 /\ server'.safe[ModelOf[s]]
  <2>1. ModelOf[s] \in Model /\ server.slots[ModelOf[s]] = 1 /\ server.safe[ModelOf[s]]
    BY DEF IInv, Booted
  <2>2. req[t].pc = "register" => ModelOf[s] # ModelAt(t)
    BY <2>1 DEF IInv, Found
  <2> QED BY <1>1, <2>1, <2>2, Effects DEF IInv
<1>2. ASSUME NEW t \in Threads, Effect(t), replaced' = Replacing(t),
             NEW s \in booted, s \notin excused \/ s = req[t].s, s \notin replaced',
             req[t].pc = "select" \/ s \notin excused
      PROVE  server'.current = ModelOf[s]
  <2>1. CASE req[t].pc = "select"
    BY <1>2, <2>1, Effects DEF IInv, Replacing, ModelAt
  <2>2. CASE req[t].pc # "select"
    BY <1>2, <2>2, Effects DEF IInv, Replacing, Booted
  <2> QED BY <2>1, <2>2
<1>3. ASSUME NEW t \in Threads, Request(t) PROVE Booted'
  <2>1. replaced' = Replacing(t) /\ booted' = booted /\ excused' = excused /\ Effect(t)
    BY <1>3 DEF Request, Replacing
  <2> QED BY <1>1, <1>2, <2>1 DEF IInv, Booted
<1>4. ASSUME NEW t \in Threads, Select(t) PROVE Booted'
  <2>1. /\ req[t].pc = "select" /\ replaced' = Replacing(t) /\ Effect(t)
        /\ booted' = booted \union {req[t].s} /\ excused' = excused \ {req[t].s}
    BY <1>4 DEF Select
  <2>2. server'.safe = server.safe /\ server'.slots = server.slots /\ server'.current = ModelAt(t)
    BY <2>1, Effects DEF IInv
  <2>3. ModelAt(t) \in Model /\ server.slots[ModelAt(t)] = 1 /\ server.safe[ModelAt(t)]
    BY <2>1 DEF IInv, Found, HasModel, Bootstrapping
  <2>4. ASSUME NEW s \in booted', s # req[t].s
        PROVE  /\ ModelOf[s] \in Model /\ server'.slots[ModelOf[s]] = 1 /\ server'.safe[ModelOf[s]]
               /\ s \notin excused' \union replaced' => server'.current = ModelOf[s]
    BY <1>1, <1>2, <2>1, <2>4 DEF IInv, Booted
  <2> QED BY <2>2, <2>3, <2>4 DEF Booted, ModelAt
<1>5. ASSUME NEW t \in Threads, Fail(t) PROVE Booted'
  <2>1. booted' = booted /\ excused' = excused \union {req[t].s} BY <1>5 DEF Fail
  <2>2. CASE UNCHANGED <<server, replaced>> BY <2>1, <2>2 DEF IInv, Booted
  <2>3. CASE Effect(t) /\ replaced' = Replacing(t) BY <1>1, <1>2, <2>1, <2>3 DEF IInv, Booted
  <2> QED BY <1>5, <2>2, <2>3 DEF Fail
<1>6. ASSUME NEW t \in Threads, Check(t) PROVE Booted'
  BY <1>6 DEF Check, IInv, Booted
<1>7. CASE UNCHANGED <<booted, server, excused, replaced>>
  BY <1>7 DEF IInv, Booted
<1> QED
  BY <1>3, <1>4, <1>5, <1>6, <1>7
  DEF Next, Work, Arrive, Lock, Look, Upload, Mark, Convert, Health, vars

(* Only a bootstrap, or an excuse, lets a session be marked.               *)
LEMMA PassedStep ==
  ASSUME IInv, [Next]_vars
  PROVE  Passed'
<1> USE ModelAssumption DEF MustBeBooted
<1>1. ASSUME NEW t \in Threads, Check(t) PROVE Passed'
  BY <1>1 DEF Check, Goto, IInv, TypeOK, Passed, ModelAt
<1>2. ASSUME NEW t \in Threads, Lock(t) PROVE Passed'
  BY <1>2 DEF Lock, Goto, IInv, TypeOK, Passed
<1>3. ASSUME NEW t \in Threads, Look(t) PROVE Passed'
  BY <1>3 DEF Look, Goto, IInv, TypeOK, Passed
<1>4. ASSUME NEW t \in Threads, Upload(t) PROVE Passed'
  BY <1>4 DEF Upload, Goto, IInv, TypeOK, Passed
<1>5. ASSUME NEW t \in Threads, Request(t) PROVE Passed'
  BY <1>5 DEF Request, Goto, IInv, TypeOK, Passed
<1>6. ASSUME NEW t \in Threads, Select(t) PROVE Passed'
  BY <1>6 DEF Select, Goto, IInv, TypeOK, Passed
<1>7. ASSUME NEW t \in Threads, Fail(t) PROVE Passed'
  BY <1>7 DEF Fail, Goto, IInv, TypeOK, Passed
<1>8. ASSUME NEW t \in Threads, Mark(t) PROVE Passed'
  BY <1>8 DEF Mark, Goto, After, IInv, TypeOK, Passed
<1>9. ASSUME NEW t \in Threads, Convert(t) PROVE Passed'
  BY <1>9 DEF Convert, Idle, IInv, TypeOK, Passed
<1>10. ASSUME NEW t \in Threads, NEW s \in Sessions, NEW audio \in BOOLEAN, Arrive(t, s, audio)
       PROVE Passed'
  BY <1>10 DEF Arrive, IInv, TypeOK, Passed
<1>11. CASE Health BY <1>11 DEF Health, IInv, Passed
<1>12. CASE UNCHANGED vars BY <1>12 DEF vars, IInv, Passed
<1> QED
  BY <1>1, <1>2, <1>3, <1>4, <1>5, <1>6, <1>7, <1>8, <1>9, <1>10, <1>11, <1>12 DEF Next, Work

(* The strengthening holds of every state that is reached.                 *)
THEOREM Invariance == Spec => []IInv
<1>1. IInv /\ [Next]_vars => IInv'
  BY TypeStep, HandlersStep, SlotsStep, BootedStep, PassedStep DEF IInv
<1> QED BY InitInv, <1>1, PTL DEF Spec

(* The state keeps its type.                                               *)
THEOREM TypeCorrect == Spec => []TypeOK
<1>1. IInv => TypeOK BY DEF IInv
<1> QED BY Invariance, <1>1, PTL

(* However many chunks and frames ask for a voice at once, and whichever   *)
(* requests fail, VCClient gets the model once: the bootstrap lock is held *)
(* from the look to the registration.                                      *)
THEOREM OneSlot == Spec => []OneSlotPerModel
<1>1. IInv => OneSlotPerModel BY DEF IInv
<1> QED BY Invariance, <1>1, PTL

(* A slot an identity made active has index_ratio 0 in VCClient.           *)
THEOREM SafeSlot == Spec => []ActiveIsSafe
<1>1. IInv => ActiveIsSafe BY DEF IInv, Booted, ActiveIsSafe
<1> QED BY Invariance, <1>1, PTL

(* A chunk is converted with its own voice, unless the bootstrap was       *)
(* skipped or failed or another session took the slot.                     *)
THEOREM OwnVoice == Spec => []VoiceIsOwn
<1>1. ASSUME IInv, NEW t \in Threads, req[t].pc = "convert", ModelAt(t) # None,
             req[t].s \notin excused \union replaced
      PROVE  server.current = ModelAt(t)
  <2>1. req[t].s \in booted BY <1>1 DEF IInv, Passed, MustBeBooted, ModelAt
  <2> QED BY <1>1, <2>1 DEF IInv, Booted, ModelAt
<1>2. IInv => VoiceIsOwn BY <1>1 DEF VoiceIsOwn
<1> QED BY Invariance, <1>2, PTL
=============================================================================
