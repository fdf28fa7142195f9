------------------------ MODULE IdentityDeliveryProofs ------------------------
(***************************************************************************)
(* Theorems about IdentityDelivery, for every set of identities and every  *)
(* number of concurrent handlers.                                          *)
(***************************************************************************)
EXTENDS IdentityDelivery, TLAPS

(* What a handler is doing tells what its record holds.                    *)
Shape(q) ==
  /\ q.pc = "idle" <=> q.op = "none"
  /\ q.pc \in {"store", "audit"} => q.op = "create"
  /\ q.pc = "unlink" => q.op = "delete"
  /\ q.op = "none" => q.id = None
  /\ q.op # "none" => q.id \in Identity

TypeInv == TypeOK /\ \A r \in Requests : Shape(req[r])

LEMMA NoRowType == NoRow \in Row
BY DEF NoRow, Row, Statuses, Deliveries, PackageKinds

LEMMA IdleType == Idle \in Request /\ Shape(Idle)
BY NoRowType DEF Idle, Request, Shape, Statuses

LEMMA DeliveryType ==
  ASSUME NEW status, NEW package, NEW current
  PROVE  /\ DeliveryFor(status, package, current) \in Deliveries
         /\ DeliveryFor(status, package, current) = "PUSHED"
              => Publishable(package) /\ current = "PUSHED"
         /\ DeliveryFor(status, package, "none") # "PUSHED"
BY DEF DeliveryFor, Deliveries

LEMMA AcceptType ==
  ASSUME TypeInv, NEW r \in Requests, NEW i \in Identity, NEW status \in Statuses,
         NEW seen \in Row, NEW op \in {"create", "review", "push", "unpush", "delete"},
         NEW pc \in {"store", "write"}, pc = "store" => op = "create",
         Accept(r, op, pc, i, status, seen)
  PROVE  TypeInv'
<1> DEFINE q == [pc |-> pc, op |-> op, id |-> i, status |-> status, seen |-> seen]
<1>1. q \in Request
  BY DEF Request
<1>2. Shape(q)
  BY DEF Shape
<1>3. req' = [req EXCEPT ![r] = q] /\ UNCHANGED <<identity, files, pushed, confirmed>>
  BY DEF Accept
<1> HIDE DEF q
<1>4. req' \in [Requests -> Request] /\ \A s \in Requests : Shape(req'[s])
  BY <1>1, <1>2, <1>3 DEF TypeInv, TypeOK
<1> QED BY <1>3, <1>4 DEF TypeInv, TypeOK

LEMMA FinishType ==
  ASSUME TypeInv, NEW r \in Requests, Finish(r)
  PROVE  req' \in [Requests -> Request] /\ \A s \in Requests : Shape(req'[s])
BY IdleType DEF TypeInv, TypeOK, Finish

LEMMA ContinueType ==
  ASSUME TypeInv, NEW r \in Requests, NEW pc, Continue(r, pc),
         \/ pc \in {"write", "audit"} /\ req[r].op = "create"
         \/ pc = "unlink" /\ req[r].op = "delete"
  PROVE  req' \in [Requests -> Request] /\ \A s \in Requests : Shape(req'[s])
<1>1. req[r] \in Request /\ Shape(req[r])
  BY DEF TypeInv, TypeOK
<1> DEFINE q == [req[r] EXCEPT !.pc = pc]
<1>2. q \in Request /\ Shape(q)
  BY <1>1 DEF Request, Shape
<1>3. req' = [req EXCEPT ![r] = q]
  BY DEF Continue
<1> HIDE DEF q
<1> QED BY <1>2, <1>3 DEF TypeInv, TypeOK

LEMMA TypeStep == TypeInv /\ [Next]_vars => TypeInv'
<1> SUFFICES ASSUME TypeInv, [Next]_vars PROVE TypeInv'
  OBVIOUS
<1>r. ASSUME NEW s \in Requests PROVE req[s] \in Request /\ Shape(req[s])
  BY DEF TypeInv, TypeOK
<1>i. ASSUME NEW j \in Identity PROVE identity[j] \in Row
  BY DEF TypeInv, TypeOK
<1>1. CASE UNCHANGED vars
  BY <1>1 DEF TypeInv, TypeOK, vars
<1>2. ASSUME NEW r \in Requests, Start(r) PROVE TypeInv'
  <2> PICK i \in Identity :
        \/ \E status \in Statuses, package \in Packages : CreateRead(r, i, status, package)
        \/ \E status \in Statuses : ReviewRead(r, i, status)
        \/ PushRead(r, i) \/ UnpushRead(r, i) \/ DeleteRead(r, i)
    BY <1>2 DEF Start
  <2>1. ASSUME NEW status \in Statuses, NEW package \in Packages,
               CreateRead(r, i, status, package)
        PROVE  TypeInv'
    <3> DEFINE seen == [NoRow EXCEPT !.package = package]
    <3> DEFINE pc == IF package = "upload" THEN "store" ELSE "write"
    <3>1. seen \in Row
      BY NoRowType, ParameterAssumption DEF Row
    <3>2. Accept(r, "create", pc, i, status, seen)
      BY <2>1 DEF CreateRead
    <3>3. pc \in {"store", "write"}
      OBVIOUS
    <3> HIDE DEF seen, pc
    <3> QED BY <3>1, <3>2, <3>3, AcceptType
  <2>2. ASSUME NEW status \in Statuses, ReviewRead(r, i, status) PROVE TypeInv'
    BY <2>2, <1>i, AcceptType DEF ReviewRead
  <2>3. CASE PushRead(r, i)
    BY <2>3, <1>i, AcceptType DEF PushRead, Statuses
  <2>4. CASE UnpushRead(r, i)
    BY <2>4, <1>i, AcceptType DEF UnpushRead, Statuses
  <2>5. CASE DeleteRead(r, i)
    BY <2>5, <1>i, AcceptType DEF DeleteRead, Statuses
  <2> QED BY <2>1, <2>2, <2>3, <2>4, <2>5
<1>3. ASSUME NEW r \in Requests, CreateStore(r) PROVE TypeInv'
  BY <1>3, <1>r, ContinueType DEF CreateStore, TypeInv, TypeOK, Shape
<1>4. ASSUME NEW r \in Requests, CreateWrite(r) PROVE TypeInv'
  <2>1. req[r].op = "create" /\ req[r].id \in Identity /\ Continue(r, "audit")
    BY <1>4, <1>r DEF CreateWrite, Shape
  <2>2. identity' \in [Identity -> Row]
    BY <1>4, <1>r, <1>i, <2>1, DeliveryType
    DEF CreateWrite, TypeInv, TypeOK, Row, Request
  <2> QED BY <1>4, <2>1, <2>2, ContinueType DEF CreateWrite, TypeInv, TypeOK
<1>5. ASSUME NEW r \in Requests, CreateAudit(r) PROVE TypeInv'
  BY <1>5, <1>r, FinishType DEF CreateAudit, TypeInv, TypeOK, Shape
<1>6. ASSUME NEW r \in Requests, CreateFail(r) PROVE TypeInv'
  BY <1>6, FinishType DEF CreateFail, RemoveFile, TypeInv, TypeOK
<1>7. ASSUME NEW r \in Requests, ReviewWrite(r) PROVE TypeInv'
  <2>1. req[r].id \in Identity /\ req[r] \in Request /\ Finish(r)
    BY <1>7, <1>r DEF ReviewWrite, Writes, Shape
  <2>2. Reviewed(req[r], identity[req[r].id]) \in Row
    BY <2>1, <1>i, DeliveryType DEF Reviewed, Row, Request
  <2> QED BY <1>7, <2>1, <2>2, FinishType DEF ReviewWrite, TypeInv, TypeOK
<1>8. ASSUME NEW r \in Requests, PushWrite(r) PROVE TypeInv'
  <2>1. req[r].id \in Identity /\ Finish(r)
    BY <1>8, <1>r DEF PushWrite, Writes, Shape
  <2>2. [identity[req[r].id] EXCEPT !.delivery = "PUSHED", !.published = TRUE] \in Row
    BY <2>1, <1>i DEF Row, Deliveries
  <2> QED BY <1>8, <2>1, <2>2, FinishType DEF PushWrite, TypeInv, TypeOK
<1>9. ASSUME NEW r \in Requests, UnpushWrite(r) PROVE TypeInv'
  <2>1. req[r].id \in Identity /\ Finish(r)
    BY <1>9, <1>r DEF UnpushWrite, Writes, Shape
  <2>2. Unpushed(req[r], identity[req[r].id]) \in Row
    BY <2>1, <1>i, DeliveryType DEF Unpushed, Row
  <2> QED BY <1>9, <2>1, <2>2, FinishType DEF UnpushWrite, TypeInv, TypeOK
<1>10. ASSUME NEW r \in Requests, DeleteWrite(r) PROVE TypeInv'
  BY <1>10, <1>r, NoRowType, ContinueType DEF DeleteWrite, Writes, TypeInv, TypeOK, Shape
<1>11. ASSUME NEW r \in Requests, DeleteUnlink(r) PROVE TypeInv'
  BY <1>11, FinishType DEF DeleteUnlink, RemoveFile, TypeInv, TypeOK
<1>12. ASSUME NEW r \in Requests, Fail(r) PROVE TypeInv'
  BY <1>12, FinishType DEF Fail, TypeInv, TypeOK
<1>13. CASE Restart
  BY <1>13, IdleType DEF Restart, TypeInv, TypeOK
<1> QED BY <1>1, <1>2, <1>3, <1>4, <1>5, <1>6, <1>7, <1>8, <1>9, <1>10, <1>11,
           <1>12, <1>13 DEF Next, Proceed

(* The service keeps to its types in every interleaving of any number of   *)
(* handlers, failures and restarts.                                        *)
THEOREM TypeCorrect == Spec => []TypeOK
<1>1. Init => TypeInv
  BY NoRowType, IdleType DEF Init, TypeInv, TypeOK
<1>2. TypeInv => TypeOK
  BY DEF TypeInv
<1> QED BY <1>1, <1>2, TypeStep, PTL DEF Spec

-----------------------------------------------------------------------------
(* No two handlers create the same identity, and until its row is there    *)
(* nobody else has heard of it.                                            *)
CreatorsApart ==
  \A r, s \in Requests :
    r # s /\ req[r].op = "create" /\ req[r].id = req[s].id =>
      req[s].op # "create" /\ req[r].pc = "audit"

(* A row is there neither before it is created nor after it is deleted.    *)
RowIsGone ==
  \A r \in Requests :
    req[r].pc = "unlink" \/ (req[r].op = "create" /\ req[r].pc \in {"store", "write"})
      => ~identity[req[r].id].exists

(* The package in a handler's copy of the row is the package of the row.   *)
PackageIsSeen ==
  \A r \in Requests :
    req[r].op \in {"review", "push", "unpush", "delete"} /\ identity[req[r].id].exists
      => req[r].seen.package = identity[req[r].id].package

CreationInv == CreatorsApart /\ RowIsGone /\ PackageIsSeen

LEMMA CreationStep == TypeInv /\ CreationInv /\ [Next]_vars => CreationInv'
<1> SUFFICES ASSUME TypeInv, CreationInv, [Next]_vars PROVE CreationInv'
  OBVIOUS
<1> USE DEF CreationInv
<1>r. ASSUME NEW s \in Requests
      PROVE  req[s] \in Request /\ Shape(req[s]) /\ (req[s].id # None => req[s].id \in Identity)
  BY DEF TypeInv, TypeOK, Request
<1>t. req \in [Requests -> Request] /\ identity \in [Identity -> Row]
  BY DEF TypeInv, TypeOK
<1>1. CASE UNCHANGED vars
  BY <1>1 DEF CreatorsApart, RowIsGone, PackageIsSeen, vars
(* A handler that ends, or whose record and row do not change in what      *)
(* matters here.                                                           *)
<1>e. ASSUME NEW r \in Requests, Finish(r),
             \A j \in Identity : /\ identity'[j].exists = identity[j].exists
                                 /\ identity'[j].package = identity[j].package
      PROVE  CreationInv'
  <2>1. req' = [req EXCEPT ![r] = Idle]
    BY <1>e DEF Finish
  <2>2. \A s \in Requests : req'[s] = IF s = r THEN Idle ELSE req[s]
    BY <2>1, <1>t
  <2>3. Idle.pc = "idle" /\ Idle.op = "none" /\ Idle.id = None
    BY DEF Idle
  <2>4. \A s \in Requests : req[s].op # "none" => req[s].id \in Identity
    BY <1>r DEF Shape
  <2>5. CreatorsApart'
    BY <2>2, <2>3, <2>4, IdentityAssumption DEF CreatorsApart
  <2>6. RowIsGone'
    BY <2>2, <2>3, <2>4, <1>e, <1>r DEF RowIsGone, Shape
  <2>7. PackageIsSeen'
    BY <2>2, <2>3, <2>4, <1>e DEF PackageIsSeen
  <2> QED BY <2>5, <2>6, <2>7
<1>2. ASSUME NEW r \in Requests, Start(r) PROVE CreationInv'
  <2> PICK i \in Identity :
        \/ \E status \in Statuses, package \in Packages : CreateRead(r, i, status, package)
        \/ \E status \in Statuses : ReviewRead(r, i, status)
        \/ PushRead(r, i) \/ UnpushRead(r, i) \/ DeleteRead(r, i)
    BY <1>2 DEF Start
  <2>1. ASSUME NEW status \in Statuses, NEW package \in Packages,
               CreateRead(r, i, status, package)
        PROVE  CreationInv'
    <3>1. /\ req'[r].op = "create" /\ req'[r].id = i
          /\ req'[r].pc \in {"store", "write"}
          /\ \A s \in Requests \ {r} : req'[s] = req[s]
          /\ identity' = identity
      BY <2>1, <1>t DEF CreateRead, Accept
    <3>2. ~identity[i].exists /\ \A s \in Requests : req[s].id # i
      BY <2>1 DEF CreateRead, Fresh
    <3> QED BY <3>1, <3>2 DEF CreatorsApart, RowIsGone, PackageIsSeen
  <2>2. ASSUME identity[i].exists, NEW op \in {"review", "push", "unpush", "delete"},
               NEW status, Accept(r, op, "write", i, status, identity[i])
        PROVE  CreationInv'
    <3>1. /\ req'[r].op = op /\ req'[r].id = i /\ req'[r].pc = "write"
          /\ req'[r].seen = identity[i]
          /\ \A s \in Requests \ {r} : req'[s] = req[s]
          /\ identity' = identity
      BY <2>2, <1>t DEF Accept
    <3>2. \A s \in Requests : req[s].op = "create" /\ req[s].id = i => req[s].pc = "audit"
      BY <2>2, <1>r DEF RowIsGone, Shape, Request
    <3>3. CreatorsApart'
      BY <3>1, <3>2 DEF CreatorsApart
    <3>4. RowIsGone' /\ PackageIsSeen'
      BY <3>1 DEF RowIsGone, PackageIsSeen
    <3> QED BY <3>3, <3>4
  <2>3. ASSUME NEW status \in Statuses, ReviewRead(r, i, status) PROVE CreationInv'
    BY <2>3, <2>2 DEF ReviewRead
  <2>4. CASE PushRead(r, i)
    BY <2>4, <2>2 DEF PushRead
  <2>5. CASE UnpushRead(r, i)
    BY <2>5, <2>2 DEF UnpushRead
  <2>6. CASE DeleteRead(r, i)
    BY <2>6, <2>2 DEF DeleteRead
  <2> QED BY <2>1, <2>3, <2>4, <2>5, <2>6
<1>3. ASSUME NEW r \in Requests, CreateStore(r) PROVE CreationInv'
  BY <1>3, <1>t, <1>r
  DEF CreateStore, Continue, CreatorsApart, RowIsGone, PackageIsSeen, Request, Shape
<1>4. ASSUME NEW r \in Requests, CreateWrite(r) PROVE CreationInv'
  <2> DEFINE i == req[r].id
  <2>1. /\ req[r].op = "create" /\ req[r].pc = "write" /\ i \in Identity
        /\ \A s \in Requests \ {r} : req[s].id # i
    BY <1>4, <1>r DEF CreateWrite, Shape, CreatorsApart
  <2>2. /\ req'[r].op = "create" /\ req'[r].id = i /\ req'[r].pc = "audit"
        /\ \A s \in Requests \ {r} : req'[s] = req[s]
        /\ \A j \in Identity \ {i} : identity'[j] = identity[j]
    BY <1>4, <1>t, <1>r, <2>1 DEF CreateWrite, Continue, Request
  <2>3. \A s \in Requests \ {r} : req[s].op # "none" => req[s].id \in Identity \ {i}
    BY <2>1, <1>r DEF Shape
  <2>4. CreatorsApart'
    BY <2>1, <2>2 DEF CreatorsApart
  <2>5. RowIsGone'
    BY <2>2, <2>3, <1>r DEF RowIsGone, Shape
  <2>6. PackageIsSeen'
    BY <2>2, <2>3 DEF PackageIsSeen
  <2> QED BY <2>4, <2>5, <2>6
<1>5. ASSUME NEW r \in Requests, CreateAudit(r) PROVE CreationInv'
  BY <1>5, <1>e DEF CreateAudit
<1>6. ASSUME NEW r \in Requests, CreateFail(r) PROVE CreationInv'
  BY <1>6, <1>e DEF CreateFail
<1>7. ASSUME NEW r \in Requests, ReviewWrite(r) PROVE CreationInv'
  BY <1>7, <1>e, <1>t, <1>r DEF ReviewWrite, Reviewed, Row
<1>8. ASSUME NEW r \in Requests, PushWrite(r) PROVE CreationInv'
  BY <1>8, <1>e, <1>t, <1>r DEF PushWrite, Row
<1>9. ASSUME NEW r \in Requests, UnpushWrite(r) PROVE CreationInv'
  BY <1>9, <1>e, <1>t, <1>r DEF UnpushWrite, Unpushed, Row
<1>10. ASSUME NEW r \in Requests, DeleteWrite(r) PROVE CreationInv'
  <2>1. /\ req[r].op = "delete" /\ req'[r].op = "delete" /\ req'[r].pc = "unlink"
        /\ req'[r].id = req[r].id /\ req'[r].seen = req[r].seen
        /\ \A s \in Requests \ {r} : req'[s] = req[s]
        /\ req[r].id \in Identity
    BY <1>10, <1>t, <1>r DEF DeleteWrite, Writes, Continue, Request, Shape
  <2>2. /\ ~identity'[req[r].id].exists
        /\ \A j \in Identity \ {req[r].id} : identity'[j] = identity[j]
    BY <1>10, <2>1, <1>t DEF DeleteWrite, NoRow
  <2>3. \A s \in Requests : req[s].op # "none" => req[s].id \in Identity
    BY <1>r DEF Shape
  <2>4. CreatorsApart'
    BY <2>1 DEF CreatorsApart
  <2>5. RowIsGone'
    BY <2>1, <2>2, <2>3, <1>r DEF RowIsGone, Shape
  <2>6. PackageIsSeen'
    BY <2>1, <2>2, <2>3 DEF PackageIsSeen
  <2> QED BY <2>4, <2>5, <2>6
<1>11. ASSUME NEW r \in Requests, DeleteUnlink(r) PROVE CreationInv'
  BY <1>11, <1>e DEF DeleteUnlink
<1>12. ASSUME NEW r \in Requests, Fail(r) PROVE CreationInv'
  BY <1>12, <1>e DEF Fail
<1>13. CASE Restart
  BY <1>13 DEF Restart, Idle, CreatorsApart, RowIsGone, PackageIsSeen
<1> QED BY <1>1, <1>2, <1>3, <1>4, <1>5, <1>6, <1>7, <1>8, <1>9, <1>10, <1>11,
           <1>12, <1>13 DEF Next, Proceed

-----------------------------------------------------------------------------
(* A handler's copy of a row is as sound as the row was.                   *)
CopiesSound ==
  \A r \in Requests :
    /\ req[r].seen.published <=> req[r].seen.delivery = "PUSHED"
    /\ req[r].op = "review" /\ req[r].seen.delivery = "PUSHED" => req[r].id \in pushed
    /\ req[r].op = "push" => Publishable(req[r].seen.package)

RowsSound ==
  \A i \in Identity :
    /\ identity[i].published <=> identity[i].delivery = "PUSHED"
    /\ identity[i].exists /\ identity[i].delivery = "PUSHED" =>
         Publishable(identity[i].package) /\ i \in pushed

DeliveryInv == TypeInv /\ CreationInv /\ CopiesSound /\ RowsSound

LEMMA DeliveryStep == DeliveryInv /\ [Next]_vars => DeliveryInv'
<1> SUFFICES ASSUME DeliveryInv, [Next]_vars PROVE CopiesSound' /\ RowsSound'
  BY TypeStep, CreationStep DEF DeliveryInv
<1>t. /\ req \in [Requests -> Request] /\ identity \in [Identity -> Row]
      /\ TypeInv /\ CreationInv /\ CopiesSound /\ RowsSound
  BY DEF DeliveryInv, TypeInv, TypeOK
<1>r. ASSUME NEW s \in Requests
      PROVE  req[s] \in Request /\ Shape(req[s])
  BY <1>t DEF TypeInv
<1>i. Idle.op = "none" /\ Idle.seen.published = FALSE /\ Idle.seen.delivery = "PENDING"
  BY DEF Idle, NoRow
<1>1. CASE UNCHANGED vars
  BY <1>1, <1>t DEF CopiesSound, RowsSound, vars
(* The requests after a handler ended; those after one took a step.        *)
<1>e. ASSUME NEW r \in Requests, Finish(r), pushed \subseteq pushed'
      PROVE  CopiesSound'
  <2>1. \A s \in Requests : req'[s] = IF s = r THEN Idle ELSE req[s]
    BY <1>e, <1>t DEF Finish
  <2> QED BY <1>e, <2>1, <1>t, <1>i DEF CopiesSound
<1>c. ASSUME NEW r \in Requests, NEW pc, Continue(r, pc), UNCHANGED pushed
      PROVE  CopiesSound'
  BY <1>c, <1>t DEF CopiesSound, Continue, Request
<1>2. ASSUME NEW r \in Requests, Start(r) PROVE CopiesSound' /\ RowsSound'
  <2> PICK i \in Identity :
        \/ \E status \in Statuses, package \in Packages : CreateRead(r, i, status, package)
        \/ \E status \in Statuses : ReviewRead(r, i, status)
        \/ PushRead(r, i) \/ UnpushRead(r, i) \/ DeleteRead(r, i)
    BY <1>2 DEF Start
  <2>1. ASSUME NEW op, NEW pc, NEW status, NEW seen, Accept(r, op, pc, i, status, seen),
               seen.published <=> seen.delivery = "PUSHED",
               op = "review" /\ seen.delivery = "PUSHED" => i \in pushed,
               op = "push" => Publishable(seen.package)
        PROVE  CopiesSound' /\ RowsSound'
    <3>1. /\ req'[r] = [pc |-> pc, op |-> op, id |-> i, status |-> status, seen |-> seen]
          /\ \A s \in Requests \ {r} : req'[s] = req[s]
          /\ UNCHANGED <<identity, pushed>>
      BY <2>1, <1>t DEF Accept
    <3> QED BY <2>1, <3>1, <1>t DEF CopiesSound, RowsSound
  <2>2. ASSUME NEW status \in Statuses, NEW package \in Packages,
               CreateRead(r, i, status, package)
        PROVE  CopiesSound' /\ RowsSound'
    <3> DEFINE seen == [NoRow EXCEPT !.package = package]
    <3>1. seen.published = FALSE /\ seen.delivery = "PENDING"
      BY DEF NoRow
    <3>2. Accept(r, "create", IF package = "upload" THEN "store" ELSE "write", i, status, seen)
      BY <2>2 DEF CreateRead
    <3> HIDE DEF seen
    <3> QED BY <3>1, <3>2, <2>1
  <2>3. ASSUME NEW status \in Statuses, ReviewRead(r, i, status)
        PROVE  CopiesSound' /\ RowsSound'
    BY <2>3, <2>1, <1>t DEF ReviewRead, RowsSound
  <2>4. CASE PushRead(r, i)
    BY <2>4, <2>1, <1>t DEF PushRead, MayPush, RowsSound
  <2>5. CASE UnpushRead(r, i)
    BY <2>5, <2>1, <1>t DEF UnpushRead, RowsSound
  <2>6. CASE DeleteRead(r, i)
    BY <2>6, <2>1, <1>t DEF DeleteRead, RowsSound
  <2> QED BY <2>2, <2>3, <2>4, <2>5, <2>6
<1>3. ASSUME NEW r \in Requests, CreateStore(r) PROVE CopiesSound' /\ RowsSound'
  BY <1>3, <1>c, <1>t DEF CreateStore, RowsSound
<1>4. ASSUME NEW r \in Requests, CreateWrite(r) PROVE CopiesSound' /\ RowsSound'
  <2> DEFINE i == req[r].id
  <2>1. /\ req[r].op = "create" /\ req[r].pc = "write" /\ i \in Identity
        /\ \A s \in Requests \ {r} : req[s].id # i
    BY <1>4, <1>r, <1>t DEF CreateWrite, Shape, CreationInv, CreatorsApart
  <2>2. /\ req'[r].op = "create" /\ req'[r].seen = req[r].seen
        /\ \A s \in Requests \ {r} : req'[s] = req[s]
        /\ pushed' = pushed \ {i}
    BY <1>4, <1>t, <2>1 DEF CreateWrite, Continue, Request
  <2>3. CopiesSound'
    BY <2>1, <2>2, <1>t DEF CopiesSound
  <2>4. /\ identity'[i].published = FALSE /\ identity'[i].delivery # "PUSHED"
        /\ \A j \in Identity \ {i} : identity'[j] = identity[j]
    BY <1>4, <1>t, <2>1, DeliveryType DEF CreateWrite
  <2>5. RowsSound'
    BY <2>2, <2>4, <1>t DEF RowsSound
  <2> QED BY <2>3, <2>5
<1>5. ASSUME NEW r \in Requests, CreateAudit(r) PROVE CopiesSound' /\ RowsSound'
  BY <1>5, <1>e, <1>t DEF CreateAudit, RowsSound
<1>6. ASSUME NEW r \in Requests, CreateFail(r) PROVE CopiesSound' /\ RowsSound'
  BY <1>6, <1>e, <1>t DEF CreateFail, RowsSound
(* A write of the row a handler read before.                               *)
<1>w. ASSUME NEW r \in Requests, NEW op \in {"review", "push", "unpush"}, Writes(r, op),
             NEW row, identity' = [identity EXCEPT ![req[r].id] = row],
             row.exists, row.package = identity[req[r].id].package,
             row.published <=> row.delivery = "PUSHED",
             row.delivery = "PUSHED" => Publishable(req[r].seen.package) /\ req[r].id \in pushed',
             pushed \subseteq pushed'
      PROVE  RowsSound'
  <2>1. req[r].id \in Identity /\ req[r].seen.package = row.package
    BY <1>w, <1>r, <1>t DEF Writes, Shape, CreationInv, PackageIsSeen
  <2>2. /\ identity'[req[r].id] = row
        /\ \A j \in Identity \ {req[r].id} : identity'[j] = identity[j]
    BY <2>1, <1>w, <1>t
  <2> QED BY <2>1, <2>2, <1>w, <1>t DEF RowsSound
<1>7. ASSUME NEW r \in Requests, ReviewWrite(r) PROVE CopiesSound' /\ RowsSound'
  <2> DEFINE old == identity[req[r].id]
  <2> DEFINE row == Reviewed(req[r], old)
  <2>1. /\ Writes(r, "review") /\ Finish(r) /\ UNCHANGED pushed
        /\ identity' = [identity EXCEPT ![req[r].id] = row]
    BY <1>7 DEF ReviewWrite
  <2>2. req[r].id \in Identity /\ old \in Row /\ old.exists /\ req[r].op = "review"
    BY <2>1, <1>r, <1>t DEF Writes, Shape
  <2>3. /\ row.exists /\ row.package = old.package
        /\ row.delivery = DeliveryFor(req[r].status, req[r].seen.package, req[r].seen.delivery)
        /\ row.published <=> (row.delivery = "PUSHED" /\ req[r].seen.published)
    BY <2>2 DEF Reviewed, Row
  <2>4. row.delivery = "PUSHED" =>
          Publishable(req[r].seen.package) /\ req[r].seen.delivery = "PUSHED"
    BY <2>3, DeliveryType
  <2>5. /\ req[r].seen.published <=> req[r].seen.delivery = "PUSHED"
        /\ req[r].seen.delivery = "PUSHED" => req[r].id \in pushed
    BY <2>2, <1>t DEF CopiesSound
  <2> HIDE DEF row
  <2>6. RowsSound'
    BY <2>1, <2>3, <2>4, <2>5, <1>w
  <2> QED BY <2>1, <2>6, <1>e
<1>8. ASSUME NEW r \in Requests, PushWrite(r) PROVE CopiesSound' /\ RowsSound'
  <2> DEFINE row == [identity[req[r].id] EXCEPT !.delivery = "PUSHED", !.published = TRUE]
  <2>1. /\ Writes(r, "push") /\ Finish(r) /\ pushed' = pushed \cup {req[r].id}
        /\ identity' = [identity EXCEPT ![req[r].id] = row]
    BY <1>8 DEF PushWrite
  <2>2. /\ row.exists /\ row.package = identity[req[r].id].package
        /\ row.delivery = "PUSHED" /\ row.published
        /\ Publishable(req[r].seen.package)
    BY <2>1, <1>r, <1>t DEF Writes, Shape, Row, CopiesSound
  <2> HIDE DEF row
  <2>3. RowsSound'
    BY <2>1, <2>2, <1>w
  <2> QED BY <2>1, <2>3, <1>e
<1>9. ASSUME NEW r \in Requests, UnpushWrite(r) PROVE CopiesSound' /\ RowsSound'
  <2> DEFINE row == Unpushed(req[r], identity[req[r].id])
  <2>1. /\ Writes(r, "unpush") /\ Finish(r) /\ UNCHANGED pushed
        /\ identity' = [identity EXCEPT ![req[r].id] = row]
    BY <1>9 DEF UnpushWrite
  <2>2. /\ row.exists /\ row.package = identity[req[r].id].package
        /\ row.delivery # "PUSHED" /\ row.published = FALSE
    BY <2>1, <1>r, <1>t, DeliveryType DEF Writes, Shape, Row, Unpushed
  <2> HIDE DEF row
  <2>3. RowsSound'
    BY <2>1, <2>2, <1>w
  <2> QED BY <2>1, <2>3, <1>e
<1>10. ASSUME NEW r \in Requests, DeleteWrite(r) PROVE CopiesSound' /\ RowsSound'
  <2>1. \A j \in Identity : identity'[j] \in {identity[j], NoRow}
    BY <1>10, <1>t DEF DeleteWrite
  <2>2. RowsSound'
    BY <1>10, <2>1, <1>t DEF DeleteWrite, RowsSound, NoRow
  <2> QED BY <1>10, <2>2, <1>c DEF DeleteWrite
<1>11. ASSUME NEW r \in Requests, DeleteUnlink(r) PROVE CopiesSound' /\ RowsSound'
  BY <1>11, <1>e, <1>t DEF DeleteUnlink, RowsSound
<1>12. ASSUME NEW r \in Requests, Fail(r) PROVE CopiesSound' /\ RowsSound'
  BY <1>12, <1>e, <1>t DEF Fail, RowsSound
<1>13. CASE Restart
  BY <1>13, <1>t, <1>i DEF Restart, CopiesSound, RowsSound
<1> QED BY <1>1, <1>2, <1>3, <1>4, <1>5, <1>6, <1>7, <1>8, <1>9, <1>10, <1>11,
           <1>12, <1>13 DEF Next, Proceed

LEMMA DeliveryInit == Init => DeliveryInv
<1> SUFFICES ASSUME Init PROVE DeliveryInv
  OBVIOUS
<1>1. /\ \A r \in Requests : req[r] = Idle
      /\ \A i \in Identity : identity[i] = NoRow
  BY DEF Init
<1>2. /\ Idle.op = "none" /\ Idle.pc = "idle" /\ Idle.seen = NoRow
      /\ ~NoRow.exists /\ NoRow.published = FALSE /\ NoRow.delivery = "PENDING"
  BY DEF Idle, NoRow
<1>3. TypeInv
  BY NoRowType, IdleType, <1>1 DEF Init, TypeInv, TypeOK
<1>4. CreationInv
  BY <1>1, <1>2 DEF CreationInv, CreatorsApart, RowIsGone, PackageIsSeen
<1>5. CopiesSound /\ RowsSound
  BY <1>1, <1>2 DEF CopiesSound, RowsSound
<1> QED BY <1>3, <1>4, <1>5 DEF DeliveryInv

(* The date of publication never contradicts the delivery status, whatever *)
(* old copy a handler wrote either from.                                   *)
THEOREM PublishedCorrect == Spec => []PublishedWhenPushed
<1>1. DeliveryInv => PublishedWhenPushed
  BY DEF DeliveryInv, RowsSound, PublishedWhenPushed
<1> QED BY <1>1, DeliveryInit, DeliveryStep, PTL DEF Spec

(* Whatever a host is offered has a checksum and a size, and was published *)
(* by a push handler once, whatever was undone since; that the package is  *)
(* in the directory as well is said of confirmed creations only, below.    *)
THEOREM OfferedCorrect == Spec => []OfferedIsSound
<1>1. DeliveryInv => OfferedIsSound
  BY DEF DeliveryInv, RowsSound, OfferedIsSound, Offered
<1> QED BY <1>1, DeliveryInit, DeliveryStep, PTL DEF Spec

-----------------------------------------------------------------------------
(* A package is there from its upload until its row is gone.               *)
FilesInv ==
  /\ \A r \in Requests :
       req[r].op = "create" =>
         /\ req[r].pc = "store" => req[r].seen.package = "upload"
         /\ req[r].pc = "write" /\ req[r].seen.package = "upload" => req[r].id \in files
         /\ req[r].pc = "audit" => req[r].id \notin confirmed
         /\ /\ req[r].pc = "audit" /\ identity[req[r].id].exists
            /\ identity[req[r].id].package = "upload"
            => req[r].id \in files
  /\ ConfirmedHasFile

LEMMA FilesStep ==
  TypeInv /\ CreationInv /\ FilesInv /\ [Next]_vars => FilesInv'
<1> SUFFICES ASSUME TypeInv, CreationInv, FilesInv, [Next]_vars PROVE FilesInv'
  OBVIOUS
<1>t. req \in [Requests -> Request] /\ identity \in [Identity -> Row]
      /\ files \subseteq Identity /\ confirmed \subseteq Identity
  BY DEF TypeInv, TypeOK
<1>r. ASSUME NEW s \in Requests PROVE req[s] \in Request /\ Shape(req[s])
  BY DEF TypeInv, TypeOK
<1>i. Idle.op = "none"
  BY DEF Idle
<1>1. CASE UNCHANGED vars
  BY <1>1 DEF FilesInv, ConfirmedHasFile, vars
(* A handler that ends and touches no row that exists.                     *)
<1>e. ASSUME NEW r \in Requests, Finish(r), UNCHANGED <<files, confirmed>>,
             \A j \in Identity : /\ identity'[j].exists = identity[j].exists
                                 /\ identity'[j].package = identity[j].package
      PROVE  FilesInv'
  <2>1. \A s \in Requests : req'[s] = IF s = r THEN Idle ELSE req[s]
    BY <1>e, <1>t DEF Finish
  <2>2. \A s \in Requests : req[s].op = "create" => req[s].id \in Identity
    BY <1>r DEF Shape
  <2> QED BY <2>1, <2>2, <1>e, <1>i, <1>t DEF FilesInv, ConfirmedHasFile
(* A handler that removes the package of a row nobody relies on.           *)
<1>f. ASSUME NEW r \in Requests, Finish(r), UNCHANGED <<identity, confirmed>>,
             files' \in {files, files \ {req[r].id}},
             \/ req[r].op = "create"
             \/ req[r].pc = "unlink"
      PROVE  FilesInv'
  <2> DEFINE i == req[r].id
  <2>1. \A s \in Requests : req'[s] = IF s = r THEN Idle ELSE req[s]
    BY <1>f, <1>t DEF Finish
  <2>2. ASSUME NEW s \in Requests \ {r}, req[s].op = "create", req[s].id = i
        PROVE  req[s].pc = "audit" /\ ~identity[i].exists
    BY <2>2, <1>f, <1>r DEF CreationInv, CreatorsApart, RowIsGone
  <2>3. ~identity[i].exists \/ i \notin confirmed
    BY <1>f, <1>r DEF CreationInv, RowIsGone, FilesInv, Request, Shape
  <2>4. ConfirmedHasFile'
    BY <2>3, <1>f DEF FilesInv, ConfirmedHasFile
  <2> QED BY <2>1, <2>2, <2>4, <1>f, <1>i DEF FilesInv
<1>2. ASSUME NEW r \in Requests, Start(r) PROVE FilesInv'
  <2>1. ASSUME NEW op \in {"review", "push", "unpush", "delete"}, NEW i, NEW status, NEW seen,
               Accept(r, op, "write", i, status, seen)
        PROVE  FilesInv'
    <3>1. /\ req'[r].op = op
          /\ \A s \in Requests \ {r} : req'[s] = req[s]
          /\ UNCHANGED <<identity, files, confirmed>>
      BY <2>1, <1>t DEF Accept
    <3> QED BY <3>1 DEF FilesInv, ConfirmedHasFile
  <2>2. ASSUME NEW i, NEW status, NEW package, CreateRead(r, i, status, package)
        PROVE  FilesInv'
    <3>1. /\ req'[r].pc = IF package = "upload" THEN "store" ELSE "write"
          /\ req'[r].seen.package = package
          /\ \A s \in Requests \ {r} : req'[s] = req[s]
          /\ UNCHANGED <<identity, files, confirmed>>
      BY <2>2, <1>t DEF CreateRead, Accept, NoRow
    <3> QED BY <3>1 DEF FilesInv, ConfirmedHasFile
  <2> QED BY <1>2, <2>1, <2>2 DEF Start, ReviewRead, PushRead, UnpushRead, DeleteRead
<1>3. ASSUME NEW r \in Requests, CreateStore(r) PROVE FilesInv'
  <2>1. /\ req'[r].pc = "write" /\ req'[r].id = req[r].id /\ req[r].id \in files'
        /\ \A s \in Requests \ {r} : req'[s] = req[s]
        /\ files \subseteq files' /\ UNCHANGED <<identity, confirmed>>
    BY <1>3, <1>t, <1>r DEF CreateStore, Continue, Request
  <2> QED BY <2>1 DEF FilesInv, ConfirmedHasFile
<1>4. ASSUME NEW r \in Requests, CreateWrite(r) PROVE FilesInv'
  <2> DEFINE i == req[r].id
  <2>1. /\ req[r].op = "create" /\ req[r].pc = "write" /\ i \in Identity
        /\ \A s \in Requests \ {r} : req[s].id # i
    BY <1>4, <1>r DEF CreateWrite, Shape, CreationInv, CreatorsApart
  <2>2. /\ req'[r].op = "create" /\ req'[r].id = i /\ req'[r].pc = "audit"
        /\ \A s \in Requests \ {r} : req'[s] = req[s]
        /\ identity'[i].package = req[r].seen.package
        /\ \A j \in Identity \ {i} : identity'[j] = identity[j]
        /\ confirmed' = confirmed \ {i} /\ files' = files
    BY <1>4, <1>t, <2>1 DEF CreateWrite, Continue, Request
  <2>3. \A s \in Requests \ {r} : req[s].op = "create" => req[s].id \in Identity \ {i}
    BY <2>1, <1>r DEF Shape
  <2>4. ConfirmedHasFile'
    BY <2>2, <1>t DEF FilesInv, ConfirmedHasFile
  <2> QED BY <2>1, <2>2, <2>3, <2>4 DEF FilesInv
<1>5. ASSUME NEW r \in Requests, CreateAudit(r) PROVE FilesInv'
  <2> DEFINE i == req[r].id
  <2>1. /\ req[r].op = "create" /\ req[r].pc = "audit"
        /\ \A s \in Requests : req'[s] = IF s = r THEN Idle ELSE req[s]
        /\ confirmed' = confirmed \cup {i} /\ UNCHANGED <<identity, files>>
    BY <1>5, <1>t, <1>r DEF CreateAudit, Finish, Shape
  <2>2. \A s \in Requests \ {r} : req[s].op = "create" => req[s].id # i
    BY <2>1 DEF CreationInv, CreatorsApart
  <2>3. ConfirmedHasFile'
    BY <2>1 DEF FilesInv, ConfirmedHasFile
  <2> QED BY <2>1, <2>2, <2>3, <1>i DEF FilesInv
<1>6. ASSUME NEW r \in Requests, CreateFail(r) PROVE FilesInv'
  BY <1>6, <1>f DEF CreateFail, RemoveFile
<1>7. ASSUME NEW r \in Requests, ReviewWrite(r) PROVE FilesInv'
  BY <1>7, <1>e, <1>t, <1>r DEF ReviewWrite, Reviewed, Row
<1>8. ASSUME NEW r \in Requests, PushWrite(r) PROVE FilesInv'
  BY <1>8, <1>e, <1>t, <1>r DEF PushWrite, Row
<1>9. ASSUME NEW r \in Requests, UnpushWrite(r) PROVE FilesInv'
  BY <1>9, <1>e, <1>t, <1>r DEF UnpushWrite, Unpushed, Row
<1>10. ASSUME NEW r \in Requests, DeleteWrite(r) PROVE FilesInv'
  <2>1. /\ req[r].op = "delete" /\ req'[r].op = "delete" /\ req[r].id \in Identity
        /\ \A s \in Requests \ {r} : req'[s] = req[s]
        /\ UNCHANGED <<files, confirmed>>
    BY <1>10, <1>t, <1>r DEF DeleteWrite, Writes, Continue, Request, Shape
  <2>2. /\ ~identity'[req[r].id].exists
        /\ \A j \in Identity \ {req[r].id} : identity'[j] = identity[j]
    BY <1>10, <2>1, <1>t DEF DeleteWrite, NoRow
  <2>3. \A s \in Requests : req[s].op = "create" => req[s].id \in Identity
    BY <1>r DEF Shape
  <2> QED BY <2>1, <2>2, <2>3, <1>t DEF FilesInv, ConfirmedHasFile
<1>11. ASSUME NEW r \in Requests, DeleteUnlink(r) PROVE FilesInv'
  BY <1>11, <1>f DEF DeleteUnlink, RemoveFile
<1>12. ASSUME NEW r \in Requests, Fail(r) PROVE FilesInv'
  BY <1>12, <1>e DEF Fail
<1>13. CASE Restart
  BY <1>13, <1>i DEF Restart, FilesInv, ConfirmedHasFile
<1> QED BY <1>1, <1>2, <1>3, <1>4, <1>5, <1>6, <1>7, <1>8, <1>9, <1>10, <1>11,
           <1>12, <1>13 DEF Next, Proceed

(* No handler, however it fails or is interrupted, leaves a row whose      *)
(* creation was confirmed without the package uploaded for it.             *)
THEOREM ConfirmedCorrect == Spec => []ConfirmedHasFile
<1>1. Init => FilesInv
  BY IdleType DEF Init, FilesInv, ConfirmedHasFile, Idle
<1>2. DeliveryInv /\ FilesInv /\ [Next]_vars => DeliveryInv' /\ FilesInv'
  BY DeliveryStep, FilesStep DEF DeliveryInv
<1>3. FilesInv => ConfirmedHasFile
  BY DEF FilesInv
<1> QED BY <1>1, <1>2, <1>3, DeliveryInit, PTL DEF Spec

-----------------------------------------------------------------------------
(* Handlers one at a time. What a handler read is what it finds when it    *)
(* writes, and only an approved identity is published.                     *)
SerialInv ==
  /\ \A r \in Requests :
       req[r].op \in {"review", "push", "unpush", "delete"} /\ req[r].pc = "write"
         => req[r].seen = identity[req[r].id]
  /\ \A r \in Requests :
       req[r].op = "push" =>
         req[r].seen.status = "AVAILABLE" /\ Publishable(req[r].seen.package)
  /\ \A i \in Identity :
       identity[i].exists /\ identity[i].delivery = "PUSHED" =>
         identity[i].status = "AVAILABLE"

shelf == [i \in Identity |-> Place(i)]

LEMMA PlaceType ==
  ASSUME NEW i \in Identity
  PROVE  /\ Place(i) \in Shelf!Places
         /\ Place(i) = "absent" <=> ~identity[i].exists
         /\ Place(i) = "offered" <=> Offered(i)
         /\ identity[i].exists /\ ~Offered(i) /\ MayPush(i) => Place(i) = "ready"
BY DEF Place, Shelf!Places, Offered

(* The place of one identity changes: what the abstract step may be.       *)
LEMMA PlaceStep ==
  ASSUME NEW i \in Identity, \A j \in Identity \ {i} : identity'[j] = identity[j],
         \/ ~identity'[i].exists
         \/ ~identity[i].exists /\ ~Offered(i)'
         \/ identity[i].exists /\ identity'[i].exists /\ ~Offered(i)'
         \/ Offered(i) /\ Offered(i)'
         \/ identity[i].exists /\ MayPush(i) /\ Offered(i)'
  PROVE  [Shelf!Next]_shelf
<1>1. \A j \in Identity \ {i} : Place(j)' = Place(j)
  BY DEF Place, Offered, MayPush
<1>2. Place(i)' \in Shelf!Places
  BY DEF Place, Shelf!Places
<1>3. shelf' = [shelf EXCEPT ![i] = Place(i)'] /\ shelf[i] = Place(i)
  BY <1>1 DEF shelf
<1>4. Place(i)' = Place(i) => shelf' = shelf
  BY <1>1 DEF shelf
<1>5. ASSUME NEW from, NEW to, Place(i) \in from, Place(i)' \in to
      PROVE  Shelf!Move(i, from, to)
  BY <1>3, <1>5 DEF Shelf!Move, shelf
<1>6. CASE Place(i)' = "absent" /\ Place(i) # "absent"
  BY <1>5, <1>6, PlaceType DEF Shelf!Remove, Shelf!Next
<1>7. CASE Place(i) = "absent" /\ Place(i)' \in {"hidden", "ready"}
  BY <1>5, <1>7 DEF Shelf!Register, Shelf!Next
<1>8. CASE Place(i) \in {"hidden", "ready"} /\ Place(i)' \in {"hidden", "ready"}
  BY <1>5, <1>8 DEF Shelf!Review, Shelf!Next
<1>9. CASE Place(i) = "offered" /\ Place(i)' \in {"hidden", "ready"}
  BY <1>5, <1>9 DEF Shelf!Withdraw, Shelf!Next
<1>10. CASE Place(i) = "ready" /\ Place(i)' = "offered"
  BY <1>5, <1>10 DEF Shelf!Offer, Shelf!Next
<1>11. /\ Place(i)' = "absent" <=> ~identity'[i].exists
       /\ Place(i)' = "offered" <=> Offered(i)'
  BY DEF Place, Offered
<1> QED BY <1>2, <1>4, <1>6, <1>7, <1>8, <1>9, <1>10, <1>11, PlaceType DEF Shelf!Places

LEMMA SerialStep ==
  ASSUME NEW h, Requests = {h}, TypeInv, SerialInv, [Next]_vars
  PROVE  SerialInv' /\ [Shelf!Next]_shelf
<1>t. req \in [Requests -> Request] /\ identity \in [Identity -> Row]
  BY DEF TypeInv, TypeOK
<1>r. req[h] \in Request /\ Shape(req[h])
  BY DEF TypeInv, TypeOK
<1>i. Idle.op = "none" /\ Idle.pc = "idle"
  BY DEF Idle
<1>s. UNCHANGED identity => shelf' = shelf
  BY DEF shelf, Place, Offered, MayPush
(* The rows stay and the handler has nothing to write to one.              *)
<1>q. ASSUME UNCHANGED identity,
             req'[h].op \in {"none", "create"} \/ (req'[h].op = "delete" /\ req'[h].pc = "unlink")
      PROVE  SerialInv' /\ [Shelf!Next]_shelf
  BY <1>q, <1>s DEF SerialInv
<1>f. ASSUME Finish(h) PROVE req'[h].op = "none"
  BY <1>f, <1>t, <1>i DEF Finish
(* A handler that ends with its write to a row.                            *)
<1>w. ASSUME NEW i \in Identity, NEW row, Finish(h), identity[i].exists,
             identity' = [identity EXCEPT ![i] = row], row.exists,
             row.delivery = "PUSHED" => row.status = "AVAILABLE",
             row.delivery = "PUSHED" => Offered(i) \/ MayPush(i)
      PROVE  SerialInv' /\ [Shelf!Next]_shelf
  <2>1. identity'[i] = row /\ \A j \in Identity \ {i} : identity'[j] = identity[j]
    BY <1>w, <1>t
  <2>2. SerialInv'
    BY <2>1, <1>w, <1>f DEF SerialInv
  <2>3. [Shelf!Next]_shelf
    BY <2>1, <1>w, PlaceStep DEF Offered
  <2> QED BY <2>2, <2>3
<1>1. CASE UNCHANGED vars
  BY <1>1, <1>s DEF SerialInv, vars
<1>2. ASSUME NEW r \in Requests, Start(r) PROVE SerialInv' /\ [Shelf!Next]_shelf
  <2>1. ASSUME NEW op \in {"review", "push", "unpush", "delete"}, NEW i \in Identity,
               NEW status, Accept(r, op, "write", i, status, identity[i]),
               op = "push" => MayPush(i)
        PROVE  SerialInv' /\ [Shelf!Next]_shelf
    <3>1. /\ req'[h].op = op /\ req'[h].id = i /\ req'[h].seen = identity[i]
          /\ UNCHANGED identity
      BY <2>1, <1>t DEF Accept
    <3> QED BY <3>1, <2>1, <1>s DEF SerialInv, MayPush
  <2>2. ASSUME NEW i, NEW status, NEW package, CreateRead(r, i, status, package)
        PROVE  SerialInv' /\ [Shelf!Next]_shelf
    BY <2>2, <1>q, <1>t DEF CreateRead, Accept
  <2> QED BY <1>2, <2>1, <2>2 DEF Start, ReviewRead, PushRead, UnpushRead, DeleteRead
<1>3. ASSUME NEW r \in Requests, CreateStore(r) PROVE SerialInv' /\ [Shelf!Next]_shelf
  BY <1>3, <1>q, <1>t, <1>r DEF CreateStore, Continue, Shape, Request
<1>4. ASSUME NEW r \in Requests, CreateWrite(r) PROVE SerialInv' /\ [Shelf!Next]_shelf
  <2> DEFINE i == req[h].id
  <2>1. /\ i \in Identity /\ req'[h].op = "create"
        /\ \A j \in Identity \ {i} : identity'[j] = identity[j]
        /\ identity'[i].exists /\ identity'[i].delivery # "PUSHED"
    BY <1>4, <1>t, <1>r, DeliveryType DEF CreateWrite, Continue, Shape, Request
  <2>2. SerialInv'
    BY <2>1 DEF SerialInv
  <2>3. [Shelf!Next]_shelf
    BY <2>1, PlaceStep DEF Offered
  <2> QED BY <2>2, <2>3
<1>5. ASSUME NEW r \in Requests, CreateAudit(r) PROVE SerialInv' /\ [Shelf!Next]_shelf
  BY <1>5, <1>q, <1>f DEF CreateAudit
<1>6. ASSUME NEW r \in Requests, CreateFail(r) PROVE SerialInv' /\ [Shelf!Next]_shelf
  BY <1>6, <1>q, <1>f DEF CreateFail
<1>7. ASSUME NEW r \in Requests, ReviewWrite(r) PROVE SerialInv' /\ [Shelf!Next]_shelf
  <2> DEFINE i == req[h].id
  <2> DEFINE row == Reviewed(req[h], identity[i])
  <2>1. /\ i \in Identity /\ Finish(h) /\ identity[i].exists
        /\ identity' = [identity EXCEPT ![i] = row]
        /\ req[h].seen = identity[i]
    BY <1>7, <1>r DEF ReviewWrite, Writes, Shape, SerialInv
  <2>2. /\ row.exists /\ row.status = req[h].status
        /\ row.delivery = DeliveryFor(req[h].status, req[h].seen.package, req[h].seen.delivery)
    BY <2>1, <1>t DEF Reviewed, Row
  <2>3. row.delivery = "PUSHED" =>
          req[h].status = "AVAILABLE" /\ identity[i].delivery = "PUSHED"
    BY <2>1, <2>2 DEF DeliveryFor
  <2>4. row.delivery = "PUSHED" => Offered(i)
    BY <2>1, <2>3 DEF SerialInv, Offered
  <2> HIDE DEF row
  <2> QED BY <2>1, <2>2, <2>3, <2>4, <1>w
<1>8. ASSUME NEW r \in Requests, PushWrite(r) PROVE SerialInv' /\ [Shelf!Next]_shelf
  <2> DEFINE i == req[h].id
  <2> DEFINE row == [identity[i] EXCEPT !.delivery = "PUSHED", !.published = TRUE]
  <2>1. /\ i \in Identity /\ Finish(h) /\ identity[i].exists
        /\ identity' = [identity EXCEPT ![i] = row]
        /\ MayPush(i)
    BY <1>8, <1>r DEF PushWrite, Writes, Shape, SerialInv, MayPush
  <2>2. row.exists /\ row.status = "AVAILABLE"
    BY <2>1, <1>t DEF Row, MayPush
  <2> HIDE DEF row
  <2> QED BY <2>1, <2>2, <1>w
<1>9. ASSUME NEW r \in Requests, UnpushWrite(r) PROVE SerialInv' /\ [Shelf!Next]_shelf
  <2> DEFINE i == req[h].id
  <2> DEFINE row == Unpushed(req[h], identity[i])
  <2>1. /\ i \in Identity /\ Finish(h) /\ identity[i].exists
        /\ identity' = [identity EXCEPT ![i] = row]
    BY <1>9, <1>r DEF UnpushWrite, Writes, Shape
  <2>2. row.exists /\ row.delivery # "PUSHED"
    BY <2>1, <1>t, DeliveryType DEF Row, Unpushed
  <2> HIDE DEF row
  <2> QED BY <2>1, <2>2, <1>w
<1>10. ASSUME NEW r \in Requests, DeleteWrite(r) PROVE SerialInv' /\ [Shelf!Next]_shelf
  <2> DEFINE i == req[h].id
  <2>1. /\ i \in Identity /\ req'[h].op = "delete" /\ req'[h].pc = "unlink"
        /\ ~identity'[i].exists
        /\ \A j \in Identity \ {i} : identity'[j] = identity[j]
    BY <1>10, <1>t, <1>r DEF DeleteWrite, Writes, Continue, Shape, Request, NoRow
  <2>2. SerialInv'
    BY <2>1 DEF SerialInv
  <2>3. [Shelf!Next]_shelf
    BY <2>1, PlaceStep
  <2> QED BY <2>2, <2>3
<1>11. ASSUME NEW r \in Requests, DeleteUnlink(r) PROVE SerialInv' /\ [Shelf!Next]_shelf
  BY <1>11, <1>q, <1>f DEF DeleteUnlink
<1>12. ASSUME NEW r \in Requests, Fail(r) PROVE SerialInv' /\ [Shelf!Next]_shelf
  BY <1>12, <1>q, <1>f DEF Fail
<1>13. CASE Restart
  BY <1>13, <1>q, <1>i DEF Restart
<1> QED BY <1>1, <1>2, <1>3, <1>4, <1>5, <1>6, <1>7, <1>8, <1>9, <1>10, <1>11,
           <1>12, <1>13 DEF Next, Proceed

(* Served one handler at a time, failures and restarts included, the       *)
(* service keeps its promise to the hosts.                                 *)
THEOREM PromiseKept == ASSUME NEW h, Requests = {h} PROVE Spec => KeepsPromise
<1>1. Init => TypeInv /\ SerialInv /\ Shelf!Init
  <2> SUFFICES ASSUME Init PROVE TypeInv /\ SerialInv /\ Shelf!Init
    OBVIOUS
  <2>1. TypeInv
    BY DeliveryInit DEF DeliveryInv
  <2>2. /\ \A i \in Identity : ~identity[i].exists
        /\ \A r \in Requests : req[r].op = "none"
    BY DEF Init, NoRow, Idle
  <2>3. SerialInv
    BY <2>2 DEF SerialInv
  <2>4. Shelf!Init
    BY <2>2 DEF Shelf!Init, Place
  <2> QED BY <2>1, <2>3, <2>4
<1>2. TypeInv /\ SerialInv /\ [Next]_vars => TypeInv' /\ SerialInv' /\ [Shelf!Next]_shelf
  BY TypeStep, SerialStep
<1> QED BY <1>1, <1>2, PTL DEF Spec, KeepsPromise, Shelf!Spec, shelf
=============================================================================
