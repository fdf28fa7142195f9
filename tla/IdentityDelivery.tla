-------------------------- MODULE IdentityDelivery --------------------------
(***************************************************************************)
(* The identity service of apps/admin: the route handlers that create,     *)
(* review, push and delete a host identity, over the HostIdentity table    *)
(* and the directory the uploaded packages are kept in.                    *)
(*                                                                         *)
(* A handler reads the row once, computes the new delivery status from     *)
(* what it read, and writes; table and directory are changed by separate   *)
(* steps, and the audit entry is written last. Any of these can throw, and *)
(* the server can be restarted between two of them.                        *)
(***************************************************************************)
EXTENDS Naturals

CONSTANTS
  Identity,  \* ids a row and the package uploaded for it can get (a bound)
  Requests,  \* handlers that can run at the same time (a bound)
  Packages,  \* what create is given: an upload, a complete or a partial link
  CanFail,   \* whether a query may throw and the server may be restarted
  None       \* no identity

Statuses == {"AVAILABLE", "TRAINING", "REVOKED"}
Deliveries == {"PENDING", "READY", "PUSHED", "REVOKED"}
PackageKinds == {"upload", "link", "partial"}

ASSUME IdentityAssumption == None \notin Identity
ASSUME ParameterAssumption == Packages \subseteq PackageKinds /\ CanFail \in BOOLEAN

VARIABLES
  identity,   \* the HostIdentity rows
  files,      \* identities whose uploaded package is in the directory
  req,        \* the handlers in flight
  pushed,     \* history: identities a push handler has written
  confirmed   \* history: identities whose create handler reported success

vars == <<identity, files, req, pushed, confirmed>>

Row == [exists: BOOLEAN, status: Statuses, delivery: Deliveries,
        published: BOOLEAN, package: PackageKinds]

NoRow == [exists |-> FALSE, status |-> "TRAINING", delivery |-> "PENDING",
          published |-> FALSE, package |-> "partial"]

(* A handler in flight: the row it read, or is about to create, and the    *)
(* status it was asked to set.                                             *)
Request == [pc: {"idle", "store", "write", "audit", "unlink"},
            op: {"none", "create", "review", "push", "unpush", "delete"},
            id: Identity \cup {None}, status: Statuses, seen: Row]

Idle == [pc |-> "idle", op |-> "none", id |-> None, status |-> "TRAINING",
         seen |-> NoRow]

TypeOK ==
  /\ identity \in [Identity -> Row]
  /\ files \subseteq Identity
  /\ req \in [Requests -> Request]
  /\ pushed \subseteq Identity
  /\ confirmed \subseteq Identity

Init ==
  /\ identity = [i \in Identity |-> NoRow]
  /\ files = {} /\ pushed = {} /\ confirmed = {}
  /\ req = [r \in Requests |-> Idle]

-----------------------------------------------------------------------------
(* hasPublishableArtifact: an uploaded package always has its checksum and *)
(* size, a linked one if the administrator gave them.                      *)
Publishable(package) == package # "partial"

(* Faulty variants: what was pushed stays pushed whatever its status; one  *)
(* status is returned in place of the other.                               *)
DeliveryKept(status, package, current) ==
  IF current = "PUSHED" THEN "PUSHED"
  ELSE IF status = "REVOKED" THEN "REVOKED"
  ELSE IF status # "AVAILABLE" \/ ~Publishable(package) THEN "PENDING" ELSE "READY"

DeliveryConfused(status, package, current) ==
  IF status # "AVAILABLE" \/ ~Publishable(package) THEN status
  ELSE IF current = "PUSHED" THEN "PUSHED" ELSE "READY"

(* deliveryStatusForIdentity.                                              *)
DeliveryFor(status, package, current) ==
  IF status = "REVOKED" THEN "REVOKED"
  ELSE IF status # "AVAILABLE" \/ ~Publishable(package) THEN "PENDING"
  ELSE IF current = "PUSHED" THEN "PUSHED" ELSE "READY"

(* What the host routes list, resolve and serve.                           *)
Offered(i) == /\ identity[i].exists /\ identity[i].status = "AVAILABLE"
              /\ identity[i].delivery = "PUSHED"

(* Ids are never handed out twice: one nothing refers to any more stands   *)
(* for a new one.                                                          *)
Fresh(i) == /\ ~identity[i].exists /\ i \notin files
            /\ \A r \in Requests : req[r].id # i

(* A handler passes its guards.                                            *)
Accept(r, op, pc, i, status, seen) ==
  /\ req[r].pc = "idle"
  /\ req' = [req EXCEPT ![r] = [pc |-> pc, op |-> op, id |-> i,
                                status |-> status, seen |-> seen]]
  /\ UNCHANGED <<identity, files, pushed, confirmed>>

Continue(r, pc) == req' = [req EXCEPT ![r] = [@ EXCEPT !.pc = pc]]
Finish(r) == req' = [req EXCEPT ![r] = Idle]

(* removeStoredArtifact, its errors ignored by every caller.               *)
RemoveFile(i) == files' = files \ {i} \/ (CanFail /\ UNCHANGED files)

-----------------------------------------------------------------------------
(* POST: the upload is stored, the row created, the audit entry written;   *)
(* whatever throws, the upload is removed again.                           *)
CreateRead(r, i, status, package) ==
  /\ Fresh(i)
  /\ Accept(r, "create", IF package = "upload" THEN "store" ELSE "write", i,
            status, [NoRow EXCEPT !.package = package])

CreateStore(r) ==
  /\ req[r].pc = "store"
  /\ files' = files \cup {req[r].id}
  /\ Continue(r, "write")
  /\ UNCHANGED <<identity, pushed, confirmed>>

CreateWrite(r) ==
  LET q == req[r] IN
  /\ q.op = "create" /\ q.pc = "write"
  /\ identity' = [identity EXCEPT ![q.id] =
       [exists |-> TRUE, status |-> q.status, package |-> q.seen.package,
        delivery |-> DeliveryFor(q.status, q.seen.package, "none"),
        published |-> FALSE]]
  /\ pushed' = pushed \ {q.id} /\ confirmed' = confirmed \ {q.id}
  /\ Continue(r, "audit")
  /\ UNCHANGED files

CreateAudit(r) ==
  /\ req[r].pc = "audit"
  /\ confirmed' = confirmed \cup {req[r].id}
  /\ Finish(r)
  /\ UNCHANGED <<identity, files, pushed>>

CreateFail(r) ==
  /\ CanFail /\ req[r].op = "create"
  /\ RemoveFile(req[r].id)
  /\ Finish(r)
  /\ UNCHANGED <<identity, pushed, confirmed>>

-----------------------------------------------------------------------------
(* The write of a handler that read the row before; a row that is gone     *)
(* makes it throw (see Fail).                                              *)
Writes(r, op) == /\ req[r].op = op /\ req[r].pc = "write"
                 /\ identity[req[r].id].exists

(* status: PATCH                                                           *)
ReviewRead(r, i, status) ==
  /\ identity[i].exists
  /\ Accept(r, "review", "write", i, status, identity[i])

Reviewed(q, row) ==
  LET delivery == DeliveryFor(q.status, q.seen.package, q.seen.delivery) IN
  [row EXCEPT !.status = q.status, !.delivery = delivery,
              !.published = delivery = "PUSHED" /\ q.seen.published]

ReviewWrite(r) ==
  LET q == req[r] IN
  /\ Writes(r, "review")
  /\ identity' = [identity EXCEPT ![q.id] = Reviewed(q, @)]
  /\ Finish(r)
  /\ UNCHANGED <<files, pushed, confirmed>>

(* delivery: PATCH                                                         *)

(* Faulty variant: the package is not looked at.                           *)
MayPushAny(i) == identity[i].status = "AVAILABLE"

MayPush(i) == identity[i].status = "AVAILABLE" /\ Publishable(identity[i].package)

PushRead(r, i) ==
  /\ identity[i].exists /\ MayPush(i)
  /\ Accept(r, "push", "write", i, "AVAILABLE", identity[i])

PushWrite(r) ==
  LET q == req[r] IN
  /\ Writes(r, "push")
  /\ identity' = [identity EXCEPT ![q.id] =
                    [@ EXCEPT !.delivery = "PUSHED", !.published = TRUE]]
  /\ pushed' = pushed \cup {q.id}
  /\ Finish(r)
  /\ UNCHANGED <<files, confirmed>>

UnpushRead(r, i) ==
  /\ identity[i].exists
  /\ Accept(r, "unpush", "write", i, "TRAINING", identity[i])

(* Faulty variant: the time of publication is left in place.               *)
UnpushedStillDated(q, row) ==
  [row EXCEPT !.delivery = DeliveryFor(q.seen.status, q.seen.package, "none")]

Unpushed(q, row) ==
  [row EXCEPT !.delivery = DeliveryFor(q.seen.status, q.seen.package, "none"),
              !.published = FALSE]

UnpushWrite(r) ==
  LET q == req[r] IN
  /\ Writes(r, "unpush")
  /\ identity' = [identity EXCEPT ![q.id] = Unpushed(q, @)]
  /\ Finish(r)
  /\ UNCHANGED <<files, pushed, confirmed>>

-----------------------------------------------------------------------------
(* DELETE: the row goes first, then the package.                           *)
DeleteRead(r, i) ==
  /\ identity[i].exists
  /\ Accept(r, "delete", "write", i, "TRAINING", identity[i])

(* Faulty variant: the package goes first, and the row may then stay.      *)
DeletePackageFirst(r) ==
  LET q == req[r] IN
  /\ Writes(r, "delete")
  /\ identity' \in {identity, [identity EXCEPT ![q.id] = NoRow]}
  /\ files' = files \ {q.id}
  /\ Continue(r, "unlink")
  /\ UNCHANGED <<pushed, confirmed>>

DeleteWrite(r) ==
  LET q == req[r] IN
  /\ Writes(r, "delete")
  /\ identity' = [identity EXCEPT ![q.id] = NoRow]
  /\ Continue(r, "unlink")
  /\ UNCHANGED <<files, pushed, confirmed>>

DeleteUnlink(r) ==
  /\ req[r].pc = "unlink"
  /\ IF req[r].seen.package = "upload" THEN RemoveFile(req[r].id) ELSE UNCHANGED files
  /\ Finish(r)
  /\ UNCHANGED <<identity, pushed, confirmed>>

-----------------------------------------------------------------------------
(* A query throws: what was written stays.                                 *)
Fail(r) ==
  /\ req[r].pc # "idle" /\ req[r].op # "create"
  /\ CanFail \/ (req[r].pc = "write" /\ ~identity[req[r].id].exists)
  /\ Finish(r)
  /\ UNCHANGED <<identity, files, pushed, confirmed>>

(* The server is restarted: its handlers are gone.                         *)
Restart ==
  /\ CanFail
  /\ req' = [r \in Requests |-> Idle]
  /\ UNCHANGED <<identity, files, pushed, confirmed>>

Start(r) ==
  \E i \in Identity :
    \/ \E status \in Statuses, package \in Packages : CreateRead(r, i, status, package)
    \/ \E status \in Statuses : ReviewRead(r, i, status)
    \/ PushRead(r, i) \/ UnpushRead(r, i) \/ DeleteRead(r, i)

Proceed(r) ==
  \/ CreateStore(r) \/ CreateWrite(r) \/ CreateAudit(r)
  \/ ReviewWrite(r) \/ PushWrite(r) \/ UnpushWrite(r)
  \/ DeleteWrite(r) \/ DeleteUnlink(r)

Next == \/ \E r \in Requests : Start(r) \/ Proceed(r) \/ CreateFail(r) \/ Fail(r)
        \/ Restart

Spec == Init /\ [][Next]_vars

-----------------------------------------------------------------------------
(* Properties that hold whatever the interleaving.                         *)

(* The date of publication and the delivery status are written together by *)
(* four handlers, two of them from an old copy: they never contradict each *)
(* other.                                                                  *)
PublishedWhenPushed ==
  \A i \in Identity : identity[i].published <=> identity[i].delivery = "PUSHED"

(* A host is never offered a package without checksum and size, nor one    *)
(* that no push handler ever published.  An unpush that a stale review     *)
(* undoes does not break it, nor does the clean-up of a creation that      *)
(* fails after the row was published: KeepsPromise and ConfirmedHasFile    *)
(* say what is kept of these.                                              *)
OfferedIsSound ==
  \A i \in Identity : Offered(i) => Publishable(identity[i].package) /\ i \in pushed

(* As long as the row of an identity whose creation was confirmed exists,  *)
(* so does the package uploaded for it: no failing or interrupted handler  *)
(* removes it first.                                                       *)
ConfirmedHasFile ==
  \A i \in confirmed :
    identity[i].exists /\ identity[i].package = "upload" => i \in files

-----------------------------------------------------------------------------
(* The promise to the hosts, which handlers that do not overlap keep.      *)
Place(i) ==
  IF ~identity[i].exists THEN "absent"
  ELSE IF Offered(i) THEN "offered"
  ELSE IF MayPush(i) THEN "ready" ELSE "hidden"

Shelf == INSTANCE IdentityShelf WITH shelf <- [i \in Identity |-> Place(i)]

(* The service implements IdentityShelf.                                   *)
KeepsPromise == Shelf!Spec
=============================================================================
