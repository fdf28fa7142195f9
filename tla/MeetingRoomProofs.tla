------------------------- MODULE MeetingRoomProofs -------------------------
(***************************************************************************)
(* Theorems about MeetingRoom for every set of guests, staff, rows and     *)
(* handlers and every capacity.                                            *)
(***************************************************************************)
EXTENDS MeetingRoom, FiniteSetTheorems, TLAPS

-----------------------------------------------------------------------------
(* Which handlers hold a row, and which still may insert one.              *)
NeedsRow(q) == \/ q.op \in {"admit", "leave", "media"}
               \/ /\ q.op \in {"join", "wait"}
                  /\ q.pc \notin {"idle", "find", "write"}

RowsKnown == \A r \in Requests : NeedsRow(req[r]) => req[r].row \in RowId

TypeInv == TypeOK /\ RowsKnown

LEMMA IdleIsRequest == Idle \in Request /\ ~NeedsRow(Idle)
  BY DEF Idle, Request, AllOps, Statuses, NeedsRow

LEMMA RowTypes ==
  /\ NoRow \in Row
  /\ \A role \in {"guest", "host"}, who \in People, b, d \in BOOLEAN :
       NewRow(role, who, b, d) \in Row
  BY DEF NoRow, NewRow, Row

(* What accepting a request does to the type invariant.                    *)
LEMMA AcceptType ==
  ASSUME TypeInv, NEW r \in Requests, NEW op \in AllOps, NEW a \in People,
         NEW pc \in {"find", "write"}, NEW p \in RowId \cup {None},
         NEW d \in BOOLEAN, Accept(r, op, a, pc, p, d),
         op \in {"admit", "leave", "media"} => p \in RowId
  PROVE  TypeInv'
<1> DEFINE q == [Idle EXCEPT !.pc = pc, !.op = op, !.actor = a, !.row = p,
                             !.device = d, !.status = meeting.status]
<1>1. /\ req' = [req EXCEPT ![r] = q]
      /\ UNCHANGED <<meeting, rows, held, livekit, approved>>
  BY DEF Accept
<1>2. q \in Request /\ (NeedsRow(q) => q.row \in RowId)
  BY DEF Idle, Request, NeedsRow, TypeInv, TypeOK
<1> HIDE DEF q
<1> QED
  BY <1>1, <1>2 DEF TypeInv, TypeOK, RowsKnown

(* What a write to the participant table does to it.                       *)
LEMMA WriteRowType ==
  ASSUME TypeInv, NEW r \in Requests, NEW p \in RowId, NEW row \in Row,
         NEW next \in {"status", "reply", "countActive"},
         WriteRow(r, p, row, next), UNCHANGED <<meeting, held, livekit>>,
         approved' \subseteq RowId
  PROVE  TypeInv'
<1> DEFINE q == [req[r] EXCEPT !.pc = next, !.row = p]
<1>1. /\ rows' = [rows EXCEPT ![p] = row]
      /\ req' = [req EXCEPT ![r] = q]
  BY DEF WriteRow
<1>2. rows' \in [RowId -> Row]
  BY <1>1 DEF TypeInv, TypeOK
<1>3. q \in Request /\ q.row = p
  BY DEF TypeInv, TypeOK, Request
<1> HIDE DEF q
<1> QED
  BY <1>1, <1>2, <1>3 DEF TypeInv, TypeOK, RowsKnown

(* What a step that only moves a handler on does to it.                    *)
LEMMA MoveOnType ==
  ASSUME TypeInv, NEW r \in Requests, NEW q \in Request,
         NeedsRow(q) => q.row \in RowId, req' = [req EXCEPT ![r] = q],
         UNCHANGED <<rows, approved>>,
         meeting' \in [exists: BOOLEAN, status: Statuses, access: Modes],
         held' \in [People -> SUBSET RowId], livekit' \subseteq RowId
  PROVE  TypeInv'
BY DEF TypeInv, TypeOK, RowsKnown

LEMMA StartType == ASSUME TypeInv, NEW r \in Requests, Start(r) PROVE TypeInv'
<1> USE DEF People
<1>1. CASE \E g \in Guests, p \in RowId \cup {None}, d \in Devices : JoinGuest(r, g, p, d)
  BY <1>1, AcceptType, ParameterAssumption DEF JoinGuest, AllOps
<1>2. CASE \E a \in Staff, d \in Devices : JoinStaff(r, a, d)
  BY <1>2, AcceptType, ParameterAssumption DEF JoinStaff, AllOps
<1>3. CASE \E g \in Guests, d \in Devices : WaitRead(r, g, d)
  <2>1. PICK g \in Guests, d \in Devices : WaitRead(r, g, d)
    BY <1>3
  <2>2. PICK p \in RowId \cup {None} : Accept(r, "wait", g, "write", p, d)
    BY <2>1 DEF WaitRead, OwnRequests
  <2> QED
    BY <2>2, AcceptType, ParameterAssumption DEF AllOps
<1>4. CASE \E a \in Staff, p \in RowId : AdmitRead(r, a, p)
  BY <1>4, AcceptType DEF AdmitRead, AllOps
<1>5. CASE \E a \in People, p \in RowId : LeaveRead(r, a, p)
  BY <1>5, AcceptType DEF LeaveRead, AllOps
<1>6. CASE \E a \in Staff : EndRead(r, a)
  BY <1>6, AcceptType DEF EndRead, AllOps
<1>7. CASE \E a \in People, p \in RowId, d \in Devices : MediaRead(r, a, p, d)
  BY <1>7, AcceptType, ParameterAssumption DEF MediaRead, AllOps
<1>8. CASE \E a \in Admins : DeleteRead(r, a)
  BY <1>8, AcceptType DEF DeleteRead, AllOps, Staff
<1> QED
  BY <1>1, <1>2, <1>3, <1>4, <1>5, <1>6, <1>7, <1>8 DEF Start

LEMMA ProceedType == ASSUME TypeInv, NEW r \in Requests, Proceed(r) PROVE TypeInv'
<1> DEFINE q == req[r]
<1>q. q \in Request /\ (NeedsRow(q) => q.row \in RowId)
  BY DEF TypeInv, TypeOK, RowsKnown
<1>r. \A p \in RowId : rows[p] \in Row
  BY DEF TypeInv, TypeOK
<1>1. CASE JoinFindHostRow(r)
  <2>1. PICK p \in RowId \cup {None} :
          /\ p # q.row => p \in RowId
          /\ req' = [req EXCEPT ![r] = [q EXCEPT !.pc = "write", !.row = p]]
    <3>1. CASE HostRowsOf(q.actor) = {}
      <4>1. [q EXCEPT !.pc = "write"] = [q EXCEPT !.pc = "write", !.row = q.row]
        BY <1>q DEF Request
      <4> QED
        BY <1>1, <1>q, <3>1, <4>1 DEF JoinFindHostRow, Request
    <3>2. CASE HostRowsOf(q.actor) # {}
      BY <1>1, <3>2 DEF JoinFindHostRow, HostRowsOf
    <3> QED
      BY <3>1, <3>2
  <2> DEFINE w == [q EXCEPT !.pc = "write", !.row = p]
  <2>2. w \in Request /\ (NeedsRow(w) => w.row \in RowId)
    BY <1>q, <2>1 DEF Request, NeedsRow
  <2>3. req' = [req EXCEPT ![r] = w]
    BY <2>1
  <2> HIDE DEF w
  <2> QED
    BY <1>1, <2>2, <2>3, MoveOnType DEF JoinFindHostRow, TypeInv, TypeOK
<1>2. CASE JoinWrite(r)
  <2>1. CASE q.row # None
    <3>1. JoinedRow(q, rows[q.row]) \in Row /\ q.row \in RowId
      BY <1>q, <1>r, <2>1 DEF JoinedRow, Row, Request
    <3> QED
      BY <1>2, <2>1, <3>1, WriteRowType DEF JoinWrite, TypeInv, TypeOK
  <2>2. CASE q.row = None
    <3>1. \A role \in {"guest", "host"} : NewRow(role, q.actor, TRUE, q.device) \in Row
      BY <1>q DEF Request, NewRow, Row
    <3> QED
      BY <1>2, <2>2, <3>1, WriteRowType DEF JoinWrite, FreeRows, TypeInv, TypeOK
  <2> QED
    BY <2>1, <2>2
<1>3. CASE WaitWrite(r)
  <2>1. CASE q.row # None
    <3>1. WaitingRow(q, rows[q.row]) \in Row /\ q.row \in RowId
      BY <1>q, <1>r, <2>1 DEF WaitingRow, Row, Request
    <3> QED
      BY <1>3, <2>1, <3>1, WriteRowType DEF WaitWrite, TypeInv, TypeOK
  <2>2. CASE q.row = None
    <3>1. RequestedRow(q) \in Row
      BY <1>q DEF RequestedRow, WaitingRow, NewRow, Row, Request
    <3> QED
      BY <1>3, <2>2, <3>1, WriteRowType DEF WaitWrite, FreeRows, TypeInv, TypeOK
  <2> QED
    BY <2>1, <2>2
<1>4. CASE AdmitWrite(r)
  <2>1. q.row \in RowId /\ [rows[q.row] EXCEPT !.admitted = TRUE] \in Row
    BY <1>4, <1>q, <1>r DEF AdmitWrite, NeedsRow, Row
  <2> QED
    BY <1>4, <2>1, WriteRowType DEF AdmitWrite, TypeInv, TypeOK
<1>5. CASE LeaveWrite(r)
  <2>1. q.row \in RowId /\ [rows[q.row] EXCEPT !.left = TRUE] \in Row
    BY <1>5, <1>q, <1>r DEF LeaveWrite, NeedsRow, Row
  <2> QED
    BY <1>5, <2>1, WriteRowType DEF LeaveWrite, TypeInv, TypeOK
<1>6. CASE LeaveCountActive(r)
  <2> DEFINE w == [q EXCEPT !.pc = "countWaiting", !.occupied = ActiveRows # {}]
  <2>1. w \in Request /\ (NeedsRow(w) => w.row \in RowId)
    BY <1>6, <1>q DEF LeaveCountActive, Request, NeedsRow
  <2> HIDE DEF w
  <2>2. req' = [req EXCEPT ![r] = w]
    BY <1>6 DEF LeaveCountActive, w
  <2> QED
    BY <1>6, <2>1, <2>2, MoveOnType DEF LeaveCountActive, TypeInv, TypeOK
<1>7. CASE LeaveCountWaiting(r)
  <2> DEFINE w == [q EXCEPT !.pc = "status", !.waiting = WaitingRows # {}]
  <2>1. w \in Request /\ (NeedsRow(w) => w.row \in RowId)
    BY <1>7, <1>q DEF LeaveCountWaiting, Request, NeedsRow
  <2> HIDE DEF w
  <2>2. req' = [req EXCEPT ![r] = w]
    BY <1>7 DEF LeaveCountWaiting, w
  <2> QED
    BY <1>7, <2>1, <2>2, MoveOnType DEF LeaveCountWaiting, TypeInv, TypeOK
<1>8. CASE EndWrite(r)
  <2> DEFINE w == [q EXCEPT !.pc = "status"]
  <2>1. w \in Request /\ ~NeedsRow(w)
    BY <1>8, <1>q DEF EndWrite, Request, NeedsRow
  <2>2. rows' \in [RowId -> Row]
    BY <1>8, <1>r DEF EndWrite, EndedRow, Row
  <2>3. req' = [req EXCEPT ![r] = w]
    BY <1>8 DEF EndWrite
  <2> HIDE DEF w
  <2> QED
    BY <1>8, <2>1, <2>2, <2>3 DEF EndWrite, TypeInv, TypeOK, RowsKnown
<1>9. CASE MediaWrite(r)
  <2>1. q.row \in RowId /\ [rows[q.row] EXCEPT !.device = q.device] \in Row
    BY <1>9, <1>q, <1>r DEF MediaWrite, NeedsRow, Row, Request
  <2> QED
    BY <1>9, <2>1, WriteRowType DEF MediaWrite, TypeInv, TypeOK
<1>10. CASE DeleteWrite(r)
  <2> DEFINE w == [q EXCEPT !.pc = "reply"]
  <2>1. w \in Request /\ ~NeedsRow(w)
    BY <1>10, <1>q DEF DeleteWrite, Request, NeedsRow
  <2>2. rows' \in [RowId -> Row]
    BY <1>10, RowTypes DEF DeleteWrite
  <2>3. req' = [req EXCEPT ![r] = w]
    BY <1>10 DEF DeleteWrite
  <2>4. meeting' \in [exists: BOOLEAN, status: Statuses, access: Modes]
    BY <1>10 DEF DeleteWrite, TypeInv, TypeOK
  <2> HIDE DEF w
  <2> QED
    BY <1>10, <2>1, <2>2, <2>3, <2>4 DEF DeleteWrite, TypeInv, TypeOK, RowsKnown
<1>11. CASE WriteStatus(r)
  <2> DEFINE w == [q EXCEPT !.pc = "reply"]
  <2>1. w \in Request /\ (NeedsRow(w) => w.row \in RowId)
    BY <1>11, <1>q DEF WriteStatus, Request, NeedsRow
  <2>2. NextStatus(q) \in Statuses
    BY <1>q DEF NextStatus, StatusAfterLeave, Opened, Statuses, Request
  <2>3. meeting' \in [exists: BOOLEAN, status: Statuses, access: Modes]
    BY <1>11, <2>2 DEF WriteStatus, TypeInv, TypeOK
  <2>4. req' = [req EXCEPT ![r] = w]
    BY <1>11 DEF WriteStatus
  <2> HIDE DEF w
  <2> QED
    BY <1>11, <2>1, <2>3, <2>4, MoveOnType DEF WriteStatus, TypeInv, TypeOK
<1>12. CASE Reply(r)
  <2>1. q.op \in {"join", "wait"} => q.row \in RowId
    BY <1>12, <1>q DEF Reply, NeedsRow
  <2>2. held' \in [People -> SUBSET RowId] /\ livekit' \subseteq RowId
    BY <1>12, <2>1 DEF Reply, TypeInv, TypeOK
  <2> QED
    BY <1>12, <2>2, IdleIsRequest, MoveOnType DEF Reply, TypeInv, TypeOK
<1> QED
  BY <1>1, <1>2, <1>3, <1>4, <1>5, <1>6, <1>7, <1>8, <1>9, <1>10, <1>11, <1>12
     DEF Proceed

(* Every state is well typed, and a handler that has chosen or inserted a  *)
(* row keeps pointing at a row of the table.                               *)
THEOREM TypeInvCorrect == Spec => []TypeInv
<1>1. Init => TypeInv
  <2> SUFFICES ASSUME Init PROVE TypeInv
    OBVIOUS
  <2>1. NewRow("host", Host, FALSE, TRUE) \in Row
    BY DEF NewRow, Row, People, Staff
  <2>2. rows \in [RowId -> Row]
    BY <2>1, RowTypes DEF Init
  <2>3. meeting \in [exists: BOOLEAN, status: Statuses, access: Modes]
    BY ParameterAssumption DEF Init, Statuses
  <2> QED
    BY <2>2, <2>3, IdleIsRequest DEF Init, TypeInv, TypeOK, RowsKnown
<1>2. TypeInv /\ [Next]_vars => TypeInv'
  <2> SUFFICES ASSUME TypeInv, [Next]_vars PROVE TypeInv'
    OBVIOUS
  <2>1. CASE UNCHANGED vars
    BY <2>1 DEF vars, TypeInv, TypeOK, RowsKnown
  <2>2. ASSUME NEW r \in Requests, Fail(r) PROVE TypeInv'
    BY <2>2, IdleIsRequest, MoveOnType DEF Fail, TypeInv, TypeOK
  <2> QED
    BY <2>1, <2>2, StartType, ProceedType DEF Next
<1> QED
  BY <1>1, <1>2, PTL DEF Spec

(* TypeOK, the type invariant of the meeting service.                      *)
THEOREM TypeCorrect == Spec => []TypeOK
BY TypeInvCorrect, PTL DEF TypeInv

-----------------------------------------------------------------------------
(* GuestsApproved is not inductive: a join handler opens a row it chose    *)
(* earlier, and a row it inserts may be one for which an earlier handler   *)
(* already returned a token. What is missing: rows a handler or a token    *)
(* points at are in use, staff join on host rows only, and a join handler  *)
(* a guest started works on a row that was approved already.               *)

InUse(p) == rows[p].role # "none"

RowsInUse ==
  /\ \A r \in Requests : req[r].row # None => InUse(req[r].row)
  /\ \A p \in livekit : InUse(p)

StaffOffGuestRows ==
  \A r \in Requests :
    req[r].op = "join" /\ req[r].actor \notin Guests /\ req[r].row # None
      => ~IsGuest(req[r].row)

LookupsByStaff ==
  \A r \in Requests : req[r].pc = "find" => req[r].actor \notin Guests

RowsApproved ==
  \A p \in RowId : /\ IsGuest(p)
                   /\ rows[p].admitted \/ rows[p].joined \/ p \in livekit
                   => p \in approved

JoinsApproved ==
  \A r \in Requests : req[r].op = "join" /\ req[r].actor \in Guests
                        => req[r].row \in approved

ApprovalInv ==
  IF meeting.exists
    THEN /\ RowsInUse
         /\ StaffOffGuestRows /\ LookupsByStaff
         /\ meeting.access = "INVITE_ONLY" => RowsApproved /\ JoinsApproved
    ELSE \A p \in RowId : ~InUse(p)

(* The capacity check of a join counts the rows of its snapshot, so every  *)
(* join that has passed it may still open one more row.                    *)
Joining == {r \in Requests : /\ req[r].op = "join" /\ req[r].actor \in Guests
                             /\ req[r].pc = "write"}

CapacityInv ==
  Cardinality(ActiveGuests) + Cardinality(Joining)
    <= MaxParticipants + Cardinality(Requests) - 1
-----------------------------------------------------------------------------
(* The shape of the steps that start a handler, for the three facts about  *)
(* its row that the approval invariant asks for.                           *)
LEMMA AcceptApproval ==
  ASSUME TypeInv, ApprovalInv, NEW r \in Requests, NEW op \in AllOps,
         NEW a \in People, NEW pc \in {"find", "write"},
         NEW p \in RowId \cup {None}, NEW d \in BOOLEAN,
         Accept(r, op, a, pc, p, d),
         p # None => InUse(p),
         op = "join" /\ a \notin Guests => p = None,
         pc = "find" => a \notin Guests,
         op = "join" /\ a \in Guests /\ meeting.access = "INVITE_ONLY" => p \in approved
  PROVE  ApprovalInv'
<1> DEFINE q == [Idle EXCEPT !.pc = pc, !.op = op, !.actor = a, !.row = p,
                             !.device = d, !.status = meeting.status]
<1>1. /\ req' = [req EXCEPT ![r] = q]
      /\ UNCHANGED <<meeting, rows, held, livekit, approved>>
      /\ meeting.exists
  BY DEF Accept
<1>2. q.pc = pc /\ q.op = op /\ q.actor = a /\ q.row = p
  BY DEF Idle
<1> HIDE DEF q
<1>3. \A s \in Requests : req'[s] = IF s = r THEN q ELSE req[s]
  BY <1>1 DEF TypeInv, TypeOK
<1>4. RowsInUse'
  BY <1>1, <1>2, <1>3 DEF ApprovalInv, RowsInUse, InUse
<1>5. StaffOffGuestRows' /\ LookupsByStaff'
  BY <1>1, <1>2, <1>3 DEF ApprovalInv, StaffOffGuestRows, LookupsByStaff, IsGuest
<1>6. meeting'.access = "INVITE_ONLY" => RowsApproved' /\ JoinsApproved'
  BY <1>1, <1>2, <1>3 DEF ApprovalInv, RowsApproved, JoinsApproved, IsGuest
<1> QED
  BY <1>1, <1>4, <1>5, <1>6 DEF ApprovalInv

LEMMA StartApproval ==
  ASSUME TypeInv, ApprovalInv, NEW r \in Requests, Start(r)
  PROVE  ApprovalInv'
<1> USE DEF People
<1>0. meeting.exists
  BY DEF Start, JoinGuest, JoinStaff, WaitRead, AdmitRead, LeaveRead, EndRead,
         MediaRead, DeleteRead, Accept
<1>1. CASE \E g \in Guests, p \in RowId \cup {None}, d \in Devices : JoinGuest(r, g, p, d)
  <2>1. PICK g \in Guests, p \in RowId \cup {None}, d \in Devices : JoinGuest(r, g, p, d)
    BY <1>1
  <2>2. p # None => p \in RowId /\ InUse(p)
    BY <2>1 DEF JoinGuest, MayJoin, IsGuest, InUse
  <2>3. meeting.access = "INVITE_ONLY" => p \in approved
    BY <1>0, <2>1, <2>2 DEF JoinGuest, MayJoin, ApprovalInv, RowsApproved
  <2> QED
    BY <2>1, <2>2, <2>3, AcceptApproval, ParameterAssumption DEF JoinGuest, AllOps
<1>2. CASE \E a \in Staff, d \in Devices : JoinStaff(r, a, d)
  <2>1. Staff \cap Guests = {}
    BY PeopleAssumption DEF Staff
  <2> QED
    BY <1>2, <2>1, AcceptApproval, ParameterAssumption DEF JoinStaff, AllOps
<1>3. CASE \E g \in Guests, d \in Devices : WaitRead(r, g, d)
  <2>1. PICK g \in Guests, d \in Devices : WaitRead(r, g, d)
    BY <1>3
  <2>2. PICK p \in RowId \cup {None} : /\ Accept(r, "wait", g, "write", p, d)
                                       /\ p # None => p \in OwnRequests(g)
    BY <2>1 DEF WaitRead, OwnRequests
  <2>3. p # None => InUse(p)
    BY <2>2 DEF OwnRequests, IsGuest, InUse
  <2> QED
    BY <2>2, <2>3, AcceptApproval, ParameterAssumption DEF AllOps
<1>4. CASE \E a \in Staff, p \in RowId : AdmitRead(r, a, p)
  BY <1>4, AcceptApproval DEF AdmitRead, AllOps, IsGuest, InUse
<1>5. CASE \E a \in People, p \in RowId : LeaveRead(r, a, p)
  BY <1>5, AcceptApproval DEF LeaveRead, AllOps, InUse
<1>6. CASE \E a \in Staff : EndRead(r, a)
  BY <1>6, AcceptApproval DEF EndRead, AllOps
<1>7. CASE \E a \in People, p \in RowId, d \in Devices : MediaRead(r, a, p, d)
  BY <1>7, AcceptApproval, ParameterAssumption DEF MediaRead, MayReport, AllOps, InUse
<1>8. CASE \E a \in Admins : DeleteRead(r, a)
  BY <1>8, AcceptApproval DEF DeleteRead, AllOps, Staff
<1> QED
  BY <1>1, <1>2, <1>3, <1>4, <1>5, <1>6, <1>7, <1>8 DEF Start

(* A write to the participant table: a row in use keeps its role, an       *)
(* insert takes a row nothing points at.                                   *)
LEMMA WriteRowApproval ==
  ASSUME TypeInv, ApprovalInv, NEW r \in Requests, NEW p \in RowId, NEW row \in Row,
         NEW next \in {"status", "reply", "countActive"},
         WriteRow(r, p, row, next), UNCHANGED <<meeting, held, livekit>>,
         approved \subseteq approved',
         row.role # "none",
         InUse(p) => row.role = rows[p].role,
         req[r].op = "join" /\ req[r].actor \notin Guests => row.role # "guest",
         meeting.access = "INVITE_ONLY" =>
           /\ req[r].op = "join" /\ req[r].actor \in Guests => p \in approved
           /\ row.role = "guest" /\ (row.admitted \/ row.joined \/ p \in livekit)
                => p \in approved'
  PROVE  ApprovalInv'
<1> DEFINE q == [req[r] EXCEPT !.pc = next, !.row = p]
<1>1. /\ rows' = [rows EXCEPT ![p] = row]
      /\ req' = [req EXCEPT ![r] = q]
      /\ meeting.exists
  BY DEF WriteRow
<1>2. q.pc = next /\ q.op = req[r].op /\ q.actor = req[r].actor /\ q.row = p
  BY DEF TypeInv, TypeOK, Request
<1> HIDE DEF q
<1>3. \A s \in Requests : req'[s] = IF s = r THEN q ELSE req[s]
  BY <1>1 DEF TypeInv, TypeOK
<1>4. \A s \in RowId : rows'[s] = IF s = p THEN row ELSE rows[s]
  BY <1>1 DEF TypeInv, TypeOK
<1>5. \A s \in Requests : req[s].row \in RowId \cup {None}
  BY DEF TypeInv, TypeOK, Request
<1>6. RowsInUse'
  BY <1>1, <1>2, <1>3, <1>4, <1>5 DEF ApprovalInv, RowsInUse, InUse, TypeInv, TypeOK
<1>7. StaffOffGuestRows'
  <2> SUFFICES ASSUME NEW s \in Requests, req'[s].op = "join",
                      req'[s].actor \notin Guests, req'[s].row # None
               PROVE  rows'[req'[s].row].role # "guest"
    BY DEF StaffOffGuestRows, IsGuest
  <2>1. CASE s = r
    BY <1>2, <1>3, <1>4, <2>1
  <2>2. CASE s # r
    <3>1. req[s].row \in RowId /\ InUse(req[s].row) /\ ~IsGuest(req[s].row)
      BY <1>1, <1>3, <1>5, <2>2 DEF ApprovalInv, StaffOffGuestRows, RowsInUse
    <3> QED
      BY <1>3, <1>4, <2>2, <3>1 DEF IsGuest
  <2> QED
    BY <2>1, <2>2
<1>8. LookupsByStaff'
  BY <1>1, <1>2, <1>3 DEF ApprovalInv, LookupsByStaff
<1>9. meeting'.access = "INVITE_ONLY" => RowsApproved' /\ JoinsApproved'
  BY <1>1, <1>2, <1>3, <1>4 DEF ApprovalInv, RowsApproved, JoinsApproved, IsGuest
<1> QED
  BY <1>1, <1>6, <1>7, <1>8, <1>9 DEF ApprovalInv

(* A step that moves a handler on and leaves the participants alone.       *)
LEMMA MoveOnApproval ==
  ASSUME TypeInv, ApprovalInv, NEW r \in Requests, NEW q \in Request,
         req' = [req EXCEPT ![r] = q], UNCHANGED <<rows, approved>>,
         meeting'.exists = meeting.exists, meeting'.access = meeting.access,
         livekit' = livekit \/
           (req[r].op = "join" /\ req[r].row \in RowId /\ livekit' = livekit \cup {req[r].row}),
         q.op # "none" => q.op = req[r].op /\ q.actor = req[r].actor,
         q.pc # "find",
         \/ q.row = None /\ q.op # "join"
         \/ q.row = req[r].row
         \/ q.row \in HostRowsOf(q.actor) /\ q.actor \notin Guests
  PROVE  ApprovalInv'
<1>1. \A s \in Requests : req'[s] = IF s = r THEN q ELSE req[s]
  BY DEF TypeInv, TypeOK
<1>2. CASE ~meeting.exists
  BY <1>2 DEF ApprovalInv, InUse
<1>3. CASE meeting.exists
  <2>1. q.row # None => InUse(q.row)
    BY <1>3 DEF ApprovalInv, RowsInUse, InUse, HostRowsOf
  <2>2. RowsInUse'
    BY <1>1, <1>3, <2>1, TableAssumption DEF ApprovalInv, RowsInUse, InUse
  <2>3. StaffOffGuestRows' /\ LookupsByStaff'
    BY <1>1, <1>3, TableAssumption
       DEF ApprovalInv, StaffOffGuestRows, LookupsByStaff, IsGuest, HostRowsOf
  <2>4. ASSUME meeting'.access = "INVITE_ONLY" PROVE RowsApproved' /\ JoinsApproved'
    <3>1. RowsApproved /\ JoinsApproved /\ StaffOffGuestRows
      BY <1>3, <2>4 DEF ApprovalInv
    <3>2. req[r].op = "join" /\ req[r].row \in RowId /\ IsGuest(req[r].row)
            => req[r].row \in approved
      BY <3>1, TableAssumption DEF StaffOffGuestRows, JoinsApproved
    <3>3. RowsApproved'
      BY <3>1, <3>2 DEF RowsApproved, IsGuest
    <3>4. JoinsApproved'
      BY <1>1, <3>1 DEF JoinsApproved
    <3> QED
      BY <3>3, <3>4
  <2> QED
    BY <1>3, <2>2, <2>3, <2>4 DEF ApprovalInv
<1> QED
  BY <1>2, <1>3
LEMMA ProceedApproval ==
  ASSUME TypeInv, ApprovalInv, NEW r \in Requests, Proceed(r)
  PROVE  ApprovalInv'
<1> DEFINE q == req[r]
<1>q. q \in Request /\ (NeedsRow(q) => q.row \in RowId)
  BY DEF TypeInv, TypeOK, RowsKnown
<1>r. /\ \A p \in RowId : rows[p] \in Row
      /\ \A p \in FreeRows : p \in RowId /\ ~InUse(p)
  BY DEF TypeInv, TypeOK, FreeRows, InUse
<1>e. ASSUME meeting.exists
      PROVE  /\ q.row # None => InUse(q.row)
             /\ \A p \in RowId : p \in livekit => InUse(p)
             /\ q.op = "join" /\ q.actor \notin Guests /\ q.row # None => ~IsGuest(q.row)
             /\ meeting.access = "INVITE_ONLY" =>
                  /\ RowsApproved
                  /\ q.op = "join" /\ q.actor \in Guests => q.row \in approved
  BY <1>e DEF ApprovalInv, RowsInUse, StaffOffGuestRows, JoinsApproved
<1>1. CASE JoinFindHostRow(r)
  <2>1. PICK p \in RowId \cup {None} :
          /\ p = q.row \/ (p \in HostRowsOf(q.actor))
          /\ req' = [req EXCEPT ![r] = [q EXCEPT !.pc = "write", !.row = p]]
    <3>1. CASE HostRowsOf(q.actor) = {}
      <4>1. [q EXCEPT !.pc = "write"] = [q EXCEPT !.pc = "write", !.row = q.row]
        BY <1>q DEF Request
      <4> QED
        BY <1>1, <1>q, <3>1, <4>1 DEF JoinFindHostRow, Request
    <3>2. CASE HostRowsOf(q.actor) # {}
      BY <1>1, <3>2 DEF JoinFindHostRow, HostRowsOf
    <3> QED
      BY <3>1, <3>2
  <2> DEFINE w == [q EXCEPT !.pc = "write", !.row = p]
  <2>2. /\ w \in Request /\ w.row = p /\ w.op = q.op /\ w.actor = q.actor
        /\ w.pc = "write"
    BY <1>q, <2>1 DEF Request
  <2>3. req' = [req EXCEPT ![r] = w]
    BY <2>1
  <2> HIDE DEF w
  <2>4. meeting.exists => w.actor \notin Guests
    BY <1>1, <2>2 DEF JoinFindHostRow, ApprovalInv, LookupsByStaff
  <2>5. CASE meeting.exists
    BY <1>1, <2>1, <2>2, <2>3, <2>4, <2>5, MoveOnApproval DEF JoinFindHostRow
  <2>6. CASE ~meeting.exists
    BY <1>1, <2>6 DEF JoinFindHostRow, ApprovalInv, InUse
  <2> QED
    BY <2>5, <2>6
<1>2. CASE JoinWrite(r)
  <2>1. meeting.exists
    BY <1>2 DEF JoinWrite, WriteRow
  <2>2. CASE q.row # None
    <3> DEFINE row == JoinedRow(q, rows[q.row])
    <3>1. row \in Row /\ q.row \in RowId /\ row.role = rows[q.row].role
      BY <1>q, <1>r, <2>2 DEF JoinedRow, Row, Request
    <3>2. WriteRow(r, q.row, row, "status") /\ UNCHANGED <<meeting, held, livekit, approved>>
      BY <1>2, <2>2 DEF JoinWrite
    <3> HIDE DEF row
    <3>3. q.op = "join"
      BY <1>2 DEF JoinWrite
    <3>4. /\ row.role # "none"
          /\ q.actor \notin Guests => row.role # "guest"
          /\ meeting.access = "INVITE_ONLY" /\ q.actor \in Guests => q.row \in approved
      BY <1>e, <2>1, <2>2, <3>1, <3>3 DEF InUse, IsGuest
    <3> QED
      BY <3>1, <3>2, <3>3, <3>4, WriteRowApproval
  <2>3. CASE q.row = None
    <3>1. PICK p \in FreeRows :
            WriteRow(r, p, NewRow(IF q.actor \in Guests THEN "guest" ELSE "host",
                                  q.actor, TRUE, q.device), "status")
      BY <1>2, <2>3 DEF JoinWrite
    <3> DEFINE row == NewRow(IF q.actor \in Guests THEN "guest" ELSE "host",
                             q.actor, TRUE, q.device)
    <3>2. row \in Row /\ row.role = IF q.actor \in Guests THEN "guest" ELSE "host"
      BY <1>q DEF NewRow, Row, Request
    <3>3. WriteRow(r, p, row, "status") /\ UNCHANGED <<meeting, held, livekit, approved>>
      BY <1>2, <3>1 DEF JoinWrite
    <3> HIDE DEF row
    <3>4. meeting.access = "INVITE_ONLY" => q.actor \notin Guests
      BY <1>2, <1>e, <2>1, <2>3, TableAssumption DEF JoinWrite, TypeInv, TypeOK
    <3> QED
      BY <1>r, <3>2, <3>3, <3>4, WriteRowApproval
  <2> QED
    BY <2>2, <2>3
<1>3. CASE WaitWrite(r)
  <2>1. meeting.exists /\ q.op = "wait"
    BY <1>3 DEF WaitWrite, WriteRow
  <2>2. CASE q.row # None
    <3> DEFINE row == WaitingRow(q, rows[q.row])
    <3>1. /\ row \in Row /\ q.row \in RowId /\ row.role = rows[q.row].role
          /\ ~row.admitted /\ ~row.joined
      BY <1>q, <1>r, <2>2 DEF WaitingRow, Row, Request
    <3>2. WriteRow(r, q.row, row, "status") /\ UNCHANGED <<meeting, held, livekit, approved>>
      BY <1>3, <2>2 DEF WaitWrite
    <3> HIDE DEF row
    <3>3. /\ row.role # "none"
          /\ meeting.access = "INVITE_ONLY" /\ row.role = "guest" /\ q.row \in livekit
               => q.row \in approved
      BY <1>e, <2>1, <2>2, <3>1 DEF InUse, RowsApproved, IsGuest
    <3> QED
      BY <2>1, <3>1, <3>2, <3>3, WriteRowApproval
  <2>3. CASE q.row = None
    <3>1. PICK p \in FreeRows :
            WriteRow(r, p, RequestedRow(q), "status")
      BY <1>3, <2>3 DEF WaitWrite
    <3> DEFINE row == RequestedRow(q)
    <3>2. row \in Row /\ row.role = "guest" /\ ~row.admitted /\ ~row.joined
      BY <1>q DEF RequestedRow, WaitingRow, NewRow, Row, Request
    <3>3. WriteRow(r, p, row, "status") /\ UNCHANGED <<meeting, held, livekit, approved>>
      BY <1>3, <3>1 DEF WaitWrite
    <3> HIDE DEF row
    <3>4. p \in RowId /\ ~InUse(p) /\ p \notin livekit
      BY <1>e, <1>r, <2>1
    <3> QED
      BY <2>1, <3>2, <3>3, <3>4, WriteRowApproval
  <2> QED
    BY <2>2, <2>3
<1>4. CASE AdmitWrite(r)
  <2> DEFINE row == [rows[q.row] EXCEPT !.admitted = TRUE]
  <2>1. q.row \in RowId /\ row \in Row /\ row.role = rows[q.row].role
    BY <1>4, <1>q, <1>r DEF AdmitWrite, NeedsRow, Row
  <2>2. /\ WriteRow(r, q.row, row, "status") /\ UNCHANGED <<meeting, held, livekit>>
        /\ q.op = "admit" /\ approved' = approved \cup {q.row}
    BY <1>4 DEF AdmitWrite
  <2> HIDE DEF row
  <2>3. row.role # "none"
    BY <1>e, <2>1, <2>2, TableAssumption DEF WriteRow, InUse
  <2> QED
    BY <2>1, <2>2, <2>3, WriteRowApproval
<1>5. CASE LeaveWrite(r)
  <2> DEFINE row == [rows[q.row] EXCEPT !.left = TRUE]
  <2>1. /\ q.row \in RowId /\ row \in Row /\ row.role = rows[q.row].role
        /\ row.admitted = rows[q.row].admitted /\ row.joined = rows[q.row].joined
    BY <1>5, <1>q, <1>r DEF LeaveWrite, NeedsRow, Row
  <2>2. /\ WriteRow(r, q.row, row, "countActive")
        /\ UNCHANGED <<meeting, held, livekit, approved>> /\ q.op = "leave"
    BY <1>5 DEF LeaveWrite
  <2> HIDE DEF row
  <2>3. row.role # "none" /\ (meeting.access = "INVITE_ONLY" => RowsApproved)
    BY <1>e, <2>1, <2>2, TableAssumption DEF WriteRow, InUse
  <2> QED
    BY <2>1, <2>2, <2>3, WriteRowApproval DEF RowsApproved, IsGuest
<1>6. CASE LeaveCountActive(r)
  <2> DEFINE w == [q EXCEPT !.pc = "countWaiting", !.occupied = ActiveRows # {}]
  <2>1. /\ w \in Request /\ w.row = q.row /\ w.op = q.op /\ w.actor = q.actor
        /\ w.pc # "find"
    BY <1>q DEF Request
  <2>2. req' = [req EXCEPT ![r] = w]
    BY <1>6 DEF LeaveCountActive
  <2> HIDE DEF w
  <2> QED
    BY <1>6, <2>1, <2>2, MoveOnApproval DEF LeaveCountActive
<1>7. CASE LeaveCountWaiting(r)
  <2> DEFINE w == [q EXCEPT !.pc = "status", !.waiting = WaitingRows # {}]
  <2>1. /\ w \in Request /\ w.row = q.row /\ w.op = q.op /\ w.actor = q.actor
        /\ w.pc # "find"
    BY <1>q DEF Request
  <2>2. req' = [req EXCEPT ![r] = w]
    BY <1>7 DEF LeaveCountWaiting
  <2> HIDE DEF w
  <2> QED
    BY <1>7, <2>1, <2>2, MoveOnApproval DEF LeaveCountWaiting
<1>8. CASE EndWrite(r)
  <2> DEFINE w == [q EXCEPT !.pc = "status"]
  <2>1. /\ w \in Request /\ w.row = q.row /\ w.op = q.op /\ w.actor = q.actor
        /\ w.pc # "find"
    BY <1>q DEF Request
  <2>2. /\ req' = [req EXCEPT ![r] = w] /\ meeting.exists
        /\ UNCHANGED <<meeting, held, livekit, approved>>
    BY <1>8 DEF EndWrite
  <2> HIDE DEF w
  <2>3. \A s \in Requests : /\ req'[s].row = req[s].row /\ req'[s].op = req[s].op
                            /\ req'[s].actor = req[s].actor
                            /\ req'[s].pc = "find" => req[s].pc = "find"
    BY <2>1, <2>2 DEF TypeInv, TypeOK
  <2>4. \A p \in RowId : /\ rows'[p].role = rows[p].role
                         /\ rows'[p].admitted = rows[p].admitted
                         /\ rows'[p].joined = rows[p].joined
    BY <1>8, <1>r DEF EndWrite, EndedRow, Row
  <2>5. \A s \in Requests : req[s].row \in RowId \cup {None}
    BY DEF TypeInv, TypeOK, Request
  <2>6. RowsInUse'
    BY <2>2, <2>3, <2>4, <2>5 DEF ApprovalInv, RowsInUse, InUse, TypeInv, TypeOK
  <2>7. StaffOffGuestRows' /\ LookupsByStaff'
    BY <2>2, <2>3, <2>4, <2>5 DEF ApprovalInv, StaffOffGuestRows, LookupsByStaff, IsGuest
  <2>8. meeting'.access = "INVITE_ONLY" => RowsApproved' /\ JoinsApproved'
    BY <2>2, <2>3, <2>4 DEF ApprovalInv, RowsApproved, JoinsApproved, IsGuest
  <2> QED
    BY <2>2, <2>6, <2>7, <2>8 DEF ApprovalInv
<1>9. CASE MediaWrite(r)
  <2> DEFINE row == [rows[q.row] EXCEPT !.device = q.device]
  <2>1. /\ q.row \in RowId /\ row \in Row /\ row.role = rows[q.row].role
        /\ row.admitted = rows[q.row].admitted /\ row.joined = rows[q.row].joined
    BY <1>9, <1>q, <1>r DEF MediaWrite, NeedsRow, Row, Request
  <2>2. /\ WriteRow(r, q.row, row, "reply")
        /\ UNCHANGED <<meeting, held, livekit, approved>> /\ q.op = "media"
    BY <1>9 DEF MediaWrite
  <2> HIDE DEF row
  <2>3. row.role # "none" /\ (meeting.access = "INVITE_ONLY" => RowsApproved)
    BY <1>e, <2>1, <2>2, TableAssumption DEF WriteRow, InUse
  <2> QED
    BY <2>1, <2>2, <2>3, WriteRowApproval DEF RowsApproved, IsGuest
<1>10. CASE DeleteWrite(r)
  <2>1. ~meeting'.exists /\ \A p \in RowId : rows'[p].role = "none"
    BY <1>10 DEF DeleteWrite, NoRow, TypeInv, TypeOK
  <2> QED
    BY <2>1 DEF ApprovalInv, InUse
<1>11. CASE WriteStatus(r)
  <2> DEFINE w == [q EXCEPT !.pc = "reply"]
  <2>1. /\ w \in Request /\ w.row = q.row /\ w.op = q.op /\ w.actor = q.actor
        /\ w.pc # "find"
    BY <1>q DEF Request
  <2>2. req' = [req EXCEPT ![r] = w]
    BY <1>11 DEF WriteStatus
  <2>3. meeting'.exists = meeting.exists /\ meeting'.access = meeting.access
    BY <1>11 DEF WriteStatus, TypeInv, TypeOK
  <2> HIDE DEF w
  <2> QED
    BY <1>11, <2>1, <2>2, <2>3, MoveOnApproval DEF WriteStatus
<1>12. CASE Reply(r)
  <2>1. q.op = "join" => q.row \in RowId
    BY <1>12, <1>q DEF Reply, NeedsRow
  <2>2. Idle.op = "none" /\ Idle.row = None /\ Idle.pc = "idle"
    BY DEF Idle
  <2>3. /\ req' = [req EXCEPT ![r] = Idle] /\ UNCHANGED <<meeting, rows, approved>>
        /\ livekit' = livekit
             \/ (q.op = "join" /\ q.row \in RowId /\ livekit' = livekit \cup {q.row})
    BY <1>12, <2>1 DEF Reply
  <2> QED
    BY <2>2, <2>3, IdleIsRequest, MoveOnApproval
<1> QED
  BY <1>1, <1>2, <1>3, <1>4, <1>5, <1>6, <1>7, <1>8, <1>9, <1>10, <1>11, <1>12
     DEF Proceed
(* The invariant behind the admission theorem.                             *)
THEOREM ApprovalInvCorrect == Spec => []ApprovalInv
<1>1. Init => ApprovalInv
  <2> SUFFICES ASSUME Init PROVE ApprovalInv
    OBVIOUS
  <2>1. \A p \in RowId : /\ rows[p].role = IF p = HostRow THEN "host" ELSE "none"
                         /\ p \notin livekit
    BY DEF Init, NewRow, NoRow
  <2>2. \A r \in Requests : req[r].row = None /\ req[r].op = "none" /\ req[r].pc = "idle"
    BY DEF Init, Idle
  <2> QED
    BY <2>1, <2>2 DEF Init, ApprovalInv, RowsInUse, StaffOffGuestRows, LookupsByStaff,
                      RowsApproved, JoinsApproved, IsGuest, InUse
<1>2. TypeInv /\ ApprovalInv /\ [Next]_vars => ApprovalInv'
  <2> SUFFICES ASSUME TypeInv, ApprovalInv, [Next]_vars PROVE ApprovalInv'
    OBVIOUS
  <2>1. CASE UNCHANGED vars
    BY <2>1 DEF vars, ApprovalInv, RowsInUse, StaffOffGuestRows, LookupsByStaff,
                RowsApproved, JoinsApproved, IsGuest, InUse
  <2>2. ASSUME NEW r \in Requests, Fail(r) PROVE ApprovalInv'
    <3>1. Idle.op = "none" /\ Idle.row = None /\ Idle.pc = "idle"
      BY DEF Idle
    <3> QED
      BY <2>2, <3>1, IdleIsRequest, MoveOnApproval DEF Fail
  <2> QED
    BY <2>1, <2>2, StartApproval, ProceedApproval DEF Next
<1> QED
  BY <1>1, <1>2, TypeInvCorrect, PTL DEF Spec

(* In an INVITE_ONLY meeting a guest row is in the call, or was given a    *)
(* LiveKit token, only if an admit handler wrote it: admission cannot be   *)
(* bypassed by any interleaving of the handlers' queries, however many     *)
(* handlers run and whichever of them fail half-way.                       *)
THEOREM ApprovalCorrect == Spec => []GuestsApproved
<1>1. ApprovalInv => GuestsApproved
  BY DEF ApprovalInv, RowsApproved, GuestsApproved, IsGuest, InUse
<1> QED
  BY <1>1, ApprovalInvCorrect, PTL
-----------------------------------------------------------------------------
LEMMA SubsetCount ==
  ASSUME NEW S, IsFiniteSet(S), NEW T \in SUBSET S
  PROVE  /\ IsFiniteSet(T) /\ Cardinality(T) \in Nat /\ Cardinality(S) \in Nat
         /\ Cardinality(T) <= Cardinality(S)
BY FS_Subset, FS_CardinalityType

LEMMA RequestCount == Cardinality(Requests) \in Nat \ {0}
BY TableAssumption, FS_CardinalityType, FS_EmptySet

(* A step that opens no guest row and lets no join pass the capacity check.*)
LEMMA NoLargerCapacity ==
  ASSUME CapacityInv, ActiveGuests' \subseteq ActiveGuests, Joining' \subseteq Joining
  PROVE  CapacityInv'
<1>1. /\ IsFiniteSet(ActiveGuests) /\ IsFiniteSet(Joining)
      /\ Cardinality(ActiveGuests) \in Nat /\ Cardinality(Joining) \in Nat
  BY SubsetCount, TableAssumption DEF ActiveGuests, Joining
<1>2. /\ Cardinality(ActiveGuests') \in Nat
      /\ Cardinality(ActiveGuests') <= Cardinality(ActiveGuests)
  BY <1>1, SubsetCount
<1>3. /\ Cardinality(Joining') \in Nat
      /\ Cardinality(Joining') <= Cardinality(Joining)
  BY <1>1, SubsetCount
<1> QED
  BY <1>1, <1>2, <1>3, RequestCount, ParameterAssumption DEF CapacityInv

(* The deleted meeting has no rows left.                                   *)
LEMMA DeletedCapacity ==
  ASSUME ApprovalInv', ~meeting'.exists
  PROVE  CapacityInv'
<1>1. ActiveGuests' = {}
  BY DEF ApprovalInv, ActiveGuests, IsGuest, InUse
<1>2. Cardinality(Joining') \in Nat /\ Cardinality(Joining') <= Cardinality(Requests)
  BY SubsetCount, TableAssumption DEF Joining
<1>3. Cardinality(ActiveGuests') = 0
  BY <1>1, FS_EmptySet
<1> QED
  BY <1>2, <1>3, RequestCount, ParameterAssumption DEF CapacityInv

(* The join of a guest passes the check on the rows as they are.           *)
LEMMA JoinGuestCapacity ==
  ASSUME NEW r \in Requests, NEW g \in Guests, NEW p, NEW d, JoinGuest(r, g, p, d)
  PROVE  CapacityInv'
<1>1. ActiveGuests' = ActiveGuests
  BY DEF JoinGuest, Accept, ActiveGuests, IsGuest, Active
<1>2. IsFiniteSet(ActiveRows) /\ Cardinality(ActiveRows) \in Nat
  BY SubsetCount, TableAssumption DEF ActiveRows
<1>3. Cardinality(ActiveRows) < MaxParticipants
  BY <1>2, ParameterAssumption DEF JoinGuest, Full
<1>4. /\ Cardinality(ActiveGuests) \in Nat
      /\ Cardinality(ActiveGuests) <= Cardinality(ActiveRows)
  BY <1>2, SubsetCount DEF ActiveGuests, ActiveRows
<1>5. Cardinality(Joining') \in Nat /\ Cardinality(Joining') <= Cardinality(Requests)
  BY SubsetCount, TableAssumption DEF Joining
<1> QED
  BY <1>1, <1>2, <1>3, <1>4, <1>5, RequestCount, ParameterAssumption DEF CapacityInv

(* Its write opens at most the one row it is accounted for.                *)
LEMMA JoinWriteCapacity ==
  ASSUME CapacityInv, NEW r \in Joining, NEW p \in RowId,
         ActiveGuests' \subseteq ActiveGuests \cup {p}, Joining' \subseteq Joining \ {r}
  PROVE  CapacityInv'
<1>1. /\ IsFiniteSet(ActiveGuests) /\ IsFiniteSet(Joining)
      /\ Cardinality(ActiveGuests) \in Nat /\ Cardinality(Joining) \in Nat
  BY SubsetCount, TableAssumption DEF ActiveGuests, Joining
<1>2. /\ IsFiniteSet(ActiveGuests \cup {p})
      /\ Cardinality(ActiveGuests \cup {p}) \in Nat
      /\ Cardinality(ActiveGuests \cup {p}) <= Cardinality(ActiveGuests) + 1
  <2>1. /\ IsFiniteSet(ActiveGuests \cup {p})
        /\ Cardinality(ActiveGuests \cup {p})
             = IF p \in ActiveGuests THEN Cardinality(ActiveGuests)
                                     ELSE Cardinality(ActiveGuests) + 1
    BY <1>1, FS_AddElement
  <2> QED
    BY <1>1, <2>1
<1>3. /\ Cardinality(ActiveGuests') \in Nat
      /\ Cardinality(ActiveGuests') <= Cardinality(ActiveGuests) + 1
  BY <1>1, <1>2, SubsetCount
<1>4. /\ IsFiniteSet(Joining \ {r})
      /\ Cardinality(Joining \ {r}) = Cardinality(Joining) - 1
  BY <1>1, FS_RemoveElement
<1>5. /\ Cardinality(Joining') \in Nat
      /\ Cardinality(Joining') <= Cardinality(Joining) - 1
  BY <1>1, <1>4, SubsetCount
<1> QED
  BY <1>1, <1>3, <1>5, RequestCount, ParameterAssumption DEF CapacityInv
LEMMA AcceptCapacity ==
  ASSUME TypeInv, CapacityInv, NEW r \in Requests, NEW op, NEW a, NEW pc, NEW p, NEW d,
         Accept(r, op, a, pc, p, d), op # "join" \/ a \notin Guests
  PROVE  CapacityInv'
<1> DEFINE q == [Idle EXCEPT !.pc = pc, !.op = op, !.actor = a, !.row = p,
                             !.device = d, !.status = meeting.status]
<1>1. req' = [req EXCEPT ![r] = q] /\ UNCHANGED rows
  BY DEF Accept
<1>2. q.op = op /\ q.actor = a
  BY DEF Idle
<1> HIDE DEF q
<1>3. Joining' \subseteq Joining
  BY <1>1, <1>2 DEF Joining, TypeInv, TypeOK
<1>4. ActiveGuests' = ActiveGuests
  BY <1>1 DEF ActiveGuests, IsGuest, Active
<1> QED
  BY <1>3, <1>4, NoLargerCapacity

(* A step that moves a handler on without touching the participants.       *)
LEMMA MoveOnCapacity ==
  ASSUME TypeInv, CapacityInv, NEW r \in Requests, NEW q,
         req' = [req EXCEPT ![r] = q], q.pc = "write" => q.actor \notin Guests,
         ActiveGuests' \subseteq ActiveGuests
  PROVE  CapacityInv'
<1>1. Joining' \subseteq Joining
  BY DEF Joining, TypeInv, TypeOK
<1> QED
  BY <1>1, NoLargerCapacity

LEMMA WriteRowCapacity ==
  ASSUME TypeInv, CapacityInv, NEW r \in Requests, NEW p \in RowId, NEW row \in Row,
         NEW next \in {"status", "reply", "countActive"}, WriteRow(r, p, row, next),
         row.role = "guest" /\ row.joined /\ ~row.left
           => (req[r].op = "join" /\ req[r].actor \in Guests) \/ p \in ActiveGuests
  PROVE  CapacityInv'
<1> DEFINE q == [req[r] EXCEPT !.pc = next, !.row = p]
<1>1. /\ rows' = [rows EXCEPT ![p] = row] /\ req' = [req EXCEPT ![r] = q]
      /\ req[r].pc = "write"
  BY DEF WriteRow
<1>2. q.pc = next
  BY DEF TypeInv, TypeOK, Request
<1> HIDE DEF q
<1>3. Joining' \subseteq Joining \ {r}
  BY <1>1, <1>2 DEF Joining, TypeInv, TypeOK
<1>4. ActiveGuests' \subseteq ActiveGuests \cup {p}
  BY <1>1 DEF ActiveGuests, IsGuest, Active, TypeInv, TypeOK
<1>5. CASE req[r].op = "join" /\ req[r].actor \in Guests
  <2>1. r \in Joining
    BY <1>1, <1>5 DEF Joining
  <2> QED
    BY <1>3, <1>4, <2>1, JoinWriteCapacity
<1>6. CASE ~(req[r].op = "join" /\ req[r].actor \in Guests)
  <2>1. ActiveGuests' \subseteq ActiveGuests
    BY <1>1, <1>4, <1>6 DEF ActiveGuests, IsGuest, Active, TypeInv, TypeOK
  <2> QED
    BY <1>3, <2>1, NoLargerCapacity
<1> QED
  BY <1>5, <1>6

LEMMA StartCapacity ==
  ASSUME TypeInv, CapacityInv, NEW r \in Requests, Start(r)
  PROVE  CapacityInv'
<1>1. CASE \E g \in Guests, p \in RowId \cup {None}, d \in Devices : JoinGuest(r, g, p, d)
  BY <1>1, JoinGuestCapacity
<1>2. CASE \E a \in Staff, d \in Devices : JoinStaff(r, a, d)
  <2>1. Staff \cap Guests = {}
    BY PeopleAssumption DEF Staff
  <2> QED
    BY <1>2, <2>1, AcceptCapacity DEF JoinStaff
<1>3. CASE \E g \in Guests, d \in Devices : WaitRead(r, g, d)
  <2>1. \E g, p, d : Accept(r, "wait", g, "write", p, d)
    BY <1>3 DEF WaitRead
  <2> QED
    BY <2>1, AcceptCapacity
<1>4. CASE \E a \in Staff, p \in RowId : AdmitRead(r, a, p)
  BY <1>4, AcceptCapacity DEF AdmitRead
<1>5. CASE \E a \in People, p \in RowId : LeaveRead(r, a, p)
  BY <1>5, AcceptCapacity DEF LeaveRead
<1>6. CASE \E a \in Staff : EndRead(r, a)
  BY <1>6, AcceptCapacity DEF EndRead
<1>7. CASE \E a \in People, p \in RowId, d \in Devices : MediaRead(r, a, p, d)
  BY <1>7, AcceptCapacity DEF MediaRead
<1>8. CASE \E a \in Admins : DeleteRead(r, a)
  BY <1>8, AcceptCapacity DEF DeleteRead
<1> QED
  BY <1>1, <1>2, <1>3, <1>4, <1>5, <1>6, <1>7, <1>8 DEF Start

LEMMA ProceedCapacity ==
  ASSUME TypeInv, ApprovalInv, CapacityInv, meeting.exists, meeting'.exists,
         NEW r \in Requests, Proceed(r)
  PROVE  CapacityInv'
<1> DEFINE q == req[r]
<1>q. q \in Request /\ (NeedsRow(q) => q.row \in RowId)
  BY DEF TypeInv, TypeOK, RowsKnown
<1>r. \A p \in RowId : rows[p] \in Row
  BY DEF TypeInv, TypeOK
<1>u. UNCHANGED rows => ActiveGuests' \subseteq ActiveGuests
  BY DEF ActiveGuests, IsGuest, Active
<1>1. CASE JoinFindHostRow(r)
  <2>1. q.actor \notin Guests
    BY <1>1 DEF JoinFindHostRow, ApprovalInv, LookupsByStaff
  <2>2. PICK w : req' = [req EXCEPT ![r] = w] /\ w.actor = q.actor
    <3>1. CASE HostRowsOf(q.actor) = {}
      <4>1. [q EXCEPT !.pc = "write"].actor = q.actor
        BY <1>q DEF Request
      <4> QED
        BY <1>1, <3>1, <4>1 DEF JoinFindHostRow
    <3>2. CASE HostRowsOf(q.actor) # {}
      <4>1. PICK p : req' = [req EXCEPT ![r] = [q EXCEPT !.pc = "write", !.row = p]]
        BY <1>1, <3>2 DEF JoinFindHostRow
      <4>2. [q EXCEPT !.pc = "write", !.row = p].actor = q.actor
        BY <1>q DEF Request
      <4> QED
        BY <4>1, <4>2
    <3> QED
      BY <3>1, <3>2
  <2>3. ActiveGuests' \subseteq ActiveGuests
    BY <1>1, <1>u DEF JoinFindHostRow
  <2> QED
    BY <2>1, <2>2, <2>3, MoveOnCapacity
<1>2. CASE JoinWrite(r)
  <2>1. CASE q.row # None
    <3>1. /\ JoinedRow(q, rows[q.row]) \in Row /\ q.row \in RowId
          /\ JoinedRow(q, rows[q.row]).role = rows[q.row].role
      BY <1>q, <1>r, <2>1 DEF JoinedRow, Row, Request
    <3>2. q.op = "join" /\ q.actor \notin Guests => rows[q.row].role # "guest"
      BY <2>1 DEF ApprovalInv, StaffOffGuestRows, IsGuest
    <3> QED
      BY <1>2, <2>1, <3>1, <3>2, WriteRowCapacity DEF JoinWrite
  <2>2. CASE q.row = None
    <3>1. PICK p \in FreeRows :
            WriteRow(r, p, NewRow(IF q.actor \in Guests THEN "guest" ELSE "host",
                                  q.actor, TRUE, q.device), "status")
      BY <1>2, <2>2 DEF JoinWrite
    <3> DEFINE row == NewRow(IF q.actor \in Guests THEN "guest" ELSE "host",
                             q.actor, TRUE, q.device)
    <3>2. row \in Row /\ row.role = IF q.actor \in Guests THEN "guest" ELSE "host"
      BY <1>q DEF NewRow, Row, Request
    <3>3. WriteRow(r, p, row, "status") /\ p \in RowId /\ q.op = "join"
      BY <1>2, <3>1 DEF FreeRows, JoinWrite
    <3> HIDE DEF row
    <3> QED
      BY <3>2, <3>3, WriteRowCapacity
  <2> QED
    BY <2>1, <2>2
<1>3. CASE WaitWrite(r)
  <2>1. CASE q.row # None
    <3>1. /\ WaitingRow(q, rows[q.row]) \in Row /\ q.row \in RowId
          /\ ~WaitingRow(q, rows[q.row]).joined
      BY <1>q, <1>r, <2>1 DEF WaitingRow, Row, Request
    <3> QED
      BY <1>3, <2>1, <3>1, WriteRowCapacity DEF WaitWrite
  <2>2. CASE q.row = None
    <3>1. PICK p \in FreeRows :
            WriteRow(r, p, RequestedRow(q), "status")
      BY <1>3, <2>2 DEF WaitWrite
    <3>2. /\ RequestedRow(q) \in Row
          /\ ~RequestedRow(q).joined
      BY <1>q DEF RequestedRow, WaitingRow, NewRow, Row, Request
    <3> QED
      BY <3>1, <3>2, WriteRowCapacity DEF FreeRows
  <2> QED
    BY <2>1, <2>2
<1>4. CASE AdmitWrite(r)
  <2> DEFINE row == [rows[q.row] EXCEPT !.admitted = TRUE]
  <2>1. /\ q.row \in RowId /\ row \in Row /\ row.role = rows[q.row].role
        /\ row.joined = rows[q.row].joined /\ row.left = rows[q.row].left
    BY <1>4, <1>q, <1>r DEF AdmitWrite, NeedsRow, Row
  <2>2. WriteRow(r, q.row, row, "status")
    BY <1>4 DEF AdmitWrite
  <2> HIDE DEF row
  <2> QED
    BY <2>1, <2>2, WriteRowCapacity DEF ActiveGuests, IsGuest, Active
<1>5. CASE LeaveWrite(r)
  <2>1. /\ q.row \in RowId /\ [rows[q.row] EXCEPT !.left = TRUE] \in Row
        /\ [rows[q.row] EXCEPT !.left = TRUE].left
    BY <1>5, <1>q, <1>r DEF LeaveWrite, NeedsRow, Row
  <2> QED
    BY <1>5, <2>1, WriteRowCapacity DEF LeaveWrite
<1>6. CASE LeaveCountActive(r)
  <2> DEFINE w == [q EXCEPT !.pc = "countWaiting", !.occupied = ActiveRows # {}]
  <2>1. w.pc # "write" /\ req' = [req EXCEPT ![r] = w]
    BY <1>6, <1>q DEF LeaveCountActive, Request
  <2> HIDE DEF w
  <2> QED
    BY <1>6, <1>u, <2>1, MoveOnCapacity DEF LeaveCountActive
<1>7. CASE LeaveCountWaiting(r)
  <2> DEFINE w == [q EXCEPT !.pc = "status", !.waiting = WaitingRows # {}]
  <2>1. w.pc # "write" /\ req' = [req EXCEPT ![r] = w]
    BY <1>7, <1>q DEF LeaveCountWaiting, Request
  <2> HIDE DEF w
  <2> QED
    BY <1>7, <1>u, <2>1, MoveOnCapacity DEF LeaveCountWaiting
<1>8. CASE EndWrite(r)
  <2> DEFINE w == [q EXCEPT !.pc = "status"]
  <2>1. w.pc # "write" /\ req' = [req EXCEPT ![r] = w]
    BY <1>8, <1>q DEF EndWrite, Request
  <2> HIDE DEF w
  <2>2. \A p \in RowId : /\ rows'[p].role = rows[p].role
                         /\ rows'[p].joined = rows[p].joined
                         /\ rows[p].left => rows'[p].left
    BY <1>8, <1>r DEF EndWrite, EndedRow, Row
  <2>3. ActiveGuests' \subseteq ActiveGuests
    BY <2>2 DEF ActiveGuests, IsGuest, Active
  <2> QED
    BY <2>1, <2>3, MoveOnCapacity
<1>9. CASE MediaWrite(r)
  <2> DEFINE row == [rows[q.row] EXCEPT !.device = q.device]
  <2>1. /\ q.row \in RowId /\ row \in Row /\ row.role = rows[q.row].role
        /\ row.joined = rows[q.row].joined /\ row.left = rows[q.row].left
    BY <1>9, <1>q, <1>r DEF MediaWrite, NeedsRow, Row, Request
  <2>2. WriteRow(r, q.row, row, "reply")
    BY <1>9 DEF MediaWrite
  <2> HIDE DEF row
  <2> QED
    BY <2>1, <2>2, WriteRowCapacity DEF ActiveGuests, IsGuest, Active
<1>10. CASE DeleteWrite(r)
  BY <1>10 DEF DeleteWrite, TypeInv, TypeOK
<1>11. CASE WriteStatus(r)
  <2> DEFINE w == [q EXCEPT !.pc = "reply"]
  <2>1. w.pc # "write" /\ req' = [req EXCEPT ![r] = w]
    BY <1>11, <1>q DEF WriteStatus, Request
  <2> HIDE DEF w
  <2> QED
    BY <1>11, <1>u, <2>1, MoveOnCapacity DEF WriteStatus
<1>12. CASE Reply(r)
  <2>1. Idle.pc # "write"
    BY DEF Idle
  <2> QED
    BY <1>12, <1>u, <2>1, MoveOnCapacity DEF Reply
<1> QED
  BY <1>1, <1>2, <1>3, <1>4, <1>5, <1>6, <1>7, <1>8, <1>9, <1>10, <1>11, <1>12
     DEF Proceed

(* Whatever the interleaving, the guests in the call exceed the capacity   *)
(* by at most the number of handlers that can run at once, less one; with  *)
(* one handler at a time the check of join-token is exact.                 *)
THEOREM CapacityCorrect == Spec => []GuestOvershoot
<1>1. Init => CapacityInv
  <2> SUFFICES ASSUME Init PROVE CapacityInv
    OBVIOUS
  <2>1. ActiveGuests = {}
    BY DEF Init, ActiveGuests, IsGuest, Active, NewRow, NoRow
  <2>2. Joining = {}
    BY DEF Init, Joining, Idle
  <2> QED
    BY <2>1, <2>2, FS_EmptySet, RequestCount, ParameterAssumption DEF CapacityInv
<1>2. TypeInv /\ ApprovalInv /\ ApprovalInv' /\ CapacityInv /\ [Next]_vars => CapacityInv'
  <2> SUFFICES ASSUME TypeInv, ApprovalInv, ApprovalInv', CapacityInv, [Next]_vars
               PROVE  CapacityInv'
    OBVIOUS
  <2>1. CASE UNCHANGED vars
    BY <2>1, NoLargerCapacity DEF vars, ActiveGuests, Joining, IsGuest, Active
  <2>2. ASSUME NEW r \in Requests, Fail(r) PROVE CapacityInv'
    <3>1. Idle.pc # "write"
      BY DEF Idle
    <3> QED
      BY <2>2, <3>1, MoveOnCapacity DEF Fail, ActiveGuests, IsGuest, Active
  <2>3. ASSUME NEW r \in Requests, Proceed(r) PROVE CapacityInv'
    <3>1. CASE ~meeting'.exists
      BY <3>1, DeletedCapacity
    <3>2. CASE meeting'.exists
      <4>1. meeting.exists
        BY <2>3, <3>2 DEF Proceed, JoinFindHostRow, JoinWrite, WaitWrite, AdmitWrite,
             LeaveWrite, LeaveCountActive, LeaveCountWaiting, EndWrite, MediaWrite,
             DeleteWrite, WriteStatus, Reply
      <4> QED
        BY <2>3, <3>2, <4>1, ProceedCapacity
    <3> QED
      BY <3>1, <3>2
  <2> QED
    BY <2>1, <2>2, <2>3, StartCapacity DEF Next
<1>3. TypeInv /\ CapacityInv => GuestOvershoot
  <2>1. Cardinality(Joining) \in Nat /\ Cardinality(ActiveGuests) \in Nat
    BY SubsetCount, TableAssumption DEF Joining, ActiveGuests
  <2> QED
    BY <2>1, RequestCount, ParameterAssumption DEF CapacityInv, GuestOvershoot
<1> QED
  BY <1>1, <1>2, <1>3, TypeInvCorrect, ApprovalInvCorrect, PTL DEF Spec

-----------------------------------------------------------------------------
(* Whose row it is: the rows a person holds a token for, or a handler of   *)
(* theirs is at work on, are that person's, or another guest's of the same *)
(* circles, as the waiting room knows guests by e-mails and names.  A row  *)
(* keeps its role and, up to the circles, its person until the meeting is  *)
(* deleted, and the e-mail it holds is of those circles too.               *)
Kin(g, h) == \A S \in Circles : g \in S <=> h \in S

Owns(a, p) ==
  IF a \in Guests
    THEN IsGuest(p) /\ rows[p].who \in Guests /\ Kin(rows[p].who, a)
    ELSE rows[p].role = "host" /\ rows[p].who = a

(* The name and the e-mail a guest row holds.                              *)
GoodRow(row) ==
  row.role = "guest" => /\ row.who \in Guests
                        /\ row.mail # None => row.mail \in Guests /\ Kin(row.mail, row.who)

Seats(q) == q.op \in {"join", "wait"}

Claims(a, p) ==
  \/ a \in Guests /\ p \in held[a]
  \/ \E r \in Requests : Seats(req[r]) /\ req[r].actor = a /\ req[r].row = p

Actors(q) ==
  /\ q.op = "wait" => q.actor \in Guests
  /\ q.op = "join" => q.actor \in People
  /\ q.pc = "find" => q.op = "join" /\ q.actor \in Staff /\ q.row = None

(* The host's join has found their row when it comes to write.             *)
FoundOwn(q) == q.op = "join" /\ q.pc = "write" /\ q.actor = Host => q.row # None

OwnRows ==
  /\ \A a \in People, p \in RowId : Claims(a, p) => Owns(a, p)
  /\ \A p \in RowId : rows[p].role = "host" /\ rows[p].who = Host <=> p = HostRow
  /\ \A p \in RowId : GoodRow(rows[p])
  /\ \A r \in Requests : FoundOwn(req[r])

ClaimsApart ==
  \A g, h \in Guests, p \in RowId : Claims(g, p) /\ Claims(h, p) => Kin(g, h)

OwnerInv ==
  /\ \A r \in Requests : Actors(req[r])
  /\ IF meeting.exists THEN OwnRows ELSE ClaimsApart

LEMMA StaffApart == Host \in Staff /\ Staff \cap Guests = {} /\ People = Guests \cup Staff
BY PeopleAssumption DEF Staff, People

(* Guests who share a name or an e-mail are of the same circles.           *)
LEMMA AlikeKin == \A g, h \in Guests : Alike(g, h) => Kin(g, h)
<1>1. \A g, h \in Guests : Alike(g, h) => Alike(h, g)
  BY DEF Alike
<1> QED
  BY <1>1 DEF Kin, Circles

LEMMA KinKin ==
  /\ \A g : Kin(g, g)
  /\ \A g, h : Kin(g, h) => Kin(h, g)
  /\ \A g, h, k : Kin(g, h) /\ Kin(h, k) => Kin(g, k)
BY DEF Kin

LEMMA OwnersApart == OwnRows => ClaimsApart
<1> SUFFICES ASSUME OwnRows, NEW g \in Guests, NEW h \in Guests, NEW p \in RowId,
                    Claims(g, p), Claims(h, p)
             PROVE  Kin(g, h)
  BY DEF ClaimsApart
<1>1. Kin(rows[p].who, g) /\ Kin(rows[p].who, h)
  BY DEF OwnRows, Owns, People
<1> QED
  BY <1>1, KinKin

(* A step that moves a handler on.                                         *)
LEMMA MoveOnOwner ==
  ASSUME TypeInv, OwnerInv, NEW r \in Requests, NEW q \in Request,
         req' = [req EXCEPT ![r] = q], UNCHANGED <<rows, held>>,
         meeting'.exists = meeting.exists,
         Actors(q), meeting.exists => FoundOwn(q),
         Seats(q) /\ q.row # None =>
           \/ Seats(req[r]) /\ q.actor = req[r].actor /\ q.row = req[r].row
           \/ meeting.exists /\ Owns(q.actor, q.row)
  PROVE  OwnerInv'
<1>1. \A s \in Requests : req'[s] = IF s = r THEN q ELSE req[s]
  BY DEF TypeInv, TypeOK
<1>2. \A s \in Requests : Actors(req'[s])
  BY <1>1 DEF OwnerInv
<1>3. ASSUME NEW a \in People, NEW p \in RowId, Claims(a, p)'
      PROVE  Claims(a, p) \/ (meeting.exists /\ Owns(a, p))
  BY <1>1, <1>3, TableAssumption DEF Claims
<1>4. CASE meeting.exists
  <2>1. \A a \in People, p \in RowId : Claims(a, p)' => Owns(a, p)'
    BY <1>3, <1>4 DEF OwnerInv, OwnRows, Owns, IsGuest
  <2>2. OwnRows'
    BY <1>1, <1>4, <2>1 DEF OwnerInv, OwnRows
  <2> QED
    BY <1>2, <1>4, <2>2 DEF OwnerInv
<1>5. CASE ~meeting.exists
  <2>1. ClaimsApart'
    BY <1>3, <1>5 DEF OwnerInv, ClaimsApart, People
  <2> QED
    BY <1>2, <1>5, <2>1 DEF OwnerInv
<1> QED
  BY <1>4, <1>5

(* A write to the participant table keeps whose the row is, and one that   *)
(* inserts a row does so for a person other than the host.                 *)
LEMMA WriteRowOwner ==
  ASSUME TypeInv, ApprovalInv, OwnerInv, NEW r \in Requests, NEW p \in RowId, NEW row \in Row,
         NEW next \in {"status", "reply", "countActive"},
         WriteRow(r, p, row, next), UNCHANGED <<meeting, held>>,
         req[r].row # None => p = req[r].row /\ row.role = rows[p].role,
         req[r].row = None => /\ Seats(req[r]) /\ ~InUse(p)
                              /\ row.role = IF req[r].actor \in Guests THEN "guest" ELSE "host",
         row.who = IF Seats(req[r]) THEN req[r].actor ELSE rows[p].who,
         row.mail # None => \/ Seats(req[r]) /\ row.mail = req[r].actor
                            \/ req[r].row # None /\ row.mail = rows[p].mail
  PROVE  OwnerInv'
<1> DEFINE q == [req[r] EXCEPT !.pc = next, !.row = p]
<1>1. /\ rows' = [rows EXCEPT ![p] = row]
      /\ req' = [req EXCEPT ![r] = q]
      /\ meeting.exists /\ req[r].pc = "write"
  BY DEF WriteRow
<1>2. q.pc = next /\ q.op = req[r].op /\ q.actor = req[r].actor /\ q.row = p
  BY DEF TypeInv, TypeOK, Request
<1> HIDE DEF q
<1>3. \A s \in Requests : req'[s] = IF s = r THEN q ELSE req[s]
  BY <1>1 DEF TypeInv, TypeOK
<1>4. \A s \in RowId : rows'[s] = IF s = p THEN row ELSE rows[s]
  BY <1>1 DEF TypeInv, TypeOK
<1>5. OwnRows /\ Actors(req[r])
  BY <1>1 DEF OwnerInv
<1>6. \A s \in Requests : Actors(req'[s])
  BY <1>2, <1>3 DEF OwnerInv, Actors
<1>7. Seats(req[r]) => req[r].actor \in People
  BY <1>5, StaffApart DEF Actors, Seats
<1>8. CASE req[r].row # None
  <2>1. Seats(req[r]) => Claims(req[r].actor, p)
    BY <1>8 DEF Claims
  <2>2. Seats(req[r]) => Owns(req[r].actor, p)
    BY <1>5, <1>7, <2>1 DEF OwnRows
  <2>3. /\ row.role = rows[p].role
        /\ row.role # "guest" => row.who = rows[p].who
        /\ row.role = "guest" => /\ row.who \in Guests /\ rows[p].who \in Guests
                                 /\ Kin(rows[p].who, row.who)
    <3>1. CASE Seats(req[r])
      BY <1>8, <2>2, <3>1, StaffApart DEF Owns, IsGuest
    <3>2. CASE ~Seats(req[r])
      BY <1>5, <1>8, <3>2, KinKin DEF OwnRows, GoodRow
    <3> QED
      BY <3>1, <3>2
  <2>4. \A a \in People, s \in RowId : Claims(a, s)' => Claims(a, s)
    BY <1>2, <1>3, <1>8 DEF Claims, Seats
  <2>5. \A a \in People, s \in RowId : Owns(a, s) => Owns(a, s)'
    BY <1>4, <2>3, KinKin DEF Owns, IsGuest
  <2>6. \A a \in People, s \in RowId : Claims(a, s)' => Owns(a, s)'
    BY <1>5, <2>4, <2>5 DEF OwnRows
  <2>7. \A s \in RowId : rows'[s].role = "host" /\ rows'[s].who = Host <=> s = HostRow
    BY <1>4, <1>5, <2>3 DEF OwnRows
  <2>8. \A s \in RowId : GoodRow(rows'[s])
    <3>1. ASSUME row.role = "guest", row.mail # None PROVE GoodRow(row)
      <4>1. rows[p].role = "guest" /\ GoodRow(rows[p])
        BY <1>5, <2>3, <3>1 DEF OwnRows
      <4>2. CASE Seats(req[r]) /\ row.mail = req[r].actor
        BY <2>3, <3>1, <4>2, KinKin DEF GoodRow
      <4>3. CASE row.mail = rows[p].mail
        BY <2>3, <3>1, <4>1, <4>3, KinKin DEF GoodRow
      <4> QED
        BY <3>1, <4>2, <4>3
    <3>2. GoodRow(row)
      BY <2>3, <3>1 DEF GoodRow
    <3> QED
      BY <1>4, <1>5, <3>2 DEF OwnRows
  <2>9. \A s \in Requests : FoundOwn(req'[s])
    BY <1>2, <1>3, <1>5 DEF OwnRows, FoundOwn
  <2> QED
    BY <1>1, <1>6, <2>6, <2>7, <2>8, <2>9 DEF OwnerInv, OwnRows
<1>9. CASE req[r].row = None
  <2>1. Seats(req[r]) /\ req[r].actor # Host /\ row.who = req[r].actor
    BY <1>1, <1>5, <1>9, StaffApart DEF OwnRows, FoundOwn, Actors, Seats
  <2>b. PICK b \in People : b = req[r].actor
    BY <1>7, <2>1
  <2>2. rows[p].role \notin {"guest", "host"}
    BY <1>9 DEF InUse, TypeInv, TypeOK, Row
  <2>3. \A a \in People : ~Claims(a, p)
    BY <1>5, <2>2 DEF OwnRows, Owns, IsGuest
  <2>4. \A a \in People, s \in RowId :
          Claims(a, s)' => Claims(a, s) \/ (s = p /\ a = b)
    BY <1>2, <1>3, <1>9, <2>b DEF Claims, Seats
  <2>5. Owns(b, p)'
    BY <1>4, <1>9, <2>1, <2>b, KinKin DEF Owns, IsGuest
  <2>6. \A a \in People, s \in RowId : Claims(a, s) => Owns(a, s)'
    BY <1>4, <1>5, <2>3 DEF OwnRows, Owns, IsGuest
  <2>7. \A a \in People, s \in RowId : Claims(a, s)' => Owns(a, s)'
    BY <2>4, <2>5, <2>6
  <2>8. \A s \in RowId : rows'[s].role = "host" /\ rows'[s].who = Host <=> s = HostRow
    BY <1>4, <1>5, <2>1, <2>2 DEF OwnRows
  <2>9. \A s \in RowId : GoodRow(rows'[s])
    <3>1. GoodRow(row)
      BY <1>9, <2>1, KinKin DEF GoodRow
    <3> QED
      BY <1>4, <1>5, <3>1 DEF OwnRows
  <2>10. \A s \in Requests : FoundOwn(req'[s])
    BY <1>2, <1>3, <1>5 DEF OwnRows, FoundOwn
  <2> QED
    BY <1>1, <1>6, <2>7, <2>8, <2>9, <2>10 DEF OwnerInv, OwnRows
<1> QED
  BY <1>8, <1>9

(* What accepting a request does: a join or a waiting request starts on a  *)
(* row of its own, or on none.                                             *)
LEMMA AcceptOwner ==
  ASSUME TypeInv, OwnerInv, NEW r \in Requests, NEW op \in AllOps, NEW a \in People,
         NEW pc \in {"find", "write"}, NEW p \in RowId \cup {None}, NEW d \in BOOLEAN,
         Accept(r, op, a, pc, p, d),
         op = "wait" => a \in Guests,
         pc = "find" => op = "join" /\ a \in Staff /\ p = None,
         op = "join" /\ pc = "write" => a \in Guests,
         op \in {"join", "wait"} /\ p # None => Owns(a, p)
  PROVE  OwnerInv'
<1> DEFINE q == [Idle EXCEPT !.pc = pc, !.op = op, !.actor = a, !.row = p,
                             !.device = d, !.status = meeting.status]
<1>1. /\ req' = [req EXCEPT ![r] = q]
      /\ UNCHANGED <<meeting, rows, held, livekit, approved>>
      /\ meeting.exists
  BY DEF Accept
<1>2. q.pc = pc /\ q.op = op /\ q.actor = a /\ q.row = p
  BY DEF Idle
<1>3. q \in Request
  BY DEF Idle, Request, TypeInv, TypeOK
<1> HIDE DEF q
<1>4. Actors(q) /\ FoundOwn(q)
  BY <1>2, StaffApart DEF Actors, FoundOwn
<1> QED
  BY <1>1, <1>2, <1>3, <1>4, MoveOnOwner DEF Seats

LEMMA StartOwner ==
  ASSUME TypeInv, OwnerInv, NEW r \in Requests, Start(r)
  PROVE  OwnerInv'
<1> USE StaffApart, ParameterAssumption DEF AllOps
<1>0. OwnRows
  BY DEF Start, JoinGuest, JoinStaff, WaitRead, AdmitRead, LeaveRead, EndRead,
         MediaRead, DeleteRead, Accept, OwnerInv
<1>1. CASE \E g \in Guests, p \in RowId \cup {None}, d \in Devices : JoinGuest(r, g, p, d)
  <2>1. PICK g \in Guests, p \in RowId \cup {None}, d \in Devices : JoinGuest(r, g, p, d)
    BY <1>1
  <2>2. p # None => p \in RowId /\ p \in held[g]
    BY <2>1 DEF JoinGuest, MayJoin
  <2>3. p # None => Owns(g, p)
    BY <1>0, <2>2 DEF OwnRows, Claims
  <2> QED
    BY <2>1, <2>3, AcceptOwner DEF JoinGuest
<1>2. CASE \E a \in Staff, d \in Devices : JoinStaff(r, a, d)
  BY <1>2, AcceptOwner DEF JoinStaff
<1>3. CASE \E g \in Guests, d \in Devices : WaitRead(r, g, d)
  <2>1. PICK g \in Guests, d \in Devices : WaitRead(r, g, d)
    BY <1>3
  <2>2. PICK p \in RowId \cup {None} : /\ Accept(r, "wait", g, "write", p, d)
                                       /\ p # None => p \in OwnRequests(g)
    BY <2>1 DEF WaitRead, OwnRequests
  <2>3. p # None => Owns(g, p)
    <3> SUFFICES ASSUME p # None PROVE Owns(g, p)
      OBVIOUS
    <3>1. /\ p \in RowId /\ IsGuest(p) /\ GoodRow(rows[p])
          /\ SameEmail(p, g) \/ Name[rows[p].who] = Name[g]
      BY <1>0, <2>2 DEF OwnRows, OwnRequests
    <3>2. CASE SameEmail(p, g)
      <4>1. rows[p].mail \in Guests /\ Alike(rows[p].mail, g) /\ Kin(rows[p].mail, rows[p].who)
        BY <3>1, <3>2 DEF SameEmail, Alike, GoodRow, IsGuest
      <4> QED
        BY <3>1, <4>1, AlikeKin, KinKin DEF Owns, GoodRow, IsGuest
    <3>3. CASE Name[rows[p].who] = Name[g]
      BY <3>1, <3>3, AlikeKin DEF Owns, Alike, GoodRow, IsGuest
    <3> QED
      BY <3>1, <3>2, <3>3
  <2> QED
    BY <2>2, <2>3, AcceptOwner
<1>4. CASE \E a \in Staff, p \in RowId : AdmitRead(r, a, p)
  BY <1>4, AcceptOwner DEF AdmitRead
<1>5. CASE \E a \in People, p \in RowId : LeaveRead(r, a, p)
  BY <1>5, AcceptOwner DEF LeaveRead
<1>6. CASE \E a \in Staff : EndRead(r, a)
  BY <1>6, AcceptOwner DEF EndRead
<1>7. CASE \E a \in People, p \in RowId, d \in Devices : MediaRead(r, a, p, d)
  BY <1>7, AcceptOwner DEF MediaRead
<1>8. CASE \E a \in Admins : DeleteRead(r, a)
  BY <1>8, AcceptOwner DEF DeleteRead, Staff
<1> QED
  BY <1>1, <1>2, <1>3, <1>4, <1>5, <1>6, <1>7, <1>8 DEF Start

(* A handler that goes on with the row it has.                             *)
LEMMA SameRowOwner ==
  ASSUME TypeInv, OwnerInv, NEW r \in Requests, NEW q \in Request,
         req' = [req EXCEPT ![r] = q], UNCHANGED <<rows, held>>,
         meeting'.exists = meeting.exists,
         q.op = req[r].op, q.actor = req[r].actor, q.row = req[r].row,
         q.pc \notin {"find", "write"}
  PROVE  OwnerInv'
<1>1. Actors(req[r])
  BY DEF OwnerInv
<1>2. Actors(q) /\ FoundOwn(q)
  BY <1>1 DEF Actors, FoundOwn
<1> QED
  BY <1>2, MoveOnOwner DEF Seats

LEMMA ProceedOwner ==
  ASSUME TypeInv, ApprovalInv, OwnerInv, NEW r \in Requests, Proceed(r)
  PROVE  OwnerInv'
<1> DEFINE q == req[r]
<1>q. q \in Request /\ (NeedsRow(q) => q.row \in RowId) /\ Actors(q)
  BY DEF TypeInv, TypeOK, RowsKnown, OwnerInv
<1>r. \A p \in RowId : rows[p] \in Row
  BY DEF TypeInv, TypeOK
<1>1. CASE JoinFindHostRow(r)
  <2>0. q.op = "join" /\ q.actor \in Staff /\ q.row = None
    BY <1>1, <1>q DEF JoinFindHostRow, Actors
  <2>1. CASE HostRowsOf(q.actor) = {}
    <3> DEFINE w == [q EXCEPT !.pc = "write"]
    <3>1. /\ w \in Request /\ w.row = None /\ w.op = q.op /\ w.actor = q.actor /\ w.pc = "write"
      BY <1>q, <2>0 DEF Request
    <3>2. /\ req' = [req EXCEPT ![r] = w] /\ UNCHANGED <<meeting, rows, held>>
      BY <1>1, <2>1 DEF JoinFindHostRow
    <3> HIDE DEF w
    <3>3. meeting.exists => q.actor # Host
      BY <2>1, TableAssumption DEF OwnerInv, OwnRows, HostRowsOf
    <3>4. Actors(w) /\ (meeting.exists => FoundOwn(w))
      BY <2>0, <3>1, <3>3, StaffApart DEF Actors, FoundOwn
    <3> QED
      BY <3>1, <3>2, <3>4, MoveOnOwner
  <2>2. CASE HostRowsOf(q.actor) # {}
    <3>1. PICK p \in HostRowsOf(q.actor) :
            req' = [req EXCEPT ![r] = [q EXCEPT !.pc = "write", !.row = p]]
      BY <1>1, <2>2 DEF JoinFindHostRow
    <3> DEFINE w == [q EXCEPT !.pc = "write", !.row = p]
    <3>2. /\ w \in Request /\ w.row = p /\ w.op = q.op /\ w.actor = q.actor /\ w.pc = "write"
      BY <1>q DEF Request, HostRowsOf
    <3>3. /\ req' = [req EXCEPT ![r] = w] /\ UNCHANGED <<meeting, rows, held>>
      BY <1>1, <3>1 DEF JoinFindHostRow
    <3> HIDE DEF w
    <3>4. p \in RowId /\ InUse(p) /\ Owns(q.actor, p)
      BY <2>0, StaffApart DEF HostRowsOf, InUse, Owns
    <3>5. meeting.exists
      BY <3>4 DEF ApprovalInv
    <3>6. Actors(w) /\ FoundOwn(w)
      BY <2>0, <3>2, <3>4, StaffApart, TableAssumption DEF Actors, FoundOwn
    <3> QED
      BY <3>2, <3>3, <3>4, <3>5, <3>6, MoveOnOwner
  <2> QED
    BY <2>1, <2>2
<1>2. CASE JoinWrite(r)
  <2>1. q.op = "join" /\ UNCHANGED <<meeting, held>> /\ Seats(q)
    BY <1>2 DEF JoinWrite, Seats
  <2>2. CASE q.row # None
    <3> DEFINE row == JoinedRow(q, rows[q.row])
    <3>1. /\ row \in Row /\ q.row \in RowId /\ row.role = rows[q.row].role
          /\ row.who = q.actor /\ row.mail = rows[q.row].mail
      BY <1>q, <1>r, <2>2 DEF JoinedRow, Row, Request
    <3>2. WriteRow(r, q.row, row, "status")
      BY <1>2, <2>2 DEF JoinWrite
    <3> HIDE DEF row
    <3> QED
      BY <2>1, <2>2, <3>1, <3>2, WriteRowOwner
  <2>3. CASE q.row = None
    <3>1. PICK p \in FreeRows :
            WriteRow(r, p, NewRow(IF q.actor \in Guests THEN "guest" ELSE "host",
                                  q.actor, TRUE, q.device), "status")
      BY <1>2, <2>3 DEF JoinWrite
    <3> DEFINE row == NewRow(IF q.actor \in Guests THEN "guest" ELSE "host",
                             q.actor, TRUE, q.device)
    <3>2. /\ row \in Row /\ row.role = IF q.actor \in Guests THEN "guest" ELSE "host"
          /\ row.who = q.actor /\ row.mail = None
      BY <1>q DEF NewRow, Row, Request
    <3>3. WriteRow(r, p, row, "status") /\ p \in RowId /\ ~InUse(p)
      BY <3>1 DEF FreeRows, InUse
    <3> HIDE DEF row
    <3> QED
      BY <2>1, <2>3, <3>2, <3>3, WriteRowOwner
  <2> QED
    BY <2>2, <2>3
<1>3. CASE WaitWrite(r)
  <2>1. q.op = "wait" /\ UNCHANGED <<meeting, held>> /\ Seats(q) /\ q.actor \in Guests
    BY <1>3, <1>q DEF WaitWrite, Seats, Actors
  <2>2. CASE q.row # None
    <3> DEFINE row == WaitingRow(q, rows[q.row])
    <3>1. /\ row \in Row /\ q.row \in RowId /\ row.role = rows[q.row].role
          /\ row.who = q.actor /\ row.mail = q.actor
      BY <1>q, <1>r, <2>2 DEF WaitingRow, Row, Request
    <3>2. WriteRow(r, q.row, row, "status")
      BY <1>3, <2>2 DEF WaitWrite
    <3> HIDE DEF row
    <3> QED
      BY <2>1, <2>2, <3>1, <3>2, WriteRowOwner
  <2>3. CASE q.row = None
    <3>1. PICK p \in FreeRows :
            WriteRow(r, p, RequestedRow(q), "status")
      BY <1>3, <2>3 DEF WaitWrite
    <3> DEFINE row == RequestedRow(q)
    <3>2. row \in Row /\ row.role = "guest" /\ row.who = q.actor /\ row.mail = q.actor
      BY <1>q DEF RequestedRow, WaitingRow, NewRow, Row, Request
    <3>3. WriteRow(r, p, row, "status") /\ p \in RowId /\ ~InUse(p)
      BY <3>1 DEF FreeRows, InUse
    <3> HIDE DEF row
    <3> QED
      BY <2>1, <2>3, <3>2, <3>3, WriteRowOwner
  <2> QED
    BY <2>2, <2>3
<1>4. CASE AdmitWrite(r)
  <2> DEFINE row == [rows[q.row] EXCEPT !.admitted = TRUE]
  <2>1. /\ q.row \in RowId /\ row \in Row /\ row.role = rows[q.row].role
        /\ row.who = rows[q.row].who /\ row.mail = rows[q.row].mail
    BY <1>4, <1>q, <1>r DEF AdmitWrite, NeedsRow, Row
  <2>2. /\ WriteRow(r, q.row, row, "status") /\ UNCHANGED <<meeting, held>> /\ ~Seats(q)
    BY <1>4 DEF AdmitWrite, Seats
  <2> HIDE DEF row
  <2> QED
    BY <2>1, <2>2, TableAssumption, WriteRowOwner
<1>5. CASE LeaveWrite(r)
  <2> DEFINE row == [rows[q.row] EXCEPT !.left = TRUE]
  <2>1. /\ q.row \in RowId /\ row \in Row /\ row.role = rows[q.row].role
        /\ row.who = rows[q.row].who /\ row.mail = rows[q.row].mail
    BY <1>5, <1>q, <1>r DEF LeaveWrite, NeedsRow, Row
  <2>2. WriteRow(r, q.row, row, "countActive") /\ UNCHANGED <<meeting, held>> /\ ~Seats(q)
    BY <1>5 DEF LeaveWrite, Seats
  <2> HIDE DEF row
  <2> QED
    BY <2>1, <2>2, TableAssumption, WriteRowOwner
<1>6. CASE LeaveCountActive(r)
  <2> DEFINE w == [q EXCEPT !.pc = "countWaiting", !.occupied = ActiveRows # {}]
  <2>1. /\ w \in Request /\ w.row = q.row /\ w.op = q.op /\ w.actor = q.actor
        /\ w.pc = "countWaiting"
    BY <1>q DEF Request
  <2>2. req' = [req EXCEPT ![r] = w] /\ UNCHANGED <<meeting, rows, held>>
    BY <1>6 DEF LeaveCountActive
  <2> HIDE DEF w
  <2> QED
    BY <2>1, <2>2, SameRowOwner
<1>7. CASE LeaveCountWaiting(r)
  <2> DEFINE w == [q EXCEPT !.pc = "status", !.waiting = WaitingRows # {}]
  <2>1. /\ w \in Request /\ w.row = q.row /\ w.op = q.op /\ w.actor = q.actor
        /\ w.pc = "status"
    BY <1>q DEF Request
  <2>2. req' = [req EXCEPT ![r] = w] /\ UNCHANGED <<meeting, rows, held>>
    BY <1>7 DEF LeaveCountWaiting
  <2> HIDE DEF w
  <2> QED
    BY <2>1, <2>2, SameRowOwner
<1>8. CASE EndWrite(r)
  <2> DEFINE w == [q EXCEPT !.pc = "status"]
  <2>1. /\ w.row = q.row /\ w.op = q.op /\ w.actor = q.actor /\ w.pc = "status"
    BY <1>q DEF Request
  <2>2. /\ req' = [req EXCEPT ![r] = w] /\ meeting.exists
        /\ UNCHANGED <<meeting, held>>
    BY <1>8 DEF EndWrite
  <2> HIDE DEF w
  <2>3. \A s \in Requests : /\ req'[s].row = req[s].row /\ req'[s].op = req[s].op
                            /\ req'[s].actor = req[s].actor
                            /\ req'[s].pc \in {"find", "write"} => req'[s].pc = req[s].pc
    BY <2>1, <2>2 DEF TypeInv, TypeOK
  <2>4. \A p \in RowId : /\ rows'[p].role = rows[p].role /\ rows'[p].who = rows[p].who
                          /\ rows'[p].mail = rows[p].mail
    BY <1>8, <1>r DEF EndWrite, EndedRow, Row
  <2>5. \A a \in People, p \in RowId : Claims(a, p)' => Claims(a, p)
    BY <2>2, <2>3 DEF Claims, Seats
  <2>6. \A a \in People, p \in RowId : Claims(a, p)' => Owns(a, p)'
    BY <2>2, <2>4, <2>5 DEF OwnerInv, OwnRows, Owns, IsGuest
  <2>7. \A p \in RowId : /\ rows'[p].role = "host" /\ rows'[p].who = Host <=> p = HostRow
                         /\ GoodRow(rows'[p])
    BY <2>2, <2>4 DEF OwnerInv, OwnRows, GoodRow
  <2>8. \A s \in Requests : Actors(req'[s]) /\ FoundOwn(req'[s])
    BY <2>2, <2>3 DEF OwnerInv, OwnRows, Actors, FoundOwn
  <2> QED
    BY <2>2, <2>6, <2>7, <2>8 DEF OwnerInv, OwnRows
<1>9. CASE MediaWrite(r)
  <2> DEFINE row == [rows[q.row] EXCEPT !.device = q.device]
  <2>1. /\ q.row \in RowId /\ row \in Row /\ row.role = rows[q.row].role
        /\ row.who = rows[q.row].who /\ row.mail = rows[q.row].mail
    BY <1>9, <1>q, <1>r DEF MediaWrite, NeedsRow, Row, Request
  <2>2. WriteRow(r, q.row, row, "reply") /\ UNCHANGED <<meeting, held>> /\ ~Seats(q)
    BY <1>9 DEF MediaWrite, Seats
  <2> HIDE DEF row
  <2> QED
    BY <2>1, <2>2, TableAssumption, WriteRowOwner
<1>10. CASE DeleteWrite(r)
  <2> DEFINE w == [q EXCEPT !.pc = "reply"]
  <2>1. /\ w.row = q.row /\ w.op = q.op /\ w.actor = q.actor /\ w.pc = "reply"
    BY <1>q DEF Request
  <2>2. /\ req' = [req EXCEPT ![r] = w] /\ meeting.exists /\ ~meeting'.exists
        /\ UNCHANGED held
    BY <1>10 DEF DeleteWrite, TypeInv, TypeOK
  <2> HIDE DEF w
  <2>3. \A s \in Requests : /\ req'[s].row = req[s].row /\ req'[s].op = req[s].op
                            /\ req'[s].actor = req[s].actor
                            /\ req'[s].pc = "find" => req[s].pc = "find"
    BY <2>1, <2>2 DEF TypeInv, TypeOK
  <2>4. ClaimsApart
    BY <2>2, OwnersApart DEF OwnerInv
  <2>5. \A g \in Guests, p \in RowId : Claims(g, p)' => Claims(g, p)
    BY <2>2, <2>3 DEF Claims, Seats
  <2>6. ClaimsApart'
    BY <2>4, <2>5 DEF ClaimsApart
  <2>7. \A s \in Requests : Actors(req'[s])
    BY <2>3 DEF OwnerInv, Actors
  <2> QED
    BY <2>2, <2>6, <2>7 DEF OwnerInv
<1>11. CASE WriteStatus(r)
  <2> DEFINE w == [q EXCEPT !.pc = "reply"]
  <2>1. /\ w \in Request /\ w.row = q.row /\ w.op = q.op /\ w.actor = q.actor
        /\ w.pc = "reply"
    BY <1>q DEF Request
  <2>2. /\ req' = [req EXCEPT ![r] = w] /\ UNCHANGED <<rows, held>>
        /\ meeting'.exists = meeting.exists
    BY <1>11 DEF WriteStatus, TypeInv, TypeOK
  <2> HIDE DEF w
  <2> QED
    BY <2>1, <2>2, SameRowOwner
<1>12. CASE Reply(r)
  <2>1. Idle.op = "none" /\ Idle.row = None /\ Idle.pc = "idle"
    BY DEF Idle
  <2>2. req' = [req EXCEPT ![r] = Idle] /\ UNCHANGED <<meeting, rows>>
    BY <1>12 DEF Reply
  <2>3. \A s \in Requests : req'[s] = IF s = r THEN Idle ELSE req[s]
    BY <2>2 DEF TypeInv, TypeOK
  <2>4. \A g \in Guests : held'[g] = IF g = q.actor /\ Seats(q) THEN held[g] \cup {q.row}
                                     ELSE held[g]
    BY <1>12, StaffApart DEF Reply, Seats, TypeInv, TypeOK
  <2>5. \A a \in People, p \in RowId : Claims(a, p)' => Claims(a, p)
    BY <2>1, <2>3, <2>4 DEF Claims, Seats
  <2>6. \A s \in Requests : Actors(req'[s]) /\ (meeting.exists => FoundOwn(req'[s]))
    BY <2>1, <2>3 DEF OwnerInv, OwnRows, Actors, FoundOwn
  <2>7. CASE meeting.exists
    <3>1. \A a \in People, p \in RowId : Claims(a, p)' => Owns(a, p)'
      BY <2>2, <2>5, <2>7 DEF OwnerInv, OwnRows, Owns, IsGuest
    <3>2. OwnRows'
      BY <2>2, <2>6, <2>7, <3>1 DEF OwnerInv, OwnRows, IsGuest
    <3> QED
      BY <2>2, <2>6, <2>7, <3>2 DEF OwnerInv
  <2>8. CASE ~meeting.exists
    <3>1. ClaimsApart'
      BY <2>5, <2>8, StaffApart DEF OwnerInv, ClaimsApart
    <3> QED
      BY <2>2, <2>6, <2>8, <3>1 DEF OwnerInv
  <2> QED
    BY <2>7, <2>8
<1> QED
  BY <1>1, <1>2, <1>3, <1>4, <1>5, <1>6, <1>7, <1>8, <1>9, <1>10, <1>11, <1>12
     DEF Proceed

(* The invariant of the two theorems below.                                *)
THEOREM OwnerInvCorrect == Spec => []OwnerInv
<1>1. Init => OwnerInv
  <2> SUFFICES ASSUME Init PROVE OwnerInv
    OBVIOUS
  <2>1. \A p \in RowId : /\ rows[p].role = IF p = HostRow THEN "host" ELSE "none"
                         /\ p = HostRow => rows[p].who = Host
    BY DEF Init, NewRow, NoRow
  <2>2. \A r \in Requests : req[r].row = None /\ req[r].op = "none" /\ req[r].pc = "idle"
    BY DEF Init, Idle
  <2>3. \A a \in People, p \in RowId : ~Claims(a, p)
    BY <2>2 DEF Init, Claims, Seats
  <2>4. \A r \in Requests : Actors(req[r]) /\ FoundOwn(req[r])
    BY <2>2 DEF Actors, FoundOwn
  <2> QED
    BY <2>1, <2>3, <2>4, TableAssumption DEF Init, OwnerInv, OwnRows, GoodRow
<1>2. TypeInv /\ ApprovalInv /\ OwnerInv /\ [Next]_vars => OwnerInv'
  <2> SUFFICES ASSUME TypeInv, ApprovalInv, OwnerInv, [Next]_vars PROVE OwnerInv'
    OBVIOUS
  <2>1. CASE UNCHANGED vars
    <3>1. (\A a \in People, p \in RowId : Claims(a, p)' <=> Claims(a, p))
      BY <2>1 DEF vars, Claims
    <3>2. (\A a \in People, p \in RowId : Owns(a, p)' <=> Owns(a, p))
      BY <2>1 DEF vars, Owns, IsGuest
    <3> QED
      BY <2>1, <3>1, <3>2, StaffApart DEF vars, OwnerInv, OwnRows, ClaimsApart, IsGuest
  <2>2. ASSUME NEW r \in Requests, Fail(r) PROVE OwnerInv'
    <3>1. Actors(Idle) /\ FoundOwn(Idle) /\ ~Seats(Idle)
      BY DEF Idle, Actors, FoundOwn, Seats
    <3> QED
      BY <2>2, <3>1, IdleIsRequest, MoveOnOwner DEF Fail
  <2> QED
    BY <2>1, <2>2, StartOwner, ProceedOwner DEF Next
<1> QED
  BY <1>1, <1>2, TypeInvCorrect, ApprovalInvCorrect, PTL DEF Spec

(* The host has one row as long as the meeting is there, the one created   *)
(* with it, however many joins of theirs look it up and write at once.     *)
THEOREM HostRowCorrect == Spec => []OneRowForTheHost
<1>1. OwnerInv => OneRowForTheHost
  BY TableAssumption DEF OwnerInv, OwnRows, OneRowForTheHost, HostRowsOf
<1> QED
  BY <1>1, OwnerInvCorrect, PTL

(* Guests of different circles, whatever names and e-mails they share with *)
(* others, are never given tokens for the same row, not even after the     *)
(* meeting was deleted under the handlers.                                 *)
THEOREM TokensCorrect == Spec => []RowsNotShared
<1>1. TypeInv /\ OwnerInv => RowsNotShared
  <2> SUFFICES ASSUME TypeInv, OwnerInv, NEW S \in Circles, NEW g \in S,
                      NEW h \in Guests \ S, NEW p \in held[g] \cap held[h]
               PROVE  FALSE
    BY DEF RowsNotShared
  <2>1. ClaimsApart /\ g \in Guests /\ p \in RowId
    BY OwnersApart, StaffApart DEF OwnerInv, TypeInv, TypeOK, Circles
  <2>2. Kin(g, h)
    BY <2>1 DEF ClaimsApart, Claims
  <2> QED
    BY <2>2 DEF Kin
<1> QED
  BY <1>1, TypeInvCorrect, OwnerInvCorrect, PTL

-----------------------------------------------------------------------------
(* One handler at a time: what a handler read is still so when it writes.  *)
(* A join has checked that the meeting is not over, a waiting request that *)
(* nobody closed the row, and an end has emptied the call before it says   *)
(* so.  If no query fails, a call that is not LIVE has just been joined,   *)
(* and what a leave has counted is still so.                               *)
Fresh(q) ==
  /\ q.pc \in {"countActive", "countWaiting"} => q.op = "leave"
  /\ Busy(q) => meeting.exists /\ q.status = meeting.status
  /\ Busy(q) /\ q.op \in {"join", "wait"} => q.status # "ENDED"
  /\ q.pc = "write" /\ q.op = "wait" /\ q.row # None => ~rows[q.row].left
  /\ q.pc = "status" /\ q.op = "end" => ActiveRows = {}

Opening(q) == q.op = "join" /\ q.pc = "status"

Counted(q) == q.op = "leave" /\ q.pc \in {"countWaiting", "status"}

Told(q) == q.op = "leave" /\ q.pc = "status"

LiveInv ==
  /\ meeting.exists /\ ActiveRows # {} =>
       meeting.status = "LIVE" \/ \E r \in Requests : Opening(req[r])
  /\ \A r \in Requests : Counted(req[r]) => req[r].occupied = (ActiveRows # {})
  /\ \A r \in Requests : Told(req[r]) => req[r].waiting = (WaitingRows # {})

SerialInv ==
  /\ \A r \in Requests : Fresh(req[r])
  /\ EndClosesRoom
  /\ ~CanFail => LiveInv

(* The steps of the one handler keep it, and an ended meeting ended.       *)
LEMMA SerialStep ==
  ASSUME NEW h, Requests = {h}, TypeInv, ApprovalInv, OwnerInv, SerialInv, [Next]_vars
  PROVE  /\ SerialInv'
         /\ meeting.status = "ENDED" => meeting'.status = "ENDED"
<1> DEFINE Goal == /\ SerialInv'
                   /\ meeting.status = "ENDED" => meeting'.status = "ENDED"
<1>t. /\ req \in [Requests -> Request] /\ req[h] \in Request
      /\ rows \in [RowId -> Row]
      /\ meeting \in [exists: BOOLEAN, status: Statuses, access: Modes]
  BY DEF TypeInv, TypeOK
<1>f. Fresh(req[h]) /\ EndClosesRoom /\ (~CanFail => LiveInv) /\ Actors(req[h])
  BY DEF SerialInv, OwnerInv
<1>i. Idle.op = "none" /\ Idle.pc = "idle"
  BY DEF Idle
(* The handler moves on and writes nothing.                                *)
<1>q. ASSUME UNCHANGED <<meeting, rows>>, Fresh(req'[h]),
             Opening(req[h]) => CanFail \/ ~meeting.exists,
             Counted(req'[h]) => CanFail \/ req'[h].occupied = (ActiveRows # {}),
             Told(req'[h]) => CanFail \/ req'[h].waiting = (WaitingRows # {})
      PROVE  Goal
  <2>1. ActiveRows' = ActiveRows /\ WaitingRows' = WaitingRows
    BY <1>q DEF ActiveRows, Active, WaitingRows, IsGuest
  <2>2. Fresh(req[h])'
    BY <1>q, <2>1 DEF Fresh, Busy
  <2>3. ASSUME ~CanFail PROVE LiveInv'
    BY <1>f, <1>q, <2>1, <2>3 DEF LiveInv, Counted, Told
  <2> QED
    BY <1>f, <1>q, <2>1, <2>2, <2>3 DEF SerialInv, EndClosesRoom
(* It writes a row: only a join opens one.                                 *)
<1>w. ASSUME NEW p \in RowId, NEW row \in Row, NEW next \in {"status", "reply", "countActive"},
             WriteRow(h, p, row, next), UNCHANGED meeting,
             row.joined /\ ~row.left => Active(p) \/ req[h].op = "join",
             req[h].op \in {"join", "wait", "admit"} => next = "status",
             next = "countActive" => req[h].op = "leave",
             req[h].op = "leave" => next = "countActive",
             req[h].op # "end"
      PROVE  Goal
  <2>1. /\ req[h].pc = "write" /\ meeting.exists
        /\ req'[h].pc = next /\ req'[h].op = req[h].op /\ req'[h].status = req[h].status
        /\ req'[h].row = p
    BY <1>w, <1>t DEF WriteRow, Request
  <2>2. \A s \in RowId : rows'[s] = IF s = p THEN row ELSE rows[s]
    BY <1>w, <1>t DEF WriteRow
  <2>3. \A s \in RowId : Active(s)' => Active(s) \/ req[h].op = "join"
    BY <1>w, <2>2 DEF Active
  <2>4. req[h].op # "join" /\ (ActiveRows # {})' => ActiveRows # {}
    BY <2>3 DEF ActiveRows
  <2>5. Fresh(req[h])'
    BY <1>w, <1>f, <2>1 DEF Fresh, Busy
  <2>6. EndClosesRoom'
    BY <1>w, <1>f, <2>1, <2>4 DEF Fresh, Busy, EndClosesRoom
  <2>7. ASSUME ~CanFail PROVE LiveInv'
    <3>1. ~Opening(req[h]) /\ ~Counted(req'[h]) /\ ~Told(req'[h])
      BY <1>w, <2>1 DEF Opening, Counted, Told
    <3>2. req[h].op = "join" => Opening(req'[h])
      BY <1>w, <2>1 DEF Opening
    <3> QED
      BY <1>f, <1>w, <2>4, <2>7, <3>1, <3>2 DEF LiveInv, Opening, Counted
  <2> QED
    BY <1>w, <2>2, <2>5, <2>6, <2>7 DEF SerialInv
<1>1. CASE UNCHANGED vars
  <2>1. UNCHANGED <<meeting, rows>> /\ req' = req
    BY <1>1 DEF vars
  <2>2. ActiveRows' = ActiveRows /\ WaitingRows' = WaitingRows
    BY <2>1 DEF ActiveRows, Active, WaitingRows, IsGuest
  <2> QED
    BY <1>f, <2>1, <2>2 DEF SerialInv, LiveInv, EndClosesRoom, Fresh, Busy, Opening, Counted, Told
<1>2. ASSUME Start(h) PROVE Goal
  <2>1. ASSUME NEW op \in AllOps, NEW a \in People, NEW pc \in {"find", "write"},
               NEW p \in RowId \cup {None}, NEW d \in BOOLEAN, Accept(h, op, a, pc, p, d),
               op \in {"join", "wait"} => meeting.status # "ENDED",
               op = "wait" /\ p # None => ~rows[p].left
        PROVE  Goal
    <3>1. /\ req[h].pc = "idle" /\ meeting.exists /\ UNCHANGED <<meeting, rows>>
          /\ req'[h].pc = pc /\ req'[h].op = op /\ req'[h].actor = a /\ req'[h].row = p
          /\ req'[h].status = meeting.status
      BY <2>1, <1>t DEF Accept, Idle
    <3>2. Fresh(req'[h])
      BY <2>1, <3>1 DEF Fresh
    <3>3. ~Opening(req[h]) /\ ~Counted(req'[h]) /\ ~Told(req'[h])
      BY <2>1, <3>1 DEF Opening, Counted, Told
    <3> QED
      BY <3>1, <3>2, <3>3, <1>q
  <2>d. Devices \subseteq BOOLEAN /\ Guests \subseteq People /\ Staff \subseteq People
        /\ Admins \subseteq People /\ Staff \cap Guests = {}
    BY ParameterAssumption, StaffApart DEF Staff
  <2>2. ASSUME NEW g \in Guests, NEW p \in RowId \cup {None}, NEW d \in Devices,
               JoinGuest(h, g, p, d)
        PROVE  Goal
    BY <2>1, <2>2, <2>d DEF JoinGuest, MayJoin, AllOps
  <2>3. ASSUME NEW a \in Staff, NEW d \in Devices, JoinStaff(h, a, d) PROVE Goal
    BY <2>1, <2>3, <2>d DEF JoinStaff, AllOps
  <2>4. ASSUME NEW g \in Guests, NEW d \in Devices, WaitRead(h, g, d) PROVE Goal
    BY <2>1, <2>4, <2>d DEF WaitRead, OwnRequests, AllOps
  <2>5. ASSUME NEW a \in Staff, NEW p \in RowId, AdmitRead(h, a, p) PROVE Goal
    BY <2>1, <2>5, <2>d DEF AdmitRead, AllOps
  <2>6. ASSUME NEW a \in People, NEW p \in RowId, LeaveRead(h, a, p) PROVE Goal
    BY <2>1, <2>6 DEF LeaveRead, AllOps
  <2>7. ASSUME NEW a \in Staff, EndRead(h, a) PROVE Goal
    BY <2>1, <2>7, <2>d DEF EndRead, AllOps
  <2>8. ASSUME NEW a \in People, NEW p \in RowId, NEW d \in Devices, MediaRead(h, a, p, d)
        PROVE  Goal
    BY <2>1, <2>8, <2>d DEF MediaRead, AllOps
  <2>9. ASSUME NEW a \in Admins, DeleteRead(h, a) PROVE Goal
    BY <2>1, <2>9, <2>d DEF DeleteRead, AllOps
  <2> QED
    BY <1>2, <2>2, <2>3, <2>4, <2>5, <2>6, <2>7, <2>8, <2>9 DEF Start
<1>3. ASSUME JoinFindHostRow(h) PROVE Goal
  <2>1. /\ req[h].pc = "find" /\ UNCHANGED <<meeting, rows>>
        /\ req'[h].pc = "write" /\ req'[h].op = req[h].op
        /\ req'[h].actor = req[h].actor /\ req'[h].status = req[h].status
    <3>1. ASSUME NEW p \in RowId \cup {None},
                 req' = [req EXCEPT ![h] = [req[h] EXCEPT !.pc = "write", !.row = p]]
          PROVE  /\ req'[h].pc = "write" /\ req'[h].op = req[h].op
                 /\ req'[h].actor = req[h].actor /\ req'[h].status = req[h].status
      BY <3>1, <1>t DEF Request
    <3>2. req' = [req EXCEPT ![h] = [req[h] EXCEPT !.pc = "write"]]
            => /\ req'[h].pc = "write" /\ req'[h].op = req[h].op
               /\ req'[h].actor = req[h].actor /\ req'[h].status = req[h].status
      BY <1>t DEF Request
    <3> QED
      BY <1>3, <3>1, <3>2 DEF JoinFindHostRow, HostRowsOf
  <2>2. req[h].op = "join"
    BY <1>f, <2>1 DEF Actors
  <2>3. Fresh(req'[h]) /\ ~Opening(req[h]) /\ ~Counted(req'[h]) /\ ~Told(req'[h])
    BY <1>f, <2>1, <2>2 DEF Fresh, Busy, Opening, Counted, Told
  <2> QED
    BY <2>1, <2>3, <1>q
<1>4. ASSUME JoinWrite(h) PROVE Goal
  <2>1. req[h].op = "join" /\ UNCHANGED meeting /\ req[h].actor \in People
    BY <1>4, <1>f DEF JoinWrite, Actors
  <2>2. CASE req[h].row # None
    <3>1. req[h].row \in RowId /\ JoinedRow(req[h], rows[req[h].row]) \in Row
      <4>1. req[h].row \in RowId /\ rows[req[h].row] \in Row /\ req[h].device \in BOOLEAN
        BY <2>2, <1>t DEF Request
      <4> QED
        BY <2>1, <4>1 DEF Row, JoinedRow
    <3>2. WriteRow(h, req[h].row, JoinedRow(req[h], rows[req[h].row]), "status")
      BY <1>4, <2>2 DEF JoinWrite
    <3> QED
      BY <1>w, <2>1, <3>1, <3>2
  <2>3. CASE req[h].row = None
    <3>1. PICK p \in FreeRows :
            WriteRow(h, p, NewRow(IF req[h].actor \in Guests THEN "guest" ELSE "host",
                                  req[h].actor, TRUE, req[h].device), "status")
      BY <1>4, <2>3 DEF JoinWrite
    <3>2. p \in RowId
      BY DEF FreeRows
    <3>3. NewRow(IF req[h].actor \in Guests THEN "guest" ELSE "host",
                 req[h].actor, TRUE, req[h].device) \in Row
      BY <2>1, <1>t, RowTypes DEF Request
    <3> QED
      BY <1>w, <2>1, <3>1, <3>2, <3>3
  <2> QED
    BY <2>2, <2>3
<1>5. ASSUME WaitWrite(h) PROVE Goal
  <2>1. req[h].op = "wait" /\ UNCHANGED meeting /\ req[h].actor \in People
    BY <1>5, <1>f, StaffApart DEF WaitWrite, Actors
  <2>2. CASE req[h].row # None
    <3>1. /\ req[h].row \in RowId /\ WaitingRow(req[h], rows[req[h].row]) \in Row
          /\ ~WaitingRow(req[h], rows[req[h].row]).joined
      <4>1. req[h].row \in RowId /\ rows[req[h].row] \in Row /\ req[h].device \in BOOLEAN
        BY <2>2, <1>t DEF Request
      <4> QED
        BY <2>1, <4>1 DEF Row, WaitingRow
    <3>2. WriteRow(h, req[h].row, WaitingRow(req[h], rows[req[h].row]), "status")
      BY <1>5, <2>2 DEF WaitWrite
    <3> QED
      BY <1>w, <2>1, <3>1, <3>2
  <2>3. CASE req[h].row = None
    <3>1. PICK p \in FreeRows :
            WriteRow(h, p, RequestedRow(req[h]), "status")
      BY <1>5, <2>3 DEF WaitWrite
    <3>2. p \in RowId
      BY DEF FreeRows
    <3>3. /\ RequestedRow(req[h]) \in Row
          /\ ~RequestedRow(req[h]).joined
      <4>1. req[h].device \in BOOLEAN
        BY <1>t DEF Request
      <4> QED
        BY <2>1, <4>1 DEF RequestedRow, WaitingRow, NewRow, Row
    <3> QED
      BY <1>w, <2>1, <3>1, <3>2, <3>3
  <2> QED
    BY <2>2, <2>3
<1>r. ASSUME req[h].op \in {"admit", "leave", "media"} PROVE req[h].row \in RowId
  BY <1>r DEF TypeInv, RowsKnown, NeedsRow
<1>6. ASSUME AdmitWrite(h) PROVE Goal
  <2>1. req[h].op = "admit" /\ UNCHANGED meeting /\ req[h].row \in RowId
    BY <1>6, <1>r DEF AdmitWrite
  <2>2. /\ [rows[req[h].row] EXCEPT !.admitted = TRUE] \in Row
        /\ [rows[req[h].row] EXCEPT !.admitted = TRUE].joined = rows[req[h].row].joined
        /\ [rows[req[h].row] EXCEPT !.admitted = TRUE].left = rows[req[h].row].left
    <3>1. rows[req[h].row] \in Row
      BY <2>1, <1>t
    <3> QED
      BY <3>1 DEF Row
  <2>3. WriteRow(h, req[h].row, [rows[req[h].row] EXCEPT !.admitted = TRUE], "status")
    BY <1>6 DEF AdmitWrite
  <2> QED
    BY <1>w, <2>1, <2>2, <2>3 DEF Active
<1>7. ASSUME LeaveWrite(h) PROVE Goal
  <2>1. req[h].op = "leave" /\ UNCHANGED meeting /\ req[h].row \in RowId
    BY <1>7, <1>r DEF LeaveWrite
  <2>2. /\ [rows[req[h].row] EXCEPT !.left = TRUE] \in Row
        /\ [rows[req[h].row] EXCEPT !.left = TRUE].left
    <3>1. rows[req[h].row] \in Row
      BY <2>1, <1>t
    <3> QED
      BY <3>1 DEF Row
  <2>3. WriteRow(h, req[h].row, [rows[req[h].row] EXCEPT !.left = TRUE], "countActive")
    BY <1>7 DEF LeaveWrite
  <2> QED
    BY <1>w, <2>1, <2>2, <2>3
<1>8. ASSUME MediaWrite(h) PROVE Goal
  <2> DEFINE row == [rows[req[h].row] EXCEPT !.device = req[h].device]
  <2>1. req[h].op = "media" /\ UNCHANGED meeting /\ req[h].row \in RowId
    BY <1>8, <1>r DEF MediaWrite
  <2>2. /\ row \in Row
        /\ row.joined = rows[req[h].row].joined /\ row.left = rows[req[h].row].left
    <3>1. rows[req[h].row] \in Row /\ req[h].device \in BOOLEAN
      BY <2>1, <1>t DEF Request
    <3> QED
      BY <3>1 DEF Row
  <2>3. WriteRow(h, req[h].row, row, "reply")
    BY <1>8 DEF MediaWrite
  <2> HIDE DEF row
  <2> QED
    BY <1>w, <2>1, <2>2, <2>3 DEF Active
<1>9. ASSUME LeaveCountActive(h) PROVE Goal
  <2>1. /\ req[h].pc = "countActive" /\ UNCHANGED <<meeting, rows>>
        /\ req'[h].pc = "countWaiting" /\ req'[h].op = req[h].op
        /\ req'[h].status = req[h].status /\ req'[h].occupied = (ActiveRows # {})
    BY <1>9, <1>t DEF LeaveCountActive, Request
  <2>2. Fresh(req'[h]) /\ ~Opening(req[h]) /\ ~Told(req'[h])
    BY <1>f, <2>1 DEF Fresh, Busy, Opening, Told
  <2> QED
    BY <2>1, <2>2, <1>q
<1>10. ASSUME LeaveCountWaiting(h) PROVE Goal
  <2>1. /\ req[h].pc = "countWaiting" /\ UNCHANGED <<meeting, rows>>
        /\ req'[h].pc = "status" /\ req'[h].op = req[h].op
        /\ req'[h].status = req[h].status /\ req'[h].occupied = req[h].occupied
        /\ req'[h].waiting = (WaitingRows # {})
    BY <1>10, <1>t DEF LeaveCountWaiting, Request
  <2>2. Fresh(req'[h]) /\ ~Opening(req[h]) /\ Counted(req[h])
    BY <1>f, <2>1 DEF Fresh, Busy, Opening, Counted
  <2> QED
    BY <1>f, <2>1, <2>2, <1>q DEF LiveInv
<1>11. ASSUME EndWrite(h) PROVE Goal
  <2>1. /\ req[h].op = "end" /\ req[h].pc = "write" /\ UNCHANGED meeting
        /\ req'[h].pc = "status" /\ req'[h].op = "end" /\ req'[h].status = req[h].status
        /\ \A p \in RowId : rows'[p] = EndedRow(rows[p])
    BY <1>11, <1>t DEF EndWrite, Request
  <2>2. \A p \in RowId : ~Active(p)'
    BY <2>1, <1>t DEF EndedRow, Active, Row
  <2>3. ActiveRows' = {}
    BY <2>2 DEF ActiveRows
  <2>4. Fresh(req[h])' /\ ~Counted(req'[h]) /\ ~Told(req'[h])
    BY <1>f, <2>1, <2>3 DEF Fresh, Busy, Counted, Told
  <2> QED
    BY <2>1, <2>3, <2>4 DEF SerialInv, LiveInv, EndClosesRoom
<1>12. ASSUME DeleteWrite(h) PROVE Goal
  <2>1. /\ req[h].op = "delete" /\ meeting'.exists = FALSE
        /\ meeting'.status = meeting.status
        /\ req'[h].pc = "reply" /\ \A p \in RowId : rows'[p] = NoRow
    BY <1>12, <1>t DEF DeleteWrite, Request
  <2>2. ActiveRows' = {}
    BY <2>1 DEF ActiveRows, Active, NoRow
  <2>3. Fresh(req[h])' /\ ~Counted(req'[h]) /\ ~Told(req'[h])
    BY <2>1 DEF Fresh, Busy, Counted, Told
  <2> QED
    BY <2>1, <2>2, <2>3 DEF SerialInv, LiveInv, EndClosesRoom
<1>13. ASSUME WriteStatus(h) PROVE Goal
  <2>1. /\ req[h].pc = "status" /\ meeting.exists /\ UNCHANGED rows
        /\ meeting'.status = NextStatus(req[h]) /\ req'[h].pc = "reply"
    BY <1>13, <1>t DEF WriteStatus, Request
  <2>2. ActiveRows' = ActiveRows
    BY <2>1 DEF ActiveRows, Active
  <2>3. req[h].status = meeting.status
    BY <1>f, <2>1 DEF Fresh, Busy
  <2>4. req[h].op = "join" => meeting.status # "ENDED"
    BY <1>f, <2>1, <2>3 DEF Fresh, Busy
  <2>5. meeting.status = "ENDED" => meeting'.status = "ENDED"
    BY <2>1, <2>3, <2>4 DEF NextStatus, StatusAfterLeave, Opened
  <2>6. meeting'.status = "ENDED" => meeting.status = "ENDED" \/ req[h].op = "end"
    BY <2>1, <2>3 DEF NextStatus, StatusAfterLeave, Opened
  <2>7. EndClosesRoom'
    BY <1>f, <2>1, <2>2, <2>6 DEF EndClosesRoom, Fresh
  <2>8. ASSUME ~CanFail, ActiveRows # {} PROVE meeting'.status = "LIVE"
    <3>1. req[h].op # "end" /\ meeting.status # "ENDED"
      BY <1>f, <2>1, <2>8 DEF EndClosesRoom, Fresh
    <3>2. req[h].op = "leave" => req[h].occupied
      BY <1>f, <2>1, <2>8 DEF LiveInv, Counted
    <3>3. req[h].op # "join" => meeting.status = "LIVE"
      BY <1>f, <2>1, <2>8 DEF LiveInv, Opening
    <3> QED
      BY <2>1, <2>3, <3>1, <3>2, <3>3 DEF NextStatus, StatusAfterLeave, Opened
  <2>9. Fresh(req[h])' /\ ~Counted(req'[h]) /\ ~Told(req'[h])
    BY <2>1 DEF Fresh, Busy, Counted, Told
  <2> QED
    BY <2>1, <2>2, <2>5, <2>7, <2>8, <2>9 DEF SerialInv, LiveInv
<1>e. ASSUME req' = [req EXCEPT ![h] = Idle]
      PROVE  Fresh(req'[h]) /\ ~Counted(req'[h]) /\ ~Told(req'[h])
  BY <1>e, <1>t, <1>i DEF Fresh, Busy, Counted, Told
<1>14. ASSUME Reply(h) PROVE Goal
  BY <1>14, <1>e, <1>q DEF Reply, Opening
<1>15. ASSUME Fail(h) PROVE Goal
  BY <1>15, <1>e, <1>q DEF Fail
<1> QED
  BY <1>1, <1>2, <1>3, <1>4, <1>5, <1>6, <1>7, <1>8, <1>9, <1>10, <1>11, <1>12,
     <1>13, <1>14, <1>15 DEF Next, Proceed

(* The invariant of the theorems below.                                    *)
LEMMA SerialInvCorrect == ASSUME NEW h, Requests = {h} PROVE Spec => []SerialInv
<1>1. Init => SerialInv
  <2> SUFFICES ASSUME Init PROVE SerialInv
    OBVIOUS
  <2>1. \A r \in Requests : req[r].pc = "idle"
    BY DEF Init, Idle
  <2>2. \A p \in RowId : ~rows[p].joined
    BY DEF Init, NewRow, NoRow
  <2>3. ActiveRows = {}
    BY <2>2 DEF ActiveRows, Active
  <2> QED
    BY <2>1, <2>3 DEF SerialInv, LiveInv, EndClosesRoom, Fresh, Busy, Counted, Told
<1>2. TypeInv /\ ApprovalInv /\ OwnerInv /\ SerialInv /\ [Next]_vars => SerialInv'
  BY SerialStep
<1> QED
  BY <1>1, <1>2, TypeInvCorrect, ApprovalInvCorrect, OwnerInvCorrect, PTL DEF Spec

(* With one handler at a time, failing ones included, nobody is in the     *)
(* call of a meeting that has ended.                                       *)
THEOREM EndCorrect == ASSUME NEW h, Requests = {h} PROVE Spec => []EndClosesRoom
BY SerialInvCorrect, PTL DEF SerialInv

(* With one handler at a time nothing reopens a meeting that has ended.    *)
THEOREM EndedCorrect == ASSUME NEW h, Requests = {h} PROVE Spec => EndedIsFinal
<1>1. TypeInv /\ ApprovalInv /\ OwnerInv /\ SerialInv /\ [Next]_vars
        => [meeting.status = "ENDED" => meeting'.status = "ENDED"]_vars
  BY SerialStep
<1> QED
  BY <1>1, TypeInvCorrect, ApprovalInvCorrect, OwnerInvCorrect, SerialInvCorrect, PTL
     DEF Spec, EndedIsFinal

(* With one handler at a time and no failing query, a meeting with someone *)
(* in the call is LIVE between handlers.                                   *)
THEOREM LiveCorrect == ASSUME NEW h, Requests = {h}, ~CanFail PROVE Spec => []OccupiedIsLive
<1>1. SerialInv => OccupiedIsLive
  BY DEF SerialInv, LiveInv, OccupiedIsLive, Settled, Opening
<1> QED
  BY <1>1, SerialInvCorrect, PTL
-----------------------------------------------------------------------------
(* What each write of a handler does to the rows, told by what the         *)
(* properties ask of a row: its role, whether it joined, whether it left.  *)
Writing(r, p, next) ==
  /\ req[r].pc = "write" /\ meeting.exists /\ UNCHANGED meeting
  /\ \A s \in Requests \ {r} : req'[s] = req[s]
  /\ req'[r].pc = next /\ req'[r].row = p
  /\ req'[r].op = req[r].op /\ req'[r].status = req[r].status
  /\ \A s \in RowId \ {p} : rows'[s] = rows[s]

SameRole(p) == rows'[p].role = rows[p].role

LEMMA WriteIs ==
  ASSUME TypeInv, NEW r \in Requests, NEW p \in RowId, NEW row \in Row,
         NEW next \in {"status", "reply", "countActive"},
         WriteRow(r, p, row, next), UNCHANGED meeting
  PROVE  Writing(r, p, next) /\ rows'[p] = row
<1> DEFINE q == [req[r] EXCEPT !.pc = next, !.row = p]
<1>1. /\ rows' = [rows EXCEPT ![p] = row] /\ req' = [req EXCEPT ![r] = q]
      /\ req[r].pc = "write" /\ meeting.exists
  BY DEF WriteRow
<1>2. q.pc = next /\ q.row = p /\ q.op = req[r].op /\ q.status = req[r].status
  BY DEF TypeInv, TypeOK, Request
<1> HIDE DEF q
<1> QED BY <1>1, <1>2 DEF Writing, TypeInv, TypeOK

(* The row of a join, found or inserted, is in the call.                   *)
LEMMA JoinIs ==
  ASSUME TypeInv, NEW r \in Requests, JoinWrite(r)
  PROVE  /\ req[r].op = "join"
         /\ \E p \in RowId : /\ Writing(r, p, "status")
                             /\ rows'[p].joined /\ ~rows'[p].left
                             /\ p = req[r].row \/ ~InUse(p)
<1>1. req[r].op = "join" /\ UNCHANGED meeting /\ req[r] \in Request
  BY DEF JoinWrite, TypeInv, TypeOK
<1>2. CASE req[r].row # None
  <2> DEFINE p == req[r].row
             row == JoinedRow(req[r], rows[p])
  <2>1. p \in RowId /\ rows[p] \in Row
    BY <1>1, <1>2 DEF Request, TypeInv, TypeOK
  <2>2. WriteRow(r, p, row, "status")
    BY <1>2 DEF JoinWrite
  <2>3. row \in Row /\ row.joined /\ ~row.left
    BY <1>1, <2>1 DEF JoinedRow, Row, Request
  <2> HIDE DEF row
  <2>4. Writing(r, p, "status") /\ rows'[p] = row
    BY <1>1, <2>1, <2>2, <2>3, WriteIs
  <2> QED BY <1>1, <2>1, <2>3, <2>4
<1>3. CASE req[r].row = None
  <2> DEFINE row == NewRow(IF req[r].actor \in Guests THEN "guest" ELSE "host",
                           req[r].actor, TRUE, req[r].device)
  <2>1. PICK p \in FreeRows : WriteRow(r, p, row, "status")
    BY <1>3 DEF JoinWrite
  <2>2. p \in RowId /\ ~InUse(p)
    BY DEF FreeRows, InUse
  <2>3. row \in Row /\ row.joined /\ ~row.left
    BY <1>1 DEF NewRow, Row, Request
  <2> HIDE DEF row
  <2>4. Writing(r, p, "status") /\ rows'[p] = row
    BY <1>1, <2>1, <2>2, <2>3, WriteIs
  <2> QED BY <1>1, <2>2, <2>3, <2>4
<1> QED BY <1>2, <1>3

(* That of a waiting request is not; a row that was closed stays closed.   *)
LEMMA WaitIs ==
  ASSUME TypeInv, NEW r \in Requests, WaitWrite(r)
  PROVE  /\ req[r].op = "wait"
         /\ \E p \in RowId :
              /\ Writing(r, p, "status")
              /\ ~rows'[p].joined
              /\ \/ p = req[r].row /\ SameRole(p) /\ rows'[p].left = rows[p].left
                 \/ ~InUse(p) /\ rows'[p].role = "guest" /\ ~rows'[p].left
<1>1. req[r].op = "wait" /\ UNCHANGED meeting /\ req[r] \in Request
  BY DEF WaitWrite, TypeInv, TypeOK
<1>2. CASE req[r].row # None
  <2> DEFINE p == req[r].row
             row == WaitingRow(req[r], rows[p])
  <2>1. p \in RowId /\ rows[p] \in Row
    BY <1>1, <1>2 DEF Request, TypeInv, TypeOK
  <2>2. WriteRow(r, p, row, "status")
    BY <1>2 DEF WaitWrite
  <2>3. row \in Row /\ ~row.joined /\ row.left = rows[p].left /\ row.role = rows[p].role
    BY <1>1, <2>1 DEF WaitingRow, Row, Request
  <2> HIDE DEF row
  <2>4. Writing(r, p, "status") /\ rows'[p] = row
    BY <1>1, <2>1, <2>2, <2>3, WriteIs
  <2> QED BY <1>1, <2>1, <2>3, <2>4 DEF SameRole
<1>3. CASE req[r].row = None
  <2> DEFINE row == RequestedRow(req[r])
  <2>1. PICK p \in FreeRows : WriteRow(r, p, row, "status")
    BY <1>3 DEF WaitWrite
  <2>2. p \in RowId /\ ~InUse(p)
    BY DEF FreeRows, InUse
  <2>3. row \in Row /\ ~row.joined /\ ~row.left /\ row.role = "guest"
    BY <1>1 DEF RequestedRow, WaitingRow, NewRow, Row, Request
  <2> HIDE DEF row
  <2>4. Writing(r, p, "status") /\ rows'[p] = row
    BY <1>1, <2>1, <2>2, <2>3, WriteIs
  <2> QED BY <1>1, <2>2, <2>3, <2>4
<1> QED BY <1>2, <1>3

(* The rows the other handlers were asked about keep their role; only a    *)
(* leave closes one.                                                       *)
LEMMA AskedRow ==
  ASSUME TypeInv, NEW r \in Requests, req[r].op \in {"admit", "leave", "media"}
  PROVE  req[r].row \in RowId /\ rows[req[r].row] \in Row /\ req[r] \in Request
  BY DEF TypeInv, TypeOK, RowsKnown, NeedsRow

LEMMA OthersAre ==
  ASSUME TypeInv, NEW r \in Requests, AdmitWrite(r) \/ MediaWrite(r) \/ LeaveWrite(r)
  PROVE  \E p \in RowId, next \in {"status", "reply", "countActive"} :
           /\ Writing(r, p, next) /\ SameRole(p)
           /\ rows'[p].joined = rows[p].joined
           /\ \/ req[r].op = "admit" /\ next = "status" /\ rows'[p].left = rows[p].left
              \/ req[r].op = "media" /\ next = "reply" /\ rows'[p].left = rows[p].left
              \/ req[r].op = "leave" /\ next = "countActive" /\ rows'[p].left
<1> DEFINE p == req[r].row
<1>1. ASSUME AdmitWrite(r)
      PROVE  /\ Writing(r, p, "status") /\ SameRole(p) /\ p \in RowId /\ req[r].op = "admit"
             /\ rows'[p].joined = rows[p].joined /\ rows'[p].left = rows[p].left
  <2> DEFINE row == [rows[p] EXCEPT !.admitted = TRUE]
  <2>1. req[r].op = "admit" /\ UNCHANGED meeting /\ WriteRow(r, p, row, "status")
    BY <1>1 DEF AdmitWrite
  <2>2. p \in RowId /\ rows[p] \in Row
    BY <2>1, AskedRow
  <2>3. row \in Row /\ row.role = rows[p].role /\ row.joined = rows[p].joined
        /\ row.left = rows[p].left
    BY <2>2 DEF Row
  <2> HIDE DEF row, p
  <2>4. Writing(r, p, "status") /\ rows'[p] = row
    BY <2>1, <2>2, <2>3, WriteIs
  <2> QED BY <2>1, <2>2, <2>3, <2>4 DEF SameRole
<1>2. ASSUME MediaWrite(r)
      PROVE  /\ Writing(r, p, "reply") /\ SameRole(p) /\ p \in RowId /\ req[r].op = "media"
             /\ rows'[p].joined = rows[p].joined /\ rows'[p].left = rows[p].left
  <2> DEFINE row == [rows[p] EXCEPT !.device = req[r].device]
  <2>1. req[r].op = "media" /\ UNCHANGED meeting /\ WriteRow(r, p, row, "reply")
    BY <1>2 DEF MediaWrite
  <2>2. p \in RowId /\ rows[p] \in Row /\ req[r].device \in BOOLEAN
    BY <2>1, AskedRow DEF Request
  <2>3. row \in Row /\ row.role = rows[p].role /\ row.joined = rows[p].joined
        /\ row.left = rows[p].left
    BY <2>2 DEF Row
  <2> HIDE DEF row, p
  <2>4. Writing(r, p, "reply") /\ rows'[p] = row
    BY <2>1, <2>2, <2>3, WriteIs
  <2> QED BY <2>1, <2>2, <2>3, <2>4 DEF SameRole
<1>3. ASSUME LeaveWrite(r)
      PROVE  /\ Writing(r, p, "countActive") /\ SameRole(p) /\ p \in RowId
             /\ req[r].op = "leave"
             /\ rows'[p].joined = rows[p].joined /\ rows'[p].left
  <2> DEFINE row == [rows[p] EXCEPT !.left = TRUE]
  <2>1. req[r].op = "leave" /\ UNCHANGED meeting /\ WriteRow(r, p, row, "countActive")
    BY <1>3 DEF LeaveWrite
  <2>2. p \in RowId /\ rows[p] \in Row
    BY <2>1, AskedRow
  <2>3. row \in Row /\ row.role = rows[p].role /\ row.joined = rows[p].joined /\ row.left
    BY <2>2 DEF Row
  <2> HIDE DEF row, p
  <2>4. Writing(r, p, "countActive") /\ rows'[p] = row
    BY <2>1, <2>2, <2>3, WriteIs
  <2> QED BY <2>1, <2>2, <2>3, <2>4 DEF SameRole
<1> HIDE DEF p
<1> QED BY <1>1, <1>2, <1>3
(* What starting a handler and moving it on do.                            *)
Reading(r) ==
  /\ UNCHANGED rows
  /\ \A s \in Requests \ {r} : req'[s] = req[s]

LEMMA StartIs ==
  ASSUME TypeInv, NEW r \in Requests, Start(r)
  PROVE  /\ Reading(r) /\ req[r].pc = "idle" /\ meeting.exists /\ UNCHANGED meeting
         /\ req'[r].pc \in {"find", "write"} /\ req'[r].status = meeting.status
         /\ req'[r].pc = "find" => req'[r].op = "join" /\ req'[r].row = None
         /\ req'[r].op \in {"join", "wait"} => meeting.status # "ENDED"
         /\ req'[r].op \in {"join", "wait"} /\ req'[r].pc = "write" =>
              req'[r].row = None \/ (req'[r].row \in RowId /\ ~rows[req'[r].row].left)
<1> DEFINE Goal == /\ Reading(r) /\ req[r].pc = "idle" /\ meeting.exists /\ UNCHANGED meeting
                   /\ req'[r].pc \in {"find", "write"} /\ req'[r].status = meeting.status
                   /\ req'[r].pc = "find" => req'[r].op = "join" /\ req'[r].row = None
                   /\ req'[r].op \in {"join", "wait"} => meeting.status # "ENDED"
                   /\ req'[r].op \in {"join", "wait"} /\ req'[r].pc = "write" =>
                        \/ req'[r].row = None
                        \/ req'[r].row \in RowId /\ ~rows[req'[r].row].left
<1>1. ASSUME NEW op, NEW a, NEW pc \in {"find", "write"}, NEW p, NEW d, Accept(r, op, a, pc, p, d),
             pc = "find" => op = "join" /\ p = None,
             op \in {"join", "wait"} => meeting.status # "ENDED",
             op \in {"join", "wait"} /\ pc = "write" => p = None \/ (p \in RowId /\ ~rows[p].left)
      PROVE  Goal
  <2> DEFINE q == [Idle EXCEPT !.pc = pc, !.op = op, !.actor = a, !.row = p, !.device = d,
                               !.status = meeting.status]
  <2>1. req' = [req EXCEPT ![r] = q] /\ UNCHANGED <<meeting, rows>>
        /\ req[r].pc = "idle" /\ meeting.exists
    BY <1>1 DEF Accept
  <2>2. q.pc = pc /\ q.op = op /\ q.row = p /\ q.status = meeting.status
    BY DEF Idle
  <2> HIDE DEF q
  <2>3. req'[r] = q /\ \A s \in Requests \ {r} : req'[s] = req[s]
    BY <2>1 DEF TypeInv, TypeOK
  <2> QED BY <1>1, <2>1, <2>2, <2>3 DEF Reading
<1>2. ASSUME NEW g \in Guests, NEW p \in RowId \cup {None}, NEW d \in Devices,
             JoinGuest(r, g, p, d)
      PROVE  Goal
  BY <1>1, <1>2 DEF JoinGuest, MayJoin
<1>3. ASSUME NEW a \in Staff, NEW d \in Devices, JoinStaff(r, a, d) PROVE Goal
  BY <1>1, <1>3 DEF JoinStaff
<1>4. ASSUME NEW g \in Guests, NEW d \in Devices, WaitRead(r, g, d) PROVE Goal
  BY <1>1, <1>4 DEF WaitRead, OwnRequests
<1>5. ASSUME NEW a \in Staff, NEW p \in RowId, AdmitRead(r, a, p) PROVE Goal
  BY <1>1, <1>5 DEF AdmitRead
<1>6. ASSUME NEW a \in People, NEW p \in RowId, LeaveRead(r, a, p) PROVE Goal
  BY <1>1, <1>6 DEF LeaveRead
<1>7. ASSUME NEW a \in Staff, EndRead(r, a) PROVE Goal
  BY <1>1, <1>7 DEF EndRead
<1>8. ASSUME NEW a \in People, NEW p \in RowId, NEW d \in Devices, MediaRead(r, a, p, d)
      PROVE  Goal
  BY <1>1, <1>8 DEF MediaRead
<1>9. ASSUME NEW a \in Admins, DeleteRead(r, a) PROVE Goal
  BY <1>1, <1>9 DEF DeleteRead
<1> HIDE DEF Goal
<1>10. Goal
  BY <1>2, <1>3, <1>4, <1>5, <1>6, <1>7, <1>8, <1>9 DEF Start
<1> QED BY <1>10 DEF Goal

LEMMA MoveIs ==
  ASSUME TypeInv, NEW r \in Requests
  PROVE  /\ JoinFindHostRow(r) =>
              /\ Reading(r) /\ UNCHANGED meeting
              /\ req[r].pc = "find" /\ req'[r].pc = "write"
              /\ req'[r].op = req[r].op /\ req'[r].status = req[r].status
              /\ req'[r].row = req[r].row \/ (req'[r].row \in RowId /\ ~IsGuest(req'[r].row))
         /\ LeaveCountActive(r) =>
              /\ Reading(r) /\ UNCHANGED meeting
              /\ req[r].pc = "countActive" /\ req'[r].pc = "countWaiting"
              /\ req'[r].op = req[r].op /\ req'[r].status = req[r].status
         /\ LeaveCountWaiting(r) =>
              /\ Reading(r) /\ UNCHANGED meeting
              /\ req[r].pc = "countWaiting" /\ req'[r].pc = "status"
              /\ req'[r].op = req[r].op /\ req'[r].status = req[r].status
         /\ WriteStatus(r) =>
              /\ Reading(r) /\ req[r].pc = "status" /\ req'[r].pc = "reply"
              /\ req'[r].op = req[r].op
              /\ meeting.exists /\ meeting'.exists /\ meeting'.status = NextStatus(req[r])
         /\ Reply(r) => Reading(r) /\ UNCHANGED meeting /\ req[r].pc = "reply" /\ req'[r] = Idle
         /\ Fail(r) => Reading(r) /\ UNCHANGED meeting /\ req[r].pc # "idle" /\ req'[r] = Idle
<1>t. req \in [Requests -> Request] /\ req[r] \in Request
      /\ meeting \in [exists: BOOLEAN, status: Statuses, access: Modes]
  BY DEF TypeInv, TypeOK
<1>1. ASSUME JoinFindHostRow(r)
      PROVE  /\ Reading(r) /\ UNCHANGED meeting
             /\ req[r].pc = "find" /\ req'[r].pc = "write"
             /\ req'[r].op = req[r].op /\ req'[r].status = req[r].status
             /\ req'[r].row = req[r].row \/ (req'[r].row \in RowId /\ ~IsGuest(req'[r].row))
  <2>1. req[r].pc = "find" /\ UNCHANGED <<meeting, rows>>
    BY <1>1 DEF JoinFindHostRow
  <2>2. CASE HostRowsOf(req[r].actor) = {}
    <3>1. req' = [req EXCEPT ![r] = [req[r] EXCEPT !.pc = "write"]]
      BY <1>1, <2>2 DEF JoinFindHostRow
    <3> QED BY <1>t, <2>1, <3>1 DEF Reading, Request
  <2>3. CASE HostRowsOf(req[r].actor) # {}
    <3>1. PICK p \in HostRowsOf(req[r].actor) :
            req' = [req EXCEPT ![r] = [req[r] EXCEPT !.pc = "write", !.row = p]]
      BY <1>1, <2>3 DEF JoinFindHostRow
    <3>2. p \in RowId /\ ~IsGuest(p)
      BY DEF HostRowsOf, IsGuest
    <3> QED BY <1>t, <2>1, <3>1, <3>2 DEF Reading, Request
  <2> QED BY <2>2, <2>3
<1>2. ASSUME LeaveCountActive(r)
      PROVE  /\ Reading(r) /\ UNCHANGED meeting
             /\ req[r].pc = "countActive" /\ req'[r].pc = "countWaiting"
             /\ req'[r].op = req[r].op /\ req'[r].status = req[r].status
  BY <1>t, <1>2 DEF LeaveCountActive, Reading, Request
<1>3. ASSUME LeaveCountWaiting(r)
      PROVE  /\ Reading(r) /\ UNCHANGED meeting
             /\ req[r].pc = "countWaiting" /\ req'[r].pc = "status"
             /\ req'[r].op = req[r].op /\ req'[r].status = req[r].status
  BY <1>t, <1>3 DEF LeaveCountWaiting, Reading, Request
<1>4. ASSUME WriteStatus(r)
      PROVE  /\ Reading(r) /\ req[r].pc = "status" /\ req'[r].pc = "reply"
             /\ req'[r].op = req[r].op
             /\ meeting.exists /\ meeting'.exists /\ meeting'.status = NextStatus(req[r])
  BY <1>t, <1>4 DEF WriteStatus, Reading, Request
<1>5. Reply(r) => Reading(r) /\ UNCHANGED meeting /\ req[r].pc = "reply" /\ req'[r] = Idle
  BY <1>t DEF Reply, Reading
<1>6. Fail(r) => Reading(r) /\ UNCHANGED meeting /\ req[r].pc # "idle" /\ req'[r] = Idle
  BY <1>t DEF Fail, Reading
<1> QED BY <1>1, <1>2, <1>3, <1>4, <1>5, <1>6

(* The two handlers that write every row.                                  *)
LEMMA AllRowsAre ==
  ASSUME TypeInv, NEW r \in Requests
  PROVE  /\ EndWrite(r) =>
              /\ req[r].pc = "write" /\ req[r].op = "end"
              /\ req'[r].pc = "status" /\ req'[r].op = "end" /\ req'[r].status = req[r].status
              /\ \A s \in Requests \ {r} : req'[s] = req[s]
              /\ meeting.exists /\ UNCHANGED meeting
              /\ \A p \in RowId : /\ SameRole(p) /\ rows'[p].joined = rows[p].joined
                                  /\ rows'[p].left = (rows[p].left \/ rows[p].joined)
         /\ DeleteWrite(r) =>
              /\ req[r].pc = "write" /\ req'[r].pc = "reply" /\ req[r].op = "delete"
              /\ req'[r].op = "delete"
              /\ \A s \in Requests \ {r} : req'[s] = req[s]
              /\ meeting.exists /\ ~meeting'.exists /\ meeting'.status = meeting.status
              /\ \A p \in RowId : rows'[p] = NoRow
<1>t. req \in [Requests -> Request] /\ req[r] \in Request
      /\ rows \in [RowId -> Row]
      /\ meeting \in [exists: BOOLEAN, status: Statuses, access: Modes]
  BY DEF TypeInv, TypeOK
<1>1. ASSUME EndWrite(r)
      PROVE  /\ req[r].pc = "write" /\ req[r].op = "end"
             /\ req'[r].pc = "status" /\ req'[r].op = "end" /\ req'[r].status = req[r].status
             /\ \A s \in Requests \ {r} : req'[s] = req[s]
             /\ meeting.exists /\ UNCHANGED meeting
             /\ \A p \in RowId : /\ SameRole(p) /\ rows'[p].joined = rows[p].joined
                                 /\ rows'[p].left = (rows[p].left \/ rows[p].joined)
  <2>1. \A p \in RowId : rows'[p] = EndedRow(rows[p]) /\ rows[p] \in Row
    BY <1>t, <1>1 DEF EndWrite
  <2>2. \A p \in RowId : /\ SameRole(p) /\ rows'[p].joined = rows[p].joined
                         /\ rows'[p].left = (rows[p].left \/ rows[p].joined)
    BY <2>1 DEF EndedRow, Row, SameRole
  <2> QED BY <1>t, <1>1, <2>2 DEF EndWrite, Request
<1>2. ASSUME DeleteWrite(r)
      PROVE  /\ req[r].pc = "write" /\ req'[r].pc = "reply" /\ req[r].op = "delete"
             /\ req'[r].op = "delete"
             /\ \A s \in Requests \ {r} : req'[s] = req[s]
             /\ meeting.exists /\ ~meeting'.exists /\ meeting'.status = meeting.status
             /\ \A p \in RowId : rows'[p] = NoRow
  BY <1>t, <1>2 DEF DeleteWrite, Request
<1> QED BY <1>1, <1>2
-----------------------------------------------------------------------------
(* After the end, any number of handlers.  A handler knows what it read: a *)
(* join or a waiting request read a meeting that had not ended.            *)
SnapInv ==
  \A r \in Requests :
    /\ Busy(req[r]) /\ req[r].op \in {"join", "wait"} => req[r].status # "ENDED"
    /\ req[r].pc = "status" => req[r].op \in {"join", "wait", "admit", "leave", "end"}
    /\ req[r].pc \in {"countActive", "countWaiting"} => req[r].op = "leave"
    /\ req[r].pc = "find" => req[r].op = "join" /\ req[r].row = None

LEMMA SnapStep ==
  ASSUME TypeInv, SnapInv, [Next]_vars
  PROVE  /\ SnapInv'
         /\ Over => Over' /\ ActiveRows' \subseteq ActiveRows
         /\ \A p \in RowId : Closed(p) /\ meeting'.exists => Closed(p)'
<1> DEFINE Goal == /\ SnapInv'
                   /\ Over => Over' /\ ActiveRows' \subseteq ActiveRows
                   /\ \A p \in RowId : Closed(p) /\ meeting'.exists => Closed(p)'
<1> USE DEF SnapInv
<1>i. Idle.pc = "idle"
  BY DEF Idle
(* A step that writes no row.                                              *)
<1>1. ASSUME NEW r \in Requests, Reading(r),
             Over => meeting'.status = "ENDED" /\ ~MayReopen(req'[r]),
             /\ Busy(req'[r]) /\ req'[r].op \in {"join", "wait"} => req'[r].status # "ENDED"
             /\ req'[r].pc = "status" => req'[r].op \in {"join", "wait", "admit", "leave", "end"}
             /\ req'[r].pc \in {"countActive", "countWaiting"} => req'[r].op = "leave"
             /\ req'[r].pc = "find" => req'[r].op = "join" /\ req'[r].row = None,
             req'[r].op = "join" /\ req'[r].pc = "write" =>
               req'[r].row = None
                 \/ (req'[r].row \in RowId /\ (IsGuest(req'[r].row) => ~rows[req'[r].row].left))
      PROVE  Goal
  <2>1. ActiveRows' = ActiveRows
    BY <1>1 DEF Reading, ActiveRows, Active
  <2>2. SnapInv' /\ (Over => Over')
    BY <1>1 DEF Reading, Over
  <2>3. ASSUME NEW p \in RowId, Closed(p) PROVE Closed(p)'
    BY <1>1, <2>3, TableAssumption DEF Reading, Closed, IsGuest
  <2> QED BY <2>1, <2>2, <2>3
(* A write of one row, or of all of them.                                  *)
<1>2. ASSUME NEW r \in Requests, Busy(req[r]), req'[r].pc \in {"status", "reply", "countActive"},
             req'[r].op = req[r].op, req'[r].status = req[r].status,
             \A s \in Requests \ {r} : req'[s] = req[s],
             req'[r].pc = "status" => req[r].op \in {"join", "wait", "admit", "leave", "end"},
             req'[r].pc = "countActive" => req[r].op = "leave",
             meeting'.status = meeting.status,
             \A p \in RowId : Active(p)' => Active(p) \/ req[r].op = "join",
             \A p \in RowId : Closed(p) /\ meeting'.exists => IsGuest(p)' /\ rows'[p].left
      PROVE  Goal
  <2>1. SnapInv'
    BY <1>2 DEF Busy
  <2>2. MayReopen(req'[r]) => MayReopen(req[r])
    BY <1>2 DEF MayReopen
  <2>3. Over => Over'
    BY <1>2, <2>2 DEF Over
  <2>4. Over => req[r].op # "join"
    BY <1>2 DEF Over, MayReopen
  <2>5. Over => ActiveRows' \subseteq ActiveRows
    BY <1>2, <2>4 DEF ActiveRows
  <2>6. ASSUME NEW p \in RowId, Closed(p), meeting'.exists PROVE Closed(p)'
    BY <1>2, <2>6 DEF Closed
  <2> QED BY <2>1, <2>3, <2>5, <2>6
<1>3. CASE UNCHANGED vars
  <2>1. UNCHANGED <<meeting, rows, req>>
    BY <1>3 DEF vars
  <2> QED BY <2>1 DEF Over, ActiveRows, Active, Closed, IsGuest
<1>4. ASSUME NEW r \in Requests, Start(r) PROVE Goal
  <2>1. Over => ~MayReopen(req'[r])
    BY <1>4, StartIs DEF Over, MayReopen
  <2> QED BY <1>1, <1>4, <2>1, StartIs DEF Over
<1>5. ASSUME NEW r \in Requests, JoinFindHostRow(r) PROVE Goal
  <2>1. Busy(req[r]) /\ req[r].op = "join" /\ req[r].row = None
    BY <1>5, MoveIs DEF Busy
  <2>2. Over => ~MayReopen(req'[r])
    BY <1>5, <2>1, MoveIs DEF Over, MayReopen
  <2> QED BY <1>1, <1>5, <2>1, <2>2, MoveIs DEF Over
<1>6. ASSUME NEW r \in Requests, LeaveCountActive(r) \/ LeaveCountWaiting(r) PROVE Goal
  <2>1. Busy(req[r]) /\ req[r].op = "leave"
    BY <1>6, MoveIs DEF Busy
  <2>2. Over => ~MayReopen(req'[r])
    BY <1>6, <2>1, MoveIs DEF Over, MayReopen
  <2> QED BY <1>1, <1>6, <2>1, <2>2, MoveIs DEF Over
<1>7. ASSUME NEW r \in Requests, WriteStatus(r) PROVE Goal
  <2>1. Busy(req[r]) /\ ~Busy(req'[r])
    BY <1>7, MoveIs DEF Busy
  <2>2. Over => NextStatus(req[r]) = "ENDED"
    <3>1. CASE req[r].op = "end" BY <3>1 DEF NextStatus
    <3>2. CASE req[r].op = "leave" /\ req[r].status = "ENDED"
      BY <3>2 DEF NextStatus, StatusAfterLeave
    <3>3. CASE req[r].op = "admit" /\ req[r].status = "ENDED"
      BY <3>3 DEF NextStatus, Opened
    <3>4. CASE MayReopen(req[r]) BY <3>4 DEF Over
    <3> QED BY <1>7, <2>1, <3>1, <3>2, <3>3, <3>4, MoveIs DEF MayReopen
  <2> QED BY <1>1, <1>7, <2>1, <2>2, MoveIs DEF MayReopen
<1>8. ASSUME NEW r \in Requests, Reply(r) \/ Fail(r) PROVE Goal
  <2>1. ~Busy(req'[r]) /\ req'[r].pc = "idle"
    BY <1>8, <1>i, MoveIs DEF Busy
  <2> QED BY <1>1, <1>8, <2>1, MoveIs DEF MayReopen, Over
<1>9. ASSUME NEW r \in Requests, JoinWrite(r) PROVE Goal
  <2>1. PICK p \in RowId : Writing(r, p, "status") /\ (p = req[r].row \/ ~InUse(p))
    BY <1>9, JoinIs
  <2>2. req[r].op = "join" /\ Busy(req[r]) /\ req[r].pc = "write"
    BY <1>9, <2>1, JoinIs DEF Writing, Busy
  <2>3. ~Closed(p)
    BY <2>1, <2>2 DEF Closed, InUse, IsGuest
  <2>4. \A s \in RowId : Closed(s) => IsGuest(s)' /\ rows'[s].left
    BY <2>1, <2>3 DEF Writing, Closed, IsGuest
  <2> QED BY <1>2, <2>1, <2>2, <2>4 DEF Writing
<1>10. ASSUME NEW r \in Requests, WaitWrite(r) PROVE Goal
  <2>1. PICK p \in RowId : /\ Writing(r, p, "status") /\ ~rows'[p].joined
                           /\ \/ SameRole(p) /\ rows'[p].left = rows[p].left
                              \/ ~InUse(p)
    BY <1>10, WaitIs
  <2>2. req[r].op = "wait" /\ Busy(req[r])
    BY <1>10, <2>1, WaitIs DEF Writing, Busy
  <2>3. \A s \in RowId : Closed(s) => IsGuest(s)' /\ rows'[s].left
    BY <2>1 DEF Writing, SameRole, Closed, IsGuest, InUse
  <2>4. \A s \in RowId : Active(s)' => Active(s)
    BY <2>1 DEF Writing, Active
  <2> QED BY <1>2, <2>1, <2>2, <2>3, <2>4 DEF Writing
<1>11. ASSUME NEW r \in Requests, AdmitWrite(r) \/ MediaWrite(r) \/ LeaveWrite(r) PROVE Goal
  <2>1. PICK p \in RowId, next \in {"status", "reply", "countActive"} :
           /\ Writing(r, p, next) /\ SameRole(p)
           /\ rows'[p].joined = rows[p].joined
           /\ \/ req[r].op = "admit" /\ next = "status" /\ rows'[p].left = rows[p].left
              \/ req[r].op = "media" /\ next = "reply" /\ rows'[p].left = rows[p].left
              \/ req[r].op = "leave" /\ next = "countActive" /\ rows'[p].left
    BY <1>11, OthersAre
  <2>2. Busy(req[r])
    BY <2>1 DEF Writing, Busy
  <2>3. \A s \in RowId : Closed(s) => IsGuest(s)' /\ rows'[s].left
    BY <2>1 DEF Writing, SameRole, Closed, IsGuest
  <2>4. \A s \in RowId : Active(s)' => Active(s)
    BY <2>1 DEF Writing, Active
  <2> QED BY <1>2, <2>1, <2>2, <2>3, <2>4 DEF Writing
<1>12. ASSUME NEW r \in Requests, EndWrite(r) PROVE Goal
  <2>1. Busy(req[r]) /\ req[r].op = "end"
    BY <1>12, AllRowsAre DEF Busy
  <2>2. \A s \in RowId : Closed(s) => IsGuest(s)' /\ rows'[s].left
    BY <1>12, AllRowsAre DEF SameRole, Closed, IsGuest
  <2>3. \A s \in RowId : Active(s)' => Active(s)
    BY <1>12, AllRowsAre DEF Active
  <2> QED BY <1>2, <1>12, <2>1, <2>2, <2>3, AllRowsAre
<1>13. ASSUME NEW r \in Requests, DeleteWrite(r) PROVE Goal
  <2>1. Busy(req[r]) /\ req[r].op = "delete" /\ ~meeting'.exists
    BY <1>13, AllRowsAre DEF Busy
  <2>2. \A s \in RowId : ~Active(s)'
    BY <1>13, AllRowsAre DEF Active, NoRow
  <2>3. req'[r].status = req[r].status
    BY <1>13 DEF DeleteWrite, TypeInv, TypeOK, Request
  <2> QED BY <1>2, <1>13, <2>1, <2>2, <2>3, AllRowsAre
<1> QED BY <1>3, <1>4, <1>5, <1>6, <1>7, <1>8, <1>9, <1>10, <1>11, <1>12, <1>13
        DEF Next, Proceed

LEMMA SnapInvCorrect == Spec => []SnapInv
<1>1. Init => SnapInv
  BY DEF Init, SnapInv, Idle, Busy
<1>2. TypeInv /\ SnapInv /\ [Next]_vars => SnapInv'
  BY SnapStep
<1> QED BY <1>1, <1>2, TypeInvCorrect, PTL DEF Spec

(* However many handlers overlap, and whichever fail: once those that read *)
(* the meeting before its end are done, it has ended for good.             *)
THEOREM EndSettled == Spec => EndSettles
<1>1. TypeInv /\ SnapInv /\ [Next]_vars => [Over => Over' /\ ActiveRows' \subseteq ActiveRows]_vars
  BY SnapStep
<1> QED BY <1>1, TypeInvCorrect, SnapInvCorrect, PTL DEF Spec, EndSettles

(* And a guest's row that was closed is opened by no handler but a join    *)
(* that found it open.                                                     *)
THEOREM ClosedCorrect == Spec => ClosedStaysOut
<1>1. TypeInv /\ SnapInv /\ [Next]_vars
        => [\A p \in RowId : Closed(p) /\ meeting'.exists => Closed(p)']_vars
  BY SnapStep
<1> QED BY <1>1, TypeInvCorrect, SnapInvCorrect, PTL DEF Spec, ClosedStaysOut
-----------------------------------------------------------------------------
(* The life of a meeting, with one handler at a time and no failing query. *)
Stands(h) ==
  IF ~meeting.exists THEN "DELETED"
  ELSE IF req[h].pc \in {"countActive", "countWaiting", "status"} THEN PhaseAfter(req[h])
  ELSE meeting.status

LEMMA PhaseIs ==
  ASSUME NEW h, Requests = {h}
  PROVE  Phase = Stands(h) /\ Phase' = Stands(h)'
<1>1. \A S \in SUBSET {h} : S # {} => (CHOOSE r \in S : TRUE) = h
  OBVIOUS
<1>2. Written \in SUBSET {h} /\ (Written # {} <=> req[h].pc \in {"countActive", "countWaiting", "status"})
  BY DEF Written
<1>3. /\ Written' \in SUBSET {h}
      /\ Written' # {} <=> req'[h].pc \in {"countActive", "countWaiting", "status"}
  BY DEF Written
<1>4. Phase = Stands(h)
  BY <1>1, <1>2 DEF Phase, Stands
<1>5. Phase' = Stands(h)'
  BY <1>1, <1>3 DEF Phase, Stands
<1> QED BY <1>4, <1>5

LEMMA LifeStep ==
  ASSUME NEW h, Requests = {h}, ~CanFail, TypeInv, OwnerInv, SnapInv, SerialInv, [Next]_vars
  PROVE  [Lifecycle!Next]_(Lifecycle!view)
<1> DEFINE Goal == [Lifecycle!Next]_(Lifecycle!view)
<1>t. /\ meeting.status \in Statuses /\ h \in Requests
      /\ Phase = Stands(h) /\ Phase' = Stands(h)'
  BY PhaseIs DEF TypeInv, TypeOK
<1>f. Fresh(req[h]) /\ LiveInv /\ (Busy(req[h]) => meeting.exists /\ req[h].status = meeting.status)
  BY DEF SerialInv, Fresh
<1>e. ASSUME Busy(req[h]), req[h].op \in {"join", "wait"} PROVE meeting.status # "ENDED"
  BY <1>e, <1>f DEF Fresh
(* What is seen of the rows, when one is written.                          *)
<1>w. ASSUME NEW p \in RowId, NEW next, Writing(h, p, next)
      PROVE  /\ Busy(req[h]) /\ meeting.exists /\ Phase = meeting.status
             /\ req[h].status = meeting.status
             /\ Phase' = IF next \in {"countActive", "countWaiting", "status"}
                           THEN PhaseAfter(req[h])' ELSE meeting.status
             /\ ActiveRows' \ {p} = ActiveRows \ {p}
             /\ WaitingRows' \ {p} = WaitingRows \ {p}
             /\ ActiveRows \subseteq RowId /\ ActiveRows' \subseteq RowId
             /\ WaitingRows \subseteq RowId /\ WaitingRows' \subseteq RowId
  <2>1. Busy(req[h])
    BY <1>w DEF Writing, Busy
  <2>2. ActiveRows' \ {p} = ActiveRows \ {p} /\ WaitingRows' \ {p} = WaitingRows \ {p}
    BY <1>w DEF Writing, ActiveRows, Active, WaitingRows, IsGuest
  <2> QED BY <1>t, <1>f, <1>w, <2>1, <2>2 DEF Writing, Stands, ActiveRows, WaitingRows
(* A step that writes none.                                                *)
<1>q. ASSUME UNCHANGED rows, Stands(h)' = Stands(h) PROVE Goal
  BY <1>q, <1>t DEF Lifecycle!view, ActiveRows, Active, WaitingRows, IsGuest
<1>1. CASE UNCHANGED vars
  BY <1>1, <1>q DEF vars, Stands, PhaseAfter, ActiveRows, Active, WaitingRows, IsGuest
<1>2. ASSUME Start(h) PROVE Goal
  BY <1>2, <1>q, <1>t, StartIs DEF Reading, Stands
<1>3. ASSUME JoinFindHostRow(h) PROVE Goal
  BY <1>3, <1>q, <1>t, MoveIs DEF Reading, Stands
<1>4. ASSUME LeaveCountActive(h) \/ LeaveCountWaiting(h) PROVE Goal
  <2>1. /\ Reading(h) /\ UNCHANGED meeting
        /\ req[h].pc \in {"countActive", "countWaiting"}
        /\ req'[h].pc \in {"countWaiting", "status"}
        /\ req'[h].op = req[h].op /\ req'[h].status = req[h].status
    BY <1>4, <1>t, MoveIs
  <2>2. req[h].op = "leave"
    BY <1>t, <2>1 DEF SnapInv
  <2>3. PhaseAfter(req[h])' = PhaseAfter(req[h])
    BY <2>1, <2>2 DEF Reading, PhaseAfter, NextStatus, StatusAfterLeave, ActiveRows, Active,
                      WaitingRows, IsGuest
  <2> QED BY <2>1, <2>3, <1>q DEF Reading, Stands
<1>5. ASSUME WriteStatus(h) PROVE Goal
  <2>1. /\ Reading(h) /\ req[h].pc = "status" /\ req'[h].pc = "reply"
        /\ meeting.exists /\ meeting'.exists /\ meeting'.status = NextStatus(req[h])
    BY <1>5, <1>t, MoveIs
  <2>2. req[h].op = "leave" =>
          req[h].occupied = (ActiveRows # {}) /\ req[h].waiting = (WaitingRows # {})
    BY <1>f, <1>t, <2>1 DEF LiveInv, Counted, Told
  <2>3. PhaseAfter(req[h]) = NextStatus(req[h])
    BY <2>2 DEF PhaseAfter, NextStatus, StatusAfterLeave
  <2> QED BY <2>1, <2>3, <1>q DEF Reading, Stands
<1>6. ASSUME Reply(h) PROVE Goal
  BY <1>6, <1>q, <1>t, MoveIs DEF Reading, Stands, Idle
<1>7. ~Fail(h)
  BY <1>f DEF Fail, Busy
<1>8. ASSUME JoinWrite(h) PROVE Goal
  <2>1. PICK p \in RowId : Writing(h, p, "status") /\ rows'[p].joined /\ ~rows'[p].left
    BY <1>8, <1>t, JoinIs
  <2>2. req[h].op = "join" /\ req'[h].op = "join"
    BY <1>8, <1>t, <2>1, JoinIs DEF Writing
  <2>3. p \in ActiveRows' /\ p \notin WaitingRows'
    BY <2>1 DEF ActiveRows, Active, WaitingRows
  <2>4. Phase' = "LIVE"
    BY <1>w, <2>1, <2>2 DEF PhaseAfter, NextStatus
  <2>5. Lifecycle!Enter(p)
    BY <1>e, <1>t, <1>w, <2>1, <2>2, <2>3, <2>4
       DEF Lifecycle!Enter, Lifecycle!Over, Statuses
  <2> QED BY <2>5 DEF Lifecycle!Next
<1>9. ASSUME WaitWrite(h) PROVE Goal
  <2>1. PICK p \in RowId :
           /\ Writing(h, p, "status") /\ ~rows'[p].joined
           /\ \/ p = req[h].row /\ SameRole(p) /\ rows'[p].left = rows[p].left
              \/ ~InUse(p) /\ rows'[p].role = "guest" /\ ~rows'[p].left
    BY <1>9, <1>t, WaitIs
  <2>2. req[h].op = "wait" /\ req'[h].op = "wait" /\ req'[h].status = req[h].status
        /\ req[h].pc = "write"
    BY <1>9, <1>t, <2>1, WaitIs DEF Writing
  <2>3. p = req[h].row => IsGuest(p) /\ ~rows[p].left
    <3>1. p = req[h].row => ~rows[p].left
      BY <1>f, <2>2, TableAssumption DEF Fresh
    <3>2. req[h].actor \in Guests /\ OwnRows
      BY <1>t, <1>w, <2>1, <2>2 DEF OwnerInv, Actors
    <3>3. p = req[h].row => Owns(req[h].actor, p)
      BY <1>t, <2>2, <3>2 DEF OwnRows, Claims, Seats, People
    <3> QED BY <3>1, <3>2, <3>3 DEF Owns
  <2>4. p \notin ActiveRows' /\ p \in WaitingRows'
    BY <2>1, <2>3 DEF ActiveRows, Active, WaitingRows, IsGuest, SameRole
  <2>5. Phase' = Opened(meeting.status)
    BY <1>w, <2>1, <2>2 DEF PhaseAfter, NextStatus
  <2>6. Lifecycle!Ask(p)
    BY <1>e, <1>t, <1>w, <2>1, <2>2, <2>4, <2>5
       DEF Lifecycle!Ask, Lifecycle!Over, Lifecycle!Opened, Opened, Statuses
  <2> QED BY <2>6 DEF Lifecycle!Next
<1>10. ASSUME AdmitWrite(h) \/ MediaWrite(h) \/ LeaveWrite(h) PROVE Goal
  <2>1. PICK p \in RowId, next \in {"status", "reply", "countActive"} :
           /\ Writing(h, p, next) /\ SameRole(p)
           /\ rows'[p].joined = rows[p].joined
           /\ \/ req[h].op = "admit" /\ next = "status" /\ rows'[p].left = rows[p].left
              \/ req[h].op = "media" /\ next = "reply" /\ rows'[p].left = rows[p].left
              \/ req[h].op = "leave" /\ next = "countActive" /\ rows'[p].left
    BY <1>10, <1>t, OthersAre
  <2>2. req'[h].op = req[h].op /\ req'[h].status = req[h].status
    BY <2>1 DEF Writing
  <2>3. ASSUME req[h].op \in {"admit", "media"}
        PROVE  ActiveRows' = ActiveRows /\ WaitingRows' = WaitingRows
    BY <1>w, <2>1, <2>3 DEF ActiveRows, Active, WaitingRows, IsGuest, SameRole, Writing
  <2>4. CASE req[h].op = "admit"
    <3>1. Phase' = Opened(meeting.status)
      BY <1>w, <2>1, <2>2, <2>4 DEF PhaseAfter, NextStatus
    <3>2. Lifecycle!LetIn
      BY <1>t, <1>w, <2>1, <2>3, <2>4, <3>1
         DEF Lifecycle!LetIn, Lifecycle!Opened, Opened, Statuses
    <3> QED BY <3>2 DEF Lifecycle!Next
  <2>5. CASE req[h].op = "media"
    <3>1. Phase' = Phase
      BY <1>w, <2>1, <2>5
    <3> QED BY <2>3, <2>5, <3>1 DEF Lifecycle!view
  <2>6. CASE req[h].op = "leave"
    <3>1. p \notin ActiveRows' /\ p \notin WaitingRows'
      BY <2>1, <2>6 DEF ActiveRows, Active, WaitingRows
    <3>2. Phase' = IF meeting.status = "ENDED" THEN "ENDED"
                   ELSE Lifecycle!Remaining(ActiveRows', WaitingRows')
      BY <1>w, <2>1, <2>2, <2>6
         DEF PhaseAfter, NextStatus, StatusAfterLeave, Lifecycle!Remaining
    <3>3. Lifecycle!Leave(p)
      BY <1>t, <1>w, <2>1, <3>1, <3>2 DEF Lifecycle!Leave, Lifecycle!Over, Statuses
    <3> QED BY <3>3 DEF Lifecycle!Next
  <2> QED BY <2>1, <2>4, <2>5, <2>6
<1>11. ASSUME EndWrite(h) PROVE Goal
  <2>1. /\ req[h].pc = "write" /\ req'[h].pc = "status" /\ req'[h].op = "end"
        /\ meeting.exists /\ UNCHANGED meeting
        /\ \A p \in RowId : /\ SameRole(p) /\ rows'[p].joined = rows[p].joined
                            /\ rows'[p].left = (rows[p].left \/ rows[p].joined)
    BY <1>11, <1>t, AllRowsAre
  <2>2. ActiveRows' = {} /\ WaitingRows' = WaitingRows
    BY <2>1 DEF ActiveRows, Active, WaitingRows, IsGuest, SameRole
  <2>3. Phase' = "ENDED" /\ Phase # "DELETED"
    BY <1>t, <2>1 DEF Stands, PhaseAfter, NextStatus, Statuses
  <2> QED BY <2>2, <2>3 DEF Lifecycle!Next, Lifecycle!End
<1>12. ASSUME DeleteWrite(h) PROVE Goal
  <2>1. /\ req[h].pc = "write" /\ meeting.exists /\ ~meeting'.exists
        /\ \A p \in RowId : rows'[p] = NoRow
    BY <1>12, <1>t, AllRowsAre
  <2>2. ActiveRows' = {} /\ WaitingRows' = {}
    BY <2>1 DEF ActiveRows, Active, WaitingRows, IsGuest, NoRow
  <2>3. Phase' = "DELETED" /\ Phase # "DELETED"
    BY <1>t, <2>1 DEF Stands, Statuses
  <2> QED BY <2>2, <2>3 DEF Lifecycle!Next, Lifecycle!Delete
<1> QED BY <1>1, <1>2, <1>3, <1>4, <1>5, <1>6, <1>7, <1>8, <1>9, <1>10, <1>11, <1>12
        DEF Next, Proceed

(* With one handler at a time and no failing query, a meeting lives as if  *)
(* each handler acted at once: with somebody in the call it is LIVE, after *)
(* its end it stays ended and empty.                                       *)
THEOREM LifecycleKept ==
  ASSUME NEW h, Requests = {h}, ~CanFail PROVE Spec => KeepsLifecycle
<1>1. Init => Lifecycle!Init
  <2> SUFFICES ASSUME Init PROVE Lifecycle!Init
    OBVIOUS
  <2>1. Phase = "SCHEDULED"
    BY PhaseIs DEF Init, Stands, Idle
  <2>2. \A p \in RowId : ~Active(p)
    BY DEF Init, Active, NewRow, NoRow
  <2>3. \A p \in RowId : ~IsGuest(p)
    BY DEF Init, IsGuest, NewRow, NoRow
  <2> QED BY <2>1, <2>2, <2>3 DEF Lifecycle!Init, ActiveRows, WaitingRows
<1>2. TypeInv /\ OwnerInv /\ SnapInv /\ SerialInv /\ [Next]_vars
        => [Lifecycle!Next]_(Lifecycle!view)
  BY LifeStep
<1> QED
  BY <1>1, <1>2, TypeInvCorrect, OwnerInvCorrect, SnapInvCorrect, SerialInvCorrect, PTL
     DEF Spec, KeepsLifecycle, Lifecycle!Spec
=============================================================================
