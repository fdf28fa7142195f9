---------------------------- MODULE MeetingRoom ----------------------------
(***************************************************************************)
(* The meeting service of apps/admin: the route handlers under             *)
(* app/api/meetings/[code] and app/api/admin/meetings/[id], over the       *)
(* Meeting and MeetingParticipant tables.                                  *)
(*                                                                         *)
(* No handler opens a transaction. Each reads the meeting with its         *)
(* participants in one query, decides on that snapshot, and then issues    *)
(* its writes as separate queries, so other handlers run between the       *)
(* snapshot and each write. A handler is a record in req that walks        *)
(* through those queries; a handler whose guards fail replies with an      *)
(* error and changes nothing, which is a stuttering step here.             *)
(***************************************************************************)
EXTENDS Naturals, FiniteSets

CONSTANTS
  Guests,          \* people who are neither the host nor an administrator
  Name,            \* [Guests -> display names], compared case-insensitively
  Email,           \* [Guests -> e-mails], None for a guest who gives none
  Invited,         \* the e-mails the meeting's invites are for
  Host,            \* the user the meeting belongs to
  Admins,          \* users of rank ADMIN other than Host
  RowId,           \* ids the participant table can hand out (a bound)
  HostRow,         \* the row created with the meeting
  Requests,        \* handlers that can run at the same time (a bound)
  MaxParticipants, \* the meeting's capacity
  AccessModes,     \* the access modes a run starts from
  Devices,         \* camera states a client reports
  Ops,             \* the handlers a run exercises
  CanFail,         \* whether a query may fail half-way through a handler
  None             \* no row, no actor

Staff == {Host} \cup Admins
People == Guests \cup Staff
Statuses == {"SCHEDULED", "WAITING", "LIVE", "ENDED"}
Modes == {"INVITE_ONLY", "PUBLIC_LINK"}
AllOps == {"join", "wait", "admit", "leave", "end", "media", "delete"}

ASSUME PeopleAssumption ==
  /\ Host \notin Guests /\ Admins \cap Guests = {} /\ Host \notin Admins
  /\ None \notin People
  /\ None \notin Invited
  /\ DOMAIN Name = Guests /\ DOMAIN Email = Guests
ASSUME TableAssumption ==
  /\ IsFiniteSet(RowId) /\ HostRow \in RowId /\ None \notin RowId
  /\ IsFiniteSet(Requests) /\ Requests # {}
ASSUME ParameterAssumption ==
  /\ MaxParticipants \in Nat \ {0}
  /\ AccessModes \subseteq Modes
  /\ Devices \subseteq BOOLEAN /\ Devices # {}
  /\ Ops \subseteq AllOps
  /\ CanFail \in BOOLEAN

-----------------------------------------------------------------------------
VARIABLES
  meeting,   \* the Meeting row: [exists, status, access]
  rows,      \* the MeetingParticipant rows
  req,       \* the handlers in flight, one record per slot
  held,      \* participant tokens each person was given
  livekit,   \* rows for which a LiveKit token was returned
  approved   \* history: rows an admit handler has ever written

vars == <<meeting, rows, req, held, livekit, approved>>

(* A participant row. who is the person whose display name the row shows   *)
(* (guests) or whose userId it holds (host rows), mail the one whose       *)
(* e-mail it holds: only waiting-room writes it, join-token leaves it as   *)
(* it is. admittedAt, joinedAt and leftAt only matter as set or null.      *)
Row == [role: {"none", "guest", "host"},
        who: People \cup {None}, mail: People \cup {None},
        admitted: BOOLEAN, joined: BOOLEAN, left: BOOLEAN, device: BOOLEAN]

NoRow == [role |-> "none", who |-> None, mail |-> None, admitted |-> FALSE,
          joined |-> FALSE, left |-> FALSE, device |-> FALSE]

NewRow(role, who, inCall, device) ==
  [role |-> role, who |-> who, mail |-> None, admitted |-> inCall,
   joined |-> inCall, left |-> FALSE, device |-> device]

(* A handler in flight. status is the meeting status of its snapshot, row  *)
(* the participant it decided on (None: it will insert one); occupied and  *)
(* waiting hold the counts of the leave handler, as zero or not.           *)
Request == [pc: {"idle", "find", "write", "countActive", "countWaiting",
                 "status", "reply"},
            op: AllOps \cup {"none"}, actor: People \cup {None},
            row: RowId \cup {None}, status: Statuses, device: BOOLEAN,
            occupied: BOOLEAN, waiting: BOOLEAN]

Idle == [pc |-> "idle", op |-> "none", actor |-> None, row |-> None,
         status |-> "SCHEDULED", device |-> FALSE,
         occupied |-> FALSE, waiting |-> FALSE]

TypeOK ==
  /\ meeting \in [exists: BOOLEAN, status: Statuses, access: Modes]
  /\ rows \in [RowId -> Row]
  /\ req \in [Requests -> Request]
  /\ held \in [People -> SUBSET RowId]
  /\ livekit \subseteq RowId
  /\ approved \subseteq RowId

-----------------------------------------------------------------------------
(* What the handlers ask of the participant table.                         *)
Active(p) == rows[p].joined /\ ~rows[p].left
IsGuest(p) == rows[p].role = "guest"
ActiveRows == {p \in RowId : Active(p)}
ActiveGuests == {p \in RowId : IsGuest(p) /\ Active(p)}
WaitingRows == {p \in RowId : IsGuest(p) /\ ~rows[p].joined /\ ~rows[p].left}
FreeRows == {p \in RowId : rows[p].role = "none"}

(* participantCount >= meeting.maxParticipants on the snapshot.            *)
Full == Cardinality(ActiveRows) >= MaxParticipants

(* The table bound: a handler that may insert a row starts only while one  *)
(* is left for it.                                                         *)
Inserting == {r \in Requests : /\ req[r].pc \in {"find", "write"}
                               /\ req[r].op \in {"join", "wait"}
                               /\ req[r].row = None}
RowLeft == Cardinality(FreeRows) > Cardinality(Inserting)

Init ==
  /\ meeting \in [exists: {TRUE}, status: {"SCHEDULED"}, access: AccessModes]
  /\ rows = [p \in RowId |->
               IF p = HostRow THEN NewRow("host", Host, FALSE, TRUE) ELSE NoRow]
  /\ req = [r \in Requests |-> Idle]
  /\ held = [a \in People |-> {}]
  /\ livekit = {}
  /\ approved = {}

(* A handler passes its guards: everything it keeps of its snapshot.       *)
Accept(r, op, actor, pc, p, d) ==
  /\ op \in Ops
  /\ req[r].pc = "idle"
  /\ meeting.exists
  /\ req' = [req EXCEPT ![r] = [Idle EXCEPT !.pc = pc, !.op = op,
                                  !.actor = actor, !.row = p, !.device = d,
                                  !.status = meeting.status]]
  /\ UNCHANGED <<meeting, rows, held, livekit, approved>>

(* The handler's write to the participant table; the update or insert      *)
(* fails once the meeting is gone.                                         *)
WriteRow(r, p, row, next) ==
  /\ req[r].pc = "write" /\ meeting.exists
  /\ rows' = [rows EXCEPT ![p] = row]
  /\ req' = [req EXCEPT ![r] = [@ EXCEPT !.pc = next, !.row = p]]

-----------------------------------------------------------------------------
(* join-token                                                              *)

(* Faulty variants: the leftAt check or the admittedAt check is missing.   *)
MayJoinAfterLeaving(g, p) ==
  IF p = None
    THEN meeting.access # "INVITE_ONLY"
    ELSE /\ p \in held[g] /\ IsGuest(p)
         /\ meeting.access = "INVITE_ONLY" => rows[p].admitted

MayJoinUnadmitted(g, p) ==
  IF p = None
    THEN meeting.access # "INVITE_ONLY"
    ELSE p \in held[g] /\ IsGuest(p) /\ ~rows[p].left

MayJoin(g, p) ==
  IF p = None
    THEN meeting.access # "INVITE_ONLY"
    ELSE /\ p \in held[g] /\ IsGuest(p) /\ ~rows[p].left
         /\ meeting.access = "INVITE_ONLY" => rows[p].admitted

JoinGuest(r, g, p, d) ==
  /\ meeting.status # "ENDED" /\ ~Full /\ MayJoin(g, p)
  /\ p = None => RowLeft
  /\ Accept(r, "join", g, "write", p, d)

HostRowsOf(a) == {p \in RowId : rows[p].role = "host" /\ rows[p].who = a}

JoinStaff(r, a, d) ==
  /\ meeting.status # "ENDED"
  /\ HostRowsOf(a) # {} \/ RowLeft
  /\ Accept(r, "join", a, "find", None, d)

(* Faulty variant: always insert, without looking for a row.               *)
JoinWithoutLookup(r) ==
  /\ req[r].pc = "find"
  /\ req' = [req EXCEPT ![r] = [@ EXCEPT !.pc = "write"]]
  /\ UNCHANGED <<meeting, rows, held, livekit, approved>>

(* The second query, which looks the host's own row up.                    *)
JoinFindHostRow(r) ==
  /\ req[r].pc = "find"
  /\ IF HostRowsOf(req[r].actor) = {}
       THEN req' = [req EXCEPT ![r] = [@ EXCEPT !.pc = "write"]]
       ELSE \E p \in HostRowsOf(req[r].actor) :
              req' = [req EXCEPT ![r] = [@ EXCEPT !.pc = "write", !.row = p]]
  /\ UNCHANGED <<meeting, rows, held, livekit, approved>>

JoinedRow(q, row) ==
  [row EXCEPT !.who = q.actor, !.admitted = TRUE, !.joined = TRUE,
              !.left = FALSE, !.device = q.device]

JoinWrite(r) ==
  LET q == req[r] IN
  /\ q.op = "join"
  /\ IF q.row # None
       THEN WriteRow(r, q.row, JoinedRow(q, rows[q.row]), "status")
       ELSE \E p \in FreeRows :
              WriteRow(r, p, NewRow(IF q.actor \in Guests THEN "guest" ELSE "host",
                                    q.actor, TRUE, q.device), "status")
  /\ UNCHANGED <<meeting, held, livekit, approved>>

-----------------------------------------------------------------------------
(* waiting-room                                                            *)

MayRequest(g) == meeting.access = "INVITE_ONLY" => Email[g] \in Invited

(* Faulty variant: any live request is taken for the guest's own.          *)
AnyRequest(g) == {p \in RowId : IsGuest(p) /\ ~rows[p].left}

(* Live requests with the same e-mail or the same display name: one of     *)
(* them is reused.                                                         *)
SameEmail(p, g) ==
  Email[g] # None /\ rows[p].mail # None /\ Email[rows[p].mail] = Email[g]

OwnRequests(g) == {p \in RowId : /\ IsGuest(p) /\ ~rows[p].left
                                 /\ SameEmail(p, g) \/ Name[rows[p].who] = Name[g]}

WaitRead(r, g, d) ==
  /\ meeting.status # "ENDED" /\ ~Full /\ MayRequest(g)
  /\ IF OwnRequests(g) # {}
       THEN \E p \in OwnRequests(g) : Accept(r, "wait", g, "write", p, d)
       ELSE RowLeft /\ Accept(r, "wait", g, "write", None, d)

WaitingRow(q, row) ==
  [row EXCEPT !.who = q.actor, !.mail = q.actor, !.admitted = FALSE,
              !.joined = FALSE, !.device = q.device]

RequestedRow(q) == WaitingRow(q, NewRow("guest", q.actor, FALSE, q.device))

WaitWrite(r) ==
  LET q == req[r] IN
  /\ q.op = "wait"
  /\ IF q.row # None
       THEN WriteRow(r, q.row, WaitingRow(q, rows[q.row]), "status")
       ELSE \E p \in FreeRows :
              WriteRow(r, p, RequestedRow(q), "status")
  /\ UNCHANGED <<meeting, held, livekit, approved>>

-----------------------------------------------------------------------------
(* participants/[participantId]/admit: it looks at neither the meeting's   *)
(* status nor whether the guest is already in.                             *)

AdmitRead(r, a, p) ==
  /\ IsGuest(p) /\ ~rows[p].left /\ ~Full
  /\ Accept(r, "admit", a, "write", p, FALSE)

AdmitWrite(r) ==
  LET q == req[r] IN
  /\ q.op = "admit"
  /\ WriteRow(r, q.row, [rows[q.row] EXCEPT !.admitted = TRUE], "status")
  /\ approved' = approved \cup {q.row}
  /\ UNCHANGED <<meeting, held, livekit>>

-----------------------------------------------------------------------------
(* leave: the row is closed, two separate counts are taken, and the status *)
(* follows from them; an ended meeting may be left again.                  *)

LeaveRead(r, a, p) ==
  /\ rows[p].role # "none"
  /\ a \in Staff \/ p \in held[a]
  /\ Accept(r, "leave", a, "write", p, FALSE)

LeaveWrite(r) ==
  LET q == req[r] IN
  /\ q.op = "leave"
  /\ WriteRow(r, q.row, [rows[q.row] EXCEPT !.left = TRUE], "countActive")
  /\ UNCHANGED <<meeting, held, livekit, approved>>

LeaveCountActive(r) ==
  /\ req[r].pc = "countActive"
  /\ req' = [req EXCEPT ![r] = [@ EXCEPT !.pc = "countWaiting",
                                         !.occupied = ActiveRows # {}]]
  /\ UNCHANGED <<meeting, rows, held, livekit, approved>>

LeaveCountWaiting(r) ==
  /\ req[r].pc = "countWaiting"
  /\ req' = [req EXCEPT ![r] = [@ EXCEPT !.pc = "status",
                                         !.waiting = WaitingRows # {}]]
  /\ UNCHANGED <<meeting, rows, held, livekit, approved>>

-----------------------------------------------------------------------------
(* end: everyone in the call is marked as gone, then the status is written. *)

EndRead(r, a) == Accept(r, "end", a, "write", None, FALSE)

(* Faulty variant: the joinedAt filter is inverted.                        *)
EndedRowInverted(row) == IF row.joined THEN row ELSE [row EXCEPT !.left = TRUE]

EndedRow(row) == IF row.joined THEN [row EXCEPT !.left = TRUE] ELSE row

EndWrite(r) ==
  /\ req[r].op = "end" /\ req[r].pc = "write" /\ meeting.exists
  /\ rows' = [p \in RowId |-> EndedRow(rows[p])]
  /\ req' = [req EXCEPT ![r] = [@ EXCEPT !.pc = "status"]]
  /\ UNCHANGED <<meeting, held, livekit, approved>>

-----------------------------------------------------------------------------
(* participants/[participantId]/media                                      *)

MayReport(a, p) == /\ rows[p].role # "none" /\ ~rows[p].left
                   /\ a \in Staff \/ p \in held[a]

MediaRead(r, a, p, d) ==
  /\ meeting.status # "ENDED" /\ MayReport(a, p)
  /\ Accept(r, "media", a, "write", p, d)

MediaWrite(r) ==
  LET q == req[r] IN
  /\ q.op = "media"
  /\ WriteRow(r, q.row, [rows[q.row] EXCEPT !.device = q.device], "reply")
  /\ UNCHANGED <<meeting, held, livekit, approved>>

-----------------------------------------------------------------------------
(* admin/meetings/[id] DELETE: the participants go with the meeting.       *)

DeleteRead(r, a) == Accept(r, "delete", a, "write", None, FALSE)

DeleteWrite(r) ==
  /\ req[r].op = "delete" /\ req[r].pc = "write" /\ meeting.exists
  /\ meeting' = [meeting EXCEPT !.exists = FALSE]
  /\ rows' = [p \in RowId |-> NoRow]
  /\ req' = [req EXCEPT ![r] = [@ EXCEPT !.pc = "reply"]]
  /\ UNCHANGED <<held, livekit, approved>>

-----------------------------------------------------------------------------
(* The status every handler writes last, from its own snapshot and counts. *)

(* Faulty variants: an ended meeting recomputed like any other, waiting    *)
(* guests looked at first.                                                 *)
StatusAfterAnyLeave(q) ==
  IF q.occupied THEN "LIVE" ELSE IF q.waiting THEN "WAITING" ELSE "SCHEDULED"

StatusWaitingFirst(q) ==
  IF q.status = "ENDED" THEN "ENDED"
  ELSE IF q.waiting THEN "WAITING"
  ELSE IF q.occupied THEN "LIVE" ELSE "SCHEDULED"

Opened(status) == IF status = "SCHEDULED" THEN "WAITING" ELSE status

StatusAfterLeave(q) ==
  IF q.status = "ENDED" THEN "ENDED"
  ELSE IF q.occupied THEN "LIVE"
  ELSE IF q.waiting THEN "WAITING" ELSE "SCHEDULED"

NextStatus(q) ==
  CASE q.op = "join" -> "LIVE"
    [] q.op = "end" -> "ENDED"
    [] q.op = "leave" -> StatusAfterLeave(q)
    [] OTHER -> Opened(q.status)

WriteStatus(r) ==
  /\ req[r].pc = "status" /\ meeting.exists
  /\ meeting' = [meeting EXCEPT !.status = NextStatus(req[r])]
  /\ req' = [req EXCEPT ![r] = [@ EXCEPT !.pc = "reply"]]
  /\ UNCHANGED <<rows, held, livekit, approved>>

(* The reply: join-token hands out a LiveKit token for the row, join-token *)
(* and waiting-room give a guest a participant token for it.               *)
Reply(r) ==
  LET q == req[r] IN
  /\ q.pc = "reply"
  /\ held' = IF q.op \in {"join", "wait"} /\ q.actor \in Guests
               THEN [held EXCEPT ![q.actor] = @ \cup {q.row}] ELSE held
  /\ livekit' = IF q.op = "join" THEN livekit \cup {q.row} ELSE livekit
  /\ req' = [req EXCEPT ![r] = Idle]
  /\ UNCHANGED <<meeting, rows, approved>>

(* A query throws: the handler replies 500 and what it wrote stays. Once   *)
(* the meeting is gone, every write does.                                  *)
Fail(r) ==
  /\ req[r].pc # "idle"
  /\ CanFail \/ (~meeting.exists /\ req[r].pc \in {"write", "status"})
  /\ req' = [req EXCEPT ![r] = Idle]
  /\ UNCHANGED <<meeting, rows, held, livekit, approved>>

-----------------------------------------------------------------------------
Start(r) ==
  \/ \E g \in Guests, p \in RowId \cup {None}, d \in Devices : JoinGuest(r, g, p, d)
  \/ \E a \in Staff, d \in Devices : JoinStaff(r, a, d)
  \/ \E g \in Guests, d \in Devices : WaitRead(r, g, d)
  \/ \E a \in Staff, p \in RowId : AdmitRead(r, a, p)
  \/ \E a \in People, p \in RowId : LeaveRead(r, a, p)
  \/ \E a \in Staff : EndRead(r, a)
  \/ \E a \in People, p \in RowId, d \in Devices : MediaRead(r, a, p, d)
  \/ \E a \in Admins : DeleteRead(r, a)

Proceed(r) ==
  \/ JoinFindHostRow(r) \/ JoinWrite(r)
  \/ WaitWrite(r)
  \/ AdmitWrite(r)
  \/ LeaveWrite(r) \/ LeaveCountActive(r) \/ LeaveCountWaiting(r)
  \/ EndWrite(r)
  \/ MediaWrite(r)
  \/ DeleteWrite(r)
  \/ WriteStatus(r) \/ Reply(r)

Next == \E r \in Requests : Start(r) \/ Proceed(r) \/ Fail(r)

Spec == Init /\ [][Next]_vars

(* A handler that was started runs to its end; nobody has to start one.    *)
FairSpec == Spec /\ \A r \in Requests : WF_vars(Proceed(r) \/ Fail(r))

-----------------------------------------------------------------------------
(* Properties that hold whatever the interleaving.                         *)

(* Guests in the call never exceed the capacity by more than the handlers  *)
(* that can check it at the same time, less one: each join decides on a    *)
(* snapshot that the others in flight have not written to yet.             *)
GuestOvershoot ==
  Cardinality(ActiveGuests) <= MaxParticipants + Cardinality(Requests) - 1

(* In an INVITE_ONLY meeting nobody is in the call, or holds a LiveKit     *)
(* token, on a guest row that no admit handler ever wrote.                 *)
GuestsApproved ==
  meeting.access = "INVITE_ONLY" =>
    \A p \in RowId : IsGuest(p) /\ (rows[p].joined \/ p \in livekit) => p \in approved

(* Guests the waiting room cannot tell apart, directly or through others:  *)
(* a circle holds everyone who shares a name or an e-mail with one of it.  *)
Alike(g, h) == Name[g] = Name[h] \/ (Email[g] # None /\ Email[g] = Email[h])

Circles == {S \in SUBSET Guests : \A g \in S, h \in Guests : Alike(g, h) => h \in S}

(* A participant token is never good for a row that a guest of another     *)
(* circle was given: rows change names and e-mails hands, yet a request    *)
(* is only ever answered with a row of its own circle.                     *)
RowsNotShared ==
  \A S \in Circles : \A g \in S, h \in Guests \ S : held[g] \cap held[h] = {}

(* The meeting's own host never ends up with a second row: the lookup and  *)
(* the insert of join-token are separate queries, but the row is created   *)
(* with the meeting and no handler removes it alone.                       *)
OneRowForTheHost == meeting.exists => HostRowsOf(Host) = {HostRow}

(* A handler under way that may still write a status or open a row, as it  *)
(* read the meeting before its end.                                        *)
Busy(q) == q.pc \notin {"idle", "reply"}

MayReopen(q) ==
  Busy(q) /\ q.op \in {"join", "wait", "admit", "leave"} /\ q.status # "ENDED"

(* The end of a meeting is final, and nobody gets in any more, once the    *)
(* handlers that read it before its end are done or have failed.           *)
Over == meeting.status = "ENDED" /\ \A r \in Requests : ~MayReopen(req[r])

EndSettles == [][Over => Over' /\ ActiveRows' \subseteq ActiveRows]_vars

(* A guest's row that was closed is never opened again, but by a join that *)
(* found it open: whoever left has to ask for access on a new row.         *)
Closed(p) ==
  /\ IsGuest(p) /\ rows[p].left
  /\ \A r \in Requests : req[r].row = p => req[r].op # "join" \/ req[r].pc # "write"

ClosedStaysOut == [][\A p \in RowId : Closed(p) /\ meeting'.exists => Closed(p)']_vars

-----------------------------------------------------------------------------
(* Properties of handlers that run one after the other.                    *)

Settled == meeting.exists /\ \A r \in Requests : req[r].pc = "idle"

(* Nothing reopens a meeting that has ended.                               *)
EndedIsFinal == [][meeting.status = "ENDED" => meeting'.status = "ENDED"]_vars

(* Nobody is in the call of a meeting that has ended.                      *)
EndClosesRoom == meeting.status = "ENDED" => ActiveRows = {}

(* Between handlers, a meeting with someone in the call is LIVE.           *)
OccupiedIsLive == Settled /\ ActiveRows # {} => meeting.status = "LIVE"

(* The status a handler that has written its rows is about to write, told  *)
(* from the rows instead of the counts it takes.                           *)
PhaseAfter(q) ==
  IF q.op = "leave" /\ q.status # "ENDED"
    THEN IF ActiveRows # {} THEN "LIVE"
         ELSE IF WaitingRows # {} THEN "WAITING" ELSE "SCHEDULED"
    ELSE NextStatus(q)

Written == {r \in Requests : req[r].pc \in {"countActive", "countWaiting", "status"}}

Phase ==
  IF ~meeting.exists THEN "DELETED"
  ELSE IF Written = {} THEN meeting.status
  ELSE PhaseAfter(req[CHOOSE r \in Written : TRUE])

Lifecycle == INSTANCE MeetingLifecycle
  WITH Seat <- RowId, phase <- Phase, inside <- ActiveRows, waiting <- WaitingRows

(* A meeting passes through its life as if each handler acted at once, in  *)
(* the moment it writes its row.                                           *)
KeepsLifecycle == Lifecycle!Spec
=============================================================================
