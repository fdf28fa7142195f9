---------------------------- MODULE VoiceIdentity ----------------------------
(***************************************************************************)
(* The voice of an identity in the model endpoint: the runtime prepares it *)
(* on the first chunk of a session (apps/ai-sidecar/engines/__init__.py)   *)
(* by registering the identity's model with VCClient and making its slot   *)
(* the active one (engines/voice_wokada.py).  The threads of a threading   *)
(* HTTP server share the runtime; VCClient has one active slot for all of  *)
(* them, keeps its slots over a restart, and may fail any request, before  *)
(* or after it took effect.                                                *)
(***************************************************************************)
EXTENDS Naturals

CONSTANTS
  Threads,    \* handlers at work at once
  Sessions,   \* AI sessions of one life of the endpoint
  Model,      \* voice models, told apart by their file names as slots are
  ModelOf,    \* the model in the identity of each session
  None        \* no model, no thread

ASSUME ModelAssumption ==
  /\ ModelOf \in [Sessions -> Model \union {None}]
  /\ None \notin Model \union Threads

VARIABLES
  req,        \* what each handler is at
  prepared,   \* InprocRuntime._voice_prepared
  booted,     \* VoiceEngine._bootstrapped
  lock,       \* VoiceEngine._bootstrap_lock
  healthy,    \* is_healthy() of the supervisor
  server,     \* VCClient: registrations of a model, index_ratio 0, active slot
  excused,    \* sessions whose bootstrap was skipped or failed
  replaced    \* sessions whose slot was active, until that of another was

vars == <<req, prepared, booted, lock, healthy, server, excused, replaced>>

Idle == [pc |-> "idle", s |-> None, convert |-> FALSE]

Init ==
  /\ req = [t \in Threads |-> Idle]
  /\ prepared = {}
  /\ booted = {}
  /\ lock = None
  /\ healthy \in BOOLEAN
  /\ \E known \in SUBSET Model :
       server \in [slots: {[m \in Model |-> IF m \in known THEN 1 ELSE 0]},
                   safe: [Model -> BOOLEAN], current: known \union {None}]
  /\ excused = {}
  /\ replaced = {}

Goto(t, pc) == req' = [req EXCEPT ![t].pc = pc]
After(t) == IF req[t].convert THEN "convert" ELSE "idle"
ModelAt(t) == ModelOf[req[t].s]

(* A chunk of audio, or a video frame of a session that is not prepared,   *)
(* which prepares its voice too.                                           *)
Arrive(t, s, audio) ==
  /\ req[t].pc = "idle"
  /\ audio \/ s \notin prepared
  /\ req' = [req EXCEPT ![t] = [pc |-> IF s \in prepared THEN "convert" ELSE "check",
                                s |-> s, convert |-> audio]]
  /\ UNCHANGED <<prepared, booted, lock, healthy, server, excused, replaced>>

(* Faulty variant: the session is marked before its voice is bootstrapped. *)
CheckMarking(t) ==
  /\ req[t].pc = "check"
  /\ Goto(t, IF ModelAt(t) # None /\ healthy THEN "lock" ELSE "mark")
  /\ prepared' = prepared \union {req[t].s}
  /\ excused' = IF ModelAt(t) # None /\ ~healthy THEN excused \union {req[t].s} ELSE excused
  /\ UNCHANGED <<booted, lock, healthy, server, replaced>>

(* Nothing is done for an identity without a voice, or while VCClient      *)
(* boots.                                                                  *)
Check(t) ==
  /\ req[t].pc = "check"
  /\ Goto(t, IF ModelAt(t) # None /\ healthy THEN "lock" ELSE "mark")
  /\ excused' = IF ModelAt(t) # None /\ ~healthy THEN excused \union {req[t].s} ELSE excused
  /\ UNCHANGED <<prepared, booted, lock, healthy, server, replaced>>

(* Faulty variant: bootstraps are not kept apart.                          *)
LockUnneeded(t) ==
  /\ req[t].pc = "lock"
  /\ Goto(t, IF req[t].s \in booted THEN "mark" ELSE "look")
  /\ UNCHANGED <<prepared, booted, lock, healthy, server, excused, replaced>>

Lock(t) ==
  /\ req[t].pc = "lock" /\ lock = None
  /\ IF req[t].s \in booted
     THEN Goto(t, "mark") /\ UNCHANGED lock
     ELSE Goto(t, "look") /\ lock' = t
  /\ UNCHANGED <<prepared, booted, healthy, server, excused, replaced>>

(* Faulty variant: a slot that was there is taken as it is.                *)
LookTrusting(t) ==
  /\ req[t].pc = "look"
  /\ Goto(t, IF server.slots[ModelAt(t)] = 0 THEN "upload" ELSE "select")
  /\ UNCHANGED <<prepared, booted, lock, healthy, server, excused, replaced>>

(* The model's slot is looked for; it must have index_ratio 0.  VCClient   *)
(* answers with the list of its slots: a body that is no JSON, which the   *)
(* engine reads as an empty list, is left out.                             *)
Look(t) ==
  /\ req[t].pc = "look"
  /\ Goto(t, IF server.slots[ModelAt(t)] = 0 THEN "upload"
             ELSE IF server.safe[ModelAt(t)] THEN "select" ELSE "sanitize")
  /\ UNCHANGED <<prepared, booted, lock, healthy, server, excused, replaced>>

Upload(t) ==
  /\ req[t].pc = "upload"
  /\ Goto(t, "register")
  /\ UNCHANGED <<prepared, booted, lock, healthy, server, excused, replaced>>

(* The requests that change VCClient, each with its effect: a new slot has *)
(* whatever index_ratio VCClient gives it, and is looked up again.         *)
Registered(m) ==
  {[server EXCEPT !.slots[m] = IF @ < 2 THEN @ + 1 ELSE @,
                  !.safe[m] = IF server.slots[m] = 0 THEN ratio ELSE @] : ratio \in BOOLEAN}

Effect(t) ==
  LET m == ModelAt(t) IN
    \/ req[t].pc = "register" /\ server' \in Registered(m)
    \/ req[t].pc = "sanitize" /\ server' = [server EXCEPT !.safe[m] = TRUE]
    \/ req[t].pc = "select" /\ server' = [server EXCEPT !.current = m]

(* What the sessions before it lose when a slot becomes the active one.    *)
Replacing(t) ==
  IF req[t].pc = "select"
  THEN (replaced \union {s \in booted : ModelOf[s] # ModelAt(t)}) \ {req[t].s}
  ELSE replaced

Request(t) ==
  /\ req[t].pc \in {"register", "sanitize"}
  /\ Effect(t)
  /\ Goto(t, IF req[t].pc = "register" THEN "look" ELSE "select")
  /\ UNCHANGED <<prepared, booted, lock, healthy, excused, replaced>>

(* The bootstrap is done.                                                  *)
Select(t) ==
  /\ req[t].pc = "select"
  /\ Effect(t)
  /\ Goto(t, "mark")
  /\ booted' = booted \union {req[t].s}
  /\ lock' = None
  /\ excused' = excused \ {req[t].s}
  /\ replaced' = Replacing(t)
  /\ UNCHANGED <<prepared, healthy>>

Bootstrapping == {"look", "upload", "register", "sanitize", "select"}

(* Faulty variant: a bootstrap that fails keeps the lock.                  *)
FailLocked(t) ==
  /\ req[t].pc \in Bootstrapping
  /\ Goto(t, "mark")
  /\ excused' = excused \union {req[t].s}
  /\ UNCHANGED <<prepared, booted, lock, healthy, server, replaced>>

(* A request fails, its answer lost or itself; the session goes on with    *)
(* whatever voice is active.                                               *)
Fail(t) ==
  /\ req[t].pc \in Bootstrapping
  /\ \/ UNCHANGED <<server, replaced>>
     \/ Effect(t) /\ replaced' = Replacing(t)
  /\ Goto(t, "mark")
  /\ lock' = None
  /\ excused' = excused \union {req[t].s}
  /\ UNCHANGED <<prepared, booted, healthy>>

(* Prepared or not, the session is not prepared again.                     *)
Mark(t) ==
  /\ req[t].pc = "mark"
  /\ prepared' = prepared \union {req[t].s}
  /\ Goto(t, After(t))
  /\ UNCHANGED <<booted, lock, healthy, server, excused, replaced>>

(* The chunk is converted with the active slot, or comes back as it was.   *)
Convert(t) ==
  /\ req[t].pc = "convert"
  /\ req' = [req EXCEPT ![t] = Idle]
  /\ UNCHANGED <<prepared, booted, lock, healthy, server, excused, replaced>>

(* VCClient has booted, or has died and is launched again.                 *)
Health ==
  /\ healthy' = ~healthy
  /\ UNCHANGED <<req, prepared, booted, lock, server, excused, replaced>>

Work(t) ==
  \/ Check(t) \/ Lock(t) \/ Look(t) \/ Upload(t) \/ Request(t) \/ Select(t)
  \/ Fail(t) \/ Mark(t) \/ Convert(t)

Next ==
  \/ \E t \in Threads : Work(t) \/ \E s \in Sessions, audio \in BOOLEAN : Arrive(t, s, audio)
  \/ Health

Spec == Init /\ [][Next]_vars

(* Every request to VCClient has a time limit, and a lock that is free is  *)
(* given to a thread that waits for it.                                    *)
FairSpec == Spec /\ \A t \in Threads : WF_vars(Work(t))

-----------------------------------------------------------------------------
(* Types of the state.                                                     *)
TypeOK ==
  /\ req \in [Threads -> [pc: Bootstrapping \union {"idle", "check", "lock", "mark", "convert"},
                          s: Sessions \union {None}, convert: BOOLEAN]]
  /\ prepared \in SUBSET Sessions
  /\ booted \in SUBSET Sessions
  /\ lock \in Threads \union {None}
  /\ healthy \in BOOLEAN
  /\ server \in [slots: [Model -> 0..2], safe: [Model -> BOOLEAN], current: Model \union {None}]
  /\ excused \in SUBSET Sessions
  /\ replaced \in SUBSET Sessions

(* A model is registered with VCClient once, however many sessions, chunks *)
(* and frames ask for it at once and whatever requests fail.               *)
OneSlotPerModel == \A m \in Model : server.slots[m] <= 1

(* The slot an identity made active has index_ratio 0; any other value     *)
(* brings VCClient down.                                                   *)
ActiveIsSafe ==
  server.current # None /\ (\E s \in booted : ModelOf[s] = server.current) => server.safe[server.current]

(* A chunk is converted with the voice of its own identity, unless its     *)
(* bootstrap was skipped or failed or another session's came after it: no  *)
(* chunk overtakes the bootstrap another chunk or frame has begun.         *)
VoiceIsOwn ==
  \A t \in Threads :
    (req[t].pc = "convert" /\ ModelAt(t) # None /\ req[t].s \notin excused \union replaced)
      => server.current = ModelAt(t)

(* No chunk waits for ever for the bootstrap lock.                         *)
ChunksAnswered == \A t \in Threads : req[t].pc # "idle" ~> req[t].pc = "idle"
=============================================================================
