# A verification development of Shape Meet

Shape Meet is a video-meeting product for hosts who appear with an approved
synthetic face, background and voice. This directory holds TLA+ models of its
parts, the TLC configurations that check them on small instances, and theorems
about them that the TLA+ proof system checks for every instance.

    tlc -workers 2 -config MeetingSerial.cfg MCMeetingRoom.tla
    tlapm MeetingRoomProofs.tla

## The system

| Part | Where | State | Operations | Talks to |
| --- | --- | --- | --- | --- |
| Meeting service | `apps/admin/app/api/meetings`, `api/admin/meetings`, `prisma/schema.prisma` | `Meeting` and `MeetingParticipant` rows, signed participant tokens | create, waiting-room, admit, join-token, media, leave, end, delete | Postgres, LiveKit (by token), desktop and browser launcher (polling) |
| Identity service | `api/admin/identities`, `api/host/identities`, `lib/artifacts.ts`, `lib/identity-delivery.ts` | `HostIdentity` rows, the directory of uploaded packages | create, status, push, unpush, delete, list, resolve, download | Postgres, disk, the desktop's artifact cache |
| Users and sessions | `api/users`, `api/auth/host`, `lib/auth.ts` | `User` rows, signed tokens | create, rank, status, login | Postgres |
| AI sidecar | `apps/ai-sidecar/server.py` | a dictionary of sessions with counters and stage records, pools of processor processes | start, frame, voice chunk, status, stop | desktop (HTTP), model endpoint (HTTP, stdin) |
| Stage health | `engines/runtime.py`, `server.py` | per stage: state, reason, consecutive failures and successes | record a success, a failure, a skip | sidecar sessions |
| Model endpoint | `processors/shape_model_endpoint_server.py`, `engines/__init__.py`, `engines/voice_wokada.py` | loaded engines, prepared voice | load, prepare, process, release, shutdown | VCClient, supervisor |
| VCClient supervisor | `engines/vcclient_supervisor.py` | state, process handle, crash times, stop event, watchdog thread | start, stop, status, the watchdog | the VCClient process tree |
| Desktop call screen | `apps/desktop/src/App.tsx`, `lib/api.ts`, `lib/stageStatus.ts` | React state of a call | join, poll, toggle, hang up | admin, sidecar, LiveKit |
| Desktop media pipelines | `lib/processedVideo.ts`, `lib/processedAudio.ts` | frame loop, requests in flight | start, process, stop | sidecar |
| Native shell | `src-tauri/src/main.rs` | child handles of sidecar and endpoint, the artifact cache on disk | launch, stop, status, cache, evict | operating system, admin |
| Admin interface, launcher | `app/users-client.tsx`, `app/r/[code]` | forms | | admin routes |
| Scripts, infrastructure, docs | `scripts`, `infra`, `docs` | none | smoke tests, packaging, deployment | |

### What is hard in it

- *Handlers without transactions.* Every route of the admin reads a row (with its
  relations), decides, and then issues its writes one by one. Other handlers run in
  between, a query may throw half-way, and the process may be restarted.
- *Threads around one lock.* The supervisor's lock guards single fields; the stop
  event is outside it. `stop()`, the watchdog and the exit of the process overlap.
- *Budgets and windows.* Capacity of a room, restarts in a sliding window, retries.
- *Answers that come late.* Frames, polls and effects of the desktop are answered
  after the thing they were about was replaced: React cleans up an effect and runs it
  again in one step, but what the old run awaited goes on.
- *Sessions without locks.* The sidecar and the model endpoint are threading HTTP
  servers; their handlers share dictionaries, and a retry meets its first try.
- *Disks.* A cache of packages is written, reused and removed by commands that may be
  cut short anywhere.

For each part, what makes it correct: a meeting lets in only whom it should, ends
once and keeps its status in step with who is there; an identity is offered only when
it was published; the supervisor keeps one voice server per start,
within its restart budget, and reports what is so; a session speaks with the voice of
its own identity; a stage's health says what its last frames did; no AI session is
left running; the microphone and the camera carry what the user asked for and are
given back; what the cache calls cached is what was published. `PROJECT.json` lists
under `hazards` each place where this can go wrong, and the property that watches it.

## The modules

| Module | Models | Extends |
| --- | --- | --- |
| `MeetingRoom` | the meeting service | |
| `RestartLimiter` | how often VCClient may be relaunched (abstract) | |
| `VCClientSupervisor` | the supervisor, its watchdog, the endpoint's exit, VCClient | `RestartLimiter` by `INSTANCE` |
| `IdentityDelivery` | the identity service and its upload directory | `IdentityShelf` by `INSTANCE` |
| `MeetingLifecycle` | what a meeting is to the people in it (abstract) | |
| `IdentityShelf` | what the identity service promises hosts (abstract) | |
| `CallMedia` | the publishing effects of the call screen, their pipelines, the LiveKit room, the voice bridge | |
| `AiSession` | the AI session's effect and poll, composed with the sidecar's table of sessions | |
| `SessionLife` | what a call promises of its AI sessions (abstract) | |
| `StageHealth` | the health of a session in the sidecar | |
| `VoiceIdentity` | the voice bootstrap of the endpoint's runtime, composed with VCClient's slots | |
| `ArtifactCache` | the native shell's cache of identity artifacts | |
| `MC...` | model values, name maps and symmetry of the instances | the module checked |
| `...Proofs` | theorems | the module, `TLAPS` |

Operators introduced by *Faulty variant* are not used by any specification: each is a
definition as a plausible mistake would have it, and `PROJECT.json` lists under
`mutants` which property notices it.

### MeetingRoom

`meeting` is the `Meeting` row, `rows` the participant table (one meeting's), `held` the
participant tokens people were given, `livekit` the rows a LiveKit token was returned for,
and `approved` a history of the rows an admit handler wrote. A handler in flight is a
record in `req`: its program counter, what it was asked, and what it keeps of its
snapshot. The first query and every check on it are one action (`JoinGuest`, `WaitRead`,
`AdmitRead`, ...), since they see one state of the database; every later query is an
action of its own (`JoinFindHostRow`, `JoinWrite`, `WriteStatus`, ...). A rejected request
changes nothing and is a stuttering step. `Fail` is a query that throws. Display names and
e-mails are values of the constants `Name` and `Email`, so that guests may share either.
Nobody verifies an e-mail in the waiting room: `SameEmail` and the comparison of names
hand the row of an earlier request on to whoever types the same, and the row's person
(`who`) and the giver of its e-mail (`mail`, which only the waiting room writes) may then
differ. `Circles` are the sets of guests closed under sharing a name or an e-mail, and
`RowsNotShared` is about guests of different circles: within one the code cannot tell
people apart. Time stamps are only set or null, because the code only tests them so.
Creation of a meeting is the initial state. Formats, URLs and the audit log are left out.

`MeetingLifecycle` is the meeting without queries: who is inside, who waits, and where
it stands, each request a single step. `Phase` maps to it the moment a handler writes
its row: while the status is still to be written, `Phase` is the one the handler will
write, told from the rows (`PhaseAfter`) and not from the counts it takes, so that the
counts have to be right. `EndSettles` and `ClosedStaysOut` are what is left of it when
handlers overlap: `MayReopen` names the handlers an end has to wait for, `Closed` the
rows no join has in its hands any more.

### VCClientSupervisor

One step of the watchdog is one region under the lock or one look at the stop
event: `Publish` is separate from `Spawn` because the process is launched outside the
lock. A VCClient is a first process, the only one the supervisor knows (`parent`), and a
worker that holds the port (`child`); only one can hold it, and the health probe does not
ask whose answer it gets, which the history `answer` remembers. `Orphan` is a parent that
dies without its worker. `Terminate` does nothing once the parent is gone; otherwise the
whole group goes, or the worker outlives the signal, or every signal and wait failed,
which the code swallows: the parent is `"spared"`. `Kept` are the VCClients none of this
happened to; `OneChildPerStart` and `HealthyIsCurrent` are about them, as what is left of
another one is out of the supervisor's hands and may answer for the next. `times` are the
crash times as ages, capped one past the window. `stopper` is the main thread in
`stop()`, after which the endpoint exits and takes its threads, but not VCClient, with
it. `stop()` is called once, from the shutdown hook; `start()` up to `MaxStarts`
times.

`RestartLimiter` is the budget as one would state it: it remembers the crashes within
the window and lets a launch follow a crash when they are few enough. `Phase` maps the
watchdog's place to off, allowed, launched or crashed, and `InWindow` the times to
those that still count; the pruning done in four places of the code, `status()`
among them, is then no step at all.

### IdentityDelivery and IdentityShelf

`identity` is the table, `files` the upload directory (a package has the id of the
identity it was uploaded for; both are fresh, so an id nothing refers to any more
stands for a new one). Handlers are as in `MeetingRoom`; `create` goes through upload,
row and audit entry, its catch block is `CreateFail`, and `Restart` drops every handler
in flight. Errors of the removal of a file are ignored, as the code does.
`IdentityShelf` has four places for an identity and says how it may move: it reaches
`offered` only from `ready`. `Place` maps a row to its place. With overlapping handlers
`OfferedIsSound` says less: what is offered has a checksum and a size and was published
once. A creation that fails late may have taken its package (`ConfirmedHasFile` says whose
is safe), and an unpush that a stale review undoes goes unnoticed.

Not modelled there: a link typed in by an administrator that is the address of
another identity's upload, and the download's own reading of the file.

### CallMedia

One module stands for both publishing effects, told apart by `medium`: they have the
same shape, except that the catch of the audio effect also stops the pipeline in
`processedAudioRef`. `run` holds each run of the effect (what was asked, where it
awaits, its pipeline and device), `cur` the last one, `ref` whose pipeline the React
ref holds, `room` what LiveKit publishes, `queue` its calls not served yet. A step goes
from one `await` to the next: `Rerun` is the clean-up of the old run and the new one up
to the switch of the raw device, `Serve` that switch, then `Open` (`getUserMedia`),
`Build` (with the look at `cancelled` after it) and `Publish`. `Fail` and `Reject` are
the ways into `Catch`. `bridge` is the loop of `processedAudio.ts`: one chunk at a time,
the gain between microphone and processed voice, and the timer that finds the voice
stale (`GoStale`).

`createProcessedVideoPipeline` draws, and may send, one frame before the run looks at
`cancelled` (`processedVideo.ts:124-165`); `Build` has the look in the same step, so
`OnlyCurrentPipeline` is about pipelines that go on. `MuteTakesEffect` exempts two runs:
one whose call and whose fallback were both rejected, and a superseded one that had been
asked for the device and fails late (`Unmutes`), since its fallback sets the device as
that run had been asked to (`App.tsx:5577-5581`), whatever the user wants by then.

The publication of a pipeline whose call was left or superseded is `Publish` with
`room` closed, or a track that has ended. LiveKit is external: it serves the calls of
one participant in their order and any of them may be rejected. Left out: the preview
without a room, what the frame loop draws, the list of devices.

### AiSession

`run` and `cur` are the runs of the effect that starts a session, as in `CallMedia`;
`shown` is the session React state holds, `sess` the sidecar's `SESSIONS`, `stops` and
`polls` the DELETE and GET requests under way. Ids are never reused, so a session is
named after the run that created it. `Ensure` is `ensureLocalAiRuntime` (a sidecar that
answers, or an error), `Prepare` the identity and the check of `cancelled`, `Create`
the handler of POST, `Adopt` what the effect does with its answer. `Crash` is a sidecar
that dies: its table is gone and whatever asks it fails until the next run of the effect
starts one. A request or its answer may also be lost while the sidecar lives: `Fail` of
a run whose session was created (`startAiSession` throws, nobody knows the id), `LoseStop`
(`stopAiSession` swallows the error) and `LoseAnswer`. `lost` remembers the sessions this
happened to while they ran; the code never stops them, and `NoForgottenSession` and
`SessionsEnd` are about the others. `late` is a history: an answer about another
session than the one shown took its place.

`SessionLife` has one life per session: ahead, due, running, passed (superseded before it
ran), unwanted (running, but superseded) and over. `LifeOf` tells it from the run, the
sidecar's table and whether the run was superseded. Only an unwanted session may be
stopped there; a running one ends by a crash alone.

### StageHealth

`enabled`, `stage` and `error` are `session["enabled"]`, `session["stages"]` and
`session["lastAdapterError"]`; an error is known by the stage or the group whose name it
starts with. A handler reads and writes single keys, and Python may switch threads between
any two of them. `Begin` finds the stages that are on when the handler has its result
(`server.py:446`); `Look` asks for them again. `Count` is `_stage_success` or
`_stage_failure` up to its decision, `Set` the assignment of the state, `Look` and `Write`
the two halves of `_refresh_adapter_error`. `Receive` is the request, the wait for the
processor and what it answers, as the wait leaves the session alone. Counters are kept up
to their threshold, as they are only compared with it. `raced` marks the stages two
handlers of one group were busy with at once, until the next result that is applied alone.
Without a processor a frame passes through and every stage it asks for counts as not
changed.

### VoiceIdentity

A handler goes through `_ensure_voice_prepared` (`Arrive`, `Mark`), `prepare_session`
(`Check`, `Lock`) and `_bootstrap_identity` (`Look`, `Upload`, `Request`, `Select`), then
`Convert`. `server` is VCClient: how often a model is registered, whether its slot's
`index_ratio` is 0, and which slot is active. `healthy` is what the supervisor answers;
its own behaviour is in `VCClientSupervisor`. `Fail` is a request that fails, before or
after VCClient acted on it; a request acts before the next one is answered. `excused` and
`replaced` are histories the property needs: a session whose bootstrap was skipped or
failed, and one whose slot was replaced by that of another session. Models are known by
their file name, as slots are. VCClient answers with JSON: an empty body or another one,
which `_control_request` makes `{}` (`voice_wokada.py:688-693`) and `_find_slot` takes for
no slot (`:747`), so that a model could be registered again, is left out, as are the v1
protocol of older VCClients, the sample rate, the conversion itself, and
`release_session`, which nothing calls.

### ArtifactCache

`file` is the artifact of an identity in the cache directory, `package` the files
extracted beside it, each absent, torn or whole; `call` the command under way. Commands
run one at a time, on the main thread. A command goes on step by step from the reuse of
what is there (`Reuse`) over the download to a temporary name and the renaming (`Fetch`)
to the package (`Attach`, `Extract`, `Read`). `Interrupt` is an error or the end of the
application anywhere; `CutShort` says what each step leaves behind then. `PowerLoss` tears
whatever was written, as nothing calls `sync`. One artifact per identity, with size and
checksum, as the service publishes them, whose files are the constant `Archive`: nothing
makes an upload hold a `manifest.json`, and the package of one that does not is removed
and extracted anew by every preparation and reported with a warning; the temporary file
has a name of its own that nothing reads.

## The runs

| Run | Bounds | Shows |
| --- | --- | --- |
| `meeting_serial` | 1 guest on up to 3 rows, host, admin, capacity 2, one handler at a time | implements `MeetingLifecycle` in both access modes; an end empties the room, LIVE while occupied |
| `meeting_tokens` | 3 guests, 2 with one e-mail, 3 rows, 2 handlers | tokens of a guest of one circle never good for another's row |
| `meeting_races` | 1 guest, host, admin, 2 rows, 2 handlers, all operations but media | nobody in an INVITE_ONLY call without an admit; the host never has two rows; an end is final once the handlers that read the meeting before it are done; a guest who left stays out but for a join under way |
| `meeting_ended` | 2 handlers | *fails*: an ended meeting is reopened by a handler that read it before |
| `supervisor` | 2 VCClients, 2 restarts in a window of 1 tick, 2 starts | implements `RestartLimiter`; one intact VCClient per start, crash budget, honest health, every crash followed by a launch |
| `identity_serial` | 2 identities, one handler at a time, failures and restarts | implements `IdentityShelf` |
| `identity_concurrent` | 1 identity, 3 handlers, failures and restarts | publication date agrees with delivery status; what is offered was pushed once and has a checksum; a confirmed identity keeps its package |
| `call_media` | 3 runs of the effect, both media | only the current pipeline captures; devices are given back; the room carries what was asked for; a mute takes effect; a stalled sidecar does not silence |
| `ai_session` | 2 runs of the effect, crashes, lost requests and answers | implements `SessionLife`; no superseded session is forgotten and all end, unless what brings one or its stop is lost; the screen shows the current session unless an answer came late; a stopped one is not shown as running for ever and one lost with its sidecar is reported |
| `stage_health` | 2 handlers, a stage of each group, thresholds 2 and 2 | the state of a stage tells its last results; an error has a cause; a stage that works is shown active again |
| `voice_identity` | 2 handlers, 2 sessions, a model each | one slot per model; only safe slots active; own voice; no chunk waits for ever |
| `artifact_cache` | 2 identities, archives of 3 files and of 2 without a manifest | what is reported as cached is the published artifact; packages complete unless cut short; no command but eviction costs a cached artifact, but for an archive without manifest |

The run that fails is a disagreement between the code and its documentation;
`PROJECT.json` quotes it under `findings`.

**Bounds.** Two handlers are enough for every race of one snapshot against one write;
capacity 2, the smallest the schema of a new meeting allows, makes a full room and one
guest too many reachable with three guest rows (one guest may hold several). In
`meeting_tokens` three guests of different names share one e-mail in two, so that a row
passes from one to the other and takes the new name while a third must stay out of it;
names shared instead are the same comparison. With two handlers at once further guests and
all operations together do not fit, so the concurrent meeting is checked in two instances:
one with three guests and the handlers that hand out rows, one with one guest and every
handler that changes who is in the room; queries fail in the second, and in the theorems
about both. Rows are consumed and never freed, so a handler
that may insert starts only while a row is left (`RowLeft`). Clients report one device
state only. The supervisor has a budget of two restarts instead of the default three, which is
enough to go through the back-off more than once and into the crash loop (the theorems
have any budget); with a window of one tick crashes of two instants count together and expire one after the other; every start
can leave one VCClient, and with two of them one can be left over and answer for its
successor, or be launched beside it. Processes that are gone are used again. Ages are
capped (`Window + 1`) because only *older than the window* is ever asked. `MaxStarts`
bounds a counter that the program does not have. For identities three handlers allow two
overlapping writers and a reader; identities share nothing but fresh ids, so one is enough
for the invariants. `MaxRuns` bounds how often an effect runs in a call: with three runs
one may be late, the next current and a third supersede it, and every answer can come
after any of them; the last run may stay for ever, which is what liveness is about. The AI
session has two runs and the end of the call, which supersedes the second as a third
would: its requests and answers, each of which may be late or lost, multiply the states,
and the theorems have any number of runs. Two handlers are the most that touch one key at
a time; thresholds of 2 are the smallest where one result is not enough; the real ones are
2 successes and 3 failures unless configured. The two groups of `stage_health` have one
stage each: the frame's two stages are handled one after the other by the same code, and a
third multiplies the states beyond the run. Two sessions with a voice each can take
VCClient's active slot from each other; the proofs say the same for any number, and for
sessions that share a model or have none. A registration past the second is not counted.
One archive has a manifest and two other files, so that one of them may be there and the
other missing; the other archive has no manifest. `CHECK_DEADLOCK FALSE` stands where the
system may stop: in the supervisor's run, where the process exits, in those with `delete`,
where the meeting is gone and every handler has ended, and in those of the call, which is
left.

**Fairness.** `FairSpec` of the supervisor assumes that the watchdog thread is scheduled,
that a `stop()` once called goes on, and that the clock advances. The watchdog's own waits
are all bounded (`Event.wait` with a time-out, a boot deadline, the termination time-out),
so it is never blocked for ever, except while VCClient runs or the crash window is full,
when its step is not enabled in the model either. Nobody has to call `start()` or `stop()`
and VCClient need neither serve nor die. `CrashIsFollowedByLaunch` needs the clock: the
crash loop ends when the window has passed. `FairSpec` of the meeting service says that a
handler that was started runs to its end or fails; no request has to be made. It is used
only for the property that fails. `CallMedia` assumes that every call to LiveKit and every
request ends, by success or an error, and that the audio loop goes on; `AiSession` that
what a run awaits ends, that requests are served or fail, that an answer which is not lost
arrives, and that the interval of the poll goes off; no user acts and no sidecar need be
there. The poll is repeated every two seconds, so one of its requests is answered at last,
by a success or an error: strong fairness of `Answer`, which a single DELETE or POST has
no claim to. `StageHealth` assumes that a handler goes on, as the processor has a time
limit, and that frames keep arriving while effects are on. That is strong fairness: the
server starts a thread for every connection, so a frame is never refused because others
are served, and the model's bounded number of threads must not refuse one for ever either.
`HealsAtLast` speaks of stages that work from some moment on. `VoiceIdentity` assumes that
a thread goes on, as every request to VCClient has a time limit, which a thread that waits
for the bootstrap lock needs of its holder. `ArtifactCache` has no liveness property.

## What is proved

Every theorem holds for all values of the constants that satisfy the modules' named
assumptions: finite sets of rows, children and handlers where something is counted,
positive capacity, thresholds and numbers of runs, people with one role each, `None`
outside the sets it stands beside. Each invariant below is
proved through an inductive one, `IInv`, that TLC checked first.

- `MeetingRoomProofs`
  - `TypeInvCorrect`, `TypeCorrect`: types, with what a handler's program counter says
    of its record.
  - `ApprovalCorrect`: `GuestsApproved` for any number of concurrent, failing handlers.
    It is not inductive: a join writes what it decided long before. `ApprovalInv`
    adds that in an INVITE_ONLY meeting a join handler's row was admitted when it was
    read, that an admitted guest row was written by an admit handler, and that a row
    in a handler's hands stays what it was.
  - `CapacityCorrect`: `GuestOvershoot`, a property no run checks: with two handlers it
    takes four guest rows to come near it. The invariant counts the join handlers that
    have passed the capacity check: guests in the call and those handlers together stay
    within capacity plus handlers less one.
  - `HostRowCorrect`, `TokensCorrect`: `OneRowForTheHost`, and `RowsNotShared` for guests
    of different circles, whatever names and e-mails they have. `OwnerInv` says whose a
    row is: it keeps its role and, up to the circle (`Kin`), its person and the giver of
    its e-mail until the meeting is deleted, and a handler that joins or waits works on a
    row of its own actor's circle. After the deletion rows are gone, but tokens and the
    handlers' rows still keep apart.
  - `EndSettled`, `ClosedCorrect`: `EndSettles` and `ClosedStaysOut` for any number of
    concurrent, failing handlers. `SnapInv` says what a handler under way
    may be doing and that a join or a waiting request read a meeting that had not ended;
    what reopens a meeting or lets somebody in is therefore a handler that read it
    before its end, and no handler that starts later becomes one.
  - `EndCorrect`, `EndedCorrect`, `LiveCorrect`: with one handler at a time,
    `EndClosesRoom`, `EndedIsFinal` and (no query failing) `OccupiedIsLive`. `SerialInv`
    says that what the handler read is still so when it writes; it is what concurrent
    handlers lose, as the run `meeting_ended` shows.
  - `LifecycleKept`: with one handler at a time and no query failing `MeetingRoom`
    implements `MeetingLifecycle`. The write of a row is the abstract step; that the
    writes of the status after it change nothing abstract needs `LiveInv`: what a leave
    has counted is still so when it writes the status.
- `VCClientSupervisorProofs`
  - `TypeCorrect`.
  - `HealthyCorrect`: `HealthyIsCurrent`. The answer that made a launch healthy is its
    own, or that of something a parent's death or a failed kill left over; another intact
    VCClient can only be of an earlier start, which `ChildInv` below says.
  - `BudgetCorrect`: the crashes on record are
    within the budget plus the starts; the invariant follows the length of `times` by
    the watchdog's place, since between the crash and the look at the budget there is
    one more.
  - `ChildCorrect`: `OneChildPerStart`. The invariant bounds the intact VCClients by the
    watchdogs created, the present one's own counted with it; it does not need
    any kill to succeed, only that one is tried before the next launch.
  - `LimitKept`: `VCClientSupervisor` implements `RestartLimiter`. It needs `OrderInv`:
    the crash times are in order, so that the expired ones are the first ones, and
    taking them off the front, as the code does, leaves exactly
    the crashes within the window. The lemmas say so of a list that is pruned, grown or
    aged; an expired crash is still in the list until the next pruning, so the budget
    is compared right after one.
- `IdentityDeliveryProofs`
  - `TypeCorrect`.
  - `PublishedCorrect`, `OfferedCorrect`: handlers write from old copies, so the
    invariant (`CopiesSound`, `RowsSound`) says the same of the copies as of the rows;
    `CreationInv` says that ids are not shared before a row exists, so that a copy is
    always of the same package as the row.
  - `ConfirmedCorrect`: `FilesInv` follows the package from its upload to the deletion
    of its row.
  - `PromiseKept`: with one handler at a time `IdentityDelivery` implements
    `IdentityShelf`; `SerialInv` says that what was read is what is there.
- `CallMediaProofs`: `TypeCorrect`, `PipelineIsCurrent`, `DeviceGivenBack`,
  `RoomFollowsUser`, for any number of runs and any queue. `CallsAwaited` says whom the
  calls in LiveKit's queue belong to: a call that is awaited belongs to a run that waits
  for it, and no run waits for two; without it a served call could move a run that was
  already done. `RoomInv` follows the last call made: what LiveKit has set the raw device
  to, or will once its queue is served, is what the current run or its fallback asked for,
  and the tracks in the room are those of runs that have published and not been stopped.
- `AiSessionProofs`: `TypeCorrect`, `NoneForgotten`, `ScreenIsRight`, `LifeKept`. A
  session that runs was created by a run that is past its creation (`Alive`), and a run
  that has not begun has no session (`NotBegun`). `LifeKept`: `AiSession` implements
  `SessionLife`. `StopsDue` says that no stop is under way for the wanted session,
  `Asking` at which steps of a run its session exists; each step of a run is then one of
  its session's life or none.
- `StageHealthProofs`: `TypeCorrect`, `HealthIsTrue`, `ErrorIsFounded`, for any number
  of handlers and any thresholds. Between counting a result and setting the state a
  record is not truthful yet: `TruthUnderWay` says it will be once the verdict under
  way is applied, `OverlapsMarked` that there is only one such verdict on a stage that
  is not marked, `BlameCorrected` that an error without a cause has a handler that will
  still correct it.
- `VoiceIdentityProofs`: `TypeCorrect`, `OneSlot`, `SafeSlot`, `OwnVoice`, for any
  number of handlers, sessions and models. A handler inside the bootstrap holds the
  lock (`Locked`), what it found is still so (`Found`), the slot of a session that was
  bootstrapped is registered and safe (`Booted`), and a handler past the bootstrap
  belongs to a session that was bootstrapped or is excused (`Passed`).
- `ArtifactCacheProofs`: `TypeCorrect`, `IntactWhenReported`, `CompleteUnlessCutShort`,
  `NothingElseCostsIt`. `VerifiedFirst` says that every step after the verification has
  the whole artifact; `NothingTorn` that files are torn only in packages that were cut
  short.

Only model-checked: every liveness property (`CrashIsFollowedByLaunch`, `MuteTakesEffect`,
`VoiceComesBack`, `SessionsEnd`, `StopIsSeen`, `LossIsReported`, `HealsAtLast`,
`ChunksAnswered`), as liveness under fairness and `ENABLED` are out of the prover's reach.

## What the code does and a reader may not expect

Met while modelling; the models have these behaviours, and the properties say what
holds in spite of them.

- Two joins may pass one capacity check (`join-token/route.ts:58`): the limit of
  `docs/realtime-ai-stack.md:32` may be exceeded by as many guests as there are other
  joins in flight, which is what `GuestOvershoot` allows. The host and administrators are
  not held to it at all, so they join a full meeting; an administrator who is not the
  owner and joins twice at once gets two rows (`:65`).
- A waiting-room request takes over the row of whoever gave the same unverified e-mail or
  display name (`waiting-room/route.ts:64`), token included.
- A handler that read a meeting before its end may set it `LIVE` after it: the run
  `meeting_ended`.
- `stop()` finds no process while the watchdog has launched one and not published it
  (`vcclient_supervisor.py:199`), so VCClient outlives the endpoint, although
  `shape_model_endpoint_server.py:1309-1311` says that it never does; the watchdog
  may write `healthy` over `stopped` (`:305`).
- A VCClient whose parent died, or whose kill failed, is left with the port (`:409`,
  `:419-444`): the next launch does not get it, and the answer that makes it healthy is
  the old one's.
- A DELETE of a session, or the answer of the POST that made it, that is lost while the
  sidecar lives leaves the session running (`aiSidecar.ts:701-705`, `376-394`).
- A superseded run of the audio effect that fails late switches the microphone on again if
  it had been asked to, whatever the user asked since (`App.tsx:5577-5581`).
- An artifact without a manifest is extracted anew by every preparation, and a command
  that is cut short there costs it the complete package it had (`main.rs:2677-2694`).
- A change of an identity's status writes the delivery status computed from an old
  copy and may undo an unpush (`status/route.ts:26`); a creation whose audit entry
  fails removes the package of a row that stays (`identities/route.ts:115`).
- An answer to a poll about the session before may take the place of the current one
  in React state (`App.tsx:5947`), and stays there, because what is polled next is what is
  shown: the frames no longer go to the session that runs. `ScreenAgrees` holds but for
  `late`.
- A superseded run of the audio effect that fails stops the pipeline its successor
  installed (`App.tsx:5570`); `RoomAgrees` does not speak of rooms where that happened.
- A session whose first chunk comes while VCClient boots, or whose bootstrap fails, is
  marked as prepared (`engines/__init__.py:155`) and speaks with whatever voice is
  active; the comment at `voice_wokada.py:576` expects it to be prepared later.
  Sessions take the one active slot from each other, and models with the same file name
  share a slot.
- A package that has a manifest is used as it is until it is evicted, complete or not
  (`main.rs:2677`).
- Eviction compares with the list of identities of the closure it runs in
  (`App.tsx:2029`), which for its callers is the one from before the login, so it does not
  reach an identity that was cached since.

## What is not modelled

- Users, roles and host sessions, LiveKit token, audit and health routes: single
  queries or reads, whose checks `MeetingRoom` has where they guard a meeting.
- The web interface and the launcher repeat the modelled requests.
- Background and face engines, model wrappers, endpoint server and processor command:
  numeric or formatting, over one frame or one line of text. The face and background
  engines keep one entry per session, written when it is prepared and, for the
  recurrent matting model, after each frame, which two frames of a session at once may
  do out of order; `StageState` of `runtime.py` is the endpoint's twin of the sidecar's
  records, with the same thresholds and no lock either.
- Of the sidecar: preflight, diagnostics, metrics and counters; of the endpoint: loading
  and shutdown of engines, the pool of processor processes.
- Of the desktop: joining, chat, devices, the preview, what the video pipeline draws;
  the supervisors of the native shell, which hold child handles behind one mutex.
- Shared contracts, scripts, infrastructure, documents: no state of their own. Together
  with the interface's rendering they are most of the repository's lines; a state machine
  of them would only repeat their text.

## Plan

Done, in order of importance: who gets into a meeting and when it ends; the process
supervisor; the identities offered to hosts; the media of a call; the AI session; the
health of its stages; the voice bootstrap; the artifact cache. Next:

1. `NativeSupervisors`: the child handles of `main.rs`, composed with `AiSession`.
2. `VoiceIdentity` composed with `VCClientSupervisor`: `healthy` as the supervisor's
   state instead of a free variable, with the endpoint's shutdown against chunks in
   flight.
3. `ArtifactCache` composed with `IdentityDelivery`: what is evicted when an identity
   is no longer offered.
