------------------------------ MODULE CallMedia ------------------------------
(***************************************************************************)
(* The microphone, or the camera, of the desktop during a call             *)
(* (apps/desktop/src/App.tsx, ActiveCallScreen, the two publishing         *)
(* effects) and the processed track they publish (lib/processedAudio.ts,   *)
(* lib/processedVideo.ts).  React runs an effect again whenever what it    *)
(* depends on changes: the old run is cleaned up and the new one begun in  *)
(* one step, but an old run that was waiting goes on after it.  LiveKit    *)
(* serves the calls that switch the raw device in the order they were      *)
(* made; any call may be rejected.                                         *)
(***************************************************************************)
EXTENDS Naturals, Sequences

CONSTANT MaxRuns   \* how often an effect runs during the call

ASSUME MaxRunsAssumption == MaxRuns \in Nat \ {0}

VARIABLES
  medium,   \* which of the two effects: "audio" or "video"
  run,      \* the runs of the effect, in the order they begin
  cur,      \* the last run begun
  ref,      \* processedAudioRef / processedVideoRef: whose pipeline, 0 for none
  room,     \* the LiveKit room: open, raw device on, processed tracks
  queue,    \* calls of setMicrophoneEnabled / setCameraEnabled not served yet
  label,    \* processedAudioState / processedVideoState
  bridge    \* the voice bridge of the pipeline in ref

vars == <<medium, run, cur, ref, room, queue, label, bridge>>

Run == 1..MaxRuns

(* What the user asked for: the device on, an effect on it, and whether    *)
(* there is an AI session, which is asked for processed media only.        *)
Want == {w \in [on: BOOLEAN, fx: BOOLEAN, session: BOOLEAN] : w.session => w.on /\ w.fx}

Idle == [want |-> [on |-> FALSE, fx |-> FALSE, session |-> FALSE], pc |-> "new",
         pipe |-> "none", device |-> "closed", err |-> "none"]

(* Faulty variant: a new pipeline has no gain yet.                         *)
UnsetBridge == [gain |-> "none", fresh |-> FALSE, fails |-> FALSE, flight |-> FALSE]

SilentBridge == [gain |-> "raw", fresh |-> FALSE, fails |-> FALSE, flight |-> FALSE]

Init ==
  /\ medium \in {"audio", "video"}
  /\ run = [n \in Run |-> Idle]
  /\ cur = 0
  /\ ref = 0
  /\ room = [open |-> TRUE, raw |-> FALSE, tracks |-> {}]
  /\ queue = <<>>
  /\ label = "idle"
  /\ bridge = SilentBridge

(* The flag cancelled of a run: a later one has begun, or the screen is    *)
(* gone.                                                                   *)
Superseded(n) == n # cur \/ ~room.open

Processing(w) == w.on /\ w.fx

Call(n, on, awaited) == [run |-> n, on |-> on, awaited |-> awaited]

(* Faulty variant: the microphone stays open.                              *)
StoppedKeepingDevice(rs, p) ==
  IF p = 0 THEN rs ELSE [rs EXCEPT ![p].pipe = "stopped"]

(* pipeline.stop(): the track ends and the device is given back.           *)
Stopped(rs, p) ==
  IF p = 0 THEN rs ELSE [rs EXCEPT ![p].pipe = "stopped", ![p].device = "closed"]

(* The clean-up function: what the run published is unpublished, if        *)
(* LiveKit has it already, and the pipeline in ref is stopped.             *)
CleanUp(rs, tracks) == [runs |-> Stopped(rs, ref), tracks |-> tracks \ {cur}]

(* What the user asked for changes, or the device: the effect is cleaned   *)
(* up and run again up to its first await, the switch of the raw device.   *)
Rerun(w) ==
  /\ room.open /\ cur < MaxRuns
  /\ LET n == cur + 1
         clean == CleanUp(run, room.tracks)
     IN /\ run' = [clean.runs EXCEPT ![n].want = w,
                                     ![n].pc = IF Processing(w) THEN "clear" ELSE "call"]
        /\ room' = [room EXCEPT !.tracks = clean.tracks]
        /\ queue' = Append(queue, Call(n, w.on /\ ~w.fx, TRUE))
        /\ label' = IF Processing(w) THEN "publishing" ELSE "idle"
        /\ cur' = n
  /\ ref' = 0
  /\ UNCHANGED <<medium, bridge>>

(* The screen is left: the clean-up runs and the room is disconnected.     *)
Leave ==
  /\ room.open /\ cur # 0
  /\ LET clean == CleanUp(run, room.tracks) IN
       /\ run' = clean.runs
       /\ room' = [open |-> FALSE, raw |-> FALSE, tracks |-> {}]
  /\ ref' = 0
  /\ UNCHANGED <<medium, cur, queue, label, bridge>>

(* The next call to LiveKit is served, and the run that awaits it goes on. *)
Serve ==
  /\ queue # <<>>
  /\ LET c == Head(queue) IN
       /\ room' = [room EXCEPT !.raw = IF room.open THEN c.on ELSE @]
       /\ run' = IF c.awaited
                 THEN [run EXCEPT ![c.run].pc = IF @ = "clear" THEN "open" ELSE "done"]
                 ELSE run
  /\ queue' = Tail(queue)
  /\ UNCHANGED <<medium, cur, ref, label, bridge>>

(* getUserMedia gives the device to the run.                               *)
Open(n) ==
  /\ run[n].pc = "open"
  /\ run' = [run EXCEPT ![n].pc = "build", ![n].device = "open"]
  /\ UNCHANGED <<medium, cur, ref, room, queue, label, bridge>>

(* Faulty variant: cancelled is not looked at after the await.             *)
BuildUnchecked(n) ==
  /\ run[n].pc = "build"
  /\ run' = [run EXCEPT ![n].pc = "publish", ![n].pipe = "live"]
  /\ ref' = n
  /\ bridge' = SilentBridge
  /\ UNCHANGED <<medium, cur, room, queue, label>>

(* The pipeline is there: a superseded run stops it at once, which for the *)
(* video is after its first frame, the current one installs it and         *)
(* publishes its track.                                                    *)
Build(n) ==
  /\ run[n].pc = "build"
  /\ IF Superseded(n)
     THEN /\ run' = [run EXCEPT ![n].pc = "done", ![n].pipe = "stopped", ![n].device = "closed"]
          /\ UNCHANGED <<ref, bridge>>
     ELSE /\ run' = [run EXCEPT ![n].pc = "publish", ![n].pipe = "live"]
          /\ ref' = n
          /\ bridge' = SilentBridge
  /\ UNCHANGED <<medium, cur, room, queue, label>>

(* publishTrack is done.  Nothing looks at cancelled after it: a run that  *)
(* was superseded meanwhile leaves an ended track in the room.             *)
Publish(n) ==
  /\ run[n].pc = "publish"
  /\ run' = [run EXCEPT ![n].pc = "done"]
  /\ room' = [room EXCEPT !.tracks = IF room.open THEN @ \union {n} ELSE @]
  /\ label' = "published"
  /\ UNCHANGED <<medium, cur, ref, queue, bridge>>

(* Faulty variant: the fallback switches the raw device on, asked or not.  *)
CatchUnmuting(n, rest) ==
  LET rs == IF medium = "audio" THEN Stopped(run, ref) ELSE run IN
    /\ run' = [rs EXCEPT ![n].pc = "done",
                         ![n].err = IF Superseded(n) THEN "late" ELSE "failed"]
    /\ ref' = IF medium = "audio" THEN 0 ELSE ref
    /\ queue' = Append(rest, Call(n, TRUE, FALSE))
    /\ label' = "error"
    /\ UNCHANGED <<medium, cur, room, bridge>>

(* Faulty variant: no fallback to the raw device.                          *)
CatchSilently(n, rest) ==
  LET rs == IF medium = "audio" THEN Stopped(run, ref) ELSE run IN
    /\ run' = [rs EXCEPT ![n].pc = "done",
                         ![n].err = IF Superseded(n) THEN "late" ELSE "failed"]
    /\ ref' = IF medium = "audio" THEN 0 ELSE ref
    /\ queue' = rest
    /\ label' = "error"
    /\ UNCHANGED <<medium, cur, room, bridge>>

(* The catch of a run, superseded or not: the state shows the error, the   *)
(* raw device is set as the run had been asked to, and the audio effect    *)
(* stops whatever pipeline is in ref, its own or its successor's.          *)
Catch(n, rest) ==
  LET rs == IF medium = "audio" THEN Stopped(run, ref) ELSE run IN
    /\ run' = [rs EXCEPT ![n].pc = "done",
                         ![n].err = IF Superseded(n) THEN "late" ELSE "failed"]
    /\ ref' = IF medium = "audio" THEN 0 ELSE ref
    /\ queue' = Append(rest, Call(n, run[n].want.on, FALSE))
    /\ label' = "error"
    /\ UNCHANGED <<medium, cur, room, bridge>>

(* The device, the pipeline or the publication fails.                      *)
Fail(n) == run[n].pc \in {"open", "build", "publish"} /\ Catch(n, queue)

(* LiveKit rejects the next call; nobody catches that of a fallback.       *)
Reject ==
  /\ queue # <<>>
  /\ LET c == Head(queue) IN
       IF c.awaited
       THEN Catch(c.run, Tail(queue))
       ELSE /\ run' = [run EXCEPT ![c.run].err = "stuck"]
            /\ queue' = Tail(queue)
            /\ UNCHANGED <<medium, cur, ref, room, label, bridge>>

-----------------------------------------------------------------------------
(* The voice bridge of the pipeline in ref: one chunk at a time goes to    *)
(* the sidecar, and what comes back, if it can be played, replaces the     *)
(* microphone in the published track.                                      *)
Bridged == medium = "audio" /\ ref # 0 /\ run[ref].want.session

SendChunk ==
  /\ Bridged /\ ~bridge.flight
  /\ bridge' = [bridge EXCEPT !.flight = TRUE]
  /\ UNCHANGED <<medium, run, cur, ref, room, queue, label>>

(* Faulty variant: after a failure the microphone stays out of the track.  *)
AnswerKeepingGain(injected) ==
  /\ Bridged /\ bridge.flight
  /\ bridge' = [gain |-> IF injected THEN "voice" ELSE bridge.gain,
                fresh |-> injected \/ bridge.fresh, fails |-> FALSE, flight |-> FALSE]
  /\ UNCHANGED <<medium, run, cur, ref, room, queue, label>>

(* The answer is injected, or it cannot be, or the request failed or ran   *)
(* into the time limit of the client.                                      *)
Answer(injected) ==
  /\ Bridged /\ bridge.flight
  /\ bridge' = [gain |-> IF injected THEN "voice" ELSE "raw", fresh |-> injected \/ bridge.fresh,
                fails |-> ~injected, flight |-> FALSE]
  /\ UNCHANGED <<medium, run, cur, ref, room, queue, label>>

(* 900 ms pass without a processed chunk, and the status timer sees it.    *)
GoStale ==
  /\ Bridged /\ bridge.fresh
  /\ bridge' = [bridge EXCEPT !.fresh = FALSE, !.gain = IF bridge.fails THEN "raw" ELSE @]
  /\ UNCHANGED <<medium, run, cur, ref, room, queue, label>>

Next ==
  \/ \E w \in Want : Rerun(w)
  \/ Leave
  \/ Serve
  \/ Reject
  \/ \E n \in Run : Open(n)
  \/ \E n \in Run : Build(n)
  \/ \E n \in Run : Publish(n)
  \/ \E n \in Run : Fail(n)
  \/ SendChunk
  \/ \E injected \in BOOLEAN : Answer(injected)
  \/ GoStale

Spec == Init /\ [][Next]_vars

(* Every call and every request ends, and the audio loop goes on; the user *)
(* need not do anything and nothing need succeed.                          *)
Fairness ==
  /\ WF_vars(Serve \/ Reject)
  /\ \A n \in Run : WF_vars(Open(n) \/ Build(n) \/ Publish(n) \/ Fail(n))
  /\ WF_vars(SendChunk)
  /\ WF_vars(\E injected \in BOOLEAN : Answer(injected))

FairSpec == Spec /\ Fairness

-----------------------------------------------------------------------------
(* Types of the state; the call queue of LiveKit holds calls of runs.      *)
RunRecord == [want: Want, pc: {"new", "call", "clear", "open", "build", "publish", "done"},
              pipe: {"none", "live", "stopped"}, device: {"closed", "open"},
              err: {"none", "failed", "late", "stuck"}]

CallRecord == [run: Run, on: BOOLEAN, awaited: BOOLEAN]

TypeOK ==
  /\ medium \in {"audio", "video"}
  /\ run \in [Run -> RunRecord]
  /\ cur \in 0..MaxRuns
  /\ ref \in 0..MaxRuns
  /\ room \in [open: BOOLEAN, raw: BOOLEAN, tracks: SUBSET Run]
  /\ queue \in Seq(CallRecord)
  /\ label \in {"idle", "publishing", "published", "error"}
  /\ bridge \in [gain: {"raw", "voice"}, fresh: BOOLEAN, fails: BOOLEAN, flight: BOOLEAN]

(* A pipeline that goes on sending or capturing belongs to the run of what *)
(* the user asked for last, and none does once the call is left: whatever  *)
(* a superseded run was waiting for, it installs nothing afterwards.       *)
OnlyCurrentPipeline ==
  \A n \in Run : run[n].pipe = "live" => n = ref /\ n = cur /\ room.open

(* A device that was opened is given back: it is open only for a pipeline  *)
(* that is being made or is live, unless making or publishing it failed.   *)
DeviceReleased ==
  \A n \in Run : run[n].device = "open" =>
    run[n].pc = "build" \/ run[n].pipe = "live" \/ run[n].err # "none"

(* When nothing is under way the room carries what the user asked for: the *)
(* raw device without an effect or after a failure, the processed track    *)
(* otherwise, never both, unless a call was rejected to a superseded run   *)
(* or the fallback itself was.                                             *)
LiveTracks == {n \in room.tracks : run[n].pipe = "live"}

Settled == queue = <<>> /\ \A n \in Run : run[n].pc \in {"new", "done"}

RoomAgrees ==
  (/\ Settled /\ room.open /\ cur # 0
   /\ \A n \in Run : run[n].err \in {"none", "failed"}) =>
     LET w == run[cur].want
         sound == run[cur].err = "none"
     IN /\ room.raw = (w.on /\ (~w.fx \/ ~sound))
        /\ LiveTracks = IF Processing(w) /\ sound THEN {cur} ELSE {}

(* A user who mutes is heard no longer, unless they unmute or leave first, *)
(* whatever fails: the exceptions are a mute of which the call and the     *)
(* fallback were both rejected, and a superseded run that had been asked   *)
(* for the device and fails late, whose fallback switches it on again.     *)
Unmutes(n) == run[n].err = "late" /\ run[n].want.on

Muted ==
  /\ cur # 0 /\ room.open /\ ~run[cur].want.on
  /\ run[cur].err # "stuck"
  /\ \A n \in Run : ~Unmutes(n)

MuteTakesEffect == Muted ~> (~room.raw /\ LiveTracks = {}) \/ ~Muted

(* The user is not silenced by a sidecar that answered once and then       *)
(* stalls or fails: the microphone comes back, or processed voice does.    *)
Silenced == Bridged /\ bridge.gain = "voice" /\ ~bridge.fresh

VoiceComesBack == Silenced ~> ~Silenced
=============================================================================
