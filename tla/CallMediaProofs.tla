--------------------------- MODULE CallMediaProofs ---------------------------
(* What holds of the microphone and the camera of a call however often     *)
(* their effects run.                                                      *)
EXTENDS CallMedia, TLAPS

(* A run that awaits LiveKit has one call in its queue, and one that was   *)
(* begun earlier than the last is not begun again.                         *)
Waiting == {"call", "clear"}

CallsAwaited ==
  /\ \A i \in DOMAIN queue : queue[i].run <= cur
  /\ \A i \in DOMAIN queue : queue[i].awaited => run[queue[i].run].pc \in Waiting
  /\ \A i, j \in DOMAIN queue :
       i # j /\ queue[i].awaited /\ queue[j].awaited => queue[i].run # queue[j].run

(* A run that has not begun has no device.                                 *)
NotBegun == \A n \in Run : n > cur => run[n].pc = "new" /\ run[n].device = "closed"

IInv == TypeOK /\ CallsAwaited /\ NotBegun /\ OnlyCurrentPipeline /\ DeviceReleased

-----------------------------------------------------------------------------
(* Stopping a pipeline changes nothing else.                               *)
LEMMA StoppedIs ==
  ASSUME NEW rs \in [Run -> RunRecord], NEW p \in 0..MaxRuns
  PROVE  /\ Stopped(rs, p) \in [Run -> RunRecord]
         /\ \A m \in Run \ {p} : Stopped(rs, p)[m] = rs[m]
         /\ \A m \in Run : /\ Stopped(rs, p)[m].pc = rs[m].pc
                           /\ Stopped(rs, p)[m].want = rs[m].want
                           /\ Stopped(rs, p)[m].err = rs[m].err
         /\ p \in Run => Stopped(rs, p)[p].pipe = "stopped" /\ Stopped(rs, p)[p].device = "closed"
<1>1. CASE p = 0 BY <1>1, MaxRunsAssumption DEF Stopped, Run
<1>2. CASE p \in Run
  <2> DEFINE r == [rs[p] EXCEPT !.pipe = "stopped", !.device = "closed"]
  <2>1. rs[p] \in RunRecord BY <1>2
  <2>2. /\ r \in RunRecord
        /\ r.pc = rs[p].pc /\ r.want = rs[p].want /\ r.err = rs[p].err
        /\ r.pipe = "stopped" /\ r.device = "closed"
    BY <2>1 DEF RunRecord
  <2>3. p # 0 BY <1>2 DEF Run
  <2>4. Stopped(rs, p) = [rs EXCEPT ![p] = r] BY <2>3 DEF Stopped
  <2> HIDE DEF r
  <2> QED BY <1>2, <2>2, <2>4
<1> QED BY <1>1, <1>2, MaxRunsAssumption DEF Run

(* The rest of the queue after its first call.                             *)
LEMMA Served ==
  ASSUME NEW q \in Seq(CallRecord), q # <<>>
  PROVE  /\ Head(q) \in CallRecord /\ Head(q) = q[1] /\ 1 \in DOMAIN q
         /\ Tail(q) \in Seq(CallRecord)
         /\ \A i \in DOMAIN Tail(q) : i + 1 \in DOMAIN q /\ i + 1 # 1 /\ Tail(q)[i] = q[i + 1]
  OBVIOUS

LEMMA QueueRuns ==
  ASSUME NEW q \in Seq(CallRecord)
  PROVE  \A i \in DOMAIN q : q[i] \in CallRecord /\ q[i].run \in Run
<1>1. \A i \in DOMAIN q : q[i] \in CallRecord OBVIOUS
<1> QED BY <1>1 DEF CallRecord

LEMMA Appended ==
  ASSUME NEW q \in Seq(CallRecord), NEW c \in CallRecord
  PROVE  /\ Append(q, c) \in Seq(CallRecord)
         /\ \A i \in DOMAIN Append(q, c) :
              \/ i \in DOMAIN q /\ Append(q, c)[i] = q[i]
              \/ i = Len(q) + 1 /\ i \notin DOMAIN q /\ Append(q, c)[i] = c
  OBVIOUS

(* What a catch does to the runs and to the queue.                         *)
LEMMA Caught ==
  ASSUME TypeOK, NEW n \in Run, NEW rest \in Seq(CallRecord), Catch(n, rest)
  PROVE  /\ run' \in [Run -> RunRecord]
         /\ \A m \in Run \ {n} : run'[m].pc = run[m].pc /\ run'[m].err = run[m].err
         /\ run'[n].pc = "done" /\ run'[n].err \in {"late", "failed"}
         /\ \A m \in Run \ {ref} : run'[m].pipe = run[m].pipe /\ run'[m].device = run[m].device
         /\ \/ ref' = ref /\ \A m \in Run : run'[m].pipe = run[m].pipe /\ run'[m].device = run[m].device
            \/ ref' = 0 /\ (ref \in Run => run'[ref].pipe = "stopped" /\ run'[ref].device = "closed")
         /\ queue' \in Seq(CallRecord)
         /\ \A i \in DOMAIN queue' : \/ i \in DOMAIN rest /\ queue'[i] = rest[i]
                                     \/ queue'[i].run = n /\ ~queue'[i].awaited
         /\ label' = "error"
         /\ UNCHANGED <<medium, cur, room, bridge>>
<1> DEFINE rs == IF medium = "audio" THEN Stopped(run, ref) ELSE run
           e == IF Superseded(n) THEN "late" ELSE "failed"
           r == [rs[n] EXCEPT !.pc = "done", !.err = e]
           c == Call(n, run[n].want.on, FALSE)
<1>0. ref \in 0..MaxRuns /\ run \in [Run -> RunRecord] BY DEF TypeOK
<1>1. /\ rs \in [Run -> RunRecord]
      /\ \A m \in Run : rs[m].pc = run[m].pc /\ rs[m].err = run[m].err
      /\ \A m \in Run \ {ref} : rs[m].pipe = run[m].pipe /\ rs[m].device = run[m].device
      /\ \/ medium # "audio" /\ rs = run
         \/ medium = "audio" /\ (ref \in Run => rs[ref].pipe = "stopped" /\ rs[ref].device = "closed")
  BY <1>0, StoppedIs
<1>2. /\ run' = [rs EXCEPT ![n] = r]
      /\ ref' = IF medium = "audio" THEN 0 ELSE ref
      /\ queue' = Append(rest, c)
  BY DEF Catch
<1>3. label' = "error" /\ UNCHANGED <<medium, cur, room, bridge>> BY DEF Catch
<1>4. e \in {"late", "failed"} OBVIOUS
<1> HIDE DEF e, rs
<1>5. /\ r \in RunRecord /\ r.pc = "done" /\ r.err = e
      /\ r.pipe = rs[n].pipe /\ r.device = rs[n].device
  BY <1>1, <1>4 DEF RunRecord
<1> HIDE DEF r
<1>6. run' \in [Run -> RunRecord] /\ run'[n] = r /\ \A m \in Run \ {n} : run'[m] = rs[m]
  BY <1>1, <1>2, <1>5
<1>7. c \in CallRecord /\ c.run = n /\ ~c.awaited
  BY <1>0 DEF Call, CallRecord, RunRecord, Want
<1> HIDE DEF c
<1>8. /\ queue' \in Seq(CallRecord)
      /\ \A i \in DOMAIN queue' : \/ i \in DOMAIN rest /\ queue'[i] = rest[i]
                                  \/ queue'[i].run = n /\ ~queue'[i].awaited
  BY <1>2, <1>7, Appended
<1>9. \A m \in Run : run'[m].pipe = rs[m].pipe /\ run'[m].device = rs[m].device
  BY <1>5, <1>6
<1> QED BY <1>1, <1>2, <1>3, <1>4, <1>5, <1>6, <1>8, <1>9

(* What a new run of the effect does.                                      *)
LEMMA Rerunning ==
  ASSUME TypeOK, NEW w \in Want, Rerun(w)
  PROVE  /\ room.open /\ cur' = cur + 1 /\ cur' \in Run
         /\ run' \in [Run -> RunRecord]
         /\ run'[cur'].pc \in Waiting
         /\ \A m \in Run \ {cur'} : run'[m].pc = run[m].pc
         /\ \A m \in Run : run'[m].err = run[m].err
         /\ \A m \in Run \ {ref} : run'[m].pipe = run[m].pipe /\ run'[m].device = run[m].device
         /\ ref \in Run => run'[ref].pipe = "stopped" /\ run'[ref].device = "closed"
         /\ room' \in [open: BOOLEAN, raw: BOOLEAN, tracks: SUBSET Run]
         /\ queue' \in Seq(CallRecord)
         /\ \A i \in DOMAIN queue' :
              \/ i \in DOMAIN queue /\ queue'[i] = queue[i]
              \/ i = Len(queue) + 1 /\ i \notin DOMAIN queue /\ queue'[i].run = cur' /\ queue'[i].awaited
         /\ label' \in {"idle", "publishing"}
         /\ ref' = 0
         /\ UNCHANGED <<medium, bridge>>
<1> DEFINE n == cur + 1
           rs == Stopped(run, ref)
           p == IF Processing(w) THEN "clear" ELSE "call"
           r == [rs[n] EXCEPT !.want = w, !.pc = p]
           c == Call(n, w.on /\ ~w.fx, TRUE)
<1>1. cur \in 0..MaxRuns /\ ref \in 0..MaxRuns /\ run \in [Run -> RunRecord] /\ queue \in Seq(CallRecord)
      /\ room \in [open: BOOLEAN, raw: BOOLEAN, tracks: SUBSET Run]
  BY DEF TypeOK
<1>2. cur < MaxRuns /\ room.open /\ cur' = n BY DEF Rerun
<1>3. n \in Run BY <1>1, <1>2, MaxRunsAssumption DEF Run
<1>4. run' = [rs EXCEPT ![n].want = w, ![n].pc = p] BY DEF Rerun, CleanUp
<1>5. /\ rs \in [Run -> RunRecord]
      /\ \A m \in Run \ {ref} : rs[m] = run[m]
      /\ \A m \in Run : rs[m].pc = run[m].pc /\ rs[m].err = run[m].err
      /\ ref \in Run => rs[ref].pipe = "stopped" /\ rs[ref].device = "closed"
  BY <1>1, StoppedIs
<1>6. p \in Waiting BY DEF Waiting
<1> HIDE DEF rs, p
<1>7. run' = [rs EXCEPT ![n] = r] BY <1>3, <1>4, <1>5
<1>8. r \in RunRecord /\ r.pc = p /\ r.err = rs[n].err /\ r.pipe = rs[n].pipe
      /\ r.device = rs[n].device
  BY <1>3, <1>5, <1>6 DEF RunRecord, Waiting
<1> HIDE DEF r
<1>9. run' \in [Run -> RunRecord] /\ run'[n] = r /\ \A m \in Run \ {n} : run'[m] = rs[m]
  BY <1>3, <1>5, <1>7, <1>8
<1>10. room' \in [open: BOOLEAN, raw: BOOLEAN, tracks: SUBSET Run]
  BY <1>1 DEF Rerun, CleanUp
<1>11. c \in CallRecord /\ c.run = n /\ c.awaited
  BY <1>3 DEF Call, CallRecord, Want
<1>12. queue' = Append(queue, c) BY DEF Rerun
<1> HIDE DEF c
<1>13. /\ queue' \in Seq(CallRecord)
       /\ \A i \in DOMAIN queue' :
            \/ i \in DOMAIN queue /\ queue'[i] = queue[i]
            \/ i = Len(queue) + 1 /\ i \notin DOMAIN queue /\ queue'[i] = c
  BY <1>1, <1>11, <1>12, Appended
<1>14. label' \in {"idle", "publishing"} /\ ref' = 0 /\ UNCHANGED <<medium, bridge>> BY DEF Rerun
<1>15. \A m \in Run : run'[m].pipe = rs[m].pipe /\ run'[m].device = rs[m].device /\ run'[m].err = rs[m].err
  BY <1>8, <1>9
<1> QED BY <1>2, <1>3, <1>5, <1>6, <1>8, <1>9, <1>10, <1>11, <1>13, <1>14, <1>15

LEMMA Left ==
  ASSUME TypeOK, Leave
  PROVE  /\ run' \in [Run -> RunRecord]
         /\ \A m \in Run : run'[m].pc = run[m].pc /\ run'[m].err = run[m].err
         /\ \A m \in Run \ {ref} : run'[m].pipe = run[m].pipe /\ run'[m].device = run[m].device
         /\ ref \in Run => run'[ref].pipe = "stopped" /\ run'[ref].device = "closed"
         /\ room' \in [open: BOOLEAN, raw: BOOLEAN, tracks: SUBSET Run]
         /\ ref' = 0
         /\ UNCHANGED <<medium, cur, queue, label, bridge>>
<1>1. run' = Stopped(run, ref) BY DEF Leave, CleanUp
<1>2. ref \in 0..MaxRuns /\ run \in [Run -> RunRecord] BY DEF TypeOK
<1>3. room' \in [open: BOOLEAN, raw: BOOLEAN, tracks: SUBSET Run] BY DEF Leave
<1> QED BY <1>1, <1>2, <1>3, StoppedIs DEF Leave

(* A call served.                                                          *)
LEMMA Serving ==
  ASSUME TypeOK, CallsAwaited, Serve
  PROVE  /\ run' \in [Run -> RunRecord]
         /\ \A m \in Run : run'[m].pipe = run[m].pipe /\ run'[m].device = run[m].device
                           /\ run'[m].err = run[m].err
         /\ \A m \in Run : \/ run'[m].pc = run[m].pc
                           \/ m = Head(queue).run /\ Head(queue).awaited /\ run[m].pc \in Waiting
         /\ room' \in [open: BOOLEAN, raw: BOOLEAN, tracks: SUBSET Run] /\ room'.open = room.open
         /\ queue # <<>> /\ queue' = Tail(queue)
         /\ UNCHANGED <<medium, cur, ref, label, bridge>>
<1> DEFINE c == Head(queue)
           p == IF run[c.run].pc = "clear" THEN "open" ELSE "done"
           r == [run[c.run] EXCEPT !.pc = p]
<1>1. run \in [Run -> RunRecord] /\ room \in [open: BOOLEAN, raw: BOOLEAN, tracks: SUBSET Run]
  BY DEF TypeOK
<1>2. queue \in Seq(CallRecord) /\ queue # <<>> BY DEF TypeOK, Serve
<1>3. c \in CallRecord /\ c.run \in Run /\ (c.awaited => run[c.run].pc \in Waiting)
  BY <1>2, Served DEF CallsAwaited, CallRecord
<1>4. run' = IF c.awaited THEN [run EXCEPT ![c.run] = r] ELSE run
  BY <1>1, <1>3 DEF Serve
<1>5. r \in RunRecord /\ r.pipe = run[c.run].pipe /\ r.device = run[c.run].device
      /\ r.err = run[c.run].err
  BY <1>1, <1>3 DEF RunRecord
<1>6. room' \in [open: BOOLEAN, raw: BOOLEAN, tracks: SUBSET Run] /\ room'.open = room.open
  BY <1>1, <1>3 DEF Serve, CallRecord
<1>7. queue' = Tail(queue) /\ UNCHANGED <<medium, cur, ref, label, bridge>> BY DEF Serve
<1> HIDE DEF r, c
<1>8. CASE c.awaited BY <1>1, <1>2, <1>3, <1>4, <1>5, <1>6, <1>7, <1>8 DEF c
<1>9. CASE ~c.awaited BY <1>1, <1>2, <1>4, <1>6, <1>7, <1>9 DEF c
<1> QED BY <1>8, <1>9

(* The steps of a run that awaits no call of LiveKit.                      *)
LEMMA Moved ==
  ASSUME TypeOK, NEW n \in Run, Open(n) \/ Build(n) \/ Publish(n)
  PROVE  /\ run' \in [Run -> RunRecord]
         /\ \A m \in Run \ {n} : run'[m] = run[m]
         /\ run[n].pc \notin Waiting \union {"new"}
         /\ run'[n].err = run[n].err
         /\ \/ /\ run'[n].pc = "build" /\ run'[n].pipe = run[n].pipe /\ ref' = ref
            \/ /\ run'[n].pipe = "stopped" /\ run'[n].device = "closed" /\ ref' = ref
            \/ /\ run'[n].pipe = "live" /\ ref' = n /\ ~Superseded(n)
            \/ /\ run[n].pc = "publish" /\ ref' = ref
               /\ run'[n].pipe = run[n].pipe /\ run'[n].device = run[n].device
         /\ ref' \in {ref, n}
         /\ room' \in [open: BOOLEAN, raw: BOOLEAN, tracks: SUBSET Run] /\ room'.open = room.open
         /\ label' \in {"idle", "publishing", "published", "error"}
         /\ bridge' \in [gain: {"raw", "voice"}, fresh: BOOLEAN, fails: BOOLEAN, flight: BOOLEAN]
         /\ UNCHANGED <<medium, cur, queue>>
<1>1. /\ run \in [Run -> RunRecord] /\ run[n] \in RunRecord
      /\ room \in [open: BOOLEAN, raw: BOOLEAN, tracks: SUBSET Run]
      /\ label \in {"idle", "publishing", "published", "error"}
      /\ bridge \in [gain: {"raw", "voice"}, fresh: BOOLEAN, fails: BOOLEAN, flight: BOOLEAN]
  BY DEF TypeOK
<1>2. CASE Open(n)
  <2> DEFINE r == [run[n] EXCEPT !.pc = "build", !.device = "open"]
  <2>1. r \in RunRecord /\ r.pc = "build" /\ r.pipe = run[n].pipe /\ r.err = run[n].err
    BY <1>1 DEF RunRecord
  <2>2. run' = [run EXCEPT ![n] = r] BY <1>1, <1>2 DEF Open
  <2> HIDE DEF r
  <2> QED BY <1>1, <1>2, <2>1, <2>2 DEF Open, Waiting
<1>3. CASE Build(n) /\ Superseded(n)
  <2> DEFINE r == [run[n] EXCEPT !.pc = "done", !.pipe = "stopped", !.device = "closed"]
  <2>1. r \in RunRecord /\ r.pipe = "stopped" /\ r.device = "closed" /\ r.err = run[n].err
    BY <1>1 DEF RunRecord
  <2>2. run' = [run EXCEPT ![n] = r] BY <1>1, <1>3 DEF Build
  <2> HIDE DEF r
  <2> QED BY <1>1, <1>3, <2>1, <2>2 DEF Build, Waiting
<1>4. CASE Build(n) /\ ~Superseded(n)
  <2> DEFINE r == [run[n] EXCEPT !.pc = "publish", !.pipe = "live"]
  <2>1. r \in RunRecord /\ r.pipe = "live" /\ r.err = run[n].err
    BY <1>1 DEF RunRecord
  <2>2. run' = [run EXCEPT ![n] = r] BY <1>1, <1>4 DEF Build
  <2>3. SilentBridge \in [gain: {"raw", "voice"}, fresh: BOOLEAN, fails: BOOLEAN, flight: BOOLEAN]
    BY DEF SilentBridge
  <2> HIDE DEF r
  <2> QED BY <1>1, <1>4, <2>1, <2>2, <2>3 DEF Build, Waiting
<1>5. CASE Publish(n)
  <2> DEFINE r == [run[n] EXCEPT !.pc = "done"]
  <2>1. r \in RunRecord /\ r.pipe = run[n].pipe /\ r.device = run[n].device /\ r.err = run[n].err
    BY <1>1 DEF RunRecord
  <2>2. run' = [run EXCEPT ![n] = r] BY <1>1, <1>5 DEF Publish
  <2>3. room' \in [open: BOOLEAN, raw: BOOLEAN, tracks: SUBSET Run] /\ room'.open = room.open
    BY <1>1, <1>5 DEF Publish
  <2> HIDE DEF r
  <2> QED BY <1>1, <1>5, <2>1, <2>2, <2>3 DEF Publish, Waiting
<1> QED BY <1>2, <1>3, <1>4, <1>5

(* The call of a fallback rejected.                                        *)
Lost == /\ queue # <<>> /\ ~Head(queue).awaited
        /\ run' = [run EXCEPT ![Head(queue).run].err = "stuck"]
        /\ queue' = Tail(queue)
        /\ UNCHANGED <<medium, cur, ref, room, label, bridge>>

LEMMA Losing ==
  ASSUME TypeOK, Lost
  PROVE  /\ run' \in [Run -> RunRecord]
         /\ \A m \in Run : /\ run'[m].pc = run[m].pc
                           /\ run'[m].pipe = run[m].pipe /\ run'[m].device = run[m].device
                           /\ run[m].err # "none" => run'[m].err # "none"
<1> DEFINE n == Head(queue).run
           r == [run[n] EXCEPT !.err = "stuck"]
<1>1. run \in [Run -> RunRecord] /\ queue \in Seq(CallRecord) BY DEF TypeOK
<1>2. n \in Run BY <1>1, Served DEF Lost, CallRecord
<1>3. r \in RunRecord /\ r.pc = run[n].pc /\ r.pipe = run[n].pipe /\ r.device = run[n].device
      /\ r.err = "stuck"
  BY <1>1, <1>2 DEF RunRecord
<1>4. run' = [run EXCEPT ![n] = r] BY <1>1, <1>2 DEF Lost
<1> HIDE DEF r, n
<1> QED BY <1>1, <1>2, <1>3, <1>4

-----------------------------------------------------------------------------
(* The steps, as the facts above speak of them.                            *)
Rejected == /\ queue # <<>> /\ Head(queue).awaited
            /\ Catch(Head(queue).run, Tail(queue))

BridgeStep ==
  /\ bridge' \in [gain: {"raw", "voice"}, fresh: BOOLEAN, fails: BOOLEAN, flight: BOOLEAN]
  /\ UNCHANGED <<medium, run, cur, ref, room, queue, label>>

LEMMA BridgeSteps ==
  ASSUME TypeOK, SendChunk \/ GoStale \/ (\E injected \in BOOLEAN : Answer(injected)) \/ UNCHANGED vars
  PROVE  BridgeStep
<1>1. bridge \in [gain: {"raw", "voice"}, fresh: BOOLEAN, fails: BOOLEAN, flight: BOOLEAN]
  BY DEF TypeOK
<1>2. CASE SendChunk BY <1>1, <1>2 DEF SendChunk, BridgeStep
<1>3. CASE GoStale
  <2> DEFINE g == IF bridge.fails THEN "raw" ELSE bridge.gain
  <2>1. g \in {"raw", "voice"} BY <1>1
  <2>2. bridge' = [bridge EXCEPT !.fresh = FALSE, !.gain = g] BY <1>1, <1>3 DEF GoStale
  <2> HIDE DEF g
  <2> QED BY <1>1, <1>3, <2>1, <2>2 DEF GoStale, BridgeStep
<1>4. ASSUME NEW injected \in BOOLEAN, Answer(injected) PROVE BridgeStep
  <2> DEFINE g == IF injected THEN "voice" ELSE "raw"
             f == injected \/ bridge.fresh
  <2>1. g \in {"raw", "voice"} /\ f \in BOOLEAN /\ (~injected) \in BOOLEAN BY <1>1
  <2>2. bridge' = [gain |-> g, fresh |-> f, fails |-> ~injected, flight |-> FALSE]
    BY <1>4 DEF Answer
  <2> HIDE DEF g, f
  <2> QED BY <1>4, <2>1, <2>2 DEF Answer, BridgeStep
<1>5. CASE UNCHANGED vars BY <1>1, <1>5 DEF vars, BridgeStep
<1> QED BY <1>2, <1>3, <1>4, <1>5

LEMMA Steps ==
  ASSUME TypeOK, [Next]_vars
  PROVE  \/ \E w \in Want : Rerun(w)
         \/ Leave \/ Serve \/ Rejected \/ Lost \/ BridgeStep
         \/ \E n \in Run : Fail(n)
         \/ \E n \in Run : Open(n) \/ Build(n) \/ Publish(n)
<1>1. Reject => Rejected \/ Lost BY DEF Reject, Rejected, Lost
<1> QED BY <1>1, BridgeSteps DEF Next

(* The run whose call is rejected awaits it; one that fails awaits none.   *)
LEMMA RejectedIs ==
  ASSUME TypeOK, CallsAwaited, Rejected
  PROVE  /\ queue # <<>> /\ queue \in Seq(CallRecord) /\ Tail(queue) \in Seq(CallRecord)
         /\ Head(queue).run \in Run /\ Head(queue).run <= cur
         /\ Head(queue) = queue[1] /\ 1 \in DOMAIN queue
         /\ run[Head(queue).run].pc \in Waiting
  BY Served DEF TypeOK, CallsAwaited, Rejected, CallRecord

LEMMA TypeStep == ASSUME TypeOK, CallsAwaited, [Next]_vars PROVE TypeOK'
<1>1. ASSUME NEW w \in Want, Rerun(w) PROVE TypeOK'
  <2>1. cur' \in 0..MaxRuns /\ ref' \in 0..MaxRuns
    BY <1>1, Rerunning, MaxRunsAssumption DEF Run
  <2> QED BY <1>1, <2>1, Rerunning DEF TypeOK
<1>2. CASE Leave
  <2>1. ref' \in 0..MaxRuns BY <1>2, Left, MaxRunsAssumption
  <2> QED BY <1>2, <2>1, Left DEF TypeOK
<1>3. CASE Serve BY <1>3, Serving, Served DEF TypeOK
<1>4. CASE Rejected
  <2>0. ref \in 0..MaxRuns BY DEF TypeOK
  <2>1. ref' \in {0, ref} BY <1>4, RejectedIs, Caught DEF Rejected
  <2>2. ref' \in 0..MaxRuns BY <2>0, <2>1, MaxRunsAssumption
  <2> QED BY <1>4, <2>2, RejectedIs, Caught DEF TypeOK, Rejected
<1>5. CASE Lost BY <1>5, Losing, Served DEF TypeOK, Lost
<1>6. CASE BridgeStep BY <1>6 DEF TypeOK, BridgeStep
<1>7. ASSUME NEW n \in Run, Fail(n) PROVE TypeOK'
  <2>1. queue \in Seq(CallRecord) BY DEF TypeOK
  <2>2. ref' \in 0..MaxRuns BY <1>7, <2>1, Caught, MaxRunsAssumption DEF TypeOK, Fail
  <2> QED BY <1>7, <2>1, <2>2, Caught DEF TypeOK, Fail
<1>8. ASSUME NEW n \in Run, Open(n) \/ Build(n) \/ Publish(n) PROVE TypeOK'
  <2>1. ref' \in 0..MaxRuns BY <1>8, Moved, MaxRunsAssumption DEF TypeOK, Run
  <2> QED BY <1>8, <2>1, Moved DEF TypeOK
<1> QED BY <1>1, <1>2, <1>3, <1>4, <1>5, <1>6, <1>7, <1>8, Steps

LEMMA NotBegunStep == ASSUME TypeOK, CallsAwaited, NotBegun, [Next]_vars PROVE NotBegun'
<1> USE DEF NotBegun
<1>0. cur \in 0..MaxRuns /\ ref \in 0..MaxRuns /\ queue \in Seq(CallRecord) BY DEF TypeOK
<1>1. ASSUME NEW w \in Want, Rerun(w) PROVE NotBegun'
  BY <1>0, <1>1, Rerunning DEF Run
<1>2. CASE Leave BY <1>0, <1>2, Left DEF Run
<1>3. CASE Serve BY <1>3, Serving DEF Waiting
<1>4. ASSUME NEW n \in Run, NEW rest \in Seq(CallRecord), Catch(n, rest), run[n].pc # "new"
      PROVE  NotBegun'
  <2>1. n <= cur BY <1>0, <1>4 DEF Run
  <2> QED BY <1>0, <1>4, <2>1, Caught DEF Run
<1>5. CASE Rejected
  BY <1>4, <1>5, RejectedIs DEF Rejected, Waiting
<1>6. CASE Lost BY <1>6, Losing DEF Lost
<1>7. CASE BridgeStep BY <1>7 DEF BridgeStep
<1>8. ASSUME NEW n \in Run, Fail(n) PROVE NotBegun'
  BY <1>0, <1>4, <1>8 DEF Fail
<1>9. ASSUME NEW n \in Run, Open(n) \/ Build(n) \/ Publish(n) PROVE NotBegun'
  <2>1. n <= cur BY <1>0, <1>9, Moved DEF Run
  <2> QED BY <1>0, <1>9, <2>1, Moved DEF Run
<1> QED BY <1>1, <1>2, <1>3, <1>5, <1>6, <1>7, <1>8, <1>9, Steps

(* Whatever was waited for, only the last run installs a pipeline.         *)
LEMMA PipelineStep ==
  ASSUME TypeOK, CallsAwaited, OnlyCurrentPipeline, [Next]_vars PROVE OnlyCurrentPipeline'
<1> USE DEF OnlyCurrentPipeline
<1>0. cur \in 0..MaxRuns /\ ref \in 0..MaxRuns /\ queue \in Seq(CallRecord) BY DEF TypeOK
<1>1. ASSUME NEW w \in Want, Rerun(w) PROVE OnlyCurrentPipeline'
  BY <1>0, <1>1, Rerunning DEF Run
<1>2. CASE Leave BY <1>0, <1>2, Left DEF Run
<1>3. CASE Serve BY <1>3, Serving
<1>4. ASSUME NEW n \in Run, NEW rest \in Seq(CallRecord), Catch(n, rest)
      PROVE  OnlyCurrentPipeline'
  BY <1>0, <1>4, Caught DEF Run
<1>5. CASE Rejected BY <1>4, <1>5, RejectedIs DEF Rejected
<1>6. CASE Lost BY <1>6, Losing DEF Lost
<1>7. CASE BridgeStep BY <1>7 DEF BridgeStep
<1>8. ASSUME NEW n \in Run, Fail(n) PROVE OnlyCurrentPipeline'
  BY <1>0, <1>4, <1>8 DEF Fail
<1>9. ASSUME NEW n \in Run, Open(n) \/ Build(n) \/ Publish(n) PROVE OnlyCurrentPipeline'
  <2>1. CASE run'[n].pipe = "live" /\ ref' = n /\ ~Superseded(n)
    BY <1>9, <2>1, Moved DEF Superseded
  <2>2. CASE run'[n].pipe \in {run[n].pipe, "stopped"} /\ ref' = ref
    BY <1>9, <2>2, Moved
  <2> QED BY <1>9, <2>1, <2>2, Moved
<1> QED BY <1>1, <1>2, <1>3, <1>5, <1>6, <1>7, <1>8, <1>9, Steps

LEMMA DeviceStep ==
  ASSUME TypeOK, CallsAwaited, NotBegun, DeviceReleased, [Next]_vars PROVE DeviceReleased'
<1> USE DEF DeviceReleased
<1>0. cur \in 0..MaxRuns /\ ref \in 0..MaxRuns /\ queue \in Seq(CallRecord) BY DEF TypeOK
<1>1. ASSUME NEW w \in Want, Rerun(w) PROVE DeviceReleased'
  <2>1. run[cur'].device = "closed" BY <1>0, <1>1, Rerunning DEF NotBegun, Run
  <2> QED BY <1>0, <1>1, <2>1, Rerunning DEF Run
<1>2. CASE Leave BY <1>0, <1>2, Left DEF Run
<1>3. CASE Serve BY <1>3, Serving DEF Waiting
<1>4. ASSUME NEW n \in Run, NEW rest \in Seq(CallRecord), Catch(n, rest)
      PROVE  DeviceReleased'
  BY <1>0, <1>4, Caught DEF Run
<1>5. CASE Rejected BY <1>4, <1>5, RejectedIs DEF Rejected
<1>6. CASE Lost BY <1>6, Losing DEF Lost
<1>7. CASE BridgeStep BY <1>7 DEF BridgeStep
<1>8. ASSUME NEW n \in Run, Fail(n) PROVE DeviceReleased'
  BY <1>0, <1>4, <1>8 DEF Fail
<1>9. ASSUME NEW n \in Run, Open(n) \/ Build(n) \/ Publish(n) PROVE DeviceReleased'
  <2>1. ASSUME NEW m \in Run, run'[m].device = "open"
        PROVE  run'[m].pc = "build" \/ run'[m].pipe = "live" \/ run'[m].err # "none"
    <3>1. CASE m # n BY <1>9, <2>1, <3>1, Moved
    <3>2. CASE m = n BY <1>9, <2>1, <3>2, Moved
    <3> QED BY <3>1, <3>2
  <2> QED BY <2>1
<1> QED BY <1>1, <1>2, <1>3, <1>5, <1>6, <1>7, <1>8, <1>9, Steps

(* A call is awaited by its run until it is served or rejected.            *)
LEMMA CallsStep == ASSUME TypeOK, CallsAwaited, NotBegun, [Next]_vars PROVE CallsAwaited'
<1> USE DEF CallsAwaited
<1>0. cur \in 0..MaxRuns /\ ref \in 0..MaxRuns /\ queue \in Seq(CallRecord) BY DEF TypeOK
<1>1. ASSUME NEW w \in Want, Rerun(w) PROVE CallsAwaited'
  <2>1. \A i \in DOMAIN queue : queue[i].run \in Run /\ queue[i].run # cur'
    <3>1. \A i \in DOMAIN queue : queue[i].run \in Run /\ queue[i].run <= cur
      BY <1>0, QueueRuns
    <3> QED BY <1>0, <1>1, <3>1, Rerunning DEF Run
  <2>2. /\ cur' = cur + 1 /\ run'[cur'].pc \in Waiting
        /\ \A m \in Run \ {cur'} : run'[m].pc = run[m].pc
        /\ \A i \in DOMAIN queue' :
             \/ i \in DOMAIN queue /\ queue'[i] = queue[i]
             \/ i = Len(queue) + 1 /\ i \notin DOMAIN queue /\ queue'[i].run = cur' /\ queue'[i].awaited
    BY <1>1, Rerunning
  <2>3. \A i \in DOMAIN queue' : queue'[i].run <= cur'
    <3>1. \A i \in DOMAIN queue : queue[i].run <= cur + 1 BY <1>0, <2>1 DEF Run
    <3> QED BY <1>0, <2>2, <3>1
  <2>4. \A i \in DOMAIN queue' : queue'[i].awaited => run'[queue'[i].run].pc \in Waiting
    <3>1. \A i \in DOMAIN queue : queue[i].awaited => run'[queue[i].run].pc \in Waiting
      BY <2>1, <2>2
    <3> QED BY <2>2, <3>1
  <2>5. \A i, j \in DOMAIN queue' :
          i # j /\ queue'[i].awaited /\ queue'[j].awaited => queue'[i].run # queue'[j].run
    BY <2>1, <2>2
  <2> QED BY <2>3, <2>4, <2>5
<1>2. CASE Leave
  <2>1. \A i \in DOMAIN queue : queue[i].run \in Run BY <1>0, QueueRuns
  <2> QED BY <1>0, <1>2, <2>1, Left
(* The first call taken from the queue, its run alone waiting no longer.   *)
<1>3. ASSUME queue # <<>>, cur' = cur, NEW rest, rest = Tail(queue),
             \A i \in DOMAIN queue' : \/ i \in DOMAIN rest /\ queue'[i] = rest[i]
                                      \/ ~queue'[i].awaited /\ queue'[i].run <= cur,
             \A m \in Run : run'[m].pc = run[m].pc \/ (Head(queue).awaited /\ m = Head(queue).run)
      PROVE  CallsAwaited'
  <2>1. /\ 1 \in DOMAIN queue /\ Head(queue) = queue[1]
        /\ \A i \in DOMAIN rest : i + 1 \in DOMAIN queue /\ i + 1 # 1 /\ rest[i] = queue[i + 1]
    BY <1>0, <1>3, Served
  <2>2. \A i \in DOMAIN queue : queue[i].run \in Run BY <1>0, QueueRuns
  <2>3. \A i \in DOMAIN rest : rest[i].run \in Run /\ rest[i].run <= cur BY <2>1, <2>2
  <2>4. \A i \in DOMAIN rest : rest[i].awaited => run'[rest[i].run].pc \in Waiting
    BY <1>3, <2>1, <2>2
  <2>5. \A i, j \in DOMAIN rest :
          i # j /\ rest[i].awaited /\ rest[j].awaited => rest[i].run # rest[j].run
    <3> SUFFICES ASSUME NEW i \in DOMAIN rest, NEW j \in DOMAIN rest, i # j,
                        rest[i].awaited, rest[j].awaited
                 PROVE  rest[i].run # rest[j].run
      OBVIOUS
    <3>1. i \in Nat /\ j \in Nat BY <1>0, <1>3, Served
    <3>2. i + 1 # j + 1 BY <3>1
    <3> QED BY <2>1, <3>2
  <2>6. \A i \in DOMAIN queue' : queue'[i].run <= cur' BY <1>3, <2>3
  <2>7. \A i \in DOMAIN queue' : queue'[i].awaited => run'[queue'[i].run].pc \in Waiting
    BY <1>3, <2>4
  <2>8. \A i, j \in DOMAIN queue' :
          i # j /\ queue'[i].awaited /\ queue'[j].awaited => queue'[i].run # queue'[j].run
    BY <1>3, <2>5
  <2> QED BY <2>6, <2>7, <2>8
<1>4. CASE Serve
  <2>1. \A m \in Run : run'[m].pc = run[m].pc \/ (Head(queue).awaited /\ m = Head(queue).run)
    BY <1>4, Serving
  <2>2. queue # <<>> /\ queue' = Tail(queue) /\ cur' = cur BY <1>4, Serving
  <2>3. \A i \in DOMAIN queue' : i \in DOMAIN Tail(queue) /\ queue'[i] = Tail(queue)[i] BY <2>2
  <2> QED BY <1>3, <2>1, <2>2, <2>3
<1>5. ASSUME NEW n \in Run, NEW rest \in Seq(CallRecord), queue # <<>>, Catch(n, rest),
             n = Head(queue).run, rest = Tail(queue), Head(queue).awaited, n <= cur
      PROVE  CallsAwaited'
  <2> n \in Run /\ rest \in Seq(CallRecord) /\ Catch(n, rest) BY <1>5
  <2>0. /\ \A m \in Run \ {n} : run'[m].pc = run[m].pc
        /\ \A i \in DOMAIN queue' : \/ i \in DOMAIN rest /\ queue'[i] = rest[i]
                                    \/ queue'[i].run = n /\ ~queue'[i].awaited
    BY Caught
  <2>1. \A m \in Run : run'[m].pc = run[m].pc \/ (Head(queue).awaited /\ m = Head(queue).run)
    BY <1>5, <2>0
  <2>2. \A i \in DOMAIN queue' : \/ i \in DOMAIN rest /\ queue'[i] = rest[i]
                                 \/ ~queue'[i].awaited /\ queue'[i].run <= cur
    BY <1>5, <2>0
  <2>3. cur' = cur BY <1>5, Caught
  <2> QED BY <1>3, <1>5, <2>1, <2>2, <2>3
<1>6. CASE Lost
  <2>1. \A m \in Run : run'[m].pc = run[m].pc BY <1>6, Losing
  <2>2. queue # <<>> /\ queue' = Tail(queue) /\ cur' = cur BY <1>6 DEF Lost
  <2>3. \A i \in DOMAIN queue' : i \in DOMAIN Tail(queue) /\ queue'[i] = Tail(queue)[i] BY <2>2
  <2> QED BY <1>3, <2>1, <2>2, <2>3
<1>7. CASE BridgeStep BY <1>7 DEF BridgeStep
(* A step of a run that awaits no call: the calls of the others stand.     *)
<1>8. ASSUME NEW n \in Run, run[n].pc \notin Waiting, cur' = cur,
             \A m \in Run \ {n} : run'[m].pc = run[m].pc,
             \A i \in DOMAIN queue' : \/ i \in DOMAIN queue /\ queue'[i] = queue[i]
                                      \/ ~queue'[i].awaited /\ queue'[i].run <= cur
      PROVE  CallsAwaited'
  <2>1. \A i \in DOMAIN queue : queue[i].run \in Run BY <1>0, QueueRuns
  <2>2. \A i \in DOMAIN queue : queue[i].awaited => run'[queue[i].run].pc \in Waiting
    BY <1>8, <2>1
  <2>3. \A i \in DOMAIN queue' : queue'[i].run <= cur' BY <1>8
  <2>4. \A i \in DOMAIN queue' : queue'[i].awaited => run'[queue'[i].run].pc \in Waiting
    BY <1>8, <2>2
  <2>5. \A i, j \in DOMAIN queue' :
          i # j /\ queue'[i].awaited /\ queue'[j].awaited => queue'[i].run # queue'[j].run
    BY <1>8
  <2> QED BY <2>3, <2>4, <2>5
<1>9. ASSUME NEW n \in Run, Fail(n) PROVE CallsAwaited'
  <2>1. Catch(n, queue) /\ run[n].pc \in {"open", "build", "publish"} BY <1>9 DEF Fail
  <2>2. n <= cur BY <1>0, <2>1 DEF NotBegun, Run
  <2>3. run[n].pc \notin Waiting BY <2>1 DEF Waiting
  <2>4. /\ cur' = cur
        /\ \A m \in Run \ {n} : run'[m].pc = run[m].pc
        /\ \A i \in DOMAIN queue' : \/ i \in DOMAIN queue /\ queue'[i] = queue[i]
                                    \/ ~queue'[i].awaited /\ queue'[i].run <= cur
    BY <1>0, <2>1, <2>2, Caught
  <2> QED BY <1>8, <2>3, <2>4
<1>10. ASSUME NEW n \in Run, Open(n) \/ Build(n) \/ Publish(n) PROVE CallsAwaited'
  BY <1>8, <1>10, Moved
<1>11. CASE Rejected BY <1>5, <1>11, RejectedIs DEF Rejected
<1> QED BY <1>1, <1>2, <1>4, <1>6, <1>7, <1>9, <1>10, <1>11, Steps

LEMMA InitInv == Init => IInv
<1> SUFFICES ASSUME Init PROVE IInv OBVIOUS
<1>1. Idle \in RunRecord /\ Idle.pc = "new" /\ Idle.device = "closed" /\ Idle.pipe = "none"
  BY DEF Idle, RunRecord, Want
<1>2. SilentBridge \in [gain: {"raw", "voice"}, fresh: BOOLEAN, fails: BOOLEAN, flight: BOOLEAN]
  BY DEF SilentBridge
<1>3. TypeOK BY <1>1, <1>2, MaxRunsAssumption DEF Init, TypeOK
<1>4. \A n \in Run : run[n] = Idle BY DEF Init
<1>5. NotBegun /\ OnlyCurrentPipeline /\ DeviceReleased
  BY <1>1, <1>4 DEF NotBegun, OnlyCurrentPipeline, DeviceReleased
<1>6. CallsAwaited BY DEF Init, CallsAwaited
<1> QED BY <1>3, <1>5, <1>6 DEF IInv

LEMMA InvStep == IInv /\ [Next]_vars => IInv'
  BY TypeStep, CallsStep, NotBegunStep, PipelineStep, DeviceStep DEF IInv

THEOREM Invariance == Spec => []IInv
  BY InitInv, InvStep, PTL DEF Spec

-----------------------------------------------------------------------------
(* The state of the effect keeps its type.                                 *)
THEOREM TypeCorrect == Spec => []TypeOK
<1>1. IInv => TypeOK BY DEF IInv
<1> QED BY Invariance, <1>1, PTL

(* However often the effect runs, and whatever fails, a live pipeline is   *)
(* the one in ref, of the last run, of a screen that is there.             *)
THEOREM PipelineIsCurrent == Spec => []OnlyCurrentPipeline
<1>1. IInv => OnlyCurrentPipeline BY DEF IInv
<1> QED BY Invariance, <1>1, PTL

(* A device is given back unless making or publishing its track failed.    *)
THEOREM DeviceGivenBack == Spec => []DeviceReleased
<1>1. IInv => DeviceReleased BY DEF IInv
<1> QED BY Invariance, <1>1, PTL
-----------------------------------------------------------------------------
(* What the room carries.  The raw device follows the last call made, which *)
(* is that of the last run, of its fallback if it failed: served first or  *)
(* last, the calls of the runs before it do not count.  The processed track *)
(* of the last run is live from its publication on, and no run that failed *)
(* has a track in the room.                                                *)
Asked(n) == run[n].want.on /\ (run[n].err = "failed" \/ ~run[n].want.fx)

LastCall == IF Len(queue) = 0 THEN room.raw ELSE queue[Len(queue)].on

(* A run fails once, at its end, and one without an effect makes no        *)
(* pipeline.                                                               *)
FailedAtEnd == \A n \in Run : run[n].err # "none" => run[n].pc = "done"

Plain ==
  \A n \in Run :
    /\ run[n].pc = "call" => ~Processing(run[n].want)
    /\ ~Processing(run[n].want) =>
         run[n].pc \in {"new", "call", "done"} /\ run[n].pipe # "live"

(* No call was rejected to a superseded run, and no fallback was.          *)
Unspoiled == room.open /\ \A n \in Run : run[n].err \in {"none", "failed"}

TracksSound == \A n \in room.tracks : run[n].pc = "done" /\ run[n].err = "none"

CurrentHeard ==
  Processing(run[cur].want) /\ run[cur].err = "none" =>
    /\ run[cur].pc = "publish" => run[cur].pipe = "live"
    /\ run[cur].pc = "done" => run[cur].pipe = "live" /\ cur \in room.tracks

(* A run that was begun stays begun, and one that made a call in its catch *)
(* is at its end.                                                          *)
Begun == \A n \in Run : n <= cur => run[n].pc # "new"

FallbacksDone ==
  \A i \in DOMAIN queue : ~queue[i].awaited => run[queue[i].run].pc = "done"

RoomInv ==
  /\ FailedAtEnd /\ Plain /\ Begun /\ FallbacksDone
  /\ Unspoiled => TracksSound /\ (cur # 0 => LastCall = Asked(cur) /\ CurrentHeard)

LEMMA LastAppended ==
  ASSUME NEW q \in Seq(CallRecord), NEW c \in CallRecord
  PROVE  Len(Append(q, c)) # 0 /\ Append(q, c)[Len(Append(q, c))] = c
  OBVIOUS

LEMMA LastServed ==
  ASSUME NEW q \in Seq(CallRecord), q # <<>>
  PROVE  Len(q) # 0 /\ IF Len(Tail(q)) = 0 THEN Head(q) = q[Len(q)] ELSE Tail(q)[Len(Tail(q))] = q[Len(q)]
<1>1. Len(q) \in Nat \ {0} /\ Len(Tail(q)) = Len(q) - 1 /\ Head(q) = q[1] OBVIOUS
<1>2. CASE Len(q) = 1 BY <1>1, <1>2
<1>3. CASE Len(q) # 1
  <2> DEFINE k == Len(q) - 1
  <2>1. k \in 1..Len(Tail(q)) /\ k + 1 = Len(q) BY <1>1, <1>3
  <2>2. Tail(q)[k] = q[k + 1] BY <2>1
  <2>3. Len(Tail(q)) # 0 BY <1>1, <1>3
  <2> QED BY <1>1, <2>1, <2>2, <2>3
<1> QED BY <1>2, <1>3

(* What a new run does to the room: the tracks of the last one go, and its *)
(* call is now the last.                                                   *)
LEMMA RerunRoom ==
  ASSUME TypeOK, NEW w \in Want, Rerun(w)
  PROVE  /\ run'[cur'].want = w /\ run'[cur'].pc = IF Processing(w) THEN "clear" ELSE "call"
         /\ \A m \in Run \ {cur'} : run'[m].want = run[m].want
         /\ room'.open = room.open /\ room'.tracks = room.tracks \ {cur}
         /\ LastCall' = (w.on /\ ~w.fx)
<1> DEFINE n == cur + 1
           p == IF Processing(w) THEN "clear" ELSE "call"
           rs == Stopped(run, ref)
           r == [rs[n] EXCEPT !.want = w, !.pc = p]
           c == Call(n, w.on /\ ~w.fx, TRUE)
<1>1. /\ cur \in 0..MaxRuns /\ ref \in 0..MaxRuns /\ run \in [Run -> RunRecord]
      /\ queue \in Seq(CallRecord)
      /\ room \in [open: BOOLEAN, raw: BOOLEAN, tracks: SUBSET Run]
  BY DEF TypeOK
<1>2. cur' = n /\ n \in Run BY Rerunning DEF Rerun
<1>3. run' = [rs EXCEPT ![n].want = w, ![n].pc = p] /\ queue' = Append(queue, c)
      /\ room' = [room EXCEPT !.tracks = room.tracks \ {cur}]
  BY DEF Rerun, CleanUp
<1>4. rs \in [Run -> RunRecord] /\ \A m \in Run : rs[m].want = run[m].want
  BY <1>1, StoppedIs
<1>5. c \in CallRecord /\ c.on = (w.on /\ ~w.fx)
  BY <1>2 DEF Call, CallRecord, Want
<1> HIDE DEF c, rs, p
<1>6. run' = [rs EXCEPT ![n] = r] BY <1>2, <1>3, <1>4
<1>7. r.want = w /\ r.pc = p BY <1>2, <1>4 DEF RunRecord
<1> HIDE DEF r
<1>8. LastCall' = c.on BY <1>1, <1>3, <1>5, LastAppended DEF LastCall
<1> HIDE DEF n
<1>9. run'[n] = r /\ \A m \in Run \ {n} : run'[m] = rs[m] BY <1>2, <1>4, <1>6
<1>10. run'[cur'].want = w /\ run'[cur'].pc = p BY <1>2, <1>7, <1>9
<1>11. \A m \in Run \ {cur'} : run'[m].want = run[m].want BY <1>2, <1>4, <1>9
<1>12. room'.open = room.open /\ room'.tracks = room.tracks \ {cur} BY <1>1, <1>3
<1> QED BY <1>5, <1>8, <1>10, <1>11, <1>12 DEF p

(* A call that is served is no longer waited for; until then the last call *)
(* made stays the last.                                                    *)
LEMMA ServeRoom ==
  ASSUME TypeOK, CallsAwaited, Serve
  PROVE  /\ \A m \in Run : run'[m].want = run[m].want
         /\ \A m \in Run : \/ run'[m].pc = run[m].pc
                           \/ run[m].pc = "clear" /\ run'[m].pc = "open"
                           \/ run[m].pc = "call" /\ run'[m].pc = "done"
         /\ room'.tracks = room.tracks
         /\ room.open => LastCall' = LastCall
<1> DEFINE c == Head(queue)
           p == IF run[c.run].pc = "clear" THEN "open" ELSE "done"
           r == [run[c.run] EXCEPT !.pc = p]
<1>1. run \in [Run -> RunRecord] /\ room \in [open: BOOLEAN, raw: BOOLEAN, tracks: SUBSET Run]
      /\ queue \in Seq(CallRecord) /\ queue # <<>>
  BY DEF TypeOK, Serve
<1>2. c \in CallRecord /\ c.run \in Run /\ (c.awaited => run[c.run].pc \in Waiting)
  BY <1>1, Served DEF CallsAwaited, CallRecord
<1>3. run' = IF c.awaited THEN [run EXCEPT ![c.run] = r] ELSE run
  BY <1>1, <1>2 DEF Serve
<1>4. r.want = run[c.run].want /\ r.pc = p BY <1>1, <1>2 DEF RunRecord
<1>5. room' = [room EXCEPT !.raw = IF room.open THEN c.on ELSE @] /\ queue' = Tail(queue)
  BY DEF Serve
<1>6. room.open => LastCall' = LastCall
  BY <1>1, <1>5, LastServed DEF LastCall
<1>7. c.awaited => \/ run[c.run].pc = "clear" /\ p = "open"
                   \/ run[c.run].pc = "call" /\ p = "done"
  BY <1>2 DEF Waiting
<1> HIDE DEF r, p
<1>8. \A m \in Run : run'[m] = run[m] \/ (m = c.run /\ c.awaited /\ run'[m] = r)
  BY <1>1, <1>2, <1>3
<1>9. room'.tracks = room.tracks BY <1>1, <1>5
<1> HIDE DEF c
<1>10. \A m \in Run : run'[m].want = run[m].want BY <1>4, <1>8
<1>11. ASSUME NEW m \in Run
       PROVE  \/ run'[m].pc = run[m].pc
              \/ run[m].pc = "clear" /\ run'[m].pc = "open"
              \/ run[m].pc = "call" /\ run'[m].pc = "done"
  BY <1>4, <1>7, <1>8
<1> QED BY <1>6, <1>9, <1>10, <1>11

(* After a catch the last call is that of the fallback.                    *)
LEMMA CatchRoom ==
  ASSUME TypeOK, NEW n \in Run, NEW rest \in Seq(CallRecord), Catch(n, rest)
  PROVE  /\ \A m \in Run : run'[m].want = run[m].want
         /\ run'[n].err = IF Superseded(n) THEN "late" ELSE "failed"
         /\ LastCall' = run[n].want.on
<1> DEFINE rs == IF medium = "audio" THEN Stopped(run, ref) ELSE run
           e == IF Superseded(n) THEN "late" ELSE "failed"
           r == [rs[n] EXCEPT !.pc = "done", !.err = e]
           c == Call(n, run[n].want.on, FALSE)
<1>1. ref \in 0..MaxRuns /\ run \in [Run -> RunRecord] BY DEF TypeOK
<1>2. rs \in [Run -> RunRecord] /\ \A m \in Run : rs[m].want = run[m].want
  BY <1>1, StoppedIs
<1>3. run' = [rs EXCEPT ![n] = r] /\ queue' = Append(rest, c) BY DEF Catch
<1>4. c \in CallRecord /\ c.on = run[n].want.on
  BY <1>1 DEF Call, CallRecord, RunRecord, Want
<1> HIDE DEF rs, e, c
<1>5. r.want = rs[n].want /\ r.err = e BY <1>2 DEF RunRecord
<1> HIDE DEF r
<1>6. run'[n] = r /\ \A m \in Run \ {n} : run'[m] = rs[m] BY <1>2, <1>3
<1>7. LastCall' = c.on BY <1>3, <1>4, LastAppended DEF LastCall
<1> QED BY <1>2, <1>4, <1>5, <1>6, <1>7 DEF e

(* A run that awaits no call: it publishes what it made if it is current.  *)
LEMMA MoveRoom ==
  ASSUME TypeOK, NEW n \in Run, Open(n) \/ Build(n) \/ Publish(n)
  PROVE  /\ run'[n].want = run[n].want
         /\ \/ run[n].pc = "open" /\ run'[n].pc = "build" /\ UNCHANGED room
            \/ run[n].pc = "build" /\ Superseded(n) /\ run'[n].pc = "done" /\ UNCHANGED room
            \/ /\ run[n].pc = "build" /\ run'[n].pc = "publish" /\ run'[n].pipe = "live"
               /\ UNCHANGED room
            \/ /\ run[n].pc = "publish" /\ run'[n].pc = "done" /\ run'[n].pipe = run[n].pipe
               /\ room'.tracks = IF room.open THEN room.tracks \union {n} ELSE room.tracks
         /\ LastCall' = LastCall
<1>1. run \in [Run -> RunRecord] /\ run[n] \in RunRecord
      /\ room \in [open: BOOLEAN, raw: BOOLEAN, tracks: SUBSET Run]
  BY DEF TypeOK
<1>2. CASE Open(n)
  <2> DEFINE r == [run[n] EXCEPT !.pc = "build", !.device = "open"]
  <2>1. r.pc = "build" /\ r.want = run[n].want BY <1>1 DEF RunRecord
  <2>2. run' = [run EXCEPT ![n] = r] BY <1>1, <1>2 DEF Open
  <2> HIDE DEF r
  <2> QED BY <1>1, <1>2, <2>1, <2>2 DEF Open, LastCall
<1>3. CASE Build(n) /\ Superseded(n)
  <2> DEFINE r == [run[n] EXCEPT !.pc = "done", !.pipe = "stopped", !.device = "closed"]
  <2>1. r.pc = "done" /\ r.want = run[n].want BY <1>1 DEF RunRecord
  <2>2. run' = [run EXCEPT ![n] = r] BY <1>1, <1>3 DEF Build
  <2> HIDE DEF r
  <2> QED BY <1>1, <1>3, <2>1, <2>2 DEF Build, LastCall
<1>4. CASE Build(n) /\ ~Superseded(n)
  <2> DEFINE r == [run[n] EXCEPT !.pc = "publish", !.pipe = "live"]
  <2>1. r.pc = "publish" /\ r.pipe = "live" /\ r.want = run[n].want BY <1>1 DEF RunRecord
  <2>2. run' = [run EXCEPT ![n] = r] BY <1>1, <1>4 DEF Build
  <2> HIDE DEF r
  <2> QED BY <1>1, <1>4, <2>1, <2>2 DEF Build, LastCall
<1>5. CASE Publish(n)
  <2> DEFINE r == [run[n] EXCEPT !.pc = "done"]
  <2>1. r.pc = "done" /\ r.pipe = run[n].pipe /\ r.want = run[n].want BY <1>1 DEF RunRecord
  <2>2. run' = [run EXCEPT ![n] = r] BY <1>1, <1>5 DEF Publish
  <2>3. /\ room'.tracks = IF room.open THEN room.tracks \union {n} ELSE room.tracks
        /\ room'.raw = room.raw /\ queue' = queue
    BY <1>1, <1>5 DEF Publish
  <2> HIDE DEF r
  <2> QED BY <1>1, <1>5, <2>1, <2>2, <2>3 DEF Publish, LastCall
<1> QED BY <1>2, <1>3, <1>4, <1>5

LEMMA BegunStep == ASSUME TypeOK, CallsAwaited, Begun, [Next]_vars PROVE Begun'
<1> USE DEF Begun
<1>0. cur \in 0..MaxRuns /\ queue \in Seq(CallRecord) BY DEF TypeOK
<1>1. ASSUME NEW w \in Want, Rerun(w) PROVE Begun'
  <2>1. /\ cur' = cur + 1 /\ run'[cur'].pc \in Waiting
        /\ \A m \in Run \ {cur'} : run'[m].pc = run[m].pc
    BY <1>1, Rerunning
  <2> QED BY <1>0, <2>1 DEF Run, Waiting
<1>2. CASE Leave BY <1>2, Left
<1>3. CASE Serve
  <2>1. \A m \in Run : run'[m].pc = run[m].pc \/ run'[m].pc \in {"open", "done"}
    BY <1>3, ServeRoom
  <2> QED BY <1>3, <2>1, Serving
<1>4. ASSUME NEW n \in Run, NEW rest \in Seq(CallRecord), Catch(n, rest) PROVE Begun'
  BY <1>4, Caught
<1>5. CASE Lost BY <1>5, Losing DEF Lost
<1>6. CASE BridgeStep BY <1>6 DEF BridgeStep
<1>7. ASSUME NEW n \in Run, Open(n) \/ Build(n) \/ Publish(n) PROVE Begun'
  <2>1. \A m \in Run \ {n} : run'[m] = run[m] BY <1>7, Moved
  <2>2. run'[n].pc \in {"build", "publish", "done"} /\ cur' = cur BY <1>7, Moved, MoveRoom
  <2> QED BY <2>1, <2>2
<1>8. CASE Rejected BY <1>4, <1>8, RejectedIs DEF Rejected
<1>9. ASSUME NEW n \in Run, Fail(n) PROVE Begun' BY <1>0, <1>4, <1>9 DEF Fail
<1> QED BY <1>1, <1>2, <1>3, <1>5, <1>6, <1>7, <1>8, <1>9, Steps

(* A run at its end stays there, and one gets there with its catch.        *)
LEMMA FallbacksStep ==
  ASSUME TypeOK, CallsAwaited, NotBegun, FallbacksDone, [Next]_vars
  PROVE  FallbacksDone'
<1> USE DEF FallbacksDone
<1>0. cur \in 0..MaxRuns /\ queue \in Seq(CallRecord) BY DEF TypeOK
<1>1. \A i \in DOMAIN queue : queue[i].run \in Run /\ queue[i].run <= cur
  BY <1>0, QueueRuns DEF CallsAwaited
<1>2. ASSUME NEW w \in Want, Rerun(w) PROVE FallbacksDone'
  <2>1. /\ cur' = cur + 1
        /\ \A m \in Run \ {cur'} : run'[m].pc = run[m].pc
        /\ \A i \in DOMAIN queue' :
             \/ i \in DOMAIN queue /\ queue'[i] = queue[i]
             \/ i = Len(queue) + 1 /\ i \notin DOMAIN queue /\ queue'[i].run = cur' /\ queue'[i].awaited
    BY <1>2, Rerunning
  <2>2. \A i \in DOMAIN queue : queue[i].run # cur' BY <1>0, <1>1, <2>1 DEF Run
  <2>3. \A i \in DOMAIN queue : ~queue[i].awaited => run'[queue[i].run].pc = "done"
    BY <1>1, <2>1, <2>2
  <2> QED BY <2>1, <2>3
<1>3. CASE Leave BY <1>1, <1>3, Left
(* A step after which the calls left in the queue, and the runs at their   *)
(* end, are those of before.                                               *)
<1>4. ASSUME NEW rest, rest = queue \/ (queue # <<>> /\ rest = Tail(queue)),
             \A i \in DOMAIN queue' : \/ i \in DOMAIN rest /\ queue'[i] = rest[i]
                                      \/ run'[queue'[i].run].pc = "done",
             \A m \in Run : run[m].pc = "done" => run'[m].pc = "done"
      PROVE  FallbacksDone'
  <2>1. \A i \in DOMAIN rest : \E j \in DOMAIN queue : rest[i] = queue[j]
    BY <1>0, <1>4, Served
  <2>2. \A i \in DOMAIN rest : ~rest[i].awaited => run'[rest[i].run].pc = "done"
    BY <1>1, <1>4, <2>1
  <2> QED BY <1>4, <2>2
<1>5. CASE Serve
  <2>1. \A m \in Run : run[m].pc = "done" => run'[m].pc = "done" BY <1>5, ServeRoom
  <2>2. queue # <<>> /\ queue' = Tail(queue) BY <1>5, Serving
  <2> QED BY <1>4, <2>1, <2>2
<1>6. ASSUME NEW n \in Run, NEW rest \in Seq(CallRecord), Catch(n, rest),
             rest = queue \/ (queue # <<>> /\ rest = Tail(queue))
      PROVE  FallbacksDone'
  <2>1. /\ \A m \in Run : run[m].pc = "done" => run'[m].pc = "done"
        /\ \A i \in DOMAIN queue' : \/ i \in DOMAIN rest /\ queue'[i] = rest[i]
                                    \/ run'[queue'[i].run].pc = "done"
    BY <1>6, Caught
  <2> QED BY <1>4, <1>6, <2>1
<1>7. CASE Lost
  <2>1. \A m \in Run : run'[m].pc = run[m].pc BY <1>7, Losing
  <2>2. queue # <<>> /\ queue' = Tail(queue) BY <1>7 DEF Lost
  <2> QED BY <1>4, <2>1, <2>2
<1>8. CASE BridgeStep BY <1>8 DEF BridgeStep
<1>9. ASSUME NEW n \in Run, Open(n) \/ Build(n) \/ Publish(n) PROVE FallbacksDone'
  <2>1. \A m \in Run : run[m].pc = "done" => run'[m].pc = "done"
    <3>1. \A m \in Run \ {n} : run'[m] = run[m] BY <1>9, Moved
    <3>2. run[n].pc # "done" BY <1>9, MoveRoom
    <3> QED BY <3>1, <3>2
  <2>2. queue' = queue BY <1>9, Moved
  <2> QED BY <1>4, <2>1, <2>2
<1>10. CASE Rejected BY <1>6, <1>10, RejectedIs DEF Rejected
<1>11. ASSUME NEW n \in Run, Fail(n) PROVE FallbacksDone' BY <1>0, <1>6, <1>11 DEF Fail
<1> QED BY <1>2, <1>3, <1>5, <1>7, <1>8, <1>9, <1>10, <1>11, Steps

(* A room whose last call follows its last run keeps doing so.             *)
LEMMA RoomStep == ASSUME IInv, RoomInv, [Next]_vars PROVE RoomInv'
<1>0. /\ TypeOK /\ CallsAwaited /\ NotBegun /\ OnlyCurrentPipeline
      /\ cur \in 0..MaxRuns /\ ref \in 0..MaxRuns /\ queue \in Seq(CallRecord)
      /\ room \in [open: BOOLEAN, raw: BOOLEAN, tracks: SUBSET Run]
      /\ FailedAtEnd /\ Plain /\ FallbacksDone
      /\ cur # 0 => cur \in Run
      /\ Begun' /\ FallbacksDone'
  BY BegunStep, FallbacksStep DEF IInv, TypeOK, RoomInv, Run
<1>1. ASSUME NEW w \in Want, Rerun(w) PROVE RoomInv'
  <2>1. /\ cur' = cur + 1 /\ cur' \in Run /\ run'[cur'].want = w
        /\ run'[cur'].pc = IF Processing(w) THEN "clear" ELSE "call"
        /\ \A m \in Run \ {cur'} : run'[m].pc = run[m].pc /\ run'[m].want = run[m].want
        /\ \A m \in Run : run'[m].err = run[m].err
        /\ \A m \in Run : run'[m].pipe = "live" => run[m].pipe = "live"
        /\ room'.open = room.open /\ room'.tracks = room.tracks \ {cur}
        /\ LastCall' = (w.on /\ ~w.fx)
    <3>1. \A m \in Run : run'[m].pipe = "live" => run[m].pipe = "live"
      BY <1>0, <1>1, Rerunning
    <3> QED BY <1>0, <1>1, <3>1, Rerunning, RerunRoom
  <2>2. run[cur'].pc = "new" /\ run[cur'].err = "none" /\ run[cur'].pipe # "live"
    BY <1>0, <2>1 DEF NotBegun, FailedAtEnd, OnlyCurrentPipeline, Run
  <2>3. FailedAtEnd' BY <1>0, <2>1, <2>2 DEF FailedAtEnd
  <2>4. Plain'
    <3>1. ASSUME NEW m \in Run
          PROVE  /\ run'[m].pc = "call" => ~Processing(run'[m].want)
                 /\ ~Processing(run'[m].want) =>
                      run'[m].pc \in {"new", "call", "done"} /\ run'[m].pipe # "live"
      BY <1>0, <2>1, <2>2 DEF Plain
    <3> QED BY <3>1 DEF Plain, Processing
  <2>5. ASSUME Unspoiled'
        PROVE  TracksSound' /\ (cur' # 0 => LastCall' = Asked(cur)' /\ CurrentHeard')
    <3>1. Unspoiled BY <2>1, <2>5 DEF Unspoiled
    <3>2. TracksSound BY <3>1 DEF RoomInv
    <3>3. TracksSound' BY <1>0, <2>1, <2>2, <3>2 DEF TracksSound
    <3>4. LastCall' = Asked(cur)' BY <2>1, <2>2 DEF Asked
    <3>5. CurrentHeard' BY <2>1 DEF CurrentHeard, Processing
    <3> QED BY <3>3, <3>4, <3>5
  <2> QED BY <1>0, <2>3, <2>4, <2>5 DEF RoomInv
<1>2. CASE Leave
  <2>1. /\ \A m \in Run : run'[m].pc = run[m].pc /\ run'[m].err = run[m].err
        /\ \A m \in Run : run'[m].want = run[m].want
        /\ \A m \in Run : run'[m].pipe = "live" => run[m].pipe = "live"
    <3>1. run' = Stopped(run, ref) /\ run \in [Run -> RunRecord]
      BY <1>0, <1>2 DEF Leave, CleanUp, TypeOK
    <3> QED BY <1>0, <1>2, <3>1, Left, StoppedIs
  <2>2. ~Unspoiled' BY <1>2 DEF Leave, Unspoiled
  <2> QED BY <1>0, <2>1, <2>2 DEF RoomInv, FailedAtEnd, Plain, Processing
<1>3. CASE Serve
  <2>1. /\ \A m \in Run : run'[m].pipe = run[m].pipe /\ run'[m].err = run[m].err
                          /\ run'[m].want = run[m].want
        /\ \A m \in Run : \/ run'[m].pc = run[m].pc
                          \/ run[m].pc = "clear" /\ run'[m].pc = "open"
                          \/ run[m].pc = "call" /\ run'[m].pc = "done"
        /\ room'.tracks = room.tracks /\ room'.open = room.open /\ cur' = cur
        /\ room.open => LastCall' = LastCall
    BY <1>0, <1>3, Serving, ServeRoom
  <2>2. FailedAtEnd' BY <1>0, <2>1 DEF FailedAtEnd
  <2>3. Plain'
    <3>1. \A m \in Run :
            /\ run'[m].pc = "call" => ~Processing(run[m].want)
            /\ ~Processing(run[m].want) =>
                 run'[m].pc \in {"new", "call", "done"} /\ run'[m].pipe # "live"
      BY <1>0, <2>1 DEF Plain
    <3> QED BY <2>1, <3>1 DEF Plain, Processing
  <2>4. ASSUME Unspoiled'
        PROVE  TracksSound' /\ (cur' # 0 => LastCall' = Asked(cur)' /\ CurrentHeard')
    <3>1. Unspoiled /\ room.open BY <2>1, <2>4 DEF Unspoiled
    <3>2. TracksSound' BY <1>0, <2>1, <3>1 DEF RoomInv, TracksSound
    <3>3. ASSUME cur # 0 PROVE LastCall' = Asked(cur)' /\ CurrentHeard'
      <4>1. cur \in Run /\ LastCall = Asked(cur) /\ CurrentHeard
        BY <1>0, <3>1, <3>3 DEF RoomInv
      <4>2. LastCall' = Asked(cur)' BY <2>1, <3>1, <4>1 DEF Asked
      <4>3. run[cur].pc = "call" => ~Processing(run[cur].want) BY <1>0, <4>1 DEF Plain
      <4>4. CurrentHeard' BY <2>1, <4>1, <4>3 DEF CurrentHeard, Processing
      <4> QED BY <4>2, <4>4
    <3> QED BY <2>1, <3>2, <3>3
  <2> QED BY <1>0, <2>2, <2>3, <2>4 DEF RoomInv
<1>4. ASSUME NEW n \in Run, NEW rest \in Seq(CallRecord), Catch(n, rest), run[n].pc # "done"
      PROVE  RoomInv'
  <2>1. /\ \A m \in Run \ {n} : run'[m].pc = run[m].pc /\ run'[m].err = run[m].err
        /\ \A m \in Run : run'[m].want = run[m].want
        /\ run'[n].pc = "done" /\ run'[n].err = IF Superseded(n) THEN "late" ELSE "failed"
        /\ LastCall' = run[n].want.on /\ cur' = cur /\ room' = room
    BY <1>0, <1>4, Caught, CatchRoom
  <2>2. \A m \in Run : run'[m].pipe = "live" => run[m].pipe = "live"
    BY <1>0, <1>4, Caught
  <2>3. FailedAtEnd' BY <1>0, <2>1 DEF FailedAtEnd
  <2>4. Plain'
    <3>1. \A m \in Run :
            /\ run'[m].pc = "call" => ~Processing(run[m].want)
            /\ ~Processing(run[m].want) =>
                 run'[m].pc \in {"new", "call", "done"} /\ run'[m].pipe # "live"
      BY <1>0, <2>1, <2>2 DEF Plain
    <3> QED BY <2>1, <3>1 DEF Plain, Processing
  <2>5. ASSUME Unspoiled'
        PROVE  TracksSound' /\ (cur' # 0 => LastCall' = Asked(cur)' /\ CurrentHeard')
    <3>1. ~Superseded(n) /\ run'[n].err = "failed" BY <2>1, <2>5 DEF Unspoiled
    <3>2. run[n].err = "none" BY <1>0, <1>4 DEF FailedAtEnd
    <3>3. Unspoiled BY <2>1, <2>5, <3>2 DEF Unspoiled
    <3>4. TracksSound' BY <1>0, <1>4, <2>1, <3>3 DEF RoomInv, TracksSound
    <3>5. n = cur BY <3>1 DEF Superseded
    <3>6. LastCall' = Asked(cur)'
      <4>1. cur' = n /\ run'[n].want = run[n].want BY <2>1, <3>5
      <4>2. run[n].want.on \in BOOLEAN BY <1>0 DEF TypeOK, RunRecord, Want
      <4> QED BY <2>1, <3>1, <4>1, <4>2 DEF Asked
    <3>7. CurrentHeard' BY <2>1, <3>1, <3>5 DEF CurrentHeard
    <3> QED BY <3>4, <3>6, <3>7
  <2> QED BY <1>0, <2>3, <2>4, <2>5 DEF RoomInv
<1>5. CASE Rejected BY <1>0, <1>4, <1>5, RejectedIs DEF Rejected, Waiting
<1>6. CASE Lost
  <2> DEFINE n == Head(queue).run
             r == [run[n] EXCEPT !.err = "stuck"]
  <2>1. run \in [Run -> RunRecord] /\ n \in Run /\ run' = [run EXCEPT ![n] = r]
    BY <1>0, <1>6, Served DEF TypeOK, Lost, CallRecord
  <2>6. run[n].pc = "done" BY <1>0, <1>6, Served DEF FallbacksDone, Lost
  <2>2. r.err = "stuck" /\ r.want = run[n].want BY <2>1 DEF RunRecord
  <2> HIDE DEF n, r
  <2>3. ~Unspoiled' BY <2>1, <2>2 DEF Unspoiled
  <2>4. \A m \in Run : run'[m].want = run[m].want BY <2>1, <2>2
  <2>5. Plain'
    BY <1>0, <1>6, <2>4, Losing DEF Plain, Processing
  <2>7. FailedAtEnd'
    BY <1>0, <1>6, <2>1, <2>6, Losing DEF FailedAtEnd
  <2> QED BY <1>0, <2>3, <2>5, <2>7 DEF RoomInv
<1>7. CASE BridgeStep
  <2>1. UNCHANGED <<run, cur, room, queue>> BY <1>7 DEF BridgeStep
  <2> QED BY <1>0, <2>1 DEF RoomInv, FailedAtEnd, Plain, Processing, Unspoiled, TracksSound,
                      LastCall, Asked, CurrentHeard
<1>8. ASSUME NEW n \in Run, Fail(n) PROVE RoomInv'
  BY <1>0, <1>4, <1>8 DEF Fail
<1>9. ASSUME NEW n \in Run, Open(n) \/ Build(n) \/ Publish(n) PROVE RoomInv'
  <2>1. /\ \A m \in Run \ {n} : run'[m] = run[m]
        /\ run'[n].want = run[n].want /\ run'[n].err = run[n].err
        /\ room'.open = room.open /\ cur' = cur /\ LastCall' = LastCall
        /\ run[n].pc \in {"open", "build", "publish"}
    BY <1>0, <1>9, Moved, MoveRoom
  <2>2. \/ run[n].pc = "open" /\ run'[n].pc = "build" /\ UNCHANGED room
        \/ run[n].pc = "build" /\ Superseded(n) /\ run'[n].pc = "done" /\ UNCHANGED room
        \/ run[n].pc = "build" /\ run'[n].pc = "publish" /\ run'[n].pipe = "live" /\ UNCHANGED room
        \/ /\ run[n].pc = "publish" /\ run'[n].pc = "done" /\ run'[n].pipe = run[n].pipe
           /\ room'.tracks = IF room.open THEN room.tracks \union {n} ELSE room.tracks
    BY <1>0, <1>9, MoveRoom
  <2>3. Processing(run[n].want) /\ run[n].err = "none"
    BY <1>0, <2>1 DEF Plain, FailedAtEnd
  <2>4. \A m \in Run : run'[m].want = run[m].want /\ run'[m].err = run[m].err BY <2>1
  <2>5. FailedAtEnd' BY <1>0, <2>1, <2>3 DEF FailedAtEnd
  <2>6. Plain'
    <3>1. \A m \in Run :
            /\ run'[m].pc = "call" => ~Processing(run[m].want)
            /\ ~Processing(run[m].want) =>
                 run'[m].pc \in {"new", "call", "done"} /\ run'[m].pipe # "live"
      BY <1>0, <2>1, <2>2, <2>3 DEF Plain
    <3> QED BY <2>4, <3>1 DEF Plain, Processing
  <2>7. ASSUME Unspoiled'
        PROVE  TracksSound' /\ (cur' # 0 => LastCall' = Asked(cur)' /\ CurrentHeard')
    <3>1. Unspoiled /\ room.open BY <2>1, <2>4, <2>7 DEF Unspoiled
    <3>2. TracksSound BY <3>1 DEF RoomInv
    <3>3. TracksSound' BY <1>0, <2>1, <2>2, <2>3, <3>2 DEF TracksSound
    <3>4. ASSUME cur # 0 PROVE LastCall' = Asked(cur)' /\ CurrentHeard'
      <4>1. cur \in Run /\ LastCall = Asked(cur) /\ CurrentHeard
        BY <1>0, <3>1, <3>4 DEF RoomInv
      <4>2. LastCall' = Asked(cur)' BY <2>1, <2>4, <4>1 DEF Asked
      <4>3. CASE n # cur
        <5>1. run'[cur] = run[cur] /\ (cur \in room.tracks => cur \in room'.tracks)
          BY <2>1, <2>2, <4>1, <4>3
        <5> QED BY <2>1, <4>1, <4>2, <5>1 DEF CurrentHeard, Processing
      <4>4. CASE n = cur
        <5>1. ~Superseded(n) BY <3>1, <4>4 DEF Superseded
        <5>2. CurrentHeard' BY <2>1, <2>2, <2>3, <3>1, <4>1, <4>4, <5>1 DEF CurrentHeard, Processing
        <5> QED BY <4>2, <5>2
      <4> QED BY <4>3, <4>4
    <3> QED BY <2>1, <3>3, <3>4
  <2> QED BY <1>0, <2>5, <2>6, <2>7 DEF RoomInv
<1> QED BY <1>0, <1>1, <1>2, <1>3, <1>5, <1>6, <1>7, <1>8, <1>9, Steps

(* However the effect's runs, LiveKit's queue and the failures interleave, *)
(* a room where nothing is under way carries what the user asked for last. *)
THEOREM RoomFollowsUser == Spec => []RoomAgrees
<1>1. Init => RoomInv
  <2> SUFFICES ASSUME Init PROVE RoomInv OBVIOUS
  <2>1. \A n \in Run : run[n] = Idle BY DEF Init
  <2>2. Idle.pc = "new" /\ Idle.err = "none" /\ Idle.pipe = "none" BY DEF Idle
  <2>3. cur = 0 /\ room.tracks = {} /\ queue = <<>> BY DEF Init
  <2>4. Begun /\ FallbacksDone BY <2>3 DEF Begun, FallbacksDone, Run
  <2> QED BY <2>1, <2>2, <2>3, <2>4 DEF RoomInv, FailedAtEnd, Plain, TracksSound
<1>2. IInv /\ RoomInv /\ [Next]_vars => RoomInv' BY RoomStep
<1>3. IInv /\ RoomInv => RoomAgrees
  <2> SUFFICES ASSUME IInv, RoomInv, Settled, room.open, cur # 0,
                      \A n \in Run : run[n].err \in {"none", "failed"}
               PROVE  LET w == run[cur].want
                          sound == run[cur].err = "none"
                      IN /\ room.raw = (w.on /\ (~w.fx \/ ~sound))
                         /\ LiveTracks = IF Processing(w) /\ sound THEN {cur} ELSE {}
    BY DEF RoomAgrees
  <2>1. /\ cur \in Run /\ TracksSound /\ LastCall = Asked(cur) /\ CurrentHeard
        /\ FailedAtEnd /\ Plain /\ Begun /\ OnlyCurrentPipeline /\ NotBegun
    BY DEF IInv, TypeOK, RoomInv, Unspoiled, Run
  <2>2. room.raw = Asked(cur) BY <2>1 DEF Settled, LastCall
  <2>3. room.raw = (run[cur].want.on /\ (~run[cur].want.fx \/ ~(run[cur].err = "none")))
    BY <2>1, <2>2 DEF Asked
  <2>4. LiveTracks \subseteq {cur} /\ (cur \in LiveTracks => run[cur].err = "none"
                                            /\ Processing(run[cur].want))
    <3>1. \A n \in LiveTracks : n \in Run /\ n = cur
      BY <2>1 DEF LiveTracks, OnlyCurrentPipeline, IInv, TypeOK
    <3> QED BY <2>1, <3>1 DEF LiveTracks, TracksSound, Plain
  <2>5. Processing(run[cur].want) /\ run[cur].err = "none" => cur \in LiveTracks
    <3>1. run[cur].pc = "done" BY <2>1 DEF Begun, Settled, Run
    <3> QED BY <2>1, <3>1 DEF CurrentHeard, LiveTracks
  <2> QED BY <2>3, <2>4, <2>5
<1> QED BY <1>1, <1>2, <1>3, Invariance, PTL DEF Spec
=============================================================================
