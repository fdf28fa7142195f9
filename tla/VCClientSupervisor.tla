------------------------- MODULE VCClientSupervisor -------------------------
(***************************************************************************)
(* The supervisor of the managed voice server,                             *)
(* apps/ai-sidecar/engines/vcclient_supervisor.py, inside the model        *)
(* endpoint process that owns it.                                          *)
(*                                                                         *)
(* Three threads meet in it: the one that loads the engines and calls      *)
(* start(), the watchdog thread start() creates, and the main thread,      *)
(* which calls stop() from the shutdown hook and then exits. The lock      *)
(* guards single fields; the stop event is read and set outside it, so the *)
(* watchdog is modelled one lock region or event check at a time.          *)
(***************************************************************************)
EXTENDS Naturals, Sequences, FiniteSets

CONSTANTS
  Child,        \* VCClient process trees that can exist (a bound)
  MaxRestarts,  \* _MAX_RESTARTS_PER_WINDOW
  Window,       \* _RESTART_WINDOW_SECS, in clock ticks
  MaxStarts,    \* how often start() may create a watchdog (a bound)
  None          \* no process

ASSUME ChildAssumption == IsFiniteSet(Child) /\ None \notin Child
ASSUME BudgetAssumption == MaxRestarts \in Nat /\ Window \in Nat /\ MaxStarts \in Nat

States == {"idle", "starting", "healthy", "restarting", "crash_loop", "stopped"}

VARIABLES
  state,    \* self._state
  stop,     \* self._stop, the event
  process,  \* self._process
  times,    \* self._restart_times, as ages: oldest first, capped at Window + 1
  starts,   \* history: watchdogs created so far
  pc, mine, \* the watchdog thread: where it is, and its local process
  stopper,  \* where the thread in stop() is
  target,   \* the process stop() decided to terminate
  child,    \* what each VCClient tree is doing, its worker if need be alone
  parent,   \* its first process, which Popen started and poll() asks for
  answer,   \* history: whose answer the last probe that had one got
  exited    \* the endpoint process is gone, and its threads with it

vars == <<state, stop, process, times, starts, pc, mine, stopper, target, child,
          parent, answer, exited>>

WatchdogPcs == {"none", "loop", "spawn", "publish", "boot", "probed", "failed",
                "watch", "crash", "budget", "giveup", "cooling", "backoff",
                "waiting", "done"}
StopperPcs == {"idle", "mark", "kill", "join", "stopped"}

TypeOK ==
  /\ state \in States
  /\ stop \in BOOLEAN
  /\ process \in Child \cup {None}
  /\ times \in Seq(0 .. Window + 1)
  /\ starts \in 0 .. MaxStarts
  /\ pc \in WatchdogPcs
  /\ mine \in Child \cup {None}
  /\ stopper \in StopperPcs
  /\ target \in Child \cup {None}
  /\ child \in [Child -> {"none", "booting", "serving"}]
  /\ parent \in [Child -> {"gone", "up", "spared"}]
  /\ answer \in {"none", "own", "other", "astray"}
  /\ exited \in BOOLEAN

Init ==
  /\ state = "idle" /\ stop = FALSE /\ process = None
  /\ times = << >> /\ starts = 0
  /\ pc = "none" /\ mine = None
  /\ stopper = "idle" /\ target = None
  /\ child = [c \in Child |-> "none"]
  /\ parent = [c \in Child |-> "gone"]
  /\ answer = "none"
  /\ exited = FALSE

-----------------------------------------------------------------------------
Alive == pc \notin {"none", "done"}        \* self._thread.is_alive()
Running(c) == c # None /\ parent[c] # "gone"  \* process.poll() is None
Live == {c \in Child : child[c] # "none"}

(* VCClients that are whole and that nobody has tried to kill.             *)
Kept == {c \in Child : parent[c] = "up"}

(* Faulty variant: a crash as old as the window has left it.               *)
ExpiredEarly(s) == Cardinality({i \in DOMAIN s : s[i] >= Window})

(* Crash times are appended in order, so the ones older than the window    *)
(* are the first ones.                                                     *)
Expired(s) == Cardinality({i \in DOMAIN s : s[i] > Window})
Pruned(s) == SubSeq(s, Expired(s) + 1, Len(s))

(* _terminate_process does nothing once the parent is gone, though its     *)
(* worker may be there.  Otherwise the group is signalled and the parent   *)
(* waited for: all of it is gone, or the worker outlives the signal, or    *)
(* every signal and wait failed, which nobody is told.                     *)
Terminate(c) ==
  IF Running(c)
  THEN \/ child' = [child EXCEPT ![c] = "none"] /\ parent' = [parent EXCEPT ![c] = "gone"]
       \/ UNCHANGED child /\ parent' \in {[parent EXCEPT ![c] = "gone"],
                                          [parent EXCEPT ![c] = "spared"]}
  ELSE UNCHANGED <<child, parent>>

(* A write of the state that stop() takes precedence over.                 *)
MarkUnlessStopped(new) == state' = IF state = "stopped" THEN state ELSE new

-----------------------------------------------------------------------------
(* start(), all of it under the lock. With a watchdog alive it returns at  *)
(* once; a misconfigured supervisor is reported as a crash loop.           *)
Start ==
  /\ ~exited /\ ~Alive /\ starts < MaxStarts
  /\ stop' = FALSE
  /\ state' = "starting"
  /\ pc' = "loop" /\ mine' = None
  /\ starts' = starts + 1
  /\ UNCHANGED <<process, times, stopper, target, child,
                 parent, answer, exited>>

StartMisconfigured ==
  /\ ~exited /\ ~Alive
  /\ state' = "crash_loop"
  /\ UNCHANGED <<stop, process, times, starts, pc, mine, stopper, target, child,
                 parent, answer, exited>>

(* status() prunes the crash times it reports.                             *)
Status ==
  /\ ~exited
  /\ times' = Pruned(times)
  /\ UNCHANGED <<state, stop, process, starts, pc, mine, stopper, target, child,
                 parent, answer, exited>>

-----------------------------------------------------------------------------
(* The watchdog. A step that finds the stop event set ends the thread; it  *)
(* leaves its process to whoever set the event.                            *)
Leave(from) ==
  /\ pc = from /\ stop
  /\ pc' = "done"
  /\ UNCHANGED <<state, process, times, mine, child, parent, answer>>

Loop ==                                   \* params are sanitised on the way
  \/ Leave("loop")
  \/ /\ pc = "loop" /\ ~stop
     /\ pc' = "spawn"
     /\ UNCHANGED <<state, process, times, mine, child, parent, answer>>

Spawn ==
  /\ pc = "spawn"
  /\ \/ /\ \E c \in Child \ (Live \cup {process, target}) :
             /\ child' = [child EXCEPT ![c] = "booting"]
             /\ parent' = [parent EXCEPT ![c] = "up"]
             /\ mine' = c
        /\ pc' = "publish"
     \/ pc' = "crash" /\ mine' = None /\ UNCHANGED <<child, parent>>
  /\ UNCHANGED <<state, process, times, answer>>

Publish ==
  /\ pc = "publish"
  /\ process' = mine
  /\ MarkUnlessStopped("starting")
  /\ pc' = "boot"
  /\ UNCHANGED <<times, mine, child, parent, answer>>

Answerer(c) ==
  IF c = mine THEN "own" ELSE IF parent[c] = "up" THEN "other" ELSE "astray"

(* _await_health: the child dies or the boot deadline passes, or somebody  *)
(* answers on the port, whoever it is.                                     *)
Boot ==
  \/ Leave("boot")
  \/ /\ pc = "boot" /\ ~stop
     /\ \/ pc' = "failed" /\ UNCHANGED answer
        \/ /\ Running(mine) /\ pc' = "probed"
           /\ \E c \in Child : child[c] = "serving" /\ answer' = Answerer(c)
     /\ UNCHANGED <<state, process, times, mine, child, parent>>

BecomeHealthy ==
  /\ pc = "probed"
  /\ state' = "healthy"
  /\ pc' = "watch"
  /\ UNCHANGED <<process, times, mine, child, parent, answer>>

(* Faulty variant: the stalled child is left running.                      *)
BootFailedNoKill ==
  \/ Leave("failed")
  \/ /\ pc = "failed" /\ ~stop
     /\ pc' = "crash"
     /\ UNCHANGED <<state, process, times, mine, child, parent, answer>>

BootFailed ==
  \/ Leave("failed")
  \/ /\ pc = "failed" /\ ~stop
     /\ Terminate(mine)
     /\ pc' = "crash"
     /\ UNCHANGED <<state, process, times, mine, answer>>

Watch ==
  \/ Leave("watch")
  \/ /\ pc = "watch" /\ ~stop /\ ~Running(mine)
     /\ pc' = "crash"
     /\ UNCHANGED <<state, process, times, mine, child, parent, answer>>

RegisterCrash ==
  /\ pc = "crash"
  /\ times' = Pruned(Append(times, 0))
  /\ process' = None
  /\ pc' = "budget"
  /\ UNCHANGED <<state, mine, child, parent, answer>>

(* Faulty variant: one restart too many.                                   *)
BudgetOffByOne ==
  \/ Leave("budget")
  \/ /\ pc = "budget" /\ ~stop
     /\ times' = Pruned(times)
     /\ pc' = IF Len(times') > MaxRestarts + 1 THEN "giveup" ELSE "backoff"
     /\ UNCHANGED <<state, process, mine, child, parent, answer>>

Budget ==
  \/ Leave("budget")
  \/ /\ pc = "budget" /\ ~stop
     /\ times' = Pruned(times)
     /\ pc' = IF Len(times') > MaxRestarts THEN "giveup" ELSE "backoff"
     /\ UNCHANGED <<state, process, mine, child, parent, answer>>

GiveUp ==
  /\ pc = "giveup"
  /\ state' = "crash_loop"
  /\ pc' = "cooling"
  /\ UNCHANGED <<process, times, mine, child, parent, answer>>

(* Faulty variant: the wait looks at the times as they were left.          *)
CoolingStale ==
  \/ Leave("cooling")
  \/ /\ pc = "cooling" /\ ~stop
     /\ Len(times) <= MaxRestarts
     /\ state' = IF state = "crash_loop" THEN "restarting" ELSE state
     /\ pc' = "loop"
     /\ UNCHANGED <<times, process, mine, child, parent, answer>>

Cooling ==
  \/ Leave("cooling")
  \/ /\ pc = "cooling" /\ ~stop
     /\ times' = Pruned(times)
     /\ Len(times') <= MaxRestarts
     /\ state' = IF state = "crash_loop" THEN "restarting" ELSE state
     /\ pc' = "loop"
     /\ UNCHANGED <<process, mine, child, parent, answer>>

(* Faulty variant: the state is not touched before the wait.               *)
BackoffSilently ==
  /\ pc = "backoff"
  /\ pc' = "waiting"
  /\ UNCHANGED <<state, process, times, mine, child, parent, answer>>

Backoff ==
  /\ pc = "backoff"
  /\ MarkUnlessStopped("restarting")
  /\ pc' = "waiting"
  /\ UNCHANGED <<process, times, mine, child, parent, answer>>

Waiting ==
  \/ Leave("waiting")
  \/ /\ pc = "waiting" /\ ~stop
     /\ pc' = "loop"
     /\ UNCHANGED <<state, process, times, mine, child, parent, answer>>

Watchdog ==
  /\ ~exited
  /\ \/ Loop \/ Spawn \/ Publish \/ Boot \/ BecomeHealthy \/ BootFailed \/ Watch
     \/ RegisterCrash \/ Budget \/ GiveUp \/ Cooling \/ Backoff \/ Waiting
  /\ UNCHANGED <<stop, starts, stopper, target, exited>>

-----------------------------------------------------------------------------
(* stop(), called once, by the shutdown hook; then the process exits.      *)
StopRequest ==
  /\ stopper = "idle"
  /\ stop' = TRUE
  /\ stopper' = "mark"
  /\ UNCHANGED <<state, process, times, starts, pc, mine, target, child,
                 parent, answer, exited>>

StopMark ==
  /\ stopper = "mark"
  /\ state' = "stopped"
  /\ target' = process
  /\ stopper' = "kill"
  /\ UNCHANGED <<stop, process, times, starts, pc, mine, child, parent,
                 answer, exited>>

StopKill ==
  /\ stopper = "kill"
  /\ Terminate(target)
  /\ stopper' = "join"
  /\ UNCHANGED <<state, stop, process, times, starts, pc, mine, target, answer, exited>>

(* The join ends with the thread or, with the thread still there, after    *)
(* its timeout.                                                            *)
StopJoin ==
  /\ stopper = "join"
  /\ stopper' = "stopped"
  /\ target' = None
  /\ UNCHANGED <<state, stop, process, times, starts, pc, mine, child, parent,
                 answer, exited>>

Exit ==
  /\ stopper = "stopped" /\ ~exited
  /\ exited' = TRUE
  /\ UNCHANGED <<state, stop, process, times, starts, pc, mine, stopper, target, child,
                 parent, answer>>

Stopper == StopRequest \/ StopMark \/ StopKill \/ StopJoin \/ Exit

-----------------------------------------------------------------------------
(* VCClient and the clock.  A worker answers once it has the port, which   *)
(* it needs no parent for; a tree dies, or its parent leaves the worker.   *)
Serve(c) ==
  /\ child[c] = "booting" /\ \A d \in Child : child[d] # "serving"
  /\ child' = [child EXCEPT ![c] = "serving"]
  /\ UNCHANGED <<state, stop, process, times, starts, pc, mine, stopper, target, parent,
                 answer, exited>>

Die(c) ==
  /\ child[c] # "none"
  /\ child' = [child EXCEPT ![c] = "none"]
  /\ parent' = [parent EXCEPT ![c] = "gone"]
  /\ UNCHANGED <<state, stop, process, times, starts, pc, mine, stopper, target, answer,
                 exited>>

Orphan(c) ==
  /\ Running(c)
  /\ parent' = [parent EXCEPT ![c] = "gone"]
  /\ UNCHANGED <<state, stop, process, times, starts, pc, mine, stopper, target, child,
                 answer, exited>>

Tick ==
  /\ ~exited
  /\ \E i \in DOMAIN times : times[i] <= Window
  /\ times' = [i \in DOMAIN times |->
                 IF times[i] <= Window THEN times[i] + 1 ELSE times[i]]
  /\ UNCHANGED <<state, stop, process, starts, pc, mine, stopper, target, child,
                 parent, answer, exited>>

Next ==
  \/ Start \/ StartMisconfigured \/ Status
  \/ Watchdog \/ Stopper
  \/ \E c \in Child : Serve(c) \/ Die(c) \/ Orphan(c)
  \/ Tick

Spec == Init /\ [][Next]_vars

(* Threads are scheduled and time passes; nobody has to call start() or    *)
(* stop(), and VCClient need not ever serve or die.                        *)
FairSpec == /\ Spec
            /\ WF_vars(Watchdog)
            /\ WF_vars(Stopper /\ stopper # "idle")
            /\ WF_vars(Tick)

-----------------------------------------------------------------------------
(* Properties.                                                             *)

(* Every watchdog leaves at most one VCClient behind that it has not tried *)
(* to kill and that did not lose its parent: the supervisor never starts a *)
(* second one beside the one it is responsible for.                        *)
OneChildPerStart == Cardinality(Kept) <= starts

(* At most MaxRestarts + 1 crashes (the launch and its restarts) are ever  *)
(* on record, plus one for every further start(), which begins with a      *)
(* launch without asking the budget.                                       *)
CrashBudget == Len(times) <= MaxRestarts + starts

(* The voice stage is told the server is healthy only while the watchdog   *)
(* watches a launch whose probe was answered, or is about to say otherwise *)
(* or to stop; and not by another VCClient that still runs with its parent *)
(* and that no kill was tried on, such as an earlier launch that was slow, *)
(* unless start() was called again.                                        *)
HealthyIsCurrent ==
  state = "healthy" =>
    \/ stop
    \/ /\ pc \in {"watch", "crash", "budget", "giveup", "backoff"}
       /\ answer = "other" => starts > 1

(* Every crash is followed by a new launch unless stop() intervenes: the   *)
(* crash loop ends when the window frees up.                               *)
CrashIsFollowedByLaunch == pc = "crash" ~> (pc = "spawn" \/ stop \/ exited)

(* Where a launch stands, and the crashes within the window among times,   *)
(* pruned or not.                                                          *)
Phase ==
  CASE ~Alive -> "off"
    [] pc \in {"backoff", "waiting", "loop", "spawn"} -> "allowed"
    [] pc \in {"budget", "giveup", "cooling"} -> "crashed"
    [] OTHER -> "launched"

InWindow(s) == SubSeq(s, Len(s) + 1 - Cardinality({i \in DOMAIN s : s[i] <= Window}), Len(s))

Limiter == INSTANCE RestartLimiter WITH phase <- Phase, recent <- InWindow(times)

(* VCClient is relaunched within the budget, and no call of status() nor   *)
(* any other pruning loses a crash that still counts.                      *)
KeepsLimit == Limiter!Spec
=============================================================================
