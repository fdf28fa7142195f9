--------------------------- MODULE RestartLimiter ---------------------------
(***************************************************************************)
(* What the supervisor of VCClient promises of its launches: the first one *)
(* of every start() is free, a relaunch is made only when at most          *)
(* MaxRestarts crashes lie within the window, and every crash counts for   *)
(* as long as it does, whoever asks for the count meanwhile.               *)
(***************************************************************************)
EXTENDS Naturals, Sequences

CONSTANTS MaxRestarts, Window

VARIABLES
  phase,    \* off, allowed to launch, launched, or crashed
  recent    \* the ages of the crashes within the window, oldest first

view == <<phase, recent>>

Init == phase = "off" /\ recent = << >>

Start == phase = "off" /\ phase' = "allowed" /\ UNCHANGED recent

Launch == phase = "allowed" /\ phase' = "launched" /\ UNCHANGED recent

Crash == phase = "launched" /\ phase' = "crashed" /\ recent' = Append(recent, 0)

Permit ==
  /\ phase = "crashed" /\ Len(recent) <= MaxRestarts
  /\ phase' = "allowed"
  /\ UNCHANGED recent

Stop == phase # "off" /\ phase' = "off" /\ UNCHANGED recent

(* Time passes: the first k crashes leave the window.                      *)
Aged == [i \in DOMAIN recent |-> recent[i] + 1]

Tick ==
  /\ \E k \in 0 .. Len(recent) :
       /\ \A i \in DOMAIN recent : (i <= k) <=> (Aged[i] > Window)
       /\ recent' = SubSeq(Aged, k + 1, Len(recent))
  /\ UNCHANGED phase

Next == Start \/ Launch \/ Crash \/ Permit \/ Stop \/ Tick

Spec == Init /\ [][Next]_view
=============================================================================
