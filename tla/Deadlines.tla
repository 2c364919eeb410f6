----------------------------- MODULE Deadlines ------------------------------
(***************************************************************************)
(* What the software timers promise: every running timer has a time of its *)
(* own that is left until it is due, whatever the others do.  Ticks are    *)
(* counted by an interrupt and handled together later; while they are,     *)
(* the timers that are due expire one after the other, the earliest first, *)
(* and their handlers may start and stop timers.                           *)
(***************************************************************************)
EXTENDS Integers

CONSTANTS
  Timer,      (* The timers.                                               *)
  NoTimer,    (* No timer.                                                 *)
  Periodic,   (* The timers that are placed again when they expire.        *)
  Interval,   (* The intervals they are started with, in milliseconds.     *)
  Tick,       (* Milliseconds of a tick.                                   *)
  PendingMax  (* Bound: ticks that wait to be handled.                     *)

VARIABLES
  active,     (* The timers that run.                                      *)
  left,       (* What is left for each of them; 0 for the others.          *)
  interval,   (* What each timer was configured with.                      *)
  pending,    (* Ticks that wait.                                          *)
  elapsed,    (* Time being handled that is not yet accounted for.         *)
  expired     (* The timer whose handler runs.                             *)

vars == <<active, left, interval, pending, elapsed, expired>>

Init ==
  /\ active = {}
  /\ left = [t \in Timer |-> 0]
  /\ interval \in [Timer -> Interval]
  /\ pending = 0
  /\ elapsed = 0
  /\ expired = NoTimer

(* A timer that runs already keeps what is left to it.                     *)
Start(t, i) ==
  /\ interval' = [interval EXCEPT ![t] = i]
  /\ active' = active \union {t}
  /\ left' = IF t \in active THEN left ELSE [left EXCEPT ![t] = i]
  /\ UNCHANGED <<pending, elapsed, expired>>

Stop(t) ==
  /\ active' = active \ {t}
  /\ left' = [left EXCEPT ![t] = 0]
  /\ UNCHANGED <<interval, pending, elapsed, expired>>

Count ==
  /\ pending' \in 0 .. PendingMax
  /\ UNCHANGED <<active, left, interval, elapsed, expired>>

Handle ==
  /\ elapsed = 0
  /\ elapsed' = pending * Tick
  /\ pending' = 0
  /\ UNCHANGED <<active, left, interval, expired>>

(* The earliest timer expires; the time until it passes for all of them.   *)
Expire(t) ==
  /\ t \in active
  /\ left[t] <= elapsed
  /\ \A u \in active : left[t] <= left[u]
  /\ expired = NoTimer
  /\ expired' = t
  /\ elapsed' = elapsed - left[t]
  /\ active' = IF t \in Periodic THEN active ELSE active \ {t}
  /\ left' = [u \in Timer |->
                IF u = t THEN IF t \in Periodic THEN interval[t] ELSE 0
                ELSE IF u \in active THEN left[u] - left[t] ELSE 0]
  /\ UNCHANGED <<interval, pending>>

Return ==
  /\ expired' = NoTimer
  /\ UNCHANGED <<active, left, interval, pending, elapsed>>

(* Nothing more is due: the rest of the time passes.                       *)
Pass ==
  /\ \A u \in active : left[u] > elapsed
  /\ left' = [u \in Timer |-> IF u \in active THEN left[u] - elapsed ELSE 0]
  /\ elapsed' = 0
  /\ UNCHANGED <<active, interval, pending, expired>>

Next ==
  \/ \E t \in Timer, i \in Interval : Start(t, i)
  \/ \E t \in Timer : Stop(t) \/ Expire(t)
  \/ Count \/ Handle \/ Return \/ Pass

Spec == Init /\ [][Next]_vars
=============================================================================
