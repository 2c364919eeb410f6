------------------------------ MODULE SysTimer ------------------------------
(***************************************************************************)
(* The software timers of sysTimer.c.  Timers that run are in a list in    *)
(* the order they are due, each with the time between the one before it    *)
(* and itself.  An interrupt counts ticks; SYS_TimerTaskHandler takes the  *)
(* ticks counted so far and pops what is due, and the handlers it calls    *)
(* start and stop timers while a part of that time is not yet taken off    *)
(* the list.  The interrupt may fall anywhere.                             *)
(*                                                                         *)
(* The list is a sequence of timers; timeout is the field of the same      *)
(* name.  The list order stands for the next fields.                       *)
(***************************************************************************)
EXTENDS Integers, Sequences

CONSTANTS
  Timer,      (* The timer structures of the program.                      *)
  NoTimer,    (* NULL.                                                     *)
  Periodic,   (* Those with mode SYS_TIMER_PERIODIC_MODE.                  *)
  Interval,   (* The intervals in use, in milliseconds.                    *)
  Tick,       (* SYS_TIMER_INTERVAL.                                       *)
  PendingMax, (* Bound: ticks counted before they are handled.             *)
  SleepMax    (* Bound: how often the board sleeps.                        *)

ASSUME TimerAssumption ==
  /\ NoTimer \notin Timer
  /\ Periodic \subseteq Timer
  /\ Interval \subseteq Nat \ {0}
  /\ Tick \in Nat \ {0}
  /\ PendingMax \in Nat \ {0}
  /\ SleepMax \in Nat

VARIABLES
  timers,     (* timers, the list.                                         *)
  timeout,    (* The field timeout of each timer.                          *)
  interval,   (* The field interval of each timer.                         *)
  pending,    (* SysTimerIrqCount.                                         *)
  elapsed,    (* elapsed, a local of SYS_TimerTaskHandler.                 *)
  pc,         (* Where the main program is: outside the task handler, in   *)
              (* its loop, or in a timer's handler.                        *)
  expired,    (* timer, a local of the loop.                               *)
  sleeps,     (* Counts the sleeps, for the bound.                         *)
  due         (* History: real time until each running timer may expire.   *)

config == <<interval, sleeps>>
list == <<timers, timeout, due>>
vars == <<list, config, pending, elapsed, pc, expired>>

Running == {timers[k] : k \in 1 .. Len(timers)}

Init ==
  /\ timers = <<>>
  /\ timeout = [t \in Timer |-> 0]
  /\ interval \in [Timer -> Interval]
  /\ pending = 0
  /\ elapsed = 0
  /\ pc = "main"
  /\ expired = NoTimer
  /\ sleeps = 0
  /\ due = [t \in Timer |-> 0]

----------------------------------------------------------------------------
(* The list.                                                               *)

(* The time from the start of the list to its n-th timer.                  *)
Until(ts, to) ==
  LET sum[n \in 0 .. Len(ts)] ==
        IF n = 0 THEN 0 ELSE sum[n - 1] + to[ts[n]]
  IN  sum

(* How many timers are due before a new one, or together with it.          *)
Position(ts, to, i) ==
  LET earlier == {n \in 1 .. Len(ts) : Until(ts, to)[n] <= i}
  IN  IF earlier = {} THEN 0
      ELSE CHOOSE n \in earlier : \A m \in earlier : m <= n

Inserted(ts, to, t, i) ==
  LET n == Position(ts, to, i)
  IN  SubSeq(ts, 1, n) \o <<t>> \o SubSeq(ts, n + 1, Len(ts))

(* Mutation: the timer behind the new one keeps its whole time.            *)
TimeoutsWithKept(ts, to, t, i) ==
  LET n == Position(ts, to, i)
  IN  [to EXCEPT ![t] = i - Until(ts, to)[n]]

(* The new timer keeps what its interval exceeds the timers before it by,  *)
(* and takes that from the timer behind it.                                *)
TimeoutsWith(ts, to, t, i) ==
  LET n == Position(ts, to, i)
      rest == i - Until(ts, to)[n]
  IN  [u \in Timer |->
         IF u = t THEN rest
         ELSE IF n < Len(ts) /\ u = ts[n + 1] THEN to[u] - rest
         ELSE to[u]]

Without(ts, t) ==
  LET n == CHOOSE k \in 1 .. Len(ts) : ts[k] = t
  IN  SubSeq(ts, 1, n - 1) \o SubSeq(ts, n + 1, Len(ts))

(* Mutation: a stopped timer leaves its time out of the list.              *)
TimeoutsWithoutLost(ts, to, t) == to

(* The timer behind a stopped one inherits its time.                       *)
TimeoutsWithout(ts, to, t) ==
  [u \in Timer |->
     IF \E n \in 1 .. Len(ts) - 1 : ts[n] = t /\ ts[n + 1] = u
     THEN to[u] + to[t]
     ELSE to[u]]

SYS_TimerRemainingTimeout(t) ==
  IF t \in Running
  THEN Until(timers, timeout)[CHOOSE n \in 1 .. Len(timers) : timers[n] = t]
  ELSE 0

(* Time that passed and is not yet taken off the list.                     *)
Unaccounted == pending * Tick + elapsed
----------------------------------------------------------------------------
(* Calls, from the program or from a timer's handler.                      *)

Calling == pc \in {"main", "handler"}

SYS_TimerStarted(t) == t \in Running

(* A caller configures the timer and starts it; one that runs stays.       *)
SYS_TimerStart(t, i) ==
  /\ Calling
  /\ interval' = [interval EXCEPT ![t] = i]
  /\ IF SYS_TimerStarted(t)
     THEN UNCHANGED list
     ELSE /\ timers' = Inserted(timers, timeout, t, i)
          /\ timeout' = TimeoutsWith(timers, timeout, t, i)
          /\ due' = [due EXCEPT ![t] = i - Unaccounted]
  /\ UNCHANGED <<sleeps, pending, elapsed, pc, expired>>

SYS_TimerStop(t) ==
  /\ Calling
  /\ t \in Running
  /\ timers' = Without(timers, t)
  /\ timeout' = TimeoutsWithout(timers, timeout, t)
  /\ due' = [due EXCEPT ![t] = 0]
  /\ UNCHANGED <<config, pending, elapsed, pc, expired>>

----------------------------------------------------------------------------
(* The interrupt, and sleep.                                               *)

(* Bound: how far behind its time a timer is told to be; none is late by   *)
(* more without a sleep.                                                   *)
LateMax == 2 * PendingMax * Tick

(* Real time passes for the timers that run.                               *)
DueAfter(time) ==
  [t \in Timer |->
     IF t \notin Running THEN 0
     ELSE IF due[t] - time < -LateMax THEN -LateMax ELSE due[t] - time]

SYS_HwExpiry_Cb ==
  /\ pending < PendingMax
  /\ pending' = pending + 1
  /\ due' = DueAfter(Tick)
  /\ UNCHANGED <<timers, timeout, config, elapsed, pc, expired>>

(* The time slept replaces the ticks counted before.                       *)
SYS_TimerAdjust_SleptTime(n) ==
  /\ pc = "main"
  /\ sleeps < SleepMax
  /\ sleeps' = sleeps + 1
  /\ pending' = n
  /\ due' = DueAfter(n * Tick)
  /\ UNCHANGED <<timers, timeout, interval, elapsed, pc, expired>>

----------------------------------------------------------------------------
(* SYS_TimerTaskHandler.                                                   *)

(* The ticks counted so far are taken, in a critical section.              *)
TakeTicks ==
  /\ pc = "main"
  /\ pending # 0
  /\ elapsed' = pending * Tick
  /\ pending' = 0
  /\ pc' = "loop"
  /\ UNCHANGED <<list, config, expired>>

(* Mutation: a timer that is due exactly now waits for the next tick.      *)
HeadIsOverdue == timers # <<>> /\ timeout[Head(timers)] < elapsed

HeadIsDue == timers # <<>> /\ timeout[Head(timers)] <= elapsed

(* What remains of the time when the head of the list has expired.         *)
RestAfter(t) == elapsed - timeout[t]

(* One round of the loop, up to the call of the handler: the head leaves   *)
(* the list, and a periodic timer is placed again, before its handler and  *)
(* before the rest of the time is taken off the list.                      *)
Expire ==
  /\ pc = "loop"
  /\ HeadIsDue
  /\ LET t == Head(timers)
         ts == Tail(timers)
     IN  /\ elapsed' = RestAfter(t)
         /\ expired' = t
         /\ IF t \in Periodic
            THEN /\ timers' = Inserted(ts, timeout, t, interval[t])
                 /\ timeout' = TimeoutsWith(ts, timeout, t, interval[t])
                 /\ due' = [due EXCEPT ![t] =
                              interval[t] - (pending * Tick + elapsed')]
            ELSE /\ timers' = ts
                 /\ due' = [due EXCEPT ![t] = 0]
                 /\ UNCHANGED timeout
  /\ pc' = "handler"
  /\ UNCHANGED <<config, pending>>

HandlerReturns ==
  /\ pc = "handler"
  /\ pc' = "loop"
  /\ expired' = NoTimer
  /\ UNCHANGED <<list, config, pending, elapsed>>

HeadTimeout == timeout[Head(timers)] - elapsed

(* The end of the loop: the rest of the time comes off the head.           *)
EndTask ==
  /\ pc = "loop"
  /\ ~HeadIsDue
  /\ timeout' = [t \in Timer |->
                   IF timers # <<>> /\ t = Head(timers)
                   THEN HeadTimeout
                   ELSE timeout[t]]
  /\ elapsed' = 0
  /\ pc' = "main"
  /\ UNCHANGED <<timers, due, config, pending, expired>>

SYS_TimerTaskHandler ==
  \/ TakeTicks
  \/ Expire
  \/ HandlerReturns
  \/ EndTask

Next ==
  \/ \E t \in Timer, i \in Interval : SYS_TimerStart(t, i)
  \/ \E t \in Timer : SYS_TimerStop(t)
  \/ SYS_HwExpiry_Cb
  \/ \E n \in 0 .. PendingMax : SYS_TimerAdjust_SleptTime(n)
  \/ SYS_TimerTaskHandler

Spec == Init /\ [][Next]_vars

----------------------------------------------------------------------------
(* Properties.                                                             *)

(* The types; the list names each timer once and no difference in it is    *)
(* negative.                                                               *)
TypeOK ==
  /\ timers \in Seq(Timer)
  /\ \A m, n \in 1 .. Len(timers) : timers[m] = timers[n] => m = n
  /\ timeout \in [Timer -> Nat]
  /\ interval \in [Timer -> Interval]
  /\ pending \in 0 .. PendingMax
  /\ elapsed \in 0 .. PendingMax * Tick
  /\ pc \in {"main", "loop", "handler"}
  /\ expired \in Timer \union {NoTimer}
  /\ sleeps \in 0 .. SleepMax
  /\ due \in [Timer -> Int]

(* No timer expires before the time it was started for has passed, but for *)
(* the ticks that were not yet taken off the list when it was started.     *)
(* (sysTimer.c:133-151: the residue of late ticks, and timers started by   *)
(* handlers in the middle of it.)  TypeOK is checked with it.              *)
NeverEarly ==
  /\ TypeOK
  /\ \A t \in Running : SYS_TimerRemainingTimeout(t) >= due[t] + Unaccounted

(* As long as the board does not sleep no timer is held back either,       *)
(* whatever handlers start in front of it or stop before it: the two       *)
(* together say that differences, real time and ticks agree.               *)
(* (placeTimer and SYS_TimerStop, sysTimer.c:83-96, 156-187.)               *)
NeverLate ==
  sleeps = 0 =>
    \A t \in Running : SYS_TimerRemainingTimeout(t) <= due[t] + Unaccounted

(* The list of differences, with its partial updates, is nothing but one   *)
(* deadline for every timer.                                               *)
Abstract == INSTANCE Deadlines
  WITH active <- Running,
       left <- [t \in Timer |-> SYS_TimerRemainingTimeout(t)]
DeadlineSpec == Abstract!Spec
=============================================================================
