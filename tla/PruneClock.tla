------------------------------- MODULE PruneClock ------------------------------
(***************************************************************************)
(* When the pruning thread prunes: the arithmetic of the next 4 PM in      *)
(* PruneGoodForDayOrders, through locks that take time, waits that end     *)
(* late or by another clock, and a day on which local time changes.        *)
(*                                                                         *)
(* Time is in tenths of a second, counted from a midnight.  wait_for is    *)
(* given a duration; the local time at its end may differ from the one     *)
(* computed, because the thread is woken late or because system_clock was  *)
(* adjusted meanwhile.  Each wait runs to its deadline: OrderbookLifecycle *)
(* has the ways it can end before.                                         *)
(***************************************************************************)
EXTENDS Integers

CONSTANTS
    Start,      \* when the thread may start
    LockTime,   \* how long the thread may take from one clock reading to a wait
    Drift,      \* how far from its deadline a wait may end
    PassTime,   \* how long a pass may take
    Shift,      \* the changes of local time there may be one of
    ShiftTime,  \* when it may be
    Horizon     \* a bound: no wait begins later

Hour == 36000
Day == 24 * Hour

\* milliseconds(100): added to the deadline.
Delay == 1

\* hours(16): the time of the pass.
end == 16

ASSUME StartAssumption == Start \subseteq Nat
ASSUME LockTimeAssumption == LockTime \subseteq 0 .. 6 * Hour
ASSUME PassTimeAssumption == PassTime \subseteq 0 .. Hour
ASSUME DriftAssumption == Drift \subseteq -Delay .. Hour \div 2
ASSUME ShiftAssumption == Shift \subseteq {-Hour, 0, Hour} /\ ShiftTime \subseteq Nat

VARIABLES
    now,        \* the time, unaffected by the change of local time
    phase,      \* where the thread is in its loop
    till,       \* till
    shift,      \* the change of local time of this behaviour
    shiftAt,    \* when it is
    pruned      \* the local day of the last pass, or the last too late to have one

vars == <<now, phase, till, shift, shiftAt, pruned>>

\* The local time, which localtime_r breaks up, at a time.
Local(time) == IF time >= shiftAt THEN time + shift ELSE time

HourOf(local) == (local % Day) \div Hour
DayOf(local) == local \div Day

\* Mutant of DaysOn: > for >=, so that 4 PM is not past 4 PM.
DaysOnStrictly(local) == IF HourOf(local) > end THEN 1 ELSE 0

\* Mutant of DaysOn: the next 4 PM is always tomorrow's.
DaysOnAlways(local) == 1

\* What tm_mday is increased by.
DaysOn(local) == IF HourOf(local) >= end THEN 1 ELSE 0

\* Mutant of Till: nothing is added to the time of the pass.
TillUndelayed(local) ==
    LET next == (DayOf(local) + DaysOn(local)) * Day + end * Hour
    IN  next - local

\* mktime reads the next 4 PM by the offset in force now (tm_isdst is that of
\* now), so that a change of local time in between has no part in till.
Till(local) ==
    LET next == (DayOf(local) + DaysOn(local)) * Day + end * Hour
    IN  next - local + Delay

\* The types of the variables; no wait is begun that would end at once, as it
\* would if the thread came round again at 4 PM.
TypeOK ==
    /\ now \in Nat
    /\ phase \in {"reading", "locking", "waiting", "passing"}
    /\ till \in 0 .. Day + Delay
    /\ phase \in {"locking", "waiting"} => till > Delay
    /\ shift \in Shift
    /\ shiftAt \in ShiftTime
    /\ pruned \in Int

Init ==
    /\ now \in Start
    /\ phase = "reading"
    /\ till = 0
    /\ shift \in Shift
    /\ shiftAt \in ShiftTime
    /\ pruned = IF HourOf(Local(now)) < end THEN DayOf(Local(now)) - 1
                                            ELSE DayOf(Local(now))

ReadClock ==
    /\ phase = "reading"
    /\ now < Horizon
    /\ phase' = "locking"
    /\ till' = Till(Local(now))
    /\ UNCHANGED <<now, shift, shiftAt, pruned>>

\* till was computed before the mutex was asked for.
LockMutex ==
    /\ phase = "locking"
    /\ \E d \in LockTime : now' = now + d
    /\ phase' = "waiting"
    /\ UNCHANGED <<till, shift, shiftAt, pruned>>

TimeOut ==
    /\ phase = "waiting"
    /\ \E d \in Drift : now' = now + till + d
    /\ phase' = "passing"
    /\ pruned' = DayOf(Local(now'))
    /\ UNCHANGED <<till, shift, shiftAt>>

Prune ==
    /\ phase = "passing"
    /\ \E d \in PassTime : now' = now + d
    /\ phase' = "reading"
    /\ till' = 0
    /\ UNCHANGED <<shift, shiftAt, pruned>>

Next == ReadClock \/ LockMutex \/ TimeOut \/ Prune

Spec == Init /\ [][Next]_vars

------------------------------------------------------------------------------
(* Properties. *)

PassBegins == phase = "waiting" /\ phase' = "passing"

\* "A pruning clock that cancels GoodForDay orders at 4PM every day"
\* (Orderbook.h): from one pass to the next is one day, at the end of any wait
\* and however long the locks took.
EveryDayOnce == [][PassBegins => pruned' = pruned + 1]_vars

\* "at 4PM": no pass is early, although the wait may end before its deadline by
\* as much as was added to it, and the next one is never aimed at the 4 PM just
\* past.
NotBeforeFour == [][PassBegins => Local(now') % Day >= end * Hour]_vars

\* "every day": no day goes by without a pass, even if its clock was set back
\* or forward.
NoDayMissed == [][PassBegins => pruned' \in {pruned, pruned + 1}]_vars
==============================================================================
