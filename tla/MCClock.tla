-------------------------------- MODULE MCClock --------------------------------
(***************************************************************************)
(* Instances of PruneClock for TLC: times of day, in tenths of a second.   *)
(***************************************************************************)
EXTENDS PruneClock

Minute == 600

\* Midnight, just before 4 PM, 4 PM, just after, and just before midnight.
Starts == {0, end * Hour - 1, end * Hour, end * Hour + 1, Day - 1}

LockTimes == {0, 30 * Minute, 6 * Hour}
Drifts == {-Delay, 0, 20 * Minute}
PassTimes == {0, Hour}
Shifts == {-Hour, 0, Hour}
ForwardShifts == {0, Hour}
Backward == {-Hour}

\* Just before and after the pass of the first day, and in the night after it.
ShiftTimes == {end * Hour - 10 * Minute, end * Hour + 30 * Minute, Day + 2 * Hour}

\* In the night, as clocks are changed.
Night == {Day + 2 * Hour}

FiveDays == 5 * Day
==============================================================================
