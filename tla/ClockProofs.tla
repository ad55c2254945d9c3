------------------------------- MODULE ClockProofs ------------------------------
(***************************************************************************)
(* Proofs about PruneClock: whatever the locks, the waits and the passes   *)
(* take within the assumptions, no day is missed, whenever local time      *)
(* changes; and where it is not set back, each day has one pass and none   *)
(* is before 4 PM.                                                         *)
(***************************************************************************)
EXTENDS PruneClock, TLAPS

\* 4 PM of a day.
Four(day) == day * Day + end * Hour

\* Local time was set back on the day of the last pass or the day before.
Back(time) ==
    /\ shift < 0
    /\ shiftAt <= time
    /\ DayOf(shiftAt) \in pruned - 1 .. pruned

\* The last 4 PM by the clock is that of the last pass, unless the clock was
\* set back to the hour before it.
Due(time) ==
    \/ Four(pruned) <= Local(time) /\ Local(time) < Four(pruned + 1)
    \/ Back(time) /\ Four(pruned) - Hour <= Local(time) /\ Local(time) < Four(pruned)

\* till is what was computed at some moment shortly before.
Aimed(time) ==
    /\ time <= now
    /\ now <= time + 6 * Hour
    /\ Due(time)
    /\ till = Till(Local(time))

\* A pass begins in the hours after 4 PM, on the day it counts for.
Late(time) ==
    \/ Four(pruned) <= Local(time) /\ Local(time) < Four(pruned) + 8 * Hour
    \/ Back(time) /\ Four(pruned) - Hour <= Local(time) /\ Local(time) < Four(pruned)

\* The inductive invariant.
ClockInv ==
    /\ TypeOK
    /\ phase = "reading" => Due(now)
    /\ phase = "locking" => Due(now) /\ till = Till(Local(now))
    /\ phase = "waiting" => \E r \in Nat : Aimed(r)
    /\ phase = "passing" => Late(now)

\* The units are integers; their values are expanded only where a proof counts
\* with them.
LEMMA Units ==
    /\ Hour \in Nat /\ Day \in Nat /\ Delay \in Nat
    /\ 6 * Hour \in Int /\ Hour \div 2 \in Int /\ -Delay \in Int /\ Day + Delay \in Int
    /\ 0 <= Day + Delay
BY SMT DEF Hour, Day, Delay

LEMMA Interval ==
    ASSUME NEW a \in Int, NEW b \in Int, NEW x
    PROVE  x \in a .. b <=> x \in Int /\ a <= x /\ x <= b
BY SMT

\* What \div and % say of the day and of the hour of a local time.
LEMMA DayParts ==
    ASSUME NEW local \in Int
    PROVE  /\ DayOf(local) \in Int
           /\ DayOf(local) * Day <= local
           /\ local < (DayOf(local) + 1) * Day
           /\ local % Day = local - DayOf(local) * Day
           /\ HourOf(local) >= end <=> local >= Four(DayOf(local))
BY SMT DEF DayOf, HourOf, Day, Hour, Four, end

\* A local time within a day has that day.
LEMMA DayIs ==
    ASSUME NEW local \in Int, NEW day \in Int,
           day * Day <= local, local < (day + 1) * Day
    PROVE  DayOf(local) = day
<1>1. /\ DayOf(local) \in Int
      /\ DayOf(local) * Day <= local
      /\ local < (DayOf(local) + 1) * Day
  BY DayParts
<1> QED
  BY <1>1, SMT DEF Day, Hour

\* Between two 4 PMs till runs to the later one, and the delay beyond it.
LEMMA TillIs ==
    ASSUME NEW local \in Int, NEW day \in Int,
           Four(day) <= local, local < Four(day + 1)
    PROVE  Till(local) = Four(day + 1) - local + Delay
<1>1. /\ DayOf(local) \in Int
      /\ DayOf(local) * Day <= local
      /\ local < (DayOf(local) + 1) * Day
      /\ HourOf(local) >= end <=> local >= Four(DayOf(local))
  BY DayParts
<1>2. CASE HourOf(local) >= end
  <2>1. DayOf(local) = day
    BY <1>1, <1>2, SMT DEF Four, Day, Hour, end
  <2>2. DaysOn(local) = 1
    BY <1>2 DEF DaysOn
  <2> QED
    BY <2>1, <2>2, SMT DEF Till, Four, Day, Hour, end, Delay
<1>3. CASE ~(HourOf(local) >= end)
  <2>1. DayOf(local) = day + 1
    BY <1>1, <1>3, SMT DEF Four, Day, Hour, end
  <2>2. DaysOn(local) = 0
    BY <1>3 DEF DaysOn
  <2> QED
    BY <2>1, <2>2, SMT DEF Till, Four, Day, Hour, end, Delay
<1> QED
  BY <1>2, <1>3

LEMMA LocalTypes ==
    ASSUME TypeOK, NEW time \in Nat
    PROVE  /\ Local(time) \in Int
           /\ shift \in {-Hour, 0, Hour} /\ shiftAt \in Nat
           /\ DayOf(shiftAt) \in Int
BY ShiftAssumption, DayParts, SMT DEF TypeOK, Local, Hour

\* What till is at a moment that Due describes.
LEMMA DueTill ==
    ASSUME TypeOK, NEW time \in Nat, Due(time)
    PROVE  \/ /\ Four(pruned) <= Local(time)
              /\ Local(time) < Four(pruned + 1)
              /\ Till(Local(time)) = Four(pruned + 1) - Local(time) + Delay
           \/ /\ Back(time)
              /\ Four(pruned) - Hour <= Local(time)
              /\ Local(time) < Four(pruned)
              /\ Till(Local(time)) = Four(pruned) - Local(time) + Delay
<1>1. Local(time) \in Int /\ pruned \in Int
  BY LocalTypes DEF TypeOK
<1>2. CASE Four(pruned) <= Local(time) /\ Local(time) < Four(pruned + 1)
  BY <1>1, <1>2, TillIs
<1>3. CASE Back(time) /\ Four(pruned) - Hour <= Local(time) /\ Local(time) < Four(pruned)
  <2>1. pruned - 1 \in Int /\ pruned - 1 + 1 = pruned
    BY <1>1
  <2>2. Four(pruned - 1) <= Local(time)
    BY <1>1, <1>3, SMT DEF Four, Day, Hour, end
  <2>3. Till(Local(time)) = Four(pruned - 1 + 1) - Local(time) + Delay
    BY <1>1, <1>3, <2>1, <2>2, TillIs
  <2> QED
    BY <1>3, <2>1, <2>3
<1> QED
  BY <1>2, <1>3 DEF Due

\* A change of local time between two moments leaves the later local time at
\* most an hour off, and earlier than it would be only if the clock is set back
\* in between.
LEMMA Elapsed ==
    ASSUME TypeOK, NEW time \in Nat, NEW later \in Nat, time <= later
    PROVE  \/ Local(later) = Local(time) + (later - time)
           \/ /\ time < shiftAt
              /\ shiftAt <= later
              /\ Local(time) = time
              /\ Local(later) = later + shift
<1>1. shift \in Int /\ shiftAt \in Nat
  BY LocalTypes, SMT DEF Hour
<1> QED
  BY <1>1, SMT DEF Local

------------------------------------------------------------------------------
(* The steps. *)

LEMMA InitClockInv == Init => ClockInv
<1> SUFFICES ASSUME Init PROVE ClockInv
  OBVIOUS
<1>1. now \in Nat /\ phase = "reading" /\ till = 0
  BY StartAssumption DEF Init
<1>2. shift \in Shift /\ shiftAt \in ShiftTime
  BY DEF Init
<1>3. Local(now) \in Int
  BY <1>1, <1>2, ShiftAssumption, SMT DEF Local, Hour
<1> DEFINE day == DayOf(Local(now))
<1>4. /\ day \in Int
      /\ day * Day <= Local(now)
      /\ Local(now) < (day + 1) * Day
      /\ HourOf(Local(now)) >= end <=> Local(now) >= Four(day)
  BY <1>3, DayParts
<1>5. HourOf(Local(now)) \in Int
  BY <1>3, SMT DEF HourOf, Day, Hour
<1>6. \/ pruned = day /\ Local(now) >= Four(day)
      \/ pruned = day - 1 /\ Local(now) < Four(day)
  <2>1. pruned = IF HourOf(Local(now)) < end THEN day - 1 ELSE day
    BY DEF Init
  <2> HIDE DEF day
  <2> QED
    BY <1>3, <1>4, <1>5, <2>1, SMT DEF Four, Day, Hour, end
<1>7. pruned \in Int /\ Four(pruned) <= Local(now) /\ Local(now) < Four(pruned + 1)
  <2> HIDE DEF day
  <2> QED
    BY <1>3, <1>4, <1>6, SMT DEF Four, Day, Hour, end
<1>8. TypeOK
  <2>1. 0 \in 0 .. Day + Delay
    BY Units, SMT
  <2> QED
    BY <1>1, <1>2, <1>7, <2>1 DEF TypeOK
<1> QED
  BY <1>1, <1>7, <1>8 DEF ClockInv, Due

LEMMA ReadClockInv == ClockInv /\ ReadClock => ClockInv'
<1> SUFFICES ASSUME ClockInv, ReadClock PROVE ClockInv'
  OBVIOUS
<1>1. TypeOK /\ Due(now) /\ now \in Nat /\ pruned \in Int
  BY DEF ClockInv, ReadClock, TypeOK
<1>2. /\ phase' = "locking" /\ till' = Till(Local(now)) /\ now' = now
      /\ shift' = shift /\ shiftAt' = shiftAt /\ pruned' = pruned
  BY DEF ReadClock
<1>3. till' \in 0 .. Day + Delay /\ till' > Delay
  <2> DEFINE local == Local(now)
             t == Till(local)
  <2>1. local \in Int
    BY <1>1, LocalTypes
  <2>2. \/ /\ Four(pruned) <= local /\ local < Four(pruned + 1)
           /\ t = Four(pruned + 1) - local + Delay
        \/ /\ Four(pruned) - Hour <= local /\ local < Four(pruned)
           /\ t = Four(pruned) - local + Delay
    BY <1>1, DueTill
  <2>3. till' = t
    BY <1>2
  <2> HIDE DEF local, t
  <2>4. till' \in Int /\ 0 <= till' /\ till' <= Day + Delay /\ till' > Delay
    BY <1>1, <2>1, <2>2, <2>3, SMT DEF Four, Day, Hour, end, Delay
  <2> QED
    BY <2>4, Units, Interval
<1>4. TypeOK'
  BY <1>1, <1>2, <1>3 DEF TypeOK
<1>5. Due(now)' /\ till' = Till(Local(now))'
  BY <1>1, <1>2 DEF Due, Back, Local
<1> QED
  BY <1>2, <1>4, <1>5 DEF ClockInv

LEMMA LockMutexInv == ClockInv /\ LockMutex => ClockInv'
<1> SUFFICES ASSUME ClockInv, LockMutex PROVE ClockInv'
  OBVIOUS
<1>1. TypeOK /\ Due(now) /\ till = Till(Local(now)) /\ now \in Nat /\ pruned \in Int
  BY DEF ClockInv, LockMutex, TypeOK
<1>2. /\ phase' = "waiting" /\ till' = till
      /\ shift' = shift /\ shiftAt' = shiftAt /\ pruned' = pruned
  BY DEF LockMutex
<1>3. now' \in Nat /\ now <= now' /\ now' <= now + 6 * Hour
  <2>1. PICK d \in LockTime : now' = now + d
    BY DEF LockMutex
  <2>2. d \in Int /\ 0 <= d /\ d <= 6 * Hour
    BY LockTimeAssumption, Units, Interval
  <2> QED
    BY <1>1, <2>1, <2>2, SMT DEF Hour
<1>4. TypeOK'
  BY <1>1, <1>2, <1>3 DEF TypeOK, LockMutex
<1>5. \E r \in Nat : Aimed(r)'
  <2>1. PICK r \in Nat : r = now
    BY <1>1
  <2>2. Due(r)' /\ till' = Till(Local(r))'
    BY <1>1, <1>2, <2>1 DEF Due, Back, Local
  <2>3. Aimed(r)'
    BY <1>3, <2>1, <2>2 DEF Aimed
  <2> QED
    BY <2>3
<1> QED
  BY <1>2, <1>4, <1>5 DEF ClockInv

\* Local time was set back within a day of the last pass.
SetBack(time) ==
    /\ shift < 0
    /\ shiftAt <= time
    /\ DayOf(shiftAt) \in pruned - 1 .. pruned + 1

\* What the end of a wait does, from which the invariant and the
\* properties follow.
LEMMA PassTaken ==
    ASSUME ClockInv, TimeOut
    PROVE  /\ now' \in Nat
           /\ Late(now)'
           /\ \/ pruned' = pruned + 1
              \/ pruned' = pruned /\ SetBack(now')
           /\ \/ Four(pruned') <= Local(now')
              \/ Four(pruned') - Hour <= Local(now') /\ SetBack(now')
           /\ Local(now') \in Int
           /\ pruned' * Day <= Local(now') /\ Local(now') < (pruned' + 1) * Day
<1>1. TypeOK /\ phase = "waiting" /\ now \in Nat /\ pruned \in Int
  BY DEF ClockInv, TimeOut, TypeOK
<1>2. PICK r \in Nat : Aimed(r)
  BY <1>1 DEF ClockInv
<1>3. r <= now /\ now <= r + 6 * Hour /\ Due(r) /\ till = Till(Local(r))
  BY <1>2 DEF Aimed
<1>4. PICK d \in Drift : now' = now + till + d
  BY DEF TimeOut
<1>5. d \in Int /\ -Delay <= d /\ d <= Hour \div 2
  BY DriftAssumption, Units, Interval
<1>6. /\ shift' = shift /\ shiftAt' = shiftAt /\ pruned' = DayOf(Local(now'))
  BY DEF TimeOut, Local
<1>7. till \in Int /\ till > Delay
  BY <1>1, Units, Interval DEF TypeOK
<1>8. /\ now' \in Nat /\ r <= now'
      /\ till - Delay <= now' - r
      /\ now' - r < till - Delay + 7 * Hour
  <2>1. /\ now \in Int /\ r \in Int /\ 0 <= r
        /\ r <= now /\ now <= r + 6 * Hour /\ now' = now + till + d
    BY <1>1, <1>3, <1>4
  <2>2. d <= 18000
    BY <1>5, SMT DEF Hour
  <2> QED
    BY <1>5, <1>7, <2>1, <2>2, SMT DEF Delay, Hour
\* Names for the numbers of the step.
<1>9. PICK P \in Int, w \in Nat, t \in Int : P = pruned /\ w = now' /\ t = till
  BY <1>1, <1>7, <1>8
<1>10. PICK from \in Int, to \in Int : from = Local(r) /\ to = Local(now')
  BY <1>1, <1>8, LocalTypes
<1>11. PICK s \in {-Hour, 0, Hour}, at \in Nat, turn \in Int :
          s = shift /\ at = shiftAt /\ turn = DayOf(shiftAt)
  BY <1>1, LocalTypes
<1>12. s \in Int /\ turn * Day <= at /\ at < (turn + 1) * Day
  <2>1. at \in Int
    OBVIOUS
  <2>2. turn * Day <= at /\ at < (turn + 1) * Day
    BY <1>11, <2>1, DayParts
  <2>3. s \in Int
    BY <1>11, SMT DEF Hour
  <2> QED
    BY <2>2, <2>3
<1>13. r <= w /\ t - Delay <= w - r /\ w - r < t - Delay + 7 * Hour
  BY <1>8, <1>9
<1>14. \/ to = from + (w - r)
       \/ r < at /\ at <= w /\ from = r /\ to = w + s
  BY <1>1, <1>8, <1>9, <1>10, <1>11, Elapsed
<1>15. ASSUME \/ Four(pruned') <= to /\ to < Four(pruned') + 8 * Hour
              \/ /\ s < 0 /\ at <= w /\ turn \in pruned' - 1 .. pruned'
                 /\ Four(pruned') - Hour <= to /\ to < Four(pruned')
       PROVE  Late(now)'
  BY <1>6, <1>9, <1>10, <1>11, <1>15 DEF Late, Back, Local
<1>16. SetBack(now') <=> s < 0 /\ at <= w /\ turn \in P - 1 .. P + 1
  BY <1>9, <1>11 DEF SetBack
<1>17. CASE /\ Four(P) <= from /\ from < Four(P + 1)
            /\ t = Four(P + 1) - from + Delay
  <2>1. \/ Four(P + 1) <= to /\ to < Four(P + 1) + 8 * Hour
        \/ /\ s < 0 /\ at <= w /\ turn \in P .. P + 1
           /\ Four(P + 1) - Hour <= to /\ to < Four(P + 1)
    <3>1. CASE to = from + (w - r)
      BY <1>13, <1>17, <3>1, SMT DEF Four, Day, Hour, end, Delay
    <3>2. CASE r < at /\ at <= w /\ from = r /\ to = w + s
      <4>1. CASE Four(P + 1) <= to
        BY <1>12, <1>13, <1>17, <3>2, <4>1, SMT DEF Four, Day, Hour, end, Delay
      <4>2. CASE to < Four(P + 1)
        <5>1. s = -Hour /\ Four(P + 1) - Hour <= to
          BY <1>12, <1>13, <1>17, <3>2, <4>2, SMT DEF Four, Day, Hour, end, Delay
        <5>2. P <= turn /\ turn <= P + 1
          BY <1>12, <1>17, <3>2, <4>2, <5>1, SMT DEF Four, Day, Hour, end
        <5>3. s < 0
          BY <5>1, SMT DEF Hour
        <5> QED
          BY <3>2, <4>2, <5>1, <5>2, <5>3, SMT
      <4>3. Four(P + 1) \in Int
        BY SMT DEF Four, Day, Hour, end
      <4> QED
        BY <4>1, <4>2, <4>3, SMT
    <3> QED
      BY <1>14, <3>1, <3>2
  <2>2. (P + 1) * Day <= to /\ to < (P + 1 + 1) * Day
    BY <2>1, SMT DEF Four, Day, Hour, end
  <2>3. pruned' = P + 1
    <3>1. P + 1 \in Int
      OBVIOUS
    <3>2. DayOf(to) = P + 1
      BY <2>2, <3>1, DayIs
    <3> QED
      BY <1>6, <1>10, <3>2
  <2>4. turn \in P .. P + 1 => turn \in P + 1 - 1 .. P + 1 /\ turn \in P - 1 .. P + 1
    BY SMT
  <2>5. Late(now)'
    BY <1>15, <2>1, <2>3, <2>4
  <2>6. \/ Four(pruned') <= Local(now')
        \/ Four(pruned') - Hour <= Local(now') /\ SetBack(now')
    BY <1>10, <1>16, <2>1, <2>3, <2>4
  <2>7. pruned' * Day <= Local(now') /\ Local(now') < (pruned' + 1) * Day
    BY <1>10, <2>2, <2>3
  <2> QED
    BY <1>8, <1>9, <1>10, <2>3, <2>5, <2>6, <2>7
<1>18. CASE /\ Back(r)
            /\ Four(P) - Hour <= from /\ from < Four(P)
            /\ t = Four(P) - from + Delay
  <2>1. s < 0 /\ at <= r /\ turn \in P - 1 .. P
    BY <1>9, <1>11, <1>18 DEF Back
  <2>2. to = from + (w - r)
    BY <1>14, <2>1, SMT
  <2>3. Four(P) <= to /\ to < Four(P) + 8 * Hour
    BY <1>13, <1>18, <2>2, SMT DEF Four, Day, Hour, end, Delay
  <2>4. P * Day <= to /\ to < (P + 1) * Day
    BY <2>3, SMT DEF Four, Day, Hour, end
  <2>5. pruned' = P
    <3>1. DayOf(to) = P
      BY <2>4, DayIs
    <3> QED
      BY <1>6, <1>10, <3>1
  <2>6. at <= w /\ turn \in P - 1 .. P + 1
    BY <1>13, <2>1, SMT
  <2>7. Late(now)'
    BY <1>15, <2>3, <2>5
  <2> QED
    BY <1>8, <1>9, <1>10, <1>16, <2>1, <2>3, <2>4, <2>5, <2>6, <2>7
<1>19. \/ /\ Four(P) <= from /\ from < Four(P + 1)
          /\ t = Four(P + 1) - from + Delay
       \/ /\ Back(r)
          /\ Four(P) - Hour <= from /\ from < Four(P)
          /\ t = Four(P) - from + Delay
  BY <1>1, <1>3, <1>9, <1>10, DueTill
<1> QED
  BY <1>17, <1>18, <1>19

LEMMA TimeOutInv == ClockInv /\ TimeOut => ClockInv'
<1> SUFFICES ASSUME ClockInv, TimeOut PROVE ClockInv'
  OBVIOUS
<1>1. now' \in Nat /\ Late(now)'
  BY PassTaken
<1>2. /\ phase' = "passing" /\ till' = till /\ shift' = shift /\ shiftAt' = shiftAt
      /\ pruned' = DayOf(Local(now'))
  BY DEF TimeOut, Local
<1>3. pruned' \in Int
  BY <1>2, PassTaken, DayParts
<1>4. TypeOK'
  BY <1>1, <1>2, <1>3 DEF ClockInv, TypeOK
<1> QED
  BY <1>1, <1>2, <1>4 DEF ClockInv

LEMMA PruneInv == ClockInv /\ Prune => ClockInv'
<1> SUFFICES ASSUME ClockInv, Prune PROVE ClockInv'
  OBVIOUS
<1>1. TypeOK /\ Late(now) /\ now \in Nat /\ pruned \in Int
  BY DEF ClockInv, Prune, TypeOK
<1>2. /\ phase' = "reading" /\ till' = 0
      /\ shift' = shift /\ shiftAt' = shiftAt /\ pruned' = pruned
  BY DEF Prune
<1>3. PICK d \in PassTime : now' = now + d
  BY DEF Prune
<1>4. d \in Int /\ 0 <= d /\ d <= Hour
  BY PassTimeAssumption, Units, Interval
<1>5. now' \in Nat /\ now <= now' /\ now' - now <= Hour
  BY <1>1, <1>3, <1>4, SMT DEF Hour
<1>6. PICK P \in Int, n \in Nat, w \in Nat : P = pruned /\ n = now /\ w = now'
  BY <1>1, <1>5
<1>7. PICK from \in Int, to \in Int : from = Local(now) /\ to = Local(now')
  BY <1>1, <1>5, LocalTypes
<1>8. PICK s \in {-Hour, 0, Hour}, at \in Nat, turn \in Int :
          s = shift /\ at = shiftAt /\ turn = DayOf(shiftAt)
  BY <1>1, LocalTypes
<1>9. s \in Int /\ turn * Day <= at /\ at < (turn + 1) * Day
  <2>1. at \in Int
    OBVIOUS
  <2>2. turn * Day <= at /\ at < (turn + 1) * Day
    BY <1>8, <2>1, DayParts
  <2>3. s \in Int
    BY <1>8, SMT DEF Hour
  <2> QED
    BY <2>2, <2>3
<1>10. n <= w /\ w - n <= Hour
  BY <1>5, <1>6
<1>11. \/ to = from + (w - n)
       \/ n < at /\ at <= w /\ from = n /\ to = w + s
  BY <1>1, <1>5, <1>6, <1>7, <1>8, Elapsed
<1>12. \/ Four(P) <= from /\ from < Four(P) + 8 * Hour
       \/ /\ s < 0 /\ at <= n /\ turn \in P - 1 .. P
          /\ Four(P) - Hour <= from /\ from < Four(P)
  BY <1>1, <1>6, <1>7, <1>8 DEF Late, Back
<1>13. \/ Four(P) <= to /\ to < Four(P + 1)
       \/ /\ s < 0 /\ at <= w /\ P - 1 <= turn /\ turn <= P
          /\ Four(P) - Hour <= to /\ to < Four(P)
  <2>1. CASE to = from + (w - n)
    <3>1. CASE Four(P) <= from /\ from < Four(P) + 8 * Hour
      BY <1>10, <2>1, <3>1, SMT DEF Four, Day, Hour, end
    <3>2. CASE /\ s < 0 /\ at <= n /\ turn \in P - 1 .. P
               /\ Four(P) - Hour <= from /\ from < Four(P)
      BY <1>10, <2>1, <3>2, SMT DEF Four, Day, Hour, end
    <3> QED
      BY <1>12, <3>1, <3>2
  <2>2. CASE n < at /\ at <= w /\ from = n /\ to = w + s
    <3>1. Four(P) <= from /\ from < Four(P) + 8 * Hour
      BY <1>12, <2>2, SMT
    <3>2. CASE Four(P) <= to
      BY <1>9, <1>10, <2>2, <3>1, <3>2, SMT DEF Four, Day, Hour, end
    <3>3. CASE to < Four(P)
      <4>1. s = -Hour /\ Four(P) - Hour <= to
        BY <1>9, <1>10, <2>2, <3>1, <3>3, SMT DEF Four, Day, Hour, end
      <4>2. turn = P
        BY <1>9, <2>2, <3>1, <3>3, <4>1, SMT DEF Four, Day, Hour, end
      <4>3. s < 0
        BY <4>1, SMT DEF Hour
      <4> QED
        BY <2>2, <3>3, <4>1, <4>2, <4>3, SMT
    <3>4. Four(P) \in Int
      BY SMT DEF Four, Day, Hour, end
    <3> QED
      BY <3>2, <3>3, <3>4, SMT
  <2> QED
    BY <1>11, <2>1, <2>2
<1>14. P - 1 <= turn /\ turn <= P => turn \in P - 1 .. P
  BY SMT
<1>15. Due(now)'
  BY <1>2, <1>6, <1>7, <1>8, <1>13, <1>14 DEF Due, Back, Local
<1>16. TypeOK'
  <2>1. 0 \in 0 .. Day + Delay
    BY Units, SMT
  <2> QED
    BY <1>1, <1>2, <1>5, <2>1 DEF TypeOK
<1> QED
  BY <1>2, <1>15, <1>16 DEF ClockInv

LEMMA NextClockInv == ClockInv /\ [Next]_vars => ClockInv'
<1> SUFFICES ASSUME ClockInv, [Next]_vars PROVE ClockInv'
  OBVIOUS
<1>1. CASE UNCHANGED vars
  BY <1>1 DEF vars, ClockInv, TypeOK, Due, Late, Back, Aimed, Local
<1> QED
  BY <1>1, ReadClockInv, LockMutexInv, TimeOutInv, PruneInv DEF Next

------------------------------------------------------------------------------
(* The theorems. *)

\* The invariant holds in every reachable state.
THEOREM ClockCorrect == Spec => []ClockInv
BY InitClockInv, NextClockInv, PTL DEF Spec

\* No wait is begun that ends at once: a thread that comes round at 4 PM aims
\* at the next day (PruneGoodForDayOrders, the computation of till).
THEOREM ClockTypeCorrect == Spec => []TypeOK
<1>1. ClockInv => TypeOK
  BY DEF ClockInv
<1> QED
  BY <1>1, ClockCorrect, PTL

\* The clocks that are never set back, as those of a zone without summer time.
NeverSetBack == \A s \in Shift : s >= 0

LEMMA NotSetBack ==
    ASSUME NeverSetBack, ClockInv
    PROVE  ~SetBack(now')
<1>1. shift \in Shift /\ shift \in Int
  BY ShiftAssumption, Units DEF ClockInv, TypeOK
<1>2. shift >= 0
  BY <1>1 DEF NeverSetBack
<1> QED
  BY <1>1, <1>2, SMT DEF SetBack

\* Only the end of a wait begins a pass.
LEMMA PassIsTimeOut == [Next]_vars /\ PassBegins => TimeOut
BY DEF Next, vars, PassBegins, ReadClock, LockMutex, Prune

\* "every day": no day goes by without a pass, whatever the delays are and
\* whenever local time changes, forward or back.
THEOREM NoDayIsMissed == Spec => NoDayMissed
<1> DEFINE A == PassBegins => pruned' \in {pruned, pruned + 1}
<1>1. ClockInv /\ [Next]_vars => [A]_vars
  BY PassIsTimeOut, PassTaken
<1> QED
  BY <1>1, ClockCorrect, PTL DEF Spec, NoDayMissed

\* "cancels GoodForDay orders at 4PM every day": one pass a day, whatever the
\* delays are, where clocks are not set back.
THEOREM OncePerDay ==
    ASSUME NeverSetBack
    PROVE  Spec => EveryDayOnce
<1> DEFINE A == PassBegins => pruned' = pruned + 1
<1>1. ClockInv /\ [Next]_vars => [A]_vars
  BY PassIsTimeOut, PassTaken, NotSetBack
<1> QED
  BY <1>1, ClockCorrect, PTL DEF Spec, EveryDayOnce

\* "at 4PM": no pass begins before it, where clocks are not set back.
THEOREM NeverEarly ==
    ASSUME NeverSetBack
    PROVE  Spec => NotBeforeFour
<1> DEFINE A == PassBegins => Local(now') % Day >= end * Hour
<1>1. ASSUME ClockInv, TimeOut
      PROVE  Local(now') % Day >= end * Hour
  <2>1. PICK to \in Int : to = Local(now')
    BY <1>1, PassTaken
  <2>2. pruned' = DayOf(to)
    BY <1>1, <2>1 DEF TimeOut, Local
  <2>3. PICK P \in Int : P = DayOf(to)
    BY DayParts
  <2>4. to % Day = to - P * Day
    BY <2>3, DayParts
  <2>5. Four(P) <= to
    BY <1>1, <2>1, <2>2, <2>3, PassTaken, NotSetBack
  <2>6. to - P * Day >= end * Hour
    BY <2>5, SMT DEF Four, Day, Hour, end
  <2> QED
    BY <2>1, <2>4, <2>6
<1>2. ClockInv /\ [Next]_vars => [A]_vars
  BY <1>1, PassIsTimeOut
<1> QED
  BY <1>2, ClockCorrect, PTL DEF Spec, NotBeforeFour
===============================================================================
