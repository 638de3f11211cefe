------------------------------ MODULE CronTime ------------------------------
(***************************************************************************)
(* nextFire of src/src/cron/cronParser.ts: the search for the next minute   *)
(* that matches the five fields f of a cron expression.  Time is a number   *)
(* of minutes; the lengths of the hour, the day, the week and the months    *)
(* are parameters, so that small calendars can be searched exhaustively.    *)
(* Parsing a field yields the set of its values.                            *)
(* A place p is where the search runs: the job's zone, by what its clock is *)
(* ahead of the minutes counted (standard, and an hour more in summer), and *)
(* the machine, with its own zone (west: behind UTC) and what its Intl      *)
(* makes of midnight (h24: the hour 24, as cronParser.ts:205 has met).      *)
(***************************************************************************)
EXTENDS Integers, Sequences

CONSTANTS
    HourLen,     \* minutes in an hour
    DayLen,      \* hours in a day
    WeekLen,     \* days in a week
    MonthLens,   \* days in each month, a sequence
    Horizon,     \* minutes searched before giving up: two years
    Utc,         \* what UTC's clock is ahead of the minutes counted
    None, Endless

MinutesPerDay == HourLen * DayLen

DaysBefore ==
    LET d[m \in 1..Len(MonthLens) + 1] == IF m = 1 THEN 0 ELSE d[m - 1] + MonthLens[m - 1]
    IN  d

\* The date and the time of day of a minute c of a clock.
Calendar(c) ==
    LET day  == c \div MinutesPerDay
        ofYear == day % DaysBefore[Len(MonthLens) + 1]
        m    == CHOOSE k \in DOMAIN MonthLens :
                    DaysBefore[k] <= ofYear /\ ofYear < DaysBefore[k + 1]
    IN  [minute |-> c % HourLen,
         hour   |-> (c \div HourLen) % DayLen,
         day    |-> ofYear - DaysBefore[m] + 1,
         month  |-> m,
         dow    |-> day % WeekLen]

\* What Intl makes of a minute t in the job's zone.
Offset(p, t) == p.standard + (IF t \in p.summer THEN HourLen ELSE 0)
Clock(p, t) == t + Offset(p, t)

\* The weekday is getDay() of UTC's midnight of the date, in the machine's zone: west of
\* UTC it is still the day before.
Seen(p, c) ==
    [Calendar(c) EXCEPT !.dow = IF p.west THEN (@ + (WeekLen - 1)) % WeekLen ELSE @]

\* toTimezone
Local(p, t) == Seen(p, Clock(p, t))

DayMatches(f, l) == l.month \in f.months /\ l.day \in f.days /\ l.dow \in f.dows
HourMatches(f, l) == DayMatches(f, l) /\ l.hour \in f.hours
MinuteMatches(f, l) == HourMatches(f, l) /\ l.minute \in f.minutes

\* cronMatches
Matches(p, f, t) == MinuteMatches(f, Local(p, t))

\* The midnight, on a clock, that begins the month after that of its minute c.
NextFirst(c) ==
    LET l == Calendar(c)
    IN  ((c \div MinutesPerDay) - (l.day - 1) + MonthLens[l.month]) * MinutesPerDay

\* dateInTimezone of a midnight: the zone's offset is taken at the minute at which UTC's
\* clock shows it.  The zone's own clock shows the hour 0 at that minute if it agrees with
\* UTC's (no zone is less than an hour ahead), and where that hour is written 24 the date
\* read back is a day later.
DateInTimezone(p, midnight) ==
    LET rough == midnight - Utc
        late  == IF p.h24 /\ Offset(p, rough) = Utc THEN MinutesPerDay ELSE 0
    IN  midnight - (Offset(p, rough) + late)

\* advanceToNextMonth
NextMonth(p, t) == DateInTimezone(p, NextFirst(Clock(p, t)))

\* Mutant of NextHour: two hours on.
SecondNextHour(t) == t + 2 * HourLen

\* advanceToNextDay, advanceToNextHour: the time of day, and of the hour, is kept.
NextDay(t) == t + MinutesPerDay
NextHour(t) == t + HourLen

\* Where the search goes on from a minute that does not match.
Ahead(p, f, t) ==
    LET l == Local(p, t)
    IN  IF l.month \notin f.months THEN NextMonth(p, t)
        ELSE IF ~DayMatches(f, l) THEN NextDay(t)
        ELSE IF ~HourMatches(f, l) THEN NextHour(t)
        ELSE t + 1

\* A jump that does not lead on ends in the month it should have left, from where it
\* leads to the same minute again: the loop has no end.
NextFire(p, f, after) ==
    LET search[t \in Nat] ==
            IF t >= after + Horizon THEN None
            ELSE IF Matches(p, f, t) THEN t
            ELSE IF Ahead(p, f, t) <= t THEN Endless
            ELSE search[Ahead(p, f, t)]
    IN  search[after + 1]

-----------------------------------------------------------------------------
\* The reference definition: the first minute after the given one that the expression
\* names on the clock of the job's zone.
Names(p, f, t) == MinuteMatches(f, Calendar(Clock(p, t)))

Earliest(p, f, after) ==
    LET due == {t \in after + 1 .. after + Horizon - 1 : Names(p, f, t)}
    IN  IF due = {} THEN None ELSE CHOOSE t \in due : \A u \in due : t <= u
=============================================================================
