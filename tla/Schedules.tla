----------------------------- MODULE Schedules -----------------------------
(***************************************************************************)
(* Cron and the calendar its slots come from.  nextFire keeps no state, so    *)
(* it is judged before anything happens: the expressions Fields in the        *)
(* places Places, from the reference minutes Reference.                      *)
(***************************************************************************)
EXTENDS Cron

CONSTANTS HourLen, DayLen, WeekLen, MonthLens, Horizon, Utc, Endless, Reference, Fields, Places

Time == INSTANCE CronTime

\* Hours, days, weeks and months have a length, and a year has months.  No zone is less
\* than an hour ahead of UTC.
ASSUME SchedulesAssumption ==
    /\ {HourLen, DayLen, WeekLen} \subseteq Nat \ {0}
    /\ MonthLens \in Seq(Nat \ {0}) /\ MonthLens # <<>>
    /\ Horizon \in Nat /\ Utc \in Nat /\ Reference \subseteq Nat
    /\ Endless \notin Nat \cup {None}
    /\ Fields \subseteq [minutes : SUBSET Nat, hours : SUBSET Nat, days : SUBSET Nat,
                         months : SUBSET Nat, dows : SUBSET Nat]
    /\ \A p \in Places :
          /\ p.standard \in Nat /\ p.standard - Utc \notin 1..(HourLen - 1)
          /\ p.west \in BOOLEAN /\ p.h24 \in BOOLEAN
          /\ p.summer # {} => p.standard + HourLen - Utc \notin 1..(HourLen - 1)

Untouched == now = 0 /\ timer /\ crashes = 0 /\ \A j \in Job : job[j] = "none"

\* The clock of the job's zone is never changed, and the machine reads its midnights.
Steady(p) == p.summer = {} /\ ~(p.h24 /\ p.standard = Utc)

\* The expression as far as the place can tell: on a machine west of UTC every weekday is
\* taken for the one before.
Told(p, f) == IF p.west THEN [f EXCEPT !.dows = 0..(WeekLen - 1)] ELSE f

\* A job is never scheduled for a minute its expression does not name on the clock of its
\* zone, nor for one that is already over, wherever it runs: except that on a machine west
\* of UTC the weekday may be another.
FiresOnlyWhenDue ==
    Untouched => \A p \in Places, f \in Fields, t \in Reference :
        LET fire == Time!NextFire(p, f, t)
        IN  fire \notin {None, Endless} => fire > t /\ Time!Names(p, Told(p, f), fire)

\* From a time within an hour the expression names the search finds the first minute it
\* names: a job that is rescheduled in the hour it fired in fires next when it should,
\* where clocks are steady and the weekday does not matter or can be told.
ExactWithinFiringHour ==
    Untouched => \A p \in Places, f \in Fields, t \in Reference :
        /\ Steady(p) /\ Told(p, f) = f
        /\ Time!HourMatches(f, Time!Calendar(Time!Clock(p, t + 1)))
        => Time!NextFire(p, f, t) = Time!Earliest(p, f, t)

\* Where clocks are steady the search comes to an end.
SearchEnds ==
    Untouched => \A p \in Places, f \in Fields, t \in Reference :
        Steady(p) => Time!NextFire(p, f, t) # Endless

\* nextFire may answer late (FiresAtNextMatch below is false), but what it answers is
\* a minute the expression names, in the future, and the first of them whenever the search
\* begins in an hour that matches; and it does answer, unless midnight is written as 24 in
\* a job's UTC or the zone changes its clock (cronParser.ts:135-136).
NextFireIsSound == FiresOnlyWhenDue /\ ExactWithinFiringHour /\ SearchEnds

\* cronParser.ts: "Compute the next fire time after the given date for the cron
\* fields."
FiresAtNextMatch ==
    Untouched => \A p \in Places, f \in Fields, t \in Reference :
        Time!NextFire(p, f, t) = Time!Earliest(p, f, t)
=============================================================================
