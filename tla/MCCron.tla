------------------------------- MODULE MCCron -------------------------------
(* Instances of Schedules: one or two jobs with a few slots each, in a toy    *)
(* calendar of five days or in the real year.                                *)
EXTENDS Schedules
CONSTANTS j1, j2

ToyMonths == <<3, 2>>
RealMonths == <<31, 28, 31, 30, 31, 30, 31, 31, 30, 31, 30, 31>>

ToyFields ==
    [minutes : {{0}, {1}, {2}, {0, 2}, {0, 1, 2}}, hours : {{0}, {1}, {2}, {0, 1}, {0, 1, 2}},
     days : {{1}, {2}, {3}, {1, 2, 3}}, months : {{1}, {2}, {1, 2}}, dows : {{0}, {1}, {0, 1}}]
ToyReference == 0..45

\* UTC in an engine that writes midnight as 0 and in one that writes it as 24; a zone west
\* of UTC and one east of it, on machines west of UTC; a zone that puts its clock forward
\* in the last hour of a month, and back in the middle of another.
ToyPlaces ==
    {[standard |-> 3, summer |-> {}, west |-> FALSE, h24 |-> FALSE],
     [standard |-> 3, summer |-> {}, west |-> TRUE, h24 |-> TRUE],
     [standard |-> 0, summer |-> {}, west |-> TRUE, h24 |-> TRUE],
     [standard |-> 7, summer |-> {}, west |-> FALSE, h24 |-> TRUE],
     [standard |-> 6, summer |-> 20..32, west |-> FALSE, h24 |-> FALSE]}

\* 0 9 * * *, asked in the first minute of a day, in UTC (Utc = 0).
DailyAtNine ==
    {[minutes |-> {0}, hours |-> {9}, days |-> 1..31, months |-> 1..12, dows |-> 0..6]}
AfterMidnight == {1440}
AtUtc == {[standard |-> 0, summer |-> {}, west |-> FALSE, h24 |-> FALSE]}
=============================================================================
