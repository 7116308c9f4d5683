------------------------- MODULE MCArchiveCollector -------------------------
(***************************************************************************)
(* Instances of ArchiveCollector.  Times are small: midnight of day 0 is   *)
(* hour 0, month 0 is January 2000, a leap year.                           *)
(***************************************************************************)
EXTENDS ArchiveCollector

CONSTANTS s1, s2, s3

Full(first) == [kind |-> "full", hourly |-> first, daily |-> first]
Old(first) == [kind |-> "old", hourly |-> first, daily |-> first]
Short == [kind |-> "short", hourly |-> 0, daily |-> 0]

OneChunk == [s \in Schemes |-> 1]
UnevenChunks == [s \in Schemes |-> IF s = s1 THEN 2 ELSE 1]
PoorChunks == [s \in Schemes |-> IF s = s2 THEN 0 ELSE 1]

\* Hours 10, 11, 12 are over at 13; a year is three hours long.
HourlyMoments == {11, 13}
HourlyHorizon == 10..12

TwoHours == {12}
TwoHoursReplies == {Full(10), Short}

\* Days 1 to 4; the first mark may carry any hour of the day.
DailyMoments == {47, 96, 120}
DailyReplies == {Full(24), Old(30), Full(47)}
DailyHorizon == 1..3

\* February to April 2000, one moment a month.
SpringMoments == {Date(2, 1), Date(3, 1), Date(4, 1)}
SpringReplies == {Full(Date(1, 5))}

\* From 30 January, the clamped 29 February and 30 March 2000.
MonthlyMoments == {Date(0, 31), Date(2, 1), Date(3, 15)}
MonthlyReplies == {Full(Date(0, 5)), Old(Date(0, 31))}
MonthlyHorizon == 0..2
=============================================================================
