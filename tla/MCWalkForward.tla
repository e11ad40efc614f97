--------------------------- MODULE MCWalkForward ---------------------------
(* Two weeks and a half of WalkForward for TLC: the bounds are in the .cfg *)
(* files.                                                                  *)
EXTENDS WalkForward

CONSTANTS
    MaxHolidays,        \* bound: closed weekdays
    HolidayCandidates,  \* bound: the weekdays that may be closed
    HalfDays            \* the half days, unless closed

FewHolidays ==
    {[d \in Days |-> IF ~Weekday(d) \/ d \in closed THEN "closed"
                     ELSE IF d \in HalfDays THEN "half" ELSE "full"] :
        closed \in UNION {kSubset(k, HolidayCandidates) : k \in 0..MaxHolidays}}

\* A moment is asked about in ET, on the Pacific coast, in Hawaii, in UTC and in Tokyo.
NearZones == {0, -3, -5, 5, 14}

NoneGiven == -1
=============================================================================
