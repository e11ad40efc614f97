--------------------------- MODULE MarketCalendar ---------------------------
(***************************************************************************)
(* The session lookups of market_calendar.py.  Days are numbered from a    *)
(* Monday on, a moment is 24 * day + hour on the exchange's own clock (ET, *)
(* no DST), and an aware `now` is a moment plus its zone's offset from ET. *)
(* The backend's calendar is fixed for good: a day is closed, a half day   *)
(* or a full day; days before day 0 count as closed.                       *)
(***************************************************************************)
EXTENDS Integers, FiniteSets, FiniteSetsExt

CONSTANTS
    LastDay,        \* the last modelled day
    LookbackDays,   \* lookback_days
    Hours,          \* the hours of the day at which somebody looks at the clock
    Zones,          \* offsets from ET of the moments passed as `now`
    UtcOffset,      \* the offset of UTC from ET
    Calendars       \* the possible exchange calendars

Days == 0..LastDay
Kinds == {"closed", "half", "full"}

ASSUME DayAssumption == LastDay \in Nat /\ LookbackDays \in Nat \ {0}
ASSUME HourAssumption == Hours \subseteq 0..23 /\ Hours # {}
ASSUME ZoneAssumption == Zones \subseteq -12..20 /\ UtcOffset \in 0..12
ASSUME CalendarAssumption == Calendars \subseteq [Days -> Kinds]

VARIABLES
    calendar,  \* what the exchange's calendar says of each day
    now        \* the moment

calendarVars == <<calendar, now>>

\* The lookups' ValueError.
NoSession == -1

-----------------------------------------------------------------------------

Weekday(d) == d % 7 < 5

IsSession(d) == d \in Days /\ calendar[d] # "closed"

\* session_bounds: the opening and the closing moment of a session.
Open(d) == 24 * d + 9
Close(d) == 24 * d + (IF calendar[d] = "half" THEN 13 ELSE 16)

\* SessionBounds.contains
Contains(d, m) == IsSession(d) /\ Open(d) <= m /\ m < Close(d)

\* _as_date of an aware moment: the date in the moment's own zone.
DateIn(zone, m) == (m + zone) \div 24

SessionsBetween(first, last) == {d \in first..last : IsSession(d)}

LastOf(sessions) == IF sessions = {} THEN NoSession ELSE Max(sessions)

PreviousSession(d) == LastOf(SessionsBetween(d - LookbackDays, d - 1))

\* previous_session_from_calendar: walk back from the day, at most so many days.
PreviousSessionFromCalendar(d) ==
    LET steps == {n \in 1..LookbackDays : IsSession(d - n)}
    IN  IF steps = {} THEN NoSession ELSE d - Min(steps)

\* session_key, with the sessions fetched by itself.
SessionKey(d) == LastOf(SessionsBetween(d - LookbackDays, d))

\* Deviation: today counts from its opening on.
LastCompletedIncludingToday(zone, m) ==
    LET today == DateIn(zone, m)
    IN  LastOf(SessionsBetween(today - LookbackDays, today))

LastCompletedSession(zone, m) ==
    LET today == DateIn(zone, m)
    IN  IF IsSession(today) /\ m >= Close(today) THEN today
        ELSE LastOf(SessionsBetween(today - LookbackDays, today - 1))

\* The ALWAYS_OPEN mode: a session is a UTC day.
LastCompletedAlwaysOpen(m) == DateIn(UtcOffset, m) - 1

-----------------------------------------------------------------------------

CalendarInit ==
    /\ calendar \in Calendars
    /\ now = Min(Hours)

\* The next moment at which somebody looks.
Tick ==
    /\ \E m \in now + 1 .. 24 * LastDay + 23 : m % 24 \in Hours
    /\ now' = Min({m \in now + 1 .. now + 24 : m % 24 \in Hours})
    /\ UNCHANGED calendar

-----------------------------------------------------------------------------
(* What the lookups promise.                                               *)

\* The sessions that are over.
Completed == {d \in Days : IsSession(d) /\ Close(d) <= now}

\* Where the zone has tomorrow's date already, today's session is over.
NotAhead(zone) ==
    LET today == DateIn(0, now)
    IN  DateIn(zone, now) > today /\ IsSession(today) => now >= Close(today)

\* last_completed_session, from whatever zone it is asked that is not a day ahead of an
\* open exchange, names the most recent session whose close has passed; the other
\* lookups agree with it: before and during a session it is the previous one by either
\* way of looking, after the close it is the day's own decision key.
LookupsAgree ==
    LET today == DateIn(0, now)
        last  == LastOf(Completed \cap (today - LookbackDays .. today))
    IN  /\ \A zone \in Zones :
              LET asked == DateIn(zone, now)
              IN  NotAhead(zone) /\ last >= asked - LookbackDays =>
                    LastCompletedSession(zone, now) = last
        /\ PreviousSession(today) = PreviousSessionFromCalendar(today)
        /\ Contains(today, now) \/ (IsSession(today) /\ now < Open(today)) =>
              LastCompletedSession(0, now) = PreviousSession(today)
        /\ ~IsSession(today) \/ now >= Close(today) =>
              LastCompletedSession(0, now) = SessionKey(today)
        /\ LET d == LastCompletedAlwaysOpen(now)
           IN  24 * (d + 1) <= now + UtcOffset /\ now + UtcOffset < 24 * (d + 2)
=============================================================================
