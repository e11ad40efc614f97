SPECIFICATION Spec
CONSTANTS
    LastDay = 14
    LookbackDays = 4
    Hours = {0, 13, 16, 20}
    Zones <- NearZones
    UtcOffset = 5
    Calendars <- FewHolidays
    Lookahead = 2
    EmbargoDays = 2
    MaxGapDays = 4
    MaxStaleness <- NoneGiven
    MinRows = 3
    Cutoffs = {9, 10}
    MaxBadDays = 1
    MaxHolidays = 2
    HolidayCandidates = {4, 8, 9}
    HalfDays = {2, 10}
INVARIANT TrainLabelsEndBeforeVal
\* The modelled days run out.
CHECK_DEADLOCK FALSE
