INIT RegistryInit
NEXT RegistryNext
CONSTANTS
    c1 = c1
    c2 = c2
    t1 = t1
    t2 = t2
    Clients <- TwoClients
    Trainers <- TwoTrainers
    MaxUploads = 3
    MaxRuns = 3
INVARIANTS LoggedBundleIsOwn RegistrationIsHonest LineHasRow
\* The clients make MaxUploads uploads, the trainers record MaxRuns runs, and stop.
CHECK_DEADLOCK FALSE
