CONSTANTS
    Drives = {d1, d2}
    NoDrive = NoDrive
    FinalizeAttempts = 2
    TeardownAttempts = 2
    Leftovers = {"stale"}
    MaxFaults = 2
    Cancels = TRUE
SPECIFICATION FairSpec
INVARIANTS SessionSound
PROPERTIES ImplementsDriveWrite PhaseReturns
