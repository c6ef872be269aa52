CONSTANTS
    Runs <- MCRuns
    MaxStem = 3
    DeliverMaxAttempts = 5
    MaxFaults = 2
    MaxResumes = 1
SPECIFICATION Spec
INVARIANTS DiscsSound DeliveredSound EscrowHolds
PROPERTIES RunEnds
