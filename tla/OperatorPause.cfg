CONSTANTS
    MaxPauses = 3
    MaxSends = 2
    Tapectl = TRUE
    IOWait = 5
    PollBudget = 2
SPECIFICATION FairPauseSpec
INVARIANTS PauseSound
PROPERTIES RunEnds
