CONSTANTS
    NumBurners = 2
    Copies = 3
    AllowNonBlank = TRUE
    Discs = {r1, r2, u, w}
    NoDisc = NoDisc
    Rewritable = {r1, r2, u}
    Used = {u, w}
    Crosses = FALSE
    MaxFaults = 1
    MaxResumes = 2
SPECIFICATION FairSpec
INVARIANTS BurnSound
PROPERTIES OldDiscsKept BurnEnds
