SPECIFICATION FairSpec
CONSTANTS
    t1 = t1  t2 = t2  t3 = t3  t4 = t4  t5 = t5
    NoTape = NoTape
    Tapes <- MCTapes
    NumSlots = 3  NumDrives = 2  NumIO = 1
    Total = 3
    BlankSlots <- MCBlankSlots
    ElementOf <- MCElementOf
    Unlabelled = {t5}
    AllowNonBlank = FALSE
    Layouts <- MCLayouts
    MaxFaults = 1  MaxResumes = 3
INVARIANTS TypeOK LoadSound RecordedIntact ToldTheTruth
PROPERTIES ForeignDataPreserved RefusedTapeReturned Terminates ImplementsArchiveRecord
