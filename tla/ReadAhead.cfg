CONSTANTS
    Trees <- MCTrees
    Namings <- MCNamings
    Flaws <- MCFlaws
    Workers = 2
    MaxFile = 4
    Memory = 3
    Window = 2
    MaxFaults = 1
SPECIFICATION FairSpec
INVARIANTS ArchiveSound BudgetsSound
PROPERTIES TarReturns
