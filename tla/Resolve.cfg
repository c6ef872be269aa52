SPECIFICATION ResolveSpec
CONSTANTS
    Cases <- MCCases
    Later <- MCLater
    Staging <- MCStaging
    Managed <- MCManaged
    LogicalOf <- MCLogicalOf
    Sanitize <- MCSanitize
    TooLong <- MCTooLong
    Capacity = 14
    RunTarget = 4
    ArchiveTarget = 2
    SliceUnit = 1
    SliceBudget = 6
    MaxAttempts = 2
    MaxChanges = 2
    MaxErrors = 1
INVARIANTS  ToldApart SlicesBounded
PROPERTIES ResolveEnds
