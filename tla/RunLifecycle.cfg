CONSTANTS
    MaxRuns = 2
    Pools = {p1, p2}
    Given = {replica}
    Named <- MCNamed
    Spelled <- MCSpelled
    GivenTag <- MCGivenTag
    Forgeries <- MCForgeries
    Retags <- MCRetags
    Attempts = 2
    Retries = 2
    MaxFaults = 1
    MaxTouched = 1
    MaxCancels = 1
    MaxMishaps = 2
SPECIFICATION FairSpec
INVARIANTS LifecycleSound
PROPERTIES RunCloses OnlyOwnDestroyed
