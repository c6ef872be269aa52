CONSTANTS
    MaxRuns = 2
    Pools = {p1}
    Given = {}
    Named <- MCNamed
    Spelled <- MCSpelled
    GivenTag <- MCGivenTag
    Forgeries <- MCForgeries
    Retags <- MCRetags
    Attempts = 2
    Retries = 2
    MaxFaults = 0
    MaxTouched = 0
    MaxCancels = 1
    MaxMishaps = 1
SPECIFICATION Spec
INVARIANTS SourcesExist
