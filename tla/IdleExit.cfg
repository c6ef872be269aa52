SPECIFICATION Spec
CONSTANTS
    Tasks = {a, b}
    Workers = {1}
    Window = 2
    MaxAttempts = 2
    MaxFaults = 1
    MaxSignals = 1
INVARIANTS EndsAsMeant
PROPERTIES WindowHonoured WorkersFollow
