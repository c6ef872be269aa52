SPECIFICATION Spec
CONSTANTS
    Scenarios <- MCScenarios
    MaxStreams = 2
    MaxTapes = 3
    MaxPolls = 2
INVARIANTS EventsSound
PROPERTIES NeverMisleads PauseShown StreamsEnd
