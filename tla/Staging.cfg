SPECIFICATION StagingSpec
CONSTANTS
    TargetBlocks = 8
    MaxBlocks = 12
    Multiple = 4
    PacketHeader = 2
    PerBlock = 1
    PerFile = 2
    Fixed = 3
    Unit = 16
    MaxChunk = 16
    Buffers = 2
    Staging = 3
    Inputs <- MCInputs
    Samples <- MCSamples
    MaxAttempts = 2
    Hosts <- MCHosts
    MinMemory = 56
    MaxMemory = 90
    MaxMishaps = 2
INVARIANTS TapesSound ArithmeticSound
PROPERTIES StagingProgresses
