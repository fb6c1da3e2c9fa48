SPECIFICATION LaserSpec
CONSTANTS
    Bauds = 2
    SyncFrames = 2
    RxCap = 4
    MaxUpsets = 3
    MaxFaults = 3
    MaxEarly = 1
    MaxMeasurements = 4
INVARIANTS
    LaserTypeOK
    SettingsAccepted
    DistanceWhole
    ErrorsExplained
PROPERTIES
    WholePublished
    Configured
