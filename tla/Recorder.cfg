SPECIFICATION Spec
CONSTANTS
    PacketSize <- MCPacketSize
    StopReasons = {"StreamStop", "UpstreamLost"}
    QueueCap = 1
    Capacity <- MCCapacity
    Decimation = 3
    IndexModulus = 5
    MaxSessions = 2
    MaxPackets = 2
    MaxSegment = 1
    MaxCrashes = 1
INVARIANTS
    TypeOK
    FinalIsSound
    SegmentsLinked
    CompleteHoldsAll
    ReplayExact
PROPERTIES
    CallersAnswered
    FailureEndsBroker
