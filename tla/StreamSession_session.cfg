SPECIFICATION Spec
CONSTANTS
    RingCap = 1
    IndexModulus = 2
    SeqModulus = 2
    MaxRecords <- MCMaxRecords
    Decimations = {2}
    Counts = {0, 2}
    MaxStarts = 2
    MaxLost = 2
INVARIANTS
    FiniteCountExact
    DropsReported
PROPERTIES
    FiniteCompletes
