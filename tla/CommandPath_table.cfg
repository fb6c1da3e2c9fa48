\* One table and one scalar: partial uploads, non-finite words, short and full commits.
SPECIFICATION Spec
CONSTANTS
    Coeffs = {}
    Tables = {tab}
    Scalars = {p}
    Finite = {z}
    NaN = NaN
    Zero = z
    CoeffLen = 1
    N = 3
    MaxBlock = 1
    Settings = {s0}
    Encode <- MCEncode
    Default = s0
    QueueCap = 2
    CommandsPerTick = 2
INVARIANTS
    PlayedTableSound
PROPERTIES
    LiveBankStable
