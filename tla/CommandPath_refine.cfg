\* Two-word coefficients and one scalar against the abstract specification, with liveness.
SPECIFICATION Spec
CONSTANTS
    Coeffs = {c}
    Tables = {}
    Scalars = {p}
    Finite = {z, f}
    NaN = NaN
    Zero = z
    CoeffLen = 2
    N = 2
    MaxBlock = 1
    Settings = {s0, s1}
    Encode <- MCEncode
    Default = s0
    QueueCap = 2
    CommandsPerTick = 1
INVARIANTS
    ReadBack
PROPERTIES
    AtomicUpdates
    BusyIsTransient
