SPECIFICATION Spec
CONSTANTS
    Turn = 4
    TopIncrement = 4
    Rounding = 1
    MaxTime = 3
    MaxDwell = 2
    Offered <- MCOffered
INVARIANTS
    InRange
PROPERTIES
    LockEarned
    LossEarned
