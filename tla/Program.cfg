SPECIFICATION Spec
CONSTANTS
    Modulus = 4
    Increments = {2, 3}
    Multipliers = {0, 3}
    Offsets = {0, 1}
    Lengths = {2, 3}
    MaxGain = 1
    MaxError = 1
    OutMax = 1
    Rigs <- MCRigs
    MaxAge = 3
INVARIANTS
    OnePass
    ControlForgets
PROPERTIES
    ArmedBegins
