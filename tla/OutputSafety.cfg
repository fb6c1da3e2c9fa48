SPECIFICATION Spec
CONSTANTS
    LastChannel = 2
INVARIANTS
    FaultNotMasked
    QuiescedAtRest
PROPERTIES
    LossQuiets
    RebootQuiesces
