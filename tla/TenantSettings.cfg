\* One threshold and the default timeout, five requests for either.
CONSTANTS
    Null = Null
    Keys = {temperature}
    Ranges <- MCRanges
    Timeouts = {30, 60}
    Calls = {r1, r2, r3, r4, r5}
    MaxSetters = 3
SYMMETRY Symmetry
SPECIFICATION Spec
INVARIANTS
    TypeOK
    RangesAreAsked
    LoneRequestSettles
    DefaultRemains
CHECK_DEADLOCK FALSE
