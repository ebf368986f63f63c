SPECIFICATION Spec
CONSTANTS
    Names = {a, b}
    PACKAGES = 3
    LastExtent = 5
    MaxGen = 3
    MaxMade = 3
    MaxCrash = 1
    MaxFail = 1
    MaxStuck = 1
    Sessions = {s, t}
    Nobody = Nobody
    GROUP_MAX = 2
CHECK_DEADLOCK FALSE
SYMMETRY Symmetry
INVARIANTS  HandOff
PROPERTY Atomic
CONSTRAINT FewMishaps
