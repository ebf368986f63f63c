SPECIFICATION Spec
CONSTANTS
    CPUs = {c1, c2}
    Spaces = {s1, s2, s3, s4}
    ASIDs = {a1, a2, a3}
    Empty = Empty
    NoCpu = NoCpu
    MaxGen = 2
    Mortal = {s1}
    Paged = {s1}
SYMMETRY Symmetry
INVARIANTS OwnEntries Forgotten OneSpaceAnAsid
CHECK_DEADLOCK FALSE
