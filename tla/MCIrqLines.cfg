CONSTANTS
    Lines = {l1, l2}
    Bindings = {b1, b2, b3}
    NoBinding = NoBinding
    MAX_SLOTS = 3
    MaxHandles = 2
SPECIFICATION Spec
SYMMETRY Symmetry
INVARIANTS References MaskedStaysShut
PROPERTIES DeliversToBound FollowsReclamation
