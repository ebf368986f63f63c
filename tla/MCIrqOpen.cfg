CONSTANTS
    Lines = {l1}
    Bindings = {b1, b2}
    NoBinding = NoBinding
    MAX_SLOTS = 3
    MaxHandles = 1
SPECIFICATION Spec
INVARIANT BoundIsOpen
