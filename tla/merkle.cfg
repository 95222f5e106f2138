SPECIFICATION Spec
CONSTANTS
    Data = {a, b, c}
    MaxLeaves = 6
    a = a
    b = b
    c = c
SYMMETRY Symmetry
INVARIANTS
    TypeOK
    VerifiesExactly
    RootFixesLeaves
CHECK_DEADLOCK FALSE
