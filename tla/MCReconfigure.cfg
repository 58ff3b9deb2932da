SPECIFICATION Spec
CONSTANTS
    k1 = k1
    k2 = k2
    h1 = h1
    h2 = h2
    q1 = q1
    q2 = q2
    r1 = r1
    r2 = r2
    r3 = r3
    Preload = Preload
    NoKey = NoKey
    NoIndex = NoIndex
    EMPTY = EMPTY
SYMMETRY Symmetry
INVARIANTS
    ReadsConserved
    ReadsOfTheirKey
    SoundWhenReady
CHECK_DEADLOCK FALSE
