SPECIFICATION Spec
CONSTANTS
    Conversations = {c1, c2}
    StepIndices = {s1, s2}
    Tools = {t1, t2}
    Expected = c1
    None = None
    MaxLines = 5
SYMMETRY Symmetry
INVARIANTS
    TypeOK
    CompleteIffWellFormed
CHECK_DEADLOCK FALSE
