SPECIFICATION Spec
CONSTANTS
    Attempts = {a1, a2}
    None = None
    CrashInSection = TRUE
SYMMETRY Symmetry
INVARIANTS
    LeftoverUsable
CHECK_DEADLOCK FALSE
