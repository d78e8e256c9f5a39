SPECIFICATION Spec
CONSTANTS
    Attempts = {a1, a2, a3}
    None = None
    CrashInSection = TRUE
SYMMETRY Symmetry
INVARIANTS
    HeldCarrierIntact
CHECK_DEADLOCK FALSE
