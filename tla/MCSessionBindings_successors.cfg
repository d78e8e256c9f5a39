SPECIFICATION Spec
CONSTANTS
    Attempts = {a1, a2, a3}
    Resets = {}
    Routes = {m1, m2}
    Revisions = {v1}
    None = None
    MaxRecreations = 0
    MaxRevisions = 0
SYMMETRY Symmetry
INVARIANTS
    TypeOK
    EnvelopeWellFormed
PROPERTIES
    ResumeMatchesRow
    ResultIsLatest
CHECK_DEADLOCK FALSE
