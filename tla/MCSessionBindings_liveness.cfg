SPECIFICATION FairSpec
CONSTANTS
    Attempts = {a1, a2}
    Resets = {r1}
    Routes = {m1}
    Revisions = {v1}
    None = None
    MaxRecreations = 0
    MaxRevisions = 0
PROPERTIES
    KeepsAuthority
    AttemptsSettle
    ResetsSettle
CHECK_DEADLOCK FALSE
