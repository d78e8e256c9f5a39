SPECIFICATION OwnerSpec
CONSTANTS
    Callers = {c1, c2, c3}
    Coordinates = {x}
    Environments = {d, e}
    Configs = {u, k, l}
    Undefined = u
    AttemptScopes = {a}
    MaxGenerations = 3
    MaxObserved = 2
    Authorities <- MCAuthorities
    MaxScopes = 2
    None = None
SYMMETRY Symmetry
INVARIANTS
    OwnerTypeOK
    NoOverlap
    FreshIsFresh
    NobodyStranded
    OccupiedByRunning
    WaitsForLatest
PROPERTIES
    AnswersAreCurrent
    OthersUnharmed
CHECK_DEADLOCK FALSE
