SPECIFICATION Spec
CONSTANTS
    Attempts = {a1, a2}
    Resets = {r1}
    Routes = {m1}
    Revisions = {v1, v2}
    None = None
    MaxRecreations = 1
    MaxRevisions = 1
SYMMETRY Symmetry
INVARIANTS
    NativeExclusion
    NoSharedConversation
    EpochNeverReturns
PROPERTIES
    BindingDroppedWhenQuiet
CHECK_DEADLOCK FALSE
