SPECIFICATION FairSpec
CONSTANTS
    Attempts = {a1, a2}
    None = None
    CrashInSection = TRUE
INVARIANTS
    TypeOK
    SectionExclusion
    HeldCarrierIntact
    OrderlyLeftoverUsable
PROPERTIES
    SectionsAreAtomic
    CallsReturn
CHECK_DEADLOCK FALSE
