SPECIFICATION Spec
CONSTANTS
    c = c
    s = s
    t = t
    None = None
    Conversations = {c}
    StepIndices = {s}
    Tools = {t}
    Expected = None
    Descendants = {"worker", "stray"}
    Lines <- Short
    MaxLines = 3
    MaxQueue = 1
    MaxOutput = 2
INVARIANTS
    TypeOK
    ReturnIsWhole
    SeenIsPrefix
    CleanMeansGone
    QueueServed
PROPERTIES
    ObserversInTurn
CHECK_DEADLOCK FALSE
