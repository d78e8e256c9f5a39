SPECIFICATION FairSpec
CONSTANTS
    c = c
    s = s
    t = t
    None = None
    Conversations = {c}
    StepIndices = {s}
    Tools = {t}
    Expected = None
    Descendants = {"stray"}
    Lines <- Short
    MaxLines = 2
    MaxQueue = 1
    MaxOutput = 2
PROPERTIES
    KeepsPromise
CHECK_DEADLOCK FALSE
