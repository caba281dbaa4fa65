SPECIFICATION FairSpec
CONSTANTS
    None = None  Torn = Torn
    r1 = r1  r2 = r2  h1 = h1  h2 = h2  b1 = b1  b2 = b2
    Runs = {r1}
    Handlers = {h1}
    Callbacks = {b1, b2}
    MaxTokens = 2
    MaxEdits = 1
    Faults = {}
PROPERTIES AuthorizationEnds
CHECK_DEADLOCK FALSE
