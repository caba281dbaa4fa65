SPECIFICATION Spec
CONSTANTS
    p1 = p1  p2 = p2
    c1 = c1  c2 = c2  c3 = c3
    v1 = v1  v2 = v2
    docsA = docsA  docsOld = docsOld  docs = docs  old = old
    root = root  daily = daily
    None = None
    Corrupt = Corrupt
    Procs = {p1}
    Paths = {docsA, docsOld}
    Links = {}
    Versions = {v1, v2}
    Size <- MCSize
    MTime <- MCTime
    Targets = {docs}
    Under <- MCOne
    Prefixed <- MCOne
    Prefixes = {root}
    NoPrefix = root
    ChunkIds = {c1, c2}
    Commands = {"backup", "delete"}
    Faults = {"crash"}
    MaxLate = 0
    IdempotentDelete = TRUE
    AtomicPut = TRUE
PROPERTIES BackupRestorable
SYMMETRY SymmetryOne
