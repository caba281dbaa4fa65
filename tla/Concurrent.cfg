SPECIFICATION BoundedSpec
CONSTANTS
    p1 = p1  p2 = p2
    c1 = c1  c2 = c2  c3 = c3
    v1 = v1  v2 = v2
    docsA = docsA  docsOld = docsOld  docs = docs  old = old
    root = root  daily = daily
    None = None
    Corrupt = Corrupt
    Procs = {p1, p2}
    Paths = {docsA, docsOld}
    Links = {}
    Versions = {v1, v2}
    Size <- MCSize
    MTime <- MCTime
    Targets = {docs}
    Under <- MCOne
    Prefixed <- MCOne
    Prefixes = {root, daily}
    NoPrefix = root
    ChunkIds = {c1, c2}
    Commands = {"backup", "restore", "delete", "deleteAll"}
    Faults = {"crash", "download", "upload", "publish", "delete", "late", "misread", "extract"}
    MaxLate = 1
    IdempotentDelete = FALSE
    AtomicPut = FALSE
    MaxRuns = 3
INVARIANTS EntryBacked UploadedBeforePublished RestoreFaithful
SYMMETRY SymmetryOne
CHECK_DEADLOCK FALSE
