SPECIFICATION Spec
CONSTANTS
    p1 = p1  p2 = p2
    c1 = c1  c2 = c2  c3 = c3
    v1 = v1  v2 = v2
    docsA = docsA  docsOld = docsOld  docs = docs  old = old
    root = root  daily = daily
    None = None
    Corrupt = Corrupt
    Procs = {p1}
    Paths = {docsA, docsOld}
    Links = {}
    Versions = {v1, v2}
    Size <- MCSize
    MTime <- MCTime
    Targets = {docs, old}
    Under <- MCSiblings
    Prefixed <- MCSiblings
    Prefixes = {root}
    NoPrefix = root
    ChunkIds = {c1, c2, c3}
    Commands = {"backup", "delete", "restore"}
    Faults = {"addfile", "archive", "delete"}
    MaxLate = 0
    IdempotentDelete = TRUE
    AtomicPut = TRUE
INVARIANTS TypeOK Restorable NothingLeaked NoDeadChunks
PROPERTIES ImplementsCatalogue DetectsChanges RestoreComplete
SYMMETRY Symmetry
