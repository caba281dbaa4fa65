SPECIFICATION RoundTripSpec
CONSTANTS
    c1 = c1  c2 = c2  c3 = c3
    f1 = f1  f2 = f2  link = link  pipe = pipe
    v1 = v1  v2 = v2  v3 = v3
    None = None
    Torn = Torn
    Other = Other
    Paths = {f1, f2, link, pipe}
    Links = {link}
    Special = {pipe}
    Versions = {v1, v2, v3}
    Size <- MCSize
    MTime <- MCTime
    ChunkIds = {c1, c2, c3}
    ChunkLimit = 2
    MaxEdits = 1
    Restores <- MCRestores
    LinkTo <- MCLinkTo
    Places <- MCPlaces
    DiskFails = TRUE
INVARIANTS Types RecordedComplete CutOnlyByShrinking ChunksFilled OnlyWanted DamageReported ComesBack
PROPERTIES ImplementsArchive ImplementsRestore
SYMMETRY Symmetry
CHECK_DEADLOCK FALSE
