SPECIFICATION FairSpec
CONSTANTS
    k1 = k1  k2 = k2
    i1 = i1  i2 = i2  i3 = i3  i4 = i4
    v1 = v1  v2 = v2  base = base
    None = None
    Calls = {k1, k2}
    Paths <- MCPaths
    Contents <- MCContents
    Ids = {i1, i2, i3, i4}
    Base = base
    Retries = 2
INVARIANTS TypeOK FoldersUnique CacheSound
PROPERTIES ImplementsStore Returns
