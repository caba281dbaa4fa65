SPECIFICATION Spec
CONSTANTS
    k1 = k1  k2 = k2
    x1 = x1  x2 = x2  x3 = x3
    v1 = v1  v2 = v2
    i1 = i1  i2 = i2  i3 = i3
    None = None  Torn = Torn
    Calls = {k1, k2}
    Paths = {x1, x2, x3}
    Kind <- MCKind
    Values = {v1, v2}
    Blocks <- MCBlocks
    Ids = {i1, i2, i3}
    Retries = 3
    MaxVersions = 2
INVARIANTS TypeOK
PROPERTIES ImplementsStore SuccessLasts
SYMMETRY Symmetry
