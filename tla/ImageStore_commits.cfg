SPECIFICATION Spec
CONSTANTS
    i1 = i1
    i2 = i2
    s = s
    m = m
    w = w
    a = a
    b = b
    q = q
    Images = {i1, i2, s, m, w}
    Folders <- Images
    Folder <- OwnFolder
    Inside <- Nested
    Layers = {a, b, q, x, y, z}
    Fresh = {x, y, z}
    Squash = {q}
    Manifest <- SManifest
    MergeName <- MCMergeName
    CommitNames = {w, i2}
    Ids = {c1, c2}
    Procs = {p1}
    Size = 2
    Kinds <- WithoutDelete
    Overlap = {}
    Stops = FALSE
    Torn = Torn
    None = None
SYMMETRY Symmetry
INVARIANT ListedWhole
INVARIANT ContainersWhole
