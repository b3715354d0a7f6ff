SPECIFICATION Spec
CONSTANTS
    i1 = i1
    i2 = i2
    s = s
    m = m
    w = w
    a = a
    b = b
    q = q
    Images = {i1, i2, m, w}
    Folders <- Images
    Folder <- OwnFolder
    Inside <- OwnInside
    Layers = {a, b, x, y}
    Fresh = {x, y}
    Squash = {}
    Manifest <- MCManifest
    MergeName <- MCMergeName
    CommitNames = {w}
    Ids = {c1}
    Procs = {p1}
    Size = 2
    Kinds <- AllKinds
    Overlap = {}
    Stops = FALSE
    Torn = Torn
    None = None
INVARIANT RegisteredFound
