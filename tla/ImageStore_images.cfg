SPECIFICATION Spec
CONSTANTS
    i1 = i1
    i2 = i2
    s = s
    m = m
    w = w
    a = a
    b = b
    q = q
    Images = {i1, s, m}
    Folders <- Images
    Folder <- OwnFolder
    Inside <- OwnInside
    Layers = {a, b, q, x}
    Fresh = {x}
    Squash = {q}
    Manifest <- FManifest
    MergeName <- MCMergeName
    CommitNames = {}
    Ids = {c1}
    Procs = {p1, p2}
    Size = 2
    Kinds <- WithoutCommit
    Overlap = {"download"}
    Stops = TRUE
    Torn = Torn
    None = None
SYMMETRY Symmetry
CHECK_DEADLOCK FALSE
INVARIANT TypeOK
INVARIANT RegisteredFound
PROPERTY NewImagesExtracted
