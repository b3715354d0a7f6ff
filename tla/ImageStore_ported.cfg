SPECIFICATION Spec
CONSTANTS
    i1 = i1
    i2 = i2
    s = s
    m = m
    w = w
    a = a
    b = b
    q = q
    Images = {i1, i2}
    Folders = {i1}
    Folder <- OneFolder
    Inside <- OwnInside
    Layers = {a, b}
    Fresh = {}
    Squash = {}
    Manifest <- MCManifest
    MergeName <- NoMerge
    CommitNames = {}
    Ids = {c1}
    Procs = {p1}
    Size = 2
    Kinds = {"load", "create", "delete"}
    Overlap = {}
    Stops = FALSE
    Torn = Torn
    None = None
INVARIANT RegisteredFound
