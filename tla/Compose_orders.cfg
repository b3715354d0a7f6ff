SPECIFICATION Spec
CONSTANTS
    a1 = a1
    a2 = a2
    a3 = a3
    tagged = tagged
    bare = bare
    sif = sif
    latest = latest
    l1 = l1
    l2 = l2
    l3 = l3
    tool = tool
    Apps = {a1, a2, a3}
    Images = {tagged, bare, sif}
    Names = {tagged, latest, l1, l2, l3}
    Tagged <- MCTagged
    Latest <- MCLatest
    Programs = {tool}
    Ids = {c1, c2, c3}
    Files <- AllFiles
    Others = {tagged, l1}
    Limit = 4
    None = None
    Broken = Broken
SYMMETRY Symmetry
INVARIANT TypeOK
INVARIANT NeededBeforeLeaves
INVARIANT MostNeededFirst
INVARIANT OkMeansAll
