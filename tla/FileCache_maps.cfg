SPECIFICATION MCSpec
CONSTANTS
    k1 = k1
    k2 = k2
    a = a
    b = b
    Keys = {k1, k2}
    Pieces = {a, b}
    Values <- PlainSet
    Loads <- PlainLoads
    Procs = {p1, p2}
    Missing = Missing
    Nothing = Nothing
    Unknown = Unknown
SYMMETRY Symmetry
INVARIANT TypeOK
INVARIANT OneEntryPerKey
INVARIANT GetShowsSet
PROPERTY MapKept
