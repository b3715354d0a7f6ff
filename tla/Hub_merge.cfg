SPECIFICATION Spec
CONSTANTS
    w = w
    Word = w
    Limit = 3
    Names = {1, 2, 3, 4}
    Digests = {1, 2, 3}
    Manifests <- ManifestSet
    Contents <- ContentSet
    Lists <- ListSet
    Wanted <- WantSet
    MaxPages = 3
    Unknown = Unknown
INVARIANT TypeOK
INVARIANT GoodAnswerOrError
INVARIANT TagsWhole
INVARIANT MergedAsLayered
INVARIANT TarballKeepsTree
INVARIANT ClosestRelease
INVARIANT SettingOfFirstAnswer
CHECK_DEADLOCK FALSE
