SPECIFICATION Spec
CONSTANTS
    c1 = c1
    c2 = c2
    Ids = {c1, c2}
    Libs = {chroot, root}
    Swapped = chroot
    Missing = Missing
    Torn = Torn
    NilMap = NilMap
SYMMETRY Symmetry
INVARIANT TypeOK
INVARIANT ForcedInitReady
INVARIANT RegistryForgetsNothing
PROPERTY UpdateKeepsLibraries
