SPECIFICATION MCSpec
CONSTANTS
    Ids = {c1, c2}
    Procs = {p1, p2}
    None = None
    Torn = Torn
    Pids <- EqualPids
    Foreigners <- OnePid
    Discipline = "container"
    Crashes = TRUE
    Failures = TRUE
SYMMETRY Symmetry
CONSTRAINT ForeignersOnlyApart
ACTION_CONSTRAINT DisturbedStayApart
ACTION_CONSTRAINT FailuresOnlyApart
ACTION_CONSTRAINT BrokenRunOut
INVARIANT TypeOK
INVARIANT RecordedFound
PROPERTY PromiseKept
INVARIANT RunningRegisteredApart
INVARIANT HalfDestroyedListedApart
INVARIANT RegisteredWholePlain
INVARIANT ContainersListedPlain
PROPERTY FastRunLeavesNothing
