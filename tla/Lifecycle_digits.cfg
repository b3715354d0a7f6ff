SPECIFICATION Spec
CONSTANTS
    Ids = {c1}
    Procs = {p1, p2}
    None = None
    Torn = Torn
    Pids <- MixedPids
    Foreigners <- NoPids
    Discipline = "command"
    Crashes = FALSE
    Failures = FALSE
SYMMETRY Symmetry
INVARIANT OneShell
