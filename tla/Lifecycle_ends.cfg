SPECIFICATION FairSpec
CONSTANTS
    Ids = {c1}
    Procs = {p1, p2}
    None = None
    Torn = Torn
    Pids <- OnePid
    Foreigners <- OnePid
    Discipline = "none"
    Crashes = TRUE
    Failures = TRUE
PROPERTY CommandsEnd
