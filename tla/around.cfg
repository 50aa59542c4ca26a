SPECIFICATION Spec
CONSTANTS
    FoundVersions = {0, 1, 2, 3, 4}
    MaxKills = 2
    MaxDrops = 2
    MaxSetups = 4
    Texts = {"a", "b"}
    Prices = {1, 2}
    BudgetOfRun = 4
    MaxReplies = 2
    MaxReplayKills = 1
    m1 = m1
    m2 = m2
    Mutants = {m1, m2}
    Bodies = {"b1", "b2"}
    Suites <- TheSuites
    Flaky = {"timeout"}
    MaxEdits = 1
    MaxFailures = 1
    MaxRuns = 3
    NumResults = 2
    NumReads = 1
    KeepGroups = 0
    MaxSweeps = 2
    MaxLoopKills = 1
    p1 = p1
    p2 = p2
    Owners = {p1, p2}
    Ttl = 1
    MaxTime = 2
    MaxEntries = 4
    MaxEventsOf = 2
    MaxCommits = 2
    MaxWallTime = 1
    WritesOfTask <- TaskWrites
SYMMETRY Interchangeable
CHECK_DEADLOCK FALSE
INVARIANTS
    KillsAreNotDrift
    CassetteIsTheLog
    ReplayRepeats
    OnlyOverlapLoses
    OneStaleStepAtMost
    CheckpointsMatchLogs
PROPERTIES
    DriftIsDeclared
    HistoryStaysGuarded
    BaselineIsOneRun
    GreenMeansNoNewBlindSpot
