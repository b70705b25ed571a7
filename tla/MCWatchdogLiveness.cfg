\* Faults for a while, then none: what the chat learns in the end.
\* CLUSTER is that of another build.
SPECIFICATION FairWatchdog
CONSTANTS
    None = None
    Damaged = Damaged
    Closed = Closed
    g1 = g1
    g2 = g2
    Groups = {g1}
    Addresses = {"squad"}
    MaxFrequency = 3
    PeriodSecs <- DevnetPeriods
    RetentionSecs = 300
    MaxI64 = 1000000
    PeriodCounts = {1}
    FrequenciesUsed = {0, 3}
    Env <- MainnetEnv
    DryRuns = {FALSE}
    RunTimeout = 300
    Instants <- WeeklyInstants
    LastFault = 604802
    Faults = {"telegram", "crash"}
    TELEGRAM_MAX_CHARS = 5
    CountCap = 2
PROPERTIES WrongIsReported SettledGroupsCleared
