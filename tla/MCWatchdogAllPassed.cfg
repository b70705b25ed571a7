\* One RPC error in the first run of a day.
SPECIFICATION WatchdogSpec
CONSTANTS
    None = None
    Damaged = Damaged
    Closed = Closed
    g1 = g1
    g2 = g2
    Groups = {g1}
    Addresses = {"squad", "other"}
    MaxFrequency = 3
    PeriodSecs <- DevnetPeriods
    RetentionSecs = 300
    MaxI64 = 1000000
    PeriodCounts = {1}
    FrequenciesUsed = {3}
    Env <- DefaultEnv
    DryRuns = {FALSE}
    RunTimeout = 300
    Instants <- TwoDays
    LastFault = 1000000
    Faults = {"rpc"}
    TELEGRAM_MAX_CHARS = 5
    CountCap = 2
PROPERTY AllPassedMeansAllPassed
