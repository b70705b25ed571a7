\* Every fault, at any step of any run, on two days.
SPECIFICATION WatchdogSpec
CONSTANTS
    None = None
    Damaged = Damaged
    Closed = Closed
    g1 = g1
    g2 = g2
    Groups = {g1}
    Addresses = {"squad"}
    MaxFrequency = 3
    PeriodSecs <- DevnetPeriods
    RetentionSecs = 300
    MaxI64 = 1000000
    PeriodCounts = {2}
    FrequenciesUsed = {3}
    Env <- DefaultEnv
    DryRuns = {FALSE, TRUE}
    RunTimeout = 300
    Instants <- TwoDays
    LastFault = 1000000
    Faults <- AllFaults
    TELEGRAM_MAX_CHARS = 5
    CountCap = 2
INVARIANTS ReaderAgrees OutageReported
PROPERTIES NoFalseAlarm ResolvedMeansRead ResetReported
