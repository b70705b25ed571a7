----------------------------- MODULE MCWatchdog ------------------------------
(* Small instances of the watchdog for TLC, on a devnet build.             *)
EXTENDS WatchdogProperties

CONSTANTS g1, g2

\* The devnet build's periods, in seconds.
DevnetPeriods ==
    [f \in 0..3 |-> CASE f = 0 -> 7 * 86400 [] f = 1 -> 14 * 86400
                      [] f = 2 -> 30 * 86400 [] f = 3 -> 300]

\* The defaults of every optional variable.
DefaultEnv ==
    [RPC_URL |-> "url", PROGRAM_ID |-> "unset",
     EXPECTED_UPGRADE_AUTHORITY |-> "squad", CLUSTER |-> "unset",
     GRACE_HOURS |-> Text("unset"), RPC_FAILURES_BEFORE_ALERT |-> Text("unset"),
     TELEGRAM |-> TRUE]

\* A cycle of two five-minute periods started at second 1 ends at 601.  With the
\* grace of a day it is late from 87002 on, which is on the next day.
TwoDays == {1, 87001, 87002}

\* A watchdog without a grace that takes the build for mainnet's: five-minute
\* periods are unknown to it.  A weekly cycle of one period started at second 1 is
\* late from 604802 on; the next day begins at 691200.
MainnetEnv == [DefaultEnv EXCEPT !.CLUSTER = "mainnet", !.GRACE_HOURS = Written(0)]
WeeklyInstants == {1, 604802, 691201}

AllFaults == {"rpc", "telegram", "disk", "crash", "file"}
==============================================================================
