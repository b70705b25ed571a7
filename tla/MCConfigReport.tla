--------------------------- MODULE MCConfigReport ----------------------------
(* Instances of ConfigReport for TLC.                                      *)
EXTENDS ConfigReport

Valid ==
    [RPC_URL |-> "url", PROGRAM_ID |-> "unset",
     EXPECTED_UPGRADE_AUTHORITY |-> "squad", CLUSTER |-> "unset",
     GRACE_HOURS |-> Text("unset"), RPC_FAILURES_BEFORE_ALERT |-> Text("unset"),
     TELEGRAM |-> TRUE]
NoRpcUrl == [Valid EXCEPT !.RPC_URL = "unset"]
LongGrace == [Valid EXCEPT !.GRACE_HOURS = Written(169)]
NoTelegram == [LongGrace EXCEPT !.TELEGRAM = FALSE]

FourEdits == {Valid, NoRpcUrl, LongGrace, NoTelegram}

\* One variable of every kind of value, the numbers at and beyond their bounds.
Numbers(bound) ==
    {Text(kind) : kind \in {"unset", "blank", "malformed"}}
    \cup {Written(n) : n \in {-1, 0, 1, bound, bound + 1}}
OneVariableSet ==
    {[Valid EXCEPT !.RPC_URL = v] : v \in {"unset", "malformed"}}
    \cup {[Valid EXCEPT !.PROGRAM_ID = v] : v \in {"malformed", "address"}}
    \cup {[Valid EXCEPT !.EXPECTED_UPGRADE_AUTHORITY = v] :
            v \in {"unset", "malformed", "none"}}
    \cup {[Valid EXCEPT !.CLUSTER = v] : v \in {"malformed", "devnet", "mainnet"}}
    \cup {[Valid EXCEPT !.GRACE_HOURS = v] : v \in Numbers(168)}
    \cup {[Valid EXCEPT !.RPC_FAILURES_BEFORE_ALERT = v] : v \in Numbers(6)}
    \cup {[Valid EXCEPT !.TELEGRAM = FALSE]}
==============================================================================
