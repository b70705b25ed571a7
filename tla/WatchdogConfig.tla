--------------------------- MODULE WatchdogConfig ----------------------------
(***************************************************************************)
(* ops/watchdog/config.ts: the watchdog's configuration.                   *)
(*                                                                         *)
(* An environment is a record by variable name, of texts.  RPC_URL and     *)
(* EXPECTED_UPGRADE_AUTHORITY are "unset" when empty, too; CLUSTER and     *)
(* PROGRAM_ID are then "malformed".  A numeric variable is unset, blank,   *)
(* a written whole number, or another text.                                *)
(***************************************************************************)
EXTENDS Integers, FiniteSets, Sequences

CONSTANTS
    None,           \* null
    Addresses       \* well-formed addresses

\* No address is one of the words, and the words are no addresses.
ASSUME AddressesAssumption ==
    None \notin Addresses /\ {"unset", "malformed", "none"} \cap Addresses = {}

HOUR == 3600

DEFAULT_GRACE_HOURS == 24
DEFAULT_FAILURES_BEFORE_ALERT == 2
MAX_FAILURES_BEFORE_ALERT == 6
MAX_GRACE_HOURS == 168

\* The texts of a numeric variable; "number" has n.
NumericText ==
    [kind : {"unset", "blank", "malformed"}, n : {0}] \cup [kind : {"number"}, n : Int]
Text(kind) == [kind |-> kind, n |-> 0]
Written(number) == [kind |-> "number", n |-> number]

Environment ==
    [RPC_URL : {"unset", "malformed", "url"},
     PROGRAM_ID : {"unset", "malformed", "address"},
     EXPECTED_UPGRADE_AUTHORITY : {"unset", "malformed", "none"} \cup Addresses,
     CLUSTER : {"unset", "malformed", "devnet", "mainnet"},
     GRACE_HOURS : NumericText,
     RPC_FAILURES_BEFORE_ALERT : NumericText,
     TELEGRAM : BOOLEAN]   \* whether both Telegram variables are set

NotWhole == -1      \* for NaN and fractions, which are refused like a negative number

\* Number(text): an empty text, or one of spaces, is 0.
Number(text) ==
    IF text.kind = "blank" THEN 0 ELSE IF text.kind = "malformed" THEN NotWhole ELSE text.n

\* Fault: Number(env.X) || default, which replaces a written 0 and any NaN.
ValueOrFalsy(default, text) ==
    IF text.kind = "unset" \/ Number(text) \in {0, NotWhole} THEN default ELSE Number(text)

\* Number(env.X ?? default): only a variable that is not set has its default.
ValueOr(default, text) == IF text.kind = "unset" THEN default ELSE Number(text)

\* Fault: a malformed address is not reported, and null is left in its place.
AddressErrorsUnset(name, value) ==
    IF value = "unset" THEN {<<name, "unset">>} ELSE {}

\* parseAddress, and the test for a missing value before it.
AddressErrors(name, value) ==
    IF value \in {"unset", "malformed"} THEN {<<name, value>>} ELSE {}

FailuresInRange(n) == n \in 1..MAX_FAILURES_BEFORE_ALERT

\* Every invalid variable, with the reason where there is more than one.
ConfigErrors(env, dryRun) ==
    LET grace    == ValueOr(DEFAULT_GRACE_HOURS, env.GRACE_HOURS)
        failures == ValueOr(DEFAULT_FAILURES_BEFORE_ALERT, env.RPC_FAILURES_BEFORE_ALERT)
        Error(name, invalid) == IF invalid THEN {<<name>>} ELSE {}
    IN
    UNION {
        IF env.RPC_URL = "url" THEN {} ELSE {<<"RPC_URL", env.RPC_URL>>},
        Error("PROGRAM_ID", env.PROGRAM_ID = "malformed"),
        AddressErrors("EXPECTED_UPGRADE_AUTHORITY", env.EXPECTED_UPGRADE_AUTHORITY),
        Error("CLUSTER", env.CLUSTER = "malformed"),
        Error("GRACE_HOURS", grace \notin 0..MAX_GRACE_HOURS),
        Error("RPC_FAILURES_BEFORE_ALERT", ~FailuresInRange(failures)),
        Error("TELEGRAM", ~dryRun /\ ~env.TELEGRAM)}

\* The configuration of a run whose environment has no error.
Config(env, dryRun) ==
    [expectedAuthority |-> IF env.EXPECTED_UPGRADE_AUTHORITY \in Addresses
                           THEN env.EXPECTED_UPGRADE_AUTHORITY ELSE None,
     cluster |-> IF env.CLUSTER = "unset" THEN "devnet" ELSE env.CLUSTER,
     graceSecs |-> ValueOr(DEFAULT_GRACE_HOURS, env.GRACE_HOURS) * HOUR,
     failuresBeforeAlert |->
        ValueOr(DEFAULT_FAILURES_BEFORE_ALERT, env.RPC_FAILURES_BEFORE_ALERT),
     dryRun |-> dryRun]

\* Fault: the day is not part of the marker.
ConfigAlertAnyDay(errors, lastMarker, today) ==
    IF lastMarker # None /\ lastMarker[2] = errors THEN None ELSE <<today, errors>>

\* configAlert: the marker to store after sending the errors, or null when it
\* shows that the same text went out today.
ConfigAlert(errors, lastMarker, today) ==
    IF lastMarker = <<today, errors>> THEN None ELSE <<today, errors>>

==============================================================================
