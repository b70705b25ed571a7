---------------------------- MODULE WatchdogRules ----------------------------
(***************************************************************************)
(* ops/watchdog/core.ts and the message helpers of watchdog.ts: the check  *)
(* rules, the alert transitions and the Telegram messages of one run.      *)
(*                                                                         *)
(* Left out: the severity, the text and the `since` of a finding.  No      *)
(* decision of the watchdog reads them, and a changed text alone sends no  *)
(* message.  The length of a message is counted in lines.                  *)
(***************************************************************************)
EXTENDS WatchdogConfig, SequencesExt

CONSTANTS
    Damaged,               \* a state file that is not JSON or has a wrong shape
    TELEGRAM_MAX_CHARS,    \* capacity of one Telegram message
    CountCap               \* failure counts are told apart up to this one

DAY == 86400
Checks == {"upgrade-authority", "unsettled-groups"}

AuthorityKey == <<"upgrade-authority">>
UnsettledKey(g) == <<"unsettled", g>>
RpcKey(check) == <<"rpc", check>>
ResetKey == <<"state-reset">>

KeysOf(open) == {f.key : f \in open}

------------------------------------------------------------------------------
(* The state file                                                          *)

\* A check that passed its last run has a count of 0 here, no entry there.
EMPTY_STATE ==
    [open |-> {}, lastHeartbeatDay |-> None, failures |-> [c \in Checks |-> 0]]

\* Fault: an unreadable file is taken for an absent one.
ParseStateSilently(file) ==
    IF file = Damaged THEN [state |-> EMPTY_STATE, reset |-> FALSE]
    ELSE IF file.failures = None
    THEN [state |-> [file EXCEPT !.failures = EMPTY_STATE.failures], reset |-> FALSE]
    ELSE [state |-> file, reset |-> FALSE]

\* parseState: a file without failure counts is one of an earlier version.
ParseState(file) ==
    IF file = Damaged THEN [state |-> EMPTY_STATE, reset |-> TRUE]
    ELSE IF file.failures = None
    THEN [state |-> [file EXCEPT !.failures = EMPTY_STATE.failures], reset |-> FALSE]
    ELSE [state |-> file, reset |-> FALSE]

\* readState: ENOENT is the first run, not a reset.
ReadState(file) ==
    IF file = None THEN [state |-> EMPTY_STATE, reset |-> FALSE] ELSE ParseState(file)

------------------------------------------------------------------------------
(* The check rules                                                         *)

\* Period lengths by frequency code, as the build for the cluster has them.
PERIOD_SECS ==
    [mainnet |-> [f \in 0..2 |-> CASE f = 0 -> 7 * DAY [] f = 1 -> 14 * DAY [] f = 2 -> 30 * DAY],
     devnet  |-> [f \in 0..3 |-> CASE f = 0 -> 7 * DAY [] f = 1 -> 14 * DAY [] f = 2 -> 30 * DAY
                                   [] f = 3 -> 300]]

KnownFrequency(group, cluster) == group.frequency \in DOMAIN PERIOD_SECS[cluster]

\* Fault: forgets that a cycle has more than one period.
WatchdogCycleEndFirst(group, cluster) ==
    group.cycleStart + PERIOD_SECS[cluster][group.frequency]

\* cycleEnd, of a group whose frequency the cluster has.
WatchdogCycleEnd(group, cluster) ==
    group.cycleStart + group.totalPeriods * PERIOD_SECS[cluster][group.frequency]

Overdue(group, nowSecs, graceSecs, cluster) ==
    nowSecs - WatchdogCycleEnd(group, cluster) > graceSecs

\* Fault: a frequency that the cluster lacks is passed over.
EvaluateGroupsKnown(groups, nowSecs, graceSecs, cluster) ==
    {UnsettledKey(g) : g \in {g \in DOMAIN groups :
        /\ groups[g].status = "Active"
        /\ KnownFrequency(groups[g], cluster)
        /\ Overdue(groups[g], nowSecs, graceSecs, cluster)}}

\* evaluateGroups, over the decoded groups by address.
EvaluateGroups(groups, nowSecs, graceSecs, cluster) ==
    {UnsettledKey(g) : g \in {g \in DOMAIN groups :
        /\ groups[g].status = "Active"
        /\ KnownFrequency(groups[g], cluster)
              => Overdue(groups[g], nowSecs, graceSecs, cluster)}}

EvaluateAuthority(expected, actual) ==
    IF expected = actual THEN {} ELSE {AuthorityKey}

Passed(check, findings) == [check |-> check, error |-> FALSE, findings |-> findings]
Failed(check) == [check |-> check, error |-> TRUE, findings |-> {}]
STATE_RESET_RESULT == Passed("state", {ResetKey})

------------------------------------------------------------------------------
(* One run: the next state and the messages to send                        *)

\* Fault: an unknown result counts as no finding.
KeptNone(prev, result) == {}

\* A check that errored keeps its findings open: its result is unknown.
Kept(prev, result) ==
    IF result.error THEN {f \in prev.open : f.check = result.check} ELSE {}

\* The code only compares a count with failuresBeforeAlert, which is no larger
\* than CountCap.
Saturated(n) == IF n < CountCap THEN n ELSE CountCap

\* Fault: stops counting at the first failure.
FailureCountStuck(prev, results, check) ==
    IF \E r \in results : r.check = check /\ r.error THEN 1 ELSE 0

FailureCount(prev, results, check) ==
    IF \E r \in results : r.check = check /\ r.error
    THEN Saturated(prev.failures[check] + 1) ELSE 0

Fresh(prev, results, result, failuresBeforeAlert) ==
    IF ~result.error THEN result.findings
    ELSE IF FailureCount(prev, results, result.check) < failuresBeforeAlert THEN {}
    ELSE {RpcKey(result.check)}

NextOpen(prev, results, failuresBeforeAlert) ==
    UNION {Kept(prev, r) \cup
             {[key |-> k, check |-> r.check] :
                k \in Fresh(prev, results, r, failuresBeforeAlert)} : r \in results}

\* Fault: no heartbeat after the state was lost.
HeartbeatDueKnown(prev, today) ==
    prev.lastHeartbeatDay # None /\ prev.lastHeartbeatDay # today

HeartbeatDue(prev, today) == prev.lastHeartbeatDay # today

\* step.  Within one kind the order of messages is left open.
Step(prev, results, today, failuresBeforeAlert) ==
    LET open     == NextOpen(prev, results, failuresBeforeAlert)
        Say(kind, keys) == SetToSeq({[kind |-> kind, key |-> k] : k \in keys})
    IN
    [messages |-> Say("opened", KeysOf(open) \ KeysOf(prev.open))
                  \o Say("resolved", KeysOf(prev.open) \ KeysOf(open))
                  \o (IF HeartbeatDue(prev, today)
                      THEN <<[kind |-> "heartbeat", keys |-> KeysOf(open)]>> ELSE <<>>),
     next |-> [open |-> open, lastHeartbeatDay |-> today,
               failures |-> [c \in Checks |-> FailureCount(prev, results, c)]]]

------------------------------------------------------------------------------
(* Telegram                                                                *)

\* The heartbeat has a heading and a line per open finding.
MessageLength(m) ==
    CASE m.kind = "opened"    -> 2
      [] m.kind = "resolved"  -> 1
      [] m.kind = "heartbeat" -> 1 + Cardinality(m.keys)

\* An empty line separates two messages.
ChunkLength(messages) ==
    FoldLeft(LAMBDA n, m : n + MessageLength(m), Len(messages) - 1, messages)

\* chunk: joins messages as long as they fit; never splits one.
Chunk(messages) ==
    FoldLeft(LAMBDA chunks, m :
               IF chunks # <<>>
                  /\ ChunkLength(Append(Last(chunks), m)) <= TELEGRAM_MAX_CHARS
               THEN Front(chunks) \o <<Append(Last(chunks), m)>>
               ELSE Append(chunks, <<m>>),
             <<>>, messages)

==============================================================================
