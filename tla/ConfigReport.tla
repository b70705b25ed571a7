---------------------------- MODULE ConfigReport -----------------------------
(***************************************************************************)
(* reportInvalidConfig of ops/watchdog/watchdog.ts: runs of the watchdog   *)
(* that find their environment invalid, exit with code 2 and say so in the *)
(* chat, with a marker file against repetition.  Such a run reads and      *)
(* writes nothing that a run with a valid environment does (Watchdog).     *)
(***************************************************************************)
EXTENDS WatchdogConfig

CONSTANTS
    Environments,      \* environments of the first run
    Edits,             \* environments that the operator changes to
    LastDay,           \* bound: the days looked at
    LastFaultDay,      \* bound: no fault after it
    Faults             \* bound: the faults that happen before it

\* Every environment that is looked at is one.
ASSUME EnvironmentAssumption == Environments \cup Edits \subseteq Environment

VARIABLES
    env,               \* the environment file
    today,             \* the UTC day
    marker,            \* the marker file: <<day, errors>>, or None
    pc, errors         \* where the run is, and the errors it found

\* History: what the chat shows.
VARIABLES
    alerts,            \* <<day, errors>> of every alert
    lastAlert          \* of the last one, None if its marker was lost

configVars == <<env, today, marker, pc, errors, alerts, lastAlert>>

Faulty(kind) == kind \in Faults /\ today <= LastFaultDay

ConfigInit ==
    /\ env \in Environments
    /\ today = 0
    /\ marker = None
    /\ pc = "idle" /\ errors = {}
    /\ alerts = {} /\ lastAlert = None

Exit == pc' = "idle" /\ errors' = {}

\* A run with errors; without a destination, or dry, it only prints them.
StartInvalid(dryRun) ==
    LET found == ConfigErrors(env, dryRun) IN
    /\ pc = "idle"
    /\ found # {} /\ env.TELEGRAM /\ ~dryRun
    /\ pc' = "alert" /\ errors' = found
    /\ UNCHANGED <<env, today, marker, alerts, lastAlert>>

Deliver(alert) == alerts' = alerts \cup {alert} /\ lastAlert' = alert

\* The marker shows that the alert went out today.
StaySilent ==
    /\ pc = "alert"
    /\ ConfigAlert(errors, marker, today) = None
    /\ Exit
    /\ UNCHANGED <<env, today, marker, alerts, lastAlert>>

SendAlert ==
    LET alert == ConfigAlert(errors, marker, today) IN
    /\ pc = "alert" /\ alert # None
    /\ Deliver(alert)
    /\ pc' = "marker"
    /\ UNCHANGED <<env, today, marker, errors>>

\* The request fails, or its answer is lost after the chat took the alert.
SendAlertFails ==
    LET alert == ConfigAlert(errors, marker, today) IN
    /\ pc = "alert" /\ alert # None
    /\ Faulty("telegram")
    /\ Exit
    /\ \/ UNCHANGED <<alerts, lastAlert>>
       \/ alerts' = alerts \cup {alert} /\ lastAlert' = None
    /\ UNCHANGED <<env, today, marker>>

\* Fault: the marker is taken for written.
WriteMarkerNever ==
    /\ pc = "marker"
    /\ Exit
    /\ UNCHANGED <<env, today, marker, alerts, lastAlert>>

\* The text of the sent alert, and not the day it is written on.
WriteMarker ==
    /\ pc = "marker"
    /\ marker' = lastAlert
    /\ Exit
    /\ UNCHANGED <<env, today, alerts, lastAlert>>

\* Not written, which the code ignores, or the process is killed before.
LoseMarker ==
    /\ pc = "marker"
    /\ Faulty("disk")
    /\ lastAlert' = None
    /\ Exit
    /\ UNCHANGED <<env, today, marker, alerts>>

Edit(e) ==
    /\ env' = e /\ e # env
    /\ UNCHANGED <<today, marker, pc, errors, alerts, lastAlert>>

NextDay ==
    /\ today < LastDay
    /\ today' = today + 1
    /\ UNCHANGED <<env, marker, pc, errors, alerts, lastAlert>>

ReportStep ==
    StaySilent \/ SendAlert \/ SendAlertFails \/ WriteMarker \/ LoseMarker

ConfigNext ==
    \/ \E dryRun \in BOOLEAN : StartInvalid(dryRun)
    \/ ReportStep
    \/ \E e \in Edits : Edit(e)
    \/ NextDay

ConfigSpec == ConfigInit /\ [][ConfigNext]_configVars

\* The timer starts runs, a run goes on, and days pass.
FairConfig ==
    /\ ConfigSpec
    /\ WF_configVars(StartInvalid(FALSE))
    /\ WF_configVars(ReportStep)
    /\ WF_configVars(NextDay)

------------------------------------------------------------------------------

\* A number is used as its author wrote it, or the default when nobody did; an
\* empty text is 0.
NumberIsMeant(text, default, range, used) ==
    /\ used \in range
    /\ text.kind = "unset" => used = default
    /\ text.kind = "number" => used = text.n
    /\ text.kind = "blank" => used = 0
    /\ text.kind # "malformed"

\* `none` and nothing else expects an immutable program; the cluster and every
\* written number are the ones used; there is somewhere to send messages.
ConfigIsMeant(e, dryRun) ==
    LET config == Config(e, dryRun) IN
    /\ config.expectedAuthority = None <=> e.EXPECTED_UPGRADE_AUTHORITY = "none"
    /\ config.expectedAuthority \in Addresses =>
         config.expectedAuthority = e.EXPECTED_UPGRADE_AUTHORITY
    /\ NumberIsMeant(e.RPC_FAILURES_BEFORE_ALERT, 2, 1..6, config.failuresBeforeAlert)
    /\ \E hours \in 0..168 :
         /\ config.graceSecs = hours * HOUR
         /\ NumberIsMeant(e.GRACE_HOURS, 24, 0..168, hours)
    /\ e.CLUSTER = "unset" => config.cluster = "devnet"
    /\ e.CLUSTER # "unset" =>
         config.cluster = e.CLUSTER /\ e.CLUSTER \in {"devnet", "mainnet"}
    /\ dryRun \/ e.TELEGRAM

\* config.ts:27-72, ops/watchdog/README.md:11-20.  An environment that passes
\* means what its author wrote: defaults replace only what is not set, and
\* nothing else is replaced.  An empty number is not "not set": as a grace it is
\* 0, as a number of failures it is refused.
AcceptedConfigIsMeant ==
    \A dryRun \in BOOLEAN :
        ConfigErrors(env, dryRun) = {} => ConfigIsMeant(env, dryRun)

\* config.ts:79-83, watchdog.ts:121-126.  Unless its marker was lost, an alert
\* is not followed by the same alert on the same day.
AlertNotRepeated ==
    [][SendAlert => lastAlert' # lastAlert]_configVars

\* ops/watchdog/README.md:31.  An environment that stays invalid, with a
\* Telegram destination, ends up as the chat's last alert.
InvalidConfigReported ==
    \A e \in Edits :
      LET found == ConfigErrors(e, FALSE) IN
      found # {} /\ e.TELEGRAM =>
        (env = e ~> env # e \/ (lastAlert # None /\ lastAlert[2] = found))

==============================================================================
