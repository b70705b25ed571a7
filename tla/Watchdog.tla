------------------------------ MODULE Watchdog -------------------------------
(***************************************************************************)
(* ops/watchdog/watchdog.ts: the runs of the watchdog, composed with the   *)
(* chain that they read, the state file that they replace and the Telegram *)
(* chat that they write to.                                                *)
(*                                                                         *)
(* A systemd timer starts a run every ten minutes and never two at once; a *)
(* run that takes longer than TimeoutStartSec is killed.  Every await of   *)
(* main is a step of its own, and between two of them the chain may change *)
(* and the process may stop.  A run takes its time once, at its start.     *)
(*                                                                         *)
(* Of the clock only some instants are looked at; between two of them any  *)
(* number of runs may fit.  Faults end after LastFault, so that one can    *)
(* ask what the watchdog does once the network and the host work.          *)
(***************************************************************************)
EXTENDS WatchdogRules

CONSTANTS
    MaxFrequency, PeriodSecs, RetentionSecs, MaxI64,   \* the program's build
    Groups, PeriodCounts,
    Closed,            \* upgrade authority of a program that was closed
    Env,               \* the watchdog's environment
    DryRuns,           \* whether an operator makes dry runs: a subset of BOOLEAN
    RunTimeout,        \* TimeoutStartSec
    Instants,          \* bound: the times that the clock shows
    LastFault,         \* bound: no fault after it
    Faults,            \* bound: the faults that happen before it
    FrequenciesUsed    \* bound: frequencies that groups are created with

VARIABLES
    now, group,        \* the chain, as the watchdog sees it
    authority,         \* upgrade authority in ProgramData
    file,              \* the state file
    pc,                \* where the run is
    run                \* what it holds

\* History: what the chat's reader knows, and what happened to the runs.
VARIABLES
    view,              \* keys that the reader believes open
    torn,              \* messages went out or the file was lost, and no
                       \* heartbeat has gone out and been recorded since
    streak             \* recorded runs in a row in which a check failed

Chain == INSTANCE WatchedChain

runVars == <<pc, run>>
historyVars == <<view, torn, streak>>
watchdogVars == <<now, group, authority, file, pc, run, view, torn, streak>>

ASSUME ConfigIsValid == \A dryRun \in DryRuns : ConfigErrors(Env, dryRun) = {}

Authorities == Addresses \cup {None, Closed}
GroupKeys == {UnsettledKey(g) : g \in Groups}
FindingKeys == {AuthorityKey, ResetKey} \cup GroupKeys \cup {RpcKey(c) : c \in Checks}

\* What a state file of the right shape can hold.  An earlier version wrote no
\* failure counts.
States ==
    [open : SUBSET [key : FindingKeys, check : Checks \cup {"state"}],
     lastHeartbeatDay : Nat \cup {None},
     failures : [Checks -> Nat] \cup {None}]

\* No value stands for two things, and the clock never shows 0, which
\* cycle_start shows of a group that has not started.  Of the program's build
\* the watchdog needs only that periods are positive and that times are seconds.
ASSUME WatchdogAssumption ==
    /\ FALSE \in DryRuns /\ DryRuns \subseteq BOOLEAN
    /\ Env \in Environment
    /\ IsFiniteSet(Groups)
    /\ Instants \subseteq Nat \ {0}
    /\ PeriodSecs \in [0..MaxFrequency -> Nat \ {0}] /\ PeriodCounts \subseteq Nat
    /\ RetentionSecs \in Nat /\ RunTimeout \in Nat
    /\ CountCap \in Nat
    /\ None \notin Nat \cup [Checks -> Nat] \cup Chain!WatchedGroup
    /\ {None, Damaged} \cap States = {} /\ None # Damaged

Day(t) == t \div DAY

\* Whether a fault of this kind may happen now.
Faulty(kind) == kind \in Faults /\ now <= LastFault

NoRun == [nowSecs |-> 0, config |-> Config(Env, FALSE), results |-> {},
          chunks |-> <<>>, next |-> EMPTY_STATE, beat |-> FALSE, sent |-> FALSE]

------------------------------------------------------------------------------
(* The parts of a run                                                      *)

Exit == pc' = "idle" /\ run' = NoRun

\* A run that sent something and did not record it tears the chat from the file.
ExitUnrecorded ==
    /\ Exit
    /\ torn' = (torn \/ run.sent)
    /\ UNCHANGED <<file, streak>>

Start(dryRun) ==
    /\ pc = "idle"
    /\ pc' = "authority"
    /\ run' = [NoRun EXCEPT !.nowSecs = now, !.config = Config(Env, dryRun)]
    /\ UNCHANGED <<now, group, authority, file, historyVars>>

\* The results of one check, then on to the next part of the run.
Record(result, part) ==
    /\ run' = [run EXCEPT !.results = @ \cup {result}]
    /\ pc' = part
    /\ UNCHANGED <<now, group, authority, file, historyVars>>

\* CHECKS["upgrade-authority"]: of a closed program nothing can be read.
CheckAuthority ==
    /\ pc = "authority"
    /\ authority # Closed
    /\ Record(Passed("upgrade-authority",
                     EvaluateAuthority(run.config.expectedAuthority, authority)),
              "groups")

CheckAuthorityFails ==
    /\ pc = "authority"
    /\ authority = Closed \/ Faulty("rpc")
    /\ Record(Failed("upgrade-authority"), "groups")

\* decodeGroup, of the accounts with status Active.
DecodedGroups ==
    [g \in {g \in Groups : group[g] # None /\ group[g].status = "Active"} |->
       [cycleStart |-> group[g].cycle_start, frequency |-> group[g].frequency,
        totalPeriods |-> group[g].total_periods, status |-> group[g].status]]

\* CHECKS["unsettled-groups"]
CheckGroups ==
    /\ pc = "groups"
    /\ Record(Passed("unsettled-groups",
                     EvaluateGroups(DecodedGroups, run.nowSecs, run.config.graceSecs,
                                    run.config.cluster)),
              "step")

CheckGroupsFails ==
    /\ pc = "groups"
    /\ Faulty("rpc")
    /\ Record(Failed("unsettled-groups"), "step")

\* Reads the state file and computes the next state and the messages.
Evaluate ==
    LET read    == ReadState(file)
        results == run.results \cup (IF read.reset THEN {STATE_RESET_RESULT} ELSE {})
        today   == Day(run.nowSecs)
        stepped == Step(read.state, results, today, run.config.failuresBeforeAlert)
    IN
    /\ pc = "step"
    /\ \/ /\ run.config.dryRun
          /\ ExitUnrecorded
       \/ /\ ~run.config.dryRun
          /\ pc' = "send"
          /\ run' = [run EXCEPT !.results = results, !.next = stepped.next,
                                !.chunks = Chunk(stepped.messages),
                                !.beat = HeartbeatDue(read.state, today)]
          /\ UNCHANGED <<file, torn, streak>>
    /\ UNCHANGED <<now, group, authority, view>>

\* An I/O error other than ENOENT.
EvaluateFails ==
    /\ pc = "step"
    /\ Faulty("disk")
    /\ ExitUnrecorded
    /\ UNCHANGED <<now, group, authority, view>>

\* What a reader who believed in `keys` believes after a chunk.
Reads(keys, messages) ==
    FoldLeft(LAMBDA ks, m : CASE m.kind = "opened"    -> ks \cup {m.key}
                              [] m.kind = "resolved"  -> ks \ {m.key}
                              [] m.kind = "heartbeat" -> m.keys,
             keys, messages)

\* The chat shows the next chunk.
Deliver == view' = Reads(view, Head(run.chunks))

\* Telegram takes a chunk that is not too long.
Fits(messages) == ChunkLength(messages) <= TELEGRAM_MAX_CHARS

SendTelegram ==
    /\ pc = "send" /\ run.chunks # <<>>
    /\ Fits(Head(run.chunks))
    /\ Deliver
    /\ run' = [run EXCEPT !.chunks = Tail(@), !.sent = TRUE]
    /\ UNCHANGED <<now, group, authority, file, pc, torn, streak>>

\* The request fails, or its answer is lost after the chat took the chunk.
SendTelegramFails ==
    /\ pc = "send" /\ run.chunks # <<>>
    /\ Faulty("telegram") \/ ~Fits(Head(run.chunks))
    /\ Exit
    /\ \/ /\ torn' = (torn \/ run.sent)
          /\ UNCHANGED view
       \/ /\ Faulty("telegram") /\ Fits(Head(run.chunks))
          /\ Deliver
          /\ torn' = TRUE
    /\ UNCHANGED <<now, group, authority, file, streak>>

\* Fault: the file is written before the messages are sent.
WriteStateEarly ==
    /\ pc = "send"
    /\ file' = run.next
    /\ Exit
    /\ torn' = (torn /\ ~run.beat)
    /\ streak' = [c \in Checks |->
         IF \E r \in run.results : r.check = c /\ r.error THEN Saturated(streak[c] + 1) ELSE 0]
    /\ UNCHANGED <<now, group, authority, view>>

\* writeStateAtomically: the rename replaces the file or leaves it.
WriteState ==
    /\ pc = "send" /\ run.chunks = <<>>
    /\ file' = run.next
    /\ Exit
    /\ torn' = (torn /\ ~run.beat)
    /\ streak' = [c \in Checks |->
         IF \E r \in run.results : r.check = c /\ r.error THEN Saturated(streak[c] + 1) ELSE 0]
    /\ UNCHANGED <<now, group, authority, view>>

WriteStateFails ==
    /\ pc = "send" /\ run.chunks = <<>>
    /\ Faulty("disk")
    /\ ExitUnrecorded
    /\ UNCHANGED <<now, group, authority, view>>

------------------------------------------------------------------------------
(* Outside the process                                                     *)

\* The host reboots, or systemd kills the run.
Crash ==
    /\ pc # "idle"
    /\ Faulty("crash")
    /\ ExitUnrecorded
    /\ UNCHANGED <<now, group, authority, view>>

\* The state file is deleted, damaged, or put back from an earlier version.
LoseState ==
    /\ Faulty("file")
    /\ pc = "idle"
    /\ \/ file' \in {None, Damaged}
       \/ /\ file \notin {None, Damaged}
          /\ file' = [file EXCEPT !.failures = None]
    /\ file' # file
    /\ torn' = TRUE
    /\ streak' = [c \in Checks |-> 0]
    /\ UNCHANGED <<now, group, authority, pc, run, view>>

\* Time passes; a run ends before its timeout.
Tick ==
    LET later == {t \in Instants : t > now} IN
    /\ later # {}
    /\ now' = CHOOSE t \in later : \A u \in later : t <= u
    /\ pc # "idle" => now' < run.nowSecs + RunTimeout
    /\ UNCHANGED <<group, authority, file, runVars, historyVars>>

ChainStep ==
    /\ \E g \in Groups : Chain!GroupStep(g)
    /\ \A g \in Groups : group'[g] # None => group'[g].frequency \in FrequenciesUsed
    /\ UNCHANGED <<authority, file, runVars, historyVars>>

\* The program is handed over, made immutable or closed; both are final.
ChangeAuthority ==
    /\ authority \in Addresses
    /\ authority' \in Authorities \ {authority}
    /\ UNCHANGED <<now, group, file, runVars, historyVars>>

------------------------------------------------------------------------------

WatchdogInit ==
    /\ now \in Instants /\ \A t \in Instants : now <= t
    /\ group = [g \in Groups |-> None]
    /\ authority \in Addresses
    /\ file = None
    /\ pc = "idle"
    /\ run = NoRun
    /\ view = {}
    /\ torn = FALSE
    /\ streak = [c \in Checks |-> 0]

RunStep ==
    \/ CheckAuthority \/ CheckAuthorityFails
    \/ CheckGroups \/ CheckGroupsFails
    \/ Evaluate \/ EvaluateFails
    \/ SendTelegram \/ SendTelegramFails
    \/ WriteState \/ WriteStateFails

WatchdogNext ==
    \/ \E dryRun \in DryRuns : Start(dryRun)
    \/ RunStep
    \/ Crash \/ LoseState
    \/ Tick \/ ChainStep \/ ChangeAuthority

WatchdogSpec == WatchdogInit /\ [][WatchdogNext]_watchdogVars

\* The timer starts runs and a run goes on; time passes between runs, so Tick
\* is enabled again and again.  Nothing is assumed of the chain's users.
FairWatchdog ==
    /\ WatchdogSpec
    /\ WF_watchdogVars(Start(FALSE))
    /\ WF_watchdogVars(RunStep)
    /\ SF_watchdogVars(Tick)

==============================================================================
