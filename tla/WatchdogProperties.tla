------------------------- MODULE WatchdogProperties --------------------------
(* What the watchdog promises to the reader of its Telegram chat.          *)
EXTENDS Watchdog

\* watchdog.ts:154-168.  Between runs the reader of the chat and the state file
\* agree on what is open.  Messages that went out and were not recorded, or a
\* lost file, may part them, but only until a heartbeat is recorded: it lists
\* every open finding, and a lost file makes one due in the next run.
ReaderAgrees ==
    pc = "idle" /\ ~torn /\ file \notin {None, Damaged} => view = KeysOf(file.open)

\* The messages that a step shows in the chat.
Shown == IF view' # view \/ SendTelegram THEN Head(run.chunks) ELSE <<>>
Shows(kind, key) ==
    \E i \in DOMAIN Shown : Shown[i].kind = kind /\ Shown[i].key = key

\* core.ts:126-156, 198-226.  An alert is true when it is sent: the program's
\* own clock arithmetic says that the group's cycle ended more than the grace
\* ago (or the group has a frequency that CLUSTER lacks), and a check is
\* reported as failing only in its failuresBeforeAlert-th failed run in a row.
NoFalseAlarm ==
    [][/\ \A g \in Groups : Shows("opened", UnsettledKey(g)) =>
            /\ group[g] # None
            /\ group[g].status \in {"Active", "Completed", "Cancelled"}
            /\ \/ group[g].frequency \notin DOMAIN PERIOD_SECS[run.config.cluster]
               \/ Chain!CycleEnd(group[g]) + run.config.graceSecs < run.nowSecs
       /\ \A c \in Checks : Shows("opened", RpcKey(c)) =>
            streak[c] + 1 >= run.config.failuresBeforeAlert
      ]_watchdogVars

\* core.ts:212-214.  The chat is told that a finding is resolved only by a run
\* that could read what the finding is about.
ResolvedMeansRead ==
    [][\A r \in run.results : r.error =>
         /\ ~Shows("resolved", RpcKey(r.check))
         /\ r.check = "upgrade-authority" => ~Shows("resolved", AuthorityKey)
         /\ r.check = "unsettled-groups" =>
              \A k \in GroupKeys : ~Shows("resolved", k)]_watchdogVars

\* core.ts:215-219.  Once as many recorded runs in a row as the operator allows
\* could not make a check, the file says so, and so, but for torn runs, does
\* the chat.  Runs that fail otherwise neither count nor reset the count.
OutageReported ==
    pc = "idle" /\ file \notin {None, Damaged} =>
      \A c \in Checks :
        streak[c] >= Config(Env, FALSE).failuresBeforeAlert =>
          /\ RpcKey(c) \in KeysOf(file.open)
          /\ ~torn => RpcKey(c) \in view

\* core.ts:32-41, 236-245.  A damaged file is never replaced in silence: the
\* run that replaces it has shown `state-reset` and a heartbeat.
ResetReported ==
    [][file = Damaged /\ file' # Damaged /\ pc = "send" =>
         ResetKey \in view /\ view = KeysOf(file'.open)]_watchdogVars

\* What is wrong now and what the chat should show of it: a group that is Active
\* though its cycle ended more than the grace ago; an authority that is not the
\* expected one, that of a closed program as a check that cannot be made.
Wrong(key) ==
    LET config == Config(Env, FALSE) IN
    \/ \E g \in Groups :
         /\ key = UnsettledKey(g)
         /\ group[g] # None /\ group[g].status = "Active"
         /\ Chain!CycleEnd(group[g]) + config.graceSecs < now
    \/ /\ authority # config.expectedAuthority
       /\ key = IF authority = Closed THEN RpcKey("upgrade-authority") ELSE AuthorityKey

\* docs/monitoring.md:271-272.  The chat learns of everything that stays wrong,
\* whatever failed before.
WrongIsReported ==
    \A key \in FindingKeys : Wrong(key) ~> key \in view \/ ~Wrong(key)

\* core.ts:224-234.  A group that stays settled leaves the reader's list, also
\* when the run that told of it failed or its message was lost.
SettledGroupsCleared ==
    \A g \in Groups :
      LET Active == group[g] # None /\ group[g].status = "Active" IN
      ~Active ~> UnsettledKey(g) \notin view \/ Active

------------------------------------------------------------------------------
(* What the documents say and the code does not do                         *)

\* core.ts:242 and docs/monitoring.md:276: "one message per day saying all
\* checks passed".  A heartbeat without findings is sent by a run whose checks
\* all passed.
AllPassedMeansAllPassed ==
    [][\A i \in DOMAIN Shown :
         Shown[i].kind = "heartbeat" /\ Shown[i].keys = {} =>
           \A r \in run.results : ~r.error]_watchdogVars

==============================================================================
