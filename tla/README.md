# SafeNudge in TLA+

A verification development for the SafeNudge savings-group program on Solana
(`src/programs/safenudge`) and what works around it. It holds TLA+ models of
the program, TLC configurations that check them on small instances, and proofs
that TLAPS checks for every value of the constants. Paths below are relative to
the repository; `programs/` stands for `programs/safenudge/src/`.

## 1. The system

A creator opens a **group** under a code. Members **join** with a first deposit,
may **leave** while the group is Open, and once the creator **starts the cycle**
they deposit once per period. After the cycle anyone may **distribute**: every
member gets back exactly what they deposited. Until then the creator may
**cancel**, with the same payments. After a retention time anyone may close the
member records, then the group, and the code is free for a new group at the same
addresses. A **join gate** makes joins need an authority's signature; a **join
tally** counts the joins of one member at one address so that an approval is used
once. A **watchdog** script outside the chain reports cycles that nobody settled.

| Component | State | Operations | Talks to |
| --- | --- | --- | --- |
| Group lifecycle | `GroupConfig`: status, count, times, terms, lamports; vault | `create_group`, `start_cycle`, `close_group` | everything keys on its address |
| Membership | `MemberRecord` by group and member | `join_group`, `leave_group`, `close_member_record` | count in `GroupConfig`, vault, tally |
| Join gate, join tally | `JoinGate` by group, `JoinTally` by group and member | `set_join_authority`, `close_join_tally`, part of `join_group`, `close_group` | the authority's backend (other repository) |
| Deposits, cycle time | record counters, vault balance | `deposit` | the clock; must agree with `distribute` |
| Settlement | vault, records, status | `distribute`, `emergency_cancel`, `validate_member_pair` | token program, runtime rent rule |
| Vault rent refund | lamports of `GroupConfig` | `refund_vault_rent` | the rent rate |
| Supported mints | none | check in `create_group` | token program |
| Watchdog (`ops/watchdog`) | open findings, failure counts, heartbeat day, in a file; a marker file for config alerts | one run every ten minutes, of several awaits | RPC, Telegram, systemd |
| IDL and events | none; what clients and log readers know of the program | accounts and signers of a call, events of a handler | clients, indexers |
| Rehearsal (`scripts/rehearse-devnet.ts`) | where it is, what it read | a sequence of calls, waits and checks in real time | the program, other users of the cluster |
| Monitoring, measurement, CI | none of their own | deployment and tooling | |

What is hard here, and what makes each part correct:

* **Addresses outlive accounts.** A code is reused, so records, gates, tallies
  and signed messages of one group meet the next. Correct: a freed code is clean
  (`FreedCodeIsClean`), a group never changes into another (`GroupLifecycle`),
  a tally never restarts under a live group (`JoinCountOnlyGrows`).
* **Callers choose the accounts.** `distribute` is given a list by whoever sends
  it. Correct: no list harms a member (`MembersKeepTheirTokens`,
  `ImplementsEscrow`), and some list always works (`SettlementAlwaysPossible`).
* **The count stands for the records.** Settlement and `close_group` read
  `current_members`, three instructions maintain it (`CountMatchesRecords`).
* **The vault stands for the deposits**, against fee mints, donations and other
  groups (`VaultBacksDeposits`, `OnlyUnownedTokensBurn`).
* **Rent** moves between wallets and accounts, under a rate that changes
  (`RentReturnsToItsPayer`, `OnlySignersPay`).
* **Messages are late, repeated or replayed** (`ApprovalLandsOnce`,
  `JoinsLandAsShown`, `ReplayNeedsEmptyGroups`).
* **Settlement lists age.** A cancel names the members and token accounts its sender
  saw; before it lands others come and go, and an account is frozen, closed or made to
  require memos (`ListStaysGood`, `RetriesEndInSettlement`,
  `LateCancelNeedsEmptyGroups`).
* **A watchdog run is not atomic.** It reads the chain, sends messages and writes its
  file last; each can fail and the process can stop between them. Correct: the reader
  of the chat is right again after the next heartbeat (`ReaderAgrees`), alarms are true
  (`NoFalseAlarm`), nothing unknown is called resolved (`ResolvedMeansRead`), outages
  and resets are told (`OutageReported`, `ResetReported`), and what is wrong, or no longer
  is, reaches the chat in the end (`WrongIsReported`, `SettledGroupsCleared`).
* **Configuration silences.** A value that is wrong but accepted would switch an alert
  off or move its time (`AcceptedConfigIsMeant`), a marker could
  swallow one (`InvalidConfigReported`).
* **Clients see the program through the IDL and the log** (`WritesDeclared`,
  `LossesSigned`, `ReaderKnowsGroups`, `AmountsMoved`).
* **The rehearsal runs among strangers**, against the clock and through a node that may
  fail it (`FailureHasACause`, `PassShowsRefund`). In devnet builds the retention time is
  as short as a period: between two of its calls strangers may settle the script's group,
  close its records, free its code and run a group of their own there.
* **Nobody has to act**, and yet a cycle must settle and a code be freed
  (`EveryCodeIsFreed`).

`PROJECT.json` lists every hazard at its line with the properties that cover it.

## 2. Modules

| Module | Models | State and actions |
| --- | --- | --- |
| `CycleTime` | time arithmetic of `state/group_config.rs` and `deposit.rs` | operators only |
| `SafeNudge` | the whole program: all twelve instructions | one variable per kind of account, by address; one action per instruction |
| `SafeNudgeProperties` | what the program promises | invariants, action properties, fairness, liveness |
| `Escrow` | the promise about tokens, abstractly | what a member has inside and outside, no accounts |
| `SafeNudgeRefinesEscrow` | the refinement mapping | `ImplementsEscrow` |
| `JoinApproval` | signed joins in flight, the co-signing backend | composes with `SafeNudge`: `Land` is `JoinGroup` with a message's arguments |
| `CancelInFlight` | signed cancels in flight, the creator's client that retries | composes with `SafeNudge`: `LandCancel` is `EmergencyCancel` with a message's list |
| `Idl` | `idl/safenudge-types.ts` | one operator per instruction (its account metas) and per event (its type) |
| `Transactions` | the program called through the IDL, its log, a reader of it | composes with `SafeNudge`: one `Call...` per instruction; `accounts`, `events`, `seen` |
| `WatchedChain` | what the watchdog can see of the program, abstractly | `now` and five fields of each group |
| `SafeNudgeRefinesChain` | the refinement mapping | `SafeNudgeIsWatched` |
| `WatchdogConfig` | `config.ts` | operators only |
| `ConfigReport` | `reportInvalidConfig` of `watchdog.ts` | environment, day, marker file, chat |
| `WatchdogRules` | `core.ts`, `chunk` of `watchdog.ts` | operators only |
| `Watchdog` | `main` of `watchdog.ts` with chain, state file, chat | composes with `WatchedChain`; one action per await, and one for its failure |
| `WatchdogProperties` | what the watchdog promises to its reader | invariants, action properties, liveness |
| `Rehearsal` | `rehearse-devnet.ts` | composes with `SafeNudge`: script steps, strangers, clock |
| `SafeNudgeProofs` | theorems about the program's accounts, what is recorded, rent; the refinement of `WatchedChain` | |
| `EscrowProofs` | theorems about tokens; the refinement of `Escrow` | |
| `JoinApprovalProofs`, `CancelProofs` | theorems about messages in flight | |
| `TransactionsProofs` | theorems about the IDL and the log | |
| `RehearsalProofs` | what a passed rehearsal has shown | |
| `ConfigReportProofs`, `WatchdogProofs` | theorems about the watchdog | |
| `MC...` | constants of the runs | |

**How state corresponds.** `group[g]`, `vault[g]`, `record[<<g, m>>]`,
`tally[<<g, m>>]` and `gate[g]` are the accounts at the program-derived
addresses; `None` means the program owns nothing there, which is what the code's
owner checks ask. Each account has its lamports. `tokens`, `frozen` and `purse`
are the wallets' token balances, frozen token accounts and lamports; `now` and
`rate` are the `Clock` and `Rent` sysvars.

**How actions correspond.** A Solana transaction is atomic, so each instruction
is one action: account constraints and `require!`s are its guards (an error
changes nothing), Anchor's `init` and `close` and the token program's effects are
part of it. `leave_group` and `close_member_record` share `CloseRecord`, as
`distribute` and `emergency_cancel` share `SettlementChecks` and `Settle`; what the
token program and the runtime ask of a settlement is `CanSettle`, and the checks of a
cancel are `CancelChecks`, so that a property can say without ENABLED that a cancel would
be accepted (`CanLand`). The
caller's list is a sequence of `[record, account]` pairs, drawn from all
addresses and all token accounts. Arguments include refused ones: amount 0,
0 periods, sizes 1 and 11, one frequency too many, keys that never sign.

**The watchdog.** `pc` is the await that a run is at and `run` what its local variables
hold: the time of its start, the results, the remaining chunks, the next state. A
failing await either becomes an error result (the checks) or ends the run with exit
code 2 (the rest). `SendTelegramFails` includes the answer that is lost after Telegram
took the message. `file` is the state file: `None`, `Damaged` (not JSON, or of a wrong
shape), or a state, also one of the version without failure counts. Three history
variables ask the questions: `view` is what a reader who believes every message thinks
is open, `torn` that messages and file have parted, `streak` how many recorded runs in a
row could not make a check. The watchdog is composed not with the program but with
`WatchedChain`, and `code_reuse` checks that the program implements that: this is where
it matters that a group that was Active cannot free its address before the retention of
its records ends. Byte offsets of `decodeGroup` and the loader's accounts are abstracted to a read of
the fields or an error.

**IDL and log.** A `Call...` action is the instruction's action with the account metas
that a client gets from the IDL and the events that the handler emits. The model lets the
instruction run and asks afterwards whether each change was declared and signed, which is
what the runtime enforces on chain.

**The rehearsal.** `Try` is a call that throws when the program refuses it, and when it
lands and its confirmation is lost; `RpcFails` is any await that the node lets down before
the call has reached the chain, or a read without an answer. The script then stops, and
`rpcFailed` remembers why. A stranger can call, on both groups, every instruction that its
own signature or none allows: join with or without approval, leave, deposit (`TakesPart`);
create a group at a free code, set its gate, start and cancel it (`RunsGroup`); settle any
group whose cycle has ended with any list that its members' accounts allow, refund rent,
close records, tallies and groups (`Cranks`). It can also send tokens to a vault or to a
member of the script (`Gives`; `gifts` counts them). `moves` counts what strangers did.
That they hold the script's fresh mint and know its random codes is more than real
strangers have.

A definition whose comment starts with *Fault* is not part of the model. It is the
definition below it with a plausible slip; replacing the latter by the former
makes the property named in `PROJECT.json` ("mutants") fail.

**What comes from outside `src/`.** The token program (`PayIn`, the transfer and
close in `Settle`), the runtime's rule that a transaction may not add lamports to
an account and leave it below its rent-exempt minimum (ARCHITECTURE.md:916),
Anchor's refusal to reuse an `init_if_needed` account that is not rent-exempt, the
clock, the issuer's freeze authority, members who close a token account or have it require memos,
the join authority's backend, which
ARCHITECTURE.md:113, 115 and 912 and ADR-0004 describe, the creator's client that cancels
(ARCHITECTURE.md:389, 895-896, 898), the reader of the log (docs/monitoring.md), systemd, Telegram
and its reader, and the strangers of the rehearsal.

## 3. Runs

| Run | Instance | Shows |
| --- | --- | --- |
| `settlement` | 1 code, 3 members, 2 periods of 2 s, up to 2 donated tokens | records stay consistent; every unsettled group can be settled; the tokens follow `Escrow` |
| `code_reuse` | `Transactions`: 1 code used again and again, 2 members, 2 payers, valid and invalid gate keys | what a later group inherits: nothing but tallies; lifecycle, retention, gate; what clients declare and sign, what the log tells; the program is a `WatchedChain` |
| `two_groups` | 2 codes, 2 members in both, three mints, fairness | lists that mix groups are refused; vaults back their own records; what is burned; cycles settle and codes are freed |
| `rent` | rate 1 or 2 at any moment, lamport transfers, a frozen account, rejoins | rent under a changing rate; no permissionless step charges a wallet |
| `join_approval` | 2 messages in flight, 2 instances of a code, 2 creators, 2 mints, gate or none | an approval lands once, is not replayed over a group with members, and a late join lands only in a group as shown |
| `settled_approval` | as `join_approval`, backend signs in any status | **violation**, see below |
| `cancel_in_flight` | 2 cancels in flight, 2 instances of a code, 2 members, 2 periods, a donation, fairness; one account that its owner closes or has require memos and that its issuer freezes, and a spare one | a cancel stays good while the members are those it lists and its accounts take payouts; one sent twice or late reaches a later group only over empty groups; retries with the current list settle the group |
| `watchdog` | 1 group, 2 authorities, 2 days, every fault at every await, dry runs | the safety properties of the watchdog |
| `watchdog_liveness` | weekly and five-minute groups, `CLUSTER=mainnet`, Telegram errors and kills until the cycle is late, then none; another day | what the chat learns in the end |
| `watchdog_all_passed` | the checks' requests may fail, nothing else | **violation**, see below |
| `config_report` | environments with each kind of value in each variable, several days, Telegram and disk errors on the first ones | what is accepted is meant; config alerts repeat only for a reason, and arrive |
| `rehearsal` | the script's 4 members, two strangers with 5 moves, periods and retention of 2 s, a local clock up to 1 s ahead, a node that may fail any call or read | why it can fail, what a pass shows |

**Bounds and why they are enough.** Every instruction touches one group and at
most all its members, so two groups show every cross-talk and three members give a
list a first, a middle and a last entry; duplicates and swaps need two. `Horizon`
bounds when a group may be created or started; the clock still runs on while a
cycle or a retention time waits for it, so nothing stops halfway. `MaxDonation`,
`MaxTopUp`, `TokenFunds` and `Lamports` bound the money in play; funds are enough
to fill a group and, in `code_reuse`, to use the code again. `MaxU64` and `MaxU32`
are the widths of amounts and join counts, scaled down so that they are reached or
nearly so; `MaxI64` stands for 2^63 - 1, and no run comes near it because real
timestamps do not. In `JoinApproval` the blockhash life is shorter than the
retention time, as it is on chain (about a minute against 30 days, or 5 minutes in
devnet builds). Symmetry is used only in runs without liveness: members in those of
`SafeNudge`, creators and mints in `join_approval`, strangers in `rehearsal`. Deadlock is not checked in the runs of
the program: the model stops when its bounds are used up, and the real system stops when
nobody acts. Nor is it in `rehearsal`, which stops when the script has ended. It is checked
in the runs of the watchdog, which has no state to wait in for ever.

Of the watchdog's clock only chosen instants are looked at (`Instants`): the first second,
the second at which or after which a cycle is late, one on another UTC day. Any number of runs fits between
two of them, so the number of runs is unbounded; `CountCap` merges failure counts from the
threshold on, which the code does not tell apart either. One group suffices because a
finding never depends on another one; the chunk limit of five lines makes a run send one
to three chunks. A run ends within `RunTimeout`, systemd's `TimeoutStartSec`, so that the clock cannot
pass a whole day within one. In `CancelInFlight` each member joins at most `MaxU32` times, which
is scaled down; the program has that bound too. In its run one second stands for the life
of a blockhash: a message lands within the second in which it was signed or never, and the
retention time, one second more, is the shortest that the assumption on both allows.

In `rehearsal` five moves of strangers (`MaxMoves`) are what it takes to close the three
records of the settled group, close the group and create another at its code before the
script ends; two strangers can meet in one group. They create and start groups until
`LastStart`, the earliest second at which a freed code can be taken again, with the
script's frequency (`Paces`), and one of them gives at most one token to a member (`MaxGifts`): a
second gift adds nothing to the comparison of balances. `Horizon` is 0:
`LastStart` takes its place, and the clock runs while a cycle or a retention time waits for it.

**Fairness.** `FairSpec` assumes only the clock and the three permissionless
instructions that move a group forward, `distribute`, `close_member_record` and
`close_group`, each weakly fair per group (and member). Nothing in the program makes
anyone call them; the justification is operational: they cost only a transaction
fee, `close_*` return rent, and the watchdog reports an unsettled group every day.
Nobody is assumed to join, deposit, start or cancel. The instance of `two_groups` has a constant
rent rate and no frozen account: either of them can really block settlement until
someone outside acts (docs/monitoring.md §1).

`FairWatchdog` assumes that systemd starts runs, that a started run goes on, and that
time passes. `Tick` is strongly fair since it waits for a run that is close to its
timeout. Faults end after `LastFault`: nothing is promised while every request fails.
Nothing is assumed of the chain's users, so a group may stay late for ever. `FairConfig`
is the same for runs with an invalid environment. `FairCancel` assumes that the creator
resends as long as the group is unsettled, that a message does not stay in flight for
ever, and that a cancel that can land again and again does so once; members may always
get in between, but each can join only finitely often. The client pays every member to some account of theirs that takes payouts when it
signs, and retries as soon as each has one. ARCHITECTURE.md:895 leaves it open whether a
client should pay other accounts than the canonical one; the mutant
`PayableAccountsCanonical` shows that a client that does not can be kept from settling for
ever, by the issuer or, on a Token-2022 mint, by the member alone. `m1` keeps a spare
account that nobody touches, which stands for the one that anybody can create for them.

**Findings.** Two sentences of the documents are refuted by a run.

* ARCHITECTURE.md:914 says that replaying an approval in a later group at the same code
  needs the creator to cancel an *empty* group. `settled_approval` follows the documented
  backend rules (recent blockhash, exact count, binding to the group instance) and signs
  an approved join while the group is already Cancelled and near the end of its retention.
  The program cannot refuse it later: the records, the group and the tally close, the
  creator recreates the code with the same terms and authority, and the join lands, though
  the earlier group had members. `join_approval` shows that the sentence is true when the
  backend signs for Open groups only, and `NoReplayOverMembers` proves it of a backend that
  signs for any group that is not settled yet. No document asks either of the backend.
* docs/monitoring.md:276 promises a daily message "saying all checks passed".
  `watchdog_all_passed`: the day's first run cannot read the chain, which is one failure
  and no finding yet, and sends that message all the same.

Four more were noticed while modelling and have no run of their own.

* ops/watchdog/README.md:18 gives `GRACE_HOURS` the default 24, and config.ts:47 calls what
  is not a whole number from 0 to 168 an error. `GRACE_HOURS=` with nothing after it is
  present, so config.ts:45 does not take the default; `Number("")` is 0, which is within the
  bounds, and every group is a finding as soon as its cycle ends. An empty
  `RPC_FAILURES_BEFORE_ALERT` is 0 too, and refused. `AcceptedConfigIsMeant` says so of both.
* ops/watchdog/README.md:29 says that after exit code 2 "nothing was sent". The messages
  may have gone out before the write of the state failed (watchdog.ts:167-168).
  `ReaderAgrees` shows what saves the reader: the next run repeats, and the next
  heartbeat lists everything.
* ops/watchdog/README.md:31 promises a config alert "at most once per UTC day for the same
  reason". The marker knows the last reason only (config.ts:79-83), so two reasons that
  take turns are each sent again. `AlertNotRepeated` is what holds.
* watchdog.ts:83 says "Telegram-sized chunks", but one message longer than the limit is a
  chunk of its own, and the heartbeat grows by a line per open finding. Telegram refuses
  such a chunk, and every run fails until findings clear; with the real limit it takes
  about 70 findings. The liveness properties are checked where every message fits.

## 4. Proofs

Eight modules prove 36 theorems, for any finite sets of groups, members, wallets and
mints and any amounts, rates, times, lists, messages, runs and faults. No bound of a
model (`Horizon`, `MaxInFlight`, `LastFault`, ...) plays a part in them.

| Module | Theorem | States |
| --- | --- | --- |
| `SafeNudgeProofs` | `TypeCorrect` | `TypeOK`: no field leaves its width |
| | `CountIsExact`, `FreedCodesAreClean` | `CountMatchesRecords`, `FreedCodeIsClean` |
| | `GatesCoverMembers`, `RecordsOutliveSettlement`, `ApprovalCountsAdvance`, `GroupsOnlyMoveForward` | `GateCoversEveryMember`, `SettledRecordsAreKept`, `JoinCountOnlyGrows`, `GroupLifecycle` |
| | `ProgramIsWatchedChain` | `SafeNudgeIsWatched`: the refinement of `WatchedChain` |
| | `RecordsCountRight` | `RecordsMatchPeriods` |
| | `SignersPay`, `RentComesBack` | `OnlySignersPay`, `RentReturnsToItsPayer` |
| `EscrowProofs` | `VaultsAreWhole`, `SettlementNeverStuck` | `VaultBacksDeposits`, `SettlementAlwaysPossible` |
| | `ProgramIsEscrow` | `ImplementsEscrow`: the refinement of `Escrow` |
| | `TokensAreConserved`, `NobodyLosesTokens` | `OnlyUnownedTokensBurn`, `MembersKeepTheirTokens` |
| `JoinApprovalProofs` | `MessagesAreProgramSteps` | `ApprovalSpec => Spec` |
| | `LandsAsShown`, `OneJoinPerApproval`, `NoReplayOverMembers` | `JoinsLandAsShown`, `ApprovalLandsOnce`, `ReplayNeedsEmptyGroups` |
| `CancelProofs` | `CancelsAreProgramSteps` | `CancelSpec => Spec` |
| | `LateCancelsMeetEmptyGroups`, `ListsStayGood` | `LateCancelNeedsEmptyGroups`, `ListStaysGood` |
| `TransactionsProofs` | `CallsAreProgramSteps` | `ClientSpec => Spec` |
| | `CallsDeclareWrites`, `LosersSigned` | `WritesDeclared`, `LossesSigned` |
| | `EventsTellTheTruth`, `TheLogIsEnough` | `AmountsMoved`, `ReaderKnowsGroups` |
| `RehearsalProofs` | `PassMeansRefund` | `PassShowsRefund` |
| `ConfigReportProofs` | `AcceptedMeansMeant`, `NoRepeatedAlert` | `AcceptedConfigIsMeant`, `AlertNotRepeated` |
| `WatchdogProofs` | `ChatMatchesFile`, `OutagesAreReported` | `ReaderAgrees`, `OutageReported` |
| | `ResolvedWasRead`, `ResetsAreReported`, `AlarmsAreTrue` | `ResolvedMeansRead`, `ResetReported`, `NoFalseAlarm` |

### The inductive invariants

**The accounts: `MembershipInv`.** `CountMatchesRecords` and `FreedCodeIsClean` are not
inductive alone. A new group starts with the count 0, which is right only if the code was
left clean; `close_group` leaves it clean only because the count was exact and because
settlement had closed the vault. `MembershipInv` joins these facts per group (`GroupInv`);
the lemma `GroupInvFrame` says that an instruction on one group disturbs no other. The
action properties need the same invariant: `set_join_authority` and `close_group` look at
the count, and only its exactness makes the group really empty then; `close_group` looks
at the status, and only the invariant says that the vault of a settled group is gone.

**The watched chain: `ChainInv`** adds `RetentionInv`: a group that had started has
members until the retention of its records ends. `WatchedChain` refuses to close such a
group by the clock, the program by its member count, and this is what links the two.

**What is recorded: `PeriodsOK`.** Per record (`PeriodsInv`), the amount, the number of
deposits and the set of paid periods agree, no period lies beyond the group's last one or,
in an Active group, began later than now, and in an Open group only the first deposit is
there. The lemma `CurrentPeriodBegan` says of the arithmetic of `deposit`, with its clamp,
that the period it computes is one of the cycle and has begun.

**Money: `LedgerInv`, `VaultsBack`.** `LedgerInv` is `MembershipInv`, `PeriodsOK` and
`MintsOK` (the mint of every group was accepted by `create_group`, so a transfer arrives
whole). Each instruction is first described by its effect on money alone: an operator per
group says what its mint, vault and records hold (`MintAt`, `PotAt`, `HeldAt`), and each
instruction moves one amount between a wallet and one group, or empties one group.
`ProgramIsEscrow`, `TokensAreConserved` and `NobodyLosesTokens` are then proved from those
few effects. `VaultsBack`, that a vault holds at least its records' sum, is inductive with
them; it is what makes settlement possible, where the number of pairs must equal the exact
member count and the last member is paid what is left.

**Rent.** `RentComesBack` sums a wallet's lamports and all rent recorded under its name.
Every instruction is described as adding to or taking from one account of one payer.

**Messages: `BaseInv`, `LandedOK`, `ReplayOK`; `LateOK`.** Both models are
first shown to implement the program: every composed step is a step of `Next` or leaves
the program's variables alone, so all theorems above hold with messages in flight.
`BaseInv` says what a message in flight carries: fields read from one group, terms that
can be offered and an account on the shown mint. `LandedOK` says that a count that landed
lies below the join tally, which outlives the member record; this is why an approval
cannot land again after a leave. `ReplayOK` and `LateOK` relate a message's age to the
groups that have come and gone at its code: each of them settled after the message was
signed and either never had a member or kept its records for longer than the message
lives.

**Aging lists: `ListsInv`.** A cancel in flight names each of its members once, with the
member's account on the mint of the group it was signed for, in as many pairs as it has
members. `ListsStayGood` combines this with three facts about the program as it is when
the cancel lands: the count is exact, the vault holds what the records add up to
(`VaultsBack`), and `SupplyKept` of `EscrowProofs`, which says that all accounts and vaults
of a mint together hold at most what there was at first. So no credit overflows, although the list was
made when amounts were different. That the accounts take the payout is left as a condition:
their owners and the issuer decide it.

**The log: `ReaderInv`, `LamportsKept`.** The properties about writes and signers need no
invariant beyond that of the program: for each instruction its footprint is compared with
the account metas of its call, and a loss with its signers. `AmountsMoved` follows from the
wallet lemmas behind `ProgramIsEscrow`, which say what each instruction adds to a member's
accounts. `ReaderInv` is what `ReaderKnowsGroups` says of a group together with the types
that keep the reader's copy readable, and stands on `LedgerInv`: that a leave refunds all
that the member has in the vault is a fact about records, not about the event. The widths of the events need one more fact, for `GroupClosed` logs
lamports as u64: `LamportsKept`, that the lamports of all payers and accounts together
never change.

**The rehearsal: `RehearsalInv`.** `Where` says for every place of the script what the
second group and the crew's wallets are: who has joined, who has paid how much. A stranger
may settle the group between any two calls once the cycle has ended; from then on `Where`
says nothing of the wallets, because the script's own `distribute` will be refused. It does
know them after that `distribute`, and this is enough for the comparison of payouts.
After the retention time strangers may also free the code and take it. `Owners` is what
remains true then: the victim never has a record, the crew has records in a group only
while that group is the script's own (a join needs the member's signature, and an address
that is freed has no record left, which is `MembershipInv`), so a `distribute` of the
script that is accepted was paid from its own group. Each step is first sorted by what it
does to the second group and the script's wallets: nothing (`Quiet`), someone else's group
there or the script's settled one closed (`LifeElsewhere`), the script's group settled
(`LifePaid`). All strangers' steps are of these three kinds (`StrangerDoes`), and so a
wallet of the script only ever receives gifts from them (`WalletKept`).

**The watchdog's configuration: `EnvironmentOK`, `MarkerInv`.** The marker is that of the
last alert, except between the message and the write.

**The watchdog's messages: `ReportInv`.** It follows a run through its awaits. `FileInv`:
each open finding of the file belongs to the check that makes it, a check that failed as
often as allowed is open, and `streak` is what the next run will count from. `ResultsInv`:
the results so far, one per check. `SendInv` holds while messages wait: each of them says
something that the run may say (`MessageOK`), and once they are sent the reader will
believe what the next file says (`ReaderWillAgree`): because a heartbeat comes last, or,
in a run without heartbeat, because every difference between the reader's list and the
next state is announced by a message that still waits. Between runs this becomes
`ReaderAgrees`. The lemmas about `step` and `chunk` say that the chunks hold exactly the
messages, that none is empty, and that the last message stays last.

**True alarms: `AlarmInv`.** From the groups' check to the last message, every reported
group is `Late`: its cycle ended more than the grace before the run began, and it is
Active or settled during the run. The watchdog's arithmetic and the program's agree
(`LateWhenOverdue`), and the group cannot vanish before the message because a run is
shorter than the retention.

**Sums and folds.** The library's induction theorems take an operator as parameter, which
the provers cannot instantiate. What a sum over a set or a fold over a sequence computes is
proved by inductions whose property is a set instead: `SubsetInduction` (a family that
holds T whenever it holds all strict subsets of T holds every subset of a finite set) and
`NumberInduction`. They give the lemmas about `SumFunctionOnSet` in `SafeNudgeProofs`, and the
step-by-step readings of `Reads` and `Chunk` in `WatchdogProofs` (`FoldExists`).

### Assumptions

TLC evaluates every `ASSUME` in a run.

* `TimeAssumption`, `AddressAssumption`, `AmountAssumption`: the constants have the types
  that the code gives them; sets of wallets and addresses are finite.
* `NoneAssumption`, `WatchedNoneAssumption`, `AddressesAssumption`: a missing account or
  value is not one.
* `MessageAssumption`, `CancelAssumption`, `EnvironmentAssumption`: types of the messages'
  and environments' constants; a cancel's blockhash lives shorter than the retention time
  (about a minute against 30 days, or 5 minutes in devnet builds).
* `SupplyAssumption`, `LamportAssumption`: what the wallets have at first fits in a u64, per
  mint and in lamports; the token program and the runtime guarantee both. `ReaderAssumption`:
  no group is not a group.
* `ScriptAssumption`, `WalletAssumption`: the script's members are new wallets, each with an
  associated token account of its own (`newMember` of `rehearse-devnet.ts`), its
  arguments are among those of the model, and strangers are not its wallets.
* `ConfigIsValid`, `WatchdogAssumption`: `main` runs with an environment that
  `parseConfig` accepts; the clock never shows second 0; period lengths are positive.

Two theorems have hypotheses of their own.

* `NoReplayOverMembers`: the backend signs only for groups that are not settled, and a
  blockhash lives shorter than the retention time. Without the first the property is
  false (`settled_approval`).
* `AlarmsAreTrue`: the periods in `PERIOD_SECS` of `core.ts` are those of the build
  (`PeriodsMirrored`), and a run's timeout is positive and at most the retention time
  (ops/monitoring/units/safenudge-watchdog.service:14 sets 5 minutes, which is just the
  retention time of devnet builds).

`WatchdogProofs` is about the watchdog composed with `WatchedChain`; that the program is
such a chain is `ProgramIsWatchedChain`.

### Only model-checked

* Liveness, under the fairness above: `EveryCodeIsFreed`, `RetriesEndInSettlement`,
  `InvalidConfigReported`, `WrongIsReported`, `SettledGroupsCleared`. It is out of this
  prover's reach.
* `FailureHasACause`: a rehearsal fails when a call is not ENABLED, so a proof would have to
  derive that each call is. `PassMeansRefund` does not depend on it: there the prover treats the
  ENABLED of a refused call as an unknown condition.
* The two violations (`settled_approval`, `watchdog_all_passed`) are counterexamples, shown
  by TLC.

## 5. Not modelled

* Bumps, byte layouts, discriminators, error codes, the spelling of group codes. They
  decide no state change beyond the address a code maps to, and the repository's unit
  tests pin them. Of the IDL the arguments and the types of accounts are those of `SafeNudge`.
* Transaction fees, and lamports sent in advance to an address where the program
  has no account yet. A vault that the issuer freezes: nothing moves then
  (ARCHITECTURE.md:901 accepts this).
* Outside `CancelInFlight`, token accounts that are closed or require memos. To
  `distribute` and `leave_group` they are what a frozen account is in the runs that freeze
  one: another account of the member goes in its place (ARCHITECTURE.md:895-896).
* Of the rehearsal: how the payer funds its members, which happens before anything is
  asked of their wallets and fails like any other await; the checks of account sizes and
  discriminators; a payer short of lamports, a rent rate that changes during the ten minutes,
  lamports sent to a group. A stranger pays the rent of its own accounts. The balances that
  are read together (`Promise.all`) are one step.
* Program upgrades.
* The texts, severities and times of findings, and redaction of secrets. No decision of
  the watchdog reads them; that a changed text alone sends no message follows from the
  code's comparison of keys, and tests/watchdog.ts asserts it.
* Monitoring deployment and CI: configuration. `scripts/measure-join.ts` runs one join per
  variant in a local VM and prints sizes and compute units; it has no behaviour over time.

## 6. Plan

Every safety property that a run checks is proved, except `FailureHasACause`. Its proof
would state the guard of each call of the script without ENABLED, as `CanLand` does for a
cancel, and show the guard in every state that is in time while no stranger moved; it needs the
lamports and token bounds of the script's wallets as further assumptions.
