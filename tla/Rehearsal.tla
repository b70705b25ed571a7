------------------------------ MODULE Rehearsal ------------------------------
(***************************************************************************)
(* scripts/rehearse-devnet.ts, the rehearsal of an upgrade: a script that  *)
(* drives the program on a public cluster, in real time, through a node    *)
(* that may fail it, among strangers who may call the program as they      *)
(* like, on its groups and at their codes.                                 *)
(*                                                                         *)
(* A call that the program refuses throws, a call or a read that the node  *)
(* does not answer throws, and so does a check that does not hold; the     *)
(* script then stops.  The mint is the script's own and its codes are      *)
(* random: that strangers hold its tokens and know the codes beforehand    *)
(* lets them do more than they can.  Left out: the payer's own funding of  *)
(* its members (they have their tokens from the start), the checks of      *)
(* account sizes and discriminators, a payer short of lamports, a changing *)
(* rent rate, and lamports sent to a group, which only its refunds return. *)
(* Reads made together (Promise.all) are one step.                         *)
(***************************************************************************)
EXTENDS SafeNudge, SequencesExt

CONSTANTS
    Payer,        \* creator and payer of the script's groups
    Victim,       \* the member of the first rehearsal
    Crew,         \* the three members of the second
    Strangers,    \* wallets that are not the script's
    Bait, Life,   \* the two groups
    Low, High,    \* deposits of 10 and of 90 USDC
    MaxSkew,      \* bound: how far the local clock is ahead of the chain's
    Paces,        \* frequencies of the groups that strangers create
    LastStart,    \* bound: no stranger creates or starts a group after it
    MaxMoves,     \* bound: what strangers do in all
    MaxGifts      \* bound: tokens that they give to members in all

ASSUME ScriptAssumption ==
    /\ {Bait, Life} \subseteq Groups /\ Bait # Life
    /\ Crew \in Seq(Members \cap Payers) /\ Len(Crew) = 3
    /\ Victim \in Members \cap Payers /\ Payer \in Creators \cap Payers
    /\ Strangers \subseteq Creators \cap Members \cap Payers /\ Payer \notin Strangers
    /\ Paces \subseteq Frequencies
    /\ "usdc" \in Mints /\ 3 \in Frequencies /\ 2 \in PeriodCounts /\ 5 \in GroupSizes
    /\ {Low, High} \subseteq DepositAmounts /\ Low < High

CrewSet == {Crew[i] : i \in DOMAIN Crew}

\* newMember: a new key each, with its associated token account.
ASSUME WalletAssumption ==
    /\ \A i, j \in DOMAIN Crew : Crew[i] = Crew[j] => i = j
    /\ Victim \notin CrewSet /\ Strangers \cap ({Victim} \cup CrewSet) = {}
    /\ \A m \in {Victim} \cup CrewSet :
         \E a \in Canonical : OwnerOf[a] = m /\ MintOf[a] = "usdc"

VARIABLES
    step,         \* where the script is
    status,       \* "running", "passed" or "failed"
    served,       \* how many of the crew the current loop has called for
    terms,        \* the terms it read last
    cycleStart,   \* the start of the cycle it read
    before,       \* token balances of the crew before distribute
    rpcFailed,    \* history: a call or a read of the script got no good answer
    moves,        \* history: how often strangers touched its codes or wallets
    gifts         \* history: tokens that strangers gave to each member

readVars == <<terms, cycleStart, before>>
scriptVars == <<step, status, served, readVars, rpcFailed>>
rehearsalVars == <<vars, scriptVars, moves, gifts>>

ScriptMembers == {Victim} \cup CrewSet

At(s) == step = s /\ status = "running"
Ata(m) == CHOOSE a \in Canonical : OwnerOf[a] = m /\ MintOf[a] = "usdc"

------------------------------------------------------------------------------
(* Calls and checks                                                        *)

Goes(next) == step' = next /\ UNCHANGED status
Fails == status' = "failed" /\ UNCHANGED step

\* `await ...rpc()`: throws when the program refuses the call, and also when a
\* call that landed is not confirmed in time.
Try(call, next) ==
    \/ call /\ Goes(next) /\ UNCHANGED rpcFailed
    \/ call /\ Fails /\ rpcFailed' = TRUE
    \/ ~ENABLED call /\ Fails /\ UNCHANGED <<vars, rpcFailed>>

\* Any await throws when the node does not do what it is asked: a call does not
\* reach the chain before the script has stopped, its blockhash expires, a read
\* gets no answer or an old one.
RpcFails ==
    /\ status = "running"
    /\ Fails /\ rpcFailed' = TRUE
    /\ UNCHANGED <<vars, served, readVars>>

check(ok, next) ==
    /\ IF ok THEN Goes(next) ELSE Fails
    /\ UNCHANGED <<vars, rpcFailed>>

\* accounts.groupConfig.fetch throws when there is no account.
fetch(g, next) == check(Exists(group[g]), next)

\* Two periods of the devnet build's shortest frequency, at most five members.
createGroup(g, deposit) == CreateGroup(g, Payer, Payer, "usdc", deposit, 3, 2, 5)

\* The payer signs as the creator.
emergencyCancel(g) ==
    Exists(group[g]) /\ group[g].creator = Payer /\ EmergencyCancel(g, <<>>, FALSE)

startCycle(g) == Exists(group[g]) /\ group[g].creator = Payer /\ StartCycle(g)

\* It names the payer as the wallet that the rent goes to.
closeGroup(g) == Exists(group[g]) /\ group[g].rent_payer = Payer /\ CloseGroup(g)

join(m, g) == JoinGroup(g, m, m, Ata(m), None, FALSE, terms, None)

\* The error of a join whose terms are not the group's: what join_group checks
\* before it compares them holds.
TermsMismatch(m, g) ==
    /\ Exists(group[g]) /\ group[g].status = "Open"
    /\ group[g].current_members < group[g].max_members
    /\ ~Exists(record[<<g, m>>])
    /\ OwnAccount(Ata(m), g, m)
    /\ terms # Terms(group[g])

\* The chain's clock; when the cluster gives no block time, the local one.
WaitUntil(t) == \E skew \in 0..MaxSkew : now + skew >= t

------------------------------------------------------------------------------
(* baitAndSwitch                                                           *)

BaitAndSwitch ==
    /\ \/ /\ At("bait_create")
          /\ Try(createGroup(Bait, Low), "bait_terms")
          /\ UNCHANGED terms
       \/ /\ At("bait_terms")
          /\ fetch(Bait, "bait_cancel")
          /\ terms' = IF step' = "bait_cancel" THEN Terms(group[Bait]) ELSE terms
       \/ /\ At("bait_cancel")
          /\ Try(emergencyCancel(Bait), "bait_close")
          /\ UNCHANGED terms
       \/ /\ At("bait_close")
          /\ Try(closeGroup(Bait), "bait_switch")
          /\ UNCHANGED terms
       \/ /\ At("bait_switch")
          /\ Try(createGroup(Bait, High), "bait_join")
          /\ UNCHANGED terms
       \* The join is sent with the terms of the first group; any other outcome
       \* than this error stops the script.
       \/ /\ At("bait_join")
          /\ check(TermsMismatch(Victim, Bait), "bait_victim")
          /\ UNCHANGED terms
       \/ /\ At("bait_victim")
          /\ check(tokens[Ata(Victim)] = TokenFunds, "life_create")
          /\ UNCHANGED terms
    /\ UNCHANGED <<served, cycleStart, before>>

------------------------------------------------------------------------------
(* lifecycle                                                               *)

\* One member after another; the first n of the crew take part.
Member == Crew[served + 1]

ForEach(call, n, here, next) ==
    LET last == served + 1 = n IN
    /\ Try(call, IF last THEN next ELSE here)
    /\ served' = IF step' = next THEN 0 ELSE served + 1

CrewPairs ==
    [i \in DOMAIN Crew |-> [record |-> <<Life, Crew[i]>>, account |-> Ata(Crew[i])]]

CrewTokens == [i \in DOMAIN Crew |-> tokens[Ata(Crew[i])]]

\* Fault: expects a missed period to cost a deposit, as it once did.
PayoutsWithPenalty ==
    CrewTokens = [i \in DOMAIN Crew |-> before[i] + (IF i = 3 THEN 0 ELSE 2 * Low)]

\* Fault: a payout above what was deposited is accepted.
PayoutsAtLeast ==
    \A i \in DOMAIN Crew : CrewTokens[i] >= before[i] + (IF i = 3 THEN Low ELSE 2 * Low)

\* The third member missed a period and gets back what it deposited.
PayoutsRight ==
    CrewTokens = [i \in DOMAIN Crew |-> before[i] + (IF i = 3 THEN Low ELSE 2 * Low)]

Lifecycle ==
    \/ /\ At("life_create")
       /\ Try(createGroup(Life, Low), "life_terms")
       /\ UNCHANGED <<served, readVars>>
    \/ /\ At("life_terms")
       /\ fetch(Life, "life_join")
       /\ terms' = IF step' = "life_join" THEN Terms(group[Life]) ELSE terms
       /\ UNCHANGED <<served, cycleStart, before>>
    \/ /\ At("life_join")
       /\ ForEach(join(Member, Life), 3, "life_join", "life_start")
       /\ UNCHANGED readVars
    \/ /\ At("life_start")
       /\ Try(startCycle(Life), "life_read_start")
       /\ UNCHANGED <<served, readVars>>
    \/ /\ At("life_read_start")
       /\ fetch(Life, "wait_period")
       /\ cycleStart' = IF step' = "wait_period" THEN group[Life].cycle_start
                                                 ELSE cycleStart
       /\ UNCHANGED <<served, terms, before>>
    \/ /\ At("wait_period")
       /\ WaitUntil(cycleStart + PeriodSecs[3]) /\ Goes("life_deposit")
       /\ UNCHANGED <<vars, served, readVars, rpcFailed>>
    \/ /\ At("life_deposit")
       /\ ForEach(Deposit(Life, Member, Ata(Member)), 2, "life_deposit", "wait_end")
       /\ UNCHANGED readVars
    \/ /\ At("wait_end")
       /\ WaitUntil(cycleStart + 2 * PeriodSecs[3]) /\ Goes("life_distribute")
       /\ before' = CrewTokens
       /\ UNCHANGED <<vars, served, terms, cycleStart, rpcFailed>>
    \/ /\ At("life_distribute")
       /\ Try(Distribute(Life, CrewPairs), "life_payouts")
       /\ UNCHANGED <<served, readVars>>
    \/ /\ At("life_payouts")
       /\ check(PayoutsRight, "life_vault")
       /\ UNCHANGED <<served, readVars>>
    \/ /\ At("life_vault")
       /\ check(~Exists(vault[Life]), "end")
       /\ UNCHANGED <<served, readVars>>

\* It reads the transaction of distribute, reports and ends.
Pass ==
    /\ At("end")
    /\ status' = "passed"
    /\ UNCHANGED <<vars, step, served, readVars, rpcFailed>>

------------------------------------------------------------------------------
(* The others                                                              *)

AccountsOf(w) == {a \in TokenAccounts : OwnerOf[a] = w}

\* Every list of a group's members, each paid to any account of its own.
MemberLists(g) ==
    {[i \in DOMAIN order |-> [record |-> <<g, order[i]>>, account |-> choice[order[i]]]] :
       order \in SetToSeqs(Joined(g)),
       choice \in {f \in [Joined(g) -> UNION {AccountsOf(m) : m \in Joined(g)}] :
                     \A m \in Joined(g) : OwnAccount(f[m], g, m)}}

\* A wallet takes part in any group, with whatever approval its gate asks for, or
\* sends tokens to its vault.
TakesPart(s, g) ==
    \E account \in AccountsOf(s) :
        \/ /\ Exists(group[g])
           /\ \E authority \in Keys \cup {None}, expected \in {None, Joins(g, s)} :
                JoinGroup(g, s, s, account, authority, FALSE, Terms(group[g]), expected)
        \/ LeaveGroup(g, s, account)
        \/ Deposit(g, s, account)
        \/ /\ Exists(vault[g]) /\ vault[g].amount < Deposited(g) + MaxDonation
           /\ DonateTokens(g, account)

\* It takes a free code and runs its own group there.
RunsGroup(s, g) ==
    \/ \E mint \in Mints, amount \in DepositAmounts, periods \in PeriodCounts,
          frequency \in Paces, size \in GroupSizes :
         /\ now <= LastStart
         /\ CreateGroup(g, s, s, mint, amount, frequency, periods, size)
    \/ /\ Exists(group[g]) /\ group[g].creator = s
       /\ \/ \E authority \in Keys : SetJoinAuthority(g, authority)
          \/ now <= LastStart /\ StartCycle(g)
          \/ \E pairs \in MemberLists(g), mint_writable \in BOOLEAN :
               EmergencyCancel(g, pairs, mint_writable)

\* What anyone may call of any group.
Cranks(g) ==
    \/ /\ Exists(group[g]) /\ group[g].status = "Active" /\ now >= CycleEnd(group[g])
       /\ \E pairs \in MemberLists(g) : Distribute(g, pairs)
    \/ RefundVaultRent(g) /\ group'[g] # group[g]
    \/ \E m \in Members : CloseMemberRecord(g, m) \/ CloseJoinTally(g, m)
    \/ CloseGroup(g)

\* It sends a token to a member of the script.
Gives(s, m) ==
    \E account \in AccountsOf(s) :
        /\ MintOf[account] = "usdc" /\ tokens[account] > 0
        /\ tokens[Ata(m)] + 1 \in U64
        /\ tokens' = [tokens EXCEPT ![account] = @ - 1, ![Ata(m)] = @ + 1]
        /\ gifts' = [gifts EXCEPT ![m] = @ + 1]
        /\ UNCHANGED <<now, rate, group, vault, record, tally, gate, frozen, purse>>

StrangerStep ==
    /\ status = "running" /\ moves < MaxMoves
    /\ \E s \in Strangers :
         \/ \E g \in {Bait, Life} :
              /\ TakesPart(s, g) \/ RunsGroup(s, g) \/ Cranks(g)
              /\ UNCHANGED gifts
         \/ \E m \in ScriptMembers : SumFunction(gifts) < MaxGifts /\ Gives(s, m)
    /\ moves' = moves + 1
    /\ UNCHANGED scriptVars

Clock ==
    /\ status = "running" /\ ClockRuns /\ Tick
    /\ UNCHANGED <<scriptVars, moves, gifts>>

RehearsalInit ==
    /\ Init
    /\ step = "bait_create" /\ status = "running" /\ served = 0
    /\ terms = None /\ cycleStart = 0 /\ before = <<>>
    /\ rpcFailed = FALSE /\ moves = 0
    /\ gifts = [m \in ScriptMembers |-> 0]

Script ==
    /\ BaitAndSwitch \/ Lifecycle \/ Pass \/ RpcFails
    /\ UNCHANGED <<moves, gifts>>

RehearsalNext == Script \/ StrangerStep \/ Clock

RehearsalSpec == RehearsalInit /\ [][RehearsalNext]_rehearsalVars

------------------------------------------------------------------------------

\* The time at which the program takes the call that the script is at.
InTime ==
    CASE step = "life_deposit" ->
           now \in cycleStart + PeriodSecs[3] .. cycleStart + 2 * PeriodSecs[3] - 1
      [] step = "life_distribute" -> now >= cycleStart + 2 * PeriodSecs[3]
      [] OTHER -> TRUE

\* rehearse-devnet.ts:1-7.  The rehearsal fails only when the build is wrong, its
\* node failed it, a stranger interfered, or it acted outside its period: the
\* sequence of calls and the times that it waits for are ones that the program
\* accepts.
FailureHasACause == status = "failed" => rpcFailed \/ moves > 0 \/ ~InTime

\* rehearse-devnet.ts:5-6, 119-121, 160-166.  A rehearsal that passes has shown
\* what it says, whatever calls strangers made: the victim and every member of
\* the crew have all their tokens again, and no more than strangers gave them,
\* and the vault of the script's group is closed.  (After retention strangers
\* may free the code and have a group with a vault of their own there.)
PassShowsRefund ==
    status = "passed" =>
        /\ \A m \in ScriptMembers :
             tokens[Ata(m)] \in TokenFunds .. TokenFunds + gifts[m]
        /\ Exists(vault[Life]) => group[Life].creator # Payer

==============================================================================
