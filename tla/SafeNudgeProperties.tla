------------------------- MODULE SafeNudgeProperties -------------------------
(***************************************************************************)
(* What the safenudge program promises, stated over SafeNudge.             *)
(***************************************************************************)
EXTENDS SafeNudge

------------------------------------------------------------------------------
(* Invariants                                                              *)

\* group_config.rs:31-33: current_members is the number of open MemberRecords.
\* join_group, leave_group and close_member_record keep it, and settlement
\* demands exactly that many pairs: a drift blocks settlement or underpays.
\* Nobody leaves a running cycle, so it keeps the two members it started with.
CountMatchesRecords ==
    \A g \in Groups :
        Exists(group[g]) =>
            /\ group[g].current_members = Cardinality(Joined(g))
            /\ group[g].current_members <= group[g].max_members
            /\ group[g].status = "Active" => group[g].current_members >= 2

\* close_group.rs:10-13: a group created at a freed code inherits no member
\* record and no join gate; its vault address is free too.
FreedCodeIsClean ==
    \A g \in Groups :
        ~Exists(group[g]) =>
            Joined(g) = {} /\ ~Exists(gate[g]) /\ ~Exists(vault[g])

\* The vault of an unsettled group holds at least what its records add up to,
\* so neither settlement nor a leave can meet a shortfall; a settled group has
\* no vault left.
VaultBacksDeposits ==
    \A g \in Groups :
        Exists(group[g]) =>
            IF Settled(g) THEN ~Exists(vault[g])
            ELSE Exists(vault[g]) /\ vault[g].amount >= Deposited(g)

\* deposit.rs: the three ways a record counts deposits agree, an Open group's
\* records hold the first deposit only, and no period is paid before it began.
RecordsMatchPeriods ==
    \A g \in Groups : \A m \in Joined(g) :
        LET rec == record[<<g, m>>]
            cfg == group[g]
        IN  /\ rec.deposits_made = Cardinality(rec.periods_deposited)
            /\ rec.total_deposited = rec.deposits_made * cfg.deposit_amount
            /\ 0 \in rec.periods_deposited
            /\ rec.periods_deposited \subseteq 0..(cfg.total_periods - 1)
            /\ cfg.status = "Open" => rec.periods_deposited = {0}
            /\ cfg.status = "Active" =>
                 \A p \in rec.periods_deposited :
                     cfg.cycle_start + p * PeriodSecs[cfg.frequency] <= now

\* A group whose members each have a token account that can receive, and whose
\* GroupConfig would be rent-exempt, can be settled: some list of pairs passes
\* every check of distribute and emergency_cancel.
SettlementAlwaysPossible ==
    \A g \in Groups :
        /\ Unsettled(g)
        /\ group[g].lamports + vault[g].lamports >= Floor("group")
        /\ \A m \in Joined(g) :
             \E a \in TokenAccounts \ frozen : OwnAccount(a, g, m)
        => \E pairs \in PairLists :
             /\ SettlementChecks(g, pairs)
             /\ vault[g].amount = Paid(g, pairs, DOMAIN pairs)
                                   + UnownedVaultBalance(g)
             /\ \A i \in DOMAIN pairs : pairs[i].account \notin frozen

------------------------------------------------------------------------------
(* Action properties                                                       *)

SumTokens(S) == SumFunctionOnSet(tokens, S)

\* What a member has of a mint: its token accounts and its unsettled deposits.
Holdings(m, mint) ==
    SumTokens({a \in TokenAccounts : OwnerOf[a] = m /\ MintOf[a] = mint})
    + SumFunction([g \in {g \in Groups : /\ Unsettled(g) /\ group[g].mint = mint
                                          /\ Exists(record[<<g, m>>])} |->
                     record[<<g, m>>].total_deposited])

Donates(m) ==
    \E g \in Groups, a \in TokenAccounts : OwnerOf[a] = m /\ DonateTokens(g, a)

\* ADR-0005: every deposit comes back in full.  No step of the program, by
\* whoever sent it and with whatever accounts, leaves a member with less than
\* before, counting what the member has deposited in unsettled groups.
MembersKeepTheirTokens ==
    [][\A m \in Members, mint \in Mints :
         Holdings(m, mint)' < Holdings(m, mint) => Donates(m)]_vars

InVaults(mint) ==
    SumFunction([g \in {g \in Groups : Exists(vault[g]) /\ group[g].mint = mint} |->
                   vault[g].amount])

Total(mint) ==
    SumTokens({a \in TokenAccounts : MintOf[a] = mint}) + InVaults(mint)

\* emergency_cancel.rs:94-100: tokens are burned only when a group without
\* members is cancelled, and then exactly the balance of its vault; no other
\* step changes how many there are.
OnlyUnownedTokensBurn ==
    [][\A mint \in Mints :
         Total(mint)' # Total(mint) =>
            \E g \in Groups :
                /\ Unsettled(g) /\ Joined(g) = {} /\ group[g].mint = mint
                /\ ~Exists(vault'[g])
                /\ Total(mint)' = Total(mint) - vault[g].amount]_vars

\* Lamports that wallet w has paid as rent and that are still to come back.
RentOwedTo(w) ==
    LET GroupRent(g) ==
            group[g].lamports
            + (IF Exists(vault[g]) THEN vault[g].lamports ELSE 0)
            + (IF Exists(gate[g]) THEN gate[g].lamports ELSE 0)
    IN  SumFunction([g \in {g \in Groups : Exists(group[g]) /\ group[g].rent_payer = w}
                       |-> GroupRent(g)])
        + SumFunction([p \in {p \in Pdas : Exists(record[p]) /\ record[p].rent_payer = w}
                         |-> record[p].lamports])
        + SumFunction([p \in {p \in Pdas : Exists(tally[p]) /\ tally[p].rent_payer = w}
                         |-> tally[p].lamports])

\* Every lamport of rent goes back to the wallet that paid it and to no other:
\* refund_vault_rent, leave_group, close_member_record, close_group and
\* close_join_tally only move it out of the accounts that name this wallet.
\* Only a lamport transfer from outside the program changes who has what.
RentReturnsToItsPayer ==
    [][(\A w \in Payers : (purse[w] + RentOwedTo(w))' = purse[w] + RentOwedTo(w))
       \/ (\E g \in Groups, w \in Payers, amount \in 1..MaxTopUp :
             TopUp(g, w, amount))]_vars

\* A wallet's lamports fall only in a transaction that it signs as rent payer,
\* which leaves a new account in its name, or in its own transfer.  No
\* permissionless step, a refund after a rent rise included, takes from it.
OnlySignersPay ==
    [][\A w \in Payers : purse'[w] < purse[w] =>
         \/ \E g \in Groups :
              \/ ~Exists(group[g]) /\ Exists(group'[g]) /\ group'[g].rent_payer = w
              \/ ~Exists(gate[g]) /\ Exists(gate'[g]) /\ group[g].rent_payer = w
         \/ \E p \in Pdas :
              ~Exists(record[p]) /\ Exists(record'[p]) /\ record'[p].rent_payer = w
         \/ \E g \in Groups, amount \in 1..MaxTopUp : TopUp(g, w, amount)]_vars

\* One group at an address never turns into another: it moves from Open to
\* Active, Completed or Cancelled and never back, its terms, mint and payer
\* are fixed, and its address is freed only after it settled.
GroupLifecycle ==
    [][\A g \in Groups : group'[g] # group[g] =>
         IF ~Exists(group[g])
         THEN group'[g].status = "Open" /\ Joined(g)' = {} /\ ~Exists(gate'[g])
         ELSE IF ~Exists(group'[g]) THEN Settled(g) /\ ~Exists(vault[g])
         ELSE /\ Terms(group'[g]) = Terms(group[g])
              /\ group'[g].mint = group[g].mint
              /\ group'[g].rent_payer = group[g].rent_payer
              /\ <<group[g].status, group'[g].status>> \in
                   {<<s, s>> : s \in Statuses}
                   \cup {<<"Open", "Active">>, <<"Open", "Cancelled">>,
                         <<"Active", "Completed">>, <<"Active", "Cancelled">>}]_vars

\* close_member_record.rs:10-16: clients can read each member's result for the
\* whole retention time after settlement.
SettledRecordsAreKept ==
    [][\A g \in Groups, m \in Members :
         (/\ Exists(group[g]) /\ Settled(g) /\ Exists(record[<<g, m>>])
          /\ now < group[g].settled_at + RetentionSecs)
         => record'[<<g, m>>] = record[<<g, m>>]]_vars

\* join_tally.rs: while a group lives at an address, the count of a member's
\* joins there never falls, and it rises with every join and with nothing
\* else: so the count an authority signed for is stale after the next join.
JoinCountOnlyGrows ==
    [][\A g \in Groups, m \in Members :
         Exists(group[g]) =>
            Joins(g, m)' = Joins(g, m)
                + (IF ~Exists(record[<<g, m>>]) /\ Exists(record'[<<g, m>>])
                   THEN 1 ELSE 0)]_vars

\* set_join_authority.rs:9-10: a gate covers every member its group ever has,
\* so it appears and disappears only while the group has none.
GateCoversEveryMember ==
    [][\A g \in Groups :
         gate'[g] # gate[g] => Joined(g) = {} /\ Joined(g)' = {}]_vars

------------------------------------------------------------------------------
(* Liveness                                                                *)

\* distribute, close_member_record and close_group are permissionless and the
\* watchdog keeps reporting a group that stays unsettled, so someone calls
\* them in the end.  Nobody is assumed to join, deposit, start or cancel.
FairSpec ==
    /\ Spec
    /\ WF_vars(ClockRuns /\ Tick)
    /\ \A g \in Groups :
        /\ WF_vars(\E pairs \in PairLists : Distribute(g, pairs))
        /\ \A m \in Members : WF_vars(CloseMemberRecord(g, m))
        /\ WF_vars(CloseGroup(g))

\* A started cycle is settled, whatever the members and the creator do, and the
\* code of a settled group is free again in the end.  With GroupLifecycle, an
\* address is freed only after its group settled.
EveryCodeIsFreed ==
    \A g \in Groups :
        (Exists(group[g]) /\ group[g].status # "Open") ~> ~Exists(group[g])

==============================================================================
