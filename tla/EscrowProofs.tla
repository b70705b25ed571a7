----------------------------- MODULE EscrowProofs ----------------------------
(***************************************************************************)
(* The members' tokens, for every value of the constants: what each step   *)
(* does to them, that a vault backs its group's deposits, and that the     *)
(* program implements Escrow.                                              *)
(***************************************************************************)
EXTENDS SafeNudgeProofs, SafeNudgeRefinesEscrow

------------------------------------------------------------------------------
(* What one group holds                                                    *)

MintAt(g) == IF Unsettled(g) THEN group[g].mint ELSE None
PotAt(g) == IF Unsettled(g) THEN vault[g].amount ELSE 0
HeldAt(g, m) ==
    IF Unsettled(g) /\ Exists(record[<<g, m>>])
    THEN record[<<g, m>>].total_deposited ELSE 0

\* A step leaves alone what the group at h holds.
Keeps(h) ==
    /\ MintAt(h)' = MintAt(h) /\ PotAt(h)' = PotAt(h)
    /\ \A m \in Members : HeldAt(h, m)' = HeldAt(h, m)

\* create_group
Opens(g) ==
    /\ tokens' = tokens
    /\ ~Exists(group[g]) /\ MintAt(g)' \in Mints
    /\ PotAt(g)' = 0 /\ \A m \in Members : HeldAt(g, m)' = 0

\* join_group and deposit
PaysIn(g, m, a, amount) ==
    /\ Unsettled(g) /\ MintAt(g)' = MintAt(g)
    /\ OwnerOf[a] = m /\ MintOf[a] = MintAt(g)
    /\ amount \in 1..tokens[a]
    /\ tokens' = [tokens EXCEPT ![a] = @ - amount]
    /\ PotAt(g)' = PotAt(g) + amount
    /\ HeldAt(g, m)' = HeldAt(g, m) + amount
    /\ \A n \in Members : n # m => HeldAt(g, n)' = HeldAt(g, n)

\* a token transfer to a vault
Gives(g, a) ==
    /\ DonateTokens(g, a)
    /\ Unsettled(g) /\ MintAt(g)' = MintAt(g)
    /\ MintOf[a] = MintAt(g)
    /\ 1 \in 1..tokens[a]
    /\ tokens' = [tokens EXCEPT ![a] = @ - 1]
    /\ PotAt(g)' = PotAt(g) + 1
    /\ \A n \in Members : HeldAt(g, n)' = HeldAt(g, n)

\* leave_group
Withdraws(g, m, a) ==
    /\ Unsettled(g) /\ MintAt(g)' = MintAt(g)
    /\ OwnerOf[a] = m /\ MintOf[a] = MintAt(g)
    /\ HeldAt(g, m) > 0
    /\ tokens' = [tokens EXCEPT ![a] = @ + HeldAt(g, m)]
    /\ PotAt(g)' = PotAt(g) - HeldAt(g, m)
    /\ HeldAt(g, m)' = 0
    /\ \A n \in Members : n # m => HeldAt(g, n)' = HeldAt(g, n)

\* distribute and emergency_cancel
PaysBack(g, pairs, burned) ==
    /\ Unsettled(g) /\ ~Unsettled(g)'
    /\ pairs \in PairLists /\ SettlementChecks(g, pairs)
    /\ burned = UnownedVaultBalance(g)
    /\ vault[g].amount = Paid(g, pairs, DOMAIN pairs) + burned
    /\ tokens' = [a \in TokenAccounts |-> tokens[a] + Credit(g, pairs, a)]
    /\ ~Exists(vault'[g])

MoneyEffect(g) ==
    \/ Opens(g)
    \/ \E m \in Members, a \in TokenAccounts, amount \in Nat : PaysIn(g, m, a, amount)
    \/ \E a \in TokenAccounts : Gives(g, a)
    \/ \E m \in Members, a \in TokenAccounts : Withdraws(g, m, a)
    \/ \E pairs, burned : PaysBack(g, pairs, burned)

NoMoneyMoves == tokens' = tokens /\ \A h \in Groups : Keeps(h)

LEMMA SameAccountsKeep ==
    ASSUME NEW h \in Groups, group'[h] = group[h], vault'[h] = vault[h],
           \A m \in Members : record'[<<h, m>>] = record[<<h, m>>]
    PROVE  Keeps(h)
<1>1. Unsettled(h)' = Unsettled(h)
  BY DEF Unsettled, Settled, Exists
<1> QED
  BY <1>1 DEF Keeps, MintAt, PotAt, HeldAt, Exists

LEMMA SettledKeeps ==
    ASSUME NEW h \in Groups, ~Unsettled(h), ~Unsettled(h)'
    PROVE  Keeps(h)
BY DEF Keeps, MintAt, PotAt, HeldAt

\* A group that only changes its status or its lamports.
LEMMA SameMoneyKeeps ==
    ASSUME NEW h \in Groups, Unsettled(h)' <=> Unsettled(h),
           Unsettled(h) => group'[h].mint = group[h].mint,
           vault'[h] = vault[h],
           \A m \in Members : record'[<<h, m>>] = record[<<h, m>>]
    PROVE  Keeps(h)
BY DEF Keeps, MintAt, PotAt, HeldAt, Exists

------------------------------------------------------------------------------
(* The mint of a group delivers what was sent                              *)

MintsOK == \A g \in Groups : Exists(group[g]) => SupportedMint(group[g].mint)

LEMMA SupportedDelivers ==
    ASSUME NEW mint, SupportedMint(mint), NEW amount
    PROVE  Received(mint, amount) = amount
BY DEF SupportedMint, AllowedExtensions, Received

LEMMA MintsStep ==
    ASSUME MembershipInv, MintsOK, [Next]_vars
    PROVE  MintsOK'
<1> SUFFICES ASSUME NEW g \in Groups, Exists(group'[g])
             PROVE  SupportedMint(group'[g].mint)
  BY DEF MintsOK
<1>1. CASE group'[g] = group[g]
  BY <1>1 DEF MintsOK
<1>2. CASE group'[g] # group[g] /\ Exists(group[g])
  BY <1>2, LifecycleStep DEF LifecycleOf, MintsOK
<1>3. CASE ~Exists(group[g]) /\ group'[g] # group[g]
  <2>1. ~Join(g)
    BY <1>3, JoinEffect DEF MembershipInv, Kept
  <2>2. ASSUME NEW m \in Members, NEW a \in TokenAccounts
        PROVE  ~LeaveGroup(g, m, a) /\ ~Deposit(g, m, a)
    BY <1>3 DEF LeaveGroup, Deposit
  <2>3. /\ ~\E pairs \in PairLists : Distribute(g, pairs)
        /\ ~RefundVaultRent(g) /\ ~CloseGroup(g)
        /\ ~\E m \in Members : CloseMemberRecord(g, m)
    BY <1>3 DEF Distribute, RefundVaultRent, CloseGroup, CloseMemberRecord
  <2>4. ~\E m \in Members : CloseJoinTally(g, m)
    BY <1>3 DEF CloseJoinTally
  <2>5. /\ ~\E authority \in Keys : SetJoinAuthority(g, authority)
        /\ ~StartCycle(g)
        /\ ~\E pairs \in PairLists, mint_writable \in BOOLEAN :
               EmergencyCancel(g, pairs, mint_writable)
        /\ ~\E payer \in Payers, amount \in 1..MaxTopUp : TopUp(g, payer, amount)
    BY <1>3 DEF SetJoinAuthority, StartCycle, EmergencyCancel, CancelChecks, TopUp
  <2>6. Create(g)
    BY <1>3, <2>1, <2>2, <2>3, <2>4, <2>5, GroupChanges
    DEF LeaveOrDeposit, CrankStep, CreatorStep
  <2> QED
    BY <2>6 DEF Create, CreateGroup, MembershipInv, TypeOK
<1> QED
  BY <1>1, <1>2, <1>3

LedgerInv == MembershipInv /\ PeriodsOK /\ MintsOK

LEMMA NextLedgerInv ==
    ASSUME LedgerInv, [Next]_vars
    PROVE  LedgerInv'
BY NextInv, PeriodsStep, MintsStep DEF LedgerInv

LEMMA Ledger == Spec => []LedgerInv
<1>1. Init => LedgerInv
  BY InitInv DEF Init, LedgerInv, PeriodsOK, PeriodsInv, MintsOK, Exists, Pdas
<1>2. LedgerInv /\ [Next]_vars => LedgerInv'
  BY NextLedgerInv
<1> QED
  BY <1>1, <1>2, PTL DEF Spec

------------------------------------------------------------------------------
(* What each instruction does to the money                                 *)

LEMMA PayInVault ==
    ASSUME LedgerInv, NEW g \in Groups, Exists(group[g]), NEW a \in TokenAccounts,
           NEW amount \in Nat, PayIn(g, a, amount)
    PROVE  /\ Exists(vault[g]) /\ tokens[a] \in Nat /\ tokens[a] >= amount
           /\ vault'[g].amount = vault[g].amount + amount
           /\ \A h \in Groups : h # g => vault'[h] = vault[h]
           /\ tokens' = [tokens EXCEPT ![a] = @ - amount]
<1>1. TypeOK /\ vault[g] \in Vault
  BY DEF LedgerInv, MembershipInv, TypeOK, PayIn, Exists
<1>2. Received(group[g].mint, amount) = amount
  BY SupportedDelivers DEF LedgerInv, MintsOK
<1>3. vault' = [vault EXCEPT ![g].amount = vault[g].amount + amount]
  BY <1>2 DEF PayIn
<1>4. vault'[g].amount = vault[g].amount + amount
  BY <1>1, <1>3 DEF TypeOK, Vault
<1>5. \A h \in Groups : h # g => vault'[h] = vault[h]
  BY <1>1, <1>3 DEF TypeOK
<1>6. tokens[a] \in Nat
  BY <1>1, AmountAssumption DEF TypeOK, U64
<1> QED
  BY <1>4, <1>5, <1>6 DEF PayIn

LEMMA JoinMoney ==
    ASSUME LedgerInv, LedgerInv', NEW g \in Groups, NEW m \in Members,
           NEW payer \in Payers, NEW a \in TokenAccounts, NEW authority,
           NEW durable, NEW terms, NEW expected,
           JoinGroup(g, m, payer, a, authority, durable, terms, expected)
    PROVE  /\ PaysIn(g, m, a, group[g].deposit_amount)
           /\ \A h \in Groups : h # g => Keeps(h)
<1> DEFINE amount == group[g].deposit_amount
<1>1. /\ TypeOK /\ group[g] \in GroupConfig /\ Exists(group[g])
      /\ group[g].status = "Open"
  BY DEF LedgerInv, MembershipInv, TypeOK, JoinGroup, Exists
<1>2. amount \in Nat /\ amount > 0
  BY <1>1, AmountAssumption DEF GroupConfig, U64
<1>3. PayIn(g, a, amount) /\ OwnAccount(a, g, m)
  BY DEF JoinGroup
<1>4. FirstDeposit(g, m) /\ \A p \in Pdas : p # <<g, m>> => record'[p] = record[p]
  BY <1>1, JoinRecord
<1>5. group' = [group EXCEPT ![g].current_members = @ + 1]
  BY DEF JoinGroup
<1>6. /\ Exists(group'[g]) /\ group'[g].status = "Open"
      /\ group'[g].mint = group[g].mint
      /\ \A h \in Groups : h # g => group'[h] = group[h]
  <2>1. group'[g] = [group[g] EXCEPT !.current_members = @ + 1]
    BY <1>1, <1>5 DEF TypeOK
  <2>2. group'[g].mint = group[g].mint /\ \A h \in Groups : h # g => group'[h] = group[h]
    BY <1>1, <1>5, <2>1 DEF TypeOK, GroupConfig
  <2>3. Exists(group'[g])
    <3>1. group'[g] \in GroupConfig
      BY <1>1, <2>1 DEF JoinGroup, GroupConfig
    <3> QED
      BY <3>1, NoneAssumption DEF Exists
  <2> QED
    BY <1>4, <2>2, <2>3 DEF FirstDeposit
<1>7. Unsettled(g) /\ Unsettled(g)'
  BY <1>1, <1>6 DEF Unsettled, Settled
<1>8. Exists(record'[<<g, m>>]) /\ record'[<<g, m>>].total_deposited = amount
      /\ ~Exists(record[<<g, m>>])
  BY <1>4, NoneAssumption DEF FirstDeposit, Exists
<1>9. \A h \in Groups : h # g => Keeps(h)
  BY <1>1, <1>2, <1>3, <1>4, <1>6, PayInVault, SameAccountsKeep DEF Pdas
<1>10. /\ vault'[g].amount = vault[g].amount + amount
       /\ tokens[a] \in Nat /\ tokens[a] >= amount
       /\ tokens' = [tokens EXCEPT ![a] = @ - amount]
  BY <1>1, <1>2, <1>3, PayInVault
<1>11. /\ MintAt(g)' = MintAt(g) /\ MintAt(g) = group[g].mint
       /\ PotAt(g)' = PotAt(g) + amount
  BY <1>6, <1>7, <1>10 DEF MintAt, PotAt
<1>12. HeldAt(g, m)' = HeldAt(g, m) + amount
  BY <1>2, <1>7, <1>8 DEF HeldAt
<1>13. \A n \in Members : n # m => HeldAt(g, n)' = HeldAt(g, n)
  BY <1>4, <1>7 DEF HeldAt, Pdas, Exists
<1> HIDE DEF amount
<1>14. amount \in 1..tokens[a]
  BY <1>2, <1>10
<1>15. PaysIn(g, m, a, amount)
  BY <1>3, <1>7, <1>10, <1>11, <1>12, <1>13, <1>14 DEF PaysIn, OwnAccount
<1> QED
  BY <1>9, <1>15 DEF amount

LEMMA DepositMoney ==
    ASSUME LedgerInv, LedgerInv', NEW g \in Groups, NEW m \in Members,
           NEW a \in TokenAccounts, Deposit(g, m, a)
    PROVE  /\ PaysIn(g, m, a, group[g].deposit_amount)
           /\ \A h \in Groups : h # g => Keeps(h)
<1> DEFINE amount == group[g].deposit_amount
<1>1. /\ TypeOK /\ group[g] \in GroupConfig /\ Exists(group[g])
      /\ group[g].status = "Active"
  BY DEF LedgerInv, MembershipInv, TypeOK, Deposit, Exists
<1>2. amount \in Nat /\ amount > 0
  BY <1>1, AmountAssumption DEF GroupConfig, U64
<1>3. PayIn(g, a, amount) /\ OwnAccount(a, g, m) /\ group' = group
  BY DEF Deposit
<1>4. NextDeposit(g, m) /\ \A p \in Pdas : p # <<g, m>> => record'[p] = record[p]
  BY <1>1, DepositNext
<1>5. Unsettled(g) /\ Unsettled(g)'
  BY <1>1, <1>3 DEF Unsettled, Settled
<1>6. /\ Exists(record[<<g, m>>]) /\ Exists(record'[<<g, m>>])
      /\ record'[<<g, m>>].total_deposited = record[<<g, m>>].total_deposited + amount
  BY <1>4, NoneAssumption DEF NextDeposit, Exists
<1>7. \A h \in Groups : h # g => Keeps(h)
  BY <1>1, <1>2, <1>3, <1>4, PayInVault, SameAccountsKeep DEF Pdas
<1>8. /\ vault'[g].amount = vault[g].amount + amount
      /\ tokens[a] \in Nat /\ tokens[a] >= amount
      /\ tokens' = [tokens EXCEPT ![a] = @ - amount]
  BY <1>1, <1>2, <1>3, PayInVault
<1>9. /\ MintAt(g)' = MintAt(g) /\ MintAt(g) = group[g].mint
      /\ PotAt(g)' = PotAt(g) + amount
  BY <1>3, <1>5, <1>8 DEF MintAt, PotAt
<1>10. HeldAt(g, m)' = HeldAt(g, m) + amount
  BY <1>5, <1>6 DEF HeldAt
<1>11. \A n \in Members : n # m => HeldAt(g, n)' = HeldAt(g, n)
  BY <1>4, <1>5 DEF HeldAt, Pdas, Exists
<1> HIDE DEF amount
<1>12. amount \in 1..tokens[a]
  BY <1>2, <1>8
<1>13. PaysIn(g, m, a, amount)
  BY <1>3, <1>5, <1>8, <1>9, <1>10, <1>11, <1>12 DEF PaysIn, OwnAccount
<1> QED
  BY <1>7, <1>13 DEF amount

LEMMA DonateMoney ==
    ASSUME LedgerInv, NEW g \in Groups, NEW a \in TokenAccounts, DonateTokens(g, a)
    PROVE  /\ Gives(g, a)
           /\ \A h \in Groups : h # g => Keeps(h)
<1>1. /\ group' = group /\ record' = record /\ Exists(group[g]) /\ Exists(vault[g])
      /\ MintOf[a] = group[g].mint /\ PayIn(g, a, 1)
  BY DEF DonateTokens
<1>2. /\ tokens[a] \in Nat /\ tokens[a] >= 1
      /\ vault'[g].amount = vault[g].amount + 1
      /\ \A h \in Groups : h # g => vault'[h] = vault[h]
      /\ tokens' = [tokens EXCEPT ![a] = @ - 1]
  BY <1>1, PayInVault
<1>3. Unsettled(g) /\ Unsettled(g)'
  BY <1>1 DEF LedgerInv, MembershipInv, GroupInv, Unsettled, Settled
<1>4. \A h \in Groups : h # g => Keeps(h)
  BY <1>1, <1>2, SameAccountsKeep
<1>5. /\ MintAt(g)' = MintAt(g) /\ MintAt(g) = group[g].mint
      /\ PotAt(g)' = PotAt(g) + 1
      /\ \A n \in Members : HeldAt(g, n)' = HeldAt(g, n)
  BY <1>1, <1>2, <1>3 DEF MintAt, PotAt, HeldAt
<1> QED
  BY <1>1, <1>2, <1>3, <1>4, <1>5 DEF Gives

\* A record of an existing group holds at least one deposit.
LEMMA RecordHoldsTokens ==
    ASSUME LedgerInv, NEW g \in Groups, NEW m \in Members, Exists(record[<<g, m>>])
    PROVE  /\ Exists(group[g])
           /\ record[<<g, m>>].total_deposited \in Nat
           /\ record[<<g, m>>].total_deposited > 0
<1> DEFINE rec == record[<<g, m>>]
           amount == group[g].deposit_amount
           made == rec.deposits_made
<1>1. TypeOK /\ GroupInv(g) /\ PeriodsInv(g, m)
  BY DEF LedgerInv, MembershipInv, PeriodsOK
<1>2. Exists(group[g])
  BY <1>1 DEF GroupInv, Joined
<1>3. group[g] \in GroupConfig /\ rec \in MemberRecord
  BY <1>1, <1>2 DEF TypeOK, Exists, Pdas
<1>4. amount \in Nat /\ amount > 0 /\ made \in Nat /\ rec.total_deposited \in Nat
  BY <1>3, AmountAssumption DEF GroupConfig, MemberRecord, U64, U8
<1>5. made # 0
  <2>1. IsFiniteSet(rec.periods_deposited)
    <3>1. rec.periods_deposited \in SUBSET (0..51)
      BY <1>3 DEF MemberRecord, MaxPeriods
    <3>2. IsFiniteSet(0..51)
      <4>1. 0 \in Int /\ 51 \in Int
        OBVIOUS
      <4> QED
        BY <4>1, FS_Interval
    <3> QED
      BY <3>1, <3>2, FS_Subset
  <2> QED
    BY <1>1, <2>1, FS_EmptySet DEF PeriodsInv
<1>6. rec.total_deposited = made * amount
  BY <1>1 DEF PeriodsInv
<1> HIDE DEF amount, made
<1>7. made * amount > 0
  BY <1>4, <1>5
<1> QED
  BY <1>2, <1>4, <1>6, <1>7

LEMMA LeaveMoney ==
    ASSUME LedgerInv, LedgerInv', NEW g \in Groups, NEW m \in Members,
           NEW a \in TokenAccounts, LeaveGroup(g, m, a)
    PROVE  /\ Withdraws(g, m, a)
           /\ \A h \in Groups : h # g => Keeps(h)
<1> DEFINE refund == record[<<g, m>>].total_deposited
<1>1. /\ TypeOK /\ group[g] \in GroupConfig /\ Exists(group[g])
      /\ group[g].status = "Open" /\ CloseRecord(g, m) /\ Exists(record[<<g, m>>])
      /\ vault[g] \in Vault /\ OwnAccount(a, g, m)
      /\ vault' = [vault EXCEPT ![g].amount = @ - refund]
      /\ tokens' = [tokens EXCEPT ![a] = @ + refund]
  BY DEF LedgerInv, MembershipInv, TypeOK, LeaveGroup, CloseRecord, Exists
<1>2. /\ group' = [group EXCEPT ![g].current_members = @ - 1]
      /\ record' = [record EXCEPT ![<<g, m>>] = None]
  BY <1>1 DEF CloseRecord
<1>3. /\ ~Exists(record'[<<g, m>>])
      /\ \A p \in Pdas : p # <<g, m>> => record'[p] = record[p]
  BY <1>1, <1>2 DEF TypeOK, Exists, Pdas
<1>4. /\ group'[g].status = "Open" /\ group'[g].mint = group[g].mint
      /\ Exists(group'[g])
      /\ \A h \in Groups : h # g => group'[h] = group[h]
  <2>1. group'[g] = [group[g] EXCEPT !.current_members = @ - 1]
    BY <1>1, <1>2 DEF TypeOK
  <2>2. /\ group'[g].mint = group[g].mint /\ group'[g].status = "Open"
        /\ \A h \in Groups : h # g => group'[h] = group[h]
    BY <1>1, <1>2, <2>1 DEF TypeOK, GroupConfig
  <2>3. group'[g] \in GroupConfig
    BY <1>1, <2>1 DEF CloseRecord, GroupConfig
  <2> QED
    BY <2>2, <2>3, NoneAssumption DEF Exists
<1>5. Unsettled(g) /\ Unsettled(g)'
  BY <1>1, <1>4 DEF Unsettled, Settled
<1>6. /\ vault'[g].amount = vault[g].amount - refund
      /\ \A h \in Groups : h # g => vault'[h] = vault[h]
  BY <1>1 DEF TypeOK, Vault
<1>7. \A h \in Groups : h # g => Keeps(h)
  BY <1>3, <1>4, <1>6, SameAccountsKeep DEF Pdas
<1>8. HeldAt(g, m) = refund /\ HeldAt(g, m)' = 0
  BY <1>1, <1>3, <1>5 DEF HeldAt
<1>9. /\ MintAt(g)' = MintAt(g) /\ MintAt(g) = group[g].mint
      /\ PotAt(g)' = PotAt(g) - refund
  BY <1>4, <1>5, <1>6 DEF MintAt, PotAt
<1>10. \A n \in Members : n # m => HeldAt(g, n)' = HeldAt(g, n)
  BY <1>3, <1>5 DEF HeldAt, Pdas, Exists
<1>11. refund > 0
  BY <1>1, RecordHoldsTokens
<1> HIDE DEF refund
<1> QED
  BY <1>1, <1>5, <1>7, <1>8, <1>9, <1>10, <1>11 DEF Withdraws, OwnAccount

LEMMA SettleMoney ==
    ASSUME LedgerInv, LedgerInv', NEW g \in Groups, NEW pairs \in PairLists,
           NEW burned, NEW outcome \in {"Completed", "Cancelled"},
           Exists(group[g]), SettlementChecks(g, pairs),
           burned = UnownedVaultBalance(g), Settle(g, pairs, burned, outcome)
    PROVE  /\ PaysBack(g, pairs, burned)
           /\ \A h \in Groups : h # g => Keeps(h)
<1>1. Unsettled(g) /\ group[g] \in GroupConfig
  BY DEF LedgerInv, MembershipInv, TypeOK, GroupInv, SettlementChecks, Unsettled, Exists
<1>2. /\ group'[g].status = outcome
      /\ \A h \in Groups : h # g => group'[h] = group[h]
  BY <1>1 DEF LedgerInv, MembershipInv, TypeOK, Settle, GroupConfig
<1>3. ~Unsettled(g)'
  BY <1>2 DEF Unsettled, Settled
<1>4. /\ record' = record /\ ~Exists(vault'[g])
      /\ \A h \in Groups : h # g => vault'[h] = vault[h]
  BY DEF LedgerInv, MembershipInv, TypeOK, Settle, Exists
<1>5. \A h \in Groups : h # g => Keeps(h)
  BY <1>2, <1>4, SameAccountsKeep
<1> QED
  BY <1>1, <1>3, <1>4, <1>5 DEF PaysBack, Settle, CanSettle

LEMMA CreateMoney ==
    ASSUME LedgerInv, LedgerInv', NEW g \in Groups, Create(g)
    PROVE  /\ Opens(g)
           /\ \A h \in Groups : h # g => Keeps(h)
<1>1. PICK creator \in Creators, payer \in Payers, mint \in Mints,
           amount \in DepositAmounts, frequency \in 0..(MaxFrequency + 1),
           periods \in PeriodCounts, size \in GroupSizes :
             CreateGroup(g, creator, payer, mint, amount, frequency, periods, size)
  BY DEF Create
<1>2. TypeOK /\ TypeOK' /\ ~Exists(group[g]) /\ record' = record /\ tokens' = tokens
  BY <1>1 DEF LedgerInv, MembershipInv, CreateGroup
<1>3. Opened(g) /\ Only(g)
  BY <1>2, CreateEffect
<1>4. Unsettled(g)' /\ group'[g] \in GroupConfig
  BY <1>3, NoneAssumption DEF Opened, Unsettled, Settled, Exists
<1>5. /\ vault'[g] = [amount |-> 0, lamports |-> Floor("vault")]
      /\ \A h \in Groups : h # g => vault'[h] = vault[h]
  BY <1>1, <1>2 DEF TypeOK, CreateGroup
<1>6. \A h \in Groups : h # g => group'[h] = group[h]
  BY <1>2, <1>3 DEF TypeOK, Only
<1>7. \A m \in Members : ~Exists(record'[<<g, m>>])
  BY <1>2 DEF LedgerInv, MembershipInv, GroupInv, Joined
<1>8. \A h \in Groups : h # g => Keeps(h)
  BY <1>2, <1>5, <1>6, SameAccountsKeep
<1>9. PotAt(g)' = 0 /\ \A m \in Members : HeldAt(g, m)' = 0
  BY <1>4, <1>5, <1>7 DEF PotAt, HeldAt
<1>10. MintAt(g)' \in Mints
  BY <1>4 DEF MintAt, GroupConfig
<1> QED
  BY <1>2, <1>8, <1>9, <1>10 DEF Opens

\* The instructions on a group that leave the money alone.
LEMMA QuietKeeps ==
    ASSUME LedgerInv, LedgerInv', NEW g \in Groups, tokens' = tokens,
           \A h \in Groups : h # g => group'[h] = group[h],
           \/ /\ vault' = vault /\ record' = record
              /\ Unsettled(g)' <=> Unsettled(g)
              /\ Unsettled(g) => group'[g].mint = group[g].mint
           \/ /\ vault' = vault
              /\ \A h \in Groups, m \in Members :
                    h # g => record'[<<h, m>>] = record[<<h, m>>]
              /\ ~Unsettled(g) /\ ~Unsettled(g)'
    PROVE  NoMoneyMoves
<1>1. \A h \in Groups : h # g => Keeps(h)
  BY SameAccountsKeep
<1>2. Keeps(g)
  BY SameMoneyKeeps, SettledKeeps
<1> QED
  BY <1>1, <1>2 DEF NoMoneyMoves

LEMMA AllKeep ==
    ASSUME UNCHANGED <<group, vault, record, tokens>>
    PROVE  NoMoneyMoves
BY SameAccountsKeep DEF NoMoneyMoves

LEMMA CrankMoney ==
    ASSUME LedgerInv, LedgerInv', [Next]_vars, NEW g \in Groups, CrankStep(g)
    PROVE  \/ NoMoneyMoves
           \/ MoneyEffect(g) /\ \A h \in Groups : h # g => Keeps(h)
<1>1. TypeOK
  BY DEF LedgerInv, MembershipInv
<1>2. ASSUME NEW pairs \in PairLists, Distribute(g, pairs)
      PROVE  MoneyEffect(g) /\ \A h \in Groups : h # g => Keeps(h)
  <2>1. group[g].current_members >= 2 /\ group[g] \in GroupConfig
    BY <1>2 DEF LedgerInv, MembershipInv, TypeOK, GroupInv, Distribute, Exists
  <2>2. UnownedVaultBalance(g) = 0
    BY <2>1 DEF UnownedVaultBalance, GroupConfig
  <2> QED
    BY <1>2, <2>2, SettleMoney DEF Distribute, MoneyEffect
<1>3. ASSUME RefundVaultRent(g)
      PROVE  NoMoneyMoves
  <2>1. /\ UNCHANGED <<vault, record, tokens>> /\ ~Unsettled(g)
        /\ \A h \in Groups : h # g => group'[h] = group[h]
    BY <1>1, <1>3 DEF TypeOK, RefundVaultRent, Unsettled
  <2>2. group[g] \in GroupConfig
    BY <1>1, <1>3 DEF TypeOK, RefundVaultRent, Exists
  <2>3. group'[g].status = group[g].status
    BY <1>1, <1>3, <2>2 DEF TypeOK, RefundVaultRent, GroupConfig
  <2>4. ~Unsettled(g)'
    BY <1>3, <2>3 DEF RefundVaultRent, Unsettled, Settled
  <2> QED
    BY <2>1, <2>4, QuietKeeps
<1>4. ASSUME NEW m \in Members, CloseMemberRecord(g, m)
      PROVE  NoMoneyMoves
  <2>1. /\ UNCHANGED <<vault, tokens>> /\ ~Unsettled(g)
        /\ \A h \in Groups : h # g => group'[h] = group[h]
    BY <1>1, <1>4 DEF TypeOK, CloseMemberRecord, CloseRecord, Unsettled
  <2>2. \A h \in Groups, n \in Members : h # g => record'[<<h, n>>] = record[<<h, n>>]
    BY <1>1, <1>4 DEF TypeOK, CloseMemberRecord, CloseRecord, Pdas
  <2>3. group[g] \in GroupConfig
    BY <1>1, <1>4 DEF TypeOK, CloseMemberRecord, Exists
  <2>4. group'[g].status = group[g].status
    BY <1>1, <1>4, <2>3 DEF TypeOK, CloseMemberRecord, CloseRecord, GroupConfig
  <2>5. ~Unsettled(g)'
    BY <1>4, <2>4 DEF CloseMemberRecord, Unsettled, Settled
  <2> QED
    BY <2>1, <2>2, <2>5, QuietKeeps
<1>5. ASSUME NEW m \in Members, CloseJoinTally(g, m)
      PROVE  NoMoneyMoves
  BY <1>5, AllKeep DEF CloseJoinTally
<1>6. ASSUME CloseGroup(g)
      PROVE  NoMoneyMoves
  <2>1. /\ UNCHANGED <<vault, record, tokens>> /\ ~Unsettled(g)
        /\ \A h \in Groups : h # g => group'[h] = group[h]
        /\ ~Unsettled(g)'
    BY <1>1, <1>6 DEF TypeOK, CloseGroup, Unsettled, Exists
  <2> QED
    BY <2>1, QuietKeeps
<1> QED
  BY <1>2, <1>3, <1>4, <1>5, <1>6 DEF CrankStep

LEMMA CreatorMoney ==
    ASSUME LedgerInv, LedgerInv', [Next]_vars, NEW g \in Groups, CreatorStep(g)
    PROVE  \/ NoMoneyMoves
           \/ MoneyEffect(g) /\ \A h \in Groups : h # g => Keeps(h)
<1>1. TypeOK
  BY DEF LedgerInv, MembershipInv
<1>2. ASSUME NEW pairs \in PairLists, NEW mint_writable \in BOOLEAN,
             EmergencyCancel(g, pairs, mint_writable)
      PROVE  MoneyEffect(g) /\ \A h \in Groups : h # g => Keeps(h)
  BY <1>2, SettleMoney DEF EmergencyCancel, CancelChecks, MoneyEffect
<1>3. ASSUME NEW authority \in Keys, SetJoinAuthority(g, authority)
      PROVE  NoMoneyMoves
  BY <1>3, AllKeep DEF SetJoinAuthority
<1>4. ASSUME StartCycle(g)
      PROVE  NoMoneyMoves
  <2>1. UNCHANGED <<vault, record, tokens>>
    BY <1>4 DEF StartCycle
  <2>2. group[g] \in GroupConfig /\ group[g].status = "Open"
    BY <1>1, <1>4 DEF TypeOK, StartCycle, Exists
  <2>3. /\ group'[g].status = "Active" /\ group'[g].mint = group[g].mint
        /\ \A h \in Groups : h # g => group'[h] = group[h]
    BY <1>1, <1>4, <2>2 DEF TypeOK, StartCycle, GroupConfig
  <2>4. Exists(group[g]) /\ Exists(group'[g])
    BY <1>1, <1>4, StartEffect, NoneAssumption DEF StartCycle, Started, Exists
  <2>5. Unsettled(g) /\ Unsettled(g)'
    BY <2>2, <2>3, <2>4 DEF Unsettled, Settled
  <2> QED
    BY <2>1, <2>3, <2>5, QuietKeeps
<1>5. ASSUME Create(g)
      PROVE  MoneyEffect(g) /\ \A h \in Groups : h # g => Keeps(h)
  BY <1>5, CreateMoney DEF MoneyEffect
<1> QED
  BY <1>2, <1>3, <1>4, <1>5 DEF CreatorStep

LEMMA EnvironmentMoney ==
    ASSUME LedgerInv, LedgerInv', Environment
    PROVE  \/ NoMoneyMoves
           \/ \E g \in Groups :
                MoneyEffect(g) /\ \A h \in Groups : h # g => Keeps(h)
<1>1. TypeOK
  BY DEF LedgerInv, MembershipInv
<1>2. CASE UNCHANGED <<group, vault, record, tokens>>
  BY <1>2, AllKeep
<1>3. ASSUME NEW g \in Groups, NEW a \in TokenAccounts, DonateTokens(g, a)
      PROVE  MoneyEffect(g) /\ \A h \in Groups : h # g => Keeps(h)
  BY <1>3, DonateMoney DEF MoneyEffect
<1>4. ASSUME NEW g \in Groups, NEW payer \in Payers, NEW amount \in 1..MaxTopUp,
             TopUp(g, payer, amount)
      PROVE  NoMoneyMoves
  <2>1. UNCHANGED <<vault, record, tokens>>
    BY <1>4 DEF TopUp
  <2>2. group[g] \in GroupConfig /\ Exists(group[g])
    BY <1>1, <1>4 DEF TypeOK, TopUp, Exists
  <2>3. /\ group'[g].status = group[g].status /\ group'[g].mint = group[g].mint
        /\ \A h \in Groups : h # g => group'[h] = group[h]
    BY <1>1, <1>4, <2>2 DEF TypeOK, TopUp, GroupConfig
  <2>4. Exists(group'[g])
    <3>1. group[g].lamports + amount \in Nat
      BY <2>2, AmountAssumption DEF GroupConfig
    <3>2. now' = now /\ group' = [group EXCEPT ![g].lamports = group[g].lamports + amount]
      BY <1>4 DEF TopUp
    <3> QED
      BY <1>1, <2>2, <3>1, <3>2, LamportsEffect, NoneAssumption DEF Kept, Exists
  <2>5. Unsettled(g)' <=> Unsettled(g)
    BY <2>2, <2>3, <2>4 DEF Unsettled, Settled
  <2> QED
    BY <2>1, <2>3, <2>5, QuietKeeps
<1> QED
  BY <1>2, <1>3, <1>4 DEF Environment, Tick, ChangeRentRate, Freeze, Thaw

\* A step moves no tokens, or moves them for one group in one of these ways.
LEMMA MoneyStep ==
    ASSUME LedgerInv, [Next]_vars
    PROVE  \/ NoMoneyMoves
           \/ \E g \in Groups :
                MoneyEffect(g) /\ \A h \in Groups : h # g => Keeps(h)
<1>1. LedgerInv'
  BY NextLedgerInv
<1>2. ASSUME NEW g \in Groups, NEW amount \in U64, NEW m \in Members,
             NEW a \in TokenAccounts, PaysIn(g, m, a, amount)
      PROVE  MoneyEffect(g)
  BY <1>2, AmountAssumption DEF MoneyEffect, U64
<1>3. ASSUME NEW g \in Groups, group[g] \in GroupConfig
      PROVE  group[g].deposit_amount \in U64
  BY <1>3 DEF GroupConfig
<1>4. ASSUME NEW g \in Groups, Join(g)
      PROVE  MoneyEffect(g) /\ \A h \in Groups : h # g => Keeps(h)
  <2>1. PICK m \in Members, payer \in Payers, account \in TokenAccounts,
             authority \in Keys \cup {None}, durable \in BOOLEAN,
             terms \in OfferedTerms, expected \in U32 \cup {None} :
               JoinGroup(g, m, payer, account, authority, durable, terms, expected)
    BY <1>4 DEF Join
  <2>2. group[g] \in GroupConfig
    BY <2>1, JoinRecord DEF LedgerInv, MembershipInv, FirstDeposit
  <2> QED
    BY <1>1, <1>2, <1>3, <2>1, <2>2, JoinMoney
<1>5. ASSUME NEW g \in Groups, LeaveOrDeposit(g)
      PROVE  MoneyEffect(g) /\ \A h \in Groups : h # g => Keeps(h)
  <2>1. ASSUME NEW m \in Members, NEW a \in TokenAccounts, LeaveGroup(g, m, a)
        PROVE  MoneyEffect(g) /\ \A h \in Groups : h # g => Keeps(h)
    BY <1>1, <2>1, LeaveMoney DEF MoneyEffect
  <2>2. ASSUME NEW m \in Members, NEW a \in TokenAccounts, Deposit(g, m, a)
        PROVE  MoneyEffect(g) /\ \A h \in Groups : h # g => Keeps(h)
    <3>1. group[g] \in GroupConfig
      BY <2>2, DepositNext DEF LedgerInv, MembershipInv, NextDeposit
    <3> QED
      BY <1>1, <1>2, <1>3, <2>2, <3>1, DepositMoney
  <2> QED
    BY <1>5, <2>1, <2>2 DEF LeaveOrDeposit
<1>6. CASE UNCHANGED vars
  BY <1>6, AllKeep DEF vars
<1> QED
  BY <1>1, <1>4, <1>5, <1>6, CrankMoney, CreatorMoney, EnvironmentMoney DEF Next

------------------------------------------------------------------------------
(* A vault backs the deposits of its group                                 *)

HeldMap(g) == [m \in Members |-> HeldAt(g, m)]
HeldIn(g) == SumFunctionOnSet(HeldMap(g), Members)
BacksAt(g) == PotAt(g) >= HeldIn(g)
VaultsBack == \A g \in Groups : BacksAt(g)

LEMMA MoneyType ==
    ASSUME LedgerInv, NEW g \in Groups
    PROVE  /\ PotAt(g) \in Nat
           /\ \A m \in Members : HeldAt(g, m) \in Nat
           /\ Unsettled(g) => Exists(vault[g]) /\ vault[g] \in Vault
                              /\ group[g] \in GroupConfig
           /\ MintAt(g) \in Mints \cup {None}
           /\ Unsettled(g) <=> MintAt(g) # None
<1>1. Unsettled(g) => /\ Exists(vault[g]) /\ vault[g] \in Vault
                      /\ group[g] \in GroupConfig
  BY DEF LedgerInv, MembershipInv, TypeOK, GroupInv, Unsettled, Exists
<1>2. PotAt(g) \in Nat
  BY <1>1, AmountAssumption DEF PotAt, Vault, U64
<1>3. ASSUME NEW m \in Members
      PROVE  HeldAt(g, m) \in Nat
  <2>1. Exists(record[<<g, m>>]) => record[<<g, m>>] \in MemberRecord
    BY DEF LedgerInv, MembershipInv, TypeOK, Exists, Pdas
  <2> QED
    BY <2>1, AmountAssumption DEF HeldAt, MemberRecord, U64
<1>4. None \notin Mints
  BY AddressAssumption
<1>5. MintAt(g) \in Mints \cup {None} /\ (Unsettled(g) <=> MintAt(g) # None)
  BY <1>1, <1>4 DEF MintAt, GroupConfig
<1> QED
  BY <1>1, <1>2, <1>3, <1>5

MoneyNats ==
    \A g \in Groups : /\ PotAt(g) \in Nat
                      /\ \A m \in Members : HeldAt(g, m) \in Nat

LEMMA MoneyNat == LedgerInv => MoneyNats
BY MoneyType DEF MoneyNats

LEMMA MoneyNatNext == LedgerInv' => MoneyNats'
BY MoneyNat, PTL

LEMMA HeldInNat ==
    ASSUME LedgerInv, NEW g \in Groups
    PROVE  HeldIn(g) \in Nat
<1> DEFINE f == HeldMap(g)
<1>1. IsFiniteSet(Members) /\ \A m \in Members : f[m] \in Nat
  BY MoneyType, AddressAssumption DEF HeldMap
<1> HIDE DEF f
<1>2. SumFunctionOnSet(f, Members) \in Nat
  BY <1>1, SumNat
<1> QED
  BY <1>2 DEF f, HeldIn

\* The deposits of an unsettled group are what its members hold in it.
LEMMA DepositedIsHeld ==
    ASSUME LedgerInv, NEW g \in Groups, Unsettled(g)
    PROVE  Deposited(g) = HeldIn(g)
<1>1. HeldMap(g) = Share(record, g)
  BY DEF HeldMap, HeldAt, Share
<1> QED
  BY <1>1, DepositedIsShares DEF HeldIn, LedgerInv, MembershipInv

LEMMA NothingHeld ==
    ASSUME NEW f, \A m \in Members : f[m] = 0
    PROVE  SumFunctionOnSet(f, Members) = 0
<1>1. /\ IsFiniteSet(Members) /\ {} \in SUBSET Members
      /\ \A m \in {} : f[m] \in Int
      /\ \A m \in Members \ {} : f[m] = 0
  BY AddressAssumption
<1>2. SumFunctionOnSet(f, Members) = SumFunctionOnSet(f, {})
  BY <1>1, SumZeros
<1> QED
  BY <1>2, SumEmpty

\* A step that changes what one member holds in a group.
LEMMA HeldChange ==
    ASSUME LedgerInv, LedgerInv', NEW g \in Groups, NEW m \in Members,
           \A n \in Members : n # m => HeldAt(g, n)' = HeldAt(g, n)
    PROVE  HeldIn(g)' = HeldIn(g) - HeldAt(g, m) + HeldAt(g, m)'
<1> DEFINE f == HeldMap(g)
           e == HeldMap(g)'
<1>1. /\ IsFiniteSet(Members)
      /\ \A n \in Members : f[n] \in Int /\ f[n] = HeldAt(g, n)
  BY MoneyType, AddressAssumption DEF HeldMap
<1>2. /\ e[m] \in Int /\ e[m] = HeldAt(g, m)'
      /\ \A n \in Members \ {m} : e[n] = f[n]
  <2>1. \A n \in Members : e[n] = HeldAt(g, n)'
    BY DEF HeldMap
  <2>2. HeldAt(g, m)' \in Nat
    BY MoneyNatNext DEF MoneyNats
  <2> QED
    BY <2>1, <2>2 DEF HeldMap
<1>3. HeldIn(g)' = SumFunctionOnSet(e, Members) /\ HeldIn(g) = SumFunctionOnSet(f, Members)
  BY DEF HeldIn
<1> HIDE DEF f, e
<1>4. SumFunctionOnSet(e, Members) = SumFunctionOnSet(f, Members) - f[m] + e[m]
  BY <1>1, <1>2, SumUpdate
<1> QED
  BY <1>1, <1>2, <1>3, <1>4

LEMMA BacksStep ==
    ASSUME LedgerInv, VaultsBack, [Next]_vars
    PROVE  VaultsBack'
<1> SUFFICES ASSUME NEW h \in Groups
             PROVE  BacksAt(h)'
  BY DEF VaultsBack
<1>1. LedgerInv' /\ BacksAt(h)
  BY NextLedgerInv DEF VaultsBack
<1>2. PotAt(h) \in Nat /\ HeldIn(h) \in Nat /\ PotAt(h) >= HeldIn(h)
  BY <1>1, MoneyType, HeldInNat DEF BacksAt
<1>3. ASSUME \A m \in Members : HeldAt(h, m)' = HeldAt(h, m)
      PROVE  HeldIn(h)' = HeldIn(h)
  <2>1. HeldMap(h)' = HeldMap(h)
    BY <1>3 DEF HeldMap
  <2> QED
    BY <2>1 DEF HeldIn
<1>4. CASE Keeps(h)
  BY <1>1, <1>3, <1>4 DEF Keeps, BacksAt
<1>5. ASSUME \A m \in Members : HeldAt(h, m)' = 0, PotAt(h)' = 0
      PROVE  BacksAt(h)'
  <2>1. \A m \in Members : (HeldMap(h)')[m] = 0
    BY <1>5 DEF HeldMap
  <2>2. HeldIn(h)' = 0
    BY <2>1, NothingHeld DEF HeldIn
  <2> QED
    BY <1>5, <2>2 DEF BacksAt
<1>6. CASE Opens(h)
  BY <1>5, <1>6 DEF Opens
<1>7. ASSUME NEW m \in Members, NEW a \in TokenAccounts, NEW amount \in Nat,
             PaysIn(h, m, a, amount)
      PROVE  BacksAt(h)'
  <2>1. HeldIn(h)' = HeldIn(h) - HeldAt(h, m) + HeldAt(h, m)'
    BY <1>1, <1>7, HeldChange DEF PaysIn
  <2>2. HeldAt(h, m) \in Nat
    BY MoneyType
  <2> QED
    BY <1>2, <1>7, <2>1, <2>2 DEF PaysIn, BacksAt
<1>8. ASSUME NEW a \in TokenAccounts, Gives(h, a)
      PROVE  BacksAt(h)'
  BY <1>2, <1>3, <1>8 DEF Gives, BacksAt
<1>9. ASSUME NEW m \in Members, NEW a \in TokenAccounts, Withdraws(h, m, a)
      PROVE  BacksAt(h)'
  <2>1. HeldIn(h)' = HeldIn(h) - HeldAt(h, m) + HeldAt(h, m)'
    BY <1>1, <1>9, HeldChange DEF Withdraws
  <2>2. HeldAt(h, m) \in Nat
    BY MoneyType
  <2> QED
    BY <1>2, <1>9, <2>1, <2>2 DEF Withdraws, BacksAt
<1>10. ASSUME NEW pairs, NEW burned, PaysBack(h, pairs, burned)
       PROVE  BacksAt(h)'
  BY <1>5, <1>10 DEF PaysBack, PotAt, HeldAt
<1>11. MoneyEffect(h) => BacksAt(h)'
  BY <1>6, <1>7, <1>8, <1>9, <1>10 DEF MoneyEffect
<1> QED
  BY <1>4, <1>11, MoneyStep DEF NoMoneyMoves

LEMMA Backing == Spec => [](LedgerInv /\ VaultsBack)
<1>1. Init => VaultsBack
  <2> SUFFICES ASSUME Init, NEW g \in Groups
               PROVE  BacksAt(g)
    BY DEF VaultsBack
  <2>1. ~Unsettled(g)
    BY DEF Init, Unsettled, Exists
  <2>2. PotAt(g) = 0 /\ \A m \in Members : HeldMap(g)[m] = 0
    BY <2>1 DEF PotAt, HeldMap, HeldAt
  <2>3. HeldIn(g) = 0
    BY <2>2, NothingHeld DEF HeldIn
  <2> QED
    BY <2>2, <2>3 DEF BacksAt
<1>2. LedgerInv /\ VaultsBack /\ [Next]_vars => VaultsBack'
  BY BacksStep
<1> QED
  BY <1>1, <1>2, Ledger, PTL DEF Spec

\* Neither settlement nor a leave ever meets a shortfall: whatever the members
\* do, the vault of an unsettled group holds what its records add up to, and a
\* settled group has no vault.
THEOREM VaultsAreWhole == Spec => []VaultBacksDeposits
<1>1. LedgerInv /\ VaultsBack => VaultBacksDeposits
  <2> SUFFICES ASSUME LedgerInv, VaultsBack, NEW g \in Groups, Exists(group[g])
               PROVE  IF Settled(g) THEN ~Exists(vault[g])
                      ELSE Exists(vault[g]) /\ vault[g].amount >= Deposited(g)
    BY DEF VaultBacksDeposits
  <2>1. Exists(vault[g]) <=> ~Settled(g)
    BY DEF LedgerInv, MembershipInv, GroupInv
  <2>2. ASSUME ~Settled(g)
        PROVE  vault[g].amount >= Deposited(g)
    <3>1. Unsettled(g)
      BY <2>2 DEF Unsettled
    <3>2. Deposited(g) = HeldIn(g) /\ BacksAt(g)
      BY <3>1, DepositedIsHeld DEF VaultsBack
    <3> QED
      BY <3>1, <3>2 DEF BacksAt, PotAt
  <2> QED
    BY <2>1, <2>2
<1> QED
  BY <1>1, Backing, PTL

------------------------------------------------------------------------------
(* A list that passes the checks of settlement names every member once     *)

Who(pairs) == [i \in DOMAIN pairs |-> pairs[i].record[2]]

LEMMA PairListDomain ==
    ASSUME NEW pairs \in PairLists
    PROVE  /\ Len(pairs) \in Nat /\ DOMAIN pairs = 1..Len(pairs)
           /\ IsFiniteSet(DOMAIN pairs)
           /\ \A i \in DOMAIN pairs :
                pairs[i].record \in Pdas /\ pairs[i].account \in TokenAccounts
<1>1. Cardinality(Members) \in Nat
  BY AddressAssumption, FS_CardinalityType
<1>2. PICK n \in 0..Cardinality(Members) :
             pairs \in [1..n -> [record : Pdas, account : TokenAccounts]]
  BY DEF PairLists
<1>3. n \in Nat
  BY <1>1
<1>4. Len(pairs) = n
  BY <1>2, <1>3
<1>5. IsFiniteSet(1..n)
  <2>1. 1 \in Int /\ n \in Int
    BY <1>3
  <2> QED
    BY <2>1, FS_Interval
<1> QED
  BY <1>2, <1>3, <1>4, <1>5

NamesAll(g, pairs) == Len(pairs) = group[g].current_members /\ ValidPairs(g, pairs)

LEMMA NamedOnce ==
    ASSUME LedgerInv, NEW g \in Groups, Unsettled(g), NEW pairs \in PairLists,
           NamesAll(g, pairs)
    PROVE  /\ Len(pairs) = Cardinality(Joined(g))
           /\ \A i \in DOMAIN pairs :
                /\ pairs[i].record = <<g, Who(pairs)[i]>>
                /\ Who(pairs)[i] \in Joined(g)
                /\ OwnerOf[pairs[i].account] = Who(pairs)[i]
                /\ MintOf[pairs[i].account] = group[g].mint
           /\ \A i, j \in DOMAIN pairs : Who(pairs)[i] = Who(pairs)[j] => i = j
           /\ \A m \in Joined(g) : \E i \in DOMAIN pairs : Who(pairs)[i] = m
<1> DEFINE n == Len(pairs)
           who == Who(pairs)
<1>1. /\ n \in Nat /\ DOMAIN pairs = 1..n /\ IsFiniteSet(1..n)
      /\ \A i \in DOMAIN pairs : pairs[i].record \in Pdas
  BY PairListDomain
<1>2. n = Cardinality(Joined(g)) /\ ValidPairs(g, pairs)
  BY DEF LedgerInv, MembershipInv, GroupInv, Unsettled, NamesAll
<1>3. ASSUME NEW i \in DOMAIN pairs
      PROVE  /\ pairs[i].record = <<g, who[i]>>
             /\ who[i] \in Joined(g)
             /\ OwnerOf[pairs[i].account] = who[i]
             /\ MintOf[pairs[i].account] = group[g].mint
  <2>1. pairs[i].record[1] = g /\ Exists(record[pairs[i].record])
    BY <1>2 DEF ValidPairs
  <2>2. who[i] = pairs[i].record[2]
    BY DEF Who
  <2>3. pairs[i].record = <<g, who[i]>> /\ who[i] \in Members
    BY <1>1, <2>1, <2>2 DEF Pdas
  <2>4. OwnAccount(pairs[i].account, g, who[i])
    BY <1>2, <2>2 DEF ValidPairs
  <2> QED
    BY <2>1, <2>3, <2>4 DEF Joined, OwnAccount
<1>4. ASSUME NEW i \in DOMAIN pairs, NEW j \in DOMAIN pairs, who[i] = who[j]
      PROVE  i = j
  <2>1. pairs[i].record = pairs[j].record
    BY <1>3, <1>4
  <2>2. \A k \in 1..(i - 1) : pairs[k].record # pairs[i].record
    BY <1>2 DEF ValidPairs
  <2>3. \A k \in 1..(j - 1) : pairs[k].record # pairs[j].record
    BY <1>2 DEF ValidPairs
  <2>4. i \in 1..n /\ j \in 1..n
    BY <1>1
  <2>5. ~(i < j) /\ ~(j < i)
    <3>1. i < j => i \in 1..(j - 1)
      BY <1>1, <2>4
    <3>2. j < i => j \in 1..(i - 1)
      BY <1>1, <2>4
    <3> QED
      BY <2>1, <2>2, <2>3, <3>1, <3>2
  <2> QED
    BY <1>1, <2>4, <2>5
<1> HIDE DEF n, who
<1>5. who \in [1..n -> Joined(g)]
  <2>1. who = [i \in 1..n |-> pairs[i].record[2]]
    BY <1>1 DEF who, Who
  <2> QED
    BY <1>1, <1>3, <2>1
<1>6. who \in Injection(1..n, Joined(g))
  BY <1>1, <1>4, <1>5 DEF Injection, IsInjective
<1>7. Cardinality(1..n) = n
  <2>1. 1 \in Int /\ n \in Int
    BY <1>1
  <2>2. Cardinality(1..n) = IF 1 > n THEN 0 ELSE n - 1 + 1
    BY <2>1, FS_Interval
  <2> QED
    BY <1>1, <2>2
<1>8. who \in Surjection(1..n, Joined(g))
  <2>1. IsFiniteSet(Joined(g)) /\ Cardinality(1..n) = Cardinality(Joined(g))
    BY <1>2, <1>7, JoinedFinite DEF n
  <2> QED
    BY <1>6, <2>1, FS_Injection
<1>9. \A m \in Joined(g) : \E i \in 1..n : who[i] = m
  BY <1>8 DEF Surjection
<1> QED
  BY <1>1, <1>2, <1>3, <1>4, <1>9 DEF who, n

\* So a sum over the pairs of one member has one term, or none.
LEMMA SumPerNamed ==
    ASSUME LedgerInv, NEW g \in Groups, Unsettled(g), NEW pairs \in PairLists,
           NamesAll(g, pairs), NEW f, \A i \in DOMAIN pairs : f[i] \in Int,
           NEW m \in Members
    PROVE  LET its == {i \in DOMAIN pairs : Who(pairs)[i] = m} IN
           /\ \A i \in DOMAIN pairs :
                Who(pairs)[i] = m => SumFunctionOnSet(f, its) = f[i]
           /\ m \notin Joined(g) => SumFunctionOnSet(f, its) = 0
<1> DEFINE its == {i \in DOMAIN pairs : Who(pairs)[i] = m}
<1>1. ASSUME NEW i \in DOMAIN pairs, Who(pairs)[i] = m
      PROVE  SumFunctionOnSet(f, its) = f[i]
  <2>1. its = {i}
    BY <1>1, NamedOnce
  <2> QED
    BY <2>1, SumOne
<1>2. ASSUME m \notin Joined(g)
      PROVE  SumFunctionOnSet(f, its) = 0
  <2>1. its = {}
    BY <1>2, NamedOnce
  <2> QED
    BY <2>1, SumEmpty
<1> QED
  BY <1>1, <1>2

\* The sum that settlement compares with the vault is the group's deposits.
LEMMA NamedIsHeld ==
    ASSUME LedgerInv, NEW g \in Groups, Unsettled(g), NEW pairs \in PairLists,
           NamesAll(g, pairs)
    PROVE  /\ Listed(pairs) = HeldIn(g)
           /\ \A i \in DOMAIN pairs :
                record[pairs[i].record].total_deposited = HeldAt(g, Who(pairs)[i])
<1> DEFINE f == [i \in DOMAIN pairs |-> record[pairs[i].record].total_deposited]
           p == Who(pairs)
           h == HeldMap(g)
           I == DOMAIN pairs
<1>1. \A i \in I : pairs[i].record = <<g, p[i]>> /\ p[i] \in Joined(g)
  BY NamedOnce
<1>2. \A i \in I : f[i] = HeldAt(g, p[i])
  BY <1>1 DEF HeldAt, Joined
<1>3. \A i \in I : f[i] \in Int /\ p[i] \in Members
  <2>1. \A m \in Members : HeldAt(g, m) \in Nat
    BY MoneyType
  <2>2. \A i \in I : p[i] \in Members
    BY <1>1 DEF Joined
  <2> HIDE DEF f, p, I
  <2> QED
    BY <1>2, <2>1, <2>2
<1>4. ASSUME NEW m \in Members
      PROVE  h[m] = SumFunctionOnSet(f, {i \in I : p[i] = m})
  <2>1. h[m] = HeldAt(g, m)
    BY DEF HeldMap
  <2>2. CASE m \in Joined(g)
    <3>1. PICK i \in I : p[i] = m
      BY <2>2, NamedOnce
    <3>2. SumFunctionOnSet(f, {j \in I : p[j] = m}) = f[i]
      <4> HIDE DEF f
      <4> QED
        BY <1>3, <3>1, SumPerNamed
    <3> QED
      BY <1>2, <2>1, <3>1, <3>2
  <2>3. CASE m \notin Joined(g)
    <3>1. SumFunctionOnSet(f, {j \in I : p[j] = m}) = 0
      <4> HIDE DEF f
      <4> QED
        BY <1>3, <2>3, SumPerNamed
    <3>2. HeldAt(g, m) = 0
      BY <2>3 DEF HeldAt, Joined
    <3> QED
      BY <2>1, <3>1, <3>2
  <2> QED
    BY <2>2, <2>3
<1>5. IsFiniteSet(I) /\ IsFiniteSet(Members)
  BY PairListDomain, AddressAssumption
<1>6. Listed(pairs) = SumFunctionOnSet(f, I)
  BY DEF Listed, SumFunction
<1> HIDE DEF f, p, h, I
<1>7. SumFunctionOnSet(h, Members) = SumFunctionOnSet(f, I)
  <2>1. SumsByValue(h, Members, f, I, p)
    BY <1>4 DEF SumsByValue
  <2> QED
    BY <1>3, <1>5, <2>1, SumFibres
<1>8. Listed(pairs) = HeldIn(g)
  BY <1>6, <1>7 DEF h, HeldIn
<1> QED
  BY <1>2, <1>8 DEF f, p, I

\* The same for the lists that settlement accepts.
LEMMA ChecksNameAll ==
    ASSUME NEW g, NEW pairs, SettlementChecks(g, pairs)
    PROVE  NamesAll(g, pairs)
BY DEF SettlementChecks, NamesAll

LEMMA ListCovers ==
    ASSUME LedgerInv, NEW g \in Groups, Unsettled(g), NEW pairs \in PairLists,
           SettlementChecks(g, pairs)
    PROVE  /\ Len(pairs) = Cardinality(Joined(g))
           /\ \A i \in DOMAIN pairs :
                /\ pairs[i].record = <<g, Who(pairs)[i]>>
                /\ Who(pairs)[i] \in Joined(g)
                /\ OwnerOf[pairs[i].account] = Who(pairs)[i]
                /\ MintOf[pairs[i].account] = group[g].mint
           /\ \A i, j \in DOMAIN pairs : Who(pairs)[i] = Who(pairs)[j] => i = j
           /\ \A m \in Joined(g) : \E i \in DOMAIN pairs : Who(pairs)[i] = m
BY NamedOnce DEF SettlementChecks, NamesAll

LEMMA ListedIsHeld ==
    ASSUME LedgerInv, NEW g \in Groups, Unsettled(g), NEW pairs \in PairLists,
           SettlementChecks(g, pairs)
    PROVE  /\ Listed(pairs) = HeldIn(g)
           /\ \A i \in DOMAIN pairs :
                record[pairs[i].record].total_deposited = HeldAt(g, Who(pairs)[i])
BY NamedIsHeld DEF SettlementChecks, NamesAll

\* What settlement pays a member: what it holds, and the last one the rest.
LEMMA PayoutIsHeld ==
    ASSUME LedgerInv, NEW g \in Groups, Unsettled(g), NEW pairs \in PairLists,
           SettlementChecks(g, pairs), NEW i \in DOMAIN pairs
    PROVE  /\ Payout(g, pairs, i) =
                HeldAt(g, Who(pairs)[i])
                + (IF i = Len(pairs) THEN PotAt(g) - HeldIn(g) ELSE 0)
           /\ Payout(g, pairs, i) \in Nat
<1>1. Listed(pairs) = HeldIn(g) /\ vault[g].amount >= Listed(pairs)
  BY ListedIsHeld DEF SettlementChecks
<1>2. record[pairs[i].record].total_deposited = HeldAt(g, Who(pairs)[i])
  BY ListedIsHeld
<1>3. PotAt(g) = vault[g].amount /\ PotAt(g) \in Nat /\ HeldIn(g) \in Nat
  BY MoneyType, HeldInNat DEF PotAt
<1>4. HeldAt(g, Who(pairs)[i]) \in Nat
  BY ListCovers, MoneyType DEF Joined
<1> QED
  BY <1>1, <1>2, <1>3, <1>4 DEF Payout

------------------------------------------------------------------------------
(* What settlement pays                                                    *)

Accounts(m, k) == {a \in TokenAccounts : OwnerOf[a] = m /\ MintOf[a] = k}
MintAccounts(k) == {a \in TokenAccounts : MintOf[a] = k}
Payouts(g, pairs) == [i \in DOMAIN pairs |-> Payout(g, pairs, i)]
Credits(g, pairs) == [a \in TokenAccounts |-> Credit(g, pairs, a)]
Lucky(pairs) == IF Len(pairs) = 0 THEN None ELSE Who(pairs)[Len(pairs)]

LEMMA CreditIsPayouts ==
    ASSUME LedgerInv, NEW g \in Groups, Unsettled(g), NEW pairs \in PairLists,
           SettlementChecks(g, pairs)
    PROVE  /\ \A i \in DOMAIN pairs : Payouts(g, pairs)[i] \in Nat
           /\ Paid(g, pairs, DOMAIN pairs) = SumFunctionOnSet(Payouts(g, pairs), DOMAIN pairs)
           /\ \A a \in TokenAccounts :
                /\ Credits(g, pairs)[a] =
                     SumFunctionOnSet(Payouts(g, pairs),
                                      {i \in DOMAIN pairs : pairs[i].account = a})
                /\ Credits(g, pairs)[a] \in Nat
<1> DEFINE f == Payouts(g, pairs)
<1>1. \A i \in DOMAIN pairs : f[i] \in Nat
  BY PayoutIsHeld DEF Payouts
<1>2. ASSUME NEW I \in SUBSET (DOMAIN pairs)
      PROVE  /\ Paid(g, pairs, I) = SumFunctionOnSet(f, I)
             /\ SumFunctionOnSet(f, I) \in Nat
  <2> DEFINE e == [i \in I |-> Payout(g, pairs, i)]
  <2>1. IsFiniteSet(I)
    BY PairListDomain, FS_Subset
  <2>2. Paid(g, pairs, I) = SumFunctionOnSet(e, I)
    BY DEF Paid, SumFunction
  <2>3. \A i \in I : e[i] = f[i]
    BY DEF Payouts
  <2> HIDE DEF e, f
  <2>4. SumFunctionOnSet(e, I) = SumFunctionOnSet(f, I)
    BY <2>1, <2>3, SumSame
  <2>5. \A i \in I : f[i] \in Nat
    BY <1>1
  <2>6. SumFunctionOnSet(f, I) \in Nat
    BY <2>1, <2>5, SumNat
  <2> QED
    BY <2>2, <2>4, <2>6
<1>3. ASSUME NEW a \in TokenAccounts
      PROVE  LET I == {i \in DOMAIN pairs : pairs[i].account = a} IN
             /\ Credits(g, pairs)[a] = SumFunctionOnSet(f, I)
             /\ Credits(g, pairs)[a] \in Nat
  <2> DEFINE I == {i \in DOMAIN pairs : pairs[i].account = a}
  <2>1. Credits(g, pairs)[a] = Paid(g, pairs, I) /\ I \in SUBSET (DOMAIN pairs)
    BY DEF Credits, Credit
  <2> QED
    BY <1>2, <2>1
<1> QED
  BY <1>1, <1>2, <1>3

\* Whatever accounts the caller chose, a member's accounts receive exactly what
\* the member holds, and those of the member listed last the rest too.
LEMMA CreditOfMember ==
    ASSUME LedgerInv, NEW g \in Groups, Unsettled(g), NEW pairs \in PairLists,
           SettlementChecks(g, pairs), NEW m \in Members
    PROVE  SumFunctionOnSet(Credits(g, pairs), Accounts(m, group[g].mint)) =
             HeldAt(g, m)
             + (IF m = Lucky(pairs) THEN PotAt(g) - HeldIn(g) ELSE 0)
<1> DEFINE f == Payouts(g, pairs)
           c == Credits(g, pairs)
           A == Accounts(m, group[g].mint)
           I == {i \in DOMAIN pairs : Who(pairs)[i] = m}
           p == [i \in DOMAIN pairs |-> pairs[i].account]
<1>1. IsFiniteSet(A) /\ IsFiniteSet(I) /\ A \subseteq TokenAccounts
  <2>1. A \in SUBSET TokenAccounts /\ I \in SUBSET (DOMAIN pairs)
    BY DEF Accounts
  <2>2. IsFiniteSet(TokenAccounts) /\ IsFiniteSet(DOMAIN pairs)
    BY PairListDomain, AddressAssumption
  <2> QED
    BY <2>1, <2>2, FS_Subset
<1>2. \A i \in I : f[i] \in Int /\ p[i] \in A
  <2>1. \A i \in DOMAIN pairs : f[i] \in Int
    BY CreditIsPayouts
  <2>2. \A i \in I : p[i] \in A
    BY ListCovers, PairListDomain DEF Accounts
  <2> QED
    BY <2>1, <2>2
<1>3. SumsByValue(c, A, f, I, p)
  <2> SUFFICES ASSUME NEW a \in A
               PROVE  c[a] = SumFunctionOnSet(f, {i \in I : p[i] = a})
    BY DEF SumsByValue
  <2>1. {i \in I : p[i] = a} = {i \in DOMAIN pairs : pairs[i].account = a}
    BY ListCovers DEF Accounts
  <2>2. c[a] = SumFunctionOnSet(f, {i \in DOMAIN pairs : pairs[i].account = a})
    BY <1>1, CreditIsPayouts
  <2> QED
    BY <2>1, <2>2
<1>4. SumFunctionOnSet(c, A) = SumFunctionOnSet(f, I)
  <2> HIDE DEF c, A, f, I, p
  <2> QED
    BY <1>1, <1>2, <1>3, SumFibres
<1>5. \A i \in DOMAIN pairs : f[i] \in Int
  BY CreditIsPayouts
<1>6. CASE m \in Joined(g)
  <2>1. PICK i \in DOMAIN pairs : Who(pairs)[i] = m
    BY <1>6, ListCovers
  <2>2. SumFunctionOnSet(f, I) = f[i]
    <3> HIDE DEF f
    <3> QED
      BY <1>5, <2>1, ChecksNameAll, SumPerNamed
  <2>3. f[i] = HeldAt(g, m) + (IF i = Len(pairs) THEN PotAt(g) - HeldIn(g) ELSE 0)
    BY <2>1, PayoutIsHeld DEF Payouts
  <2>4. i = Len(pairs) <=> m = Lucky(pairs)
    <3>1. Len(pairs) \in DOMAIN pairs /\ Len(pairs) # 0
      BY PairListDomain
    <3> QED
      BY <2>1, <3>1, ListCovers DEF Lucky
  <2>5. SumFunctionOnSet(c, A) =
          HeldAt(g, m) + (IF m = Lucky(pairs) THEN PotAt(g) - HeldIn(g) ELSE 0)
    <3> HIDE DEF f, I, c, A
    <3> QED
      BY <1>4, <2>2, <2>3, <2>4
  <2> QED
    BY <2>5
<1>7. CASE m \notin Joined(g)
  <2>1. SumFunctionOnSet(f, I) = 0
    <3> HIDE DEF f
    <3> QED
      BY <1>5, <1>7, ChecksNameAll, SumPerNamed
  <2>2. HeldAt(g, m) = 0
    BY <1>7 DEF HeldAt, Joined
  <2>3. m # Lucky(pairs)
    <3>1. m # None
      BY AddressAssumption
    <3>2. Len(pairs) # 0 => Len(pairs) \in DOMAIN pairs
      BY PairListDomain
    <3> QED
      BY <1>7, <3>1, <3>2, ListCovers DEF Lucky
  <2>4. SumFunctionOnSet(c, A) =
          HeldAt(g, m) + (IF m = Lucky(pairs) THEN PotAt(g) - HeldIn(g) ELSE 0)
    <3> HIDE DEF f, I, c, A
    <3> QED
      BY <1>4, <2>1, <2>2, <2>3
  <2> QED
    BY <2>4
<1> QED
  BY <1>6, <1>7

LEMMA NoCreditOfOtherMint ==
    ASSUME LedgerInv, NEW g \in Groups, Unsettled(g), NEW pairs \in PairLists,
           SettlementChecks(g, pairs), NEW a \in TokenAccounts,
           MintOf[a] # group[g].mint
    PROVE  Credits(g, pairs)[a] = 0
<1>1. {i \in DOMAIN pairs : pairs[i].account = a} = {}
  BY ListCovers
<1> QED
  BY <1>1, CreditIsPayouts, SumEmpty

LEMMA CreditOfMint ==
    ASSUME LedgerInv, NEW g \in Groups, Unsettled(g), NEW pairs \in PairLists,
           SettlementChecks(g, pairs)
    PROVE  SumFunctionOnSet(Credits(g, pairs), MintAccounts(group[g].mint)) =
             Paid(g, pairs, DOMAIN pairs)
<1> DEFINE f == Payouts(g, pairs)
           c == Credits(g, pairs)
           A == MintAccounts(group[g].mint)
           I == DOMAIN pairs
           p == [i \in DOMAIN pairs |-> pairs[i].account]
<1>1. IsFiniteSet(A) /\ IsFiniteSet(I) /\ A \subseteq TokenAccounts
  <2>1. A \in SUBSET TokenAccounts
    BY DEF MintAccounts
  <2>2. IsFiniteSet(TokenAccounts) /\ IsFiniteSet(DOMAIN pairs)
    BY PairListDomain, AddressAssumption
  <2> QED
    BY <2>1, <2>2, FS_Subset
<1>2. \A i \in I : f[i] \in Int /\ p[i] \in A
  <2>1. \A i \in DOMAIN pairs : f[i] \in Int
    BY CreditIsPayouts
  <2>2. \A i \in I : p[i] \in A
    BY ListCovers, PairListDomain DEF MintAccounts
  <2> QED
    BY <2>1, <2>2
<1>3. SumsByValue(c, A, f, I, p)
  <2> SUFFICES ASSUME NEW a \in A
               PROVE  c[a] = SumFunctionOnSet(f, {i \in I : p[i] = a})
    BY DEF SumsByValue
  <2>1. {i \in I : p[i] = a} = {i \in DOMAIN pairs : pairs[i].account = a}
    OBVIOUS
  <2>2. a \in TokenAccounts
    BY <1>1
  <2>3. c[a] = SumFunctionOnSet(f, {i \in DOMAIN pairs : pairs[i].account = a})
    BY <2>2, CreditIsPayouts
  <2> QED
    BY <2>1, <2>3
<1>4. SumFunctionOnSet(c, A) = SumFunctionOnSet(f, I)
  <2> HIDE DEF c, A, f, I, p
  <2> QED
    BY <1>1, <1>2, <1>3, SumFibres
<1> QED
  BY <1>4, CreditIsPayouts

------------------------------------------------------------------------------
(* The program implements Escrow                                           *)

SpareAt(g) == PotAt(g) - HeldIn(g)
WalletOf(m, k) == SumFunctionOnSet(tokens, Accounts(m, k))

\* The refinement mapping in terms of what each group holds.
MoneyView ==
    /\ EscrowMint = [g \in Groups |-> MintAt(g)]
    /\ EscrowHeld = [p \in Pdas |-> HeldAt(p[1], p[2])]
    /\ EscrowSpare = [g \in Groups |-> SpareAt(g)]
    /\ EscrowWallet = [p \in Members \X Mints |-> WalletOf(p[1], p[2])]

LEMMA EmptyHolds ==
    ASSUME NEW g \in Groups, ~Unsettled(g)
    PROVE  SpareAt(g) = 0 /\ HeldIn(g) = 0 /\ PotAt(g) = 0
<1>1. PotAt(g) = 0 /\ \A m \in Members : HeldMap(g)[m] = 0
  BY DEF PotAt, HeldMap, HeldAt
<1>2. HeldIn(g) = 0
  BY <1>1, NothingHeld DEF HeldIn
<1> QED
  BY <1>1, <1>2 DEF SpareAt

LEMMA ViewHolds == LedgerInv => MoneyView
<1> SUFFICES ASSUME LedgerInv
             PROVE  MoneyView
  OBVIOUS
<1>1. EscrowMint = [g \in Groups |-> MintAt(g)]
  BY DEF EscrowMint, MintAt
<1>2. EscrowHeld = [p \in Pdas |-> HeldAt(p[1], p[2])]
  <2>1. \A p \in Pdas : p = <<p[1], p[2]>>
    BY DEF Pdas
  <2> QED
    BY <2>1 DEF EscrowHeld, HeldAt
<1>3. EscrowSpare = [g \in Groups |-> SpareAt(g)]
  <2>1. ASSUME NEW g \in Groups
        PROVE  (IF Unsettled(g) THEN vault[g].amount - Deposited(g) ELSE 0) = SpareAt(g)
    BY DepositedIsHeld, EmptyHolds DEF SpareAt, PotAt
  <2> QED
    BY <2>1 DEF EscrowSpare
<1>4. EscrowWallet = [p \in Members \X Mints |-> WalletOf(p[1], p[2])]
  BY DEF EscrowWallet, WalletOf, SumTokens, Accounts
<1> QED
  BY <1>1, <1>2, <1>3, <1>4 DEF MoneyView

LEMMA ViewHoldsNext == LedgerInv' => MoneyView'
BY ViewHolds, PTL

LEMMA EscrowFrame ==
    ASSUME MoneyView, MoneyView', NEW g \in Groups,
           \A h \in Groups : h # g => Keeps(h)
    PROVE  /\ EscrowMint' = [EscrowMint EXCEPT ![g] = MintAt(g)']
           /\ EscrowSpare' = [EscrowSpare EXCEPT ![g] = SpareAt(g)']
           /\ \A p \in Pdas : p[1] # g => EscrowHeld'[p] = EscrowHeld[p]
           /\ \A m \in Members : /\ EscrowHeld[<<g, m>>] = HeldAt(g, m)
                                 /\ EscrowHeld'[<<g, m>>] = HeldAt(g, m)'
           /\ EscrowMint[g] = MintAt(g) /\ EscrowSpare[g] = SpareAt(g)
<1>1. ASSUME NEW h \in Groups, h # g
      PROVE  MintAt(h)' = MintAt(h) /\ SpareAt(h)' = SpareAt(h)
  <2>1. Keeps(h)
    BY <1>1
  <2>2. HeldMap(h)' = HeldMap(h)
    BY <2>1 DEF Keeps, HeldMap
  <2> QED
    BY <2>1, <2>2 DEF Keeps, SpareAt, HeldIn
<1>2. EscrowMint' = [EscrowMint EXCEPT ![g] = MintAt(g)']
  BY <1>1 DEF MoneyView
<1>3. EscrowSpare' = [EscrowSpare EXCEPT ![g] = SpareAt(g)']
  BY <1>1 DEF MoneyView
<1>4. ASSUME NEW p \in Pdas, p[1] # g
      PROVE  EscrowHeld'[p] = EscrowHeld[p]
  <2>1. p[1] \in Groups /\ p[2] \in Members
    BY DEF Pdas
  <2> QED
    BY <1>4, <2>1 DEF MoneyView, Keeps
<1>5. ASSUME NEW m \in Members
      PROVE  /\ EscrowHeld[<<g, m>>] = HeldAt(g, m)
             /\ EscrowHeld'[<<g, m>>] = HeldAt(g, m)'
  BY DEF MoneyView, Pdas
<1>6. EscrowMint[g] = MintAt(g) /\ EscrowSpare[g] = SpareAt(g)
  BY DEF MoneyView
<1> QED
  BY <1>2, <1>3, <1>4, <1>5, <1>6

\* A change of what one member holds in one group.
LEMMA EscrowHeldChange ==
    ASSUME MoneyView, MoneyView', NEW g \in Groups, NEW m \in Members,
           \A h \in Groups : h # g => Keeps(h),
           \A n \in Members : n # m => HeldAt(g, n)' = HeldAt(g, n)
    PROVE  EscrowHeld' = [EscrowHeld EXCEPT ![<<g, m>>] = HeldAt(g, m)']
<1>1. ASSUME NEW p \in Pdas
      PROVE  EscrowHeld'[p] = IF p = <<g, m>> THEN HeldAt(g, m)' ELSE EscrowHeld[p]
  <2>1. p[1] \in Groups /\ p[2] \in Members /\ p = <<p[1], p[2]>>
    BY DEF Pdas
  <2>2. CASE p[1] # g
    BY <2>1, <2>2, EscrowFrame
  <2>3. CASE p[1] = g
    BY <2>1, <2>3, EscrowFrame
  <2> QED
    BY <2>2, <2>3
<1>2. /\ EscrowHeld = [p \in Pdas |-> EscrowHeld[p]]
      /\ EscrowHeld' = [p \in Pdas |-> EscrowHeld'[p]]
  BY DEF MoneyView
<1> QED
  BY <1>1, <1>2

LEMMA EscrowHeldSame ==
    ASSUME MoneyView, MoneyView', NEW g \in Groups,
           \A h \in Groups : h # g => Keeps(h),
           \A n \in Members : HeldAt(g, n)' = HeldAt(g, n)
    PROVE  EscrowHeld' = EscrowHeld
<1>1. ASSUME NEW p \in Pdas
      PROVE  EscrowHeld'[p] = EscrowHeld[p]
  <2>1. p[1] \in Groups /\ p[2] \in Members /\ p = <<p[1], p[2]>>
    BY DEF Pdas
  <2>2. CASE p[1] # g
    BY <2>1, <2>2, EscrowFrame
  <2>3. CASE p[1] = g
    BY <2>1, <2>3, EscrowFrame
  <2> QED
    BY <2>2, <2>3
<1>2. /\ EscrowHeld = [p \in Pdas |-> EscrowHeld[p]]
      /\ EscrowHeld' = [p \in Pdas |-> EscrowHeld'[p]]
  BY DEF MoneyView
<1> QED
  BY <1>1, <1>2

LEMMA SumMoved ==
    ASSUME NEW t, \A b \in TokenAccounts : t[b] \in Int,
           NEW S \in SUBSET TokenAccounts, NEW a \in TokenAccounts, NEW u,
           u[a] \in Int, \A b \in TokenAccounts : b # a => u[b] = t[b]
    PROVE  SumFunctionOnSet(u, S) =
             SumFunctionOnSet(t, S) + (IF a \in S THEN u[a] - t[a] ELSE 0)
<1>1. IsFiniteSet(S)
  BY AddressAssumption, FS_Subset
<1>2. SumFunctionOnSet(t, S) \in Int
  BY <1>1, SumInt
<1>3. CASE a \in S
  <2>1. \A b \in S \ {a} : u[b] = t[b]
    OBVIOUS
  <2>2. SumFunctionOnSet(u, S) = SumFunctionOnSet(t, S) - t[a] + u[a]
    BY <1>1, <1>3, <2>1, SumUpdate
  <2> QED
    BY <1>2, <1>3, <2>2
<1>4. CASE a \notin S
  <2>1. \A b \in S : u[b] = t[b]
    BY <1>4
  <2>2. SumFunctionOnSet(u, S) = SumFunctionOnSet(t, S)
    BY <1>1, <2>1, SumSame
  <2> QED
    BY <1>2, <1>4, <2>2
<1> QED
  BY <1>3, <1>4

LEMMA WalletNat ==
    ASSUME LedgerInv, NEW m \in Members, NEW k
    PROVE  /\ WalletOf(m, k) \in Nat
           /\ \A a \in Accounts(m, k) : tokens[a] <= WalletOf(m, k)
<1>1. Accounts(m, k) \in SUBSET TokenAccounts
  BY DEF Accounts
<1>2. IsFiniteSet(Accounts(m, k))
  BY <1>1, AddressAssumption, FS_Subset
<1>3. \A a \in Accounts(m, k) : tokens[a] \in Nat
  BY <1>1, AmountAssumption DEF LedgerInv, MembershipInv, TypeOK, U64
<1>4. WalletOf(m, k) \in Nat
  BY <1>2, <1>3, SumNat DEF WalletOf
<1>5. \A a \in Accounts(m, k) : tokens[a] <= WalletOf(m, k)
  BY <1>2, <1>3, SumBounds DEF WalletOf
<1> QED
  BY <1>4, <1>5

\* A change of one token account, seen in any set of accounts.
LEMMA TokensMoved ==
    ASSUME LedgerInv, LedgerInv', NEW a \in TokenAccounts, NEW d \in Int,
           tokens' = [tokens EXCEPT ![a] = @ + d], NEW S \in SUBSET TokenAccounts
    PROVE  SumFunctionOnSet(tokens', S) =
             SumFunctionOnSet(tokens, S) + (IF a \in S THEN d ELSE 0)
<1> DEFINE t == tokens
           u == tokens'
<1>1. t \in [TokenAccounts -> Nat] /\ u \in [TokenAccounts -> Nat]
  BY AmountAssumption DEF LedgerInv, MembershipInv, TypeOK, U64
<1>2. u[a] - t[a] = d
  BY <1>1
<1>3. /\ u[a] \in Int
      /\ \A b \in TokenAccounts : t[b] \in Int
      /\ \A b \in TokenAccounts : b # a => u[b] = t[b]
  BY <1>1
<1> HIDE DEF t, u
<1>4. SumFunctionOnSet(u, S) =
        SumFunctionOnSet(t, S) + (IF a \in S THEN u[a] - t[a] ELSE 0)
  BY <1>3, SumMoved
<1>5. SumFunctionOnSet(u, S) = SumFunctionOnSet(t, S) + (IF a \in S THEN d ELSE 0)
  BY <1>2, <1>4
<1> QED
  BY <1>5 DEF t, u

LEMMA WalletMoved ==
    ASSUME LedgerInv, LedgerInv', NEW a \in TokenAccounts, NEW d \in Int,
           tokens' = [tokens EXCEPT ![a] = @ + d], NEW m \in Members, NEW k \in Mints
    PROVE  WalletOf(m, k)' =
             WalletOf(m, k) + (IF m = OwnerOf[a] /\ k = MintOf[a] THEN d ELSE 0)
<1>1. /\ Accounts(m, k) \in SUBSET TokenAccounts
      /\ a \in Accounts(m, k) <=> m = OwnerOf[a] /\ k = MintOf[a]
  BY DEF Accounts
<1>2. SumFunctionOnSet(tokens', Accounts(m, k)) =
        SumFunctionOnSet(tokens, Accounts(m, k))
        + (IF a \in Accounts(m, k) THEN d ELSE 0)
  BY <1>1, TokensMoved
<1>3. WalletOf(m, k)' = SumFunctionOnSet(tokens', Accounts(m, k))
  BY DEF WalletOf, Accounts
<1> QED
  BY <1>1, <1>2, <1>3 DEF WalletOf

\* A change of one token account changes one entry of the escrow's wallets.
LEMMA WalletChange ==
    ASSUME LedgerInv, LedgerInv', MoneyView, MoneyView', NEW a \in TokenAccounts,
           NEW d \in Int, tokens' = [tokens EXCEPT ![a] = @ + d]
    PROVE  EscrowWallet' =
             [EscrowWallet EXCEPT ![<<OwnerOf[a], MintOf[a]>>] = @ + d]
<1>1. ASSUME NEW m \in Members, NEW k \in Mints
      PROVE  WalletOf(m, k)' =
               WalletOf(m, k) + (IF m = OwnerOf[a] /\ k = MintOf[a] THEN d ELSE 0)
  BY WalletMoved
<1>2. OwnerOf[a] \in Members /\ MintOf[a] \in Mints
  BY AddressAssumption
<1>3. ASSUME NEW p \in Members \X Mints
      PROVE  EscrowWallet'[p] =
               IF p = <<OwnerOf[a], MintOf[a]>> THEN EscrowWallet[p] + d
               ELSE EscrowWallet[p]
  <2>1. p[1] \in Members /\ p[2] \in Mints /\ p = <<p[1], p[2]>>
    OBVIOUS
  <2>2. EscrowWallet'[p] = WalletOf(p[1], p[2])' /\ EscrowWallet[p] = WalletOf(p[1], p[2])
    BY DEF MoneyView
  <2>3. WalletOf(p[1], p[2]) \in Nat
    BY <2>1, WalletNat
  <2> QED
    BY <1>1, <2>1, <2>2, <2>3
<1>4. /\ EscrowWallet = [p \in Members \X Mints |-> EscrowWallet[p]]
      /\ EscrowWallet' = [p \in Members \X Mints |-> EscrowWallet'[p]]
  BY DEF MoneyView
<1> QED
  BY <1>2, <1>3, <1>4

LEMMA WalletSame ==
    ASSUME tokens' = tokens, MoneyView, MoneyView'
    PROVE  EscrowWallet' = EscrowWallet
<1>1. \A m, k : WalletOf(m, k)' = WalletOf(m, k)
  BY DEF WalletOf, Accounts
<1> QED
  BY <1>1 DEF MoneyView

LEMMA EscrowOpen ==
    ASSUME LedgerInv, LedgerInv', MoneyView, MoneyView', NEW g \in Groups,
           \A h \in Groups : h # g => Keeps(h), Opens(g)
    PROVE  Promise!Next
<1>1. ~Unsettled(g) /\ EscrowWallet' = EscrowWallet
  BY WalletSame DEF Opens, Unsettled
<1>2. \A m \in Members : HeldAt(g, m) = 0 /\ HeldAt(g, m)' = 0
  BY <1>1 DEF Opens, HeldAt
<1>3. EscrowHeld' = EscrowHeld
  BY <1>2, EscrowHeldSame
<1>4. SpareAt(g) = 0 /\ SpareAt(g)' = 0
  <2>1. \A m \in Members : (HeldMap(g)')[m] = 0
    BY <1>2 DEF HeldMap
  <2>2. HeldIn(g)' = 0
    BY <2>1, NothingHeld DEF HeldIn
  <2> QED
    BY <1>1, <2>2, EmptyHolds DEF Opens, SpareAt
<1>5. EscrowSpare' = EscrowSpare
  <2>1. /\ EscrowSpare' = [EscrowSpare EXCEPT ![g] = SpareAt(g)']
        /\ EscrowSpare[g] = SpareAt(g)
    BY EscrowFrame
  <2>2. EscrowSpare = [h \in Groups |-> SpareAt(h)]
    BY DEF MoneyView
  <2> QED
    BY <1>4, <2>1, <2>2
<1>6. EscrowMint[g] = None /\ EscrowMint' = [EscrowMint EXCEPT ![g] = MintAt(g)']
  BY <1>1, EscrowFrame DEF MintAt
<1>7. Promise!Open(g, MintAt(g)')
  BY <1>1, <1>3, <1>5, <1>6 DEF Promise!Open
<1> QED
  BY <1>7 DEF Opens, Promise!Next

LEMMA EscrowSpareSame ==
    ASSUME MoneyView, MoneyView', NEW g \in Groups,
           \A h \in Groups : h # g => Keeps(h), SpareAt(g)' = SpareAt(g)
    PROVE  EscrowSpare' = EscrowSpare
<1>1. /\ EscrowSpare' = [EscrowSpare EXCEPT ![g] = SpareAt(g)']
      /\ EscrowSpare[g] = SpareAt(g)
  BY EscrowFrame
<1>2. EscrowSpare = [h \in Groups |-> SpareAt(h)]
  BY DEF MoneyView
<1> QED
  BY <1>1, <1>2

LEMMA EscrowMintSame ==
    ASSUME MoneyView, MoneyView', NEW g \in Groups,
           \A h \in Groups : h # g => Keeps(h), MintAt(g)' = MintAt(g)
    PROVE  EscrowMint' = EscrowMint
<1>1. /\ EscrowMint' = [EscrowMint EXCEPT ![g] = MintAt(g)']
      /\ EscrowMint[g] = MintAt(g)
  BY EscrowFrame
<1>2. EscrowMint = [h \in Groups |-> MintAt(h)]
  BY DEF MoneyView
<1> QED
  BY <1>1, <1>2

\* What an account pays is within the escrow's wallet.
LEMMA WithinWallet ==
    ASSUME LedgerInv, MoneyView, NEW a \in TokenAccounts, NEW amount \in Nat,
           amount \in 1..tokens[a]
    PROVE  amount \in 1..EscrowWallet[<<OwnerOf[a], MintOf[a]>>]
<1>1. OwnerOf[a] \in Members /\ MintOf[a] \in Mints
  BY AddressAssumption
<1>2. a \in Accounts(OwnerOf[a], MintOf[a])
  BY DEF Accounts
<1>3. EscrowWallet[<<OwnerOf[a], MintOf[a]>>] = WalletOf(OwnerOf[a], MintOf[a])
  BY <1>1 DEF MoneyView
<1>4. tokens[a] <= WalletOf(OwnerOf[a], MintOf[a]) /\ WalletOf(OwnerOf[a], MintOf[a]) \in Nat
  BY <1>1, <1>2, WalletNat
<1>5. tokens[a] \in Nat
  BY AmountAssumption DEF LedgerInv, MembershipInv, TypeOK, U64
<1> QED
  BY <1>3, <1>4, <1>5

LEMMA TokensNat ==
    ASSUME LedgerInv, NEW a \in TokenAccounts
    PROVE  tokens[a] \in Nat
BY AmountAssumption DEF LedgerInv, MembershipInv, TypeOK, U64

LEMMA WalletEntry ==
    ASSUME LedgerInv, MoneyView, NEW a \in TokenAccounts
    PROVE  EscrowWallet[<<OwnerOf[a], MintOf[a]>>] \in Nat
<1>1. OwnerOf[a] \in Members /\ MintOf[a] \in Mints
  BY AddressAssumption
<1>2. EscrowWallet[<<OwnerOf[a], MintOf[a]>>] = WalletOf(OwnerOf[a], MintOf[a])
  BY <1>1 DEF MoneyView
<1> QED
  BY <1>1, <1>2, WalletNat

LEMMA EscrowPayIn ==
    ASSUME LedgerInv, LedgerInv', MoneyView, MoneyView', NEW g \in Groups,
           \A h \in Groups : h # g => Keeps(h), NEW m \in Members,
           NEW a \in TokenAccounts, NEW amount \in Nat, PaysIn(g, m, a, amount)
    PROVE  Promise!Next
<1>1. /\ PotAt(g) \in Nat /\ HeldIn(g) \in Nat /\ HeldAt(g, m) \in Nat
      /\ EscrowMint[g] = MintAt(g) /\ MintAt(g) # None
      /\ EscrowHeld[<<g, m>>] = HeldAt(g, m)
  BY MoneyType, HeldInNat, EscrowFrame DEF PaysIn
<1>2. EscrowHeld' = [EscrowHeld EXCEPT ![<<g, m>>] = HeldAt(g, m)']
  BY EscrowHeldChange DEF PaysIn
<1>3. EscrowHeld' = [EscrowHeld EXCEPT ![<<g, m>>] = @ + amount]
  BY <1>1, <1>2 DEF PaysIn
<1>4. HeldIn(g)' = HeldIn(g) - HeldAt(g, m) + HeldAt(g, m)'
  BY HeldChange DEF PaysIn
<1>5. SpareAt(g)' = SpareAt(g)
  BY <1>1, <1>4 DEF PaysIn, SpareAt
<1>6. EscrowSpare' = EscrowSpare /\ EscrowMint' = EscrowMint
  BY <1>5, EscrowSpareSame, EscrowMintSame DEF PaysIn
<1>7. EscrowWallet' = [EscrowWallet EXCEPT ![<<m, EscrowMint[g]>>] = @ - amount]
  <2> DEFINE d == 0 - amount
             w == <<OwnerOf[a], MintOf[a]>>
  <2>1. tokens[a] \in Nat /\ EscrowWallet[w] \in Nat /\ w = <<m, EscrowMint[g]>>
    BY <1>1, TokensNat, WalletEntry DEF PaysIn
  <2>2. tokens' = [tokens EXCEPT ![a] = @ + d] /\ d \in Int
    <3>1. tokens[a] - amount = tokens[a] + d /\ d \in Int
      BY <2>1
    <3>2. tokens' = [tokens EXCEPT ![a] = tokens[a] - amount]
      BY DEF PaysIn
    <3> HIDE DEF d
    <3> QED
      BY <3>1, <3>2
  <2>3. EscrowWallet' = [EscrowWallet EXCEPT ![w] = @ + d]
    <3> HIDE DEF d
    <3> QED
      BY <2>2, WalletChange
  <2>4. EscrowWallet[w] + d = EscrowWallet[w] - amount
    BY <2>1
  <2> HIDE DEF d, w
  <2> QED
    BY <2>1, <2>3, <2>4
<1>8. amount \in 1..EscrowWallet[<<m, EscrowMint[g]>>]
  BY <1>1, WithinWallet DEF PaysIn
<1>9. Promise!PayIn(g, m)
  BY <1>1, <1>3, <1>6, <1>7, <1>8 DEF Promise!PayIn
<1> QED
  BY <1>9 DEF Promise!Next

LEMMA EscrowDonate ==
    ASSUME LedgerInv, LedgerInv', MoneyView, MoneyView', NEW g \in Groups,
           \A h \in Groups : h # g => Keeps(h),
           NEW a \in TokenAccounts, Gives(g, a)
    PROVE  Promise!Next
<1> DEFINE m == OwnerOf[a]
<1>1. /\ PotAt(g) \in Nat /\ HeldIn(g) \in Nat /\ m \in Members
      /\ EscrowMint[g] = MintAt(g) /\ MintAt(g) # None
      /\ EscrowSpare[g] = SpareAt(g)
  BY MoneyType, HeldInNat, EscrowFrame, AddressAssumption DEF Gives
<1>2. EscrowHeld' = EscrowHeld /\ EscrowMint' = EscrowMint
  BY EscrowHeldSame, EscrowMintSame DEF Gives
<1>3. HeldIn(g)' = HeldIn(g)
  <2>1. HeldMap(g)' = HeldMap(g)
    BY DEF Gives, HeldMap
  <2> QED
    BY <2>1 DEF HeldIn
<1>4. SpareAt(g)' = SpareAt(g) + 1
  BY <1>1, <1>3 DEF Gives, SpareAt
<1>5. EscrowSpare' = [EscrowSpare EXCEPT ![g] = @ + 1]
  BY <1>1, <1>4, EscrowFrame
<1>6. EscrowWallet' = [EscrowWallet EXCEPT ![<<m, EscrowMint[g]>>] = @ - 1]
  <2> DEFINE d == 0 - 1
             w == <<OwnerOf[a], MintOf[a]>>
  <2>1. tokens[a] \in Nat /\ EscrowWallet[w] \in Nat /\ w = <<m, EscrowMint[g]>>
    BY <1>1, TokensNat, WalletEntry DEF Gives
  <2>2. tokens' = [tokens EXCEPT ![a] = @ + d] /\ d \in Int
    <3>1. tokens[a] - 1 = tokens[a] + d /\ d \in Int
      BY <2>1
    <3>2. tokens' = [tokens EXCEPT ![a] = tokens[a] - 1]
      BY DEF Gives
    <3> HIDE DEF d
    <3> QED
      BY <3>1, <3>2
  <2>3. EscrowWallet' = [EscrowWallet EXCEPT ![w] = @ + d]
    <3> HIDE DEF d
    <3> QED
      BY <2>2, WalletChange
  <2>4. EscrowWallet[w] + d = EscrowWallet[w] - 1
    BY <2>1
  <2> HIDE DEF d, w
  <2> QED
    BY <2>1, <2>3, <2>4
<1>7. 1 \in 1..EscrowWallet[<<m, EscrowMint[g]>>]
  BY <1>1, WithinWallet DEF Gives
<1>8. Promise!Donate(g, m)
  BY <1>1, <1>2, <1>5, <1>6, <1>7 DEF Promise!Donate
<1> QED
  BY <1>1, <1>8 DEF Promise!Next

LEMMA EscrowWithdraw ==
    ASSUME LedgerInv, LedgerInv', MoneyView, MoneyView', NEW g \in Groups,
           \A h \in Groups : h # g => Keeps(h), NEW m \in Members,
           NEW a \in TokenAccounts, Withdraws(g, m, a)
    PROVE  Promise!Next
<1>1. /\ PotAt(g) \in Nat /\ HeldIn(g) \in Nat /\ HeldAt(g, m) \in Nat
      /\ EscrowMint[g] = MintAt(g) /\ EscrowHeld[<<g, m>>] = HeldAt(g, m)
  BY MoneyType, HeldInNat, EscrowFrame
<1>2. EscrowHeld' = [EscrowHeld EXCEPT ![<<g, m>>] = 0]
  BY EscrowHeldChange DEF Withdraws
<1>3. HeldIn(g)' = HeldIn(g) - HeldAt(g, m) + HeldAt(g, m)'
  BY HeldChange DEF Withdraws
<1>4. SpareAt(g)' = SpareAt(g)
  BY <1>1, <1>3 DEF Withdraws, SpareAt
<1>5. EscrowSpare' = EscrowSpare /\ EscrowMint' = EscrowMint
  BY <1>4, EscrowSpareSame, EscrowMintSame DEF Withdraws
<1>6. EscrowWallet' =
        [EscrowWallet EXCEPT ![<<m, EscrowMint[g]>>] = @ + EscrowHeld[<<g, m>>]]
  <2>1. EscrowWallet' =
          [EscrowWallet EXCEPT ![<<OwnerOf[a], MintOf[a]>>] = @ + HeldAt(g, m)]
    <3>1. HeldAt(g, m) \in Int /\ tokens' = [tokens EXCEPT ![a] = @ + HeldAt(g, m)]
      BY <1>1 DEF Withdraws
    <3> QED
      BY <3>1, WalletChange
  <2> QED
    BY <1>1, <2>1 DEF Withdraws
<1>7. m \in Promise!Payees(g)
  BY <1>1 DEF Withdraws, Promise!Payees
<1>8. Promise!Withdraw(g, m)
  BY <1>2, <1>5, <1>6, <1>7 DEF Promise!Withdraw
<1> QED
  BY <1>8 DEF Promise!Next

\* Settlement, seen in any set of accounts.
LEMMA TokensCredited ==
    ASSUME LedgerInv, NEW g \in Groups, NEW pairs, NEW burned,
           PaysBack(g, pairs, burned), NEW S \in SUBSET TokenAccounts
    PROVE  /\ SumFunctionOnSet(tokens', S) =
                SumFunctionOnSet(tokens, S) + SumFunctionOnSet(Credits(g, pairs), S)
           /\ (\A a \in S : MintOf[a] # group[g].mint) =>
                SumFunctionOnSet(tokens', S) = SumFunctionOnSet(tokens, S)
<1> DEFINE c == Credits(g, pairs)
           t == tokens
           u == tokens'
<1>1. Unsettled(g) /\ pairs \in PairLists /\ SettlementChecks(g, pairs)
  BY DEF PaysBack
<1>2. IsFiniteSet(S)
  BY AddressAssumption, FS_Subset
<1>3. \A a \in S : t[a] \in Int /\ c[a] \in Int /\ u[a] = t[a] + c[a]
  <2>1. \A a \in TokenAccounts : u[a] = t[a] + c[a]
    BY DEF PaysBack, Credits
  <2>2. \A a \in TokenAccounts : t[a] \in Nat
    BY TokensNat
  <2>3. \A a \in TokenAccounts : c[a] \in Nat
    BY <1>1, CreditIsPayouts
  <2> HIDE DEF t, c, u
  <2> QED
    BY <2>1, <2>2, <2>3
<1>4. ASSUME \A a \in S : MintOf[a] # group[g].mint
      PROVE  \A a \in S : u[a] = t[a]
  <2>1. \A a \in S : c[a] = 0
    BY <1>1, <1>4, NoCreditOfOtherMint
  <2> HIDE DEF t, c, u
  <2> QED
    BY <1>3, <2>1
<1>5. SumFunctionOnSet(u, S) = SumFunctionOnSet(t, S) + SumFunctionOnSet(c, S)
  <2> HIDE DEF c, t, u
  <2> QED
    BY <1>2, <1>3, SumPlus
<1>6. ASSUME \A a \in S : MintOf[a] # group[g].mint
      PROVE  SumFunctionOnSet(u, S) = SumFunctionOnSet(t, S)
  <2>1. \A a \in S : u[a] = t[a]
    BY <1>4, <1>6
  <2> HIDE DEF t, u
  <2> QED
    BY <1>2, <2>1, SumSame
<1> QED
  BY <1>5, <1>6

LEMMA CreditedWallet ==
    ASSUME LedgerInv, NEW g \in Groups, NEW pairs, NEW burned,
           PaysBack(g, pairs, burned), NEW m \in Members, NEW k \in Mints
    PROVE  WalletOf(m, k)' =
             IF k # group[g].mint THEN WalletOf(m, k)
             ELSE WalletOf(m, k) + HeldAt(g, m)
                  + (IF m = Lucky(pairs) THEN SpareAt(g) ELSE 0)
<1> DEFINE S == Accounts(m, k)
           c == Credits(g, pairs)
<1>1. /\ Unsettled(g) /\ pairs \in PairLists /\ SettlementChecks(g, pairs)
      /\ S \in SUBSET TokenAccounts /\ \A a \in S : MintOf[a] = k
  BY DEF PaysBack, Accounts
<1>2. WalletOf(m, k)' = SumFunctionOnSet(tokens', S) /\ WalletOf(m, k) = SumFunctionOnSet(tokens, S)
  BY DEF WalletOf, Accounts
<1>3. CASE k # group[g].mint
  BY <1>1, <1>2, <1>3, TokensCredited
<1>4. CASE k = group[g].mint
  <2>1. SumFunctionOnSet(c, S) =
          HeldAt(g, m) + (IF m = Lucky(pairs) THEN SpareAt(g) ELSE 0)
    BY <1>1, <1>4, CreditOfMember DEF SpareAt
  <2>2. SumFunctionOnSet(tokens', S) = SumFunctionOnSet(tokens, S) + SumFunctionOnSet(c, S)
    BY <1>1, TokensCredited
  <2>3. /\ WalletOf(m, k) \in Nat /\ HeldAt(g, m) \in Nat
        /\ PotAt(g) \in Nat /\ HeldIn(g) \in Nat
    BY WalletNat, MoneyType, HeldInNat
  <2> HIDE DEF S, c
  <2>4. WalletOf(m, k)' = WalletOf(m, k) + HeldAt(g, m)
                          + (IF m = Lucky(pairs) THEN SpareAt(g) ELSE 0)
    BY <1>2, <2>1, <2>2, <2>3 DEF SpareAt
  <2> QED
    BY <1>4, <2>4
<1> QED
  BY <1>3, <1>4

LEMMA EscrowPayBack ==
    ASSUME LedgerInv, LedgerInv', MoneyView, MoneyView', NEW g \in Groups,
           \A h \in Groups : h # g => Keeps(h), NEW pairs, NEW burned,
           PaysBack(g, pairs, burned)
    PROVE  Promise!Next
<1> DEFINE lucky == Lucky(pairs)
<1>1. /\ Unsettled(g) /\ ~Unsettled(g)' /\ pairs \in PairLists
      /\ SettlementChecks(g, pairs)
  BY DEF PaysBack
<1>2. /\ EscrowMint[g] = MintAt(g) /\ MintAt(g) = group[g].mint /\ MintAt(g) # None
      /\ EscrowSpare[g] = SpareAt(g)
  BY <1>1, EscrowFrame, MoneyType DEF MintAt
<1>3. EscrowMint' = [EscrowMint EXCEPT ![g] = None]
  <2>1. MintAt(g)' = None
    BY <1>1 DEF MintAt
  <2> QED
    BY <2>1, EscrowFrame
<1>4. EscrowSpare' = [EscrowSpare EXCEPT ![g] = 0]
  <2>1. PotAt(g)' = 0 /\ \A m \in Members : (HeldMap(g)')[m] = 0
    BY <1>1 DEF PotAt, HeldMap, HeldAt
  <2>2. HeldIn(g)' = 0
    BY <2>1, NothingHeld DEF HeldIn
  <2>3. SpareAt(g)' = 0
    BY <2>1, <2>2 DEF SpareAt
  <2> QED
    BY <2>3, EscrowFrame
<1>5. EscrowHeld' = [p \in Groups \X Members |-> IF p[1] = g THEN 0 ELSE EscrowHeld[p]]
  <2>1. ASSUME NEW p \in Pdas
        PROVE  EscrowHeld'[p] = IF p[1] = g THEN 0 ELSE EscrowHeld[p]
    <3>1. p[1] \in Groups /\ p[2] \in Members /\ p = <<p[1], p[2]>>
      BY DEF Pdas
    <3>2. CASE p[1] # g
      BY <3>2, EscrowFrame
    <3>3. CASE p[1] = g
      <4>1. EscrowHeld'[p] = HeldAt(g, p[2])'
        BY <3>1, <3>3, EscrowFrame
      <4>2. HeldAt(g, p[2])' = 0
        BY <1>1 DEF HeldAt
      <4> QED
        BY <3>3, <4>1, <4>2
    <3> QED
      BY <3>2, <3>3
  <2>2. EscrowHeld' = [p \in Pdas |-> EscrowHeld'[p]]
    BY DEF MoneyView
  <2> QED
    BY <2>1, <2>2 DEF Pdas
<1>6. EscrowWallet' =
        [p \in Members \X Mints |->
           IF p[2] # EscrowMint[g] THEN EscrowWallet[p]
           ELSE EscrowWallet[p] + EscrowHeld[<<g, p[1]>>]
                + (IF p[1] = lucky THEN EscrowSpare[g] ELSE 0)]
  <2>1. ASSUME NEW p \in Members \X Mints
        PROVE  WalletOf(p[1], p[2])' =
                 IF p[2] # EscrowMint[g] THEN EscrowWallet[p]
                 ELSE EscrowWallet[p] + EscrowHeld[<<g, p[1]>>]
                      + (IF p[1] = lucky THEN EscrowSpare[g] ELSE 0)
    <3>1. p[1] \in Members /\ p[2] \in Mints
      OBVIOUS
    <3>2. EscrowWallet[p] = WalletOf(p[1], p[2])
      BY DEF MoneyView
    <3>3. EscrowHeld[<<g, p[1]>>] = HeldAt(g, p[1])
      BY <3>1, EscrowFrame
    <3> QED
      BY <1>2, <3>1, <3>2, <3>3, CreditedWallet
  <2>2. EscrowWallet' = [p \in Members \X Mints |-> WalletOf(p[1], p[2])']
    BY DEF MoneyView
  <2> QED
    BY <2>1, <2>2
<1>7. Promise!Payees(g) = Joined(g)
  <2>1. ASSUME NEW m \in Members
        PROVE  EscrowHeld[<<g, m>>] > 0 <=> m \in Joined(g)
    <3>1. EscrowHeld[<<g, m>>] = HeldAt(g, m)
      BY EscrowFrame
    <3>2. CASE m \in Joined(g)
      BY <1>1, <3>1, <3>2, RecordHoldsTokens DEF HeldAt, Joined
    <3>3. CASE m \notin Joined(g)
      BY <3>1, <3>3 DEF HeldAt, Joined
    <3> QED
      BY <3>2, <3>3
  <2> QED
    BY <2>1 DEF Promise!Payees, Joined
<1>8. IF Joined(g) = {} THEN lucky = None ELSE lucky \in Joined(g)
  <2>1. Len(pairs) = Cardinality(Joined(g)) /\ (Cardinality(Joined(g)) = 0 <=> Joined(g) = {})
    BY <1>1, ListCovers, JoinedFinite
  <2>2. Len(pairs) # 0 => Len(pairs) \in DOMAIN pairs
    BY <1>1, PairListDomain
  <2>3. Len(pairs) # 0 => Who(pairs)[Len(pairs)] \in Joined(g)
    BY <1>1, <2>2, ListCovers
  <2> QED
    BY <2>1, <2>3 DEF Lucky
<1>9. lucky \in Members \cup {None}
  BY <1>8 DEF Joined
<1> HIDE DEF lucky
<1>10. Promise!PayBack(g, lucky)
  BY <1>2, <1>3, <1>4, <1>5, <1>6, <1>7, <1>8 DEF Promise!PayBack
<1> QED
  BY <1>9, <1>10 DEF Promise!Next

LEMMA EscrowStutter ==
    ASSUME MoneyView, MoneyView', NoMoneyMoves
    PROVE  UNCHANGED Promise!vars
<1>1. EscrowWallet' = EscrowWallet
  BY WalletSame DEF NoMoneyMoves
<1>2. ASSUME NEW h \in Groups
      PROVE  /\ MintAt(h)' = MintAt(h) /\ SpareAt(h)' = SpareAt(h)
             /\ \A m \in Members : HeldAt(h, m)' = HeldAt(h, m)
  <2>1. Keeps(h)
    BY DEF NoMoneyMoves
  <2>2. HeldMap(h)' = HeldMap(h)
    BY <2>1 DEF Keeps, HeldMap
  <2> QED
    BY <2>1, <2>2 DEF Keeps, SpareAt, HeldIn
<1>3. EscrowMint' = EscrowMint
  BY <1>2 DEF MoneyView
<1>4. EscrowSpare' = EscrowSpare
  BY <1>2 DEF MoneyView
<1>5. EscrowHeld' = EscrowHeld
  <2>1. \A p \in Pdas : HeldAt(p[1], p[2])' = HeldAt(p[1], p[2])
    BY <1>2 DEF Pdas
  <2> QED
    BY <2>1 DEF MoneyView
<1> QED
  BY <1>1, <1>3, <1>4, <1>5 DEF Promise!vars

LEMMA EscrowInit == Init => Promise!Init
<1> SUFFICES ASSUME Init
             PROVE  Promise!Init
  OBVIOUS
<1>1. LedgerInv /\ MoneyView
  BY InitInv, ViewHolds
  DEF Init, LedgerInv, PeriodsOK, PeriodsInv, MintsOK, Exists, Pdas
<1>2. \A g \in Groups : ~Unsettled(g)
  BY DEF Init, Unsettled, Exists
<1>3. EscrowMint = [g \in Groups |-> None]
  BY <1>2 DEF EscrowMint
<1>4. EscrowHeld = [p \in Groups \X Members |-> 0]
  BY <1>2 DEF EscrowHeld, Pdas
<1>5. EscrowSpare = [g \in Groups |-> 0]
  BY <1>2 DEF EscrowSpare
<1>6. \A p \in Members \X Mints : EscrowWallet[p] \in Nat
  BY <1>1, WalletNat DEF MoneyView
<1> QED
  BY <1>3, <1>4, <1>5, <1>6 DEF Promise!Init

\* The program keeps the promise of the escrow, for any number of groups,
\* members, mints and accounts and whatever lists callers choose: what a member
\* paid in stays the member's and comes back whole, to that member, at once.
THEOREM ProgramIsEscrow == Spec => ImplementsEscrow
<1>1. LedgerInv /\ [Next]_vars => [Promise!Next]_Promise!vars
  <2> SUFFICES ASSUME LedgerInv, [Next]_vars
               PROVE  Promise!Next \/ UNCHANGED Promise!vars
    OBVIOUS
  <2>1. LedgerInv' /\ MoneyView /\ MoneyView'
    BY NextLedgerInv, ViewHolds, ViewHoldsNext
  <2>2. ASSUME NEW g \in Groups, MoneyEffect(g),
               \A h \in Groups : h # g => Keeps(h)
        PROVE  Promise!Next
    BY <2>1, <2>2, EscrowOpen, EscrowPayIn, EscrowDonate, EscrowWithdraw, EscrowPayBack
    DEF MoneyEffect
  <2> QED
    BY <2>1, <2>2, MoneyStep, EscrowStutter
<1> QED
  BY <1>1, EscrowInit, Ledger, PTL DEF Spec, ImplementsEscrow, Promise!Spec

------------------------------------------------------------------------------
(* Nobody loses tokens, and none disappear                                 *)

\* What member m holds of mint k in each group, and what each vault holds of it.
HeldOf(m, k) == [g \in Groups |-> IF MintAt(g) = k THEN HeldAt(g, m) ELSE 0]
PotsOf(k) == [g \in Groups |-> IF MintAt(g) = k THEN PotAt(g) ELSE 0]

SumsView ==
    \A k \in Mints :
        /\ Total(k) = SumFunctionOnSet(tokens, MintAccounts(k))
                      + SumFunctionOnSet(PotsOf(k), Groups)
        /\ \A m \in Members :
             Holdings(m, k) = WalletOf(m, k) + SumFunctionOnSet(HeldOf(m, k), Groups)

\* A sum over some groups as a sum over all of them.
LEMMA SumOverGroups ==
    ASSUME NEW G \in SUBSET Groups, NEW f, NEW e,
           \A g \in G : f[g] = e[g] /\ e[g] \in Int,
           \A g \in Groups \ G : e[g] = 0
    PROVE  SumFunctionOnSet(f, G) = SumFunctionOnSet(e, Groups)
<1>1. IsFiniteSet(Groups) /\ IsFiniteSet(G)
  BY AddressAssumption, FS_Subset
<1>2. SumFunctionOnSet(f, G) = SumFunctionOnSet(e, G)
  BY <1>1, SumSame
<1>3. SumFunctionOnSet(e, Groups) = SumFunctionOnSet(e, G)
  BY <1>1, SumZeros
<1> QED
  BY <1>2, <1>3

LEMMA SumsHold == LedgerInv => SumsView
<1> SUFFICES ASSUME LedgerInv, NEW k \in Mints
             PROVE  /\ Total(k) = SumFunctionOnSet(tokens, MintAccounts(k))
                                  + SumFunctionOnSet(PotsOf(k), Groups)
                    /\ \A m \in Members :
                         Holdings(m, k) =
                           WalletOf(m, k) + SumFunctionOnSet(HeldOf(m, k), Groups)
  BY DEF SumsView
<1>1. k # None
  BY AddressAssumption
<1>2. \A g \in Groups : Exists(vault[g]) <=> Unsettled(g)
  BY DEF LedgerInv, MembershipInv, GroupInv, Unsettled
<1>3. InVaults(k) = SumFunctionOnSet(PotsOf(k), Groups)
  <2> DEFINE G == {g \in Groups : Exists(vault[g]) /\ group[g].mint = k}
             f == [g \in G |-> vault[g].amount]
             e == PotsOf(k)
  <2>1. InVaults(k) = SumFunctionOnSet(f, G)
    BY DEF InVaults, SumFunction
  <2>2. \A g \in G : f[g] = e[g] /\ e[g] \in Int
    BY <1>2, MoneyType DEF PotsOf, MintAt, PotAt
  <2>3. \A g \in Groups \ G : e[g] = 0
    BY <1>1, <1>2 DEF PotsOf, MintAt
  <2>4. G \in SUBSET Groups
    OBVIOUS
  <2>5. SumFunctionOnSet(f, G) = SumFunctionOnSet(e, Groups)
    <3> HIDE DEF G, f, e
    <3> QED
      BY <2>2, <2>3, <2>4, SumOverGroups
  <2> QED
    BY <2>1, <2>5
<1>4. Total(k) = SumFunctionOnSet(tokens, MintAccounts(k))
                 + SumFunctionOnSet(PotsOf(k), Groups)
  BY <1>3 DEF Total, SumTokens, MintAccounts
<1>5. ASSUME NEW m \in Members
      PROVE  Holdings(m, k) = WalletOf(m, k) + SumFunctionOnSet(HeldOf(m, k), Groups)
  <2> DEFINE G == {g \in Groups : /\ Unsettled(g) /\ group[g].mint = k
                                  /\ Exists(record[<<g, m>>])}
             f == [g \in G |-> record[<<g, m>>].total_deposited]
             e == HeldOf(m, k)
  <2>1. Holdings(m, k) = WalletOf(m, k) + SumFunctionOnSet(f, G)
    BY DEF Holdings, SumFunction, SumTokens, WalletOf, Accounts
  <2>2. \A g \in G : f[g] = e[g] /\ e[g] \in Int
    <3>1. \A g \in Groups : HeldAt(g, m) \in Int
      BY MoneyType
    <3>2. \A g \in G : f[g] = HeldAt(g, m) /\ e[g] = HeldAt(g, m)
      BY DEF HeldOf, MintAt, HeldAt
    <3> HIDE DEF f, e
    <3> QED
      BY <3>1, <3>2
  <2>3. \A g \in Groups \ G : e[g] = 0
    BY <1>1 DEF HeldOf, MintAt, HeldAt
  <2>4. G \in SUBSET Groups
    OBVIOUS
  <2>5. SumFunctionOnSet(f, G) = SumFunctionOnSet(e, Groups)
    <3> HIDE DEF G, f, e
    <3> QED
      BY <2>2, <2>3, <2>4, SumOverGroups
  <2> QED
    BY <2>1, <2>5
<1> QED
  BY <1>4, <1>5

LEMMA SumsHoldNext == LedgerInv' => SumsView'
BY SumsHold, PTL

\* When a step concerns one group, both sums change by that group's part.
LEMMA HeldOfChange ==
    ASSUME LedgerInv, LedgerInv', NEW g \in Groups,
           \A h \in Groups : h # g => Keeps(h), NEW m \in Members, NEW k \in Mints
    PROVE  /\ SumFunctionOnSet(HeldOf(m, k), Groups)' =
                SumFunctionOnSet(HeldOf(m, k), Groups)
                - (IF MintAt(g) = k THEN HeldAt(g, m) ELSE 0)
                + (IF MintAt(g)' = k THEN HeldAt(g, m)' ELSE 0)
           /\ SumFunctionOnSet(HeldOf(m, k), Groups) \in Nat
<1> DEFINE f == HeldOf(m, k)
           e == HeldOf(m, k)'
<1>1. IsFiniteSet(Groups) /\ \A h \in Groups : f[h] \in Nat
  BY MoneyType, AddressAssumption DEF HeldOf
<1>2. e[g] \in Int
  <2>1. \A h \in Groups, n \in Members : HeldAt(h, n)' \in Nat
    BY MoneyNatNext DEF MoneyNats
  <2> QED
    BY <2>1 DEF HeldOf
<1>3. \A h \in Groups \ {g} : e[h] = f[h]
  BY DEF HeldOf, Keeps
<1>4. /\ f[g] = (IF MintAt(g) = k THEN HeldAt(g, m) ELSE 0)
      /\ e[g] = (IF MintAt(g)' = k THEN HeldAt(g, m)' ELSE 0)
  BY DEF HeldOf
<1>5. \A h \in Groups : f[h] \in Int
  BY <1>1
<1>6. SumFunctionOnSet(HeldOf(m, k), Groups)' = SumFunctionOnSet(e, Groups)
  OBVIOUS
<1>7. SumFunctionOnSet(e, Groups) = SumFunctionOnSet(f, Groups) - f[g] + e[g]
  <2> HIDE DEF e, f
  <2> QED
    BY <1>1, <1>2, <1>3, <1>5, SumUpdate
<1>8. SumFunctionOnSet(f, Groups) \in Nat
  <2> HIDE DEF f
  <2> QED
    BY <1>1, SumNat
<1> QED
  BY <1>4, <1>6, <1>7, <1>8

LEMMA PotsOfChange ==
    ASSUME LedgerInv, LedgerInv', NEW g \in Groups,
           \A h \in Groups : h # g => Keeps(h), NEW k \in Mints
    PROVE  /\ SumFunctionOnSet(PotsOf(k), Groups)' =
                SumFunctionOnSet(PotsOf(k), Groups)
                - (IF MintAt(g) = k THEN PotAt(g) ELSE 0)
                + (IF MintAt(g)' = k THEN PotAt(g)' ELSE 0)
           /\ SumFunctionOnSet(PotsOf(k), Groups) \in Nat
<1> DEFINE f == PotsOf(k)
           e == PotsOf(k)'
<1>1. IsFiniteSet(Groups) /\ \A h \in Groups : f[h] \in Nat
  BY MoneyType, AddressAssumption DEF PotsOf
<1>2. e[g] \in Int
  <2>1. \A h \in Groups : PotAt(h)' \in Nat
    BY MoneyNatNext DEF MoneyNats
  <2> QED
    BY <2>1 DEF PotsOf
<1>3. \A h \in Groups \ {g} : e[h] = f[h]
  BY DEF PotsOf, Keeps
<1>4. /\ f[g] = (IF MintAt(g) = k THEN PotAt(g) ELSE 0)
      /\ e[g] = (IF MintAt(g)' = k THEN PotAt(g)' ELSE 0)
  BY DEF PotsOf
<1>5. \A h \in Groups : f[h] \in Int
  BY <1>1
<1>6. SumFunctionOnSet(PotsOf(k), Groups)' = SumFunctionOnSet(e, Groups)
  OBVIOUS
<1>7. SumFunctionOnSet(e, Groups) = SumFunctionOnSet(f, Groups) - f[g] + e[g]
  <2> HIDE DEF e, f
  <2> QED
    BY <1>1, <1>2, <1>3, <1>5, SumUpdate
<1>8. SumFunctionOnSet(f, Groups) \in Nat
  <2> HIDE DEF f
  <2> QED
    BY <1>1, SumNat
<1> QED
  BY <1>4, <1>6, <1>7, <1>8

\* A step that changes one token account by d.
Moves(a, d) == d \in Int /\ tokens' = [tokens EXCEPT ![a] = @ + d]

LEMMA PaysInMoves ==
    ASSUME LedgerInv, NEW g \in Groups, NEW m \in Members,
           NEW a \in TokenAccounts, NEW amount \in Nat, PaysIn(g, m, a, amount)
    PROVE  Moves(a, 0 - amount)
<1> DEFINE d == 0 - amount
<1>1. tokens[a] - amount = tokens[a] + d /\ d \in Int
  BY TokensNat
<1>2. tokens' = [tokens EXCEPT ![a] = tokens[a] - amount]
  BY DEF PaysIn
<1>3. Moves(a, d)
  <2> HIDE DEF d
  <2> QED
    BY <1>1, <1>2 DEF Moves
<1> QED
  BY <1>3

LEMMA GivesMoves ==
    ASSUME LedgerInv, NEW g \in Groups, NEW a \in TokenAccounts, Gives(g, a)
    PROVE  Moves(a, 0 - 1)
<1> DEFINE d == 0 - 1
<1>1. tokens[a] - 1 = tokens[a] + d /\ d \in Int
  BY TokensNat
<1>2. tokens' = [tokens EXCEPT ![a] = tokens[a] - 1]
  BY DEF Gives
<1>3. Moves(a, d)
  <2> HIDE DEF d
  <2> QED
    BY <1>1, <1>2 DEF Moves
<1> QED
  BY <1>3

LEMMA WithdrawsMoves ==
    ASSUME LedgerInv, NEW g \in Groups, NEW m \in Members,
           NEW a \in TokenAccounts, Withdraws(g, m, a)
    PROVE  Moves(a, HeldAt(g, m))
BY MoneyType DEF Withdraws, Moves

\* A step that moves tokens between one account and one vault of its mint.
LEMMA TotalMoved ==
    ASSUME LedgerInv, LedgerInv', NEW g \in Groups,
           \A h \in Groups : h # g => Keeps(h), NEW a \in TokenAccounts, NEW d,
           Moves(a, d), MintAt(g)' = MintAt(g), MintOf[a] = MintAt(g),
           PotAt(g)' = PotAt(g) - d, NEW k \in Mints
    PROVE  Total(k)' = Total(k)
<1> DEFINE S == MintAccounts(k)
           t == SumFunctionOnSet(tokens, S)
           u == SumFunctionOnSet(tokens', S)
           p == SumFunctionOnSet(PotsOf(k), Groups)
           q == SumFunctionOnSet(PotsOf(k), Groups)'
<1>1. d \in Int /\ S \in SUBSET TokenAccounts /\ IsFiniteSet(S)
  <2>1. S \in SUBSET TokenAccounts
    BY DEF MintAccounts
  <2> QED
    BY <2>1, AddressAssumption, FS_Subset DEF Moves
<1>2. u = t + (IF a \in S THEN d ELSE 0)
  BY <1>1, TokensMoved DEF Moves
<1>3. t \in Int
  <2>1. \A b \in S : tokens[b] \in Int
    BY <1>1, TokensNat
  <2> QED
    BY <1>1, <2>1, SumInt
<1>4. a \in S <=> MintAt(g) = k
  BY DEF MintAccounts
<1>5. /\ q = p - (IF MintAt(g) = k THEN PotAt(g) ELSE 0)
               + (IF MintAt(g)' = k THEN PotAt(g)' ELSE 0)
      /\ p \in Nat /\ PotAt(g) \in Nat
  BY PotsOfChange, MoneyType
<1>6. Total(k) = t + p /\ Total(k)' = u + q
  BY SumsHold, SumsHoldNext DEF SumsView, MintAccounts
<1>7. u + q = t + p
  <2> HIDE DEF t, u, p, q, S
  <2> QED
    BY <1>1, <1>2, <1>3, <1>4, <1>5
<1> QED
  BY <1>6, <1>7

LEMMA TotalSame ==
    ASSUME LedgerInv, LedgerInv', NoMoneyMoves, NEW k \in Mints
    PROVE  Total(k)' = Total(k)
<1>1. PotsOf(k)' = PotsOf(k) /\ tokens' = tokens
  BY DEF NoMoneyMoves, Keeps, PotsOf
<1> QED
  BY <1>1, SumsHold, SumsHoldNext DEF SumsView, MintAccounts

LEMMA TotalOpened ==
    ASSUME LedgerInv, LedgerInv', NEW g \in Groups,
           \A h \in Groups : h # g => Keeps(h), Opens(g), NEW k \in Mints
    PROVE  Total(k)' = Total(k)
<1>1. tokens' = tokens /\ PotAt(g)' = 0 /\ PotAt(g) = 0
  BY DEF Opens, PotAt, Unsettled
<1>2. SumFunctionOnSet(PotsOf(k), Groups)' = SumFunctionOnSet(PotsOf(k), Groups)
  BY <1>1, PotsOfChange
<1> QED
  BY <1>1, <1>2, SumsHold, SumsHoldNext DEF SumsView, MintAccounts

\* Settlement moves to wallets what the vault holds, but for what it burns.
LEMMA TotalPaidBack ==
    ASSUME LedgerInv, LedgerInv', NEW g \in Groups,
           \A h \in Groups : h # g => Keeps(h), NEW pairs, NEW burned,
           PaysBack(g, pairs, burned), NEW k \in Mints
    PROVE  /\ burned \in Nat
           /\ Total(k) \in Nat
           /\ Total(k)' = IF k = group[g].mint THEN Total(k) - burned ELSE Total(k)
<1> DEFINE S == MintAccounts(k)
           t == SumFunctionOnSet(tokens, S)
           u == SumFunctionOnSet(tokens', S)
           p == SumFunctionOnSet(PotsOf(k), Groups)
           q == SumFunctionOnSet(PotsOf(k), Groups)'
           paid == Paid(g, pairs, DOMAIN pairs)
           pot == PotAt(g)
<1>1. /\ Unsettled(g) /\ ~Unsettled(g)' /\ pairs \in PairLists
      /\ SettlementChecks(g, pairs) /\ pot = paid + burned
      /\ burned = UnownedVaultBalance(g)
  BY DEF PaysBack, PotAt
<1>2. S \in SUBSET TokenAccounts /\ IsFiniteSet(S) /\ \A a \in S : MintOf[a] = k
  <2>1. S \in SUBSET TokenAccounts /\ \A a \in S : MintOf[a] = k
    BY DEF MintAccounts
  <2> QED
    BY <2>1, AddressAssumption, FS_Subset
<1>3. pot \in Nat /\ burned \in Nat /\ paid \in Int
  <2>1. pot \in Nat
    BY MoneyType
  <2>2. burned \in Nat
    BY <1>1, <2>1 DEF UnownedVaultBalance, PotAt
  <2>3. paid = SumFunctionOnSet(Payouts(g, pairs), DOMAIN pairs)
    BY <1>1, CreditIsPayouts
  <2>4. \A i \in DOMAIN pairs : Payouts(g, pairs)[i] \in Int
    BY <1>1, CreditIsPayouts
  <2>5. SumFunctionOnSet(Payouts(g, pairs), DOMAIN pairs) \in Int
    BY <1>1, <2>4, PairListDomain, SumInt
  <2> HIDE DEF pot, paid
  <2> QED
    BY <2>1, <2>2, <2>3, <2>5
<1>4. t \in Nat
  <2>1. \A b \in S : tokens[b] \in Nat
    BY <1>2, TokensNat
  <2> QED
    BY <1>2, <2>1, SumNat
<1>5. u = IF k = group[g].mint THEN t + paid ELSE t
  <2>1. /\ u = t + SumFunctionOnSet(Credits(g, pairs), S)
        /\ k # group[g].mint => u = t
    BY <1>2, TokensCredited
  <2>2. k = group[g].mint => SumFunctionOnSet(Credits(g, pairs), S) = paid
    BY <1>1, CreditOfMint
  <2> HIDE DEF t, u, S, paid
  <2> QED
    BY <2>1, <2>2
<1>6. MintAt(g) = group[g].mint /\ MintAt(g)' # k
  BY <1>1, AddressAssumption DEF MintAt
<1>7. q = (IF k = group[g].mint THEN p - pot ELSE p) /\ p \in Nat
  <2>1. /\ q = p - (IF MintAt(g) = k THEN PotAt(g) ELSE 0)
                 + (IF MintAt(g)' = k THEN PotAt(g)' ELSE 0)
        /\ p \in Nat
    BY PotsOfChange
  <2> HIDE DEF p, q
  <2> QED
    BY <1>3, <1>6, <2>1
<1>8. Total(k) = t + p /\ Total(k)' = u + q
  BY SumsHold, SumsHoldNext DEF SumsView, MintAccounts
<1>9. /\ t + p \in Nat
      /\ u + q = IF k = group[g].mint THEN (t + p) - burned ELSE t + p
  <2> HIDE DEF t, u, p, q, S, paid, pot
  <2> QED
    BY <1>1, <1>3, <1>4, <1>5, <1>7
<1>10. Total(k)' = IF k = group[g].mint THEN Total(k) - burned ELSE Total(k)
  <2> HIDE DEF t, u, p, q
  <2> QED
    BY ONLY <1>8, <1>9
<1> QED
  BY <1>3, <1>8, <1>9, <1>10

\* The vault of a group without members is closed and its balance is gone.
Burns(k) ==
    \E g \in Groups :
        /\ Unsettled(g) /\ Joined(g) = {} /\ group[g].mint = k
        /\ ~Exists(vault'[g])
        /\ Total(k)' = Total(k) - vault[g].amount

LEMMA TotalStep ==
    ASSUME LedgerInv, [Next]_vars, NEW k \in Mints
    PROVE  Total(k)' = Total(k) \/ Burns(k)
<1>1. LedgerInv'
  BY NextLedgerInv
<1>2. ASSUME NEW g \in Groups, MoneyEffect(g), \A h \in Groups : h # g => Keeps(h)
      PROVE  Total(k)' = Total(k) \/ Burns(k)
  <2>1. CASE Opens(g)
    BY <1>1, <1>2, <2>1, TotalOpened
  <2>2. ASSUME NEW m \in Members, NEW a \in TokenAccounts, NEW amount \in Nat,
               PaysIn(g, m, a, amount)
        PROVE  Total(k)' = Total(k)
    <3>1. PotAt(g)' = PotAt(g) - (0 - amount)
      BY <2>2, MoneyType DEF PaysIn
    <3>2. Moves(a, 0 - amount)
      BY <2>2, PaysInMoves
    <3>3. MintAt(g)' = MintAt(g) /\ MintOf[a] = MintAt(g)
      BY <2>2 DEF PaysIn
    <3> QED
      BY <1>1, <1>2, <3>1, <3>2, <3>3, TotalMoved
  <2>3. ASSUME NEW a \in TokenAccounts, Gives(g, a)
        PROVE  Total(k)' = Total(k)
    <3>1. PotAt(g)' = PotAt(g) - (0 - 1)
      BY <2>3, MoneyType DEF Gives
    <3>2. Moves(a, 0 - 1)
      BY <2>3, GivesMoves
    <3>3. MintAt(g)' = MintAt(g) /\ MintOf[a] = MintAt(g)
      BY <2>3 DEF Gives
    <3> QED
      BY <1>1, <1>2, <3>1, <3>2, <3>3, TotalMoved
  <2>4. ASSUME NEW m \in Members, NEW a \in TokenAccounts, Withdraws(g, m, a)
        PROVE  Total(k)' = Total(k)
    <3>1. PotAt(g)' = PotAt(g) - HeldAt(g, m)
      BY <2>4 DEF Withdraws
    <3>2. Moves(a, HeldAt(g, m))
      BY <2>4, WithdrawsMoves
    <3>3. MintAt(g)' = MintAt(g) /\ MintOf[a] = MintAt(g)
      BY <2>4 DEF Withdraws
    <3> QED
      BY <1>1, <1>2, <3>1, <3>2, <3>3, TotalMoved
  <2>5. ASSUME NEW pairs, NEW burned, PaysBack(g, pairs, burned),
               Total(k)' # Total(k)
        PROVE  Burns(k)
    <3>1. /\ burned \in Nat /\ Total(k) \in Nat
          /\ Total(k)' = IF k = group[g].mint THEN Total(k) - burned ELSE Total(k)
      BY <1>1, <1>2, <2>5, TotalPaidBack
    <3>2. k = group[g].mint /\ burned # 0 /\ Total(k)' = Total(k) - burned
      BY <2>5, <3>1
    <3>3. /\ Unsettled(g) /\ burned = UnownedVaultBalance(g)
          /\ ~Exists(vault'[g])
      BY <2>5 DEF PaysBack
    <3>4. group[g].current_members = 0 /\ burned = vault[g].amount
      BY <3>2, <3>3 DEF UnownedVaultBalance
    <3>5. Joined(g) = {}
      <4>1. Cardinality(Joined(g)) = 0
        BY <3>3, <3>4 DEF LedgerInv, MembershipInv, GroupInv, Unsettled
      <4>2. IsFiniteSet(Joined(g))
        BY AddressAssumption, FS_Subset DEF Joined
      <4> QED
        BY <4>1, <4>2, FS_EmptySet
    <3> QED
      BY <3>2, <3>3, <3>4, <3>5 DEF Burns
  <2> QED
    BY <1>2, <2>1, <2>2, <2>3, <2>4, <2>5 DEF MoneyEffect
<1>3. CASE NoMoneyMoves
  BY <1>1, <1>3, TotalSame
<1> QED
  BY <1>2, <1>3, MoneyStep

\* emergency_cancel burns only what a group without members holds, all of it,
\* and no other instruction, transfer or list of pairs makes or loses tokens.
THEOREM TokensAreConserved == Spec => OnlyUnownedTokensBurn
<1>1. LedgerInv /\ [Next]_vars =>
        [\A mint \in Mints : Total(mint)' # Total(mint) => Burns(mint)]_vars
  BY TotalStep
<1> QED
  BY <1>1, Ledger, PTL DEF Spec, OnlyUnownedTokensBurn, Burns

\* So a mint never has more tokens than it had at the start.
SupplyKept ==
    \A k \in Mints : Total(k) <= Cardinality(MintAccounts(k)) * TokenFunds

LEMMA TotalNat ==
    ASSUME LedgerInv, NEW k \in Mints
    PROVE  /\ Total(k) = SumFunctionOnSet(tokens, MintAccounts(k))
                         + SumFunctionOnSet(PotsOf(k), Groups)
           /\ Total(k) \in Nat
           /\ IsFiniteSet(MintAccounts(k))
           /\ \A a \in MintAccounts(k) : tokens[a] \in Nat
           /\ SumFunctionOnSet(tokens, MintAccounts(k)) \in Nat
           /\ \A g \in Groups : PotsOf(k)[g] \in Nat
           /\ SumFunctionOnSet(PotsOf(k), Groups) \in Nat
<1>1. MintAccounts(k) \in SUBSET TokenAccounts
  BY DEF MintAccounts
<1>2. IsFiniteSet(MintAccounts(k)) /\ \A a \in MintAccounts(k) : tokens[a] \in Nat
  BY <1>1, AddressAssumption, FS_Subset, TokensNat
<1>3. SumFunctionOnSet(tokens, MintAccounts(k)) \in Nat
  BY <1>2, SumNat
<1>4. \A g \in Groups : PotsOf(k)[g] \in Nat
  BY MoneyType DEF PotsOf
<1>5. SumFunctionOnSet(PotsOf(k), Groups) \in Nat
  BY <1>4, AddressAssumption, SumNat
<1>6. Total(k) = SumFunctionOnSet(tokens, MintAccounts(k))
                 + SumFunctionOnSet(PotsOf(k), Groups)
  BY SumsHold DEF SumsView
<1> QED
  BY <1>2, <1>3, <1>4, <1>5, <1>6

LEMMA InitSupply ==
    ASSUME Init, LedgerInv
    PROVE  SupplyKept
<1> SUFFICES ASSUME NEW k \in Mints
             PROVE  Total(k) <= Cardinality(MintAccounts(k)) * TokenFunds
  BY DEF SupplyKept
<1>1. \A a \in MintAccounts(k) : tokens[a] = TokenFunds
  BY DEF Init, MintAccounts
<1>2. TokenFunds \in Nat
  BY AmountAssumption DEF U64
<1>3. SumFunctionOnSet(tokens, MintAccounts(k)) = Cardinality(MintAccounts(k)) * TokenFunds
  BY <1>1, <1>2, TotalNat, SumSameEverywhere
<1>4. \A g \in Groups : PotsOf(k)[g] = 0
  BY DEF Init, PotsOf, PotAt, Unsettled, Exists
<1>5. SumFunctionOnSet(PotsOf(k), Groups) = 0
  BY <1>4, AddressAssumption, SumZeros, SumEmpty
<1> QED
  BY <1>3, <1>5, TotalNat

LEMMA SupplyStep ==
    ASSUME LedgerInv, SupplyKept, [Next]_vars
    PROVE  SupplyKept'
<1> SUFFICES ASSUME NEW k \in Mints
             PROVE  Total(k)' <= Cardinality(MintAccounts(k)) * TokenFunds
  BY DEF SupplyKept, MintAccounts
<1>1. Total(k) <= Cardinality(MintAccounts(k)) * TokenFunds /\ Total(k) \in Nat
  BY TotalNat DEF SupplyKept
<1>2. Cardinality(MintAccounts(k)) * TokenFunds \in Nat
  BY TotalNat, FS_CardinalityType, AmountAssumption DEF U64
<1>3. ASSUME Burns(k)
      PROVE  Total(k)' <= Total(k) /\ Total(k)' \in Int
  <2>1. PICK g \in Groups : Unsettled(g) /\ Total(k)' = Total(k) - vault[g].amount
    BY <1>3 DEF Burns
  <2>2. vault[g].amount \in Nat
    BY <2>1, MoneyType, AmountAssumption DEF Vault, U64
  <2> QED
    BY <1>1, <2>1, <2>2
<1> QED
  BY <1>1, <1>2, <1>3, TotalStep

LEMMA SupplyBounded == Spec => []SupplyKept
<1>1. LedgerInv /\ Init => SupplyKept
  BY InitSupply
<1>2. LedgerInv /\ SupplyKept /\ [Next]_vars => SupplyKept'
  BY SupplyStep
<1> QED
  BY <1>1, <1>2, Ledger, PTL DEF Spec

LEMMA HoldingsNat ==
    ASSUME LedgerInv, NEW m \in Members, NEW k \in Mints
    PROVE  Holdings(m, k) \in Nat
<1> DEFINE f == HeldOf(m, k)
<1>1. \A g \in Groups : f[g] \in Nat
  BY MoneyType DEF HeldOf
<1>2. SumFunctionOnSet(f, Groups) \in Nat
  <2> HIDE DEF f
  <2> QED
    BY <1>1, AddressAssumption, SumNat
<1>3. Holdings(m, k) = WalletOf(m, k) + SumFunctionOnSet(f, Groups)
  BY SumsHold DEF SumsView
<1>4. WalletOf(m, k) \in Nat
  BY WalletNat
<1> HIDE DEF f
<1> QED
  BY <1>2, <1>3, <1>4

HoldingsNats == \A m \in Members, k \in Mints : Holdings(m, k) \in Nat

LEMMA HoldingsNatNext == LedgerInv' => HoldingsNats'
<1>1. LedgerInv => HoldingsNats
  BY HoldingsNat DEF HoldingsNats
<1> QED
  BY <1>1, PTL

\* What a step on one group and on wallets does to a member's holdings.
LEMMA HoldingsChange ==
    ASSUME LedgerInv, LedgerInv', NEW g \in Groups,
           \A h \in Groups : h # g => Keeps(h), NEW m \in Members, NEW k \in Mints,
           NEW w \in Int, WalletOf(m, k)' = WalletOf(m, k) + w,
           NEW d \in Int,
           d = (IF MintAt(g)' = k THEN HeldAt(g, m)' ELSE 0)
               - (IF MintAt(g) = k THEN HeldAt(g, m) ELSE 0)
    PROVE  Holdings(m, k)' = Holdings(m, k) + w + d
<1> DEFINE p == SumFunctionOnSet(HeldOf(m, k), Groups)
           q == SumFunctionOnSet(HeldOf(m, k), Groups)'
           x == IF MintAt(g) = k THEN HeldAt(g, m) ELSE 0
           y == IF MintAt(g)' = k THEN HeldAt(g, m)' ELSE 0
<1>1. q = p - x + y /\ p \in Nat
  BY HeldOfChange
<1>2. x \in Nat /\ y \in Nat
  BY MoneyNat, MoneyNatNext DEF MoneyNats
<1>3. WalletOf(m, k) \in Nat
  BY WalletNat
<1>4. Holdings(m, k) = WalletOf(m, k) + p /\ Holdings(m, k)' = WalletOf(m, k)' + q
  BY SumsHold, SumsHoldNext DEF SumsView
<1>5. d = y - x
  OBVIOUS
<1> HIDE DEF p, q, x, y
<1> QED
  BY <1>1, <1>2, <1>3, <1>4, <1>5

LEMMA HoldingsMoved ==
    ASSUME LedgerInv, LedgerInv', NEW g \in Groups,
           \A h \in Groups : h # g => Keeps(h), NEW a \in TokenAccounts, NEW d,
           Moves(a, d), MintAt(g)' = MintAt(g), MintOf[a] = MintAt(g),
           NEW m \in Members, NEW k \in Mints,
           HeldAt(g, m)' = HeldAt(g, m) - (IF m = OwnerOf[a] THEN d ELSE 0)
    PROVE  Holdings(m, k)' = Holdings(m, k)
<1> DEFINE w == IF m = OwnerOf[a] /\ k = MintOf[a] THEN d ELSE 0
           e == IF m = OwnerOf[a] /\ k = MintOf[a] THEN 0 - d ELSE 0
<1>1. d \in Int /\ w \in Int /\ e \in Int
  BY DEF Moves
<1>2. WalletOf(m, k)' = WalletOf(m, k) + w
  BY <1>1, WalletMoved DEF Moves
<1>3. HeldAt(g, m) \in Nat
  BY MoneyType
<1>4. e = (IF MintAt(g)' = k THEN HeldAt(g, m)' ELSE 0)
          - (IF MintAt(g) = k THEN HeldAt(g, m) ELSE 0)
  BY <1>1, <1>3
<1>5. w + e = 0
  BY <1>1
<1> HIDE DEF w, e
<1>6. Holdings(m, k)' = Holdings(m, k) + w + e
  BY <1>1, <1>2, <1>4, HoldingsChange
<1>7. Holdings(m, k) \in Nat
  BY HoldingsNat
<1> QED
  BY <1>1, <1>5, <1>6, <1>7

LEMMA HoldingsSame ==
    ASSUME LedgerInv, LedgerInv', NoMoneyMoves, NEW m \in Members, NEW k \in Mints
    PROVE  Holdings(m, k)' = Holdings(m, k)
<1>1. HeldOf(m, k)' = HeldOf(m, k) /\ tokens' = tokens
  BY DEF NoMoneyMoves, Keeps, HeldOf
<1>2. WalletOf(m, k)' = WalletOf(m, k)
  BY <1>1 DEF WalletOf, Accounts
<1> QED
  BY <1>1, <1>2, SumsHold, SumsHoldNext DEF SumsView

LEMMA HoldingsOpened ==
    ASSUME LedgerInv, LedgerInv', NEW g \in Groups,
           \A h \in Groups : h # g => Keeps(h), Opens(g),
           NEW m \in Members, NEW k \in Mints
    PROVE  Holdings(m, k)' = Holdings(m, k)
<1>1. tokens' = tokens /\ HeldAt(g, m)' = 0 /\ HeldAt(g, m) = 0
  BY DEF Opens, HeldAt, Unsettled
<1>2. WalletOf(m, k)' = WalletOf(m, k)
  BY <1>1 DEF WalletOf, Accounts
<1>3. SumFunctionOnSet(HeldOf(m, k), Groups)' = SumFunctionOnSet(HeldOf(m, k), Groups)
  BY <1>1, HeldOfChange
<1> QED
  BY <1>2, <1>3, SumsHold, SumsHoldNext DEF SumsView

\* Settlement gives every member what it held, and the last one paid the rest.
LEMMA HoldingsPaidBack ==
    ASSUME LedgerInv, LedgerInv', NEW g \in Groups,
           \A h \in Groups : h # g => Keeps(h), NEW pairs, NEW burned,
           PaysBack(g, pairs, burned), NEW m \in Members, NEW k \in Mints
    PROVE  Holdings(m, k)' >= Holdings(m, k)
<1> DEFINE extra == IF m = Lucky(pairs) THEN SpareAt(g) ELSE 0
           w == IF k # group[g].mint THEN 0 ELSE HeldAt(g, m) + extra
           d == IF k # group[g].mint THEN 0 ELSE 0 - HeldAt(g, m)
<1>1. /\ Unsettled(g) /\ ~Unsettled(g)' /\ pairs \in PairLists
      /\ SettlementChecks(g, pairs)
  BY DEF PaysBack
<1>2. extra \in Nat
  <2>1. Listed(pairs) = HeldIn(g) /\ vault[g].amount >= Listed(pairs)
    BY <1>1, ListedIsHeld DEF SettlementChecks
  <2>2. PotAt(g) = vault[g].amount /\ PotAt(g) \in Nat /\ HeldIn(g) \in Nat
    BY <1>1, MoneyType, HeldInNat DEF PotAt
  <2> QED
    BY <2>1, <2>2 DEF SpareAt
<1>3. HeldAt(g, m) \in Nat /\ WalletOf(m, k) \in Nat /\ Holdings(m, k) \in Nat
  BY MoneyType, WalletNat, HoldingsNat
<1>4. WalletOf(m, k)' = IF k # group[g].mint THEN WalletOf(m, k)
                        ELSE WalletOf(m, k) + HeldAt(g, m) + extra
  BY CreditedWallet
<1>5. w \in Int /\ d \in Int /\ WalletOf(m, k)' = WalletOf(m, k) + w /\ w + d >= 0
  <2> HIDE DEF extra
  <2> QED
    BY <1>2, <1>3, <1>4
<1>6. MintAt(g) = group[g].mint /\ MintAt(g)' # k
  BY <1>1, AddressAssumption DEF MintAt
<1>7. d = (IF MintAt(g)' = k THEN HeldAt(g, m)' ELSE 0)
          - (IF MintAt(g) = k THEN HeldAt(g, m) ELSE 0)
  BY <1>3, <1>6
<1> HIDE DEF w, d
<1>8. Holdings(m, k)' = Holdings(m, k) + w + d
  BY <1>5, <1>7, HoldingsChange
<1> QED
  BY <1>3, <1>5, <1>8

\* ADR-0005 for any number of groups, members, mints and accounts: no
\* instruction, whoever sent it and whatever accounts and pairs it names,
\* leaves a member with less, deposits in unsettled groups included; only the
\* member's own transfer to a vault does.
THEOREM NobodyLosesTokens == Spec => MembersKeepTheirTokens
<1>1. LedgerInv /\ [Next]_vars =>
        [\A m \in Members, mint \in Mints :
           Holdings(m, mint)' < Holdings(m, mint) => Donates(m)]_vars
  <2> SUFFICES ASSUME LedgerInv, [Next]_vars, NEW m \in Members, NEW k \in Mints,
                      Holdings(m, k)' < Holdings(m, k)
               PROVE  Donates(m)
    OBVIOUS
  <2>1. LedgerInv' /\ Holdings(m, k) \in Nat
    BY NextLedgerInv, HoldingsNat
  <2>2. Holdings(m, k)' # Holdings(m, k)
    BY <2>1
  <2>3. ASSUME NEW g \in Groups, MoneyEffect(g), \A h \in Groups : h # g => Keeps(h)
        PROVE  Donates(m)
    <3>1. ~Opens(g)
      BY <2>1, <2>2, <2>3, HoldingsOpened
    <3>2. ASSUME NEW n \in Members, NEW a \in TokenAccounts, NEW amount \in Nat,
                 PaysIn(g, n, a, amount)
          PROVE  FALSE
      <4>1. HeldAt(g, m)' = HeldAt(g, m) - (IF m = OwnerOf[a] THEN 0 - amount ELSE 0)
        BY <3>2, MoneyType DEF PaysIn
      <4>2. Moves(a, 0 - amount)
        BY <3>2, PaysInMoves
      <4>3. MintAt(g)' = MintAt(g) /\ MintOf[a] = MintAt(g)
        BY <3>2 DEF PaysIn
      <4> QED
        BY <2>1, <2>2, <2>3, <4>1, <4>2, <4>3, HoldingsMoved
    <3>3. ASSUME NEW n \in Members, NEW a \in TokenAccounts, Withdraws(g, n, a)
          PROVE  FALSE
      <4>1. HeldAt(g, m)' = HeldAt(g, m) - (IF m = OwnerOf[a] THEN HeldAt(g, n) ELSE 0)
        BY <3>3, MoneyType DEF Withdraws
      <4>2. Moves(a, HeldAt(g, n))
        BY <3>3, WithdrawsMoves
      <4>3. MintAt(g)' = MintAt(g) /\ MintOf[a] = MintAt(g)
        BY <3>3 DEF Withdraws
      <4> QED
        BY <2>1, <2>2, <2>3, <4>1, <4>2, <4>3, HoldingsMoved
    <3>4. ASSUME NEW a \in TokenAccounts, Gives(g, a)
          PROVE  Donates(m)
      <4>1. CASE OwnerOf[a] = m
        BY <3>4, <4>1 DEF Gives, Donates
      <4>2. CASE OwnerOf[a] # m
        <5>1. HeldAt(g, m)' = HeldAt(g, m) - (IF m = OwnerOf[a] THEN 0 - 1 ELSE 0)
          BY <3>4, <4>2, MoneyType DEF Gives
        <5>2. Moves(a, 0 - 1)
          BY <3>4, GivesMoves
        <5>3. MintAt(g)' = MintAt(g) /\ MintOf[a] = MintAt(g)
          BY <3>4 DEF Gives
        <5> QED
          BY <2>1, <2>2, <2>3, <5>1, <5>2, <5>3, HoldingsMoved
      <4> QED
        BY <4>1, <4>2
    <3>5. ASSUME NEW pairs, NEW burned, PaysBack(g, pairs, burned)
          PROVE  FALSE
      <4>1. Holdings(m, k)' >= Holdings(m, k)
        BY <2>1, <2>3, <3>5, HoldingsPaidBack
      <4>2. Holdings(m, k)' \in Int
        BY <2>1, HoldingsNatNext DEF HoldingsNats
      <4> QED
        BY <2>1, <4>1, <4>2
    <3> QED
      BY <2>3, <3>1, <3>2, <3>3, <3>4, <3>5 DEF MoneyEffect
  <2>4. CASE NoMoneyMoves
    BY <2>1, <2>2, <2>4, HoldingsSame
  <2> QED
    BY <2>3, <2>4, MoneyStep
<1> QED
  BY <1>1, Ledger, PTL DEF Spec, MembersKeepTheirTokens

------------------------------------------------------------------------------
(* Settlement is always possible                                           *)

\* An accepted list is paid the whole vault, or nobody when nobody is listed.
LEMMA PaidIsPot ==
    ASSUME LedgerInv, NEW g \in Groups, Unsettled(g), NEW pairs \in PairLists,
           SettlementChecks(g, pairs)
    PROVE  vault[g].amount = Paid(g, pairs, DOMAIN pairs) + UnownedVaultBalance(g)
<1> DEFINE n == Len(pairs)
           I == DOMAIN pairs
           f == Payouts(g, pairs)
           e == [i \in I |-> record[pairs[i].record].total_deposited]
           r == [i \in I |-> IF i = n THEN SpareAt(g) ELSE 0]
<1>1. n \in Nat /\ I = 1..n /\ IsFiniteSet(I)
  BY PairListDomain
<1>2. Paid(g, pairs, I) = SumFunctionOnSet(f, I)
  BY CreditIsPayouts
<1>3. PotAt(g) = vault[g].amount /\ PotAt(g) \in Nat /\ HeldIn(g) \in Nat
      /\ SpareAt(g) \in Int /\ SpareAt(g) = PotAt(g) - HeldIn(g)
  BY MoneyType, HeldInNat DEF PotAt, SpareAt
<1>4. n = group[g].current_members
  BY DEF SettlementChecks
<1>5. CASE n = 0
  <2>1. I = {}
    BY <1>1, <1>5
  <2>2. SumFunctionOnSet(f, I) = 0
    BY <2>1, SumEmpty
  <2>3. UnownedVaultBalance(g) = vault[g].amount
    BY <1>4, <1>5 DEF UnownedVaultBalance
  <2>4. vault[g].amount = 0 + vault[g].amount
    BY <1>3
  <2> QED
    BY <1>2, <2>2, <2>3, <2>4
<1>6. CASE n # 0
  <2>1. n \in I /\ UnownedVaultBalance(g) = 0
    BY <1>1, <1>4, <1>6 DEF UnownedVaultBalance
  <2>2. \A i \in I : e[i] \in Int /\ r[i] \in Int /\ f[i] = e[i] + r[i]
    <3>1. \A i \in I : e[i] = HeldAt(g, Who(pairs)[i]) /\ e[i] \in Int
      <4>1. \A i \in I : e[i] = HeldAt(g, Who(pairs)[i])
        BY ListedIsHeld
      <4>2. \A i \in I : Who(pairs)[i] \in Members
        BY ListCovers DEF Joined
      <4>3. \A m \in Members : HeldAt(g, m) \in Int
        BY MoneyType
      <4> HIDE DEF e, I
      <4> QED
        BY <4>1, <4>2, <4>3
    <3>2. \A i \in I : r[i] = (IF i = n THEN PotAt(g) - HeldIn(g) ELSE 0)
      BY <1>3
    <3>3. \A i \in I : r[i] \in Int
      BY <1>3
    <3>4. \A i \in I : f[i] = HeldAt(g, Who(pairs)[i])
                              + (IF i = n THEN PotAt(g) - HeldIn(g) ELSE 0)
      BY PayoutIsHeld DEF Payouts
    <3> HIDE DEF e, f, r, I, n
    <3> QED
      BY <3>1, <3>2, <3>3, <3>4
  <2>3. Listed(pairs) = SumFunctionOnSet(e, I)
    BY DEF Listed, SumFunction
  <2>4. Listed(pairs) = HeldIn(g)
    BY ListedIsHeld
  <2>5. r[n] = SpareAt(g) /\ \A i \in I \ {n} : r[i] = 0
    BY <2>1
  <2> HIDE DEF e, f, r, I, n
  <2>6. SumFunctionOnSet(f, I) = SumFunctionOnSet(e, I) + SumFunctionOnSet(r, I)
    BY <1>1, <2>2, SumPlus
  <2>7. SumFunctionOnSet(r, I) = SpareAt(g)
    <3>1. {n} \in SUBSET I /\ \A i \in {n} : r[i] \in Int
      BY <2>1, <2>2
    <3>2. SumFunctionOnSet(r, I) = SumFunctionOnSet(r, {n})
      BY <1>1, <2>5, <3>1, SumZeros
    <3>3. SumFunctionOnSet(r, {n}) = r[n]
      BY <3>1, SumOne
    <3> QED
      BY <2>5, <3>2, <3>3
  <2>8. vault[g].amount = SumFunctionOnSet(f, I) + 0
    <3>1. SumFunctionOnSet(f, I) = HeldIn(g) + (PotAt(g) - HeldIn(g))
      BY <1>3, <2>3, <2>4, <2>6, <2>7
    <3> QED
      BY ONLY <1>3, <3>1
  <2> QED
    BY <1>2, <2>1, <2>8 DEF f, I
<1> QED
  BY <1>5, <1>6

\* Whatever is paid back fits in the accounts that receive it, since it does
\* with all other tokens of the mint.
LEMMA CreditFits ==
    ASSUME LedgerInv, SupplyKept, NEW g \in Groups, Unsettled(g),
           NEW pairs \in PairLists, SettlementChecks(g, pairs),
           Cardinality(MintAccounts(group[g].mint)) * TokenFunds \in U64,
           NEW a \in TokenAccounts
    PROVE  tokens[a] + Credit(g, pairs, a) \in U64
<1> DEFINE k == group[g].mint
           A == MintAccounts(k)
           c == Credits(g, pairs)
<1>1. /\ tokens[a] \in U64 /\ tokens[a] \in Nat /\ MaxU64 \in Nat
      /\ Credit(g, pairs, a) = c[a]
  BY TokensNat, AmountAssumption DEF LedgerInv, MembershipInv, TypeOK, Credits
<1>2. CASE MintOf[a] # k
  <2>1. c[a] = 0
    BY <1>2, NoCreditOfOtherMint
  <2> QED
    BY <1>1, <2>1
<1>3. CASE MintOf[a] = k
  <2>1. k \in Mints /\ a \in A
    BY <1>3, AddressAssumption DEF MintAccounts
  <2>2. \A b \in A : c[b] \in Nat
    BY CreditIsPayouts DEF MintAccounts
  <2>3. SumFunctionOnSet(c, A) = Paid(g, pairs, DOMAIN pairs) /\ IsFiniteSet(A)
    BY <2>1, CreditOfMint, TotalNat
  <2> HIDE DEF c
  <2>4. c[a] <= SumFunctionOnSet(c, A) /\ SumFunctionOnSet(c, A) \in Nat
    BY <2>1, <2>2, <2>3, SumBounds, SumNat
  <2>5. tokens[a] <= SumFunctionOnSet(tokens, A)
    BY <2>1, TotalNat, SumBounds
  <2>6. PotsOf(k)[g] = vault[g].amount /\ vault[g].amount \in Nat
    BY MoneyType, AmountAssumption DEF PotsOf, PotAt, MintAt, Vault, U64
  <2>7. PotsOf(k)[g] <= SumFunctionOnSet(PotsOf(k), Groups)
    BY <2>1, TotalNat, AddressAssumption, SumBounds
  <2>8. /\ vault[g].amount = Paid(g, pairs, DOMAIN pairs) + UnownedVaultBalance(g)
        /\ UnownedVaultBalance(g) \in Nat
    BY <2>6, PaidIsPot DEF UnownedVaultBalance
  <2>9. Total(k) <= MaxU64
    <3>1. Total(k) \in Nat /\ Total(k) <= Cardinality(A) * TokenFunds
      BY <2>1, TotalNat DEF SupplyKept
    <3>2. Cardinality(A) * TokenFunds \in 0..MaxU64
      BY DEF U64
    <3> HIDE DEF A, k
    <3> QED
      BY <1>1, <3>1, <3>2
  <2>10. tokens[a] + c[a] <= Total(k)
    <3>1. /\ Total(k) = SumFunctionOnSet(tokens, A) + SumFunctionOnSet(PotsOf(k), Groups)
          /\ SumFunctionOnSet(tokens, A) \in Nat
          /\ SumFunctionOnSet(PotsOf(k), Groups) \in Nat
      BY <2>1, TotalNat
    <3> HIDE DEF A, k
    <3> QED
      BY <1>1, <2>1, <2>2, <2>3, <2>4, <2>5, <2>6, <2>7, <2>8, <3>1
  <2> QED
    <3>1. c[a] \in Nat /\ Total(k) \in Nat
      BY <2>1, <2>2, TotalNat
    <3> HIDE DEF A, k
    <3> QED
      BY <1>1, <2>9, <2>10, <3>1 DEF U64
<1> QED
  BY <1>2, <1>3

\* A list that names every member of the group, each with an account that can
\* receive.
LEMMA ListExists ==
    ASSUME LedgerInv, NEW g \in Groups, Unsettled(g),
           \A m \in Joined(g) : \E a \in TokenAccounts \ frozen : OwnAccount(a, g, m)
    PROVE  \E pairs \in PairLists :
             /\ NamesAll(g, pairs)
             /\ \A i \in DOMAIN pairs : pairs[i].account \notin frozen
<1> DEFINE n == Cardinality(Joined(g))
<1>1. IsFiniteSet(Joined(g)) /\ n \in Nat /\ ExistsBijection(1..n, Joined(g))
  BY JoinedFinite, FS_CardinalityType
<1>2. n <= Cardinality(Members)
  BY AddressAssumption, FS_Subset DEF Joined
<1>3. PICK who \in Bijection(1..n, Joined(g)) : TRUE
  BY <1>1 DEF ExistsBijection
<1>4. /\ who \in [1..n -> Joined(g)]
      /\ \A i, j \in 1..n : who[i] = who[j] => i = j
  BY <1>3 DEF Bijection, Injection, IsInjective
<1> DEFINE pay(m) == CHOOSE a \in TokenAccounts \ frozen : OwnAccount(a, g, m)
           pairs == [i \in 1..n |-> [record |-> <<g, who[i]>>, account |-> pay(who[i])]]
<1>5. \A m \in Joined(g) : pay(m) \in TokenAccounts \ frozen /\ OwnAccount(pay(m), g, m)
  OBVIOUS
<1> HIDE DEF pay
<1>6. \A i \in 1..n : /\ pairs[i].record = <<g, who[i]>>
                      /\ pairs[i].account = pay(who[i])
                      /\ who[i] \in Joined(g) /\ who[i] \in Members
  BY <1>4 DEF Joined
<1>7. pairs \in [1..n -> [record : Pdas, account : TokenAccounts]]
  BY <1>5, <1>6 DEF Pdas
<1>8. pairs \in PairLists
  <2>1. Cardinality(Members) \in Nat
    BY AddressAssumption, FS_CardinalityType
  <2>2. n \in 0..Cardinality(Members)
    BY <1>1, <1>2, <2>1
  <2> HIDE DEF pairs, n
  <2> QED
    BY <1>7, <2>2 DEF PairLists
<1>9. Len(pairs) = n /\ DOMAIN pairs = 1..n
  <2> HIDE DEF n
  <2> QED
    BY <1>1
<1>10. group[g].current_members = n
  BY DEF LedgerInv, MembershipInv, GroupInv, Unsettled
<1> HIDE DEF pairs
<1>11. ASSUME NEW i \in 1..n
       PROVE  /\ Exists(record[pairs[i].record])
              /\ pairs[i].record[1] = g
              /\ \A j \in 1..(i - 1) : pairs[j].record # pairs[i].record
              /\ OwnAccount(pairs[i].account, g, pairs[i].record[2])
              /\ pairs[i].account \notin frozen
  <2>1. Exists(record[pairs[i].record]) /\ pairs[i].record[1] = g
    <3>1. pairs[i].record = <<g, who[i]>> /\ who[i] \in Joined(g)
      BY <1>6
    <3>2. Exists(record[<<g, who[i]>>])
      BY <3>1 DEF Joined
    <3> QED
      BY ONLY <3>1, <3>2
  <2>2. ASSUME NEW j \in 1..(i - 1)
        PROVE  pairs[j].record # pairs[i].record
    <3>1. j \in 1..n /\ j # i
      <4> HIDE DEF n
      <4> QED
        BY <1>1
    <3>2. who[j] # who[i]
      BY <1>4, <3>1
    <3>3. pairs[j].record = <<g, who[j]>> /\ pairs[i].record = <<g, who[i]>>
      BY <1>6, <3>1
    <3> QED
      BY <3>2, <3>3
  <2>3. OwnAccount(pairs[i].account, g, pairs[i].record[2])
        /\ pairs[i].account \notin frozen
    BY <1>5, <1>6
  <2> QED
    BY <2>1, <2>2, <2>3
<1>12. NamesAll(g, pairs)
  BY <1>9, <1>10, <1>11 DEF NamesAll, ValidPairs
<1> QED
  BY <1>8, <1>9, <1>11, <1>12

\* The vault holds enough for every list that names each member once.
LEMMA NamedPasses ==
    ASSUME LedgerInv, VaultsBack, NEW g \in Groups, Unsettled(g),
           NEW pairs \in PairLists, NamesAll(g, pairs)
    PROVE  SettlementChecks(g, pairs)
<1>1. Listed(pairs) = HeldIn(g) /\ HeldIn(g) \in Nat
  BY NamedIsHeld, HeldInNat
<1>2. Exists(vault[g]) /\ vault[g].amount \in 0..MaxU64 /\ PotAt(g) = vault[g].amount
  BY MoneyType DEF PotAt, Vault, U64
<1>3. PotAt(g) >= HeldIn(g)
  BY DEF VaultsBack, BacksAt
<1>4. Listed(pairs) \in U64 /\ vault[g].amount >= Listed(pairs)
  BY <1>1, <1>2, <1>3, AmountAssumption DEF U64
<1> QED
  BY <1>2, <1>4 DEF SettlementChecks, NamesAll

\* distribute and emergency_cancel are never stuck, for any number of members
\* and any amounts: when every member has an account that can receive, some
\* list of pairs passes every check and empties the vault.
THEOREM SettlementNeverStuck == Spec => []SettlementAlwaysPossible
<1>1. LedgerInv /\ VaultsBack => SettlementAlwaysPossible
  <2> SUFFICES ASSUME LedgerInv, VaultsBack, NEW g \in Groups, Unsettled(g),
                      \A m \in Joined(g) :
                        \E a \in TokenAccounts \ frozen : OwnAccount(a, g, m)
               PROVE  \E pairs \in PairLists :
                        /\ SettlementChecks(g, pairs)
                        /\ vault[g].amount = Paid(g, pairs, DOMAIN pairs)
                                              + UnownedVaultBalance(g)
                        /\ \A i \in DOMAIN pairs : pairs[i].account \notin frozen
    BY DEF SettlementAlwaysPossible
  <2>1. PICK pairs \in PairLists :
               /\ NamesAll(g, pairs)
               /\ \A i \in DOMAIN pairs : pairs[i].account \notin frozen
    BY ListExists
  <2>2. SettlementChecks(g, pairs)
    BY <2>1, NamedPasses
  <2> QED
    BY <2>1, <2>2, PaidIsPot
<1> QED
  BY <1>1, Backing, PTL

==============================================================================
