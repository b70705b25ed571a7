--------------------------- MODULE SafeNudgeProofs ---------------------------
(***************************************************************************)
(* Theorems about SafeNudge for every value of its constants.              *)
(***************************************************************************)
EXTENDS SafeNudgeProperties, SafeNudgeRefinesChain, FiniteSetTheorems, TLAPS

------------------------------------------------------------------------------
(* Type correctness, one lemma per instruction                             *)

LEMMA CreateGroupType ==
    ASSUME TypeOK,
           NEW g \in Groups, NEW creator \in Creators, NEW payer \in Payers,
           NEW mint \in Mints, NEW amount \in DepositAmounts,
           NEW frequency \in 0..(MaxFrequency + 1), NEW periods \in PeriodCounts,
           NEW size \in GroupSizes,
           CreateGroup(g, creator, payer, mint, amount, frequency, periods, size)
    PROVE  TypeOK'
<1>1. Floor("group") \in Nat /\ Floor("vault") \in Nat
  BY AmountAssumption DEF TypeOK, Floor, Kinds
<1>2. amount \in U64 \ {0}
  BY AmountAssumption DEF CreateGroup, ValidArguments, U64
<1>3. group' \in [Groups -> GroupConfig \cup {None}]
  BY <1>1, <1>2 DEF TypeOK, CreateGroup, ValidArguments, GroupConfig, Statuses
<1>4. vault' \in [Groups -> Vault \cup {None}]
  BY <1>1, AmountAssumption DEF TypeOK, CreateGroup, Vault, U64
<1>5. purse' \in [Payers -> Nat]
  BY <1>1 DEF TypeOK, CreateGroup
<1> QED
  BY <1>3, <1>4, <1>5 DEF TypeOK, CreateGroup

LEMMA PayInType ==
    ASSUME TypeOK, NEW g \in Groups, NEW account \in TokenAccounts, NEW amount \in Nat,
           PayIn(g, account, amount)
    PROVE  /\ vault' \in [Groups -> Vault \cup {None}]
           /\ tokens' \in [TokenAccounts -> U64]
<1> USE AmountAssumption DEF TypeOK, PayIn
<1>1. vault[g] \in Vault
  BY DEF Exists
<1>2. vault' \in [Groups -> Vault \cup {None}]
  BY <1>1 DEF Vault
<1>3. tokens' \in [TokenAccounts -> U64]
  BY DEF U64
<1> QED
  BY <1>2, <1>3

LEMMA SetJoinAuthorityType ==
    ASSUME TypeOK, NEW g \in Groups, NEW authority \in Keys,
           SetJoinAuthority(g, authority)
    PROVE  TypeOK'
<1>1. Floor("gate") \in Nat
  BY AmountAssumption DEF TypeOK, Floor, Kinds
<1>2. group[g] \in GroupConfig
  BY DEF TypeOK, SetJoinAuthority, Exists
<1>3. gate' \in [Groups -> JoinGate \cup {None}]
  BY <1>1 DEF TypeOK, SetJoinAuthority, JoinGate
<1>4. purse' \in [Payers -> Nat]
  BY <1>1, <1>2 DEF TypeOK, SetJoinAuthority, GroupConfig
<1> QED
  BY <1>3, <1>4 DEF TypeOK, SetJoinAuthority

LEMMA JoinGroupType ==
    ASSUME TypeOK, NEW g \in Groups, NEW m \in Members, NEW payer \in Payers,
           NEW account \in TokenAccounts, NEW authority, NEW durable, NEW terms,
           NEW expected,
           JoinGroup(g, m, payer, account, authority, durable, terms, expected)
    PROVE  TypeOK'
<1>1. Floor("record") \in Nat /\ Floor("tally") \in Nat
  BY AmountAssumption DEF TypeOK, Floor, Kinds
<1>2. /\ group[g] \in GroupConfig
      /\ group[g].current_members < group[g].max_members
  BY DEF TypeOK, JoinGroup, Exists
<1>3. <<g, m>> \in Pdas
  BY DEF Pdas
<1>4. record' \in [Pdas -> MemberRecord \cup {None}]
  BY <1>1, <1>2, <1>3, AmountAssumption
  DEF TypeOK, JoinGroup, GroupConfig, MemberRecord, U64, U8, MaxPeriods
<1>5. group' \in [Groups -> GroupConfig \cup {None}]
  BY <1>2 DEF TypeOK, JoinGroup, GroupConfig
<1>6. tally' \in [Pdas -> JoinTally \cup {None}]
  <2>1. Joins(g, m) \in Nat /\ Joins(g, m) + 1 \in U32
    BY <1>3, AmountAssumption DEF TypeOK, JoinGroup, Joins, JoinTally, Exists, U32
  <2>2. CountJoin(g, m, payer) \in JoinTally
    <3>1. CASE Joins(g, m) = 0
      BY <3>1, <2>1, <1>1, AmountAssumption DEF CountJoin, JoinTally, U32
    <3>2. CASE Joins(g, m) # 0
      <4>1. tally[<<g, m>>] \in JoinTally /\ tally[<<g, m>>].joins = Joins(g, m)
        BY <3>2, <1>3 DEF Joins, TypeOK, Exists
      <4> QED
        BY <4>1, <3>2, <2>1, AmountAssumption DEF CountJoin, JoinTally, U32
    <3> QED
      BY <3>1, <3>2
  <2> QED
    BY <2>2, <1>3 DEF TypeOK, JoinGroup
<1>7. purse' \in [Payers -> Nat]
  <2> DEFINE rent == Floor("record")
                      + (IF Exists(tally[<<g, m>>]) THEN 0 ELSE Floor("tally"))
  <2>1. rent \in Nat
    BY <1>1
  <2>2. purse[payer] >= rent /\ purse' = [purse EXCEPT ![payer] = @ - rent]
    BY DEF JoinGroup
  <2> HIDE DEF rent
  <2> QED
    BY <2>1, <2>2 DEF TypeOK
<1>8. /\ vault' \in [Groups -> Vault \cup {None}]
      /\ tokens' \in [TokenAccounts -> U64]
  <2>1. group[g].deposit_amount \in Nat
    BY <1>2, AmountAssumption DEF GroupConfig, U64
  <2> QED
    BY <2>1, PayInType DEF JoinGroup
<1> QED
  BY <1>4, <1>5, <1>6, <1>7, <1>8 DEF TypeOK, JoinGroup

LEMMA CloseRecordType ==
    ASSUME TypeOK, NEW g \in Groups, NEW m \in Members,
           Exists(group[g]), CloseRecord(g, m)
    PROVE  /\ group' \in [Groups -> GroupConfig \cup {None}]
           /\ record' \in [Pdas -> MemberRecord \cup {None}]
           /\ purse' \in [Payers -> Nat]
<1>1. group[g] \in GroupConfig /\ group[g].current_members > 0
  BY DEF TypeOK, CloseRecord, Exists
<1>2. <<g, m>> \in Pdas /\ record[<<g, m>>] \in MemberRecord
  BY DEF TypeOK, CloseRecord, Exists, Pdas
<1>3. group' \in [Groups -> GroupConfig \cup {None}]
  BY <1>1 DEF TypeOK, CloseRecord, GroupConfig
<1>4. record' \in [Pdas -> MemberRecord \cup {None}]
  BY <1>2 DEF TypeOK, CloseRecord
<1>5. purse' \in [Payers -> Nat]
  BY <1>2 DEF TypeOK, CloseRecord, MemberRecord
<1> QED
  BY <1>3, <1>4, <1>5

LEMMA LeaveGroupType ==
    ASSUME TypeOK, NEW g \in Groups, NEW m \in Members,
           NEW account \in TokenAccounts, LeaveGroup(g, m, account)
    PROVE  TypeOK'
<1>1. record[<<g, m>>].total_deposited \in Nat
  BY AmountAssumption
  DEF TypeOK, LeaveGroup, CloseRecord, Exists, Pdas, MemberRecord, U64
<1>2. vault[g] \in Vault
  BY DEF TypeOK, LeaveGroup, Exists
<1>3. vault' \in [Groups -> Vault \cup {None}]
  BY <1>1, <1>2, AmountAssumption DEF TypeOK, LeaveGroup, Vault, U64
<1>4. tokens' \in [TokenAccounts -> U64]
  BY <1>1 DEF TypeOK, LeaveGroup
<1> QED
  BY <1>3, <1>4, CloseRecordType DEF TypeOK, LeaveGroup

LEMMA StartCycleType ==
    ASSUME TypeOK, NEW g \in Groups, StartCycle(g)
    PROVE  TypeOK'
<1>1. group[g] \in GroupConfig
  BY DEF TypeOK, StartCycle, Exists
<1>2. group' \in [Groups -> GroupConfig \cup {None}]
  BY <1>1 DEF TypeOK, StartCycle, GroupConfig, Statuses
<1> QED
  BY <1>2 DEF TypeOK, StartCycle

LEMMA DepositRecord ==
    ASSUME TypeOK, NEW g \in Groups, NEW m \in Members,
           NEW account \in TokenAccounts, Deposit(g, m, account)
    PROVE  /\ record' \in [Pdas -> MemberRecord \cup {None}]
           /\ record'[<<g, m>>] \in MemberRecord
<1> DEFINE cfg == group[g]
           rec == record[<<g, m>>]
           period == CurrentPeriod(cfg, now)
           total == rec.total_deposited + cfg.deposit_amount
<1>1. cfg \in GroupConfig
  BY DEF TypeOK, Deposit, Exists
<1>2. <<g, m>> \in Pdas /\ rec \in MemberRecord
  BY DEF TypeOK, Deposit, Exists, Pdas
<1>3. period \in 0..MaxPeriods - 1
  <2>1. ElapsedPeriods(cfg, now) \in 0..255 /\ cfg.total_periods \in 1..52
    BY <1>1 DEF Deposit, U8, GroupConfig, MaxPeriods
  <2> DEFINE elapsed == ElapsedPeriods(cfg, now)
             last == cfg.total_periods
  <2>2. period = IF elapsed <= last - 1 THEN elapsed ELSE last - 1
    BY DEF CurrentPeriod
  <2>3. elapsed \in 0..255 /\ last \in 1..52
    BY <2>1
  <2> HIDE DEF elapsed, last, period
  <2> QED
    BY <2>2, <2>3 DEF MaxPeriods
<1>4. /\ total \in U64
      /\ rec.deposits_made + 1 \in U8
      /\ record' = [record EXCEPT ![<<g, m>>].periods_deposited = @ \cup {period},
                                  ![<<g, m>>].deposits_made = @ + 1,
                                  ![<<g, m>>].total_deposited = total]
  BY DEF Deposit
<1> HIDE DEF period, total
<1> QED
  BY <1>2, <1>3, <1>4 DEF TypeOK, MemberRecord

LEMMA DepositType ==
    ASSUME TypeOK, NEW g \in Groups, NEW m \in Members,
           NEW account \in TokenAccounts, Deposit(g, m, account)
    PROVE  TypeOK'
<1>1. group[g].deposit_amount \in Nat
  BY AmountAssumption DEF TypeOK, Deposit, Exists, GroupConfig, U64
<1>2. /\ vault' \in [Groups -> Vault \cup {None}]
      /\ tokens' \in [TokenAccounts -> U64]
  BY <1>1, PayInType DEF Deposit
<1> QED
  BY <1>2, DepositRecord DEF TypeOK, Deposit

LEMMA SettledGroup ==
    ASSUME TypeOK, NEW g \in Groups, NEW pairs, NEW burned, NEW outcome \in Statuses,
           Exists(group[g]), Exists(vault[g]), Settle(g, pairs, burned, outcome)
    PROVE  /\ group' \in [Groups -> GroupConfig \cup {None}]
           /\ group'[g] \in GroupConfig
<1> DEFINE lamports == group[g].lamports + vault[g].lamports
           cfg == [group[g] EXCEPT !.status = outcome, !.settled_at = now,
                                   !.lamports = lamports]
<1>1. group[g] \in GroupConfig /\ vault[g].lamports \in Nat
  BY DEF TypeOK, Exists, Vault
<1>2. lamports \in Nat
  BY <1>1 DEF GroupConfig
<1>3. cfg \in GroupConfig
  <2> HIDE DEF lamports
  <2> QED
    BY <1>1, <1>2 DEF TypeOK, GroupConfig
<1>4. group' = [group EXCEPT ![g] = cfg]
  BY <1>1 DEF TypeOK, Settle, GroupConfig
<1> HIDE DEF cfg
<1> QED
  BY <1>3, <1>4 DEF TypeOK

LEMMA SettleType ==
    ASSUME TypeOK, NEW g \in Groups, NEW pairs, NEW burned, NEW outcome \in Statuses,
           Exists(group[g]), Exists(vault[g]), Settle(g, pairs, burned, outcome)
    PROVE  TypeOK'
<1>1. tokens' \in [TokenAccounts -> U64]
  BY DEF TypeOK, Settle, CanSettle
<1>2. vault' \in [Groups -> Vault \cup {None}]
  BY DEF TypeOK, Settle
<1> QED
  BY <1>1, <1>2, SettledGroup DEF TypeOK, Settle

LEMMA RefundVaultRentType ==
    ASSUME TypeOK, NEW g \in Groups, RefundVaultRent(g)
    PROVE  TypeOK'
<1>1. group[g] \in GroupConfig
  BY DEF TypeOK, RefundVaultRent, Exists
<1>2. Floor("group") \in Nat
  BY AmountAssumption DEF TypeOK, Floor, Kinds
<1>3. LamportsAboveRentFloor(g) \in 0..group[g].lamports
  BY <1>1, <1>2 DEF LamportsAboveRentFloor, GroupConfig
<1>4. group' \in [Groups -> GroupConfig \cup {None}]
  BY <1>1, <1>3 DEF TypeOK, RefundVaultRent, GroupConfig
<1>5. purse' \in [Payers -> Nat]
  BY <1>1, <1>3 DEF TypeOK, RefundVaultRent, GroupConfig
<1> QED
  BY <1>4, <1>5 DEF TypeOK, RefundVaultRent

LEMMA CloseMemberRecordType ==
    ASSUME TypeOK, NEW g \in Groups, NEW m \in Members, CloseMemberRecord(g, m)
    PROVE  TypeOK'
BY CloseRecordType DEF TypeOK, CloseMemberRecord

LEMMA CloseGroupType ==
    ASSUME TypeOK, NEW g \in Groups, CloseGroup(g)
    PROVE  TypeOK'
<1>1. group[g] \in GroupConfig
  BY DEF TypeOK, CloseGroup, Exists
<1>2. (IF Exists(gate[g]) THEN gate[g].lamports ELSE 0) \in Nat
  BY DEF TypeOK, Exists, JoinGate
<1>3. purse' \in [Payers -> Nat]
  BY <1>1, <1>2 DEF TypeOK, CloseGroup, GroupConfig
<1> QED
  BY <1>3 DEF TypeOK, CloseGroup

LEMMA CloseJoinTallyType ==
    ASSUME TypeOK, NEW g \in Groups, NEW m \in Members, CloseJoinTally(g, m)
    PROVE  TypeOK'
<1>1. <<g, m>> \in Pdas /\ tally[<<g, m>>] \in JoinTally
  BY DEF TypeOK, CloseJoinTally, Exists, Pdas
<1>2. tally' \in [Pdas -> JoinTally \cup {None}]
  BY <1>1 DEF TypeOK, CloseJoinTally
<1>3. purse' \in [Payers -> Nat]
  BY <1>1 DEF TypeOK, CloseJoinTally, JoinTally
<1> QED
  BY <1>2, <1>3 DEF TypeOK, CloseJoinTally

LEMMA EnvironmentType ==
    ASSUME TypeOK, Environment
    PROVE  TypeOK'
<1>1. CASE Tick
  BY <1>1 DEF TypeOK, Tick
<1>2. ASSUME NEW r \in Rates, ChangeRentRate(r)
      PROVE  TypeOK'
  BY <1>2 DEF TypeOK, ChangeRentRate
<1>3. ASSUME NEW a \in Freezable, Freeze(a) \/ Thaw(a)
      PROVE  TypeOK'
  BY <1>3, AddressAssumption DEF TypeOK, Freeze, Thaw
<1>4. ASSUME NEW g \in Groups, NEW a \in TokenAccounts, DonateTokens(g, a)
      PROVE  TypeOK'
  BY <1>4, PayInType DEF TypeOK, DonateTokens
<1>5. ASSUME NEW g \in Groups, NEW payer \in Payers, NEW amount \in 1..MaxTopUp,
             TopUp(g, payer, amount)
      PROVE  TypeOK'
  <2>1. group[g] \in GroupConfig /\ amount \in Nat
    BY <1>5, AmountAssumption DEF TypeOK, TopUp, Exists
  <2>2. group' \in [Groups -> GroupConfig \cup {None}]
    BY <1>5, <2>1 DEF TypeOK, TopUp, GroupConfig
  <2>3. purse' \in [Payers -> Nat]
    BY <1>5, <2>1 DEF TypeOK, TopUp
  <2> QED
    BY <1>5, <2>2, <2>3 DEF TypeOK, TopUp
<1> QED
  BY <1>1, <1>2, <1>3, <1>4, <1>5 DEF Environment

LEMMA NextType ==
    ASSUME TypeOK, [Next]_vars
    PROVE  TypeOK'
<1>1. ASSUME NEW g \in Groups, Join(g)
      PROVE  TypeOK'
  BY <1>1, JoinGroupType DEF Join
<1>2. ASSUME NEW g \in Groups, LeaveOrDeposit(g)
      PROVE  TypeOK'
  BY <1>2, LeaveGroupType, DepositType DEF LeaveOrDeposit
<1>3. ASSUME NEW g \in Groups, CrankStep(g)
      PROVE  TypeOK'
  <2>1. ASSUME NEW pairs \in PairLists, Distribute(g, pairs)
        PROVE  TypeOK'
    BY <2>1, SettleType DEF Distribute, SettlementChecks, Statuses
  <2> QED
    BY <1>3, <2>1, RefundVaultRentType, CloseMemberRecordType, CloseJoinTallyType,
       CloseGroupType DEF CrankStep
<1>4. ASSUME NEW g \in Groups, CreatorStep(g)
      PROVE  TypeOK'
  <2>1. ASSUME Create(g)
        PROVE  TypeOK'
    BY <2>1, CreateGroupType DEF Create
  <2>2. ASSUME NEW pairs \in PairLists, NEW mint_writable \in BOOLEAN,
               EmergencyCancel(g, pairs, mint_writable)
        PROVE  TypeOK'
    BY <2>2, SettleType DEF EmergencyCancel, CancelChecks, SettlementChecks, Statuses
  <2> QED
    BY <1>4, <2>1, <2>2, SetJoinAuthorityType, StartCycleType DEF CreatorStep
<1>5. CASE UNCHANGED vars
  BY <1>5 DEF vars, TypeOK
<1> QED
  BY <1>1, <1>2, <1>3, <1>4, <1>5, EnvironmentType DEF Next

\* Every reachable state is well-typed: in particular no balance, count or rent
\* ever leaves its width, no member list passes ten and no period passes 52.
THEOREM TypeCorrect == Spec => []TypeOK
<1>1. Init => TypeOK
  BY AmountAssumption DEF Init, TypeOK
<1>2. TypeOK /\ [Next]_vars => TypeOK'
  BY NextType
<1> QED
  BY <1>1, <1>2, PTL DEF Spec

------------------------------------------------------------------------------
(* Membership: the count, the records, the gate and the vault of a group   *)
(* agree.  CountMatchesRecords alone is not inductive: a group created at  *)
(* a freed code starts with the count 0, which matches only when the code  *)
(* was left clean, and close_group leaves it clean only because the count  *)
(* was exact and because settlement had closed the vault.                  *)

GroupInv(g) ==
    IF Exists(group[g])
    THEN /\ group[g].current_members = Cardinality(Joined(g))
         /\ group[g].current_members <= group[g].max_members
         /\ group[g].status = "Active" => group[g].current_members >= 2
         /\ Exists(vault[g]) <=> ~Settled(g)
    ELSE Joined(g) = {} /\ ~Exists(gate[g]) /\ ~Exists(vault[g])

MembershipInv == TypeOK /\ \A g \in Groups : GroupInv(g)

LEMMA JoinedFinite ==
    ASSUME NEW g \in Groups
    PROVE  /\ IsFiniteSet(Joined(g))
           /\ Cardinality(Joined(g)) \in Nat
           /\ Cardinality(Joined(g)) = 0 <=> Joined(g) = {}
<1>1. IsFiniteSet(Members) /\ Joined(g) \subseteq Members
  BY AddressAssumption DEF Joined
<1>2. IsFiniteSet(Joined(g))
  BY <1>1, FS_Subset
<1> QED
  BY <1>2, FS_CardinalityType, FS_EmptySet

\* No other group notices: what GroupInv(g) says depends only on these.
LEMMA GroupInvFrame ==
    ASSUME NEW g \in Groups, GroupInv(g),
           group'[g] = group[g], gate'[g] = gate[g],
           Exists(vault'[g]) <=> Exists(vault[g]),
           \A m \in Members :
               Exists(record'[<<g, m>>]) <=> Exists(record[<<g, m>>])
    PROVE  GroupInv(g)'
<1>1. Joined(g)' = Joined(g)
  BY DEF Joined
<1> QED
  BY <1>1 DEF GroupInv, Exists, Settled

LEMMA PayInKeepsVaults ==
    ASSUME TypeOK, NEW g \in Groups, NEW account, NEW amount,
           PayIn(g, account, amount), NEW h \in Groups
    PROVE  Exists(vault'[h]) <=> Exists(vault[h])
<1>1. vault[g] \in Vault /\ vault' \in [Groups -> Vault \cup {None}]
  <2>1. vault[g] \in Vault
    BY DEF PayIn, TypeOK, Exists
  <2> QED
    BY <2>1 DEF PayIn, TypeOK, Vault
<1>2. vault'[g] \in Vault
  BY <1>1 DEF PayIn, TypeOK, Vault
<1>3. h # g => vault'[h] = vault[h]
  BY DEF PayIn, TypeOK
<1> QED
  BY <1>1, <1>2, <1>3, NoneAssumption DEF Exists, PayIn

LEMMA CreateGroupInv ==
    ASSUME MembershipInv,
           NEW g \in Groups, NEW creator \in Creators, NEW payer \in Payers,
           NEW mint \in Mints, NEW amount \in DepositAmounts,
           NEW frequency \in 0..(MaxFrequency + 1), NEW periods \in PeriodCounts,
           NEW size \in GroupSizes,
           CreateGroup(g, creator, payer, mint, amount, frequency, periods, size),
           TypeOK', NEW h \in Groups
    PROVE  GroupInv(h)'
<1>1. CASE h = g
  <2>1. /\ Joined(g) = {}
        /\ Joined(g)' = Joined(g)
    BY DEF MembershipInv, GroupInv, CreateGroup, Joined
  <2>2. /\ group'[g].current_members = 0 /\ group'[g].status = "Open"
        /\ group'[g].max_members \in 2..10
        /\ Exists(group'[g]) /\ Exists(vault'[g])
    <3>1. /\ group'[g] = [creator |-> creator, rent_payer |-> payer, mint |-> mint,
                deposit_amount |-> amount, cycle_start |-> 0, settled_at |-> 0,
                frequency |-> frequency, total_periods |-> periods,
                max_members |-> size, current_members |-> 0,
                status |-> "Open", lamports |-> Floor("group")]
          /\ vault'[g] = [amount |-> 0, lamports |-> Floor("vault")]
      BY DEF MembershipInv, TypeOK, CreateGroup
    <3>2. size \in 2..10
      BY DEF CreateGroup, ValidArguments
    <3>3. Floor("group") \in Nat /\ Floor("vault") \in Nat
      BY AmountAssumption DEF MembershipInv, TypeOK, Floor, Kinds
    <3>4. vault'[g] \in Vault
      BY <3>1, <3>3, AmountAssumption DEF Vault, U64
    <3>5. group'[g] \in GroupConfig
      BY <3>1, <3>2, <3>3, AmountAssumption
      DEF CreateGroup, ValidArguments, GroupConfig, U64, Statuses
    <3> QED
      BY <3>1, <3>2, <3>4, <3>5, NoneAssumption DEF Exists
  <2>3. Cardinality(Joined(g))' = 0
    BY <2>1, FS_EmptySet
  <2>4. ~Settled(g)'
    BY <2>2 DEF Settled
  <2> QED
    BY <1>1, <2>2, <2>3, <2>4 DEF GroupInv
<1>2. CASE h # g
  BY <1>2, GroupInvFrame DEF MembershipInv, TypeOK, CreateGroup
<1> QED
  BY <1>1, <1>2

LEMMA SetJoinAuthorityInv ==
    ASSUME MembershipInv, NEW g \in Groups, NEW authority \in Keys,
           SetJoinAuthority(g, authority), NEW h \in Groups
    PROVE  GroupInv(h)'
<1>1. Joined(h)' = Joined(h)
  BY DEF SetJoinAuthority, Joined
<1>2. group' = group /\ vault' = vault
  BY DEF SetJoinAuthority
<1>3. Exists(group[g]) /\ (h # g => gate'[h] = gate[h])
  BY DEF MembershipInv, TypeOK, SetJoinAuthority
<1> QED
  BY <1>1, <1>2, <1>3 DEF MembershipInv, GroupInv, Settled, Exists

LEMMA JoinGroupInv ==
    ASSUME MembershipInv, NEW g \in Groups, NEW m \in Members, NEW payer \in Payers,
           NEW account \in TokenAccounts, NEW authority, NEW durable, NEW terms,
           NEW expected,
           JoinGroup(g, m, payer, account, authority, durable, terms, expected),
           TypeOK', NEW h \in Groups
    PROVE  GroupInv(h)'
<1>1. Exists(vault'[h]) <=> Exists(vault[h])
  BY PayInKeepsVaults DEF MembershipInv, JoinGroup
<1>2. CASE h = g
  <2>1. group[g] \in GroupConfig /\ group[g].status = "Open"
        /\ group[g].current_members < group[g].max_members
    BY DEF MembershipInv, TypeOK, JoinGroup, Exists
  <2>2. group'[g] = [group[g] EXCEPT !.current_members = @ + 1]
    BY DEF MembershipInv, TypeOK, JoinGroup
  <2>3. group'[g] \in GroupConfig
    BY <2>1, <2>2 DEF GroupConfig
  <2>4. record'[<<g, m>>] # None /\ record[<<g, m>>] = None
    <3>1. /\ <<g, m>> \in Pdas
          /\ Floor("record") \in Nat
      BY AmountAssumption DEF MembershipInv, TypeOK, Floor, Kinds, Pdas
    <3>2. record'[<<g, m>>] =
            [rent_payer |-> payer, total_deposited |-> group[g].deposit_amount,
             deposits_made |-> 1, periods_deposited |-> {0},
             lamports |-> Floor("record")]
      BY <3>1 DEF MembershipInv, TypeOK, JoinGroup
    <3>3. record'[<<g, m>>] \in MemberRecord
      BY <3>1, <3>2, <2>1, AmountAssumption
      DEF MemberRecord, GroupConfig, U64, U8, MaxPeriods
    <3> QED
      BY <3>3, NoneAssumption DEF JoinGroup, Exists
  <2>5. \A n \in Members : n # m => record'[<<g, n>>] = record[<<g, n>>]
    BY DEF MembershipInv, TypeOK, JoinGroup, Pdas
  <2>6. m \notin Joined(g) /\ Joined(g)' = Joined(g) \cup {m}
    BY <2>4, <2>5 DEF Joined, Exists
  <2>7. Cardinality(Joined(g))' = Cardinality(Joined(g)) + 1
    BY <2>6, JoinedFinite, FS_AddElement
  <2>8. group[g].current_members = Cardinality(Joined(g)) /\ Exists(vault[g])
    BY <2>1 DEF MembershipInv, GroupInv, Settled, JoinGroup
  <2> QED
    BY <1>1, <1>2, <2>1, <2>2, <2>3, <2>7, <2>8, NoneAssumption
    DEF GroupInv, GroupConfig, Settled, Exists
<1>3. CASE h # g
  <2>1. \A n \in Members : record'[<<h, n>>] = record[<<h, n>>]
    BY <1>3 DEF MembershipInv, TypeOK, JoinGroup, Pdas
  <2>2. group'[h] = group[h] /\ gate'[h] = gate[h]
    BY <1>3 DEF MembershipInv, TypeOK, JoinGroup
  <2> QED
    BY <1>1, <2>1, <2>2, GroupInvFrame DEF MembershipInv
<1> QED
  BY <1>2, <1>3

LEMMA CloseRecordInv ==
    ASSUME MembershipInv, NEW g \in Groups, NEW m \in Members,
           Exists(group[g]), group[g].status # "Active", CloseRecord(g, m),
           gate' = gate,
           NEW h \in Groups, Exists(vault'[h]) <=> Exists(vault[h])
    PROVE  GroupInv(h)'
<1>1. CASE h = g
  <2>1. group[g] \in GroupConfig /\ group[g].current_members > 0
    BY DEF MembershipInv, TypeOK, CloseRecord, Exists
  <2>2. group'[g] = [group[g] EXCEPT !.current_members = @ - 1]
    BY DEF MembershipInv, TypeOK, CloseRecord
  <2>3. group'[g] \in GroupConfig
    BY <2>1, <2>2 DEF GroupConfig
  <2>4. record'[<<g, m>>] = None /\ record[<<g, m>>] # None
    BY DEF MembershipInv, TypeOK, CloseRecord, Exists, Pdas
  <2>5. \A n \in Members : n # m => record'[<<g, n>>] = record[<<g, n>>]
    BY DEF MembershipInv, TypeOK, CloseRecord, Pdas
  <2>6. m \in Joined(g) /\ Joined(g)' = Joined(g) \ {m}
    BY <2>4, <2>5 DEF Joined, Exists
  <2>7. Cardinality(Joined(g))' = Cardinality(Joined(g)) - 1
    BY <2>6, JoinedFinite, FS_RemoveElement
  <2>8. /\ group[g].current_members = Cardinality(Joined(g))
        /\ group[g].current_members <= group[g].max_members
        /\ Exists(vault[g]) <=> ~Settled(g)
    BY DEF MembershipInv, GroupInv
  <2>9. /\ Settled(g)' <=> Settled(g)
        /\ group'[g].status # "Active"
    BY <2>1, <2>2 DEF GroupConfig, Settled
  <2> QED
    BY <1>1, <2>1, <2>2, <2>3, <2>7, <2>8, <2>9, NoneAssumption
    DEF GroupInv, GroupConfig, Exists
<1>2. CASE h # g
  <2>1. \A n \in Members : record'[<<h, n>>] = record[<<h, n>>]
    BY <1>2 DEF MembershipInv, TypeOK, CloseRecord, Pdas
  <2>2. group'[h] = group[h] /\ gate'[h] = gate[h]
    BY <1>2 DEF MembershipInv, TypeOK, CloseRecord
  <2> QED
    BY <2>1, <2>2, GroupInvFrame DEF MembershipInv
<1> QED
  BY <1>1, <1>2

LEMMA LeaveGroupInv ==
    ASSUME MembershipInv, NEW g \in Groups, NEW m \in Members,
           NEW account \in TokenAccounts, LeaveGroup(g, m, account), TypeOK',
           NEW h \in Groups
    PROVE  GroupInv(h)'
<1>1. vault[g] \in Vault /\ vault'[g] # None
  <2>1. vault[g] \in Vault /\ record[<<g, m>>] \in MemberRecord
    BY DEF MembershipInv, TypeOK, LeaveGroup, CloseRecord, Exists, Pdas
  <2>2. vault'[g] = [vault[g] EXCEPT !.amount = @ - record[<<g, m>>].total_deposited]
    BY DEF MembershipInv, TypeOK, LeaveGroup
  <2>3. vault'[g] \in Vault
    BY <2>1, <2>2, AmountAssumption DEF LeaveGroup, Vault, MemberRecord, U64
  <2> QED
    BY <2>1, <2>3, NoneAssumption
<1>2. Exists(vault'[h]) <=> Exists(vault[h])
  BY <1>1, NoneAssumption DEF MembershipInv, TypeOK, LeaveGroup, Exists
<1> QED
  BY <1>2, CloseRecordInv DEF LeaveGroup

LEMMA StartCycleInv ==
    ASSUME MembershipInv, NEW g \in Groups, StartCycle(g), NEW h \in Groups
    PROVE  GroupInv(h)'
<1>1. Joined(h)' = Joined(h) /\ vault' = vault /\ gate' = gate
  BY DEF StartCycle, Joined
<1>2. CASE h = g
  <2>1. /\ group[g] \in GroupConfig /\ group[g].status = "Open"
        /\ group[g].current_members >= 2
    BY DEF MembershipInv, TypeOK, StartCycle, Exists
  <2>2. group'[g] = [group[g] EXCEPT !.status = "Active", !.cycle_start = now]
    BY <2>1 DEF MembershipInv, TypeOK, StartCycle, GroupConfig
  <2>3. group'[g] \in GroupConfig
    BY <2>1, <2>2 DEF MembershipInv, TypeOK, GroupConfig, Statuses
  <2>4. /\ group'[g].status = "Active"
        /\ group'[g].current_members = group[g].current_members
        /\ group'[g].max_members = group[g].max_members
    BY <2>1, <2>2 DEF GroupConfig
  <2> QED
    BY <1>1, <1>2, <2>1, <2>3, <2>4, NoneAssumption
    DEF MembershipInv, GroupInv, Settled, Exists
<1>3. CASE h # g
  BY <1>1, <1>3, GroupInvFrame DEF MembershipInv, TypeOK, StartCycle
<1> QED
  BY <1>2, <1>3

LEMMA DepositInv ==
    ASSUME MembershipInv, NEW g \in Groups, NEW m \in Members,
           NEW account \in TokenAccounts, Deposit(g, m, account), TypeOK',
           NEW h \in Groups
    PROVE  GroupInv(h)'
<1>1. Exists(vault'[h]) <=> Exists(vault[h])
  BY PayInKeepsVaults DEF MembershipInv, Deposit
<1>2. \A n \in Members :
          Exists(record'[<<h, n>>]) <=> Exists(record[<<h, n>>])
  <2>1. record[<<g, m>>] # None /\ record'[<<g, m>>] \in MemberRecord
    BY DepositRecord DEF MembershipInv, Deposit, Exists
  <2>2. \A p \in Pdas : p # <<g, m>> => record'[p] = record[p]
    BY DEF MembershipInv, TypeOK, Deposit
  <2> QED
    BY <2>1, <2>2, NoneAssumption DEF Exists, Pdas
<1> QED
  BY <1>1, <1>2, GroupInvFrame DEF MembershipInv, Deposit

LEMMA SettleInv ==
    ASSUME MembershipInv, NEW g \in Groups, NEW pairs, NEW burned,
           NEW outcome \in {"Completed", "Cancelled"},
           Exists(group[g]), Exists(vault[g]), Settle(g, pairs, burned, outcome),
           NEW h \in Groups
    PROVE  GroupInv(h)'
<1>1. Joined(h)' = Joined(h) /\ gate' = gate
  BY DEF Settle, Joined
<1>2. CASE h = g
  <2>1. group[g] \in GroupConfig
    BY DEF MembershipInv, TypeOK, Exists
  <2>2. /\ group'[g].status = outcome
        /\ group'[g].current_members = group[g].current_members
        /\ group'[g].max_members = group[g].max_members
    BY <2>1 DEF MembershipInv, TypeOK, Settle, GroupConfig
  <2>3. Exists(group'[g])
    <3>1. outcome \in Statuses
      BY DEF Statuses
    <3> QED
      BY <3>1, SettledGroup, NoneAssumption DEF MembershipInv, Exists
  <2>4. vault'[g] = None
    BY DEF MembershipInv, TypeOK, Settle
  <2>5. /\ group[g].current_members = Cardinality(Joined(g))
        /\ group[g].current_members <= group[g].max_members
    BY DEF MembershipInv, GroupInv
  <2>6. Settled(g)' /\ group'[g].status # "Active" /\ ~Exists(vault'[g])
    BY <2>2, <2>4 DEF Settled, Exists
  <2> QED
    BY <1>1, <1>2, <2>2, <2>3, <2>5, <2>6 DEF GroupInv
<1>3. CASE h # g
  BY <1>1, <1>3, GroupInvFrame DEF MembershipInv, TypeOK, Settle, Joined
<1> QED
  BY <1>2, <1>3

\* refund_vault_rent and a lamport transfer change the lamports of a group only.
LEMMA LamportsInv ==
    ASSUME MembershipInv, TypeOK', NEW g \in Groups, NEW lamports \in Nat,
           Exists(group[g]), group' = [group EXCEPT ![g].lamports = lamports],
           UNCHANGED <<vault, record, gate>>, NEW h \in Groups
    PROVE  GroupInv(h)'
<1>1. Joined(h)' = Joined(h)
  BY DEF Joined
<1>2. CASE h = g
  <2>1. group[g] \in GroupConfig
    BY DEF MembershipInv, TypeOK, Exists
  <2>2. group'[g] = [group[g] EXCEPT !.lamports = lamports]
    BY DEF MembershipInv, TypeOK
  <2>3. group'[g] \in GroupConfig
    BY <2>1, <2>2 DEF GroupConfig
  <2>4. /\ group'[g].status = group[g].status
        /\ group'[g].current_members = group[g].current_members
        /\ group'[g].max_members = group[g].max_members
    BY <2>1, <2>2 DEF GroupConfig
  <2> QED
    BY <1>1, <1>2, <2>3, <2>4, NoneAssumption
    DEF MembershipInv, GroupInv, Settled, Exists
<1>3. CASE h # g
  BY <1>3, GroupInvFrame DEF MembershipInv, TypeOK
<1> QED
  BY <1>2, <1>3

LEMMA CloseGroupInv ==
    ASSUME MembershipInv, NEW g \in Groups, CloseGroup(g), NEW h \in Groups
    PROVE  GroupInv(h)'
<1>1. Joined(h)' = Joined(h) /\ vault' = vault
  BY DEF CloseGroup, Joined
<1>2. CASE h = g
  <2>1. group'[g] = None /\ gate'[g] = None
    BY DEF MembershipInv, TypeOK, CloseGroup
  <2>2. Cardinality(Joined(g)) = 0 /\ ~Exists(vault[g])
    BY DEF MembershipInv, GroupInv, CloseGroup
  <2> QED
    BY <1>1, <1>2, <2>1, <2>2, JoinedFinite DEF GroupInv, Exists
<1>3. CASE h # g
  BY <1>1, <1>3, GroupInvFrame DEF MembershipInv, TypeOK, CloseGroup
<1> QED
  BY <1>2, <1>3

LEMMA EnvironmentInv ==
    ASSUME MembershipInv, TypeOK', Environment, NEW h \in Groups
    PROVE  GroupInv(h)'
<1>1. CASE UNCHANGED <<group, vault, record, gate>>
  BY <1>1, GroupInvFrame DEF MembershipInv
<1>2. ASSUME NEW g \in Groups, NEW a \in TokenAccounts, DonateTokens(g, a)
      PROVE  GroupInv(h)'
  <2>1. Exists(vault'[h]) <=> Exists(vault[h])
    BY <1>2, PayInKeepsVaults DEF MembershipInv, DonateTokens
  <2> QED
    BY <1>2, <2>1, GroupInvFrame DEF MembershipInv, DonateTokens
<1>3. ASSUME NEW g \in Groups, NEW payer \in Payers, NEW amount \in 1..MaxTopUp,
             TopUp(g, payer, amount)
      PROVE  GroupInv(h)'
  <2>1. group[g].lamports + amount \in Nat /\ Exists(group[g])
    BY <1>3, AmountAssumption
    DEF MembershipInv, TypeOK, TopUp, Exists, GroupConfig
  <2> QED
    BY <1>3, <2>1, LamportsInv DEF TopUp
<1> QED
  BY <1>1, <1>2, <1>3 DEF Environment, Tick, ChangeRentRate, Freeze, Thaw

LEMMA NextInv ==
    ASSUME MembershipInv, [Next]_vars
    PROVE  MembershipInv'
<1>1. TypeOK'
  BY NextType DEF MembershipInv
<1> SUFFICES ASSUME NEW h \in Groups
             PROVE  GroupInv(h)'
  BY <1>1 DEF MembershipInv
<1>2. ASSUME NEW g \in Groups, Join(g)
      PROVE  GroupInv(h)'
  BY <1>1, <1>2, JoinGroupInv DEF Join
<1>3. ASSUME NEW g \in Groups, LeaveOrDeposit(g)
      PROVE  GroupInv(h)'
  BY <1>1, <1>3, LeaveGroupInv, DepositInv DEF LeaveOrDeposit
<1>4. ASSUME NEW g \in Groups, CrankStep(g)
      PROVE  GroupInv(h)'
  <2>1. ASSUME NEW pairs \in PairLists, Distribute(g, pairs)
        PROVE  GroupInv(h)'
    BY <2>1, SettleInv DEF Distribute, SettlementChecks
  <2>2. ASSUME RefundVaultRent(g)
        PROVE  GroupInv(h)'
    <3>1. group[g] \in GroupConfig /\ Floor("group") \in Nat
      BY <2>2, AmountAssumption
      DEF MembershipInv, TypeOK, RefundVaultRent, Exists, Floor, Kinds
    <3>2. group[g].lamports - LamportsAboveRentFloor(g) \in Nat
      BY <3>1 DEF LamportsAboveRentFloor, GroupConfig
    <3> QED
      BY <1>1, <2>2, <3>2, LamportsInv DEF RefundVaultRent
  <2>3. ASSUME NEW m \in Members, CloseMemberRecord(g, m)
        PROVE  GroupInv(h)'
    BY <2>3, CloseRecordInv DEF CloseMemberRecord, Settled
  <2>4. ASSUME NEW m \in Members, CloseJoinTally(g, m)
        PROVE  GroupInv(h)'
    BY <2>4, GroupInvFrame DEF MembershipInv, CloseJoinTally
  <2> QED
    BY <1>4, <2>1, <2>2, <2>3, <2>4, CloseGroupInv DEF CrankStep
<1>5. ASSUME NEW g \in Groups, CreatorStep(g)
      PROVE  GroupInv(h)'
  <2>1. ASSUME NEW pairs \in PairLists, NEW mint_writable \in BOOLEAN,
               EmergencyCancel(g, pairs, mint_writable)
        PROVE  GroupInv(h)'
    BY <2>1, SettleInv DEF EmergencyCancel, CancelChecks, SettlementChecks
  <2>2. ASSUME Create(g)
        PROVE  GroupInv(h)'
    BY <1>1, <2>2, CreateGroupInv DEF Create
  <2> QED
    BY <1>5, <2>1, <2>2, SetJoinAuthorityInv, StartCycleInv DEF CreatorStep
<1>6. CASE UNCHANGED vars
  BY <1>6, GroupInvFrame DEF MembershipInv, vars
<1> QED
  BY <1>1, <1>2, <1>3, <1>4, <1>5, <1>6, EnvironmentInv DEF Next

LEMMA InitInv == Init => MembershipInv
<1> SUFFICES ASSUME Init, NEW g \in Groups
             PROVE  GroupInv(g)
  BY AmountAssumption DEF MembershipInv, Init, TypeOK
<1> QED
  BY DEF Init, GroupInv, Joined, Exists, Pdas

LEMMA Membership == Spec => []MembershipInv
<1>1. MembershipInv /\ [Next]_vars => MembershipInv'
  BY NextInv
<1> QED
  BY <1>1, InitInv, PTL DEF Spec

\* current_members always equals the number of open MemberRecords, for any
\* number of groups and members and any interleaving of joins, leaves, record
\* closes and recreations of a code; and an Active group keeps two members.
THEOREM CountIsExact == Spec => []CountMatchesRecords
<1>1. MembershipInv => CountMatchesRecords
  BY DEF MembershipInv, GroupInv, CountMatchesRecords
<1> QED
  BY <1>1, Membership, PTL

\* close_group leaves no member record, join gate or vault behind at a code.
THEOREM FreedCodesAreClean == Spec => []FreedCodeIsClean
<1>1. MembershipInv => FreedCodeIsClean
  BY DEF MembershipInv, GroupInv, FreedCodeIsClean
<1> QED
  BY <1>1, Membership, PTL

------------------------------------------------------------------------------
(* Steps: what no instruction may do, from the membership invariant        *)

LEMMA GateStep ==
    ASSUME MembershipInv, [Next]_vars,
           NEW g \in Groups, gate'[g] # gate[g]
    PROVE  Joined(g) = {} /\ Joined(g)' = {}
<1>1. ASSUME NEW h \in Groups, NEW authority \in Keys, SetJoinAuthority(h, authority)
      PROVE  Joined(g) = {} /\ Joined(g)' = {}
  <2>1. h = g
    BY <1>1 DEF MembershipInv, TypeOK, SetJoinAuthority
  <2>2. Cardinality(Joined(g)) = 0
    BY <1>1, <2>1 DEF MembershipInv, GroupInv, SetJoinAuthority
  <2>3. Joined(g)' = Joined(g)
    BY <1>1 DEF SetJoinAuthority, Joined
  <2> QED
    BY <2>2, <2>3, JoinedFinite
<1>2. ASSUME NEW h \in Groups, CloseGroup(h)
      PROVE  Joined(g) = {} /\ Joined(g)' = {}
  <2>1. h = g
    BY <1>2 DEF MembershipInv, TypeOK, CloseGroup
  <2>2. Cardinality(Joined(g)) = 0
    BY <1>2, <2>1 DEF MembershipInv, GroupInv, CloseGroup
  <2>3. Joined(g)' = Joined(g)
    BY <1>2 DEF CloseGroup, Joined
  <2> QED
    BY <2>2, <2>3, JoinedFinite
<1>3. \A h \in Groups : ~Join(h) /\ ~LeaveOrDeposit(h) /\ ~Create(h)
  <2> SUFFICES ASSUME NEW h \in Groups
               PROVE  ~Join(h) /\ ~LeaveOrDeposit(h) /\ ~Create(h)
    OBVIOUS
  <2>1. ASSUME NEW m \in Members, NEW payer \in Payers, NEW account \in TokenAccounts,
               NEW authority, NEW durable, NEW terms, NEW expected,
               JoinGroup(h, m, payer, account, authority, durable, terms, expected)
        PROVE  FALSE
    <3>1. gate' = gate
      BY <2>1 DEF JoinGroup
    <3> QED
      BY <3>1
  <2>2. ~LeaveOrDeposit(h)
    BY DEF LeaveOrDeposit, LeaveGroup, Deposit
  <2>3. ~Create(h)
    BY DEF Create, CreateGroup
  <2> QED
    BY <2>1, <2>2, <2>3 DEF Join
<1>4. \A h, pairs, burned, outcome : ~Settle(h, pairs, burned, outcome)
  BY DEF Settle
<1>5. ~Environment
  BY DEF Environment, Tick, ChangeRentRate, Freeze, Thaw, DonateTokens, TopUp
<1>6. ASSUME NEW h \in Groups, CrankStep(h)
      PROVE  CloseGroup(h)
  BY <1>4, <1>6 DEF CrankStep, Distribute, RefundVaultRent, CloseMemberRecord, CloseJoinTally
<1>7. ASSUME NEW h \in Groups, CreatorStep(h)
      PROVE  \E authority \in Keys : SetJoinAuthority(h, authority)
  BY <1>3, <1>4, <1>7 DEF CreatorStep, EmergencyCancel, CancelChecks, StartCycle
<1>8. Next
  BY DEF vars
<1> QED
  BY <1>1, <1>2, <1>3, <1>5, <1>6, <1>7, <1>8 DEF Next

\* A join gate covers every member of its group: it appears while the group is
\* empty and goes only with the group, however joins and set_join_authority race.
THEOREM GatesCoverMembers == Spec => GateCoversEveryMember
<1>1. MembershipInv /\ [Next]_vars =>
        [\A g \in Groups :
           gate'[g] # gate[g] => Joined(g) = {} /\ Joined(g)' = {}]_vars
  BY GateStep
<1> QED
  BY <1>1, Membership, PTL DEF Spec, GateCoversEveryMember

LEMMA RecordStep ==
    ASSUME MembershipInv, [Next]_vars, NEW g \in Groups, NEW m \in Members,
           Exists(group[g]), Settled(g), Exists(record[<<g, m>>]),
           now < group[g].settled_at + RetentionSecs
    PROVE  record'[<<g, m>>] = record[<<g, m>>]
<1> USE DEF MembershipInv, TypeOK, Pdas
<1>1. ASSUME NEW h \in Groups, Join(h)
      PROVE  record'[<<g, m>>] = record[<<g, m>>]
  BY <1>1 DEF Join, JoinGroup
<1>2. ASSUME NEW h \in Groups, LeaveOrDeposit(h)
      PROVE  record'[<<g, m>>] = record[<<g, m>>]
  <2>1. ASSUME NEW n \in Members, NEW a \in TokenAccounts, LeaveGroup(h, n, a)
        PROVE  record'[<<g, m>>] = record[<<g, m>>]
    BY <2>1 DEF LeaveGroup, CloseRecord, Settled
  <2>2. ASSUME NEW n \in Members, NEW a \in TokenAccounts, Deposit(h, n, a)
        PROVE  record'[<<g, m>>] = record[<<g, m>>]
    <3>1. h # g
      BY <2>2 DEF Deposit, Settled
    <3> QED
      BY <2>2, <3>1 DEF Deposit
  <2> QED
    BY <1>2, <2>1, <2>2 DEF LeaveOrDeposit
<1>3. ASSUME NEW h \in Groups, NEW n \in Members, CloseMemberRecord(h, n)
      PROVE  record'[<<g, m>>] = record[<<g, m>>]
  <2>1. group[g].settled_at + RetentionSecs \in Nat /\ now \in Nat
    BY TimeAssumption DEF GroupConfig, Exists
  <2>2. now >= group[h].settled_at + RetentionSecs
    BY <1>3 DEF CloseMemberRecord, RecordRetentionEnd
  <2>3. h # g
    BY <2>1, <2>2
  <2> QED
    BY <1>3, <2>3 DEF CloseMemberRecord, CloseRecord
<1>4. ASSUME NEW h \in Groups, CrankStep(h)
      PROVE  record' = record \/ \E n \in Members : CloseMemberRecord(h, n)
  BY <1>4 DEF CrankStep, Distribute, Settle, RefundVaultRent, CloseJoinTally, CloseGroup
<1>5. ASSUME NEW h \in Groups, CreatorStep(h)
      PROVE  record' = record
  BY <1>5 DEF CreatorStep, Create, CreateGroup, SetJoinAuthority, StartCycle,
              EmergencyCancel, Settle
<1>6. ASSUME Environment
      PROVE  record' = record
  BY <1>6 DEF Environment, Tick, ChangeRentRate, Freeze, Thaw, DonateTokens, TopUp
<1>7. CASE UNCHANGED vars
  BY <1>7 DEF vars
<1> QED
  BY <1>1, <1>2, <1>3, <1>4, <1>5, <1>6, <1>7 DEF Next

\* Nothing touches a record of a settled group before its retention has passed,
\* so clients can read the result for that long.
THEOREM RecordsOutliveSettlement == Spec => SettledRecordsAreKept
<1>1. MembershipInv /\ [Next]_vars =>
        [\A g \in Groups, m \in Members :
           (/\ Exists(group[g]) /\ Settled(g) /\ Exists(record[<<g, m>>])
            /\ now < group[g].settled_at + RetentionSecs)
           => record'[<<g, m>>] = record[<<g, m>>]]_vars
  BY RecordStep
<1> QED
  BY <1>1, Membership, PTL DEF Spec, SettledRecordsAreKept

LEMMA JoinCountAfterJoin ==
    ASSUME TypeOK, NEW g \in Groups, NEW m \in Members, NEW payer \in Payers,
           NEW account \in TokenAccounts, NEW authority, NEW durable, NEW terms,
           NEW expected,
           JoinGroup(g, m, payer, account, authority, durable, terms, expected)
    PROVE  Joins(g, m)' = Joins(g, m) + 1
<1>1. <<g, m>> \in Pdas
  BY DEF Pdas
<1>2. tally'[<<g, m>>] = CountJoin(g, m, payer)
  BY <1>1 DEF TypeOK, JoinGroup
<1>3. tally'[<<g, m>>] \in JoinTally \cup {None}
  BY <1>1, JoinGroupType DEF TypeOK
<1>4. CountJoin(g, m, payer) # None /\ CountJoin(g, m, payer).joins = Joins(g, m) + 1
  <2>1. CASE Joins(g, m) = 0
    <3>1. Floor("tally") \in Nat /\ Joins(g, m) + 1 \in U32
      BY AmountAssumption DEF TypeOK, JoinGroup, Floor, Kinds
    <3>2. CountJoin(g, m, payer) \in JoinTally
      BY <2>1, <3>1, AmountAssumption DEF CountJoin, JoinTally, U32
    <3> QED
      BY <2>1, <3>2, NoneAssumption DEF CountJoin
  <2>2. CASE Joins(g, m) # 0
    <3>1. tally[<<g, m>>] \in JoinTally /\ tally[<<g, m>>].joins = Joins(g, m)
      BY <2>2, <1>1 DEF Joins, TypeOK, Exists
    <3>2. CountJoin(g, m, payer) = [tally[<<g, m>>] EXCEPT !.joins = @ + 1]
      BY <2>2 DEF CountJoin
    <3>3. Joins(g, m) + 1 \in U32 \ {0}
      BY <3>1, AmountAssumption DEF JoinGroup, JoinTally, U32
    <3>4. CountJoin(g, m, payer) \in JoinTally
      BY <3>1, <3>2, <3>3 DEF JoinTally
    <3> QED
      BY <3>1, <3>2, <3>4, NoneAssumption DEF JoinTally
  <2> QED
    BY <2>1, <2>2
<1> QED
  BY <1>2, <1>4 DEF Joins, Exists

LEMMA JoinCountStep ==
    ASSUME MembershipInv, [Next]_vars, NEW g \in Groups, NEW m \in Members,
           Exists(group[g])
    PROVE  Joins(g, m)' = Joins(g, m)
                + (IF ~Exists(record[<<g, m>>]) /\ Exists(record'[<<g, m>>])
                   THEN 1 ELSE 0)
<1> DEFINE Goal == Joins(g, m)' = Joins(g, m)
                     + (IF ~Exists(record[<<g, m>>]) /\ Exists(record'[<<g, m>>])
                        THEN 1 ELSE 0)
<1>1. <<g, m>> \in Pdas /\ Joins(g, m) \in Nat
  BY AmountAssumption DEF MembershipInv, TypeOK, Joins, JoinTally, Exists, Pdas, U32
<1>2. ASSUME tally'[<<g, m>>] = tally[<<g, m>>],
             Exists(record'[<<g, m>>]) => Exists(record[<<g, m>>])
      PROVE  Goal
  BY <1>1, <1>2 DEF Joins
<1>3. ASSUME NEW h \in Groups, Join(h)
      PROVE  Goal
  <2>1. PICK n \in Members, payer \in Payers, account \in TokenAccounts,
             authority \in Keys \cup {None}, durable \in BOOLEAN,
             terms \in OfferedTerms, expected \in U32 \cup {None} :
               JoinGroup(h, n, payer, account, authority, durable, terms, expected)
    BY <1>3 DEF Join
  <2>2. CASE <<h, n>> = <<g, m>>
    <3>1. ~Exists(record[<<g, m>>])
      BY <2>1, <2>2 DEF JoinGroup
    <3>2. Exists(record'[<<g, m>>])
      <4>1. record'[<<g, m>>] =
              [rent_payer |-> payer, total_deposited |-> group[g].deposit_amount,
               deposits_made |-> 1, periods_deposited |-> {0},
               lamports |-> Floor("record")]
        BY <1>1, <2>1, <2>2 DEF MembershipInv, TypeOK, JoinGroup
      <4>2. group[g] \in GroupConfig /\ Floor("record") \in Nat
        BY AmountAssumption DEF MembershipInv, TypeOK, Exists, Floor, Kinds
      <4>3. record'[<<g, m>>] \in MemberRecord
        BY <4>1, <4>2, AmountAssumption DEF MemberRecord, GroupConfig, U64, U8, MaxPeriods
      <4> QED
        BY <4>3, NoneAssumption DEF Exists
    <3>3. Joins(g, m)' = Joins(g, m) + 1
      BY <2>1, <2>2, JoinCountAfterJoin DEF MembershipInv
    <3> QED
      BY <3>1, <3>2, <3>3
  <2>3. CASE <<h, n>> # <<g, m>>
    <3>1. record'[<<g, m>>] = record[<<g, m>>] /\ tally'[<<g, m>>] = tally[<<g, m>>]
      BY <1>1, <2>1, <2>3 DEF MembershipInv, TypeOK, JoinGroup
    <3> QED
      BY <1>2, <3>1
  <2> QED
    BY <2>2, <2>3
<1>4. ASSUME NEW h \in Groups, LeaveOrDeposit(h)
      PROVE  Goal
  <2>1. tally' = tally
    BY <1>4 DEF LeaveOrDeposit, LeaveGroup, Deposit
  <2>2. Exists(record'[<<g, m>>]) => Exists(record[<<g, m>>])
    BY <1>1, <1>4
    DEF MembershipInv, TypeOK, LeaveOrDeposit, LeaveGroup, CloseRecord, Deposit, Exists
  <2> QED
    BY <1>2, <2>1, <2>2
<1>5. ASSUME NEW h \in Groups, CrankStep(h)
      PROVE  Goal
  <2>1. ASSUME NEW n \in Members, CloseMemberRecord(h, n)
        PROVE  Goal
    <3>1. tally' = tally
      BY <2>1 DEF CloseMemberRecord
    <3>2. Exists(record'[<<g, m>>]) => Exists(record[<<g, m>>])
      BY <1>1, <2>1
      DEF MembershipInv, TypeOK, CloseMemberRecord, CloseRecord, Exists
    <3> QED
      BY <1>2, <3>1, <3>2
  <2>2. ASSUME NEW n \in Members, CloseJoinTally(h, n)
        PROVE  Goal
    <3>1. <<h, n>> # <<g, m>>
      BY <2>2 DEF CloseJoinTally
    <3>2. record' = record /\ tally'[<<g, m>>] = tally[<<g, m>>]
      BY <1>1, <2>2, <3>1 DEF MembershipInv, TypeOK, CloseJoinTally
    <3> QED
      BY <1>2, <3>2
  <2>3. ASSUME UNCHANGED <<record, tally>>
        PROVE  Goal
    BY <1>2, <2>3
  <2> HIDE DEF Goal
  <2> QED
    BY <1>5, <2>1, <2>2, <2>3
    DEF CrankStep, Distribute, Settle, RefundVaultRent, CloseGroup
<1>6. ASSUME NEW h \in Groups, CreatorStep(h)
      PROVE  Goal
  <2>1. UNCHANGED <<record, tally>>
    BY <1>6 DEF CreatorStep, Create, CreateGroup, SetJoinAuthority, StartCycle,
                EmergencyCancel, Settle
  <2> QED
    BY <1>2, <2>1
<1>7. CASE Environment
  <2>1. UNCHANGED <<record, tally>>
    BY <1>7 DEF Environment, Tick, ChangeRentRate, Freeze, Thaw, DonateTokens, TopUp
  <2> QED
    BY <1>2, <2>1
<1>8. CASE UNCHANGED vars
  BY <1>2, <1>8 DEF vars
<1> QED
  BY <1>3, <1>4, <1>5, <1>6, <1>7, <1>8 DEF Next

\* While a group lives, its join counts rise by one with each join and are
\* changed by nothing else: the count an authority signed for is used once.
THEOREM ApprovalCountsAdvance == Spec => JoinCountOnlyGrows
<1>1. MembershipInv /\ [Next]_vars =>
        [\A g \in Groups, m \in Members :
           Exists(group[g]) =>
              Joins(g, m)' = Joins(g, m)
                  + (IF ~Exists(record[<<g, m>>]) /\ Exists(record'[<<g, m>>])
                     THEN 1 ELSE 0)]_vars
  BY JoinCountStep
<1> QED
  BY <1>1, Membership, PTL DEF Spec, JoinCountOnlyGrows

\* GroupLifecycle for one group.
LifecycleOf(g) ==
    IF ~Exists(group[g])
    THEN group'[g].status = "Open" /\ Joined(g)' = {} /\ ~Exists(gate'[g])
    ELSE IF ~Exists(group'[g]) THEN Settled(g) /\ ~Exists(vault[g])
    ELSE /\ Terms(group'[g]) = Terms(group[g])
         /\ group'[g].mint = group[g].mint
         /\ group'[g].rent_payer = group[g].rent_payer
         /\ <<group[g].status, group'[g].status>> \in
              {<<s, s>> : s \in Statuses}
              \cup {<<"Open", "Active">>, <<"Open", "Cancelled">>,
                    <<"Active", "Completed">>, <<"Active", "Cancelled">>}

\* A step that keeps the fixed fields and makes an allowed status change.
LEMMA FixedFields ==
    ASSUME NEW g \in Groups, group[g] \in GroupConfig, group'[g] \in GroupConfig,
           group'[g].creator = group[g].creator,
           group'[g].deposit_amount = group[g].deposit_amount,
           group'[g].frequency = group[g].frequency,
           group'[g].total_periods = group[g].total_periods,
           group'[g].mint = group[g].mint,
           group'[g].rent_payer = group[g].rent_payer,
           \/ group'[g].status = group[g].status
           \/ <<group[g].status, group'[g].status>> \in
                {<<"Open", "Active">>, <<"Open", "Cancelled">>,
                 <<"Active", "Completed">>, <<"Active", "Cancelled">>}
    PROVE  LifecycleOf(g)
<1>1. Exists(group[g]) /\ Exists(group'[g])
  BY NoneAssumption DEF Exists
<1>2. Terms(group'[g]) = Terms(group[g])
  BY DEF Terms
<1>3. <<group[g].status, group'[g].status>> \in
        {<<s, s>> : s \in Statuses}
        \cup {<<"Open", "Active">>, <<"Open", "Cancelled">>,
              <<"Active", "Completed">>, <<"Active", "Cancelled">>}
  <2>1. group[g].status \in Statuses
    BY DEF GroupConfig
  <2> QED
    BY <2>1
<1> QED
  BY <1>1, <1>2, <1>3 DEF LifecycleOf

LEMMA LifecycleJoin ==
    ASSUME MembershipInv, NEW g \in Groups, Join(g)
    PROVE  LifecycleOf(g)
<1>1. /\ group[g] \in GroupConfig
      /\ group[g].current_members < group[g].max_members
      /\ group' = [group EXCEPT ![g].current_members = @ + 1]
  BY DEF MembershipInv, TypeOK, Join, JoinGroup, Exists
<1>2. group'[g] = [group[g] EXCEPT !.current_members = @ + 1]
  BY <1>1 DEF MembershipInv, TypeOK
<1>3. group'[g] \in GroupConfig
  BY <1>1, <1>2 DEF GroupConfig
<1> QED
  BY <1>1, <1>2, <1>3, FixedFields DEF GroupConfig

LEMMA LifecycleCloseRecord ==
    ASSUME MembershipInv, NEW g \in Groups, NEW m \in Members,
           Exists(group[g]), CloseRecord(g, m)
    PROVE  LifecycleOf(g)
<1>1. /\ group[g] \in GroupConfig
      /\ group[g].current_members > 0
      /\ group' = [group EXCEPT ![g].current_members = @ - 1]
  BY DEF MembershipInv, TypeOK, CloseRecord, Exists
<1>2. group'[g] = [group[g] EXCEPT !.current_members = @ - 1]
  BY <1>1 DEF MembershipInv, TypeOK
<1>3. group'[g] \in GroupConfig
  BY <1>1, <1>2 DEF GroupConfig
<1> QED
  BY <1>1, <1>2, <1>3, FixedFields DEF GroupConfig

LEMMA LifecycleStart ==
    ASSUME MembershipInv, NEW g \in Groups, StartCycle(g)
    PROVE  LifecycleOf(g)
<1>1. group[g] \in GroupConfig /\ group[g].status = "Open" /\ now \in Nat
  BY DEF MembershipInv, TypeOK, StartCycle, Exists
<1>2. group'[g] = [group[g] EXCEPT !.status = "Active", !.cycle_start = now]
  BY <1>1 DEF MembershipInv, TypeOK, StartCycle, GroupConfig
<1>3. group'[g] \in GroupConfig
  BY <1>1, <1>2 DEF GroupConfig, Statuses
<1> QED
  BY <1>1, <1>2, <1>3, FixedFields DEF GroupConfig

LEMMA LifecycleSettle ==
    ASSUME MembershipInv, NEW g \in Groups, NEW pairs, NEW burned,
           NEW outcome \in {"Completed", "Cancelled"},
           Exists(group[g]), Exists(vault[g]), Settle(g, pairs, burned, outcome),
           \/ group[g].status = "Active"
           \/ group[g].status = "Open" /\ outcome = "Cancelled"
    PROVE  LifecycleOf(g)
<1>1. group[g] \in GroupConfig /\ group'[g] \in GroupConfig
  <2>1. outcome \in Statuses
    BY DEF Statuses
  <2> QED
    BY <2>1, SettledGroup DEF MembershipInv, TypeOK, Exists
<1>2. /\ group'[g].creator = group[g].creator
      /\ group'[g].deposit_amount = group[g].deposit_amount
      /\ group'[g].frequency = group[g].frequency
      /\ group'[g].total_periods = group[g].total_periods
      /\ group'[g].mint = group[g].mint
      /\ group'[g].rent_payer = group[g].rent_payer
      /\ group'[g].status = outcome
  BY <1>1 DEF MembershipInv, TypeOK, Settle, GroupConfig
<1> QED
  BY <1>1, <1>2, FixedFields

LEMMA LifecycleLamports ==
    ASSUME MembershipInv, NEW g \in Groups, NEW lamports \in Nat, Exists(group[g]),
           group' = [group EXCEPT ![g].lamports = lamports]
    PROVE  LifecycleOf(g)
<1>1. group[g] \in GroupConfig
  BY DEF MembershipInv, TypeOK, Exists
<1>2. group'[g] = [group[g] EXCEPT !.lamports = lamports]
  BY <1>1 DEF MembershipInv, TypeOK
<1>3. group'[g] \in GroupConfig
  BY <1>1, <1>2 DEF GroupConfig
<1> QED
  BY <1>1, <1>2, <1>3, FixedFields DEF GroupConfig

LEMMA LifecycleCreate ==
    ASSUME MembershipInv, NEW g \in Groups, Create(g)
    PROVE  LifecycleOf(g)
<1>1. ~Exists(group[g]) /\ gate' = gate /\ Joined(g)' = Joined(g)
  BY DEF Create, CreateGroup, Joined
<1>2. group'[g].status = "Open"
  BY DEF MembershipInv, TypeOK, Create, CreateGroup
<1> QED
  BY <1>1, <1>2 DEF MembershipInv, GroupInv, LifecycleOf

LEMMA LifecycleClose ==
    ASSUME MembershipInv, NEW g \in Groups, CloseGroup(g)
    PROVE  LifecycleOf(g)
<1>1. Exists(group[g]) /\ Settled(g) /\ ~Exists(vault[g])
  BY DEF MembershipInv, GroupInv, CloseGroup
<1>2. ~Exists(group'[g])
  BY DEF MembershipInv, TypeOK, CloseGroup, Exists
<1> QED
  BY <1>1, <1>2 DEF LifecycleOf

\* The instructions that change a group at all, and the lamport transfer.
LEMMA GroupChanges ==
    ASSUME MembershipInv, [Next]_vars, NEW g \in Groups, group'[g] # group[g]
    PROVE  \/ Join(g) \/ LeaveOrDeposit(g) \/ CrankStep(g) \/ CreatorStep(g)
           \/ \E payer \in Payers, amount \in 1..MaxTopUp : TopUp(g, payer, amount)
<1> USE DEF MembershipInv, TypeOK
<1>1. ASSUME NEW h \in Groups, Join(h)
      PROVE  h = g
  BY <1>1 DEF Join, JoinGroup
<1>2. ASSUME NEW h \in Groups, LeaveOrDeposit(h)
      PROVE  h = g
  BY <1>2 DEF LeaveOrDeposit, LeaveGroup, CloseRecord, Deposit
<1>3. ASSUME NEW h \in Groups, NEW pairs, NEW burned, NEW outcome,
             Settle(h, pairs, burned, outcome)
      PROVE  h = g
  BY <1>3 DEF Settle
<1>4. ASSUME NEW h \in Groups, CrankStep(h)
      PROVE  h = g
  BY <1>3, <1>4
  DEF CrankStep, Distribute, RefundVaultRent, CloseMemberRecord, CloseRecord,
      CloseJoinTally, CloseGroup
<1>5. ASSUME NEW h \in Groups, CreatorStep(h)
      PROVE  h = g
  BY <1>3, <1>5
  DEF CreatorStep, Create, CreateGroup, SetJoinAuthority, StartCycle, EmergencyCancel
<1>6. ASSUME Environment
      PROVE  \E payer \in Payers, amount \in 1..MaxTopUp : TopUp(g, payer, amount)
  <2>1. ASSUME NEW h \in Groups, NEW payer \in Payers, NEW amount \in 1..MaxTopUp,
               TopUp(h, payer, amount)
        PROVE  h = g
    BY <2>1 DEF TopUp
  <2>2. \E h \in Groups, payer \in Payers, amount \in 1..MaxTopUp :
            TopUp(h, payer, amount)
    BY <1>6 DEF Environment, Tick, ChangeRentRate, Freeze, Thaw, DonateTokens
  <2> QED
    BY <2>1, <2>2
<1>7. ~UNCHANGED vars
  BY DEF vars
<1> QED
  BY <1>1, <1>2, <1>4, <1>5, <1>6, <1>7 DEF Next

LEMMA LifecycleStep ==
    ASSUME MembershipInv, [Next]_vars, NEW g \in Groups, group'[g] # group[g]
    PROVE  LifecycleOf(g)
<1>1. CASE LeaveOrDeposit(g)
  <2>1. ~\E m \in Members, a \in TokenAccounts : Deposit(g, m, a)
    BY DEF Deposit
  <2>2. \E m \in Members : Exists(group[g]) /\ CloseRecord(g, m)
    BY <1>1, <2>1 DEF LeaveOrDeposit, LeaveGroup
  <2> QED
    BY <2>2, LifecycleCloseRecord
<1>2. CASE CrankStep(g)
  <2>1. ASSUME NEW pairs \in PairLists, Distribute(g, pairs)
        PROVE  LifecycleOf(g)
    BY <2>1, LifecycleSettle DEF Distribute, SettlementChecks
  <2>2. ASSUME RefundVaultRent(g)
        PROVE  LifecycleOf(g)
    <3>1. group[g] \in GroupConfig /\ Floor("group") \in Nat
      BY <2>2, AmountAssumption
      DEF MembershipInv, TypeOK, RefundVaultRent, Exists, Floor, Kinds
    <3>2. group[g].lamports - LamportsAboveRentFloor(g) \in Nat
      BY <3>1 DEF LamportsAboveRentFloor, GroupConfig
    <3> QED
      BY <2>2, <3>2, LifecycleLamports DEF RefundVaultRent
  <2>3. ASSUME NEW m \in Members, CloseMemberRecord(g, m)
        PROVE  LifecycleOf(g)
    BY <2>3, LifecycleCloseRecord DEF CloseMemberRecord
  <2>4. ~\E m \in Members : CloseJoinTally(g, m)
    BY DEF CloseJoinTally
  <2> QED
    BY <1>2, <2>1, <2>2, <2>3, <2>4, LifecycleClose DEF CrankStep
<1>3. CASE CreatorStep(g)
  <2>1. ASSUME NEW pairs \in PairLists, NEW mint_writable \in BOOLEAN,
               EmergencyCancel(g, pairs, mint_writable)
        PROVE  LifecycleOf(g)
    BY <2>1, LifecycleSettle DEF EmergencyCancel, CancelChecks, SettlementChecks
  <2>2. ~\E authority \in Keys : SetJoinAuthority(g, authority)
    BY DEF SetJoinAuthority
  <2> QED
    BY <1>3, <2>1, <2>2, LifecycleCreate, LifecycleStart DEF CreatorStep
<1>4. ASSUME NEW payer \in Payers, NEW amount \in 1..MaxTopUp, TopUp(g, payer, amount)
      PROVE  LifecycleOf(g)
  <2>1. group[g].lamports + amount \in Nat /\ Exists(group[g])
    BY <1>4, AmountAssumption DEF MembershipInv, TypeOK, TopUp, Exists, GroupConfig
  <2> QED
    BY <1>4, <2>1, LifecycleLamports DEF TopUp
<1> QED
  BY <1>1, <1>2, <1>3, <1>4, GroupChanges, LifecycleJoin

\* A group never turns into another one: its terms, mint and payer are fixed,
\* its status only moves forward, and its address is freed only when it is
\* settled and its vault is gone.
THEOREM GroupsOnlyMoveForward == Spec => GroupLifecycle
<1>1. MembershipInv /\ [Next]_vars =>
        [\A g \in Groups : group'[g] # group[g] => LifecycleOf(g)]_vars
  BY LifecycleStep
<1> QED
  BY <1>1, Membership, PTL DEF Spec, GroupLifecycle, LifecycleOf

------------------------------------------------------------------------------
(* The program implements WatchedChain: the chain that the watchdog is     *)
(* composed with allows everything that the program can do to the fields   *)
(* that the watchdog reads.                                                *)

------------------------------------------------------------------------------
(* What a step can do to one group, in terms of the watched fields and the *)
(* member count                                                            *)

Opened(g) ==
    /\ ~Exists(group[g])
    /\ group'[g] \in GroupConfig
    /\ group'[g].status = "Open"
    /\ group'[g].cycle_start = 0 /\ group'[g].settled_at = 0
    /\ group'[g].total_periods \in PeriodCounts
    /\ group'[g].deposit_amount \in DepositAmounts

\* A join, a leave, a closed record or a change of the lamports.
Kept(g) ==
    /\ Exists(group[g])
    /\ group'[g] \in GroupConfig
    /\ WatchedFields(group'[g]) = WatchedFields(group[g])
    /\ group'[g].current_members < group[g].current_members =>
         \/ group[g].status = "Open"
         \/ now >= RecordRetentionEnd(group[g].settled_at)

Started(g) ==
    /\ Exists(group[g]) /\ group[g].status = "Open"
    /\ group'[g] = [group[g] EXCEPT !.status = "Active", !.cycle_start = now]
    /\ group'[g] \in GroupConfig

Ended(g, outcome) ==
    /\ Exists(group[g])
    /\ \/ group[g].status = "Active"
       \/ group[g].status = "Open" /\ outcome = "Cancelled"
    /\ outcome = "Completed" => now >= CycleEnd(group[g])
    /\ group'[g].current_members = group[g].current_members
    /\ group'[g].status = outcome /\ group'[g].settled_at = now
    /\ group'[g].cycle_start = group[g].cycle_start
    /\ group'[g].frequency = group[g].frequency
    /\ group'[g].total_periods = group[g].total_periods
    /\ group'[g] \in GroupConfig

Freed(g) ==
    /\ Exists(group[g]) /\ Settled(g)
    /\ group[g].current_members = 0
    /\ group'[g] = None

GroupEffect(g) ==
    \/ Opened(g) \/ Kept(g) \/ Started(g) \/ Freed(g)
    \/ \E outcome \in {"Completed", "Cancelled"} : Ended(g, outcome)

\* The step changes the account at this one address.
Only(g) ==
    /\ now' = now
    /\ group' = [group EXCEPT ![g] = group'[g]]

LEMMA JoinEffect ==
    ASSUME TypeOK, NEW g \in Groups, Join(g)
    PROVE  Only(g) /\ Kept(g)
<1>1. /\ now' = now /\ Exists(group[g])
      /\ group[g].current_members < group[g].max_members
      /\ group' = [group EXCEPT ![g].current_members = @ + 1]
  BY DEF Join, JoinGroup
<1>2. group[g] \in GroupConfig
  BY <1>1 DEF TypeOK, Exists
<1>3. group'[g] = [group[g] EXCEPT !.current_members = @ + 1]
  BY <1>1 DEF TypeOK
<1>4. group'[g] \in GroupConfig
  BY <1>1, <1>2, <1>3 DEF GroupConfig
<1>5. WatchedFields(group'[g]) = WatchedFields(group[g])
  BY <1>2, <1>3 DEF GroupConfig, WatchedFields
<1>6. ~(group'[g].current_members < group[g].current_members)
  BY <1>2, <1>3 DEF GroupConfig
<1> QED
  BY <1>1, <1>4, <1>5, <1>6 DEF TypeOK, Only, Kept

LEMMA CloseRecordEffect ==
    ASSUME TypeOK, NEW g \in Groups, NEW m \in Members, now' = now,
           Exists(group[g]), CloseRecord(g, m),
           \/ group[g].status = "Open"
           \/ now >= RecordRetentionEnd(group[g].settled_at)
    PROVE  Only(g) /\ Kept(g)
<1>1. /\ group[g] \in GroupConfig
      /\ group[g].current_members > 0
      /\ group' = [group EXCEPT ![g].current_members = @ - 1]
  BY DEF TypeOK, CloseRecord, Exists
<1>2. group'[g] = [group[g] EXCEPT !.current_members = @ - 1]
  BY <1>1 DEF TypeOK
<1>3. group'[g] \in GroupConfig
  BY <1>1, <1>2 DEF GroupConfig
<1>4. WatchedFields(group'[g]) = WatchedFields(group[g])
  BY <1>1, <1>2 DEF GroupConfig, WatchedFields
<1> QED
  BY <1>1, <1>3, <1>4 DEF TypeOK, Only, Kept

LEMMA LamportsEffect ==
    ASSUME TypeOK, NEW g \in Groups, NEW lamports \in Nat, now' = now,
           Exists(group[g]), group' = [group EXCEPT ![g].lamports = lamports]
    PROVE  Only(g) /\ Kept(g)
<1>1. group[g] \in GroupConfig
  BY DEF TypeOK, Exists
<1>2. group'[g] = [group[g] EXCEPT !.lamports = lamports]
  BY DEF TypeOK
<1>3. group'[g] \in GroupConfig
  BY <1>1, <1>2 DEF GroupConfig
<1>4. /\ WatchedFields(group'[g]) = WatchedFields(group[g])
      /\ group'[g].current_members = group[g].current_members
      /\ group[g].current_members \in Nat
  BY <1>1, <1>2 DEF GroupConfig, WatchedFields
<1> QED
  BY <1>3, <1>4 DEF TypeOK, Only, Kept

LEMMA StartEffect ==
    ASSUME TypeOK, NEW g \in Groups, StartCycle(g)
    PROVE  Only(g) /\ Started(g)
<1>1. group[g] \in GroupConfig /\ now \in Nat
  BY DEF TypeOK, StartCycle, Exists
<1>2. group'[g] = [group[g] EXCEPT !.status = "Active", !.cycle_start = now]
  BY <1>1 DEF TypeOK, StartCycle, GroupConfig
<1>3. group'[g] \in GroupConfig
  BY <1>1, <1>2 DEF GroupConfig, Statuses
<1>4. Only(g)
  BY <1>1 DEF TypeOK, StartCycle, Only
<1> QED
  BY <1>2, <1>3, <1>4 DEF StartCycle, Started

LEMMA SettleEffect ==
    ASSUME TypeOK, NEW g \in Groups, NEW pairs, NEW burned,
           NEW outcome \in {"Completed", "Cancelled"},
           Exists(group[g]), Exists(vault[g]), Settle(g, pairs, burned, outcome),
           \/ group[g].status = "Active"
           \/ group[g].status = "Open" /\ outcome = "Cancelled",
           outcome = "Completed" => now >= CycleEnd(group[g])
    PROVE  Only(g) /\ Ended(g, outcome)
<1>1. group[g] \in GroupConfig /\ group'[g] \in GroupConfig
  <2>1. outcome \in Statuses
    BY DEF Statuses
  <2> QED
    BY <2>1, SettledGroup DEF TypeOK, Exists
<1>2. /\ group'[g].current_members = group[g].current_members
      /\ group'[g].status = outcome /\ group'[g].settled_at = now
      /\ group'[g].cycle_start = group[g].cycle_start
      /\ group'[g].frequency = group[g].frequency
      /\ group'[g].total_periods = group[g].total_periods
  BY <1>1 DEF TypeOK, Settle, GroupConfig
<1>3. Only(g)
  BY <1>1 DEF TypeOK, Settle, Only
<1> QED
  BY <1>1, <1>2, <1>3 DEF Ended

LEMMA CreateEffect ==
    ASSUME TypeOK, TypeOK', NEW g \in Groups, Create(g)
    PROVE  Only(g) /\ Opened(g)
<1>1. PICK creator \in Creators, payer \in Payers, mint \in Mints,
           amount \in DepositAmounts, frequency \in 0..(MaxFrequency + 1),
           periods \in PeriodCounts, size \in GroupSizes :
             CreateGroup(g, creator, payer, mint, amount, frequency, periods, size)
  BY DEF Create
<1>2. group'[g] = [creator |-> creator, rent_payer |-> payer, mint |-> mint,
                deposit_amount |-> amount, cycle_start |-> 0, settled_at |-> 0,
                frequency |-> frequency, total_periods |-> periods,
                max_members |-> size, current_members |-> 0,
                status |-> "Open", lamports |-> Floor("group")]
  BY <1>1 DEF TypeOK, CreateGroup
<1>3. group'[g] \in GroupConfig
  <2>1. Floor("group") \in Nat
    BY AmountAssumption DEF TypeOK, Floor, Kinds
  <2>2. /\ amount \in U64 \ {0} /\ frequency \in Frequencies
        /\ periods \in 1..MaxPeriods /\ size \in 2..10
    BY <1>1, AmountAssumption DEF CreateGroup, ValidArguments, U64
  <2> QED
    BY <1>2, <2>1, <2>2 DEF GroupConfig, Statuses
<1>4. Only(g)
  BY <1>1 DEF TypeOK, CreateGroup, Only
<1>5. ~Exists(group[g])
  BY <1>1 DEF CreateGroup
<1> QED
  BY <1>2, <1>3, <1>4, <1>5 DEF Opened

LEMMA CloseGroupEffect ==
    ASSUME TypeOK, NEW g \in Groups, CloseGroup(g)
    PROVE  Only(g) /\ Freed(g)
BY DEF TypeOK, CloseGroup, Only, Freed

\* A step lets a second pass, leaves the groups alone, or has one of these
\* effects on one group.
LEMMA StepEffect ==
    ASSUME TypeOK, TypeOK', [Next]_vars
    PROVE  \/ now' = now + 1 /\ group' = group
           \/ now' = now /\ group' = group
           \/ \E g \in Groups : Only(g) /\ GroupEffect(g)
<1> DEFINE Effect == \E g \in Groups : Only(g) /\ GroupEffect(g)
           Idle == now' = now /\ group' = group
<1>1. ASSUME NEW g \in Groups, Join(g)
      PROVE  Effect
  BY <1>1, JoinEffect DEF GroupEffect
<1>2. ASSUME NEW g \in Groups, LeaveOrDeposit(g)
      PROVE  Effect \/ Idle
  <2>1. ASSUME NEW m \in Members, NEW a \in TokenAccounts, LeaveGroup(g, m, a)
        PROVE  Effect
    BY <2>1, CloseRecordEffect DEF LeaveGroup, GroupEffect
  <2>2. ASSUME NEW m \in Members, NEW a \in TokenAccounts, Deposit(g, m, a)
        PROVE  Idle
    BY <2>2 DEF Deposit
  <2> HIDE DEF Effect, Idle
  <2> QED
    BY <1>2, <2>1, <2>2 DEF LeaveOrDeposit
<1>3. ASSUME NEW g \in Groups, CrankStep(g)
      PROVE  Effect \/ Idle
  <2>1. ASSUME NEW pairs \in PairLists, Distribute(g, pairs)
        PROVE  Effect
    BY <2>1, SettleEffect DEF Distribute, SettlementChecks, GroupEffect
  <2>2. ASSUME RefundVaultRent(g)
        PROVE  Effect
    <3>1. group[g] \in GroupConfig /\ Floor("group") \in Nat
      BY <2>2, AmountAssumption DEF TypeOK, RefundVaultRent, Exists, Floor, Kinds
    <3>2. group[g].lamports - LamportsAboveRentFloor(g) \in Nat
      BY <3>1 DEF LamportsAboveRentFloor, GroupConfig
    <3> QED
      BY <2>2, <3>2, LamportsEffect DEF RefundVaultRent, GroupEffect
  <2>3. ASSUME NEW m \in Members, CloseMemberRecord(g, m)
        PROVE  Effect
    BY <2>3, CloseRecordEffect DEF CloseMemberRecord, GroupEffect
  <2>4. ASSUME NEW m \in Members, CloseJoinTally(g, m)
        PROVE  Idle
    BY <2>4 DEF CloseJoinTally
  <2>5. ASSUME CloseGroup(g)
        PROVE  Effect
    BY <2>5, CloseGroupEffect DEF GroupEffect
  <2> HIDE DEF Effect, Idle
  <2> QED
    BY <1>3, <2>1, <2>2, <2>3, <2>4, <2>5 DEF CrankStep
<1>4. ASSUME NEW g \in Groups, CreatorStep(g)
      PROVE  Effect \/ Idle
  <2>1. ASSUME NEW pairs \in PairLists, NEW mint_writable \in BOOLEAN,
               EmergencyCancel(g, pairs, mint_writable)
        PROVE  Effect
    BY <2>1, SettleEffect DEF EmergencyCancel, CancelChecks, SettlementChecks, GroupEffect
  <2>2. ASSUME NEW authority \in Keys, SetJoinAuthority(g, authority)
        PROVE  Idle
    BY <2>2 DEF SetJoinAuthority
  <2>3. ASSUME Create(g)
        PROVE  Effect
    BY <2>3, CreateEffect DEF GroupEffect
  <2>4. ASSUME StartCycle(g)
        PROVE  Effect
    BY <2>4, StartEffect DEF GroupEffect
  <2> HIDE DEF Effect, Idle
  <2> QED
    BY <1>4, <2>1, <2>2, <2>3, <2>4 DEF CreatorStep
<1>5. ASSUME Environment
      PROVE  Effect \/ Idle \/ (now' = now + 1 /\ group' = group)
  <2>1. ASSUME NEW g \in Groups, NEW payer \in Payers, NEW amount \in 1..MaxTopUp,
               TopUp(g, payer, amount)
        PROVE  Effect
    <3>1. group[g].lamports + amount \in Nat /\ Exists(group[g])
      BY <2>1, AmountAssumption DEF TypeOK, TopUp, Exists, GroupConfig
    <3> QED
      BY <2>1, <3>1, LamportsEffect DEF TopUp, GroupEffect
  <2> HIDE DEF Effect
  <2> QED
    BY <1>5, <2>1 DEF Environment, Tick, ChangeRentRate, Freeze, Thaw, DonateTokens
<1>6. ASSUME UNCHANGED vars
      PROVE  Idle
  BY <1>6 DEF vars
<1> HIDE DEF Effect, Idle
<1> QED
  BY <1>1, <1>2, <1>3, <1>4, <1>5, <1>6 DEF Next, Effect, Idle

------------------------------------------------------------------------------
(* A group that started cannot lose its last record, and so cannot close,  *)
(* before the retention of its records has ended.  WatchedChain demands it *)
(* of CloseGroup; the program checks the member count instead.             *)

RetentionInv(g) ==
    Exists(group[g]) =>
        /\ group[g].status = "Open" => group[g].cycle_start = 0
        /\ (/\ Settled(g) /\ group[g].cycle_start > 0
            /\ now < RecordRetentionEnd(group[g].settled_at))
           => group[g].current_members > 0

ChainInv == MembershipInv /\ \A g \in Groups : RetentionInv(g)

LEMMA RetentionStep ==
    ASSUME ChainInv, MembershipInv', NEW h \in Groups,
           NEW g \in Groups, Only(g), GroupEffect(g)
    PROVE  RetentionInv(h)'
<1> USE DEF ChainInv, MembershipInv, TypeOK
<1>1. CASE h # g
  BY <1>1 DEF Only, RetentionInv, Settled, Exists
<1> SUFFICES ASSUME h = g
             PROVE  RetentionInv(g)'
  BY <1>1
<1>2. now' = now
  BY DEF Only
<1>3. CASE Opened(g)
  BY <1>3 DEF Opened, RetentionInv, Settled
<1>4. CASE Kept(g)
  <2>1. group[g] \in GroupConfig /\ group'[g] \in GroupConfig
    BY <1>4 DEF Kept, Exists
  <2>2. /\ group'[g].status = group[g].status
        /\ group'[g].cycle_start = group[g].cycle_start
        /\ group'[g].settled_at = group[g].settled_at
    BY <1>4 DEF Kept, WatchedFields
  <2>3. RecordRetentionEnd(group[g].settled_at) \in Nat /\ now \in Nat
    <3>1. group[g].settled_at \in Nat /\ now \in Nat
      BY <2>1 DEF GroupConfig
    <3>2. RetentionSecs \in Nat
      BY TimeAssumption
    <3> QED
      BY <3>1, <3>2 DEF RecordRetentionEnd
  <2>4. /\ group[g].current_members \in Nat /\ group'[g].current_members \in Nat
        /\ group[g].status = "Open" => ~Settled(g)
    BY <2>1 DEF GroupConfig, Settled
  <2> QED
    BY <1>2, <1>4, <2>2, <2>3, <2>4 DEF Kept, RetentionInv, Settled, RecordRetentionEnd
<1>5. CASE Started(g)
  BY <1>5 DEF Started, RetentionInv, Settled, Exists, GroupConfig
<1>6. ASSUME NEW outcome \in {"Completed", "Cancelled"}, Ended(g, outcome)
      PROVE  RetentionInv(g)'
  <2>1. group[g] \in GroupConfig
    BY <1>6 DEF Ended, Exists
  <2>2. /\ group'[g].status = outcome
        /\ group'[g].cycle_start = group[g].cycle_start
        /\ group'[g].current_members = group[g].current_members
    BY <1>6 DEF Ended
  <2>3. group[g].cycle_start > 0 => group[g].current_members >= 2
    BY <1>6, <2>1 DEF Ended, RetentionInv, GroupInv
  <2> QED
    BY <2>1, <2>2, <2>3 DEF RetentionInv, GroupConfig
<1>7. CASE Freed(g)
  BY <1>7 DEF Freed, RetentionInv, Exists
<1> QED
  BY <1>3, <1>4, <1>5, <1>6, <1>7 DEF GroupEffect

LEMMA NextChainInv ==
    ASSUME ChainInv, [Next]_vars
    PROVE  ChainInv'
<1>1. MembershipInv'
  BY NextInv DEF ChainInv
<1> SUFFICES ASSUME NEW h \in Groups
             PROVE  RetentionInv(h)'
  BY <1>1 DEF ChainInv
<1>2. CASE (now' = now + 1 \/ now' = now) /\ group' = group
  <2>1. now \in Nat /\ RetentionInv(h)
    BY DEF ChainInv, MembershipInv, TypeOK
  <2>2. Exists(group[h]) => RecordRetentionEnd(group[h].settled_at) \in Nat
    BY TimeAssumption
    DEF ChainInv, MembershipInv, TypeOK, Exists, GroupConfig, RecordRetentionEnd
  <2> QED
    BY <1>2, <2>1, <2>2 DEF RetentionInv, Settled, Exists, RecordRetentionEnd
<1>3. ASSUME NEW g \in Groups, Only(g), GroupEffect(g)
      PROVE  RetentionInv(h)'
  BY <1>1, <1>3, RetentionStep
<1> QED
  BY <1>1, <1>2, <1>3, StepEffect DEF ChainInv, MembershipInv

LEMMA Retention == Spec => []ChainInv
<1>1. Init => ChainInv
  BY InitInv DEF Init, ChainInv, RetentionInv, Exists
<1>2. ChainInv /\ [Next]_vars => ChainInv'
  BY NextChainInv
<1> QED
  BY <1>1, <1>2, PTL DEF Spec

------------------------------------------------------------------------------
(* Every step of the program is a step of the watched chain                *)

\* The watched chain after a step on the account at one address.
LEMMA WatchedUpdate ==
    ASSUME NEW g \in Groups, Only(g), group \in [Groups -> GroupConfig \cup {None}]
    PROVE  WatchedGroups' =
             [WatchedGroups EXCEPT ![g] =
                IF Exists(group'[g]) THEN WatchedFields(group'[g]) ELSE None]
BY DEF Only, WatchedGroups

LEMMA WatchedStep ==
    ASSUME ChainInv, NEW g \in Groups, Only(g), GroupEffect(g)
    PROVE  Watched!GroupStep(g) \/ UNCHANGED Watched!chainVars
<1> DEFINE W == WatchedGroups
<1>1. now' = now /\ now \in Nat /\ RetentionInv(g)
  BY DEF Only, ChainInv, MembershipInv, TypeOK
<1>2. W' = [W EXCEPT ![g] =
             IF Exists(group'[g]) THEN WatchedFields(group'[g]) ELSE None]
  BY WatchedUpdate DEF ChainInv, MembershipInv, TypeOK
<1>3. /\ DOMAIN W = Groups /\ g \in DOMAIN W
      /\ W = [h \in Groups |-> W[h]]
      /\ Exists(group[g]) => W[g] = WatchedFields(group[g])
      /\ ~Exists(group[g]) => W[g] = None
  BY DEF WatchedGroups
<1>4. Exists(group[g]) => WatchedFields(group[g]) # None /\ group[g] \in GroupConfig
  BY WatchedNoneAssumption
  DEF ChainInv, MembershipInv, TypeOK, Exists, GroupConfig, WatchedFields
<1>5. group'[g] \in GroupConfig => Exists(group'[g])
  BY NoneAssumption DEF Exists
<1> HIDE DEF W
<1>6. CASE Opened(g)
  <2>1. /\ W[g] = None /\ group'[g].frequency \in Frequencies
        /\ W' = [W EXCEPT ![g] =
               [status |-> "Open", cycle_start |-> 0, settled_at |-> 0,
                frequency |-> group'[g].frequency,
                total_periods |-> group'[g].total_periods]]
    BY <1>2, <1>3, <1>5, <1>6 DEF Opened, WatchedFields, GroupConfig
  <2>2. Watched!CreateGroup(g)
    BY <1>1, <1>6, <2>1 DEF Opened, W, Watched!CreateGroup, Watched!Frequencies, Frequencies
  <2> QED
    BY <2>2 DEF Watched!GroupStep
<1>7. CASE Kept(g)
  <2>1. W' = W
    BY <1>2, <1>3, <1>5, <1>7 DEF Kept
  <2> QED
    BY <1>1, <2>1 DEF W, Watched!chainVars
<1>8. CASE Started(g)
  <2>1. /\ W[g] = WatchedFields(group[g]) /\ W[g] # None
        /\ W[g].status = "Open" /\ Exists(group'[g])
    BY <1>3, <1>4, <1>5, <1>8 DEF Started, WatchedFields
  <2>2. WatchedFields(group'[g]) =
          [status |-> "Active", cycle_start |-> now,
           settled_at |-> group[g].settled_at, frequency |-> group[g].frequency,
           total_periods |-> group[g].total_periods]
    BY <1>4, <1>8 DEF Started, GroupConfig, WatchedFields
  <2>3. W' = [W EXCEPT ![g].status = "Active", ![g].cycle_start = now]
    <3> DEFINE half == [status |-> "Active", cycle_start |-> group[g].cycle_start,
                        settled_at |-> group[g].settled_at,
                        frequency |-> group[g].frequency,
                        total_periods |-> group[g].total_periods]
    <3>1. W' = [W EXCEPT ![g] = WatchedFields(group'[g])]
      BY <1>2, <2>1
    <3>2. [W EXCEPT ![g].status = "Active", ![g].cycle_start = now] =
            [W EXCEPT ![g] = [W[g] EXCEPT !.status = "Active", !.cycle_start = now]]
      OBVIOUS
    <3>3. [W[g] EXCEPT !.status = "Active", !.cycle_start = now] =
            [[W[g] EXCEPT !.status = "Active"] EXCEPT !.cycle_start = now]
      OBVIOUS
    <3>4. [W[g] EXCEPT !.status = "Active"] = half
      BY <2>1 DEF WatchedFields
    <3>5. [half EXCEPT !.cycle_start = now] = WatchedFields(group'[g])
      BY <2>2
    <3> QED
      BY <3>1, <3>2, <3>3, <3>4, <3>5
  <2>4. Watched!StartCycle(g)
    BY <1>1, <2>1, <2>3 DEF W, Watched!StartCycle
  <2> QED
    BY <2>4 DEF Watched!GroupStep
<1>9. ASSUME NEW outcome \in {"Completed", "Cancelled"}, Ended(g, outcome)
      PROVE  Watched!GroupStep(g)
  <2>1. /\ W[g] = WatchedFields(group[g]) /\ W[g] # None
        /\ W[g].status = group[g].status /\ Exists(group'[g])
    BY <1>3, <1>4, <1>5, <1>9 DEF Ended, WatchedFields
  <2>2. WatchedFields(group'[g]) =
          [status |-> outcome, cycle_start |-> group[g].cycle_start,
           settled_at |-> now, frequency |-> group[g].frequency,
           total_periods |-> group[g].total_periods]
    BY <1>9 DEF Ended, WatchedFields
  <2>3. W' = [W EXCEPT ![g].status = outcome, ![g].settled_at = now]
    <3> DEFINE half == [status |-> outcome, cycle_start |-> group[g].cycle_start,
                        settled_at |-> group[g].settled_at,
                        frequency |-> group[g].frequency,
                        total_periods |-> group[g].total_periods]
    <3>1. W' = [W EXCEPT ![g] = WatchedFields(group'[g])]
      BY <1>2, <2>1
    <3>2. [W EXCEPT ![g].status = outcome, ![g].settled_at = now] =
            [W EXCEPT ![g] = [W[g] EXCEPT !.status = outcome, !.settled_at = now]]
      OBVIOUS
    <3>3. [W[g] EXCEPT !.status = outcome, !.settled_at = now] =
            [[W[g] EXCEPT !.status = outcome] EXCEPT !.settled_at = now]
      OBVIOUS
    <3>4. [W[g] EXCEPT !.status = outcome] = half
      BY <2>1 DEF WatchedFields
    <3>5. [half EXCEPT !.settled_at = now] = WatchedFields(group'[g])
      BY <2>2
    <3> QED
      BY <3>1, <3>2, <3>3, <3>4, <3>5
  <2>4. CASE outcome = "Completed"
    <3>1. Watched!CycleEnd(W[g]) = CycleEnd(group[g])
      BY <2>1 DEF Watched!CycleEnd, CycleEnd, WatchedFields
    <3>2. Watched!Distribute(g)
      BY <1>1, <1>9, <2>1, <2>3, <2>4, <3>1 DEF W, Ended, Watched!Distribute
    <3> QED
      BY <3>2 DEF Watched!GroupStep
  <2>5. CASE outcome = "Cancelled"
    <3>1. Watched!EmergencyCancel(g)
      BY <1>1, <1>9, <2>1, <2>3, <2>5 DEF W, Ended, Watched!EmergencyCancel
    <3> QED
      BY <3>1 DEF Watched!GroupStep
  <2> QED
    BY <2>4, <2>5
<1>10. CASE Freed(g)
  <2>1. /\ W[g] = WatchedFields(group[g]) /\ W[g] # None
        /\ W' = [W EXCEPT ![g] = None]
    BY <1>2, <1>3, <1>4, <1>10 DEF Freed, Exists
  <2>2. W[g].status \in {"Completed", "Cancelled"}
    BY <1>10, <2>1 DEF Freed, Settled, WatchedFields
  <2>3. W[g].cycle_start > 0 => now >= Watched!RecordRetentionEnd(W[g].settled_at)
    <3>1. RecordRetentionEnd(group[g].settled_at) \in Nat
      BY <1>4, <1>10, TimeAssumption DEF Freed, GroupConfig, RecordRetentionEnd
    <3>2. group[g].cycle_start > 0 => now >= RecordRetentionEnd(group[g].settled_at)
      BY <1>1, <1>4, <1>10, <3>1 DEF Freed, RetentionInv, GroupConfig
    <3> QED
      BY <2>1, <3>2 DEF WatchedFields, RecordRetentionEnd, Watched!RecordRetentionEnd
  <2>4. Watched!CloseGroup(g)
    BY <1>1, <2>1, <2>2, <2>3 DEF W, Watched!CloseGroup
  <2> QED
    BY <2>4 DEF Watched!GroupStep
<1> QED
  BY <1>6, <1>7, <1>8, <1>9, <1>10 DEF GroupEffect

\* The program implements the chain that the watchdog is checked with: its
\* initial states are initial there and every instruction, transfer and second
\* is a step of it or leaves what the watchdog reads alone.  In particular a
\* group that was Active cannot free its address before its records' retention.
THEOREM ProgramIsWatchedChain == Spec => SafeNudgeIsWatched
<1>1. Init => Watched!ChainInit
  BY DEF Init, Watched!ChainInit, WatchedGroups, Exists
<1>2. ChainInv /\ [Next]_vars => [Watched!ChainNext]_Watched!chainVars
  <2> SUFFICES ASSUME ChainInv, [Next]_vars
               PROVE  Watched!ChainNext \/ UNCHANGED Watched!chainVars
    OBVIOUS
  <2>1. TypeOK /\ TypeOK'
    BY NextInv DEF ChainInv, MembershipInv
  <2>2. ASSUME group' = group
        PROVE  WatchedGroups' = WatchedGroups
    BY <2>2 DEF WatchedGroups
  <2>3. CASE now' = now + 1 /\ group' = group
    BY <2>1, <2>2, <2>3 DEF TypeOK, Watched!ChainNext, Watched!Elapse
  <2>4. CASE now' = now /\ group' = group
    BY <2>2, <2>4 DEF Watched!chainVars
  <2>5. ASSUME NEW g \in Groups, Only(g), GroupEffect(g)
        PROVE  Watched!ChainNext \/ UNCHANGED Watched!chainVars
    BY <2>5, WatchedStep DEF Watched!ChainNext
  <2> QED
    BY <2>1, <2>3, <2>4, <2>5, StepEffect
<1> QED
  BY <1>1, <1>2, Retention, PTL DEF Spec, SafeNudgeIsWatched, Watched!ChainSpec

------------------------------------------------------------------------------
(* Messages that outlive a group: what the proofs about signed joins and   *)
(* signed cancels in flight share.  k counts the groups created at an      *)
(* address, and emptied holds the <<address, k>> that settled without any  *)
(* record.                                                                 *)

LEMMA OneGroupStep ==
    ASSUME TypeOK, TypeOK', [Next]_vars, NEW g \in Groups
    PROVE  \/ (now' = now \/ now' = now + 1) /\ group'[g] = group[g]
           \/ now' = now /\ GroupEffect(g)
<1>1. ASSUME NEW h \in Groups, Only(h), GroupEffect(h)
      PROVE  now' = now /\ (group'[g] = group[g] \/ GroupEffect(g))
  BY <1>1 DEF Only, TypeOK
<1> QED
  BY <1>1, StepEffect

\* The terms of every group are among those that a join may name.
OffersOK == \A g \in Groups : Exists(group[g]) => Terms(group[g]) \in OfferedTerms

LEMMA OffersStep ==
    ASSUME MembershipInv, MembershipInv', OffersOK, [Next]_vars
    PROVE  OffersOK'
<1> SUFFICES ASSUME NEW g \in Groups, Exists(group'[g])
             PROVE  Terms(group'[g]) \in OfferedTerms
  BY DEF OffersOK, Exists, Terms
<1>1. CASE group'[g] = group[g]
  BY <1>1 DEF OffersOK
<1>2. CASE group'[g] # group[g] /\ Exists(group[g])
  BY <1>2, LifecycleStep DEF LifecycleOf, OffersOK
<1>3. CASE ~Exists(group[g])
  <2>1. Opened(g) \/ group'[g] = group[g]
    BY <1>3, OneGroupStep
    DEF MembershipInv, GroupEffect, Kept, Started, Ended, Freed
  <2> QED
    BY <1>1, <2>1 DEF Opened, GroupConfig, Terms, OfferedTerms
<1> QED
  BY <1>1, <1>2, <1>3

\* Group k at g settled without a record, or the retention of a record kept
\* from the given time on has ended.
Past(g, k, emptied, time) == <<g, k>> \in emptied \/ now >= time + RetentionSecs

\* A settled group has a record, or had none, or its retention has ended.
SettledPast(g, k, emptied) ==
    Exists(group[g]) /\ Settled(g) =>
        \/ group[g].current_members > 0
        \/ Past(g, k, emptied, group[g].settled_at)

\* What holds of a message that was signed for group `first` at g, at that
\* time, while the group was unsettled, when k groups have been created there.
Outlived(g, time, first, k, emptied) ==
    /\ first <= k /\ time <= now
    /\ \A i \in first..(k - 1) : Past(g, i, emptied, time)
    /\ IF Exists(group[g]) THEN Settled(g) => time <= group[g].settled_at
       ELSE Past(g, k, emptied, time)

\* What a step has to do to the two history variables.
InstanceStep(g, k, k2, E, E2) ==
    /\ k2 = k + (IF ~Exists(group[g]) /\ Exists(group'[g]) THEN 1 ELSE 0)
    /\ E \subseteq E2
    /\ Unsettled(g) /\ ~Exists(vault'[g]) /\ Joined(g) = {} => <<g, k>> \in E2

LEMMA SettledPastStep ==
    ASSUME MembershipInv, MembershipInv', [Next]_vars, NEW g \in Groups,
           NEW k, NEW k2, NEW E, NEW E2, k \in Nat,
           InstanceStep(g, k, k2, E, E2), SettledPast(g, k, E)
    PROVE  SettledPast(g, k2, E2)'
<1>1. TypeOK /\ TypeOK' /\ GroupInv(g) /\ GroupInv(g)' /\ RetentionSecs \in Nat
  BY TimeAssumption DEF MembershipInv
<1>2. now \in Nat /\ now' \in Nat
  BY <1>1 DEF TypeOK
<1>3. /\ Exists(group[g]) => group[g] \in GroupConfig
      /\ Exists(group'[g]) => group'[g] \in GroupConfig
  BY <1>1 DEF TypeOK, Exists
<1>4. CASE (now' = now \/ now' = now + 1) /\ group'[g] = group[g]
  <2>1. k2 = k
    BY <1>4 DEF InstanceStep
  <2> QED
    BY <1>1, <1>2, <1>3, <1>4, <2>1
    DEF SettledPast, Past, InstanceStep, Settled, Exists, GroupConfig
<1>5. CASE now' = now /\ (Opened(g) \/ Started(g) \/ Freed(g))
  BY <1>3, <1>5 DEF Opened, Started, Freed, SettledPast, Settled, Exists, GroupConfig
<1>6. CASE now' = now /\ Kept(g)
  <2>1. k2 = k /\ Exists(group[g]) /\ Exists(group'[g])
    BY <1>6, NoneAssumption DEF Kept, InstanceStep, Exists
  <2>2. /\ group'[g].status = group[g].status
        /\ group'[g].settled_at = group[g].settled_at
    BY <1>6 DEF Kept, WatchedFields
  <2>3. /\ group[g].current_members \in Nat /\ group'[g].current_members \in Nat
        /\ group[g].settled_at \in Nat
        /\ Settled(g) => group[g].status # "Open"
    BY <1>3, <2>1 DEF GroupConfig, Settled
  <2> QED
    BY <1>1, <1>2, <1>6, <2>1, <2>2, <2>3
    DEF Kept, SettledPast, Past, InstanceStep, Settled, RecordRetentionEnd
<1>7. ASSUME now' = now, NEW outcome \in {"Completed", "Cancelled"}, Ended(g, outcome)
      PROVE  SettledPast(g, k2, E2)'
  <2>1. Exists(group[g]) /\ Exists(group'[g]) /\ Unsettled(g) /\ k2 = k
    BY <1>7, NoneAssumption DEF Ended, Exists, InstanceStep, Unsettled, Settled
  <2>2. Settled(g)' /\ ~Exists(vault'[g])
    BY <1>1, <1>7, <2>1 DEF Ended, Settled, GroupInv, Exists
  <2>3. CASE Joined(g) = {}
    BY <2>1, <2>2, <2>3 DEF InstanceStep, SettledPast, Past
  <2>4. CASE Joined(g) # {}
    <3>1. group[g].current_members \in Nat /\ group[g].current_members # 0
      BY <1>1, <2>1, <2>4, JoinedFinite DEF GroupInv
    <3> QED
      BY <1>7, <3>1 DEF Ended, SettledPast
  <2> QED
    BY <2>3, <2>4
<1> QED
  BY <1>1, <1>4, <1>5, <1>6, <1>7, OneGroupStep DEF GroupEffect

LEMMA OutlivedStep ==
    ASSUME MembershipInv, MembershipInv', [Next]_vars, NEW g \in Groups,
           NEW k, NEW k2, NEW E, NEW E2, k \in Nat,
           NEW time, time \in Nat, NEW first, first \in Nat,
           InstanceStep(g, k, k2, E, E2), SettledPast(g, k, E),
           Outlived(g, time, first, k, E)
    PROVE  Outlived(g, time, first, k2, E2)'
<1>1. TypeOK /\ TypeOK' /\ GroupInv(g) /\ GroupInv(g)' /\ RetentionSecs \in Nat
  BY TimeAssumption DEF MembershipInv
<1>2. now \in Nat /\ now' \in Nat /\ (now' = now \/ now' = now + 1)
  BY <1>1, OneGroupStep DEF TypeOK
<1>3. /\ Exists(group[g]) => group[g] \in GroupConfig
      /\ Exists(group'[g]) => group'[g] \in GroupConfig
  BY <1>1 DEF TypeOK, Exists
<1>4. \A i : Past(g, i, E, time) => Past(g, i, E2, time)'
  BY <1>1, <1>2 DEF Past, InstanceStep
<1>5. k2 \in Nat /\ first <= k2 /\ k <= k2 /\ time <= now'
  BY <1>2 DEF InstanceStep, Outlived
<1>6. ASSUME NEW i \in first..(k2 - 1)
      PROVE  Past(g, i, E2, time)'
  <2>1. CASE i <= k - 1
    BY <1>4, <1>5, <2>1 DEF Outlived
  <2>2. CASE ~(i <= k - 1)
    <3>1. i = k /\ ~Exists(group[g])
      BY <2>2, <1>5 DEF InstanceStep
    <3> QED
      BY <1>4, <3>1 DEF Outlived
  <2> QED
    BY <2>1, <2>2
<1>7. Exists(group'[g]) /\ Settled(g)' => time <= group'[g].settled_at
  <2>1. CASE group'[g] = group[g] \/ Kept(g)
    <3>1. CASE group'[g] = group[g]
      BY <3>1 DEF Outlived, Settled, Exists
    <3>2. CASE Kept(g)
      <4>1. /\ group'[g].status = group[g].status
            /\ group'[g].settled_at = group[g].settled_at
        BY <3>2 DEF Kept, WatchedFields
      <4> QED
        BY <3>2, <4>1 DEF Kept, Outlived, Settled
    <3> QED
      BY <2>1, <3>1, <3>2
  <2>2. CASE Opened(g) \/ Started(g) \/ Freed(g)
    BY <1>3, <2>2 DEF Opened, Started, Freed, Settled, Exists, GroupConfig
  <2>3. ASSUME now' = now, NEW outcome \in {"Completed", "Cancelled"}, Ended(g, outcome)
        PROVE  time <= group'[g].settled_at
    BY <2>3 DEF Ended, Outlived
  <2> QED
    BY <1>1, <2>1, <2>2, <2>3, OneGroupStep DEF GroupEffect
<1>8. ~Exists(group'[g]) => Past(g, k2, E2, time)'
  <2> SUFFICES ASSUME ~Exists(group'[g])
               PROVE  Past(g, k2, E2, time)'
    OBVIOUS
  <2>1. k2 = k
    BY DEF InstanceStep
  <2>2. CASE ~Exists(group[g])
    BY <1>4, <2>1, <2>2 DEF Outlived
  <2>3. CASE Exists(group[g])
    <3>1. Freed(g)
      BY <1>1, <2>3, OneGroupStep, NoneAssumption
      DEF GroupEffect, Opened, Kept, Started, Ended, Exists
    <3>2. Past(g, k, E, group[g].settled_at) /\ time <= group[g].settled_at
      BY <2>3, <3>1 DEF Freed, SettledPast, Outlived
    <3>3. group[g].settled_at \in Nat
      BY <1>3, <2>3 DEF GroupConfig
    <3>4. Past(g, k, E, time)
      BY <1>1, <1>2, <3>2, <3>3 DEF Past
    <3> QED
      BY <1>4, <2>1, <3>4
  <2> QED
    BY <2>2, <2>3
<1> QED
  BY <1>5, <1>6, <1>7, <1>8 DEF Outlived

------------------------------------------------------------------------------
(* Sums.  The library's induction theorems take the property as an         *)
(* operator; here it is the set of the sets that have it, which the        *)
(* provers can instantiate, and the induction is the well-foundedness of   *)
(* strict inclusion between finite sets.                                   *)

\* A family of sets that holds T whenever it holds every strict subset of T
\* holds every subset of a finite set.
LEMMA SubsetInduction ==
    ASSUME NEW S, IsFiniteSet(S), NEW Good,
           \A T \in SUBSET S :
               (\A U \in SUBSET T : U # T => U \in Good) => T \in Good
    PROVE  \A T \in SUBSET S : T \in Good
<1> DEFINE Bad == {T \in SUBSET S : T \notin Good}
<1> SUFFICES ASSUME Bad # {}
             PROVE  FALSE
  OBVIOUS
<1>1. Bad \subseteq FiniteSubsetsOf(S)
  BY FS_FiniteSubsetsOfFinite
<1>2. IsWellFoundedOn(StrictSubsetOrdering(S), FiniteSubsetsOf(S))
  BY FS_StrictSubsetOrderingWellFounded
<1>3. PICK T \in Bad : \A U \in Bad : ~(<<U, T>> \in StrictSubsetOrdering(S))
  <2> HIDE DEF Bad
  <2> QED
    BY <1>1, <1>2, WFMin
<1>4. ASSUME NEW U \in SUBSET T, U # T
      PROVE  U \in Good
  <2>1. <<U, T>> \in StrictSubsetOrdering(S)
    BY <1>4 DEF StrictSubsetOrdering
  <2> QED
    BY <1>3, <1>4, <2>1
<1> QED
  BY <1>3, <1>4

\* The same, one element at a time.
LEMMA FiniteInduction ==
    ASSUME NEW S, IsFiniteSet(S), NEW Good, {} \in Good,
           \A T \in SUBSET S, x \in S :
               x \notin T /\ T \in Good => T \cup {x} \in Good
    PROVE  S \in Good
<1>1. ASSUME NEW T \in SUBSET S, \A U \in SUBSET T : U # T => U \in Good
      PROVE  T \in Good
  <2>1. CASE T = {}
    BY <2>1
  <2>2. CASE T # {}
    <3>1. PICK x \in T : TRUE
      BY <2>2
    <3>2. T \ {x} \in Good /\ T = (T \ {x}) \cup {x} /\ x \notin T \ {x}
      BY <1>1, <3>1
    <3> QED
      BY <3>1, <3>2
  <2> QED
    BY <2>1, <2>2
<1> QED
  BY <1>1, SubsetInduction

------------------------------------------------------------------------------
(* The recursive function inside the sum exists and is unique              *)

Pick(s) == CHOOSE x \in s : TRUE

IsSum(h, f, S) ==
    h = [s \in SUBSET S |->
           IF s = {} THEN 0 ELSE f[Pick(s)] + h[s \ {Pick(s)}]]

LEMMA PickIn ==
    ASSUME NEW s, s # {}
    PROVE  Pick(s) \in s
BY DEF Pick

LEMMA SumIsChosen ==
    ASSUME NEW f, NEW S
    PROVE  SumFunctionOnSet(f, S) = (CHOOSE h : IsSum(h, f, S))[S]
BY DEF SumFunctionOnSet, FoldFunctionOnSet, MapThenFoldSet, IsSum, Pick

\* What IsSum says of one set.
LEMMA IsSumAt ==
    ASSUME NEW f, NEW S, NEW h, IsSum(h, f, S), NEW s \in SUBSET S
    PROVE  h[s] = IF s = {} THEN 0 ELSE f[Pick(s)] + h[s \ {Pick(s)}]
BY DEF IsSum

LEMMA IsSumUnique ==
    ASSUME NEW f, NEW S, NEW T, NEW R, IsFiniteSet(R),
           R \subseteq S, R \subseteq T,
           NEW h, IsSum(h, f, S), NEW k, IsSum(k, f, T)
    PROVE  h[R] = k[R]
<1> DEFINE Good == {s \in SUBSET R : h[s] = k[s]}
<1>1. ASSUME NEW s \in SUBSET R, \A u \in SUBSET s : u # s => u \in Good
      PROVE  s \in Good
  <2>1. /\ h[s] = IF s = {} THEN 0 ELSE f[Pick(s)] + h[s \ {Pick(s)}]
        /\ k[s] = IF s = {} THEN 0 ELSE f[Pick(s)] + k[s \ {Pick(s)}]
    <3>1. s \in SUBSET S /\ s \in SUBSET T
      OBVIOUS
    <3>2. h[s] = IF s = {} THEN 0 ELSE f[Pick(s)] + h[s \ {Pick(s)}]
      BY <3>1, IsSumAt
    <3>3. k[s] = IF s = {} THEN 0 ELSE f[Pick(s)] + k[s \ {Pick(s)}]
      BY <3>1 DEF IsSum
    <3> QED
      BY <3>2, <3>3
  <2>2. CASE s = {}
    BY <2>1, <2>2
  <2>3. CASE s # {}
    <3>1. Pick(s) \in s
      BY <2>3, PickIn
    <3>2. s \ {Pick(s)} \in SUBSET s /\ s \ {Pick(s)} # s
      BY <3>1
    <3>3. h[s \ {Pick(s)}] = k[s \ {Pick(s)}]
      BY <1>1, <3>1, <3>2
    <3>4. h[s] = k[s]
      BY <2>1, <2>3, <3>3
    <3> QED
      BY <3>4
  <2> QED
    BY <2>2, <2>3
<1>2. R \in Good
  <2> HIDE DEF Good
  <2>1. \A s \in SUBSET R : s \in Good
    BY <1>1, SubsetInduction
  <2> QED
    BY <2>1
<1> QED
  BY <1>2

LEMMA IsSumExists ==
    ASSUME NEW f, NEW S, IsFiniteSet(S)
    PROVE  \E h : IsSum(h, f, S)
<1> DEFINE Good == {T \in SUBSET S : \E h : IsSum(h, f, T)}
           Fun(T) == CHOOSE h : IsSum(h, f, T)
<1>1. ASSUME NEW T \in SUBSET S, \A U \in SUBSET T : U # T => U \in Good
      PROVE  T \in Good
  <2> DEFINE v(s) == Fun(s)[s]
             val(s) == IF s = T
                       THEN IF T = {} THEN 0
                            ELSE f[Pick(T)] + v(T \ {Pick(T)})
                       ELSE v(s)
             h == [s \in SUBSET T |-> val(s)]
  <2>1. ASSUME NEW s \in SUBSET T, s # T
        PROVE  IsSum(Fun(s), f, s)
    <3>1. s \in Good
      BY <1>1, <2>1
    <3>2. \E k : IsSum(k, f, s)
      BY <3>1
    <3> QED
      BY <3>2
  <2>2. ASSUME NEW s \in SUBSET T
        PROVE  h[s] = IF s = {} THEN 0 ELSE f[Pick(s)] + h[s \ {Pick(s)}]
    <3>1. s # {} => /\ Pick(s) \in s /\ s \ {Pick(s)} \in SUBSET T
                    /\ s \ {Pick(s)} # T /\ s \ {Pick(s)} # s
      BY PickIn
    <3>2. CASE s = T
      BY <3>1, <3>2
    <3>3. CASE s # T
      <4> DEFINE r == s \ {Pick(s)}
      <4>1. h[s] = Fun(s)[s]
        BY <3>3
      <4>2. Fun(s)[s] = IF s = {} THEN 0 ELSE f[Pick(s)] + Fun(s)[r]
        <5>1. s \in SUBSET s
          OBVIOUS
        <5> HIDE DEF Fun
        <5> QED
          BY <2>1, <3>3, <5>1, IsSumAt
      <4>3. ASSUME s # {}
            PROVE  Fun(s)[r] = h[r]
        <5>1. r \in SUBSET T /\ r # T /\ r \subseteq s
          BY <3>1, <4>3
        <5>2. h[r] = Fun(r)[r]
          BY <5>1
        <5>3. IsFiniteSet(r)
          BY <5>1, FS_Subset
        <5>4. IsSum(Fun(r), f, r) /\ IsSum(Fun(s), f, s)
          BY <2>1, <3>3, <5>1
        <5> HIDE DEF Fun, h, r
        <5> QED
          BY <5>1, <5>2, <5>3, <5>4, IsSumUnique
      <4> HIDE DEF h, Fun
      <4> QED
        BY <4>1, <4>2, <4>3
    <3> QED
      BY <3>2, <3>3
  <2>3. h = [s \in SUBSET T |->
               IF s = {} THEN 0 ELSE f[Pick(s)] + h[s \ {Pick(s)}]]
    <3>1. h = [s \in SUBSET T |-> h[s]]
      OBVIOUS
    <3> HIDE DEF h
    <3> QED
      BY <2>2, <3>1
  <2>4. IsSum(h, f, T)
    BY <2>3 DEF IsSum
  <2> HIDE DEF h
  <2> QED
    BY <2>4
<1>2. S \in Good
  <2> HIDE DEF Good
  <2>1. \A T \in SUBSET S : T \in Good
    BY <1>1, SubsetInduction
  <2> QED
    BY <2>1
<1> QED
  BY <1>2

------------------------------------------------------------------------------
(* Sums                                                                    *)

LEMMA SumChosen ==
    ASSUME NEW f, NEW S, IsFiniteSet(S)
    PROVE  \E h : IsSum(h, f, S) /\ SumFunctionOnSet(f, S) = h[S]
<1> DEFINE h == CHOOSE k : IsSum(k, f, S)
<1>1. IsSum(h, f, S)
  BY IsSumExists
<1>2. SumFunctionOnSet(f, S) = h[S]
  BY SumIsChosen
<1> HIDE DEF h
<1> QED
  BY <1>1, <1>2

LEMMA SumEmpty == \A f : SumFunctionOnSet(f, {}) = 0
<1> SUFFICES ASSUME NEW f
             PROVE  SumFunctionOnSet(f, {}) = 0
  OBVIOUS
<1>1. PICK h : IsSum(h, f, {}) /\ SumFunctionOnSet(f, {}) = h[{}]
  BY SumChosen, FS_EmptySet
<1>2. h[{}] = IF {} = {} THEN 0 ELSE f[Pick({})] + h[{} \ {Pick({})}]
  BY <1>1, IsSumAt
<1> QED
  BY <1>1, <1>2

LEMMA SumPick ==
    ASSUME NEW f, NEW S, IsFiniteSet(S), S # {}
    PROVE  SumFunctionOnSet(f, S) = f[Pick(S)] + SumFunctionOnSet(f, S \ {Pick(S)})
<1> DEFINE R == S \ {Pick(S)}
<1>1. IsFiniteSet(R) /\ R \subseteq S
  BY FS_RemoveElement
<1>2. PICK h : IsSum(h, f, S) /\ SumFunctionOnSet(f, S) = h[S]
  BY SumChosen
<1>3. PICK k : IsSum(k, f, R) /\ SumFunctionOnSet(f, R) = k[R]
  BY <1>1, SumChosen
<1>4. h[R] = k[R]
  <2> HIDE DEF R
  <2> QED
    BY <1>1, <1>2, <1>3, IsSumUnique
<1>5. h[S] = f[Pick(S)] + h[R]
  <2>1. h[S] = IF S = {} THEN 0 ELSE f[Pick(S)] + h[S \ {Pick(S)}]
    BY <1>2, IsSumAt
  <2> QED
    BY <2>1
<1> HIDE DEF R
<1>6. SumFunctionOnSet(f, S) = f[Pick(S)] + SumFunctionOnSet(f, R)
  BY <1>2, <1>3, <1>4, <1>5
<1> QED
  BY <1>6 DEF R

\* Only the summed values matter.
LEMMA SumSame ==
    ASSUME NEW S, IsFiniteSet(S), NEW f, NEW g, \A x \in S : f[x] = g[x]
    PROVE  SumFunctionOnSet(f, S) = SumFunctionOnSet(g, S)
<1> DEFINE Good == {T \in SUBSET S : SumFunctionOnSet(f, T) = SumFunctionOnSet(g, T)}
<1>1. ASSUME NEW T \in SUBSET S, \A U \in SUBSET T : U # T => U \in Good
      PROVE  T \in Good
  <2>1. CASE T = {}
    BY <2>1, SumEmpty
  <2>2. CASE T # {}
    <3>1. Pick(T) \in T /\ IsFiniteSet(T)
      BY <2>2, PickIn, FS_Subset
    <3>2. T \ {Pick(T)} \in Good /\ f[Pick(T)] = g[Pick(T)]
      BY <1>1, <3>1
    <3>3. SumFunctionOnSet(f, T) = f[Pick(T)] + SumFunctionOnSet(f, T \ {Pick(T)})
      BY <2>2, <3>1, SumPick
    <3>4. SumFunctionOnSet(g, T) = g[Pick(T)] + SumFunctionOnSet(g, T \ {Pick(T)})
      BY <2>2, <3>1, SumPick
    <3> QED
      BY <3>2, <3>3, <3>4
  <2> QED
    BY <2>1, <2>2
<1>2. \A T \in SUBSET S : T \in Good
  <2> HIDE DEF Good
  <2> QED
    BY <1>1, SubsetInduction
<1> QED
  BY <1>2

LEMMA SumInt ==
    ASSUME NEW S, IsFiniteSet(S), NEW f, \A x \in S : f[x] \in Int
    PROVE  SumFunctionOnSet(f, S) \in Int
<1> DEFINE Good == {T \in SUBSET S : SumFunctionOnSet(f, T) \in Int}
<1>1. ASSUME NEW T \in SUBSET S, \A U \in SUBSET T : U # T => U \in Good
      PROVE  T \in Good
  <2>1. CASE T = {}
    BY <2>1, SumEmpty
  <2>2. CASE T # {}
    <3>1. Pick(T) \in T /\ IsFiniteSet(T)
      BY <2>2, PickIn, FS_Subset
    <3>2. T \ {Pick(T)} \in Good
      BY <1>1, <3>1
    <3>3. SumFunctionOnSet(f, T) = f[Pick(T)] + SumFunctionOnSet(f, T \ {Pick(T)})
      BY <2>2, <3>1, SumPick
    <3> QED
      BY <3>1, <3>2, <3>3
  <2> QED
    BY <2>1, <2>2
<1>2. \A T \in SUBSET S : T \in Good
  <2> HIDE DEF Good
  <2> QED
    BY <1>1, SubsetInduction
<1> QED
  BY <1>2

\* Any element can be taken out of a sum.
LEMMA SumRemove ==
    ASSUME NEW S, IsFiniteSet(S), NEW f, \A y \in S : f[y] \in Int, NEW x \in S
    PROVE  SumFunctionOnSet(f, S) = f[x] + SumFunctionOnSet(f, S \ {x})
<1> DEFINE Sum(T) == SumFunctionOnSet(f, T)
           Good == {T \in SUBSET S : \A z \in T : Sum(T) = f[z] + Sum(T \ {z})}
<1>1. ASSUME NEW T \in SUBSET S, \A U \in SUBSET T : U # T => U \in Good,
             NEW z \in T
      PROVE  Sum(T) = f[z] + Sum(T \ {z})
  <2> DEFINE c == Pick(T)
  <2>1. c \in T /\ IsFiniteSet(T)
    BY PickIn, FS_Subset
  <2>2. Sum(T) = f[c] + Sum(T \ {c})
    BY <2>1, SumPick
  <2>3. CASE c = z
    BY <2>2, <2>3
  <2>4. CASE c # z
    <3> DEFINE R == (T \ {c}) \ {z}
    <3>1. R = (T \ {z}) \ {c}
      OBVIOUS
    <3>2. T \ {c} \in Good /\ T \ {z} \in Good
      BY <1>1, <2>1
    <3>3. Sum(T \ {c}) = f[z] + Sum(R)
      BY <2>4, <3>2
    <3>4. Sum(T \ {z}) = f[c] + Sum(R)
      BY <2>1, <2>4, <3>1, <3>2
    <3>5. Sum(R) \in Int /\ f[c] \in Int /\ f[z] \in Int
      <4>1. IsFiniteSet(R) /\ R \subseteq S
        BY <2>1, FS_RemoveElement
      <4> HIDE DEF R
      <4> QED
        BY <2>1, <4>1, SumInt
    <3> HIDE DEF Sum, R, c
    <3> QED
      BY <2>2, <3>3, <3>4, <3>5
  <2> QED
    BY <2>3, <2>4
<1>2. ASSUME NEW T \in SUBSET S, \A U \in SUBSET T : U # T => U \in Good
      PROVE  T \in Good
  <2> SUFFICES ASSUME NEW z \in T
               PROVE  Sum(T) = f[z] + Sum(T \ {z})
    OBVIOUS
  <2> HIDE DEF Good, Sum
  <2> QED
    BY <1>1, <1>2
<1>3. \A T \in SUBSET S : T \in Good
  <2> HIDE DEF Good
  <2> QED
    BY <1>2, SubsetInduction
<1>4. S \in Good
  BY <1>3
<1> QED
  BY <1>4

LEMMA SumAdd ==
    ASSUME NEW S, IsFiniteSet(S), NEW x, x \notin S, NEW f,
           \A y \in S \cup {x} : f[y] \in Int
    PROVE  SumFunctionOnSet(f, S \cup {x}) = f[x] + SumFunctionOnSet(f, S)
<1> DEFINE T == S \cup {x}
<1>1. IsFiniteSet(T) /\ x \in T /\ T \ {x} = S
  BY FS_AddElement
<1>2. \A y \in T : f[y] \in Int
  OBVIOUS
<1> HIDE DEF T
<1>3. SumFunctionOnSet(f, T) = f[x] + SumFunctionOnSet(f, S)
  BY <1>1, <1>2, SumRemove
<1> QED
  BY <1>3 DEF T

LEMMA SumNat ==
    ASSUME NEW S, IsFiniteSet(S), NEW f, \A x \in S : f[x] \in Nat
    PROVE  SumFunctionOnSet(f, S) \in Nat
<1> DEFINE Good == {T \in SUBSET S : SumFunctionOnSet(f, T) \in Nat}
<1>1. {} \in Good
  BY SumEmpty
<1>2. ASSUME NEW T \in SUBSET S, NEW x \in S, x \notin T, T \in Good
      PROVE  T \cup {x} \in Good
  <2>1. IsFiniteSet(T) /\ \A y \in T \cup {x} : f[y] \in Int
    BY FS_Subset
  <2>2. SumFunctionOnSet(f, T \cup {x}) = f[x] + SumFunctionOnSet(f, T)
    BY <1>2, <2>1, SumAdd
  <2> QED
    BY <1>2, <2>2
<1> HIDE DEF Good
<1>3. S \in Good
  BY <1>1, <1>2, FiniteInduction
<1> QED
  BY <1>3 DEF Good

\* No summand exceeds a sum of natural numbers.
LEMMA SumBounds ==
    ASSUME NEW S, IsFiniteSet(S), NEW f, \A x \in S : f[x] \in Nat, NEW x \in S
    PROVE  f[x] <= SumFunctionOnSet(f, S)
<1>1. IsFiniteSet(S \ {x}) /\ \A y \in S \ {x} : f[y] \in Nat
  BY FS_RemoveElement
<1>2. SumFunctionOnSet(f, S \ {x}) \in Nat
  BY <1>1, SumNat
<1>3. SumFunctionOnSet(f, S) = f[x] + SumFunctionOnSet(f, S \ {x})
  BY SumRemove
<1> QED
  BY <1>2, <1>3

LEMMA SumSameEverywhere ==
    ASSUME NEW S, IsFiniteSet(S), NEW c \in Nat, NEW f, \A x \in S : f[x] = c
    PROVE  SumFunctionOnSet(f, S) = Cardinality(S) * c
<1> DEFINE Good == {T \in SUBSET S : SumFunctionOnSet(f, T) = Cardinality(T) * c}
<1>1. {} \in Good
  BY SumEmpty, FS_EmptySet
<1>2. ASSUME NEW T \in SUBSET S, NEW x \in S, x \notin T, T \in Good
      PROVE  T \cup {x} \in Good
  <2>1. IsFiniteSet(T)
    BY FS_Subset
  <2>2. Cardinality(T) \in Nat /\ Cardinality(T \cup {x}) = Cardinality(T) + 1
    BY <1>2, <2>1, FS_AddElement, FS_CardinalityType
  <2>3. \A y \in T \cup {x} : f[y] \in Int
    OBVIOUS
  <2>4. SumFunctionOnSet(f, T \cup {x}) = f[x] + SumFunctionOnSet(f, T)
    BY <1>2, <2>1, <2>3, SumAdd
  <2>5. \A n \in Nat : (n + 1) * c = c + n * c
    OBVIOUS
  <2> QED
    BY <1>2, <2>2, <2>4, <2>5
<1> HIDE DEF Good
<1>3. S \in Good
  BY <1>1, <1>2, FiniteInduction
<1> QED
  BY <1>3 DEF Good

\* One summand changes.
LEMMA SumUpdate ==
    ASSUME NEW S, IsFiniteSet(S), NEW x \in S, NEW f, NEW g,
           \A y \in S : f[y] \in Int, g[x] \in Int,
           \A y \in S \ {x} : g[y] = f[y]
    PROVE  SumFunctionOnSet(g, S) = SumFunctionOnSet(f, S) - f[x] + g[x]
<1>1. IsFiniteSet(S \ {x}) /\ \A y \in S : g[y] \in Int
  BY FS_RemoveElement
<1>2. SumFunctionOnSet(f, S) = f[x] + SumFunctionOnSet(f, S \ {x})
  BY SumRemove
<1>3. SumFunctionOnSet(g, S) = g[x] + SumFunctionOnSet(g, S \ {x})
  BY <1>1, SumRemove
<1>4. SumFunctionOnSet(g, S \ {x}) = SumFunctionOnSet(f, S \ {x})
  <2>1. \A y \in S \ {x} : f[y] = g[y]
    OBVIOUS
  <2> QED
    BY <1>1, <2>1, SumSame
<1>5. SumFunctionOnSet(f, S \ {x}) \in Int
  BY <1>1, SumInt
<1> QED
  BY <1>2, <1>3, <1>4, <1>5

\* Summands outside T that are all zero do not count.
LEMMA SumZeros ==
    ASSUME NEW S, IsFiniteSet(S), NEW T \in SUBSET S, NEW f,
           \A x \in T : f[x] \in Int, \A x \in S \ T : f[x] = 0
    PROVE  SumFunctionOnSet(f, S) = SumFunctionOnSet(f, T)
<1> DEFINE R == S \ T
           Good == {U \in SUBSET R :
                      SumFunctionOnSet(f, T \cup U) = SumFunctionOnSet(f, T)}
<1>1. IsFiniteSet(R) /\ T \cup R = S
  BY FS_Difference
<1>2. {} \in Good
  <2>1. T \cup {} = T
    OBVIOUS
  <2> QED
    BY <2>1
<1>3. ASSUME NEW U \in SUBSET R, NEW x \in R, x \notin U, U \in Good
      PROVE  U \cup {x} \in Good
  <2> DEFINE V == T \cup U
  <2>1. /\ V \in SUBSET S /\ x \notin V /\ f[x] = 0
        /\ V \cup {x} = T \cup (U \cup {x})
        /\ \A y \in V \cup {x} : f[y] \in Int
    BY <1>3
  <2>2. IsFiniteSet(V) /\ \A y \in V : f[y] \in Int
    BY <2>1, FS_Subset
  <2>3. SumFunctionOnSet(f, V) = SumFunctionOnSet(f, T)
    BY <1>3
  <2> HIDE DEF V
  <2>4. SumFunctionOnSet(f, V \cup {x}) = f[x] + SumFunctionOnSet(f, V)
    BY <2>1, <2>2, SumAdd
  <2>5. SumFunctionOnSet(f, V) \in Int
    BY <2>2, SumInt
  <2>6. SumFunctionOnSet(f, V \cup {x}) = SumFunctionOnSet(f, T)
    BY <2>1, <2>3, <2>4, <2>5
  <2>7. SumFunctionOnSet(f, T \cup (U \cup {x})) = SumFunctionOnSet(f, T)
    BY <2>1, <2>6
  <2> QED
    BY <2>7
<1> HIDE DEF Good, R
<1>4. R \in Good
  BY <1>1, <1>2, <1>3, FiniteInduction
<1> QED
  BY <1>1, <1>4 DEF Good

LEMMA SumPlus ==
    ASSUME NEW S, IsFiniteSet(S), NEW f, NEW g, NEW h,
           \A x \in S : f[x] \in Int /\ g[x] \in Int /\ h[x] = f[x] + g[x]
    PROVE  SumFunctionOnSet(h, S) = SumFunctionOnSet(f, S) + SumFunctionOnSet(g, S)
<1> DEFINE Good == {T \in SUBSET S :
             SumFunctionOnSet(h, T) = SumFunctionOnSet(f, T) + SumFunctionOnSet(g, T)}
<1>1. {} \in Good
  BY SumEmpty
<1>2. ASSUME NEW T \in SUBSET S, NEW x \in S, x \notin T, T \in Good
      PROVE  T \cup {x} \in Good
  <2>1. /\ IsFiniteSet(T)
        /\ \A y \in T \cup {x} : f[y] \in Int
        /\ \A y \in T \cup {x} : g[y] \in Int
        /\ \A y \in T \cup {x} : h[y] \in Int
    BY FS_Subset
  <2>2. SumFunctionOnSet(f, T \cup {x}) = f[x] + SumFunctionOnSet(f, T)
    BY <1>2, <2>1, SumAdd
  <2>3. SumFunctionOnSet(g, T \cup {x}) = g[x] + SumFunctionOnSet(g, T)
    BY <1>2, <2>1, SumAdd
  <2>4. SumFunctionOnSet(h, T \cup {x}) = h[x] + SumFunctionOnSet(h, T)
    BY <1>2, <2>1, SumAdd
  <2>5. SumFunctionOnSet(f, T) \in Int /\ SumFunctionOnSet(g, T) \in Int
    BY <2>1, SumInt
  <2> QED
    BY <1>2, <2>2, <2>3, <2>4, <2>5
<1> HIDE DEF Good
<1>3. S \in Good
  BY <1>1, <1>2, FiniteInduction
<1> QED
  BY <1>3 DEF Good

\* Adding up by the value of p: every summand has one.
SumsByValue(h, A, f, I, p) ==
    \A a \in A : h[a] = SumFunctionOnSet(f, {i \in I : p[i] = a})

LEMMA SumFibres ==
    ASSUME NEW I, IsFiniteSet(I), NEW A, IsFiniteSet(A), NEW f, NEW p,
           \A i \in I : f[i] \in Int /\ p[i] \in A,
           NEW h, SumsByValue(h, A, f, I, p)
    PROVE  SumFunctionOnSet(h, A) = SumFunctionOnSet(f, I)
<1> DEFINE Fibre(J, a) == {i \in J : p[i] = a}
           part(J) == [a \in A |-> SumFunctionOnSet(f, Fibre(J, a))]
           Good == {J \in SUBSET I :
                      SumFunctionOnSet(part(J), A) = SumFunctionOnSet(f, J)}
<1>1. ASSUME NEW J \in SUBSET I, NEW a \in A
      PROVE  part(J)[a] \in Int
  <2>1. IsFiniteSet(Fibre(J, a)) /\ \A i \in Fibre(J, a) : f[i] \in Int
    BY FS_Subset
  <2>2. SumFunctionOnSet(f, Fibre(J, a)) \in Int
    <3> HIDE DEF Fibre
    <3> QED
      BY <2>1, SumInt
  <2> QED
    BY <2>2
<1>2. {} \in Good
  <2>1. \A a \in A : part({})[a] = 0
    <3> SUFFICES ASSUME NEW a \in A
                 PROVE  SumFunctionOnSet(f, Fibre({}, a)) = 0
      OBVIOUS
    <3>1. Fibre({}, a) = {}
      OBVIOUS
    <3> QED
      BY <3>1, SumEmpty
  <2> DEFINE q == part({})
  <2>2. SumFunctionOnSet(q, A) = SumFunctionOnSet(q, {})
    <3>1. \A a \in A \ {} : q[a] = 0
      BY <2>1
    <3> HIDE DEF q
    <3> QED
      BY <3>1, SumZeros
  <2> QED
    BY <2>2, SumEmpty
<1>3. ASSUME NEW J \in SUBSET I, NEW x \in I, x \notin J, J \in Good
      PROVE  J \cup {x} \in Good
  <2> DEFINE K == J \cup {x}
             q == part(J)
             r == part(K)
             b == p[x]
  <2>1. K \in SUBSET I /\ IsFiniteSet(J) /\ b \in A /\ f[x] \in Int
    BY FS_Subset
  <2>2. (\A a \in A : q[a] \in Int) /\ r[b] \in Int
    BY <1>1, <2>1
  <2>3. \A a \in A \ {b} : r[a] = q[a]
    <3> SUFFICES ASSUME NEW a \in A \ {b}
                 PROVE  r[a] = q[a]
      OBVIOUS
    <3>1. Fibre(K, a) = Fibre(J, a)
      OBVIOUS
    <3> HIDE DEF Fibre
    <3> QED
      BY <3>1
  <2>4. r[b] = f[x] + q[b]
    <3>1. Fibre(K, b) = Fibre(J, b) \cup {x} /\ x \notin Fibre(J, b)
      BY <1>3
    <3>2. IsFiniteSet(Fibre(J, b)) /\ \A i \in Fibre(J, b) \cup {x} : f[i] \in Int
      BY <2>1, FS_Subset
    <3> HIDE DEF Fibre
    <3>3. SumFunctionOnSet(f, Fibre(J, b) \cup {x}) = f[x] + SumFunctionOnSet(f, Fibre(J, b))
      BY <3>1, <3>2, SumAdd
    <3> QED
      BY <2>1, <3>1, <3>3
  <2>5. SumFunctionOnSet(q, A) = SumFunctionOnSet(f, J)
    BY <1>3
  <2>6. SumFunctionOnSet(f, K) = f[x] + SumFunctionOnSet(f, J)
    <3>1. \A i \in J \cup {x} : f[i] \in Int
      OBVIOUS
    <3> QED
      BY <1>3, <2>1, <3>1, SumAdd
  <2>7. K \in SUBSET I /\ (SumFunctionOnSet(part(K), A) = SumFunctionOnSet(f, K)
                            => K \in Good)
    BY <2>1
  <2>8. SumFunctionOnSet(r, A) = SumFunctionOnSet(q, A) - q[b] + r[b]
    <3> HIDE DEF part, q, r, b
    <3> QED
      BY <2>1, <2>2, <2>3, SumUpdate
  <2>9. SumFunctionOnSet(q, A) \in Int
    <3> HIDE DEF part, q
    <3> QED
      BY <2>2, SumInt
  <2>10. SumFunctionOnSet(r, A) = SumFunctionOnSet(f, K)
    <3>1. q[b] \in Int
      BY <2>1, <2>2
    <3> HIDE DEF part, q, r, b, K, Good
    <3> QED
      BY <2>1, <2>4, <2>5, <2>6, <2>8, <2>9, <3>1
  <2> HIDE DEF Good, part
  <2> QED
    BY <2>7, <2>10
<1>4. I \in Good
  <2> HIDE DEF Good
  <2> QED
    BY <1>2, <1>3, FiniteInduction
<1>5. SumFunctionOnSet(h, A) = SumFunctionOnSet(part(I), A)
  <2> DEFINE q == part(I)
  <2>1. \A a \in A : h[a] = q[a]
    BY DEF SumsByValue
  <2>2. SumFunctionOnSet(h, A) = SumFunctionOnSet(q, A)
    <3> HIDE DEF q
    <3> QED
      BY <2>1, SumSame
  <2> QED
    BY <2>2
<1> QED
  BY <1>4, <1>5

LEMMA SumOne ==
    ASSUME NEW f, NEW x, f[x] \in Int
    PROVE  SumFunctionOnSet(f, {x}) = f[x]
<1> DEFINE S == {x}
<1>1. IsFiniteSet(S) /\ x \in S /\ S \ {x} = {} /\ \A y \in S : f[y] \in Int
  BY FS_Singleton
<1> HIDE DEF S
<1>2. SumFunctionOnSet(f, S) = f[x] + SumFunctionOnSet(f, S \ {x})
  BY <1>1, SumRemove
<1> QED
  BY <1>1, <1>2, SumEmpty DEF S

------------------------------------------------------------------------------
(* What a step can do to one member record                                 *)

\* join_group opens the record with the first deposit.
FirstDeposit(g, m) ==
    /\ group[g] \in GroupConfig /\ group[g].status = "Open"
    /\ group'[g].status = "Open"
    /\ ~Exists(record[<<g, m>>])
    /\ record'[<<g, m>>] \in MemberRecord
    /\ record'[<<g, m>>].total_deposited = group[g].deposit_amount
    /\ record'[<<g, m>>].deposits_made = 1
    /\ record'[<<g, m>>].periods_deposited = {0}

\* deposit adds the current period to it.
NextDeposit(g, m) ==
    LET rec == record[<<g, m>>]
        period == CurrentPeriod(group[g], now)
    IN  /\ now' = now /\ group' = group
        /\ group[g] \in GroupConfig /\ group[g].status = "Active"
        /\ ElapsedPeriods(group[g], now) \in U8
        /\ rec \in MemberRecord /\ record'[<<g, m>>] \in MemberRecord
        /\ period \notin rec.periods_deposited
        /\ record'[<<g, m>>].periods_deposited = rec.periods_deposited \cup {period}
        /\ record'[<<g, m>>].deposits_made = rec.deposits_made + 1
        /\ record'[<<g, m>>].total_deposited =
             rec.total_deposited + group[g].deposit_amount

RecordEffect(g, m) ==
    \/ record'[<<g, m>>] = record[<<g, m>>]
    \/ ~Exists(record'[<<g, m>>])
    \/ FirstDeposit(g, m)
    \/ NextDeposit(g, m)

LEMMA JoinRecord ==
    ASSUME TypeOK, NEW g \in Groups, NEW m \in Members, NEW payer \in Payers,
           NEW account \in TokenAccounts, NEW authority, NEW durable, NEW terms,
           NEW expected,
           JoinGroup(g, m, payer, account, authority, durable, terms, expected)
    PROVE  /\ FirstDeposit(g, m)
           /\ \A p \in Pdas : p # <<g, m>> => record'[p] = record[p]
<1>1. <<g, m>> \in Pdas /\ group[g] \in GroupConfig /\ group[g].status = "Open"
  BY DEF TypeOK, JoinGroup, Exists, Pdas
<1>2. record'[<<g, m>>] =
        [rent_payer |-> payer, total_deposited |-> group[g].deposit_amount,
         deposits_made |-> 1, periods_deposited |-> {0},
         lamports |-> Floor("record")]
  BY <1>1 DEF TypeOK, JoinGroup
<1>3. Floor("record") \in Nat
  BY AmountAssumption DEF TypeOK, Floor, Kinds
<1>4. record'[<<g, m>>] \in MemberRecord
  BY <1>1, <1>2, <1>3, AmountAssumption
  DEF MemberRecord, GroupConfig, U64, U8, MaxPeriods
<1>5. \A p \in Pdas : p # <<g, m>> => record'[p] = record[p]
  BY DEF TypeOK, JoinGroup
<1>6. ~Exists(record[<<g, m>>])
  BY DEF JoinGroup
<1>7. group'[g].status = "Open"
  <2>1. group' = [group EXCEPT ![g].current_members = @ + 1]
    BY DEF JoinGroup
  <2> QED
    BY <1>1, <2>1 DEF TypeOK, GroupConfig
<1> QED
  BY <1>1, <1>2, <1>4, <1>5, <1>6, <1>7 DEF FirstDeposit

LEMMA DepositNext ==
    ASSUME TypeOK, NEW g \in Groups, NEW m \in Members,
           NEW account \in TokenAccounts, Deposit(g, m, account)
    PROVE  /\ NextDeposit(g, m)
           /\ \A p \in Pdas : p # <<g, m>> => record'[p] = record[p]
<1> DEFINE rec == record[<<g, m>>]
           period == CurrentPeriod(group[g], now)
           total == rec.total_deposited + group[g].deposit_amount
<1>1. <<g, m>> \in Pdas /\ rec \in MemberRecord /\ group[g] \in GroupConfig
  BY DEF TypeOK, Deposit, Exists, Pdas
<1>2. /\ now' = now /\ group' = group /\ group[g].status = "Active"
      /\ ElapsedPeriods(group[g], now) \in U8
      /\ period \notin rec.periods_deposited
      /\ record' = [record EXCEPT ![<<g, m>>].periods_deposited = @ \cup {period},
                                  ![<<g, m>>].deposits_made = @ + 1,
                                  ![<<g, m>>].total_deposited = total]
  BY DEF Deposit
<1>3. record'[<<g, m>>] \in MemberRecord
  BY DepositRecord
<1>4. \A p \in Pdas : p # <<g, m>> => record'[p] = record[p]
  BY <1>2 DEF TypeOK
<1>5. /\ record'[<<g, m>>].periods_deposited = rec.periods_deposited \cup {period}
      /\ record'[<<g, m>>].deposits_made = rec.deposits_made + 1
      /\ record'[<<g, m>>].total_deposited = total
  <2> HIDE DEF period, total
  <2> QED
    BY <1>1, <1>2 DEF TypeOK, MemberRecord
<1> QED
  BY <1>1, <1>2, <1>3, <1>4, <1>5 DEF NextDeposit

LEMMA RecordStepEffect ==
    ASSUME TypeOK, [Next]_vars, NEW g \in Groups, NEW m \in Members
    PROVE  RecordEffect(g, m)
<1>1. <<g, m>> \in Pdas
  BY DEF Pdas
<1>2. ASSUME NEW h \in Groups, Join(h)
      PROVE  RecordEffect(g, m)
  BY <1>1, <1>2, JoinRecord DEF Join, RecordEffect
<1>3. ASSUME NEW h \in Groups, NEW n \in Members, CloseRecord(h, n)
      PROVE  RecordEffect(g, m)
  BY <1>1, <1>3 DEF TypeOK, CloseRecord, RecordEffect, Exists
<1>4. ASSUME NEW h \in Groups, LeaveOrDeposit(h)
      PROVE  RecordEffect(g, m)
  <2>1. ASSUME NEW n \in Members, NEW a \in TokenAccounts, Deposit(h, n, a)
        PROVE  RecordEffect(g, m)
    BY <1>1, <2>1, DepositNext DEF RecordEffect
  <2> QED
    BY <1>3, <1>4, <2>1 DEF LeaveOrDeposit, LeaveGroup
<1>5. ASSUME record' = record
      PROVE  RecordEffect(g, m)
  BY <1>5 DEF RecordEffect
<1>6. ASSUME NEW h \in Groups, CrankStep(h)
      PROVE  record' = record \/ \E n \in Members : CloseRecord(h, n)
  BY <1>6 DEF CrankStep, Distribute, Settle, RefundVaultRent, CloseMemberRecord,
              CloseJoinTally, CloseGroup
<1>7. ASSUME NEW h \in Groups, CreatorStep(h)
      PROVE  record' = record
  BY <1>7 DEF CreatorStep, Create, CreateGroup, SetJoinAuthority, StartCycle,
              EmergencyCancel, Settle
<1>8. ASSUME Environment
      PROVE  record' = record
  BY <1>8 DEF Environment, Tick, ChangeRentRate, Freeze, Thaw, DonateTokens, TopUp
<1>9. ASSUME UNCHANGED vars
      PROVE  record' = record
  BY <1>9 DEF vars
<1> QED
  BY <1>2, <1>3, <1>4, <1>5, <1>6, <1>7, <1>8, <1>9 DEF Next

------------------------------------------------------------------------------
(* The records count deposits right                                        *)

PeriodsInv(g, m) ==
    LET rec == record[<<g, m>>]
        cfg == group[g]
    IN  Exists(rec) =>
          /\ rec.deposits_made = Cardinality(rec.periods_deposited)
          /\ rec.total_deposited = rec.deposits_made * cfg.deposit_amount
          /\ 0 \in rec.periods_deposited
          /\ rec.periods_deposited \subseteq 0..(cfg.total_periods - 1)
          /\ cfg.status = "Open" => rec.periods_deposited = {0}
          /\ cfg.status = "Active" =>
               \A p \in rec.periods_deposited :
                   cfg.cycle_start + p * PeriodSecs[cfg.frequency] <= now

\* The period that deposit computes is a period of the cycle that has begun.
LEMMA CurrentPeriodBegan ==
    ASSUME NEW cfg \in GroupConfig, NEW t \in Nat, ElapsedPeriods(cfg, t) \in U8
    PROVE  /\ CurrentPeriod(cfg, t) \in 0..(cfg.total_periods - 1)
           /\ cfg.cycle_start + CurrentPeriod(cfg, t) * PeriodSecs[cfg.frequency] <= t
<1> DEFINE secs == PeriodSecs[cfg.frequency]
           elapsed == ElapsedPeriods(cfg, t)
           period == CurrentPeriod(cfg, t)
<1>1. secs \in Nat \ {0} /\ cfg.cycle_start \in Nat /\ cfg.total_periods \in 1..52
  BY TimeAssumption DEF GroupConfig, Frequencies, MaxPeriods
<1>2. elapsed = (t - cfg.cycle_start) \div secs /\ elapsed \in 0..255
  BY DEF ElapsedPeriods, U8
<1>3. elapsed * secs <= t - cfg.cycle_start
  <2> DEFINE span == t - cfg.cycle_start
  <2>1. span \in Int
    BY <1>1
  <2> HIDE DEF secs, elapsed, span
  <2>2. elapsed = span \div secs
    BY <1>2 DEF span
  <2> QED
    BY <1>1, <2>1, <2>2 DEF span
<1>4. period \in 0..(cfg.total_periods - 1) /\ period <= elapsed
  BY <1>1, <1>2 DEF CurrentPeriod
<1>5. period * secs <= elapsed * secs
  <2> HIDE DEF secs, elapsed, period
  <2> QED
    BY <1>1, <1>2, <1>4
<1> HIDE DEF secs, elapsed, period
<1>6. period \in Nat /\ elapsed \in Nat
  BY <1>1, <1>2, <1>4
<1>7. period * secs \in Nat /\ elapsed * secs \in Nat
  BY <1>1, <1>6
<1>8. cfg.cycle_start + period * secs <= t
  <2> DEFINE a == period * secs
             b == elapsed * secs
  <2>1. a \in Nat /\ b \in Nat /\ a <= b /\ b <= t - cfg.cycle_start
    BY <1>3, <1>5, <1>7
  <2> HIDE DEF a, b
  <2>2. cfg.cycle_start + a <= t
    BY <1>1, <2>1
  <2> QED
    BY <2>2 DEF a
<1> QED
  BY <1>4, <1>8 DEF secs, period

LEMMA FirstDepositPeriods ==
    ASSUME NEW g \in Groups, NEW m \in Members, FirstDeposit(g, m),
           group'[g] \in GroupConfig,
           group'[g].deposit_amount = group[g].deposit_amount
    PROVE  PeriodsInv(g, m)'
<1>1. /\ group'[g].deposit_amount \in Nat
      /\ group'[g].total_periods \in 1..52
  BY AmountAssumption DEF GroupConfig, U64, MaxPeriods
<1>2. Cardinality({0}) = 1
  BY FS_Singleton
<1> QED
  BY <1>1, <1>2 DEF FirstDeposit, PeriodsInv

LEMMA NextDepositPeriods ==
    ASSUME TypeOK, NEW g \in Groups, NEW m \in Members, PeriodsInv(g, m),
           NextDeposit(g, m)
    PROVE  PeriodsInv(g, m)'
<1> DEFINE rec == record[<<g, m>>]
           new == record'[<<g, m>>]
           cfg == group[g]
           period == CurrentPeriod(cfg, now)
<1>1. /\ cfg \in GroupConfig /\ group' = group /\ now' = now /\ now \in Nat
      /\ rec \in MemberRecord /\ Exists(rec)
      /\ cfg.status = "Active"
      /\ ElapsedPeriods(cfg, now) \in U8
  BY NoneAssumption DEF TypeOK, NextDeposit, Exists
<1>2. /\ period \notin rec.periods_deposited
      /\ new.periods_deposited = rec.periods_deposited \cup {period}
      /\ new.deposits_made = rec.deposits_made + 1
      /\ new.total_deposited = rec.total_deposited + cfg.deposit_amount
  BY DEF NextDeposit
<1>3. /\ period \in 0..(cfg.total_periods - 1)
      /\ cfg.cycle_start + period * PeriodSecs[cfg.frequency] <= now
  BY <1>1, CurrentPeriodBegan
<1>4. new.deposits_made = Cardinality(new.periods_deposited)
  <2>1. IsFiniteSet(rec.periods_deposited)
    <3>1. IsFiniteSet(0..MaxPeriods - 1)
      <4>1. MaxPeriods - 1 \in Int
        BY DEF MaxPeriods
      <4> QED
        BY <4>1, FS_Interval
    <3> QED
      BY <1>1, <3>1, FS_Subset DEF MemberRecord
  <2>2. rec.deposits_made = Cardinality(rec.periods_deposited)
    BY <1>1 DEF PeriodsInv
  <2> HIDE DEF rec, new, period
  <2> QED
    BY <1>2, <2>1, <2>2, FS_AddElement
<1>5. new.total_deposited = new.deposits_made * cfg.deposit_amount
  <2>1. rec.deposits_made \in Nat /\ cfg.deposit_amount \in Nat
    BY <1>1, AmountAssumption DEF MemberRecord, GroupConfig, U64, U8
  <2>2. rec.total_deposited = rec.deposits_made * cfg.deposit_amount
    BY <1>1 DEF PeriodsInv
  <2>3. (rec.deposits_made + 1) * cfg.deposit_amount =
          rec.deposits_made * cfg.deposit_amount + cfg.deposit_amount
    BY <2>1
  <2> QED
    BY <1>2, <2>2, <2>3
<1>6. /\ 0 \in rec.periods_deposited
      /\ rec.periods_deposited \subseteq 0..(cfg.total_periods - 1)
      /\ \A p \in rec.periods_deposited :
             cfg.cycle_start + p * PeriodSecs[cfg.frequency] <= now
  BY <1>1 DEF PeriodsInv
<1> HIDE DEF period
<1> QED
  BY <1>1, <1>2, <1>3, <1>4, <1>5, <1>6 DEF PeriodsInv

\* A record that a step leaves alone, in a group that keeps its terms and that
\* goes on, starts or ends.
LEMMA SameRecordPeriods ==
    ASSUME NEW g \in Groups, NEW m \in Members, PeriodsInv(g, m),
           record'[<<g, m>>] = record[<<g, m>>],
           group[g] \in GroupConfig, group'[g] \in GroupConfig,
           Terms(group'[g]) = Terms(group[g]),
           now \in Nat, now' \in Nat, now' >= now,
           \/ /\ group'[g].status = group[g].status
              /\ group'[g].cycle_start = group[g].cycle_start
           \/ /\ group[g].status = "Open" /\ group'[g].status = "Active"
              /\ group'[g].cycle_start = now
           \/ group'[g].status \in {"Completed", "Cancelled"}
    PROVE  PeriodsInv(g, m)'
<1> DEFINE rec == record[<<g, m>>]
           secs == PeriodSecs[group[g].frequency]
<1>1. /\ group'[g].deposit_amount = group[g].deposit_amount
      /\ group'[g].total_periods = group[g].total_periods
      /\ group'[g].frequency = group[g].frequency
  BY DEF Terms
<1>2. /\ secs \in Nat /\ group[g].cycle_start \in Nat
      /\ group[g].total_periods \in Nat
  <2>1. /\ group[g].frequency \in 0..MaxFrequency /\ group[g].cycle_start \in Nat
        /\ group[g].total_periods \in 1..52
    BY DEF GroupConfig, Frequencies, MaxPeriods
  <2>2. secs \in Nat
    BY <2>1, TimeAssumption
  <2>3. group[g].total_periods \in Nat
    BY <2>1
  <2> QED
    BY <2>1, <2>2, <2>3
<1>3. ASSUME Exists(rec), group'[g].status = "Active", NEW p \in rec.periods_deposited
      PROVE  group'[g].cycle_start + p * secs <= now'
  <2>1. p \in Nat
    BY <1>2, <1>3 DEF PeriodsInv
  <2>2. p * secs \in Nat
    BY <1>2, <2>1
  <2>3. CASE group[g].status = "Open" /\ group'[g].cycle_start = now
    <3>1. p = 0
      BY <1>3, <2>3 DEF PeriodsInv
    <3> QED
      BY <1>2, <2>3, <3>1
  <2>4. CASE group[g].status = "Active" /\ group'[g].cycle_start = group[g].cycle_start
    <3>1. group[g].cycle_start + p * secs <= now
      BY <1>3, <2>4 DEF PeriodsInv
    <3> HIDE DEF secs
    <3> QED
      BY <1>2, <2>2, <2>4, <3>1
  <2> QED
    BY <1>3, <2>3, <2>4
<1>4. group'[g].status = "Open" => group[g].status = "Open"
  OBVIOUS
<1> QED
  BY <1>1, <1>3, <1>4 DEF PeriodsInv

PeriodsOK == \A g \in Groups, m \in Members : PeriodsInv(g, m)

LEMMA PeriodsStep ==
    ASSUME MembershipInv, PeriodsOK, [Next]_vars
    PROVE  PeriodsOK'
<1> SUFFICES ASSUME NEW g \in Groups, NEW m \in Members, Exists(record'[<<g, m>>])
             PROVE  PeriodsInv(g, m)'
  BY DEF PeriodsOK, PeriodsInv
<1>1. TypeOK /\ MembershipInv' /\ TypeOK' /\ PeriodsInv(g, m)
  BY NextInv DEF MembershipInv, PeriodsOK
<1>2. Exists(group'[g]) /\ group'[g] \in GroupConfig
  BY <1>1 DEF MembershipInv, GroupInv, TypeOK, Joined, Exists
<1>3. CASE NextDeposit(g, m)
  BY <1>1, <1>3, NextDepositPeriods
<1>4. ASSUME Exists(group[g])
      PROVE  /\ group[g] \in GroupConfig
             /\ Terms(group'[g]) = Terms(group[g])
             /\ now \in Nat /\ now' \in Nat /\ now' >= now
             /\ \/ /\ group'[g].status = group[g].status
                   /\ group'[g].cycle_start = group[g].cycle_start
                \/ /\ group[g].status = "Open" /\ group'[g].status = "Active"
                   /\ group'[g].cycle_start = now
                \/ group'[g].status \in {"Completed", "Cancelled"}
  <2>1. group[g] \in GroupConfig /\ now \in Nat /\ now' \in Nat
    BY <1>1, <1>4 DEF TypeOK, Exists
  <2>2. Terms(group'[g]) = Terms(group[g])
    BY <1>2, <1>4, LifecycleStep DEF LifecycleOf
  <2>3. CASE (now' = now + 1 \/ now' = now) /\ group' = group
    BY <2>1, <2>2, <2>3
  <2>4. ASSUME NEW h \in Groups, Only(h), GroupEffect(h)
        PROVE  \/ /\ group'[g].status = group[g].status
                  /\ group'[g].cycle_start = group[g].cycle_start
               \/ /\ group[g].status = "Open" /\ group'[g].status = "Active"
                  /\ group'[g].cycle_start = now
               \/ group'[g].status \in {"Completed", "Cancelled"}
    <3>1. CASE h # g
      BY <1>1, <2>4, <3>1 DEF Only, TypeOK
    <3>2. CASE h = g
      BY <1>2, <1>4, <2>1, <2>4, <3>2
      DEF GroupEffect, Opened, Kept, Started, Ended, Freed, WatchedFields,
          Exists, GroupConfig
    <3> QED
      BY <3>1, <3>2
  <2> QED
    BY <1>1, <2>1, <2>2, <2>3, <2>4, StepEffect DEF Only
<1>5. CASE FirstDeposit(g, m)
  <2>1. Exists(group[g])
    BY <1>5, NoneAssumption DEF FirstDeposit, Exists
  <2>2. group'[g].deposit_amount = group[g].deposit_amount
    BY <1>4, <2>1 DEF Terms
  <2> QED
    BY <1>2, <1>5, <2>2, FirstDepositPeriods
<1>6. CASE record'[<<g, m>>] = record[<<g, m>>]
  <2>1. Exists(group[g])
    BY <1>6 DEF MembershipInv, GroupInv, Joined
  <2> QED
    BY <1>1, <1>2, <1>4, <1>6, <2>1, SameRecordPeriods
<1> QED
  BY <1>1, <1>3, <1>5, <1>6, RecordStepEffect DEF RecordEffect

\* deposit.rs and join_group.rs: whatever the timing of deposits, the three
\* counts of a record agree, no period is paid twice or before it began, and
\* an Open group's records hold exactly the first deposit.
THEOREM RecordsCountRight == Spec => []RecordsMatchPeriods
<1>1. Init => PeriodsOK
  BY DEF Init, PeriodsOK, PeriodsInv, Exists, Pdas
<1>2. MembershipInv /\ PeriodsOK /\ [Next]_vars => PeriodsOK'
  BY PeriodsStep
<1>3. PeriodsOK => RecordsMatchPeriods
  BY DEF PeriodsOK, PeriodsInv, RecordsMatchPeriods, Joined
<1> QED
  BY <1>1, <1>2, <1>3, Membership, PTL DEF Spec

------------------------------------------------------------------------------
(* Who pays rent                                                           *)

\* OnlySignersPay for one wallet.
PaysAsSigner(w) ==
    \/ \E g \in Groups :
         \/ ~Exists(group[g]) /\ Exists(group'[g]) /\ group'[g].rent_payer = w
         \/ ~Exists(gate[g]) /\ Exists(gate'[g]) /\ group[g].rent_payer = w
    \/ \E p \in Pdas :
         ~Exists(record[p]) /\ Exists(record'[p]) /\ record'[p].rent_payer = w
    \/ \E g \in Groups, amount \in 1..MaxTopUp : TopUp(g, w, amount)

\* Lamports added to one wallet leave no wallet with less.
LEMMA PaidOut ==
    ASSUME TypeOK, NEW w \in Payers, NEW payer, NEW amount \in Nat,
           purse' = [purse EXCEPT ![payer] = @ + amount]
    PROVE  ~(purse'[w] < purse[w])
<1>1. purse[w] \in Nat
  BY DEF TypeOK
<1> QED
  BY <1>1 DEF TypeOK

LEMMA CreatePays ==
    ASSUME TypeOK, NEW g \in Groups, Create(g), NEW w \in Payers,
           purse'[w] < purse[w]
    PROVE  PaysAsSigner(w)
<1>1. PICK creator \in Creators, payer \in Payers, mint \in Mints,
           amount \in DepositAmounts, frequency \in 0..(MaxFrequency + 1),
           periods \in PeriodCounts, size \in GroupSizes :
             CreateGroup(g, creator, payer, mint, amount, frequency, periods, size)
  BY DEF Create
<1>2. purse'[w] # purse[w]
  BY DEF TypeOK
<1>3. payer = w
  BY <1>1, <1>2 DEF TypeOK, CreateGroup
<1>4. group'[g].rent_payer = payer
  BY <1>1 DEF TypeOK, CreateGroup
<1>5. ~Exists(group[g]) /\ Exists(group'[g])
  <2>1. group' \in [Groups -> GroupConfig \cup {None}] /\ Opened(g)
    BY <1>1, CreateGroupType, CreateEffect DEF TypeOK
  <2> QED
    BY <2>1, NoneAssumption DEF Opened, Exists
<1> QED
  BY <1>3, <1>4, <1>5 DEF PaysAsSigner

LEMMA SetJoinAuthorityPays ==
    ASSUME TypeOK, NEW g \in Groups, NEW authority \in Keys,
           SetJoinAuthority(g, authority), NEW w \in Payers, purse'[w] < purse[w]
    PROVE  PaysAsSigner(w)
<1>1. purse'[w] # purse[w]
  BY DEF TypeOK
<1>2. group[g].rent_payer = w
  BY <1>1 DEF TypeOK, SetJoinAuthority
<1>3. gate'[g] \in JoinGate
  <2>1. Floor("gate") \in Nat
    BY AmountAssumption DEF TypeOK, Floor, Kinds
  <2> QED
    BY <2>1 DEF TypeOK, SetJoinAuthority, JoinGate
<1>4. ~Exists(gate[g]) /\ Exists(gate'[g])
  BY <1>3, NoneAssumption DEF SetJoinAuthority, Exists
<1> QED
  BY <1>2, <1>4 DEF PaysAsSigner

LEMMA JoinPays ==
    ASSUME TypeOK, NEW g \in Groups, Join(g), NEW w \in Payers, purse'[w] < purse[w]
    PROVE  PaysAsSigner(w)
<1>1. PICK m \in Members, payer \in Payers, account \in TokenAccounts,
           authority \in Keys \cup {None}, durable \in BOOLEAN,
           terms \in OfferedTerms, expected \in U32 \cup {None} :
             JoinGroup(g, m, payer, account, authority, durable, terms, expected)
  BY DEF Join
<1>2. purse'[w] # purse[w]
  BY DEF TypeOK
<1>3. \E rent : purse' = [purse EXCEPT ![payer] = @ - rent]
  BY <1>1 DEF JoinGroup
<1>4. payer = w
  BY <1>2, <1>3 DEF TypeOK
<1>5. <<g, m>> \in Pdas
  BY DEF Pdas
<1>6. record'[<<g, m>>].rent_payer = payer
  BY <1>1, <1>5 DEF TypeOK, JoinGroup
<1>7. ~Exists(record[<<g, m>>]) /\ Exists(record'[<<g, m>>])
  BY <1>1, JoinRecord, NoneAssumption DEF FirstDeposit, Exists
<1> QED
  BY <1>4, <1>5, <1>6, <1>7 DEF PaysAsSigner

LEMMA PurseStep ==
    ASSUME TypeOK, [Next]_vars, NEW w \in Payers, purse'[w] < purse[w]
    PROVE  PaysAsSigner(w)
<1>1. purse'[w] # purse[w] /\ purse' # purse
  BY DEF TypeOK
<1>2. ASSUME NEW g \in Groups, NEW m \in Members, CloseRecord(g, m)
      PROVE  FALSE
  <2>1. record[<<g, m>>].lamports \in Nat
    BY <1>2 DEF TypeOK, CloseRecord, Exists, Pdas, MemberRecord
  <2> QED
    BY <1>2, <2>1, PaidOut DEF CloseRecord
<1>3. ASSUME NEW g \in Groups, LeaveOrDeposit(g)
      PROVE  FALSE
  <2>1. \A m \in Members, a \in TokenAccounts : ~Deposit(g, m, a)
    BY <1>1 DEF Deposit
  <2> QED
    BY <1>2, <1>3, <2>1 DEF LeaveOrDeposit, LeaveGroup
<1>4. ASSUME NEW g \in Groups, CrankStep(g)
      PROVE  FALSE
  <2>1. ~RefundVaultRent(g)
    <3> SUFFICES ASSUME RefundVaultRent(g)
                 PROVE  FALSE
      OBVIOUS
    <3>1. group[g] \in GroupConfig /\ Floor("group") \in Nat
      BY AmountAssumption DEF TypeOK, RefundVaultRent, Exists, Floor, Kinds
    <3>2. LamportsAboveRentFloor(g) \in Nat
      BY <3>1 DEF LamportsAboveRentFloor, GroupConfig
    <3> QED
      BY <3>2, PaidOut DEF RefundVaultRent
  <2>2. ASSUME NEW m \in Members, CloseJoinTally(g, m)
        PROVE  FALSE
    <3>1. tally[<<g, m>>].lamports \in Nat
      BY <2>2 DEF TypeOK, CloseJoinTally, Exists, Pdas, JoinTally
    <3> QED
      BY <2>2, <3>1, PaidOut DEF CloseJoinTally
  <2>3. ~CloseGroup(g)
    <3> SUFFICES ASSUME CloseGroup(g)
                 PROVE  FALSE
      OBVIOUS
    <3> DEFINE rent == IF Exists(gate[g]) THEN gate[g].lamports ELSE 0
    <3>1. group[g].lamports \in Nat /\ rent \in Nat
      BY DEF TypeOK, CloseGroup, Exists, GroupConfig, JoinGate
    <3>2. purse' = [purse EXCEPT ![group[g].rent_payer] = @ + group[g].lamports + rent]
      BY DEF CloseGroup
    <3> HIDE DEF rent
    <3>3. purse[w] \in Nat /\ purse \in [Payers -> Nat]
      BY DEF TypeOK
    <3> QED
      BY <3>1, <3>2, <3>3
  <2> QED
    BY <1>1, <1>2, <1>4, <2>1, <2>2, <2>3
    DEF CrankStep, Distribute, Settle, CloseMemberRecord
<1>5. ASSUME NEW g \in Groups, CreatorStep(g)
      PROVE  PaysAsSigner(w)
  <2>1. \/ Create(g)
        \/ \E authority \in Keys : SetJoinAuthority(g, authority)
    BY <1>1, <1>5 DEF CreatorStep, StartCycle, EmergencyCancel, Settle
  <2> QED
    BY <2>1, CreatePays, SetJoinAuthorityPays
<1>6. ASSUME Environment
      PROVE  PaysAsSigner(w)
  <2>1. PICK g \in Groups, payer \in Payers, amount \in 1..MaxTopUp :
               TopUp(g, payer, amount)
    BY <1>1, <1>6 DEF Environment, Tick, ChangeRentRate, Freeze, Thaw, DonateTokens
  <2>2. payer = w
    BY <1>1, <2>1 DEF TypeOK, TopUp
  <2> QED
    BY <2>1, <2>2 DEF PaysAsSigner
<1>7. ~UNCHANGED vars
  BY <1>1 DEF vars
<1> QED
  BY <1>3, <1>4, <1>5, <1>6, <1>7, JoinPays DEF Next

\* Whoever calls what, a wallet's lamports fall only when it signs: as the
\* payer of a new account that then names it, or in its own transfer.
THEOREM SignersPay == Spec => OnlySignersPay
<1>1. TypeOK /\ [Next]_vars =>
        [\A w \in Payers : purse'[w] < purse[w] => PaysAsSigner(w)]_vars
  BY PurseStep
<1> QED
  BY <1>1, TypeCorrect, PTL DEF Spec, OnlySignersPay, PaysAsSigner

------------------------------------------------------------------------------
(* A vault backs the deposits of its group                                 *)

\* What member m has deposited in the group at g, 0 without a record.
Share(records, g) ==
    [m \in Members |->
       IF Exists(records[<<g, m>>]) THEN records[<<g, m>>].total_deposited ELSE 0]

RecordMap == [Pdas -> MemberRecord \cup {None}]

LEMMA ShareNat ==
    ASSUME NEW records \in RecordMap, NEW g \in Groups, NEW m \in Members
    PROVE  Share(records, g)[m] \in Nat
<1>1. <<g, m>> \in Pdas
  BY DEF Pdas
<1>2. Exists(records[<<g, m>>]) => records[<<g, m>>] \in MemberRecord
  BY <1>1 DEF RecordMap, Exists
<1> QED
  BY <1>2, AmountAssumption DEF Share, MemberRecord, U64

\* The sum over the records of a group is a sum over all members.
LEMMA SumOfShares ==
    ASSUME NEW records \in RecordMap, NEW g \in Groups, NEW J,
           J = {m \in Members : Exists(records[<<g, m>>])}
    PROVE  SumFunction([m \in J |-> records[<<g, m>>].total_deposited]) =
             SumFunctionOnSet(Share(records, g), Members)
<1> DEFINE f == [m \in J |-> records[<<g, m>>].total_deposited]
           s == Share(records, g)
<1>1. IsFiniteSet(Members) /\ J \in SUBSET Members /\ IsFiniteSet(J)
  BY AddressAssumption, FS_Subset
<1>2. SumFunction(f) = SumFunctionOnSet(f, J)
  BY DEF SumFunction
<1>3. \A m \in J : f[m] = s[m]
  BY DEF Share
<1>4. (\A m \in J : s[m] \in Int) /\ (\A m \in Members \ J : s[m] = 0)
  BY ShareNat DEF Share
<1> HIDE DEF f, s
<1>5. SumFunctionOnSet(f, J) = SumFunctionOnSet(s, J)
  BY <1>1, <1>3, SumSame
<1>6. SumFunctionOnSet(s, Members) = SumFunctionOnSet(s, J)
  BY <1>1, <1>4, SumZeros
<1>7. SumFunction(f) = SumFunctionOnSet(s, Members)
  BY <1>2, <1>5, <1>6
<1> QED
  BY <1>7 DEF f, s

LEMMA DepositedIsShares ==
    ASSUME TypeOK, NEW g \in Groups
    PROVE  Deposited(g) = SumFunctionOnSet(Share(record, g), Members)
BY SumOfShares DEF TypeOK, RecordMap, Deposited, Joined

LEMMA DepositedIsSharesPrimed ==
    ASSUME TypeOK', NEW g \in Groups
    PROVE  Deposited(g)' = SumFunctionOnSet(Share(record', g), Members)
BY SumOfShares DEF TypeOK, RecordMap, Deposited, Joined

LEMMA DepositedNat ==
    ASSUME TypeOK, NEW g \in Groups
    PROVE  /\ Deposited(g) \in Nat
           /\ \A m \in Members : Share(record, g)[m] <= Deposited(g)
<1> DEFINE s == Share(record, g)
<1>1. IsFiniteSet(Members) /\ \A m \in Members : s[m] \in Nat
  BY ShareNat, AddressAssumption DEF TypeOK, RecordMap
<1>2. Deposited(g) = SumFunctionOnSet(s, Members)
  BY DepositedIsShares
<1> HIDE DEF s
<1>3. \A m \in Members : s[m] <= SumFunctionOnSet(s, Members)
  BY <1>1, SumBounds
<1>4. SumFunctionOnSet(s, Members) \in Nat
  BY <1>1, SumNat
<1>5. Deposited(g) \in Nat /\ \A m \in Members : s[m] <= Deposited(g)
  BY <1>2, <1>3, <1>4
<1> QED
  BY <1>5 DEF s

\* A step that touches one record moves the sum by the change of that record.
LEMMA DepositedChange ==
    ASSUME TypeOK, TypeOK', NEW g \in Groups, NEW m \in Members,
           \A n \in Members : n # m => record'[<<g, n>>] = record[<<g, n>>]
    PROVE  Deposited(g)' = Deposited(g) - Share(record, g)[m] + Share(record', g)[m]
<1> DEFINE s == Share(record, g)
           t == Share(record', g)
<1>1. IsFiniteSet(Members)
  BY AddressAssumption
<1>2. (\A n \in Members : s[n] \in Int) /\ t[m] \in Int
  BY ShareNat DEF TypeOK, RecordMap
<1>3. \A n \in Members \ {m} : t[n] = s[n]
  BY DEF Share
<1>4. /\ Deposited(g) = SumFunctionOnSet(s, Members)
      /\ Deposited(g)' = SumFunctionOnSet(t, Members)
  BY DepositedIsShares, DepositedIsSharesPrimed
<1> HIDE DEF s, t
<1>5. SumFunctionOnSet(t, Members) = SumFunctionOnSet(s, Members) - s[m] + t[m]
  BY <1>1, <1>2, <1>3, SumUpdate
<1>6. Deposited(g)' = Deposited(g) - s[m] + t[m]
  BY <1>4, <1>5
<1> QED
  BY <1>6 DEF s, t

LEMMA DepositedSame ==
    ASSUME NEW g \in Groups,
           \A m \in Members : record'[<<g, m>>] = record[<<g, m>>]
    PROVE  Deposited(g)' = Deposited(g)
<1>1. Joined(g)' = Joined(g)
  BY DEF Joined
<1>2. [m \in Joined(g)' |-> record'[<<g, m>>].total_deposited] =
        [m \in Joined(g) |-> record[<<g, m>>].total_deposited]
  BY <1>1 DEF Joined
<1> QED
  BY <1>2 DEF Deposited

------------------------------------------------------------------------------
(* Rent goes back to its payer                                             *)

\* The rent of wallet w in the accounts of one group, one record, one tally.
GroupRent(g) ==
    group[g].lamports
    + (IF Exists(vault[g]) THEN vault[g].lamports ELSE 0)
    + (IF Exists(gate[g]) THEN gate[g].lamports ELSE 0)
GroupRents(w) ==
    [g \in Groups |->
       IF Exists(group[g]) /\ group[g].rent_payer = w THEN GroupRent(g) ELSE 0]
RecordRents(w) ==
    [p \in Pdas |->
       IF Exists(record[p]) /\ record[p].rent_payer = w THEN record[p].lamports ELSE 0]
TallyRents(w) ==
    [p \in Pdas |->
       IF Exists(tally[p]) /\ tally[p].rent_payer = w THEN tally[p].lamports ELSE 0]

OwedByGroups(w) == SumFunctionOnSet(GroupRents(w), Groups)
OwedByRecords(w) == SumFunctionOnSet(RecordRents(w), Pdas)
OwedByTallies(w) == SumFunctionOnSet(TallyRents(w), Pdas)

RentView ==
    \A w \in Payers :
        /\ RentOwedTo(w) = OwedByGroups(w) + OwedByRecords(w) + OwedByTallies(w)
        /\ \A g \in Groups : GroupRents(w)[g] \in Nat
        /\ \A p \in Pdas : RecordRents(w)[p] \in Nat /\ TallyRents(w)[p] \in Nat

LEMMA PdasFinite == IsFiniteSet(Pdas)
BY AddressAssumption, FS_Product DEF Pdas

LEMMA SumOverPart ==
    ASSUME NEW S, IsFiniteSet(S), NEW T \in SUBSET S, NEW f, NEW e,
           \A x \in T : f[x] = e[x] /\ e[x] \in Int, \A x \in S \ T : e[x] = 0
    PROVE  SumFunctionOnSet(f, T) = SumFunctionOnSet(e, S)
<1>1. IsFiniteSet(T)
  BY FS_Subset
<1>2. SumFunctionOnSet(f, T) = SumFunctionOnSet(e, T)
  BY <1>1, SumSame
<1>3. SumFunctionOnSet(e, S) = SumFunctionOnSet(e, T)
  BY SumZeros
<1> QED
  BY <1>2, <1>3

LEMMA RentViewHolds == TypeOK => RentView
<1> SUFFICES ASSUME TypeOK, NEW w \in Payers
             PROVE  /\ RentOwedTo(w) =
                         OwedByGroups(w) + OwedByRecords(w) + OwedByTallies(w)
                    /\ \A g \in Groups : GroupRents(w)[g] \in Nat
                    /\ \A p \in Pdas : /\ RecordRents(w)[p] \in Nat
                                       /\ TallyRents(w)[p] \in Nat
  BY DEF RentView
<1>1. \A g \in Groups : GroupRents(w)[g] \in Nat
  <2> SUFFICES ASSUME NEW g \in Groups, Exists(group[g])
               PROVE  GroupRent(g) \in Nat
    BY DEF GroupRents
  <2>1. group[g].lamports \in Nat
    BY DEF TypeOK, Exists, GroupConfig
  <2>2. (IF Exists(vault[g]) THEN vault[g].lamports ELSE 0) \in Nat
    BY DEF TypeOK, Exists, Vault
  <2>3. (IF Exists(gate[g]) THEN gate[g].lamports ELSE 0) \in Nat
    BY DEF TypeOK, Exists, JoinGate
  <2> QED
    BY <2>1, <2>2, <2>3 DEF GroupRent
<1>2. \A p \in Pdas : RecordRents(w)[p] \in Nat
  BY DEF TypeOK, RecordRents, Exists, MemberRecord
<1>3. \A p \in Pdas : TallyRents(w)[p] \in Nat
  BY DEF TypeOK, TallyRents, Exists, JoinTally
<1> DEFINE G == {g \in Groups : Exists(group[g]) /\ group[g].rent_payer = w}
           R == {p \in Pdas : Exists(record[p]) /\ record[p].rent_payer = w}
           T == {p \in Pdas : Exists(tally[p]) /\ tally[p].rent_payer = w}
           fg == [g \in G |-> GroupRent(g)]
           fr == [p \in R |-> record[p].lamports]
           ft == [p \in T |-> tally[p].lamports]
           eg == GroupRents(w)
           er == RecordRents(w)
           et == TallyRents(w)
<1>4. SumFunctionOnSet(fg, G) = SumFunctionOnSet(eg, Groups)
  <2>1. /\ \A g \in G : fg[g] = eg[g]
        /\ \A g \in Groups \ G : eg[g] = 0
        /\ G \in SUBSET Groups
    BY DEF GroupRents
  <2> HIDE DEF fg, G
  <2>2. \A g \in G : fg[g] = eg[g] /\ eg[g] \in Int
    BY <1>1, <2>1
  <2> HIDE DEF eg
  <2> QED
    BY <2>1, <2>2, AddressAssumption, SumOverPart
<1>5. SumFunctionOnSet(fr, R) = SumFunctionOnSet(er, Pdas)
  <2>1. /\ \A p \in R : fr[p] = er[p]
        /\ \A p \in Pdas \ R : er[p] = 0
        /\ R \in SUBSET Pdas
    BY DEF RecordRents
  <2> HIDE DEF fr, R
  <2>2. \A p \in R : fr[p] = er[p] /\ er[p] \in Int
    BY <1>2, <2>1
  <2> HIDE DEF er
  <2> QED
    BY <2>1, <2>2, PdasFinite, SumOverPart
<1>6. SumFunctionOnSet(ft, T) = SumFunctionOnSet(et, Pdas)
  <2>1. /\ \A p \in T : ft[p] = et[p]
        /\ \A p \in Pdas \ T : et[p] = 0
        /\ T \in SUBSET Pdas
    BY DEF TallyRents
  <2> HIDE DEF ft, T
  <2>2. \A p \in T : ft[p] = et[p] /\ et[p] \in Int
    BY <1>3, <2>1
  <2> HIDE DEF et
  <2> QED
    BY <2>1, <2>2, PdasFinite, SumOverPart
<1>7. RentOwedTo(w) = SumFunctionOnSet(fg, G) + SumFunctionOnSet(fr, R)
                      + SumFunctionOnSet(ft, T)
  BY DEF RentOwedTo, SumFunction, GroupRent
<1>8. RentOwedTo(w) = OwedByGroups(w) + OwedByRecords(w) + OwedByTallies(w)
  <2> HIDE DEF fg, fr, ft, G, R, T
  <2> QED
    BY <1>4, <1>5, <1>6, <1>7 DEF OwedByGroups, OwedByRecords, OwedByTallies
<1> QED
  BY <1>1, <1>2, <1>3, <1>8

LEMMA RentViewNext == TypeOK' => RentView'
BY RentViewHolds, PTL

\* A step changes what is owed to wallet x only, and by d.
GroupsOwe(x, d) ==
    \A w \in Payers : OwedByGroups(w)' = OwedByGroups(w) + (IF w = x THEN d ELSE 0)
RecordsOwe(x, d) ==
    \A w \in Payers : OwedByRecords(w)' = OwedByRecords(w) + (IF w = x THEN d ELSE 0)
TalliesOwe(x, d) ==
    \A w \in Payers : OwedByTallies(w)' = OwedByTallies(w) + (IF w = x THEN d ELSE 0)

LEMMA OwedNat ==
    ASSUME TypeOK, NEW w \in Payers
    PROVE  OwedByGroups(w) \in Nat /\ OwedByRecords(w) \in Nat /\ OwedByTallies(w) \in Nat
<1>1. OwedByGroups(w) \in Nat
  BY RentViewHolds, AddressAssumption, SumNat DEF RentView, OwedByGroups
<1>2. OwedByRecords(w) \in Nat
  BY RentViewHolds, PdasFinite, SumNat DEF RentView, OwedByRecords
<1>3. OwedByTallies(w) \in Nat
  BY RentViewHolds, PdasFinite, SumNat DEF RentView, OwedByTallies
<1> QED
  BY <1>1, <1>2, <1>3

\* What one step does to the accounts of one group, whose rent payer is x.
GroupSide(g, x, d) ==
    /\ \A h \in Groups : h # g => /\ group'[h] = group[h] /\ vault'[h] = vault[h]
                                  /\ gate'[h] = gate[h]
    /\ Exists(group[g]) => group[g].rent_payer = x
    /\ Exists(group'[g]) => group'[g].rent_payer = x
    /\ (IF Exists(group'[g]) THEN GroupRent(g)' ELSE 0) =
         (IF Exists(group[g]) THEN GroupRent(g) ELSE 0) + d

\* The same for one account of a map of records or of tallies.
AccountSide(f, e, p, x, d) ==
    /\ \A q \in Pdas : q # p => e[q] = f[q]
    /\ Exists(f[p]) => f[p].rent_payer = x
    /\ Exists(e[p]) => e[p].rent_payer = x
    /\ (IF Exists(e[p]) THEN e[p].lamports ELSE 0) =
         (IF Exists(f[p]) THEN f[p].lamports ELSE 0) + d

LEMMA GroupSideOwes ==
    ASSUME TypeOK, TypeOK', NEW g \in Groups, NEW x \in Payers, NEW d \in Int,
           GroupSide(g, x, d)
    PROVE  GroupsOwe(x, d)
<1> SUFFICES ASSUME NEW w \in Payers
             PROVE  OwedByGroups(w)' = OwedByGroups(w) + (IF w = x THEN d ELSE 0)
  BY DEF GroupsOwe
<1> DEFINE f == GroupRents(w)
           e == GroupRents(w)'
<1>1. (\A h \in Groups : f[h] \in Nat) /\ e[g] \in Nat
  BY RentViewHolds, RentViewNext DEF RentView
<1>2. \A h \in Groups \ {g} : e[h] = f[h]
  BY DEF GroupSide, GroupRents, GroupRent
<1>3. e[g] = f[g] + (IF w = x THEN d ELSE 0)
  <2>1. /\ e[g] = IF Exists(group'[g]) /\ w = x THEN GroupRent(g)' ELSE 0
        /\ f[g] = IF Exists(group[g]) /\ w = x THEN GroupRent(g) ELSE 0
    BY DEF GroupSide, GroupRents
  <2> HIDE DEF e, f
  <2> QED
    BY <2>1 DEF GroupSide
<1>4. OwedByGroups(w) = SumFunctionOnSet(f, Groups)
      /\ OwedByGroups(w)' = SumFunctionOnSet(e, Groups)
  BY DEF OwedByGroups
<1>5. OwedByGroups(w) \in Nat
  BY OwedNat
<1> HIDE DEF f, e
<1>6. /\ \A h \in Groups : f[h] \in Int
      /\ e[g] \in Int /\ IsFiniteSet(Groups)
  BY <1>1, AddressAssumption
<1>7. SumFunctionOnSet(e, Groups) = SumFunctionOnSet(f, Groups) - f[g] + e[g]
  BY <1>2, <1>6, SumUpdate
<1> QED
  BY <1>3, <1>4, <1>5, <1>6, <1>7

LEMMA RecordSideOwes ==
    ASSUME TypeOK, TypeOK', NEW p \in Pdas, NEW x \in Payers, NEW d \in Int,
           AccountSide(record, record', p, x, d)
    PROVE  RecordsOwe(x, d)
<1> SUFFICES ASSUME NEW w \in Payers
             PROVE  OwedByRecords(w)' = OwedByRecords(w) + (IF w = x THEN d ELSE 0)
  BY DEF RecordsOwe
<1> DEFINE f == RecordRents(w)
           e == RecordRents(w)'
<1>1. (\A q \in Pdas : f[q] \in Nat) /\ e[p] \in Nat
  BY RentViewHolds, RentViewNext DEF RentView
<1>2. \A q \in Pdas \ {p} : e[q] = f[q]
  BY DEF AccountSide, RecordRents
<1>3. e[p] = f[p] + (IF w = x THEN d ELSE 0)
  <2>1. /\ e[p] = IF Exists(record'[p]) /\ w = x THEN record'[p].lamports ELSE 0
        /\ f[p] = IF Exists(record[p]) /\ w = x THEN record[p].lamports ELSE 0
    BY DEF AccountSide, RecordRents
  <2> HIDE DEF e, f
  <2> QED
    BY <2>1 DEF AccountSide
<1>4. OwedByRecords(w) = SumFunctionOnSet(f, Pdas)
      /\ OwedByRecords(w)' = SumFunctionOnSet(e, Pdas)
  BY DEF OwedByRecords, Pdas
<1>5. OwedByRecords(w) \in Nat
  BY OwedNat
<1> HIDE DEF f, e
<1>6. /\ \A q \in Pdas : f[q] \in Int
      /\ e[p] \in Int /\ IsFiniteSet(Pdas)
  BY <1>1, PdasFinite
<1>7. SumFunctionOnSet(e, Pdas) = SumFunctionOnSet(f, Pdas) - f[p] + e[p]
  BY <1>2, <1>6, SumUpdate
<1> QED
  BY <1>3, <1>4, <1>5, <1>6, <1>7

LEMMA TallySideOwes ==
    ASSUME TypeOK, TypeOK', NEW p \in Pdas, NEW x \in Payers, NEW d \in Int,
           AccountSide(tally, tally', p, x, d)
    PROVE  TalliesOwe(x, d)
<1> SUFFICES ASSUME NEW w \in Payers
             PROVE  OwedByTallies(w)' = OwedByTallies(w) + (IF w = x THEN d ELSE 0)
  BY DEF TalliesOwe
<1> DEFINE f == TallyRents(w)
           e == TallyRents(w)'
<1>1. (\A q \in Pdas : f[q] \in Nat) /\ e[p] \in Nat
  BY RentViewHolds, RentViewNext DEF RentView
<1>2. \A q \in Pdas \ {p} : e[q] = f[q]
  BY DEF AccountSide, TallyRents
<1>3. e[p] = f[p] + (IF w = x THEN d ELSE 0)
  <2>1. /\ e[p] = IF Exists(tally'[p]) /\ w = x THEN tally'[p].lamports ELSE 0
        /\ f[p] = IF Exists(tally[p]) /\ w = x THEN tally[p].lamports ELSE 0
    BY DEF AccountSide, TallyRents
  <2> HIDE DEF e, f
  <2> QED
    BY <2>1 DEF AccountSide
<1>4. OwedByTallies(w) = SumFunctionOnSet(f, Pdas)
      /\ OwedByTallies(w)' = SumFunctionOnSet(e, Pdas)
  BY DEF OwedByTallies, Pdas
<1>5. OwedByTallies(w) \in Nat
  BY OwedNat
<1> HIDE DEF f, e
<1>6. /\ \A q \in Pdas : f[q] \in Int
      /\ e[p] \in Int /\ IsFiniteSet(Pdas)
  BY <1>1, PdasFinite
<1>7. SumFunctionOnSet(e, Pdas) = SumFunctionOnSet(f, Pdas) - f[p] + e[p]
  BY <1>2, <1>6, SumUpdate
<1> QED
  BY <1>3, <1>4, <1>5, <1>6, <1>7

LEMMA SameAccountsOwe ==
    ASSUME TypeOK, NEW x
    PROVE  /\ UNCHANGED <<group, vault, gate>> => GroupsOwe(x, 0)
           /\ record' = record => RecordsOwe(x, 0)
           /\ tally' = tally => TalliesOwe(x, 0)
<1>1. ASSUME UNCHANGED <<group, vault, gate>>, NEW w \in Payers
      PROVE  OwedByGroups(w)' = OwedByGroups(w) + (IF w = x THEN 0 ELSE 0)
  <2>1. GroupRents(w)' = GroupRents(w)
    BY <1>1 DEF GroupRents, GroupRent
  <2> QED
    BY <2>1, OwedNat DEF OwedByGroups
<1>2. ASSUME record' = record, NEW w \in Payers
      PROVE  OwedByRecords(w)' = OwedByRecords(w) + (IF w = x THEN 0 ELSE 0)
  <2>1. RecordRents(w)' = RecordRents(w)
    BY <1>2 DEF RecordRents
  <2> QED
    BY <2>1, OwedNat DEF OwedByRecords, Pdas
<1>3. ASSUME tally' = tally, NEW w \in Payers
      PROVE  OwedByTallies(w)' = OwedByTallies(w) + (IF w = x THEN 0 ELSE 0)
  <2>1. TallyRents(w)' = TallyRents(w)
    BY <1>3 DEF TallyRents
  <2> QED
    BY <2>1, OwedNat DEF OwedByTallies, Pdas
<1> QED
  BY <1>1, <1>2, <1>3 DEF GroupsOwe, RecordsOwe, TalliesOwe

\* Nobody's purse and rent together change.
RentKept ==
    \A w \in Payers : (purse[w] + RentOwedTo(w))' = purse[w] + RentOwedTo(w)

\* Wallet x pays what is owed to it from now on.
PaysFor(x, d) ==
    \A w \in Payers : purse'[w] = purse[w] - (IF w = x THEN d ELSE 0)

LEMMA RentBalance ==
    ASSUME TypeOK, TypeOK', NEW x, NEW a \in Int, NEW b \in Int, NEW c \in Int,
           GroupsOwe(x, a), RecordsOwe(x, b), TalliesOwe(x, c),
           PaysFor(x, a + b + c)
    PROVE  RentKept
<1> SUFFICES ASSUME NEW w \in Payers
             PROVE  purse'[w] + RentOwedTo(w)' = purse[w] + RentOwedTo(w)
  BY DEF RentKept
<1>1. /\ RentOwedTo(w) = OwedByGroups(w) + OwedByRecords(w) + OwedByTallies(w)
      /\ RentOwedTo(w)' = OwedByGroups(w)' + OwedByRecords(w)' + OwedByTallies(w)'
  BY RentViewHolds, RentViewNext DEF RentView
<1>2. /\ OwedByGroups(w)' = OwedByGroups(w) + (IF w = x THEN a ELSE 0)
      /\ OwedByRecords(w)' = OwedByRecords(w) + (IF w = x THEN b ELSE 0)
      /\ OwedByTallies(w)' = OwedByTallies(w) + (IF w = x THEN c ELSE 0)
  BY DEF GroupsOwe, RecordsOwe, TalliesOwe
<1>3. purse'[w] = purse[w] - (IF w = x THEN a + b + c ELSE 0)
  BY DEF PaysFor
<1>4. /\ OwedByGroups(w) \in Nat /\ OwedByRecords(w) \in Nat /\ OwedByTallies(w) \in Nat
      /\ purse[w] \in Nat
  BY OwedNat DEF TypeOK
<1> QED
  BY <1>1, <1>2, <1>3, <1>4

LEMMA GroupKeptOwes ==
    ASSUME TypeOK, TypeOK', NEW g \in Groups,
           \A h \in Groups : h # g => /\ group'[h] = group[h] /\ vault'[h] = vault[h]
                                      /\ gate'[h] = gate[h],
           Exists(group[g]), Exists(group'[g]),
           group'[g].rent_payer = group[g].rent_payer,
           GroupRent(g)' = GroupRent(g), NEW x
    PROVE  GroupsOwe(x, 0)
<1> DEFINE y == group[g].rent_payer
<1>1. y \in Payers /\ GroupRents(y)[g] = GroupRent(g)
  BY DEF TypeOK, Exists, GroupConfig, GroupRents
<1>2. GroupRent(g) \in Nat
  BY <1>1, RentViewHolds DEF RentView
<1>3. GroupSide(g, y, 0)
  BY <1>2 DEF GroupSide
<1>4. GroupsOwe(y, 0)
  BY <1>1, <1>3, GroupSideOwes
<1> QED
  BY <1>4 DEF GroupsOwe

\* A transfer of tokens to a vault moves no lamports.
LEMMA PayInLamports ==
    ASSUME TypeOK, NEW g \in Groups, NEW account, NEW amount,
           PayIn(g, account, amount)
    PROVE  /\ \A h \in Groups : h # g => vault'[h] = vault[h]
           /\ Exists(vault[g]) /\ Exists(vault'[g])
           /\ vault'[g].lamports = vault[g].lamports
<1>1. vault[g] \in Vault /\ Exists(vault[g]) /\ Exists(vault'[g])
  BY PayInKeepsVaults DEF PayIn, TypeOK, Exists
<1>2. vault' = [vault EXCEPT ![g].amount =
                  vault[g].amount + Received(group[g].mint, amount)]
  BY DEF PayIn
<1>3. vault'[g].lamports = vault[g].lamports
  BY <1>1, <1>2 DEF TypeOK, Vault
<1>4. \A h \in Groups : h # g => vault'[h] = vault[h]
  BY <1>2 DEF TypeOK
<1> QED
  BY <1>1, <1>3, <1>4

LEMMA FloorNat ==
    ASSUME TypeOK, NEW kind \in Kinds
    PROVE  Floor(kind) \in Nat
BY AmountAssumption DEF TypeOK, Floor

LEMMA CreateRent ==
    ASSUME MembershipInv, MembershipInv', NEW g \in Groups, Create(g)
    PROVE  RentKept
<1>1. PICK creator \in Creators, payer \in Payers, mint \in Mints,
           amount \in DepositAmounts, frequency \in 0..(MaxFrequency + 1),
           periods \in PeriodCounts, size \in GroupSizes :
             CreateGroup(g, creator, payer, mint, amount, frequency, periods, size)
  BY DEF Create
<1> DEFINE a == Floor("group") + Floor("vault")
<1>2. TypeOK /\ TypeOK' /\ Floor("group") \in Nat /\ Floor("vault") \in Nat
  BY FloorNat DEF MembershipInv, Kinds
<1>3. ~Exists(group[g]) /\ Exists(group'[g])
  BY <1>2, CreateEffect, NoneAssumption DEF Opened, Exists
<1>4. ~Exists(gate[g]) /\ ~Exists(gate'[g])
  BY <1>1, <1>3 DEF MembershipInv, GroupInv, CreateGroup
<1>5. group'[g].rent_payer = payer /\ group'[g].lamports = Floor("group")
  BY <1>1, <1>2 DEF TypeOK, CreateGroup
<1>6. vault'[g] = [amount |-> 0, lamports |-> Floor("vault")]
  BY <1>1, <1>2 DEF TypeOK, CreateGroup
<1>7. vault'[g] \in Vault
  BY <1>2, <1>6, AmountAssumption DEF Vault, U64
<1>8. Exists(vault'[g])
  BY <1>7, NoneAssumption DEF Exists
<1>9. GroupRent(g)' = a
  BY <1>2, <1>4, <1>5, <1>6, <1>8 DEF GroupRent
<1>10. a \in Int /\ GroupSide(g, payer, a)
  <2>1. \A h \in Groups : h # g => /\ group'[h] = group[h] /\ vault'[h] = vault[h]
                                   /\ gate'[h] = gate[h]
    BY <1>1, <1>2 DEF TypeOK, CreateGroup
  <2>2. a \in Int /\ a = 0 + a
    BY <1>2
  <2> HIDE DEF a
  <2> QED
    BY <1>3, <1>5, <1>9, <2>1, <2>2 DEF GroupSide
<1>11. GroupsOwe(payer, a)
  BY <1>2, <1>10, GroupSideOwes
<1>12. RecordsOwe(payer, 0) /\ TalliesOwe(payer, 0)
  BY <1>1, <1>2, SameAccountsOwe DEF CreateGroup
<1>13. PaysFor(payer, a + 0 + 0)
  <2>1. purse' = [purse EXCEPT ![payer] = @ - Floor("group") - Floor("vault")]
    BY <1>1 DEF CreateGroup
  <2>2. purse \in [Payers -> Nat]
    BY <1>2 DEF TypeOK
  <2> QED
    BY <1>2, <2>1, <2>2 DEF PaysFor
<1> HIDE DEF a
<1> QED
  BY <1>2, <1>10, <1>11, <1>12, <1>13, RentBalance

LEMMA SetJoinAuthorityRent ==
    ASSUME TypeOK, TypeOK', NEW g \in Groups, NEW authority \in Keys,
           SetJoinAuthority(g, authority)
    PROVE  RentKept
<1> DEFINE a == Floor("gate")
           x == group[g].rent_payer
<1>1. /\ a \in Nat /\ a \in Int /\ Exists(group[g]) /\ group' = group /\ vault' = vault
      /\ ~Exists(gate[g]) /\ record' = record /\ tally' = tally
      /\ gate' = [gate EXCEPT ![g] = [authority |-> authority, lamports |-> a]]
      /\ purse' = [purse EXCEPT ![x] = @ - a]
  BY FloorNat DEF SetJoinAuthority, Kinds
<1>2. x \in Payers /\ group[g].lamports \in Nat
  BY <1>1 DEF TypeOK, Exists, GroupConfig
<1>3. gate'[g] = [authority |-> authority, lamports |-> a]
  BY <1>1 DEF TypeOK
<1>4. gate'[g] \in JoinGate
  BY <1>1, <1>3 DEF JoinGate
<1>5. Exists(gate'[g]) /\ gate'[g].lamports = a
  BY <1>3, <1>4, NoneAssumption DEF Exists
<1>6. GroupRent(g)' = GroupRent(g) + a
  <2>1. (IF Exists(vault[g]) THEN vault[g].lamports ELSE 0) \in Nat
    BY DEF TypeOK, Exists, Vault
  <2> HIDE DEF a
  <2> QED
    BY <1>1, <1>2, <1>5, <2>1 DEF GroupRent
<1>7. \A h \in Groups : h # g => gate'[h] = gate[h]
  BY <1>1 DEF TypeOK
<1>8. GroupSide(g, x, a)
  <2> HIDE DEF a
  <2> QED
    BY <1>1, <1>6, <1>7 DEF GroupSide
<1>9. PaysFor(x, a + 0 + 0)
  BY <1>1, <1>2 DEF PaysFor, TypeOK
<1> HIDE DEF a, x
<1>10. GroupsOwe(x, a) /\ RecordsOwe(x, 0) /\ TalliesOwe(x, 0)
  BY <1>1, <1>2, <1>8, GroupSideOwes, SameAccountsOwe
<1> QED
  BY <1>1, <1>9, <1>10, RentBalance

\* The tally that a join leaves: a new one of the payer's, or the old one with
\* its payer and its lamports.
LEMMA JoinTallySide ==
    ASSUME TypeOK, TypeOK', NEW g \in Groups, NEW m \in Members, NEW payer \in Payers,
           tally' = [tally EXCEPT ![<<g, m>>] = CountJoin(g, m, payer)],
           Joins(g, m) + 1 \in U32
    PROVE  TalliesOwe(payer, IF Exists(tally[<<g, m>>]) THEN 0 ELSE Floor("tally"))
<1> DEFINE p == <<g, m>>
           d == IF Exists(tally[p]) THEN 0 ELSE Floor("tally")
<1>1. p \in Pdas /\ Floor("tally") \in Nat
  BY FloorNat DEF Pdas, Kinds
<1>2. tally'[p] = CountJoin(g, m, payer) /\ \A q \in Pdas : q # p => tally'[q] = tally[q]
  BY <1>1 DEF TypeOK
<1>3. CASE ~Exists(tally[p])
  <2>1. tally'[p] = [rent_payer |-> payer, joins |-> 1, lamports |-> Floor("tally")]
    BY <1>2, <1>3 DEF CountJoin, Joins
  <2>2. AccountSide(tally, tally', p, payer, Floor("tally"))
    <3>1. tally'[p] \in JoinTally
      <4>1. 1 \in U32 \ {0}
        BY <1>3, AmountAssumption DEF Joins, U32
      <4> QED
        BY <1>1, <2>1, <4>1 DEF JoinTally
    <3>2. Exists(tally'[p])
      BY <3>1, NoneAssumption DEF Exists
    <3> QED
      BY <1>1, <1>2, <1>3, <2>1, <3>2 DEF AccountSide
  <2>3. Floor("tally") \in Int
    BY <1>1
  <2>4. TalliesOwe(payer, Floor("tally"))
    BY <1>1, <2>2, <2>3, TallySideOwes
  <2> QED
    BY <1>3, <2>4
<1>4. CASE Exists(tally[p])
  <2>1. tally[p] \in JoinTally
    BY <1>1, <1>4 DEF TypeOK, Exists
  <2>2. Joins(g, m) # 0
    BY <1>4, <2>1 DEF Joins, JoinTally
  <2>3. tally'[p] = [tally[p] EXCEPT !.joins = @ + 1]
    BY <1>2, <2>2 DEF CountJoin
  <2>4. /\ tally'[p].rent_payer = tally[p].rent_payer
        /\ tally'[p].lamports = tally[p].lamports
    BY <2>1, <2>3 DEF JoinTally
  <2>5. tally'[p] \in JoinTally
    <3>1. tally'[p] = [rent_payer |-> tally[p].rent_payer, joins |-> tally[p].joins + 1,
                       lamports |-> tally[p].lamports]
      BY <2>1, <2>3 DEF JoinTally
    <3>2. tally[p].joins + 1 \in U32 \ {0}
      BY <1>4, <2>1, AmountAssumption DEF Joins, JoinTally, U32
    <3> QED
      BY <2>1, <3>1, <3>2 DEF JoinTally
  <2>6. Exists(tally'[p])
    BY <2>5, NoneAssumption DEF Exists
  <2>7. AccountSide(tally, tally', p, tally[p].rent_payer, 0)
    BY <1>2, <1>4, <2>1, <2>4, <2>6 DEF AccountSide, JoinTally
  <2>8. TalliesOwe(tally[p].rent_payer, 0)
    <3>1. tally[p].rent_payer \in Payers /\ 0 \in Int
      BY <2>1 DEF JoinTally
    <3> HIDE DEF p
    <3> QED
      BY <1>1, <2>7, <3>1, TallySideOwes
  <2> QED
    BY <1>4, <2>8 DEF TalliesOwe
<1> QED
  BY <1>3, <1>4

LEMMA JoinRent ==
    ASSUME TypeOK, TypeOK', NEW g \in Groups, Join(g)
    PROVE  RentKept
<1>1. PICK m \in Members, payer \in Payers, account \in TokenAccounts,
           authority \in Keys \cup {None}, durable \in BOOLEAN,
           terms \in OfferedTerms, expected \in U32 \cup {None} :
             JoinGroup(g, m, payer, account, authority, durable, terms, expected)
  BY DEF Join
<1> DEFINE p == <<g, m>>
           b == Floor("record")
           c == IF Exists(tally[p]) THEN 0 ELSE Floor("tally")
<1>2. b \in Nat /\ c \in Nat /\ p \in Pdas
  BY FloorNat DEF Kinds, Pdas
<1>3. GroupsOwe(payer, 0)
  <2>1. /\ \A h \in Groups : h # g => vault'[h] = vault[h]
        /\ Exists(vault[g]) /\ Exists(vault'[g])
        /\ vault'[g].lamports = vault[g].lamports
    BY <1>1, PayInLamports DEF JoinGroup
  <2>2. /\ group' = [group EXCEPT ![g].current_members = @ + 1]
        /\ gate' = gate /\ Exists(group[g]) /\ group[g] \in GroupConfig
        /\ group[g].current_members < group[g].max_members
    BY <1>1 DEF JoinGroup, TypeOK, Exists
  <2>3. /\ group'[g].rent_payer = group[g].rent_payer
        /\ group'[g].lamports = group[g].lamports
        /\ \A h \in Groups : h # g => group'[h] = group[h]
    BY <2>2 DEF TypeOK, GroupConfig
  <2>4. Exists(group'[g])
    <3>1. group'[g] = [group[g] EXCEPT !.current_members = @ + 1]
      BY <2>2 DEF TypeOK
    <3>2. group'[g] \in GroupConfig
      BY <2>2, <3>1 DEF GroupConfig
    <3> QED
      BY <3>2, NoneAssumption DEF Exists
  <2>5. GroupRent(g)' = GroupRent(g)
    BY <2>1, <2>2, <2>3 DEF GroupRent
  <2> QED
    BY <2>1, <2>2, <2>3, <2>4, <2>5, GroupKeptOwes
<1>4. RecordsOwe(payer, b)
  <2>1. /\ ~Exists(record[p]) /\ record'[p].rent_payer = payer
        /\ record'[p].lamports = b
        /\ \A q \in Pdas : q # p => record'[q] = record[q]
    BY <1>1, <1>2 DEF JoinGroup, TypeOK
  <2>2. Exists(record'[p])
    BY <1>1, JoinRecord, NoneAssumption DEF FirstDeposit, Exists
  <2>3. b = 0 + b /\ b \in Int
    BY <1>2
  <2>4. AccountSide(record, record', p, payer, b)
    BY <2>1, <2>2, <2>3 DEF AccountSide
  <2> HIDE DEF b, p
  <2> QED
    BY <1>2, <2>3, <2>4, RecordSideOwes
<1>5. TalliesOwe(payer, c)
  BY <1>1, JoinTallySide DEF JoinGroup
<1>6. PaysFor(payer, 0 + b + c)
  <2>1. purse' = [purse EXCEPT ![payer] = @ - (b + c)]
    BY <1>1 DEF JoinGroup
  <2>2. purse \in [Payers -> Nat]
    BY DEF TypeOK
  <2> HIDE DEF b, c
  <2> QED
    BY <1>2, <2>1, <2>2 DEF PaysFor
<1>7. 0 \in Int /\ b \in Int /\ c \in Int
  BY <1>2
<1> HIDE DEF b, c
<1> QED
  BY <1>3, <1>4, <1>5, <1>6, <1>7, RentBalance

\* leave_group and close_member_record give the record's rent to its payer.
LEMMA CloseRecordRent ==
    ASSUME TypeOK, TypeOK', NEW g \in Groups, NEW m \in Members, CloseRecord(g, m),
           Exists(group[g]),
           \A h \in Groups : h # g => vault'[h] = vault[h],
           Exists(vault'[g]) <=> Exists(vault[g]),
           Exists(vault[g]) => vault'[g].lamports = vault[g].lamports,
           gate' = gate, tally' = tally
    PROVE  RentKept
<1> DEFINE p == <<g, m>>
           x == record[p].rent_payer
           l == record[p].lamports
           b == 0 - l
<1>1. p \in Pdas /\ Exists(record[p]) /\ record[p] \in MemberRecord
  BY DEF CloseRecord, TypeOK, Exists, Pdas
<1>2. x \in Payers /\ l \in Nat /\ b \in Int
  BY <1>1 DEF MemberRecord
<1>3. GroupsOwe(x, 0)
  <2>1. /\ group' = [group EXCEPT ![g].current_members = @ - 1]
        /\ group[g] \in GroupConfig /\ group[g].current_members > 0
    BY DEF CloseRecord, TypeOK, Exists
  <2>2. /\ group'[g].rent_payer = group[g].rent_payer
        /\ group'[g].lamports = group[g].lamports
        /\ \A h \in Groups : h # g => group'[h] = group[h]
    BY <2>1 DEF TypeOK, GroupConfig
  <2>3. Exists(group'[g])
    <3>1. group'[g] = [group[g] EXCEPT !.current_members = @ - 1]
      BY <2>1 DEF TypeOK
    <3>2. group'[g] \in GroupConfig
      BY <2>1, <3>1 DEF GroupConfig
    <3> QED
      BY <3>2, NoneAssumption DEF Exists
  <2>4. GroupRent(g)' = GroupRent(g)
    BY <2>2 DEF GroupRent
  <2> HIDE DEF x
  <2> QED
    BY <2>2, <2>3, <2>4, GroupKeptOwes
<1>4. RecordsOwe(x, b)
  <2>1. record'[p] = None /\ \A q \in Pdas : q # p => record'[q] = record[q]
    BY <1>1 DEF CloseRecord, TypeOK
  <2>2. 0 = l + b
    BY <1>2
  <2>3. AccountSide(record, record', p, x, b)
    <3> HIDE DEF b
    <3> QED
      BY <1>1, <2>1, <2>2 DEF AccountSide, Exists
  <2> HIDE DEF b, p, x
  <2> QED
    BY <1>1, <1>2, <2>3, RecordSideOwes
<1>5. PaysFor(x, 0 + b + 0)
  <2>1. purse' = [purse EXCEPT ![x] = @ + l]
    BY DEF CloseRecord
  <2>2. purse \in [Payers -> Nat]
    BY DEF TypeOK
  <2> HIDE DEF x, l
  <2> QED
    BY <1>2, <2>1, <2>2 DEF PaysFor
<1>6. TalliesOwe(x, 0) /\ 0 \in Int
  BY SameAccountsOwe
<1> HIDE DEF b, x
<1> QED
  BY <1>2, <1>3, <1>4, <1>5, <1>6, RentBalance

LEMMA CloseJoinTallyRent ==
    ASSUME TypeOK, TypeOK', NEW g \in Groups, NEW m \in Members, CloseJoinTally(g, m)
    PROVE  RentKept
<1> DEFINE p == <<g, m>>
           x == tally[p].rent_payer
           l == tally[p].lamports
           c == 0 - l
<1>1. p \in Pdas /\ Exists(tally[p]) /\ tally[p] \in JoinTally
  BY DEF CloseJoinTally, TypeOK, Exists, Pdas
<1>2. x \in Payers /\ l \in Nat /\ c \in Int
  BY <1>1 DEF JoinTally
<1>3. TalliesOwe(x, c)
  <2>1. tally'[p] = None /\ \A q \in Pdas : q # p => tally'[q] = tally[q]
    BY <1>1 DEF CloseJoinTally, TypeOK
  <2>2. 0 = l + c
    BY <1>2
  <2>3. AccountSide(tally, tally', p, x, c)
    <3> HIDE DEF c
    <3> QED
      BY <1>1, <2>1, <2>2 DEF AccountSide, Exists
  <2> HIDE DEF c, p, x
  <2> QED
    BY <1>1, <1>2, <2>3, TallySideOwes
<1>4. PaysFor(x, 0 + 0 + c)
  <2>1. purse' = [purse EXCEPT ![x] = @ + l]
    BY DEF CloseJoinTally
  <2>2. purse \in [Payers -> Nat]
    BY DEF TypeOK
  <2> HIDE DEF x, l
  <2> QED
    BY <1>2, <2>1, <2>2 DEF PaysFor
<1>5. GroupsOwe(x, 0) /\ RecordsOwe(x, 0) /\ 0 \in Int
  BY SameAccountsOwe DEF CloseJoinTally
<1> HIDE DEF c, x
<1> QED
  BY <1>2, <1>3, <1>4, <1>5, RentBalance

\* A step that moves no rent: nobody pays, and one group keeps its lamports.
LEMMA NoRentMoves ==
    ASSUME TypeOK, TypeOK', NEW x, GroupsOwe(x, 0), RecordsOwe(x, 0), tally' = tally,
           purse' = purse
    PROVE  RentKept
<1>1. PaysFor(x, 0 + 0 + 0)
  BY DEF TypeOK, PaysFor
<1>2. TalliesOwe(x, 0) /\ 0 \in Int
  BY SameAccountsOwe
<1> QED
  BY <1>1, <1>2, RentBalance

LEMMA RefundRent ==
    ASSUME TypeOK, TypeOK', NEW g \in Groups, RefundVaultRent(g)
    PROVE  RentKept
<1> DEFINE x == group[g].rent_payer
           l == LamportsAboveRentFloor(g)
           a == 0 - l
<1>1. Exists(group[g]) /\ group[g] \in GroupConfig /\ Floor("group") \in Nat
  BY FloorNat DEF RefundVaultRent, TypeOK, Exists, Kinds
<1>2. /\ l \in Nat /\ a \in Int /\ x \in Payers /\ group[g].lamports \in Nat
      /\ group[g].lamports - l \in Nat
  BY <1>1 DEF LamportsAboveRentFloor, GroupConfig
<1>3. /\ group' = [group EXCEPT ![g].lamports = @ - l]
      /\ purse' = [purse EXCEPT ![x] = @ + l]
      /\ vault' = vault /\ gate' = gate /\ record' = record /\ tally' = tally
  BY DEF RefundVaultRent
<1> HIDE DEF l
<1>4. group'[g] = [group[g] EXCEPT !.lamports = @ - l]
  BY <1>3 DEF TypeOK
<1>5. /\ group'[g].rent_payer = x
      /\ group'[g].lamports = group[g].lamports - l
      /\ group'[g] \in GroupConfig
  BY <1>1, <1>2, <1>4 DEF GroupConfig
<1>6. GroupSide(g, x, a)
  <2>1. Exists(group'[g])
    BY <1>5, NoneAssumption DEF Exists
  <2>2. /\ (IF Exists(vault[g]) THEN vault[g].lamports ELSE 0) \in Nat
        /\ (IF Exists(gate[g]) THEN gate[g].lamports ELSE 0) \in Nat
    BY DEF TypeOK, Exists, Vault, JoinGate
  <2>3. GroupRent(g)' = GroupRent(g) + a
    BY <1>2, <1>3, <1>5, <2>2 DEF GroupRent
  <2>4. \A h \in Groups : h # g => group'[h] = group[h]
    BY <1>3 DEF TypeOK
  <2> HIDE DEF a
  <2> QED
    BY <1>1, <1>3, <1>5, <2>1, <2>3, <2>4 DEF GroupSide
<1>7. PaysFor(x, a + 0 + 0)
  <2>1. purse \in [Payers -> Nat]
    BY DEF TypeOK
  <2> HIDE DEF x
  <2> QED
    BY <1>2, <1>3, <2>1 DEF PaysFor
<1> HIDE DEF a, x
<1>8. GroupsOwe(x, a) /\ RecordsOwe(x, 0) /\ TalliesOwe(x, 0) /\ 0 \in Int
  BY <1>2, <1>3, <1>6, GroupSideOwes, SameAccountsOwe
<1> QED
  BY <1>2, <1>7, <1>8, RentBalance

LEMMA CloseGroupRent ==
    ASSUME MembershipInv, TypeOK', NEW g \in Groups, CloseGroup(g)
    PROVE  RentKept
<1> DEFINE x == group[g].rent_payer
           l == group[g].lamports
           r == IF Exists(gate[g]) THEN gate[g].lamports ELSE 0
           a == 0 - (l + r)
<1>1. TypeOK /\ Exists(group[g]) /\ group[g] \in GroupConfig /\ ~Exists(vault[g])
  BY DEF MembershipInv, GroupInv, TypeOK, CloseGroup, Exists
<1>2. x \in Payers /\ l \in Nat /\ r \in Nat /\ a \in Int
  BY <1>1 DEF GroupConfig, TypeOK, JoinGate, Exists
<1>3. /\ group' = [group EXCEPT ![g] = None] /\ gate' = [gate EXCEPT ![g] = None]
      /\ purse' = [purse EXCEPT ![x] = @ + l + r]
      /\ vault' = vault /\ record' = record /\ tally' = tally
  BY DEF CloseGroup
<1>4. GroupSide(g, x, a)
  <2>1. ~Exists(group'[g])
    BY <1>1, <1>3 DEF TypeOK, Exists
  <2>2. GroupRent(g) = l + 0 + r
    BY <1>1 DEF GroupRent
  <2>3. 0 = GroupRent(g) + a
    <3> HIDE DEF l, r
    <3> QED
      BY <1>2, <2>2
  <2>4. \A h \in Groups : h # g => group'[h] = group[h] /\ gate'[h] = gate[h]
    BY <1>1, <1>3 DEF TypeOK
  <2> HIDE DEF a
  <2> QED
    BY <1>1, <1>3, <2>1, <2>3, <2>4 DEF GroupSide
<1>5. PaysFor(x, a + 0 + 0)
  <2>1. purse \in [Payers -> Nat]
    BY <1>1 DEF TypeOK
  <2> HIDE DEF x, l, r
  <2> QED
    BY <1>2, <1>3, <2>1 DEF PaysFor
<1> HIDE DEF a, x
<1>6. GroupsOwe(x, a) /\ RecordsOwe(x, 0) /\ TalliesOwe(x, 0) /\ 0 \in Int
  BY <1>1, <1>2, <1>3, <1>4, GroupSideOwes, SameAccountsOwe
<1> QED
  BY <1>1, <1>2, <1>5, <1>6, RentBalance

\* The vault closes to the GroupConfig, whose rent payer gets it in the end.
LEMMA SettleRent ==
    ASSUME TypeOK, TypeOK', NEW g \in Groups, NEW pairs, NEW burned,
           NEW outcome \in Statuses, Exists(group[g]), Exists(vault[g]),
           Settle(g, pairs, burned, outcome)
    PROVE  RentKept
<1>1. /\ group[g] \in GroupConfig /\ vault[g].lamports \in Nat
      /\ vault'[g] = None /\ \A h \in Groups : h # g => vault'[h] = vault[h]
      /\ gate' = gate /\ record' = record /\ tally' = tally /\ purse' = purse
  BY DEF Settle, TypeOK, Vault, Exists
<1> DEFINE l == group[g].lamports + vault[g].lamports
<1>2. group' = [group EXCEPT ![g].status = outcome, ![g].settled_at = now,
                             ![g].lamports = l]
  BY DEF Settle
<1>3. group'[g] = [group[g] EXCEPT !.status = outcome, !.settled_at = now,
                                   !.lamports = l]
  <2> HIDE DEF l
  <2> QED
    BY <1>1, <1>2 DEF TypeOK, GroupConfig
<1>4. /\ group'[g].rent_payer = group[g].rent_payer
      /\ group'[g].lamports = l
      /\ \A h \in Groups : h # g => group'[h] = group[h]
  <2> HIDE DEF l
  <2> QED
    BY <1>1, <1>2, <1>3 DEF TypeOK, GroupConfig
<1>5. Exists(group'[g])
  BY SettledGroup, NoneAssumption DEF Exists
<1>6. GroupRent(g)' = GroupRent(g)
  <2>1. (IF Exists(gate[g]) THEN gate[g].lamports ELSE 0) \in Nat
    BY DEF TypeOK, Exists, JoinGate
  <2>2. group[g].lamports \in Nat
    BY <1>1 DEF GroupConfig
  <2> QED
    BY <1>1, <1>4, <2>1, <2>2 DEF GroupRent, Exists
<1>7. GroupsOwe(None, 0) /\ RecordsOwe(None, 0)
  BY <1>1, <1>4, <1>5, <1>6, GroupKeptOwes, SameAccountsOwe
<1> QED
  BY <1>1, <1>7, NoRentMoves

LEMMA StartRent ==
    ASSUME TypeOK, TypeOK', NEW g \in Groups, StartCycle(g)
    PROVE  RentKept
<1>1. /\ group' = [group EXCEPT ![g].status = "Active", ![g].cycle_start = now]
      /\ Exists(group[g]) /\ group[g] \in GroupConfig
      /\ UNCHANGED <<vault, record, tally, gate, purse>>
  BY DEF StartCycle, TypeOK, Exists
<1>2. group'[g] = [group[g] EXCEPT !.status = "Active", !.cycle_start = now]
  BY <1>1 DEF TypeOK, GroupConfig
<1>3. /\ group'[g].rent_payer = group[g].rent_payer
      /\ group'[g].lamports = group[g].lamports
      /\ \A h \in Groups : h # g => group'[h] = group[h]
  BY <1>1, <1>2 DEF TypeOK, GroupConfig
<1>4. Exists(group'[g])
  <2>1. group'[g] \in GroupConfig
    BY <1>1, <1>2 DEF TypeOK, GroupConfig, Statuses
  <2> QED
    BY <2>1, NoneAssumption DEF Exists
<1>5. GroupRent(g)' = GroupRent(g)
  BY <1>1, <1>3 DEF GroupRent
<1>6. GroupsOwe(None, 0) /\ RecordsOwe(None, 0)
  BY <1>1, <1>3, <1>4, <1>5, GroupKeptOwes, SameAccountsOwe
<1> QED
  BY <1>1, <1>6, NoRentMoves

\* deposit, and a transfer of tokens to a vault.
LEMMA PayInRent ==
    ASSUME TypeOK, TypeOK', NEW g \in Groups, Exists(group[g]),
           NEW account, NEW amount, PayIn(g, account, amount),
           RecordsOwe(None, 0), UNCHANGED <<group, gate, tally, purse>>
    PROVE  RentKept
<1>1. /\ \A h \in Groups : h # g => vault'[h] = vault[h]
      /\ Exists(vault[g]) /\ Exists(vault'[g])
      /\ vault'[g].lamports = vault[g].lamports
  BY PayInLamports
<1>2. GroupRent(g)' = GroupRent(g)
  BY <1>1 DEF GroupRent
<1>3. GroupsOwe(None, 0)
  BY <1>1, <1>2, GroupKeptOwes
<1> QED
  BY <1>3, NoRentMoves

LEMMA DepositRent ==
    ASSUME TypeOK, TypeOK', NEW g \in Groups, NEW m \in Members,
           NEW a \in TokenAccounts, Deposit(g, m, a)
    PROVE  RentKept
<1> DEFINE p == <<g, m>>
           x == record[p].rent_payer
           total == record[p].total_deposited + group[g].deposit_amount
           period == CurrentPeriod(group[g], now)
<1>1. /\ p \in Pdas /\ Exists(record[p]) /\ record[p] \in MemberRecord
      /\ record'[p] \in MemberRecord
  <2>1. record'[<<g, m>>] \in MemberRecord
    BY DepositRecord
  <2>2. p \in Pdas /\ Exists(record[p])
    BY DEF Deposit, Pdas
  <2>3. record[p] \in MemberRecord
    BY <2>2 DEF TypeOK, Exists
  <2> QED
    BY <2>1, <2>2, <2>3
<1>2. record' = [record EXCEPT ![p].periods_deposited = @ \cup {period},
                               ![p].deposits_made = @ + 1,
                               ![p].total_deposited = total]
  BY DEF Deposit
<1>3. /\ record'[p].rent_payer = x /\ record'[p].lamports = record[p].lamports
      /\ \A q \in Pdas : q # p => record'[q] = record[q]
  <2> HIDE DEF period, total
  <2> QED
    BY <1>1, <1>2 DEF TypeOK, MemberRecord
<1>4. x \in Payers /\ record[p].lamports \in Nat /\ 0 \in Int /\ Exists(record'[p])
  BY <1>1, NoneAssumption DEF MemberRecord, Exists
<1>5. AccountSide(record, record', p, x, 0)
  BY <1>1, <1>3, <1>4 DEF AccountSide
<1>6. RecordsOwe(x, 0)
  <2> HIDE DEF p, x
  <2> QED
    BY <1>1, <1>4, <1>5, RecordSideOwes
<1>7. RecordsOwe(None, 0)
  BY <1>6 DEF RecordsOwe
<1> QED
  BY <1>7, PayInRent DEF Deposit

LEMMA RentStep ==
    ASSUME MembershipInv, [Next]_vars
    PROVE  \/ RentKept
           \/ \E g \in Groups, w \in Payers, amount \in 1..MaxTopUp : TopUp(g, w, amount)
<1>1. MembershipInv' /\ TypeOK /\ TypeOK'
  BY NextInv DEF MembershipInv
<1>2. ASSUME UNCHANGED <<group, vault, gate, record, tally, purse>>
      PROVE  RentKept
  BY <1>1, <1>2, SameAccountsOwe, NoRentMoves
<1>3. ASSUME NEW g \in Groups, LeaveOrDeposit(g)
      PROVE  RentKept
  <2>1. ASSUME NEW m \in Members, NEW a \in TokenAccounts, LeaveGroup(g, m, a)
        PROVE  RentKept
    <3> DEFINE left == vault[g].amount - record[<<g, m>>].total_deposited
    <3>1. /\ Exists(group[g]) /\ CloseRecord(g, m) /\ Exists(vault[g])
          /\ gate' = gate /\ tally' = tally
          /\ vault' = [vault EXCEPT ![g].amount = left]
      BY <2>1 DEF LeaveGroup
    <3>2. vault'[g] = [vault[g] EXCEPT !.amount = left]
          /\ \A h \in Groups : h # g => vault'[h] = vault[h]
      <4> HIDE DEF left
      <4> QED
        BY <1>1, <3>1 DEF TypeOK
    <3>3. vault[g] \in Vault /\ (vault'[g] = None \/ vault'[g] \in Vault)
      BY <1>1, <3>1 DEF TypeOK, Exists
    <3>4. vault'[g].lamports = vault[g].lamports /\ Exists(vault'[g])
      <4>1. left \in U64
        <5>1. record[<<g, m>>].total_deposited \in 0..MaxU64
          BY <1>1, <3>1 DEF CloseRecord, TypeOK, Exists, Pdas, MemberRecord, U64
        <5> QED
          BY <2>1, <3>3, <5>1, AmountAssumption DEF LeaveGroup, Vault, U64
      <4>2. vault'[g].lamports = vault[g].lamports /\ vault'[g] \in Vault
        <5> HIDE DEF left
        <5> QED
          BY <3>2, <3>3, <4>1 DEF Vault
      <4> QED
        BY <4>2, NoneAssumption DEF Exists
    <3> QED
      BY <1>1, <3>1, <3>2, <3>4, CloseRecordRent
  <2> QED
    BY <1>1, <1>3, <2>1, DepositRent DEF LeaveOrDeposit
<1>4. ASSUME NEW g \in Groups, CrankStep(g)
      PROVE  RentKept
  <2>1. ASSUME NEW pairs \in PairLists, Distribute(g, pairs)
        PROVE  RentKept
    BY <1>1, <2>1, SettleRent DEF Distribute, SettlementChecks, Statuses
  <2>2. ASSUME NEW m \in Members, CloseMemberRecord(g, m)
        PROVE  RentKept
    BY <1>1, <2>2, CloseRecordRent DEF CloseMemberRecord
  <2> QED
    BY <1>1, <1>4, <2>1, <2>2, RefundRent, CloseJoinTallyRent, CloseGroupRent
    DEF CrankStep
<1>5. ASSUME NEW g \in Groups, CreatorStep(g)
      PROVE  RentKept
  <2>1. ASSUME NEW pairs \in PairLists, NEW mint_writable \in BOOLEAN,
               EmergencyCancel(g, pairs, mint_writable)
        PROVE  RentKept
    BY <1>1, <2>1, SettleRent DEF EmergencyCancel, CancelChecks, SettlementChecks, Statuses
  <2> QED
    BY <1>1, <1>5, <2>1, CreateRent, SetJoinAuthorityRent, StartRent DEF CreatorStep
<1>6. ASSUME NEW g \in Groups, NEW a \in TokenAccounts, DonateTokens(g, a)
      PROVE  RentKept
  BY <1>1, <1>6, PayInRent, SameAccountsOwe DEF DonateTokens
<1>7. ASSUME Environment,
             ~\E g \in Groups, w \in Payers, amount \in 1..MaxTopUp : TopUp(g, w, amount)
      PROVE  RentKept
  BY <1>2, <1>6, <1>7 DEF Environment, Tick, ChangeRentRate, Freeze, Thaw
<1>8. CASE UNCHANGED vars
  BY <1>2, <1>8 DEF vars
<1> QED
  BY <1>1, <1>3, <1>4, <1>5, <1>7, <1>8, JoinRent DEF Next

\* For any number of groups, members and payers and any rent rates: no
\* instruction changes what a wallet has and is owed in rent, taken together,
\* so all of its rent comes back to it and none of it to another.
THEOREM RentComesBack == Spec => RentReturnsToItsPayer
<1>1. MembershipInv /\ [Next]_vars =>
        [RentKept
         \/ \E g \in Groups, w \in Payers, amount \in 1..MaxTopUp :
              TopUp(g, w, amount)]_vars
  BY RentStep
<1> QED
  BY <1>1, Membership, PTL DEF Spec, RentReturnsToItsPayer, RentKept

==============================================================================
