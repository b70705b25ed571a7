--------------------------- MODULE RehearsalProofs ---------------------------
(***************************************************************************)
(* The rehearsal, for every value of the constants: any amounts, periods,  *)
(* clock skew, strangers, groups of theirs, members and mints.             *)
(***************************************************************************)
EXTENDS Rehearsal, SafeNudgeProofs

Three == 1..3
Wallet(i) == Ata(Crew[i])

LEMMA ScriptWallets ==
    /\ DOMAIN Crew = Three
    /\ ScriptMembers = {Victim} \cup {Crew[i] : i \in Three}
    /\ ScriptMembers \cap Strangers = {} /\ ScriptMembers \subseteq Members
    /\ \A i \in Three : /\ Crew[i] \in Members \cap Payers
                        /\ Crew[i] \in ScriptMembers /\ Crew[i] # Victim
    /\ \A i, j \in Three : Crew[i] = Crew[j] => i = j
    /\ \A m \in ScriptMembers : Ata(m) \in TokenAccounts /\ OwnerOf[Ata(m)] = m
    /\ Victim \in ScriptMembers
    /\ \A s \in Strangers : s \in Creators /\ s \in Members /\ s \in Payers /\ s # Payer
<1>1. Crew \in Seq(Members \cap Payers) /\ Len(Crew) = 3
  BY ScriptAssumption
<1>2. DOMAIN Crew = Three /\ \A i \in Three : Crew[i] \in Members \cap Payers
  BY <1>1 DEF Three
<1>3. ASSUME NEW m \in ScriptMembers
      PROVE  Ata(m) \in TokenAccounts /\ OwnerOf[Ata(m)] = m
  <2>1. \E a \in Canonical : OwnerOf[a] = m /\ MintOf[a] = "usdc"
    BY WalletAssumption DEF ScriptMembers
  <2>2. Ata(m) \in Canonical /\ OwnerOf[Ata(m)] = m
    BY <2>1 DEF Ata
  <2> QED
    BY <2>2, AddressAssumption
<1>4. /\ \A i, j \in Three : Crew[i] = Crew[j] => i = j
      /\ \A i \in Three : Crew[i] \in CrewSet /\ Crew[i] # Victim
      /\ CrewSet = {Crew[i] : i \in Three}
  BY <1>2, WalletAssumption DEF CrewSet
<1>5. ScriptMembers \cap Strangers = {} /\ ScriptMembers \subseteq Members
  BY <1>2, <1>4, WalletAssumption, ScriptAssumption DEF ScriptMembers
<1>6. \A s \in Strangers : s \in Creators /\ s \in Members /\ s \in Payers /\ s # Payer
  BY ScriptAssumption
<1> QED
  BY <1>2, <1>3, <1>4, <1>5, <1>6 DEF ScriptMembers

------------------------------------------------------------------------------
(* What a step of the rehearsal asks of the program                        *)

\* A call at the script's codes, by whoever may make it.
ProgramCall(g) ==
    \/ \E w \in Creators \cap Payers, mint \in Mints, amount \in DepositAmounts,
          frequency \in Frequencies, periods \in PeriodCounts, size \in GroupSizes :
         CreateGroup(g, w, w, mint, amount, frequency, periods, size)
    \/ \E key \in Keys : SetJoinAuthority(g, key)
    \/ \E m \in Members \cap Payers, account \in TokenAccounts :
       \E authority, named, expected :
         JoinGroup(g, m, m, account, authority, FALSE, named, expected)
    \/ \E m \in Members, account \in TokenAccounts :
         LeaveGroup(g, m, account) \/ Deposit(g, m, account)
    \/ StartCycle(g)
    \/ \E pairs : Distribute(g, pairs)
    \/ \E pairs, mint_writable : EmergencyCancel(g, pairs, mint_writable)
    \/ RefundVaultRent(g)
    \/ \E m \in Members : CloseMemberRecord(g, m) \/ CloseJoinTally(g, m)
    \/ CloseGroup(g)

\* The clock, or tokens on the move between wallets or to a vault.
OutsideStep ==
    \/ Tick
    \/ \E g \in Groups, account \in TokenAccounts : DonateTokens(g, account)
    \/ \E s \in Strangers, m \in ScriptMembers : Gives(s, m)

ProgramStep ==
    \/ \E g \in {Bait, Life} : ProgramCall(g)
    \/ OutsideStep
    \/ UNCHANGED vars

LEMMA CallType ==
    ASSUME MembershipInv, NEW g \in Groups, ProgramCall(g)
    PROVE  TypeOK'
<1>1. ASSUME NEW pairs, NEW burned, NEW outcome \in {"Completed", "Cancelled"},
             Exists(group[g]), Exists(vault[g]), Settle(g, pairs, burned, outcome)
      PROVE  TypeOK'
  BY <1>1, SettleType DEF MembershipInv, Statuses
<1>2. \A f \in Frequencies : f \in 0..(MaxFrequency + 1)
  BY TimeAssumption DEF Frequencies
<1>3. ASSUME \E pairs : Distribute(g, pairs)
      PROVE  TypeOK'
  BY <1>1, <1>3 DEF Distribute, SettlementChecks
<1>4. ASSUME \E pairs, mint_writable : EmergencyCancel(g, pairs, mint_writable)
      PROVE  TypeOK'
  BY <1>1, <1>4 DEF EmergencyCancel, CancelChecks, SettlementChecks
<1>5. ASSUME NEW w \in Creators \cap Payers, NEW mint \in Mints,
             NEW amount \in DepositAmounts, NEW frequency \in Frequencies,
             NEW periods \in PeriodCounts, NEW size \in GroupSizes,
             CreateGroup(g, w, w, mint, amount, frequency, periods, size)
      PROVE  TypeOK'
  BY <1>2, <1>5, CreateGroupType DEF MembershipInv
<1>6. ASSUME NEW m \in Members \cap Payers, NEW account \in TokenAccounts,
             NEW authority, NEW named, NEW expected,
             JoinGroup(g, m, m, account, authority, FALSE, named, expected)
      PROVE  TypeOK'
  BY <1>6, JoinGroupType DEF MembershipInv
<1> QED
  BY <1>3, <1>4, <1>5, <1>6, SetJoinAuthorityType, LeaveGroupType, DepositType,
     StartCycleType, RefundVaultRentType, CloseMemberRecordType, CloseJoinTallyType,
     CloseGroupType
  DEF ProgramCall, MembershipInv

LEMMA CallInv ==
    ASSUME MembershipInv, NEW g \in Groups, ProgramCall(g)
    PROVE  MembershipInv'
<1>1. TypeOK'
  BY CallType
<1> SUFFICES ASSUME NEW h \in Groups
             PROVE  GroupInv(h)'
  BY <1>1 DEF MembershipInv
<1>2. ASSUME \E pairs : Distribute(g, pairs)
      PROVE  GroupInv(h)'
  BY <1>2, SettleInv DEF Distribute, SettlementChecks
<1>3. ASSUME \E pairs, mint_writable : EmergencyCancel(g, pairs, mint_writable)
      PROVE  GroupInv(h)'
  BY <1>3, SettleInv DEF EmergencyCancel, CancelChecks, SettlementChecks
<1>4. \A f \in Frequencies : f \in 0..(MaxFrequency + 1)
  BY TimeAssumption DEF Frequencies
<1>5. ASSUME NEW w \in Creators \cap Payers, NEW mint \in Mints,
             NEW amount \in DepositAmounts, NEW frequency \in Frequencies,
             NEW periods \in PeriodCounts, NEW size \in GroupSizes,
             CreateGroup(g, w, w, mint, amount, frequency, periods, size)
      PROVE  GroupInv(h)'
  BY <1>1, <1>4, <1>5, CreateGroupInv
<1>6. ASSUME NEW m \in Members \cap Payers, NEW account \in TokenAccounts,
             NEW authority, NEW named, NEW expected,
             JoinGroup(g, m, m, account, authority, FALSE, named, expected)
      PROVE  GroupInv(h)'
  BY <1>1, <1>6, JoinGroupInv
<1>7. ASSUME RefundVaultRent(g)
      PROVE  GroupInv(h)'
  <2>1. [Next]_vars
    BY <1>7 DEF Next, CrankStep
  <2> QED
    BY <2>1, NextInv DEF MembershipInv
<1>8. ASSUME NEW m \in Members, CloseMemberRecord(g, m)
      PROVE  GroupInv(h)'
  BY <1>8, CloseRecordInv DEF CloseMemberRecord, Settled
<1>9. ASSUME NEW m \in Members, CloseJoinTally(g, m)
      PROVE  GroupInv(h)'
  BY <1>9, GroupInvFrame DEF MembershipInv, CloseJoinTally
<1>10. ASSUME NEW m \in Members, NEW account \in TokenAccounts,
              LeaveGroup(g, m, account) \/ Deposit(g, m, account)
       PROVE  GroupInv(h)'
  BY <1>1, <1>10, LeaveGroupInv, DepositInv
<1> QED
  BY <1>2, <1>3, <1>5, <1>6, <1>7, <1>8, <1>9, <1>10, SetJoinAuthorityInv,
     StartCycleInv, CloseGroupInv
  DEF ProgramCall

LEMMA OutsideInv ==
    ASSUME MembershipInv, OutsideStep
    PROVE  MembershipInv'
<1>1. CASE Tick
  BY <1>1, GroupInvFrame DEF MembershipInv, TypeOK, Tick
<1>2. ASSUME NEW g \in Groups, NEW account \in TokenAccounts, DonateTokens(g, account)
      PROVE  MembershipInv'
  <2>1. TypeOK'
    BY <1>2, PayInType DEF MembershipInv, TypeOK, DonateTokens
  <2>2. ASSUME NEW h \in Groups
        PROVE  GroupInv(h)'
    <3>1. Exists(vault'[h]) <=> Exists(vault[h])
      BY <1>2, PayInKeepsVaults DEF MembershipInv, DonateTokens
    <3> QED
      BY <1>2, <3>1, GroupInvFrame DEF MembershipInv, DonateTokens
  <2> QED
    BY <2>1, <2>2 DEF MembershipInv
<1>3. ASSUME NEW s \in Strangers, NEW m \in ScriptMembers, Gives(s, m)
      PROVE  MembershipInv'
  <2>1. UNCHANGED <<now, rate, group, vault, record, tally, gate, frozen, purse>>
    BY <1>3 DEF Gives
  <2>2. tokens' \in [TokenAccounts -> U64]
    <3>1. PICK account \in AccountsOf(s) :
            /\ tokens[account] > 0 /\ tokens[Ata(m)] + 1 \in U64
            /\ tokens' = [tokens EXCEPT ![account] = @ - 1, ![Ata(m)] = @ + 1]
      BY <1>3 DEF Gives
    <3>2. /\ account \in TokenAccounts /\ OwnerOf[account] = s
          /\ Ata(m) \in TokenAccounts /\ account # Ata(m)
      BY ScriptWallets DEF AccountsOf
    <3>3. tokens[account] - 1 \in U64
      BY <3>1, <3>2, AmountAssumption DEF MembershipInv, TypeOK, U64
    <3> QED
      BY <3>1, <3>2, <3>3 DEF MembershipInv, TypeOK
  <2> QED
    BY <2>1, <2>2, GroupInvFrame DEF MembershipInv, TypeOK
<1> QED
  BY <1>1, <1>2, <1>3 DEF OutsideStep

LEMMA MembershipStep ==
    ASSUME MembershipInv, ProgramStep
    PROVE  MembershipInv'
<1>1. \A g \in {Bait, Life} : g \in Groups
  BY ScriptAssumption
<1>2. CASE UNCHANGED vars
  BY <1>2, NextInv
<1> QED
  BY <1>1, <1>2, CallInv, OutsideInv DEF ProgramStep

------------------------------------------------------------------------------
(* What these steps do to the second group, to the records of the script's *)
(* members and to their wallets                                            *)

\* The second code holds the script's own group.
Ours == Exists(group[Life]) /\ group[Life].creator = Payer

\* Members of the script have records in the script's own second group only.
Owners ==
    \A g \in {Bait, Life}, m \in ScriptMembers :
        Exists(record[<<g, m>>]) => g = Life /\ m # Victim /\ Ours

\* A wallet of the script has received what it was given and nothing else.
WalletKept(m) ==
    \E d \in Nat : /\ gifts'[m] = gifts[m] + d
                   /\ tokens'[Ata(m)] = tokens[Ata(m)] + d

WalletsKept == \A m \in ScriptMembers : WalletKept(m)

NoneJoins ==
    \A g \in {Bait, Life}, m \in ScriptMembers :
        Exists(record'[<<g, m>>]) => Exists(record[<<g, m>>])

LifeKept ==
    /\ Exists(group'[Life]) <=> Exists(group[Life])
    /\ Exists(group[Life]) =>
         /\ group'[Life].status = group[Life].status
         /\ group'[Life].deposit_amount = group[Life].deposit_amount
         /\ group'[Life].creator = group[Life].creator

LifeOver == Ours => Settled(Life)

Quiet == WalletsKept /\ NoneJoins /\ LifeKept

\* Someone else's group at the second code, or the script's that it closes.
LifeElsewhere ==
    /\ WalletsKept /\ NoneJoins
    /\ LifeOver /\ ~Ours' /\ (~Ours \/ ~Exists(group'[Life]))

LifePaid ==
    /\ WalletKept(Victim) /\ UNCHANGED gifts /\ NoneJoins
    /\ Ours /\ group[Life].status = "Active"
    /\ Ours' /\ group'[Life].status = "Completed"

LifeOpened ==
    /\ WalletsKept /\ NoneJoins
    /\ ~Ours
    /\ Ours' /\ group'[Life].status = "Open"

LifeStarted ==
    /\ WalletsKept /\ NoneJoins
    /\ Ours /\ Ours' /\ group'[Life].status = "Active"
    /\ group'[Life].deposit_amount = group[Life].deposit_amount

\* Member i of the crew pays one deposit.
Pays(i) ==
    /\ LifeKept
    /\ tokens'[Wallet(i)] = tokens[Wallet(i)] - group[Life].deposit_amount
    /\ \A m \in ScriptMembers \ {Crew[i]} : tokens'[Ata(m)] = tokens[Ata(m)]

GiftsOK == gifts \in [ScriptMembers -> Nat]

LEMMA Apart ==
    /\ \A m, n \in ScriptMembers : m # n => Ata(m) # Ata(n)
    /\ \A s \in Strangers, m \in ScriptMembers : \A account \in AccountsOf(s) :
         account \in TokenAccounts /\ account # Ata(m) /\ m # s
    /\ \A g \in {Bait, Life}, m \in Members : g \in Groups /\ <<g, m>> \in Pdas
    /\ \A m \in ScriptMembers : m \in Members /\ Ata(m) \in TokenAccounts
BY ScriptWallets, ScriptAssumption DEF AccountsOf, Pdas

LEMMA TokensNat ==
    ASSUME MembershipInv, NEW a \in TokenAccounts
    PROVE  tokens[a] \in Nat
BY AmountAssumption DEF MembershipInv, TypeOK, U64

\* Tokens move only at one account that is not the script's, if at all.
LEMMA NothingMoved ==
    ASSUME MembershipInv, GiftsOK, UNCHANGED gifts,
           \A m \in ScriptMembers : tokens'[Ata(m)] = tokens[Ata(m)]
    PROVE  WalletsKept
<1>1. ASSUME NEW m \in ScriptMembers
      PROVE  WalletKept(m)
  <2>1. /\ gifts[m] \in Nat /\ gifts'[m] = gifts[m] + 0
        /\ tokens[Ata(m)] \in Nat /\ tokens'[Ata(m)] = tokens[Ata(m)] + 0
    BY Apart, TokensNat DEF GiftsOK
  <2> QED
    BY <2>1 DEF WalletKept
<1> QED
  BY <1>1 DEF WalletsKept

LEMMA PaidInto ==
    ASSUME MembershipInv, NEW g \in Groups, NEW account \in TokenAccounts,
           NEW amount, PayIn(g, account, amount)
    PROVE  /\ tokens'[account] = tokens[account] - amount
           /\ \A a \in TokenAccounts \ {account} : tokens'[a] = tokens[a]
BY DEF MembershipInv, TypeOK, PayIn

LEMMA NoneJoined ==
    ASSUME \A g \in {Bait, Life}, m \in ScriptMembers :
             record'[<<g, m>>] \in {record[<<g, m>>], None}
    PROVE  NoneJoins
BY DEF NoneJoins, Exists

LEMMA LifeNotTouched ==
    ASSUME group'[Life] = group[Life]
    PROVE  LifeKept
BY DEF LifeKept

\* A join, a leave, a record's close or a refund at one group's address.
LEMMA LifeFieldsKept ==
    ASSUME TypeOK, NEW g \in Groups, Exists(group[g]),
           \/ \E n \in 0..10 : group' = [group EXCEPT ![g].current_members = n]
           \/ \E n \in Nat : group' = [group EXCEPT ![g].lamports = n]
    PROVE  LifeKept
<1>1. Life \in Groups /\ group[g] \in GroupConfig
  BY ScriptAssumption DEF TypeOK, Exists
<1>2. group'[g] \in GroupConfig
  <2>1. ASSUME NEW n \in 0..10, group' = [group EXCEPT ![g].current_members = n]
        PROVE  group'[g] \in GroupConfig
    <3>1. group'[g] = [group[g] EXCEPT !.current_members = n]
      BY <2>1 DEF TypeOK
    <3> QED
      BY <1>1, <3>1 DEF GroupConfig
  <2>2. ASSUME NEW n \in Nat, group' = [group EXCEPT ![g].lamports = n]
        PROVE  group'[g] \in GroupConfig
    <3>1. group'[g] = [group[g] EXCEPT !.lamports = n]
      BY <2>2 DEF TypeOK
    <3> QED
      BY <1>1, <3>1 DEF GroupConfig
  <2> QED
    BY <2>1, <2>2
<1>3. CASE g = Life
  <2>1. Exists(group'[Life])
    BY <1>2, <1>3, NoneAssumption DEF Exists
  <2>2. /\ group'[Life].status = group[Life].status
        /\ group'[Life].deposit_amount = group[Life].deposit_amount
        /\ group'[Life].creator = group[Life].creator
    BY <1>1, <1>3 DEF TypeOK, GroupConfig
  <2> QED
    BY <1>3, <2>1, <2>2 DEF LifeKept
<1>4. CASE g # Life
  BY <1>1, <1>4, LifeNotTouched DEF TypeOK
<1> QED
  BY <1>3, <1>4

\* Who owns the records afterwards, whoever acted.
LEMMA OwnersKept ==
    ASSUME MembershipInv', Owners, Quiet \/ LifeElsewhere \/ LifePaid \/ LifeStarted
    PROVE  Owners'
<1> SUFFICES ASSUME NEW g \in {Bait, Life}, NEW m \in ScriptMembers,
                    Exists(record'[<<g, m>>])
             PROVE  g = Life /\ m # Victim /\ Ours'
  BY DEF Owners, Exists
<1>1. g = Life /\ m # Victim /\ Ours
  BY DEF Owners, NoneJoins, Quiet, LifeElsewhere, LifePaid, LifeStarted
<1>2. Exists(group'[Life])
  <2>1. m \in Joined(Life)'
    BY <1>1, Apart DEF Joined, Exists
  <2> QED
    BY <2>1, ScriptAssumption DEF MembershipInv, GroupInv, Exists
<1> QED
  BY <1>1, <1>2 DEF Ours, Exists, Quiet, LifeKept, LifeElsewhere, LifePaid, LifeStarted

LEMMA OwnersOpened ==
    ASSUME Owners, LifeOpened
    PROVE  Owners'
BY DEF Owners, LifeOpened, NoneJoins, Exists

------------------------------------------------------------------------------
(* Each call in turn                                                       *)

LEMMA CodeTaken ==
    ASSUME MembershipInv, MembershipInv', GiftsOK, UNCHANGED gifts,
           NEW g \in {Bait, Life}, NEW w, NEW mint, NEW amount, NEW frequency,
           NEW periods, NEW size,
           CreateGroup(g, w, w, mint, amount, frequency, periods, size)
    PROVE  /\ g = Bait => Quiet
           /\ g = Life /\ w # Payer => LifeElsewhere
           /\ g = Life /\ w = Payer =>
                LifeOpened /\ group'[Life].deposit_amount = amount
<1>1. Life \in Groups /\ Bait \in Groups /\ Bait # Life
  BY ScriptAssumption
<1>2. UNCHANGED <<tokens, record>> /\ ~Exists(group[g])
  BY DEF CreateGroup
<1>3. WalletsKept /\ NoneJoins
  BY <1>2, NothingMoved, NoneJoined
<1>4. CASE g = Bait
  <2>1. group'[Life] = group[Life]
    BY <1>1, <1>4 DEF MembershipInv, TypeOK, CreateGroup
  <2> QED
    BY <1>1, <1>3, <1>4, <2>1, LifeNotTouched DEF Quiet
<1>5. CASE g = Life
  <2>1. /\ group'[Life].status = "Open" /\ group'[Life].deposit_amount = amount
        /\ group'[Life].creator = w
    BY <1>1, <1>5 DEF MembershipInv, TypeOK, CreateGroup
  <2>2. Exists(vault'[Life])
    <3>1. vault'[Life] = [amount |-> 0, lamports |-> Floor("vault")]
      BY <1>1, <1>5 DEF MembershipInv, TypeOK, CreateGroup
    <3>2. Floor("vault") \in Nat
      BY AmountAssumption DEF MembershipInv, TypeOK, Floor, Kinds
    <3>3. vault'[Life] \in Vault
      BY <3>1, <3>2, AmountAssumption DEF Vault, U64
    <3> QED
      BY <3>3, NoneAssumption DEF Exists
  <2>3. Exists(group'[Life])
    BY <1>1, <2>2 DEF MembershipInv, GroupInv, Exists
  <2>4. ~Ours /\ LifeOver
    BY <1>2, <1>5 DEF Ours, LifeOver
  <2>5. w # Payer => ~Ours'
    BY <2>1 DEF Ours
  <2>6. w = Payer => Ours'
    BY <2>1, <2>3 DEF Ours, Exists
  <2> QED
    BY <1>1, <1>3, <1>5, <2>1, <2>4, <2>5, <2>6 DEF LifeElsewhere, LifeOpened
<1> QED
  BY <1>4, <1>5

LEMMA CodeFreed ==
    ASSUME MembershipInv, GiftsOK, UNCHANGED gifts, NEW g \in {Bait, Life}, CloseGroup(g)
    PROVE  /\ g = Bait => Quiet
           /\ g = Life => LifeElsewhere
<1>1. Life \in Groups /\ Bait \in Groups /\ Bait # Life
  BY ScriptAssumption
<1>2. UNCHANGED <<tokens, record>> /\ Settled(g)
  BY DEF CloseGroup
<1>3. WalletsKept /\ NoneJoins
  BY <1>2, NothingMoved, NoneJoined
<1>4. CASE g = Bait
  <2>1. group'[Life] = group[Life]
    BY <1>1, <1>4 DEF MembershipInv, TypeOK, CloseGroup
  <2> QED
    BY <1>1, <1>3, <1>4, <2>1, LifeNotTouched DEF Quiet
<1>5. CASE g = Life
  <2>1. ~Exists(group'[Life])
    BY <1>1, <1>5 DEF MembershipInv, TypeOK, CloseGroup, Exists
  <2>2. LifeOver
    BY <1>2, <1>5 DEF LifeOver
  <2>3. ~Ours'
    BY <2>1 DEF Ours, Exists
  <2> QED
    BY <1>1, <1>3, <1>5, <2>1, <2>2, <2>3 DEF LifeElsewhere
<1> QED
  BY <1>4, <1>5

LEMMA StrangerJoins ==
    ASSUME MembershipInv, GiftsOK, UNCHANGED gifts,
           NEW g \in {Bait, Life}, NEW s \in Strangers, NEW account \in AccountsOf(s),
           NEW authority, NEW named, NEW expected,
           JoinGroup(g, s, s, account, authority, FALSE, named, expected)
    PROVE  Quiet
<1>1. g \in Groups /\ s \in Members /\ s \in Payers /\ account \in TokenAccounts
  BY ScriptWallets, Apart
<1>2. /\ Exists(group[g]) /\ group[g].current_members < group[g].max_members
      /\ group' = [group EXCEPT ![g].current_members = @ + 1]
      /\ PayIn(g, account, group[g].deposit_amount)
  BY DEF JoinGroup
<1>3. LifeKept
  <2>1. group[g] \in GroupConfig
    BY <1>1, <1>2 DEF MembershipInv, TypeOK, Exists
  <2>2. group[g].current_members + 1 \in 0..10
    BY <1>2, <2>1 DEF GroupConfig
  <2>3. group' = [group EXCEPT ![g].current_members = group[g].current_members + 1]
    BY <1>1, <1>2 DEF MembershipInv, TypeOK
  <2> QED
    BY <1>1, <1>2, <2>2, <2>3, LifeFieldsKept DEF MembershipInv
<1>4. WalletsKept
  BY <1>1, <1>2, PaidInto, NothingMoved, Apart
<1>5. NoneJoins
  <2>1. \A p \in Pdas : p # <<g, s>> => record'[p] = record[p]
    BY <1>1, JoinRecord DEF MembershipInv
  <2> QED
    BY <2>1, NoneJoined, Apart
<1> QED
  BY <1>3, <1>4, <1>5 DEF Quiet

\* A member leaves, or its record is closed after retention.
LEMMA RecordCloses ==
    ASSUME MembershipInv, NEW g \in Groups, NEW m \in Members,
           Exists(group[g]), CloseRecord(g, m)
    PROVE  NoneJoins /\ LifeKept
<1>1. /\ group[g].current_members > 0
      /\ group' = [group EXCEPT ![g].current_members = @ - 1]
      /\ record' = [record EXCEPT ![<<g, m>>] = None]
  BY DEF CloseRecord
<1>2. LifeKept
  <2>1. group[g] \in GroupConfig
    BY DEF MembershipInv, TypeOK, Exists
  <2>2. group[g].current_members - 1 \in 0..10
    BY <1>1, <2>1 DEF GroupConfig
  <2>3. group' = [group EXCEPT ![g].current_members = group[g].current_members - 1]
    BY <1>1 DEF MembershipInv, TypeOK
  <2> QED
    BY <2>2, <2>3, LifeFieldsKept DEF MembershipInv
<1>3. NoneJoins
  BY <1>1, NoneJoined, Apart DEF MembershipInv, TypeOK
<1> QED
  BY <1>2, <1>3

LEMMA StrangerLeaves ==
    ASSUME MembershipInv, GiftsOK, UNCHANGED gifts,
           NEW g \in {Bait, Life}, NEW s \in Strangers, NEW account \in AccountsOf(s),
           LeaveGroup(g, s, account)
    PROVE  Quiet
<1>1. g \in Groups /\ s \in Members /\ account \in TokenAccounts
  BY ScriptWallets, Apart
<1>2. NoneJoins /\ LifeKept
  BY <1>1, RecordCloses DEF LeaveGroup
<1>3. \A m \in ScriptMembers : tokens'[Ata(m)] = tokens[Ata(m)]
  BY <1>1, Apart DEF MembershipInv, TypeOK, LeaveGroup
<1> QED
  BY <1>2, <1>3, NothingMoved DEF Quiet

LEMMA RecordRetired ==
    ASSUME MembershipInv, GiftsOK, UNCHANGED gifts,
           NEW g \in {Bait, Life}, NEW m \in Members, CloseMemberRecord(g, m)
    PROVE  Quiet
<1>1. g \in Groups /\ UNCHANGED tokens
  BY Apart DEF CloseMemberRecord
<1>2. NoneJoins /\ LifeKept
  BY <1>1, RecordCloses DEF CloseMemberRecord
<1> QED
  BY <1>1, <1>2, NothingMoved DEF Quiet

LEMMA StrangerDeposits ==
    ASSUME MembershipInv, GiftsOK, UNCHANGED gifts,
           NEW g \in {Bait, Life}, NEW s \in Strangers, NEW account \in AccountsOf(s),
           Deposit(g, s, account)
    PROVE  Quiet
<1>1. g \in Groups /\ s \in Members /\ account \in TokenAccounts
  BY ScriptWallets, Apart
<1>2. UNCHANGED group /\ PayIn(g, account, group[g].deposit_amount)
  BY DEF Deposit
<1>3. WalletsKept
  BY <1>1, <1>2, PaidInto, NothingMoved, Apart
<1>4. NoneJoins
  <2>1. \A p \in Pdas : p # <<g, s>> => record'[p] = record[p]
    BY <1>1, DepositNext DEF MembershipInv
  <2> QED
    BY <2>1, NoneJoined, Apart
<1> QED
  BY <1>2, <1>3, <1>4, LifeNotTouched DEF Quiet

LEMMA StrangerDonates ==
    ASSUME MembershipInv, GiftsOK, UNCHANGED gifts,
           NEW g \in {Bait, Life}, NEW s \in Strangers, NEW account \in AccountsOf(s),
           DonateTokens(g, account)
    PROVE  Quiet
<1>1. /\ g \in Groups /\ account \in TokenAccounts
      /\ PayIn(g, account, 1) /\ UNCHANGED <<group, record>>
  BY ScriptAssumption DEF DonateTokens, AccountsOf
<1>2. WalletsKept
  BY <1>1, PaidInto, NothingMoved, Apart
<1> QED
  BY <1>1, <1>2, LifeNotTouched, NoneJoined DEF Quiet

LEMMA RentRefunded ==
    ASSUME MembershipInv, GiftsOK, UNCHANGED gifts, NEW g \in {Bait, Life},
           RefundVaultRent(g)
    PROVE  Quiet
<1>1. g \in Groups /\ Exists(group[g]) /\ UNCHANGED <<record, tokens>>
  BY ScriptAssumption DEF RefundVaultRent
<1>2. \E n \in Nat : group' = [group EXCEPT ![g].lamports = n]
  <2> DEFINE left == group[g].lamports - LamportsAboveRentFloor(g)
  <2>1. left \in Nat
    <3>1. group[g] \in GroupConfig /\ Floor("group") \in Nat
      BY <1>1, AmountAssumption DEF MembershipInv, TypeOK, Exists, Floor, Kinds
    <3> QED
      BY <3>1 DEF GroupConfig, LamportsAboveRentFloor
  <2>2. group' = [group EXCEPT ![g].lamports = left]
    BY <1>1 DEF MembershipInv, TypeOK, RefundVaultRent
  <2> QED
    BY <2>1, <2>2
<1>3. LifeKept
  BY <1>1, <1>2, LifeFieldsKept DEF MembershipInv
<1> QED
  BY <1>1, <1>3, NothingMoved, NoneJoined DEF Quiet

LEMMA NothingDone ==
    ASSUME MembershipInv, GiftsOK, UNCHANGED <<group, record, tokens, gifts>>
    PROVE  Quiet
BY NothingMoved, NoneJoined, LifeNotTouched DEF Quiet

LEMMA GiftMade ==
    ASSUME MembershipInv, GiftsOK, NEW s \in Strangers, NEW m \in ScriptMembers,
           Gives(s, m)
    PROVE  Quiet /\ GiftsOK'
<1>1. PICK account \in AccountsOf(s) :
        /\ tokens' = [tokens EXCEPT ![account] = @ - 1, ![Ata(m)] = @ + 1]
        /\ gifts' = [gifts EXCEPT ![m] = @ + 1]
        /\ UNCHANGED <<group, record>>
  BY DEF Gives
<1>2. ASSUME NEW n \in ScriptMembers
      PROVE  WalletKept(n)
  <2>1. tokens[Ata(n)] \in Nat /\ gifts[n] \in Nat
    BY Apart, TokensNat DEF GiftsOK
  <2>2. CASE n = m
    <3>1. gifts'[n] = gifts[n] + 1
      BY <1>1, <2>2 DEF GiftsOK
    <3>2. tokens'[Ata(n)] = tokens[Ata(n)] + 1
      BY <1>1, <2>2, Apart DEF MembershipInv, TypeOK
    <3> QED
      BY <3>1, <3>2 DEF WalletKept
  <2>3. CASE n # m
    <3>1. gifts'[n] = gifts[n] + 0
      BY <1>1, <2>1, <2>3 DEF GiftsOK
    <3>2. tokens'[Ata(n)] = tokens[Ata(n)] + 0
      BY <1>1, <2>1, <2>3, Apart DEF MembershipInv, TypeOK
    <3> QED
      BY <3>1, <3>2 DEF WalletKept
  <2> QED
    BY <2>2, <2>3
<1>3. GiftsOK'
  BY <1>1 DEF GiftsOK
<1> QED
  BY <1>1, <1>2, <1>3, LifeNotTouched, NoneJoined DEF Quiet, WalletsKept

------------------------------------------------------------------------------
(* Settlements: a list pays only members who have a record of its group,   *)
(* each into an account of its own.                                        *)

Lists(g, pairs) == \A i \in DOMAIN pairs : \E m : pairs[i].record = <<g, m>>

LEMMA MemberListsList ==
    ASSUME NEW g, NEW pairs \in MemberLists(g)
    PROVE  Lists(g, pairs)
<1>1. PICK order \in SetToSeqs(Joined(g)),
           choice \in {f \in [Joined(g) -> UNION {AccountsOf(m) : m \in Joined(g)}] :
                         \A m \in Joined(g) : OwnAccount(f[m], g, m)} :
        pairs = [i \in DOMAIN order |->
                   [record |-> <<g, order[i]>>, account |-> choice[order[i]]]]
  BY DEF MemberLists
<1> QED
  BY <1>1 DEF Lists

LEMMA NotPaid ==
    ASSUME MembershipInv, NEW g \in {Bait, Life}, NEW pairs, NEW burned, NEW outcome,
           Lists(g, pairs), ValidPairs(g, pairs), Settle(g, pairs, burned, outcome),
           NEW m \in ScriptMembers, ~Exists(record[<<g, m>>])
    PROVE  tokens'[Ata(m)] = tokens[Ata(m)]
<1>1. {i \in DOMAIN pairs : pairs[i].account = Ata(m)} = {}
  <2> SUFFICES ASSUME NEW i \in DOMAIN pairs, pairs[i].account = Ata(m)
               PROVE  FALSE
    OBVIOUS
  <2>1. PICK n : pairs[i].record = <<g, n>>
    BY DEF Lists
  <2>2. /\ Exists(record[pairs[i].record])
        /\ OwnerOf[pairs[i].account] = pairs[i].record[2]
    BY DEF ValidPairs, OwnAccount
  <2>3. n = m
    BY <2>1, <2>2, ScriptWallets
  <2> QED
    BY <2>1, <2>2, <2>3
<1>2. Credit(g, pairs, Ata(m)) = SumFunction([i \in {} |-> Payout(g, pairs, i)])
  BY <1>1 DEF Credit, Paid
<1>3. Credit(g, pairs, Ata(m)) = 0
  BY <1>2, SumEmpty DEF SumFunction
<1>4. Ata(m) \in TokenAccounts /\ tokens[Ata(m)] \in Nat
  BY Apart, TokensNat
<1>5. tokens'[Ata(m)] = tokens[Ata(m)] + Credit(g, pairs, Ata(m))
  BY <1>4 DEF Settle
<1> QED
  BY <1>3, <1>4, <1>5

\* A settlement of a group that is not the script's second.
LEMMA SettledElsewhere ==
    ASSUME MembershipInv, MembershipInv', Owners, GiftsOK, UNCHANGED gifts,
           NEW g \in {Bait, Life}, g = Life => ~Ours, NEW pairs, NEW burned,
           NEW outcome \in {"Completed", "Cancelled"}, Lists(g, pairs),
           Exists(group[g]), SettlementChecks(g, pairs),
           Settle(g, pairs, burned, outcome)
    PROVE  Quiet \/ LifeElsewhere
<1>1. g \in Groups /\ Life \in Groups
  BY ScriptAssumption
<1>2. \A m \in ScriptMembers : ~Exists(record[<<g, m>>])
  BY DEF Owners
<1>3. WalletsKept
  BY <1>2, NotPaid, NothingMoved DEF SettlementChecks
<1>4. NoneJoins
  BY NoneJoined DEF Settle
<1>5. group' = [group EXCEPT ![g].status = outcome, ![g].settled_at = now,
                             ![g].lamports = @ + vault[g].lamports]
  BY DEF Settle
<1>6. CASE g # Life
  <2>1. group'[Life] = group[Life]
    BY <1>1, <1>5, <1>6 DEF MembershipInv, TypeOK
  <2> QED
    BY <1>3, <1>4, <2>1, LifeNotTouched DEF Quiet
<1>7. CASE g = Life
  <2>1. group'[Life].creator = group[Life].creator
    BY <1>1, <1>5, <1>7 DEF MembershipInv, TypeOK, GroupConfig, Exists
  <2>2. ~Ours' /\ LifeOver
    BY <1>7, <2>1 DEF Ours, LifeOver
  <2> QED
    BY <1>3, <1>4, <1>7, <2>2 DEF LifeElsewhere
<1> QED
  BY <1>6, <1>7

\* The script's second group is settled at the end of its cycle.
LEMMA CyclePaid ==
    ASSUME MembershipInv, MembershipInv', Owners, GiftsOK, UNCHANGED gifts, Ours,
           NEW pairs, Lists(Life, pairs), Distribute(Life, pairs)
    PROVE  LifePaid
<1>1. Life \in Groups
  BY ScriptAssumption
<1>2. /\ Exists(group[Life]) /\ Exists(vault[Life])
      /\ group[Life].status = "Active" /\ now >= CycleEnd(group[Life])
      /\ ValidPairs(Life, pairs) /\ Settle(Life, pairs, 0, "Completed")
  BY DEF Distribute, SettlementChecks
<1>3. /\ Ended(Life, "Completed") /\ group'[Life] \in GroupConfig
  BY <1>1, <1>2, SettleEffect DEF MembershipInv, Ended
<1>4. Exists(group'[Life]) /\ group'[Life].status = "Completed"
  BY <1>3, NoneAssumption DEF Ended, Exists
<1>5. group'[Life].creator = group[Life].creator
  BY <1>1, <1>2 DEF MembershipInv, TypeOK, GroupConfig, Settle, Exists
<1>6. WalletKept(Victim)
  <2>1. Victim \in ScriptMembers /\ ~Exists(record[<<Life, Victim>>])
    BY ScriptWallets DEF Owners
  <2>2. tokens'[Ata(Victim)] = tokens[Ata(Victim)]
    BY <1>2, <2>1, NotPaid
  <2>3. /\ gifts[Victim] \in Nat /\ gifts'[Victim] = gifts[Victim] + 0
        /\ tokens[Ata(Victim)] \in Nat /\ tokens'[Ata(Victim)] = tokens[Ata(Victim)] + 0
    BY <2>1, <2>2, Apart, TokensNat DEF GiftsOK
  <2> QED
    BY <2>3 DEF WalletKept
<1>7. NoneJoins
  BY <1>2, NoneJoined DEF Settle
<1> QED
  BY <1>2, <1>4, <1>5, <1>6, <1>7 DEF LifePaid, Ours

LEMMA GroupDistributed ==
    ASSUME MembershipInv, MembershipInv', Owners, GiftsOK, UNCHANGED gifts,
           NEW g \in {Bait, Life}, NEW pairs, Lists(g, pairs), Distribute(g, pairs)
    PROVE  Quiet \/ LifeElsewhere \/ LifePaid
<1>1. CASE g = Life /\ Ours
  BY <1>1, CyclePaid
<1>2. CASE g = Life => ~Ours
  <2>1. /\ Exists(group[g]) /\ SettlementChecks(g, pairs)
        /\ Settle(g, pairs, 0, "Completed")
    BY DEF Distribute
  <2> QED
    BY <1>2, <2>1, SettledElsewhere
<1> QED
  BY <1>1, <1>2

LEMMA GroupCancelled ==
    ASSUME MembershipInv, MembershipInv', Owners, GiftsOK, UNCHANGED gifts,
           NEW g \in {Bait, Life}, g = Life => ~Ours,
           NEW pairs, NEW mint_writable, Lists(g, pairs),
           EmergencyCancel(g, pairs, mint_writable)
    PROVE  Quiet \/ LifeElsewhere
<1>1. /\ Exists(group[g]) /\ SettlementChecks(g, pairs)
      /\ Settle(g, pairs, UnownedVaultBalance(g), "Cancelled")
  BY DEF EmergencyCancel, CancelChecks
<1> QED
  BY <1>1, SettledElsewhere

LEMMA CycleStarted ==
    ASSUME MembershipInv, GiftsOK, UNCHANGED gifts, NEW g \in {Bait, Life}, StartCycle(g)
    PROVE  /\ g = Bait => Quiet
           /\ g = Life /\ ~Ours => LifeElsewhere
           /\ g = Life /\ Ours => LifeStarted
<1>1. /\ g \in Groups /\ Life \in Groups /\ Bait # Life
      /\ Exists(group[g]) /\ UNCHANGED <<record, tokens>>
  BY ScriptAssumption DEF StartCycle
<1>2. WalletsKept /\ NoneJoins
  BY <1>1, NothingMoved, NoneJoined
<1>3. CASE g = Bait
  <2>1. group'[Life] = group[Life]
    BY <1>1, <1>3 DEF MembershipInv, TypeOK, StartCycle
  <2> QED
    BY <1>1, <1>2, <1>3, <2>1, LifeNotTouched DEF Quiet
<1>4. CASE g = Life
  <2>1. group[Life] \in GroupConfig /\ Started(Life)
    BY <1>1, <1>4, StartEffect DEF MembershipInv, TypeOK, Exists
  <2>2. /\ Exists(group'[Life]) /\ group'[Life].status = "Active"
        /\ group'[Life].deposit_amount = group[Life].deposit_amount
        /\ group'[Life].creator = group[Life].creator
    BY <2>1, NoneAssumption DEF Started, GroupConfig, Exists
  <2>3. ~Ours => ~Ours' /\ LifeOver
    BY <1>1, <1>4, <2>2 DEF Ours, LifeOver
  <2>4. Ours => Ours'
    BY <2>2 DEF Ours, Exists
  <2> QED
    BY <1>1, <1>2, <1>4, <2>2, <2>3, <2>4 DEF LifeElsewhere, LifeStarted
<1> QED
  BY <1>3, <1>4

------------------------------------------------------------------------------

LEMMA StrangerTakesPart ==
    ASSUME MembershipInv, GiftsOK, UNCHANGED gifts,
           NEW s \in Strangers, NEW g \in {Bait, Life}, TakesPart(s, g)
    PROVE  Quiet
<1>1. PICK account \in AccountsOf(s) :
        \/ \E authority \in Keys \cup {None}, expected \in {None, Joins(g, s)} :
             JoinGroup(g, s, s, account, authority, FALSE, Terms(group[g]), expected)
        \/ LeaveGroup(g, s, account) \/ Deposit(g, s, account)
        \/ DonateTokens(g, account)
  BY DEF TakesPart
<1> QED
  BY <1>1, StrangerJoins, StrangerLeaves, StrangerDeposits, StrangerDonates

LEMMA StrangerRunsGroup ==
    ASSUME MembershipInv, MembershipInv', Owners, GiftsOK, UNCHANGED gifts,
           NEW s \in Strangers, NEW g \in {Bait, Life}, RunsGroup(s, g)
    PROVE  Quiet \/ LifeElsewhere
<1>1. s # Payer
  BY ScriptWallets
<1>2. ASSUME NEW mint, NEW amount, NEW frequency, NEW periods, NEW size,
             CreateGroup(g, s, s, mint, amount, frequency, periods, size)
      PROVE  Quiet \/ LifeElsewhere
  BY <1>1, <1>2, CodeTaken
<1>3. ASSUME group[g].creator = s
      PROVE  g = Life => ~Ours
  BY <1>1, <1>3 DEF Ours
<1>4. ASSUME NEW key, SetJoinAuthority(g, key)
      PROVE  Quiet
  BY <1>4, NothingDone DEF SetJoinAuthority
<1>5. ASSUME StartCycle(g), group[g].creator = s
      PROVE  Quiet \/ LifeElsewhere
  BY <1>3, <1>5, CycleStarted
<1>6. ASSUME NEW pairs \in MemberLists(g), NEW mint_writable, group[g].creator = s,
             EmergencyCancel(g, pairs, mint_writable)
      PROVE  Quiet \/ LifeElsewhere
  BY <1>3, <1>6, MemberListsList, GroupCancelled
<1> QED
  BY <1>2, <1>4, <1>5, <1>6 DEF RunsGroup

LEMMA SomeoneCranks ==
    ASSUME MembershipInv, MembershipInv', Owners, GiftsOK, UNCHANGED gifts,
           NEW g \in {Bait, Life}, Cranks(g)
    PROVE  Quiet \/ LifeElsewhere \/ LifePaid
<1>1. ASSUME NEW pairs \in MemberLists(g), Distribute(g, pairs)
      PROVE  Quiet \/ LifeElsewhere \/ LifePaid
  BY <1>1, MemberListsList, GroupDistributed
<1>2. ASSUME NEW m \in Members, CloseJoinTally(g, m)
      PROVE  Quiet
  BY <1>2, NothingDone DEF CloseJoinTally
<1> QED
  BY <1>1, <1>2, RentRefunded, RecordRetired, CodeFreed DEF Cranks

LEMMA StrangerDoes ==
    ASSUME MembershipInv, MembershipInv', Owners, GiftsOK, StrangerStep
    PROVE  /\ Quiet \/ LifeElsewhere \/ LifePaid
           /\ GiftsOK'
<1>1. CASE \E s \in Strangers, m \in ScriptMembers : Gives(s, m)
  BY <1>1, GiftMade
<1>2. CASE /\ \E s \in Strangers, g \in {Bait, Life} :
                TakesPart(s, g) \/ RunsGroup(s, g) \/ Cranks(g)
           /\ UNCHANGED gifts
  BY <1>2, StrangerTakesPart, StrangerRunsGroup, SomeoneCranks DEF GiftsOK
<1> QED
  BY <1>1, <1>2 DEF StrangerStep

LEMMA StrangerProgramStep == StrangerStep => ProgramStep
<1>1. ASSUME NEW s \in Strangers, NEW g \in {Bait, Life}, TakesPart(s, g)
      PROVE  ProgramStep
  <2>1. PICK account \in AccountsOf(s) :
          \/ \E authority, expected :
               JoinGroup(g, s, s, account, authority, FALSE, Terms(group[g]), expected)
          \/ LeaveGroup(g, s, account) \/ Deposit(g, s, account)
          \/ DonateTokens(g, account)
    BY <1>1 DEF TakesPart
  <2>2. /\ s \in Members \cap Payers /\ account \in TokenAccounts /\ g \in Groups
    BY ScriptWallets, ScriptAssumption DEF AccountsOf
  <2> QED
    BY <2>1, <2>2 DEF ProgramStep, ProgramCall, OutsideStep
<1>2. ASSUME NEW s \in Strangers, NEW g \in {Bait, Life}, RunsGroup(s, g)
      PROVE  ProgramStep
  <2>1. s \in Creators \cap Payers /\ Paces \subseteq Frequencies
    BY ScriptWallets, ScriptAssumption
  <2> QED
    BY <1>2, <2>1 DEF RunsGroup, ProgramStep, ProgramCall
<1>3. ASSUME NEW g \in {Bait, Life}, Cranks(g)
      PROVE  ProgramStep
  BY <1>3 DEF Cranks, ProgramStep, ProgramCall
<1>4. ASSUME NEW s \in Strangers, NEW m \in ScriptMembers, Gives(s, m)
      PROVE  ProgramStep
  BY <1>4 DEF ProgramStep, OutsideStep
<1> QED
  BY <1>1, <1>2, <1>3, <1>4 DEF StrangerStep

------------------------------------------------------------------------------
(* Where the script is, what the second group and the crew's wallets must  *)
(* be.  Once its cycle has ended a stranger may settle the script's group, *)
(* close its records, free the code and take it, all between two calls of  *)
(* the script, and then nothing is known of the wallets.  But the records  *)
(* of the crew are in the script's group only (Owners), so its own         *)
(* distribute is refused after that, and only a rehearsal whose own        *)
(* distribute paid the crew can compare the payouts.                       *)

\* What member i has paid when n of the crew have joined and k deposited again.
Owes(i, n, k) == (IF i <= n THEN Low ELSE 0) + (IF i <= k THEN Low ELSE 0)

Out(n, k) ==
    \A i \in Three : tokens[Wallet(i)] = TokenFunds + gifts[Crew[i]] - Owes(i, n, k)

LifeNotYet == ~Ours /\ Out(0, 0)

LifeOpen(n) ==
    /\ Ours /\ group[Life].status = "Open" /\ group[Life].deposit_amount = Low
    /\ Out(n, 0)

LifeActive(k) ==
    /\ Ours /\ group[Life].status = "Active" /\ group[Life].deposit_amount = Low
    /\ Out(3, k)

LifeRuns(k) == LifeOver \/ LifeActive(k)

BeforeRight ==
    \A i \in Three :
        before[i] \in TokenFunds - Owes(i, 3, 2)
                        .. TokenFunds + gifts[Crew[i]] - Owes(i, 3, 2)

AllBack ==
    \A i \in Three : tokens[Wallet(i)] \in TokenFunds .. TokenFunds + gifts[Crew[i]]

VictimWhole == tokens[Ata(Victim)] = TokenFunds + gifts[Victim]

BaitSteps ==
    {"bait_create", "bait_terms", "bait_cancel", "bait_close", "bait_switch",
     "bait_join", "bait_victim"}

Where ==
    \/ step \in BaitSteps \cup {"life_create"} /\ served = 0 /\ LifeNotYet
    \/ step = "life_terms" /\ served = 0 /\ LifeOpen(0)
    \/ step = "life_join" /\ served \in 0..2 /\ LifeOpen(served)
    \/ step = "life_start" /\ served = 0 /\ LifeOpen(3)
    \/ step \in {"life_read_start", "wait_period"} /\ served = 0 /\ LifeRuns(0)
    \/ step = "life_deposit" /\ served \in 0..1 /\ LifeRuns(served)
    \/ step = "wait_end" /\ LifeRuns(2)
    \/ step = "life_distribute" /\ (LifeOver \/ (LifeActive(2) /\ BeforeRight))
    \/ step = "life_payouts" /\ LifeOver /\ BeforeRight
    \/ step \in {"life_vault", "end"} /\ LifeOver /\ AllBack

RehearsalInv ==
    /\ MembershipInv /\ Owners /\ GiftsOK /\ VictimWhole
    /\ status = "running" => Where
    /\ status = "passed" => LifeOver /\ AllBack

LEMMA Amounts ==
    /\ Low \in Nat /\ TokenFunds \in Nat
    /\ \A i, n, k : Owes(i, n, k) \in Nat
<1>1. Low \in DepositAmounts
  BY ScriptAssumption
<1>2. Low \in Nat /\ TokenFunds \in Nat
  BY <1>1, AmountAssumption DEF U64
<1> QED
  BY <1>2 DEF Owes

LEMMA WholeStays ==
    ASSUME MembershipInv, GiftsOK, VictimWhole, WalletKept(Victim)
    PROVE  VictimWhole'
<1>1. PICK d \in Nat : /\ gifts'[Victim] = gifts[Victim] + d
                       /\ tokens'[Ata(Victim)] = tokens[Ata(Victim)] + d
  BY DEF WalletKept
<1>2. gifts[Victim] \in Nat
  BY ScriptWallets DEF GiftsOK
<1> QED
  BY <1>1, <1>2, Amounts DEF VictimWhole

LEMMA WalletsStay ==
    ASSUME MembershipInv, GiftsOK, WalletsKept, UNCHANGED before
    PROVE  /\ \A n, k : Out(n, k) => Out(n, k)'
           /\ BeforeRight => BeforeRight'
           /\ AllBack => AllBack'
<1>1. ASSUME NEW i \in Three
      PROVE  \E d \in Nat : /\ gifts'[Crew[i]] = gifts[Crew[i]] + d
                            /\ tokens'[Wallet(i)] = tokens[Wallet(i)] + d
  BY ScriptWallets DEF WalletsKept, WalletKept, Wallet
<1>2. ASSUME NEW i \in Three
      PROVE  gifts[Crew[i]] \in Nat /\ tokens[Wallet(i)] \in Nat
  BY ScriptWallets, TokensNat DEF GiftsOK, Wallet
<1>3. ASSUME NEW n, NEW k, Out(n, k)
      PROVE  Out(n, k)'
  <2>1. ASSUME NEW i \in Three
        PROVE  tokens'[Wallet(i)] = TokenFunds + gifts'[Crew[i]] - Owes(i, n, k)
    <3>1. tokens[Wallet(i)] = TokenFunds + gifts[Crew[i]] - Owes(i, n, k)
      BY <1>3 DEF Out
    <3>2. Owes(i, n, k) \in Nat
      BY Amounts
    <3> QED
      BY <1>1, <1>2, <3>1, <3>2, Amounts
  <2> QED
    BY <2>1 DEF Out, Owes, Wallet
<1>4. ASSUME BeforeRight
      PROVE  BeforeRight'
  <2>1. ASSUME NEW i \in Three
        PROVE  before'[i] \in TokenFunds - Owes(i, 3, 2)
                                .. TokenFunds + gifts'[Crew[i]] - Owes(i, 3, 2)
    <3>1. before[i] \in TokenFunds - Owes(i, 3, 2)
                          .. TokenFunds + gifts[Crew[i]] - Owes(i, 3, 2)
      BY <1>4 DEF BeforeRight
    <3>2. Owes(i, 3, 2) \in Nat
      BY Amounts
    <3> QED
      BY <1>1, <1>2, <3>1, <3>2, Amounts
  <2> QED
    BY <2>1 DEF BeforeRight, Owes
<1>5. ASSUME AllBack
      PROVE  AllBack'
  <2>1. ASSUME NEW i \in Three
        PROVE  tokens'[Wallet(i)] \in TokenFunds .. TokenFunds + gifts'[Crew[i]]
    <3>1. tokens[Wallet(i)] \in TokenFunds .. TokenFunds + gifts[Crew[i]]
      BY <1>5 DEF AllBack
    <3> QED
      BY <1>1, <1>2, <3>1, Amounts
  <2> QED
    BY <2>1 DEF AllBack, Wallet
<1> QED
  BY <1>3, <1>4, <1>5

LEMMA LifeStays ==
    ASSUME MembershipInv, GiftsOK, Quiet, UNCHANGED before
    PROVE  /\ LifeNotYet => LifeNotYet'
           /\ \A n : LifeOpen(n) => LifeOpen(n)'
           /\ \A k : LifeActive(k) => LifeActive(k)'
           /\ LifeOver => LifeOver'
<1>1. \A n, k : Out(n, k) => Out(n, k)'
  BY WalletsStay DEF Quiet
<1>2. /\ Ours <=> Ours'
      /\ Ours => /\ group'[Life].status = group[Life].status
                 /\ group'[Life].deposit_amount = group[Life].deposit_amount
  BY DEF Quiet, LifeKept, Ours, Exists
<1> QED
  BY <1>1, <1>2 DEF LifeNotYet, LifeOpen, LifeActive, LifeOver, Settled

\* Where is what it was as long as nobody touches the script's second group.
LEMMA QuietWhere ==
    ASSUME MembershipInv, GiftsOK, Where, Quiet, UNCHANGED <<step, served, before>>
    PROVE  Where'
<1>1. BeforeRight => BeforeRight'
  BY WalletsStay DEF Quiet
<1>2. AllBack => AllBack'
  BY WalletsStay DEF Quiet
<1>3. CASE step = "life_join" /\ served \in 0..2 /\ LifeOpen(served)
  <2>1. LifeOpen(served)'
    <3>1. \A n : n = served => LifeOpen(n)'
      BY <1>3, LifeStays
    <3> QED
      BY <3>1 DEF LifeOpen, Out, Owes
  <2> QED
    BY <1>3, <2>1 DEF Where
<1>4. CASE step = "life_deposit" /\ served \in 0..1 /\ LifeRuns(served)
  <2>1. LifeRuns(served)'
    <3>1. LifeOver' \/ \A k : k = served => LifeActive(k)'
      BY <1>4, LifeStays DEF LifeRuns
    <3> QED
      BY <3>1 DEF LifeRuns, LifeActive, Out, Owes
  <2> QED
    BY <1>4, <2>1 DEF Where
<1>5. CASE step = "life_distribute" /\ (LifeOver \/ (LifeActive(2) /\ BeforeRight))
  <2>1. LifeOver' \/ (LifeActive(2)' /\ BeforeRight')
    BY <1>1, <1>5, LifeStays
  <2> QED
    BY <1>5, <2>1 DEF Where
<1>6. CASE \/ step = "life_terms" /\ served = 0 /\ LifeOpen(0)
           \/ step = "life_start" /\ served = 0 /\ LifeOpen(3)
  <2>1. (LifeOpen(0) => LifeOpen(0)') /\ (LifeOpen(3) => LifeOpen(3)')
    BY LifeStays
  <2> QED
    BY <1>6, <2>1 DEF Where
<1>7. CASE \/ step \in {"life_read_start", "wait_period"} /\ served = 0 /\ LifeRuns(0)
           \/ step = "wait_end" /\ LifeRuns(2)
  <2>1. (LifeRuns(0) => LifeRuns(0)') /\ (LifeRuns(2) => LifeRuns(2)')
    BY LifeStays DEF LifeRuns
  <2> QED
    BY <1>7, <2>1 DEF Where
<1>8. CASE \/ step \in BaitSteps \cup {"life_create"} /\ served = 0 /\ LifeNotYet
           \/ step = "life_payouts" /\ LifeOver /\ BeforeRight
           \/ step \in {"life_vault", "end"} /\ LifeOver /\ AllBack
  <2>1. (LifeNotYet => LifeNotYet') /\ (LifeOver => LifeOver')
    BY LifeStays
  <2> QED
    BY <1>1, <1>2, <1>8, <2>1 DEF Where
<1> QED
  BY <1>3, <1>4, <1>5, <1>6, <1>7, <1>8 DEF Where

\* Someone has another group at the code, or closes the script's settled one.
LEMMA ElsewhereWhere ==
    ASSUME MembershipInv, GiftsOK, Where, LifeElsewhere,
           UNCHANGED <<step, served, before>>
    PROVE  Where'
<1>1. ~Ours' /\ LifeOver'
  BY DEF LifeElsewhere, LifeOver
<1>2. /\ LifeOver /\ (BeforeRight => BeforeRight') /\ (AllBack => AllBack')
      /\ Out(0, 0) => Out(0, 0)'
  BY WalletsStay DEF LifeElsewhere
<1>3. ~LifeOpen(0) /\ ~LifeOpen(3) /\ (step = "life_join" => ~LifeOpen(served))
  BY <1>2 DEF LifeOpen, LifeOver, Settled
<1>4. LifeNotYet => LifeNotYet'
  BY <1>1, <1>2 DEF LifeNotYet
<1>5. /\ \A k : LifeRuns(k)'
      /\ LifeRuns(served)'
  BY <1>1 DEF LifeRuns
<1> QED
  BY <1>1, <1>2, <1>3, <1>4, <1>5 DEF Where

\* A stranger settles the script's group.
LEMMA PaidWhere ==
    ASSUME Where, LifePaid, UNCHANGED <<step, served, before>>
    PROVE  Where'
<1>1. LifeOver'
  BY DEF LifePaid, LifeOver, Settled
<1>2. ~LifeNotYet /\ ~LifeOver /\ \A n : ~LifeOpen(n)
  BY DEF LifePaid, LifeNotYet, LifeOver, LifeOpen, Settled
<1>3. \/ step \in {"life_read_start", "wait_period"} /\ served = 0
      \/ step = "life_deposit" /\ served \in 0..1
      \/ step \in {"wait_end", "life_distribute"}
  BY <1>2 DEF Where
<1>4. (\A k : LifeRuns(k)') /\ LifeRuns(served)'
  BY <1>1 DEF LifeRuns
<1> QED
  BY <1>1, <1>3, <1>4 DEF Where

------------------------------------------------------------------------------
(* The calls of the script                                                 *)

\* Of the crew, it calls for the one after those already served.
LEMMA ServedBounds ==
    ASSUME Where
    PROVE  /\ step = "life_join" => served \in 0..2
           /\ step = "life_deposit" => served \in 0..1
           /\ step \in {"life_join", "life_deposit"} => served + 1 \in Three
<1>1. step = "life_join" => served \in 0..2
  BY DEF Where, BaitSteps
<1>2. step = "life_deposit" => served \in 0..1
  BY DEF Where, BaitSteps
<1>3. \A n \in 0..2 : n + 1 \in Three
  BY DEF Three
<1>4. \A n \in 0..1 : n + 1 \in Three
  BY DEF Three
<1> QED
  BY <1>1, <1>2, <1>3, <1>4

LEMMA ScriptProgramStep ==
    ASSUME Where, Script
    PROVE  ProgramStep
<1>1. ASSUME NEW g \in {Bait, Life}, NEW deposit \in {Low, High}, createGroup(g, deposit)
      PROVE  ProgramStep
  <2>1. /\ Payer \in Creators \cap Payers /\ "usdc" \in Mints /\ 3 \in Frequencies
        /\ 2 \in PeriodCounts /\ 5 \in GroupSizes /\ deposit \in DepositAmounts
    BY ScriptAssumption
  <2> QED
    BY <1>1, <2>1 DEF createGroup, ProgramStep, ProgramCall
<1>2. CASE BaitAndSwitch
  <2>1. \/ \E deposit \in {Low, High} : createGroup(Bait, deposit)
        \/ emergencyCancel(Bait) \/ closeGroup(Bait)
        \/ UNCHANGED vars
    BY <1>2 DEF BaitAndSwitch, Try, check, fetch
  <2> QED
    BY <1>1, <2>1 DEF emergencyCancel, closeGroup, ProgramStep, ProgramCall
<1>3. CASE Lifecycle /\ step \in {"life_join", "life_deposit"}
  <2>1. served + 1 \in Three
    BY <1>3, ServedBounds
  <2>2. \/ join(Crew[served + 1], Life)
        \/ Deposit(Life, Crew[served + 1], Ata(Crew[served + 1]))
        \/ UNCHANGED vars
    BY <1>3 DEF Lifecycle, At, ForEach, Try, Member
  <2>3. /\ Crew[served + 1] \in Members \cap Payers
        /\ Ata(Crew[served + 1]) \in TokenAccounts
    BY <2>1, ScriptWallets
  <2> QED
    BY <2>2, <2>3 DEF join, ProgramStep, ProgramCall
<1>4. CASE Lifecycle /\ step \notin {"life_join", "life_deposit"}
  <2>1. \/ createGroup(Life, Low) \/ startCycle(Life) \/ Distribute(Life, CrewPairs)
        \/ UNCHANGED vars
    BY <1>4 DEF Lifecycle, At, Try, check, fetch
  <2> QED
    BY <1>1, <2>1 DEF startCycle, ProgramStep, ProgramCall
<1>5. CASE Pass \/ RpcFails
  BY <1>5 DEF Pass, RpcFails, ProgramStep
<1> QED
  BY <1>2, <1>3, <1>4, <1>5 DEF Script

LEMMA CrewJoined ==
    ASSUME MembershipInv, Owners, Ours, NEW i \in Three, join(Crew[i], Life)
    PROVE  Pays(i) /\ Owners'
<1>1. /\ Life \in Groups /\ Crew[i] \in Members \cap Payers
      /\ Crew[i] \in ScriptMembers /\ Crew[i] # Victim /\ Wallet(i) \in TokenAccounts
  BY ScriptAssumption, ScriptWallets DEF Wallet
<1>2. JoinGroup(Life, Crew[i], Crew[i], Wallet(i), None, FALSE, terms, None)
  BY DEF join, Wallet
<1>3. /\ Exists(group[Life]) /\ group[Life].current_members < group[Life].max_members
      /\ group' = [group EXCEPT ![Life].current_members = @ + 1]
      /\ PayIn(Life, Wallet(i), group[Life].deposit_amount)
  BY <1>2 DEF JoinGroup
<1>4. LifeKept
  <2>1. group[Life] \in GroupConfig
    BY <1>1, <1>3 DEF MembershipInv, TypeOK, Exists
  <2>2. group[Life].current_members + 1 \in 0..10
    BY <1>3, <2>1 DEF GroupConfig
  <2>3. group' = [group EXCEPT ![Life].current_members = group[Life].current_members + 1]
    BY <1>1, <1>3 DEF MembershipInv, TypeOK
  <2> QED
    BY <1>1, <1>3, <2>2, <2>3, LifeFieldsKept DEF MembershipInv
<1>5. Pays(i)
  <2>1. /\ tokens'[Wallet(i)] = tokens[Wallet(i)] - group[Life].deposit_amount
        /\ \A a \in TokenAccounts \ {Wallet(i)} : tokens'[a] = tokens[a]
    BY <1>1, <1>3, PaidInto
  <2>2. \A m \in ScriptMembers \ {Crew[i]} :
          Ata(m) \in TokenAccounts /\ Ata(m) # Wallet(i)
    BY <1>1, Apart DEF Wallet
  <2> QED
    BY <1>4, <2>1, <2>2 DEF Pays
<1>6. Ours'
  BY <1>4 DEF Ours, LifeKept, Exists
<1>7. \A p \in Pdas : p # <<Life, Crew[i]>> => record'[p] = record[p]
  BY <1>1, <1>2, JoinRecord DEF MembershipInv
<1>8. ASSUME NEW g \in {Bait, Life}, NEW m \in ScriptMembers, Exists(record'[<<g, m>>])
      PROVE  g = Life /\ m # Victim
  <2>1. CASE <<g, m>> = <<Life, Crew[i]>>
    BY <1>1, <2>1
  <2>2. CASE <<g, m>> # <<Life, Crew[i]>>
    BY <1>7, <1>8, <2>2, Apart DEF Owners
  <2> QED
    BY <2>1, <2>2
<1> QED
  BY <1>5, <1>6, <1>8 DEF Owners, Exists

\* Only while it has a record, which is in the script's own group.
LEMMA CrewDeposited ==
    ASSUME MembershipInv, Owners, NEW i \in Three,
           Deposit(Life, Crew[i], Ata(Crew[i]))
    PROVE  Pays(i) /\ Owners' /\ Ours /\ group[Life].status = "Active"
<1>1. /\ Life \in Groups /\ Crew[i] \in Members /\ Crew[i] \in ScriptMembers
      /\ Wallet(i) \in TokenAccounts
  BY ScriptAssumption, ScriptWallets DEF Wallet
<1>2. Deposit(Life, Crew[i], Wallet(i))
  BY DEF Wallet
<1>3. /\ UNCHANGED group /\ group[Life].status = "Active"
      /\ PayIn(Life, Wallet(i), group[Life].deposit_amount)
      /\ Exists(record[<<Life, Crew[i]>>])
  BY <1>2 DEF Deposit
<1>4. Ours
  BY <1>1, <1>3 DEF Owners
<1>5. Pays(i)
  <2>1. /\ tokens'[Wallet(i)] = tokens[Wallet(i)] - group[Life].deposit_amount
        /\ \A a \in TokenAccounts \ {Wallet(i)} : tokens'[a] = tokens[a]
    BY <1>1, <1>3, PaidInto
  <2>2. \A m \in ScriptMembers \ {Crew[i]} :
          Ata(m) \in TokenAccounts /\ Ata(m) # Wallet(i)
    BY <1>1, Apart DEF Wallet
  <2> QED
    BY <1>3, <2>1, <2>2, LifeNotTouched DEF Pays
<1>6. \A p \in Pdas : p # <<Life, Crew[i]>> => record'[p] = record[p]
  BY <1>1, <1>2, DepositNext DEF MembershipInv
<1>7. NoneJoins
  <2> SUFFICES ASSUME NEW g \in {Bait, Life}, NEW m \in ScriptMembers,
                      Exists(record'[<<g, m>>])
               PROVE  Exists(record[<<g, m>>])
    BY DEF NoneJoins
  <2>1. CASE <<g, m>> = <<Life, Crew[i]>>
    BY <1>3, <2>1
  <2>2. CASE <<g, m>> # <<Life, Crew[i]>>
    BY <1>6, <2>2, Apart
  <2> QED
    BY <2>1, <2>2
<1>8. Owners'
  <2>1. Ours'
    BY <1>3, <1>4 DEF Ours
  <2> QED
    BY <1>7, <2>1 DEF NoneJoins, Owners, Exists
<1> QED
  BY <1>3, <1>4, <1>5, <1>8

LEMMA BaitWhere ==
    ASSUME MembershipInv, MembershipInv', Owners, GiftsOK, VictimWhole, UNCHANGED gifts,
           Where, BaitAndSwitch
    PROVE  /\ VictimWhole' /\ Owners'
           /\ status' # "passed"
           /\ status' = "running" => Where'
<1>1. /\ step \in BaitSteps /\ status = "running" /\ UNCHANGED <<served, before>>
      /\ status' # "passed"
      /\ status' = "running" => step' \in BaitSteps \cup {"life_create"}
  BY DEF BaitAndSwitch, At, Try, check, fetch, Goes, Fails, BaitSteps
<1>2. served = 0 /\ LifeNotYet
  BY <1>1 DEF Where, BaitSteps
<1>3. Quiet \/ LifeElsewhere
  <2>1. \/ \E deposit \in {Low, High} : createGroup(Bait, deposit)
        \/ emergencyCancel(Bait) \/ closeGroup(Bait)
        \/ UNCHANGED vars
    BY DEF BaitAndSwitch, Try, check, fetch
  <2>2. ASSUME NEW deposit, createGroup(Bait, deposit)
        PROVE  Quiet
    BY <2>2, CodeTaken DEF createGroup
  <2>3. ASSUME emergencyCancel(Bait)
        PROVE  Quiet \/ LifeElsewhere
    <3>1. Lists(Bait, <<>>) /\ Bait # Life
      BY ScriptAssumption DEF Lists
    <3> QED
      BY <2>3, <3>1, GroupCancelled DEF emergencyCancel
  <2>4. ASSUME closeGroup(Bait)
        PROVE  Quiet
    BY <2>4, CodeFreed DEF closeGroup
  <2> QED
    BY <2>1, <2>2, <2>3, <2>4, NothingDone DEF vars
<1>4. WalletsKept /\ ~Ours'
  BY <1>2, <1>3 DEF Quiet, LifeElsewhere, LifeKept, LifeNotYet, Ours, Exists
<1>5. LifeNotYet'
  BY <1>1, <1>2, <1>4, WalletsStay DEF LifeNotYet
<1>6. VictimWhole'
  BY <1>4, ScriptWallets, WholeStays DEF WalletsKept
<1>7. Owners'
  BY <1>3, OwnersKept
<1> QED
  BY <1>1, <1>2, <1>5, <1>6, <1>7 DEF Where

LEMMA CreateWhere ==
    ASSUME MembershipInv, MembershipInv', Owners, GiftsOK, VictimWhole,
           UNCHANGED <<gifts, before>>, LifeNotYet, createGroup(Life, Low)
    PROVE  VictimWhole' /\ Owners' /\ LifeOpen(0)'
<1>1. LifeOpened /\ group'[Life].deposit_amount = Low
  BY CodeTaken DEF createGroup
<1>2. Out(0, 0)' /\ VictimWhole'
  BY <1>1, WalletsStay, WholeStays, ScriptWallets DEF LifeNotYet, LifeOpened, WalletsKept
<1> QED
  BY <1>1, <1>2, OwnersOpened DEF LifeOpened, LifeOpen

\* One deposit more has been paid, by member i.
LEMMA OwesMore ==
    ASSUME MembershipInv, GiftsOK, UNCHANGED gifts,
           NEW i \in Three, Pays(i), group[Life].deposit_amount = Low,
           NEW n \in 0..3, NEW k \in 0..3, NEW n2 \in 0..3, NEW k2 \in 0..3, Out(n, k),
           \/ i = n + 1 /\ n2 = n + 1 /\ k2 = k
           \/ i = k + 1 /\ n2 = n /\ k2 = k + 1
    PROVE  Out(n2, k2)'
<1>1. Low \in Nat
  BY Amounts
<1>2. ASSUME NEW j \in Three
      PROVE  tokens'[Wallet(j)] = TokenFunds + gifts[Crew[j]] - Owes(j, n2, k2)
  <2>1. tokens[Wallet(j)] = TokenFunds + gifts[Crew[j]] - Owes(j, n, k)
    BY DEF Out
  <2>2. gifts[Crew[j]] \in Nat /\ Owes(j, n, k) \in Nat
    BY ScriptWallets, Amounts DEF GiftsOK
  <2>3. CASE j = i
    <3>1. Owes(j, n2, k2) = Owes(j, n, k) + Low
      BY <1>1, <2>3 DEF Owes, Three
    <3>2. tokens'[Wallet(j)] = tokens[Wallet(j)] - Low
      BY <2>3 DEF Pays
    <3> QED
      BY <2>1, <2>2, <3>1, <3>2, Amounts
  <2>4. CASE j # i
    <3>1. Owes(j, n2, k2) = Owes(j, n, k)
      BY <1>1, <2>4 DEF Owes, Three
    <3>2. tokens'[Wallet(j)] = tokens[Wallet(j)]
      BY <2>4, ScriptWallets DEF Pays, Wallet
    <3> QED
      BY <2>1, <3>1, <3>2
  <2> QED
    BY <2>3, <2>4
<1> QED
  BY <1>2 DEF Out, Owes, Wallet

LEMMA VictimUnpaid ==
    ASSUME VictimWhole, NEW i \in Three, Pays(i), UNCHANGED gifts
    PROVE  VictimWhole'
BY ScriptWallets DEF VictimWhole, Pays

LEMMA JoinWhere ==
    ASSUME MembershipInv, Owners, GiftsOK, VictimWhole, UNCHANGED gifts,
           NEW n \in 0..2, LifeOpen(n), join(Crew[n + 1], Life)
    PROVE  VictimWhole' /\ Owners' /\ \A n2 \in 1..3 : n2 = n + 1 => LifeOpen(n2)'
<1> DEFINE i == n + 1
<1>1. i \in Three
  BY DEF Three
<1>2. Pays(i) /\ Owners' /\ VictimWhole'
  BY <1>1, CrewJoined, VictimUnpaid DEF LifeOpen
<1>3. ASSUME NEW n2 \in 1..3, n2 = n + 1
      PROVE  LifeOpen(n2)'
  <2>1. Out(n2, 0)'
    BY <1>1, <1>2, <1>3, OwesMore DEF LifeOpen
  <2>2. /\ Ours' /\ group'[Life].status = "Open"
        /\ group'[Life].deposit_amount = Low
    BY <1>2 DEF Pays, LifeKept, LifeOpen, Ours, Exists
  <2> QED
    BY <2>1, <2>2 DEF LifeOpen
<1> QED
  BY <1>2, <1>3

LEMMA StartWhere ==
    ASSUME MembershipInv, MembershipInv', Owners, GiftsOK, VictimWhole,
           UNCHANGED <<gifts, before>>, LifeOpen(3), startCycle(Life)
    PROVE  VictimWhole' /\ Owners' /\ LifeRuns(0)'
<1>1. LifeStarted
  BY CycleStarted DEF startCycle, LifeOpen
<1>2. Out(3, 0)' /\ VictimWhole'
  BY <1>1, WalletsStay, WholeStays, ScriptWallets DEF LifeOpen, LifeStarted, WalletsKept
<1>3. Owners'
  BY <1>1, OwnersKept
<1> QED
  BY <1>1, <1>2, <1>3 DEF LifeStarted, LifeOpen, LifeRuns, LifeActive

LEMMA DepositWhere ==
    ASSUME MembershipInv, Owners, GiftsOK, VictimWhole, UNCHANGED gifts,
           NEW k \in 0..1, LifeRuns(k), Deposit(Life, Crew[k + 1], Ata(Crew[k + 1]))
    PROVE  VictimWhole' /\ Owners' /\ \A k2 \in 1..2 : k2 = k + 1 => LifeRuns(k2)'
<1> DEFINE i == k + 1
<1>1. i \in Three
  BY DEF Three
<1>2. Pays(i) /\ Owners' /\ VictimWhole' /\ Ours /\ group[Life].status = "Active"
  BY <1>1, CrewDeposited, VictimUnpaid
<1>3. LifeActive(k)
  BY <1>2 DEF LifeRuns, LifeOver, Settled
<1>4. ASSUME NEW k2 \in 1..2, k2 = k + 1
      PROVE  LifeRuns(k2)'
  <2>1. Out(3, k2)'
    BY <1>1, <1>2, <1>3, <1>4, OwesMore DEF LifeActive
  <2>2. /\ Ours' /\ group'[Life].status = "Active"
        /\ group'[Life].deposit_amount = Low
    BY <1>2, <1>3 DEF Pays, LifeKept, LifeActive, Ours, Exists
  <2> QED
    BY <2>1, <2>2 DEF LifeRuns, LifeActive
<1> QED
  BY <1>2, <1>4

\* Its own distribute pays the crew out of its own group, or is refused.
LEMMA DistributeWhere ==
    ASSUME MembershipInv, MembershipInv', Owners, GiftsOK, VictimWhole,
           UNCHANGED <<gifts, before>>, LifeOver \/ (LifeActive(2) /\ BeforeRight),
           Distribute(Life, CrewPairs)
    PROVE  VictimWhole' /\ Owners' /\ LifeOver' /\ BeforeRight'
<1>1. Lists(Life, CrewPairs)
  BY DEF Lists, CrewPairs
<1>2. Ours /\ group[Life].status = "Active"
  <2>1. 1 \in DOMAIN CrewPairs /\ CrewPairs[1].record = <<Life, Crew[1]>>
    BY ScriptWallets DEF CrewPairs, Three
  <2>2. /\ group[Life].status = "Active"
        /\ Exists(record[<<Life, Crew[1]>>])
    BY <2>1 DEF Distribute, SettlementChecks, ValidPairs
  <2>3. Crew[1] \in ScriptMembers
    BY ScriptWallets DEF Three
  <2> QED
    BY <2>2, <2>3 DEF Owners
<1>3. BeforeRight
  BY <1>2 DEF LifeOver, Settled
<1>4. LifePaid
  BY <1>1, <1>2, CyclePaid
<1>5. VictimWhole' /\ Owners'
  BY <1>4, WholeStays, OwnersKept DEF LifePaid
<1>6. LifeOver'
  BY <1>4 DEF LifePaid, LifeOver, Settled
<1>7. BeforeRight'
  BY <1>3 DEF BeforeRight, Owes
<1> QED
  BY <1>5, <1>6, <1>7

\* The payouts are right only if every wallet has what it had at first.
LEMMA PayoutsWhere ==
    ASSUME GiftsOK, BeforeRight, PayoutsRight
    PROVE  AllBack
<1>1. \A i \in Three : tokens[Wallet(i)] = before[i] + (IF i = 3 THEN Low ELSE 2 * Low)
  BY ScriptWallets DEF PayoutsRight, CrewTokens, Wallet
<1>2. Low \in Nat /\ TokenFunds \in Nat
  BY Amounts
<1>3. ASSUME NEW i \in Three
      PROVE  tokens[Wallet(i)] \in TokenFunds .. TokenFunds + gifts[Crew[i]]
  <2>1. before[i] \in TokenFunds - Owes(i, 3, 2)
                        .. TokenFunds + gifts[Crew[i]] - Owes(i, 3, 2)
    BY DEF BeforeRight
  <2>2. gifts[Crew[i]] \in Nat
    BY ScriptWallets DEF GiftsOK
  <2>3. CASE i = 3
    <3>1. tokens[Wallet(i)] = before[i] + Low
      BY <1>1, <2>3
    <3>2. Owes(i, 3, 2) = Low
      BY <1>2, <2>3 DEF Owes
    <3> QED
      BY <1>2, <2>1, <2>2, <3>1, <3>2
  <2>4. CASE i # 3
    <3>1. tokens[Wallet(i)] = before[i] + 2 * Low
      BY <1>1, <2>4
    <3>2. Owes(i, 3, 2) = 2 * Low
      BY <1>2, <2>4 DEF Owes, Three
    <3> QED
      BY <1>2, <2>1, <2>2, <3>1, <3>2
  <2> QED
    BY <2>3, <2>4
<1> QED
  BY <1>3 DEF AllBack

\* A step of the script that calls nothing.
LEMMA IdleWhere ==
    ASSUME MembershipInv, MembershipInv', Owners, GiftsOK, VictimWhole,
           UNCHANGED <<vars, gifts>>
    PROVE  /\ VictimWhole' /\ Owners'
           /\ \A n : LifeOpen(n) => LifeOpen(n)'
           /\ \A k : LifeRuns(k) => LifeRuns(k)'
           /\ LifeOver => LifeOver'
           /\ \A n, k : Out(n, k) => Out(n, k)'
           /\ AllBack => AllBack'
<1>1. UNCHANGED <<group, record, tokens, gifts>>
  BY DEF vars
<1>2. Quiet
  BY <1>1, NothingDone
<1>3. VictimWhole' /\ Owners'
  BY <1>2, WholeStays, OwnersKept, ScriptWallets DEF Quiet, WalletsKept
<1>4. \A n, k : Out(n, k) => Out(n, k)'
  BY <1>1 DEF Out, Owes, Wallet
<1>5. AllBack => AllBack'
  BY <1>1 DEF AllBack, Wallet
<1>6. Ours <=> Ours'
  BY <1>1 DEF Ours
<1>7. LifeOver => LifeOver'
  BY <1>1, <1>6 DEF LifeOver, Settled
<1>8. \A k : LifeActive(k) => LifeActive(k)'
  BY <1>1, <1>4, <1>6 DEF LifeActive
<1>9. \A n : LifeOpen(n) => LifeOpen(n)'
  BY <1>1, <1>4, <1>6 DEF LifeOpen
<1> QED
  BY <1>3, <1>4, <1>5, <1>7, <1>8, <1>9 DEF LifeRuns

\* The calls for one member after another.
LEMMA CrewWhere ==
    ASSUME MembershipInv, MembershipInv', Owners, GiftsOK, VictimWhole, UNCHANGED gifts,
           Where, status = "running",
           \/ /\ step = "life_join"
              /\ ForEach(join(Member, Life), 3, "life_join", "life_start")
           \/ /\ step = "life_deposit"
              /\ ForEach(Deposit(Life, Member, Ata(Member)), 2, "life_deposit", "wait_end")
    PROVE  VictimWhole' /\ Owners' /\ (status' = "running" => Where')
<1>1. CASE status' = "failed" /\ UNCHANGED vars
  BY <1>1, IdleWhere
<1>2. CASE /\ step = "life_join"
           /\ ForEach(join(Member, Life), 3, "life_join", "life_start")
           /\ join(Crew[served + 1], Life)
  <2>1. served \in 0..2 /\ LifeOpen(served)
    BY <1>2 DEF Where, BaitSteps
  <2>2. status' = "running" =>
          /\ step' = IF served + 1 = 3 THEN "life_start" ELSE "life_join"
          /\ served' = IF step' = "life_start" THEN 0 ELSE served + 1
    BY <1>2, Zenon DEF ForEach, Try, Goes, Fails
  <2>3. VictimWhole' /\ Owners' /\ \A n2 \in 1..3 : n2 = served + 1 => LifeOpen(n2)'
    BY <1>2, <2>1, JoinWhere
  <2>4. CASE status' = "running" /\ served = 2
    <3>1. step' = "life_start" /\ served' = 0
      BY <2>2, <2>4
    <3>2. LifeOpen(3)'
      BY <2>3, <2>4
    <3> QED
      BY <2>3, <3>1, <3>2 DEF Where
  <2>5. CASE status' = "running" /\ served \in 0..1
    <3>1. step' = "life_join" /\ served' = served + 1
      BY <2>2, <2>5
    <3>2. served + 1 \in 1..3 /\ served + 1 \in 0..2
      BY <2>5
    <3>3. PICK n2 \in 1..3 : n2 = served + 1
      BY <3>2
    <3>4. LifeOpen(n2)' /\ served' = n2
      BY <2>3, <3>1, <3>3
    <3>5. served' \in 0..2 /\ LifeOpen(served)'
      BY <3>1, <3>2, <3>4 DEF LifeOpen, Out, Owes
    <3> QED
      BY <2>3, <3>1, <3>5 DEF Where
  <2> QED
    BY <2>1, <2>3, <2>4, <2>5
<1>3. CASE /\ step = "life_deposit"
           /\ ForEach(Deposit(Life, Member, Ata(Member)), 2, "life_deposit", "wait_end")
           /\ Deposit(Life, Crew[served + 1], Ata(Crew[served + 1]))
  <2>1. served \in 0..1 /\ LifeRuns(served)
    BY <1>3 DEF Where, BaitSteps
  <2>2. status' = "running" =>
          /\ step' = IF served + 1 = 2 THEN "wait_end" ELSE "life_deposit"
          /\ served' = IF step' = "wait_end" THEN 0 ELSE served + 1
    BY <1>3, Zenon DEF ForEach, Try, Goes, Fails
  <2>3. VictimWhole' /\ Owners' /\ \A k2 \in 1..2 : k2 = served + 1 => LifeRuns(k2)'
    BY <1>3, <2>1, DepositWhere
  <2>4. CASE status' = "running" /\ served = 1
    <3>1. step' = "wait_end"
      BY <2>2, <2>4
    <3>2. LifeRuns(2)'
      BY <2>3, <2>4
    <3> QED
      BY <2>3, <3>1, <3>2 DEF Where
  <2>5. CASE status' = "running" /\ served = 0
    <3>1. step' = "life_deposit" /\ served' = 1
      BY <2>2, <2>5
    <3>2. LifeRuns(1)'
      BY <2>3, <2>5
    <3>3. LifeRuns(served)' /\ served' \in 0..1
      BY <3>1, <3>2 DEF LifeRuns, LifeActive, Out, Owes
    <3> QED
      BY <2>3, <3>1, <3>3 DEF Where
  <2> QED
    BY <2>1, <2>3, <2>4, <2>5
<1> QED
  BY <1>1, <1>2, <1>3 DEF ForEach, Try, Member, Fails

LEMMA LifecycleWhere ==
    ASSUME MembershipInv, MembershipInv', Owners, GiftsOK, VictimWhole, UNCHANGED gifts,
           Where, Lifecycle
    PROVE  /\ VictimWhole' /\ Owners'
           /\ status' # "passed"
           /\ status' = "running" => Where'
<1>1. status = "running" /\ status' # "passed"
  BY DEF Lifecycle, At, ForEach, Try, check, fetch, Goes, Fails
<1>2. CASE status' = "failed" /\ UNCHANGED vars
  BY <1>2, IdleWhere
<1>3. CASE /\ step = "life_create" /\ createGroup(Life, Low)
           /\ status' = "running" => step' = "life_terms"
           /\ UNCHANGED <<served, before>>
  <2>1. served = 0 /\ LifeNotYet
    BY <1>3 DEF Where, BaitSteps
  <2>2. VictimWhole' /\ Owners' /\ LifeOpen(0)'
    BY <1>3, <2>1, CreateWhere
  <2> QED
    BY <1>1, <1>3, <2>1, <2>2 DEF Where
<1>4. CASE /\ step = "life_terms" /\ step' = "life_join"
           /\ UNCHANGED <<vars, served>>
  <2>1. served = 0 /\ LifeOpen(0)
    BY <1>4 DEF Where, BaitSteps
  <2>2. VictimWhole' /\ Owners' /\ LifeOpen(0)' /\ served' = 0
    BY <1>4, <2>1, IdleWhere
  <2>3. LifeOpen(served)' /\ served' \in 0..2
    BY <2>2 DEF LifeOpen, Out, Owes
  <2> QED
    BY <1>1, <1>4, <2>2, <2>3 DEF Where
<1>5. CASE step \in {"life_join", "life_deposit"}
  BY <1>1, <1>5, CrewWhere DEF Lifecycle, At
<1>6. CASE /\ step = "life_start" /\ startCycle(Life)
           /\ status' = "running" => step' = "life_read_start"
           /\ UNCHANGED <<served, before>>
  <2>1. served = 0 /\ LifeOpen(3)
    BY <1>6 DEF Where, BaitSteps
  <2>2. VictimWhole' /\ Owners' /\ LifeRuns(0)'
    BY <1>6, <2>1, StartWhere
  <2> QED
    BY <1>1, <1>6, <2>1, <2>2 DEF Where
<1>7. CASE /\ step \in {"life_read_start", "wait_period"}
           /\ step' = (IF step = "wait_period" THEN "life_deposit" ELSE "wait_period")
           /\ UNCHANGED <<vars, served>>
  <2>1. served = 0 /\ LifeRuns(0)
    BY <1>7 DEF Where, BaitSteps
  <2>2. VictimWhole' /\ Owners' /\ LifeRuns(0)' /\ served' = 0
    BY <1>7, <2>1, IdleWhere
  <2>3. LifeRuns(served)' /\ served' \in 0..1
    BY <2>2 DEF LifeRuns, LifeActive, Out, Owes
  <2> QED
    BY <1>1, <1>7, <2>2, <2>3 DEF Where
<1>8. CASE /\ step = "wait_end" /\ before' = CrewTokens /\ step' = "life_distribute"
           /\ UNCHANGED vars
  <2>1. LifeRuns(2)
    BY <1>8 DEF Where, BaitSteps
  <2>2. /\ VictimWhole' /\ Owners' /\ LifeRuns(2)'
        /\ Out(3, 2) => Out(3, 2)'
    BY <1>8, <2>1, IdleWhere
  <2>3. Out(3, 2)' => BeforeRight'
    <3>1. \A i \in Three : before'[i] = tokens'[Wallet(i)]
      BY <1>8, ScriptWallets DEF CrewTokens, Wallet, vars
    <3>2. \A i \in Three : gifts'[Crew[i]] \in Nat
      BY ScriptWallets DEF GiftsOK
    <3>3. \A i \in Three : Owes(i, 3, 2) \in Nat
      BY Amounts
    <3> SUFFICES ASSUME Out(3, 2)', NEW i \in Three
                 PROVE  before'[i] \in TokenFunds - Owes(i, 3, 2)
                                         .. TokenFunds + gifts'[Crew[i]] - Owes(i, 3, 2)
      BY DEF BeforeRight, Owes
    <3>4. before'[i] = TokenFunds + gifts'[Crew[i]] - Owes(i, 3, 2)
      BY <3>1 DEF Out, Owes, Wallet
    <3> QED
      BY <3>2, <3>3, <3>4, Amounts
  <2> QED
    BY <1>1, <1>8, <2>2, <2>3 DEF LifeRuns, LifeActive, Where
<1>9. CASE /\ step = "life_distribute" /\ Distribute(Life, CrewPairs)
           /\ status' = "running" => step' = "life_payouts"
           /\ before' = before
  <2>1. LifeOver \/ (LifeActive(2) /\ BeforeRight)
    BY <1>9 DEF Where, BaitSteps
  <2>2. VictimWhole' /\ Owners' /\ LifeOver' /\ BeforeRight'
    BY <1>9, <2>1, DistributeWhere
  <2> QED
    BY <1>1, <1>9, <2>2 DEF Where
<1>10. CASE /\ step \in {"life_payouts", "life_vault"} /\ UNCHANGED vars
            /\ step' = (IF step = "life_payouts" THEN "life_vault" ELSE "end")
            /\ step = "life_payouts" => PayoutsRight
  <2>1. LifeOver /\ (step = "life_payouts" => BeforeRight) /\ (step = "life_vault" => AllBack)
    BY <1>10 DEF Where, BaitSteps
  <2>2. AllBack
    BY <1>10, <2>1, PayoutsWhere
  <2>3. VictimWhole' /\ Owners' /\ LifeOver' /\ AllBack'
    BY <1>10, <2>1, <2>2, IdleWhere
  <2> QED
    BY <1>1, <1>10, <2>3 DEF Where
<1> QED
  <2>1. CASE At("life_create") \/ At("life_start") \/ At("life_distribute")
    BY <1>2, <1>3, <1>6, <1>9, <2>1 DEF Lifecycle, At, Try, Goes, Fails, readVars
  <2>2. CASE At("life_terms") \/ At("life_read_start") \/ At("wait_period") \/ At("wait_end")
    BY <1>2, <1>4, <1>7, <1>8, <2>2 DEF Lifecycle, At, check, fetch, Goes, Fails, readVars
  <2>3. CASE At("life_payouts") \/ At("life_vault")
    BY <1>2, <1>10, <2>3 DEF Lifecycle, At, check, Goes, Fails
  <2> QED
    BY <1>5, <2>1, <2>2, <2>3 DEF Lifecycle, At

------------------------------------------------------------------------------

LEMMA RehearsalStep ==
    ASSUME RehearsalInv, [RehearsalNext]_rehearsalVars
    PROVE  RehearsalInv'
<1>1. CASE Script
  <2>1. /\ MembershipInv /\ Owners /\ GiftsOK /\ VictimWhole /\ Where
        /\ status = "running" /\ UNCHANGED gifts
    BY <1>1
    DEF RehearsalInv, Script, BaitAndSwitch, Lifecycle, Pass, RpcFails, At
  <2>2. MembershipInv' /\ GiftsOK'
    BY <1>1, <2>1, ScriptProgramStep, MembershipStep DEF GiftsOK
  <2>3. CASE BaitAndSwitch
    BY <2>1, <2>2, <2>3, BaitWhere DEF RehearsalInv
  <2>4. CASE Lifecycle
    BY <2>1, <2>2, <2>4, LifecycleWhere DEF RehearsalInv
  <2>5. CASE RpcFails
    BY <2>1, <2>2, <2>5, IdleWhere DEF RehearsalInv, RpcFails, Fails
  <2>6. CASE Pass
    <3>1. LifeOver /\ AllBack
      BY <2>1, <2>6 DEF Pass, At, Where, BaitSteps
    <3> QED
      BY <2>1, <2>2, <2>6, <3>1, IdleWhere DEF RehearsalInv, Pass
  <2> QED
    BY <1>1, <2>3, <2>4, <2>5, <2>6 DEF Script
<1>2. CASE StrangerStep \/ Clock
  <2>1. /\ MembershipInv /\ Owners /\ GiftsOK /\ VictimWhole /\ Where
        /\ UNCHANGED <<step, status, served, before>> /\ status = "running"
    BY <1>2 DEF RehearsalInv, StrangerStep, Clock, scriptVars, readVars
  <2>2. ProgramStep
    BY <1>2, StrangerProgramStep DEF Clock, ProgramStep, OutsideStep
  <2>3. MembershipInv'
    BY <2>1, <2>2, MembershipStep
  <2>4. (Quiet \/ LifeElsewhere \/ LifePaid) /\ GiftsOK'
    <3>1. CASE Clock
      BY <2>1, <3>1, NothingDone DEF Clock, Tick, GiftsOK
    <3> QED
      BY <1>2, <2>1, <2>3, <3>1, StrangerDoes
  <2>5. VictimWhole' /\ Owners'
    <3>1. WalletKept(Victim)
      BY <2>4, ScriptWallets DEF Quiet, LifeElsewhere, LifePaid, WalletsKept
    <3> QED
      BY <2>1, <2>3, <2>4, <3>1, WholeStays, OwnersKept
  <2>6. Where'
    BY <2>1, <2>4, QuietWhere, ElsewhereWhere, PaidWhere
  <2> QED
    BY <2>1, <2>3, <2>4, <2>5, <2>6 DEF RehearsalInv
<1>3. CASE UNCHANGED rehearsalVars
  <2>1. UNCHANGED <<vars, step, status, served, before, gifts>>
    BY <1>3 DEF rehearsalVars, scriptVars, readVars
  <2>2. MembershipInv' /\ GiftsOK'
    BY <2>1, MembershipStep DEF RehearsalInv, ProgramStep, GiftsOK
  <2>3. Quiet
    BY <2>1, NothingDone DEF vars, RehearsalInv
  <2>4. Where => Where'
    BY <2>1, <2>3, QuietWhere DEF RehearsalInv
  <2>5. /\ VictimWhole' /\ Owners' /\ (LifeOver => LifeOver') /\ (AllBack => AllBack')
    BY <2>1, <2>2, IdleWhere DEF RehearsalInv
  <2> QED
    BY <2>1, <2>2, <2>4, <2>5 DEF RehearsalInv
<1> QED
  BY <1>1, <1>2, <1>3 DEF RehearsalNext

LEMMA RehearsalStart == RehearsalInit => RehearsalInv
<1> SUFFICES ASSUME RehearsalInit
             PROVE  RehearsalInv
  OBVIOUS
<1>1. MembershipInv
  BY InitInv DEF RehearsalInit
<1>2. GiftsOK /\ \A m \in ScriptMembers : gifts[m] = 0
  BY DEF RehearsalInit, GiftsOK
<1>3. VictimWhole /\ Out(0, 0)
  <2>1. \A a \in TokenAccounts : tokens[a] = TokenFunds
    BY DEF RehearsalInit, Init
  <2>2. \A i \in Three : Owes(i, 0, 0) = 0
    BY DEF Owes, Three
  <2>3. \A i \in Three : Crew[i] \in ScriptMembers /\ Wallet(i) \in TokenAccounts
    BY ScriptWallets DEF Wallet
  <2> QED
    BY <1>2, <2>1, <2>2, <2>3, ScriptWallets, Amounts DEF Out, VictimWhole
<1>4. ~Ours
  BY ScriptAssumption DEF RehearsalInit, Init, Exists, Ours
<1>5. Owners
  BY Apart DEF RehearsalInit, Init, Owners, Exists
<1>6. Where
  BY <1>3, <1>4 DEF RehearsalInit, Where, BaitSteps, LifeNotYet
<1> QED
  BY <1>1, <1>2, <1>3, <1>5, <1>6 DEF RehearsalInit, RehearsalInv

\* rehearse-devnet.ts:5-6, 119-121, 160-166.  A rehearsal that passes has shown
\* what it says: the victim and every member of the crew have all their tokens
\* again, and no more than strangers gave them, and the script's group has no
\* vault.  Strangers may meanwhile have called whatever any wallet may call on
\* both groups, settled and closed the script's own, and taken its code.
THEOREM PassMeansRefund == RehearsalSpec => []PassShowsRefund
<1>1. ASSUME RehearsalInv, status = "passed"
      PROVE  /\ \A m \in ScriptMembers :
                  tokens[Ata(m)] \in TokenFunds .. TokenFunds + gifts[m]
             /\ Exists(vault[Life]) => group[Life].creator # Payer
  <2>1. LifeOver /\ AllBack /\ VictimWhole /\ GiftsOK /\ MembershipInv
    BY <1>1 DEF RehearsalInv
  <2>2. ASSUME Exists(vault[Life]), group[Life].creator = Payer
        PROVE  FALSE
    <3>1. Exists(group[Life]) /\ ~Settled(Life)
      BY <2>1, <2>2, ScriptAssumption DEF MembershipInv, GroupInv
    <3> QED
      BY <2>1, <2>2, <3>1 DEF LifeOver, Ours
  <2>3. tokens[Ata(Victim)] \in TokenFunds .. TokenFunds + gifts[Victim]
    BY <2>1, ScriptWallets, Amounts DEF VictimWhole, GiftsOK
  <2>4. \A m \in ScriptMembers : tokens[Ata(m)] \in TokenFunds .. TokenFunds + gifts[m]
    BY <2>1, <2>3, ScriptWallets DEF AllBack, Wallet
  <2> QED
    BY <2>2, <2>4
<1>2. RehearsalInv => PassShowsRefund
  BY <1>1 DEF PassShowsRefund
<1> QED
  BY <1>2, RehearsalStart, RehearsalStep, PTL DEF RehearsalSpec

==============================================================================
