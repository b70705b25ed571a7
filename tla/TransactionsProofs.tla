-------------------------- MODULE TransactionsProofs --------------------------
(***************************************************************************)
(* The transactions of clients and the log, for every value of the         *)
(* constants: a call is a step of the program, so what holds of the        *)
(* program holds of it; the accounts it names are those that it changes,   *)
(* who loses has signed, and its events tell what moved.                   *)
(***************************************************************************)
EXTENDS Transactions, EscrowProofs

------------------------------------------------------------------------------
(* Every call is a step of the program                                     *)

LEMMA GroupCallIsStep ==
    ASSUME NEW g \in Groups, GroupCall(g)
    PROVE  Next
<1>1. ASSUME now <= Horizon,
             NEW creator \in Creators, NEW payer \in Payers, NEW mint \in Mints,
             NEW amount \in DepositAmounts, NEW frequency \in Frequencies,
             NEW periods \in PeriodCounts, NEW size \in GroupSizes,
             CallCreateGroup(g, creator, payer, mint, amount, frequency, periods, size)
      PROVE  Next
  <2>1. frequency \in 0..(MaxFrequency + 1)
    BY TimeAssumption DEF Frequencies
  <2>2. Create(g)
    BY <1>1, <2>1 DEF CallCreateGroup, Create
  <2> QED
    BY <1>1, <2>2 DEF Next, CreatorStep
<1>2. ASSUME NEW authority \in Keys, CallSetJoinAuthority(g, authority)
      PROVE  Next
  BY <1>2 DEF CallSetJoinAuthority, Next, CreatorStep
<1>3. ASSUME now <= Horizon, CallStartCycle(g)
      PROVE  Next
  BY <1>3 DEF CallStartCycle, Next, CreatorStep
<1>4. ASSUME NEW pairs \in PairLists, CallDistribute(g, pairs)
      PROVE  Next
  BY <1>4 DEF CallDistribute, Next, CrankStep
<1>5. ASSUME NEW pairs \in PairLists, NEW mint_writable \in BOOLEAN,
             CallEmergencyCancel(g, pairs, mint_writable)
      PROVE  Next
  BY <1>5 DEF CallEmergencyCancel, Next, CreatorStep
<1>6. ASSUME CallRefundVaultRent(g) \/ CallCloseGroup(g)
      PROVE  Next
  BY <1>6 DEF CallRefundVaultRent, CallCloseGroup, Next, CrankStep
<1> QED
  BY <1>1, <1>2, <1>3, <1>4, <1>5, <1>6 DEF GroupCall

LEMMA MemberCallIsStep ==
    ASSUME NEW g \in Groups, NEW m \in Members, MemberCall(g, m)
    PROVE  Next
<1>1. ASSUME NEW payer \in Payers, NEW account \in TokenAccounts,
             NEW authority \in Keys \cup {None}, NEW durable \in BOOLEAN,
             NEW terms \in OfferedTerms, NEW expected \in U32 \cup {None},
             CallJoinGroup(g, m, payer, account, authority, durable, terms, expected)
      PROVE  Next
  <2>1. Join(g)
    BY <1>1 DEF CallJoinGroup, Join
  <2> QED
    BY <2>1 DEF Next
<1>2. ASSUME NEW account \in TokenAccounts,
             CallLeaveGroup(g, m, account) \/ CallDeposit(g, m, account)
      PROVE  Next
  BY <1>2 DEF CallLeaveGroup, CallDeposit, Next, LeaveOrDeposit
<1>3. ASSUME CallCloseMemberRecord(g, m) \/ CallCloseJoinTally(g, m)
      PROVE  Next
  BY <1>3 DEF CallCloseMemberRecord, CallCloseJoinTally, Next, CrankStep
<1> QED
  BY <1>1, <1>2, <1>3 DEF MemberCall

LEMMA CallIsStep ==
    ASSUME [ClientNext]_clientVars
    PROVE  [Next]_vars
<1>1. CASE UNCHANGED clientVars
  BY <1>1 DEF clientVars
<1>2. ASSUME NEW g \in Groups, GroupCall(g)
      PROVE  Next
  BY <1>2, GroupCallIsStep
<1>3. ASSUME NEW g \in Groups, NEW m \in Members, MemberCall(g, m)
      PROVE  Next
  BY <1>3, MemberCallIsStep
<1>4. CASE OtherStep
  BY <1>4 DEF OtherStep, Next
<1> QED
  BY <1>1, <1>2, <1>3, <1>4 DEF ClientNext

\* lib.rs: clients reach the program through its instructions only, so all
\* that is proved of the program holds in the transactions they send.
THEOREM CallsAreProgramSteps == ClientSpec => Spec
<1>1. ClientInit => Init
  BY DEF ClientInit
<1>2. [ClientNext]_clientVars => [Next]_vars
  BY CallIsStep
<1> QED
  BY <1>1, <1>2, PTL DEF ClientSpec, Spec

LEMMA ClientLedger == ClientSpec => [](LedgerInv /\ VaultsBack)
BY CallsAreProgramSteps, Backing, PTL

------------------------------------------------------------------------------
(* The accounts that a call names                                          *)

LEMMA NamedWritable ==
    ASSUME NEW address,
           Writable(address) \in accounts' \/ WritableSigner(address) \in accounts'
    PROVE  MayWrite(address)
BY DEF MayWrite, Writable, WritableSigner, Meta

LEMMA NamedSigner ==
    ASSUME NEW w,
           Signer(Wallet(w)) \in accounts' \/ WritableSigner(Wallet(w)) \in accounts'
    PROVE  Signed(w)
BY DEF Signed, Signer, WritableSigner, Meta

\* What the program owns or holds changes at these addresses at most: those of
\* groups, vaults, gates, records, tallies, token accounts and wallets.
Touches(G, V, J, R, T, A, W) ==
    /\ \A g \in Groups : /\ g \notin G => group'[g] = group[g]
                         /\ g \notin V => vault'[g] = vault[g]
                         /\ g \notin J => gate'[g] = gate[g]
    /\ \A p \in Pdas : /\ p \notin R => record'[p] = record[p]
                       /\ p \notin T => tally'[p] = tally[p]
    /\ \A a \in TokenAccounts : a \notin A => tokens'[a] = tokens[a]
    /\ \A w \in Payers : w \notin W => purse'[w] = purse[w]

\* Those addresses are among the writable accounts of the call.
Named(G, V, J, R, T, A, W) ==
    /\ \A g \in G : MayWrite(GroupPda(g))
    /\ \A g \in V : MayWrite(VaultPda(g))
    /\ \A g \in J : MayWrite(JoinPda(g))
    /\ \A p \in R : MayWrite(MemberPda(p[1], p[2]))
    /\ \A p \in T : MayWrite(TallyPda(p[1], p[2]))
    /\ \A a \in A : MayWrite(Token(a))
    /\ \A w \in W : MayWrite(Wallet(w))

\* WritesDeclared, but for the mints.
Declares ==
    /\ \A g \in Groups :
         /\ group'[g] # group[g] => MayWrite(GroupPda(g))
         /\ vault'[g] # vault[g] => MayWrite(VaultPda(g))
         /\ gate'[g] # gate[g] => MayWrite(JoinPda(g))
    /\ \A p \in Pdas :
         /\ record'[p] # record[p] => MayWrite(MemberPda(p[1], p[2]))
         /\ tally'[p] # tally[p] => MayWrite(TallyPda(p[1], p[2]))
    /\ \A a \in TokenAccounts : tokens'[a] # tokens[a] => MayWrite(Token(a))
    /\ \A w \in Payers : purse'[w] # purse[w] => MayWrite(Wallet(w))

LEMMA TouchedAreDeclared ==
    ASSUME NEW G, NEW V, NEW J, NEW R, NEW T, NEW A, NEW W,
           Touches(G, V, J, R, T, A, W), Named(G, V, J, R, T, A, W)
    PROVE  Declares
<1>1. \A g \in Groups : /\ group'[g] # group[g] => MayWrite(GroupPda(g))
                        /\ vault'[g] # vault[g] => MayWrite(VaultPda(g))
                        /\ gate'[g] # gate[g] => MayWrite(JoinPda(g))
  BY DEF Touches, Named
<1>2. \A p \in Pdas : /\ record'[p] # record[p] => MayWrite(MemberPda(p[1], p[2]))
                      /\ tally'[p] # tally[p] => MayWrite(TallyPda(p[1], p[2]))
  BY DEF Touches, Named
<1>3. /\ \A a \in TokenAccounts : tokens'[a] # tokens[a] => MayWrite(Token(a))
      /\ \A w \in Payers : purse'[w] # purse[w] => MayWrite(Wallet(w))
  BY DEF Touches, Named
<1> QED
  BY <1>1, <1>2, <1>3 DEF Declares

LEMMA CreateTouches ==
    ASSUME TypeOK, NEW g \in Groups, NEW creator, NEW payer \in Payers, NEW mint,
           NEW amount, NEW frequency, NEW periods, NEW size,
           CreateGroup(g, creator, payer, mint, amount, frequency, periods, size)
    PROVE  Touches({g}, {g}, {}, {}, {}, {}, {payer})
BY DEF TypeOK, CreateGroup, Touches

LEMMA SetJoinAuthorityTouches ==
    ASSUME TypeOK, NEW g \in Groups, NEW authority, SetJoinAuthority(g, authority)
    PROVE  Touches({}, {}, {g}, {}, {}, {}, {group[g].rent_payer})
BY DEF TypeOK, SetJoinAuthority, Touches

LEMMA JoinTouches ==
    ASSUME TypeOK, NEW g \in Groups, NEW m \in Members, NEW payer \in Payers,
           NEW account \in TokenAccounts, NEW authority, NEW durable, NEW terms,
           NEW expected,
           JoinGroup(g, m, payer, account, authority, durable, terms, expected)
    PROVE  Touches({g}, {g}, {}, {<<g, m>>}, {<<g, m>>}, {account}, {payer})
<1>1. \A h \in Groups : h # g => group'[h] = group[h] /\ vault'[h] = vault[h]
  BY DEF TypeOK, JoinGroup, PayIn
<1>2. gate' = gate
  BY DEF JoinGroup
<1>3. \A p \in Pdas : p # <<g, m>> => record'[p] = record[p] /\ tally'[p] = tally[p]
  BY DEF TypeOK, JoinGroup
<1>4. \A a \in TokenAccounts : a # account => tokens'[a] = tokens[a]
  BY DEF TypeOK, JoinGroup, PayIn
<1>5. \A w \in Payers : w # payer => purse'[w] = purse[w]
  BY DEF TypeOK, JoinGroup
<1> QED
  BY <1>1, <1>2, <1>3, <1>4, <1>5 DEF Touches

LEMMA LeaveTouches ==
    ASSUME TypeOK, NEW g \in Groups, NEW m \in Members,
           NEW account \in TokenAccounts, LeaveGroup(g, m, account)
    PROVE  Touches({g}, {g}, {}, {<<g, m>>}, {}, {account},
                   {record[<<g, m>>].rent_payer})
<1>1. \A h \in Groups : h # g => group'[h] = group[h] /\ vault'[h] = vault[h]
  BY DEF TypeOK, LeaveGroup, CloseRecord
<1>2. gate' = gate /\ tally' = tally
  BY DEF LeaveGroup
<1>3. \A p \in Pdas : p # <<g, m>> => record'[p] = record[p]
  BY DEF TypeOK, LeaveGroup, CloseRecord
<1>4. \A a \in TokenAccounts : a # account => tokens'[a] = tokens[a]
  BY DEF TypeOK, LeaveGroup
<1>5. \A w \in Payers : w # record[<<g, m>>].rent_payer => purse'[w] = purse[w]
  BY DEF TypeOK, LeaveGroup, CloseRecord
<1> QED
  BY <1>1, <1>2, <1>3, <1>4, <1>5 DEF Touches

LEMMA StartTouches ==
    ASSUME TypeOK, NEW g \in Groups, StartCycle(g)
    PROVE  Touches({g}, {}, {}, {}, {}, {}, {})
BY DEF TypeOK, StartCycle, Touches

LEMMA DepositTouches ==
    ASSUME TypeOK, NEW g \in Groups, NEW m \in Members,
           NEW account \in TokenAccounts, Deposit(g, m, account)
    PROVE  Touches({}, {g}, {}, {<<g, m>>}, {}, {account}, {})
<1>1. \A h \in Groups : h # g => vault'[h] = vault[h]
  BY DEF TypeOK, Deposit, PayIn
<1>2. group' = group /\ gate' = gate /\ tally' = tally /\ purse' = purse
  BY DEF Deposit
<1>3. \A p \in Pdas : p # <<g, m>> => record'[p] = record[p]
  BY DEF TypeOK, Deposit
<1>4. \A a \in TokenAccounts : a # account => tokens'[a] = tokens[a]
  BY DEF TypeOK, Deposit, PayIn
<1> QED
  BY <1>1, <1>2, <1>3, <1>4 DEF Touches

LEMMA UnpaidAccount ==
    ASSUME NEW g, NEW pairs, NEW a, \A i \in DOMAIN pairs : pairs[i].account # a
    PROVE  Credit(g, pairs, a) = 0
<1> DEFINE f == [i \in {} |-> Payout(g, pairs, i)]
<1>1. {i \in DOMAIN pairs : pairs[i].account = a} = {}
  OBVIOUS
<1>2. Paid(g, pairs, {}) = SumFunctionOnSet(f, {})
  BY DEF Paid, SumFunction
<1>3. SumFunctionOnSet(f, {}) = 0
  BY SumEmpty
<1> QED
  BY <1>1, <1>2, <1>3 DEF Credit

LEMMA SettleTouches ==
    ASSUME TypeOK, NEW g \in Groups, NEW pairs, NEW burned, NEW outcome,
           Settle(g, pairs, burned, outcome)
    PROVE  Touches({g}, {g}, {}, {}, {}, {pairs[i].account : i \in DOMAIN pairs}, {})
<1> DEFINE A == {pairs[i].account : i \in DOMAIN pairs}
<1>1. \A h \in Groups : h # g => group'[h] = group[h] /\ vault'[h] = vault[h]
  BY DEF TypeOK, Settle
<1>2. gate' = gate /\ record' = record /\ tally' = tally /\ purse' = purse
  BY DEF Settle
<1>3. ASSUME NEW a \in TokenAccounts, a \notin A
      PROVE  tokens'[a] = tokens[a]
  <2>1. Credit(g, pairs, a) = 0
    BY <1>3, UnpaidAccount
  <2>2. tokens'[a] = tokens[a] + Credit(g, pairs, a) /\ tokens[a] \in Nat
    BY AmountAssumption DEF Settle, TypeOK, U64
  <2> QED
    BY <2>1, <2>2
<1> HIDE DEF A
<1>4. Touches({g}, {g}, {}, {}, {}, A, {})
  BY <1>1, <1>2, <1>3 DEF Touches
<1> QED
  BY <1>4 DEF A

LEMMA RefundTouches ==
    ASSUME TypeOK, NEW g \in Groups, RefundVaultRent(g)
    PROVE  Touches({g}, {}, {}, {}, {}, {}, {group[g].rent_payer})
BY DEF TypeOK, RefundVaultRent, Touches

LEMMA CloseRecordTouches ==
    ASSUME TypeOK, NEW g \in Groups, NEW m \in Members, CloseMemberRecord(g, m)
    PROVE  Touches({g}, {}, {}, {<<g, m>>}, {}, {}, {record[<<g, m>>].rent_payer})
<1>1. \A h \in Groups : h # g => group'[h] = group[h]
  BY DEF TypeOK, CloseMemberRecord, CloseRecord
<1>2. vault' = vault /\ gate' = gate /\ tally' = tally /\ tokens' = tokens
  BY DEF CloseMemberRecord
<1>3. \A p \in Pdas : p # <<g, m>> => record'[p] = record[p]
  BY DEF TypeOK, CloseMemberRecord, CloseRecord
<1>4. \A w \in Payers : w # record[<<g, m>>].rent_payer => purse'[w] = purse[w]
  BY DEF TypeOK, CloseMemberRecord, CloseRecord
<1> QED
  BY <1>1, <1>2, <1>3, <1>4 DEF Touches

LEMMA CloseTallyTouches ==
    ASSUME TypeOK, NEW g \in Groups, NEW m \in Members, CloseJoinTally(g, m)
    PROVE  Touches({}, {}, {}, {}, {<<g, m>>}, {}, {tally[<<g, m>>].rent_payer})
BY DEF TypeOK, CloseJoinTally, Touches

LEMMA CloseGroupTouches ==
    ASSUME TypeOK, NEW g \in Groups, CloseGroup(g)
    PROVE  Touches({g}, {}, {g}, {}, {}, {}, {group[g].rent_payer})
BY DEF TypeOK, CloseGroup, Touches

\* The call names, writable, what its instruction changes.
LEMMA GroupCallDeclares ==
    ASSUME TypeOK, NEW g \in Groups, GroupCall(g)
    PROVE  Declares
<1>1. ASSUME NEW creator \in Creators, NEW payer \in Payers, NEW mint \in Mints,
             NEW amount, NEW frequency, NEW periods, NEW size,
             CallCreateGroup(g, creator, payer, mint, amount, frequency, periods, size)
      PROVE  Declares
  <2>1. Touches({g}, {g}, {}, {}, {}, {}, {payer})
    BY <1>1, CreateTouches DEF CallCreateGroup
  <2>2. accounts' = createGroup(g, creator, payer, mint)
    BY <1>1 DEF CallCreateGroup, Log
  <2>3. MayWrite(GroupPda(g)) /\ MayWrite(VaultPda(g)) /\ MayWrite(Wallet(payer))
    BY <2>2, NamedWritable DEF createGroup
  <2> QED
    BY <2>1, <2>3, TouchedAreDeclared DEF Named
<1>2. ASSUME NEW authority \in Keys, CallSetJoinAuthority(g, authority)
      PROVE  Declares
  <2>1. Touches({}, {}, {g}, {}, {}, {}, {group[g].rent_payer})
    BY <1>2, SetJoinAuthorityTouches DEF CallSetJoinAuthority
  <2>2. accounts' = setJoinAuthority(g, group[g].creator, group[g].rent_payer)
    BY <1>2 DEF CallSetJoinAuthority, Log
  <2>3. MayWrite(JoinPda(g)) /\ MayWrite(Wallet(group[g].rent_payer))
    BY <2>2, NamedWritable DEF setJoinAuthority
  <2> QED
    BY <2>1, <2>3, TouchedAreDeclared DEF Named
<1>3. ASSUME CallStartCycle(g)
      PROVE  Declares
  <2>1. Touches({g}, {}, {}, {}, {}, {}, {})
    BY <1>3, StartTouches DEF CallStartCycle
  <2>2. accounts' = startCycle(g)
    BY <1>3 DEF CallStartCycle, Log
  <2>3. MayWrite(GroupPda(g))
    BY <2>2, NamedWritable DEF startCycle
  <2> QED
    BY <2>1, <2>3, TouchedAreDeclared DEF Named
<1>4. ASSUME NEW pairs, NEW burned, NEW outcome, Settle(g, pairs, burned, outcome),
             Writable(GroupPda(g)) \in accounts', Writable(VaultPda(g)) \in accounts',
             Remaining(pairs) \subseteq accounts'
      PROVE  Declares
  <2>1. Touches({g}, {g}, {}, {}, {}, {pairs[i].account : i \in DOMAIN pairs}, {})
    BY <1>4, SettleTouches
  <2>2. \A i \in DOMAIN pairs : MayWrite(Token(pairs[i].account))
    <3> SUFFICES ASSUME NEW i \in DOMAIN pairs
                 PROVE  MayWrite(Token(pairs[i].account))
      OBVIOUS
    <3>1. Writable(Token(pairs[i].account)) \in accounts'
      BY <1>4 DEF Remaining
    <3> QED
      BY <3>1, NamedWritable
  <2>3. MayWrite(GroupPda(g)) /\ MayWrite(VaultPda(g))
    BY <1>4, NamedWritable
  <2> QED
    BY <2>1, <2>2, <2>3, TouchedAreDeclared DEF Named
<1>5. ASSUME NEW pairs \in PairLists, CallDistribute(g, pairs)
      PROVE  Declares
  <2>1. accounts' = distribute(g, group[g].mint) \cup Remaining(pairs)
    BY <1>5 DEF CallDistribute, Log
  <2>2. Settle(g, pairs, 0, "Completed")
    BY <1>5 DEF CallDistribute, Distribute
  <2> QED
    BY <1>4, <2>1, <2>2 DEF distribute
<1>6. ASSUME NEW pairs \in PairLists, NEW mint_writable \in BOOLEAN,
             CallEmergencyCancel(g, pairs, mint_writable)
      PROVE  Declares
  <2>1. accounts' = emergencyCancel(g, group[g].mint) \cup Remaining(pairs)
              \cup (IF mint_writable THEN {Writable(Mint(group[g].mint))} ELSE {})
    BY <1>6 DEF CallEmergencyCancel, Log
  <2>2. Settle(g, pairs, UnownedVaultBalance(g), "Cancelled")
    BY <1>6 DEF CallEmergencyCancel, EmergencyCancel
  <2> QED
    BY <1>4, <2>1, <2>2 DEF emergencyCancel
<1>7. ASSUME CallRefundVaultRent(g)
      PROVE  Declares
  <2>1. Touches({g}, {}, {}, {}, {}, {}, {group[g].rent_payer})
    BY <1>7, RefundTouches DEF CallRefundVaultRent
  <2>2. accounts' = refundVaultRent(g, group[g].rent_payer)
    BY <1>7 DEF CallRefundVaultRent, Log
  <2>3. MayWrite(GroupPda(g)) /\ MayWrite(Wallet(group[g].rent_payer))
    BY <2>2, NamedWritable DEF refundVaultRent
  <2> QED
    BY <2>1, <2>3, TouchedAreDeclared DEF Named
<1>8. ASSUME CallCloseGroup(g)
      PROVE  Declares
  <2>1. Touches({g}, {}, {g}, {}, {}, {}, {group[g].rent_payer})
    BY <1>8, CloseGroupTouches DEF CallCloseGroup
  <2>2. accounts' = closeGroup(g, group[g].rent_payer)
    BY <1>8 DEF CallCloseGroup, Log
  <2>3. MayWrite(GroupPda(g)) /\ MayWrite(JoinPda(g)) /\ MayWrite(Wallet(group[g].rent_payer))
    BY <2>2, NamedWritable DEF closeGroup
  <2> QED
    BY <2>1, <2>3, TouchedAreDeclared DEF Named
<1> QED
  BY <1>1, <1>2, <1>3, <1>5, <1>6, <1>7, <1>8 DEF GroupCall

LEMMA MemberCallDeclares ==
    ASSUME TypeOK, NEW g \in Groups, NEW m \in Members, MemberCall(g, m)
    PROVE  Declares
<1> DEFINE p == <<g, m>>
<1>1. ASSUME NEW payer \in Payers, NEW account \in TokenAccounts,
             NEW authority, NEW durable, NEW terms, NEW expected,
             CallJoinGroup(g, m, payer, account, authority, durable, terms, expected)
      PROVE  Declares
  <2>1. Touches({g}, {g}, {}, {p}, {p}, {account}, {payer})
    BY <1>1, JoinTouches DEF CallJoinGroup
  <2>2. accounts' = joinGroup(g, m, payer, account, group[g].mint, authority)
    BY <1>1 DEF CallJoinGroup, Log
  <2>3. /\ MayWrite(GroupPda(g)) /\ MayWrite(VaultPda(g)) /\ MayWrite(MemberPda(g, m))
        /\ MayWrite(Token(account)) /\ MayWrite(Wallet(payer))
    BY <2>2, NamedWritable DEF joinGroup, joinGroupMember
  <2>4. MayWrite(TallyPda(g, m))
    BY <2>2, NamedWritable DEF joinGroup, joinGroupApproval
  <2> QED
    BY <2>1, <2>3, <2>4, TouchedAreDeclared DEF Named
<1>2. ASSUME NEW account \in TokenAccounts, CallLeaveGroup(g, m, account)
      PROVE  Declares
  <2>1. Touches({g}, {g}, {}, {p}, {}, {account}, {record[p].rent_payer})
    BY <1>2, LeaveTouches DEF CallLeaveGroup
  <2>2. accounts' = leaveGroup(g, m, record[p].rent_payer, account, group[g].mint)
    BY <1>2 DEF CallLeaveGroup, Log
  <2>3. /\ MayWrite(GroupPda(g)) /\ MayWrite(VaultPda(g)) /\ MayWrite(MemberPda(g, m))
        /\ MayWrite(Token(account)) /\ MayWrite(Wallet(record[p].rent_payer))
    BY <2>2, NamedWritable DEF leaveGroup
  <2> QED
    BY <2>1, <2>3, TouchedAreDeclared DEF Named
<1>3. ASSUME NEW account \in TokenAccounts, CallDeposit(g, m, account)
      PROVE  Declares
  <2>1. Touches({}, {g}, {}, {p}, {}, {account}, {})
    BY <1>3, DepositTouches DEF CallDeposit
  <2>2. accounts' = deposit(g, m, account, group[g].mint)
    BY <1>3 DEF CallDeposit, Log
  <2>3. MayWrite(VaultPda(g)) /\ MayWrite(MemberPda(g, m)) /\ MayWrite(Token(account))
    BY <2>2, NamedWritable DEF deposit
  <2> QED
    BY <2>1, <2>3, TouchedAreDeclared DEF Named
<1>4. ASSUME CallCloseMemberRecord(g, m)
      PROVE  Declares
  <2>1. Touches({g}, {}, {}, {p}, {}, {}, {record[p].rent_payer})
    BY <1>4, CloseRecordTouches DEF CallCloseMemberRecord
  <2>2. accounts' = closeMemberRecord(g, m, record[p].rent_payer)
    BY <1>4 DEF CallCloseMemberRecord, Log
  <2>3. /\ MayWrite(GroupPda(g)) /\ MayWrite(MemberPda(g, m))
        /\ MayWrite(Wallet(record[p].rent_payer))
    BY <2>2, NamedWritable DEF closeMemberRecord
  <2> QED
    BY <2>1, <2>3, TouchedAreDeclared DEF Named
<1>5. ASSUME CallCloseJoinTally(g, m)
      PROVE  Declares
  <2>1. Touches({}, {}, {}, {}, {p}, {}, {tally[p].rent_payer})
    BY <1>5, CloseTallyTouches DEF CallCloseJoinTally
  <2>2. accounts' = closeJoinTally(g, m, tally[p].rent_payer)
    BY <1>5 DEF CallCloseJoinTally, Log
  <2>3. MayWrite(TallyPda(g, m)) /\ MayWrite(Wallet(tally[p].rent_payer))
    BY <2>2, NamedWritable DEF closeJoinTally
  <2> QED
    BY <2>1, <2>3, TouchedAreDeclared DEF Named
<1> QED
  BY <1>1, <1>2, <1>3, <1>4, <1>5 DEF MemberCall

------------------------------------------------------------------------------
(* A mint is written by a burn only                                        *)

SupplyView == \A k \in Mints : Supply(k) = Total(k)

LEMMA SupplyIsTotal == LedgerInv => SupplyView
<1> SUFFICES ASSUME LedgerInv, NEW k \in Mints
             PROVE  Supply(k) = Total(k)
  BY DEF SupplyView
<1>1. \A g \in Groups : Exists(vault[g]) => Unsettled(g)
  BY DEF LedgerInv, MembershipInv, GroupInv, Unsettled
<1>2. {g \in Groups : Unsettled(g) /\ Exists(vault[g]) /\ group[g].mint = k} =
        {g \in Groups : Exists(vault[g]) /\ group[g].mint = k}
  BY <1>1
<1> QED
  BY <1>2 DEF Supply, Total, SumTokens, InVaults

LEMMA SupplyIsTotalNext == LedgerInv' => SupplyView'
BY SupplyIsTotal, PTL

\* After the step a group has the status it had, or one of these.
EndsAs(S) ==
    \A h \in Groups :
        Exists(group[h]) /\ Exists(group'[h]) =>
            group'[h].status = group[h].status \/ group'[h].status \in S

LEMMA KeptEnds ==
    ASSUME TypeOK, NEW g \in Groups, Only(g), Kept(g), NEW S
    PROVE  EndsAs(S)
<1>1. group'[g].status = group[g].status
  BY DEF Kept, WatchedFields
<1>2. \A h \in Groups : h # g => group'[h] = group[h]
  BY DEF Only, TypeOK
<1> QED
  BY <1>1, <1>2 DEF EndsAs

LEMMA OnlyEnds ==
    ASSUME TypeOK, NEW g \in Groups, Only(g), NEW S,
           ~Exists(group[g]) \/ ~Exists(group'[g]) \/ group'[g].status \in S
    PROVE  EndsAs(S)
<1>1. \A h \in Groups : h # g => group'[h] = group[h]
  BY DEF Only, TypeOK
<1> QED
  BY <1>1 DEF EndsAs

\* What the calls that a member or the group's rent payer sends make of the status.
LEMMA MemberCallEnds ==
    ASSUME TypeOK, NEW g \in Groups, NEW m \in Members, MemberCall(g, m)
    PROVE  EndsAs({})
<1>1. ASSUME NEW payer \in Payers, NEW account \in TokenAccounts,
             NEW authority \in Keys \cup {None}, NEW durable \in BOOLEAN,
             NEW terms \in OfferedTerms, NEW expected \in U32 \cup {None},
             CallJoinGroup(g, m, payer, account, authority, durable, terms, expected)
      PROVE  EndsAs({})
  <2>1. Join(g)
    BY <1>1 DEF CallJoinGroup, Join
  <2> QED
    BY <2>1, JoinEffect, KeptEnds
<1>2. ASSUME NEW account \in TokenAccounts, CallLeaveGroup(g, m, account)
      PROVE  EndsAs({})
  BY <1>2, CloseRecordEffect, KeptEnds DEF CallLeaveGroup, LeaveGroup
<1>3. ASSUME NEW account \in TokenAccounts, CallDeposit(g, m, account)
      PROVE  EndsAs({})
  BY <1>3 DEF CallDeposit, Deposit, EndsAs
<1>4. ASSUME CallCloseJoinTally(g, m)
      PROVE  EndsAs({})
  BY <1>4 DEF CallCloseJoinTally, CloseJoinTally, EndsAs
<1>5. ASSUME CallCloseMemberRecord(g, m)
      PROVE  EndsAs({})
  BY <1>5, CloseRecordEffect, KeptEnds DEF CallCloseMemberRecord, CloseMemberRecord
<1> QED
  BY <1>1, <1>2, <1>3, <1>4, <1>5 DEF MemberCall

\* Only its creator starts or cancels a group.
LEMMA GroupCallEnds ==
    ASSUME TypeOK, TypeOK', NEW g \in Groups, GroupCall(g)
    PROVE  \/ EndsAs({"Completed"})
           \/ Signed(group[g].creator) /\ Only(g) /\ EndsAs({"Active"})
           \/ /\ Signed(group[g].creator)
              /\ \E pairs \in PairLists, mint_writable \in BOOLEAN :
                   CallEmergencyCancel(g, pairs, mint_writable)
<1>1. ASSUME NEW creator \in Creators, NEW payer \in Payers, NEW mint \in Mints,
             NEW amount \in DepositAmounts, NEW frequency \in Frequencies,
             NEW periods \in PeriodCounts, NEW size \in GroupSizes,
             CallCreateGroup(g, creator, payer, mint, amount, frequency, periods, size)
      PROVE  EndsAs({"Completed"})
  <2>1. frequency \in 0..(MaxFrequency + 1)
    BY TimeAssumption DEF Frequencies
  <2>2. Create(g)
    BY <1>1, <2>1 DEF CallCreateGroup, Create
  <2>3. ~Exists(group[g])
    BY <1>1 DEF CallCreateGroup, CreateGroup
  <2> QED
    BY <2>2, <2>3, CreateEffect, OnlyEnds
<1>2. ASSUME NEW authority \in Keys, CallSetJoinAuthority(g, authority)
      PROVE  EndsAs({"Completed"})
  BY <1>2 DEF CallSetJoinAuthority, SetJoinAuthority, EndsAs
<1>3. ASSUME CallStartCycle(g)
      PROVE  Signed(group[g].creator) /\ Only(g) /\ EndsAs({"Active"})
  <2>1. group'[g].status = "Active"
    <3>1. Started(g)
      BY <1>3, StartEffect DEF CallStartCycle
    <3>2. group[g] \in GroupConfig
      BY <3>1 DEF TypeOK, Started, Exists
    <3> QED
      BY <3>1, <3>2 DEF Started, GroupConfig
  <2>2. WritableSigner(Wallet(group[g].creator)) \in accounts'
    BY <1>3 DEF CallStartCycle, Log, startCycle
  <2>3. Only(g)
    BY <1>3, StartEffect DEF CallStartCycle
  <2> QED
    BY <2>1, <2>2, <2>3, NamedSigner, OnlyEnds
<1>4. ASSUME NEW pairs \in PairLists, CallDistribute(g, pairs)
      PROVE  EndsAs({"Completed"})
  <2>1. Only(g) /\ Ended(g, "Completed")
    BY <1>4, SettleEffect DEF CallDistribute, Distribute, SettlementChecks
  <2> QED
    BY <2>1, OnlyEnds DEF Ended
<1>5. ASSUME NEW pairs \in PairLists, NEW mint_writable \in BOOLEAN,
             CallEmergencyCancel(g, pairs, mint_writable)
      PROVE  Signed(group[g].creator)
  <2>1. Signer(Wallet(group[g].creator)) \in accounts'
    BY <1>5 DEF CallEmergencyCancel, Log, emergencyCancel
  <2> QED
    BY <2>1, NamedSigner
<1>6. ASSUME CallRefundVaultRent(g)
      PROVE  EndsAs({"Completed"})
  <2>1. RefundVaultRent(g)
    BY <1>6 DEF CallRefundVaultRent
  <2>2. group[g] \in GroupConfig /\ Floor("group") \in Nat
    BY <2>1, AmountAssumption DEF TypeOK, RefundVaultRent, Exists, Floor, Kinds
  <2>3. group[g].lamports - LamportsAboveRentFloor(g) \in Nat
    BY <2>2 DEF LamportsAboveRentFloor, GroupConfig
  <2>4. Only(g) /\ Kept(g)
    BY <2>1, <2>3, LamportsEffect DEF RefundVaultRent
  <2> QED
    BY <2>4, KeptEnds
<1>7. ASSUME CallCloseGroup(g)
      PROVE  EndsAs({"Completed"})
  BY <1>7, CloseGroupEffect, OnlyEnds DEF CallCloseGroup, Freed, Exists
<1> QED
  BY <1>1, <1>2, <1>3, <1>4, <1>5, <1>6, <1>7 DEF GroupCall

\* A burn cancels an Open group.
LEMMA BurnCancels ==
    ASSUME LedgerInv, [Next]_vars, NEW k \in Mints, Burns(k)
    PROVE  \E h \in Groups : /\ Exists(group[h]) /\ group[h].status = "Open"
                             /\ Exists(group'[h]) /\ group'[h].status = "Cancelled"
<1>1. PICK h \in Groups : /\ Unsettled(h) /\ Joined(h) = {}
                          /\ ~Exists(vault'[h])
  BY DEF Burns
<1>2. LedgerInv' /\ TypeOK /\ TypeOK'
  BY NextLedgerInv DEF LedgerInv, MembershipInv
<1>3. ~Unsettled(h)'
  BY <1>1, <1>2 DEF LedgerInv, MembershipInv, GroupInv, Unsettled
<1>4. Exists(group[h]) /\ ~Settled(h) /\ group[h] \in GroupConfig
  BY <1>1, <1>2 DEF Unsettled, TypeOK, Exists
<1>5. group[h].status = "Open"
  <2>1. Cardinality(Joined(h)) = 0
    BY <1>1, FS_EmptySet
  <2>2. group[h].status # "Active"
    BY <1>4, <2>1 DEF LedgerInv, MembershipInv, GroupInv
  <2> QED
    BY <1>4, <2>2 DEF Settled, GroupConfig, Statuses
<1>6. group'[h] # group[h]
  BY <1>3, <1>4 DEF Unsettled, Settled, Exists
<1>7. PICK g \in Groups : Only(g) /\ GroupEffect(g)
  BY <1>2, <1>6, StepEffect
<1>8. h = g
  BY <1>2, <1>6, <1>7 DEF Only, TypeOK
<1>9. CASE Kept(h)
  <2>1. group'[h].status = group[h].status /\ Exists(group'[h])
    BY <1>9, NoneAssumption DEF Kept, WatchedFields, Exists
  <2> QED
    BY <1>3, <1>5, <2>1 DEF Unsettled, Settled
<1>10. CASE Started(h)
  <2>1. group'[h].status = "Active" /\ Exists(group'[h])
    BY <1>4, <1>10, NoneAssumption DEF Started, Exists, GroupConfig
  <2> QED
    BY <1>3, <2>1 DEF Unsettled, Settled
<1>11. ASSUME NEW outcome \in {"Completed", "Cancelled"}, Ended(h, outcome)
       PROVE  Exists(group'[h]) /\ group'[h].status = "Cancelled"
  BY <1>5, <1>11, NoneAssumption DEF Ended, Exists
<1> QED
  BY <1>4, <1>5, <1>7, <1>8, <1>9, <1>10, <1>11 DEF GroupEffect, Opened, Freed

LEMMA SupplyDeclared ==
    ASSUME LedgerInv, [ClientNext]_clientVars, accounts' # {}, NEW k \in Mints,
           clientVars' # clientVars, Supply(k)' # Supply(k)
    PROVE  MayWrite(Mint(k))
<1>1. [Next]_vars
  BY CallIsStep
<1>2. LedgerInv' /\ TypeOK /\ TypeOK'
  BY <1>1, NextLedgerInv DEF LedgerInv, MembershipInv
<1>3. Supply(k) = Total(k) /\ Supply(k)' = Total(k)'
  BY <1>2, SupplyIsTotal, SupplyIsTotalNext DEF SupplyView
<1>4. Burns(k)
  BY <1>1, <1>3, TotalStep
<1>5. PICK h \in Groups : /\ Exists(group[h]) /\ group[h].status = "Open"
                          /\ Exists(group'[h]) /\ group'[h].status = "Cancelled"
  BY <1>1, <1>4, BurnCancels
<1>6. /\ ~EndsAs({}) /\ ~EndsAs({"Completed"}) /\ ~EndsAs({"Active"})
  BY <1>5 DEF EndsAs
<1>7. \A g \in Groups, m \in Members : ~MemberCall(g, m)
  BY <1>2, <1>6, MemberCallEnds
<1>8. ~OtherStep
  BY DEF OtherStep
<1>9. PICK g \in Groups : GroupCall(g)
  BY <1>7, <1>8 DEF ClientNext
<1>10. PICK pairs \in PairLists, mint_writable \in BOOLEAN :
         CallEmergencyCancel(g, pairs, mint_writable)
  BY <1>2, <1>6, <1>9, GroupCallEnds
<1> DEFINE burned == UnownedVaultBalance(g)
<1>11. /\ Exists(group[g]) /\ SettlementChecks(g, pairs)
       /\ burned > 0 => mint_writable
       /\ Settle(g, pairs, burned, "Cancelled")
  BY <1>10 DEF CallEmergencyCancel, EmergencyCancel, CancelChecks
<1>12. PaysBack(g, pairs, burned) /\ \A h1 \in Groups : h1 # g => Keeps(h1)
  BY <1>2, <1>11, SettleMoney
<1>13. /\ burned \in Nat /\ Total(k) \in Nat
       /\ Total(k)' = IF k = group[g].mint THEN Total(k) - burned ELSE Total(k)
  BY <1>2, <1>12, TotalPaidBack
<1>14. k = group[g].mint /\ mint_writable
  <2> HIDE DEF burned
  <2> QED
    BY <1>3, <1>11, <1>13
<1>15. Writable(Mint(k)) \in accounts'
  BY <1>10, <1>14 DEF CallEmergencyCancel, Log
<1> QED
  BY <1>15, NamedWritable

\* safenudge-types.ts:16-1145.  A transaction built from the IDL names as
\* writable every account its instruction changes, directly or through the
\* programs it calls, and the mint when it burns: the runtime never fails one
\* for an account that the client did not open for writing.
THEOREM CallsDeclareWrites == ClientSpec => WritesDeclared
<1>1. LedgerInv /\ [ClientNext]_clientVars =>
        [accounts' # {} =>
           /\ Declares
           /\ \A mint \in Mints : Supply(mint)' # Supply(mint) => MayWrite(Mint(mint))]_clientVars
  <2> SUFFICES ASSUME LedgerInv, [ClientNext]_clientVars, clientVars' # clientVars,
                      accounts' # {}
               PROVE  /\ Declares
                      /\ \A mint \in Mints :
                           Supply(mint)' # Supply(mint) => MayWrite(Mint(mint))
    OBVIOUS
  <2>1. TypeOK
    BY DEF LedgerInv, MembershipInv
  <2>2. Declares
    BY <2>1, GroupCallDeclares, MemberCallDeclares DEF ClientNext, OtherStep
  <2>3. \A mint \in Mints : Supply(mint)' # Supply(mint) => MayWrite(Mint(mint))
    BY SupplyDeclared
  <2> QED
    BY <2>2, <2>3
<1>2. ClientSpec => []LedgerInv
  BY ClientLedger, PTL
<1> QED
  BY <1>1, <1>2, PTL DEF ClientSpec, WritesDeclared, Declares

------------------------------------------------------------------------------
(* Who gives something up has signed                                       *)

\* The parts of LossesSigned.
WalletsSign == \A w \in Payers : purse'[w] < purse[w] => Signed(w)
TokensSign == \A a \in TokenAccounts : tokens'[a] < tokens[a] => Signed(OwnerOf[a])
RecordsSign ==
    \A p \in Pdas :
        /\ Exists(record[p]) /\ ~Exists(record'[p]) /\ Unsettled(p[1]) => Signed(p[2])
        /\ ~Exists(record[p]) /\ Exists(record'[p]) /\ Exists(gate[p[1]])
             => Signed(gate[p[1]].authority)
CreatorsSign ==
    \A g \in Groups :
        \/ ~Exists(group[g])
        \/ Signed(group[g].creator)
        \/ /\ gate'[g] = gate[g] \/ Settled(g)
           /\ ~Exists(group'[g]) \/ group'[g].status \in {group[g].status, "Completed"}

LEMMA TouchedWallets ==
    ASSUME TypeOK, NEW G, NEW V, NEW J, NEW R, NEW T, NEW A, NEW W,
           Touches(G, V, J, R, T, A, W),
           \A w \in W : w \in Payers /\ purse'[w] < purse[w] => Signed(w)
    PROVE  WalletsSign
<1> SUFFICES ASSUME NEW w \in Payers, purse'[w] < purse[w]
             PROVE  Signed(w)
  BY DEF WalletsSign
<1>1. w \notin W => purse'[w] = purse[w] /\ purse[w] \in Nat
  BY DEF Touches, TypeOK
<1> QED
  BY <1>1

LEMMA TouchedTokens ==
    ASSUME TypeOK, NEW G, NEW V, NEW J, NEW R, NEW T, NEW A, NEW W,
           Touches(G, V, J, R, T, A, W),
           \A a \in A : a \in TokenAccounts /\ tokens'[a] < tokens[a] => Signed(OwnerOf[a])
    PROVE  TokensSign
<1> SUFFICES ASSUME NEW a \in TokenAccounts, tokens'[a] < tokens[a]
             PROVE  Signed(OwnerOf[a])
  BY DEF TokensSign
<1>1. a \notin A => tokens'[a] = tokens[a]
  BY DEF Touches
<1>2. tokens[a] \in Nat
  BY AmountAssumption DEF TypeOK, U64
<1> QED
  BY <1>1, <1>2

LEMMA TouchedRecords ==
    ASSUME NEW G, NEW V, NEW J, NEW R, NEW T, NEW A, NEW W,
           Touches(G, V, J, R, T, A, W),
           \A p \in R : p \in Pdas =>
             /\ Exists(record[p]) /\ ~Exists(record'[p]) /\ Unsettled(p[1]) => Signed(p[2])
             /\ ~Exists(record[p]) /\ Exists(record'[p]) /\ Exists(gate[p[1]])
                  => Signed(gate[p[1]].authority)
    PROVE  RecordsSign
<1> SUFFICES ASSUME NEW p \in Pdas
             PROVE  /\ Exists(record[p]) /\ ~Exists(record'[p]) /\ Unsettled(p[1])
                         => Signed(p[2])
                    /\ ~Exists(record[p]) /\ Exists(record'[p]) /\ Exists(gate[p[1]])
                         => Signed(gate[p[1]].authority)
  BY DEF RecordsSign
<1>1. p \notin R => record'[p] = record[p]
  BY DEF Touches
<1> QED
  BY <1>1 DEF Exists

\* Paying lamports to a wallet takes none from it.
LEMMA PaidWallet ==
    ASSUME TypeOK, NEW payer, NEW amount \in Nat,
           purse' = [purse EXCEPT ![payer] = @ + amount]
    PROVE  \A w \in Payers : ~(purse'[w] < purse[w])
BY PaidOut

LEMMA SettleTakesNothing ==
    ASSUME LedgerInv, NEW g \in Groups, Unsettled(g), NEW pairs \in PairLists,
           SettlementChecks(g, pairs), NEW burned, NEW outcome,
           Settle(g, pairs, burned, outcome)
    PROVE  WalletsSign /\ TokensSign /\ RecordsSign
<1>1. TypeOK
  BY DEF LedgerInv, MembershipInv
<1>2. Touches({g}, {g}, {}, {}, {}, {pairs[i].account : i \in DOMAIN pairs}, {})
  BY <1>1, SettleTouches
<1>3. ASSUME NEW a \in TokenAccounts
      PROVE  ~(tokens'[a] < tokens[a])
  <2>1. tokens'[a] = tokens[a] + Credits(g, pairs)[a]
    BY DEF Settle, Credits
  <2>2. Credits(g, pairs)[a] \in Nat
    BY CreditIsPayouts
  <2>3. tokens[a] \in Nat
    BY TokensNat
  <2> QED
    BY <2>1, <2>2, <2>3
<1>4. TokensSign
  BY <1>3 DEF TokensSign
<1>5. WalletsSign
  BY <1>1, <1>2, TouchedWallets
<1>6. RecordsSign
  BY <1>2, TouchedRecords
<1> QED
  BY <1>4, <1>5, <1>6

LEMMA GroupCallSigned ==
    ASSUME LedgerInv, NEW g \in Groups, GroupCall(g)
    PROVE  WalletsSign /\ TokensSign /\ RecordsSign
<1> DEFINE Fine == WalletsSign /\ TokensSign /\ RecordsSign
<1>0. TypeOK
  BY DEF LedgerInv, MembershipInv
<1>1. ASSUME NEW creator \in Creators, NEW payer \in Payers, NEW mint \in Mints,
             NEW amount, NEW frequency, NEW periods, NEW size,
             CallCreateGroup(g, creator, payer, mint, amount, frequency, periods, size)
      PROVE  Fine
  <2>1. Touches({g}, {g}, {}, {}, {}, {}, {payer})
    BY <1>0, <1>1, CreateTouches DEF CallCreateGroup
  <2>2. accounts' = createGroup(g, creator, payer, mint)
    BY <1>1 DEF CallCreateGroup, Log
  <2>3. Signed(payer)
    BY <2>2, NamedSigner DEF createGroup
  <2>4. WalletsSign
    BY <1>0, <2>1, <2>3, TouchedWallets
  <2> QED
    BY <1>0, <2>1, <2>4, TouchedTokens, TouchedRecords
<1>2. ASSUME NEW authority \in Keys, CallSetJoinAuthority(g, authority)
      PROVE  Fine
  <2>1. Touches({}, {}, {g}, {}, {}, {}, {group[g].rent_payer})
    BY <1>0, <1>2, SetJoinAuthorityTouches DEF CallSetJoinAuthority
  <2>2. accounts' = setJoinAuthority(g, group[g].creator, group[g].rent_payer)
    BY <1>2 DEF CallSetJoinAuthority, Log
  <2>3. Signed(group[g].rent_payer)
    BY <2>2, NamedSigner DEF setJoinAuthority
  <2>4. WalletsSign
    BY <1>0, <2>1, <2>3, TouchedWallets
  <2> QED
    BY <1>0, <2>1, <2>4, TouchedTokens, TouchedRecords
<1>3. ASSUME CallStartCycle(g)
      PROVE  Fine
  <2>1. Touches({g}, {}, {}, {}, {}, {}, {})
    BY <1>0, <1>3, StartTouches DEF CallStartCycle
  <2> QED
    BY <1>0, <2>1, TouchedWallets, TouchedTokens, TouchedRecords
<1>4. ASSUME NEW pairs \in PairLists, CallDistribute(g, pairs)
      PROVE  Fine
  <2>1. /\ SettlementChecks(g, pairs) /\ Settle(g, pairs, 0, "Completed")
        /\ Unsettled(g)
    BY <1>4 DEF CallDistribute, Distribute, Unsettled, Settled
  <2> QED
    BY <2>1, SettleTakesNothing
<1>5. ASSUME NEW pairs \in PairLists, NEW mint_writable \in BOOLEAN,
             CallEmergencyCancel(g, pairs, mint_writable)
      PROVE  Fine
  <2>1. /\ SettlementChecks(g, pairs)
        /\ Settle(g, pairs, UnownedVaultBalance(g), "Cancelled")
        /\ Unsettled(g)
    BY <1>5 DEF CallEmergencyCancel, EmergencyCancel, CancelChecks, Unsettled, Settled
  <2> QED
    BY <2>1, SettleTakesNothing
<1>6. ASSUME CallRefundVaultRent(g)
      PROVE  Fine
  <2>1. Touches({g}, {}, {}, {}, {}, {}, {group[g].rent_payer})
    BY <1>0, <1>6, RefundTouches DEF CallRefundVaultRent
  <2>2. group[g] \in GroupConfig /\ Floor("group") \in Nat
    BY <1>0, <1>6, AmountAssumption
       DEF TypeOK, CallRefundVaultRent, RefundVaultRent, Exists, Floor, Kinds
  <2>3. LamportsAboveRentFloor(g) \in Nat
    BY <2>2 DEF LamportsAboveRentFloor, GroupConfig
  <2>4. \A w \in Payers : ~(purse'[w] < purse[w])
    BY <1>0, <1>6, <2>3, PaidWallet DEF CallRefundVaultRent, RefundVaultRent
  <2> QED
    BY <1>0, <2>1, <2>4, TouchedTokens, TouchedRecords DEF WalletsSign
<1>7. ASSUME CallCloseGroup(g)
      PROVE  Fine
  <2>1. Touches({g}, {}, {g}, {}, {}, {}, {group[g].rent_payer})
    BY <1>0, <1>7, CloseGroupTouches DEF CallCloseGroup
  <2> DEFINE payer == group[g].rent_payer
             own == group[g].lamports
             gated == IF Exists(gate[g]) THEN gate[g].lamports ELSE 0
  <2>2. payer \in Payers /\ own \in Nat
    BY <1>0, <1>7 DEF TypeOK, CallCloseGroup, CloseGroup, Exists, GroupConfig
  <2>3. gated \in Nat
    BY <1>0 DEF TypeOK, Exists, JoinGate
  <2>4. \A w \in Payers : ~(purse'[w] < purse[w])
    <3>1. purse' = [purse EXCEPT ![payer] = @ + own + gated]
      BY <1>7 DEF CallCloseGroup, CloseGroup
    <3>2. purse \in [Payers -> Nat]
      BY <1>0 DEF TypeOK
    <3> HIDE DEF payer, own, gated
    <3> QED
      BY <2>2, <2>3, <3>1, <3>2
  <2> QED
    BY <1>0, <2>1, <2>4, TouchedTokens, TouchedRecords DEF WalletsSign
<1> HIDE DEF Fine
<1>8. Fine
  BY <1>1, <1>2, <1>3, <1>4, <1>5, <1>6, <1>7 DEF GroupCall
<1> QED
  BY <1>8 DEF Fine

LEMMA MemberCallSigned ==
    ASSUME LedgerInv, NEW g \in Groups, NEW m \in Members, MemberCall(g, m)
    PROVE  WalletsSign /\ TokensSign /\ RecordsSign
<1> DEFINE Fine == WalletsSign /\ TokensSign /\ RecordsSign
           p == <<g, m>>
<1>0. TypeOK /\ p \in Pdas /\ p[1] = g /\ p[2] = m
  BY DEF LedgerInv, MembershipInv, Pdas
<1>1. ASSUME NEW payer \in Payers, NEW account \in TokenAccounts,
             NEW authority \in Keys \cup {None}, NEW durable, NEW terms, NEW expected,
             CallJoinGroup(g, m, payer, account, authority, durable, terms, expected)
      PROVE  Fine
  <2>1. Touches({g}, {g}, {}, {p}, {p}, {account}, {payer})
    BY <1>0, <1>1, JoinTouches DEF CallJoinGroup
  <2>2. accounts' = joinGroup(g, m, payer, account, group[g].mint, authority)
    BY <1>1 DEF CallJoinGroup, Log
  <2>3. Signed(payer) /\ Signed(m)
    BY <2>2, NamedSigner DEF joinGroup, joinGroupMember
  <2>4. OwnerOf[account] = m /\ ~Exists(record[p])
    BY <1>1 DEF CallJoinGroup, JoinGroup, OwnAccount
  <2>5. Exists(gate[g]) => Signed(gate[g].authority)
    <3> SUFFICES ASSUME Exists(gate[g])
                 PROVE  Signed(gate[g].authority)
      OBVIOUS
    <3>1. authority = gate[g].authority
      BY <1>1 DEF CallJoinGroup, JoinGroup, JoinApproved
    <3>2. authority # None
      BY <1>0, <3>1, AddressAssumption DEF TypeOK, Exists, JoinGate
    <3>3. Signer(Wallet(authority)) \in accounts'
      BY <2>2, <3>2 DEF joinGroup, joinGroupApproval
    <3> QED
      BY <3>1, <3>3, NamedSigner
  <2>6. WalletsSign
    BY <1>0, <2>1, <2>3, TouchedWallets
  <2>7. TokensSign
    BY <1>0, <2>1, <2>3, <2>4, TouchedTokens
  <2>8. RecordsSign
    BY <1>0, <2>1, <2>4, <2>5, TouchedRecords
  <2> QED
    BY <2>6, <2>7, <2>8
<1>2. ASSUME NEW account \in TokenAccounts, CallLeaveGroup(g, m, account)
      PROVE  Fine
  <2>1. Touches({g}, {g}, {}, {p}, {}, {account}, {record[p].rent_payer})
    BY <1>0, <1>2, LeaveTouches DEF CallLeaveGroup
  <2>2. accounts' = leaveGroup(g, m, record[p].rent_payer, account, group[g].mint)
    BY <1>2 DEF CallLeaveGroup, Log
  <2>3. Signed(m) /\ OwnerOf[account] = m
    BY <1>2, <2>2, NamedSigner DEF leaveGroup, CallLeaveGroup, LeaveGroup, OwnAccount
  <2>4. CloseRecord(g, m)
    BY <1>2 DEF CallLeaveGroup, LeaveGroup
  <2>5. \A w \in Payers : ~(purse'[w] < purse[w])
    <3>1. record[p].lamports \in Nat
      BY <1>0, <2>4 DEF TypeOK, CloseRecord, Exists, MemberRecord
    <3> QED
      BY <1>0, <2>4, <3>1, PaidWallet DEF CloseRecord
  <2>6. TokensSign
    BY <1>0, <2>1, <2>3, TouchedTokens
  <2>7. RecordsSign
    BY <1>0, <2>1, <2>3, <2>4, TouchedRecords DEF CloseRecord
  <2> QED
    BY <2>5, <2>6, <2>7 DEF WalletsSign
<1>3. ASSUME NEW account \in TokenAccounts, CallDeposit(g, m, account)
      PROVE  Fine
  <2>1. Touches({}, {g}, {}, {p}, {}, {account}, {})
    BY <1>0, <1>3, DepositTouches DEF CallDeposit
  <2>2. accounts' = deposit(g, m, account, group[g].mint)
    BY <1>3 DEF CallDeposit, Log
  <2>3. Signed(m) /\ OwnerOf[account] = m
    BY <1>3, <2>2, NamedSigner DEF deposit, CallDeposit, Deposit, OwnAccount
  <2>4. Exists(record[p]) /\ Exists(record'[p])
    <3>1. Exists(record[p])
      BY <1>3 DEF CallDeposit, Deposit
    <3>2. NextDeposit(g, m)
      BY <1>0, <1>3, DepositNext DEF CallDeposit
    <3> QED
      BY <3>1, <3>2, NoneAssumption DEF NextDeposit, Exists
  <2>5. TokensSign
    BY <1>0, <2>1, <2>3, TouchedTokens
  <2>6. RecordsSign
    BY <1>0, <2>1, <2>4, TouchedRecords
  <2> QED
    BY <1>0, <2>1, <2>5, <2>6, TouchedWallets
<1>4. ASSUME CallCloseMemberRecord(g, m)
      PROVE  Fine
  <2>1. Touches({g}, {}, {}, {p}, {}, {}, {record[p].rent_payer})
    BY <1>0, <1>4, CloseRecordTouches DEF CallCloseMemberRecord
  <2>2. CloseRecord(g, m) /\ ~Unsettled(g)
    BY <1>4 DEF CallCloseMemberRecord, CloseMemberRecord, Unsettled
  <2>3. \A w \in Payers : ~(purse'[w] < purse[w])
    <3>1. record[p].lamports \in Nat
      BY <1>0, <2>2 DEF TypeOK, CloseRecord, Exists, MemberRecord
    <3> QED
      BY <1>0, <2>2, <3>1, PaidWallet DEF CloseRecord
  <2>4. RecordsSign
    BY <1>0, <2>1, <2>2, TouchedRecords DEF CloseRecord
  <2> QED
    BY <1>0, <2>1, <2>3, <2>4, TouchedTokens DEF WalletsSign
<1>5. ASSUME CallCloseJoinTally(g, m)
      PROVE  Fine
  <2>1. Touches({}, {}, {}, {}, {p}, {}, {tally[p].rent_payer})
    BY <1>0, <1>5, CloseTallyTouches DEF CallCloseJoinTally
  <2>2. \A w \in Payers : ~(purse'[w] < purse[w])
    <3>1. tally[p].lamports \in Nat
      BY <1>0, <1>5 DEF TypeOK, CallCloseJoinTally, CloseJoinTally, Exists, JoinTally
    <3> QED
      BY <1>0, <1>5, <3>1, PaidWallet DEF CallCloseJoinTally, CloseJoinTally
  <2> QED
    BY <1>0, <2>1, <2>2, TouchedTokens, TouchedRecords DEF WalletsSign
<1> HIDE DEF Fine
<1>6. Fine
  BY <1>1, <1>2, <1>3, <1>4, <1>5 DEF MemberCall
<1> QED
  BY <1>6 DEF Fine

\* No group is gated, started or cancelled without its creator.
LEMMA CallCreators ==
    ASSUME TypeOK, TypeOK', NEW g \in Groups,
           GroupCall(g) \/ \E m \in Members : MemberCall(g, m)
    PROVE  CreatorsSign
<1> DEFINE GatesStay == \A h \in Groups : gate'[h] = gate[h] \/ Settled(h)
                                          \/ ~Exists(group[h]) \/ Signed(group[h].creator)
<1>1. ASSUME NEW m \in Members, MemberCall(g, m)
      PROVE  gate' = gate
  <2>1. ASSUME NEW payer \in Payers, NEW account \in TokenAccounts,
               NEW authority \in Keys \cup {None}, NEW durable \in BOOLEAN,
               NEW terms \in OfferedTerms, NEW expected \in U32 \cup {None},
               CallJoinGroup(g, m, payer, account, authority, durable, terms, expected)
        PROVE  gate' = gate
    BY <2>1 DEF CallJoinGroup, JoinGroup
  <2>2. ASSUME NEW account, CallLeaveGroup(g, m, account)
        PROVE  gate' = gate
    BY <2>2 DEF CallLeaveGroup, LeaveGroup
  <2>3. ASSUME NEW account, CallDeposit(g, m, account)
        PROVE  gate' = gate
    BY <2>3 DEF CallDeposit, Deposit
  <2>4. ASSUME CallCloseMemberRecord(g, m)
        PROVE  gate' = gate
    BY <2>4 DEF CallCloseMemberRecord, CloseMemberRecord
  <2>5. ASSUME CallCloseJoinTally(g, m)
        PROVE  gate' = gate
    BY <2>5 DEF CallCloseJoinTally, CloseJoinTally
  <2> QED
    BY <1>1, <2>1, <2>2, <2>3, <2>4, <2>5 DEF MemberCall
<1>2. ASSUME GroupCall(g)
      PROVE  GatesStay
  <2>1. ASSUME NEW authority \in Keys, CallSetJoinAuthority(g, authority)
        PROVE  GatesStay
    <3>1. \A h \in Groups : h # g => gate'[h] = gate[h]
      BY <2>1 DEF CallSetJoinAuthority, SetJoinAuthority, TypeOK
    <3>2. Signer(Wallet(group[g].creator)) \in accounts'
      BY <2>1 DEF CallSetJoinAuthority, Log, setJoinAuthority
    <3>3. Signed(group[g].creator)
      BY <3>2, NamedSigner
    <3> QED
      BY <3>1, <3>3
  <2>2. ASSUME CallCloseGroup(g)
        PROVE  GatesStay
    <3>1. \A h \in Groups : h # g => gate'[h] = gate[h]
      BY <2>2 DEF CallCloseGroup, CloseGroup, TypeOK
    <3>2. Settled(g)
      BY <2>2 DEF CallCloseGroup, CloseGroup
    <3> QED
      BY <3>1, <3>2
  <2>3. ASSUME NEW creator \in Creators, NEW payer \in Payers, NEW mint \in Mints,
             NEW amount \in DepositAmounts, NEW frequency \in Frequencies,
             NEW periods \in PeriodCounts, NEW size \in GroupSizes,
             CallCreateGroup(g, creator, payer, mint, amount, frequency, periods, size)
        PROVE  gate' = gate
    BY <2>3 DEF CallCreateGroup, CreateGroup
  <2>4. ASSUME CallStartCycle(g) \/ CallRefundVaultRent(g)
        PROVE  gate' = gate
    BY <2>4 DEF CallStartCycle, StartCycle, CallRefundVaultRent, RefundVaultRent
  <2>5. ASSUME NEW pairs \in PairLists, CallDistribute(g, pairs)
        PROVE  gate' = gate
    BY <2>5 DEF CallDistribute, Distribute, Settle
  <2>6. ASSUME NEW pairs \in PairLists, NEW mint_writable \in BOOLEAN,
               CallEmergencyCancel(g, pairs, mint_writable)
        PROVE  gate' = gate
    BY <2>6 DEF CallEmergencyCancel, EmergencyCancel, Settle
  <2>7. gate' = gate => GatesStay
    OBVIOUS
  <2> HIDE DEF GatesStay
  <2> QED
    BY <1>2, <2>1, <2>2, <2>3, <2>4, <2>5, <2>6, <2>7 DEF GroupCall
<1>3. GatesStay
  BY <1>1, <1>2
<1>4. CASE EndsAs({"Completed"}) \/ EndsAs({})
  BY <1>3, <1>4 DEF EndsAs, CreatorsSign
<1>5. ASSUME Signed(group[g].creator), Only(g)
      PROVE  CreatorsSign
  <2>1. \A h \in Groups : h # g => group'[h] = group[h]
    BY <1>5 DEF Only, TypeOK
  <2> QED
    BY <1>3, <1>5, <2>1 DEF CreatorsSign
<1>6. ASSUME NEW pairs \in PairLists, NEW mint_writable \in BOOLEAN,
             CallEmergencyCancel(g, pairs, mint_writable)
      PROVE  Only(g)
  BY <1>6, SettleEffect
     DEF CallEmergencyCancel, EmergencyCancel, CancelChecks, SettlementChecks
<1> HIDE DEF GatesStay
<1> QED
  BY <1>4, <1>5, <1>6, GroupCallEnds, MemberCallEnds

\* safenudge-types.ts:16-1145.  Whoever loses lamports or tokens, leaves a
\* group, or lets a gated one in, has signed the transaction, and so has the
\* creator of a group that starts, is cancelled or gated: no one else's
\* transaction, whatever accounts it names, can do that to them.
THEOREM LosersSigned == ClientSpec => LossesSigned
<1>1. LedgerInv /\ [ClientNext]_clientVars =>
        [accounts' # {} => WalletsSign /\ TokensSign /\ RecordsSign /\ CreatorsSign]_clientVars
  <2> SUFFICES ASSUME LedgerInv, [ClientNext]_clientVars, clientVars' # clientVars,
                      accounts' # {}
               PROVE  WalletsSign /\ TokensSign /\ RecordsSign /\ CreatorsSign
    OBVIOUS
  <2>1. TypeOK /\ TypeOK'
    BY CallIsStep, NextLedgerInv DEF LedgerInv, MembershipInv
  <2>2. PICK g \in Groups : GroupCall(g) \/ \E m \in Members : MemberCall(g, m)
    BY DEF ClientNext, OtherStep
  <2>3. CreatorsSign
    BY <2>1, <2>2, CallCreators
  <2>4. WalletsSign /\ TokensSign /\ RecordsSign
    BY <2>2, GroupCallSigned, MemberCallSigned
  <2> QED
    BY <2>3, <2>4
<1>2. ClientSpec => []LedgerInv
  BY ClientLedger, PTL
<1> QED
  BY <1>1, <1>2, PTL
     DEF ClientSpec, LossesSigned, WalletsSign, TokensSign, RecordsSign, CreatorsSign

------------------------------------------------------------------------------
(* The events tell what moved                                              *)

\* AmountsMoved for one event.
Tells(e) ==
    LET g == e.group
    IN CASE e.event \in {"MemberJoined", "DepositMade"} ->
              Rise(e.member, group[g].mint) = -e.amount
         [] e.event = "MemberLeft" -> Rise(e.member, group[g].mint) = e.refund
         [] e.event = "MemberSettled" -> Rise(e.member, group[g].mint) = e.payout
         [] e.event = "GroupSettled" -> e.totalPaid = vault[g].amount
         [] e.event = "GroupCancelled" ->
              /\ e.refundedTotal + e.burned = vault[g].amount
              /\ \A mint \in {group[g].mint} :
                   Supply(mint)' = Supply(mint) - e.burned
         [] e.event = "GroupClosed" ->
              purse'[e.rentPayer] - purse[e.rentPayer]
                = e.lamports + e.joinGateLamports
         [] OTHER -> TRUE

EventsTell == \A i \in DOMAIN events' : Tells(events'[i])

LEMMA OneEvent ==
    ASSUME NEW e, events' = <<e>>, Tells(e)
    PROVE  EventsTell
<1>1. DOMAIN events' = {1} /\ events'[1] = e
  OBVIOUS
<1> QED
  BY <1>1 DEF EventsTell

LEMMA RiseIsWallet ==
    ASSUME NEW m, NEW k
    PROVE  Rise(m, k) = WalletOf(m, k)' - WalletOf(m, k)
BY DEF Rise, WalletOf, Accounts

\* One token account of a member changes by d.
LEMMA RiseOfMove ==
    ASSUME LedgerInv, LedgerInv', NEW m \in Members, NEW a \in TokenAccounts, NEW d,
           Moves(a, d), OwnerOf[a] = m
    PROVE  Rise(m, MintOf[a]) = d
<1>1. MintOf[a] \in Mints
  BY AddressAssumption
<1>2. d \in Int /\ tokens' = [tokens EXCEPT ![a] = @ + d]
  BY DEF Moves
<1>3. WalletOf(m, MintOf[a])' = WalletOf(m, MintOf[a]) + d
  BY <1>1, <1>2, WalletMoved
<1>4. WalletOf(m, MintOf[a]) \in Nat
  BY WalletNat
<1> QED
  BY <1>2, <1>3, <1>4, RiseIsWallet

LEMMA RiseOfPayIn ==
    ASSUME LedgerInv, LedgerInv', NEW g \in Groups, NEW m \in Members,
           NEW a \in TokenAccounts, NEW amount \in Nat, PaysIn(g, m, a, amount)
    PROVE  Rise(m, group[g].mint) = -amount
<1>1. Moves(a, 0 - amount)
  BY PaysInMoves
<1>2. OwnerOf[a] = m /\ MintOf[a] = group[g].mint
  BY DEF PaysIn, MintAt
<1>3. Rise(m, MintOf[a]) = 0 - amount
  BY <1>1, <1>2, RiseOfMove
<1> QED
  BY <1>2, <1>3

LEMMA JoinTells ==
    ASSUME LedgerInv, LedgerInv', NEW g \in Groups, NEW m \in Members,
           NEW payer \in Payers, NEW account \in TokenAccounts, NEW authority,
           NEW durable, NEW terms, NEW expected,
           CallJoinGroup(g, m, payer, account, authority, durable, terms, expected)
    PROVE  EventsTell
<1> DEFINE amount == group[g].deposit_amount
           e == [event |-> "MemberJoined", group |-> g, member |-> m,
                 rentPayer |-> payer, amount |-> amount,
                 currentMembers |-> group'[g].current_members, joins |-> Joins(g, m)']
<1>1. events' = <<e>>
  BY DEF CallJoinGroup, Log
<1>2. PaysIn(g, m, account, amount)
  BY JoinMoney DEF CallJoinGroup
<1>3. amount \in Nat
  BY AmountAssumption
     DEF CallJoinGroup, JoinGroup, LedgerInv, MembershipInv, TypeOK, Exists, GroupConfig, U64
<1>4. Rise(m, group[g].mint) = -amount
  BY <1>2, <1>3, RiseOfPayIn
<1>5. Tells(e)
  BY <1>4 DEF Tells
<1> QED
  BY <1>1, <1>5, OneEvent

LEMMA DepositTells ==
    ASSUME LedgerInv, LedgerInv', NEW g \in Groups, NEW m \in Members,
           NEW account \in TokenAccounts, CallDeposit(g, m, account)
    PROVE  EventsTell
<1> DEFINE amount == group[g].deposit_amount
           e == [event |-> "DepositMade", group |-> g, member |-> m,
                 period |-> CurrentPeriod(group[g], now), amount |-> amount,
                 depositsMade |-> record'[<<g, m>>].deposits_made]
<1>1. events' = <<e>>
  BY DEF CallDeposit, Log
<1>2. PaysIn(g, m, account, amount)
  BY DepositMoney DEF CallDeposit
<1>3. amount \in Nat
  BY AmountAssumption
     DEF CallDeposit, Deposit, LedgerInv, MembershipInv, TypeOK, Exists, GroupConfig, U64
<1>4. Rise(m, group[g].mint) = -amount
  BY <1>2, <1>3, RiseOfPayIn
<1>5. Tells(e)
  BY <1>4 DEF Tells
<1> QED
  BY <1>1, <1>5, OneEvent

LEMMA LeaveTells ==
    ASSUME LedgerInv, LedgerInv', NEW g \in Groups, NEW m \in Members,
           NEW account \in TokenAccounts, CallLeaveGroup(g, m, account)
    PROVE  EventsTell
<1> DEFINE refund == record[<<g, m>>].total_deposited
           e == [event |-> "MemberLeft", group |-> g, member |-> m, refund |-> refund,
                 currentMembers |-> group'[g].current_members]
<1>1. events' = <<e>>
  BY DEF CallLeaveGroup, Log
<1>2. Withdraws(g, m, account)
  BY LeaveMoney DEF CallLeaveGroup
<1>3. HeldAt(g, m) = refund
  BY <1>2 DEF CallLeaveGroup, LeaveGroup, CloseRecord, Withdraws, HeldAt
<1>4. Rise(m, group[g].mint) = refund
  <2>1. Moves(account, HeldAt(g, m))
    BY <1>2, WithdrawsMoves
  <2>2. OwnerOf[account] = m /\ MintOf[account] = group[g].mint
    BY <1>2 DEF Withdraws, MintAt
  <2> HIDE DEF refund
  <2> QED
    BY <1>3, <2>1, <2>2, RiseOfMove
<1>5. Tells(e)
  BY <1>4 DEF Tells
<1> QED
  BY <1>1, <1>5, OneEvent

LEMMA CloseGroupTells ==
    ASSUME TypeOK, NEW g \in Groups, CallCloseGroup(g)
    PROVE  EventsTell
<1> DEFINE payer == group[g].rent_payer
           own == group[g].lamports
           gated == IF Exists(gate[g]) THEN gate[g].lamports ELSE 0
           e == [event |-> "GroupClosed", group |-> g, rentPayer |-> payer,
                 lamports |-> own, joinGateLamports |-> gated]
<1>1. events' = <<e>>
  BY DEF CallCloseGroup, Log
<1>2. payer \in Payers /\ own \in Nat
  BY DEF TypeOK, CallCloseGroup, CloseGroup, Exists, GroupConfig
<1>3. gated \in Nat
  BY DEF TypeOK, Exists, JoinGate
<1>4. purse'[payer] - purse[payer] = own + gated
  <2>1. purse' = [purse EXCEPT ![payer] = @ + own + gated]
    BY DEF CallCloseGroup, CloseGroup
  <2>2. purse \in [Payers -> Nat]
    BY DEF TypeOK
  <2> HIDE DEF payer, own, gated
  <2> QED
    BY <1>2, <1>3, <2>1, <2>2
<1>5. Tells(e)
  <2> HIDE DEF payer, own, gated
  <2> QED
    BY <1>4 DEF Tells
<1> QED
  BY <1>1, <1>5, OneEvent

\* A list with one element more.
LEMMA OneMore ==
    ASSUME NEW n \in Nat, NEW s, DOMAIN s = 1..n, s = [i \in 1..n |-> s[i]], NEW x
    PROVE  /\ DOMAIN (s \o <<x>>) = 1..n + 1
           /\ \A i \in 1..n : (s \o <<x>>)[i] = s[i]
           /\ (s \o <<x>>)[n + 1] = x
           /\ s \in Seq({s[i] : i \in 1..n}) /\ Len(s) = n
<1> DEFINE S == {s[i] : i \in 1..n} \cup {x}
<1>1. s \in [1..n -> S]
  OBVIOUS
<1>2. s \in Seq(S) /\ Len(s) = n
  <2> HIDE DEF S
  <2> QED
    BY <1>1
<1>3. <<x>> \in Seq(S) /\ Len(<<x>>) = 1 /\ <<x>>[1] = x
  OBVIOUS
<1>4. /\ DOMAIN (s \o <<x>>) = 1..n + 1
      /\ \A i \in 1..n : (s \o <<x>>)[i] = s[i]
      /\ (s \o <<x>>)[n + 1] = x
  <2> HIDE DEF S
  <2> QED
    BY <1>2, <1>3
<1>5. s \in Seq({s[i] : i \in 1..n})
  <2>1. s \in [1..n -> {s[i] : i \in 1..n}]
    OBVIOUS
  <2> DEFINE R == {s[i] : i \in 1..n}
  <2> HIDE DEF R
  <2>2. s \in [1..n -> R] => s \in Seq(R)
    OBVIOUS
  <2> QED
    BY <2>1, <2>2 DEF R
<1> QED
  BY <1>2, <1>4, <1>5

\* What a settlement logs: an event for every pair, and one of its own.
LEMMA SettlementLog ==
    ASSUME NEW g, NEW pairs \in PairLists, NEW last,
           events' = MemberSettledEvents(g, pairs) \o <<last>>
    PROVE  /\ DOMAIN events' = 1..Len(pairs) + 1
           /\ \A i \in DOMAIN pairs : events'[i] = MemberSettledEvents(g, pairs)[i]
           /\ events'[Len(pairs) + 1] = last
<1> DEFINE n == Len(pairs)
           s == MemberSettledEvents(g, pairs)
<1>1. n \in Nat /\ DOMAIN pairs = 1..n
  BY PairListDomain
<1>2. DOMAIN s = 1..n /\ s = [i \in 1..n |-> s[i]]
  BY <1>1 DEF MemberSettledEvents
<1> HIDE DEF n, s
<1>3. /\ DOMAIN (s \o <<last>>) = 1..n + 1
      /\ \A i \in 1..n : (s \o <<last>>)[i] = s[i]
      /\ (s \o <<last>>)[n + 1] = last
  BY <1>1, <1>2, OneMore
<1>4. events' = s \o <<last>>
  BY DEF s
<1> QED
  BY <1>1, <1>3, <1>4 DEF n, s

LEMMA SettledTells ==
    ASSUME LedgerInv, LedgerInv', NEW g \in Groups, NEW pairs \in PairLists,
           NEW burned, PaysBack(g, pairs, burned), NEW i \in DOMAIN pairs
    PROVE  Tells(MemberSettledEvents(g, pairs)[i])
<1>0. PICK m, k : m = Who(pairs)[i] /\ k = group[g].mint
  OBVIOUS
<1> DEFINE d == Payout(g, pairs, i)
<1>1. Unsettled(g) /\ SettlementChecks(g, pairs)
  BY DEF PaysBack
<1>2. /\ pairs[i].record = <<g, m>> /\ m \in Joined(g)
      /\ \A j \in DOMAIN pairs : Who(pairs)[j] = m => i = j
  BY <1>0, <1>1, ListCovers
<1>3. m \in Members /\ k \in Mints
  BY <1>0, <1>1, <1>2 DEF Joined, LedgerInv, MembershipInv, TypeOK, Unsettled, Exists, GroupConfig
<1>4. /\ Len(pairs) \in Nat /\ DOMAIN pairs = 1..Len(pairs)
  BY PairListDomain
<1>5. m = Lucky(pairs) <=> i = Len(pairs)
  BY <1>0, <1>2, <1>4 DEF Lucky
<1>6. d = HeldAt(g, m) + (IF m = Lucky(pairs) THEN SpareAt(g) ELSE 0) /\ d \in Nat
  BY <1>0, <1>1, <1>5, PayoutIsHeld DEF SpareAt
<1>7. WalletOf(m, k)' = WalletOf(m, k) + HeldAt(g, m)
                        + (IF m = Lucky(pairs) THEN SpareAt(g) ELSE 0)
  BY <1>0, <1>3, CreditedWallet
<1>8. WalletOf(m, k) \in Nat /\ HeldAt(g, m) \in Nat /\ PotAt(g) \in Nat /\ HeldIn(g) \in Nat
  BY <1>3, WalletNat, MoneyType, HeldInNat
<1>9. Rise(m, k) = d
  <2>1. SpareAt(g) \in Int
    BY <1>8 DEF SpareAt
  <2> HIDE DEF d
  <2> QED
    BY <1>6, <1>7, <1>8, <2>1, RiseIsWallet
<1>10. MemberSettledEvents(g, pairs)[i] =
         [event |-> "MemberSettled", group |-> g, member |-> m,
          deposited |-> record[pairs[i].record].total_deposited, payout |-> d]
  BY <1>0 DEF MemberSettledEvents, Who
<1> QED
  BY <1>0, <1>9, <1>10 DEF Tells

LEMMA PaidNat ==
    ASSUME LedgerInv, NEW g \in Groups, Unsettled(g), NEW pairs \in PairLists,
           SettlementChecks(g, pairs)
    PROVE  Paid(g, pairs, DOMAIN pairs) \in Nat
<1>1. IsFiniteSet(DOMAIN pairs)
  BY PairListDomain
<1> QED
  BY <1>1, CreditIsPayouts, SumNat

LEMMA DistributeTells ==
    ASSUME LedgerInv, LedgerInv', NEW g \in Groups, NEW pairs \in PairLists,
           CallDistribute(g, pairs)
    PROVE  EventsTell
<1> DEFINE last == [event |-> "GroupSettled", group |-> g,
                    members |-> group[g].current_members,
                    totalPaid |-> Paid(g, pairs, DOMAIN pairs)]
<1>1. events' = MemberSettledEvents(g, pairs) \o <<last>>
  BY DEF CallDistribute, Log
<1>2. /\ Exists(group[g]) /\ Unsettled(g) /\ SettlementChecks(g, pairs)
      /\ Settle(g, pairs, 0, "Completed")
      /\ group[g].status = "Active"
  BY DEF CallDistribute, Distribute, Unsettled, Settled
<1>3. UnownedVaultBalance(g) = 0
  BY <1>2 DEF LedgerInv, MembershipInv, GroupInv, UnownedVaultBalance
<1>4. PaysBack(g, pairs, 0)
  BY <1>2, <1>3, SettleMoney
<1>5. vault[g].amount = Paid(g, pairs, DOMAIN pairs)
  <2>1. vault[g].amount = Paid(g, pairs, DOMAIN pairs) + 0
    BY <1>2 DEF Settle, CanSettle
  <2>2. Paid(g, pairs, DOMAIN pairs) \in Nat
    BY <1>2, PaidNat
  <2> QED
    BY <2>1, <2>2
<1>6. Tells(last)
  BY <1>5 DEF Tells
<1>7. \A i \in DOMAIN pairs : Tells(MemberSettledEvents(g, pairs)[i])
  BY <1>4, SettledTells
<1> HIDE DEF last
<1> QED
  BY <1>1, <1>6, <1>7, SettlementLog, PairListDomain DEF EventsTell

LEMMA CancelTells ==
    ASSUME LedgerInv, LedgerInv', NEW g \in Groups, NEW pairs \in PairLists,
           NEW mint_writable, CallEmergencyCancel(g, pairs, mint_writable)
    PROVE  EventsTell
<1> DEFINE burned == UnownedVaultBalance(g)
           paid == Paid(g, pairs, DOMAIN pairs)
           last == [event |-> "GroupCancelled", group |-> g,
                    creator |-> group[g].creator, members |-> group[g].current_members,
                    refundedTotal |-> paid, burned |-> burned]
<1>1. events' = <<last>>
  BY DEF CallEmergencyCancel, Log
<1>2. /\ Exists(group[g]) /\ Unsettled(g) /\ SettlementChecks(g, pairs)
      /\ Settle(g, pairs, burned, "Cancelled")
  BY DEF CallEmergencyCancel, EmergencyCancel, CancelChecks, Unsettled, Settled
<1>3. PaysBack(g, pairs, burned) /\ \A h \in Groups : h # g => Keeps(h)
  BY <1>2, SettleMoney
<1>4. group[g].mint \in Mints
  BY <1>2 DEF LedgerInv, MembershipInv, TypeOK, Exists, GroupConfig
<1>5. \A k \in {group[g].mint} : Supply(k)' = Supply(k) - burned
  <2>1. \A k \in Mints : Supply(k) = Total(k) /\ Supply(k)' = Total(k)'
    BY SupplyIsTotal, SupplyIsTotalNext DEF SupplyView
  <2>2. \A k \in Mints :
          Total(k)' = IF k = group[g].mint THEN Total(k) - burned ELSE Total(k)
    BY <1>3, TotalPaidBack
  <2> HIDE DEF burned
  <2> QED
    BY <1>4, <2>1, <2>2
<1>6. vault[g].amount = paid + burned
  BY <1>2 DEF Settle, CanSettle
<1>7. Tells(last)
  <2> HIDE DEF paid, burned
  <2> QED
    BY <1>5, <1>6 DEF Tells
<1> QED
  BY <1>1, <1>7, OneEvent

LEMMA GroupCallTells ==
    ASSUME LedgerInv, LedgerInv', NEW g \in Groups, GroupCall(g)
    PROVE  EventsTell
<1>1. ASSUME NEW e, events' = <<e>>,
             e.event \in {"GroupCreated", "JoinAuthoritySet", "CycleStarted"}
      PROVE  EventsTell
  BY <1>1, OneEvent DEF Tells
<1>2. ASSUME NEW creator, NEW payer, NEW mint, NEW amount, NEW frequency, NEW periods,
             NEW size,
             CallCreateGroup(g, creator, payer, mint, amount, frequency, periods, size)
      PROVE  EventsTell
  BY <1>1, <1>2 DEF CallCreateGroup, Log
<1>3. ASSUME NEW authority, CallSetJoinAuthority(g, authority)
      PROVE  EventsTell
  BY <1>1, <1>3 DEF CallSetJoinAuthority, Log
<1>4. ASSUME CallStartCycle(g)
      PROVE  EventsTell
  BY <1>1, <1>4 DEF CallStartCycle, Log
<1>5. ASSUME CallRefundVaultRent(g)
      PROVE  EventsTell
  BY <1>5 DEF CallRefundVaultRent, Log, EventsTell
<1>6. ASSUME CallCloseGroup(g)
      PROVE  EventsTell
  BY <1>6, CloseGroupTells DEF LedgerInv, MembershipInv
<1> QED
  BY <1>2, <1>3, <1>4, <1>5, <1>6, DistributeTells, CancelTells DEF GroupCall

LEMMA MemberCallTells ==
    ASSUME LedgerInv, LedgerInv', NEW g \in Groups, NEW m \in Members, MemberCall(g, m)
    PROVE  EventsTell
<1>1. ASSUME CallCloseMemberRecord(g, m) \/ CallCloseJoinTally(g, m)
      PROVE  EventsTell
  BY <1>1 DEF CallCloseMemberRecord, CallCloseJoinTally, Log, EventsTell
<1> QED
  BY <1>1, JoinTells, LeaveTells, DepositTells DEF MemberCall

\* events.rs:57-87, docs/monitoring.md:88-93.  A reader who adds up the amounts
\* in the log has the members' balances, the vaults and the burns as they are,
\* whatever lists of pairs the settlements were called with.
THEOREM EventsTellTheTruth == ClientSpec => AmountsMoved
<1>1. LedgerInv /\ [ClientNext]_clientVars => [EventsTell]_clientVars
  <2> SUFFICES ASSUME LedgerInv, [ClientNext]_clientVars, clientVars' # clientVars
               PROVE  EventsTell
    OBVIOUS
  <2>1. LedgerInv'
    BY CallIsStep, NextLedgerInv
  <2>2. CASE OtherStep
    BY <2>2 DEF OtherStep, EventsTell
  <2> QED
    BY <2>1, <2>2, GroupCallTells, MemberCallTells DEF ClientNext
<1>2. ClientSpec => []LedgerInv
  BY ClientLedger, PTL
<1> QED
  BY <1>1, <1>2, PTL DEF ClientSpec, AmountsMoved, EventsTell, Tells

------------------------------------------------------------------------------
(* The reader goes event by event                                          *)

LEMMA MaxIsOneOf ==
    ASSUME NEW S, IsFiniteSet(S), S \subseteq Int, S # {}
    PROVE  Max(S) \in S
<1> DEFINE Good == {t \in SUBSET S : t # {} => \E x \in t : \A y \in t : x >= y}
<1>1. {} \in Good
  OBVIOUS
<1>2. ASSUME NEW t \in SUBSET S, NEW x \in S, x \notin t, t \in Good
      PROVE  t \cup {x} \in Good
  <2>1. CASE t = {}
    BY <2>1
  <2>2. CASE t # {}
    <3>1. PICK z \in t : \A y \in t : z >= y
      BY <1>2, <2>2
    <3>2. CASE x >= z
      <4>1. \A y \in t \cup {x} : x >= y
        BY <3>1, <3>2
      <4> QED
        BY <4>1
    <3>3. CASE ~(x >= z)
      <4>1. \A y \in t \cup {x} : z >= y
        BY <3>1, <3>3
      <4> QED
        BY <3>1, <4>1
    <3> QED
      BY <3>2, <3>3
  <2> QED
    BY <2>1, <2>2
<1>3. S \in Good
  <2> HIDE DEF Good
  <2> QED
    BY <1>1, <1>2, FiniteInduction
<1>4. \E x \in S : \A y \in S : x >= y
  BY <1>3
<1> QED
  BY <1>4 DEF Max

\* The recursive function inside FoldLeft(Read, base, seq).
IsReading(h, base, seq) ==
    h = [s \in SUBSET DOMAIN seq |->
           IF s = {} THEN base ELSE Read(h[s \ {Max(s)}], seq[Max(s)])]

LEMMA ReadingIsChosen ==
    ASSUME NEW base, NEW seq
    PROVE  FoldLeft(Read, base, seq) = (CHOOSE h : IsReading(h, base, seq))[DOMAIN seq]
BY DEF FoldLeft, MapThenFoldSet, IsReading

LEMMA ReadNothing ==
    ASSUME NEW base
    PROVE  FoldLeft(Read, base, <<>>) = base
<1> DEFINE f == [s \in {{}} |-> base]
<1>1. DOMAIN <<>> = {} /\ SUBSET {} = {{}}
  OBVIOUS
<1>2. IsReading(f, base, <<>>)
  BY <1>1 DEF IsReading
<1> DEFINE h == CHOOSE h : IsReading(h, base, <<>>)
<1>3. IsReading(h, base, <<>>)
  BY <1>2
<1>4. FoldLeft(Read, base, <<>>) = h[{}]
  BY <1>1, ReadingIsChosen
<1> HIDE DEF h
<1> QED
  BY <1>1, <1>3, <1>4 DEF IsReading

\* All events but the last one change nothing.
LEMMA ReadLast ==
    ASSUME NEW base, NEW n \in Nat, NEW seq, DOMAIN seq = 1..n + 1,
           \A i \in 1..n : Read(base, seq[i]) = base
    PROVE  FoldLeft(Read, base, seq) = Read(base, seq[n + 1])
<1> DEFINE I == 1..n + 1
           f == [s \in SUBSET I |-> IF n + 1 \in s THEN Read(base, seq[n + 1]) ELSE base]
<1>1. ASSUME NEW s \in SUBSET I, s # {}
      PROVE  /\ Max(s) \in s
             /\ n + 1 \in s => Max(s) = n + 1
             /\ n + 1 \notin s => Max(s) \in 1..n
             /\ n + 1 \notin s \ {n + 1}
  <2>1. IsFiniteSet(s) /\ s \subseteq Int
    <3>1. IsFiniteSet(1..n + 1)
      BY FS_Interval
    <3>2. s \subseteq 1..n + 1
      OBVIOUS
    <3>3. IsFiniteSet(s)
      BY <3>1, <3>2, FS_Subset
    <3> QED
      BY <3>2, <3>3
  <2>2. Max(s) \in s
    BY <1>1, <2>1, MaxIsOneOf
  <2>3. ASSUME n + 1 \in s
        PROVE  Max(s) = n + 1
    <3>1. \A y \in s : n + 1 >= y
      OBVIOUS
    <3>2. \E x \in s : \A y \in s : x >= y
      BY <2>3, <3>1
    <3> HIDE DEF I
    <3>3. Max(s) \in s /\ \A y \in s : Max(s) >= y
      BY <3>2, Zenon DEF Max
    <3>4. Max(s) >= n + 1 /\ n + 1 >= Max(s)
      BY <2>3, <3>1, <3>3
    <3>5. Max(s) \in Int
      BY <2>1, <3>3
    <3> QED
      BY <3>4, <3>5
  <2>4. n + 1 \notin s => Max(s) \in 1..n
    <3>1. n + 1 \notin s => s \subseteq 1..n
      OBVIOUS
    <3> HIDE DEF I
    <3> QED
      BY <2>2, <3>1
  <2> QED
    BY <2>2, <2>3, <2>4
<1>2. IsReading(f, base, seq)
  <2>1. ASSUME NEW s \in SUBSET I
        PROVE  f[s] = IF s = {} THEN base ELSE Read(f[s \ {Max(s)}], seq[Max(s)])
    <3>1. CASE s = {}
      BY <3>1
    <3>2. CASE n + 1 \in s
      <4>1. s # {} /\ Max(s) = n + 1 /\ n + 1 \notin s \ {n + 1}
        BY <1>1, <3>2
      <4>2. f[s] = Read(base, seq[n + 1]) /\ f[s \ {n + 1}] = base
        BY <3>2
      <4> HIDE DEF f
      <4> QED
        BY <4>1, <4>2
    <3>3. CASE s # {} /\ n + 1 \notin s
      <4>1. Max(s) \in 1..n
        BY <1>1, <3>3
      <4>2. f[s] = base /\ f[s \ {Max(s)}] = base
        BY <3>3
      <4> HIDE DEF f
      <4> QED
        BY <3>3, <4>1, <4>2
    <3> QED
      BY <3>1, <3>2, <3>3
  <2>2. f = [s \in SUBSET I |->
               IF s = {} THEN base ELSE Read(f[s \ {Max(s)}], seq[Max(s)])]
    BY <2>1, Zenon
  <2> HIDE DEF f
  <2> QED
    BY <2>2 DEF IsReading
<1> DEFINE h == CHOOSE h : IsReading(h, base, seq)
<1>3. IsReading(h, base, seq)
  <2> HIDE DEF f
  <2> QED
    BY <1>2
<1>4. FoldLeft(Read, base, seq) = h[I]
  BY ReadingIsChosen
<1> HIDE DEF h, f
<1>5. \A s \in SUBSET I :
        h[s] = IF s = {} THEN base ELSE Read(h[s \ {Max(s)}], seq[Max(s)])
  BY <1>3 DEF IsReading
<1> DEFINE Good == {s \in SUBSET (1..n) : h[s] = base}
<1>6. ASSUME NEW s \in SUBSET (1..n), \A t \in SUBSET s : t # s => t \in Good
      PROVE  s \in Good
  <2>1. s \in SUBSET I /\ n + 1 \notin s
    OBVIOUS
  <2>2. CASE s = {}
    BY <1>5, <2>1, <2>2
  <2>3. CASE s # {}
    <3>1. Max(s) \in s /\ Max(s) \in 1..n
      BY <1>1, <2>1, <2>3
    <3>2. h[s \ {Max(s)}] = base
      BY <1>6, <3>1
    <3>3. h[s] = Read(base, seq[Max(s)])
      BY <1>5, <2>1, <2>3, <3>2
    <3> QED
      BY <3>1, <3>3
  <2> QED
    BY <2>2, <2>3
<1>7. h[1..n] = base
  <2>1. IsFiniteSet(1..n) /\ 1..n \in SUBSET (1..n)
    BY FS_Interval
  <2>2. 1..n \in Good
    <3> HIDE DEF Good, I
    <3>1. \A s \in SUBSET (1..n) : (\A t \in SUBSET s : t # s => t \in Good) => s \in Good
      BY <1>6, Zenon
    <3>2. \A s \in SUBSET (1..n) : s \in Good
      BY <2>1, <3>1, SubsetInduction
    <3> QED
      BY <2>1, <3>2
  <2> QED
    BY <2>2
<1>8. I # {} /\ n + 1 \in I /\ I \ {n + 1} = 1..n /\ I \in SUBSET I
  OBVIOUS
<1>9. Max(I) = n + 1
  BY <1>1, <1>8
<1> HIDE DEF I
<1> QED
  BY <1>4, <1>5, <1>7, <1>8, <1>9

LEMMA ReadOne ==
    ASSUME NEW base, NEW e
    PROVE  FoldLeft(Read, base, <<e>>) = Read(base, e)
<1>1. DOMAIN <<e>> = 1..0 + 1 /\ <<e>>[0 + 1] = e /\ 1..0 = {}
  OBVIOUS
<1> QED
  BY <1>1, ReadLast

\* ReaderKnowsGroups for one group.
KnownAt(g) ==
    /\ Exists(seen[g]) <=> Exists(group[g])
    /\ Exists(group[g]) =>
         /\ seen[g].status = group[g].status
         /\ seen[g].creator = group[g].creator /\ seen[g].mint = group[g].mint
         /\ seen[g].authority = IF Exists(gate[g]) THEN gate[g].authority ELSE None
         /\ group[g].status = "Active" => seen[g].cycleEnd = CycleEnd(group[g])
         /\ Unsettled(g) =>
              seen[g].held = [m \in Joined(g) |-> record[<<g, m>>].total_deposited]

SeenOK == seen \in [Groups -> Account \cup {None}]
ReaderInv == SeenOK /\ \A g \in Groups : KnownAt(g)

\* One event, and none.
LEMMA SeesOne ==
    ASSUME SeenOK, NEW g \in Groups, NEW metas, NEW e, Log(g, metas, <<e>>)
    PROVE  seen' = [seen EXCEPT ![g] = Read(seen[g], e)]
<1>1. FoldLeft(Read, seen[g], <<e>>) = Read(seen[g], e)
  BY ReadOne
<1> QED
  BY <1>1 DEF Log

LEMMA SeesNothing ==
    ASSUME SeenOK, NEW g \in Groups, NEW metas, Log(g, metas, <<>>)
    PROVE  seen' = seen
<1>1. FoldLeft(Read, seen[g], <<>>) = seen[g]
  BY ReadNothing
<1>2. seen' = [seen EXCEPT ![g] = seen[g]]
  BY <1>1 DEF Log
<1> QED
  BY <1>2 DEF SeenOK

\* The members' events of a settlement leave the account as it is.
LEMMA SeesSettlement ==
    ASSUME SeenOK, NEW g \in Groups, NEW metas, NEW pairs \in PairLists, NEW e,
           Log(g, metas, MemberSettledEvents(g, pairs) \o <<e>>)
    PROVE  seen' = [seen EXCEPT ![g] = Read(seen[g], e)]
<1>1. events' = MemberSettledEvents(g, pairs) \o <<e>>
  BY DEF Log
<1>2. /\ DOMAIN events' = 1..Len(pairs) + 1
      /\ \A i \in DOMAIN pairs : events'[i] = MemberSettledEvents(g, pairs)[i]
      /\ events'[Len(pairs) + 1] = e
  BY <1>1, SettlementLog
<1>3. Len(pairs) \in Nat /\ DOMAIN pairs = 1..Len(pairs)
  BY PairListDomain
<1>4. \A i \in 1..Len(pairs) : Read(seen[g], events'[i]) = seen[g]
  BY <1>2, <1>3 DEF MemberSettledEvents, Read
<1>5. FoldLeft(Read, seen[g], events') = Read(seen[g], events'[Len(pairs) + 1])
  BY <1>2, <1>3, <1>4, ReadLast
<1>6. seen' = [seen EXCEPT ![g] = FoldLeft(Read, seen[g], events')]
  BY <1>1 DEF Log
<1> QED
  BY <1>2, <1>5, <1>6

\* Nothing changes that the reader keeps track of.
LEMMA KnownStays ==
    ASSUME NEW h \in Groups, KnownAt(h), seen'[h] = seen[h], gate'[h] = gate[h],
           Exists(group'[h]) <=> Exists(group[h]),
           Exists(group[h]) =>
             /\ group'[h].status = group[h].status
             /\ group'[h].creator = group[h].creator
             /\ group'[h].mint = group[h].mint
             /\ group'[h].cycle_start = group[h].cycle_start
             /\ group'[h].total_periods = group[h].total_periods
             /\ group'[h].frequency = group[h].frequency,
           Unsettled(h) => \A m \in Members : record'[<<h, m>>] = record[<<h, m>>]
    PROVE  KnownAt(h)'
<1>1. Unsettled(h)' <=> Unsettled(h)
  BY DEF Unsettled, Settled
<1>2. ASSUME Unsettled(h)
      PROVE  [m \in Joined(h) |-> record[<<h, m>>].total_deposited]' =
               [m \in Joined(h) |-> record[<<h, m>>].total_deposited]
  <2>1. Joined(h)' = Joined(h)
    BY <1>2 DEF Joined
  <2>2. \A m \in Joined(h) : record'[<<h, m>>] = record[<<h, m>>]
    BY <1>2 DEF Joined
  <2> QED
    BY <2>1, <2>2
<1>3. Exists(group[h]) => CycleEnd(group'[h]) = CycleEnd(group[h])
  BY DEF CycleEnd
<1> QED
  BY <1>1, <1>2, <1>3 DEF KnownAt

\* A call at group g touches accounts of g only.
Elsewhere(g) ==
    \A h \in Groups \ {g} :
        /\ group'[h] = group[h] /\ gate'[h] = gate[h]
        /\ \A m \in Members : record'[<<h, m>>] = record[<<h, m>>]

LEMMA KnownElsewhere ==
    ASSUME ReaderInv, NEW g \in Groups, NEW a \in Account \cup {None},
           seen' = [seen EXCEPT ![g] = a], KnownAt(g)', Elsewhere(g)
    PROVE  ReaderInv'
<1>1. SeenOK'
  BY DEF ReaderInv, SeenOK
<1>2. ASSUME NEW h \in Groups, h # g
      PROVE  KnownAt(h)'
  <2>1. seen'[h] = seen[h]
    BY <1>2 DEF ReaderInv, SeenOK
  <2>2. KnownAt(h)
    BY DEF ReaderInv
  <2> QED
    BY <1>2, <2>1, <2>2, KnownStays DEF Elsewhere
<1> QED
  BY <1>1, <1>2 DEF ReaderInv

\* The reader's account of a group that exists.
LEMMA KnownAccount ==
    ASSUME TypeOK, ReaderInv, NEW g \in Groups, Exists(group[g])
    PROVE  /\ seen[g] \in Account /\ group[g] \in GroupConfig
           /\ seen[g].status = group[g].status
           /\ seen[g].creator = group[g].creator /\ seen[g].mint = group[g].mint
           /\ seen[g].authority = IF Exists(gate[g]) THEN gate[g].authority ELSE None
           /\ group[g].status = "Active" => seen[g].cycleEnd = CycleEnd(group[g])
           /\ Unsettled(g) =>
                seen[g].held = [m \in Joined(g) |-> record[<<g, m>>].total_deposited]
<1>1. KnownAt(g) /\ seen[g] \in Account \cup {None}
  BY DEF ReaderInv, SeenOK
<1>2. seen[g] \in Account
  BY <1>1 DEF KnownAt, Exists
<1>3. group[g] \in GroupConfig
  BY DEF TypeOK, Exists
<1> QED
  BY <1>1, <1>2, <1>3 DEF KnownAt

LEMMA HeldAccount ==
    ASSUME NEW S \in SUBSET Members, NEW f \in [S -> U64]
    PROVE  f \in UNION {[T -> U64] : T \in SUBSET Members}
OBVIOUS

LEMMA CreateKnown ==
    ASSUME MembershipInv, TypeOK', ReaderInv, NEW g \in Groups, NEW creator \in Creators,
           NEW payer \in Payers, NEW mint \in Mints, NEW amount \in DepositAmounts,
           NEW frequency \in Frequencies, NEW periods \in PeriodCounts,
           NEW size \in GroupSizes,
           CallCreateGroup(g, creator, payer, mint, amount, frequency, periods, size)
    PROVE  ReaderInv'
<1> DEFINE e == [event |-> "GroupCreated", group |-> g, creator |-> creator,
                 rentPayer |-> payer, mint |-> mint, depositAmount |-> amount,
                 totalPeriods |-> periods, maxMembers |-> size]
           a == [status |-> "Open", creator |-> creator, mint |-> mint,
                 authority |-> None, cycleEnd |-> 0, held |-> [m \in {} |-> 0]]
<1>1. TypeOK /\ ~Exists(group[g]) /\ SeenOK
      /\ CreateGroup(g, creator, payer, mint, amount, frequency, periods, size)
  BY DEF CallCreateGroup, CreateGroup, MembershipInv, ReaderInv
<1>2. Read(seen[g], e) = a
  BY DEF Read
<1>3. seen' = [seen EXCEPT ![g] = a]
  BY <1>1, <1>2, SeesOne DEF CallCreateGroup
<1>4. a \in Account
  <2>1. [m \in {} |-> 0] \in [{} -> U64]
    OBVIOUS
  <2>2. [m \in {} |-> 0] \in UNION {[T -> U64] : T \in SUBSET Members}
    BY <2>1, HeldAccount
  <2>3. 0 \in I64
    BY TimeAssumption DEF I64
  <2> QED
    BY <2>2, <2>3 DEF Account, Statuses
<1>5. /\ group'[g].status = "Open" /\ group'[g].creator = creator
      /\ group'[g].mint = mint /\ Exists(group'[g])
  <2>1. group'[g] =
         [creator |-> creator, rent_payer |-> payer, mint |-> mint,
          deposit_amount |-> amount, cycle_start |-> 0, settled_at |-> 0,
          frequency |-> frequency, total_periods |-> periods,
          max_members |-> size, current_members |-> 0,
          status |-> "Open", lamports |-> Floor("group")]
    BY <1>1 DEF TypeOK, CreateGroup
  <2>2. group'[g] \in GroupConfig
    <3>1. frequency \in 0..(MaxFrequency + 1)
      BY TimeAssumption DEF Frequencies
    <3>2. Create(g)
      BY <1>1, <3>1 DEF Create
    <3> QED
      BY <1>1, <3>2, CreateEffect DEF Opened
  <2> QED
    BY <2>1, <2>2, NoneAssumption DEF Exists
<1>6. ~Exists(gate'[g]) /\ Joined(g)' = {}
  BY <1>1 DEF MembershipInv, GroupInv, CreateGroup, Joined
<1>7. seen'[g] = a /\ Exists(seen'[g])
  <2> HIDE DEF a
  <2> QED
    BY <1>1, <1>3, <1>4, ReaderAssumption DEF SeenOK, Exists
<1>8. KnownAt(g)'
  BY <1>5, <1>6, <1>7 DEF KnownAt
<1>9. Elsewhere(g)
  BY <1>1, CreateTouches DEF Touches, Elsewhere, Pdas
<1> HIDE DEF a
<1> QED
  BY <1>3, <1>4, <1>8, <1>9, KnownElsewhere

LEMMA GateKnown ==
    ASSUME TypeOK, ReaderInv, NEW g \in Groups, NEW authority \in Keys,
           CallSetJoinAuthority(g, authority)
    PROVE  ReaderInv'
<1> DEFINE e == [event |-> "JoinAuthoritySet", group |-> g,
                 creator |-> group[g].creator, authority |-> authority]
           a == [seen[g] EXCEPT !.authority = authority]
<1>1. SeenOK /\ Exists(group[g]) /\ SetJoinAuthority(g, authority)
  BY DEF CallSetJoinAuthority, SetJoinAuthority, ReaderInv
<1>2. Read(seen[g], e) = a
  BY DEF Read
<1>3. seen' = [seen EXCEPT ![g] = a]
  BY <1>1, <1>2, SeesOne DEF CallSetJoinAuthority
<1>4. /\ a \in Account /\ a.authority = authority
      /\ a.status = seen[g].status /\ a.creator = seen[g].creator
      /\ a.mint = seen[g].mint /\ a.cycleEnd = seen[g].cycleEnd /\ a.held = seen[g].held
  BY <1>1, KnownAccount DEF Account
<1>5. gate'[g].authority = authority /\ Exists(gate'[g])
  <2>1. gate'[g] = [authority |-> authority, lamports |-> Floor("gate")]
    BY <1>1 DEF TypeOK, SetJoinAuthority
  <2>2. gate'[g] \in JoinGate
    BY <2>1, FloorNat DEF JoinGate, Kinds
  <2> QED
    BY <2>1, <2>2, NoneAssumption DEF Exists
<1>6. group' = group /\ record' = record
  BY <1>1 DEF SetJoinAuthority
<1>7. seen'[g] = a /\ Exists(seen'[g])
  <2> HIDE DEF a
  <2> QED
    BY <1>1, <1>3, <1>4, ReaderAssumption DEF SeenOK, Exists
<1>8. KnownAt(g)'
  <2>1. Unsettled(g)' = Unsettled(g) /\ Joined(g)' = Joined(g)
    BY <1>6 DEF Unsettled, Settled, Joined
  <2> HIDE DEF a
  <2> QED
    BY <1>1, <1>4, <1>5, <1>6, <1>7, <2>1, KnownAccount DEF KnownAt
<1>9. Elsewhere(g)
  BY <1>1, SetJoinAuthorityTouches DEF Touches, Elsewhere, Pdas
<1> HIDE DEF a
<1> QED
  BY <1>3, <1>4, <1>8, <1>9, KnownElsewhere

LEMMA CycleEndNat ==
    ASSUME NEW cfg \in GroupConfig
    PROVE  CycleEnd(cfg) \in Nat /\ cfg.cycle_start <= CycleEnd(cfg)
<1>1. cfg.frequency \in 0..MaxFrequency /\ cfg.total_periods \in 1..52
      /\ cfg.cycle_start \in Nat
  BY DEF GroupConfig, Frequencies, MaxPeriods
<1>2. PeriodSecs[cfg.frequency] \in Nat
  BY <1>1, TimeAssumption
<1>3. \A x, y, z \in Nat : x + y * z \in Nat /\ x <= x + y * z
  OBVIOUS
<1>4. cfg.total_periods \in Nat
  BY <1>1
<1> QED
  BY <1>1, <1>2, <1>3, <1>4 DEF CycleEnd

LEMMA StartKnown ==
    ASSUME TypeOK, TypeOK', ReaderInv, NEW g \in Groups, CallStartCycle(g)
    PROVE  ReaderInv'
<1>0. PICK ends : ends = CycleEnd(group'[g])
  OBVIOUS
<1> DEFINE e == [event |-> "CycleStarted", group |-> g,
                 members |-> group[g].current_members, cycleStart |-> now,
                 cycleEnd |-> ends]
           a == [seen[g] EXCEPT !.status = "Active", !.cycleEnd = ends]
<1>1. SeenOK /\ Exists(group[g]) /\ StartCycle(g)
  BY DEF CallStartCycle, StartCycle, ReaderInv
<1>2. Read(seen[g], e) = a
  BY DEF Read
<1>3. seen' = [seen EXCEPT ![g] = a]
  BY <1>0, <1>1, <1>2, SeesOne DEF CallStartCycle
<1>4. Started(g)
  BY <1>1, StartEffect
<1>5. /\ group'[g].status = "Active" /\ group'[g].creator = group[g].creator
      /\ group'[g].mint = group[g].mint /\ Exists(group'[g])
  BY <1>1, <1>4, NoneAssumption, KnownAccount DEF Started, GroupConfig, Exists
<1>6. ends \in I64
  <2>1. group'[g] \in GroupConfig
    BY <1>4 DEF Started
  <2>2. CycleEnd(group'[g]) \in Nat
    BY <2>1, CycleEndNat
  <2>3. CycleEnd(group'[g]) <= MaxI64
    BY <1>1 DEF StartCycle, InI64
  <2> QED
    BY <1>0, <2>2, <2>3, TimeAssumption DEF I64
<1>7. /\ a \in Account /\ a.authority = seen[g].authority
      /\ a.status = "Active" /\ a.creator = seen[g].creator
      /\ a.mint = seen[g].mint /\ a.cycleEnd = ends /\ a.held = seen[g].held
  BY <1>1, <1>6, KnownAccount DEF Account, Statuses
<1>8. seen'[g] = a /\ Exists(seen'[g])
  <2> HIDE DEF a
  <2> QED
    BY <1>1, <1>3, <1>7, ReaderAssumption DEF SeenOK, Exists
<1>9. KnownAt(g)'
  <2>1. gate' = gate /\ record' = record /\ group[g].status = "Open"
    BY <1>1 DEF StartCycle
  <2>2. Joined(g)' = Joined(g) /\ Unsettled(g)
    BY <1>1, <2>1 DEF Joined, Unsettled, Settled
  <2> HIDE DEF a
  <2> QED
    BY <1>0, <1>1, <1>5, <1>7, <1>8, <2>1, <2>2, KnownAccount DEF KnownAt
<1>10. Elsewhere(g)
  BY <1>1, StartTouches DEF Touches, Elsewhere, Pdas
<1> HIDE DEF a
<1> QED
  BY <1>3, <1>7, <1>9, <1>10, KnownElsewhere

\* distribute, emergency_cancel: the reader learns the outcome.
LEMMA SettleKnown ==
    ASSUME TypeOK, ReaderInv, NEW g \in Groups, NEW pairs, NEW burned,
           NEW outcome \in {"Completed", "Cancelled"}, NEW a,
           Exists(group[g]), Exists(vault[g]),
           Settle(g, pairs, burned, outcome),
           a = [seen[g] EXCEPT !.status = outcome],
           seen' = [seen EXCEPT ![g] = a]
    PROVE  ReaderInv'
<1>1. SeenOK /\ outcome \in Statuses
  BY DEF ReaderInv, Statuses
<1>2. /\ a \in Account /\ a.authority = seen[g].authority
      /\ a.status = outcome /\ a.creator = seen[g].creator
      /\ a.mint = seen[g].mint
  <2>1. seen[g] \in Account
    BY KnownAccount
  <2>2. a \in Account
    BY <1>1, <2>1 DEF Account
  <2>3. a.status = outcome
    BY <2>1 DEF Account
  <2>4. a.authority = seen[g].authority /\ a.creator = seen[g].creator
    BY <2>1 DEF Account
  <2>5. a.mint = seen[g].mint
    BY <2>1 DEF Account
  <2> QED
    BY <2>2, <2>3, <2>4, <2>5
<1>3. /\ group'[g].status = outcome /\ group'[g].creator = group[g].creator
      /\ group'[g].mint = group[g].mint /\ Exists(group'[g])
  <2>1. Exists(group'[g])
    BY <1>1, SettledGroup, NoneAssumption DEF Exists
  <2> DEFINE l == group[g].lamports + vault[g].lamports
  <2>2. group' = [group EXCEPT ![g].status = outcome, ![g].settled_at = now,
                               ![g].lamports = l]
    BY DEF Settle
  <2> HIDE DEF l
  <2>3. group'[g] = [group[g] EXCEPT !.status = outcome, !.settled_at = now,
                                     !.lamports = l]
    BY <2>2, KnownAccount DEF TypeOK, GroupConfig
  <2> QED
    BY <2>1, <2>3, KnownAccount DEF GroupConfig
<1>4. seen'[g] = a /\ Exists(seen'[g])
  BY <1>1, <1>2, ReaderAssumption DEF SeenOK, Exists
<1>5. gate' = gate /\ ~Unsettled(g)'
  BY <1>3 DEF Settle, Unsettled, Settled
<1>6. KnownAt(g)'
  BY <1>2, <1>3, <1>4, <1>5, KnownAccount DEF KnownAt
<1>7. Elsewhere(g)
  BY SettleTouches DEF Touches, Elsewhere, Pdas
<1> QED
  BY <1>2, <1>6, <1>7, KnownElsewhere

LEMMA DistributeKnown ==
    ASSUME TypeOK, ReaderInv, NEW g \in Groups, NEW pairs \in PairLists,
           CallDistribute(g, pairs)
    PROVE  ReaderInv'
<1> DEFINE e == [event |-> "GroupSettled", group |-> g,
                 members |-> group[g].current_members,
                 totalPaid |-> Paid(g, pairs, DOMAIN pairs)]
<1>1. /\ SeenOK /\ Exists(group[g]) /\ Settle(g, pairs, 0, "Completed")
      /\ Exists(vault[g])
  BY DEF CallDistribute, Distribute, SettlementChecks, ReaderInv
<1>2. Read(seen[g], e) = [seen[g] EXCEPT !.status = "Completed"]
  BY DEF Read
<1>3. seen' = [seen EXCEPT ![g] = [seen[g] EXCEPT !.status = "Completed"]]
  <2>1. seen' = [seen EXCEPT ![g] = Read(seen[g], e)]
    BY <1>1, SeesSettlement DEF CallDistribute
  <2> QED
    BY <1>2, <2>1
<1> QED
  BY <1>1, <1>3, SettleKnown

LEMMA CancelKnown ==
    ASSUME TypeOK, ReaderInv, NEW g \in Groups, NEW pairs \in PairLists,
           NEW mint_writable, CallEmergencyCancel(g, pairs, mint_writable)
    PROVE  ReaderInv'
<1> DEFINE e == [event |-> "GroupCancelled", group |-> g, creator |-> group[g].creator,
                 members |-> group[g].current_members,
                 refundedTotal |-> Paid(g, pairs, DOMAIN pairs),
                 burned |-> UnownedVaultBalance(g)]
<1>1. /\ SeenOK /\ Exists(group[g]) /\ Exists(vault[g])
      /\ Settle(g, pairs, UnownedVaultBalance(g), "Cancelled")
  BY DEF CallEmergencyCancel, EmergencyCancel, CancelChecks, SettlementChecks, ReaderInv
<1>2. Read(seen[g], e) = [seen[g] EXCEPT !.status = "Cancelled"]
  BY DEF Read
<1>3. seen' = [seen EXCEPT ![g] = [seen[g] EXCEPT !.status = "Cancelled"]]
  <2>1. seen' = [seen EXCEPT ![g] = Read(seen[g], e)]
    BY <1>1, SeesOne DEF CallEmergencyCancel
  <2> QED
    BY <1>2, <2>1
<1> QED
  BY <1>1, <1>3, SettleKnown

LEMMA CloseGroupKnown ==
    ASSUME TypeOK, ReaderInv, NEW g \in Groups, CallCloseGroup(g)
    PROVE  ReaderInv'
<1> DEFINE e == [event |-> "GroupClosed", group |-> g,
                 rentPayer |-> group[g].rent_payer, lamports |-> group[g].lamports,
                 joinGateLamports |-> IF Exists(gate[g]) THEN gate[g].lamports ELSE 0]
<1>1. SeenOK /\ CloseGroup(g)
  BY DEF CallCloseGroup, ReaderInv
<1>2. Read(seen[g], e) = None
  BY DEF Read
<1>3. seen' = [seen EXCEPT ![g] = None]
  BY <1>1, <1>2, SeesOne DEF CallCloseGroup
<1>4. ~Exists(seen'[g]) /\ ~Exists(group'[g])
  BY <1>1, <1>3 DEF SeenOK, CloseGroup, TypeOK, Exists
<1>5. KnownAt(g)'
  BY <1>4 DEF KnownAt
<1>6. Elsewhere(g)
  BY <1>1, CloseGroupTouches DEF Touches, Elsewhere, Pdas
<1> QED
  BY <1>3, <1>5, <1>6, KnownElsewhere

LEMMA CountedOut ==
    ASSUME TypeOK, NEW g \in Groups, NEW m, Exists(group[g]), CloseRecord(g, m)
    PROVE  /\ Exists(group'[g]) /\ group'[g].status = group[g].status
           /\ group'[g].creator = group[g].creator /\ group'[g].mint = group[g].mint
           /\ CycleEnd(group'[g]) = CycleEnd(group[g])
<1>1. group[g] \in GroupConfig /\ group[g].current_members > 0
  BY DEF TypeOK, CloseRecord, Exists
<1>2. group'[g] = [group[g] EXCEPT !.current_members = @ - 1]
  BY DEF TypeOK, CloseRecord
<1>3. group'[g] \in GroupConfig
  BY <1>1, <1>2 DEF GroupConfig
<1> QED
  BY <1>1, <1>2, <1>3, NoneAssumption DEF Exists, GroupConfig, CycleEnd

\* What each member has in the vault, by the records.
HeldNow(g) == [m \in Joined(g) |-> record[<<g, m>>].total_deposited]

\* The reader's entries change, and so do the records.
LEMMA HeldKnown ==
    ASSUME TypeOK, TypeOK', ReaderInv, NEW g \in Groups, NEW a, Unsettled(g),
           a = [seen[g] EXCEPT !.held = HeldNow(g)'],
           seen' = [seen EXCEPT ![g] = a],
           Exists(group'[g]),
           group'[g].status = group[g].status, group'[g].creator = group[g].creator,
           group'[g].mint = group[g].mint, CycleEnd(group'[g]) = CycleEnd(group[g]),
           gate' = gate, Elsewhere(g)
    PROVE  ReaderInv'
<1>1. SeenOK /\ Exists(group[g])
  BY DEF ReaderInv, Unsettled
<1>2. /\ a \in Account /\ a.authority = seen[g].authority
      /\ a.status = seen[g].status /\ a.creator = seen[g].creator
      /\ a.mint = seen[g].mint /\ a.cycleEnd = seen[g].cycleEnd
      /\ a.held = HeldNow(g)'
  <2>1. HeldNow(g)' \in UNION {[T -> U64] : T \in SUBSET Members}
    <3>1. Joined(g)' \subseteq Members /\ HeldNow(g)' \in [Joined(g)' -> U64]
      <4>1. \A m \in Joined(g)' : record'[<<g, m>>].total_deposited \in U64
        BY DEF TypeOK, Joined, Exists, Pdas, MemberRecord
      <4> QED
        BY <4>1 DEF HeldNow, Joined
    <3> QED
      BY <3>1, HeldAccount
  <2> QED
    BY <1>1, <2>1, KnownAccount DEF Account
<1>3. seen'[g] = a /\ Exists(seen'[g])
  BY <1>1, <1>2, ReaderAssumption DEF SeenOK, Exists
<1>4. KnownAt(g)'
  BY <1>1, <1>2, <1>3, KnownAccount DEF KnownAt, HeldNow
<1> QED
  BY <1>2, <1>4, KnownElsewhere

LEMMA JoinKnown ==
    ASSUME TypeOK, TypeOK', ReaderInv, NEW g \in Groups, NEW m \in Members,
           NEW payer \in Payers, NEW account \in TokenAccounts, NEW authority,
           NEW durable, NEW terms, NEW expected,
           CallJoinGroup(g, m, payer, account, authority, durable, terms, expected)
    PROVE  ReaderInv'
<1> DEFINE e == [event |-> "MemberJoined", group |-> g, member |-> m,
                 rentPayer |-> payer, amount |-> group[g].deposit_amount,
                 currentMembers |-> group'[g].current_members, joins |-> Joins(g, m)']
           held == seen[g].held
           b == [seen[g] EXCEPT !.held =
                   [n \in DOMAIN held \cup {m} |->
                      IF n = m THEN group[g].deposit_amount ELSE held[n]]]
<1>1. /\ JoinGroup(g, m, payer, account, authority, durable, terms, expected)
      /\ SeenOK /\ Exists(group[g]) /\ Unsettled(g)
  BY DEF CallJoinGroup, JoinGroup, ReaderInv, Unsettled, Settled
<1>2. Read(seen[g], e) = b
  BY DEF Read
<1>3. seen' = [seen EXCEPT ![g] = b]
  <2>1. seen' = [seen EXCEPT ![g] = Read(seen[g], e)]
    BY <1>1, SeesOne DEF CallJoinGroup
  <2> QED
    BY <1>2, <2>1
<1>4. FirstDeposit(g, m) /\ \A p \in Pdas : p # <<g, m>> => record'[p] = record[p]
  BY <1>1, JoinRecord
<1>5. Joined(g)' = Joined(g) \cup {m}
  BY <1>4, NoneAssumption DEF FirstDeposit, Joined, Exists, Pdas
<1>6. HeldNow(g)' =
        [n \in DOMAIN held \cup {m} |->
           IF n = m THEN group[g].deposit_amount ELSE held[n]]
  <2>1. held = HeldNow(g)
    BY <1>1, KnownAccount DEF HeldNow
  <2>2. /\ record'[<<g, m>>].total_deposited = group[g].deposit_amount
        /\ \A n \in Joined(g) \ {m} : record'[<<g, n>>] = record[<<g, n>>]
    BY <1>4 DEF FirstDeposit, Joined, Pdas
  <2> QED
    BY <1>5, <2>1, <2>2 DEF HeldNow
<1>7. b = [seen[g] EXCEPT !.held = HeldNow(g)']
  BY <1>6
<1>8. /\ Exists(group'[g]) /\ group'[g].status = group[g].status
      /\ group'[g].creator = group[g].creator /\ group'[g].mint = group[g].mint
      /\ CycleEnd(group'[g]) = CycleEnd(group[g])
  <2>1. group[g] \in GroupConfig
    BY <1>1, KnownAccount
  <2>2. group'[g] = [group[g] EXCEPT !.current_members = @ + 1]
    BY <1>1 DEF TypeOK, JoinGroup
  <2>3. group'[g].max_members = group[g].max_members /\ group[g].max_members \in 2..10
    BY <2>1, <2>2 DEF GroupConfig
  <2>4. Exists(group'[g])
    <3>1. group[g].current_members + 1 \in 0..10
      BY <1>1, <2>1, <2>3 DEF JoinGroup, GroupConfig
    <3>2. group'[g] \in GroupConfig
      BY <2>1, <2>2, <3>1 DEF GroupConfig
    <3> QED
      BY <3>2, NoneAssumption DEF Exists
  <2> QED
    BY <2>1, <2>2, <2>4 DEF GroupConfig, CycleEnd
<1>9. Elsewhere(g) /\ gate' = gate
  BY <1>1, JoinTouches DEF Touches, Elsewhere, Pdas, JoinGroup
<1> HIDE DEF b
<1> QED
  BY <1>1, <1>3, <1>7, <1>8, <1>9, HeldKnown

LEMMA LeaveKnown ==
    ASSUME TypeOK, TypeOK', ReaderInv, NEW g \in Groups, NEW m \in Members,
           NEW account \in TokenAccounts, CallLeaveGroup(g, m, account)
    PROVE  ReaderInv'
<1> DEFINE e == [event |-> "MemberLeft", group |-> g, member |-> m,
                 refund |-> record[<<g, m>>].total_deposited,
                 currentMembers |-> group'[g].current_members]
           held == seen[g].held
           b == [seen[g] EXCEPT !.held = [n \in DOMAIN held \ {m} |-> held[n]]]
<1>1. /\ LeaveGroup(g, m, account) /\ SeenOK /\ Exists(group[g]) /\ Unsettled(g)
      /\ CloseRecord(g, m)
  BY DEF CallLeaveGroup, LeaveGroup, ReaderInv, Unsettled, Settled
<1>2. Read(seen[g], e) = b
  BY DEF Read
<1>3. seen' = [seen EXCEPT ![g] = b]
  <2>1. seen' = [seen EXCEPT ![g] = Read(seen[g], e)]
    BY <1>1, SeesOne DEF CallLeaveGroup
  <2> QED
    BY <1>2, <2>1
<1>4. record'[<<g, m>>] = None /\ \A p \in Pdas : p # <<g, m>> => record'[p] = record[p]
  BY <1>1 DEF CloseRecord, TypeOK, Pdas
<1>5. Joined(g)' = Joined(g) \ {m}
  BY <1>4 DEF Joined, Exists, Pdas
<1>6. HeldNow(g)' = [n \in DOMAIN held \ {m} |-> held[n]]
  <2>1. held = HeldNow(g)
    BY <1>1, KnownAccount DEF HeldNow
  <2>2. \A n \in Joined(g) \ {m} : record'[<<g, n>>] = record[<<g, n>>]
    BY <1>4 DEF Joined, Pdas
  <2> QED
    BY <1>5, <2>1, <2>2 DEF HeldNow
<1>7. b = [seen[g] EXCEPT !.held = HeldNow(g)']
  BY <1>6
<1>8. /\ Exists(group'[g]) /\ group'[g].status = group[g].status
      /\ group'[g].creator = group[g].creator /\ group'[g].mint = group[g].mint
      /\ CycleEnd(group'[g]) = CycleEnd(group[g])
  BY <1>1, CountedOut
<1>9. Elsewhere(g) /\ gate' = gate
  BY <1>1, LeaveTouches DEF Touches, Elsewhere, Pdas, LeaveGroup
<1> HIDE DEF b
<1> QED
  BY <1>1, <1>3, <1>7, <1>8, <1>9, HeldKnown

LEMMA DepositKnown ==
    ASSUME TypeOK, TypeOK', ReaderInv, NEW g \in Groups, NEW m \in Members,
           NEW account \in TokenAccounts, CallDeposit(g, m, account)
    PROVE  ReaderInv'
<1> DEFINE e == [event |-> "DepositMade", group |-> g, member |-> m,
                 period |-> CurrentPeriod(group[g], now),
                 amount |-> group[g].deposit_amount,
                 depositsMade |-> record'[<<g, m>>].deposits_made]
           held == seen[g].held
           more == [held EXCEPT ![m] = @ + group[g].deposit_amount]
           b == [seen[g] EXCEPT !.held = more]
<1>1. /\ Deposit(g, m, account) /\ SeenOK /\ Exists(group[g]) /\ Unsettled(g)
      /\ Exists(record[<<g, m>>])
  BY DEF CallDeposit, Deposit, ReaderInv, Unsettled, Settled
<1>2. Read(seen[g], e) = b
  <2>1. seen[g] \in Account
    BY <1>1, KnownAccount
  <2> QED
    BY <2>1 DEF Read, Account
<1>3. seen' = [seen EXCEPT ![g] = b]
  <2>1. seen' = [seen EXCEPT ![g] = Read(seen[g], e)]
    BY <1>1, SeesOne DEF CallDeposit
  <2> QED
    BY <1>2, <2>1
<1>4. NextDeposit(g, m) /\ \A p \in Pdas : p # <<g, m>> => record'[p] = record[p]
  BY <1>1, DepositNext
<1>5. Joined(g)' = Joined(g) /\ m \in Joined(g)
  BY <1>1, <1>4, NoneAssumption DEF NextDeposit, Joined, Exists, Pdas
<1>6. HeldNow(g)' = more
  <2>1. held = HeldNow(g)
    BY <1>1, KnownAccount DEF HeldNow
  <2>2. /\ record'[<<g, m>>].total_deposited =
             record[<<g, m>>].total_deposited + group[g].deposit_amount
        /\ \A n \in Joined(g) \ {m} : record'[<<g, n>>] = record[<<g, n>>]
    BY <1>4 DEF NextDeposit, Joined, Pdas
  <2> QED
    BY <1>5, <2>1, <2>2 DEF HeldNow
<1>7. b = [seen[g] EXCEPT !.held = HeldNow(g)']
  BY <1>6
<1>8. group' = group /\ gate' = gate /\ Elsewhere(g)
  BY <1>1, DepositTouches DEF Touches, Elsewhere, Pdas, Deposit
<1> HIDE DEF b
<1> QED
  BY <1>1, <1>3, <1>7, <1>8, HeldKnown

\* Calls that log nothing.
LEMMA QuietKnown ==
    ASSUME TypeOK, ReaderInv, NEW g \in Groups, seen' = seen,
           KnownAt(g)', Elsewhere(g)
    PROVE  ReaderInv'
<1>1. seen[g] \in Account \cup {None} /\ seen' = [seen EXCEPT ![g] = seen[g]]
  BY DEF ReaderInv, SeenOK
<1> QED
  BY <1>1, KnownElsewhere

LEMMA RefundKnown ==
    ASSUME TypeOK, ReaderInv, NEW g \in Groups, CallRefundVaultRent(g)
    PROVE  ReaderInv'
<1>1. RefundVaultRent(g) /\ Exists(group[g]) /\ seen' = seen /\ Settled(g)
  BY SeesNothing DEF CallRefundVaultRent, RefundVaultRent, ReaderInv
<1>2. /\ Exists(group'[g]) /\ group'[g].status = group[g].status
      /\ group'[g].creator = group[g].creator /\ group'[g].mint = group[g].mint
      /\ group'[g].cycle_start = group[g].cycle_start
      /\ group'[g].total_periods = group[g].total_periods
      /\ group'[g].frequency = group[g].frequency
  <2> DEFINE l == LamportsAboveRentFloor(g)
  <2>1. group[g] \in GroupConfig /\ group[g].lamports - l \in Nat
    <3>1. group[g] \in GroupConfig /\ Floor("group") \in Nat
      BY <1>1, KnownAccount, FloorNat DEF Kinds
    <3> QED
      BY <3>1 DEF LamportsAboveRentFloor, GroupConfig
  <2>2. group'[g] = [group[g] EXCEPT !.lamports = @ - l]
    BY <1>1 DEF TypeOK, RefundVaultRent
  <2> HIDE DEF l
  <2>3. group'[g] \in GroupConfig
    BY <2>1, <2>2 DEF GroupConfig
  <2> QED
    BY <2>1, <2>2, <2>3, NoneAssumption DEF GroupConfig, Exists
<1>3. Elsewhere(g) /\ gate' = gate /\ record' = record
  BY <1>1, RefundTouches DEF Touches, Elsewhere, Pdas, RefundVaultRent
<1>4. KnownAt(g)'
  <2>1. KnownAt(g)
    BY DEF ReaderInv
  <2> QED
    BY <1>1, <1>2, <1>3, <2>1, KnownStays
<1> QED
  BY <1>1, <1>3, <1>4, QuietKnown

\* Records close after the settlement only, when the reader needs them no more.
LEMMA CloseRecordKnown ==
    ASSUME TypeOK, ReaderInv, NEW g \in Groups, NEW m \in Members,
           CallCloseMemberRecord(g, m)
    PROVE  ReaderInv'
<1>1. /\ CloseMemberRecord(g, m) /\ Exists(group[g]) /\ seen' = seen /\ Settled(g)
      /\ CloseRecord(g, m) /\ gate' = gate
  BY SeesNothing DEF CallCloseMemberRecord, CloseMemberRecord, ReaderInv
<1>2. /\ Exists(group'[g]) /\ group'[g].status = group[g].status
      /\ group'[g].creator = group[g].creator /\ group'[g].mint = group[g].mint
      /\ CycleEnd(group'[g]) = CycleEnd(group[g])
  BY <1>1, CountedOut
<1>3. Elsewhere(g)
  <2>1. Touches({g}, {}, {}, {<<g, m>>}, {}, {}, {record[<<g, m>>].rent_payer})
    BY <1>1, CloseRecordTouches
  <2>2. \A h \in Groups : h # g => group'[h] = group[h] /\ gate'[h] = gate[h]
    BY <2>1 DEF Touches
  <2>3. \A h \in Groups, k \in Members :
          h # g => record'[<<h, k>>] = record[<<h, k>>]
    <3>1. \A p \in Pdas : p # <<g, m>> => record'[p] = record[p]
      BY <2>1 DEF Touches
    <3> QED
      BY <3>1 DEF Pdas
  <2> QED
    BY <2>2, <2>3 DEF Elsewhere
<1>4. KnownAt(g)'
  <2>1. KnownAt(g) /\ ~Unsettled(g)'
    BY <1>1, <1>2 DEF ReaderInv, Unsettled, Settled
  <2> QED
    BY <1>1, <1>2, <2>1 DEF KnownAt
<1> QED
  BY <1>1, <1>3, <1>4, QuietKnown

LEMMA SameGroupsKnown ==
    ASSUME ReaderInv, seen' = seen, group' = group, gate' = gate, record' = record
    PROVE  ReaderInv'
<1>1. SeenOK'
  BY DEF ReaderInv, SeenOK
<1>2. ASSUME NEW h \in Groups
      PROVE  KnownAt(h)'
  <2>1. KnownAt(h)
    BY DEF ReaderInv
  <2> QED
    BY <2>1, KnownStays
<1> QED
  BY <1>1, <1>2 DEF ReaderInv

LEMMA TopUpKnown ==
    ASSUME TypeOK, ReaderInv, NEW g \in Groups, NEW payer, NEW amount \in Nat,
           TopUp(g, payer, amount), seen' = seen
    PROVE  ReaderInv'
<1>1. Exists(group[g]) /\ gate' = gate /\ record' = record
  BY DEF TopUp
<1>2. /\ Exists(group'[g]) /\ group'[g].status = group[g].status
      /\ group'[g].creator = group[g].creator /\ group'[g].mint = group[g].mint
      /\ group'[g].cycle_start = group[g].cycle_start
      /\ group'[g].total_periods = group[g].total_periods
      /\ group'[g].frequency = group[g].frequency
  <2>1. group[g] \in GroupConfig
    BY <1>1, KnownAccount
  <2>2. group'[g] = [group[g] EXCEPT !.lamports = @ + amount]
    BY DEF TypeOK, TopUp
  <2>3. group'[g] \in GroupConfig
    BY <2>1, <2>2 DEF GroupConfig
  <2> QED
    BY <2>1, <2>2, <2>3, NoneAssumption DEF GroupConfig, Exists
<1>3. Elsewhere(g)
  BY <1>1 DEF TypeOK, TopUp, Elsewhere
<1>4. KnownAt(g)'
  <2>1. KnownAt(g)
    BY DEF ReaderInv
  <2> QED
    BY <1>1, <1>2, <2>1, KnownStays
<1> QED
  BY <1>3, <1>4, QuietKnown

LEMMA OtherKnown ==
    ASSUME TypeOK, ReaderInv, OtherStep
    PROVE  ReaderInv'
<1>1. Environment /\ seen' = seen
  BY DEF OtherStep
<1>2. ASSUME NEW g \in Groups, NEW payer \in Payers, NEW amount \in 1..MaxTopUp,
             TopUp(g, payer, amount)
      PROVE  ReaderInv'
  <2>1. amount \in Nat
    BY AmountAssumption
  <2> QED
    BY <1>1, <1>2, <2>1, TopUpKnown
<1>3. CASE group' = group /\ gate' = gate /\ record' = record
  BY <1>1, <1>3, SameGroupsKnown
<1> QED
  BY <1>1, <1>2, <1>3
     DEF Environment, Tick, ChangeRentRate, Freeze, Thaw, DonateTokens

LEMMA GroupCallKnown ==
    ASSUME MembershipInv, TypeOK', ReaderInv, NEW g \in Groups, GroupCall(g)
    PROVE  ReaderInv'
<1>1. TypeOK
  BY DEF MembershipInv
<1>2. ASSUME NEW creator \in Creators, NEW payer \in Payers, NEW mint \in Mints,
             NEW amount \in DepositAmounts, NEW frequency \in Frequencies,
             NEW periods \in PeriodCounts, NEW size \in GroupSizes,
             CallCreateGroup(g, creator, payer, mint, amount, frequency, periods, size)
      PROVE  ReaderInv'
  BY <1>2, CreateKnown
<1>3. ASSUME NEW authority \in Keys, CallSetJoinAuthority(g, authority)
      PROVE  ReaderInv'
  BY <1>1, <1>3, GateKnown
<1>4. ASSUME NEW pairs \in PairLists,
             \/ CallDistribute(g, pairs)
             \/ \E mint_writable \in BOOLEAN : CallEmergencyCancel(g, pairs, mint_writable)
      PROVE  ReaderInv'
  BY <1>1, <1>4, DistributeKnown, CancelKnown
<1> QED
  BY <1>1, <1>2, <1>3, <1>4, StartKnown, RefundKnown, CloseGroupKnown DEF GroupCall

LEMMA MemberCallKnown ==
    ASSUME TypeOK, TypeOK', ReaderInv, NEW g \in Groups, NEW m \in Members,
           MemberCall(g, m)
    PROVE  ReaderInv'
<1>1. ASSUME CallCloseJoinTally(g, m)
      PROVE  ReaderInv'
  <2>1. /\ CloseJoinTally(g, m)
        /\ Log(g, closeJoinTally(g, m, tally[<<g, m>>].rent_payer), <<>>)
    BY <1>1 DEF CallCloseJoinTally
  <2>2. seen' = seen
    BY <2>1, SeesNothing DEF ReaderInv
  <2> QED
    BY <2>1, <2>2, SameGroupsKnown DEF CloseJoinTally
<1> QED
  BY <1>1, JoinKnown, LeaveKnown, DepositKnown, CloseRecordKnown DEF MemberCall

------------------------------------------------------------------------------
(* No lamport is made or lost                                              *)

Wealth == [w \in Payers |-> purse[w] + RentOwedTo(w)]
LamportsKept == SumFunctionOnSet(Wealth, Payers) = Cardinality(Payers) * Lamports

LEMMA WealthNat ==
    ASSUME TypeOK
    PROVE  /\ \A w \in Payers : Wealth[w] \in Nat /\ OwedByGroups(w) <= Wealth[w]
           /\ IsFiniteSet(Payers)
<1> SUFFICES ASSUME NEW w \in Payers
             PROVE  Wealth[w] \in Nat /\ OwedByGroups(w) <= Wealth[w]
  BY AddressAssumption
<1>1. /\ RentOwedTo(w) = OwedByGroups(w) + OwedByRecords(w) + OwedByTallies(w)
      /\ OwedByGroups(w) \in Nat /\ OwedByRecords(w) \in Nat /\ OwedByTallies(w) \in Nat
      /\ purse[w] \in Nat /\ Wealth[w] = purse[w] + RentOwedTo(w)
  BY RentViewHolds, OwedNat DEF TypeOK, RentView, Wealth
<1> QED
  BY <1>1

LEMMA InitLamports ==
    ASSUME Init
    PROVE  LamportsKept
<1>1. TypeOK /\ Lamports \in Nat
  BY InitInv, AmountAssumption DEF MembershipInv
<1>2. ASSUME NEW w \in Payers
      PROVE  Wealth[w] = Lamports
  <2>1. /\ \A g \in Groups : GroupRents(w)[g] = 0
        /\ \A p \in Pdas : RecordRents(w)[p] = 0 /\ TallyRents(w)[p] = 0
    BY DEF Init, GroupRents, RecordRents, TallyRents, Exists
  <2>2. OwedByGroups(w) = 0
    BY <2>1, AddressAssumption, SumZeros, SumEmpty DEF OwedByGroups
  <2>3. OwedByRecords(w) = 0 /\ OwedByTallies(w) = 0
    BY <2>1, PdasFinite, SumZeros, SumEmpty DEF OwedByRecords, OwedByTallies
  <2>4. RentOwedTo(w) = 0 + 0 + 0
    BY <1>1, <2>2, <2>3, RentViewHolds DEF RentView
  <2> QED
    BY <1>1, <2>4 DEF Init, Wealth
<1> QED
  BY <1>1, <1>2, AddressAssumption, SumSameEverywhere DEF LamportsKept

\* A top-up takes from one wallet what it adds to the group of another.
LEMMA TopUpLamports ==
    ASSUME TypeOK, TypeOK', NEW g \in Groups, NEW w \in Payers, NEW amount \in Nat,
           TopUp(g, w, amount)
    PROVE  SumFunctionOnSet(Wealth', Payers) = SumFunctionOnSet(Wealth, Payers)
<1>0. PICK x : x = group[g].rent_payer
  OBVIOUS
<1>1. /\ Exists(group[g]) /\ group[g] \in GroupConfig /\ x \in Payers
      /\ vault' = vault /\ gate' = gate /\ record' = record /\ tally' = tally
      /\ group'[g] = [group[g] EXCEPT !.lamports = @ + amount]
      /\ \A h \in Groups : h # g => group'[h] = group[h]
  BY <1>0 DEF TopUp, TypeOK, Exists, GroupConfig
<1>2. /\ group'[g].rent_payer = x /\ Exists(group'[g])
      /\ group'[g].lamports = group[g].lamports + amount
  <2>1. group'[g] \in GroupConfig
    BY <1>1 DEF GroupConfig
  <2> QED
    BY <1>0, <1>1, <2>1, NoneAssumption DEF GroupConfig, Exists
<1>3. GroupRent(g)' = GroupRent(g) + amount
  <2>1. /\ (IF Exists(vault[g]) THEN vault[g].lamports ELSE 0) \in Nat
        /\ (IF Exists(gate[g]) THEN gate[g].lamports ELSE 0) \in Nat
        /\ group[g].lamports \in Nat
    BY <1>1 DEF TypeOK, Exists, Vault, JoinGate, GroupConfig
  <2> QED
    BY <1>1, <1>2, <2>1 DEF GroupRent
<1>4. GroupsOwe(x, amount)
  <2>1. GroupSide(g, x, amount)
    BY <1>0, <1>1, <1>2, <1>3 DEF GroupSide
  <2> QED
    BY <1>1, <2>1, GroupSideOwes
<1>5. RecordsOwe(x, 0) /\ TalliesOwe(x, 0)
  BY <1>1, SameAccountsOwe
<1>6. \A v \in Payers : purse'[v] = purse[v] - (IF v = w THEN amount ELSE 0)
  <2>1. purse' = [purse EXCEPT ![w] = @ - amount] /\ purse \in [Payers -> Nat]
    BY DEF TopUp, TypeOK
  <2> QED
    BY <2>1
<1>7. ASSUME NEW v \in Payers
      PROVE  Wealth'[v] = Wealth[v] - (IF v = w THEN amount ELSE 0)
                                    + (IF v = x THEN amount ELSE 0)
  <2>1. /\ RentOwedTo(v) = OwedByGroups(v) + OwedByRecords(v) + OwedByTallies(v)
        /\ RentOwedTo(v)' = OwedByGroups(v)' + OwedByRecords(v)' + OwedByTallies(v)'
    BY RentViewHolds, RentViewNext DEF RentView
  <2>2. /\ OwedByGroups(v)' = OwedByGroups(v) + (IF v = x THEN amount ELSE 0)
        /\ OwedByRecords(v)' = OwedByRecords(v) + (IF v = x THEN 0 ELSE 0)
        /\ OwedByTallies(v)' = OwedByTallies(v) + (IF v = x THEN 0 ELSE 0)
    BY <1>4, <1>5 DEF GroupsOwe, RecordsOwe, TalliesOwe
  <2>3. /\ OwedByGroups(v) \in Nat /\ OwedByRecords(v) \in Nat /\ OwedByTallies(v) \in Nat
        /\ purse[v] \in Nat
    BY OwedNat DEF TypeOK
  <2>4. /\ Wealth[v] = purse[v] + RentOwedTo(v)
        /\ Wealth'[v] = purse'[v] + RentOwedTo(v)'
    BY DEF Wealth
  <2> QED
    BY <1>6, <2>1, <2>2, <2>3, <2>4
<1> DEFINE f == Wealth
           h == [v \in Payers |-> Wealth[v] - (IF v = w THEN amount ELSE 0)]
           k == Wealth'
<1>8. \A v \in Payers : f[v] \in Int /\ h[v] \in Int
  BY WealthNat
<1>9. SumFunctionOnSet(h, Payers) = SumFunctionOnSet(f, Payers) - f[w] + h[w]
  <2>1. \A v \in Payers \ {w} : h[v] = f[v]
    BY <1>8
  <2> HIDE DEF f, h
  <2> QED
    BY <1>8, <2>1, AddressAssumption, SumUpdate
<1>10. SumFunctionOnSet(k, Payers) = SumFunctionOnSet(h, Payers) - h[x] + k[x]
  <2>1. \A v \in Payers \ {x} : k[v] = h[v]
    BY <1>7, <1>8
  <2>2. k[x] \in Int
    BY <1>1, <1>7, <1>8
  <2> HIDE DEF k, h
  <2> QED
    BY <1>1, <1>8, <2>1, <2>2, AddressAssumption, SumUpdate
<1>11. h[w] = f[w] - amount /\ k[x] = h[x] + amount
  BY <1>1, <1>7, <1>8
<1>12. SumFunctionOnSet(f, Payers) \in Int /\ SumFunctionOnSet(h, Payers) \in Int
  <2> HIDE DEF f, h
  <2> QED
    BY <1>8, AddressAssumption, SumInt
<1>13. f[w] \in Int /\ h[w] \in Int /\ h[x] \in Int
  BY <1>1, <1>8
<1> HIDE DEF f, h, k
<1>14. SumFunctionOnSet(k, Payers) = SumFunctionOnSet(f, Payers)
  BY <1>9, <1>10, <1>11, <1>12, <1>13
<1> QED
  BY <1>14 DEF f, k

LEMMA LamportsStep ==
    ASSUME MembershipInv, LamportsKept, [Next]_vars
    PROVE  LamportsKept'
<1>1. TypeOK /\ TypeOK'
  BY NextInv DEF MembershipInv
<1>2. SumFunctionOnSet(Wealth', Payers) = SumFunctionOnSet(Wealth, Payers)
  <2>1. CASE RentKept
    <3>1. \A w \in Payers : Wealth'[w] = Wealth[w]
      BY <2>1 DEF RentKept, Wealth
    <3> QED
      BY <3>1, AddressAssumption, SumSame
  <2>2. ASSUME NEW g \in Groups, NEW w \in Payers, NEW amount \in 1..MaxTopUp,
               TopUp(g, w, amount)
        PROVE  SumFunctionOnSet(Wealth', Payers) = SumFunctionOnSet(Wealth, Payers)
    <3>1. amount \in Nat
      BY AmountAssumption
    <3> QED
      BY <1>1, <2>2, <3>1, TopUpLamports
  <2> QED
    BY <2>1, <2>2, RentStep
<1> QED
  BY <1>2 DEF LamportsKept

\* What a group and its gate hold is within a u64.
LEMMA GroupLamports ==
    ASSUME TypeOK, LamportsKept, NEW g \in Groups, Exists(group[g])
    PROVE  /\ group[g].lamports \in Lamport
           /\ Exists(gate[g]) => gate[g].lamports \in Lamport
<1>0. PICK x : x = group[g].rent_payer
  OBVIOUS
<1>1. /\ x \in Payers /\ group[g].lamports \in Nat
      /\ Exists(gate[g]) => gate[g].lamports \in Nat
      /\ Exists(vault[g]) => vault[g].lamports \in Nat
  BY <1>0 DEF TypeOK, Exists, GroupConfig, JoinGate, Vault
<1>2. GroupRents(x)[g] = GroupRent(g)
  BY <1>0 DEF GroupRents
<1>3. group[g].lamports <= GroupRent(g) /\ GroupRent(g) \in Nat
      /\ (Exists(gate[g]) => gate[g].lamports <= GroupRent(g))
  BY <1>1 DEF GroupRent
<1>4. GroupRent(g) <= OwedByGroups(x)
  <2>1. \A h \in Groups : GroupRents(x)[h] \in Nat
    BY <1>1, RentViewHolds DEF RentView
  <2> QED
    BY <1>2, <2>1, AddressAssumption, SumBounds DEF OwedByGroups
<1>5. OwedByGroups(x) <= Wealth[x] /\ OwedByGroups(x) \in Nat /\ Wealth[x] \in Nat
  BY <1>1, WealthNat, OwedNat
<1>6. Wealth[x] <= SumFunctionOnSet(Wealth, Payers)
  BY <1>1, WealthNat, SumBounds
<1>7. SumFunctionOnSet(Wealth, Payers) <= MaxU64 /\ MaxU64 \in Nat
      /\ SumFunctionOnSet(Wealth, Payers) \in Nat
  BY LamportAssumption, AmountAssumption DEF LamportsKept, Lamport
<1>8. GroupRent(g) <= MaxU64
  BY <1>3, <1>4, <1>5, <1>6, <1>7
<1> QED
  BY <1>1, <1>3, <1>7, <1>8 DEF Lamport

------------------------------------------------------------------------------
(* Every field of an event is within its width                             *)

EventsWithin == \A i \in DOMAIN events : events[i] \in Event

LEMMA OneWithin ==
    ASSUME NEW e \in Event, events' = <<e>>
    PROVE  EventsWithin'
<1>1. DOMAIN events' = {1} /\ events'[1] = e
  OBVIOUS
<1> QED
  BY <1>1 DEF EventsWithin

LEMMA GroupFields ==
    ASSUME TypeOK, NEW g \in Groups, Exists(group[g])
    PROVE  /\ group[g].creator \in Creators /\ group[g].rent_payer \in Payers
           /\ group[g].deposit_amount \in U64 /\ group[g].current_members \in U8
           /\ group[g] \in GroupConfig
BY DEF TypeOK, Exists, GroupConfig, U8

LEMMA CreateWithin ==
    ASSUME NEW g \in Groups, NEW creator \in Creators, NEW payer \in Payers,
           NEW mint \in Mints, NEW amount \in DepositAmounts, NEW frequency,
           NEW periods, NEW size,
           CallCreateGroup(g, creator, payer, mint, amount, frequency, periods, size)
    PROVE  EventsWithin'
<1> DEFINE e == [event |-> "GroupCreated", group |-> g, creator |-> creator,
                 rentPayer |-> payer, mint |-> mint, depositAmount |-> amount,
                 totalPeriods |-> periods, maxMembers |-> size]
<1>1. amount \in U64 /\ periods \in U8 /\ size \in U8
  BY AmountAssumption
     DEF CallCreateGroup, CreateGroup, ValidArguments, MaxPeriods, U8
<1>2. e \in GroupCreated
  BY <1>1 DEF GroupCreated
<1>3. e \in Event /\ events' = <<e>>
  BY <1>2 DEF Event, CallCreateGroup, Log
<1> QED
  BY <1>3, OneWithin

LEMMA GateWithin ==
    ASSUME TypeOK, NEW g \in Groups, NEW authority \in Keys,
           CallSetJoinAuthority(g, authority)
    PROVE  EventsWithin'
<1> DEFINE e == [event |-> "JoinAuthoritySet", group |-> g,
                 creator |-> group[g].creator, authority |-> authority]
<1>1. e \in JoinAuthoritySet
  BY GroupFields DEF CallSetJoinAuthority, SetJoinAuthority, JoinAuthoritySet
<1>2. e \in Event /\ events' = <<e>>
  BY <1>1 DEF Event, CallSetJoinAuthority, Log
<1> QED
  BY <1>2, OneWithin

LEMMA JoinWithin ==
    ASSUME TypeOK, TypeOK', NEW g \in Groups, NEW m \in Members, NEW payer \in Payers,
           NEW account, NEW authority, NEW durable, NEW terms, NEW expected,
           Exists(group'[g]),
           CallJoinGroup(g, m, payer, account, authority, durable, terms, expected)
    PROVE  EventsWithin'
<1> DEFINE e == [event |-> "MemberJoined", group |-> g, member |-> m,
                 rentPayer |-> payer, amount |-> group[g].deposit_amount,
                 currentMembers |-> group'[g].current_members, joins |-> Joins(g, m)']
<1>1. group[g].deposit_amount \in U64
  BY GroupFields DEF CallJoinGroup, JoinGroup
<1>2. group'[g].current_members \in U8
  BY DEF TypeOK, Exists, GroupConfig, U8
<1>3. Joins(g, m)' \in U32
  BY AmountAssumption DEF TypeOK, Joins, Exists, Pdas, JoinTally, U32
<1>4. e \in MemberJoined
  BY <1>1, <1>2, <1>3 DEF MemberJoined
<1>5. e \in Event /\ events' = <<e>>
  BY <1>4 DEF Event, CallJoinGroup, Log
<1> QED
  BY <1>5, OneWithin

LEMMA LeaveWithin ==
    ASSUME TypeOK, TypeOK', NEW g \in Groups, NEW m \in Members, NEW account,
           CallLeaveGroup(g, m, account)
    PROVE  EventsWithin'
<1> DEFINE e == [event |-> "MemberLeft", group |-> g, member |-> m,
                 refund |-> record[<<g, m>>].total_deposited,
                 currentMembers |-> group'[g].current_members]
<1>1. Exists(group[g]) /\ CloseRecord(g, m)
  BY DEF CallLeaveGroup, LeaveGroup
<1>2. record[<<g, m>>].total_deposited \in U64
  BY <1>1 DEF CloseRecord, TypeOK, Exists, Pdas, MemberRecord
<1>3. group'[g].current_members \in U8
  BY <1>1, CountedOut DEF TypeOK, Exists, GroupConfig, U8
<1>4. e \in MemberLeft
  BY <1>2, <1>3 DEF MemberLeft
<1>5. e \in Event /\ events' = <<e>>
  BY <1>4 DEF Event, CallLeaveGroup, Log
<1> QED
  BY <1>5, OneWithin

LEMMA StartWithin ==
    ASSUME TypeOK, NEW g \in Groups, CallStartCycle(g)
    PROVE  EventsWithin'
<1>0. PICK ends : ends = CycleEnd(group'[g])
  OBVIOUS
<1> DEFINE e == [event |-> "CycleStarted", group |-> g,
                 members |-> group[g].current_members, cycleStart |-> now,
                 cycleEnd |-> ends]
<1>1. StartCycle(g) /\ Exists(group[g])
  BY DEF CallStartCycle, StartCycle
<1>2. group'[g] \in GroupConfig /\ group'[g].cycle_start = now
  <2>1. Started(g)
    BY <1>1, StartEffect
  <2>2. group[g] \in GroupConfig
    BY <1>1, GroupFields
  <2>3. /\ group'[g] \in GroupConfig
        /\ group'[g] = [group[g] EXCEPT !.status = "Active", !.cycle_start = now]
    BY <2>1 DEF Started
  <2>4. group'[g].cycle_start = now
    BY <2>2, <2>3 DEF GroupConfig
  <2> QED
    BY <2>3, <2>4
<1>3. ends \in I64 /\ now \in I64
  <2>1. ends \in Nat /\ now <= ends /\ now \in Nat
    BY <1>0, <1>2, CycleEndNat DEF TypeOK
  <2>2. ends <= MaxI64
    BY <1>0, <1>1 DEF StartCycle, InI64
  <2> QED
    BY <2>1, <2>2, TimeAssumption DEF I64
<1>4. e \in CycleStarted
  BY <1>1, <1>3, GroupFields DEF CycleStarted
<1>5. e \in Event /\ events' = <<e>>
  BY <1>0, <1>4 DEF Event, CallStartCycle, Log
<1> QED
  BY <1>5, OneWithin

LEMMA DepositWithin ==
    ASSUME TypeOK, NEW g \in Groups, NEW m \in Members, NEW account \in TokenAccounts,
           CallDeposit(g, m, account)
    PROVE  EventsWithin'
<1>0. PICK period : period = CurrentPeriod(group[g], now)
  OBVIOUS
<1> DEFINE e == [event |-> "DepositMade", group |-> g, member |-> m,
                 period |-> period, amount |-> group[g].deposit_amount,
                 depositsMade |-> record'[<<g, m>>].deposits_made]
<1>1. Deposit(g, m, account) /\ Exists(group[g])
  BY DEF CallDeposit, Deposit
<1>2. group[g] \in GroupConfig /\ group[g].deposit_amount \in U64
  BY <1>1, GroupFields
<1>3. period \in U8
  <2>1. period \in 0..(group[g].total_periods - 1)
    BY <1>0, <1>1, <1>2, CurrentPeriodBegan DEF Deposit, TypeOK
  <2> QED
    BY <1>2, <2>1 DEF GroupConfig, MaxPeriods, U8
<1>4. record'[<<g, m>>].deposits_made \in U8
  BY <1>1, DepositNext DEF NextDeposit, MemberRecord
<1>5. e \in DepositMade
  BY <1>2, <1>3, <1>4 DEF DepositMade
<1>6. e \in Event /\ events' = <<e>>
  BY <1>0, <1>5 DEF Event, CallDeposit, Log
<1> QED
  BY <1>6, OneWithin

\* What a settlement pays out was in the vault.
LEMMA SettlementAmounts ==
    ASSUME LedgerInv, NEW g \in Groups, Unsettled(g), NEW pairs \in PairLists,
           SettlementChecks(g, pairs), NEW burned \in Nat,
           vault[g].amount = Paid(g, pairs, DOMAIN pairs) + burned
    PROVE  /\ Paid(g, pairs, DOMAIN pairs) \in U64 /\ burned \in U64
           /\ \A i \in DOMAIN pairs : MemberSettledEvents(g, pairs)[i] \in Event
<1> DEFINE paid == Paid(g, pairs, DOMAIN pairs)
<1>1. paid \in Nat
  BY PaidNat
<1>2. vault[g].amount \in U64 /\ MaxU64 \in Nat
  BY MoneyType, AmountAssumption DEF Vault
<1>3. paid \in U64 /\ burned \in U64
  <2> HIDE DEF paid
  <2>1. vault[g].amount = paid + burned
    BY DEF paid
  <2> QED
    BY <1>1, <1>2, <2>1 DEF U64
<1>4. ASSUME NEW i \in DOMAIN pairs
      PROVE  MemberSettledEvents(g, pairs)[i] \in Event
  <2> DEFINE f == Payouts(g, pairs)
  <2>1. /\ \A j \in DOMAIN pairs : f[j] \in Nat
        /\ paid = SumFunctionOnSet(f, DOMAIN pairs)
    BY CreditIsPayouts
  <2>2. f[i] \in U64
    <3>1. f[i] <= SumFunctionOnSet(f, DOMAIN pairs)
      <4> HIDE DEF f
      <4> QED
        BY <2>1, PairListDomain, SumBounds
    <3>2. f[i] <= paid /\ f[i] \in Nat
      BY <2>1, <3>1
    <3> HIDE DEF f, paid
    <3> QED
      BY <1>2, <1>3, <3>2 DEF U64
  <2>3. Payout(g, pairs, i) \in U64
    BY <2>2 DEF Payouts
  <2>4. /\ pairs[i].record = <<g, Who(pairs)[i]>> /\ Who(pairs)[i] \in Joined(g)
        /\ Who(pairs)[i] = pairs[i].record[2]
    BY ListCovers DEF Who
  <2>5. /\ pairs[i].record[2] \in Members
        /\ record[pairs[i].record].total_deposited \in U64
    <3>1. record[pairs[i].record] \in MemberRecord
      BY <2>4, PairListDomain DEF Joined, Exists, LedgerInv, MembershipInv, TypeOK
    <3> QED
      BY <2>4, <3>1 DEF Joined, MemberRecord
  <2>6. MemberSettledEvents(g, pairs)[i] \in MemberSettled
    BY <2>3, <2>5 DEF MemberSettledEvents, MemberSettled
  <2> QED
    BY <2>6 DEF Event
<1> QED
  BY <1>3, <1>4

LEMMA DistributeWithin ==
    ASSUME LedgerInv, NEW g \in Groups, NEW pairs \in PairLists,
           CallDistribute(g, pairs)
    PROVE  EventsWithin'
<1> DEFINE paid == Paid(g, pairs, DOMAIN pairs)
           e == [event |-> "GroupSettled", group |-> g,
                 members |-> group[g].current_members, totalPaid |-> paid]
<1>1. events' = MemberSettledEvents(g, pairs) \o <<e>>
  BY DEF CallDistribute, Log
<1>2. /\ Exists(group[g]) /\ Unsettled(g) /\ SettlementChecks(g, pairs) /\ TypeOK
      /\ vault[g].amount = paid + 0
  BY DEF CallDistribute, Distribute, Settle, CanSettle, Unsettled, Settled,
         LedgerInv, MembershipInv
<1>3. paid \in U64 /\ \A i \in DOMAIN pairs : MemberSettledEvents(g, pairs)[i] \in Event
  BY <1>2, SettlementAmounts
<1>4. e \in Event
  <2>1. e \in GroupSettled
    BY <1>2, <1>3, GroupFields DEF GroupSettled
  <2> QED
    BY <2>1 DEF Event
<1> HIDE DEF e
<1>5. /\ DOMAIN events' = 1..Len(pairs) + 1
      /\ \A i \in DOMAIN pairs : events'[i] = MemberSettledEvents(g, pairs)[i]
      /\ events'[Len(pairs) + 1] = e
  BY <1>1, SettlementLog
<1> QED
  BY <1>3, <1>4, <1>5, PairListDomain DEF EventsWithin

LEMMA CancelWithin ==
    ASSUME LedgerInv, NEW g \in Groups, NEW pairs \in PairLists, NEW mint_writable,
           CallEmergencyCancel(g, pairs, mint_writable)
    PROVE  EventsWithin'
<1> DEFINE paid == Paid(g, pairs, DOMAIN pairs)
           burned == UnownedVaultBalance(g)
           e == [event |-> "GroupCancelled", group |-> g,
                 creator |-> group[g].creator, members |-> group[g].current_members,
                 refundedTotal |-> paid, burned |-> burned]
<1>1. events' = <<e>>
  BY DEF CallEmergencyCancel, Log
<1>2. /\ Exists(group[g]) /\ Unsettled(g) /\ SettlementChecks(g, pairs) /\ TypeOK
      /\ vault[g].amount = paid + burned
  BY DEF CallEmergencyCancel, EmergencyCancel, CancelChecks, Settle, CanSettle,
         Unsettled, Settled, LedgerInv, MembershipInv
<1>3. burned \in Nat
  BY <1>2, MoneyType, AmountAssumption DEF UnownedVaultBalance, Vault, U64
<1>4. paid \in U64 /\ burned \in U64
  <2> HIDE DEF burned
  <2> QED
    BY <1>2, <1>3, SettlementAmounts
<1>5. e \in GroupCancelled
  <2> HIDE DEF paid, burned
  <2> QED
    BY <1>2, <1>4, GroupFields DEF GroupCancelled
<1>6. e \in Event
  BY <1>5 DEF Event
<1> QED
  BY <1>1, <1>6, OneWithin

LEMMA CloseGroupWithin ==
    ASSUME TypeOK, LamportsKept, NEW g \in Groups, CallCloseGroup(g)
    PROVE  EventsWithin'
<1> DEFINE gated == IF Exists(gate[g]) THEN gate[g].lamports ELSE 0
           e == [event |-> "GroupClosed", group |-> g,
                 rentPayer |-> group[g].rent_payer, lamports |-> group[g].lamports,
                 joinGateLamports |-> gated]
<1>1. Exists(group[g])
  BY DEF CallCloseGroup, CloseGroup
<1>2. group[g].lamports \in Lamport /\ gated \in Lamport
  BY <1>1, GroupLamports, AmountAssumption DEF Lamport
<1>3. e \in GroupClosed
  BY <1>1, <1>2, GroupFields DEF GroupClosed
<1>4. e \in Event /\ events' = <<e>>
  BY <1>3 DEF Event, CallCloseGroup, Log
<1> QED
  BY <1>4, OneWithin

LEMMA NothingWithin ==
    ASSUME events' = <<>>
    PROVE  EventsWithin'
BY DEF EventsWithin

LEMMA GroupCallWithin ==
    ASSUME LedgerInv, LamportsKept, NEW g \in Groups, GroupCall(g)
    PROVE  EventsWithin'
<1>1. TypeOK
  BY DEF LedgerInv, MembershipInv
<1>2. ASSUME NEW creator \in Creators, NEW payer \in Payers, NEW mint \in Mints,
             NEW amount \in DepositAmounts, NEW frequency \in Frequencies,
             NEW periods \in PeriodCounts, NEW size \in GroupSizes,
             CallCreateGroup(g, creator, payer, mint, amount, frequency, periods, size)
      PROVE  EventsWithin'
  BY <1>2, CreateWithin
<1>3. ASSUME NEW authority \in Keys, CallSetJoinAuthority(g, authority)
      PROVE  EventsWithin'
  BY <1>1, <1>3, GateWithin
<1>4. ASSUME NEW pairs \in PairLists,
             \/ CallDistribute(g, pairs)
             \/ \E mint_writable \in BOOLEAN : CallEmergencyCancel(g, pairs, mint_writable)
      PROVE  EventsWithin'
  BY <1>4, DistributeWithin, CancelWithin
<1>5. ASSUME CallRefundVaultRent(g)
      PROVE  EventsWithin'
  BY <1>5, NothingWithin DEF CallRefundVaultRent, Log
<1> QED
  BY <1>1, <1>2, <1>3, <1>4, <1>5, StartWithin, CloseGroupWithin DEF GroupCall

LEMMA MemberCallWithin ==
    ASSUME LedgerInv, TypeOK', NEW g \in Groups, NEW m \in Members, MemberCall(g, m)
    PROVE  EventsWithin'
<1>1. TypeOK
  BY DEF LedgerInv, MembershipInv
<1>2. ASSUME CallCloseMemberRecord(g, m) \/ CallCloseJoinTally(g, m)
      PROVE  EventsWithin'
  BY <1>2, NothingWithin DEF CallCloseMemberRecord, CallCloseJoinTally, Log
<1>3. ASSUME NEW payer \in Payers, NEW account \in TokenAccounts,
             NEW authority \in Keys \cup {None}, NEW durable \in BOOLEAN,
             NEW terms \in OfferedTerms, NEW expected \in U32 \cup {None},
             CallJoinGroup(g, m, payer, account, authority, durable, terms, expected)
      PROVE  EventsWithin'
  <2>1. Join(g)
    BY <1>3 DEF CallJoinGroup, Join
  <2>2. Exists(group'[g])
    BY <1>1, <2>1, JoinEffect, NoneAssumption DEF Kept, Exists
  <2> QED
    BY <1>1, <1>3, <2>2, JoinWithin
<1> QED
  BY <1>1, <1>2, <1>3, LeaveWithin, DepositWithin DEF MemberCall

\* events.rs, docs/monitoring.md:84-93.  For any number of groups and members:
\* the log alone tells of every group its status, its gate and the end of its
\* cycle, and until it settles who its members are and what each has in the
\* vault; and no event has a field beyond its width.
THEOREM TheLogIsEnough == ClientSpec => []ReaderKnowsGroups
<1>1. ClientInit => ReaderInv /\ EventsWithin /\ LamportsKept
  <2> SUFFICES ASSUME ClientInit
               PROVE  ReaderInv /\ EventsWithin /\ LamportsKept
    OBVIOUS
  <2>1. Init /\ events = <<>> /\ seen = [g \in Groups |-> None]
    BY DEF ClientInit
  <2>2. ReaderInv
    BY <2>1 DEF Init, ReaderInv, SeenOK, KnownAt, Exists
  <2> QED
    BY <2>1, <2>2, InitLamports DEF EventsWithin
<1>2. LedgerInv /\ LamportsKept /\ [ClientNext]_clientVars => LamportsKept'
  BY CallIsStep, LamportsStep DEF LedgerInv
<1>3. LedgerInv /\ ReaderInv /\ LamportsKept /\ EventsWithin /\ [ClientNext]_clientVars
        => ReaderInv' /\ EventsWithin'
  <2> SUFFICES ASSUME LedgerInv, ReaderInv, LamportsKept, EventsWithin,
                      [ClientNext]_clientVars
               PROVE  ReaderInv' /\ EventsWithin'
    OBVIOUS
  <2>1. MembershipInv /\ TypeOK /\ TypeOK'
    BY CallIsStep, NextInv DEF LedgerInv, MembershipInv
  <2>2. CASE UNCHANGED clientVars
    <3>1. /\ seen' = seen /\ group' = group /\ gate' = gate /\ record' = record
          /\ events' = events
      BY <2>2 DEF clientVars, vars, transactionVars
    <3> QED
      BY <3>1, SameGroupsKnown DEF EventsWithin
  <2>3. CASE OtherStep
    BY <2>1, <2>3, OtherKnown, NothingWithin DEF OtherStep
  <2>4. ASSUME NEW g \in Groups, GroupCall(g)
        PROVE  ReaderInv' /\ EventsWithin'
    BY <2>1, <2>4, GroupCallKnown, GroupCallWithin
  <2>5. ASSUME NEW g \in Groups, NEW m \in Members, MemberCall(g, m)
        PROVE  ReaderInv' /\ EventsWithin'
    BY <2>1, <2>5, MemberCallKnown, MemberCallWithin
  <2> QED
    BY <2>2, <2>3, <2>4, <2>5 DEF ClientNext
<1>4. ReaderInv /\ EventsWithin => ReaderKnowsGroups
  BY DEF ReaderInv, KnownAt, EventsWithin, ReaderKnowsGroups
<1>5. ClientSpec => []LedgerInv
  BY ClientLedger, PTL
<1> QED
  BY <1>1, <1>2, <1>3, <1>4, <1>5, PTL DEF ClientSpec

==============================================================================
