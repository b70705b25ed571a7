---------------------------- MODULE CancelProofs -----------------------------
(***************************************************************************)
(* Signed cancels in flight, for every value of the constants: any number  *)
(* of messages, instances of a code, groups and members.                   *)
(***************************************************************************)
EXTENDS CancelInFlight, EscrowProofs

CancelMessages ==
    [group : Groups, creator : Creators, pairs : PairLists, mint_writable : BOOLEAN,
     members : SUBSET Members, signed : Nat, instance : Nat]

FlightOK ==
    /\ inFlight \subseteq CancelMessages
    /\ instance \in [Groups -> Nat]

BaseInv == MembershipInv /\ FlightOK

------------------------------------------------------------------------------
(* The client's lists are lists that anyone could send                     *)

LEMMA ListsAreLists ==
    ASSUME NEW g \in Groups, NEW pairs \in MemberLists(g)
    PROVE  pairs \in PairLists
<1> DEFINE n == Cardinality(Joined(g))
<1>1. PICK s \in SetToSeqs(Joined(g)), choice \in PayableAccounts(g) :
        pairs = [i \in DOMAIN s |-> [record |-> <<g, s[i]>>, account |-> choice[s[i]]]]
  BY DEF MemberLists
<1>2. s \in [1..n -> Joined(g)]
  BY DEF SetToSeqs
<1>3. n \in 0..Cardinality(Members)
  <2>1. IsFiniteSet(Members) /\ Joined(g) \subseteq Members
    BY AddressAssumption DEF Joined
  <2> QED
    BY <2>1, FS_Subset, FS_CardinalityType
<1>4. ASSUME NEW m \in Joined(g)
      PROVE  choice[m] \in TokenAccounts /\ <<g, m>> \in Pdas
  BY DEF PayableAccounts, Joined, Pdas
<1> HIDE DEF n
<1>5. pairs \in [1..n -> [record : Pdas, account : TokenAccounts]]
  BY <1>1, <1>2, <1>4
<1> QED
  BY <1>3, <1>5 DEF PairLists

------------------------------------------------------------------------------
(* A landing cancel is an ordinary emergency_cancel                        *)

LEMMA LandIsCancel ==
    ASSUME BaseInv, NEW msg \in inFlight, LandCancel(msg)
    PROVE  msg.group \in Groups /\ CreatorStep(msg.group)
<1>1. /\ msg.group \in Groups /\ msg.pairs \in PairLists
      /\ msg.mint_writable \in BOOLEAN
  BY DEF BaseInv, FlightOK, CancelMessages
<1> QED
  BY <1>1 DEF LandCancel, Cancels, CreatorStep

LEMMA CancelStepIsStep ==
    ASSUME BaseInv, [CancelNext]_allVars
    PROVE  [Next]_vars
<1>1. ASSUME NEW g \in Groups, SendCancel(g)
      PROVE  UNCHANGED vars
  BY <1>1 DEF SendCancel
<1>2. ASSUME NEW msg \in inFlight, LandCancel(msg)
      PROVE  Next
  BY <1>2, LandIsCancel DEF Next
<1>3. ASSUME NEW msg \in inFlight, DropCancel(msg)
      PROVE  UNCHANGED vars
  BY <1>3 DEF DropCancel
<1>4. ASSUME OtherStep
      PROVE  Next
  BY <1>4 DEF OtherStep, Next, CreatorStep
<1>5. ASSUME NEW a \in Adjustable, AccountStep(a)
      PROVE  [Next]_vars
  BY <1>5 DEF AccountStep, CloseAccount, CreateAccount, SwitchMemo, Next, Environment
<1> QED
  BY <1>1, <1>2, <1>3, <1>4, <1>5 DEF CancelNext, AccountStep, allVars

\* What owners do with their accounts moves nothing but a freeze that is lost
\* with the account.
LEMMA AccountStepKeeps ==
    ASSUME NEW a, AccountStep(a)
    PROVE  UNCHANGED <<now, group, vault, record, inFlight, instance, emptied>>
BY DEF AccountStep, CloseAccount, CreateAccount, SwitchMemo, Thaw, vars

\* The next messages are those in flight before, or one that was just signed.
LEMMA NextMessages ==
    ASSUME [CancelNext]_allVars, NEW msg \in inFlight', msg \notin inFlight
    PROVE  /\ UNCHANGED <<vars, instance, emptied>>
           /\ \E g \in Groups : \E pairs \in MemberLists(g) :
                /\ Unsettled(g)
                /\ msg = [group |-> g, creator |-> group[g].creator, pairs |-> pairs,
                          mint_writable |-> MintWritable(g), members |-> Joined(g),
                          signed |-> now, instance |-> instance[g]]
<1>1. ~UNCHANGED allVars /\ ~OtherStep /\ \A a \in Adjustable : ~AccountStep(a)
  BY AccountStepKeeps DEF allVars, cancelVars, OtherStep
<1>2. \A msg2 \in inFlight : ~LandCancel(msg2) /\ ~DropCancel(msg2)
  BY DEF LandCancel, DropCancel
<1>3. PICK g \in Groups : SendCancel(g)
  BY <1>1, <1>2 DEF CancelNext, AccountStep
<1> QED
  BY <1>3 DEF SendCancel

LEMMA InstanceSteps ==
    ASSUME BaseInv, [CancelNext]_allVars, NEW g \in Groups
    PROVE  InstanceStep(g, instance[g], instance'[g], emptied, emptied')
<1>1. instance[g] \in Nat
  BY DEF BaseInv, FlightOK
<1>2. ASSUME UNCHANGED <<group, vault, record, instance, emptied>>
      PROVE  InstanceStep(g, instance[g], instance'[g], emptied, emptied')
  BY <1>1, <1>2 DEF InstanceStep, Unsettled, BaseInv, MembershipInv, GroupInv
<1>3. ASSUME CountInstances
      PROVE  InstanceStep(g, instance[g], instance'[g], emptied, emptied')
  BY <1>3 DEF CountInstances, InstanceStep
<1>4. ASSUME NEW a, AccountStep(a)
      PROVE  InstanceStep(g, instance[g], instance'[g], emptied, emptied')
  BY <1>2, <1>4, AccountStepKeeps
<1> QED
  BY <1>2, <1>3, <1>4
  DEF CancelNext, SendCancel, LandCancel, DropCancel, OtherStep, AccountStep, vars,
      allVars, cancelVars

LEMMA BaseStep ==
    ASSUME BaseInv, [CancelNext]_allVars
    PROVE  BaseInv'
<1>1. MembershipInv'
  BY CancelStepIsStep, NextInv DEF BaseInv
<1>2. ASSUME NEW msg \in inFlight'
      PROVE  msg \in CancelMessages
  <2>1. CASE msg \in inFlight
    BY <2>1 DEF BaseInv, FlightOK
  <2>2. CASE msg \notin inFlight
    <3>1. PICK g \in Groups : \E pairs \in MemberLists(g) :
            /\ Unsettled(g)
            /\ msg = [group |-> g, creator |-> group[g].creator, pairs |-> pairs,
                      mint_writable |-> MintWritable(g), members |-> Joined(g),
                      signed |-> now, instance |-> instance[g]]
      BY <1>2, <2>2, NextMessages
    <3>2. PICK pairs \in MemberLists(g) :
            msg = [group |-> g, creator |-> group[g].creator, pairs |-> pairs,
                   mint_writable |-> MintWritable(g), members |-> Joined(g),
                   signed |-> now, instance |-> instance[g]]
      BY <3>1
    <3>3. pairs \in PairLists
      BY ListsAreLists
    <3>4. /\ group[g].creator \in Creators /\ now \in Nat /\ instance[g] \in Nat
          /\ MintWritable(g) \in BOOLEAN /\ Joined(g) \in SUBSET Members
      BY <3>1 DEF BaseInv, MembershipInv, TypeOK, FlightOK, Unsettled, Exists,
                  GroupConfig, MintWritable, Joined
    <3> QED
      BY <3>2, <3>3, <3>4 DEF CancelMessages
  <2> QED
    BY <2>1, <2>2
<1>3. instance' \in [Groups -> Nat]
  <2>1. ASSUME NEW g \in Groups
        PROVE  instance'[g] \in Nat
    <3>1. instance[g] \in Nat
      BY DEF BaseInv, FlightOK
    <3>2. InstanceStep(g, instance[g], instance'[g], emptied, emptied')
      BY InstanceSteps
    <3> QED
      BY <3>1, <3>2 DEF InstanceStep
  <2>2. \/ instance' = instance
        \/ instance' = [g \in Groups |-> instance'[g]]
    BY AccountStepKeeps DEF AccountStep, CancelNext, SendCancel, LandCancel, DropCancel, OtherStep, CountInstances,
           allVars, cancelVars
  <2> QED
    BY <2>1, <2>2 DEF BaseInv, FlightOK
<1> QED
  BY <1>1, <1>2, <1>3 DEF BaseInv, FlightOK

LEMMA BaseInit == CancelInit => BaseInv
BY InitInv DEF CancelInit, BaseInv, FlightOK

LEMMA Base == CancelSpec => []BaseInv
<1>1. BaseInv /\ [CancelNext]_allVars => BaseInv'
  BY BaseStep
<1> QED
  BY <1>1, BaseInit, PTL DEF CancelSpec

\* The program with signed cancels in flight does only what the program does:
\* the client's lists are lists that anyone could have sent, so everything
\* proved of Spec holds with cancels that land late, twice or never.
THEOREM CancelsAreProgramSteps == CancelSpec => Spec
<1>1. CancelInit => Init
  BY DEF CancelInit
<1>2. BaseInv /\ [CancelNext]_allVars => [Next]_vars
  BY CancelStepIsStep
<1> QED
  BY <1>1, <1>2, Base, PTL DEF CancelSpec, Spec

------------------------------------------------------------------------------
(* A late cancel reaches a later group only over empty groups              *)

LateOK ==
    /\ \A g \in Groups : SettledPast(g, instance[g], emptied)
    /\ \A msg \in inFlight :
         /\ now <= msg.signed + BlockhashLife
         /\ Outlived(msg.group, msg.signed, msg.instance, instance[msg.group], emptied)

LEMMA CancelsKeepTime ==
    ASSUME BaseInv, NEW msg \in inFlight, LandCancel(msg)
    PROVE  now' = now
BY DEF LandCancel, Cancels, EmergencyCancel, Settle

LEMMA LateStep ==
    ASSUME BaseInv, LateOK, [CancelNext]_allVars
    PROVE  LateOK'
<1>1. [Next]_vars /\ MembershipInv /\ MembershipInv'
  BY CancelStepIsStep, BaseStep DEF BaseInv
<1>2. ASSUME NEW g \in Groups
      PROVE  SettledPast(g, instance[g], emptied)'
  <2>1. instance[g] \in Nat
    BY DEF BaseInv, FlightOK
  <2> QED
    BY <1>1, <2>1, InstanceSteps, SettledPastStep DEF LateOK, SettledPast, Past
<1>3. ASSUME NEW msg \in inFlight', msg \in inFlight
      PROVE  /\ now' <= msg.signed + BlockhashLife
             /\ Outlived(msg.group, msg.signed, msg.instance, instance[msg.group], emptied)'
  <2>1. /\ msg.group \in Groups /\ msg.signed \in Nat /\ msg.instance \in Nat
        /\ instance[msg.group] \in Nat
    BY <1>3 DEF BaseInv, FlightOK, CancelMessages
  <2>2. /\ SettledPast(msg.group, instance[msg.group], emptied)
        /\ Outlived(msg.group, msg.signed, msg.instance, instance[msg.group], emptied)
        /\ now <= msg.signed + BlockhashLife
    BY <1>3, <2>1 DEF LateOK
  <2>3. InstanceStep(msg.group, instance[msg.group], instance'[msg.group],
                     emptied, emptied')
    BY <2>1, InstanceSteps
  <2>4. Outlived(msg.group, msg.signed, msg.instance, instance[msg.group], emptied)'
    BY <1>1, <2>1, <2>2, <2>3, OutlivedStep DEF Outlived, Past
  <2>5. now' = now \/ now' <= msg.signed + BlockhashLife
    BY <1>3, CancelsKeepTime, AccountStepKeeps
    DEF CancelNext, SendCancel, DropCancel, OtherStep, AccountStep, allVars, vars
  <2> QED
    BY <2>2, <2>4, <2>5
<1>4. ASSUME NEW msg \in inFlight', msg \notin inFlight
      PROVE  /\ now' <= msg.signed + BlockhashLife
             /\ Outlived(msg.group, msg.signed, msg.instance, instance[msg.group], emptied)'
  <2>1. UNCHANGED <<vars, instance, emptied>>
    BY <1>4, NextMessages
  <2>2. PICK g \in Groups :
          /\ Unsettled(g)
          /\ msg.group = g /\ msg.signed = now /\ msg.instance = instance[g]
    BY <1>4, NextMessages
  <2>3. now \in Nat /\ instance[g] \in Nat
    BY DEF BaseInv, MembershipInv, TypeOK, FlightOK
  <2>4. Outlived(msg.group, msg.signed, msg.instance, instance[msg.group], emptied)
    BY <2>2, <2>3 DEF Outlived, Unsettled
  <2> QED
    BY <2>1, <2>2, <2>3, <2>4, CancelAssumption
    DEF Outlived, Past, Settled, Exists, vars
<1> QED
  BY <1>2, <1>3, <1>4 DEF LateOK

LEMMA Late == CancelSpec => [](BaseInv /\ LateOK)
<1>1. CancelInit => LateOK
  BY DEF CancelInit, Init, LateOK, SettledPast, Exists
<1>2. BaseInv /\ LateOK /\ [CancelNext]_allVars => LateOK'
  BY LateStep
<1>3. BaseInv /\ [CancelNext]_allVars => BaseInv'
  BY BaseStep
<1> QED
  BY <1>1, <1>2, <1>3, BaseInit, PTL DEF CancelSpec

\* A cancel that was sent twice, or that lands late, reaches a later group at
\* the code only when every group in between settled without a member: records
\* keep the address taken for longer than the message's blockhash lives.
THEOREM LateCancelsMeetEmptyGroups == CancelSpec => LateCancelNeedsEmptyGroups
<1>1. ASSUME BaseInv, LateOK, NEW msg \in inFlight,
             NEW k \in msg.instance..(instance[msg.group] - 1)
      PROVE  <<msg.group, k>> \in emptied
  <2>1. /\ Past(msg.group, k, emptied, msg.signed)
        /\ now <= msg.signed + BlockhashLife
    BY <1>1 DEF LateOK, Outlived
  <2>2. msg.signed \in Nat /\ now \in Nat
    BY <1>1 DEF BaseInv, MembershipInv, TypeOK, FlightOK, CancelMessages
  <2> QED
    BY <2>1, <2>2, TimeAssumption, CancelAssumption DEF Past
<1>2. BaseInv /\ LateOK /\ [CancelNext]_allVars =>
        [\A msg \in inFlight :
            LandCancel(msg) =>
               \A k \in msg.instance..(instance[msg.group] - 1) :
                   <<msg.group, k>> \in emptied]_allVars
  BY <1>1
<1> QED
  BY <1>2, Late, PTL DEF CancelSpec, LateCancelNeedsEmptyGroups

------------------------------------------------------------------------------
(* A list stays good while the group has the members that it names         *)

\* A cancel names its members in some order, each with an account of its own,
\* and has the mint writable exactly when there is nobody to pay.
ListOK(msg) ==
    /\ msg.mint_writable = (msg.members = {})
    /\ \E s \in SetToSeqs(msg.members) :
         /\ DOMAIN msg.pairs = DOMAIN s
         /\ \A i \in DOMAIN s : /\ msg.pairs[i].record = <<msg.group, s[i]>>
                                /\ OwnerOf[msg.pairs[i].account] = s[i]

\* While the group lives that it was signed for, creator and mint are those
\* that the client read.
SignedFor(msg) ==
    LET g == msg.group IN
    /\ msg.instance <= instance[g]
    /\ Exists(group[g]) /\ msg.instance = instance[g] =>
         /\ group[g].creator = msg.creator
         /\ \A i \in DOMAIN msg.pairs : MintOf[msg.pairs[i].account] = group[g].mint

ListsInv == \A msg \in inFlight : ListOK(msg) /\ SignedFor(msg)

LEMMA ListMade ==
    ASSUME NEW g \in Groups, NEW pairs \in MemberLists(g)
    PROVE  \E s \in SetToSeqs(Joined(g)) :
             /\ DOMAIN pairs = DOMAIN s
             /\ \A i \in DOMAIN s : /\ pairs[i].record = <<g, s[i]>>
                                    /\ OwnAccount(pairs[i].account, g, s[i])
<1>1. PICK s \in SetToSeqs(Joined(g)), choice \in PayableAccounts(g) :
        pairs = [i \in DOMAIN s |-> [record |-> <<g, s[i]>>, account |-> choice[s[i]]]]
  BY DEF MemberLists
<1>2. \A i \in DOMAIN s : s[i] \in Joined(g)
  BY DEF SetToSeqs
<1>3. \A m \in Joined(g) : OwnAccount(choice[m], g, m)
  BY DEF PayableAccounts
<1> QED
  BY <1>1, <1>2, <1>3

LEMMA ListsStep ==
    ASSUME BaseInv, ListsInv, [CancelNext]_allVars
    PROVE  ListsInv'
<1>1. ASSUME NEW msg \in inFlight', msg \in inFlight
      PROVE  ListOK(msg) /\ SignedFor(msg)'
  <2>1. PICK g \in Groups : g = msg.group
    BY <1>1 DEF BaseInv, FlightOK, CancelMessages
  <2>2. msg.instance \in Nat /\ instance[g] \in Nat
    BY <1>1 DEF BaseInv, FlightOK, CancelMessages
  <2>3. InstanceStep(g, instance[g], instance'[g], emptied, emptied')
    BY InstanceSteps
  <2>4. ListOK(msg) /\ msg.instance <= instance[g]
    BY <1>1, <2>1 DEF ListsInv, SignedFor
  <2>5. msg.instance <= instance'[g]
    BY <2>2, <2>3, <2>4 DEF InstanceStep
  <2>6. ASSUME Exists(group'[g]), msg.instance = instance'[g]
        PROVE  /\ group'[g].creator = msg.creator
               /\ \A i \in DOMAIN msg.pairs :
                    MintOf[msg.pairs[i].account] = group'[g].mint
    <3>1. Exists(group[g]) /\ msg.instance = instance[g]
      BY <2>2, <2>3, <2>4, <2>6 DEF InstanceStep
    <3>2. /\ group'[g].creator = group[g].creator
          /\ group'[g].mint = group[g].mint
      <4>1. [Next]_vars /\ MembershipInv /\ MembershipInv'
        BY CancelStepIsStep, BaseStep DEF BaseInv
      <4> QED
        BY <2>6, <3>1, <4>1, LifecycleStep DEF LifecycleOf, Terms
    <3> QED
      BY <1>1, <2>1, <3>1, <3>2 DEF ListsInv, SignedFor
  <2> QED
    BY <2>1, <2>4, <2>5, <2>6 DEF SignedFor, Exists
<1>2. ASSUME NEW msg \in inFlight', msg \notin inFlight
      PROVE  ListOK(msg) /\ SignedFor(msg)'
  <2>1. UNCHANGED <<vars, instance>>
    BY <1>2, NextMessages
  <2>2. PICK g \in Groups : \E pairs \in MemberLists(g) :
          /\ Unsettled(g)
          /\ msg = [group |-> g, creator |-> group[g].creator, pairs |-> pairs,
                    mint_writable |-> MintWritable(g), members |-> Joined(g),
                    signed |-> now, instance |-> instance[g]]
    BY <1>2, NextMessages
  <2>3. PICK pairs \in MemberLists(g) :
          msg = [group |-> g, creator |-> group[g].creator, pairs |-> pairs,
                 mint_writable |-> MintWritable(g), members |-> Joined(g),
                 signed |-> now, instance |-> instance[g]]
    BY <2>2
  <2>4. /\ msg.group = g /\ msg.creator = group[g].creator /\ msg.pairs = pairs
        /\ msg.mint_writable = MintWritable(g) /\ msg.members = Joined(g)
        /\ msg.instance = instance[g]
    BY <2>3
  <2>5. PICK s \in SetToSeqs(Joined(g)) :
          /\ DOMAIN pairs = DOMAIN s
          /\ \A i \in DOMAIN s : /\ pairs[i].record = <<g, s[i]>>
                                 /\ OwnAccount(pairs[i].account, g, s[i])
    BY ListMade
  <2>6. ListOK(msg)
    BY <2>4, <2>5 DEF ListOK, MintWritable, OwnAccount
  <2>7. instance[g] \in Nat
    BY DEF BaseInv, FlightOK
  <2>8. SignedFor(msg)
    BY <2>4, <2>5, <2>7 DEF SignedFor, OwnAccount
  <2> QED
    BY <2>1, <2>6, <2>8 DEF SignedFor, vars
<1> QED
  BY <1>1, <1>2 DEF ListsInv, ListOK

LEMMA Lists == CancelSpec => [](BaseInv /\ ListsInv)
<1>1. CancelInit => ListsInv
  BY DEF CancelInit, ListsInv
<1>2. BaseInv /\ ListsInv /\ [CancelNext]_allVars => ListsInv'
  BY ListsStep
<1>3. BaseInv /\ [CancelNext]_allVars => BaseInv'
  BY BaseStep
<1> QED
  BY <1>1, <1>2, <1>3, BaseInit, PTL DEF CancelSpec

\* Such a list names every member of the group once.
LEMMA ListNamesAll ==
    ASSUME BaseInv, ListsInv, NEW msg \in inFlight, NEW g \in Groups, g = msg.group,
           msg.instance = instance[g], Unsettled(g), msg.members = Joined(g)
    PROVE  NamesAll(g, msg.pairs)
<1> DEFINE n == Cardinality(Joined(g))
<1>1. PICK s \in SetToSeqs(Joined(g)) :
        /\ DOMAIN msg.pairs = DOMAIN s
        /\ \A i \in DOMAIN s : /\ msg.pairs[i].record = <<g, s[i]>>
                               /\ OwnerOf[msg.pairs[i].account] = s[i]
  BY DEF ListsInv, ListOK
<1>2. /\ s \in [1..n -> Joined(g)] /\ n \in Nat /\ DOMAIN s = 1..n
      /\ \A i, j \in 1..n : i # j => s[i] # s[j]
  BY JoinedFinite, FS_CardinalityType DEF SetToSeqs
<1>3. Len(msg.pairs) = n
  <2>1. msg.pairs \in PairLists
    BY DEF BaseInv, FlightOK, CancelMessages
  <2>2. Len(msg.pairs) \in Nat /\ 1..Len(msg.pairs) = 1..n
    BY <1>1, <1>2, <2>1, PairListDomain
  <2> HIDE DEF n
  <2> QED
    BY <1>2, <2>2
<1>4. n = group[g].current_members
  BY DEF BaseInv, MembershipInv, GroupInv, Unsettled
<1>5. ASSUME NEW i \in 1..n
      PROVE  /\ Exists(record[msg.pairs[i].record])
             /\ msg.pairs[i].record[1] = g
             /\ \A j \in 1..(i - 1) : msg.pairs[j].record # msg.pairs[i].record
             /\ OwnAccount(msg.pairs[i].account, g, msg.pairs[i].record[2])
  <2>1. msg.pairs[i].record = <<g, s[i]>> /\ s[i] \in Joined(g)
    BY <1>1, <1>2
  <2>2. Exists(record[<<g, s[i]>>])
    BY <2>1 DEF Joined
  <2>3. ASSUME NEW j \in 1..(i - 1)
        PROVE  msg.pairs[j].record # msg.pairs[i].record
    <3>1. j \in 1..n /\ j # i
      <4> HIDE DEF n
      <4> QED
        BY <1>2
    <3>2. msg.pairs[j].record = <<g, s[j]>> /\ s[j] # s[i]
      BY <1>1, <1>2, <3>1
    <3> QED
      BY <2>1, <3>2
  <2>4. MintOf[msg.pairs[i].account] = group[g].mint
    BY <1>1, <1>2 DEF ListsInv, SignedFor, Unsettled
  <2>5. OwnerOf[msg.pairs[i].account] = s[i]
    BY <1>1, <1>2
  <2> QED
    BY <2>1, <2>2, <2>3, <2>4, <2>5 DEF OwnAccount
<1> QED
  BY <1>1, <1>2, <1>3, <1>4, <1>5 DEF NamesAll, ValidPairs

\* A signed cancel is taken whenever it lands, for any number of members and
\* messages and whatever happened since, as long as the group has the members
\* that it lists, no rent rise makes the refund impossible, and every account
\* that it lists takes payouts: the issuer has not frozen it, and its owner has
\* neither closed it nor has it require memos.
THEOREM ListsStayGood == CancelSpec => []ListStaysGood
<1>1. ASSUME BaseInv, ListsInv, LedgerInv, VaultsBack, SupplyKept
      PROVE  ListStaysGood
  <2> SUFFICES ASSUME NEW msg \in inFlight, NEW g \in Groups, g = msg.group,
                      msg.instance = instance[g], Unsettled(g),
                      msg.members = Joined(g),
                      group[g].lamports + vault[g].lamports >= Floor("group"),
                      \A i \in DOMAIN msg.pairs : TakesPayout(msg.pairs[i].account)
               PROVE  CanLand(msg)
    BY <1>1 DEF ListStaysGood, BaseInv, FlightOK, CancelMessages
  <2> DEFINE pairs == msg.pairs
  <2>1. pairs \in PairLists
    BY <1>1 DEF BaseInv, FlightOK, CancelMessages
  <2>2. SettlementChecks(g, pairs)
    BY <1>1, <2>1, ListNamesAll, NamedPasses
  <2>3. group[g].creator = msg.creator
    BY <1>1 DEF ListsInv, SignedFor, Unsettled
  <2>4. Exists(group[g]) /\ group[g].status \in {"Open", "Active"}
    BY <1>1 DEF Unsettled, Settled, BaseInv, MembershipInv, TypeOK, Exists,
                GroupConfig, Statuses
  <2>5. UnownedVaultBalance(g) > 0 => msg.mint_writable
    <3>1. group[g].current_members = 0 => Joined(g) = {}
      <4>1. group[g].current_members = Cardinality(Joined(g)) /\ IsFiniteSet(Joined(g))
        BY <1>1, JoinedFinite DEF BaseInv, MembershipInv, GroupInv, Unsettled
      <4> QED
        BY <4>1, FS_EmptySet
    <3>2. msg.mint_writable = (Joined(g) = {})
      BY <1>1 DEF ListsInv, ListOK
    <3>3. group[g].current_members # 0 => UnownedVaultBalance(g) = 0
      BY DEF UnownedVaultBalance
    <3>4. UnownedVaultBalance(g) > 0 => Joined(g) = {}
      BY <3>1, <3>3
    <3> QED
      BY <3>2, <3>4, Zenon
  <2>6. vault[g].amount = Paid(g, pairs, DOMAIN pairs) + UnownedVaultBalance(g)
    BY <1>1, <2>1, <2>2, PaidIsPot
  <2>7. ASSUME NEW a \in TokenAccounts
        PROVE  tokens[a] + Credit(g, pairs, a) \in U64
    <3>1. group[g].mint \in Mints
      BY <1>1, <2>4 DEF BaseInv, MembershipInv, TypeOK, Exists, GroupConfig
    <3>2. Cardinality(MintAccounts(group[g].mint)) * TokenFunds \in U64
      BY <3>1, SupplyAssumption DEF MintAccounts
    <3> QED
      BY <1>1, <2>1, <2>2, <3>2, CreditFits
  <2>8. AccountsTake(g, pairs)
    BY DEF AccountsTake, TakesPayout
  <2> QED
    BY <2>2, <2>3, <2>4, <2>5, <2>6, <2>7, <2>8
    DEF CanLand, CancelChecks, CanSettle, TakesPayout
<1> QED
  BY <1>1, Lists, CancelsAreProgramSteps, Backing, SupplyBounded, PTL

==============================================================================
