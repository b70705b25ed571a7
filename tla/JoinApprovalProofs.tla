------------------------- MODULE JoinApprovalProofs --------------------------
(***************************************************************************)
(* Signed joins in flight, for every value of the constants: any number of *)
(* messages, instances of a code, groups and members.  The bounds of       *)
(* JoinApproval (MaxInFlight, MaxInstances) play no part in the proofs.    *)
(***************************************************************************)
EXTENDS JoinApproval, SafeNudgeProofs

\* What is known of a signed join: its fields were read from one group, which
\* offered these terms, and it pays from an account of that group's mint.
JoinMessages ==
    [group : Groups, member : Members, payer : Payers, account : TokenAccounts,
     authority : Keys \cup {None}, durable : BOOLEAN, terms : OfferedTerms,
     expected : U32 \cup {None}, signed : Nat, instance : Nat,
     creator : Creators, mint : Mints]

AsShown(msg) ==
    /\ msg.terms.creator = msg.creator
    /\ MintOf[msg.account] = msg.mint

FlightOK ==
    /\ \A msg \in inFlight : msg \in JoinMessages /\ AsShown(msg)
    /\ instance \in [Groups -> Nat]

BaseInv == MembershipInv /\ OffersOK /\ FlightOK

------------------------------------------------------------------------------
(* A landing message is an ordinary join, so signed messages can do nothing *)
(* to the program that its own specification does not allow                 *)

LEMMA LandIsJoin ==
    ASSUME BaseInv, NEW msg \in inFlight, Land(msg)
    PROVE  msg.group \in Groups /\ Join(msg.group)
<1>1. msg \in JoinMessages
  BY DEF BaseInv, FlightOK
<1>2. JoinGroup(msg.group, msg.member, msg.payer, msg.account, msg.authority,
                msg.durable, msg.terms, msg.expected)
  BY DEF Land
<1>3. /\ msg.group \in Groups /\ msg.member \in Members /\ msg.payer \in Payers
      /\ msg.account \in TokenAccounts /\ msg.authority \in Keys \cup {None}
      /\ msg.durable \in BOOLEAN /\ msg.terms \in OfferedTerms
      /\ msg.expected \in U32 \cup {None}
  BY <1>1 DEF JoinMessages
<1> QED
  BY <1>2, <1>3 DEF Join

LEMMA ApprovalStepIsStep ==
    ASSUME BaseInv, [ApprovalNext]_allVars
    PROVE  [Next]_vars
<1>1. ASSUME NEW g \in Groups, NEW m \in Members, Approve(g, m)
      PROVE  UNCHANGED vars
  BY <1>1 DEF Approve
<1>2. ASSUME NEW g \in Groups, NEW m \in Members, NEW payer \in Payers,
             NEW account \in TokenAccounts, NEW durable \in BOOLEAN,
             NEW expected \in U32 \cup {None},
             SignJoin(g, m, payer, account, durable, expected)
      PROVE  UNCHANGED vars
  BY <1>2 DEF SignJoin
<1>3. ASSUME NEW msg \in inFlight, Land(msg)
      PROVE  Next
  BY <1>3, LandIsJoin DEF Next
<1>4. ASSUME OtherStep
      PROVE  Next
  BY <1>4 DEF OtherStep, Next
<1> QED
  BY <1>1, <1>2, <1>3, <1>4 DEF ApprovalNext, allVars

LEMMA SignedMessage ==
    ASSUME BaseInv, NEW g \in Groups, NEW m \in Members, NEW payer \in Payers,
           NEW account \in TokenAccounts, NEW durable \in BOOLEAN,
           NEW expected \in U32 \cup {None},
           SignJoin(g, m, payer, account, durable, expected),
           NEW msg, msg =
             [group |-> g, member |-> m, payer |-> payer, account |-> account,
              authority |-> IF Exists(gate[g]) THEN gate[g].authority ELSE None,
              durable |-> durable, terms |-> Terms(group[g]), expected |-> expected,
              signed |-> now, instance |-> instance[g],
              creator |-> group[g].creator, mint |-> group[g].mint]
    PROVE  msg \in JoinMessages /\ AsShown(msg)
<1>1. /\ group[g] \in GroupConfig /\ now \in Nat /\ instance[g] \in Nat
      /\ Terms(group[g]) \in OfferedTerms
      /\ Exists(gate[g]) => gate[g] \in JoinGate
  BY DEF BaseInv, MembershipInv, TypeOK, FlightOK, OffersOK, SignJoin, Exists
<1>2. /\ group[g].creator \in Creators /\ group[g].mint \in Mints
      /\ (IF Exists(gate[g]) THEN gate[g].authority ELSE None) \in Keys \cup {None}
  BY <1>1 DEF GroupConfig, JoinGate
<1>3. msg \in JoinMessages
  BY <1>1, <1>2 DEF JoinMessages
<1> QED
  BY <1>3 DEF AsShown, Terms, SignJoin, OwnAccount

\* The next messages are those in flight before, or one that was just signed.
LEMMA NextMessages ==
    ASSUME [ApprovalNext]_allVars, NEW msg \in inFlight', msg \notin inFlight
    PROVE  /\ UNCHANGED <<vars, approval, instance, emptied, landed>>
           /\ \E g \in Groups, m \in Members, payer \in Payers,
                 account \in TokenAccounts, durable \in BOOLEAN,
                 expected \in U32 \cup {None} :
                /\ SignJoin(g, m, payer, account, durable, expected)
                /\ msg =
                     [group |-> g, member |-> m, payer |-> payer, account |-> account,
                      authority |-> IF Exists(gate[g]) THEN gate[g].authority ELSE None,
                      durable |-> durable, terms |-> Terms(group[g]),
                      expected |-> expected, signed |-> now, instance |-> instance[g],
                      creator |-> group[g].creator, mint |-> group[g].mint]
<1>1. ~UNCHANGED allVars /\ ~OtherStep
  BY DEF allVars, approvalVars, OtherStep
<1>2. \A msg2 \in inFlight : ~Land(msg2)
  BY DEF Land
<1>3. \A g \in Groups, m \in Members : ~Approve(g, m)
  BY DEF Approve
<1>4. PICK g \in Groups, m \in Members, payer \in Payers, account \in TokenAccounts,
           durable \in BOOLEAN, expected \in U32 \cup {None} :
             SignJoin(g, m, payer, account, durable, expected)
  BY <1>1, <1>2, <1>3 DEF ApprovalNext
<1> QED
  BY <1>4 DEF SignJoin

\* What every step does to the two history variables, for each address.
LEMMA InstanceSteps ==
    ASSUME BaseInv, [ApprovalNext]_allVars, NEW g \in Groups
    PROVE  InstanceStep(g, instance[g], instance'[g], emptied, emptied')
<1>1. instance[g] \in Nat
  BY DEF BaseInv, FlightOK
<1>2. ASSUME UNCHANGED <<vars, instance, emptied>>
      PROVE  InstanceStep(g, instance[g], instance'[g], emptied, emptied')
  BY <1>1, <1>2 DEF InstanceStep, vars, Unsettled, BaseInv, MembershipInv, GroupInv
<1>3. ASSUME NEW msg \in inFlight, Land(msg)
      PROVE  InstanceStep(g, instance[g], instance'[g], emptied, emptied')
  <2>1. UNCHANGED <<instance, emptied>>
    BY <1>3 DEF Land
  <2>2. Only(msg.group) /\ Kept(msg.group)
    BY <1>3, LandIsJoin, JoinEffect DEF BaseInv, MembershipInv
  <2>3. Exists(group'[g]) <=> Exists(group[g])
    BY <2>2, NoneAssumption DEF Only, Kept, Exists, BaseInv, MembershipInv, TypeOK
  <2>4. Unsettled(g) => Exists(vault'[g])
    <3>1. Unsettled(g) => Exists(vault[g])
      BY DEF BaseInv, MembershipInv, GroupInv, Unsettled
    <3>2. Exists(vault'[g]) <=> Exists(vault[g])
      <4>1. PayIn(msg.group, msg.account, group[msg.group].deposit_amount)
        BY <1>3 DEF Land, JoinGroup
      <4>2. msg.group \in Groups
        BY <1>3, LandIsJoin
      <4> QED
        BY <4>1, <4>2, PayInKeepsVaults DEF BaseInv, MembershipInv
    <3> QED
      BY <3>1, <3>2
  <2> QED
    BY <1>1, <2>1, <2>3, <2>4 DEF InstanceStep
<1>4. ASSUME OtherStep
      PROVE  InstanceStep(g, instance[g], instance'[g], emptied, emptied')
  <2>1. instance'[g] =
          instance[g] + (IF ~Exists(group[g]) /\ Exists(group'[g]) THEN 1 ELSE 0)
    BY <1>4 DEF OtherStep
  <2>2. emptied \subseteq emptied'
    BY <1>4 DEF OtherStep
  <2>3. Unsettled(g) /\ ~Exists(vault'[g]) /\ Joined(g) = {}
          => <<g, instance[g]>> \in emptied'
    BY <1>4 DEF OtherStep
  <2> QED
    BY <2>1, <2>2, <2>3 DEF InstanceStep
<1>5. ASSUME NEW h, NEW m, Approve(h, m)
      PROVE  UNCHANGED <<vars, instance, emptied>>
  BY <1>5 DEF Approve
<1>6. ASSUME NEW h, NEW m, NEW payer, NEW account, NEW durable, NEW expected,
             SignJoin(h, m, payer, account, durable, expected)
      PROVE  UNCHANGED <<vars, instance, emptied>>
  BY <1>6 DEF SignJoin
<1>7. CASE UNCHANGED allVars
  BY <1>2, <1>7 DEF allVars, approvalVars
<1>8. CASE ApprovalNext
  BY <1>2, <1>3, <1>4, <1>5, <1>6, <1>8 DEF ApprovalNext
<1> QED
  BY <1>7, <1>8

LEMMA BaseStep ==
    ASSUME BaseInv, [ApprovalNext]_allVars
    PROVE  BaseInv'
<1>1. MembershipInv' /\ OffersOK'
  BY ApprovalStepIsStep, NextInv, OffersStep DEF BaseInv
<1>2. ASSUME NEW msg \in inFlight'
      PROVE  msg \in JoinMessages /\ AsShown(msg)
  BY <1>2, NextMessages, SignedMessage DEF BaseInv, FlightOK
<1>3. instance' \in [Groups -> Nat]
  <2>1. ASSUME NEW g \in Groups
        PROVE  instance'[g] \in Nat
    <3>1. instance[g] \in Nat
      BY DEF BaseInv, FlightOK
    <3>2. InstanceStep(g, instance[g], instance'[g], emptied, emptied')
      BY InstanceSteps
    <3> QED
      BY <3>1, <3>2 DEF InstanceStep
  <2>2. \/ instance' = instance
        \/ instance' = [g \in Groups |-> instance'[g]]
    <3>1. \A h, m : Approve(h, m) => instance' = instance
      BY DEF Approve
    <3>2. \A h, m, payer, account, durable, expected :
            SignJoin(h, m, payer, account, durable, expected) => instance' = instance
      BY DEF SignJoin
    <3>3. \A msg : Land(msg) => instance' = instance
      BY DEF Land
    <3>4. OtherStep => instance' = [g \in Groups |-> instance'[g]]
      BY DEF OtherStep
    <3>5. UNCHANGED allVars => instance' = instance
      BY DEF allVars, approvalVars
    <3> QED
      BY <3>1, <3>2, <3>3, <3>4, <3>5 DEF ApprovalNext
  <2> QED
    BY <2>1, <2>2 DEF BaseInv, FlightOK
<1> QED
  BY <1>1, <1>2, <1>3 DEF BaseInv, FlightOK, AsShown

LEMMA BaseInit == ApprovalInit => BaseInv
BY InitInv DEF ApprovalInit, BaseInv, FlightOK, OffersOK, Init, Exists

LEMMA Base == ApprovalSpec => []BaseInv
<1>1. BaseInv /\ [ApprovalNext]_allVars => BaseInv'
  BY BaseStep
<1> QED
  BY <1>1, BaseInit, PTL DEF ApprovalSpec

\* The program with signed joins in flight does only what the program does, so
\* everything proved of Spec holds with messages that land late or never.
THEOREM MessagesAreProgramSteps == ApprovalSpec => Spec
<1>1. ApprovalInit => Init
  BY DEF ApprovalInit
<1>2. BaseInv /\ [ApprovalNext]_allVars => [Next]_vars
  BY ApprovalStepIsStep
<1> QED
  BY <1>1, <1>2, Base, PTL DEF ApprovalSpec, Spec

\* A join lands only in a group of the creator and on the mint that the member
\* was shown: the creator is part of the terms that join_group compares, and
\* the paying account's mint is that of the group.
THEOREM LandsAsShown == ApprovalSpec => JoinsLandAsShown
<1>1. ASSUME BaseInv, NEW msg \in inFlight, Land(msg)
      PROVE  /\ group[msg.group].creator = msg.creator
             /\ group[msg.group].mint = msg.mint
  <2>1. Terms(group[msg.group]) = msg.terms /\ MintOf[msg.account] = group[msg.group].mint
    BY <1>1 DEF Land, JoinGroup, OwnAccount
  <2> QED
    BY <1>1, <2>1 DEF BaseInv, FlightOK, AsShown, Terms
<1>2. BaseInv /\ [ApprovalNext]_allVars =>
        [\A msg \in inFlight :
            Land(msg) => /\ group[msg.group].creator = msg.creator
                         /\ group[msg.group].mint = msg.mint]_allVars
  BY <1>1
<1> QED
  BY <1>2, Base, PTL DEF ApprovalSpec, JoinsLandAsShown

------------------------------------------------------------------------------
(* One approval, one join.  A landed approval's count is below the tally's *)
(* for as long as the group lives; so the same count cannot pass again,    *)
(* whether the member stayed, left or came back.  It is the tally that     *)
(* outlives the member record which makes this inductive.                  *)

LandedOK ==
    /\ landed \subseteq Groups \X Members \X (U32 \cup {None})
    /\ \A g \in Groups, m \in Members, joins \in U32 \cup {None} :
         <<g, m, joins>> \in landed /\ Exists(group[g]) =>
            joins \in Nat /\ joins < Joins(g, m)

LEMMA JoinsType ==
    ASSUME TypeOK, NEW g \in Groups, NEW m \in Members
    PROVE  Joins(g, m) \in Nat
BY AmountAssumption DEF TypeOK, Joins, JoinTally, Exists, Pdas, U32

LEMMA JoinsTypeNext ==
    ASSUME TypeOK', NEW g \in Groups, NEW m \in Members
    PROVE  Joins(g, m)' \in Nat
BY AmountAssumption DEF TypeOK, Joins, JoinTally, Exists, Pdas, U32

LEMMA ApprovedCount ==
    ASSUME BaseInv, NEW msg \in inFlight, Land(msg), Exists(gate[msg.group])
    PROVE  msg.expected \in Nat /\ msg.expected = Joins(msg.group, msg.member)
<1>1. msg.expected \in U32 \cup {None} /\ msg.expected # None
  BY DEF BaseInv, FlightOK, JoinMessages, Land, JoinGroup, JoinApproved
<1> QED
  BY <1>1, AmountAssumption DEF Land, JoinGroup, U32

\* Within one group's life its join counts do not fall.
LEMMA JoinsGrow ==
    ASSUME MembershipInv, [Next]_vars, NEW g \in Groups, NEW m \in Members,
           Exists(group[g])
    PROVE  Joins(g, m) <= Joins(g, m)'
<1>1. Joins(g, m) \in Nat
  BY JoinsType DEF MembershipInv
<1>2. Joins(g, m)' = Joins(g, m) \/ Joins(g, m)' = Joins(g, m) + 1
  <2>1. CASE ~Exists(record[<<g, m>>]) /\ Exists(record'[<<g, m>>])
    BY <2>1, JoinCountStep
  <2>2. CASE ~(~Exists(record[<<g, m>>]) /\ Exists(record'[<<g, m>>]))
    BY <1>1, <2>2, JoinCountStep
  <2> QED
    BY <2>1, <2>2
<1> QED
  BY <1>1, <1>2

LEMMA LandedStep ==
    ASSUME BaseInv, LandedOK, [ApprovalNext]_allVars
    PROVE  LandedOK'
<1>1. [Next]_vars /\ MembershipInv /\ MembershipInv' /\ TypeOK /\ TypeOK'
  BY ApprovalStepIsStep, BaseStep DEF BaseInv, MembershipInv
<1>2. ASSUME NEW g \in Groups, NEW m \in Members, NEW joins \in U32 \cup {None},
             <<g, m, joins>> \in landed, Exists(group'[g]), Exists(group[g])
      PROVE  joins \in Nat /\ joins < Joins(g, m)'
  <2>1. joins \in Nat /\ joins < Joins(g, m) /\ Joins(g, m) <= Joins(g, m)'
    BY <1>1, <1>2, JoinsGrow DEF LandedOK
  <2>2. Joins(g, m) \in Nat /\ Joins(g, m)' \in Nat
    BY <1>1, JoinsType, JoinsTypeNext
  <2> QED
    BY <2>1, <2>2
<1>3. ASSUME UNCHANGED <<vars, landed>>
      PROVE  LandedOK'
  BY <1>2, <1>3 DEF LandedOK, vars
<1>4. ASSUME NEW msg \in inFlight, Land(msg)
      PROVE  LandedOK'
  <2>1. /\ msg \in JoinMessages /\ Exists(group[msg.group])
        /\ JoinGroup(msg.group, msg.member, msg.payer, msg.account, msg.authority,
                     msg.durable, msg.terms, msg.expected)
    BY <1>4 DEF BaseInv, FlightOK, Land, JoinGroup
  <2>2. /\ msg.group \in Groups /\ msg.member \in Members /\ msg.payer \in Payers
        /\ msg.account \in TokenAccounts /\ msg.expected \in U32 \cup {None}
    BY <2>1 DEF JoinMessages
  <2>3. landed' \subseteq landed \cup {<<msg.group, msg.member, msg.expected>>}
    BY <1>4 DEF Land
  <2>4. \A g \in Groups : Exists(group'[g]) => Exists(group[g])
    <3>1. Only(msg.group)
      BY <1>1, <1>4, LandIsJoin, JoinEffect
    <3> QED
      BY <1>1, <2>1, <3>1 DEF Only, TypeOK
  <2>5. Joins(msg.group, msg.member)' = Joins(msg.group, msg.member) + 1
    BY <1>1, <2>1, <2>2, JoinCountAfterJoin
  <2>6. Exists(gate[msg.group]) =>
          msg.expected \in Nat /\ msg.expected < Joins(msg.group, msg.member)'
    BY <1>4, <2>5, ApprovedCount
  <2>7. <<msg.group, msg.member, msg.expected>> \notin landed => 
          (<<msg.group, msg.member, msg.expected>> \in landed' => Exists(gate[msg.group]))
    BY <1>4 DEF Land
  <2>8. landed' \subseteq Groups \X Members \X (U32 \cup {None})
    BY <2>2, <2>3 DEF LandedOK
  <2>9. ASSUME NEW g \in Groups, NEW m \in Members, NEW joins \in U32 \cup {None},
               <<g, m, joins>> \in landed', Exists(group'[g])
        PROVE  joins \in Nat /\ joins < Joins(g, m)'
    <3>1. CASE <<g, m, joins>> \in landed
      BY <1>2, <2>4, <2>9, <3>1
    <3>2. CASE <<g, m, joins>> \notin landed
      <4>1. g = msg.group /\ m = msg.member /\ joins = msg.expected
        BY <2>3, <2>9, <3>2
      <4> QED
        BY <2>6, <2>7, <2>9, <3>2, <4>1
    <3> QED
      BY <3>1, <3>2
  <2> QED
    BY <2>8, <2>9 DEF LandedOK
<1>5. CASE OtherStep
  <2>1. landed' \subseteq landed
    BY <1>5 DEF OtherStep
  <2>2. \A g \in Groups, m \in Members, joins \in U32 \cup {None} :
          <<g, m, joins>> \in landed' /\ Exists(group'[g]) => Exists(group[g])
    BY <1>5 DEF OtherStep
  <2>3. landed' \subseteq Groups \X Members \X (U32 \cup {None})
    BY <2>1 DEF LandedOK
  <2>4. ASSUME NEW g \in Groups, NEW m \in Members, NEW joins \in U32 \cup {None},
               <<g, m, joins>> \in landed', Exists(group'[g])
        PROVE  joins \in Nat /\ joins < Joins(g, m)'
    BY <1>2, <2>1, <2>2, <2>4
  <2> QED
    BY <2>3, <2>4 DEF LandedOK
<1>6. ASSUME NEW g \in Groups, NEW m \in Members,
             \/ Approve(g, m)
             \/ \E payer \in Payers, account \in TokenAccounts,
                  durable \in BOOLEAN, expected \in U32 \cup {None} :
                 SignJoin(g, m, payer, account, durable, expected)
      PROVE  LandedOK'
  BY <1>3, <1>6 DEF Approve, SignJoin
<1>7. CASE UNCHANGED allVars
  BY <1>3, <1>7 DEF allVars, approvalVars
<1> QED
  BY <1>4, <1>5, <1>6, <1>7 DEF ApprovalNext

LEMMA Landed == ApprovalSpec => [](BaseInv /\ LandedOK)
<1>1. ApprovalInit => LandedOK
  BY DEF ApprovalInit, LandedOK
<1>2. BaseInv /\ LandedOK /\ [ApprovalNext]_allVars => LandedOK'
  BY LandedStep
<1>3. BaseInv /\ [ApprovalNext]_allVars => BaseInv'
  BY BaseStep
<1> QED
  BY <1>1, <1>2, <1>3, BaseInit, PTL DEF ApprovalSpec

\* However many messages the authority signed for one approval, at most one of
\* them lands in a group instance: join_group compares the count it is given
\* with a tally that every join raises and that stays while the group lives.
THEOREM OneJoinPerApproval == ApprovalSpec => ApprovalLandsOnce
<1>1. ASSUME BaseInv, LandedOK, NEW msg \in inFlight, Land(msg),
             Exists(gate[msg.group])
      PROVE  <<msg.group, msg.member, msg.expected>> \notin landed
  <2>1. msg.group \in Groups /\ msg.member \in Members /\ msg.expected \in U32 \cup {None}
    BY <1>1 DEF BaseInv, FlightOK, JoinMessages
  <2>2. msg.expected \in Nat /\ msg.expected = Joins(msg.group, msg.member)
    BY <1>1, ApprovedCount
  <2>3. Exists(group[msg.group])
    BY <1>1 DEF Land, JoinGroup
  <2> QED
    BY <2>1, <2>2, <2>3, <1>1 DEF LandedOK
<1>2. BaseInv /\ LandedOK /\ [ApprovalNext]_allVars =>
        [\A msg \in inFlight :
            Land(msg) /\ Exists(gate[msg.group]) =>
               <<msg.group, msg.member, msg.expected>> \notin landed]_allVars
  BY <1>1
<1> QED
  BY <1>2, Landed, PTL DEF ApprovalSpec, ApprovalLandsOnce

------------------------------------------------------------------------------
(* No replay over a group with members.  The program does not compare      *)
(* group instances; what protects a later group is that a gated join has a *)
(* recent blockhash, and that records keep a settled group's address taken *)
(* for longer than that.  It needs a backend that signs only while the     *)
(* group is not yet settled; settled_approval is the run without.          *)

\* A message with an authority is still bound to the group it was signed in.
ReplayOK ==
    /\ \A g \in Groups : SettledPast(g, instance[g], emptied)
    /\ \A msg \in inFlight :
         msg.authority # None =>
            Outlived(msg.group, msg.signed, msg.instance, instance[msg.group], emptied)

LEMMA SignedOutlived ==
    ASSUME BaseInv, CoSignStatuses \subseteq {"Open", "Active"},
           NEW g \in Groups, NEW m \in Members, NEW payer, NEW account,
           NEW durable, NEW expected,
           SignJoin(g, m, payer, account, durable, expected), Exists(gate[g])
    PROVE  Outlived(g, now, instance[g], instance[g], emptied)
<1>1. now \in Nat /\ instance[g] \in Nat
  BY DEF BaseInv, MembershipInv, TypeOK, FlightOK
<1>2. Exists(group[g]) /\ ~Settled(g)
  BY DEF SignJoin, Approved, Settled
<1> QED
  BY <1>1, <1>2 DEF Outlived

LEMMA ReplayStep ==
    ASSUME BaseInv, ReplayOK, [ApprovalNext]_allVars,
           CoSignStatuses \subseteq {"Open", "Active"}
    PROVE  ReplayOK'
<1>1. [Next]_vars /\ MembershipInv /\ MembershipInv'
  BY ApprovalStepIsStep, BaseStep DEF BaseInv
<1>2. ASSUME NEW g \in Groups
      PROVE  SettledPast(g, instance[g], emptied)'
  <2>1. instance[g] \in Nat
    BY DEF BaseInv, FlightOK
  <2> QED
    BY <1>1, <2>1, InstanceSteps, SettledPastStep DEF ReplayOK, SettledPast, Past
<1>3. ASSUME NEW msg \in inFlight', msg.authority # None
      PROVE  Outlived(msg.group, msg.signed, msg.instance, instance[msg.group], emptied)'
  <2>1. CASE msg \in inFlight
    <3>1. /\ msg.group \in Groups /\ msg.signed \in Nat /\ msg.instance \in Nat
          /\ instance[msg.group] \in Nat
      BY <2>1 DEF BaseInv, FlightOK, JoinMessages
    <3>2. /\ SettledPast(msg.group, instance[msg.group], emptied)
          /\ Outlived(msg.group, msg.signed, msg.instance, instance[msg.group], emptied)
      BY <1>3, <2>1, <3>1 DEF ReplayOK
    <3>3. InstanceStep(msg.group, instance[msg.group], instance'[msg.group],
                       emptied, emptied')
      BY <3>1, InstanceSteps
    <3> QED
      BY <1>1, <3>1, <3>2, <3>3, OutlivedStep DEF Outlived, Past
  <2>2. CASE msg \notin inFlight
    <3>1. UNCHANGED <<vars, instance, emptied>>
      BY <1>3, <2>2, NextMessages
    <3>2. PICK g \in Groups, m \in Members, payer \in Payers,
               account \in TokenAccounts, durable \in BOOLEAN,
               expected \in U32 \cup {None} :
            /\ SignJoin(g, m, payer, account, durable, expected)
            /\ msg.group = g /\ msg.signed = now /\ msg.instance = instance[g]
            /\ Exists(gate[g])
      BY <1>3, <2>2, NextMessages
    <3>3. Outlived(msg.group, msg.signed, msg.instance, instance[msg.group], emptied)
      BY <3>2, SignedOutlived
    <3> QED
      BY <3>1, <3>3 DEF Outlived, Past, Settled, Exists, vars
  <2> QED
    BY <2>1, <2>2
<1> QED
  BY <1>2, <1>3 DEF ReplayOK

LEMMA Replays ==
    ASSUME CoSignStatuses \subseteq {"Open", "Active"}
    PROVE  ApprovalSpec => [](BaseInv /\ ReplayOK)
<1>1. ApprovalInit => ReplayOK
  BY DEF ApprovalInit, Init, ReplayOK, SettledPast, Exists
<1>2. BaseInv /\ ReplayOK /\ [ApprovalNext]_allVars => ReplayOK'
  BY ReplayStep
<1>3. BaseInv /\ [ApprovalNext]_allVars => BaseInv'
  BY BaseStep
<1> QED
  BY <1>1, <1>2, <1>3, BaseInit, PTL DEF ApprovalSpec

\* An approval reaches a later group at the code only when every group in
\* between settled without a member.  The two hypotheses are what the program
\* cannot see to itself: the backend stops signing once a group is settled, and
\* a blockhash expires before the retention of records does.
THEOREM NoReplayOverMembers ==
    ASSUME CoSignStatuses \subseteq {"Open", "Active"},
           BlockhashLife < RetentionSecs
    PROVE  ApprovalSpec => ReplayNeedsEmptyGroups
<1>1. ASSUME BaseInv, ReplayOK, NEW msg \in inFlight, Land(msg),
             Exists(gate[msg.group]),
             NEW k \in msg.instance..(instance[msg.group] - 1)
      PROVE  <<msg.group, k>> \in emptied
  <2>1. /\ msg.authority = gate[msg.group].authority /\ ~msg.durable
        /\ now <= msg.signed + BlockhashLife
    BY <1>1 DEF Land, CanLand, JoinGroup, JoinApproved
  <2>2. msg.authority # None
    <3>1. gate[msg.group] \in JoinGate
      BY <1>1 DEF BaseInv, MembershipInv, TypeOK, FlightOK, JoinMessages, Exists
    <3> QED
      BY <2>1, <3>1, AddressAssumption DEF JoinGate
  <2>3. Past(msg.group, k, emptied, msg.signed)
    BY <1>1, <2>2 DEF ReplayOK, Outlived
  <2>4. msg.signed \in Nat /\ now \in Nat
    BY <1>1 DEF BaseInv, MembershipInv, TypeOK, FlightOK, JoinMessages
  <2> QED
    BY <2>1, <2>3, <2>4, TimeAssumption, MessageAssumption DEF Past
<1>2. BaseInv /\ ReplayOK /\ [ApprovalNext]_allVars =>
        [\A msg \in inFlight :
            Land(msg) /\ Exists(gate[msg.group]) =>
               \A k \in msg.instance..(instance[msg.group] - 1) :
                   <<msg.group, k>> \in emptied]_allVars
  BY <1>1
<1> QED
  BY <1>2, Replays, PTL DEF ApprovalSpec, ReplayNeedsEmptyGroups

==============================================================================
