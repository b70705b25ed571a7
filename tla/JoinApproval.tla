---------------------------- MODULE JoinApproval -----------------------------
(***************************************************************************)
(* Joins as signed messages in flight.  A client shows a group and signs a *)
(* join_group for it; for a gated group the join authority's backend signs *)
(* too.  The message lands later, or never: until its recent blockhash     *)
(* expires, or for as long as its sender likes when it is held open by a   *)
(* durable nonce.  Meanwhile the group may be cancelled, closed and        *)
(* created again at the same code.                                         *)
(*                                                                         *)
(* The backend is not in this repository; ARCHITECTURE.md (JoinTally) and  *)
(* ADR-0004 say what it does.  It binds an approval to a count and to a     *)
(* group instance, but signs for it any number of messages, durable ones    *)
(* too, while the group's status is one of CoSignStatuses.                  *)
(***************************************************************************)
EXTENDS SafeNudgeProperties

CONSTANTS
    CoSignStatuses,   \* statuses of a group that the backend signs joins for
    BlockhashLife,    \* how long a message with a recent blockhash can land
    MaxInFlight,      \* bound: messages in flight at once
    MaxInstances      \* bound: groups created at one code

ASSUME MessageAssumption == BlockhashLife \in Nat /\ CoSignStatuses \subseteq Statuses

VARIABLES
    inFlight,   \* signed joins that may still land
    approval,   \* what the backend stored for <<group, member>>
    instance,   \* how many groups were created at an address
    emptied,    \* <<group, instance>> that settled without any record
    landed      \* <<group, member, expected_joins>> of the approved joins
                \* that landed in the group now at the address

approvalVars == <<inFlight, approval, instance, emptied, landed>>
allVars == <<vars, approvalVars>>

ApprovalInit ==
    /\ Init
    /\ inFlight = {}
    /\ approval = [p \in Pdas |-> None]
    /\ instance = [g \in Groups |-> 0]
    /\ emptied = {}
    /\ landed = {}

\* The backend stores the count it read, for the instance it read it in.
Approve(g, m) ==
    /\ Exists(group[g]) /\ Exists(gate[g])
    /\ approval' = [approval EXCEPT ![<<g, m>>] =
                      [joins |-> Joins(g, m), instance |-> instance[g]]]
    /\ UNCHANGED <<vars, inFlight, instance, emptied, landed>>

\* It signs only what it approved, and only for that instance.
Approved(g, m, expected) ==
    /\ group[g].status \in CoSignStatuses
    /\ Exists(approval[<<g, m>>])
    /\ approval[<<g, m>>].instance = instance[g]
    /\ approval[<<g, m>>].joins = expected

\* The client signs for the group it shows: its terms, its mint, and the count
\* that was approved, or for a group without a gate the count now or none.
SignJoin(g, m, payer, account, durable, expected) ==
    /\ Exists(group[g])
    /\ OwnAccount(account, g, m)
    /\ IF Exists(gate[g]) THEN Approved(g, m, expected)
       ELSE expected \in {None, Joins(g, m)}
    /\ Cardinality(inFlight) < MaxInFlight
    /\ inFlight' = inFlight \cup
         {[group |-> g, member |-> m, payer |-> payer, account |-> account,
           authority |-> IF Exists(gate[g]) THEN gate[g].authority ELSE None,
           durable |-> durable, terms |-> Terms(group[g]), expected |-> expected,
           signed |-> now, instance |-> instance[g],
           creator |-> group[g].creator, mint |-> group[g].mint]}
    /\ UNCHANGED <<vars, approval, instance, emptied, landed>>

CanLand(msg) == msg.durable \/ now <= msg.signed + BlockhashLife

\* The runtime runs a signed message at most once.
Land(msg) ==
    LET g == msg.group IN
    /\ CanLand(msg)
    /\ JoinGroup(g, msg.member, msg.payer, msg.account, msg.authority,
                 msg.durable, msg.terms, msg.expected)
    /\ inFlight' = inFlight \ {msg}
    /\ landed' = landed \cup
         (IF Exists(gate[g]) THEN {<<g, msg.member, msg.expected>>} ELSE {})
    /\ UNCHANGED <<approval, instance, emptied>>

\* Every other instruction, and what it means for the instances.
OtherStep ==
    LET created == {g \in Groups : ~Exists(group[g]) /\ Exists(group'[g])}
        settled == {g \in Groups : Unsettled(g) /\ ~Exists(vault'[g])}
    IN
    /\ \/ \E g \in Groups : LeaveOrDeposit(g) \/ CrankStep(g) \/ CreatorStep(g)
       \/ Environment
    /\ instance' = [g \in Groups |-> instance[g] + (IF g \in created THEN 1 ELSE 0)]
    /\ \A g \in Groups : instance'[g] <= MaxInstances
    /\ emptied' = emptied \cup
         {<<g, instance[g]>> : g \in {h \in settled : Joined(h) = {}}}
    /\ landed' = {l \in landed : l[1] \notin created}
    /\ inFlight' = {msg \in inFlight : CanLand(msg)}
    /\ UNCHANGED approval

ApprovalNext ==
    \/ \E g \in Groups, m \in Members :
         \/ Approve(g, m)
         \/ \E payer \in Payers, account \in TokenAccounts,
               durable \in BOOLEAN, expected \in U32 \cup {None} :
              SignJoin(g, m, payer, account, durable, expected)
    \/ \E msg \in inFlight : Land(msg)
    \/ OtherStep

ApprovalSpec == ApprovalInit /\ [][ApprovalNext]_allVars

------------------------------------------------------------------------------

\* ARCHITECTURE.md:113: however many messages the authority signed for one
\* approval, at most one of them lands in a group instance, leaves and rejoins
\* in between included.
ApprovalLandsOnce ==
    [][\A msg \in inFlight :
         Land(msg) /\ Exists(gate[msg.group]) =>
            <<msg.group, msg.member, msg.expected>> \notin landed]_allVars

\* group_config.rs:52-54: a join never lands in a group of another creator or
\* on another mint than the member was shown, even when it was signed for an
\* earlier group at the code.
JoinsLandAsShown ==
    [][\A msg \in inFlight :
         Land(msg) => /\ group[msg.group].creator = msg.creator
                      /\ group[msg.group].mint = msg.mint]_allVars

\* ARCHITECTURE.md:914: an approval reaches a later group at the code only when
\* the creator cancelled every group in between while it had no member.  That
\* holds when the backend signs only for Open groups, and not otherwise.
ReplayNeedsEmptyGroups ==
    [][\A msg \in inFlight :
         Land(msg) /\ Exists(gate[msg.group]) =>
            \A k \in msg.instance..(instance[msg.group] - 1) :
                <<msg.group, k>> \in emptied]_allVars

==============================================================================
