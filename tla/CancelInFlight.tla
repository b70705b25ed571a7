--------------------------- MODULE CancelInFlight ----------------------------
(***************************************************************************)
(* emergency_cancel as signed messages in flight.  The creator's client    *)
(* reads the member records, signs a cancel that lists them, and sends it; *)
(* it sends again, with the list it then reads, until the group is         *)
(* settled.  A message lands later, fails, is lost, or outlives its recent *)
(* blockhash.  Meanwhile members join and leave, deposit and donate, the   *)
(* cycle starts, and the code may be freed and taken again.                *)
(*                                                                         *)
(* Token accounts are their owners': a member may close one, let it be     *)
(* created again, or have every transfer to it need a memo, which the      *)
(* program never sends.                                                    *)
(*                                                                         *)
(* The client is not in this repository: ARCHITECTURE.md (emergency_cancel,*)
(* the rows on frozen accounts, on memos, and on wallets that join and     *)
(* leave) says what it must do.  It pays each member to any account of     *)
(* theirs that takes the payout when it signs.                             *)
(***************************************************************************)
EXTENDS SafeNudgeProperties, SequencesExt

CONSTANTS
    Adjustable,       \* token accounts that their owners may close
    MemoMints,        \* Token-2022 mints, whose accounts may require memos
    BlockhashLife,    \* how long a message can land
    MaxInFlight,      \* bound: cancels in flight at once
    MaxInstances      \* bound: groups created at one code

ASSUME CancelAssumption ==
    /\ BlockhashLife \in Nat /\ BlockhashLife < RetentionSecs
    /\ Adjustable \subseteq TokenAccounts /\ MemoMints \subseteq Mints

\* The supply of a mint is a u64.
ASSUME SupplyAssumption ==
    \A mint \in Mints :
        Cardinality({a \in TokenAccounts : MintOf[a] = mint}) * TokenFunds \in U64

VARIABLES
    inFlight,     \* signed cancels that may still land
    cancelling,   \* the instance at an address that its creator wants cancelled
    instance,     \* how many groups were created at an address
    emptied,      \* <<group, instance>> that settled without any record
    closed,       \* token accounts that their owners closed
    memo          \* token accounts that take transfers with a memo only

accountVars == <<closed, memo>>
cancelVars == <<inFlight, cancelling, instance, emptied, accountVars>>
allVars == <<vars, cancelVars>>

CancelInit ==
    /\ Init
    /\ inFlight = {}
    /\ cancelling = [g \in Groups |-> 0]
    /\ instance = [g \in Groups |-> 0]
    /\ emptied = {}
    /\ closed = {} /\ memo = {}

TakesPayout(account) == account \notin frozen \cup closed \cup memo

\* Fault: the client pays canonical accounts only.
PayableAccountsCanonical(g) ==
    {choice \in [Joined(g) -> Canonical] :
       \A m \in Joined(g) : OwnAccount(choice[m], g, m) /\ TakesPayout(choice[m])}

\* An account of every member that takes the payout now.
PayableAccounts(g) ==
    {choice \in [Joined(g) -> TokenAccounts] :
       \A m \in Joined(g) : OwnAccount(choice[m], g, m) /\ TakesPayout(choice[m])}

\* Every list that the client may sign: the members in any order.
MemberLists(g) ==
    {[i \in DOMAIN s |-> [record |-> <<g, s[i]>>, account |-> choice[s[i]]]] :
       s \in SetToSeqs(Joined(g)), choice \in PayableAccounts(g)}

\* Fault: the mint is writable only for a balance the client already sees.
MintWritableIfNeeded(g) == Joined(g) = {} /\ vault[g].amount > 0

\* An empty group's cancel always has the mint writable.
MintWritable(g) == Joined(g) = {}

SendCancel(g) ==
    /\ Unsettled(g)
    /\ Cardinality(inFlight) < MaxInFlight
    /\ \E pairs \in MemberLists(g) :
         inFlight' = inFlight \cup
           {[group |-> g, creator |-> group[g].creator, pairs |-> pairs,
             mint_writable |-> MintWritable(g), members |-> Joined(g),
             signed |-> now, instance |-> instance[g]]}
    /\ cancelling' = [cancelling EXCEPT ![g] = instance[g]]
    /\ UNCHANGED <<vars, instance, emptied, accountVars>>

Retry(g) == cancelling[g] = instance[g] /\ SendCancel(g)

\* What a step means for the instances at the addresses.
CountInstances ==
    /\ instance' = [g \in Groups |-> instance[g] +
                      (IF ~Exists(group[g]) /\ Exists(group'[g]) THEN 1 ELSE 0)]
    /\ emptied' = emptied \cup
         {<<g, instance[g]>> : g \in {h \in Groups : /\ Unsettled(h) /\ ~Exists(vault'[h])
                                                     /\ Joined(h) = {}}}
    /\ UNCHANGED cancelling

\* validate_member_pair reads every listed account, so it must be there; and
\* no transfer of the program carries a memo.
AccountsTake(g, pairs) ==
    \A i \in DOMAIN pairs :
        /\ pairs[i].account \notin closed
        /\ Payout(g, pairs, i) > 0 => pairs[i].account \notin memo

\* The signer of the message must be the creator of the group now there.
Cancels(msg) ==
    /\ Exists(group[msg.group]) /\ group[msg.group].creator = msg.creator
    /\ EmergencyCancel(msg.group, msg.pairs, msg.mint_writable)
    /\ AccountsTake(msg.group, msg.pairs)

LandCancel(msg) ==
    /\ Cancels(msg)
    /\ inFlight' = inFlight \ {msg}
    /\ CountInstances
    /\ UNCHANGED accountVars

\* The message is lost, or fails.
DropCancel(msg) ==
    /\ inFlight' = inFlight \ {msg}
    /\ UNCHANGED <<vars, cancelling, instance, emptied, accountVars>>

\* The token program, on the accounts that a step of anyone pays or freezes.
AccountsObeyed ==
    /\ \A a \in closed : tokens'[a] = tokens[a] /\ a \notin frozen'
    /\ \A a \in memo : tokens'[a] <= tokens[a]

OtherStep ==
    /\ \/ \E g \in Groups : \/ Join(g) \/ LeaveOrDeposit(g) \/ CrankStep(g)
                            \/ now <= Horizon /\ (Create(g) \/ StartCycle(g))
       \/ Environment
    /\ CountInstances
    /\ \A g \in Groups : instance'[g] <= MaxInstances
    /\ inFlight' = {msg \in inFlight : now' <= msg.signed + BlockhashLife}
    /\ AccountsObeyed
    /\ UNCHANGED accountVars

\* Only an empty account closes; one that is created again is not frozen.
CloseAccount(a) ==
    /\ a \notin closed /\ tokens[a] = 0
    /\ closed' = closed \cup {a} /\ memo' = memo \ {a}
    /\ IF a \in Freezable THEN Thaw(a) ELSE UNCHANGED vars
    /\ UNCHANGED <<inFlight, cancelling, instance, emptied>>

\* Anyone may create it again.
CreateAccount(a) ==
    /\ a \in closed
    /\ closed' = closed \ {a}
    /\ UNCHANGED <<vars, inFlight, cancelling, instance, emptied, memo>>

\* The owner turns the MemoTransfer extension on or off.
SwitchMemo(a) ==
    /\ a \notin closed /\ MintOf[a] \in MemoMints
    /\ memo' = IF a \in memo THEN memo \ {a} ELSE memo \cup {a}
    /\ UNCHANGED <<vars, inFlight, cancelling, instance, emptied, closed>>

AccountStep(a) == CloseAccount(a) \/ CreateAccount(a) \/ SwitchMemo(a)

CancelNext ==
    \/ \E g \in Groups : SendCancel(g)
    \/ \E msg \in inFlight : LandCancel(msg) \/ DropCancel(msg)
    \/ OtherStep
    \/ \E a \in Adjustable : AccountStep(a)

CancelSpec == CancelInit /\ [][CancelNext]_allVars

\* The creator retries until the group is settled, and a cancel that could
\* land time and again does so once.  Nobody else is assumed to do anything.
FairCancel ==
    /\ CancelSpec
    /\ \A g \in Groups : WF_allVars(Retry(g))
    /\ WF_allVars(\E msg \in inFlight : DropCancel(msg))
    /\ SF_allVars(\E msg \in inFlight : LandCancel(msg))

------------------------------------------------------------------------------

\* What Cancels asks before it changes anything.
CanLand(msg) ==
    LET g == msg.group IN
    /\ Exists(group[g]) /\ group[g].creator = msg.creator
    /\ CancelChecks(g, msg.pairs, msg.mint_writable)
    /\ CanSettle(g, msg.pairs, UnownedVaultBalance(g))
    /\ AccountsTake(g, msg.pairs)

\* ARCHITECTURE.md:389, 895, 896, 898; emergency_cancel.rs:48-100.  A cancel in
\* flight is good for as long as the group has the members that it lists and
\* the accounts that it lists take payouts (neither frozen by the issuer, nor
\* closed by the member, nor requiring a memo): donations, deposits, the start
\* of the cycle, members that left and joined again, and accounts that were
\* closed and created again since it was signed do not make it fail.  The one
\* other thing that does is a rise of the rent.
ListStaysGood ==
    \A msg \in inFlight :
        LET g == msg.group IN
        /\ msg.instance = instance[g] /\ Unsettled(g)
        /\ msg.members = Joined(g)
        /\ group[g].lamports + vault[g].lamports >= Floor("group")
        /\ \A i \in DOMAIN msg.pairs : TakesPayout(msg.pairs[i].account)
        => CanLand(msg)

\* ARCHITECTURE.md:895-896, 898.  A creator who keeps retrying with the current
\* list and accounts that take the payout gets the group settled, whatever
\* members do to their other accounts and however often they join and leave
\* meanwhile (each at most MaxU32 times, which bounds the real program too).
RetriesEndInSettlement ==
    \A g \in Groups :
        (Unsettled(g) /\ cancelling[g] = instance[g]) ~> (Exists(group[g]) /\ Settled(g))

\* emergency_cancel.rs:12-37, close_member_record.rs:20-24.  Nothing in a cancel
\* names the group instance, so one sent twice may cancel a later group at the
\* code; but only when every group in between settled without a member, since
\* the retention of records outlives the blockhash.
LateCancelNeedsEmptyGroups ==
    [][\A msg \in inFlight :
         LandCancel(msg) =>
            \A k \in msg.instance..(instance[msg.group] - 1) :
                <<msg.group, k>> \in emptied]_allVars

==============================================================================
