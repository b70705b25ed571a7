---------------------------- MODULE Transactions -----------------------------
(***************************************************************************)
(* The program as its clients and its log's readers meet it.  A client     *)
(* builds every transaction from the IDL: the accounts it names, which are *)
(* writable and who signs.  The runtime runs it and writes its events to   *)
(* the log, and a reader who sees the events only keeps an account of      *)
(* every group.                                                            *)
(*                                                                         *)
(* The runtime fails a transaction that changes an account which it does   *)
(* not name as writable, or takes lamports or tokens without a signature.  *)
(* The model lets the instruction run and asks afterwards.                 *)
(***************************************************************************)
EXTENDS Idl, SequencesExt

VARIABLES
    accounts,   \* account metas of the last transaction
    events,     \* its events
    seen        \* what a reader of the log believes of every group address

transactionVars == <<accounts, events, seen>>
clientVars == <<vars, transactionVars>>

\* What the reader keeps of a group: `held` is by member.
Account ==
    [status : Statuses, creator : Creators, mint : Mints, authority : Keys \cup {None},
     cycleEnd : I64, held : UNION {[S -> U64] : S \in SUBSET Members}]

ASSUME ReaderAssumption == None \notin Account

\* Every lamport there is fits in a u64.
ASSUME LamportAssumption == Cardinality(Payers) * Lamports \in Lamport

Signed(w) == \E a \in accounts' : a.address = Wallet(w) /\ a.signer
MayWrite(address) == \E a \in accounts' : a.address = address /\ a.writable

------------------------------------------------------------------------------
(* The reader                                                              *)

\* The reader's account after one event.
Read(account, e) ==
    CASE e.event = "GroupCreated" ->
           [status |-> "Open", creator |-> e.creator, mint |-> e.mint,
            authority |-> None, cycleEnd |-> 0, held |-> [m \in {} |-> 0]]
      [] e.event = "JoinAuthoritySet" -> [account EXCEPT !.authority = e.authority]
      [] e.event = "MemberJoined" ->
           [account EXCEPT !.held = [m \in DOMAIN @ \cup {e.member} |->
                                       IF m = e.member THEN e.amount ELSE @[m]]]
      [] e.event = "MemberLeft" ->
           [account EXCEPT !.held = [m \in DOMAIN @ \ {e.member} |-> @[m]]]
      [] e.event = "CycleStarted" ->
           [account EXCEPT !.status = "Active", !.cycleEnd = e.cycleEnd]
      [] e.event = "DepositMade" -> [account EXCEPT !.held[e.member] = @ + e.amount]
      [] e.event = "MemberSettled" -> account
      [] e.event = "GroupSettled" -> [account EXCEPT !.status = "Completed"]
      [] e.event = "GroupCancelled" -> [account EXCEPT !.status = "Cancelled"]
      [] e.event = "GroupClosed" -> None

\* The transaction's accounts and events; the reader sees the events.
Log(g, metas, emitted) ==
    /\ accounts' = metas
    /\ events' = emitted
    /\ seen' = [seen EXCEPT ![g] = FoldLeft(Read, @, emitted)]

------------------------------------------------------------------------------
(* One action per instruction: the call, and what its handler emits        *)

CallCreateGroup(g, creator, payer, mint, amount, frequency, periods, size) ==
    /\ CreateGroup(g, creator, payer, mint, amount, frequency, periods, size)
    /\ Log(g, createGroup(g, creator, payer, mint),
           <<[event |-> "GroupCreated", group |-> g, creator |-> creator,
              rentPayer |-> payer, mint |-> mint, depositAmount |-> amount,
              totalPeriods |-> periods, maxMembers |-> size]>>)

CallSetJoinAuthority(g, authority) ==
    /\ SetJoinAuthority(g, authority)
    /\ Log(g, setJoinAuthority(g, group[g].creator, group[g].rent_payer),
           <<[event |-> "JoinAuthoritySet", group |-> g,
              creator |-> group[g].creator, authority |-> authority]>>)

CallJoinGroup(g, m, payer, account, authority, durable, terms, expected) ==
    /\ JoinGroup(g, m, payer, account, authority, durable, terms, expected)
    /\ Log(g, joinGroup(g, m, payer, account, group[g].mint, authority),
           <<[event |-> "MemberJoined", group |-> g, member |-> m,
              rentPayer |-> payer, amount |-> group[g].deposit_amount,
              currentMembers |-> group'[g].current_members,
              joins |-> Joins(g, m)']>>)

CallLeaveGroup(g, m, account) ==
    /\ LeaveGroup(g, m, account)
    /\ Log(g, leaveGroup(g, m, record[<<g, m>>].rent_payer, account, group[g].mint),
           <<[event |-> "MemberLeft", group |-> g, member |-> m,
              refund |-> record[<<g, m>>].total_deposited,
              currentMembers |-> group'[g].current_members]>>)

CallStartCycle(g) ==
    /\ StartCycle(g)
    /\ Log(g, startCycle(g),
           <<[event |-> "CycleStarted", group |-> g,
              members |-> group[g].current_members, cycleStart |-> now,
              cycleEnd |-> CycleEnd(group'[g])]>>)

CallDeposit(g, m, account) ==
    /\ Deposit(g, m, account)
    /\ Log(g, deposit(g, m, account, group[g].mint),
           <<[event |-> "DepositMade", group |-> g, member |-> m,
              period |-> CurrentPeriod(group[g], now),
              amount |-> group[g].deposit_amount,
              depositsMade |-> record'[<<g, m>>].deposits_made]>>)

\* The pairs that a settlement is given: the records to read, the token
\* accounts to pay.
Remaining(pairs) ==
    {ReadOnly(MemberPda(pairs[i].record[1], pairs[i].record[2])) : i \in DOMAIN pairs}
    \cup {Writable(Token(pairs[i].account)) : i \in DOMAIN pairs}

\* Fault: the last member's payout is what was deposited.
MemberSettledEventsOwn(g, pairs) ==
    [i \in DOMAIN pairs |->
       [event |-> "MemberSettled", group |-> g, member |-> pairs[i].record[2],
        deposited |-> record[pairs[i].record].total_deposited,
        payout |-> record[pairs[i].record].total_deposited]]

MemberSettledEvents(g, pairs) ==
    [i \in DOMAIN pairs |->
       [event |-> "MemberSettled", group |-> g, member |-> pairs[i].record[2],
        deposited |-> record[pairs[i].record].total_deposited,
        payout |-> Payout(g, pairs, i)]]

CallDistribute(g, pairs) ==
    /\ Distribute(g, pairs)
    /\ Log(g, distribute(g, group[g].mint) \cup Remaining(pairs),
           MemberSettledEvents(g, pairs)
           \o <<[event |-> "GroupSettled", group |-> g,
                 members |-> group[g].current_members,
                 totalPaid |-> Paid(g, pairs, DOMAIN pairs)]>>)

\* The mint is not writable in the IDL; for a burn the client makes it so.
CallEmergencyCancel(g, pairs, mint_writable) ==
    /\ EmergencyCancel(g, pairs, mint_writable)
    /\ Log(g, emergencyCancel(g, group[g].mint) \cup Remaining(pairs)
              \cup (IF mint_writable THEN {Writable(Mint(group[g].mint))} ELSE {}),
           <<[event |-> "GroupCancelled", group |-> g, creator |-> group[g].creator,
              members |-> group[g].current_members,
              refundedTotal |-> Paid(g, pairs, DOMAIN pairs),
              burned |-> UnownedVaultBalance(g)]>>)

CallRefundVaultRent(g) ==
    RefundVaultRent(g) /\ Log(g, refundVaultRent(g, group[g].rent_payer), <<>>)

CallCloseMemberRecord(g, m) ==
    /\ CloseMemberRecord(g, m)
    /\ Log(g, closeMemberRecord(g, m, record[<<g, m>>].rent_payer), <<>>)

CallCloseJoinTally(g, m) ==
    /\ CloseJoinTally(g, m)
    /\ Log(g, closeJoinTally(g, m, tally[<<g, m>>].rent_payer), <<>>)

CallCloseGroup(g) ==
    /\ CloseGroup(g)
    /\ Log(g, closeGroup(g, group[g].rent_payer),
           <<[event |-> "GroupClosed", group |-> g,
              rentPayer |-> group[g].rent_payer, lamports |-> group[g].lamports,
              joinGateLamports |-> IF Exists(gate[g]) THEN gate[g].lamports ELSE 0]>>)

\* Steps that are no call of the program.
OtherStep == Environment /\ accounts' = {} /\ events' = <<>> /\ UNCHANGED seen

------------------------------------------------------------------------------

ClientInit ==
    /\ Init
    /\ accounts = {} /\ events = <<>>
    /\ seen = [g \in Groups |-> None]

MemberCall(g, m) ==
    \/ \E payer \in Payers, account \in TokenAccounts, authority \in Keys \cup {None},
          durable \in BOOLEAN, terms \in OfferedTerms, expected \in U32 \cup {None} :
         CallJoinGroup(g, m, payer, account, authority, durable, terms, expected)
    \/ \E account \in TokenAccounts :
         CallLeaveGroup(g, m, account) \/ CallDeposit(g, m, account)
    \/ CallCloseMemberRecord(g, m) \/ CallCloseJoinTally(g, m)

GroupCall(g) ==
    \/ /\ now <= Horizon
       /\ \E creator \in Creators, payer \in Payers, mint \in Mints,
             amount \in DepositAmounts, frequency \in Frequencies,
             periods \in PeriodCounts, size \in GroupSizes :
            CallCreateGroup(g, creator, payer, mint, amount, frequency, periods, size)
    \/ \E authority \in Keys : CallSetJoinAuthority(g, authority)
    \/ now <= Horizon /\ CallStartCycle(g)
    \/ \E pairs \in PairLists :
         \/ CallDistribute(g, pairs)
         \/ \E mint_writable \in BOOLEAN : CallEmergencyCancel(g, pairs, mint_writable)
    \/ CallRefundVaultRent(g) \/ CallCloseGroup(g)

ClientNext ==
    \/ \E g \in Groups : GroupCall(g) \/ \E m \in Members : MemberCall(g, m)
    \/ OtherStep

ClientSpec == ClientInit /\ [][ClientNext]_clientVars

------------------------------------------------------------------------------

\* The tokens of a mint, in wallets and in vaults.
Supply(mint) ==
    SumFunctionOnSet(tokens, {a \in TokenAccounts : MintOf[a] = mint})
    + SumFunction([g \in {g \in Groups : /\ Unsettled(g) /\ Exists(vault[g])
                                          /\ group[g].mint = mint} |-> vault[g].amount])

\* safenudge-types.ts:16-1145.  The IDL marks every account writable that its
\* instruction changes, through the calls it makes too, and where it cannot
\* (the members' token accounts, the mint of a burn) the client does.
WritesDeclared ==
    [][accounts' # {} =>
         /\ \A g \in Groups :
              /\ group'[g] # group[g] => MayWrite(GroupPda(g))
              /\ vault'[g] # vault[g] => MayWrite(VaultPda(g))
              /\ gate'[g] # gate[g] => MayWrite(JoinPda(g))
         /\ \A p \in Pdas :
              /\ record'[p] # record[p] => MayWrite(MemberPda(p[1], p[2]))
              /\ tally'[p] # tally[p] => MayWrite(TallyPda(p[1], p[2]))
         /\ \A a \in TokenAccounts : tokens'[a] # tokens[a] => MayWrite(Token(a))
         /\ \A w \in Payers : purse'[w] # purse[w] => MayWrite(Wallet(w))
         /\ \A mint \in Mints : Supply(mint)' # Supply(mint) => MayWrite(Mint(mint))
      ]_clientVars

\* safenudge-types.ts:16-1145.  Who gives something up has signed: a wallet
\* whose lamports fall, a member whose tokens fall or whose record closes
\* before the group settled, the creator of a group that starts, is cancelled
\* or gated, and the authority of the gate that a join passes.
LossesSigned ==
    [][accounts' # {} =>
         /\ \A w \in Payers : purse'[w] < purse[w] => Signed(w)
         /\ \A a \in TokenAccounts : tokens'[a] < tokens[a] => Signed(OwnerOf[a])
         /\ \A p \in Pdas :
              /\ Exists(record[p]) /\ ~Exists(record'[p]) /\ Unsettled(p[1]) => Signed(p[2])
              /\ ~Exists(record[p]) /\ Exists(record'[p]) /\ Exists(gate[p[1]])
                   => Signed(gate[p[1]].authority)
         /\ \A g \in Groups :
              \/ ~Exists(group[g])
              \/ Signed(group[g].creator)
              \/ /\ gate'[g] = gate[g] \/ Settled(g)
                 /\ ~Exists(group'[g]) \/ group'[g].status \in {group[g].status, "Completed"}
      ]_clientVars

\* events.rs, docs/monitoring.md:84-93.  The log alone tells a reader of every
\* group: its status, its gate, when its cycle ends, and, until it settles, who
\* its members are and what each has in the vault.  Every event has the fields,
\* within their widths, that the IDL decodes it with (safenudge-types.ts:1500-2121).
ReaderKnowsGroups ==
    /\ \A i \in DOMAIN events : events[i] \in Event
    /\ \A g \in Groups :
        /\ Exists(seen[g]) <=> Exists(group[g])
        /\ Exists(group[g]) =>
             /\ seen[g].status = group[g].status
             /\ seen[g].creator = group[g].creator /\ seen[g].mint = group[g].mint
             /\ seen[g].authority = IF Exists(gate[g]) THEN gate[g].authority ELSE None
             /\ group[g].status = "Active" => seen[g].cycleEnd = CycleEnd(group[g])
             /\ Unsettled(g) =>
                  seen[g].held = [m \in Joined(g) |-> record[<<g, m>>].total_deposited]

\* What a member's accounts of a mint rise by.
Rise(m, mint) ==
    LET own == {a \in TokenAccounts : OwnerOf[a] = m /\ MintOf[a] = mint} IN
    SumFunctionOnSet(tokens', own) - SumFunctionOnSet(tokens, own)

\* events.rs:57-87, docs/monitoring.md:88-93.  The amounts in the log are those
\* that moved: what a member paid in or got, donations included, the vault
\* before a settlement, the tokens burned, the lamports of a closed group.
AmountsMoved ==
    [][\A i \in DOMAIN events' :
         LET e == events'[i]
             g == e.group
         IN CASE e.event \in {"MemberJoined", "DepositMade"} ->
                   Rise(e.member, group[g].mint) = -e.amount
              [] e.event = "MemberLeft" -> Rise(e.member, group[g].mint) = e.refund
              [] e.event = "MemberSettled" -> Rise(e.member, group[g].mint) = e.payout
              [] e.event = "GroupSettled" -> e.totalPaid = vault[g].amount
              [] e.event = "GroupCancelled" ->
                   /\ e.refundedTotal + e.burned = vault[g].amount
                   /\ \A mint \in {group[g].mint} :
                        Supply(mint)' = Supply(mint) - e.burned
              [] e.event = "GroupClosed" ->
                   purse'[e.rentPayer] - purse[e.rentPayer]
                     = e.lamports + e.joinGateLamports
              [] OTHER -> TRUE]_clientVars

==============================================================================
