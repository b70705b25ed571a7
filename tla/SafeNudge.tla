------------------------------ MODULE SafeNudge ------------------------------
(***************************************************************************)
(* The safenudge on-chain program: every instruction of lib.rs as one      *)
(* action, on the accounts it reads and writes.                            *)
(*                                                                         *)
(* A transaction is atomic: one whose handler returns an error changes     *)
(* nothing, so an error path is a guard.  Accounts live at addresses that  *)
(* outlive them: group[g] is the GroupConfig at the address of code g, and *)
(* after close_group a new group may be created there, with the same       *)
(* vault, record, tally and gate addresses.  None at an address means that *)
(* the program owns no account there.                                      *)
(*                                                                         *)
(* Outside the program: the clock (Tick), the rent rate (ChangeRentRate),  *)
(* the issuer freezing token accounts (Freeze, Thaw), tokens sent to a     *)
(* vault (DonateTokens) and lamports sent to a GroupConfig (TopUp).        *)
(*                                                                         *)
(* A definition whose comment begins with "Fault" is not part of the       *)
(* model: it is the definition below it with a plausible slip, and is      *)
(* there to see that a property notices.                                   *)
(***************************************************************************)
EXTENDS CycleTime, FiniteSets, Functions, Sequences

CONSTANTS
    None,            \* no account at an address, or the None of an Option
    Groups,          \* group addresses, one per valid group code
    Creators,        \* wallets that create groups
    Members,         \* wallets that join them
    Payers,          \* wallets that pay rent
    Keys,            \* keys set_join_authority may be given
    InvalidKeys,     \* the default key and the program ID, which never sign
    Mints,           \* token mints
    Native,          \* mints of wrapped SOL
    ExtensionsOf,    \* Token-2022 extensions of a mint
    TokenAccounts,   \* token accounts of wallets
    OwnerOf, MintOf, \* owner and mint of a token account
    Canonical,       \* those that are associated token accounts
    Freezable,       \* those the issuer may freeze
    DepositAmounts, PeriodCounts, GroupSizes,  \* arguments of create_group
    RentFloor,       \* rent-exempt minimum, by rate and kind of account
    TokenFunds,      \* initial balance of every token account
    Lamports,        \* initial lamports of every payer
    MaxU64, MaxU32,  \* largest token amount, largest join count
    Horizon,         \* bound: no group is created or started after it
    MaxDonation,     \* bound: tokens in a vault beyond the deposits
    MaxTopUp         \* bound: lamports one TopUp adds to a group below its floor

VARIABLES
    now,      \* Clock::unix_timestamp
    rate,     \* the rent rate in force
    group,    \* GroupConfig by group address
    vault,    \* vault token account by group address
    record,   \* MemberRecord by <<group address, member>>
    tally,    \* JoinTally by <<group address, member>>
    gate,     \* JoinGate by group address
    tokens,   \* balance of every wallet token account
    frozen,   \* token accounts that the issuer has frozen
    purse     \* lamports of every payer

vars == <<now, rate, group, vault, record, tally, gate, tokens, frozen, purse>>

Kinds == {"group", "vault", "record", "tally", "gate"}
Statuses == {"Open", "Active", "Completed", "Cancelled"}
Pdas == Groups \X Members
U64 == 0..MaxU64
U32 == 0..MaxU32
Rates == DOMAIN RentFloor

ASSUME AddressAssumption ==
    /\ \A S \in {Groups, Creators, Members, Payers, Keys, Mints, TokenAccounts} :
         IsFiniteSet(S) /\ None \notin S
    /\ Native \subseteq Mints
    /\ OwnerOf \in [TokenAccounts -> Members]
    /\ MintOf \in [TokenAccounts -> Mints]
    /\ Canonical \subseteq TokenAccounts /\ Freezable \subseteq TokenAccounts

ASSUME AmountAssumption ==
    /\ MaxU64 \in Nat /\ MaxU32 \in Nat
    /\ TokenFunds \in U64 /\ Lamports \in Nat
    /\ DepositAmounts \subseteq U64
    /\ Rates \subseteq Nat /\ 1 \in Rates
    /\ RentFloor \in [Rates -> [Kinds -> Nat \ {0}]]
    /\ MaxTopUp \in Nat /\ MaxDonation \in Nat /\ Horizon \in Nat

------------------------------------------------------------------------------
(* State: group_config.rs, member_record.rs, join_tally.rs, join_gate.rs   *)

GroupConfig ==
    [creator : Creators, rent_payer : Payers, mint : Mints,
     deposit_amount : U64 \ {0}, cycle_start : Nat, settled_at : Nat,
     frequency : Frequencies, total_periods : 1..MaxPeriods,
     max_members : 2..10, current_members : 0..10,
     status : Statuses, lamports : Nat]

MemberRecord ==
    [rent_payer : Payers, total_deposited : U64, deposits_made : U8,
     periods_deposited : SUBSET (0..MaxPeriods - 1), lamports : Nat]

JoinTally == [rent_payer : Payers, joins : U32 \ {0}, lamports : Nat]
JoinGate == [authority : Keys, lamports : Nat]
Vault == [amount : U64, lamports : Nat]

ASSUME NoneAssumption ==
    None \notin GroupConfig \cup MemberRecord \cup JoinTally \cup JoinGate \cup Vault

TypeOK ==
    /\ now \in Nat
    /\ rate \in Rates
    /\ group \in [Groups -> GroupConfig \cup {None}]
    /\ vault \in [Groups -> Vault \cup {None}]
    /\ record \in [Pdas -> MemberRecord \cup {None}]
    /\ tally \in [Pdas -> JoinTally \cup {None}]
    /\ gate \in [Groups -> JoinGate \cup {None}]
    /\ tokens \in [TokenAccounts -> U64]
    /\ frozen \subseteq TokenAccounts
    /\ purse \in [Payers -> Nat]

Floor(kind) == RentFloor[rate][kind]
Exists(account) == account # None
Settled(g) == group[g].status \in {"Completed", "Cancelled"}
Unsettled(g) == Exists(group[g]) /\ ~Settled(g)
Joined(g) == {m \in Members : Exists(record[<<g, m>>])}

------------------------------------------------------------------------------
(* Token program: what a transfer delivers, and which mints are accepted   *)

AllowedExtensions == {"MetadataPointer", "TokenMetadata", "InterestBearingConfig"}

\* Fault: refuses wrapped SOL but looks at no extension.
SupportedMintAnyExtension(mint) == mint \notin Native

\* supported_mint.rs: no wrapped SOL, only extensions that cannot move, hold
\* back or block the vault's tokens.
SupportedMint(mint) ==
    mint \notin Native /\ ExtensionsOf[mint] \subseteq AllowedExtensions

\* A transfer-fee mint delivers less than was sent.
Received(mint, amount) ==
    IF "TransferFeeConfig" \in ExtensionsOf[mint] THEN amount - 1 ELSE amount

\* The vault after a member's account pays amount into it.
PayIn(g, account, amount) ==
    LET balance == vault[g].amount + Received(group[g].mint, amount) IN
    /\ Exists(vault[g])
    /\ account \notin frozen
    /\ tokens[account] >= amount
    /\ balance \in U64
    /\ tokens' = [tokens EXCEPT ![account] = @ - amount]
    /\ vault' = [vault EXCEPT ![g].amount = balance]

OwnAccount(account, g, m) ==
    OwnerOf[account] = m /\ MintOf[account] = group[g].mint

------------------------------------------------------------------------------
(* Opening a group, joining and leaving it                                 *)

\* Fault: a deposit of zero is accepted.
ValidArgumentsZeroDeposit(amount, frequency, periods, size) ==
    /\ frequency \in Frequencies
    /\ periods \in 1..MaxPeriods
    /\ size \in 2..10

ValidArguments(amount, frequency, periods, size) ==
    /\ amount > 0
    /\ frequency \in Frequencies
    /\ periods \in 1..MaxPeriods
    /\ size \in 2..10

CreateGroup(g, creator, payer, mint, amount, frequency, periods, size) ==
    /\ ~Exists(group[g]) /\ ~Exists(vault[g])
    /\ SupportedMint(mint)
    /\ ValidArguments(amount, frequency, periods, size)
    /\ purse[payer] >= Floor("group") + Floor("vault")
    /\ group' = [group EXCEPT ![g] =
         [creator |-> creator, rent_payer |-> payer, mint |-> mint,
          deposit_amount |-> amount, cycle_start |-> 0, settled_at |-> 0,
          frequency |-> frequency, total_periods |-> periods,
          max_members |-> size, current_members |-> 0,
          status |-> "Open", lamports |-> Floor("group")]]
    /\ vault' = [vault EXCEPT ![g] = [amount |-> 0, lamports |-> Floor("vault")]]
    /\ purse' = [purse EXCEPT ![payer] = @ - Floor("group") - Floor("vault")]
    /\ UNCHANGED <<now, rate, record, tally, gate, tokens, frozen>>

\* Fault: a gate can be added to a group that has members.
SetJoinAuthorityLate(g, authority) ==
    /\ Exists(group[g]) /\ group[g].status = "Open"
    /\ ~Exists(gate[g])
    /\ authority \notin InvalidKeys
    /\ purse[group[g].rent_payer] >= Floor("gate")
    /\ gate' = [gate EXCEPT ![g] =
                  [authority |-> authority, lamports |-> Floor("gate")]]
    /\ purse' = [purse EXCEPT ![group[g].rent_payer] = @ - Floor("gate")]
    /\ UNCHANGED <<now, rate, group, vault, record, tally, tokens, frozen>>

\* The creator and the group's rent payer sign.
SetJoinAuthority(g, authority) ==
    /\ Exists(group[g]) /\ group[g].status = "Open"
    /\ group[g].current_members = 0
    /\ ~Exists(gate[g])
    /\ authority \notin InvalidKeys
    /\ purse[group[g].rent_payer] >= Floor("gate")
    /\ gate' = [gate EXCEPT ![g] =
                  [authority |-> authority, lamports |-> Floor("gate")]]
    /\ purse' = [purse EXCEPT ![group[g].rent_payer] = @ - Floor("gate")]
    /\ UNCHANGED <<now, rate, group, vault, record, tally, tokens, frozen>>

\* Fault: the terms do not name the creator.
TermsOfMoney(cfg) ==
    [creator |-> None, deposit_amount |-> cfg.deposit_amount,
     frequency |-> cfg.frequency, total_periods |-> cfg.total_periods]

\* GroupTerms: what a joining member agrees to.
Terms(cfg) ==
    [creator |-> cfg.creator, deposit_amount |-> cfg.deposit_amount,
     frequency |-> cfg.frequency, total_periods |-> cfg.total_periods]

Joins(g, m) == IF Exists(tally[<<g, m>>]) THEN tally[<<g, m>>].joins ELSE 0

\* Fault: an approval may be held open by a durable nonce.
JoinApprovedForever(g, authority, durable, expected) ==
    Exists(gate[g]) => authority = gate[g].authority /\ expected # None

\* A gated group takes a join only with the authority's signature, without a
\* durable nonce, and for the join count the authority read.
JoinApproved(g, authority, durable, expected) ==
    Exists(gate[g]) =>
        /\ authority = gate[g].authority
        /\ ~durable
        /\ expected # None

\* Fault: every join names its own rent payer.
CountJoinNewPayer(g, m, payer) ==
    [rent_payer |-> payer, joins |-> Joins(g, m) + 1, lamports |-> Floor("tally")]

\* The tally after one more join; only the first join names its rent payer.
CountJoin(g, m, payer) ==
    IF Joins(g, m) = 0
    THEN [rent_payer |-> payer, joins |-> 1, lamports |-> Floor("tally")]
    ELSE [tally[<<g, m>>] EXCEPT !.joins = @ + 1]

\* Anchor's init_if_needed takes an existing tally only while it is rent-exempt.
JoinGroup(g, m, payer, account, authority, durable, terms, expected) ==
    LET joins == Joins(g, m)
        rent  == Floor("record")
                 + (IF Exists(tally[<<g, m>>]) THEN 0 ELSE Floor("tally"))
    IN
    /\ Exists(group[g]) /\ group[g].status = "Open"
    /\ group[g].current_members < group[g].max_members
    /\ ~Exists(record[<<g, m>>])
    /\ OwnAccount(account, g, m) /\ account \in Canonical
    /\ Terms(group[g]) = terms
    /\ JoinApproved(g, authority, durable, expected)
    /\ expected # None => joins = expected
    /\ joins + 1 \in U32
    /\ Exists(tally[<<g, m>>]) => tally[<<g, m>>].lamports >= Floor("tally")
    /\ purse[payer] >= rent
    /\ record' = [record EXCEPT ![<<g, m>>] =
         [rent_payer |-> payer, total_deposited |-> group[g].deposit_amount,
          deposits_made |-> 1, periods_deposited |-> {0},
          lamports |-> Floor("record")]]
    /\ group' = [group EXCEPT ![g].current_members = @ + 1]
    /\ tally' = [tally EXCEPT ![<<g, m>>] = CountJoin(g, m, payer)]
    /\ purse' = [purse EXCEPT ![payer] = @ - rent]
    /\ PayIn(g, account, group[g].deposit_amount)
    /\ UNCHANGED <<now, rate, gate, frozen>>

\* Fault: the record closes but is not counted out.
CloseRecordUncounted(g, m) ==
    /\ Exists(record[<<g, m>>])
    /\ purse' = [purse EXCEPT ![record[<<g, m>>].rent_payer] = @ + record[<<g, m>>].lamports]
    /\ record' = [record EXCEPT ![<<g, m>>] = None]
    /\ UNCHANGED group

\* leave_group and close_member_record both close a record to the wallet that
\* it names and count it out.
CloseRecord(g, m) ==
    /\ Exists(record[<<g, m>>])
    /\ group[g].current_members > 0
    /\ group' = [group EXCEPT ![g].current_members = @ - 1]
    /\ purse' = [purse EXCEPT ![record[<<g, m>>].rent_payer] = @ + record[<<g, m>>].lamports]
    /\ record' = [record EXCEPT ![<<g, m>>] = None]

\* Any token account of the member will do, not only the canonical one.
LeaveGroup(g, m, account) ==
    LET refund == record[<<g, m>>].total_deposited IN
    /\ Exists(group[g]) /\ group[g].status = "Open"
    /\ CloseRecord(g, m)
    /\ Exists(vault[g])
    /\ OwnAccount(account, g, m) /\ account \notin frozen
    /\ vault[g].amount >= refund
    /\ tokens[account] + refund \in U64
    /\ vault' = [vault EXCEPT ![g].amount = @ - refund]
    /\ tokens' = [tokens EXCEPT ![account] = @ + refund]
    /\ UNCHANGED <<now, rate, tally, gate, frozen>>

------------------------------------------------------------------------------
(* Running a cycle                                                         *)

\* The creator signs.  The event computes cycle_end, so an overflow fails here.
StartCycle(g) ==
    /\ Exists(group[g]) /\ group[g].status = "Open"
    /\ group[g].current_members >= 2
    /\ group' = [group EXCEPT ![g].status = "Active", ![g].cycle_start = now]
    /\ InI64(CycleEnd(group'[g]))
    /\ UNCHANGED <<now, rate, vault, record, tally, gate, tokens, frozen, purse>>

Deposit(g, m, account) ==
    LET cfg    == group[g]
        period == CurrentPeriod(cfg, now)
        total  == record[<<g, m>>].total_deposited + cfg.deposit_amount
    IN
    /\ Exists(cfg) /\ cfg.status = "Active"
    /\ Exists(record[<<g, m>>])
    /\ OwnAccount(account, g, m)
    /\ now < CycleEnd(cfg)
    /\ ElapsedPeriods(cfg, now) \in U8
    /\ period \notin record[<<g, m>>].periods_deposited
    /\ record[<<g, m>>].deposits_made + 1 \in U8
    /\ total \in U64
    /\ record' = [record EXCEPT ![<<g, m>>].periods_deposited = @ \cup {period},
                                ![<<g, m>>].deposits_made = @ + 1,
                                ![<<g, m>>].total_deposited = total]
    /\ PayIn(g, account, cfg.deposit_amount)
    /\ UNCHANGED <<now, rate, group, tally, gate, frozen, purse>>

------------------------------------------------------------------------------
(* Settlement: distribute and emergency_cancel are given a list of pairs   *)
(* [record address, token account] that the caller chose.                  *)

PairLists ==
    UNION {[1..n -> [record : Pdas, account : TokenAccounts]] :
             n \in 0..Cardinality(Members)}

\* Fault: a record of another group may be listed.
ValidPairsAnyGroup(g, pairs) ==
    \A i \in DOMAIN pairs :
        /\ Exists(record[pairs[i].record])
        /\ \A j \in 1..(i - 1) : pairs[j].record # pairs[i].record
        /\ OwnAccount(pairs[i].account, g, pairs[i].record[2])

\* Fault: members are paid to their canonical account only.
ValidPairsCanonical(g, pairs) ==
    \A i \in DOMAIN pairs :
        /\ Exists(record[pairs[i].record])
        /\ pairs[i].record[1] = g
        /\ \A j \in 1..(i - 1) : pairs[j].record # pairs[i].record
        /\ OwnAccount(pairs[i].account, g, pairs[i].record[2])
        /\ pairs[i].account \in Canonical

\* Fault: the caller may have a member paid into an account of someone else.
ValidPairsAnyAccount(g, pairs) ==
    \A i \in DOMAIN pairs :
        /\ Exists(record[pairs[i].record])
        /\ pairs[i].record[1] = g
        /\ \A j \in 1..(i - 1) : pairs[j].record # pairs[i].record
        /\ MintOf[pairs[i].account] = group[g].mint

\* member_validation.rs, for every pair of the list and the records before it.
ValidPairs(g, pairs) ==
    \A i \in DOMAIN pairs :
        /\ Exists(record[pairs[i].record])
        /\ pairs[i].record[1] = g
        /\ \A j \in 1..(i - 1) : pairs[j].record # pairs[i].record
        /\ OwnAccount(pairs[i].account, g, pairs[i].record[2])

Listed(pairs) ==
    SumFunction([i \in DOMAIN pairs |-> record[pairs[i].record].total_deposited])

\* The checks that both settlement instructions make of the list.
SettlementChecks(g, pairs) ==
    /\ Exists(vault[g])
    /\ Len(pairs) = group[g].current_members
    /\ ValidPairs(g, pairs)
    /\ Listed(pairs) \in U64
    /\ vault[g].amount >= Listed(pairs)

\* Fault: every pair is paid its deposits and donations stay in the vault.
PayoutWithoutRemainder(g, pairs, i) == record[pairs[i].record].total_deposited

\* Every pair is paid its deposits; the last also what the vault then holds.
Payout(g, pairs, i) ==
    record[pairs[i].record].total_deposited
        + (IF i = Len(pairs) THEN vault[g].amount - Listed(pairs) ELSE 0)

Paid(g, pairs, I) == SumFunction([i \in I |-> Payout(g, pairs, i)])

Credit(g, pairs, account) ==
    Paid(g, pairs, {i \in DOMAIN pairs : pairs[i].account = account})

\* What the token program and the runtime ask: only an empty vault closes, a
\* frozen account receives nothing, and a transaction that adds lamports to an
\* account does not leave it below its rent-exempt minimum.
CanSettle(g, pairs, burned) ==
    /\ vault[g].amount = Paid(g, pairs, DOMAIN pairs) + burned
    /\ group[g].lamports + vault[g].lamports >= Floor("group")
    /\ \A i \in DOMAIN pairs :
         Payout(g, pairs, i) > 0 => pairs[i].account \notin frozen
    /\ \A a \in TokenAccounts : tokens[a] + Credit(g, pairs, a) \in U64

\* Pays the list, burns, and closes the vault to the GroupConfig.
Settle(g, pairs, burned, outcome) ==
    /\ CanSettle(g, pairs, burned)
    /\ tokens' = [a \in TokenAccounts |-> tokens[a] + Credit(g, pairs, a)]
    /\ group' = [group EXCEPT ![g].status = outcome, ![g].settled_at = now,
                              ![g].lamports = @ + vault[g].lamports]
    /\ vault' = [vault EXCEPT ![g] = None]
    /\ UNCHANGED <<now, rate, record, tally, gate, frozen, purse>>

\* Anyone may call it.
Distribute(g, pairs) ==
    /\ Exists(group[g]) /\ group[g].status = "Active"
    /\ now >= CycleEnd(group[g])
    /\ SettlementChecks(g, pairs)
    /\ Settle(g, pairs, 0, "Completed")

\* Tokens in the vault that nobody deposited and nobody can be paid.
UnownedVaultBalance(g) ==
    IF group[g].current_members = 0 THEN vault[g].amount ELSE 0

CancelChecks(g, pairs, mint_writable) ==
    /\ Exists(group[g]) /\ group[g].status \in {"Open", "Active"}
    /\ SettlementChecks(g, pairs)
    /\ UnownedVaultBalance(g) > 0 => mint_writable

\* The creator signs.
EmergencyCancel(g, pairs, mint_writable) ==
    /\ CancelChecks(g, pairs, mint_writable)
    /\ Settle(g, pairs, UnownedVaultBalance(g), "Cancelled")

------------------------------------------------------------------------------
(* Returning the rent and freeing the code                                 *)

\* Fault: not saturating.
LamportsAboveRentFloorSigned(g) == group[g].lamports - Floor("group")

\* Saturating: nothing moves when the account is at its minimum or below.
LamportsAboveRentFloor(g) ==
    IF group[g].lamports > Floor("group")
    THEN group[g].lamports - Floor("group") ELSE 0

RefundVaultRent(g) ==
    /\ Exists(group[g]) /\ Settled(g)
    /\ group' = [group EXCEPT ![g].lamports = @ - LamportsAboveRentFloor(g)]
    /\ purse' = [purse EXCEPT ![group[g].rent_payer] = @ + LamportsAboveRentFloor(g)]
    /\ UNCHANGED <<now, rate, vault, record, tally, gate, tokens, frozen>>

CloseMemberRecord(g, m) ==
    /\ Exists(group[g]) /\ Settled(g)
    /\ InI64(RecordRetentionEnd(group[g].settled_at))
    /\ now >= RecordRetentionEnd(group[g].settled_at)
    /\ CloseRecord(g, m)
    /\ UNCHANGED <<now, rate, vault, tally, gate, tokens, frozen>>

\* Fault: the JoinGate is left behind.
CloseGroupOnly(g) ==
    /\ Exists(group[g]) /\ Settled(g)
    /\ group[g].current_members = 0
    /\ purse' = [purse EXCEPT ![group[g].rent_payer] = @ + group[g].lamports]
    /\ group' = [group EXCEPT ![g] = None]
    /\ UNCHANGED <<now, rate, gate, vault, record, tally, tokens, frozen>>

\* Fault: an empty group closes before it settled.
CloseGroupUnsettled(g) ==
    /\ Exists(group[g])
    /\ group[g].current_members = 0
    /\ purse' = [purse EXCEPT ![group[g].rent_payer] =
         @ + group[g].lamports + (IF Exists(gate[g]) THEN gate[g].lamports ELSE 0)]
    /\ group' = [group EXCEPT ![g] = None]
    /\ gate' = [gate EXCEPT ![g] = None]
    /\ UNCHANGED <<now, rate, vault, record, tally, tokens, frozen>>

\* Closes the GroupConfig and its JoinGate to the group's rent payer.
CloseGroup(g) ==
    /\ Exists(group[g]) /\ Settled(g)
    /\ group[g].current_members = 0
    /\ purse' = [purse EXCEPT ![group[g].rent_payer] =
         @ + group[g].lamports + (IF Exists(gate[g]) THEN gate[g].lamports ELSE 0)]
    /\ group' = [group EXCEPT ![g] = None]
    /\ gate' = [gate EXCEPT ![g] = None]
    /\ UNCHANGED <<now, rate, vault, record, tally, tokens, frozen>>

\* Fault: a tally closes while a group lives at its group address.
CloseJoinTallyEarly(g, m) ==
    /\ Exists(tally[<<g, m>>])
    /\ purse' = [purse EXCEPT ![tally[<<g, m>>].rent_payer] = @ + tally[<<g, m>>].lamports]
    /\ tally' = [tally EXCEPT ![<<g, m>>] = None]
    /\ UNCHANGED <<now, rate, group, vault, record, gate, tokens, frozen>>

CloseJoinTally(g, m) ==
    /\ ~Exists(group[g])
    /\ Exists(tally[<<g, m>>])
    /\ purse' = [purse EXCEPT ![tally[<<g, m>>].rent_payer] = @ + tally[<<g, m>>].lamports]
    /\ tally' = [tally EXCEPT ![<<g, m>>] = None]
    /\ UNCHANGED <<now, rate, group, vault, record, gate, tokens, frozen>>

------------------------------------------------------------------------------
(* Outside the program                                                     *)

\* The clock stops at the horizon unless an instruction still waits for it.
ClockRuns ==
    \/ now < Horizon
    \/ \E g \in Groups : /\ Exists(group[g])
                         /\ \/ group[g].status = "Active" /\ now < CycleEnd(group[g])
                            \/ /\ Settled(g)
                               /\ now < RecordRetentionEnd(group[g].settled_at)

Tick ==
    /\ now' = now + 1
    /\ UNCHANGED <<rate, group, vault, record, tally, gate, tokens, frozen, purse>>

ChangeRentRate(r) ==
    /\ r # rate
    /\ rate' = r
    /\ UNCHANGED <<now, group, vault, record, tally, gate, tokens, frozen, purse>>

Freeze(account) ==
    /\ frozen' = frozen \cup {account}
    /\ UNCHANGED <<now, rate, group, vault, record, tally, gate, tokens, purse>>

Thaw(account) ==
    /\ frozen' = frozen \ {account}
    /\ UNCHANGED <<now, rate, group, vault, record, tally, gate, tokens, purse>>

\* A plain token transfer to a vault.
DonateTokens(g, account) ==
    /\ Exists(group[g]) /\ Exists(vault[g])
    /\ MintOf[account] = group[g].mint
    /\ PayIn(g, account, 1)
    /\ UNCHANGED <<now, rate, group, record, tally, gate, frozen, purse>>

\* A plain lamport transfer to a GroupConfig, under the same runtime rule.
TopUp(g, payer, amount) ==
    /\ Exists(group[g])
    /\ purse[payer] >= amount
    /\ group[g].lamports + amount >= Floor("group")
    /\ group' = [group EXCEPT ![g].lamports = @ + amount]
    /\ purse' = [purse EXCEPT ![payer] = @ - amount]
    /\ UNCHANGED <<now, rate, vault, record, tally, gate, tokens, frozen>>

------------------------------------------------------------------------------

Init ==
    /\ now = 0
    /\ rate = 1
    /\ group = [g \in Groups |-> None]
    /\ vault = [g \in Groups |-> None]
    /\ record = [p \in Pdas |-> None]
    /\ tally = [p \in Pdas |-> None]
    /\ gate = [g \in Groups |-> None]
    /\ tokens = [a \in TokenAccounts |-> TokenFunds]
    /\ frozen = {}
    /\ purse = [w \in Payers |-> Lamports]

\* What the records of a group add up to.
Deposited(g) ==
    SumFunction([m \in Joined(g) |-> record[<<g, m>>].total_deposited])

OfferedTerms ==
    [creator : Creators, deposit_amount : DepositAmounts,
     frequency : Frequencies, total_periods : PeriodCounts]

Create(g) ==
    \E creator \in Creators, payer \in Payers, mint \in Mints,
       amount \in DepositAmounts, frequency \in 0..(MaxFrequency + 1),
       periods \in PeriodCounts, size \in GroupSizes :
         CreateGroup(g, creator, payer, mint, amount, frequency, periods, size)

Join(g) ==
    \E m \in Members, payer \in Payers, account \in TokenAccounts,
       authority \in Keys \cup {None}, durable \in BOOLEAN,
       terms \in OfferedTerms, expected \in U32 \cup {None} :
         JoinGroup(g, m, payer, account, authority, durable, terms, expected)

LeaveOrDeposit(g) ==
    \E m \in Members, account \in TokenAccounts :
        LeaveGroup(g, m, account) \/ Deposit(g, m, account)

\* What anyone may call.
CrankStep(g) ==
    \/ \E pairs \in PairLists : Distribute(g, pairs)
    \/ RefundVaultRent(g)
    \/ \E m \in Members : CloseMemberRecord(g, m) \/ CloseJoinTally(g, m)
    \/ CloseGroup(g)

CreatorStep(g) ==
    \/ now <= Horizon /\ Create(g)
    \/ \E authority \in Keys : SetJoinAuthority(g, authority)
    \/ now <= Horizon /\ StartCycle(g)
    \/ \E pairs \in PairLists, mint_writable \in BOOLEAN :
         EmergencyCancel(g, pairs, mint_writable)

Environment ==
    \/ ClockRuns /\ Tick
    \/ \E r \in Rates : ChangeRentRate(r)
    \/ \E a \in Freezable : Freeze(a) \/ Thaw(a)
    \/ \E g \in Groups, a \in TokenAccounts :
         /\ Exists(vault[g]) /\ vault[g].amount < Deposited(g) + MaxDonation
         /\ DonateTokens(g, a)
    \/ \E g \in Groups, payer \in Payers, amount \in 1..MaxTopUp :
         /\ Exists(group[g]) /\ group[g].lamports < Floor("group")
         /\ TopUp(g, payer, amount)

Next ==
    \/ \E g \in Groups : Join(g)
    \/ \E g \in Groups : LeaveOrDeposit(g) \/ CrankStep(g) \/ CreatorStep(g)
    \/ Environment

Spec == Init /\ [][Next]_vars

==============================================================================
