--------------------------------- MODULE Idl ---------------------------------
(***************************************************************************)
(* src/idl/safenudge-types.ts: what a client knows of the program.  For    *)
(* every instruction the accounts of a transaction that calls it, in the   *)
(* order of the IDL, with the addresses that their seeds resolve to; for   *)
(* every event its fields and their widths.                                *)
(*                                                                         *)
(* Left out: the token and system programs and the instructions sysvar,    *)
(* which no transaction changes, discriminators, and the arguments, which  *)
(* are those of the actions of SafeNudge.                                  *)
(***************************************************************************)
EXTENDS SafeNudge

------------------------------------------------------------------------------
(* Addresses                                                               *)

GroupPda(g) == <<"group", g>>
VaultPda(g) == <<"vault", g>>
MemberPda(g, m) == <<"member", g, m>>
TallyPda(g, m) == <<"tally", g, m>>
JoinPda(g) == <<"join", g>>
Wallet(w) == <<"wallet", w>>
Token(account) == <<"token", account>>
Mint(mint) == <<"mint", mint>>

Meta(address, writable, signer) ==
    [address |-> address, writable |-> writable, signer |-> signer]
ReadOnly(address) == Meta(address, FALSE, FALSE)
Writable(address) == Meta(address, TRUE, FALSE)
Signer(address) == Meta(address, FALSE, TRUE)
WritableSigner(address) == Meta(address, TRUE, TRUE)

------------------------------------------------------------------------------
(* Instructions                                                            *)

\* Fault: the JoinGate is not writable.
closeGroupReadsGate(g, rentPayer) ==
    {Writable(GroupPda(g)), Writable(Wallet(rentPayer)), ReadOnly(JoinPda(g))}

closeGroup(g, rentPayer) ==
    {Writable(GroupPda(g)), Writable(Wallet(rentPayer)), Writable(JoinPda(g))}

closeJoinTally(g, m, rentPayer) ==
    {ReadOnly(GroupPda(g)), Writable(TallyPda(g, m)), Writable(Wallet(rentPayer))}

closeMemberRecord(g, m, rentPayer) ==
    {Writable(GroupPda(g)), Writable(MemberPda(g, m)), Writable(Wallet(rentPayer))}

createGroup(g, creator, rentPayer, mint) ==
    {Signer(Wallet(creator)), WritableSigner(Wallet(rentPayer)),
     Writable(GroupPda(g)), Writable(VaultPda(g)), ReadOnly(Mint(mint))}

deposit(g, m, account, mint) ==
    {Signer(Wallet(m)), Writable(GroupPda(g)), Writable(MemberPda(g, m)),
     Writable(Token(account)), Writable(VaultPda(g)), ReadOnly(Mint(mint))}

\* The payer is any wallet; it pays the transaction fee, which is left out.
distribute(g, mint) ==
    {Writable(GroupPda(g)), Writable(VaultPda(g)), ReadOnly(Mint(mint))}

\* `relations`: the client takes the creator from the group account.
emergencyCancel(g, mint) ==
    {Signer(Wallet(group[g].creator)), Writable(GroupPda(g)),
     Writable(VaultPda(g)), ReadOnly(Mint(mint))}

\* The accounts of the member, up to the vault.
joinGroupMember(g, m, rentPayer, account, mint) ==
    {Signer(Wallet(m)), WritableSigner(Wallet(rentPayer)),
     Writable(GroupPda(g)), Writable(MemberPda(g, m)),
     Writable(Token(account)), Writable(VaultPda(g)), ReadOnly(Mint(mint))}

\* The gate, its authority, which is optional, and the tally.
joinGroupApproval(g, m, joinAuthority) ==
    {ReadOnly(JoinPda(g)), Writable(TallyPda(g, m))}
    \cup {Signer(Wallet(k)) : k \in {joinAuthority} \ {None}}

joinGroup(g, m, rentPayer, account, mint, joinAuthority) ==
    joinGroupMember(g, m, rentPayer, account, mint)
    \cup joinGroupApproval(g, m, joinAuthority)

\* Fault: anyone may send a member away.
leaveGroupUnsigned(g, m, rentPayer, account, mint) ==
    {ReadOnly(Wallet(m)), Writable(GroupPda(g)), Writable(MemberPda(g, m)),
     Writable(Wallet(rentPayer)), Writable(Token(account)),
     Writable(VaultPda(g)), ReadOnly(Mint(mint))}

leaveGroup(g, m, rentPayer, account, mint) ==
    {Signer(Wallet(m)), Writable(GroupPda(g)), Writable(MemberPda(g, m)),
     Writable(Wallet(rentPayer)), Writable(Token(account)),
     Writable(VaultPda(g)), ReadOnly(Mint(mint))}

refundVaultRent(g, rentPayer) ==
    {Writable(GroupPda(g)), Writable(Wallet(rentPayer))}

setJoinAuthority(g, creator, rentPayer) ==
    {Signer(Wallet(creator)), WritableSigner(Wallet(rentPayer)),
     ReadOnly(GroupPda(g)), Writable(JoinPda(g))}

startCycle(g) ==
    {WritableSigner(Wallet(group[g].creator)), Writable(GroupPda(g))}

------------------------------------------------------------------------------
(* Events                                                                  *)

I64 == 0..MaxI64
Lamport == 0..MaxU64

CycleStarted ==
    [event : {"CycleStarted"}, group : Groups, members : U8,
     cycleStart : I64, cycleEnd : I64]

DepositMade ==
    [event : {"DepositMade"}, group : Groups, member : Members, period : U8,
     amount : U64, depositsMade : U8]

GroupCancelled ==
    [event : {"GroupCancelled"}, group : Groups, creator : Creators, members : U8,
     refundedTotal : U64, burned : U64]

GroupClosed ==
    [event : {"GroupClosed"}, group : Groups, rentPayer : Payers,
     lamports : Lamport, joinGateLamports : Lamport]

GroupCreated ==
    [event : {"GroupCreated"}, group : Groups, creator : Creators,
     rentPayer : Payers, mint : Mints, depositAmount : U64, totalPeriods : U8,
     maxMembers : U8]

GroupSettled ==
    [event : {"GroupSettled"}, group : Groups, members : U8, totalPaid : U64]

JoinAuthoritySet ==
    [event : {"JoinAuthoritySet"}, group : Groups, creator : Creators,
     authority : Keys]

MemberJoined ==
    [event : {"MemberJoined"}, group : Groups, member : Members,
     rentPayer : Payers, amount : U64, currentMembers : U8, joins : U32]

MemberLeft ==
    [event : {"MemberLeft"}, group : Groups, member : Members, refund : U64,
     currentMembers : U8]

MemberSettled ==
    [event : {"MemberSettled"}, group : Groups, member : Members,
     deposited : U64, payout : U64]

Event ==
    CycleStarted \cup DepositMade \cup GroupCancelled \cup GroupClosed
    \cup GroupCreated \cup GroupSettled \cup JoinAuthoritySet
    \cup MemberJoined \cup MemberLeft \cup MemberSettled

==============================================================================
