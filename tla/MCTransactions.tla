---------------------------- MODULE MCTransactions ---------------------------
(* Small instances of Transactions for TLC.                                *)
EXTENDS Transactions, SafeNudgeProperties, SafeNudgeRefinesChain

CONSTANTS m1, m2

OneMint == {"usdc"}
MintExtensions == [usdc |-> {}]

\* A canonical account per member.
OneAccountEach == Members \X {"ata"} \X {"usdc"}
AccountOwner == [a \in TokenAccounts |-> a[1]]
AccountMint == [a \in TokenAccounts |-> a[3]]

OneSecond == [f \in {0} |-> 1]
FixedRent == <<[group |-> 1, vault |-> 1, record |-> 1, tally |-> 1, gate |-> 1]>>

MemberSymmetry == Permutations(Members)
==============================================================================
