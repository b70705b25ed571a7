--------------------------- MODULE MCJoinApproval ----------------------------
(* A small instance of JoinApproval: one member and one group code.        *)
EXTENDS JoinApproval, TLC

CONSTANTS c, d, usdc, eurc

OneMint == {usdc}
TwoMints == {usdc, eurc}
NoExtensions == [k \in Mints |-> {}]
AccountOf == Members \X Mints
AccountOwner == [a \in TokenAccounts |-> a[1]]
AccountMint == [a \in TokenAccounts |-> a[2]]
OneSecond == [f \in {0} |-> 1]
FixedRent == <<[group |-> 1, vault |-> 1, record |-> 1, tally |-> 1, gate |-> 1]>>

\* No instruction tells two creators, or two mints of a kind, apart.
CreatorAndMintSymmetry == Permutations(Creators) \cup Permutations(Mints)
==============================================================================
