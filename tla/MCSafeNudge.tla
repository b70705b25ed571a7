----------------------------- MODULE MCSafeNudge -----------------------------
(* Small instances of SafeNudge for TLC.                                   *)
EXTENDS SafeNudgeRefinesEscrow, TLC

CONSTANTS m1, m2, m3, g1, g2

\* One mint that the program takes and two that it must refuse.
OneMint == {"usdc"}
ThreeMints == {"usdc", "fee", "wsol"}
MintExtensions == [usdc |-> {"MetadataPointer"},
                   fee  |-> {"TransferFeeConfig"},
                   wsol |-> {}]

\* A canonical account per member and mint; the first member may have another.
OneAccountEach == Members \X {"ata"} \X {"usdc"}
SecondAccount == OneAccountEach \cup {<<m1, "other", "usdc">>}
EveryMintAccount == Members \X {"ata"} \X {"usdc", "fee"}
FirstMemberAta == {a \in TokenAccounts : a[1] = m1 /\ a[2] = "ata"}
AccountOwner == [a \in TokenAccounts |-> a[1]]
AccountMint == [a \in TokenAccounts |-> a[3]]
CanonicalAccounts == {a \in TokenAccounts : a[2] = "ata"}

\* Deposit periods of one, or of two seconds.
OneSecond == [f \in {0} |-> 1]
TwoSeconds == [f \in {0} |-> 2]

\* A constant rent rate, or one that may double.
UnitRent == [group |-> 1, vault |-> 1, record |-> 1, tally |-> 1, gate |-> 1]
FixedRent == <<UnitRent>>
TwoRents ==
    <<[group |-> 2, vault |-> 1, record |-> 1, tally |-> 1, gate |-> 1],
      [group |-> 4, vault |-> 2, record |-> 2, tally |-> 2, gate |-> 2]>>

MemberSymmetry == Permutations(Members)
==============================================================================
