-------------------------- MODULE MCCancelInFlight ---------------------------
(* A small instance of CancelInFlight: two members and one group code.  m1 *)
(* has a second account, which the issuer and m1 leave alone.              *)
EXTENDS CancelInFlight

OneMint == {"usd22"}
NoExtensions == [k \in Mints |-> {}]
MemberAccounts == {<<m, "usd22">> : m \in Members}
AccountOf == MemberAccounts \cup {<<"m1", "usd22", "spare">>}
Troubled == {<<"m1", "usd22">>}
AccountOwner == [a \in TokenAccounts |-> a[1]]
AccountMint == [a \in TokenAccounts |-> a[2]]
OneSecond == [f \in {0} |-> 1]
FixedRent == <<[group |-> 1, vault |-> 1, record |-> 1, tally |-> 1, gate |-> 1]>>
==============================================================================
