----------------------------- MODULE MCRehearsal -----------------------------
(* A small instance of Rehearsal: amounts of 1 and 9 for 10 and 90 USDC,   *)
(* periods of two seconds for five minutes.                                *)
EXTENDS Rehearsal

CONSTANTS s1, s2

Newcomers == {s1, s2}
Symmetry == Permutations(Newcomers)
Everyone == {"victim", "m1", "m2", "m3"} \cup Newcomers
GroupCreators == {"payer"} \cup Newcomers
RentPayers == {"payer"} \cup Everyone

OneMint == {"usdc"}
NoExtensions == [k \in Mints |-> {}]
AccountOf == Members \X Mints
AccountOwner == [a \in TokenAccounts |-> a[1]]
AccountMint == [a \in TokenAccounts |-> a[2]]
TwoSeconds == [f \in 0..MaxFrequency |-> 2]
FixedRent == <<[group |-> 1, vault |-> 1, record |-> 1, tally |-> 1, gate |-> 1]>>
ThreeMembers == <<"m1", "m2", "m3">>
==============================================================================
