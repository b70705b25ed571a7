------------------------------- MODULE Escrow --------------------------------
(***************************************************************************)
(* What a safenudge group promises its members about their tokens, with no *)
(* accounts, lists, statuses or clock: what a member paid in stays the     *)
(* member's, and comes back whole, to that member, in one step.  Tokens    *)
(* that nobody paid in go to one of the members being paid back, or are    *)
(* burned when there is none.  SafeNudgeRefinesEscrow shows that the       *)
(* program implements this.                                                *)
(***************************************************************************)
EXTENDS Integers

CONSTANTS Groups, Members, Mints, None

VARIABLES
    mint,     \* what an open escrow holds, None while there is no escrow
    held,     \* what a member has in it
    spare,    \* what it holds beyond that
    wallet    \* what a member has outside, by mint

vars == <<mint, held, spare, wallet>>

Payees(g) == {m \in Members : held[<<g, m>>] > 0}

Init ==
    /\ mint = [g \in Groups |-> None]
    /\ held = [p \in Groups \X Members |-> 0]
    /\ spare = [g \in Groups |-> 0]
    /\ \A p \in Members \X Mints : wallet[p] \in Nat

Open(g, k) ==
    /\ mint[g] = None
    /\ mint' = [mint EXCEPT ![g] = k]
    /\ UNCHANGED <<held, spare, wallet>>

PayIn(g, m) ==
    /\ mint[g] # None
    /\ \E amount \in 1..wallet[<<m, mint[g]>>] :
         /\ held' = [held EXCEPT ![<<g, m>>] = @ + amount]
         /\ wallet' = [wallet EXCEPT ![<<m, mint[g]>>] = @ - amount]
    /\ UNCHANGED <<mint, spare>>

Donate(g, m) ==
    /\ mint[g] # None
    /\ \E amount \in 1..wallet[<<m, mint[g]>>] :
         /\ spare' = [spare EXCEPT ![g] = @ + amount]
         /\ wallet' = [wallet EXCEPT ![<<m, mint[g]>>] = @ - amount]
    /\ UNCHANGED <<mint, held>>

\* One member takes out everything it paid in.
Withdraw(g, m) ==
    /\ m \in Payees(g)
    /\ wallet' = [wallet EXCEPT ![<<m, mint[g]>>] = @ + held[<<g, m>>]]
    /\ held' = [held EXCEPT ![<<g, m>>] = 0]
    /\ UNCHANGED <<mint, spare>>

\* Everybody is paid back at once and the escrow ends; lucky also gets the
\* spare tokens, which are burned when there is nobody to pay.
PayBack(g, lucky) ==
    /\ mint[g] # None
    /\ IF Payees(g) = {} THEN lucky = None ELSE lucky \in Payees(g)
    /\ wallet' = [p \in Members \X Mints |->
                    IF p[2] # mint[g] THEN wallet[p]
                    ELSE wallet[p] + held[<<g, p[1]>>]
                         + (IF p[1] = lucky THEN spare[g] ELSE 0)]
    /\ held' = [p \in Groups \X Members |-> IF p[1] = g THEN 0 ELSE held[p]]
    /\ spare' = [spare EXCEPT ![g] = 0]
    /\ mint' = [mint EXCEPT ![g] = None]

Next ==
    \E g \in Groups :
        \/ \E k \in Mints : Open(g, k)
        \/ \E m \in Members : PayIn(g, m) \/ Donate(g, m) \/ Withdraw(g, m)
        \/ \E lucky \in Members \cup {None} : PayBack(g, lucky)

Spec == Init /\ [][Next]_vars

==============================================================================
