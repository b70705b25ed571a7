----------------------- MODULE SafeNudgeRefinesEscrow ------------------------
(* The safenudge program implements Escrow.                                *)
EXTENDS SafeNudgeProperties

EscrowMint == [g \in Groups |-> IF Unsettled(g) THEN group[g].mint ELSE None]

EscrowHeld ==
    [p \in Pdas |->
        IF Unsettled(p[1]) /\ Exists(record[p]) THEN record[p].total_deposited ELSE 0]

EscrowSpare ==
    [g \in Groups |-> IF Unsettled(g) THEN vault[g].amount - Deposited(g) ELSE 0]

EscrowWallet ==
    [p \in Members \X Mints |->
        SumTokens({a \in TokenAccounts : OwnerOf[a] = p[1] /\ MintOf[a] = p[2]})]

Promise == INSTANCE Escrow
    WITH mint <- EscrowMint, held <- EscrowHeld, spare <- EscrowSpare,
         wallet <- EscrowWallet

\* ADR-0005 and the module comments of distribute.rs and emergency_cancel.rs:
\* every instruction does to the members' tokens what one step of the escrow
\* does, or nothing.  Tokens a member paid in go back to that member only, all
\* of them, in one transaction; the rest of a vault goes to one paid member.
ImplementsEscrow == Promise!Spec

==============================================================================
