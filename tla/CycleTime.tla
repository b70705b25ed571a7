------------------------------ MODULE CycleTime ------------------------------
(***************************************************************************)
(* The time arithmetic of programs/safenudge/src/state/group_config.rs and *)
(* of deposit.rs.  deposit and distribute must agree on when a cycle ends, *)
(* so both take it from CycleEnd.                                          *)
(*                                                                         *)
(* A timestamp is a natural number.  The program computes it in i64 with   *)
(* checked arithmetic and fails on overflow; InI64 is that check.          *)
(***************************************************************************)
EXTENDS Integers

CONSTANTS
    MaxFrequency,     \* highest accepted frequency code
    PeriodSecs,       \* seconds in a deposit period, by frequency code
    RetentionSecs,    \* how long records stay after settlement
    MaxI64            \* largest timestamp (2^63 - 1 in the program)

ASSUME TimeAssumption ==
    /\ MaxFrequency \in Nat
    /\ PeriodSecs \in [0..MaxFrequency -> Nat \ {0}]
    /\ RetentionSecs \in Nat
    /\ MaxI64 \in Nat

Frequencies == 0..MaxFrequency
MaxPeriods == 52
U8 == 0..255

InI64(t) == t <= MaxI64

\* First timestamp after the last deposit period.
CycleEnd(cycle) ==
    cycle.cycle_start + cycle.total_periods * PeriodSecs[cycle.frequency]

\* Whole periods since the start; the program then narrows it to u8.
ElapsedPeriods(cycle, t) ==
    (t - cycle.cycle_start) \div PeriodSecs[cycle.frequency]

\* Fault: counts the period that a running one is about to complete.
CurrentPeriodRoundedUp(cycle, t) ==
    LET elapsed == ElapsedPeriods(cycle, t) + 1
        last    == cycle.total_periods - 1
    IN  IF elapsed <= last THEN elapsed ELSE last

\* The period a deposit at time t counts for, clamped to the last one.
CurrentPeriod(cycle, t) ==
    LET elapsed == ElapsedPeriods(cycle, t)
        last    == cycle.total_periods - 1
    IN  IF elapsed <= last THEN elapsed ELSE last

\* Fault: one second short.
RecordRetentionEndEarly(settled_at) == settled_at + RetentionSecs - 1

\* First timestamp at which the records of a settled group can close.
RecordRetentionEnd(settled_at) == settled_at + RetentionSecs

==============================================================================
