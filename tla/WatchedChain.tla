---------------------------- MODULE WatchedChain -----------------------------
(***************************************************************************)
(* What the watchdog can see of the chain: the life of every group account *)
(* reduced to the fields that decodeGroup reads, and the clock.  SafeNudge *)
(* implements this specification (SafeNudgeIsWatched), and the watchdog is *)
(* composed with it instead of with the whole program.                     *)
(***************************************************************************)
EXTENDS CycleTime

CONSTANTS
    None,            \* no account at an address
    Groups,          \* group addresses
    PeriodCounts     \* numbers of periods a group may be created with

VARIABLES
    now,             \* Clock::unix_timestamp
    group            \* the watched fields of the account at a group address

chainVars == <<now, group>>

WatchedGroup ==
    [status : {"Open", "Active", "Completed", "Cancelled"},
     cycle_start : Nat, settled_at : Nat,
     frequency : Frequencies, total_periods : PeriodCounts]

ChainInit ==
    /\ now \in Nat
    /\ group = [g \in Groups |-> None]

CreateGroup(g) ==
    /\ group[g] = None
    /\ \E frequency \in Frequencies, periods \in PeriodCounts :
         group' = [group EXCEPT ![g] =
           [status |-> "Open", cycle_start |-> 0, settled_at |-> 0,
            frequency |-> frequency, total_periods |-> periods]]
    /\ UNCHANGED now

StartCycle(g) ==
    /\ group[g] # None /\ group[g].status = "Open"
    /\ group' = [group EXCEPT ![g].status = "Active", ![g].cycle_start = now]
    /\ UNCHANGED now

\* distribute, at the end of the cycle.
Distribute(g) ==
    /\ group[g] # None /\ group[g].status = "Active"
    /\ now >= CycleEnd(group[g])
    /\ group' = [group EXCEPT ![g].status = "Completed", ![g].settled_at = now]
    /\ UNCHANGED now

EmergencyCancel(g) ==
    /\ group[g] # None /\ group[g].status \in {"Open", "Active"}
    /\ group' = [group EXCEPT ![g].status = "Cancelled", ![g].settled_at = now]
    /\ UNCHANGED now

\* A group that started has records, and they stay until their retention ends.
CloseGroup(g) ==
    /\ group[g] # None /\ group[g].status \in {"Completed", "Cancelled"}
    /\ group[g].cycle_start > 0 =>
         now >= RecordRetentionEnd(group[g].settled_at)
    /\ group' = [group EXCEPT ![g] = None]
    /\ UNCHANGED now

\* Any number of seconds passes.
Elapse ==
    /\ now' \in Nat /\ now' > now
    /\ UNCHANGED group

GroupStep(g) ==
    CreateGroup(g) \/ StartCycle(g) \/ Distribute(g) \/ EmergencyCancel(g) \/ CloseGroup(g)

ChainNext == Elapse \/ \E g \in Groups : GroupStep(g)

ChainSpec == ChainInit /\ [][ChainNext]_chainVars

==============================================================================
