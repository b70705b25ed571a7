----------------------- MODULE SafeNudgeRefinesChain -------------------------
(* The program implements the chain that the watchdog is composed with.    *)
EXTENDS SafeNudge

\* The fields of a GroupConfig that the watchdog, and its model, look at.
WatchedFields(cfg) ==
    [status |-> cfg.status, cycle_start |-> cfg.cycle_start,
     settled_at |-> cfg.settled_at, frequency |-> cfg.frequency,
     total_periods |-> cfg.total_periods]

\* No group looks to the watchdog like an address without one.
ASSUME WatchedNoneAssumption ==
    None \notin [status : Statuses, cycle_start : Nat, settled_at : Nat,
                 frequency : Frequencies, total_periods : 1..MaxPeriods]

WatchedGroups ==
    [g \in Groups |-> IF Exists(group[g]) THEN WatchedFields(group[g]) ELSE None]

Watched == INSTANCE WatchedChain WITH group <- WatchedGroups

\* start_cycle.rs, distribute.rs, emergency_cancel.rs, close_group.rs.  A group
\* is Active from start_cycle until exactly one settlement, its cycle_start and
\* its terms do not change meanwhile, and a group that was Active cannot close,
\* and free its address, before the retention of its records has ended: within
\* a run of the watchdog a key stands for one group.
SafeNudgeIsWatched == Watched!ChainSpec

==============================================================================
