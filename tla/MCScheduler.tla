----------------------------- MODULE MCScheduler -----------------------------
(***************************************************************************)
(* Instances of Scheduler for TLC.                                         *)
(***************************************************************************)
EXTENDS Scheduler, TLC

\* Every process has a handler for every job.
AllHandled == [w \in Workers |-> Keys]

\* A rolling deployment: one process has no handler for the one-off job yet.
NotYetHandled == [w \in Workers |-> IF w = "new" THEN Keys ELSE CronKeys]

\* The calls of upsertRecurringJob: boot (ensureRecurring), the schedule of a
\* story or an automation, and a disabled automation.  The changed cadence of the
\* context recommendations, [status |-> "keep", reset |-> TRUE], is left out: it
\* takes the lock time from a running row.
Boot     == [status |-> "keep",    reset |-> FALSE]
Schedule == [status |-> "pending", reset |-> TRUE]
Disable  == [status |-> "paused",  reset |-> TRUE]

BootOnly  == {Boot}
UserEdits == {Boot, Schedule, Disable}

Symmetry == Permutations(Ids) \union Permutations(Claims) \union Permutations(Workers)
=============================================================================
