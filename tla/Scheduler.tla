------------------------------ MODULE Scheduler ------------------------------
(***************************************************************************)
(* The job scheduler of the backend: the table scheduled_job, the          *)
(* statements of queries/scheduled-job.queries.ts that read and write it,  *)
(* and the poll and reclaim loops of services/scheduler.service.ts that    *)
(* every backend process runs against it.                                  *)
(*                                                                         *)
(* Each SQL statement is one atomic step; whatever separates two           *)
(* statements of one function (an await) is a point where every other      *)
(* process may act.  Time is relative: a row carries the ticks left before *)
(* it is due and the ticks since it was locked, so that behaviours of any  *)
(* length have finitely many states.                                       *)
(***************************************************************************)
EXTENDS Naturals, FiniteSets

CONSTANTS
    Ids,          \* row ids (uuids: an id is given to one row, once)
    OnceKeys,     \* unique keys of one-off jobs
    CronKeys,     \* unique keys of recurring jobs
    Crons,        \* cron expressions, each named by the ticks to its next run
    Workers,      \* backend processes
    Claims,       \* names for claims in flight; bounds how many there are
    Handles,      \* [Workers -> keys whose job name has a registered handler]
    Lease,        \* LEASE_DURATION_MS, in ticks
    Backoff,      \* the retry delay, in ticks
    MaxAttempts,  \* max_attempts of every row
    Batch,        \* CLAIM_BATCH_SIZE
    Edits,        \* the {status, reset} inputs upsertRecurringJob is called with
    SlowHandlers, \* may a handler outlive the lease of its claim?
    MaxFaults,    \* bound on process crashes and failed statements
    Null,         \* SQL NULL, no execution, no caller
    Unused,       \* an id not handed out yet
    Gone          \* the row of this id was deleted

Keys == OnceKeys \union CronKeys

NoCron == 0   \* cron IS NULL: a one-off job
Idle   == "idle"

\* attempts is only compared with MaxAttempts: it is kept exact up to
\* MaxAttempts + 1 and stays there.
AttemptsCap == MaxAttempts + 1

\* The awaits of claimDueJobs and executeJob, named by what comes next; an
\* execution that reschedules a failed job is past the try of executeJob.
Phases == {"claimed", "started", "handling", "succeeded", "failed", "delete",
           "reschedule", "rescheduleFailed", "giveUp", "retry"}

Row == [key : Keys, cron : Crons \union {NoCron},
        status : {"pending", "running", "paused", "failed"},
        runIn : Nat, attempts : 0..AttemptsCap,
        lockAge : (0..Lease) \union {Null}, lockedBy : Claims \union {Null}]

Execution == [worker : Workers, id : Ids, key : Keys, phase : Phases,
              attempts : 0..AttemptsCap, cron : Crons \union {NoCron},
              age : 0..Lease]

Edit == [key : CronKeys, cron : Crons, edit : Edits,
         target : Ids \union {Null}]

ASSUME ValuesAssumption ==
    /\ Unused # Gone
    /\ Unused \notin Row /\ Gone \notin Row
    /\ Null \notin Execution /\ Null \notin Edit
    /\ Null \notin Nat /\ Null \notin Claims /\ Null \notin Ids

ASSUME BoundsAssumption ==
    /\ Lease \in Nat \ {0}
    /\ Backoff \in Nat \ {0}
    /\ MaxAttempts \in Nat \ {0}
    /\ Batch \in Nat \ {0}
    /\ MaxFaults \in Nat

ASSUME InputsAssumption ==
    /\ Crons \subseteq Nat \ {0}
    /\ OnceKeys \intersect CronKeys = {}
    /\ SlowHandlers \in BOOLEAN
    /\ Handles \in [Workers -> SUBSET Keys]
    /\ Edits \subseteq [status : {"keep", "pending", "paused"}, reset : BOOLEAN]

VARIABLES
    row,      \* the table: id -> row, Unused or Gone
    poll,     \* worker -> what runPoll is doing: phase, ids left to claim
    exec,     \* claim -> the executeJob call it started, or Null
    editor,   \* a caller of upsertRecurringJob between its two statements
    faults    \* crashes and failed statements so far

vars == <<row, poll, exec, editor, faults>>

-----------------------------------------------------------------------------
(* State predicates and functions *)

Live(id)    == row[id] \notin {Unused, Gone}
LiveIds     == {id \in Ids : Live(id)}
Pending(id) == Live(id) /\ row[id].status = "pending"
Running(id) == Live(id) /\ row[id].status = "running"
Due(id)     == Pending(id) /\ row[id].runIn = 0

Active(c)   == exec[c] # Null
OfWorker(w) == {c \in Claims : Active(c) /\ exec[c].worker = w}

\* The row holding a unique key, as an id; the index allows one at most.
Holding(key) == {id \in LiveIds : row[id].key = key}

Smaller(m, n) == IF m < n THEN m ELSE n

TypeOK ==
    /\ row \in [Ids -> Row \union {Unused, Gone}]
    /\ poll \in [Workers -> [phase : {Idle, "claiming", "executing"}, todo : SUBSET Ids]]
    /\ exec \in [Claims -> Execution \union {Null}]
    /\ editor \in Edit \union {Null}
    /\ faults \in 0..MaxFaults

Init ==
    /\ row    = [id \in Ids |-> Unused]
    /\ poll   = [w \in Workers |-> [phase |-> Idle, todo |-> {}]]
    /\ exec   = [c \in Claims |-> Null]
    /\ editor = Null
    /\ faults = 0

-----------------------------------------------------------------------------
(* Callers: registering, enqueueing and deleting jobs *)

NewRow(key, cron, status, delay) ==
    [key |-> key, cron |-> cron, status |-> status, runIn |-> delay,
     attempts |-> 0, lockAge |-> Null, lockedBy |-> Null]

\* enqueueOnceJob: a second insert with the same unique key does nothing.
EnqueueOnce(key) ==
    /\ Holding(key) = {}
    /\ \E id \in Ids : /\ row[id] = Unused
                       /\ row' = [row EXCEPT ![id] = NewRow(key, NoCron, "pending", 0)]
    /\ UNCHANGED <<poll, exec, editor, faults>>

\* deleteJob, deleteJobByUniqueKey: a user removes a schedule.
DeleteJob(id) ==
    /\ Live(id)
    /\ row[id].key \in CronKeys
    /\ row' = [row EXCEPT ![id] = Gone]
    /\ UNCHANGED <<poll, exec, editor, faults>>

\* upsertRecurringJob, first statement: select the row of the key, and decide
\* on its status which statement to run next.
UpsertSelect(key, cron, edit) ==
    /\ editor = Null
    /\ \E target \in Ids \union {Null} :
          /\ IF \E id \in Holding(key) : Running(id)
             THEN target \in Holding(key)
             ELSE target = Null
          /\ editor' = [key |-> key, cron |-> cron, edit |-> edit, target |-> target]
    /\ UNCHANGED <<row, poll, exec, faults>>

\* refreshRunningJobDefinition: the schedule of the running row is left alone.
UpsertRefresh ==
    /\ editor # Null
    /\ editor.target \in Ids
    /\ row' = IF Live(editor.target)
              THEN [row EXCEPT ![editor.target].cron = editor.cron]
              ELSE row
    /\ editor' = Null
    /\ UNCHANGED <<poll, exec, faults>>

Edited(r, input) ==
    LET keep == [r EXCEPT !.cron = input.cron,
                          !.status = IF input.edit.status = "keep" THEN @
                                     ELSE input.edit.status]
    IN  IF input.edit.reset
        THEN [keep EXCEPT !.runIn = input.cron, !.attempts = 0,
                          !.lockAge = Null, !.lockedBy = Null]
        ELSE keep

\* INSERT ... ON CONFLICT (unique_key) DO UPDATE, whatever the row is by now.
UpsertInsert ==
    /\ editor # Null
    /\ editor.target = Null
    /\ \/ \E id \in Holding(editor.key) :
             row' = [row EXCEPT ![id] = Edited(@, editor)]
       \/ /\ Holding(editor.key) = {}
          /\ \E id \in Ids :
                /\ row[id] = Unused
                /\ row' = [row EXCEPT ![id] =
                       NewRow(editor.key, editor.cron,
                              IF editor.edit.status = "keep" THEN "pending"
                              ELSE editor.edit.status,
                              editor.cron)]
    /\ editor' = Null
    /\ UNCHANGED <<poll, exec, faults>>

-----------------------------------------------------------------------------
(* Claiming: runPoll, executePoll and claimDueJobs *)

\* One poll at a time per process: the timer finds activePoll set otherwise.
\* The order of candidates by run_at only matters beyond Batch rows: any
\* Batch of the due rows may be the oldest ones.
Poll(w) ==
    /\ poll[w].phase = Idle
    /\ \E todo \in SUBSET {id \in Ids : Due(id)} :
          /\ Cardinality(todo) = Smaller(Batch, Cardinality({id \in Ids : Due(id)}))
          /\ todo # {}
          /\ poll' = [poll EXCEPT ![w] = [phase |-> "claiming", todo |-> todo]]
    /\ UNCHANGED <<row, exec, editor, faults>>

\* Variant: the claiming UPDATE without its condition on the status.
ClaimableUnchecked(id) == Live(id)

\* UPDATE ... WHERE id = candidate AND status = 'pending' RETURNING.
Claimable(id) == Pending(id)

Claimed(r, c) ==
    [r EXCEPT !.status = "running", !.lockAge = 0, !.lockedBy = c,
              !.attempts = Smaller(@ + 1, AttemptsCap)]

\* The copy of the row that UPDATE ... RETURNING gives to the execution.
ExecutionOf(w, id, r) ==
    [worker |-> w, id |-> id, key |-> r.key, phase |-> "claimed",
     attempts |-> r.attempts, cron |-> r.cron, age |-> 0]

ClaimNext(w) ==
    \E id \in poll[w].todo :
        /\ poll' = [poll EXCEPT ![w].todo = @ \ {id}]
        /\ \/ ~Claimable(id) /\ UNCHANGED <<row, exec>>
           \/ /\ Claimable(id)
              /\ \E c \in Claims :
                    /\ ~Active(c)
                    /\ row' = [row EXCEPT ![id] = Claimed(row[id], c)]
                    /\ exec' = [exec EXCEPT ![c] = ExecutionOf(w, id, Claimed(row[id], c))]
        /\ UNCHANGED <<editor, faults>>

\* claimDueJobs returned: executeJob is called on all the jobs it claimed, and
\* executePoll waits for all of them.
StartExecuting(w) ==
    /\ poll[w].phase = "claiming"
    /\ poll[w].todo = {}
    /\ poll' = [poll EXCEPT ![w].phase = "executing"]
    /\ exec' = [c \in Claims |->
                 IF c \in OfWorker(w) /\ exec[c].phase = "claimed"
                 THEN [exec[c] EXCEPT !.phase = "started"] ELSE exec[c]]
    /\ UNCHANGED <<row, editor, faults>>

PollDone(w) ==
    /\ poll[w].phase = "executing"
    /\ OfWorker(w) = {}
    /\ poll' = [poll EXCEPT ![w].phase = Idle]
    /\ UNCHANGED <<row, exec, editor, faults>>

\* runReclaim: one UPDATE of every row whose lease has run out.
Expired(id) == Running(id) /\ row[id].lockAge = Lease

Reclaim ==
    /\ \E id \in Ids : Expired(id)
    /\ row' = [id \in Ids |->
                 IF Expired(id)
                 THEN [row[id] EXCEPT !.status = "pending", !.lockAge = Null,
                                      !.lockedBy = Null]
                 ELSE row[id]]
    /\ UNCHANGED <<poll, exec, editor, faults>>

-----------------------------------------------------------------------------
(* Executing a claimed job: executeJob, onJobSuccess and onJobFailure *)

InPhase(c, phases) == Active(c) /\ exec[c].phase \in phases

Enter(c, phase) ==
    /\ exec' = [exec EXCEPT ![c].phase = phase]
    /\ UNCHANGED <<row, poll, editor, faults>>

\* The row execution c claimed, whoever holds it now.
RowOf(c) == row[exec[c].id]

\* The last statement of execution c, WHERE id = job.id and nothing else.
Write(c, new) ==
    /\ row' = IF Live(exec[c].id) THEN [row EXCEPT ![exec[c].id] = new] ELSE row
    /\ exec' = [exec EXCEPT ![c] = Null]
    /\ UNCHANGED <<poll, editor, faults>>

\* Variant: the finished run is recorded under a status the table does not have.
RescheduledAsDone(r, delay) == [r EXCEPT !.status = "done", !.runIn = delay]

Rescheduled(r, delay) ==
    [r EXCEPT !.status = "pending", !.runIn = delay, !.attempts = 0,
              !.lockAge = Null, !.lockedBy = Null]

\* markJobFailed with a next run, and without one.
Retried(r, delay) ==
    [r EXCEPT !.status = "pending", !.runIn = delay,
              !.lockAge = Null, !.lockedBy = Null]

MarkedFailed(r) ==
    [r EXCEPT !.status = "failed", !.lockAge = Null, !.lockedBy = Null]

HasHandler(c) == exec[c].key \in Handles[exec[c].worker]
AttemptsLeft(c) == exec[c].attempts < MaxAttempts

\* No handler under this name in this process: retry later, or drop the job.
NoHandler(c) ==
    /\ InPhase(c, {"started"})
    /\ ~HasHandler(c)
    /\ Write(c, IF AttemptsLeft(c) THEN Retried(RowOf(c), 1) ELSE MarkedFailed(RowOf(c)))

\* resolveProjectId, the billing check, then the handler itself; a project
\* without billing access counts as a success without calling the handler.
CallHandler(c)    == InPhase(c, {"started"}) /\ HasHandler(c) /\ Enter(c, "handling")
SkipRestricted(c) == InPhase(c, {"started"}) /\ HasHandler(c) /\ Enter(c, "succeeded")
HandlerReturns(c) == InPhase(c, {"handling"}) /\ Enter(c, "succeeded")

\* The resolver or the handler throws.
HandlerThrows(c) ==
    /\ InPhase(c, {"started", "handling"})
    /\ HasHandler(c)
    /\ Enter(c, "failed")

\* Both completions read the definition again before the statement that
\* writes; a row that is gone leaves the copy taken by the claim.  That a cron
\* has no next tick, in which case both fail the job, is left out: whatever
\* writes a cron (ensureRecurring, and the routes of stories and automations)
\* refuses one without a next tick.
Decide(c, withCron, withoutCron) ==
    LET cron == IF Live(exec[c].id) THEN RowOf(c).cron ELSE exec[c].cron
    IN  /\ exec' = [exec EXCEPT ![c].cron = cron,
                      ![c].phase = IF cron = NoCron THEN withoutCron ELSE withCron]
        /\ UNCHANGED <<row, poll, editor, faults>>

OnJobSuccess(c) == InPhase(c, {"succeeded"}) /\ Decide(c, "reschedule", "delete")

\* Variant: a job out of attempts is given up without looking at its cron.
OnJobFailureIgnoringCron(c) ==
    /\ InPhase(c, {"failed"})
    /\ Enter(c, IF AttemptsLeft(c) THEN "retry" ELSE "giveUp")

\* Variant: a failed job is retried whatever its number of attempts.
OnJobFailureWithoutBudget(c) == InPhase(c, {"failed"}) /\ Enter(c, "retry")

OnJobFailure(c) ==
    /\ InPhase(c, {"failed"})
    /\ IF AttemptsLeft(c) THEN Enter(c, "retry")
       ELSE Decide(c, "rescheduleFailed", "giveUp")

RescheduleJob(c) ==
    /\ InPhase(c, {"reschedule", "rescheduleFailed"})
    /\ Write(c, Rescheduled(RowOf(c), exec[c].cron))

DeleteFinished(c) == InPhase(c, {"delete"}) /\ Write(c, Gone)

MarkJobFailed(c) ==
    \/ InPhase(c, {"giveUp"}) /\ Write(c, MarkedFailed(RowOf(c)))
    \/ InPhase(c, {"retry"})  /\ Write(c, Retried(RowOf(c), Backoff))

-----------------------------------------------------------------------------
(* Time and faults *)

\* Without SlowHandlers every handler, and the statement that records its
\* outcome, ends before the lease of its claim does.
Tick ==
    /\ SlowHandlers \/ \A c \in Claims : Active(c) => exec[c].age + 1 < Lease
    /\ row' = [id \in Ids |->
                 IF ~Live(id) THEN row[id]
                 ELSE [row[id] EXCEPT
                         !.runIn = IF @ = 0 THEN 0 ELSE @ - 1,
                         !.lockAge = IF @ = Null THEN Null ELSE Smaller(@ + 1, Lease)]]
    /\ exec' = [c \in Claims |->
                 IF Active(c) THEN [exec[c] EXCEPT !.age = Smaller(@ + 1, Lease)]
                 ELSE Null]
    /\ UNCHANGED <<poll, editor, faults>>

Fault == faults < MaxFaults /\ faults' = faults + 1

\* The process dies and is started again: all it held in memory is lost.
Crash(w) ==
    /\ Fault
    /\ poll[w].phase # Idle \/ OfWorker(w) # {}
    /\ exec' = [c \in Claims |-> IF c \in OfWorker(w) THEN Null ELSE exec[c]]
    /\ poll' = [poll EXCEPT ![w] = [phase |-> Idle, todo |-> {}]]
    /\ UNCHANGED <<row, editor>>

\* A statement of claimDueJobs throws: executePoll only logs it, and the rows
\* already claimed stay running with nobody executing them.
ClaimFails(w) ==
    /\ Fault
    /\ poll[w].phase = "claiming"
    /\ poll[w].todo # {}
    /\ exec' = [c \in Claims |-> IF c \in OfWorker(w) /\ exec[c].phase = "claimed"
                                 THEN Null ELSE exec[c]]
    /\ poll' = [poll EXCEPT ![w] = [phase |-> Idle, todo |-> {}]]
    /\ UNCHANGED <<row, editor>>

\* A completion statement throws inside the try of executeJob: the catch
\* takes it for a failure of the handler.
SuccessWriteFails(c) ==
    /\ Fault
    /\ InPhase(c, {"succeeded", "delete", "reschedule"})
    /\ exec' = [exec EXCEPT ![c].phase = "failed"]
    /\ UNCHANGED <<row, poll, editor>>

\* It throws outside the try: the rejection ends the poll (Promise.all) while
\* the other jobs of the poll go on.
FailureWriteFails(c) ==
    /\ Fault
    /\ \/ InPhase(c, {"failed", "rescheduleFailed", "giveUp", "retry"})
       \/ InPhase(c, {"started"}) /\ ~HasHandler(c)
    /\ exec' = [exec EXCEPT ![c] = Null]
    /\ poll' = [poll EXCEPT ![exec[c].worker] =
                  IF @.phase = "executing" THEN [@ EXCEPT !.phase = Idle] ELSE @]
    /\ UNCHANGED <<row, editor>>

-----------------------------------------------------------------------------
Caller ==
    \/ \E key \in OnceKeys : EnqueueOnce(key)
    \/ \E id \in Ids : DeleteJob(id)
    \/ \E key \in CronKeys, cron \in Crons, edit \in Edits : UpsertSelect(key, cron, edit)
    \/ UpsertRefresh
    \/ UpsertInsert

Claiming(w) == Poll(w) \/ ClaimNext(w) \/ StartExecuting(w) \/ PollDone(w)

Executing(c) ==
    \/ NoHandler(c) \/ CallHandler(c) \/ SkipRestricted(c)
    \/ HandlerReturns(c) \/ HandlerThrows(c)
    \/ OnJobSuccess(c) \/ OnJobFailure(c)
    \/ RescheduleJob(c) \/ DeleteFinished(c) \/ MarkJobFailed(c)

Faulty ==
    \/ \E w \in Workers : Crash(w) \/ ClaimFails(w)
    \/ \E c \in Claims : SuccessWriteFails(c) \/ FailureWriteFails(c)

Next ==
    \/ Caller
    \/ \E w \in Workers : Claiming(w)
    \/ \E c \in Claims : Executing(c)
    \/ Reclaim
    \/ Tick
    \/ Faulty

Spec == Init /\ [][Next]_vars

\* The timers of every process keep firing, handlers and statements end, and
\* time passes.  Callers and faults are not obliged to happen.
Fairness ==
    /\ \A w \in Workers : WF_vars(Claiming(w))
    /\ \A c \in Claims : WF_vars(Executing(c))
    /\ WF_vars(Reclaim)
    /\ WF_vars(Tick)
    /\ WF_vars(UpsertRefresh \/ UpsertInsert)

FairSpec == Spec /\ Fairness

-----------------------------------------------------------------------------
(* Properties *)

\* No two executions of one job at a time: the claim of claimDueJobs is
\* exclusive as long as no handler outlives its lease.
MutualExclusion ==
    \A c, d \in Claims :
        Active(c) /\ Active(d) /\ exec[c].id = exec[d].id => c = d

\* While no process crashed and no statement failed, a job is never claimed
\* more often than max_attempts between two resets of its counter: the counts
\* of onJobFailure and of the retry without a handler agree on the budget.
RetryBudget ==
    faults = 0 => \A id \in LiveIds : row[id].attempts <= MaxAttempts

\* A recurring job that every process has a handler for never ends as failed,
\* however often it fails: onJobFailure falls back to its next cron tick.
RecurringNeverDropped ==
    \A id \in LiveIds :
        /\ row[id].key \in CronKeys
        /\ \A w \in Workers : row[id].key \in Handles[w]
        => row[id].status # "failed"

\* A job left running by a worker that no longer executes it does not stay so:
\* reclaimStaleJobs gives it back.
Orphaned(id) == Running(id) /\ \A c \in Claims : Active(c) => exec[c].id # id
OrphansReclaimed == \A id \in Ids : Orphaned(id) ~> ~Orphaned(id)

\* A one-off job ends: its row is deleted after a success or marked failed,
\* whatever crashed on the way.
Ended(id) == row[id] = Gone \/ (Live(id) /\ row[id].status = "failed")
OneOffJobsEnd ==
    \A id \in Ids : (Live(id) /\ row[id].key \in OnceKeys) ~> Ended(id)

\* No job is stuck: what a dead worker left is picked up, and one-off jobs end.
JobsGoOn == OrphansReclaimed /\ OneOffJobsEnd

-----------------------------------------------------------------------------
(* What the repository says, and the code does not keep *)

\* claimDueJobs claims due jobs: no row starts running before its run_at.
ClaimsOnlyDueJobs ==
    [][\A id \in Ids : ~Running(id) /\ Running(id)' => Due(id)]_vars

\* The next run reflects the definition the row has when it is rescheduled.
NextRunReflectsDefinition ==
    [][\A c \in Claims : RescheduleJob(c) /\ Live(exec[c].id)
                            => exec[c].cron = RowOf(c).cron]_vars
=============================================================================
