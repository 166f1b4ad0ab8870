------------------------- MODULE WarehouseProvisioning -------------------------
(***************************************************************************)
(* The setup of a warehouse during onboarding                              *)
(* (services/warehouse-provisioning.ts): a job row that records how far a  *)
(* setup has come, the workers that drive it under a lease, the reconciler *)
(* that takes over what a dead worker left, and the user who cancels,      *)
(* retries and gives business context meanwhile.                           *)
(*                                                                         *)
(* A setup creates things outside its job row (a project, a repository on  *)
(* GitHub): what has to be right is that a setup which stops takes them    *)
(* away again and a setup which is ready keeps them.                       *)
(*                                                                         *)
(* One user and one project name.  A lease is fresh or stale; heartbeats   *)
(* keep it fresh as long as their process runs.                            *)
(***************************************************************************)
EXTENDS Naturals, FiniteSets

CONSTANTS
    Jobs,         \* job ids, each given to one setup
    Projects,     \* project ids (uuids), each given to one project
    Workers,      \* backend processes (WORKER_ID)
    Runs,         \* names for driving a job; bounds how many do at a time
    MaxAttempts,  \* MAX_JOB_ATTEMPTS
    Faults,       \* the kinds of faults that happen
    Scopes,       \* bounds on the setups, workers and faults of one behaviour
    Stalling,     \* bound on the phases in which a worker stalls
    Null

\* A worker dies; a statement throws; the readiness check throws; a deletion throws
\* while a project is taken away; a worker stalls past its lease and goes on.
FaultKinds == {"crash", "statement", "readiness", "cleanup", "stall"}

Provisioning == {"queued", "initializing", "debugging", "syncing", "registering"}
Finalization == {"finalizing", "publishing"}
Stopped      == {"failed", "cancelled"}
Finished     == Stopped \union {"ready"}
Statuses     == Provisioning \union {"awaiting_context"} \union Finalization \union Finished

Job == [status : Statuses, failedStatus : Statuses \union {Null},
        project : Projects \union {Null}, context : BOOLEAN, credentials : BOOLEAN,
        lockedBy : Workers \union {Null}, stale : BOOLEAN, attempts : 0..MaxAttempts]

\* The awaits of a run, named by what it does next.
Driving   == {"naming", "initializing", "debugging", "syncing", "registering", "record",
              "secrets", "undo", "requeue", "toFinalizing", "resume", "finalize",
              "rules", "publishing", "published", "readiness", "rollback", "fail",
              "release"}
Phases    == Driving \union {"claim", "maybe", "claimFinal", "exhausted", "giveUp",
                             "claimCleanup", "cleanup", "clearLock"}

Run == [worker : Workers, job : Jobs, phase : Phases, project : Projects \union {Null},
        pushed : BOOLEAN, cause : {"none", "cancelled", "error"},
        then : {"maybe", "end"}]

ASSUME ProvisioningAssumption ==
    /\ MaxAttempts \in Nat \ {0}
    /\ Faults \subseteq FaultKinds
    /\ Stalling \subseteq Driving
    /\ Scopes \subseteq [jobs : SUBSET Jobs, workers : SUBSET Workers, faults : Nat, kinds : SUBSET Faults]
    /\ Null \notin Workers \union Projects \union Statuses \union Job \union Run
    /\ {"fresh", "deleted"} \intersect Jobs = {}

VARIABLES
    job,      \* warehouse_provisioning_job: id -> row, or Null
    project,  \* project id -> "fresh", "deleted", or the job it exists for
    repo,     \* projects that have a repository in the GitHub organization
    run,      \* the runs in memory
    scope,    \* the setups, workers and faults (how many, of which kinds) there are
    faults,   \* the kinds of faults there were (history)
    overtaken, \* setups that were worked on while they were given up (history)
    left      \* projects whose deletion failed (history)

past == <<faults, overtaken, left>>
vars == <<job, project, repo, run, scope, faults, overtaken, left>>

TypeOK ==
    /\ job \in [Jobs -> Job \union {Null}]
    /\ project \in [Projects -> Jobs \union {"fresh", "deleted"}]
    /\ repo \subseteq Projects
    /\ run \in [Runs -> Run \union {Null}]
    /\ scope \in [jobs : SUBSET Jobs, workers : SUBSET Workers, faults : Nat, kinds : SUBSET Faults]
    /\ faults \subseteq Faults /\ overtaken \subseteq Jobs /\ left \subseteq Projects

Init ==
    /\ job = [j \in Jobs |-> Null]
    /\ project = [p \in Projects |-> "fresh"]
    /\ repo = {}
    /\ run = [r \in Runs |-> Null]
    /\ scope \in Scopes
    /\ faults = {} /\ overtaken = {} /\ left = {}

Exists(p)  == project[p] \in Jobs
Active(j)  == job[j] # Null /\ job[j].status \notin Finished
Free(j)    == job[j].lockedBy = Null \/ job[j].stale
Busy(r)    == run[r] # Null
At(r, phases) == Busy(r) /\ run[r].phase \in phases
JobOf(r)   == job[run[r].job]
Had(kind)  == kind \in faults
Fault(kind) == /\ kind \in scope.kinds
               /\ scope.faults > 0
               /\ scope' = [scope EXCEPT !.faults = @ - 1]
               /\ faults' = faults \union {kind}
               /\ UNCHANGED overtaken

-----------------------------------------------------------------------------
(* Runs *)

NewRun(w, j, phase) ==
    [worker |-> w, job |-> j, phase |-> phase, project |-> Null, pushed |-> FALSE,
     cause |-> "none", then |-> "end"]

\* The names of runs, and project ids, are interchangeable: the next one is drawn
\* in a fixed order.
Launch(new) ==
    LET idle == {r \in Runs : ~Busy(r)}
    IN  /\ idle # {}
        /\ run' = [run EXCEPT ![CHOOSE r \in idle : TRUE] = new]

Begin(w, j, phase) == Launch(NewRun(w, j, phase))

Go(r, phase)  == run' = [run EXCEPT ![r].phase = phase]
End(r)        == run' = [run EXCEPT ![r] = Null]
Throw(r, why) == run' = [run EXCEPT ![r].phase = "rollback", ![r].cause = why]

\* Variant: a cancelled job is updated like any other.
UpdatableAlways(j) == TRUE

\* updateWarehouseProvisioningJob: any job but a cancelled one, whoever holds it.
Updatable(j) == job[j].status # "cancelled"

\* updateJob: throws WarehouseSetupCancelledError when the job was cancelled.
Update(r, new, phase) ==
    IF Updatable(run[r].job)
    THEN /\ job' = [job EXCEPT ![run[r].job] = new]
         /\ Go(r, phase)
    ELSE /\ Throw(r, "cancelled")
         /\ UNCHANGED job

WithStatus(r, status) == [JobOf(r) EXCEPT !.status = status]

Claimed(j, w) ==
    [job[j] EXCEPT !.lockedBy = w, !.stale = FALSE,
                   !.attempts = IF @ < MaxAttempts THEN @ + 1 ELSE @]

Unlocked(j) == [job[j] EXCEPT !.lockedBy = Null, !.stale = FALSE]

\* Whoever drives or cleans up a setup has claimed it; a setup that is out of attempts
\* is given up without a claim.
Works(r, j)   == At(r, Driving \union {"cleanup", "clearLock"}) /\ run[r].job = j
GivesUp(r, j) == At(r, {"exhausted", "giveUp"}) /\ run[r].job = j

Overtakes(j, others(_, _)) ==
    overtaken' = IF \E r \in Runs : others(r, j) THEN overtaken \union {j} ELSE overtaken

\* Variant: the claim ignores the lease.
ClaimableWhenever(j, statuses) == job[j] # Null /\ job[j].status \in statuses

\* claimWarehouseProvisioningJob
Claimable(j, statuses) == job[j] # Null /\ job[j].status \in statuses /\ Free(j)

-----------------------------------------------------------------------------
(* The user: starting, retrying, giving context, cancelling *)

\* hasConnectedProject: projects of stopped setups do not count.
StoppedProjects == {job[j].project : j \in {i \in Jobs : job[i] # Null /\ job[i].status \in Stopped}}
Connected       == \E p \in Projects : Exists(p) /\ p \notin StoppedProjects

NewJob(context) ==
    [status |-> "queued", failedStatus |-> Null, project |-> Null, context |-> context,
     credentials |-> TRUE, lockedBy |-> Null, stale |-> FALSE, attempts |-> 0]

\* crypto.randomUUID: names are interchangeable, the next one is drawn in a fixed order.
NewId(j) ==
    LET free == {i \in scope.jobs : job[i] = Null}
    IN  free # {} /\ j = CHOOSE i \in free : TRUE

\* startWarehouseProvisioning.  One active setup per user: the check for one and the
\* insert are one step, for a unique index refuses what comes between them.
Start(w, j) ==
    /\ NewId(j)
    /\ ~\E i \in Jobs : Active(i)
    /\ ~Connected
    /\ job' = [job EXCEPT ![j] = NewJob(FALSE)]
    /\ Begin(w, j, "claim")
    /\ UNCHANGED <<project, repo, scope, past>>

\* retryWarehouseProvisioning, with the credentials and context of setup i, which loses
\* its credentials in the same step (in the code, in the next statement).
Retry(w, i, j) ==
    /\ job[i] # Null /\ NewId(j)
    /\ job[i].status \in Stopped /\ job[i].credentials
    /\ ~\E k \in Jobs : Active(k)
    /\ ~Connected
    /\ job' = [job EXCEPT ![j] = NewJob(job[i].context), ![i].credentials = FALSE]
    /\ Begin(w, j, "claim")
    /\ UNCHANGED <<project, repo, scope, past>>

\* submitWarehouseBusinessContext, for the latest setup of a chat: every setup is
\* in a chat of its own unless it retries another.
Submit(w, j) ==
    /\ job[j] # Null
    /\ ~job[j].context
    /\ job[j].status = "failed" => job[j].credentials
    /\ job[j].status \notin Finalization \union {"ready"}
    /\ Updatable(j)
    /\ job' = [job EXCEPT ![j].context = TRUE]
    /\ IF job[j].status \in Stopped THEN UNCHANGED run ELSE Begin(w, j, "maybe")
    /\ UNCHANGED <<project, repo, scope, past>>

\* cancelWarehouseProvisioning: a setup under a live lease is left to its
\* worker, any other is cleaned up here.
Cancel(w, j) ==
    /\ Active(j)
    /\ job' = [job EXCEPT ![j].status = "cancelled", ![j].failedStatus = job[j].status,
                          ![j].credentials = FALSE]
    /\ IF Free(j) THEN Begin(w, j, "claimCleanup") ELSE UNCHANGED run
    /\ UNCHANGED <<project, repo, scope, past>>

-----------------------------------------------------------------------------
(* runProvisioningJob and provisionWarehouse *)

ClaimQueued(r) ==
    /\ At(r, {"claim"})
    /\ IF Claimable(run[r].job, Provisioning)
       THEN /\ job' = [job EXCEPT ![run[r].job] = Claimed(run[r].job, run[r].worker)]
            /\ run' = [run EXCEPT ![r].phase = "naming", ![r].then = "maybe"]
            /\ Overtakes(run[r].job, GivesUp)
       ELSE End(r) /\ UNCHANGED <<job, overtaken>>
    /\ UNCHANGED <<project, repo, scope, faults, left>>

\* getProjectByOrgAndName
CheckName(r) ==
    /\ At(r, {"naming"})
    /\ IF \E p \in Projects : Exists(p)
       THEN Throw(r, "error") /\ UNCHANGED job
       ELSE Update(r, WithStatus(r, "initializing"), "initializing")
    /\ UNCHANGED <<project, repo, scope, past>>

\* nao init and nao debug end, and the next command is announced.
Advance(r) ==
    /\ \/ At(r, {"initializing"}) /\ Update(r, WithStatus(r, "debugging"), "debugging")
       \/ At(r, {"debugging"}) /\ Update(r, WithStatus(r, "syncing"), "syncing")
    /\ UNCHANGED <<project, repo, scope, past>>

\* crypto.randomUUID: an id no other run has drawn.
Unused      == {p \in Projects : /\ project[p] = "fresh"
                                 /\ ~\E s \in Runs : Busy(s) /\ run[s].project = p}
NextProject == CHOOSE p \in Unused : TRUE

\* nao sync ended: from here on an error rolls back the project of this id.
Synced(r) ==
    /\ At(r, {"syncing"})
    /\ Unused # {}
    /\ IF Updatable(run[r].job)
       THEN /\ job' = [job EXCEPT ![run[r].job].status = "registering"]
            /\ run' = [run EXCEPT ![r].phase = "registering", ![r].project = NextProject]
       ELSE /\ run' = [run EXCEPT ![r].phase = "rollback", ![r].cause = "cancelled",
                                  ![r].project = NextProject]
            /\ UNCHANGED job
    /\ UNCHANGED <<project, repo, scope, past>>

\* createNewProject
Register(r) ==
    /\ At(r, {"registering"})
    /\ project' = [project EXCEPT ![run[r].project] = run[r].job]
    /\ Go(r, "record")
    /\ UNCHANGED <<job, repo, scope, past>>

RecordProject(r) ==
    /\ At(r, {"record"})
    /\ Update(r, [JobOf(r) EXCEPT !.project = run[r].project], "secrets")
    /\ UNCHANGED <<project, repo, scope, past>>

\* The job waits for context, and a later failure has its own retry budget.
AwaitContext(r) ==
    /\ At(r, {"secrets"})
    /\ Update(r, [JobOf(r) EXCEPT !.status = "awaiting_context", !.attempts = 0], "release")
    /\ UNCHANGED <<project, repo, scope, past>>

\* A command fails or times out; an external call of a later step throws; the job is
\* found cancelled by the check of a command, or by the update that notes the temporary
\* directory before anything else.
StepFails(r) ==
    /\ \/ At(r, {"naming", "initializing", "debugging", "syncing", "registering",
                 "secrets", "rules", "publishing"})
          /\ Throw(r, "error")
       \/ At(r, {"naming", "initializing", "debugging", "syncing"})
          /\ JobOf(r).status = "cancelled"
          /\ Throw(r, "cancelled")
    /\ UNCHANGED <<job, project, repo, scope, past>>

-----------------------------------------------------------------------------
(* maybeStartFinalization and finalizeWarehouseProvisioning *)

Maybe(r) ==
    /\ At(r, {"maybe"})
    /\ IF JobOf(r).status # "awaiting_context" \/ JobOf(r).project = Null \/ ~JobOf(r).context
       THEN End(r) /\ UNCHANGED overtaken
       ELSE IF JobOf(r).attempts >= MaxAttempts
       THEN /\ run' = [run EXCEPT ![r].phase = "exhausted", ![r].project = JobOf(r).project]
            /\ Overtakes(run[r].job, Works)
       ELSE Go(r, "claimFinal") /\ UNCHANGED overtaken
    /\ UNCHANGED <<job, project, repo, scope, faults, left>>

ClaimFinal(r) ==
    /\ At(r, {"claimFinal"})
    /\ IF Claimable(run[r].job, {"awaiting_context"})
       THEN /\ job' = [job EXCEPT ![run[r].job] = Claimed(run[r].job, run[r].worker)]
            /\ run' = [run EXCEPT ![r].phase = "toFinalizing", ![r].then = "end"]
            /\ Overtakes(run[r].job, GivesUp)
       ELSE End(r) /\ UNCHANGED <<job, overtaken>>
    /\ UNCHANGED <<project, repo, scope, faults, left>>

\* The first update under the lock, here and in recoverFinalizationJob; when it
\* throws the lock is released and nothing else is done.
ToFinalizing(r) ==
    /\ At(r, {"toFinalizing", "resume"})
    /\ IF Updatable(run[r].job)
       THEN /\ job' = [job EXCEPT ![run[r].job].status = "finalizing"]
            /\ Go(r, "finalize")
       ELSE Go(r, "release") /\ UNCHANGED job
    /\ UNCHANGED <<project, repo, scope, past>>

\* finalizeWarehouseProvisioning looks at the job it is given.
Finalize(r) ==
    /\ At(r, {"finalize"})
    /\ IF JobOf(r).status # "finalizing" \/ JobOf(r).project = Null
       THEN Go(r, "release")
       ELSE run' = [run EXCEPT ![r].phase = "rules", ![r].project = JobOf(r).project]
    /\ UNCHANGED <<job, project, repo, scope, past>>

\* generateOnboardingRules ended.
Rules(r) ==
    /\ At(r, {"rules"})
    /\ Update(r, WithStatus(r, "publishing"), "publishing")
    /\ UNCHANGED <<project, repo, scope, past>>

\* provisionManagedGithubRepository: creates the repository or takes it over.
Publish(r) ==
    /\ At(r, {"publishing"})
    /\ repo' = repo \union {run[r].project}
    /\ run' = [run EXCEPT ![r].phase = "published", ![r].pushed = TRUE]
    /\ UNCHANGED <<job, project, scope, past>>

Ready(r) ==
    /\ At(r, {"published"})
    /\ Update(r, [JobOf(r) EXCEPT !.status = "ready", !.credentials = FALSE], "readiness")
    /\ UNCHANGED <<project, repo, scope, past>>

\* reconcileProjectReadiness
Readiness(r) ==
    /\ At(r, {"readiness"})
    /\ \/ Go(r, "release") /\ UNCHANGED <<scope, past>>
       \/ Throw(r, "error") /\ Fault("readiness") /\ UNCHANGED left
    /\ UNCHANGED <<job, project, repo>>

-----------------------------------------------------------------------------
(* Undoing: rollbackRegisteredProject, failJob, the lock *)

\* Deleting a project sets project_id to NULL in the jobs that refer to it.
Deleted(p) ==
    /\ project' = IF p = Null THEN project
                  ELSE [project EXCEPT ![p] = IF @ \in Jobs THEN "deleted" ELSE @]
    /\ job' = [j \in Jobs |-> IF p # Null /\ job[j] # Null /\ job[j].project = p
                              THEN [job[j] EXCEPT !.project = Null] ELSE job[j]]

\* rollbackRegisteredProject deletes the repository, if one is named, and the project.
\* What throws is logged: the caller goes on as if both were gone.
TakeAway(p, repository) ==
    \/ /\ repo' = IF repository THEN repo \ {p} ELSE repo
       /\ Deleted(p)
       /\ UNCHANGED <<scope, past>>
    \/ /\ p # Null /\ Fault("cleanup")
       /\ \/ repository /\ Deleted(p) /\ UNCHANGED <<repo, left>>
          \/ /\ repo' \in {repo, IF repository THEN repo \ {p} ELSE repo}
             /\ left' = IF Exists(p) THEN left \union {p} ELSE left
             /\ UNCHANGED <<job, project>>

\* Variant: the project is kept.
RollBackNothing(r) ==
    /\ At(r, {"rollback"})
    /\ Go(r, IF run[r].cause = "cancelled" THEN "release" ELSE "fail")
    /\ UNCHANGED <<job, project, repo, scope, past>>

RollBack(r) ==
    /\ At(r, {"rollback"})
    /\ TakeAway(run[r].project, run[r].pushed)
    /\ Go(r, IF run[r].cause = "cancelled" THEN "release" ELSE "fail")

Failed(j) == [job[j] EXCEPT !.status = "failed", !.failedStatus = job[j].status]

\* failJob: throws for a cancelled job, which ends the run under its lease.
Fail(r) ==
    /\ At(r, {"fail"})
    /\ job' = IF Updatable(run[r].job) THEN [job EXCEPT ![run[r].job] = Failed(run[r].job)]
              ELSE job
    /\ Go(r, "release")
    /\ UNCHANGED <<project, repo, scope, past>>

\* The end of withJobLease; runs that provisioned go on to maybeStartFinalization.
ReleaseLock(r) ==
    /\ At(r, {"release"})
    /\ job' = IF JobOf(r).lockedBy = run[r].worker
              THEN [job EXCEPT ![run[r].job] = Unlocked(run[r].job)] ELSE job
    /\ IF run[r].then = "maybe" THEN Go(r, "maybe") ELSE End(r)
    /\ UNCHANGED <<project, repo, scope, past>>

-----------------------------------------------------------------------------
(* reconcileWarehouseProvisioningJobs: a setup is listed and claimed in one step, since   *)
(* the claim looks again at the status and the lease.                                     *)

\* recoverProvisioningJob: take the job over, undo what it recorded, start again.
RecoverProvisioning(w, j) ==
    /\ Claimable(j, Provisioning)
    /\ job[j].attempts < MaxAttempts
    /\ Launch([NewRun(w, j, "undo") EXCEPT !.project = job[j].project, !.then = "maybe"])
    /\ job' = [job EXCEPT ![j] = Claimed(j, w)]
    /\ Overtakes(j, GivesUp)
    /\ UNCHANGED <<project, repo, scope, faults, left>>

Undo(r) ==
    /\ At(r, {"undo"})
    /\ TakeAway(run[r].project, FALSE)
    /\ run' = [run EXCEPT ![r].phase = "requeue", ![r].project = Null]

Requeue(r) ==
    /\ At(r, {"requeue"})
    /\ IF Updatable(run[r].job)
       THEN /\ job' = [job EXCEPT ![run[r].job].status = "queued", ![run[r].job].project = Null]
            /\ Go(r, "naming")
       ELSE Go(r, "release") /\ UNCHANGED job
    /\ UNCHANGED <<project, repo, scope, past>>

\* Variant: only setups somebody held are recovered.
RecoverAwaitingLocked(w, j) ==
    /\ Claimable(j, {"awaiting_context"}) /\ job[j].lockedBy # Null
    /\ Begin(w, j, "maybe")
    /\ UNCHANGED <<job, project, repo, scope, past>>

RecoverAwaiting(w, j) ==
    /\ Claimable(j, {"awaiting_context"})
    /\ Begin(w, j, "maybe")
    /\ UNCHANGED <<job, project, repo, scope, past>>

RecoverFinalization(w, j) ==
    /\ Claimable(j, Finalization)
    /\ job[j].attempts < MaxAttempts
    /\ Begin(w, j, "resume")
    /\ job' = [job EXCEPT ![j] = Claimed(j, w)]
    /\ Overtakes(j, GivesUp)
    /\ UNCHANGED <<project, repo, scope, faults, left>>

\* failExhaustedJob works from the row that was listed, without claiming it.
RecoverExhausted(w, j) ==
    /\ Claimable(j, Provisioning \union Finalization)
    /\ job[j].attempts >= MaxAttempts
    /\ Launch([NewRun(w, j, "exhausted") EXCEPT
                  !.project = job[j].project, !.pushed = job[j].status = "publishing"])
    /\ UNCHANGED <<job, project, repo, scope, past>>

RecoverCancelled(w, j) ==
    /\ job[j] # Null
    /\ job[j].status = "cancelled"
    /\ job[j].lockedBy # Null /\ job[j].stale
    /\ Begin(w, j, "claimCleanup")
    /\ UNCHANGED <<job, project, repo, scope, past>>

\* clearFinishedWarehouseProvisioningCredentials, an hour after the failure.
ForgetCredentials(j) ==
    /\ job[j] # Null
    /\ job[j].status = "failed" /\ job[j].credentials
    /\ job' = [job EXCEPT ![j].credentials = FALSE]
    /\ UNCHANGED <<project, repo, run, scope, past>>

\* cleanUpCancelledJob
ClaimCleanup(r) ==
    /\ At(r, {"claimCleanup"})
    /\ IF Claimable(run[r].job, {"cancelled"})
       THEN /\ job' = [job EXCEPT ![run[r].job] = Claimed(run[r].job, run[r].worker)]
            /\ run' = [run EXCEPT ![r].phase = "cleanup", ![r].project = JobOf(r).project,
                                  ![r].pushed = JobOf(r).failedStatus = "publishing"]
            /\ Overtakes(run[r].job, GivesUp)
       ELSE End(r) /\ UNCHANGED <<job, overtaken>>
    /\ UNCHANGED <<project, repo, scope, faults, left>>

\* cleanUpStoppedJob, for a cancelled and for an exhausted job.
CleanUpStopped(r) ==
    /\ At(r, {"cleanup", "exhausted"})
    /\ TakeAway(run[r].project, run[r].pushed /\ run[r].project # Null)
    /\ Go(r, IF run[r].phase = "cleanup" THEN "clearLock" ELSE "giveUp")

ClearLock(r) ==
    /\ At(r, {"clearLock"})
    /\ job' = [job EXCEPT ![run[r].job] = Unlocked(run[r].job)]
    /\ End(r)
    /\ UNCHANGED <<project, repo, scope, past>>

\* failJob with lockedBy null.
GiveUp(r) ==
    /\ At(r, {"giveUp"})
    /\ job' = IF Updatable(run[r].job)
              THEN [job EXCEPT ![run[r].job] =
                      [Failed(run[r].job) EXCEPT !.lockedBy = Null, !.stale = FALSE]]
              ELSE job
    /\ End(r)
    /\ UNCHANGED <<project, repo, scope, past>>

-----------------------------------------------------------------------------
(* Leases and faults *)

Drives(r, j) == Busy(r) /\ run[r].job = j /\ run[r].worker = job[j].lockedBy

\* Five minutes without a heartbeat: nobody of that process drives the job, or it
\* stalls.
LeaseEnds(j) ==
    /\ job[j] # Null
    /\ job[j].lockedBy # Null /\ ~job[j].stale
    /\ \/ ~(\E r \in Runs : Drives(r, j)) /\ UNCHANGED <<scope, past>>
       \/ (\E r \in Runs : Drives(r, j) /\ At(r, Stalling)) /\ Fault("stall") /\ UNCHANGED left
    /\ job' = [job EXCEPT ![j].stale = TRUE]
    /\ UNCHANGED <<project, repo, run>>

Heartbeat(r) ==
    /\ At(r, Driving)
    /\ JobOf(r).lockedBy = run[r].worker /\ JobOf(r).stale
    /\ job' = [job EXCEPT ![run[r].job].stale = FALSE]
    /\ UNCHANGED <<project, repo, run, scope, past>>

Crash(w) ==
    /\ Fault("crash")
    /\ \E r \in Runs : Busy(r) /\ run[r].worker = w
    /\ run' = [r \in Runs |-> IF Busy(r) /\ run[r].worker = w THEN Null ELSE run[r]]
    /\ UNCHANGED <<job, project, repo, left>>

\* A statement throws: in the try of provision or finalize it is rolled back.
\* recoverProvisioningJob catches what throws before it starts again and what failJob
\* throws, and calls failJob (once more).
StatementFails(r) ==
    /\ Fault("statement")
    /\ \/ At(r, {"naming", "initializing", "debugging", "syncing", "record", "secrets",
                 "rules", "published"})
          /\ Throw(r, "error")
       \/ At(r, {"undo", "requeue"}) /\ Go(r, "fail")
       \/ At(r, {"fail"}) /\ UNCHANGED run
       \/ At(r, {"toFinalizing", "resume", "fail"}) /\ Go(r, "release")
       \/ At(r, {"claim", "maybe", "claimFinal", "claimCleanup", "release", "clearLock",
                 "giveUp"})
          /\ End(r)
    /\ UNCHANGED <<job, project, repo, left>>

-----------------------------------------------------------------------------
User ==
    \/ \E w \in scope.workers, j \in Jobs : Start(w, j) \/ Submit(w, j) \/ Cancel(w, j)
    \/ \E w \in scope.workers, i, j \in Jobs : Retry(w, i, j)

Step(r) ==
    \/ ClaimQueued(r) \/ CheckName(r) \/ Advance(r) \/ Synced(r) \/ Register(r)
    \/ RecordProject(r) \/ AwaitContext(r) \/ StepFails(r)
    \/ Maybe(r) \/ ClaimFinal(r) \/ ToFinalizing(r) \/ Finalize(r) \/ Rules(r)
    \/ Publish(r) \/ Ready(r) \/ Readiness(r)
    \/ RollBack(r) \/ Fail(r) \/ ReleaseLock(r)
    \/ Undo(r) \/ Requeue(r)
    \/ ClaimCleanup(r) \/ CleanUpStopped(r) \/ ClearLock(r) \/ GiveUp(r)

Reconcile(w, j) ==
    \/ RecoverProvisioning(w, j) \/ RecoverAwaiting(w, j) \/ RecoverFinalization(w, j)
    \/ RecoverExhausted(w, j) \/ RecoverCancelled(w, j)

Next ==
    \/ User
    \/ \E r \in Runs : Step(r) \/ Heartbeat(r) \/ StatementFails(r)
    \/ \E w \in scope.workers, j \in Jobs : Reconcile(w, j)
    \/ \E j \in Jobs : LeaseEnds(j) \/ ForgetCredentials(j)
    \/ \E w \in scope.workers : Crash(w)

Spec == Init /\ [][Next]_vars

\* Runs go on, the reconciler of every process keeps its interval, leases end.
Fairness ==
    /\ \A r \in Runs : WF_vars(Step(r))
    /\ WF_vars(\E w \in scope.workers, j \in Jobs : Reconcile(w, j))
    /\ WF_vars(\E j \in Jobs : LeaseEnds(j))

FairSpec == Spec /\ Fairness

-----------------------------------------------------------------------------
(* Properties *)

\* One worker drives a setup at a time, and none that is given up, unless one stalls
\* past its lease or goes on with a setup while it is given up: the lease, its
\* heartbeats and the claims of starts, context submissions, recoveries and
\* clean-ups agree.
OneDriver ==
    \A r, s \in Runs :
        /\ ~Had("stall")
        /\ Busy(r) /\ run[r].job \notin overtaken
        /\ Works(r, run[r].job) /\ (Works(s, run[r].job) \/ GivesUp(s, run[r].job))
        => r = s

\* The rows of the setups are well typed, and their locks and leases say who works.
LocksTell == TypeOK /\ OneDriver

Undisturbed(j) == ~\E r \in Runs : Busy(r) /\ run[r].job = j

\* A setup that is ready has its project: no recovery, cancellation or clean-up that
\* is still under way takes it back, unless the check of its readiness itself failed.
ReadyKeepsProject ==
    \A j \in Jobs \ overtaken :
        /\ job[j] # Null /\ job[j].status = "ready"
        /\ ~Had("readiness") /\ ~Had("stall")
        => \E p \in Projects : project[p] = j /\ p = job[j].project

\* Unless a worker died or stalled over it, a setup that failed leaves no project
\* behind but one whose own deletion failed, so it can be started again under the same
\* name.
FailedLeavesNothing ==
    \A j \in Jobs \ overtaken :
        /\ job[j] # Null /\ job[j].status = "failed"
        /\ Undisturbed(j) /\ ~Had("crash") /\ ~Had("stall")
        => \A p \in Projects : project[p] = j => p \in left

\* The status of a setup that is over tells whether its project is there.
StatusTells == ReadyKeepsProject /\ FailedLeavesNothing

\* A cancelled setup stays cancelled, whatever a worker that still runs it, its
\* recovery or a clean-up writes later.
CancelledStays ==
    [][\A j \in Jobs : job[j] # Null /\ job[j].status = "cancelled"
                          => job'[j].status = "cancelled"]_vars

\* A setup whose context was given ends, however often its worker dies: the
\* recoveries are bounded and the last one gives up.  (A worker that stalled may
\* still bring one back whose project is gone.)
SetupsEnd ==
    (\E j \in Jobs : Active(j) /\ job[j].context) ~> (~\E j \in Jobs : Active(j)) \/ Had("stall")

-----------------------------------------------------------------------------
(* What the repository says, and the code does not keep *)

\* A cancelled setup that no worker holds and none is cleaning up has been
\* rolled back.
CancelledLeavesNothing ==
    \A j \in Jobs : /\ job[j] # Null /\ job[j].status = "cancelled"
                    /\ job[j].lockedBy = Null /\ Undisturbed(j)
                    => \A p \in Projects : project[p] # j
=============================================================================
