--------------------- MODULE WarehouseProvisioning_proofs ---------------------
(***************************************************************************)
(* What the locks of setups and their statuses tell, for any number of     *)
(* setups, projects, workers, runs, attempts and faults.                   *)
(*                                                                         *)
(* Typing comes first, then the lock (HeldAlone: who works on a setup      *)
(* holds its lease, so nobody else begins to), then whose a project is     *)
(* (IdInv: an id is drawn once and stays with its setup).  On these the    *)
(* statuses rest: Told says of a setup that a project exists only if its   *)
(* row names it, if its one run has yet to record or to delete it, or if   *)
(* its deletion failed.                                                    *)
(***************************************************************************)
EXTENDS WarehouseProvisioning, TLAPS

\* A run is on a setup that has a row.
RunsHaveRows == \A r \in Runs : Busy(r) => job[run[r].job] # Null

(***************************************************************************)
(* How runs move                                                           *)
(***************************************************************************)

\* Run r goes on with the same setup, in the same process, and no other run moves.
Moved(r) ==
    /\ run' \in [Runs -> Run \union {Null}]
    /\ run'[r] \in Run /\ run'[r] # Null
    /\ run'[r].job = run[r].job /\ run'[r].worker = run[r].worker
    /\ \A s \in Runs \ {r} : run'[s] = run[s]

\* Run r is over, and no other run moves.
Ended(r) ==
    /\ run' \in [Runs -> Run \union {Null}]
    /\ run'[r] = Null
    /\ \A s \in Runs \ {r} : run'[s] = run[s]

LEMMA RunTyped ==
    ASSUME TypeOK, NEW r \in Runs, Busy(r)
    PROVE  /\ run[r] \in Run /\ run[r].job \in Jobs /\ run[r].worker \in Workers
           /\ run[r].phase \in Phases /\ run[r].project \in Projects \union {Null}
BY DEF TypeOK, Busy, Run

\* A phase, the project and other fields of a run are written; its setup and its
\* process never are.
LEMMA Moves ==
    ASSUME TypeOK, NEW r \in Runs, Busy(r), NEW new \in Run,
           new.job = run[r].job, new.worker = run[r].worker,
           run' = [run EXCEPT ![r] = new]
    PROVE  Moved(r) /\ run'[r] = new
BY ProvisioningAssumption DEF TypeOK, Moved

LEMMA GoMoves ==
    ASSUME TypeOK, NEW r \in Runs, Busy(r), NEW phase \in Phases, Go(r, phase)
    PROVE  /\ Moved(r)
           /\ run'[r] = [run[r] EXCEPT !.phase = phase]
           /\ run'[r].phase = phase /\ run'[r].project = run[r].project
<1> DEFINE new == [run[r] EXCEPT !.phase = phase]
<1>1. run[r] \in Run
  BY RunTyped
<1>2. /\ new \in Run /\ new.job = run[r].job /\ new.worker = run[r].worker
      /\ new.phase = phase /\ new.project = run[r].project
  BY <1>1 DEF Run
<1>3. run' = [run EXCEPT ![r] = new]
  BY DEF Go
<1> HIDE DEF new
<1>4. Moved(r) /\ run'[r] = new
  BY <1>2, <1>3, Moves
<1> QED
  BY <1>2, <1>4 DEF new

LEMMA ThrowMoves ==
    ASSUME TypeOK, NEW r \in Runs, Busy(r), NEW why \in {"none", "cancelled", "error"},
           Throw(r, why)
    PROVE  /\ Moved(r)
           /\ run'[r].phase = "rollback" /\ run'[r].cause = why
           /\ run'[r].project = run[r].project
<1> DEFINE new == [run[r] EXCEPT !.phase = "rollback", !.cause = why]
<1>1. run[r] \in Run
  BY RunTyped
<1>2. /\ new \in Run /\ new.job = run[r].job /\ new.worker = run[r].worker
      /\ new.phase = "rollback" /\ new.project = run[r].project /\ new.cause = why
  BY <1>1 DEF Run, Phases, Driving
<1>3. run' = [run EXCEPT ![r] = new]
  BY <1>1 DEF Throw, TypeOK, Run
<1> HIDE DEF new
<1>4. Moved(r) /\ run'[r] = new
  BY <1>2, <1>3, Moves
<1> QED
  BY <1>2, <1>4 DEF new

LEMMA EndMoves ==
    ASSUME TypeOK, NEW r \in Runs, End(r)
    PROVE  Ended(r)
BY DEF TypeOK, End, Ended

\* A run that was idle is given something to do, and no other run moves.
Launched(r, new) ==
    /\ r \in Runs /\ ~Busy(r) /\ new \in Run
    /\ run' \in [Runs -> Run \union {Null}]
    /\ run'[r] = new /\ run'[r] # Null
    /\ \A s \in Runs \ {r} : run'[s] = run[s]

LEMMA LaunchMoves ==
    ASSUME TypeOK, NEW new \in Run, Launch(new)
    PROVE  \E r \in Runs : Launched(r, new)
<1> DEFINE r == CHOOSE s \in {s \in Runs : ~Busy(s)} : TRUE
<1>1. r \in Runs /\ ~Busy(r)
  BY DEF Launch
<1>2. run' = [run EXCEPT ![r] = new]
  BY DEF Launch
<1>3. new # Null
  BY ProvisioningAssumption
<1> HIDE DEF r
<1> QED
  BY <1>1, <1>2, <1>3 DEF Launched, TypeOK

LEMMA NewRunTyped ==
    ASSUME NEW w \in Workers, NEW j \in Jobs, NEW phase \in Phases
    PROVE  /\ NewRun(w, j, phase) \in Run
           /\ NewRun(w, j, phase).worker = w /\ NewRun(w, j, phase).job = j
           /\ NewRun(w, j, phase).phase = phase /\ NewRun(w, j, phase).project = Null
BY DEF NewRun, Run

(***************************************************************************)
(* How rows are written                                                    *)
(***************************************************************************)

\* The row of setup j is written, and no other row.
Wrote(j) ==
    /\ job' \in [Jobs -> Job \union {Null}]
    /\ job'[j] \in Job /\ job'[j] # Null
    /\ \A i \in Jobs \ {j} : job'[i] = job[i]

LEMMA RowTyped ==
    ASSUME TypeOK, NEW j \in Jobs, job[j] # Null
    PROVE  /\ job[j] \in Job /\ job[j].status \in Statuses
           /\ job[j].project \in Projects \union {Null}
           /\ job[j].lockedBy \in Workers \union {Null} /\ job[j].stale \in BOOLEAN
           /\ job[j].attempts \in 0..MaxAttempts
BY DEF TypeOK, Job

LEMMA Writes ==
    ASSUME TypeOK, NEW j \in Jobs, NEW new \in Job, job' = [job EXCEPT ![j] = new]
    PROVE  Wrote(j) /\ job'[j] = new
BY ProvisioningAssumption DEF TypeOK, Wrote

LEMMA StatusTyped ==
    ASSUME NEW row \in Job, NEW status \in Statuses
    PROVE  /\ [row EXCEPT !.status = status] \in Job
           /\ [row EXCEPT !.status = status].status = status
           /\ [row EXCEPT !.status = status].project = row.project
           /\ [row EXCEPT !.status = status].lockedBy = row.lockedBy
           /\ [row EXCEPT !.status = status].stale = row.stale
BY DEF Job

LEMMA NewJobTyped ==
    ASSUME NEW context \in BOOLEAN
    PROVE  /\ NewJob(context) \in Job
           /\ NewJob(context).status = "queued" /\ NewJob(context).project = Null
           /\ NewJob(context).lockedBy = Null
BY ProvisioningAssumption DEF NewJob, Job, Statuses, Provisioning

LEMMA ClaimedTyped ==
    ASSUME TypeOK, NEW j \in Jobs, job[j] # Null, NEW w \in Workers
    PROVE  /\ Claimed(j, w) \in Job
           /\ Claimed(j, w).lockedBy = w /\ Claimed(j, w).stale = FALSE
           /\ Claimed(j, w).status = job[j].status /\ Claimed(j, w).project = job[j].project
<1> DEFINE n == IF job[j].attempts < MaxAttempts THEN job[j].attempts + 1
                ELSE job[j].attempts
<1>1. n \in 0..MaxAttempts
  BY RowTyped, ProvisioningAssumption
<1>2. Claimed(j, w) = [job[j] EXCEPT !.lockedBy = w, !.stale = FALSE, !.attempts = n]
  BY DEF Claimed
<1> HIDE DEF n
<1> QED
  BY <1>1, <1>2, RowTyped DEF Job

LEMMA UnlockedTyped ==
    ASSUME TypeOK, NEW j \in Jobs, job[j] # Null
    PROVE  /\ Unlocked(j) \in Job
           /\ Unlocked(j).lockedBy = Null
           /\ Unlocked(j).status = job[j].status /\ Unlocked(j).project = job[j].project
BY RowTyped DEF Unlocked, Job

LEMMA FailedTyped ==
    ASSUME TypeOK, NEW j \in Jobs, job[j] # Null
    PROVE  /\ Failed(j) \in Job
           /\ Failed(j).status = "failed" /\ Failed(j).project = job[j].project
           /\ Failed(j).lockedBy = job[j].lockedBy /\ Failed(j).stale = job[j].stale
BY RowTyped DEF Failed, Job, Statuses, Finished, Stopped

\* updateJob writes the row of the run and goes on, or throws and writes nothing.
LEMMA Updates ==
    ASSUME TypeOK, RunsHaveRows, NEW r \in Runs, Busy(r), NEW phase \in Phases,
           NEW new \in Job, Update(r, new, phase)
    PROVE  /\ Moved(r) /\ run'[r].project = run[r].project
           /\ \/ /\ Updatable(run[r].job)
                 /\ Wrote(run[r].job) /\ job'[run[r].job] = new
                 /\ run'[r].phase = phase
              \/ /\ ~Updatable(run[r].job) /\ job' = job
                 /\ run'[r].phase = "rollback" /\ run'[r].cause = "cancelled"
<1>0. run[r].job \in Jobs /\ job[run[r].job] # Null
  BY RunTyped DEF RunsHaveRows
<1>1. CASE Updatable(run[r].job)
  <2>1. job' = [job EXCEPT ![run[r].job] = new] /\ Go(r, phase)
    BY <1>1 DEF Update
  <2> QED
    BY <1>0, <1>1, <2>1, GoMoves, Writes
<1>2. CASE ~Updatable(run[r].job)
  <2>1. Throw(r, "cancelled") /\ job' = job
    BY <1>2 DEF Update
  <2> QED
    BY <1>2, <2>1, ThrowMoves
<1> QED
  BY <1>1, <1>2

\* Project p is gone, and out of every row that referred to it; nothing else of a row
\* is written.
Cleared(p) ==
    /\ job' \in [Jobs -> Job \union {Null}]
    /\ project' \in [Projects -> Jobs \union {"fresh", "deleted"}]
    /\ \A j \in Jobs :
          /\ job[j] = Null => job'[j] = Null
          /\ job[j] # Null =>
                /\ job'[j] # Null
                /\ job'[j].status = job[j].status
                /\ job'[j].lockedBy = job[j].lockedBy /\ job'[j].stale = job[j].stale
                /\ job'[j].project = IF p # Null /\ job[j].project = p THEN Null
                                     ELSE job[j].project
    /\ \A q \in Projects : project'[q] = IF q = p /\ project[q] \in Jobs THEN "deleted"
                                         ELSE project[q]

LEMMA Deletes ==
    ASSUME TypeOK, NEW p \in Projects \union {Null}, Deleted(p)
    PROVE  Cleared(p)
<1>1. ASSUME NEW j \in Jobs, job[j] # Null
      PROVE  /\ [job[j] EXCEPT !.project = Null] \in Job
             /\ [job[j] EXCEPT !.project = Null].status = job[j].status
             /\ [job[j] EXCEPT !.project = Null].lockedBy = job[j].lockedBy
             /\ [job[j] EXCEPT !.project = Null].stale = job[j].stale
             /\ [job[j] EXCEPT !.project = Null].project = Null
  BY <1>1, RowTyped DEF Job
<1>2. Null \notin Job /\ Null \notin Projects
  BY ProvisioningAssumption
<1>3. job' = [j \in Jobs |-> IF p # Null /\ job[j] # Null /\ job[j].project = p
                             THEN [job[j] EXCEPT !.project = Null] ELSE job[j]]
  BY DEF Deleted
<1>4. \A j \in Jobs : job[j] \in Job \union {Null}
  BY DEF TypeOK
<1>5. \A q \in Projects : project'[q] = IF q = p /\ project[q] \in Jobs THEN "deleted"
                                        ELSE project[q]
  BY <1>2 DEF Deleted, TypeOK
<1>6. project' \in [Projects -> Jobs \union {"fresh", "deleted"}]
  BY <1>2 DEF Deleted, TypeOK
<1>7. \A j \in Jobs : job'[j] = IF p # Null /\ job[j] # Null /\ job[j].project = p
                                THEN [job[j] EXCEPT !.project = Null] ELSE job[j]
  BY <1>3
<1>8. job' \in [Jobs -> Job \union {Null}]
  BY <1>1, <1>3, <1>4
<1>9. ASSUME NEW j \in Jobs
      PROVE  /\ job[j] = Null => job'[j] = Null
             /\ job[j] # Null =>
                   /\ job'[j] # Null
                   /\ job'[j].status = job[j].status
                   /\ job'[j].lockedBy = job[j].lockedBy /\ job'[j].stale = job[j].stale
                   /\ job'[j].project = IF p # Null /\ job[j].project = p THEN Null
                                        ELSE job[j].project
  <2>1. CASE p # Null /\ job[j] # Null /\ job[j].project = p
    <3>1. job'[j] = [job[j] EXCEPT !.project = Null]
      BY <1>7, <2>1
    <3>2. job'[j] # Null
      BY <1>1, <1>2, <2>1, <3>1
    <3> QED
      BY <1>1, <2>1, <3>1, <3>2
  <2>2. CASE ~(p # Null /\ job[j] # Null /\ job[j].project = p)
    <3>1. job'[j] = job[j]
      BY <1>7, <2>2
    <3> QED
      BY <2>2, <3>1
  <2> QED
    BY <2>1, <2>2
<1> QED
  BY <1>5, <1>6, <1>8, <1>9 DEF Cleared

\* What a fault leaves: the history names it.
LEMMA FaultDoes ==
    ASSUME TypeOK, NEW kind, Fault(kind)
    PROVE  /\ faults' = faults \union {kind} /\ faults' \subseteq Faults
           /\ scope' \in [jobs : SUBSET Jobs, workers : SUBSET Workers, faults : Nat, kinds : SUBSET Faults]
           /\ overtaken' = overtaken
<1>1. scope' = [scope EXCEPT !.faults = scope.faults - 1] /\ scope.faults > 0
  BY DEF Fault
<1>2. scope \in [jobs : SUBSET Jobs, workers : SUBSET Workers, faults : Nat, kinds : SUBSET Faults]
  BY DEF TypeOK
<1>3. scope.faults - 1 \in Nat
  BY <1>1, <1>2
<1>4. scope' \in [jobs : SUBSET Jobs, workers : SUBSET Workers, faults : Nat, kinds : SUBSET Faults]
  BY <1>1, <1>2, <1>3
<1> QED
  BY <1>4 DEF Fault, TypeOK

\* Run r took its project away, or the deletion of the project failed and the project
\* is named as left.
TakenAway(r) ==
    /\ repo' \subseteq repo /\ overtaken' = overtaken
    /\ scope' \in [jobs : SUBSET Jobs, workers : SUBSET Workers, faults : Nat, kinds : SUBSET Faults]
    /\ faults \subseteq faults' /\ faults' \subseteq Faults
    /\ left \subseteq left' /\ left' \subseteq Projects
    /\ \A p \in left' : p \in left \/ p = run[r].project
    /\ \/ Cleared(run[r].project) /\ left' = left
       \/ /\ UNCHANGED <<job, project>>
          /\ run[r].project \in Projects => run[r].project \in left' \/ ~Exists(run[r].project)

LEMMA TakesAway ==
    ASSUME TypeOK, NEW r \in Runs, Busy(r), NEW repository,
           TakeAway(run[r].project, repository)
    PROVE  TakenAway(r)
<1> DEFINE p == run[r].project
<1>1. p \in Projects \union {Null}
  BY RunTyped
<1>2. left \subseteq Projects /\ faults \subseteq Faults
  BY DEF TypeOK
<1>3. repo' \subseteq repo
  BY DEF TakeAway
<1>4. CASE Deleted(p) /\ UNCHANGED <<scope, past>>
  BY <1>1, <1>2, <1>3, <1>4, Deletes DEF TakenAway, past, TypeOK
<1>5. CASE /\ p # Null /\ Fault("cleanup")
           /\ \/ Deleted(p) /\ left' = left
              \/ /\ left' = IF Exists(p) THEN left \union {p} ELSE left
                 /\ UNCHANGED <<job, project>>
  <2>1. /\ scope' \in [jobs : SUBSET Jobs, workers : SUBSET Workers, faults : Nat, kinds : SUBSET Faults]
        /\ faults \subseteq faults' /\ faults' \subseteq Faults /\ overtaken' = overtaken
    BY <1>5, FaultDoes
  <2>2. CASE Deleted(p) /\ left' = left
    BY <1>1, <1>2, <1>3, <2>1, <2>2, Deletes DEF TakenAway
  <2>3. CASE /\ left' = IF Exists(p) THEN left \union {p} ELSE left
             /\ UNCHANGED <<job, project>>
    BY <1>1, <1>2, <1>3, <1>5, <2>1, <2>3 DEF TakenAway
  <2> QED
    BY <1>5, <2>2, <2>3
<1> QED
  BY <1>4, <1>5 DEF TakeAway

(***************************************************************************)
(* What each step does to the runs and to the rows: the fields of a row    *)
(* that the invariants are about are its status, its project and its lock. *)
(***************************************************************************)

LockKept(i)    == job'[i].lockedBy = job[i].lockedBy /\ job'[i].stale = job[i].stale
StatusKept(i)  == job'[i].status = job[i].status
ProjectKept(i) == job'[i].project = job[i].project

LEMMA Membership ==
    /\ Driving \subseteq Phases /\ Provisioning \subseteq Statuses
    /\ {"claim", "maybe", "claimFinal", "exhausted", "giveUp", "claimCleanup", "cleanup",
        "clearLock"} \subseteq Phases
    /\ Finalization \subseteq Statuses
    /\ {"awaiting_context", "failed", "cancelled", "ready"} \subseteq Statuses
    /\ {"queued", "initializing", "debugging", "syncing", "registering"} = Provisioning
    /\ {"finalizing", "publishing"} = Finalization
BY DEF Phases, Driving, Statuses, Provisioning, Finalization, Finished, Stopped

\* The user's actions.
LEMMA StartDoes ==
    ASSUME TypeOK, NEW w \in Workers, NEW j \in Jobs, Start(w, j)
    PROVE  /\ job[j] = Null /\ Wrote(j)
           /\ job'[j].status = "queued" /\ job'[j].project = Null
           /\ \E r \in Runs : Launched(r, NewRun(w, j, "claim"))
           /\ UNCHANGED <<project, repo, scope, faults, overtaken, left>>
<1>1. /\ job[j] = Null /\ job' = [job EXCEPT ![j] = NewJob(FALSE)]
      /\ Launch(NewRun(w, j, "claim"))
      /\ UNCHANGED <<project, repo, scope, faults, overtaken, left>>
  BY DEF Start, NewId, Begin, past
<1>2. Wrote(j) /\ job'[j] = NewJob(FALSE)
  BY <1>1, NewJobTyped, Writes
<1> QED
  BY <1>1, <1>2, NewJobTyped, NewRunTyped, LaunchMoves, Membership

LEMMA RetryDoes ==
    ASSUME TypeOK, NEW w \in Workers, NEW i \in Jobs, NEW j \in Jobs, Retry(w, i, j)
    PROVE  /\ job[j] = Null /\ i # j
           /\ job' \in [Jobs -> Job \union {Null}] /\ job'[j] # Null
           /\ job'[j].status = "queued" /\ job'[j].project = Null
           /\ job[i] # Null /\ job'[i] # Null
           /\ StatusKept(i) /\ ProjectKept(i) /\ LockKept(i)
           /\ \A k \in Jobs \ {i, j} : job'[k] = job[k]
           /\ \E r \in Runs : Launched(r, NewRun(w, j, "claim"))
           /\ UNCHANGED <<project, repo, scope, faults, overtaken, left>>
<1> DEFINE new == NewJob(job[i].context)
           old == [job[i] EXCEPT !.credentials = FALSE]
<1>1. /\ job[j] = Null /\ job[i] # Null
      /\ job' = [job EXCEPT ![j] = new, ![i].credentials = FALSE]
      /\ Launch(NewRun(w, j, "claim"))
      /\ UNCHANGED <<project, repo, scope, faults, overtaken, left>>
  BY DEF Retry, NewId, Begin, past
<1>2. job[i] \in Job
  BY <1>1, RowTyped
<1>3. /\ old \in Job /\ old.status = job[i].status /\ old.project = job[i].project
      /\ old.lockedBy = job[i].lockedBy /\ old.stale = job[i].stale
  BY <1>2 DEF Job
<1>4. new \in Job /\ new.status = "queued" /\ new.project = Null
  <2>1. job[i].context \in BOOLEAN
    BY <1>2 DEF Job
  <2> QED
    BY <2>1, NewJobTyped
<1>5. job' = [job EXCEPT ![j] = new, ![i] = old]
  BY <1>1 DEF TypeOK
<1> HIDE DEF new, old
<1>6. new # Null /\ old # Null
  BY <1>3, <1>4, ProvisioningAssumption
<1>7. /\ job' \in [Jobs -> Job \union {Null}]
      /\ job'[j] = new /\ job'[i] = old /\ \A k \in Jobs \ {i, j} : job'[k] = job[k]
  <2>1. job \in [Jobs -> Job \union {Null}] /\ i # j
    BY <1>1 DEF TypeOK
  <2> QED
    BY <1>3, <1>4, <1>5, <2>1
<1>8. \E r \in Runs : Launched(r, NewRun(w, j, "claim"))
  BY <1>1, NewRunTyped, LaunchMoves, Membership
<1> QED
  BY <1>1, <1>3, <1>4, <1>6, <1>7, <1>8 DEF StatusKept, ProjectKept, LockKept

LEMMA SubmitDoes ==
    ASSUME TypeOK, NEW w \in Workers, NEW j \in Jobs, Submit(w, j)
    PROVE  /\ job[j] # Null /\ Wrote(j)
           /\ StatusKept(j) /\ ProjectKept(j) /\ LockKept(j)
           /\ job[j].status # "ready"
           /\ \/ run' = run
              \/ \E r \in Runs : Launched(r, NewRun(w, j, "maybe"))
           /\ UNCHANGED <<project, repo, scope, faults, overtaken, left>>
<1> DEFINE new == [job[j] EXCEPT !.context = TRUE]
<1>1. /\ job[j] # Null /\ job[j].status # "ready" /\ job' = [job EXCEPT ![j] = new]
      /\ run' = run \/ Launch(NewRun(w, j, "maybe"))
      /\ UNCHANGED <<project, repo, scope, faults, overtaken, left>>
  BY DEF Submit, Begin, past
<1>2. /\ new \in Job /\ new.status = job[j].status /\ new.project = job[j].project
      /\ new.lockedBy = job[j].lockedBy /\ new.stale = job[j].stale
  BY <1>1, RowTyped DEF Job
<1> HIDE DEF new
<1>3. Wrote(j) /\ job'[j] = new
  BY <1>1, <1>2, Writes
<1>4. run' = run \/ \E r \in Runs : Launched(r, NewRun(w, j, "maybe"))
  BY <1>1, NewRunTyped, LaunchMoves, Membership
<1> QED
  BY <1>1, <1>2, <1>3, <1>4 DEF StatusKept, ProjectKept, LockKept

LEMMA CancelDoes ==
    ASSUME TypeOK, NEW w \in Workers, NEW j \in Jobs, Cancel(w, j)
    PROVE  /\ job[j] # Null /\ Wrote(j) /\ job[j].status \notin Finished
           /\ job'[j].status = "cancelled" /\ ProjectKept(j) /\ LockKept(j)
           /\ \/ run' = run
              \/ \E r \in Runs : Launched(r, NewRun(w, j, "claimCleanup"))
           /\ UNCHANGED <<project, repo, scope, faults, overtaken, left>>
<1> DEFINE new == [job[j] EXCEPT !.status = "cancelled", !.failedStatus = job[j].status,
                                 !.credentials = FALSE]
<1>1. /\ job[j] # Null /\ job[j].status \notin Finished
      /\ job' = [job EXCEPT ![j] = new]
      /\ run' = run \/ Launch(NewRun(w, j, "claimCleanup"))
      /\ UNCHANGED <<project, repo, scope, faults, overtaken, left>>
  BY DEF Cancel, Active, Begin, past, TypeOK
<1>2. /\ new \in Job /\ new.status = "cancelled" /\ new.project = job[j].project
      /\ new.lockedBy = job[j].lockedBy /\ new.stale = job[j].stale
  BY <1>1, RowTyped, Membership DEF Job
<1> HIDE DEF new
<1>3. Wrote(j) /\ job'[j] = new
  BY <1>1, <1>2, Writes
<1>4. run' = run \/ \E r \in Runs : Launched(r, NewRun(w, j, "claimCleanup"))
  BY <1>1, NewRunTyped, LaunchMoves, Membership
<1> QED
  BY <1>1, <1>2, <1>3, <1>4 DEF ProjectKept, LockKept

\* A claim takes the lock of a setup nobody holds; when the setup was being given up it
\* is overtaken.
Claims(j, w, statuses) ==
    /\ job[j] # Null /\ job[j].status \in statuses /\ Free(j)
    /\ Wrote(j) /\ StatusKept(j) /\ ProjectKept(j)
    /\ job'[j].lockedBy = w /\ job'[j].stale = FALSE
    /\ overtaken' = IF \E s \in Runs : GivesUp(s, j) THEN overtaken \union {j} ELSE overtaken

LEMMA ClaimWrites ==
    ASSUME TypeOK, NEW j \in Jobs, NEW w \in Workers, NEW statuses, Claimable(j, statuses),
           job' = [job EXCEPT ![j] = Claimed(j, w)],
           overtaken' = IF \E s \in Runs : GivesUp(s, j) THEN overtaken \union {j} ELSE overtaken
    PROVE  Claims(j, w, statuses)
<1>1. job[j] # Null /\ job[j].status \in statuses /\ Free(j)
  BY DEF Claimable
<1>2. Wrote(j) /\ job'[j] = Claimed(j, w)
  BY <1>1, ClaimedTyped, Writes
<1>3. /\ StatusKept(j) /\ ProjectKept(j)
      /\ job'[j].lockedBy = w /\ job'[j].stale = FALSE
  <2>1. /\ Claimed(j, w).lockedBy = w /\ Claimed(j, w).stale = FALSE
        /\ Claimed(j, w).status = job[j].status /\ Claimed(j, w).project = job[j].project
    BY <1>1, ClaimedTyped
  <2> QED
    BY <1>2, <2>1 DEF StatusKept, ProjectKept
<1> QED
  BY <1>1, <1>2, <1>3 DEF Claims

LEMMA ClaimQueuedDoes ==
    ASSUME TypeOK, RunsHaveRows, NEW r \in Runs, ClaimQueued(r)
    PROVE  /\ At(r, {"claim"})
           /\ UNCHANGED <<project, repo, scope, faults, left>>
           /\ \/ /\ Claims(run[r].job, run[r].worker, Provisioning)
                 /\ Moved(r) /\ run'[r].phase = "naming" /\ run'[r].project = run[r].project
              \/ Ended(r) /\ job' = job /\ overtaken' = overtaken
<1> DEFINE j == run[r].job
           new == [run[r] EXCEPT !.phase = "naming", !.then = "maybe"]
<1>1. Busy(r) /\ At(r, {"claim"}) /\ UNCHANGED <<project, repo, scope, faults, left>>
  BY DEF ClaimQueued, At
<1>2. CASE Claimable(j, Provisioning)
  <2>1. /\ job' = [job EXCEPT ![j] = Claimed(j, run[r].worker)]
        /\ run' = [run EXCEPT ![r].phase = "naming", ![r].then = "maybe"]
        /\ overtaken' = IF \E s \in Runs : GivesUp(s, j) THEN overtaken \union {j} ELSE overtaken
    BY <1>2, Zenon DEF Overtakes, ClaimQueued
  <2>2. run[r] \in Run /\ j \in Jobs /\ run[r].worker \in Workers
    BY <1>1, RunTyped
  <2>3. /\ new \in Run /\ new.job = run[r].job /\ new.worker = run[r].worker
        /\ new.phase = "naming" /\ new.project = run[r].project
    BY <2>2, Membership DEF Run, Driving
  <2>4. run' = [run EXCEPT ![r] = new]
    BY <2>1 DEF TypeOK
  <2> HIDE DEF new
  <2>5. Moved(r) /\ run'[r] = new
    BY <1>1, <2>3, <2>4, Moves
  <2>6. Claims(j, run[r].worker, Provisioning)
    BY <1>2, <2>1, <2>2, ClaimWrites
  <2> QED
    BY <1>1, <2>3, <2>5, <2>6
<1>3. CASE ~Claimable(j, Provisioning)
  BY <1>1, <1>3, EndMoves DEF ClaimQueued
<1> QED
  BY <1>2, <1>3

LEMMA ClaimFinalDoes ==
    ASSUME TypeOK, RunsHaveRows, NEW r \in Runs, ClaimFinal(r)
    PROVE  /\ At(r, {"claimFinal"})
           /\ UNCHANGED <<project, repo, scope, faults, left>>
           /\ \/ /\ Claims(run[r].job, run[r].worker, {"awaiting_context"})
                 /\ Moved(r) /\ run'[r].phase = "toFinalizing"
                 /\ run'[r].project = run[r].project
              \/ Ended(r) /\ job' = job /\ overtaken' = overtaken
<1> DEFINE j == run[r].job
           new == [run[r] EXCEPT !.phase = "toFinalizing", !.then = "end"]
<1>1. Busy(r) /\ At(r, {"claimFinal"}) /\ UNCHANGED <<project, repo, scope, faults, left>>
  BY DEF ClaimFinal, At
<1>2. CASE Claimable(j, {"awaiting_context"})
  <2>1. /\ job' = [job EXCEPT ![j] = Claimed(j, run[r].worker)]
        /\ run' = [run EXCEPT ![r].phase = "toFinalizing", ![r].then = "end"]
        /\ overtaken' = IF \E s \in Runs : GivesUp(s, j) THEN overtaken \union {j} ELSE overtaken
    BY <1>2, Zenon DEF Overtakes, ClaimFinal
  <2>2. run[r] \in Run /\ j \in Jobs /\ run[r].worker \in Workers
    BY <1>1, RunTyped
  <2>3. /\ new \in Run /\ new.job = run[r].job /\ new.worker = run[r].worker
        /\ new.phase = "toFinalizing" /\ new.project = run[r].project
    BY <2>2, Membership DEF Run, Driving
  <2>4. run' = [run EXCEPT ![r] = new]
    BY <2>1 DEF TypeOK
  <2> HIDE DEF new
  <2>5. Moved(r) /\ run'[r] = new
    BY <1>1, <2>3, <2>4, Moves
  <2>6. Claims(j, run[r].worker, {"awaiting_context"})
    BY <1>2, <2>1, <2>2, ClaimWrites
  <2> QED
    BY <1>1, <2>3, <2>5, <2>6
<1>3. CASE ~Claimable(j, {"awaiting_context"})
  BY <1>1, <1>3, EndMoves DEF ClaimFinal
<1> QED
  BY <1>2, <1>3

LEMMA ClaimCleanupDoes ==
    ASSUME TypeOK, RunsHaveRows, NEW r \in Runs, ClaimCleanup(r)
    PROVE  /\ At(r, {"claimCleanup"})
           /\ UNCHANGED <<project, repo, scope, faults, left>>
           /\ \/ /\ Claims(run[r].job, run[r].worker, {"cancelled"})
                 /\ Moved(r) /\ run'[r].phase = "cleanup"
                 /\ run'[r].project = JobOf(r).project
              \/ Ended(r) /\ job' = job /\ overtaken' = overtaken
<1> DEFINE j == run[r].job
           new == [run[r] EXCEPT !.phase = "cleanup", !.project = job[j].project,
                                 !.pushed = job[j].failedStatus = "publishing"]
<1>1. Busy(r) /\ At(r, {"claimCleanup"}) /\ UNCHANGED <<project, repo, scope, faults, left>>
  BY DEF ClaimCleanup, At
<1>2. CASE Claimable(j, {"cancelled"})
  <2>1. /\ job' = [job EXCEPT ![j] = Claimed(j, run[r].worker)]
        /\ run' = [run EXCEPT ![r].phase = "cleanup", ![r].project = job[j].project,
                              ![r].pushed = job[j].failedStatus = "publishing"]
        /\ overtaken' = IF \E s \in Runs : GivesUp(s, j) THEN overtaken \union {j} ELSE overtaken
    BY <1>2, Zenon DEF Overtakes, ClaimCleanup, JobOf
  <2>2. run[r] \in Run /\ j \in Jobs /\ run[r].worker \in Workers /\ job[j] # Null
    BY <1>1, RunTyped DEF RunsHaveRows
  <2>3. /\ new \in Run /\ new.job = run[r].job /\ new.worker = run[r].worker
        /\ new.phase = "cleanup" /\ new.project = job[j].project
    BY <2>2, Membership, RowTyped DEF Run
  <2>4. run' = [run EXCEPT ![r] = new]
    BY <2>1 DEF TypeOK
  <2> HIDE DEF new
  <2>5. Moved(r) /\ run'[r] = new
    BY <1>1, <2>3, <2>4, Moves
  <2>6. Claims(j, run[r].worker, {"cancelled"})
    BY <1>2, <2>1, <2>2, ClaimWrites
  <2> QED
    BY <1>1, <2>3, <2>5, <2>6 DEF JobOf
<1>3. CASE ~Claimable(j, {"cancelled"})
  BY <1>1, <1>3, EndMoves DEF ClaimCleanup
<1> QED
  BY <1>2, <1>3

\* A worker's update is written, or throws because the setup was cancelled.
Written(r, status, phase) ==
    /\ Updatable(run[r].job)
    /\ Wrote(run[r].job) /\ LockKept(run[r].job)
    /\ job'[run[r].job].status = status
    /\ run'[r].phase = phase

Refused(r) ==
    /\ ~Updatable(run[r].job) /\ job' = job
    /\ run'[r].phase = "rollback" /\ run'[r].cause = "cancelled"

LEMMA WithStatusDoes ==
    ASSUME TypeOK, RunsHaveRows, NEW r \in Runs, Busy(r), NEW status \in Statuses,
           NEW phase \in Phases, Update(r, WithStatus(r, status), phase)
    PROVE  /\ Moved(r) /\ run'[r].project = run[r].project
           /\ \/ Written(r, status, phase) /\ ProjectKept(run[r].job)
              \/ Refused(r)
<1> DEFINE new == WithStatus(r, status)
<1>1. run[r].job \in Jobs /\ job[run[r].job] # Null
  BY RunTyped DEF RunsHaveRows
<1>2. /\ new \in Job /\ new.status = status /\ new.project = job[run[r].job].project
      /\ new.lockedBy = job[run[r].job].lockedBy /\ new.stale = job[run[r].job].stale
  BY <1>1, RowTyped, StatusTyped DEF WithStatus, JobOf
<1> HIDE DEF new
<1> QED
  BY <1>1, <1>2, Updates DEF Written, Refused, ProjectKept, LockKept, new

LEMMA CheckNameDoes ==
    ASSUME TypeOK, RunsHaveRows, NEW r \in Runs, CheckName(r)
    PROVE  /\ At(r, {"naming"}) /\ UNCHANGED <<project, repo, scope, faults, overtaken, left>>
           /\ Moved(r) /\ run'[r].project = run[r].project
           /\ \/ Written(r, "initializing", "initializing") /\ ProjectKept(run[r].job)
              \/ Refused(r)
              \/ job' = job /\ run'[r].phase = "rollback" /\ run'[r].cause = "error"
<1>1. Busy(r) /\ At(r, {"naming"}) /\ UNCHANGED <<project, repo, scope, faults, overtaken, left>>
  BY DEF CheckName, At, past
<1>2. CASE Throw(r, "error") /\ job' = job
  BY <1>1, <1>2, ThrowMoves
<1>3. CASE Update(r, WithStatus(r, "initializing"), "initializing")
  <2>1. "initializing" \in Statuses /\ "initializing" \in Phases
    BY DEF Statuses, Provisioning, Phases, Driving
  <2> QED
    BY <1>1, <1>3, <2>1, WithStatusDoes
<1> QED
  BY <1>2, <1>3 DEF CheckName

LEMMA AdvanceDoes ==
    ASSUME TypeOK, RunsHaveRows, NEW r \in Runs, Advance(r)
    PROVE  /\ At(r, {"initializing", "debugging"})
           /\ UNCHANGED <<project, repo, scope, faults, overtaken, left>>
           /\ Moved(r) /\ run'[r].project = run[r].project
           /\ \/ /\ ProjectKept(run[r].job)
                 /\ \/ Written(r, "debugging", "debugging")
                    \/ Written(r, "syncing", "syncing")
              \/ Refused(r)
<1>1. /\ Busy(r) /\ At(r, {"initializing", "debugging"})
      /\ UNCHANGED <<project, repo, scope, faults, overtaken, left>>
  BY DEF Advance, At, past
<1>2. {"debugging", "syncing"} \subseteq Statuses /\ {"debugging", "syncing"} \subseteq Phases
  BY DEF Statuses, Provisioning, Phases, Driving
<1>3. CASE Update(r, WithStatus(r, "debugging"), "debugging")
  BY <1>1, <1>2, <1>3, WithStatusDoes
<1>4. CASE Update(r, WithStatus(r, "syncing"), "syncing")
  BY <1>1, <1>2, <1>4, WithStatusDoes
<1> QED
  BY <1>3, <1>4 DEF Advance

LEMMA RecordProjectDoes ==
    ASSUME TypeOK, RunsHaveRows, NEW r \in Runs, RecordProject(r)
    PROVE  /\ At(r, {"record"}) /\ UNCHANGED <<project, repo, scope, faults, overtaken, left>>
           /\ Moved(r) /\ run'[r].project = run[r].project
           /\ \/ /\ Written(r, JobOf(r).status, "secrets")
                 /\ job'[run[r].job].project = run[r].project
              \/ Refused(r)
<1> DEFINE new == [JobOf(r) EXCEPT !.project = run[r].project]
<1>1. /\ Busy(r) /\ At(r, {"record"})
      /\ UNCHANGED <<project, repo, scope, faults, overtaken, left>>
      /\ Update(r, new, "secrets")
  BY DEF RecordProject, At, past
<1>2. /\ run[r].job \in Jobs /\ job[run[r].job] # Null
      /\ run[r].project \in Projects \union {Null}
  BY <1>1, RunTyped DEF RunsHaveRows
<1>3. /\ new \in Job /\ new.status = JobOf(r).status /\ new.project = run[r].project
      /\ new.lockedBy = JobOf(r).lockedBy /\ new.stale = JobOf(r).stale
  BY <1>2, RowTyped DEF JobOf, Job
<1>4. "secrets" \in Phases
  BY DEF Phases, Driving
<1> HIDE DEF new
<1> QED
  BY <1>1, <1>2, <1>3, <1>4, Updates DEF Written, Refused, LockKept, JobOf

LEMMA AwaitContextDoes ==
    ASSUME TypeOK, RunsHaveRows, NEW r \in Runs, AwaitContext(r)
    PROVE  /\ At(r, {"secrets"}) /\ UNCHANGED <<project, repo, scope, faults, overtaken, left>>
           /\ Moved(r) /\ run'[r].project = run[r].project
           /\ \/ Written(r, "awaiting_context", "release") /\ ProjectKept(run[r].job)
              \/ Refused(r)
<1> DEFINE new == [JobOf(r) EXCEPT !.status = "awaiting_context", !.attempts = 0]
<1>1. /\ Busy(r) /\ At(r, {"secrets"})
      /\ UNCHANGED <<project, repo, scope, faults, overtaken, left>>
      /\ Update(r, new, "release")
  BY DEF AwaitContext, At, past
<1>2. run[r].job \in Jobs /\ job[run[r].job] # Null
  BY <1>1, RunTyped DEF RunsHaveRows
<1>3. /\ new \in Job /\ new.status = "awaiting_context" /\ new.project = JobOf(r).project
      /\ new.lockedBy = JobOf(r).lockedBy /\ new.stale = JobOf(r).stale
  <2>1. 0 \in 0..MaxAttempts /\ "awaiting_context" \in Statuses
    BY Membership, ProvisioningAssumption
  <2>2. job[run[r].job] \in Job
    BY <1>2, RowTyped
  <2> QED
    BY <2>1, <2>2 DEF JobOf, Job
<1>4. "release" \in Phases
  BY DEF Phases, Driving
<1> HIDE DEF new
<1> QED
  BY <1>1, <1>2, <1>3, <1>4, Updates DEF Written, Refused, LockKept, ProjectKept, JobOf

LEMMA RulesDoes ==
    ASSUME TypeOK, RunsHaveRows, NEW r \in Runs, Rules(r)
    PROVE  /\ At(r, {"rules"}) /\ UNCHANGED <<project, repo, scope, faults, overtaken, left>>
           /\ Moved(r) /\ run'[r].project = run[r].project
           /\ \/ Written(r, "publishing", "publishing") /\ ProjectKept(run[r].job)
              \/ Refused(r)
<1>1. /\ Busy(r) /\ At(r, {"rules"})
      /\ UNCHANGED <<project, repo, scope, faults, overtaken, left>>
      /\ Update(r, WithStatus(r, "publishing"), "publishing")
  BY DEF Rules, At, past
<1>2. "publishing" \in Statuses /\ "publishing" \in Phases
  BY DEF Statuses, Finalization, Phases, Driving
<1> QED
  BY <1>1, <1>2, WithStatusDoes

LEMMA ReadyDoes ==
    ASSUME TypeOK, RunsHaveRows, NEW r \in Runs, Ready(r)
    PROVE  /\ At(r, {"published"}) /\ UNCHANGED <<project, repo, scope, faults, overtaken, left>>
           /\ Moved(r) /\ run'[r].project = run[r].project
           /\ \/ Written(r, "ready", "readiness") /\ ProjectKept(run[r].job)
              \/ Refused(r)
<1> DEFINE new == [JobOf(r) EXCEPT !.status = "ready", !.credentials = FALSE]
<1>1. /\ Busy(r) /\ At(r, {"published"})
      /\ UNCHANGED <<project, repo, scope, faults, overtaken, left>>
      /\ Update(r, new, "readiness")
  BY DEF Ready, At, past
<1>2. run[r].job \in Jobs /\ job[run[r].job] # Null
  BY <1>1, RunTyped DEF RunsHaveRows
<1>3. /\ new \in Job /\ new.status = "ready" /\ new.project = JobOf(r).project
      /\ new.lockedBy = JobOf(r).lockedBy /\ new.stale = JobOf(r).stale
  BY <1>2, RowTyped, Membership DEF JobOf, Job
<1>4. "readiness" \in Phases
  BY DEF Phases, Driving
<1> HIDE DEF new
<1> QED
  BY <1>1, <1>2, <1>3, <1>4, Updates DEF Written, Refused, LockKept, ProjectKept, JobOf

LEMMA SyncedDoes ==
    ASSUME TypeOK, RunsHaveRows, NEW r \in Runs, Synced(r)
    PROVE  /\ At(r, {"syncing"}) /\ UNCHANGED <<project, repo, scope, faults, overtaken, left>>
           /\ Moved(r) /\ run'[r].project = NextProject /\ NextProject \in Unused
           /\ \/ Written(r, "registering", "registering") /\ ProjectKept(run[r].job)
              \/ Refused(r)
<1> DEFINE new == [run[r] EXCEPT !.phase = "registering", !.project = NextProject]
           thrown == [run[r] EXCEPT !.phase = "rollback", !.cause = "cancelled",
                                    !.project = NextProject]
           row == [job[run[r].job] EXCEPT !.status = "registering"]
<1>1. /\ Busy(r) /\ At(r, {"syncing"})
      /\ UNCHANGED <<project, repo, scope, faults, overtaken, left>>
      /\ Unused # {}
  BY DEF Synced, At, past
<1>2. NextProject \in Unused /\ NextProject \in Projects
  BY <1>1 DEF NextProject, Unused
<1>3. run[r].job \in Jobs /\ job[run[r].job] # Null /\ run[r] \in Run
  BY <1>1, RunTyped DEF RunsHaveRows
<1>4. {"registering", "rollback"} \subseteq Phases /\ "registering" \in Statuses
  BY DEF Phases, Driving, Statuses, Provisioning
<1>5. CASE Updatable(run[r].job)
  <2>1. run' = [run EXCEPT ![r] = new] /\ job' = [job EXCEPT ![run[r].job] = row]
    BY <1>3, <1>5 DEF Synced, TypeOK
  <2>2. /\ new \in Run /\ new.job = run[r].job /\ new.worker = run[r].worker
        /\ new.phase = "registering" /\ new.project = NextProject
    BY <1>2, <1>3, <1>4 DEF Run
  <2>3. /\ row \in Job /\ row.status = "registering" /\ row.project = job[run[r].job].project
        /\ row.lockedBy = job[run[r].job].lockedBy /\ row.stale = job[run[r].job].stale
    BY <1>3, <1>4, RowTyped, StatusTyped
  <2> HIDE DEF new, row
  <2>4. Moved(r) /\ run'[r] = new
    BY <1>1, <2>1, <2>2, Moves
  <2>5. Wrote(run[r].job) /\ job'[run[r].job] = row
    BY <1>3, <2>1, <2>3, Writes
  <2> QED
    BY <1>1, <1>2, <1>5, <2>2, <2>3, <2>4, <2>5 DEF Written, LockKept, ProjectKept
<1>6. CASE ~Updatable(run[r].job)
  <2>1. run' = [run EXCEPT ![r] = thrown] /\ job' = job
    BY <1>3, <1>6 DEF Synced, TypeOK
  <2>2. /\ thrown \in Run /\ thrown.job = run[r].job /\ thrown.worker = run[r].worker
        /\ thrown.phase = "rollback" /\ thrown.cause = "cancelled"
        /\ thrown.project = NextProject
    BY <1>2, <1>3, <1>4 DEF Run
  <2> HIDE DEF thrown
  <2>3. Moved(r) /\ run'[r] = thrown
    BY <1>1, <2>1, <2>2, Moves
  <2> QED
    BY <1>1, <1>2, <1>6, <2>1, <2>2, <2>3 DEF Refused
<1> QED
  BY <1>5, <1>6

LEMMA RegisterDoes ==
    ASSUME TypeOK, RunsHaveRows, NEW r \in Runs, Register(r)
    PROVE  /\ At(r, {"registering"}) /\ UNCHANGED <<job, repo, scope, faults, overtaken, left>>
           /\ Moved(r) /\ run'[r].project = run[r].project /\ run'[r].phase = "record"
           /\ project' \in [Projects -> Jobs \union {"fresh", "deleted"}]
           /\ run[r].project \in Projects => project'[run[r].project] = run[r].job
           /\ \A q \in Projects : q # run[r].project => project'[q] = project[q]
<1>1. /\ Busy(r) /\ At(r, {"registering"})
      /\ UNCHANGED <<job, repo, scope, faults, overtaken, left>>
      /\ project' = [project EXCEPT ![run[r].project] = run[r].job] /\ Go(r, "record")
  BY DEF Register, At, past
<1>2. run[r].job \in Jobs
  BY <1>1, RunTyped
<1>3. /\ project' \in [Projects -> Jobs \union {"fresh", "deleted"}]
      /\ run[r].project \in Projects => project'[run[r].project] = run[r].job
      /\ \A q \in Projects : q # run[r].project => project'[q] = project[q]
  BY <1>1, <1>2 DEF TypeOK
<1>4. "record" \in Phases
  BY DEF Phases, Driving
<1> QED
  BY <1>1, <1>3, <1>4, GoMoves

LEMMA StepFailsDoes ==
    ASSUME TypeOK, RunsHaveRows, NEW r \in Runs, StepFails(r)
    PROVE  /\ UNCHANGED <<job, project, repo, scope, faults, overtaken, left>>
           /\ Moved(r) /\ run'[r].project = run[r].project /\ run'[r].phase = "rollback"
           /\ At(r, {"naming", "initializing", "debugging", "syncing", "registering",
                     "secrets", "rules", "publishing"})
           /\ run'[r].cause = "cancelled" => JobOf(r).status = "cancelled"
<1>1. /\ UNCHANGED <<job, project, repo, scope, faults, overtaken, left>>
      /\ At(r, {"naming", "initializing", "debugging", "syncing", "registering",
                "secrets", "rules", "publishing"})
      /\ Busy(r)
      /\ \/ Throw(r, "error")
         \/ JobOf(r).status = "cancelled" /\ Throw(r, "cancelled")
  BY DEF StepFails, At, past
<1> QED
  BY <1>1, ThrowMoves

\* Taking the setup's project from its row, to give it up or to publish it.
LEMMA TakesProject ==
    ASSUME TypeOK, RunsHaveRows, NEW r \in Runs, Busy(r), NEW phase \in Phases,
           run' = [run EXCEPT ![r].phase = phase, ![r].project = JobOf(r).project]
    PROVE  Moved(r) /\ run'[r].phase = phase /\ run'[r].project = JobOf(r).project
<1> DEFINE new == [run[r] EXCEPT !.phase = phase, !.project = JobOf(r).project]
<1>1. run[r] \in Run /\ JobOf(r).project \in Projects \union {Null}
  BY RunTyped, RowTyped DEF RunsHaveRows, JobOf
<1>2. /\ new \in Run /\ new.job = run[r].job /\ new.worker = run[r].worker
      /\ new.phase = phase /\ new.project = JobOf(r).project
  BY <1>1 DEF Run
<1>3. run' = [run EXCEPT ![r] = new]
  BY <1>1 DEF TypeOK
<1> HIDE DEF new
<1> QED
  BY <1>2, <1>3, Moves

LEMMA MaybeDoes ==
    ASSUME TypeOK, RunsHaveRows, NEW r \in Runs, Maybe(r)
    PROVE  /\ At(r, {"maybe"}) /\ UNCHANGED <<job, project, repo, scope, faults, left>>
           /\ \/ Ended(r) /\ overtaken' = overtaken
              \/ /\ Moved(r) /\ run'[r].phase = "claimFinal"
                 /\ run'[r].project = run[r].project /\ overtaken' = overtaken
              \/ /\ JobOf(r).status = "awaiting_context"
                 /\ Moved(r) /\ run'[r].phase = "exhausted"
                 /\ run'[r].project = JobOf(r).project
                 /\ overtaken' = IF \E s \in Runs : Works(s, run[r].job)
                                 THEN overtaken \union {run[r].job} ELSE overtaken
<1>1. Busy(r) /\ At(r, {"maybe"}) /\ UNCHANGED <<job, project, repo, scope, faults, left>>
  BY DEF Maybe, At
<1>2. "claimFinal" \in Phases /\ "exhausted" \in Phases
  BY Membership
<1>3. CASE End(r) /\ overtaken' = overtaken
  BY <1>1, <1>3, EndMoves
<1>4. CASE Go(r, "claimFinal") /\ overtaken' = overtaken
  BY <1>1, <1>2, <1>4, GoMoves
<1>5. CASE /\ JobOf(r).status = "awaiting_context"
           /\ run' = [run EXCEPT ![r].phase = "exhausted", ![r].project = JobOf(r).project]
           /\ overtaken' = IF \E s \in Runs : Works(s, run[r].job)
                           THEN overtaken \union {run[r].job} ELSE overtaken
  BY <1>1, <1>2, <1>5, TakesProject, Zenon
<1>6. \/ End(r) /\ overtaken' = overtaken
      \/ Go(r, "claimFinal") /\ overtaken' = overtaken
      \/ /\ JobOf(r).status = "awaiting_context"
         /\ run' = [run EXCEPT ![r].phase = "exhausted", ![r].project = JobOf(r).project]
         /\ overtaken' = IF \E s \in Runs : Works(s, run[r].job)
                         THEN overtaken \union {run[r].job} ELSE overtaken
  BY Zenon DEF Maybe, Overtakes
<1> QED
  BY <1>3, <1>4, <1>5, <1>6

LEMMA ToFinalizingDoes ==
    ASSUME TypeOK, RunsHaveRows, NEW r \in Runs, ToFinalizing(r)
    PROVE  /\ At(r, {"toFinalizing", "resume"})
           /\ UNCHANGED <<project, repo, scope, faults, overtaken, left>>
           /\ Moved(r) /\ run'[r].project = run[r].project
           /\ \/ Written(r, "finalizing", "finalize") /\ ProjectKept(run[r].job)
              \/ ~Updatable(run[r].job) /\ job' = job /\ run'[r].phase = "release"
<1> DEFINE row == [job[run[r].job] EXCEPT !.status = "finalizing"]
<1>1. /\ Busy(r) /\ At(r, {"toFinalizing", "resume"})
      /\ UNCHANGED <<project, repo, scope, faults, overtaken, left>>
  BY DEF ToFinalizing, At, past
<1>2. run[r].job \in Jobs /\ job[run[r].job] # Null
  BY <1>1, RunTyped DEF RunsHaveRows
<1>3. {"finalize", "release"} \subseteq Phases /\ "finalizing" \in Statuses
  BY DEF Phases, Driving, Statuses, Finalization
<1>4. CASE Updatable(run[r].job)
  <2>1. Go(r, "finalize") /\ job' = [job EXCEPT ![run[r].job] = row]
    BY <1>2, <1>4 DEF ToFinalizing, TypeOK
  <2>2. /\ row \in Job /\ row.status = "finalizing" /\ row.project = job[run[r].job].project
        /\ row.lockedBy = job[run[r].job].lockedBy /\ row.stale = job[run[r].job].stale
    BY <1>2, <1>3, RowTyped, StatusTyped
  <2> HIDE DEF row
  <2>3. Wrote(run[r].job) /\ job'[run[r].job] = row
    BY <1>2, <2>1, <2>2, Writes
  <2>4. Moved(r) /\ run'[r].phase = "finalize" /\ run'[r].project = run[r].project
    BY <1>1, <1>3, <2>1, GoMoves
  <2> QED
    BY <1>1, <1>4, <2>2, <2>3, <2>4 DEF Written, LockKept, ProjectKept
<1>5. CASE ~Updatable(run[r].job)
  <2>1. Go(r, "release") /\ job' = job
    BY <1>5 DEF ToFinalizing
  <2> QED
    BY <1>1, <1>3, <1>5, <2>1, GoMoves
<1> QED
  BY <1>4, <1>5

LEMMA FinalizeDoes ==
    ASSUME TypeOK, RunsHaveRows, NEW r \in Runs, Finalize(r)
    PROVE  /\ At(r, {"finalize"})
           /\ UNCHANGED <<job, project, repo, scope, faults, overtaken, left>>
           /\ Moved(r)
           /\ \/ run'[r].phase = "release" /\ run'[r].project = run[r].project
              \/ /\ JobOf(r).project # Null
                 /\ run'[r].phase = "rules" /\ run'[r].project = JobOf(r).project
<1>1. /\ Busy(r) /\ At(r, {"finalize"})
      /\ UNCHANGED <<job, project, repo, scope, faults, overtaken, left>>
  BY DEF Finalize, At, past
<1>2. {"release", "rules"} \subseteq Phases
  BY DEF Phases, Driving
<1>3. CASE Go(r, "release")
  BY <1>1, <1>2, <1>3, GoMoves
<1>4. CASE /\ JobOf(r).project # Null
           /\ run' = [run EXCEPT ![r].phase = "rules", ![r].project = JobOf(r).project]
  BY <1>1, <1>2, <1>4, TakesProject
<1> QED
  BY <1>3, <1>4 DEF Finalize

LEMMA PublishDoes ==
    ASSUME TypeOK, RunsHaveRows, NEW r \in Runs, Publish(r)
    PROVE  /\ At(r, {"publishing"})
           /\ UNCHANGED <<job, project, scope, faults, overtaken, left>>
           /\ repo' = repo \union {run[r].project}
           /\ Moved(r) /\ run'[r].project = run[r].project /\ run'[r].phase = "published"
<1> DEFINE new == [run[r] EXCEPT !.phase = "published", !.pushed = TRUE]
<1>1. /\ Busy(r) /\ At(r, {"publishing"})
      /\ UNCHANGED <<job, project, scope, faults, overtaken, left>>
      /\ repo' = repo \union {run[r].project}
      /\ run' = [run EXCEPT ![r].phase = "published", ![r].pushed = TRUE]
  BY DEF Publish, At, past
<1>2. run[r] \in Run
  BY <1>1, RunTyped
<1>3. /\ new \in Run /\ new.job = run[r].job /\ new.worker = run[r].worker
      /\ new.phase = "published" /\ new.project = run[r].project
  BY <1>2 DEF Run, Phases, Driving
<1>4. run' = [run EXCEPT ![r] = new]
  BY <1>1 DEF TypeOK
<1> HIDE DEF new
<1> QED
  BY <1>1, <1>3, <1>4, Moves

LEMMA ReadinessDoes ==
    ASSUME TypeOK, RunsHaveRows, NEW r \in Runs, Readiness(r)
    PROVE  /\ At(r, {"readiness"})
           /\ UNCHANGED <<job, project, repo, overtaken, left>>
           /\ scope' \in [jobs : SUBSET Jobs, workers : SUBSET Workers, faults : Nat, kinds : SUBSET Faults]
           /\ faults \subseteq faults' /\ faults' \subseteq Faults
           /\ Moved(r) /\ run'[r].project = run[r].project
           /\ \/ run'[r].phase = "release"
              \/ /\ run'[r].phase = "rollback" /\ run'[r].cause = "error"
                 /\ "readiness" \in faults'
<1>1. Busy(r) /\ At(r, {"readiness"}) /\ UNCHANGED <<job, project, repo>>
  BY DEF Readiness, At
<1>2. CASE Go(r, "release") /\ UNCHANGED <<scope, past>>
  <2>1. "release" \in Phases
    BY DEF Phases, Driving
  <2> QED
    BY <1>1, <1>2, <2>1, GoMoves DEF past, TypeOK
<1>3. CASE Throw(r, "error") /\ Fault("readiness") /\ UNCHANGED left
  BY <1>1, <1>3, ThrowMoves, FaultDoes
<1> QED
  BY <1>2, <1>3 DEF Readiness

LEMMA RollBackDoes ==
    ASSUME TypeOK, RunsHaveRows, NEW r \in Runs, RollBack(r)
    PROVE  /\ At(r, {"rollback"}) /\ TakenAway(r)
           /\ Moved(r) /\ run'[r].project = run[r].project
           /\ \/ run[r].cause = "cancelled" /\ run'[r].phase = "release"
              \/ run[r].cause # "cancelled" /\ run'[r].phase = "fail"
<1>1. Busy(r) /\ At(r, {"rollback"})
  BY DEF RollBack, At
<1>2. TakenAway(r)
  BY <1>1, TakesAway DEF RollBack
<1>3. {"release", "fail"} \subseteq Phases
  BY DEF Phases, Driving
<1>4. CASE run[r].cause = "cancelled"
  <2>1. Go(r, "release")
    BY <1>4 DEF RollBack
  <2> QED
    BY <1>1, <1>2, <1>3, <1>4, <2>1, GoMoves
<1>5. CASE run[r].cause # "cancelled"
  <2>1. Go(r, "fail")
    BY <1>5 DEF RollBack
  <2> QED
    BY <1>1, <1>2, <1>3, <1>5, <2>1, GoMoves
<1> QED
  BY <1>4, <1>5

LEMMA FailDoes ==
    ASSUME TypeOK, RunsHaveRows, NEW r \in Runs, Fail(r)
    PROVE  /\ At(r, {"fail"}) /\ UNCHANGED <<project, repo, scope, faults, overtaken, left>>
           /\ Moved(r) /\ run'[r].project = run[r].project /\ run'[r].phase = "release"
           /\ \/ Written(r, "failed", "release") /\ ProjectKept(run[r].job)
              \/ ~Updatable(run[r].job) /\ job' = job
<1>1. /\ Busy(r) /\ At(r, {"fail"})
      /\ UNCHANGED <<project, repo, scope, faults, overtaken, left>>
      /\ Go(r, "release")
  BY DEF Fail, At, past
<1>2. run[r].job \in Jobs /\ job[run[r].job] # Null
  BY <1>1, RunTyped DEF RunsHaveRows
<1>3. Moved(r) /\ run'[r].project = run[r].project /\ run'[r].phase = "release"
  <2>1. "release" \in Phases
    BY DEF Phases, Driving
  <2> QED
    BY <1>1, <2>1, GoMoves
<1>4. CASE Updatable(run[r].job)
  <2>1. job' = [job EXCEPT ![run[r].job] = Failed(run[r].job)]
    BY <1>4 DEF Fail
  <2>2. Wrote(run[r].job) /\ job'[run[r].job] = Failed(run[r].job)
    BY <1>2, <2>1, FailedTyped, Writes
  <2> QED
    BY <1>1, <1>2, <1>3, <1>4, <2>2, FailedTyped DEF Written, LockKept, ProjectKept
<1>5. CASE ~Updatable(run[r].job)
  BY <1>1, <1>3, <1>5 DEF Fail
<1> QED
  BY <1>4, <1>5

\* The end of a run's lease: its own lock is cleared, or the one somebody else took
\* is left alone.
LEMMA ReleaseLockDoes ==
    ASSUME TypeOK, RunsHaveRows, NEW r \in Runs, ReleaseLock(r)
    PROVE  /\ At(r, {"release"}) /\ UNCHANGED <<project, repo, scope, faults, overtaken, left>>
           /\ \/ Moved(r) /\ run'[r].project = run[r].project /\ run'[r].phase = "maybe"
              \/ Ended(r)
           /\ \/ /\ Wrote(run[r].job) /\ StatusKept(run[r].job) /\ ProjectKept(run[r].job)
                 /\ JobOf(r).lockedBy = run[r].worker
              \/ job' = job
<1>1. Busy(r) /\ At(r, {"release"}) /\ UNCHANGED <<project, repo, scope, faults, overtaken, left>>
  BY DEF ReleaseLock, At, past
<1>2. run[r].job \in Jobs /\ job[run[r].job] # Null
  BY <1>1, RunTyped DEF RunsHaveRows
<1>3. \/ Moved(r) /\ run'[r].project = run[r].project /\ run'[r].phase = "maybe"
      \/ Ended(r)
  BY <1>1, GoMoves, EndMoves, Membership DEF ReleaseLock
<1>4. CASE JobOf(r).lockedBy = run[r].worker
  <2>1. job' = [job EXCEPT ![run[r].job] = Unlocked(run[r].job)]
    BY <1>4 DEF ReleaseLock
  <2>2. Wrote(run[r].job) /\ job'[run[r].job] = Unlocked(run[r].job)
    BY <1>2, <2>1, UnlockedTyped, Writes
  <2> QED
    BY <1>1, <1>2, <1>3, <1>4, <2>2, UnlockedTyped DEF StatusKept, ProjectKept
<1>5. CASE JobOf(r).lockedBy # run[r].worker
  BY <1>1, <1>3, <1>5 DEF ReleaseLock
<1> QED
  BY <1>4, <1>5

\* The reconciler takes over a setup that nobody holds: provisioning starts again with
\* undoing what the row records.
LEMMA RecoverProvisioningDoes ==
    ASSUME TypeOK, NEW w \in Workers, NEW j \in Jobs, RecoverProvisioning(w, j)
    PROVE  /\ UNCHANGED <<project, repo, scope, faults, left>>
           /\ Claims(j, w, Provisioning)
           /\ \E r \in Runs, new \in Run :
                 /\ Launched(r, new) /\ new.job = j /\ new.worker = w
                 /\ new.phase = "undo" /\ new.project = job[j].project
<1> DEFINE new == [NewRun(w, j, "undo") EXCEPT !.project = job[j].project, !.then = "maybe"]
<1>1. /\ UNCHANGED <<project, repo, scope, faults, left>>
      /\ Claimable(j, Provisioning) /\ Launch(new)
      /\ job' = [job EXCEPT ![j] = Claimed(j, w)]
      /\ overtaken' = IF \E s \in Runs : GivesUp(s, j) THEN overtaken \union {j} ELSE overtaken
  BY Zenon DEF RecoverProvisioning, Overtakes
<1>2. job[j] # Null
  BY <1>1 DEF Claimable
<1>3. Claims(j, w, Provisioning)
  BY <1>1, ClaimWrites
<1>4. "undo" \in Phases
  BY DEF Phases, Driving
<1>5. /\ new \in Run /\ new.job = j /\ new.worker = w /\ new.phase = "undo"
      /\ new.project = job[j].project
  <2>1. /\ NewRun(w, j, "undo") \in Run /\ NewRun(w, j, "undo").job = j
        /\ NewRun(w, j, "undo").phase = "undo" /\ NewRun(w, j, "undo").worker = w
    BY <1>4, NewRunTyped
  <2>2. job[j].project \in Projects \union {Null}
    BY <1>2, RowTyped
  <2> QED
    BY <2>1, <2>2 DEF Run
<1> HIDE DEF new
<1>6. \E r \in Runs : Launched(r, new)
  BY <1>1, <1>5, LaunchMoves
<1> QED
  BY <1>1, <1>3, <1>5, <1>6

LEMMA RecoverFinalizationDoes ==
    ASSUME TypeOK, NEW w \in Workers, NEW j \in Jobs, RecoverFinalization(w, j)
    PROVE  /\ UNCHANGED <<project, repo, scope, faults, left>>
           /\ Claims(j, w, Finalization)
           /\ \E r \in Runs : Launched(r, NewRun(w, j, "resume"))
<1>1. /\ UNCHANGED <<project, repo, scope, faults, left>>
      /\ Claimable(j, Finalization) /\ Launch(NewRun(w, j, "resume"))
      /\ job' = [job EXCEPT ![j] = Claimed(j, w)]
      /\ overtaken' = IF \E s \in Runs : GivesUp(s, j) THEN overtaken \union {j} ELSE overtaken
  BY Zenon DEF RecoverFinalization, Overtakes, Begin
<1>2. "resume" \in Phases
  BY DEF Phases, Driving
<1> QED
  BY <1>1, <1>2, ClaimWrites, NewRunTyped, LaunchMoves

\* It looks again at setups that wait, and at cancelled ones whose worker died.
LEMMA RecoverAwaitingDoes ==
    ASSUME TypeOK, NEW w \in Workers, NEW j \in Jobs, RecoverAwaiting(w, j)
    PROVE  /\ UNCHANGED <<job, project, repo, scope, faults, overtaken, left>>
           /\ job[j] # Null /\ job[j].status = "awaiting_context"
           /\ \E r \in Runs : Launched(r, NewRun(w, j, "maybe"))
<1>1. /\ UNCHANGED <<job, project, repo, scope, faults, overtaken, left>>
      /\ Claimable(j, {"awaiting_context"}) /\ Launch(NewRun(w, j, "maybe"))
  BY DEF RecoverAwaiting, Begin, past
<1> QED
  BY <1>1, Membership, NewRunTyped, LaunchMoves DEF Claimable

LEMMA RecoverCancelledDoes ==
    ASSUME TypeOK, NEW w \in Workers, NEW j \in Jobs, RecoverCancelled(w, j)
    PROVE  /\ UNCHANGED <<job, project, repo, scope, faults, overtaken, left>>
           /\ job[j] # Null /\ job[j].status = "cancelled"
           /\ \E r \in Runs : Launched(r, NewRun(w, j, "claimCleanup"))
<1>1. /\ UNCHANGED <<job, project, repo, scope, faults, overtaken, left>>
      /\ job[j] # Null /\ job[j].status = "cancelled"
      /\ Launch(NewRun(w, j, "claimCleanup"))
  BY DEF RecoverCancelled, Begin, past
<1> QED
  BY <1>1, Membership, NewRunTyped, LaunchMoves

\* It gives up a setup that is out of attempts, as it was listed.
LEMMA RecoverExhaustedDoes ==
    ASSUME TypeOK, NEW w \in Workers, NEW j \in Jobs, RecoverExhausted(w, j)
    PROVE  /\ UNCHANGED <<job, project, repo, scope, faults, overtaken, left>>
           /\ job[j] # Null /\ Free(j) /\ job[j].status \in Provisioning \union Finalization
           /\ \E r \in Runs, new \in Run :
                 /\ Launched(r, new) /\ new.job = j
                 /\ new.phase = "exhausted" /\ new.project = job[j].project
<1> DEFINE new == [NewRun(w, j, "exhausted") EXCEPT
                     !.project = job[j].project, !.pushed = job[j].status = "publishing"]
<1>1. /\ UNCHANGED <<job, project, repo, scope, faults, overtaken, left>>
      /\ Claimable(j, Provisioning \union Finalization) /\ Launch(new)
  BY DEF RecoverExhausted, past
<1>2. job[j] # Null /\ Free(j) /\ job[j].status \in Provisioning \union Finalization
  BY <1>1 DEF Claimable
<1>3. /\ new \in Run /\ new.job = j /\ new.phase = "exhausted"
      /\ new.project = job[j].project
  <2>1. /\ NewRun(w, j, "exhausted") \in Run /\ NewRun(w, j, "exhausted").job = j
        /\ NewRun(w, j, "exhausted").phase = "exhausted"
    BY NewRunTyped, Membership
  <2>2. job[j].project \in Projects \union {Null}
    BY <1>2, RowTyped
  <2> QED
    BY <2>1, <2>2 DEF Run
<1> HIDE DEF new
<1>4. \E r \in Runs : Launched(r, new)
  BY <1>1, <1>3, LaunchMoves
<1> QED
  BY <1>1, <1>2, <1>3, <1>4

LEMMA UndoDoes ==
    ASSUME TypeOK, RunsHaveRows, NEW r \in Runs, Undo(r)
    PROVE  /\ At(r, {"undo"}) /\ TakenAway(r)
           /\ Moved(r) /\ run'[r].project = Null /\ run'[r].phase = "requeue"
<1> DEFINE new == [run[r] EXCEPT !.phase = "requeue", !.project = Null]
<1>1. /\ Busy(r) /\ At(r, {"undo"})
      /\ run' = [run EXCEPT ![r].phase = "requeue", ![r].project = Null]
  BY DEF Undo, At
<1>2. TakenAway(r)
  BY <1>1, TakesAway DEF Undo
<1>3. /\ new \in Run /\ new.job = run[r].job /\ new.worker = run[r].worker
      /\ new.phase = "requeue" /\ new.project = Null
  BY <1>1, RunTyped DEF Run, Phases, Driving
<1>4. run' = [run EXCEPT ![r] = new]
  BY <1>1 DEF TypeOK
<1> HIDE DEF new
<1> QED
  BY <1>1, <1>2, <1>3, <1>4, Moves

LEMMA RequeueDoes ==
    ASSUME TypeOK, RunsHaveRows, NEW r \in Runs, Requeue(r)
    PROVE  /\ At(r, {"requeue"}) /\ UNCHANGED <<project, repo, scope, faults, overtaken, left>>
           /\ Moved(r) /\ run'[r].project = run[r].project
           /\ \/ Written(r, "queued", "naming") /\ job'[run[r].job].project = Null
              \/ ~Updatable(run[r].job) /\ job' = job /\ run'[r].phase = "release"
<1> DEFINE row == [job[run[r].job] EXCEPT !.status = "queued", !.project = Null]
<1>1. Busy(r) /\ At(r, {"requeue"}) /\ UNCHANGED <<project, repo, scope, faults, overtaken, left>>
  BY DEF Requeue, At, past
<1>2. run[r].job \in Jobs /\ job[run[r].job] # Null
  BY <1>1, RunTyped DEF RunsHaveRows
<1>3. {"naming", "release"} \subseteq Phases /\ "queued" \in Statuses
  BY DEF Phases, Driving, Statuses, Provisioning
<1>4. CASE Updatable(run[r].job)
  <2>1. Go(r, "naming") /\ job' = [job EXCEPT ![run[r].job] = row]
    BY <1>2, <1>4 DEF Requeue, TypeOK
  <2>2. /\ row \in Job /\ row.status = "queued" /\ row.project = Null
        /\ row.lockedBy = job[run[r].job].lockedBy /\ row.stale = job[run[r].job].stale
    BY <1>2, <1>3, RowTyped DEF Job
  <2> HIDE DEF row
  <2>3. Wrote(run[r].job) /\ job'[run[r].job] = row
    BY <1>2, <2>1, <2>2, Writes
  <2>4. Moved(r) /\ run'[r].phase = "naming" /\ run'[r].project = run[r].project
    BY <1>1, <1>3, <2>1, GoMoves
  <2> QED
    BY <1>1, <1>4, <2>2, <2>3, <2>4 DEF Written, LockKept
<1>5. CASE ~Updatable(run[r].job)
  <2>1. Go(r, "release") /\ job' = job
    BY <1>5 DEF Requeue
  <2> QED
    BY <1>1, <1>3, <1>5, <2>1, GoMoves
<1> QED
  BY <1>4, <1>5

LEMMA CleanUpStoppedDoes ==
    ASSUME TypeOK, RunsHaveRows, NEW r \in Runs, CleanUpStopped(r)
    PROVE  /\ TakenAway(r)
           /\ Moved(r) /\ run'[r].project = run[r].project
           /\ \/ At(r, {"cleanup"}) /\ run'[r].phase = "clearLock"
              \/ At(r, {"exhausted"}) /\ run'[r].phase = "giveUp"
<1>1. Busy(r) /\ At(r, {"cleanup", "exhausted"})
  BY DEF CleanUpStopped, At
<1>2. TakenAway(r)
  BY <1>1, TakesAway DEF CleanUpStopped
<1>3. CASE run[r].phase = "cleanup"
  <2>1. Go(r, "clearLock")
    BY <1>3 DEF CleanUpStopped
  <2> QED
    BY <1>1, <1>2, <1>3, <2>1, GoMoves, Membership DEF At
<1>4. CASE run[r].phase = "exhausted"
  <2>1. Go(r, "giveUp")
    BY <1>4 DEF CleanUpStopped
  <2> QED
    BY <1>1, <1>2, <1>4, <2>1, GoMoves, Membership DEF At
<1> QED
  BY <1>1, <1>3, <1>4 DEF At

LEMMA ClearLockDoes ==
    ASSUME TypeOK, RunsHaveRows, NEW r \in Runs, ClearLock(r)
    PROVE  /\ At(r, {"clearLock"}) /\ UNCHANGED <<project, repo, scope, faults, overtaken, left>>
           /\ Ended(r)
           /\ Wrote(run[r].job) /\ StatusKept(run[r].job) /\ ProjectKept(run[r].job)
<1>1. /\ Busy(r) /\ At(r, {"clearLock"})
      /\ UNCHANGED <<project, repo, scope, faults, overtaken, left>>
      /\ End(r) /\ job' = [job EXCEPT ![run[r].job] = Unlocked(run[r].job)]
  BY DEF ClearLock, At, past
<1>2. run[r].job \in Jobs /\ job[run[r].job] # Null
  BY <1>1, RunTyped DEF RunsHaveRows
<1>3. Wrote(run[r].job) /\ job'[run[r].job] = Unlocked(run[r].job)
  BY <1>1, <1>2, UnlockedTyped, Writes
<1> QED
  BY <1>1, <1>2, <1>3, UnlockedTyped, EndMoves DEF StatusKept, ProjectKept

LEMMA GiveUpDoes ==
    ASSUME TypeOK, RunsHaveRows, NEW r \in Runs, GiveUp(r)
    PROVE  /\ At(r, {"giveUp"}) /\ UNCHANGED <<project, repo, scope, faults, overtaken, left>>
           /\ Ended(r)
           /\ \/ /\ Updatable(run[r].job)
                 /\ Wrote(run[r].job) /\ ProjectKept(run[r].job)
                 /\ job'[run[r].job].status = "failed"
              \/ ~Updatable(run[r].job) /\ job' = job
<1> DEFINE row == [Failed(run[r].job) EXCEPT !.lockedBy = Null, !.stale = FALSE]
<1>1. /\ Busy(r) /\ At(r, {"giveUp"})
      /\ UNCHANGED <<project, repo, scope, faults, overtaken, left>>
      /\ End(r)
      /\ job' = IF Updatable(run[r].job) THEN [job EXCEPT ![run[r].job] = row] ELSE job
  BY DEF GiveUp, At, past
<1>2. run[r].job \in Jobs /\ job[run[r].job] # Null
  BY <1>1, RunTyped DEF RunsHaveRows
<1>3. Failed(run[r].job) \in Job
  BY <1>2, FailedTyped
<1>4. row \in Job /\ row.status = "failed" /\ row.project = job[run[r].job].project
  BY <1>2, <1>3, FailedTyped DEF Job
<1> HIDE DEF row
<1>5. CASE Updatable(run[r].job)
  <2>1. Wrote(run[r].job) /\ job'[run[r].job] = row
    BY <1>1, <1>2, <1>4, <1>5, Writes
  <2> QED
    BY <1>1, <1>4, <1>5, <2>1, EndMoves DEF ProjectKept
<1>6. CASE ~Updatable(run[r].job)
  BY <1>1, <1>6, EndMoves
<1> QED
  BY <1>5, <1>6

LEMMA ForgetCredentialsDoes ==
    ASSUME TypeOK, NEW j \in Jobs, ForgetCredentials(j)
    PROVE  /\ UNCHANGED <<project, repo, run, scope, faults, overtaken, left>>
           /\ job[j] # Null /\ Wrote(j)
           /\ StatusKept(j) /\ ProjectKept(j) /\ LockKept(j)
<1> DEFINE new == [job[j] EXCEPT !.credentials = FALSE]
<1>1. /\ UNCHANGED <<project, repo, run, scope, faults, overtaken, left>>
      /\ job[j] # Null /\ job' = [job EXCEPT ![j] = new]
  BY DEF ForgetCredentials, past, TypeOK
<1>2. /\ new \in Job /\ new.status = job[j].status /\ new.project = job[j].project
      /\ new.lockedBy = job[j].lockedBy /\ new.stale = job[j].stale
  BY <1>1, RowTyped DEF Job
<1> HIDE DEF new
<1>3. Wrote(j) /\ job'[j] = new
  BY <1>1, <1>2, Writes
<1> QED
  BY <1>1, <1>2, <1>3 DEF StatusKept, ProjectKept, LockKept

\* A lease goes stale when its process has no run on the setup, or stalls.
LEMMA LeaseEndsDoes ==
    ASSUME TypeOK, NEW j \in Jobs, LeaseEnds(j)
    PROVE  /\ UNCHANGED <<project, repo, run, overtaken, left>>
           /\ scope' \in [jobs : SUBSET Jobs, workers : SUBSET Workers, faults : Nat, kinds : SUBSET Faults]
           /\ faults \subseteq faults' /\ faults' \subseteq Faults
           /\ job[j] # Null /\ Wrote(j) /\ StatusKept(j) /\ ProjectKept(j)
           /\ job'[j].lockedBy = job[j].lockedBy
           /\ "stall" \in faults' \/ ~(\E r \in Runs : Drives(r, j))
<1> DEFINE new == [job[j] EXCEPT !.stale = TRUE]
<1>1. /\ UNCHANGED <<project, repo, run>>
      /\ job[j] # Null /\ job' = [job EXCEPT ![j] = new]
  BY DEF LeaseEnds, TypeOK
<1>2. /\ overtaken' = overtaken /\ left' = left
      /\ scope' \in [jobs : SUBSET Jobs, workers : SUBSET Workers, faults : Nat, kinds : SUBSET Faults]
      /\ faults \subseteq faults' /\ faults' \subseteq Faults
      /\ "stall" \in faults' \/ ~(\E r \in Runs : Drives(r, j))
  <2>1. CASE ~(\E r \in Runs : Drives(r, j)) /\ UNCHANGED <<scope, past>>
    BY <2>1 DEF past, TypeOK
  <2>2. CASE Fault("stall") /\ UNCHANGED left
    BY <2>2, FaultDoes
  <2> QED
    BY <2>1, <2>2 DEF LeaseEnds
<1>3. /\ new \in Job /\ new.status = job[j].status /\ new.project = job[j].project
      /\ new.lockedBy = job[j].lockedBy
  BY <1>1, RowTyped DEF Job
<1> HIDE DEF new
<1>4. Wrote(j) /\ job'[j] = new
  BY <1>1, <1>3, Writes
<1> QED
  BY <1>1, <1>2, <1>3, <1>4 DEF StatusKept, ProjectKept

LEMMA HeartbeatDoes ==
    ASSUME TypeOK, RunsHaveRows, NEW r \in Runs, Heartbeat(r)
    PROVE  /\ UNCHANGED <<project, repo, run, scope, faults, overtaken, left>>
           /\ Busy(r) /\ JobOf(r).lockedBy = run[r].worker /\ JobOf(r).stale
           /\ Wrote(run[r].job) /\ StatusKept(run[r].job) /\ ProjectKept(run[r].job)
           /\ job'[run[r].job].lockedBy = run[r].worker
<1> DEFINE new == [job[run[r].job] EXCEPT !.stale = FALSE]
<1>1. /\ UNCHANGED <<project, repo, run, scope, faults, overtaken, left>>
      /\ Busy(r) /\ JobOf(r).lockedBy = run[r].worker /\ JobOf(r).stale
      /\ job' = [job EXCEPT ![run[r].job] = new]
  BY DEF Heartbeat, past, At, TypeOK
<1>2. run[r].job \in Jobs /\ job[run[r].job] # Null
  BY <1>1, RunTyped DEF RunsHaveRows
<1>3. /\ new \in Job /\ new.status = job[run[r].job].status
      /\ new.project = job[run[r].job].project
      /\ new.lockedBy = job[run[r].job].lockedBy
  BY <1>2, RowTyped DEF Job
<1> HIDE DEF new
<1>4. Wrote(run[r].job) /\ job'[run[r].job] = new
  BY <1>1, <1>2, <1>3, Writes
<1> QED
  BY <1>1, <1>3, <1>4 DEF StatusKept, ProjectKept, JobOf

\* A process dies with its runs.
LEMMA CrashDoes ==
    ASSUME TypeOK, NEW w, Crash(w)
    PROVE  /\ UNCHANGED <<job, project, repo, overtaken, left>>
           /\ scope' \in [jobs : SUBSET Jobs, workers : SUBSET Workers, faults : Nat, kinds : SUBSET Faults]
           /\ faults' = faults \union {"crash"} /\ faults' \subseteq Faults
           /\ run' \in [Runs -> Run \union {Null}]
           /\ \A r \in Runs : run'[r] = Null \/ run'[r] = run[r]
<1>1. /\ UNCHANGED <<job, project, repo, left>> /\ Fault("crash")
      /\ run' = [r \in Runs |-> IF Busy(r) /\ run[r].worker = w THEN Null ELSE run[r]]
  BY DEF Crash
<1>2. /\ run' \in [Runs -> Run \union {Null}]
      /\ \A r \in Runs : run'[r] = Null \/ run'[r] = run[r]
  BY <1>1 DEF TypeOK
<1> QED
  BY <1>1, <1>2, FaultDoes

\* A statement that throws sends a run to undo what it did, or ends it; what has to be
\* undone stays with it.
LEMMA StatementFailsDoes ==
    ASSUME TypeOK, RunsHaveRows, NEW r \in Runs, StatementFails(r)
    PROVE  /\ UNCHANGED <<job, project, repo, overtaken, left>>
           /\ scope' \in [jobs : SUBSET Jobs, workers : SUBSET Workers, faults : Nat, kinds : SUBSET Faults]
           /\ faults \subseteq faults' /\ faults' \subseteq Faults
           /\ \/ /\ At(r, {"naming", "initializing", "debugging", "syncing", "record",
                           "secrets", "rules", "published"})
                 /\ Moved(r) /\ run'[r].project = run[r].project
                 /\ run'[r].phase = "rollback" /\ run'[r].cause = "error"
              \/ /\ At(r, {"undo", "requeue"})
                 /\ Moved(r) /\ run'[r].project = run[r].project /\ run'[r].phase = "fail"
              \/ At(r, {"fail"}) /\ run' = run
              \/ /\ At(r, {"toFinalizing", "resume", "fail"})
                 /\ Moved(r) /\ run'[r].project = run[r].project /\ run'[r].phase = "release"
              \/ /\ At(r, {"claim", "maybe", "claimFinal", "claimCleanup", "release",
                           "clearLock", "giveUp"})
                 /\ Ended(r)
<1>1. UNCHANGED <<job, project, repo, left>> /\ Fault("statement")
  BY DEF StatementFails
<1>2. /\ overtaken' = overtaken
      /\ scope' \in [jobs : SUBSET Jobs, workers : SUBSET Workers, faults : Nat, kinds : SUBSET Faults]
      /\ faults \subseteq faults' /\ faults' \subseteq Faults
  BY <1>1, FaultDoes
<1>3. {"fail", "release"} \subseteq Phases
  BY DEF Phases, Driving
<1>4. CASE /\ At(r, {"naming", "initializing", "debugging", "syncing", "record", "secrets",
                     "rules", "published"})
           /\ Throw(r, "error")
  BY <1>1, <1>2, <1>4, ThrowMoves DEF At
<1>5. CASE At(r, {"undo", "requeue"}) /\ Go(r, "fail")
  BY <1>1, <1>2, <1>3, <1>5, GoMoves DEF At
<1>6. CASE At(r, {"fail"}) /\ UNCHANGED run
  BY <1>1, <1>2, <1>6
<1>7. CASE At(r, {"toFinalizing", "resume", "fail"}) /\ Go(r, "release")
  BY <1>1, <1>2, <1>3, <1>7, GoMoves DEF At
<1>8. CASE /\ At(r, {"claim", "maybe", "claimFinal", "claimCleanup", "release", "clearLock",
                     "giveUp"})
           /\ End(r)
  BY <1>1, <1>2, <1>8, EndMoves
<1> QED
  BY <1>4, <1>5, <1>6, <1>7, <1>8 DEF StatementFails

(***************************************************************************)
(* Typing                                                                  *)
(***************************************************************************)

\* From the registration of a project to its publication a run has one.
HasProject ==
    \A r \in Runs :
        At(r, {"registering", "record", "secrets", "rules", "publishing", "published"})
            => run[r].project # Null

TypeInv == TypeOK /\ RunsHaveRows /\ HasProject

\* Every step is one of these, taken by a worker there is.
LEMMA Steps ==
    ASSUME TypeOK, Next
    PROVE  \/ \E w \in Workers, j \in Jobs :
                 \/ Start(w, j) \/ Submit(w, j) \/ Cancel(w, j)
                 \/ RecoverProvisioning(w, j) \/ RecoverAwaiting(w, j)
                 \/ RecoverFinalization(w, j) \/ RecoverExhausted(w, j)
                 \/ RecoverCancelled(w, j)
           \/ \E w \in Workers, i \in Jobs, j \in Jobs : Retry(w, i, j)
           \/ \E r \in Runs : Step(r) \/ Heartbeat(r) \/ StatementFails(r)
           \/ \E j \in Jobs : LeaseEnds(j) \/ ForgetCredentials(j)
           \/ \E w \in Workers : Crash(w)
<1>1. scope.workers \subseteq Workers
  BY DEF TypeOK
<1>2. CASE User
  BY <1>1, <1>2 DEF User
<1>3. CASE \E w \in scope.workers, j \in Jobs : Reconcile(w, j)
  BY <1>1, <1>3 DEF Reconcile
<1> QED
  BY <1>1, <1>2, <1>3 DEF Next

LEMMA InitTyped == Init => TypeInv
<1> SUFFICES ASSUME Init PROVE TypeInv
  OBVIOUS
<1>1. TypeOK
  BY ProvisioningAssumption DEF Init, TypeOK
<1>2. \A r \in Runs : ~Busy(r)
  BY DEF Init, Busy
<1> QED
  BY <1>1, <1>2 DEF TypeInv, RunsHaveRows, HasProject, At

\* What a step writes is typed, no row goes, and a run is launched for a row there is.
Lasting ==
    /\ job' \in [Jobs -> Job \union {Null}]
    /\ \A j \in Jobs : job[j] # Null => job'[j] # Null
    /\ project' \in [Projects -> Jobs \union {"fresh", "deleted"}]
    /\ repo' \subseteq Projects
    /\ scope' \in [jobs : SUBSET Jobs, workers : SUBSET Workers, faults : Nat, kinds : SUBSET Faults]
    /\ faults' \subseteq Faults /\ overtaken' \subseteq Jobs /\ left' \subseteq Projects

LEMMA MoveTyped ==
    ASSUME TypeInv, NEW r \in Runs, Busy(r), Moved(r) \/ Ended(r), Lasting,
           At(r, {"registering", "record", "secrets", "rules", "publishing", "published"})' =>
               run'[r].project # Null
    PROVE  TypeInv'
<1>1. run[r].job \in Jobs /\ \A s \in Runs : Busy(s) => run[s].job \in Jobs
  BY RunTyped DEF TypeInv
<1>2. RunsHaveRows'
  BY <1>1 DEF TypeInv, RunsHaveRows, Moved, Ended, Busy, Lasting
<1>3. HasProject'
  BY DEF TypeInv, HasProject, Moved, Ended, At, Busy
<1>4. TypeOK'
  BY DEF TypeOK, Lasting, Moved, Ended
<1> QED
  BY <1>2, <1>3, <1>4 DEF TypeInv

LEMMA LaunchTyped ==
    ASSUME TypeInv, NEW r \in Runs, NEW new, Launched(r, new), Lasting,
           new.job \in Jobs, job'[new.job] # Null,
           new.phase \in {"claim", "maybe", "claimCleanup", "undo", "resume", "exhausted"}
    PROVE  TypeInv'
<1>1. \A s \in Runs : Busy(s) => run[s].job \in Jobs
  BY RunTyped DEF TypeInv
<1>2. RunsHaveRows'
  BY <1>1 DEF TypeInv, RunsHaveRows, Launched, Busy, Lasting
<1>3. HasProject'
  BY DEF TypeInv, HasProject, Launched, At, Busy
<1>4. TypeOK'
  BY DEF TypeOK, Lasting, Launched
<1> QED
  BY <1>2, <1>3, <1>4 DEF TypeInv

\* No run is launched or moves, though some may end.
LEMMA RestTyped ==
    ASSUME TypeInv, Lasting, run' \in [Runs -> Run \union {Null}],
           \A r \in Runs : run'[r] = Null \/ run'[r] = run[r]
    PROVE  TypeInv'
<1>1. \A s \in Runs : Busy(s) => run[s].job \in Jobs
  BY RunTyped DEF TypeInv
<1>2. RunsHaveRows'
  BY <1>1 DEF TypeInv, RunsHaveRows, Busy, Lasting
<1>3. HasProject'
  BY DEF TypeInv, HasProject, At, Busy
<1>4. TypeOK'
  BY DEF TypeOK, Lasting
<1> QED
  BY <1>2, <1>3, <1>4 DEF TypeInv

LEMMA ClaimsTyped ==
    ASSUME TypeOK, NEW j \in Jobs, NEW w, NEW statuses, Claims(j, w, statuses)
    PROVE  /\ job' \in [Jobs -> Job \union {Null}] /\ overtaken' \subseteq Jobs
           /\ job'[j] # Null /\ \A i \in Jobs \ {j} : job'[i] = job[i]
<1>1. overtaken' = overtaken \/ overtaken' = overtaken \union {j}
  BY Zenon DEF Claims
<1> QED
  BY <1>1 DEF TypeOK, Claims, Wrote

LEMMA NextTyped == TypeInv /\ [Next]_vars => TypeInv'
<1> SUFFICES ASSUME TypeInv, [Next]_vars PROVE TypeInv'
  OBVIOUS
<1>0. TypeOK /\ RunsHaveRows /\ HasProject
  BY DEF TypeInv
<1>1. ASSUME NEW w \in Workers, NEW j \in Jobs, Start(w, j)
      PROVE  TypeInv'
  <2>1. Lasting /\ job'[j] # Null
    BY <1>0, <1>1, StartDoes DEF Lasting, TypeOK, Wrote
  <2> QED
    BY <1>1, <1>0, <2>1, StartDoes, LaunchTyped, NewRunTyped, Membership DEF Phases, Driving
<1>2. ASSUME NEW w \in Workers, NEW j \in Jobs, RecoverAwaiting(w, j)
      PROVE  TypeInv'
  <2>1. Lasting /\ job'[j] # Null
    BY <1>0, <1>2, RecoverAwaitingDoes DEF Lasting, TypeOK, Wrote
  <2> QED
    BY <1>2, <1>0, <2>1, RecoverAwaitingDoes, LaunchTyped, NewRunTyped, Membership DEF Phases, Driving
<1>3. ASSUME NEW w \in Workers, NEW j \in Jobs, RecoverFinalization(w, j)
      PROVE  TypeInv'
  <2>1. Lasting /\ job'[j] # Null
    BY <1>0, <1>3, RecoverFinalizationDoes, ClaimsTyped DEF Lasting, TypeOK, Wrote
  <2> QED
    BY <1>3, <1>0, <2>1, RecoverFinalizationDoes, LaunchTyped, NewRunTyped, Membership DEF Phases, Driving
<1>4. ASSUME NEW w \in Workers, NEW j \in Jobs, RecoverCancelled(w, j)
      PROVE  TypeInv'
  <2>1. Lasting /\ job'[j] # Null
    BY <1>0, <1>4, RecoverCancelledDoes DEF Lasting, TypeOK, Wrote
  <2> QED
    BY <1>4, <1>0, <2>1, RecoverCancelledDoes, LaunchTyped, NewRunTyped, Membership DEF Phases, Driving
<1>5. ASSUME NEW w \in Workers, NEW j \in Jobs, RecoverProvisioning(w, j)
      PROVE  TypeInv'
  <2>1. Lasting /\ job'[j] # Null
    BY <1>0, <1>5, RecoverProvisioningDoes, ClaimsTyped DEF Lasting, TypeOK
  <2> QED
    BY <1>5, <1>0, <2>1, RecoverProvisioningDoes, LaunchTyped
<1>6. ASSUME NEW w \in Workers, NEW j \in Jobs, RecoverExhausted(w, j)
      PROVE  TypeInv'
  <2>1. Lasting /\ job'[j] # Null
    BY <1>0, <1>6, RecoverExhaustedDoes DEF Lasting, TypeOK
  <2> QED
    BY <1>6, <1>0, <2>1, RecoverExhaustedDoes, LaunchTyped
<1>7. ASSUME NEW w \in Workers, NEW j \in Jobs, Submit(w, j)
      PROVE  TypeInv'
  <2>1. Lasting /\ job'[j] # Null
    BY <1>0, <1>7, SubmitDoes DEF Lasting, TypeOK, Wrote
  <2>2. CASE run' = run
    BY <1>0, <2>1, <2>2, RestTyped DEF TypeOK
  <2>3. CASE \E r \in Runs : Launched(r, NewRun(w, j, "maybe"))
    BY <2>1, <2>3, LaunchTyped, NewRunTyped, Membership
  <2> QED
    BY <1>0, <1>7, <2>2, <2>3, SubmitDoes
<1>8. ASSUME NEW w \in Workers, NEW j \in Jobs, Cancel(w, j)
      PROVE  TypeInv'
  <2>1. Lasting /\ job'[j] # Null
    BY <1>0, <1>8, CancelDoes DEF Lasting, TypeOK, Wrote
  <2>2. CASE run' = run
    BY <1>0, <2>1, <2>2, RestTyped DEF TypeOK
  <2>3. CASE \E r \in Runs : Launched(r, NewRun(w, j, "claimCleanup"))
    BY <2>1, <2>3, LaunchTyped, NewRunTyped, Membership
  <2> QED
    BY <1>0, <1>8, <2>2, <2>3, CancelDoes
<1>9. ASSUME NEW w \in Workers, NEW i \in Jobs, NEW j \in Jobs, Retry(w, i, j)
      PROVE  TypeInv'
  <2>1. Lasting /\ job'[j] # Null
    BY <1>0, <1>9, RetryDoes DEF Lasting, TypeOK
  <2> QED
    BY <1>0, <1>9, <2>1, RetryDoes, LaunchTyped, NewRunTyped, Membership
<1>10. ASSUME NEW r \in Runs, ClaimQueued(r)
      PROVE  TypeInv'
  <2>1. Lasting
    BY <1>0, <1>10, ClaimQueuedDoes, RunTyped, ClaimsTyped DEF Lasting, TypeOK, At, Wrote, Written, Refused, Cleared
  <2> QED
    BY <1>0, <1>10, <2>1, ClaimQueuedDoes, MoveTyped, ProvisioningAssumption
       DEF At, Busy, HasProject, Unused, Written, Refused, Ended
<1>11. ASSUME NEW r \in Runs, CheckName(r)
      PROVE  TypeInv'
  <2>1. Lasting
    BY <1>0, <1>11, CheckNameDoes DEF Lasting, TypeOK, At, Wrote, Written, Refused, Cleared
  <2> QED
    BY <1>0, <1>11, <2>1, CheckNameDoes, MoveTyped, ProvisioningAssumption
       DEF At, Busy, HasProject, Unused, Written, Refused, Ended
<1>12. ASSUME NEW r \in Runs, Advance(r)
      PROVE  TypeInv'
  <2>1. Lasting
    BY <1>0, <1>12, AdvanceDoes DEF Lasting, TypeOK, At, Wrote, Written, Refused, Cleared
  <2> QED
    BY <1>0, <1>12, <2>1, AdvanceDoes, MoveTyped, ProvisioningAssumption
       DEF At, Busy, HasProject, Unused, Written, Refused, Ended
<1>13. ASSUME NEW r \in Runs, Synced(r)
      PROVE  TypeInv'
  <2>1. Lasting
    BY <1>0, <1>13, SyncedDoes DEF Lasting, TypeOK, At, Wrote, Written, Refused, Cleared
  <2> QED
    BY <1>0, <1>13, <2>1, SyncedDoes, MoveTyped, ProvisioningAssumption
       DEF At, Busy, HasProject, Unused, Written, Refused, Ended
<1>14. ASSUME NEW r \in Runs, Register(r)
      PROVE  TypeInv'
  <2>1. Lasting
    BY <1>0, <1>14, RegisterDoes DEF Lasting, TypeOK, At, Wrote, Written, Refused, Cleared
  <2> QED
    BY <1>0, <1>14, <2>1, RegisterDoes, MoveTyped, ProvisioningAssumption
       DEF At, Busy, HasProject, Unused, Written, Refused, Ended
<1>15. ASSUME NEW r \in Runs, RecordProject(r)
      PROVE  TypeInv'
  <2>1. Lasting
    BY <1>0, <1>15, RecordProjectDoes DEF Lasting, TypeOK, At, Wrote, Written, Refused, Cleared
  <2> QED
    BY <1>0, <1>15, <2>1, RecordProjectDoes, MoveTyped, ProvisioningAssumption
       DEF At, Busy, HasProject, Unused, Written, Refused, Ended
<1>16. ASSUME NEW r \in Runs, AwaitContext(r)
      PROVE  TypeInv'
  <2>1. Lasting
    BY <1>0, <1>16, AwaitContextDoes DEF Lasting, TypeOK, At, Wrote, Written, Refused, Cleared
  <2> QED
    BY <1>0, <1>16, <2>1, AwaitContextDoes, MoveTyped, ProvisioningAssumption
       DEF At, Busy, HasProject, Unused, Written, Refused, Ended
<1>17. ASSUME NEW r \in Runs, StepFails(r)
      PROVE  TypeInv'
  <2>1. Lasting
    BY <1>0, <1>17, StepFailsDoes DEF Lasting, TypeOK, At, Wrote, Written, Refused, Cleared
  <2> QED
    BY <1>0, <1>17, <2>1, StepFailsDoes, MoveTyped, ProvisioningAssumption
       DEF At, Busy, HasProject, Unused, Written, Refused, Ended
<1>18. ASSUME NEW r \in Runs, Maybe(r)
      PROVE  TypeInv'
  <2>1. overtaken' = overtaken \/ overtaken' = overtaken \union {run[r].job}
    BY <1>0, <1>18, MaybeDoes, Zenon
  <2>2. Lasting
    BY <1>0, <1>18, <2>1, MaybeDoes, RunTyped DEF Lasting, TypeOK, At, Wrote, Written, Refused, Cleared
  <2> QED
    BY <1>0, <1>18, <2>2, MaybeDoes, MoveTyped, ProvisioningAssumption
       DEF At, Busy, HasProject, Unused, Written, Refused, Ended
<1>19. ASSUME NEW r \in Runs, ClaimFinal(r)
      PROVE  TypeInv'
  <2>1. Lasting
    BY <1>0, <1>19, ClaimFinalDoes, RunTyped, ClaimsTyped DEF Lasting, TypeOK, At, Wrote, Written, Refused, Cleared
  <2> QED
    BY <1>0, <1>19, <2>1, ClaimFinalDoes, MoveTyped, ProvisioningAssumption
       DEF At, Busy, HasProject, Unused, Written, Refused, Ended
<1>20. ASSUME NEW r \in Runs, ToFinalizing(r)
      PROVE  TypeInv'
  <2>1. Lasting
    BY <1>0, <1>20, ToFinalizingDoes DEF Lasting, TypeOK, At, Wrote, Written, Refused, Cleared
  <2> QED
    BY <1>0, <1>20, <2>1, ToFinalizingDoes, MoveTyped, ProvisioningAssumption
       DEF At, Busy, HasProject, Unused, Written, Refused, Ended
<1>21. ASSUME NEW r \in Runs, Finalize(r)
      PROVE  TypeInv'
  <2>1. Lasting
    BY <1>0, <1>21, FinalizeDoes DEF Lasting, TypeOK, At, Wrote, Written, Refused, Cleared
  <2> QED
    BY <1>0, <1>21, <2>1, FinalizeDoes, MoveTyped, ProvisioningAssumption
       DEF At, Busy, HasProject, Unused, Written, Refused, Ended
<1>22. ASSUME NEW r \in Runs, Rules(r)
      PROVE  TypeInv'
  <2>1. Lasting
    BY <1>0, <1>22, RulesDoes DEF Lasting, TypeOK, At, Wrote, Written, Refused, Cleared
  <2> QED
    BY <1>0, <1>22, <2>1, RulesDoes, MoveTyped, ProvisioningAssumption
       DEF At, Busy, HasProject, Unused, Written, Refused, Ended
<1>23. ASSUME NEW r \in Runs, Publish(r)
      PROVE  TypeInv'
  <2>1. run[r].project \in Projects
    BY <1>0, <1>23, PublishDoes, RunTyped DEF At, HasProject
  <2>2. Lasting
    BY <1>0, <1>23, <2>1, PublishDoes DEF Lasting, TypeOK, At, Wrote, Written, Refused, Cleared
  <2> QED
    BY <1>0, <1>23, <2>2, PublishDoes, MoveTyped, ProvisioningAssumption
       DEF At, Busy, HasProject, Unused, Written, Refused, Ended
<1>24. ASSUME NEW r \in Runs, Ready(r)
      PROVE  TypeInv'
  <2>1. Lasting
    BY <1>0, <1>24, ReadyDoes DEF Lasting, TypeOK, At, Wrote, Written, Refused, Cleared
  <2> QED
    BY <1>0, <1>24, <2>1, ReadyDoes, MoveTyped, ProvisioningAssumption
       DEF At, Busy, HasProject, Unused, Written, Refused, Ended
<1>25. ASSUME NEW r \in Runs, Readiness(r)
      PROVE  TypeInv'
  <2>1. Lasting
    BY <1>0, <1>25, ReadinessDoes DEF Lasting, TypeOK, At, Wrote, Written, Refused, Cleared
  <2> QED
    BY <1>0, <1>25, <2>1, ReadinessDoes, MoveTyped, ProvisioningAssumption
       DEF At, Busy, HasProject, Unused, Written, Refused, Ended
<1>26. ASSUME NEW r \in Runs, RollBack(r)
      PROVE  TypeInv'
  <2>1. Lasting
    BY <1>0, <1>26, RollBackDoes DEF Lasting, TypeOK, TakenAway, Cleared
  <2> QED
    BY <1>0, <1>26, <2>1, RollBackDoes, MoveTyped, ProvisioningAssumption
       DEF At, Busy, HasProject, Unused, Written, Refused, Ended
<1>27. ASSUME NEW r \in Runs, Fail(r)
      PROVE  TypeInv'
  <2>1. Lasting
    BY <1>0, <1>27, FailDoes DEF Lasting, TypeOK, At, Wrote, Written, Refused, Cleared
  <2> QED
    BY <1>0, <1>27, <2>1, FailDoes, MoveTyped, ProvisioningAssumption
       DEF At, Busy, HasProject, Unused, Written, Refused, Ended
<1>28. ASSUME NEW r \in Runs, ReleaseLock(r)
      PROVE  TypeInv'
  <2>1. Lasting
    BY <1>0, <1>28, ReleaseLockDoes DEF Lasting, TypeOK, At, Wrote, Written, Refused, Cleared
  <2> QED
    BY <1>0, <1>28, <2>1, ReleaseLockDoes, MoveTyped, ProvisioningAssumption
       DEF At, Busy, HasProject, Unused, Written, Refused, Ended
<1>29. ASSUME NEW r \in Runs, Undo(r)
      PROVE  TypeInv'
  <2>1. Lasting
    BY <1>0, <1>29, UndoDoes DEF Lasting, TypeOK, TakenAway, Cleared
  <2> QED
    BY <1>0, <1>29, <2>1, UndoDoes, MoveTyped, ProvisioningAssumption
       DEF At, Busy, HasProject, Unused, Written, Refused, Ended
<1>30. ASSUME NEW r \in Runs, Requeue(r)
      PROVE  TypeInv'
  <2>1. Lasting
    BY <1>0, <1>30, RequeueDoes DEF Lasting, TypeOK, At, Wrote, Written, Refused, Cleared
  <2> QED
    BY <1>0, <1>30, <2>1, RequeueDoes, MoveTyped, ProvisioningAssumption
       DEF At, Busy, HasProject, Unused, Written, Refused, Ended
<1>31. ASSUME NEW r \in Runs, ClaimCleanup(r)
      PROVE  TypeInv'
  <2>1. Lasting
    BY <1>0, <1>31, ClaimCleanupDoes, RunTyped, ClaimsTyped DEF Lasting, TypeOK, At, Wrote, Written, Refused, Cleared
  <2> QED
    BY <1>0, <1>31, <2>1, ClaimCleanupDoes, MoveTyped, ProvisioningAssumption
       DEF At, Busy, HasProject, Unused, Written, Refused, Ended
<1>32. ASSUME NEW r \in Runs, CleanUpStopped(r)
      PROVE  TypeInv'
  <2>1. Lasting
    BY <1>0, <1>32, CleanUpStoppedDoes DEF Lasting, TypeOK, TakenAway, Cleared
  <2> QED
    BY <1>0, <1>32, <2>1, CleanUpStoppedDoes, MoveTyped, ProvisioningAssumption
       DEF At, Busy, HasProject, Unused, Written, Refused, Ended
<1>33. ASSUME NEW r \in Runs, ClearLock(r)
      PROVE  TypeInv'
  <2>1. Lasting
    BY <1>0, <1>33, ClearLockDoes DEF Lasting, TypeOK, At, Wrote, Written, Refused, Cleared
  <2> QED
    BY <1>0, <1>33, <2>1, ClearLockDoes, MoveTyped, ProvisioningAssumption
       DEF At, Busy, HasProject, Unused, Written, Refused, Ended
<1>34. ASSUME NEW r \in Runs, GiveUp(r)
      PROVE  TypeInv'
  <2>1. Lasting
    BY <1>0, <1>34, GiveUpDoes DEF Lasting, TypeOK, At, Wrote, Written, Refused, Cleared
  <2> QED
    BY <1>0, <1>34, <2>1, GiveUpDoes, MoveTyped, ProvisioningAssumption
       DEF At, Busy, HasProject, Unused, Written, Refused, Ended
<1>35. ASSUME NEW r \in Runs, Heartbeat(r)
      PROVE  TypeInv'
  <2>1. Lasting
    BY <1>0, <1>35, HeartbeatDoes, RunTyped DEF Lasting, TypeOK, Wrote
  <2> QED
    BY <1>0, <1>35, <2>1, HeartbeatDoes, RestTyped DEF TypeOK
<1>36. ASSUME NEW r \in Runs, StatementFails(r)
      PROVE  TypeInv'
  <2>1. Lasting
    BY <1>0, <1>36, StatementFailsDoes DEF Lasting, TypeOK
  <2>2. CASE run' = run
    BY <1>0, <2>1, <2>2, RestTyped DEF TypeOK
  <2> QED
    BY <1>0, <1>36, <2>1, <2>2, StatementFailsDoes, MoveTyped DEF At, Busy, Ended
<1>37. ASSUME NEW j \in Jobs, LeaseEnds(j)
      PROVE  TypeInv'
  <2>1. Lasting
    BY <1>0, <1>37, LeaseEndsDoes DEF Lasting, TypeOK, Wrote
  <2> QED
    BY <1>0, <1>37, <2>1, LeaseEndsDoes, RestTyped DEF TypeOK
<1>38. ASSUME NEW j \in Jobs, ForgetCredentials(j)
      PROVE  TypeInv'
  <2>1. Lasting
    BY <1>0, <1>38, ForgetCredentialsDoes DEF Lasting, TypeOK, Wrote
  <2> QED
    BY <1>0, <1>38, <2>1, ForgetCredentialsDoes, RestTyped DEF TypeOK
<1>39. ASSUME NEW w \in Workers, Crash(w)
      PROVE  TypeInv'
  <2>1. Lasting
    BY <1>0, <1>39, CrashDoes DEF Lasting, TypeOK
  <2> QED
    BY <1>0, <1>39, <2>1, CrashDoes, RestTyped
<1>40. CASE UNCHANGED vars
  BY <1>40 DEF vars, TypeInv, TypeOK, RunsHaveRows, HasProject, At, Busy
<1> QED
  BY <1>0, <1>1, <1>2, <1>3, <1>4, <1>5, <1>6, <1>7, <1>8, <1>9, <1>10, <1>11, <1>12,
     <1>13, <1>14, <1>15, <1>16, <1>17, <1>18, <1>19, <1>20, <1>21, <1>22, <1>23,
     <1>24, <1>25, <1>26, <1>27, <1>28, <1>29, <1>30, <1>31, <1>32, <1>33, <1>34,
     <1>35, <1>36, <1>37, <1>38, <1>39, <1>40, Steps DEF Step

(***************************************************************************)
(* Locks                                                                   *)
(*                                                                         *)
(* OneDriver is not inductive: a claim is refused because the row names    *)
(* the worker that drives the setup under a lease that is not stale.       *)
(***************************************************************************)

\* Nobody stalled, and the setup was not worked on while it was given up.
Sole(j) == ~Had("stall") /\ j \notin overtaken

\* Who works on a setup holds its lock, under a fresh lease, and nobody else works on
\* it or gives it up.
HeldAlone ==
    \A r \in Runs, j \in Jobs : Works(r, j) /\ Sole(j) =>
        /\ job[j].lockedBy = run[r].worker /\ ~job[j].stale
        /\ \A s \in Runs \ {r} : ~Works(s, j) /\ ~GivesUp(s, j)

LockInv == TypeInv /\ HeldAlone

\* Nobody starts to work on a setup or to give one up, and no lock is written.
Calm ==
    /\ \A r \in Runs, j \in Jobs :
          /\ Works(r, j)' => Works(r, j) /\ run'[r].worker = run[r].worker
          /\ GivesUp(r, j)' => GivesUp(r, j)
    /\ \A j \in Jobs : job[j] # Null => LockKept(j)
    /\ overtaken \subseteq overtaken' /\ faults \subseteq faults'

LEMMA WorkTyped ==
    ASSUME TypeInv, NEW r \in Runs, NEW j \in Jobs, Works(r, j) \/ GivesUp(r, j)
    PROVE  /\ Busy(r) /\ run[r].job = j /\ job[j] # Null
           /\ run[r].worker \in Workers /\ run[r].worker # Null
BY RunTyped, ProvisioningAssumption DEF Works, GivesUp, At, TypeInv, RunsHaveRows

LEMMA CalmHeld ==
    ASSUME LockInv, Calm
    PROVE  HeldAlone'
<1> SUFFICES ASSUME NEW r \in Runs, NEW j \in Jobs, Works(r, j)', Sole(j)'
             PROVE  /\ job'[j].lockedBy = run'[r].worker /\ ~job'[j].stale
                    /\ \A s \in Runs \ {r} : ~Works(s, j)' /\ ~GivesUp(s, j)'
  BY DEF HeldAlone
<1>1. Works(r, j) /\ run'[r].worker = run[r].worker
  BY DEF Calm
<1>2. Sole(j)
  BY DEF Calm, Sole, Had
<1>3. job[j] # Null
  BY <1>1, WorkTyped DEF LockInv
<1> QED
  BY <1>1, <1>2, <1>3 DEF Calm, LockInv, HeldAlone, LockKept

\* A claim is of a setup nobody works on.
LEMMA FreeOfWork ==
    ASSUME LockInv, NEW j \in Jobs, job[j] # Null, Free(j), Sole(j), NEW r \in Runs
    PROVE  ~Works(r, j)
<1> SUFFICES ASSUME Works(r, j) PROVE FALSE
  OBVIOUS
<1>1. run[r].worker # Null
  BY WorkTyped DEF LockInv
<1>2. job[j].lockedBy = run[r].worker /\ ~job[j].stale
  BY DEF LockInv, HeldAlone
<1> QED
  BY <1>1, <1>2 DEF Free

LEMMA ClaimHeld ==
    ASSUME LockInv, NEW j \in Jobs, NEW statuses, NEW r \in Runs,
           Claims(j, run'[r].worker, statuses), run'[r].job = j,
           \A s \in Runs \ {r} : run'[s] = run[s],
           faults' = faults
    PROVE  HeldAlone'
<1> SUFFICES ASSUME NEW t \in Runs, NEW i \in Jobs, Works(t, i)', Sole(i)'
             PROVE  /\ job'[i].lockedBy = run'[t].worker /\ ~job'[i].stale
                    /\ \A s \in Runs \ {t} : ~Works(s, i)' /\ ~GivesUp(s, i)'
  BY DEF HeldAlone
<1>1. /\ job[j] # Null /\ Free(j)
      /\ job'[j].lockedBy = run'[r].worker /\ job'[j].stale = FALSE
      /\ \A k \in Jobs \ {j} : job'[k] = job[k]
  BY DEF Claims, Wrote
<1>2. /\ overtaken \subseteq overtaken'
      /\ (\E s \in Runs : GivesUp(s, j)) => j \in overtaken'
  BY SMT DEF Claims
<1>3. Sole(i)
  BY <1>2 DEF Sole, Had
<1>4. \A s \in Runs \ {r} : \A k \in Jobs : /\ Works(s, k)' = Works(s, k)
                                           /\ GivesUp(s, k)' = GivesUp(s, k)
  BY DEF Works, GivesUp, At, Busy
<1>5. \A k \in Jobs : Works(r, k)' \/ GivesUp(r, k)' => k = j
  BY DEF Works, GivesUp
<1>6. CASE i = j
  <2>1. \A s \in Runs : ~Works(s, j)
    BY <1>1, <1>3, <1>6, FreeOfWork
  <2>2. \A s \in Runs : ~GivesUp(s, j)
    BY <1>2, <1>6 DEF Sole
  <2> QED
    BY <1>1, <1>4, <1>6, <2>1, <2>2
<1>7. CASE i # j
  <2>1. t # r /\ Works(t, i)
    BY <1>4, <1>5, <1>7
  <2> QED
    BY <1>1, <1>3, <1>4, <1>5, <1>7, <2>1 DEF LockInv, HeldAlone
<1> QED
  BY <1>6, <1>7

\* A run starts to give up a setup that nobody works on, or overtakes who does.
LEMMA GivingHeld ==
    ASSUME LockInv, NEW j \in Jobs, NEW r \in Runs, job' = job,
           run'[r].job = j, \A k \in Jobs : ~Works(r, k)',
           \A s \in Runs \ {r} : run'[s] = run[s],
           overtaken \subseteq overtaken', faults' = faults,
           Sole(j)' => \A s \in Runs : ~Works(s, j)
    PROVE  HeldAlone'
<1>1. \A s \in Runs \ {r} : \A k \in Jobs : /\ Works(s, k)' = Works(s, k)
                                           /\ GivesUp(s, k)' = GivesUp(s, k)
  BY DEF Works, GivesUp, At, Busy
<1>2. \A k \in Jobs : GivesUp(r, k)' => k = j
  BY DEF GivesUp
<1>3. \A k \in Jobs : Sole(k)' => Sole(k)
  BY DEF Sole, Had
<1> QED
  BY <1>1, <1>2, <1>3 DEF LockInv, HeldAlone

\* Who worked on a setup or gave it up stops, and may clear its lock.
LEMMA StopHeld ==
    ASSUME LockInv, NEW j \in Jobs, NEW r \in Runs, Works(r, j) \/ GivesUp(r, j),
           \A k \in Jobs : ~Works(r, k)' /\ ~GivesUp(r, k)',
           \A s \in Runs \ {r} : run'[s] = run[s],
           \A i \in Jobs \ {j} : job'[i] = job[i],
           overtaken' = overtaken, faults' = faults
    PROVE  HeldAlone'
<1>1. \A s \in Runs \ {r} : \A k \in Jobs : /\ Works(s, k)' = Works(s, k)
                                           /\ GivesUp(s, k)' = GivesUp(s, k)
  BY DEF Works, GivesUp, At, Busy
<1>2. \A k \in Jobs : Sole(k)' <=> Sole(k)
  BY DEF Sole, Had
<1>3. Sole(j) => \A s \in Runs \ {r} : ~Works(s, j)
  BY DEF LockInv, HeldAlone
<1> QED
  BY <1>1, <1>2, <1>3 DEF LockInv, HeldAlone

Working == Driving \union {"cleanup", "clearLock"}
Giving  == {"exhausted", "giveUp"}

\* The locks of all rows are as they were, and the history only grows.
LocksStay ==
    /\ \A j \in Jobs : job[j] # Null => LockKept(j)
    /\ overtaken \subseteq overtaken' /\ faults \subseteq faults'

\* A run moves, but does not start to work or to give up.
LEMMA MoveHeld ==
    ASSUME LockInv, NEW r \in Runs, Busy(r), Moved(r) \/ Ended(r), LocksStay,
           run'[r] # Null /\ run'[r].phase \in Working => run[r].phase \in Working,
           run'[r] # Null /\ run'[r].phase \in Giving => run[r].phase \in Giving
    PROVE  HeldAlone'
<1>1. ASSUME NEW s \in Runs, NEW j \in Jobs
      PROVE  /\ Works(s, j)' => Works(s, j) /\ run'[s].worker = run[s].worker
             /\ GivesUp(s, j)' => GivesUp(s, j)
  BY DEF Works, GivesUp, At, Busy, Moved, Ended, Working, Giving
<1>2. Calm
  BY <1>1 DEF Calm, LocksStay
<1> QED
  BY <1>2, CalmHeld

LEMMA LaunchHeld ==
    ASSUME LockInv, NEW r \in Runs, NEW new, Launched(r, new), LocksStay,
           new.phase \in {"claim", "maybe", "claimCleanup"}
    PROVE  HeldAlone'
<1>1. ASSUME NEW s \in Runs, NEW j \in Jobs
      PROVE  /\ Works(s, j)' => Works(s, j) /\ run'[s].worker = run[s].worker
             /\ GivesUp(s, j)' => GivesUp(s, j)
  BY DEF Works, GivesUp, At, Busy, Launched, Driving
<1>2. Calm
  BY <1>1 DEF Calm, LocksStay
<1> QED
  BY <1>2, CalmHeld

LEMMA RestHeld ==
    ASSUME LockInv, LocksStay, \A r \in Runs : run'[r] = Null \/ run'[r] = run[r]
    PROVE  HeldAlone'
<1>1. ASSUME NEW s \in Runs, NEW j \in Jobs
      PROVE  /\ Works(s, j)' => Works(s, j) /\ run'[s].worker = run[s].worker
             /\ GivesUp(s, j)' => GivesUp(s, j)
  BY DEF Works, GivesUp, At, Busy
<1>2. Calm
  BY <1>1 DEF Calm, LocksStay
<1> QED
  BY <1>2, CalmHeld

LEMMA NextHeld == LockInv /\ [Next]_vars => HeldAlone'
<1> SUFFICES ASSUME LockInv, [Next]_vars PROVE HeldAlone'
  OBVIOUS
<1>0. LockInv /\ TypeOK /\ RunsHaveRows
  BY DEF LockInv, TypeInv
<1>1. ASSUME NEW w \in Workers, NEW j \in Jobs, Start(w, j)
      PROVE  HeldAlone'
  <2>1. LocksStay
    BY <1>0, <1>1, StartDoes DEF LocksStay, LockKept, Wrote
  <2> QED
    BY <1>0, <1>1, <2>1, StartDoes, LaunchHeld, NewRunTyped, Membership
<1>2. ASSUME NEW w \in Workers, NEW j \in Jobs, RecoverAwaiting(w, j)
      PROVE  HeldAlone'
  <2>1. LocksStay
    BY <1>0, <1>2, RecoverAwaitingDoes DEF LocksStay, LockKept, Wrote
  <2> QED
    BY <1>0, <1>2, <2>1, RecoverAwaitingDoes, LaunchHeld, NewRunTyped, Membership
<1>3. ASSUME NEW w \in Workers, NEW j \in Jobs, RecoverCancelled(w, j)
      PROVE  HeldAlone'
  <2>1. LocksStay
    BY <1>0, <1>3, RecoverCancelledDoes DEF LocksStay, LockKept, Wrote
  <2> QED
    BY <1>0, <1>3, <2>1, RecoverCancelledDoes, LaunchHeld, NewRunTyped, Membership
<1>4. ASSUME NEW w \in Workers, NEW i \in Jobs, NEW j \in Jobs, Retry(w, i, j)
      PROVE  HeldAlone'
  <2>1. LocksStay
    BY <1>0, <1>4, RetryDoes DEF LocksStay, LockKept
  <2> QED
    BY <1>0, <1>4, <2>1, RetryDoes, LaunchHeld, NewRunTyped, Membership
<1>5. ASSUME NEW w \in Workers, NEW j \in Jobs, Submit(w, j)
      PROVE  HeldAlone'
  <2>1. LocksStay
    BY <1>0, <1>5, SubmitDoes DEF LocksStay, LockKept, Wrote
  <2> QED
    BY <1>0, <1>5, <2>1, SubmitDoes, RestHeld, LaunchHeld, NewRunTyped, Membership
<1>6. ASSUME NEW w \in Workers, NEW j \in Jobs, Cancel(w, j)
      PROVE  HeldAlone'
  <2>1. LocksStay
    BY <1>0, <1>6, CancelDoes DEF LocksStay, LockKept, Wrote
  <2> QED
    BY <1>0, <1>6, <2>1, CancelDoes, RestHeld, LaunchHeld, NewRunTyped, Membership
<1>7. ASSUME NEW w \in Workers, NEW j \in Jobs, RecoverProvisioning(w, j)
      PROVE  HeldAlone'
  <2>1. PICK r \in Runs, new \in Run : Launched(r, new) /\ new.job = j /\ new.worker = w
    BY <1>0, <1>7, RecoverProvisioningDoes
  <2>2. Claims(j, run'[r].worker, Provisioning) /\ faults' = faults
    BY <1>0, <1>7, <2>1, RecoverProvisioningDoes DEF Launched
  <2> QED
    BY <1>0, <2>1, <2>2, ClaimHeld DEF Launched
<1>8. ASSUME NEW w \in Workers, NEW j \in Jobs, RecoverFinalization(w, j)
      PROVE  HeldAlone'
  <2>1. PICK r \in Runs : Launched(r, NewRun(w, j, "resume"))
    BY <1>0, <1>8, RecoverFinalizationDoes
  <2>2. run'[r].worker = w /\ run'[r].job = j
    BY <2>1, NewRunTyped DEF Launched, Phases, Driving
  <2>3. Claims(j, run'[r].worker, Finalization) /\ faults' = faults
    BY <1>0, <1>8, <2>2, RecoverFinalizationDoes
  <2> QED
    BY <1>0, <2>1, <2>2, <2>3, ClaimHeld DEF Launched
<1>9. ASSUME NEW w \in Workers, NEW j \in Jobs, RecoverExhausted(w, j)
      PROVE  HeldAlone'
  <2>1. /\ UNCHANGED <<job, faults, overtaken>>
        /\ job[j] # Null /\ Free(j)
    BY <1>0, <1>9, RecoverExhaustedDoes
  <2>2. PICK r \in Runs, new \in Run :
               Launched(r, new) /\ new.job = j /\ new.phase = "exhausted"
    BY <1>0, <1>9, RecoverExhaustedDoes
  <2>3. Sole(j)' => \A s \in Runs : ~Works(s, j)
    BY <1>0, <2>1, FreeOfWork DEF Sole, Had
  <2>4. \A k \in Jobs : ~Works(r, k)'
    BY <2>2 DEF Launched, Works, At, Driving
  <2> QED
    BY <1>0, <2>1, <2>2, <2>3, <2>4, GivingHeld DEF Launched
<1>10. ASSUME NEW r \in Runs, ClaimQueued(r)
      PROVE  HeldAlone'
  <2>1. Busy(r) /\ run[r].job \in Jobs /\ faults' = faults
    BY <1>0, <1>10, ClaimQueuedDoes, RunTyped DEF At
  <2>2. CASE Claims(run[r].job, run[r].worker, Provisioning) /\ Moved(r)
    BY <1>0, <2>1, <2>2, ClaimHeld DEF Moved
  <2>3. CASE Ended(r) /\ job' = job /\ overtaken' = overtaken
    BY <1>0, <2>1, <2>3, MoveHeld DEF LocksStay, LockKept, Ended
  <2> QED
    BY <1>0, <1>10, <2>2, <2>3, ClaimQueuedDoes
<1>11. ASSUME NEW r \in Runs, ClaimFinal(r)
      PROVE  HeldAlone'
  <2>1. Busy(r) /\ run[r].job \in Jobs /\ faults' = faults
    BY <1>0, <1>11, ClaimFinalDoes, RunTyped DEF At
  <2>2. CASE Claims(run[r].job, run[r].worker, {"awaiting_context"}) /\ Moved(r)
    BY <1>0, <2>1, <2>2, ClaimHeld DEF Moved
  <2>3. CASE Ended(r) /\ job' = job /\ overtaken' = overtaken
    BY <1>0, <2>1, <2>3, MoveHeld DEF LocksStay, LockKept, Ended
  <2> QED
    BY <1>0, <1>11, <2>2, <2>3, ClaimFinalDoes
<1>12. ASSUME NEW r \in Runs, ClaimCleanup(r)
      PROVE  HeldAlone'
  <2>1. Busy(r) /\ run[r].job \in Jobs /\ faults' = faults
    BY <1>0, <1>12, ClaimCleanupDoes, RunTyped DEF At
  <2>2. CASE Claims(run[r].job, run[r].worker, {"cancelled"}) /\ Moved(r)
    BY <1>0, <2>1, <2>2, ClaimHeld DEF Moved
  <2>3. CASE Ended(r) /\ job' = job /\ overtaken' = overtaken
    BY <1>0, <2>1, <2>3, MoveHeld DEF LocksStay, LockKept, Ended
  <2> QED
    BY <1>0, <1>12, <2>2, <2>3, ClaimCleanupDoes
<1>13. ASSUME NEW r \in Runs, Maybe(r)
      PROVE  HeldAlone'
  <2>1. Busy(r) /\ run[r].job \in Jobs /\ job' = job /\ faults' = faults
    BY <1>0, <1>13, MaybeDoes, RunTyped DEF At
  <2>2. ASSUME overtaken' = overtaken, Ended(r) \/ (Moved(r) /\ run'[r].phase = "claimFinal")
        PROVE  HeldAlone'
    BY <1>0, <2>1, <2>2, MoveHeld
       DEF LocksStay, LockKept, Ended, Working, Giving, Driving
  <2>3. ASSUME Moved(r), run'[r].phase = "exhausted",
               overtaken' = IF \E s \in Runs : Works(s, run[r].job)
                            THEN overtaken \union {run[r].job} ELSE overtaken
        PROVE  HeldAlone'
    <3>1. PICK j \in Jobs : j = run[r].job
      BY <2>1
    <3>2. /\ overtaken \subseteq overtaken'
          /\ (\E s \in Runs : Works(s, j)) => j \in overtaken'
      BY <2>3, <3>1, SMT
    <3>3. Sole(j)' => \A s \in Runs : ~Works(s, j)
      BY <3>2 DEF Sole
    <3>4. \A k \in Jobs : ~Works(r, k)'
      BY <2>3 DEF Works, At, Driving
    <3>5. run'[r].job = j /\ \A s \in Runs \ {r} : run'[s] = run[s]
      BY <2>3, <3>1 DEF Moved
    <3> QED
      BY <1>0, <2>1, <3>2, <3>3, <3>4, <3>5, GivingHeld
  <2> QED
    <3>1. \/ Ended(r) /\ overtaken' = overtaken
          \/ Moved(r) /\ run'[r].phase = "claimFinal" /\ overtaken' = overtaken
          \/ /\ Moved(r) /\ run'[r].phase = "exhausted"
             /\ overtaken' = IF \E s \in Runs : Works(s, run[r].job)
                             THEN overtaken \union {run[r].job} ELSE overtaken
      BY <1>0, <1>13, MaybeDoes, Zenon
    <3>2. CASE \/ Ended(r) /\ overtaken' = overtaken
               \/ Moved(r) /\ run'[r].phase = "claimFinal" /\ overtaken' = overtaken
      BY <2>2, <3>2
    <3>3. CASE /\ Moved(r) /\ run'[r].phase = "exhausted"
               /\ overtaken' = IF \E s \in Runs : Works(s, run[r].job)
                               THEN overtaken \union {run[r].job} ELSE overtaken
      BY <2>3, <3>3
    <3> QED
      BY <3>1, <3>2, <3>3
<1>14. ASSUME NEW r \in Runs, ReleaseLock(r)
      PROVE  HeldAlone'
  <2>1. Busy(r) /\ run[r].job \in Jobs /\ UNCHANGED <<faults, overtaken>>
    BY <1>0, <1>14, ReleaseLockDoes, RunTyped DEF At
  <2>2. Works(r, run[r].job)
    BY <1>0, <1>14, ReleaseLockDoes DEF Works, At, Driving
  <2>3. \A s \in Runs \ {r} : run'[s] = run[s]
    BY <1>0, <1>14, ReleaseLockDoes DEF Moved, Ended
  <2>4. \A i \in Jobs \ {run[r].job} : job'[i] = job[i]
    BY <1>0, <1>14, ReleaseLockDoes DEF Wrote
  <2>5. \A k \in Jobs : ~Works(r, k)' /\ ~GivesUp(r, k)'
    BY <1>0, <1>14, ReleaseLockDoes DEF Works, GivesUp, At, Busy, Ended, Driving
  <2> QED
    BY <1>0, <2>1, <2>2, <2>3, <2>4, <2>5, StopHeld
<1>15. ASSUME NEW r \in Runs, ClearLock(r)
      PROVE  HeldAlone'
  <2>1. Busy(r) /\ run[r].job \in Jobs /\ UNCHANGED <<faults, overtaken>>
    BY <1>0, <1>15, ClearLockDoes, RunTyped DEF At
  <2>2. Works(r, run[r].job)
    BY <1>0, <1>15, ClearLockDoes DEF Works, At, Driving
  <2>3. \A s \in Runs \ {r} : run'[s] = run[s]
    BY <1>0, <1>15, ClearLockDoes DEF Moved, Ended
  <2>4. \A i \in Jobs \ {run[r].job} : job'[i] = job[i]
    BY <1>0, <1>15, ClearLockDoes DEF Wrote
  <2>5. \A k \in Jobs : ~Works(r, k)' /\ ~GivesUp(r, k)'
    BY <1>0, <1>15, ClearLockDoes DEF Works, GivesUp, At, Busy, Ended, Driving
  <2> QED
    BY <1>0, <2>1, <2>2, <2>3, <2>4, <2>5, StopHeld
<1>16. ASSUME NEW r \in Runs, GiveUp(r)
      PROVE  HeldAlone'
  <2>1. Busy(r) /\ run[r].job \in Jobs /\ UNCHANGED <<faults, overtaken>>
    BY <1>0, <1>16, GiveUpDoes, RunTyped DEF At
  <2>2. GivesUp(r, run[r].job)
    BY <1>0, <1>16, GiveUpDoes DEF GivesUp, At, Driving
  <2>3. \A s \in Runs \ {r} : run'[s] = run[s]
    BY <1>0, <1>16, GiveUpDoes DEF Moved, Ended
  <2>4. \A i \in Jobs \ {run[r].job} : job'[i] = job[i]
    BY <1>0, <1>16, GiveUpDoes DEF Wrote
  <2>5. \A k \in Jobs : ~Works(r, k)' /\ ~GivesUp(r, k)'
    BY <1>0, <1>16, GiveUpDoes DEF Works, GivesUp, At, Busy, Ended, Driving
  <2> QED
    BY <1>0, <2>1, <2>2, <2>3, <2>4, <2>5, StopHeld
<1>17. ASSUME NEW r \in Runs, CheckName(r)
      PROVE  HeldAlone'
  <2>1. LocksStay
    BY <1>0, <1>17, CheckNameDoes DEF LocksStay, LockKept, Wrote, Written, Refused, Cleared
  <2> QED
    BY <1>0, <1>17, <2>1, CheckNameDoes, MoveHeld
       DEF At, Written, Refused, Working, Giving, Driving
<1>18. ASSUME NEW r \in Runs, Advance(r)
      PROVE  HeldAlone'
  <2>1. LocksStay
    BY <1>0, <1>18, AdvanceDoes DEF LocksStay, LockKept, Wrote, Written, Refused, Cleared
  <2> QED
    BY <1>0, <1>18, <2>1, AdvanceDoes, MoveHeld
       DEF At, Written, Refused, Working, Giving, Driving
<1>19. ASSUME NEW r \in Runs, Synced(r)
      PROVE  HeldAlone'
  <2>1. LocksStay
    BY <1>0, <1>19, SyncedDoes DEF LocksStay, LockKept, Wrote, Written, Refused, Cleared
  <2> QED
    BY <1>0, <1>19, <2>1, SyncedDoes, MoveHeld
       DEF At, Written, Refused, Working, Giving, Driving
<1>20. ASSUME NEW r \in Runs, Register(r)
      PROVE  HeldAlone'
  <2>1. LocksStay
    BY <1>0, <1>20, RegisterDoes DEF LocksStay, LockKept, Wrote, Written, Refused, Cleared
  <2> QED
    BY <1>0, <1>20, <2>1, RegisterDoes, MoveHeld
       DEF At, Written, Refused, Working, Giving, Driving
<1>21. ASSUME NEW r \in Runs, RecordProject(r)
      PROVE  HeldAlone'
  <2>1. LocksStay
    BY <1>0, <1>21, RecordProjectDoes DEF LocksStay, LockKept, Wrote, Written, Refused, Cleared
  <2> QED
    BY <1>0, <1>21, <2>1, RecordProjectDoes, MoveHeld
       DEF At, Written, Refused, Working, Giving, Driving
<1>22. ASSUME NEW r \in Runs, AwaitContext(r)
      PROVE  HeldAlone'
  <2>1. LocksStay
    BY <1>0, <1>22, AwaitContextDoes DEF LocksStay, LockKept, Wrote, Written, Refused, Cleared
  <2> QED
    BY <1>0, <1>22, <2>1, AwaitContextDoes, MoveHeld
       DEF At, Written, Refused, Working, Giving, Driving
<1>23. ASSUME NEW r \in Runs, StepFails(r)
      PROVE  HeldAlone'
  <2>1. LocksStay
    BY <1>0, <1>23, StepFailsDoes DEF LocksStay, LockKept, Wrote, Written, Refused, Cleared
  <2> QED
    BY <1>0, <1>23, <2>1, StepFailsDoes, MoveHeld
       DEF At, Written, Refused, Working, Giving, Driving
<1>24. ASSUME NEW r \in Runs, ToFinalizing(r)
      PROVE  HeldAlone'
  <2>1. LocksStay
    BY <1>0, <1>24, ToFinalizingDoes DEF LocksStay, LockKept, Wrote, Written, Refused, Cleared
  <2> QED
    BY <1>0, <1>24, <2>1, ToFinalizingDoes, MoveHeld
       DEF At, Written, Refused, Working, Giving, Driving
<1>25. ASSUME NEW r \in Runs, Finalize(r)
      PROVE  HeldAlone'
  <2>1. LocksStay
    BY <1>0, <1>25, FinalizeDoes DEF LocksStay, LockKept, Wrote, Written, Refused, Cleared
  <2> QED
    BY <1>0, <1>25, <2>1, FinalizeDoes, MoveHeld
       DEF At, Written, Refused, Working, Giving, Driving
<1>26. ASSUME NEW r \in Runs, Rules(r)
      PROVE  HeldAlone'
  <2>1. LocksStay
    BY <1>0, <1>26, RulesDoes DEF LocksStay, LockKept, Wrote, Written, Refused, Cleared
  <2> QED
    BY <1>0, <1>26, <2>1, RulesDoes, MoveHeld
       DEF At, Written, Refused, Working, Giving, Driving
<1>27. ASSUME NEW r \in Runs, Publish(r)
      PROVE  HeldAlone'
  <2>1. LocksStay
    BY <1>0, <1>27, PublishDoes DEF LocksStay, LockKept, Wrote, Written, Refused, Cleared
  <2> QED
    BY <1>0, <1>27, <2>1, PublishDoes, MoveHeld
       DEF At, Written, Refused, Working, Giving, Driving
<1>28. ASSUME NEW r \in Runs, Ready(r)
      PROVE  HeldAlone'
  <2>1. LocksStay
    BY <1>0, <1>28, ReadyDoes DEF LocksStay, LockKept, Wrote, Written, Refused, Cleared
  <2> QED
    BY <1>0, <1>28, <2>1, ReadyDoes, MoveHeld
       DEF At, Written, Refused, Working, Giving, Driving
<1>29. ASSUME NEW r \in Runs, Readiness(r)
      PROVE  HeldAlone'
  <2>1. LocksStay
    BY <1>0, <1>29, ReadinessDoes DEF LocksStay, LockKept, Wrote, Written, Refused, Cleared
  <2> QED
    BY <1>0, <1>29, <2>1, ReadinessDoes, MoveHeld
       DEF At, Written, Refused, Working, Giving, Driving
<1>30. ASSUME NEW r \in Runs, RollBack(r)
      PROVE  HeldAlone'
  <2>1. LocksStay
    BY <1>0, <1>30, RollBackDoes DEF LocksStay, LockKept, TakenAway, Cleared
  <2> QED
    BY <1>0, <1>30, <2>1, RollBackDoes, MoveHeld
       DEF At, Written, Refused, Working, Giving, Driving
<1>31. ASSUME NEW r \in Runs, Fail(r)
      PROVE  HeldAlone'
  <2>1. LocksStay
    BY <1>0, <1>31, FailDoes DEF LocksStay, LockKept, Wrote, Written, Refused, Cleared
  <2> QED
    BY <1>0, <1>31, <2>1, FailDoes, MoveHeld
       DEF At, Written, Refused, Working, Giving, Driving
<1>32. ASSUME NEW r \in Runs, Undo(r)
      PROVE  HeldAlone'
  <2>1. LocksStay
    BY <1>0, <1>32, UndoDoes DEF LocksStay, LockKept, TakenAway, Cleared
  <2> QED
    BY <1>0, <1>32, <2>1, UndoDoes, MoveHeld
       DEF At, Written, Refused, Working, Giving, Driving
<1>33. ASSUME NEW r \in Runs, Requeue(r)
      PROVE  HeldAlone'
  <2>1. LocksStay
    BY <1>0, <1>33, RequeueDoes DEF LocksStay, LockKept, Wrote, Written, Refused, Cleared
  <2> QED
    BY <1>0, <1>33, <2>1, RequeueDoes, MoveHeld
       DEF At, Written, Refused, Working, Giving, Driving
<1>34. ASSUME NEW r \in Runs, CleanUpStopped(r)
      PROVE  HeldAlone'
  <2>1. LocksStay
    BY <1>0, <1>34, CleanUpStoppedDoes DEF LocksStay, LockKept, TakenAway, Cleared
  <2> QED
    BY <1>0, <1>34, <2>1, CleanUpStoppedDoes, MoveHeld
       DEF At, Written, Refused, Working, Giving, Driving
<1>35. ASSUME NEW r \in Runs, StatementFails(r)
      PROVE  HeldAlone'
  <2>1. LocksStay
    BY <1>0, <1>35, StatementFailsDoes DEF LocksStay, LockKept
  <2> QED
    BY <1>0, <1>35, <2>1, StatementFailsDoes, MoveHeld, RestHeld
       DEF At, Busy, Ended, Working, Giving, Driving
<1>36. ASSUME NEW r \in Runs, Heartbeat(r)
      PROVE  HeldAlone'
  <2>1. Busy(r) /\ run[r].job \in Jobs
    BY <1>0, <1>36, HeartbeatDoes, RunTyped
  <2>2. UNCHANGED <<run, faults, overtaken>> /\ JobOf(r).stale
    BY <1>0, <1>36, HeartbeatDoes
  <2>3. \A i \in Jobs \ {run[r].job} : job'[i] = job[i]
    BY <1>0, <1>36, HeartbeatDoes DEF Wrote
  <2>4. ASSUME NEW s \in Runs, NEW i \in Jobs
        PROVE  /\ Works(s, i)' = Works(s, i) /\ GivesUp(s, i)' = GivesUp(s, i)
               /\ Sole(i)' = Sole(i)
    BY <2>2 DEF Works, GivesUp, At, Busy, Sole, Had
  <2> QED
    BY <1>0, <2>1, <2>2, <2>3, <2>4 DEF LockInv, HeldAlone, JobOf
<1>37. ASSUME NEW j \in Jobs, LeaseEnds(j)
      PROVE  HeldAlone'
  <2>1. CASE "stall" \in faults'
    BY <2>1 DEF HeldAlone, Sole, Had
  <2>2. CASE ~(\E r \in Runs : Drives(r, j))
    <3>1. UNCHANGED <<run, overtaken>> /\ faults \subseteq faults'
      BY <1>0, <1>37, LeaseEndsDoes
    <3>2. \A i \in Jobs \ {j} : job'[i] = job[i]
      BY <1>0, <1>37, LeaseEndsDoes DEF Wrote
    <3>3. ASSUME NEW s \in Runs, NEW i \in Jobs
          PROVE  /\ Works(s, i)' = Works(s, i) /\ GivesUp(s, i)' = GivesUp(s, i)
                 /\ Sole(i)' => Sole(i)
      BY <3>1 DEF Works, GivesUp, At, Busy, Sole, Had
    <3>4. Sole(j) => \A s \in Runs : ~Works(s, j)
      BY <1>0, <2>2 DEF LockInv, HeldAlone, Drives, Works, At
    <3> QED
      BY <1>0, <3>1, <3>2, <3>3, <3>4 DEF LockInv, HeldAlone
  <2> QED
    BY <1>0, <1>37, <2>1, <2>2, LeaseEndsDoes
<1>38. ASSUME NEW j \in Jobs, ForgetCredentials(j)
      PROVE  HeldAlone'
  <2>1. LocksStay
    BY <1>0, <1>38, ForgetCredentialsDoes DEF LocksStay, LockKept, Wrote
  <2> QED
    BY <1>0, <1>38, <2>1, ForgetCredentialsDoes, RestHeld
<1>39. ASSUME NEW w \in Workers, Crash(w)
      PROVE  HeldAlone'
  <2>1. LocksStay
    BY <1>0, <1>39, CrashDoes DEF LocksStay, LockKept
  <2> QED
    BY <1>0, <1>39, <2>1, CrashDoes, RestHeld
<1>40. CASE UNCHANGED vars
  <2>1. LocksStay
    BY <1>40 DEF vars, LocksStay, LockKept
  <2> QED
    BY <1>0, <1>40, <2>1, RestHeld DEF vars
<1> QED
  BY <1>0, <1>1, <1>2, <1>3, <1>4, <1>5, <1>6, <1>7, <1>8, <1>9, <1>10, <1>11, <1>12,
     <1>13, <1>14, <1>15, <1>16, <1>17, <1>18, <1>19, <1>20, <1>21, <1>22, <1>23,
     <1>24, <1>25, <1>26, <1>27, <1>28, <1>29, <1>30, <1>31, <1>32, <1>33, <1>34,
     <1>35, <1>36, <1>37, <1>38, <1>39, <1>40, Steps DEF Step

LEMMA LockInvariant == Spec => []LockInv
<1>1. Init => LockInv
  <2>1. Init => HeldAlone
    BY DEF Init, HeldAlone, Works, At, Busy
  <2> QED
    BY <2>1, InitTyped DEF LockInv
<1>2. LockInv /\ [Next]_vars => LockInv'
  BY NextTyped, NextHeld DEF LockInv
<1> QED
  BY <1>1, <1>2, PTL DEF Spec

\* While nobody stalls past a lease or goes on with a setup that is being given up, one
\* worker drives a setup at a time, and rows are well typed: claims, heartbeats, releases
\* and recoveries agree, whatever the number of workers and whoever dies.
THEOREM OneDriverAtATime == Spec => []LocksTell
<1>1. LockInv => LocksTell
  <2> SUFFICES ASSUME LockInv PROVE OneDriver
    BY DEF LocksTell, LockInv, TypeInv
  <2> SUFFICES ASSUME NEW r \in Runs, NEW s \in Runs,
                      ~Had("stall"), Busy(r), run[r].job \notin overtaken,
                      Works(r, run[r].job),
                      Works(s, run[r].job) \/ GivesUp(s, run[r].job)
               PROVE  r = s
    BY DEF OneDriver
  <2>1. run[r].job \in Jobs
    BY RunTyped DEF LockInv, TypeInv
  <2> QED
    BY <2>1 DEF LockInv, HeldAlone, Sole
<1> QED
  BY <1>1, LockInvariant, PTL

(***************************************************************************)
(* Cancellation                                                            *)
(***************************************************************************)

StayCancelled ==
    \A j \in Jobs : job[j] # Null /\ job[j].status = "cancelled" => job'[j].status = "cancelled"

LEMMA NextCancelled == TypeInv /\ [Next]_vars => StayCancelled
<1> SUFFICES ASSUME TypeInv, [Next]_vars PROVE StayCancelled
  OBVIOUS
<1>0. TypeOK /\ RunsHaveRows
  BY DEF TypeInv
<1>1. ASSUME NEW w \in Workers, NEW j \in Jobs, Start(w, j)
      PROVE  StayCancelled
  BY <1>0, <1>1, StartDoes DEF StayCancelled, StatusKept, Wrote
<1>2. ASSUME NEW w \in Workers, NEW j \in Jobs, Submit(w, j)
      PROVE  StayCancelled
  BY <1>0, <1>2, SubmitDoes DEF StayCancelled, StatusKept, Wrote
<1>3. ASSUME NEW w \in Workers, NEW j \in Jobs, Cancel(w, j)
      PROVE  StayCancelled
  BY <1>0, <1>3, CancelDoes DEF StayCancelled, StatusKept, Wrote
<1>4. ASSUME NEW w \in Workers, NEW j \in Jobs, RecoverProvisioning(w, j)
      PROVE  StayCancelled
  BY <1>0, <1>4, RecoverProvisioningDoes DEF StayCancelled, StatusKept, Wrote, Claims
<1>5. ASSUME NEW w \in Workers, NEW j \in Jobs, RecoverAwaiting(w, j)
      PROVE  StayCancelled
  BY <1>0, <1>5, RecoverAwaitingDoes DEF StayCancelled, StatusKept, Wrote
<1>6. ASSUME NEW w \in Workers, NEW j \in Jobs, RecoverFinalization(w, j)
      PROVE  StayCancelled
  BY <1>0, <1>6, RecoverFinalizationDoes DEF StayCancelled, StatusKept, Wrote, Claims
<1>7. ASSUME NEW w \in Workers, NEW j \in Jobs, RecoverExhausted(w, j)
      PROVE  StayCancelled
  BY <1>0, <1>7, RecoverExhaustedDoes DEF StayCancelled, StatusKept, Wrote
<1>8. ASSUME NEW w \in Workers, NEW j \in Jobs, RecoverCancelled(w, j)
      PROVE  StayCancelled
  BY <1>0, <1>8, RecoverCancelledDoes DEF StayCancelled, StatusKept, Wrote
<1>9. ASSUME NEW w \in Workers, NEW i \in Jobs, NEW j \in Jobs, Retry(w, i, j)
      PROVE  StayCancelled
  BY <1>0, <1>9, RetryDoes DEF StayCancelled, StatusKept
<1>10. ASSUME NEW r \in Runs, ClaimQueued(r)
      PROVE  StayCancelled
  BY <1>0, <1>10, ClaimQueuedDoes DEF StayCancelled, Claims, StatusKept, Wrote
<1>11. ASSUME NEW r \in Runs, CheckName(r)
      PROVE  StayCancelled
  BY <1>0, <1>11, CheckNameDoes DEF StayCancelled, Written, Refused, Updatable, Wrote
<1>12. ASSUME NEW r \in Runs, Advance(r)
      PROVE  StayCancelled
  BY <1>0, <1>12, AdvanceDoes DEF StayCancelled, Written, Refused, Updatable, Wrote
<1>13. ASSUME NEW r \in Runs, Synced(r)
      PROVE  StayCancelled
  BY <1>0, <1>13, SyncedDoes DEF StayCancelled, Written, Refused, Updatable, Wrote
<1>14. ASSUME NEW r \in Runs, Register(r)
      PROVE  StayCancelled
  BY <1>0, <1>14, RegisterDoes DEF StayCancelled
<1>15. ASSUME NEW r \in Runs, RecordProject(r)
      PROVE  StayCancelled
  BY <1>0, <1>15, RecordProjectDoes DEF StayCancelled, Written, Refused, Updatable, Wrote
<1>16. ASSUME NEW r \in Runs, AwaitContext(r)
      PROVE  StayCancelled
  BY <1>0, <1>16, AwaitContextDoes DEF StayCancelled, Written, Refused, Updatable, Wrote
<1>17. ASSUME NEW r \in Runs, StepFails(r)
      PROVE  StayCancelled
  BY <1>0, <1>17, StepFailsDoes DEF StayCancelled
<1>18. ASSUME NEW r \in Runs, Maybe(r)
      PROVE  StayCancelled
  BY <1>0, <1>18, MaybeDoes DEF StayCancelled
<1>19. ASSUME NEW r \in Runs, ClaimFinal(r)
      PROVE  StayCancelled
  BY <1>0, <1>19, ClaimFinalDoes DEF StayCancelled, Claims, StatusKept, Wrote
<1>20. ASSUME NEW r \in Runs, ToFinalizing(r)
      PROVE  StayCancelled
  BY <1>0, <1>20, ToFinalizingDoes DEF StayCancelled, Written, Updatable, Wrote
<1>21. ASSUME NEW r \in Runs, Finalize(r)
      PROVE  StayCancelled
  BY <1>0, <1>21, FinalizeDoes DEF StayCancelled
<1>22. ASSUME NEW r \in Runs, Rules(r)
      PROVE  StayCancelled
  BY <1>0, <1>22, RulesDoes DEF StayCancelled, Written, Refused, Updatable, Wrote
<1>23. ASSUME NEW r \in Runs, Publish(r)
      PROVE  StayCancelled
  BY <1>0, <1>23, PublishDoes DEF StayCancelled
<1>24. ASSUME NEW r \in Runs, Ready(r)
      PROVE  StayCancelled
  BY <1>0, <1>24, ReadyDoes DEF StayCancelled, Written, Refused, Updatable, Wrote
<1>25. ASSUME NEW r \in Runs, Readiness(r)
      PROVE  StayCancelled
  BY <1>0, <1>25, ReadinessDoes DEF StayCancelled
<1>26. ASSUME NEW r \in Runs, RollBack(r)
      PROVE  StayCancelled
  BY <1>0, <1>26, RollBackDoes DEF StayCancelled, TakenAway, Cleared
<1>27. ASSUME NEW r \in Runs, Fail(r)
      PROVE  StayCancelled
  BY <1>0, <1>27, FailDoes DEF StayCancelled, Written, Updatable, Wrote
<1>28. ASSUME NEW r \in Runs, ReleaseLock(r)
      PROVE  StayCancelled
  BY <1>0, <1>28, ReleaseLockDoes DEF StayCancelled, StatusKept, Wrote
<1>29. ASSUME NEW r \in Runs, Undo(r)
      PROVE  StayCancelled
  BY <1>0, <1>29, UndoDoes DEF StayCancelled, TakenAway, Cleared
<1>30. ASSUME NEW r \in Runs, Requeue(r)
      PROVE  StayCancelled
  BY <1>0, <1>30, RequeueDoes DEF StayCancelled, Written, Updatable, Wrote
<1>31. ASSUME NEW r \in Runs, ClaimCleanup(r)
      PROVE  StayCancelled
  BY <1>0, <1>31, ClaimCleanupDoes DEF StayCancelled, Claims, StatusKept, Wrote
<1>32. ASSUME NEW r \in Runs, CleanUpStopped(r)
      PROVE  StayCancelled
  BY <1>0, <1>32, CleanUpStoppedDoes DEF StayCancelled, TakenAway, Cleared
<1>33. ASSUME NEW r \in Runs, ClearLock(r)
      PROVE  StayCancelled
  BY <1>0, <1>33, ClearLockDoes DEF StayCancelled, StatusKept, Wrote
<1>34. ASSUME NEW r \in Runs, GiveUp(r)
      PROVE  StayCancelled
  BY <1>0, <1>34, GiveUpDoes DEF StayCancelled, Updatable, Wrote
<1>35. ASSUME NEW r \in Runs, Heartbeat(r)
      PROVE  StayCancelled
  BY <1>0, <1>35, HeartbeatDoes DEF StayCancelled, StatusKept, Wrote
<1>36. ASSUME NEW r \in Runs, StatementFails(r)
      PROVE  StayCancelled
  BY <1>0, <1>36, StatementFailsDoes DEF StayCancelled
<1>37. ASSUME NEW j \in Jobs, LeaseEnds(j)
      PROVE  StayCancelled
  BY <1>0, <1>37, LeaseEndsDoes DEF StayCancelled, StatusKept, Wrote
<1>38. ASSUME NEW j \in Jobs, ForgetCredentials(j)
      PROVE  StayCancelled
  BY <1>0, <1>38, ForgetCredentialsDoes DEF StayCancelled, StatusKept, Wrote
<1>39. ASSUME NEW w \in Workers, Crash(w)
      PROVE  StayCancelled
  BY <1>0, <1>39, CrashDoes DEF StayCancelled
<1>40. CASE UNCHANGED vars
  BY <1>40 DEF vars, StayCancelled
<1> QED
  BY <1>0, <1>1, <1>2, <1>3, <1>4, <1>5, <1>6, <1>7, <1>8, <1>9, <1>10, <1>11, <1>12,
     <1>13, <1>14, <1>15, <1>16, <1>17, <1>18, <1>19, <1>20, <1>21, <1>22, <1>23,
     <1>24, <1>25, <1>26, <1>27, <1>28, <1>29, <1>30, <1>31, <1>32, <1>33, <1>34,
     <1>35, <1>36, <1>37, <1>38, <1>39, <1>40, Steps DEF Step

LEMMA TypeInvariant == Spec => []TypeInv
BY InitTyped, NextTyped, PTL DEF Spec

\* A setup that was cancelled stays so, whoever of its worker, its recovery and its
\* clean-up writes its row later: every update that writes a status is refused for it.
THEOREM CancelledForGood == Spec => CancelledStays
<1>1. TypeInv /\ [Next]_vars
        => [\A j \in Jobs : job[j] # Null /\ job[j].status = "cancelled"
                              => job'[j].status = "cancelled"]_vars
  BY NextCancelled DEF StayCancelled
<1> QED
  BY <1>1, TypeInvariant, PTL DEF Spec, CancelledStays

(***************************************************************************)
(* Projects                                                                *)
(*                                                                         *)
(* A project belongs to the one setup that registered it: an id is drawn   *)
(* once, and from then on rows and runs that name it are of that setup.    *)
(***************************************************************************)

Drawn == {"registering", "record"}

RowsRefer ==
    \A j \in Jobs : job[j] # Null /\ job[j].project # Null => project[job[j].project] = j

RunsRefer ==
    \A r \in Runs : Busy(r) /\ run[r].project # Null
        => project[run[r].project] \in {"fresh", "deleted", run[r].job}

\* No two runs have the id that one of them is about to register or to record, nor one
\* that nobody has registered.
DrawnOnce ==
    \A r, s \in Runs :
        /\ Busy(r) /\ Busy(s)
        /\ run[r].project # Null /\ run[s].project = run[r].project
        /\ run[r].phase \in Drawn \/ project[run[r].project] = "fresh"
        => r = s

Registered ==
    \A r \in Runs :
        /\ At(r, {"registering"}) => project[run[r].project] = "fresh"
        /\ At(r, {"record"}) =>
              /\ project[run[r].project] = run[r].job
              /\ \A j \in Jobs : job[j] # Null => job[j].project # run[r].project

IdInv == TypeInv /\ RowsRefer /\ RunsRefer /\ DrawnOnce /\ Registered

\* Rows get no project, and runs only the one of their row.
RowsKeepProjects ==
    \A j \in Jobs : job'[j] # Null /\ job'[j].project # Null
        => job[j] # Null /\ job'[j].project = job[j].project

RunKeepsProject(r) ==
    run'[r] # Null /\ run'[r].project # Null =>
        \/ /\ Busy(r) /\ run'[r].project = run[r].project /\ run'[r].job = run[r].job
           /\ run'[r].phase \in Drawn => run'[r].phase = run[r].phase
        \/ /\ run'[r].job \in Jobs /\ job[run'[r].job] # Null
           /\ run'[r].project = job[run'[r].job].project
           /\ run'[r].phase \notin Drawn

IdsKept == RowsRefer' /\ RunsRefer' /\ DrawnOnce' /\ Registered'

LEMMA NoId == "fresh" \notin Jobs /\ "deleted" \notin Jobs /\ "fresh" # "deleted"
BY ProvisioningAssumption

\* What the projects of rows and runs are.
LEMMA IdsTyped ==
    ASSUME TypeInv
    PROVE  /\ \A j \in Jobs : job[j] # Null /\ job[j].project # Null
                                  => job[j].project \in Projects
           /\ \A r \in Runs : Busy(r) => run[r].job \in Jobs
           /\ \A r \in Runs : Busy(r) /\ run[r].project # Null => run[r].project \in Projects
           /\ \A r \in Runs : Busy(r) => job[run[r].job] # Null
           /\ \A r \in Runs : At(r, Drawn) => run[r].project # Null
BY RowTyped, RunTyped DEF TypeInv, RunsHaveRows, HasProject, At, Drawn

LEMMA QuietIds ==
    ASSUME IdInv, TypeInv', project' = project, RowsKeepProjects, \A r \in Runs : RunKeepsProject(r)
    PROVE  IdsKept
<1>1. RowsRefer'
  BY DEF RowsRefer, RowsKeepProjects, IdInv
<1>2. ASSUME NEW r \in Runs, run'[r] # Null, run'[r].project # Null
      PROVE  project[run'[r].project] \in {"fresh", "deleted", run'[r].job}
  BY <1>2 DEF RunKeepsProject, IdInv, RowsRefer, RunsRefer
<1>3. RunsRefer'
  BY <1>2 DEF RunsRefer, Busy
<1>4. DrawnOnce'
  <2> SUFFICES ASSUME NEW r \in Runs, NEW s \in Runs, run'[r] # Null, run'[s] # Null,
                      run'[r].project # Null, run'[s].project = run'[r].project,
                      run'[r].phase \in Drawn \/ project[run'[r].project] = "fresh"
               PROVE  r = s
    BY DEF DrawnOnce, Busy
  <2>1. /\ Busy(r) /\ run'[r].project = run[r].project /\ run'[r].job = run[r].job
        /\ run'[r].phase \in Drawn => run'[r].phase = run[r].phase
    BY NoId DEF RunKeepsProject, IdInv, RowsRefer
  <2>2. /\ \A j \in Jobs : job[j] # Null => job[j].project # run[r].project
    BY <2>1, NoId DEF IdInv, RowsRefer, Registered, At, Drawn
  <2>3. Busy(s) /\ run'[s].project = run[s].project
    BY <2>1, <2>2 DEF RunKeepsProject
  <2> QED
    BY <2>1, <2>3 DEF IdInv, DrawnOnce
<1>5. Registered'
  <2> SUFFICES ASSUME NEW r \in Runs, run'[r] # Null, run'[r].phase \in Drawn
               PROVE  /\ run'[r].phase = "registering" => project[run'[r].project] = "fresh"
                      /\ run'[r].phase = "record" =>
                            /\ project[run'[r].project] = run'[r].job
                            /\ \A j \in Jobs : job'[j] # Null => job'[j].project # run'[r].project
    BY DEF Registered, At, Busy, Drawn
  <2>1. run'[r].project # Null =>
          /\ Busy(r) /\ run'[r].project = run[r].project /\ run'[r].job = run[r].job
          /\ run'[r].phase = run[r].phase
    BY DEF RunKeepsProject
  <2>2. run'[r].project # Null
    BY DEF TypeInv, HasProject, At, Busy, Drawn
  <2> QED
    BY <2>1, <2>2 DEF IdInv, Registered, At, RowsKeepProjects, Drawn
<1> QED
  BY <1>1, <1>3, <1>4, <1>5 DEF IdsKept

\* A run moves on with its project, or with the one of its row.
LEMMA MoveIds ==
    ASSUME IdInv, TypeInv', NEW r \in Runs, Busy(r), Moved(r) \/ Ended(r),
           project' = project, RowsKeepProjects,
           run'[r] # Null =>
               \/ /\ run'[r].project = run[r].project
                  /\ run'[r].phase \in Drawn => run'[r].phase = run[r].phase
               \/ run'[r].project = JobOf(r).project /\ run'[r].phase \notin Drawn
    PROVE  IdsKept
<1>1. run[r].job \in Jobs /\ job[run[r].job] # Null
  BY IdsTyped DEF IdInv
<1>2. RunKeepsProject(r)
  BY <1>1 DEF RunKeepsProject, Moved, Ended, JobOf
<1>3. \A s \in Runs \ {r} : RunKeepsProject(s)
  BY DEF RunKeepsProject, Moved, Ended, Busy
<1> QED
  BY <1>2, <1>3, QuietIds

LEMMA LaunchIds ==
    ASSUME IdInv, TypeInv', NEW r \in Runs, NEW new, Launched(r, new),
           project' = project, RowsKeepProjects, new.phase \notin Drawn,
           \/ new.project = Null
           \/ new.job \in Jobs /\ job[new.job] # Null /\ new.project = job[new.job].project
    PROVE  IdsKept
<1>1. RunKeepsProject(r)
  BY DEF RunKeepsProject, Launched
<1>2. \A s \in Runs \ {r} : RunKeepsProject(s)
  BY DEF RunKeepsProject, Launched, Busy
<1> QED
  BY <1>1, <1>2, QuietIds

LEMMA RestIds ==
    ASSUME IdInv, TypeInv', project' = project, RowsKeepProjects,
           \A r \in Runs : run'[r] = Null \/ run'[r] = run[r]
    PROVE  IdsKept
<1>1. \A r \in Runs : RunKeepsProject(r)
  BY DEF RunKeepsProject, Busy
<1> QED
  BY <1>1, QuietIds

\* A run deletes its project: no other run is about to record that one, and no row
\* refers to it any more.
LEMMA ClearIds ==
    ASSUME IdInv, TypeInv', NEW r \in Runs, Busy(r), run[r].phase \notin Drawn,
           Cleared(run[r].project), Moved(r), run'[r].phase \notin Drawn,
           run'[r].project = run[r].project \/ run'[r].project = Null
    PROVE  IdsKept
<1> DEFINE p == run[r].project
<1>1. /\ \A q \in Projects : project'[q] = IF q = p /\ project[q] \in Jobs THEN "deleted"
                                           ELSE project[q]
      /\ \A j \in Jobs : /\ job[j] = Null => job'[j] = Null
                         /\ job[j] # Null => job'[j].project = IF p # Null /\ job[j].project = p
                                                               THEN Null ELSE job[j].project
  BY DEF Cleared
<1>2. \A s \in Runs \ {r} : run'[s] = run[s]
  BY DEF Moved
<1>3. run'[r].job = run[r].job
  BY DEF Moved
<1>4. ASSUME NEW s \in Runs, Busy(s), run[s].phase \in Drawn
      PROVE  run[s].project \in Projects /\ run[s].project # p
  BY <1>4, IdsTyped DEF IdInv, DrawnOnce, At
<1>5. RowsRefer'
  BY <1>1, IdsTyped DEF RowsRefer, IdInv
<1>6. RunsRefer'
  <2> SUFFICES ASSUME NEW s \in Runs, run'[s] # Null, run'[s].project # Null
               PROVE  project'[run'[s].project] \in {"fresh", "deleted", run'[s].job}
    BY DEF RunsRefer, Busy
  <2>1. Busy(s) /\ run'[s].project = run[s].project /\ run'[s].job = run[s].job
    BY <1>2, <1>3 DEF Busy
  <2>2. run[s].project \in Projects /\ project[run[s].project] \in {"fresh", "deleted", run[s].job}
    BY <2>1, IdsTyped DEF IdInv, RunsRefer
  <2> QED
    BY <1>1, <2>1, <2>2
<1>7. DrawnOnce'
  <2> SUFFICES ASSUME NEW s \in Runs, NEW t \in Runs, run'[s] # Null, run'[t] # Null,
                      run'[s].project # Null, run'[t].project = run'[s].project,
                      run'[s].phase \in Drawn \/ project'[run'[s].project] = "fresh"
               PROVE  s = t
    BY DEF DrawnOnce, Busy
  <2>1. /\ Busy(s) /\ run'[s].project = run[s].project
        /\ Busy(t) /\ run'[t].project = run[t].project
        /\ run'[s].phase \in Drawn => run[s].phase \in Drawn
    BY <1>2 DEF Busy
  <2>2. project'[run'[s].project] = "fresh" => project[run[s].project] = "fresh"
    BY <1>1, <2>1, IdsTyped, NoId DEF IdInv
  <2> QED
    BY <2>1, <2>2 DEF IdInv, DrawnOnce
<1>8. Registered'
  <2> SUFFICES ASSUME NEW s \in Runs, run'[s] # Null, run'[s].phase \in Drawn
               PROVE  /\ run'[s].phase = "registering" => project'[run'[s].project] = "fresh"
                      /\ run'[s].phase = "record" =>
                            /\ project'[run'[s].project] = run'[s].job
                            /\ \A j \in Jobs : job'[j] # Null => job'[j].project # run'[s].project
    BY DEF Registered, At, Busy, Drawn
  <2>1. s # r /\ run'[s] = run[s] /\ Busy(s)
    BY <1>2 DEF Busy
  <2>2. run[s].project \in Projects /\ run[s].project # p /\ run[s].project # Null
    BY <1>4, <2>1, ProvisioningAssumption
  <2>3. project'[run[s].project] = project[run[s].project]
    BY <1>1, <2>2
  <2>4. \A j \in Jobs : job'[j] # Null =>
            job[j] # Null /\ (job'[j].project = job[j].project \/ job'[j].project = Null)
    BY <1>1
  <2> QED
    BY <2>1, <2>2, <2>3, <2>4 DEF IdInv, Registered, At
<1> QED
  BY <1>5, <1>6, <1>7, <1>8 DEF IdsKept

\* A run that takes its project away deletes it, or changes neither rows nor projects.
LEMMA TakenIds ==
    ASSUME IdInv, TypeInv', NEW r \in Runs, Busy(r), run[r].phase \notin Drawn,
           TakenAway(r), Moved(r), run'[r].phase \notin Drawn,
           run'[r].project = run[r].project \/ run'[r].project = Null
    PROVE  IdsKept
<1>1. CASE Cleared(run[r].project)
  BY <1>1, ClearIds
<1>2. CASE UNCHANGED <<job, project>>
  <2>1. RowsKeepProjects
    BY <1>2 DEF RowsKeepProjects
  <2>2. RunKeepsProject(r)
    BY DEF RunKeepsProject, Moved
  <2>3. \A s \in Runs \ {r} : RunKeepsProject(s)
    BY DEF RunKeepsProject, Moved, Busy
  <2> QED
    BY <1>2, <2>1, <2>2, <2>3, QuietIds
<1> QED
  BY <1>1, <1>2 DEF TakenAway

LEMMA SyncedIds ==
    ASSUME IdInv, TypeInv', NEW r \in Runs, Synced(r)
    PROVE  IdsKept
<1>0. TypeOK /\ RunsHaveRows
  BY DEF IdInv, TypeInv
<1>1. /\ project' = project /\ Moved(r)
      /\ run'[r].project = NextProject /\ NextProject \in Unused
      /\ run'[r].phase \in {"registering", "rollback"}
  BY <1>0, SyncedDoes DEF Written, Refused
<1>2. RowsKeepProjects
  BY <1>0, SyncedDoes DEF RowsKeepProjects, Written, Refused, Wrote, ProjectKept, At, RunsHaveRows
<1>3. /\ project[NextProject] = "fresh"
      /\ \A s \in Runs : Busy(s) => run[s].project # NextProject
  BY <1>1 DEF Unused
<1>4. \A s \in Runs \ {r} : run'[s] = run[s]
  BY <1>1 DEF Moved
<1>5. RowsRefer'
  BY <1>1, <1>2 DEF RowsRefer, RowsKeepProjects, IdInv
<1>6. RunsRefer'
  BY <1>1, <1>3, <1>4 DEF RunsRefer, IdInv, Busy
<1>7. DrawnOnce'
  BY <1>1, <1>3, <1>4 DEF DrawnOnce, IdInv, Busy
<1>8. Registered'
  BY <1>1, <1>2, <1>3, <1>4 DEF Registered, IdInv, At, Busy, RowsKeepProjects, TypeInv, HasProject
<1> QED
  BY <1>5, <1>6, <1>7, <1>8 DEF IdsKept

LEMMA RegisterIds ==
    ASSUME IdInv, TypeInv', NEW r \in Runs, Register(r)
    PROVE  IdsKept
<1> DEFINE p == run[r].project
<1>0. TypeOK /\ RunsHaveRows
  BY DEF IdInv, TypeInv
<1>1. /\ job' = job /\ Moved(r) /\ run'[r].project = p /\ run'[r].phase = "record"
      /\ run'[r].job = run[r].job /\ \A s \in Runs \ {r} : run'[s] = run[s]
      /\ At(r, {"registering"}) /\ Busy(r) /\ run[r].phase = "registering"
  BY <1>0, RegisterDoes DEF Moved, At
<1>2. p \in Projects /\ p # Null /\ run[r].job \in Jobs /\ project[p] = "fresh"
  BY <1>1, IdsTyped DEF IdInv, Registered, At, Drawn
<1>3. project'[p] = run[r].job /\ \A q \in Projects : q # p => project'[q] = project[q]
  BY <1>0, <1>2, RegisterDoes
<1>4. \A s \in Runs : Busy(s) /\ run[s].project = p => s = r
  BY <1>1, <1>2 DEF IdInv, DrawnOnce
<1>5. \A j \in Jobs : job[j] # Null => job[j].project # p
  BY <1>2, NoId DEF IdInv, RowsRefer
<1>6. RowsRefer'
  BY <1>1, <1>3, <1>5, IdsTyped DEF RowsRefer, IdInv
<1>7. RunsRefer'
  BY <1>1, <1>3, <1>4, IdsTyped DEF RunsRefer, IdInv, Busy
<1>8. DrawnOnce'
  <2> SUFFICES ASSUME NEW s \in Runs, NEW t \in Runs, run'[s] # Null, run'[t] # Null,
                      run'[s].project # Null, run'[t].project = run'[s].project,
                      run'[s].phase \in Drawn \/ project'[run'[s].project] = "fresh"
               PROVE  s = t
    BY DEF DrawnOnce, Busy
  <2>1. /\ Busy(s) /\ run'[s].project = run[s].project
        /\ Busy(t) /\ run'[t].project = run[t].project
    BY <1>1 DEF Busy
  <2>2. CASE run[s].project = p
    BY <1>4, <2>1, <2>2
  <2>3. CASE run[s].project # p
    <3>1. s # r /\ run[s].project \in Projects
      BY <2>1, <2>3, IdsTyped DEF IdInv
    <3>2. run[s].phase \in Drawn \/ project[run[s].project] = "fresh"
      BY <1>1, <1>3, <2>1, <2>3, <3>1
    <3> QED
      BY <2>1, <3>2 DEF IdInv, DrawnOnce
  <2> QED
    BY <2>2, <2>3
<1>9. Registered'
  <2> SUFFICES ASSUME NEW s \in Runs, run'[s] # Null, run'[s].phase \in Drawn
               PROVE  /\ run'[s].phase = "registering" => project'[run'[s].project] = "fresh"
                      /\ run'[s].phase = "record" =>
                            /\ project'[run'[s].project] = run'[s].job
                            /\ \A j \in Jobs : job'[j] # Null => job'[j].project # run'[s].project
    BY DEF Registered, At, Busy, Drawn
  <2>1. CASE s = r
    BY <1>1, <1>3, <1>5, <2>1
  <2>2. CASE s # r
    <3>1. Busy(s) /\ run'[s] = run[s]
      BY <1>1, <2>2 DEF Busy
    <3>2. run[s].project \in Projects /\ run[s].project # p
      BY <1>4, <2>2, <3>1, IdsTyped DEF IdInv, At
    <3> QED
      BY <1>1, <1>3, <3>1, <3>2 DEF IdInv, Registered, At
  <2> QED
    BY <2>1, <2>2
<1> QED
  BY <1>6, <1>7, <1>8, <1>9 DEF IdsKept

LEMMA RecordIds ==
    ASSUME IdInv, TypeInv', NEW r \in Runs, RecordProject(r)
    PROVE  IdsKept
<1> DEFINE p == run[r].project
           j == run[r].job
<1>0. TypeOK /\ RunsHaveRows
  BY DEF IdInv, TypeInv
<1>1. /\ project' = project /\ Moved(r) /\ run'[r].project = p
      /\ Busy(r) /\ run[r].phase = "record" /\ At(r, {"record"})
      /\ \/ Written(r, JobOf(r).status, "secrets") /\ job'[j].project = p
         \/ Refused(r)
  BY <1>0, RecordProjectDoes DEF At
<1>2. CASE Refused(r)
  <2>1. run'[r].phase = "rollback" /\ job' = job
    BY <1>2 DEF Refused
  <2> QED
    BY <1>1, <2>1, MoveIds DEF RowsKeepProjects, Drawn
<1>3. CASE Written(r, JobOf(r).status, "secrets") /\ job'[j].project = p
  <2>1. /\ \A i \in Jobs \ {j} : job'[i] = job[i]
        /\ run'[r].phase = "secrets" /\ job'[j].project = p
    BY <1>3 DEF Written, Wrote
  <2>2. /\ run'[r].job = j /\ \A s \in Runs \ {r} : run'[s] = run[s]
    BY <1>1 DEF Moved
  <2>3. j \in Jobs /\ p # Null /\ project[p] = j
    BY <1>1, IdsTyped DEF IdInv, Registered, At, Drawn
  <2>4. \A s \in Runs : Busy(s) /\ run[s].project = p => s = r
    BY <1>1, <2>3 DEF IdInv, DrawnOnce, Drawn
  <2>5. RowsRefer'
    BY <1>1, <2>1, <2>3 DEF RowsRefer, IdInv
  <2>6. RunsRefer'
    BY <1>1, <2>2 DEF RunsRefer, IdInv, Busy
  <2>7. DrawnOnce'
    BY <1>1, <2>1, <2>2 DEF DrawnOnce, IdInv, Busy, Drawn
  <2>8. Registered'
    <3> SUFFICES ASSUME NEW s \in Runs, run'[s] # Null, run'[s].phase \in Drawn
                 PROVE  /\ run'[s].phase = "registering" => project[run'[s].project] = "fresh"
                        /\ run'[s].phase = "record" =>
                              /\ project[run'[s].project] = run'[s].job
                              /\ \A i \in Jobs : job'[i] # Null => job'[i].project # run'[s].project
      BY <1>1 DEF Registered, At, Busy, Drawn
    <3>1. s # r /\ run'[s] = run[s] /\ Busy(s)
      BY <2>1, <2>2 DEF Drawn, Busy
    <3>2. run[s].project # p
      BY <2>4, <3>1
    <3> QED
      BY <2>1, <3>1, <3>2 DEF IdInv, Registered, At
  <2> QED
    BY <2>5, <2>6, <2>7, <2>8 DEF IdsKept
<1> QED
  BY <1>1, <1>2, <1>3

LEMMA NextIds == IdInv /\ [Next]_vars => IdInv'
<1> SUFFICES ASSUME IdInv, [Next]_vars PROVE IdsKept
  BY NextTyped DEF IdInv, IdsKept
<1>0. IdInv /\ TypeOK /\ RunsHaveRows /\ TypeInv'
  BY NextTyped DEF IdInv, TypeInv
<1>1. ASSUME NEW w \in Workers, NEW j \in Jobs, Start(w, j)
      PROVE  IdsKept
  <2>1. RowsKeepProjects /\ project' = project
    BY <1>0, <1>1, StartDoes DEF RowsKeepProjects, Wrote, ProjectKept
  <2>2. PICK r \in Runs : Launched(r, NewRun(w, j, "claim"))
    BY <1>0, <1>1, StartDoes
  <2> QED
    BY <1>0, <2>1, <2>2, LaunchIds, NewRunTyped, Membership DEF Drawn, Phases, Driving
<1>2. ASSUME NEW w \in Workers, NEW j \in Jobs, RecoverAwaiting(w, j)
      PROVE  IdsKept
  <2>1. RowsKeepProjects /\ project' = project
    BY <1>0, <1>2, RecoverAwaitingDoes DEF RowsKeepProjects, Wrote, ProjectKept
  <2>2. PICK r \in Runs : Launched(r, NewRun(w, j, "maybe"))
    BY <1>0, <1>2, RecoverAwaitingDoes
  <2> QED
    BY <1>0, <2>1, <2>2, LaunchIds, NewRunTyped, Membership DEF Drawn, Phases, Driving
<1>3. ASSUME NEW w \in Workers, NEW j \in Jobs, RecoverCancelled(w, j)
      PROVE  IdsKept
  <2>1. RowsKeepProjects /\ project' = project
    BY <1>0, <1>3, RecoverCancelledDoes DEF RowsKeepProjects, Wrote, ProjectKept
  <2>2. PICK r \in Runs : Launched(r, NewRun(w, j, "claimCleanup"))
    BY <1>0, <1>3, RecoverCancelledDoes
  <2> QED
    BY <1>0, <2>1, <2>2, LaunchIds, NewRunTyped, Membership DEF Drawn, Phases, Driving
<1>4. ASSUME NEW w \in Workers, NEW j \in Jobs, RecoverFinalization(w, j)
      PROVE  IdsKept
  <2>1. RowsKeepProjects /\ project' = project
    BY <1>0, <1>4, RecoverFinalizationDoes DEF RowsKeepProjects, Wrote, ProjectKept, Claims
  <2>2. PICK r \in Runs : Launched(r, NewRun(w, j, "resume"))
    BY <1>0, <1>4, RecoverFinalizationDoes
  <2> QED
    BY <1>0, <2>1, <2>2, LaunchIds, NewRunTyped, Membership DEF Drawn, Phases, Driving
<1>5. ASSUME NEW w \in Workers, NEW i \in Jobs, NEW j \in Jobs, Retry(w, i, j)
      PROVE  IdsKept
  <2>1. RowsKeepProjects /\ project' = project
    BY <1>0, <1>5, RetryDoes DEF RowsKeepProjects, Wrote, ProjectKept
  <2>2. PICK r \in Runs : Launched(r, NewRun(w, j, "claim"))
    BY <1>0, <1>5, RetryDoes
  <2> QED
    BY <1>0, <2>1, <2>2, LaunchIds, NewRunTyped, Membership DEF Drawn, Phases, Driving
<1>6. ASSUME NEW w \in Workers, NEW j \in Jobs, Submit(w, j)
      PROVE  IdsKept
  <2>1. RowsKeepProjects /\ project' = project
    BY <1>0, <1>6, SubmitDoes DEF RowsKeepProjects, Wrote, ProjectKept
  <2>2. run' = run \/ \E r \in Runs : Launched(r, NewRun(w, j, "maybe"))
    BY <1>0, <1>6, SubmitDoes
  <2> QED
    BY <1>0, <2>1, <2>2, RestIds, LaunchIds, NewRunTyped, Membership DEF Drawn
<1>7. ASSUME NEW w \in Workers, NEW j \in Jobs, Cancel(w, j)
      PROVE  IdsKept
  <2>1. RowsKeepProjects /\ project' = project
    BY <1>0, <1>7, CancelDoes DEF RowsKeepProjects, Wrote, ProjectKept
  <2>2. run' = run \/ \E r \in Runs : Launched(r, NewRun(w, j, "claimCleanup"))
    BY <1>0, <1>7, CancelDoes
  <2> QED
    BY <1>0, <2>1, <2>2, RestIds, LaunchIds, NewRunTyped, Membership DEF Drawn
<1>8. ASSUME NEW w \in Workers, NEW j \in Jobs, RecoverProvisioning(w, j)
      PROVE  IdsKept
  <2>1. RowsKeepProjects /\ project' = project /\ job[j] # Null
    BY <1>0, <1>8, RecoverProvisioningDoes DEF RowsKeepProjects, Wrote, ProjectKept, Claims
  <2>2. PICK r \in Runs, new \in Run : /\ Launched(r, new) /\ new.job = j
                                       /\ new.phase = "undo" /\ new.project = job[j].project
    BY <1>0, <1>8, RecoverProvisioningDoes
  <2> QED
    BY <1>0, <2>1, <2>2, LaunchIds DEF Drawn
<1>9. ASSUME NEW w \in Workers, NEW j \in Jobs, RecoverExhausted(w, j)
      PROVE  IdsKept
  <2>1. RowsKeepProjects /\ project' = project /\ job[j] # Null
    BY <1>0, <1>9, RecoverExhaustedDoes DEF RowsKeepProjects, Wrote, ProjectKept, Claims
  <2>2. PICK r \in Runs, new \in Run : /\ Launched(r, new) /\ new.job = j
                                       /\ new.phase = "exhausted" /\ new.project = job[j].project
    BY <1>0, <1>9, RecoverExhaustedDoes
  <2> QED
    BY <1>0, <2>1, <2>2, LaunchIds DEF Drawn
<1>10. ASSUME NEW r \in Runs, ClaimQueued(r)
      PROVE  IdsKept
  <2>1. RowsKeepProjects /\ project' = project
    BY <1>0, <1>10, ClaimQueuedDoes
       DEF RowsKeepProjects, RunsHaveRows, At, Wrote, ProjectKept, Written, Refused, Claims
  <2> QED
    BY <1>0, <1>10, <2>1, ClaimQueuedDoes, MoveIds DEF At, Busy, Ended, Drawn, Written, Refused
<1>11. ASSUME NEW r \in Runs, CheckName(r)
      PROVE  IdsKept
  <2>1. RowsKeepProjects /\ project' = project
    BY <1>0, <1>11, CheckNameDoes
       DEF RowsKeepProjects, RunsHaveRows, At, Wrote, ProjectKept, Written, Refused, Claims
  <2> QED
    BY <1>0, <1>11, <2>1, CheckNameDoes, MoveIds DEF At, Busy, Ended, Drawn, Written, Refused
<1>12. ASSUME NEW r \in Runs, Advance(r)
      PROVE  IdsKept
  <2>1. RowsKeepProjects /\ project' = project
    BY <1>0, <1>12, AdvanceDoes
       DEF RowsKeepProjects, RunsHaveRows, At, Wrote, ProjectKept, Written, Refused, Claims
  <2> QED
    BY <1>0, <1>12, <2>1, AdvanceDoes, MoveIds DEF At, Busy, Ended, Drawn, Written, Refused
<1>13. ASSUME NEW r \in Runs, Synced(r)
      PROVE  IdsKept
  BY <1>0, <1>13, SyncedIds
<1>14. ASSUME NEW r \in Runs, Register(r)
      PROVE  IdsKept
  BY <1>0, <1>14, RegisterIds
<1>15. ASSUME NEW r \in Runs, RecordProject(r)
      PROVE  IdsKept
  BY <1>0, <1>15, RecordIds
<1>16. ASSUME NEW r \in Runs, AwaitContext(r)
      PROVE  IdsKept
  <2>1. RowsKeepProjects /\ project' = project
    BY <1>0, <1>16, AwaitContextDoes
       DEF RowsKeepProjects, RunsHaveRows, At, Wrote, ProjectKept, Written, Refused, Claims
  <2> QED
    BY <1>0, <1>16, <2>1, AwaitContextDoes, MoveIds DEF At, Busy, Ended, Drawn, Written, Refused
<1>17. ASSUME NEW r \in Runs, StepFails(r)
      PROVE  IdsKept
  <2>1. RowsKeepProjects /\ project' = project
    BY <1>0, <1>17, StepFailsDoes
       DEF RowsKeepProjects, RunsHaveRows, At, Wrote, ProjectKept, Written, Refused, Claims
  <2> QED
    BY <1>0, <1>17, <2>1, StepFailsDoes, MoveIds DEF At, Busy, Ended, Drawn, Written, Refused
<1>18. ASSUME NEW r \in Runs, Maybe(r)
      PROVE  IdsKept
  <2>1. RowsKeepProjects /\ project' = project
    BY <1>0, <1>18, MaybeDoes
       DEF RowsKeepProjects, RunsHaveRows, At, Wrote, ProjectKept, Written, Refused, Claims
  <2> QED
    BY <1>0, <1>18, <2>1, MaybeDoes, MoveIds DEF At, Busy, Ended, Drawn, Written, Refused
<1>19. ASSUME NEW r \in Runs, ClaimFinal(r)
      PROVE  IdsKept
  <2>1. RowsKeepProjects /\ project' = project
    BY <1>0, <1>19, ClaimFinalDoes
       DEF RowsKeepProjects, RunsHaveRows, At, Wrote, ProjectKept, Written, Refused, Claims
  <2> QED
    BY <1>0, <1>19, <2>1, ClaimFinalDoes, MoveIds DEF At, Busy, Ended, Drawn, Written, Refused
<1>20. ASSUME NEW r \in Runs, ToFinalizing(r)
      PROVE  IdsKept
  <2>1. RowsKeepProjects /\ project' = project
    BY <1>0, <1>20, ToFinalizingDoes
       DEF RowsKeepProjects, RunsHaveRows, At, Wrote, ProjectKept, Written, Refused, Claims
  <2> QED
    BY <1>0, <1>20, <2>1, ToFinalizingDoes, MoveIds DEF At, Busy, Ended, Drawn, Written, Refused
<1>21. ASSUME NEW r \in Runs, Finalize(r)
      PROVE  IdsKept
  <2>1. RowsKeepProjects /\ project' = project
    BY <1>0, <1>21, FinalizeDoes
       DEF RowsKeepProjects, RunsHaveRows, At, Wrote, ProjectKept, Written, Refused, Claims
  <2> QED
    BY <1>0, <1>21, <2>1, FinalizeDoes, MoveIds DEF At, Busy, Ended, Drawn, Written, Refused
<1>22. ASSUME NEW r \in Runs, Rules(r)
      PROVE  IdsKept
  <2>1. RowsKeepProjects /\ project' = project
    BY <1>0, <1>22, RulesDoes
       DEF RowsKeepProjects, RunsHaveRows, At, Wrote, ProjectKept, Written, Refused, Claims
  <2> QED
    BY <1>0, <1>22, <2>1, RulesDoes, MoveIds DEF At, Busy, Ended, Drawn, Written, Refused
<1>23. ASSUME NEW r \in Runs, Publish(r)
      PROVE  IdsKept
  <2>1. RowsKeepProjects /\ project' = project
    BY <1>0, <1>23, PublishDoes
       DEF RowsKeepProjects, RunsHaveRows, At, Wrote, ProjectKept, Written, Refused, Claims
  <2> QED
    BY <1>0, <1>23, <2>1, PublishDoes, MoveIds DEF At, Busy, Ended, Drawn, Written, Refused
<1>24. ASSUME NEW r \in Runs, Ready(r)
      PROVE  IdsKept
  <2>1. RowsKeepProjects /\ project' = project
    BY <1>0, <1>24, ReadyDoes
       DEF RowsKeepProjects, RunsHaveRows, At, Wrote, ProjectKept, Written, Refused, Claims
  <2> QED
    BY <1>0, <1>24, <2>1, ReadyDoes, MoveIds DEF At, Busy, Ended, Drawn, Written, Refused
<1>25. ASSUME NEW r \in Runs, Readiness(r)
      PROVE  IdsKept
  <2>1. RowsKeepProjects /\ project' = project
    BY <1>0, <1>25, ReadinessDoes
       DEF RowsKeepProjects, RunsHaveRows, At, Wrote, ProjectKept, Written, Refused, Claims
  <2> QED
    BY <1>0, <1>25, <2>1, ReadinessDoes, MoveIds DEF At, Busy, Ended, Drawn, Written, Refused
<1>26. ASSUME NEW r \in Runs, RollBack(r)
      PROVE  IdsKept
  <2>1. /\ Busy(r) /\ run[r].phase \notin Drawn /\ TakenAway(r) /\ Moved(r)
        /\ run'[r].phase \notin Drawn
        /\ run'[r].project = run[r].project \/ run'[r].project = Null
    BY <1>0, <1>26, RollBackDoes DEF At, Drawn
  <2> QED
    BY <1>0, <2>1, TakenIds
<1>27. ASSUME NEW r \in Runs, Fail(r)
      PROVE  IdsKept
  <2>1. RowsKeepProjects /\ project' = project
    BY <1>0, <1>27, FailDoes
       DEF RowsKeepProjects, RunsHaveRows, At, Wrote, ProjectKept, Written, Refused, Claims
  <2> QED
    BY <1>0, <1>27, <2>1, FailDoes, MoveIds DEF At, Busy, Ended, Drawn, Written, Refused
<1>28. ASSUME NEW r \in Runs, ReleaseLock(r)
      PROVE  IdsKept
  <2>1. RowsKeepProjects /\ project' = project
    BY <1>0, <1>28, ReleaseLockDoes
       DEF RowsKeepProjects, RunsHaveRows, At, Wrote, ProjectKept, Written, Refused, Claims
  <2> QED
    BY <1>0, <1>28, <2>1, ReleaseLockDoes, MoveIds DEF At, Busy, Ended, Drawn, Written, Refused
<1>29. ASSUME NEW r \in Runs, Undo(r)
      PROVE  IdsKept
  <2>1. /\ Busy(r) /\ run[r].phase \notin Drawn /\ TakenAway(r) /\ Moved(r)
        /\ run'[r].phase \notin Drawn
        /\ run'[r].project = run[r].project \/ run'[r].project = Null
    BY <1>0, <1>29, UndoDoes DEF At, Drawn
  <2> QED
    BY <1>0, <2>1, TakenIds
<1>30. ASSUME NEW r \in Runs, Requeue(r)
      PROVE  IdsKept
  <2>1. RowsKeepProjects /\ project' = project
    BY <1>0, <1>30, RequeueDoes
       DEF RowsKeepProjects, RunsHaveRows, At, Wrote, ProjectKept, Written, Refused, Claims
  <2> QED
    BY <1>0, <1>30, <2>1, RequeueDoes, MoveIds DEF At, Busy, Ended, Drawn, Written, Refused
<1>31. ASSUME NEW r \in Runs, ClaimCleanup(r)
      PROVE  IdsKept
  <2>1. RowsKeepProjects /\ project' = project
    BY <1>0, <1>31, ClaimCleanupDoes
       DEF RowsKeepProjects, RunsHaveRows, At, Wrote, ProjectKept, Written, Refused, Claims
  <2> QED
    BY <1>0, <1>31, <2>1, ClaimCleanupDoes, MoveIds DEF At, Busy, Ended, Drawn, Written, Refused
<1>32. ASSUME NEW r \in Runs, CleanUpStopped(r)
      PROVE  IdsKept
  <2>1. /\ Busy(r) /\ run[r].phase \notin Drawn /\ TakenAway(r) /\ Moved(r)
        /\ run'[r].phase \notin Drawn
        /\ run'[r].project = run[r].project \/ run'[r].project = Null
    BY <1>0, <1>32, CleanUpStoppedDoes DEF At, Drawn
  <2> QED
    BY <1>0, <2>1, TakenIds
<1>33. ASSUME NEW r \in Runs, ClearLock(r)
      PROVE  IdsKept
  <2>1. RowsKeepProjects /\ project' = project
    BY <1>0, <1>33, ClearLockDoes
       DEF RowsKeepProjects, RunsHaveRows, At, Wrote, ProjectKept, Written, Refused, Claims
  <2> QED
    BY <1>0, <1>33, <2>1, ClearLockDoes, MoveIds DEF At, Busy, Ended, Drawn, Written, Refused
<1>34. ASSUME NEW r \in Runs, GiveUp(r)
      PROVE  IdsKept
  <2>1. RowsKeepProjects /\ project' = project
    BY <1>0, <1>34, GiveUpDoes
       DEF RowsKeepProjects, RunsHaveRows, At, Wrote, ProjectKept, Written, Refused, Claims
  <2> QED
    BY <1>0, <1>34, <2>1, GiveUpDoes, MoveIds DEF At, Busy, Ended, Drawn, Written, Refused
<1>35. ASSUME NEW r \in Runs, Heartbeat(r)
      PROVE  IdsKept
  <2>1. RowsKeepProjects /\ project' = project /\ run' = run
    BY <1>0, <1>35, HeartbeatDoes DEF RowsKeepProjects, Wrote, ProjectKept, RunsHaveRows
  <2> QED
    BY <1>0, <2>1, RestIds
<1>36. ASSUME NEW r \in Runs, StatementFails(r)
      PROVE  IdsKept
  <2>1. RowsKeepProjects /\ project' = project
    BY <1>0, <1>36, StatementFailsDoes
       DEF RowsKeepProjects, RunsHaveRows, At, Wrote, ProjectKept, Written, Refused, Claims
  <2> QED
    BY <1>0, <1>36, <2>1, StatementFailsDoes, MoveIds, RestIds DEF At, Busy, Ended, Drawn, Written, Refused
<1>37. ASSUME NEW j \in Jobs, LeaseEnds(j)
      PROVE  IdsKept
  <2>1. RowsKeepProjects /\ project' = project /\ run' = run
    BY <1>0, <1>37, LeaseEndsDoes DEF RowsKeepProjects, Wrote, ProjectKept
  <2> QED
    BY <1>0, <2>1, RestIds
<1>38. ASSUME NEW j \in Jobs, ForgetCredentials(j)
      PROVE  IdsKept
  <2>1. RowsKeepProjects /\ project' = project /\ run' = run
    BY <1>0, <1>38, ForgetCredentialsDoes DEF RowsKeepProjects, Wrote, ProjectKept
  <2> QED
    BY <1>0, <2>1, RestIds
<1>39. ASSUME NEW w \in Workers, Crash(w)
      PROVE  IdsKept
  <2>1. RowsKeepProjects /\ project' = project
    BY <1>0, <1>39, CrashDoes DEF RowsKeepProjects
  <2> QED
    BY <1>0, <1>39, <2>1, CrashDoes, RestIds
<1>40. CASE UNCHANGED vars
  <2>1. RowsKeepProjects /\ project' = project /\ run' = run
    BY <1>40 DEF vars, RowsKeepProjects
  <2> QED
    BY <1>0, <2>1, RestIds
<1> QED
  BY <1>0, <1>1, <1>2, <1>3, <1>4, <1>5, <1>6, <1>7, <1>8, <1>9, <1>10, <1>11, <1>12,
     <1>13, <1>14, <1>15, <1>16, <1>17, <1>18, <1>19, <1>20, <1>21, <1>22, <1>23,
     <1>24, <1>25, <1>26, <1>27, <1>28, <1>29, <1>30, <1>31, <1>32, <1>33, <1>34,
     <1>35, <1>36, <1>37, <1>38, <1>39, <1>40, Steps DEF Step

LEMMA InitIds == Init => IdInv
<1> SUFFICES ASSUME Init PROVE IdInv
  OBVIOUS
<1>1. \A r \in Runs : ~Busy(r)
  BY DEF Init, Busy
<1>2. \A j \in Jobs : job[j] = Null
  BY DEF Init
<1> QED
  BY <1>1, <1>2, InitTyped DEF IdInv, RowsRefer, RunsRefer, DrawnOnce, Registered, At

(***************************************************************************)
(* Statuses                                                                *)
(*                                                                         *)
(* What a status tells follows from where the project of a setup is        *)
(* recorded at every moment: in the row, or with the one run that has yet  *)
(* to record it or to delete it.                                           *)
(***************************************************************************)

On(r, j) == Busy(r) /\ run[r].job = j

\* Of the projects whose deletion did not fail, setup j has none but q; it has none.
Only(j, q) == \A p \in Projects : project[p] = j => p = q \/ p \in left
Nothing(j) == \A p \in Projects : project[p] = j => p \in left

\* Phases in which the row is still that of a setup that provisions; in which the row has
\* the project of the run; in which a setup that is ready may have a run; in which there
\* is no project; in which the run knows it; in which the row does.
Starting   == {"naming", "initializing", "debugging", "syncing", "registering", "record",
               "secrets"}
Recorded   == {"secrets", "rules", "publishing", "published"}
AfterReady == {"readiness", "release", "maybe", "claim", "claimFinal", "claimCleanup"}
Bare       == {"naming", "initializing", "debugging", "syncing", "registering", "undo",
               "requeue", "fail", "giveUp"}
ByRun      == {"record", "secrets", "rules", "publishing", "published", "readiness",
               "rollback", "exhausted"}
ByRow      == {"toFinalizing", "resume", "finalize"}

\* Phases in which a project that no row records has to be recorded or deleted.
Pending    == {"record", "secrets", "rollback"}
Unpublished == Provisioning \union {"failed"}

Follows(r, j) ==
    /\ run[r].phase \in Recorded => job[j].project = run[r].project
    /\ run[r].phase \in Starting => job[j].status \in Provisioning

Accounts(r, j) ==
    /\ run[r].phase \in Bare => Nothing(j)
    /\ run[r].phase \in ByRun => Only(j, run[r].project)
    /\ run[r].phase \in ByRow => Only(j, job[j].project)

\* While nobody stalls, overtakes or cancels.
Watched(j) == Sole(j) /\ job[j] # Null /\ job[j].status # "cancelled"

Told(j) ==
    Watched(j) =>
        /\ \A r \in Runs : On(r, j) => Follows(r, j)
        /\ ~Had("readiness") /\ job[j].status = "ready" =>
              /\ job[j].project # Null
              /\ \A r \in Runs : On(r, j) => run[r].phase \in AfterReady
        /\ ~Had("crash") =>
              /\ \A r \in Runs : On(r, j) => Accounts(r, j)
              /\ job[j].status \notin Unpublished => Only(j, job[j].project)
              /\ /\ job[j].status \in Unpublished
                 /\ \A r \in Runs : On(r, j) => run[r].phase \notin Pending
                 => Nothing(j)

\* A project is a setup's only when the setup has a row; an update is refused only for a
\* setup that was cancelled, and only such a one is cleaned up under its lock.
Rooted == \A p \in Projects : project[p] \in Jobs => job[project[p]] # Null

OfCancelled(r) ==
    \/ At(r, {"rollback"}) /\ run[r].cause = "cancelled"
    \/ At(r, {"cleanup", "clearLock"})
Causes == \A r \in Runs : OfCancelled(r) => JobOf(r).status = "cancelled"

StatusInv == LockInv /\ IdInv /\ Rooted /\ Causes /\ \A j \in Jobs : Told(j)

\* What the invariant says of a setup that one run alone works on.
RunTold(r, j) ==
    /\ Follows(r, j)
    /\ ~Had("readiness") /\ job[j].status = "ready" =>
          job[j].project # Null /\ run[r].phase \in AfterReady
    /\ ~Had("crash") =>
          /\ Accounts(r, j)
          /\ job[j].status \notin Unpublished => Only(j, job[j].project)
          /\ job[j].status \in Unpublished /\ run[r].phase \notin Pending => Nothing(j)

Passive == {"claim", "maybe", "claimFinal", "claimCleanup"}

LEMMA PassivePhases ==
    /\ Phases \ (Working \union Giving) = Passive
    /\ Passive \subseteq AfterReady /\ "release" \in AfterReady
    /\ (Passive \union {"release"})
         \intersect (Recorded \union Starting \union Bare \union ByRun \union ByRow \union Pending)
         = {}
BY DEF Phases, Working, Giving, Driving, Passive, AfterReady, Recorded, Starting, Bare, ByRun,
       ByRow, Pending

LEMMA Alone ==
    ASSUME LockInv, NEW r \in Runs, NEW j \in Jobs, On(r, j), run[r].phase \in Working, Sole(j),
           NEW s \in Runs \ {r}, On(s, j)
    PROVE  run[s].phase \in Passive
<1>1. Works(r, j)
  BY DEF On, Works, At, Working
<1>2. ~Works(s, j) /\ ~GivesUp(s, j)
  BY <1>1 DEF LockInv, HeldAlone
<1>3. run[s].phase \in Phases
  BY RunTyped DEF LockInv, TypeInv, On
<1>4. run[s].phase \notin Working \union Giving
  BY <1>2 DEF On, Works, GivesUp, At, Working, Giving
<1> QED
  BY <1>3, <1>4, PassivePhases

LEMMA WorkerTold ==
    ASSUME LockInv, NEW r \in Runs, NEW j \in Jobs, On(r, j), run[r].phase \in Working, Sole(j)
    PROVE  /\ RunTold(r, j) => Told(j)
           /\ Told(j) /\ Watched(j) => RunTold(r, j)
<1>1. \A s \in Runs \ {r} : On(s, j) => run[s].phase \in Passive
  BY Alone
<1>2. \A s \in Runs \ {r} : On(s, j) => /\ Follows(s, j) /\ Accounts(s, j)
                                        /\ run[s].phase \in AfterReady
                                        /\ run[s].phase \notin Pending
  BY <1>1, PassivePhases DEF Follows, Accounts
<1>3. RunTold(r, j) => Told(j)
  BY <1>2 DEF RunTold, Told
<1>4. Told(j) /\ Watched(j) => RunTold(r, j)
  BY <1>2 DEF RunTold, Told
<1> QED
  BY <1>3, <1>4

LEMMA WorkerToldNext ==
    \A r \in Runs, j \in Jobs :
        /\ LockInv' /\ On(r, j)' /\ run'[r].phase \in Working /\ Sole(j)'
        /\ RunTold(r, j)'
        => Told(j)'
<1>1. \A r \in Runs, j \in Jobs :
        /\ LockInv /\ On(r, j) /\ run[r].phase \in Working /\ Sole(j)
        /\ RunTold(r, j)
        => Told(j)
  BY WorkerTold
<1>2. (\A r \in Runs, j \in Jobs :
        /\ LockInv /\ On(r, j) /\ run[r].phase \in Working /\ Sole(j)
        /\ RunTold(r, j)
        => Told(j))'
  BY <1>1, PTL
<1> QED
  BY <1>2 DEF Working

\* Nothing that counts of setup j changes.
RowUnmoved(j) ==
    /\ job[j] # Null /\ job'[j] # Null /\ StatusKept(j) /\ ProjectKept(j)
    /\ \A p \in Projects : (project'[p] = j /\ p \notin left') = (project[p] = j /\ p \notin left)

RunsUnmoved(j) ==
    /\ \A s \in Runs : On(s, j)' => \/ run'[s].phase \in Passive \union {"release"}
                                    \/ On(s, j) /\ run'[s] = run[s]
    /\ \A s \in Runs : On(s, j) /\ run[s].phase \in Pending
                           => run'[s] = run[s] \/ "crash" \in faults'

Onward == overtaken \subseteq overtaken' /\ faults \subseteq faults'

LEMMA UnmovedTold ==
    ASSUME NEW j \in Jobs, Told(j), RowUnmoved(j), RunsUnmoved(j), Onward, Watched(j)'
    PROVE  Told(j)'
<1>1. Watched(j)
  BY DEF Watched, Sole, Had, RowUnmoved, StatusKept, Onward
<1>2. /\ Nothing(j)' = Nothing(j)
      /\ \A q : Only(j, q) => \A p \in Projects : project'[p] = j => p = q \/ p \in left'
      /\ Nothing(j) => \A p \in Projects : project'[p] = j => p \in left'
  BY DEF Nothing, Only, RowUnmoved
<1>3. job'[j].status = job[j].status /\ job'[j].project = job[j].project
  BY DEF RowUnmoved, StatusKept, ProjectKept
<1>4. ASSUME NEW s \in Runs, On(s, j)'
      PROVE  \/ run'[s].phase \in Passive \union {"release"}
             \/ On(s, j) /\ run'[s] = run[s]
  BY <1>4 DEF RunsUnmoved
<1>5. ASSUME NEW s \in Runs, On(s, j)'
      PROVE  Follows(s, j)'
  BY <1>1, <1>3, <1>4, <1>5, PassivePhases DEF Told, Follows
<1>6. ASSUME ~Had("readiness")', job'[j].status = "ready"
      PROVE  /\ job'[j].project # Null
             /\ \A s \in Runs : On(s, j)' => run'[s].phase \in AfterReady
  BY <1>1, <1>3, <1>4, <1>6, PassivePhases DEF Told, Had, Onward
<1>7. ASSUME ~Had("crash")'
      PROVE  /\ \A s \in Runs : On(s, j)' => Accounts(s, j)'
             /\ job'[j].status \notin Unpublished => Only(j, job[j].project)'
             /\ /\ job'[j].status \in Unpublished
                /\ \A s \in Runs : On(s, j)' => run'[s].phase \notin Pending
                => Nothing(j)'
  <2>1. ~Had("crash")
    BY <1>7 DEF Had, Onward
  <2>2. ASSUME NEW s \in Runs, On(s, j)'
        PROVE  Accounts(s, j)'
    <3>1. CASE run'[s].phase \in Passive \union {"release"}
      BY <3>1, PassivePhases DEF Accounts
    <3>2. CASE On(s, j) /\ run'[s] = run[s]
      <4>1. Accounts(s, j)
        BY <1>1, <2>1, <3>2 DEF Told
      <4> QED
        BY <1>2, <1>3, <3>2, <4>1 DEF Accounts, Only, Nothing
    <3> QED
      BY <1>4, <2>2, <3>1, <3>2
  <2>3. job'[j].status \notin Unpublished => Only(j, job[j].project)'
    BY <1>1, <1>2, <1>3, <2>1 DEF Told, Only
  <2>4. ASSUME job'[j].status \in Unpublished,
               \A s \in Runs : On(s, j)' => run'[s].phase \notin Pending
        PROVE  Nothing(j)'
    <3>1. \A s \in Runs : On(s, j) => run[s].phase \notin Pending
      BY <1>7, <2>4 DEF RunsUnmoved, On, Busy, Had
    <3> QED
      BY <1>1, <1>2, <1>3, <2>1, <2>4, <3>1 DEF Told
  <2> QED
    BY <2>2, <2>3, <2>4
<1> QED
  BY <1>5, <1>6, <1>7 DEF Told

LEMMA MovedOn ==
    ASSUME NEW r \in Runs, Moved(r) \/ Ended(r)
    PROVE  /\ \A s \in Runs \ {r} : run'[s] = run[s]
           /\ run'[r] # Null => run'[r].job = run[r].job
BY DEF Moved, Ended

\* A step of a run leaves every other setup and run alone.
Aside(r) ==
    /\ Busy(r) /\ Onward
    /\ \A s \in Runs \ {r} : run'[s] = run[s]
    /\ run'[r] # Null => run'[r].job = run[r].job
    /\ \A j \in Jobs : job'[j] # Null /\ run[r].job # j => RowUnmoved(j)

LEMMA WroteAside ==
    ASSUME NEW r \in Runs, Busy(r), Onward, Moved(r) \/ Ended(r) \/ run' = run,
           project' = project, left' = left, job' = job \/ Wrote(run[r].job)
    PROVE  Aside(r)
BY DEF Aside, Moved, Ended, Wrote, RowUnmoved, StatusKept, ProjectKept, Busy

LEMMA TakenAside ==
    ASSUME IdInv, NEW r \in Runs, Busy(r), Moved(r), TakenAway(r)
    PROVE  Aside(r)
<1> DEFINE p == run[r].project
<1>1. Onward
  BY DEF TakenAway, Onward
<1>2. ASSUME NEW j \in Jobs, job'[j] # Null, run[r].job # j
      PROVE  RowUnmoved(j)
  <2>1. p # Null => p \in Projects /\ project[p] # j
    BY <1>2, IdsTyped, NoId DEF IdInv, RunsRefer
  <2>2. CASE Cleared(p) /\ left' = left
    <3>1. /\ job[j] # Null /\ job'[j].status = job[j].status
          /\ job'[j].project = IF p # Null /\ job[j].project = p THEN Null ELSE job[j].project
          /\ \A q \in Projects : project'[q] = IF q = p /\ project[q] \in Jobs THEN "deleted"
                                               ELSE project[q]
      BY <1>2, <2>2 DEF Cleared
    <3>2. job[j].project # p \/ p = Null
      BY <1>2, <2>1, <3>1 DEF IdInv, RowsRefer
    <3>3. \A q \in Projects : (project'[q] = j) = (project[q] = j)
      BY <2>1, <3>1, NoId, ProvisioningAssumption
    <3> QED
      BY <1>2, <2>2, <3>1, <3>2, <3>3 DEF RowUnmoved, StatusKept, ProjectKept
  <2>3. CASE UNCHANGED <<job, project>>
    <3>1. \A q \in Projects : project[q] = j => (q \in left' <=> q \in left)
      BY <2>1, ProvisioningAssumption DEF TakenAway
    <3> QED
      BY <1>2, <2>3, <3>1 DEF RowUnmoved, StatusKept, ProjectKept
  <2> QED
    BY <2>2, <2>3 DEF TakenAway
<1> QED
  BY <1>1, <1>2 DEF Aside, Moved

LEMMA RegisterAside ==
    ASSUME IdInv, NEW r \in Runs, Register(r)
    PROVE  Aside(r)
<1>1. TypeOK /\ RunsHaveRows
  BY DEF IdInv, TypeInv
<1>2. /\ At(r, {"registering"}) /\ Busy(r) /\ Moved(r) /\ job' = job /\ left' = left /\ Onward
      /\ \A q \in Projects : q # run[r].project => project'[q] = project[q]
      /\ run[r].project \in Projects => project'[run[r].project] = run[r].job
  BY <1>1, RegisterDoes DEF At, Onward
<1>3. project[run[r].project] = "fresh"
  BY <1>2 DEF IdInv, Registered
<1>4. ASSUME NEW j \in Jobs, job'[j] # Null, run[r].job # j
      PROVE  RowUnmoved(j)
  <2>1. \A q \in Projects : (project'[q] = j) = (project[q] = j)
    BY <1>2, <1>3, <1>4, NoId
  <2> QED
    BY <1>2, <1>4, <2>1 DEF RowUnmoved, StatusKept, ProjectKept
<1> QED
  BY <1>2, <1>4 DEF Aside, Moved

LEMMA ClaimOnward ==
    ASSUME NEW j, NEW w, NEW statuses, Claims(j, w, statuses)
    PROVE  overtaken \subseteq overtaken'
<1>1. overtaken' = overtaken \/ overtaken' = overtaken \union {j}
  BY Zenon DEF Claims
<1> QED
  BY <1>1

LEMMA StepAside ==
    ASSUME IdInv, NEW r \in Runs, Step(r) \/ Heartbeat(r) \/ StatementFails(r)
    PROVE  Aside(r)
<1>0. IdInv /\ TypeOK /\ RunsHaveRows
  BY DEF IdInv, TypeInv
<1>1. CASE ClaimQueued(r)
  <2>1. overtaken \subseteq overtaken'
    BY <1>0, <1>1, ClaimQueuedDoes, ClaimOnward
  <2> QED
    BY <1>0, <1>1, <2>1, ClaimQueuedDoes, WroteAside DEF At, Onward, Claims
<1>2. CASE CheckName(r)
  BY <1>0, <1>2, CheckNameDoes, WroteAside DEF At, Onward, Written, Refused
<1>3. CASE Advance(r)
  BY <1>0, <1>3, AdvanceDoes, WroteAside DEF At, Onward, Written, Refused
<1>4. CASE Synced(r)
  BY <1>0, <1>4, SyncedDoes, WroteAside DEF At, Onward, Written, Refused
<1>5. CASE Register(r)
  BY <1>0, <1>5, RegisterAside
<1>6. CASE RecordProject(r)
  BY <1>0, <1>6, RecordProjectDoes, WroteAside DEF At, Onward, Written, Refused
<1>7. CASE AwaitContext(r)
  BY <1>0, <1>7, AwaitContextDoes, WroteAside DEF At, Onward, Written, Refused
<1>8. CASE StepFails(r)
  BY <1>0, <1>8, StepFailsDoes, WroteAside DEF At, Onward, Written, Refused
<1>9. CASE Maybe(r)
  <2>1. overtaken \subseteq overtaken'
    BY <1>0, <1>9, MaybeDoes, SMT
  <2> QED
    BY <1>0, <1>9, <2>1, MaybeDoes, WroteAside DEF At, Onward, Claims
<1>10. CASE ClaimFinal(r)
  <2>1. overtaken \subseteq overtaken'
    BY <1>0, <1>10, ClaimFinalDoes, ClaimOnward
  <2> QED
    BY <1>0, <1>10, <2>1, ClaimFinalDoes, WroteAside DEF At, Onward, Claims
<1>11. CASE ToFinalizing(r)
  BY <1>0, <1>11, ToFinalizingDoes, WroteAside DEF At, Onward, Written, Refused
<1>12. CASE Finalize(r)
  BY <1>0, <1>12, FinalizeDoes, WroteAside DEF At, Onward, Written, Refused
<1>13. CASE Rules(r)
  BY <1>0, <1>13, RulesDoes, WroteAside DEF At, Onward, Written, Refused
<1>14. CASE Publish(r)
  BY <1>0, <1>14, PublishDoes, WroteAside DEF At, Onward, Written, Refused
<1>15. CASE Ready(r)
  BY <1>0, <1>15, ReadyDoes, WroteAside DEF At, Onward, Written, Refused
<1>16. CASE Readiness(r)
  BY <1>0, <1>16, ReadinessDoes, WroteAside DEF At, Onward, Written, Refused
<1>17. CASE RollBack(r)
  BY <1>0, <1>17, RollBackDoes, TakenAside DEF At
<1>18. CASE Fail(r)
  BY <1>0, <1>18, FailDoes, WroteAside DEF At, Onward, Written, Refused
<1>19. CASE ReleaseLock(r)
  BY <1>0, <1>19, ReleaseLockDoes, WroteAside DEF At, Onward, Written, Refused
<1>20. CASE Undo(r)
  BY <1>0, <1>20, UndoDoes, TakenAside DEF At
<1>21. CASE Requeue(r)
  BY <1>0, <1>21, RequeueDoes, WroteAside DEF At, Onward, Written, Refused
<1>22. CASE ClaimCleanup(r)
  <2>1. overtaken \subseteq overtaken'
    BY <1>0, <1>22, ClaimCleanupDoes, ClaimOnward
  <2> QED
    BY <1>0, <1>22, <2>1, ClaimCleanupDoes, WroteAside DEF At, Onward, Claims
<1>23. CASE CleanUpStopped(r)
  BY <1>0, <1>23, CleanUpStoppedDoes, TakenAside DEF At
<1>24. CASE ClearLock(r)
  BY <1>0, <1>24, ClearLockDoes, WroteAside DEF At, Onward, Written, Refused
<1>25. CASE GiveUp(r)
  BY <1>0, <1>25, GiveUpDoes, WroteAside DEF At, Onward, Written, Refused
<1>26. CASE Heartbeat(r)
  BY <1>0, <1>26, HeartbeatDoes, WroteAside DEF At, Onward, Written, Refused
<1>27. CASE StatementFails(r)
  BY <1>0, <1>27, StatementFailsDoes, WroteAside DEF At, Onward, Written, Refused
<1> QED
  BY <1>0, <1>1, <1>2, <1>3, <1>4, <1>5, <1>6, <1>7, <1>8, <1>9, <1>10, <1>11, <1>12,
     <1>13, <1>14, <1>15, <1>16, <1>17, <1>18, <1>19, <1>20, <1>21, <1>22, <1>23,
     <1>24, <1>25, <1>26, <1>27 DEF Step

\* No row goes, and a project is only ever given to a setup that has one.
Rooting ==
    /\ \A j \in Jobs : job[j] # Null => job'[j] # Null
    /\ \A p \in Projects : \/ project'[p] = project[p] \/ project'[p] = "deleted"
                           \/ \E j \in Jobs : job[j] # Null /\ project'[p] = j

LEMMA NextRooting == TypeInv /\ [Next]_vars => Rooting
<1> SUFFICES ASSUME TypeInv, [Next]_vars PROVE Rooting
  OBVIOUS
<1>0. TypeOK /\ RunsHaveRows
  BY DEF TypeInv
<1>1. ASSUME NEW w \in Workers, NEW j \in Jobs, Start(w, j)
      PROVE  Rooting
  BY <1>0, <1>1, StartDoes DEF Rooting, Wrote
<1>2. ASSUME NEW w \in Workers, NEW j \in Jobs, Submit(w, j)
      PROVE  Rooting
  BY <1>0, <1>2, SubmitDoes DEF Rooting, Wrote
<1>3. ASSUME NEW w \in Workers, NEW j \in Jobs, Cancel(w, j)
      PROVE  Rooting
  BY <1>0, <1>3, CancelDoes DEF Rooting, Wrote
<1>4. ASSUME NEW w \in Workers, NEW j \in Jobs, RecoverProvisioning(w, j)
      PROVE  Rooting
  BY <1>0, <1>4, RecoverProvisioningDoes DEF Rooting, Wrote, Claims
<1>5. ASSUME NEW w \in Workers, NEW j \in Jobs, RecoverAwaiting(w, j)
      PROVE  Rooting
  BY <1>0, <1>5, RecoverAwaitingDoes DEF Rooting, Wrote
<1>6. ASSUME NEW w \in Workers, NEW j \in Jobs, RecoverFinalization(w, j)
      PROVE  Rooting
  BY <1>0, <1>6, RecoverFinalizationDoes DEF Rooting, Wrote, Claims
<1>7. ASSUME NEW w \in Workers, NEW j \in Jobs, RecoverExhausted(w, j)
      PROVE  Rooting
  BY <1>0, <1>7, RecoverExhaustedDoes DEF Rooting, Wrote
<1>8. ASSUME NEW w \in Workers, NEW j \in Jobs, RecoverCancelled(w, j)
      PROVE  Rooting
  BY <1>0, <1>8, RecoverCancelledDoes DEF Rooting, Wrote
<1>9. ASSUME NEW w \in Workers, NEW i \in Jobs, NEW j \in Jobs, Retry(w, i, j)
      PROVE  Rooting
  BY <1>0, <1>9, RetryDoes DEF Rooting
<1>10. ASSUME NEW r \in Runs, ClaimQueued(r)
      PROVE  Rooting
  BY <1>0, <1>10, ClaimQueuedDoes DEF Rooting, Claims, Wrote
<1>11. ASSUME NEW r \in Runs, CheckName(r)
      PROVE  Rooting
  BY <1>0, <1>11, CheckNameDoes DEF Rooting, Written, Refused, Wrote
<1>12. ASSUME NEW r \in Runs, Advance(r)
      PROVE  Rooting
  BY <1>0, <1>12, AdvanceDoes DEF Rooting, Written, Refused, Wrote
<1>13. ASSUME NEW r \in Runs, Synced(r)
      PROVE  Rooting
  BY <1>0, <1>13, SyncedDoes DEF Rooting, Written, Refused, Wrote
<1>14. ASSUME NEW r \in Runs, Register(r)
      PROVE  Rooting
  <2>1. run[r].job \in Jobs /\ job[run[r].job] # Null
    BY <1>0, <1>14, RegisterDoes, RunTyped DEF At, RunsHaveRows
  <2> QED
    BY <1>0, <1>14, <2>1, RegisterDoes DEF Rooting
<1>15. ASSUME NEW r \in Runs, RecordProject(r)
      PROVE  Rooting
  BY <1>0, <1>15, RecordProjectDoes DEF Rooting, Written, Refused, Wrote
<1>16. ASSUME NEW r \in Runs, AwaitContext(r)
      PROVE  Rooting
  BY <1>0, <1>16, AwaitContextDoes DEF Rooting, Written, Refused, Wrote
<1>17. ASSUME NEW r \in Runs, StepFails(r)
      PROVE  Rooting
  BY <1>0, <1>17, StepFailsDoes DEF Rooting
<1>18. ASSUME NEW r \in Runs, Maybe(r)
      PROVE  Rooting
  BY <1>0, <1>18, MaybeDoes DEF Rooting
<1>19. ASSUME NEW r \in Runs, ClaimFinal(r)
      PROVE  Rooting
  BY <1>0, <1>19, ClaimFinalDoes DEF Rooting, Claims, Wrote
<1>20. ASSUME NEW r \in Runs, ToFinalizing(r)
      PROVE  Rooting
  BY <1>0, <1>20, ToFinalizingDoes DEF Rooting, Written, Wrote
<1>21. ASSUME NEW r \in Runs, Finalize(r)
      PROVE  Rooting
  BY <1>0, <1>21, FinalizeDoes DEF Rooting
<1>22. ASSUME NEW r \in Runs, Rules(r)
      PROVE  Rooting
  BY <1>0, <1>22, RulesDoes DEF Rooting, Written, Refused, Wrote
<1>23. ASSUME NEW r \in Runs, Publish(r)
      PROVE  Rooting
  BY <1>0, <1>23, PublishDoes DEF Rooting
<1>24. ASSUME NEW r \in Runs, Ready(r)
      PROVE  Rooting
  BY <1>0, <1>24, ReadyDoes DEF Rooting, Written, Refused, Wrote
<1>25. ASSUME NEW r \in Runs, Readiness(r)
      PROVE  Rooting
  BY <1>0, <1>25, ReadinessDoes DEF Rooting
<1>26. ASSUME NEW r \in Runs, RollBack(r)
      PROVE  Rooting
  BY <1>0, <1>26, RollBackDoes DEF Rooting, TakenAway, Cleared
<1>27. ASSUME NEW r \in Runs, Fail(r)
      PROVE  Rooting
  BY <1>0, <1>27, FailDoes DEF Rooting, Written, Wrote
<1>28. ASSUME NEW r \in Runs, ReleaseLock(r)
      PROVE  Rooting
  BY <1>0, <1>28, ReleaseLockDoes DEF Rooting, Wrote
<1>29. ASSUME NEW r \in Runs, Undo(r)
      PROVE  Rooting
  BY <1>0, <1>29, UndoDoes DEF Rooting, TakenAway, Cleared
<1>30. ASSUME NEW r \in Runs, Requeue(r)
      PROVE  Rooting
  BY <1>0, <1>30, RequeueDoes DEF Rooting, Written, Wrote
<1>31. ASSUME NEW r \in Runs, ClaimCleanup(r)
      PROVE  Rooting
  BY <1>0, <1>31, ClaimCleanupDoes DEF Rooting, Claims, Wrote
<1>32. ASSUME NEW r \in Runs, CleanUpStopped(r)
      PROVE  Rooting
  BY <1>0, <1>32, CleanUpStoppedDoes DEF Rooting, TakenAway, Cleared
<1>33. ASSUME NEW r \in Runs, ClearLock(r)
      PROVE  Rooting
  BY <1>0, <1>33, ClearLockDoes DEF Rooting, Wrote
<1>34. ASSUME NEW r \in Runs, GiveUp(r)
      PROVE  Rooting
  BY <1>0, <1>34, GiveUpDoes DEF Rooting, Wrote
<1>35. ASSUME NEW r \in Runs, Heartbeat(r)
      PROVE  Rooting
  BY <1>0, <1>35, HeartbeatDoes DEF Rooting, Wrote
<1>36. ASSUME NEW r \in Runs, StatementFails(r)
      PROVE  Rooting
  BY <1>0, <1>36, StatementFailsDoes DEF Rooting
<1>37. ASSUME NEW j \in Jobs, LeaseEnds(j)
      PROVE  Rooting
  BY <1>0, <1>37, LeaseEndsDoes DEF Rooting, Wrote
<1>38. ASSUME NEW j \in Jobs, ForgetCredentials(j)
      PROVE  Rooting
  BY <1>0, <1>38, ForgetCredentialsDoes DEF Rooting, Wrote
<1>39. ASSUME NEW w \in Workers, Crash(w)
      PROVE  Rooting
  BY <1>0, <1>39, CrashDoes DEF Rooting
<1>40. CASE UNCHANGED vars
  BY <1>40 DEF vars, Rooting
<1> QED
  BY <1>0, <1>1, <1>2, <1>3, <1>4, <1>5, <1>6, <1>7, <1>8, <1>9, <1>10, <1>11, <1>12,
     <1>13, <1>14, <1>15, <1>16, <1>17, <1>18, <1>19, <1>20, <1>21, <1>22, <1>23,
     <1>24, <1>25, <1>26, <1>27, <1>28, <1>29, <1>30, <1>31, <1>32, <1>33, <1>34,
     <1>35, <1>36, <1>37, <1>38, <1>39, <1>40, Steps DEF Step

LEMMA NextRooted == TypeInv /\ Rooted /\ [Next]_vars => Rooted'
BY NextRooting, NoId DEF Rooted, Rooting

\* A run comes to undo, or to clean up, a cancelled setup only when it is cancelled.
Caused(r) ==
    \A s \in Runs : OfCancelled(s)' =>
        /\ run'[s].job = run[s].job
        /\ OfCancelled(s) \/ (s = r /\ JobOf(r).status = "cancelled")

LEMMA StepCaused ==
    ASSUME TypeInv, Causes, NEW r \in Runs, Step(r) \/ Heartbeat(r) \/ StatementFails(r)
    PROVE  Caused(r)
<1>0. TypeOK /\ RunsHaveRows
  BY DEF TypeInv
<1>1. CASE ClaimQueued(r)
  BY <1>0, <1>1, ClaimQueuedDoes DEF Caused, OfCancelled, At, Busy, Claims, JobOf, Moved, Ended
<1>2. CASE CheckName(r)
  BY <1>0, <1>2, CheckNameDoes DEF Caused, OfCancelled, At, Busy, Written, Refused, Updatable, JobOf, Moved
<1>3. CASE Advance(r)
  BY <1>0, <1>3, AdvanceDoes DEF Caused, OfCancelled, At, Busy, Written, Refused, Updatable, JobOf, Moved
<1>4. CASE Synced(r)
  BY <1>0, <1>4, SyncedDoes DEF Caused, OfCancelled, At, Busy, Written, Refused, Updatable, JobOf, Moved
<1>5. CASE Register(r)
  BY <1>0, <1>5, RegisterDoes DEF Caused, OfCancelled, At, Busy, Moved
<1>6. CASE RecordProject(r)
  BY <1>0, <1>6, RecordProjectDoes DEF Caused, OfCancelled, At, Busy, Written, Refused, Updatable, JobOf, Moved
<1>7. CASE AwaitContext(r)
  BY <1>0, <1>7, AwaitContextDoes DEF Caused, OfCancelled, At, Busy, Written, Refused, Updatable, JobOf, Moved
<1>8. CASE StepFails(r)
  BY <1>0, <1>8, StepFailsDoes DEF Caused, OfCancelled, At, Busy, Moved
<1>9. CASE Maybe(r)
  BY <1>0, <1>9, MaybeDoes DEF Caused, OfCancelled, At, Busy, Moved, Ended
<1>10. CASE ClaimFinal(r)
  BY <1>0, <1>10, ClaimFinalDoes DEF Caused, OfCancelled, At, Busy, Claims, JobOf, Moved, Ended
<1>11. CASE ToFinalizing(r)
  BY <1>0, <1>11, ToFinalizingDoes DEF Caused, OfCancelled, At, Busy, Written, Moved
<1>12. CASE Finalize(r)
  BY <1>0, <1>12, FinalizeDoes DEF Caused, OfCancelled, At, Busy, Moved
<1>13. CASE Rules(r)
  BY <1>0, <1>13, RulesDoes DEF Caused, OfCancelled, At, Busy, Written, Refused, Updatable, JobOf, Moved
<1>14. CASE Publish(r)
  BY <1>0, <1>14, PublishDoes DEF Caused, OfCancelled, At, Busy, Moved
<1>15. CASE Ready(r)
  BY <1>0, <1>15, ReadyDoes DEF Caused, OfCancelled, At, Busy, Written, Refused, Updatable, JobOf, Moved
<1>16. CASE Readiness(r)
  BY <1>0, <1>16, ReadinessDoes DEF Caused, OfCancelled, At, Busy, Moved
<1>17. CASE RollBack(r)
  BY <1>0, <1>17, RollBackDoes DEF Caused, OfCancelled, At, Busy, Moved
<1>18. CASE Fail(r)
  BY <1>0, <1>18, FailDoes DEF Caused, OfCancelled, At, Busy, Written, Moved
<1>19. CASE ReleaseLock(r)
  BY <1>0, <1>19, ReleaseLockDoes DEF Caused, OfCancelled, At, Busy, Moved, Ended
<1>20. CASE Undo(r)
  BY <1>0, <1>20, UndoDoes DEF Caused, OfCancelled, At, Busy, Moved
<1>21. CASE Requeue(r)
  BY <1>0, <1>21, RequeueDoes DEF Caused, OfCancelled, At, Busy, Written, Moved
<1>22. CASE ClaimCleanup(r)
  BY <1>0, <1>22, ClaimCleanupDoes DEF Caused, OfCancelled, At, Busy, Claims, JobOf, Moved, Ended
<1>23. CASE CleanUpStopped(r)
  BY <1>0, <1>23, CleanUpStoppedDoes DEF Caused, OfCancelled, At, Busy, Moved
<1>24. CASE ClearLock(r)
  BY <1>0, <1>24, ClearLockDoes DEF Caused, OfCancelled, At, Busy, Moved, Ended
<1>25. CASE GiveUp(r)
  BY <1>0, <1>25, GiveUpDoes DEF Caused, OfCancelled, At, Busy, Moved, Ended
<1>26. CASE Heartbeat(r)
  BY <1>0, <1>26, HeartbeatDoes DEF Caused, OfCancelled, At, Busy
<1>27. CASE StatementFails(r)
  BY <1>0, <1>27, StatementFailsDoes DEF Caused, OfCancelled, At, Busy, Moved, Ended
<1> QED
  BY <1>0, <1>1, <1>2, <1>3, <1>4, <1>5, <1>6, <1>7, <1>8, <1>9, <1>10, <1>11, <1>12,
     <1>13, <1>14, <1>15, <1>16, <1>17, <1>18, <1>19, <1>20, <1>21, <1>22, <1>23,
     <1>24, <1>25, <1>26, <1>27 DEF Step

Elsewhere == {"rollback", "cleanup", "clearLock"}

LEMMA CausesKept ==
    ASSUME TypeInv, Causes, StayCancelled,
           \A s \in Runs : OfCancelled(s)' =>
               /\ run'[s].job = run[s].job /\ Busy(s)
               /\ OfCancelled(s) \/ JobOf(s).status = "cancelled"
    PROVE  Causes'
<1> SUFFICES ASSUME NEW s \in Runs, OfCancelled(s)'
             PROVE  job'[run'[s].job].status = "cancelled"
  BY DEF Causes, JobOf
<1>1. run'[s].job = run[s].job /\ Busy(s) /\ job[run[s].job].status = "cancelled"
  BY DEF Causes, JobOf
<1>2. run[s].job \in Jobs /\ job[run[s].job] # Null
  BY <1>1, RunTyped DEF TypeInv, RunsHaveRows
<1> QED
  BY <1>1, <1>2 DEF StayCancelled

LEMMA LaunchCauses ==
    ASSUME TypeInv, Causes, StayCancelled, NEW r, NEW new, Launched(r, new),
           new.phase \notin Elsewhere
    PROVE  Causes'
<1>1. ASSUME NEW s \in Runs, OfCancelled(s)'
      PROVE  Busy(s) /\ run'[s] = run[s]
  BY <1>1 DEF Launched, OfCancelled, At, Busy, Elsewhere
<1>2. \A s \in Runs : OfCancelled(s)' => OfCancelled(s)
  BY <1>1 DEF OfCancelled, At, Busy
<1> QED
  BY <1>1, <1>2, CausesKept

LEMMA RestCauses ==
    ASSUME TypeInv, Causes, StayCancelled, \A r \in Runs : run'[r] = Null \/ run'[r] = run[r]
    PROVE  Causes'
<1>1. \A s \in Runs : OfCancelled(s)' => OfCancelled(s) /\ Busy(s) /\ run'[s] = run[s]
  BY DEF OfCancelled, At, Busy
<1> QED
  BY <1>1, CausesKept

LEMMA NextCauses == IdInv /\ Causes /\ [Next]_vars => Causes'
<1> SUFFICES ASSUME IdInv, Causes, [Next]_vars PROVE Causes'
  OBVIOUS
<1>0. TypeOK /\ RunsHaveRows /\ IdInv /\ TypeInv /\ Causes /\ StayCancelled
  BY NextCancelled DEF TypeInv, IdInv
<1>1. ASSUME NEW w \in Workers, NEW j \in Jobs, Start(w, j)
      PROVE  Causes'
  <2>1. NewRun(w, j, "claim").phase \notin Elsewhere
    BY DEF NewRun, Elsewhere
  <2> QED
    BY <1>0, <1>1, <2>1, StartDoes, LaunchCauses
<1>2. ASSUME NEW w \in Workers, NEW j \in Jobs, Submit(w, j)
      PROVE  Causes'
  <2>1. NewRun(w, j, "maybe").phase \notin Elsewhere
    BY DEF NewRun, Elsewhere
  <2> QED
    BY <1>0, <1>2, <2>1, SubmitDoes, LaunchCauses, RestCauses
<1>3. ASSUME NEW w \in Workers, NEW j \in Jobs, Cancel(w, j)
      PROVE  Causes'
  <2>1. NewRun(w, j, "claimCleanup").phase \notin Elsewhere
    BY DEF NewRun, Elsewhere
  <2> QED
    BY <1>0, <1>3, <2>1, CancelDoes, LaunchCauses, RestCauses
<1>4. ASSUME NEW w \in Workers, NEW j \in Jobs, RecoverProvisioning(w, j)
      PROVE  Causes'
  BY <1>0, <1>4, RecoverProvisioningDoes, LaunchCauses DEF Elsewhere
<1>5. ASSUME NEW w \in Workers, NEW j \in Jobs, RecoverAwaiting(w, j)
      PROVE  Causes'
  <2>1. NewRun(w, j, "maybe").phase \notin Elsewhere
    BY DEF NewRun, Elsewhere
  <2> QED
    BY <1>0, <1>5, <2>1, RecoverAwaitingDoes, LaunchCauses
<1>6. ASSUME NEW w \in Workers, NEW j \in Jobs, RecoverFinalization(w, j)
      PROVE  Causes'
  <2>1. NewRun(w, j, "resume").phase \notin Elsewhere
    BY DEF NewRun, Elsewhere
  <2> QED
    BY <1>0, <1>6, <2>1, RecoverFinalizationDoes, LaunchCauses
<1>7. ASSUME NEW w \in Workers, NEW j \in Jobs, RecoverExhausted(w, j)
      PROVE  Causes'
  BY <1>0, <1>7, RecoverExhaustedDoes, LaunchCauses DEF Elsewhere
<1>8. ASSUME NEW w \in Workers, NEW j \in Jobs, RecoverCancelled(w, j)
      PROVE  Causes'
  <2>1. NewRun(w, j, "claimCleanup").phase \notin Elsewhere
    BY DEF NewRun, Elsewhere
  <2> QED
    BY <1>0, <1>8, <2>1, RecoverCancelledDoes, LaunchCauses
<1>9. ASSUME NEW w \in Workers, NEW i \in Jobs, NEW j \in Jobs, Retry(w, i, j)
      PROVE  Causes'
  <2>1. NewRun(w, j, "claim").phase \notin Elsewhere
    BY DEF NewRun, Elsewhere
  <2> QED
    BY <1>0, <1>9, <2>1, RetryDoes, LaunchCauses
<1>10. ASSUME NEW r \in Runs, Step(r) \/ Heartbeat(r) \/ StatementFails(r)
      PROVE  Causes'
  <2>1. Caused(r) /\ Aside(r)
    BY <1>0, <1>10, StepCaused, StepAside
  <2>2. ASSUME NEW s \in Runs, OfCancelled(s)'
        PROVE  /\ run'[s].job = run[s].job /\ Busy(s)
               /\ OfCancelled(s) \/ JobOf(s).status = "cancelled"
    BY <2>1, <2>2 DEF Caused, Aside, OfCancelled, At
  <2> QED
    BY <1>0, <2>2, CausesKept
<1>11. ASSUME NEW j \in Jobs, LeaseEnds(j)
      PROVE  Causes'
  BY <1>0, <1>11, LeaseEndsDoes, RestCauses
<1>12. ASSUME NEW j \in Jobs, ForgetCredentials(j)
      PROVE  Causes'
  BY <1>0, <1>12, ForgetCredentialsDoes, RestCauses
<1>13. ASSUME NEW w \in Workers, Crash(w)
      PROVE  Causes'
  BY <1>0, <1>13, CrashDoes, RestCauses
<1>14. CASE UNCHANGED vars
  BY <1>0, <1>14, RestCauses DEF vars
<1> QED
  BY <1>0, <1>1, <1>2, <1>3, <1>4, <1>5, <1>6, <1>7, <1>8, <1>9, <1>10, <1>11, <1>12,
     <1>13, <1>14, Steps

(***************************************************************************)
(* How what is told of a setup survives each step                          *)
(***************************************************************************)

\* A step of a run that is on another setup.
LEMMA OtherTold ==
    ASSUME NEW r \in Runs, Aside(r), NEW j \in Jobs, run[r].job # j, Told(j), Watched(j)'
    PROVE  Told(j)'
<1>1. RowUnmoved(j) /\ Onward
  BY DEF Aside, Watched
<1>2. RunsUnmoved(j)
  BY DEF Aside, RunsUnmoved, On, Busy
<1> QED
  BY <1>1, <1>2, UnmovedTold

\* A run that has nothing to record or to delete ends, rests, or only looks on.
LEMMA QuietTold ==
    ASSUME NEW r \in Runs, Aside(r), NEW j \in Jobs, Told(j), Watched(j)', RowUnmoved(j),
           run[r].phase \notin Pending,
           \/ run'[r] = Null \/ run'[r] = run[r] \/ run'[r].phase \in Passive \union {"release"}
    PROVE  Told(j)'
<1>1. RunsUnmoved(j) /\ Onward
  BY DEF Aside, RunsUnmoved, On, Busy
<1> QED
  BY <1>1, UnmovedTold

LEMMA LaunchTold ==
    ASSUME NEW r, NEW new, Launched(r, new), new.phase \in Passive,
           NEW j \in Jobs, Told(j), Watched(j)', RowUnmoved(j), Onward
    PROVE  Told(j)'
<1>1. RunsUnmoved(j)
  BY DEF Launched, RunsUnmoved, On, Busy
<1> QED
  BY <1>1, UnmovedTold

LEMMA RestTold ==
    ASSUME NEW j \in Jobs, Told(j), Watched(j)', RowUnmoved(j), Onward,
           \/ \A r \in Runs : run'[r] = run[r]
           \/ "crash" \in faults' /\ \A r \in Runs : run'[r] = Null \/ run'[r] = run[r]
    PROVE  Told(j)'
<1>1. RunsUnmoved(j)
  BY DEF RunsUnmoved, On, Busy
<1> QED
  BY <1>1, UnmovedTold

\* A setup starts with nothing.
LEMMA FreshTold ==
    ASSUME TypeInv, Rooted, NEW r, NEW new, Launched(r, new), new.phase \in Passive,
           NEW j \in Jobs, job[j] = Null, job'[j].status = "queued", project' = project
    PROVE  Told(j)'
<1>1. Nothing(j)'
  BY DEF Rooted, Nothing
<1>2. \A s \in Runs : On(s, j)' => run'[s].phase \in Passive
  BY RunTyped DEF On, Busy, Launched, TypeInv, RunsHaveRows
<1>3. \A s \in Runs : On(s, j)' => Follows(s, j)' /\ Accounts(s, j)'
  BY <1>2, PassivePhases DEF Follows, Accounts
<1>4. "queued" \in Unpublished /\ "queued" # "ready"
  BY DEF Unpublished, Provisioning
<1> QED
  BY <1>1, <1>3, <1>4 DEF Told

LEMMA WatchedBefore ==
    ASSUME StayCancelled, Onward, NEW j \in Jobs, job[j] # Null, Watched(j)'
    PROVE  Watched(j)
BY DEF StayCancelled, Onward, Watched, Sole, Had

\* A run that works on a setup goes on working on it.
LEMMA WorkTold ==
    ASSUME StatusInv, LockInv', StayCancelled, NEW r \in Runs, Aside(r), Moved(r),
           run[r].phase \in Working, run'[r].phase \in Working,
           NEW j \in Jobs, run[r].job = j, Watched(j)',
           RunTold(r, j) /\ Watched(j) => RunTold(r, j)'
    PROVE  Told(j)'
<1>1. job[j] # Null /\ On(r, j)
  BY DEF StatusInv, LockInv, TypeInv, RunsHaveRows, Aside, On
<1>2. Watched(j)
  BY <1>1, WatchedBefore DEF Aside
<1>3. RunTold(r, j)
  BY <1>1, <1>2, WorkerTold DEF StatusInv, Watched
<1>4. On(r, j)' /\ Sole(j)'
  BY <1>1 DEF On, Moved, Busy, Watched
<1> QED
  BY <1>2, <1>3, <1>4, WorkerToldNext

\* The steps of a run that works on a setup, up to the release of its lock.
DrivingStep(r) ==
    \/ CheckName(r) \/ Advance(r) \/ Synced(r) \/ Register(r) \/ RecordProject(r)
    \/ AwaitContext(r) \/ StepFails(r) \/ ToFinalizing(r) \/ Finalize(r) \/ Rules(r)
    \/ Publish(r) \/ Ready(r) \/ Readiness(r) \/ RollBack(r) \/ Fail(r) \/ Undo(r)
    \/ Requeue(r) \/ StatementFails(r)

\* One run alone on a setup: what each of its steps tells of it.
LEMMA RunStepTold ==
    ASSUME TypeInv, Causes, NEW r \in Runs, DrivingStep(r), Busy(r), Aside(r),
           run[r].phase \in Working, Moved(r),
           NEW j \in Jobs, run[r].job = j, Watched(j), Watched(j)', RunTold(r, j)
    PROVE  RunTold(r, j)'
<1>0. TypeOK /\ RunsHaveRows /\ HasProject
  BY DEF TypeInv
<1>a. /\ Updatable(j) /\ JobOf(r) = job[j] /\ job[j] # Null /\ job'[j] # Null
      /\ job'[j].status # "cancelled" /\ job[j].status # "cancelled"
  BY DEF Watched, Updatable, JobOf
<1>b. run'[r].job = j /\ Onward
  BY DEF Moved, Aside
<1>c. \A kind : Had(kind) => Had(kind)'
  BY <1>b DEF Had, Onward
<1>d. Null \notin Projects
  BY ProvisioningAssumption
<1>1. CASE CheckName(r)
  BY <1>0, <1>a, <1>b, <1>c, <1>d, <1>1, CheckNameDoes DEF RunTold, Follows, Accounts,
     Only, Nothing, Starting, Recorded, AfterReady, Bare, ByRun, ByRow, Pending,
     Unpublished, Provisioning, StatusKept, ProjectKept, At, Written, Refused
<1>2. CASE Advance(r)
  BY <1>0, <1>a, <1>b, <1>c, <1>d, <1>2, AdvanceDoes DEF RunTold, Follows, Accounts,
     Only, Nothing, Starting, Recorded, AfterReady, Bare, ByRun, ByRow, Pending,
     Unpublished, Provisioning, StatusKept, ProjectKept, At, Written, Refused
<1>3. CASE Synced(r)
  BY <1>0, <1>a, <1>b, <1>c, <1>d, <1>3, SyncedDoes DEF RunTold, Follows, Accounts,
     Only, Nothing, Starting, Recorded, AfterReady, Bare, ByRun, ByRow, Pending,
     Unpublished, Provisioning, StatusKept, ProjectKept, At, Written, Refused
<1>4. CASE Register(r)
  BY <1>0, <1>a, <1>b, <1>c, <1>d, <1>4, RegisterDoes DEF RunTold, Follows, Accounts,
     Only, Nothing, Starting, Recorded, AfterReady, Bare, ByRun, ByRow, Pending,
     Unpublished, Provisioning, StatusKept, ProjectKept, At
<1>5. CASE RecordProject(r)
  BY <1>0, <1>a, <1>b, <1>c, <1>d, <1>5, RecordProjectDoes DEF RunTold, Follows,
     Accounts, Only, Nothing, Starting, Recorded, AfterReady, Bare, ByRun, ByRow,
     Pending, Unpublished, Provisioning, StatusKept, ProjectKept, At, Written, Refused
<1>6. CASE AwaitContext(r)
  BY <1>0, <1>a, <1>b, <1>c, <1>d, <1>6, AwaitContextDoes DEF RunTold, Follows,
     Accounts, Only, Nothing, Starting, Recorded, AfterReady, Bare, ByRun, ByRow,
     Pending, Unpublished, Provisioning, StatusKept, ProjectKept, At, Written, Refused
<1>7. CASE StepFails(r)
  BY <1>0, <1>a, <1>b, <1>c, <1>d, <1>7, StepFailsDoes DEF RunTold, Follows, Accounts,
     Only, Nothing, Starting, Recorded, AfterReady, Bare, ByRun, ByRow, Pending,
     Unpublished, Provisioning, StatusKept, ProjectKept, At
<1>8. CASE ToFinalizing(r)
  BY <1>0, <1>a, <1>b, <1>c, <1>d, <1>8, ToFinalizingDoes DEF RunTold, Follows,
     Accounts, Only, Nothing, Starting, Recorded, AfterReady, Bare, ByRun, ByRow,
     Pending, Unpublished, Provisioning, StatusKept, ProjectKept, At, Written
<1>9. CASE Finalize(r)
  BY <1>0, <1>a, <1>b, <1>c, <1>d, <1>9, FinalizeDoes DEF RunTold, Follows, Accounts,
     Only, Nothing, Starting, Recorded, AfterReady, Bare, ByRun, ByRow, Pending,
     Unpublished, Provisioning, StatusKept, ProjectKept, At
<1>10. CASE Rules(r)
  BY <1>0, <1>a, <1>b, <1>c, <1>d, <1>10, RulesDoes DEF RunTold, Follows, Accounts,
     Only, Nothing, Starting, Recorded, AfterReady, Bare, ByRun, ByRow, Pending,
     Unpublished, Provisioning, StatusKept, ProjectKept, At, Written, Refused
<1>11. CASE Publish(r)
  BY <1>0, <1>a, <1>b, <1>c, <1>d, <1>11, PublishDoes DEF RunTold, Follows, Accounts,
     Only, Nothing, Starting, Recorded, AfterReady, Bare, ByRun, ByRow, Pending,
     Unpublished, Provisioning, StatusKept, ProjectKept, At
<1>12. CASE Ready(r)
  BY <1>0, <1>a, <1>b, <1>c, <1>d, <1>12, ReadyDoes DEF RunTold, Follows, Accounts,
     Only, Nothing, Starting, Recorded, AfterReady, Bare, ByRun, ByRow, Pending,
     Unpublished, Provisioning, StatusKept, ProjectKept, At, Written, Refused,
     HasProject
<1>13. CASE Readiness(r)
  <2>1. run'[r].phase = "release" \/ (run'[r].phase = "rollback" /\ Had("readiness")')
    BY <1>0, <1>13, ReadinessDoes DEF Had
  <2>2. /\ run[r].phase = "readiness" /\ run'[r].project = run[r].project
        /\ job' = job /\ project' = project /\ left' = left
    BY <1>0, <1>13, ReadinessDoes DEF At
  <2>3. Follows(r, j)'
    BY <2>1 DEF Follows, Recorded, Starting
  <2>4. Had("crash") \/ Accounts(r, j)'
    BY <2>1, <2>2 DEF RunTold, Accounts, Only, Bare, ByRun, ByRow
  <2> QED
    BY <1>c, <2>1, <2>2, <2>3, <2>4 DEF RunTold, Only, Nothing, AfterReady, Pending
<1>14. CASE RollBack(r)
  <2>1. ASSUME NEW p \in Projects, project'[p] = j, p \notin left'
        PROVE  project[p] = j /\ p # run[r].project /\ p \notin left
    <3>1. TakenAway(r)
      BY <1>0, <1>14, RollBackDoes
    <3> QED
      BY <2>1, <3>1, NoId DEF TakenAway, Cleared, Exists
  <2>2. ~Had("crash") => Nothing(j)'
    BY <1>0, <1>14, <2>1, RollBackDoes DEF RunTold, Accounts, Nothing, Only, Bare, ByRun, At
  <2>3. job'[j].status = job[j].status /\ run[r].phase = "rollback"
    BY <1>0, <1>a, <1>14, RollBackDoes DEF TakenAway, Cleared, At
  <2>5. run'[r].phase = "fail"
    BY <1>0, <1>a, <1>14, RollBackDoes DEF Causes, OfCancelled, At
  <2>6. Follows(r, j)'
    BY <2>5 DEF Follows, Recorded, Starting
  <2>7. Nothing(j)' => Accounts(r, j)'
    BY DEF Accounts, Nothing, Only
  <2>8. job[j].status # "ready" \/ Had("readiness")
    BY <2>3 DEF RunTold, AfterReady
  <2> QED
    BY <1>c, <2>2, <2>3, <2>6, <2>7, <2>8 DEF RunTold, Only, Nothing
<1>15. CASE Fail(r)
  BY <1>0, <1>a, <1>b, <1>c, <1>d, <1>15, FailDoes DEF RunTold, Follows, Accounts,
     Only, Nothing, Starting, Recorded, AfterReady, Bare, ByRun, ByRow, Pending,
     Unpublished, Provisioning, StatusKept, ProjectKept, At, Written
<1>16. CASE Undo(r)
  <2>1. ASSUME NEW p \in Projects, project'[p] = j, p \notin left'
        PROVE  project[p] = j /\ p # run[r].project /\ p \notin left
    <3>1. TakenAway(r)
      BY <1>0, <1>16, UndoDoes
    <3> QED
      BY <2>1, <3>1, NoId DEF TakenAway, Cleared, Exists
  <2>2. ~Had("crash") => Nothing(j)'
    BY <1>0, <1>16, <2>1, UndoDoes DEF RunTold, Accounts, Nothing, Only, Bare, ByRun, At
  <2>3. job'[j].status = job[j].status /\ run[r].phase = "undo"
    BY <1>0, <1>a, <1>16, UndoDoes DEF TakenAway, Cleared, At
  <2>5. run'[r].phase = "requeue"
    BY <1>0, <1>a, <1>16, UndoDoes DEF At
  <2>6. Follows(r, j)'
    BY <2>5 DEF Follows, Recorded, Starting
  <2>7. Nothing(j)' => Accounts(r, j)'
    BY DEF Accounts, Nothing, Only
  <2>8. job[j].status # "ready" \/ Had("readiness")
    BY <2>3 DEF RunTold, AfterReady
  <2> QED
    BY <1>c, <2>2, <2>3, <2>6, <2>7, <2>8 DEF RunTold, Only, Nothing
<1>17. CASE Requeue(r)
  BY <1>0, <1>a, <1>b, <1>c, <1>d, <1>17, RequeueDoes DEF RunTold, Follows, Accounts,
     Only, Nothing, Starting, Recorded, AfterReady, Bare, ByRun, ByRow, Pending,
     Unpublished, Provisioning, StatusKept, ProjectKept, At, Written
<1>18. CASE StatementFails(r)
  <2>1. job' = job /\ project' = project /\ left' = left
    BY <1>0, <1>18, StatementFailsDoes
  <2>2. CASE /\ At(r, {"naming", "initializing", "debugging", "syncing", "record",
                       "secrets", "rules", "published"})
             /\ run'[r].project = run[r].project /\ run'[r].phase = "rollback"
    <3>1. Follows(r, j)' /\ (job[j].status # "ready" \/ Had("readiness"))
      BY <2>1, <2>2 DEF RunTold, Follows, Recorded, Starting, AfterReady, At
    <3>2. Had("crash") \/ Accounts(r, j)'
      BY <2>1, <2>2 DEF RunTold, Accounts, Nothing, Only, Bare, ByRun, ByRow, At
    <3> QED
      BY <1>c, <2>1, <2>2, <3>1, <3>2 DEF RunTold, Only, Pending
  <2>3. CASE /\ At(r, {"undo", "requeue"})
             /\ run'[r].project = run[r].project /\ run'[r].phase = "fail"
    <3>1. Follows(r, j)' /\ (job[j].status # "ready" \/ Had("readiness"))
      BY <2>1, <2>3 DEF RunTold, Follows, Recorded, Starting, AfterReady, At
    <3>2. Had("crash") \/ (Accounts(r, j)' /\ Nothing(j)')
      BY <2>1, <2>3 DEF RunTold, Accounts, Nothing, Only, Bare, ByRun, ByRow, At
    <3> QED
      BY <1>c, <2>1, <2>3, <3>1, <3>2 DEF RunTold, Only
  <2>4. CASE run' = run
    BY <1>c, <2>1, <2>4 DEF RunTold, Follows, Accounts, Only, Nothing
  <2>5. CASE At(r, {"toFinalizing", "resume", "fail"}) /\ run'[r].phase = "release"
    <3>1. Follows(r, j)' /\ Accounts(r, j)' /\ (job[j].status # "ready" \/ Had("readiness"))
      BY <2>1, <2>5 DEF RunTold, Follows, Accounts, Recorded, Starting, Bare, ByRun, ByRow,
                        AfterReady, At
    <3> QED
      BY <1>c, <2>1, <2>5, <3>1 DEF RunTold, Only, Nothing, Pending, At
  <2> QED
    BY <1>0, <1>18, <2>2, <2>3, <2>4, <2>5, StatementFailsDoes DEF Moved, Ended
<1> QED
  BY <1>1, <1>2, <1>3, <1>4, <1>5, <1>6, <1>7, <1>8, <1>9, <1>10, <1>11, <1>12, <1>13,
     <1>14, <1>15, <1>16, <1>17, <1>18 DEF DrivingStep

\* Whoever is on a setup that nobody works on looks on or gives it up.
LEMMA OnLookers ==
    ASSUME TypeInv, NEW j \in Jobs, NEW s \in Runs, On(s, j), ~Works(s, j)
    PROVE  /\ run[s].phase \in Passive \union Giving
           /\ ~GivesUp(s, j) => run[s].phase \in Passive
<1>1. run[s].phase \in Phases
  BY RunTyped DEF TypeInv, On
<1>2. /\ run[s].phase \notin Working
      /\ ~GivesUp(s, j) => run[s].phase \notin Giving
  BY DEF On, Works, GivesUp, At, Working, Giving
<1> QED
  BY <1>1, <1>2, PassivePhases

LEMMA GivingPhases ==
    Giving \intersect (Recorded \union Starting \union Pending \union Working) = {}
BY DEF Giving, Recorded, Starting, Pending, Working, Driving

\* A claim is of a setup that nobody works on or gives up: its project is nowhere, or in
\* its row.
LEMMA ClaimTold ==
    ASSUME StatusInv, LockInv', StayCancelled, NEW j \in Jobs, NEW w, NEW statuses,
           Claims(j, w, statuses), Watched(j)', project' = project, left' = left,
           faults' = faults,
           NEW r \in Runs, run'[r] # Null, run'[r].job = j, run'[r].phase \in Working,
           \/ statuses \subseteq Provisioning /\ run'[r].phase \in {"naming", "undo"}
           \/ /\ statuses \subseteq Finalization \union {"awaiting_context"}
              /\ run'[r].phase \in {"toFinalizing", "resume"}
    PROVE  Told(j)'
<1>0. LockInv /\ TypeInv /\ Told(j)
  BY DEF StatusInv, LockInv
<1>1. /\ job[j] # Null /\ job[j].status \in statuses /\ Free(j)
      /\ job'[j].status = job[j].status /\ job'[j].project = job[j].project
  BY DEF Claims, StatusKept, ProjectKept
<1>2. overtaken \subseteq overtaken'
  BY ClaimOnward
<1>3. Sole(j) /\ Watched(j)
  BY <1>1, <1>2, WatchedBefore DEF Onward, Watched
<1>4. \A s \in Runs : ~Works(s, j)
  BY <1>0, <1>1, <1>3, FreeOfWork
<1>5. \A s \in Runs : ~GivesUp(s, j)
  <2>1. (\E s \in Runs : GivesUp(s, j)) => overtaken' = overtaken \union {j}
    BY Zenon DEF Claims
  <2> QED
    BY <2>1 DEF Watched, Sole
<1>6. \A s \in Runs : On(s, j) => run[s].phase \in Passive /\ run[s].phase \notin Pending
  BY <1>0, <1>4, <1>5, OnLookers, PassivePhases
<1>7. ~Had("crash") => /\ job[j].status \notin Unpublished => Only(j, job[j].project)
                       /\ job[j].status \in Unpublished => Nothing(j)
  BY <1>0, <1>3, <1>6 DEF Told
<1>8. /\ Only(j, job[j].project) => Only(j, job[j].project)'
      /\ Nothing(j) => Nothing(j)' /\ Only(j, job[j].project)'
  BY <1>1 DEF Only, Nothing
<1>9. \A kind : Had(kind)' = Had(kind)
  BY DEF Had
<1>10. CASE statuses \subseteq Provisioning /\ run'[r].phase \in {"naming", "undo"}
  <2>1. /\ job[j].status \in Provisioning /\ job[j].status \in Unpublished
        /\ job[j].status # "ready"
    BY <1>1, <1>10 DEF Unpublished, Provisioning
  <2>2. Follows(r, j)' /\ (Nothing(j)' => Accounts(r, j)')
    BY <1>1, <1>10, <2>1 DEF Follows, Accounts, Nothing, Only, Recorded
  <2>3. RunTold(r, j)'
    BY <1>1, <1>7, <1>8, <1>9, <2>1, <2>2 DEF RunTold
  <2> QED
    BY <2>3, WorkerToldNext DEF On, Busy, Watched
<1>11. CASE /\ statuses \subseteq Finalization \union {"awaiting_context"}
            /\ run'[r].phase \in {"toFinalizing", "resume"}
  <2>1. job[j].status \notin Unpublished /\ job[j].status # "ready"
    BY <1>1, <1>11 DEF Unpublished, Provisioning, Finalization
  <2>2. Follows(r, j)' /\ (Only(j, job[j].project)' => Accounts(r, j)')
    BY <1>11 DEF Follows, Accounts, Recorded, Starting, Bare, ByRun
  <2>3. RunTold(r, j)'
    BY <1>1, <1>7, <1>8, <1>9, <2>1, <2>2 DEF RunTold
  <2> QED
    BY <2>3, WorkerToldNext DEF On, Busy, Watched
<1> QED
  BY <1>10, <1>11

\* A run starts to give up a setup that nobody works on.
LEMMA GivingTold ==
    ASSUME StatusInv, StayCancelled, Onward, NEW r \in Runs, NEW j \in Jobs, job[j] # Null,
           job' = job, project' = project, left' = left, Watched(j)', job[j].status # "ready",
           run'[r].job = j, run'[r].phase = "exhausted", run'[r].project = job[j].project,
           \A s \in Runs \ {r} : run'[s] = run[s],
           \A s \in Runs : ~Works(s, j)
    PROVE  Told(j)'
<1>0. TypeInv /\ Told(j) /\ Watched(j)
  BY WatchedBefore DEF StatusInv, LockInv
<1>1. \A s \in Runs : On(s, j) => run[s].phase \in Passive \union Giving
  BY <1>0, OnLookers
<1>2. \A s \in Runs : On(s, j) => run[s].phase \notin Pending
  BY <1>1, PassivePhases, GivingPhases
<1>3. ~Had("crash") => /\ job[j].status \notin Unpublished => Only(j, job[j].project)
                       /\ job[j].status \in Unpublished => Nothing(j)
  BY <1>0, <1>2 DEF Told
<1>4. ~Had("crash")' => ~Had("crash")
  BY DEF Onward, Had
<1>5. "exhausted" \in Giving
  BY DEF Giving
<1>6. \A s \in Runs : On(s, j)' => Follows(s, j)'
  BY <1>1, <1>5, PassivePhases, GivingPhases DEF On, Busy, Follows
<1>7. ASSUME NEW s \in Runs, On(s, j)', ~Had("crash")
      PROVE  Accounts(s, j)'
  <2>1. CASE s = r
    BY <1>3, <1>7, <2>1 DEF Accounts, Bare, ByRow, Only, Nothing
  <2>2. CASE s # r
    <3>1. Accounts(s, j) /\ run'[s] = run[s]
      BY <1>0, <1>7, <2>2 DEF Told, On, Busy
    <3> QED
      BY <3>1 DEF Accounts, Only, Nothing
  <2> QED
    BY <2>1, <2>2
<1> QED
  BY <1>3, <1>4, <1>6, <1>7 DEF Told, Only, Nothing

\* A run that gives a setup up deletes its project, and then its row says so.
LEMMA GivenTold ==
    ASSUME StatusInv, StayCancelled, NEW r \in Runs, Aside(r), NEW j \in Jobs, run[r].job = j,
           GivesUp(r, j), run'[r] # Null => run'[r].phase \in Giving, Watched(j)',
           ~Had("crash")' => Nothing(j)',
           ~Had("readiness")' => job'[j].status # "ready"
    PROVE  Told(j)'
<1>1. TypeInv /\ job[j] # Null /\ Onward /\ HeldAlone
  BY DEF StatusInv, LockInv, TypeInv, RunsHaveRows, Aside
<1>2. Sole(j)
  BY <1>1, WatchedBefore DEF Watched
<1>3. \A s \in Runs : ~Works(s, j)
  <2>1. ~Works(r, j)
    BY DEF GivesUp, Works, At, Driving
  <2> QED
    BY <1>1, <1>2, <2>1 DEF HeldAlone
<1>4. \A s \in Runs : On(s, j) => run[s].phase \in Passive \union Giving
  BY <1>1, <1>3, OnLookers
<1>5. \A s \in Runs : On(s, j)' => run'[s].phase \in Passive \union Giving
  BY <1>4 DEF On, Busy, Aside
<1>6. \A s \in Runs : On(s, j)' => Follows(s, j)'
  BY <1>5, PassivePhases, GivingPhases DEF Follows
<1>7. Nothing(j)' => \A s \in Runs : Accounts(s, j)'
  BY DEF Accounts, Nothing, Only
<1>8. Nothing(j)' => Only(j, job[j].project)'
  BY DEF Nothing, Only
<1> QED
  BY <1>6, <1>7, <1>8 DEF Told

LEMMA LaunchElsewhere ==
    ASSUME NEW r, NEW new, Launched(r, new), NEW j \in Jobs, new.job # j,
           Told(j), Watched(j)', RowUnmoved(j), Onward
    PROVE  Told(j)'
<1>1. RunsUnmoved(j)
  BY DEF Launched, RunsUnmoved, On, Busy
<1> QED
  BY <1>1, UnmovedTold

\* The steps of a run that is on setup j.
LEMMA StepTold ==
    ASSUME StatusInv, LockInv', StayCancelled, NEW r \in Runs,
           Step(r) \/ Heartbeat(r) \/ StatementFails(r),
           NEW j \in Jobs, run[r].job = j, Watched(j)'
    PROVE  Told(j)'
<1>0. /\ IdInv /\ LockInv /\ TypeInv /\ TypeOK /\ RunsHaveRows /\ Causes /\ Told(j)
      /\ LockInv' /\ StatusInv /\ StayCancelled
  BY DEF StatusInv, LockInv, TypeInv
<1>1. Aside(r) /\ Busy(r) /\ Onward
  BY <1>0, StepAside DEF Aside
<1>2. job[j] # Null /\ Watched(j) /\ job[j].status # "cancelled" /\ job'[j].status # "cancelled"
  BY <1>0, <1>1, WatchedBefore DEF RunsHaveRows, Watched
<1>3. ASSUME DrivingStep(r), Moved(r), run[r].phase \in Working, run'[r].phase \in Working
      PROVE  Told(j)'
  BY <1>0, <1>1, <1>3, RunStepTold, WorkTold
<1>4. ASSUME job' = job \/ (Wrote(j) /\ StatusKept(j) /\ ProjectKept(j)), project' = project,
             left' = left
      PROVE  RowUnmoved(j)
  BY <1>2, <1>4 DEF RowUnmoved, Wrote, StatusKept, ProjectKept
<1>5. /\ {"naming", "initializing", "debugging", "syncing", "registering", "record", "secrets",
          "toFinalizing", "resume", "finalize", "rules", "publishing", "published",
          "readiness", "rollback", "fail", "undo", "requeue", "release"} \subseteq Working
      /\ {"claim", "maybe", "claimFinal", "claimCleanup"} = Passive
  BY DEF Working, Driving, Passive
<1>6. ASSUME CheckName(r) \/ Advance(r) \/ Synced(r) \/ RecordProject(r) \/ AwaitContext(r)
               \/ Rules(r) \/ Ready(r)
      PROVE  Told(j)'
  <2>1. Moved(r) /\ run[r].phase \in Working
    BY <1>0, <1>5, <1>6, CheckNameDoes, AdvanceDoes, SyncedDoes, RecordProjectDoes,
       AwaitContextDoes, RulesDoes, ReadyDoes DEF At
  <2>2. run'[r].phase \in Working
    BY <1>0, <1>5, <1>6, CheckNameDoes, AdvanceDoes, SyncedDoes, RecordProjectDoes,
       AwaitContextDoes, RulesDoes, ReadyDoes DEF Written, Refused
  <2> QED
    BY <1>3, <1>6, <2>1, <2>2 DEF DrivingStep
<1>7. ASSUME Register(r) \/ StepFails(r) \/ Finalize(r) \/ Publish(r) \/ Readiness(r)
               \/ RollBack(r) \/ Undo(r)
      PROVE  Told(j)'
  <2>1. Moved(r) /\ run[r].phase \in Working /\ run'[r].phase \in Working
    BY <1>0, <1>5, <1>7, RegisterDoes, StepFailsDoes, FinalizeDoes, PublishDoes, ReadinessDoes,
       RollBackDoes, UndoDoes DEF At
  <2> QED
    BY <1>3, <1>7, <2>1 DEF DrivingStep
<1>8. ASSUME ToFinalizing(r) \/ Fail(r) \/ Requeue(r)
      PROVE  Told(j)'
  <2>1. Moved(r) /\ run[r].phase \in Working
    BY <1>0, <1>5, <1>8, ToFinalizingDoes, FailDoes, RequeueDoes DEF At
  <2>2. run'[r].phase \in Working
    BY <1>0, <1>5, <1>8, ToFinalizingDoes, FailDoes, RequeueDoes DEF Written
  <2> QED
    BY <1>3, <1>8, <2>1, <2>2 DEF DrivingStep
<1>9. CASE ClaimQueued(r)
  <2>1. CASE /\ Claims(j, run[r].worker, Provisioning)
             /\ Moved(r) /\ run'[r].phase = "naming"
    <3>1. run'[r] # Null /\ run'[r].job = j /\ run'[r].phase \in Working
      BY <1>5, <2>1 DEF Moved
    <3>2. project' = project /\ faults' = faults /\ left' = left
      BY <1>0, <1>9, ClaimQueuedDoes
    <3> QED
      BY <1>0, <2>1, <3>1, <3>2, ClaimTold
  <2>2. CASE Ended(r) /\ job' = job
    BY <1>0, <1>1, <1>4, <1>5, <1>9, <2>2, ClaimQueuedDoes, QuietTold, PassivePhases
       DEF Ended, At, Pending
  <2> QED
    BY <1>0, <1>9, <2>1, <2>2, ClaimQueuedDoes
<1>10. CASE ClaimFinal(r)
  <2>1. CASE /\ Claims(j, run[r].worker, {"awaiting_context"})
             /\ Moved(r) /\ run'[r].phase = "toFinalizing"
    <3>1. run'[r] # Null /\ run'[r].job = j /\ run'[r].phase \in Working
      BY <1>5, <2>1 DEF Moved
    <3>2. project' = project /\ faults' = faults /\ left' = left
      BY <1>0, <1>10, ClaimFinalDoes
    <3> QED
      BY <1>0, <2>1, <3>1, <3>2, ClaimTold
  <2>2. CASE Ended(r) /\ job' = job
    BY <1>0, <1>1, <1>4, <1>10, <2>2, ClaimFinalDoes, QuietTold DEF Ended, At, Pending
  <2> QED
    BY <1>0, <1>10, <2>1, <2>2, ClaimFinalDoes
<1>11. CASE ClaimCleanup(r)
  <2>1. CASE Claims(j, run[r].worker, {"cancelled"})
    BY <1>2, <2>1 DEF Claims
  <2>2. CASE Ended(r) /\ job' = job
    BY <1>0, <1>1, <1>4, <1>11, <2>2, ClaimCleanupDoes, QuietTold DEF Ended, At, Pending
  <2> QED
    BY <1>0, <1>11, <2>1, <2>2, ClaimCleanupDoes
<1>12. CASE Maybe(r)
  <2>1. job' = job /\ project' = project /\ left' = left /\ run[r].phase = "maybe"
    BY <1>0, <1>12, MaybeDoes DEF At
  <2>2. CASE Ended(r) \/ run'[r].phase = "claimFinal"
    BY <1>0, <1>1, <1>4, <1>5, <2>1, <2>2, QuietTold DEF Ended, Pending
  <2>3. CASE /\ JobOf(r).status = "awaiting_context"
             /\ Moved(r) /\ run'[r].phase = "exhausted"
             /\ run'[r].project = JobOf(r).project
             /\ overtaken' = IF \E s \in Runs : Works(s, run[r].job)
                             THEN overtaken \union {run[r].job} ELSE overtaken
    <3>1. (\E s \in Runs : Works(s, j)) => overtaken' = overtaken \union {j}
      BY <2>3, Zenon
    <3>2. \A s \in Runs : ~Works(s, j)
      BY <3>1 DEF Watched, Sole
    <3> QED
      BY <1>0, <1>1, <1>2, <2>1, <2>3, <3>2, GivingTold DEF JobOf, Moved
  <2> QED
    BY <1>0, <1>12, <2>2, <2>3, MaybeDoes
<1>13. CASE ReleaseLock(r)
  <2>1. /\ run[r].phase = "release" /\ project' = project
        /\ run'[r] = Null \/ run'[r].phase = "maybe"
    BY <1>0, <1>13, ReleaseLockDoes DEF At, Ended
  <2>2. RowUnmoved(j)
    BY <1>0, <1>4, <1>13, ReleaseLockDoes
  <2> QED
    BY <1>0, <1>1, <1>5, <2>1, <2>2, QuietTold DEF Pending
<1>14. CASE ClearLock(r)
  <2>1. RowUnmoved(j)
    BY <1>0, <1>4, <1>14, ClearLockDoes
  <2> QED
    BY <1>0, <1>1, <1>14, <2>1, ClearLockDoes, QuietTold DEF Ended, At, Pending
<1>15. CASE CleanUpStopped(r)
  <2>1. ~At(r, {"cleanup"})
    BY <1>0, <1>2 DEF Causes, OfCancelled, JobOf, At
  <2>2. At(r, {"exhausted"}) /\ run'[r].phase = "giveUp" /\ TakenAway(r)
    BY <1>0, <1>15, <2>1, CleanUpStoppedDoes
  <2>3. GivesUp(r, j) /\ On(r, j) /\ run[r].phase = "exhausted" /\ "giveUp" \in Giving
    BY <2>2 DEF GivesUp, At, On, Giving
  <2>4. ~Had("crash") => Only(j, run[r].project)
    BY <1>0, <1>2, <2>3 DEF Told, Accounts, ByRun
  <2>5. ASSUME NEW p \in Projects, project'[p] = j, p \notin left'
        PROVE  project[p] = j /\ p # run[r].project /\ p \notin left
    BY <2>2, <2>5, NoId DEF TakenAway, Cleared, Exists
  <2>6. ~Had("crash")' => Nothing(j)'
    BY <1>1, <2>4, <2>5 DEF Only, Nothing, Had, Onward
  <2>7. ~Had("readiness")' => job'[j].status # "ready"
    BY <1>0, <1>1, <1>2, <2>2, <2>3 DEF Told, AfterReady, TakenAway, Cleared, Had, Onward
  <2> QED
    BY <1>0, <1>1, <2>2, <2>3, <2>6, <2>7, GivenTold
<1>16. CASE GiveUp(r)
  <2>1. /\ At(r, {"giveUp"}) /\ project' = project /\ left' = left /\ run'[r] = Null
        /\ job'[j].status = "failed"
    BY <1>0, <1>2, <1>16, GiveUpDoes DEF Ended, Updatable
  <2>2. GivesUp(r, j) /\ On(r, j) /\ run[r].phase = "giveUp"
    BY <2>1 DEF GivesUp, At, On
  <2>3. ~Had("crash")' => Nothing(j)'
    BY <1>0, <1>1, <1>2, <2>1, <2>2 DEF Told, Accounts, Bare, Nothing, Had, Onward
  <2> QED
    BY <1>0, <1>1, <2>1, <2>2, <2>3, GivenTold
<1>17. CASE Heartbeat(r)
  <2>1. RowUnmoved(j) /\ run' = run
    BY <1>0, <1>4, <1>17, HeartbeatDoes
  <2> QED
    BY <1>1, <1>0, <2>1, RestTold
<1>18. CASE StatementFails(r)
  <2>1. RowUnmoved(j)
    BY <1>0, <1>4, <1>18, StatementFailsDoes
  <2>2. CASE run' = run
    BY <1>0, <1>1, <2>1, <2>2, RestTold
  <2>3. CASE /\ At(r, {"claim", "maybe", "claimFinal", "claimCleanup", "release", "clearLock",
                       "giveUp"})
             /\ Ended(r)
    BY <1>0, <1>1, <2>1, <2>3, QuietTold DEF Ended, At, Pending
  <2>4. CASE Moved(r) /\ run[r].phase \in Working /\ run'[r].phase \in Working
    BY <1>3, <1>18, <2>4 DEF DrivingStep
  <2> QED
    BY <1>0, <1>5, <1>18, <2>2, <2>3, <2>4, StatementFailsDoes DEF At
<1> QED
  BY <1>6, <1>7, <1>8, <1>9, <1>10, <1>11, <1>12, <1>13, <1>14, <1>15, <1>16, <1>17, <1>18
  DEF Step

LEMMA NextTold == StatusInv /\ LockInv' /\ [Next]_vars => \A j \in Jobs : Told(j)'
<1> SUFFICES ASSUME StatusInv, LockInv', [Next]_vars, NEW j \in Jobs, Watched(j)'
             PROVE  Told(j)'
  BY DEF Told
<1>0. /\ StatusInv /\ IdInv /\ LockInv /\ TypeInv /\ TypeOK /\ RunsHaveRows /\ Causes /\ Rooted
      /\ Told(j) /\ LockInv' /\ StayCancelled
  BY NextCancelled DEF StatusInv, LockInv, TypeInv
<1>1. job'[j] # Null /\ job'[j].status # "cancelled"
  BY DEF Watched
<1>2. \A phase \in Passive : \A w \in Workers, i \in Jobs : NewRun(w, i, phase).phase \in Passive
  BY DEF NewRun
<1>3. {"claim", "maybe", "claimCleanup"} \subseteq Passive
  BY DEF Passive
<1>4. ASSUME NEW w \in Workers, NEW i \in Jobs, Start(w, i)
      PROVE  Told(j)'
  <2>1. /\ job[i] = Null /\ Wrote(i) /\ job'[i].status = "queued" /\ Onward
        /\ project' = project /\ left' = left
    BY <1>0, <1>4, StartDoes DEF Onward
  <2>2. PICK r \in Runs : Launched(r, NewRun(w, i, "claim"))
    BY <1>0, <1>4, StartDoes
  <2>3. CASE i = j
    BY <1>0, <1>2, <1>3, <2>1, <2>2, <2>3, FreshTold
  <2>4. CASE i # j
    <3>1. RowUnmoved(j)
      BY <1>1, <2>1, <2>4 DEF Wrote, RowUnmoved, StatusKept, ProjectKept
    <3> QED
      BY <1>0, <1>2, <1>3, <2>1, <2>2, <3>1, LaunchTold
  <2> QED
    BY <2>3, <2>4
<1>5. ASSUME NEW w \in Workers, NEW k \in Jobs, NEW i \in Jobs, Retry(w, k, i)
      PROVE  Told(j)'
  <2>1. /\ job[i] = Null /\ i # k /\ job'[i].status = "queued" /\ Onward
        /\ project' = project /\ left' = left
        /\ job[k] # Null /\ StatusKept(k) /\ ProjectKept(k)
        /\ \A n \in Jobs \ {k, i} : job'[n] = job[n]
    BY <1>0, <1>5, RetryDoes DEF Onward
  <2>2. PICK r \in Runs : Launched(r, NewRun(w, i, "claim"))
    BY <1>0, <1>5, RetryDoes
  <2>3. CASE i = j
    BY <1>0, <1>2, <1>3, <2>1, <2>2, <2>3, FreshTold
  <2>4. CASE i # j
    <3>1. RowUnmoved(j)
      BY <1>1, <2>1, <2>4 DEF RowUnmoved, StatusKept, ProjectKept
    <3> QED
      BY <1>0, <1>2, <1>3, <2>1, <2>2, <3>1, LaunchTold
  <2> QED
    BY <2>3, <2>4
<1>6. ASSUME NEW w \in Workers, NEW i \in Jobs, Submit(w, i)
      PROVE  Told(j)'
  <2>1. RowUnmoved(j) /\ Onward
    BY <1>0, <1>1, <1>6, SubmitDoes DEF Onward, Wrote, RowUnmoved, StatusKept, ProjectKept
  <2> QED
    BY <1>0, <1>2, <1>3, <1>6, <2>1, SubmitDoes, LaunchTold, RestTold
<1>7. ASSUME NEW w \in Workers, NEW i \in Jobs, Cancel(w, i)
      PROVE  Told(j)'
  <2>1. RowUnmoved(j) /\ Onward
    BY <1>0, <1>1, <1>7, CancelDoes DEF Onward, Wrote, RowUnmoved, StatusKept, ProjectKept
  <2> QED
    BY <1>0, <1>2, <1>3, <1>7, <2>1, CancelDoes, LaunchTold, RestTold
<1>8. ASSUME job' = job, project' = project, overtaken' = overtaken, faults' = faults,
             left' = left
      PROVE  RowUnmoved(j) /\ Onward
  BY <1>1, <1>8 DEF Onward, RowUnmoved, StatusKept, ProjectKept
<1>9. ASSUME NEW w \in Workers, NEW i \in Jobs, RecoverAwaiting(w, i)
      PROVE  Told(j)'
  <2>1. RowUnmoved(j) /\ Onward
    BY <1>0, <1>8, <1>9, RecoverAwaitingDoes
  <2> QED
    BY <1>0, <1>2, <1>3, <1>9, <2>1, RecoverAwaitingDoes, LaunchTold
<1>10. ASSUME NEW w \in Workers, NEW i \in Jobs, RecoverCancelled(w, i)
       PROVE  Told(j)'
  <2>1. RowUnmoved(j) /\ Onward
    BY <1>0, <1>8, <1>10, RecoverCancelledDoes
  <2> QED
    BY <1>0, <1>2, <1>3, <1>10, <2>1, RecoverCancelledDoes, LaunchTold
<1>11. ASSUME NEW w \in Workers, NEW i \in Jobs, NEW statuses, Claims(i, w, statuses),
              faults' = faults, project' = project, left' = left,
              NEW r \in Runs, NEW new, Launched(r, new), new.job = i,
              \/ statuses = Provisioning /\ new.phase = "undo"
              \/ statuses = Finalization /\ new.phase = "resume"
       PROVE  Told(j)'
  <2>1. CASE i = j
    <3>1. /\ run'[r] # Null /\ run'[r].job = j /\ run'[r].phase = new.phase
          /\ new.phase \in Working
      BY <1>11, <2>1 DEF Launched, Working, Driving
    <3> QED
      BY <1>0, <1>11, <2>1, <3>1, ClaimTold
  <2>2. CASE i # j
    <3>1. RowUnmoved(j) /\ Onward
      BY <1>1, <1>11, <2>2, ClaimOnward
      DEF Claims, Wrote, RowUnmoved, StatusKept, ProjectKept, Onward
    <3> QED
      BY <1>0, <1>11, <2>2, <3>1, LaunchElsewhere
  <2> QED
    BY <2>1, <2>2
<1>12. ASSUME NEW w \in Workers, NEW i \in Jobs, RecoverProvisioning(w, i)
       PROVE  Told(j)'
  <2>1. PICK r \in Runs, new \in Run :
          Launched(r, new) /\ new.job = i /\ new.phase = "undo"
    BY <1>0, <1>12, RecoverProvisioningDoes
  <2>2. Claims(i, w, Provisioning) /\ faults' = faults /\ project' = project /\ left' = left
    BY <1>0, <1>12, RecoverProvisioningDoes
  <2> QED
    BY <1>11, <2>1, <2>2
<1>13. ASSUME NEW w \in Workers, NEW i \in Jobs, RecoverFinalization(w, i)
       PROVE  Told(j)'
  <2>1. PICK r \in Runs : Launched(r, NewRun(w, i, "resume"))
    BY <1>0, <1>13, RecoverFinalizationDoes
  <2>2. Claims(i, w, Finalization) /\ faults' = faults /\ project' = project /\ left' = left
    BY <1>0, <1>13, RecoverFinalizationDoes
  <2>3. NewRun(w, i, "resume").job = i /\ NewRun(w, i, "resume").phase = "resume"
    BY DEF NewRun
  <2> QED
    BY <1>11, <2>1, <2>2, <2>3
<1>14. ASSUME NEW w \in Workers, NEW i \in Jobs, RecoverExhausted(w, i)
       PROVE  Told(j)'
  <2>1. /\ RowUnmoved(j) /\ Onward /\ job' = job /\ project' = project /\ left' = left
        /\ job[i] # Null /\ Free(i) /\ job[i].status \in Provisioning \union Finalization
    BY <1>0, <1>8, <1>14, RecoverExhaustedDoes
  <2>2. PICK r \in Runs, new \in Run :
          /\ Launched(r, new) /\ new.job = i
          /\ new.phase = "exhausted" /\ new.project = job[i].project
    BY <1>0, <1>14, RecoverExhaustedDoes
  <2>3. CASE i = j
    <3>1. Sole(j)
      BY <1>0, <2>1, <2>3, WatchedBefore DEF Watched
    <3>2. \A s \in Runs : ~Works(s, j)
      BY <1>0, <2>1, <2>3, <3>1, FreeOfWork
    <3>3. job[j].status # "ready"
      BY <2>1, <2>3 DEF Provisioning, Finalization
    <3>4. /\ run'[r].job = j /\ run'[r].phase = "exhausted" /\ run'[r].project = job[j].project
          /\ \A s \in Runs \ {r} : run'[s] = run[s]
      BY <2>2, <2>3 DEF Launched
    <3> QED
      BY <1>0, <2>1, <2>3, <3>2, <3>3, <3>4, GivingTold
  <2>4. CASE i # j
    BY <1>0, <2>1, <2>2, <2>4, LaunchElsewhere
  <2> QED
    BY <2>3, <2>4
<1>15. ASSUME NEW r \in Runs, Step(r) \/ Heartbeat(r) \/ StatementFails(r)
       PROVE  Told(j)'
  <2>1. CASE run[r].job = j
    BY <1>0, <1>15, <2>1, StepTold
  <2>2. CASE run[r].job # j
    BY <1>0, <1>15, <2>2, StepAside, OtherTold
  <2> QED
    BY <2>1, <2>2
<1>16. ASSUME NEW i \in Jobs, LeaseEnds(i)
       PROVE  Told(j)'
  <2>1. RowUnmoved(j) /\ Onward /\ run' = run
    BY <1>0, <1>1, <1>16, LeaseEndsDoes DEF Onward, Wrote, RowUnmoved, StatusKept, ProjectKept
  <2> QED
    BY <1>0, <2>1, RestTold
<1>17. ASSUME NEW i \in Jobs, ForgetCredentials(i)
       PROVE  Told(j)'
  <2>1. RowUnmoved(j) /\ Onward /\ run' = run
    BY <1>0, <1>1, <1>17, ForgetCredentialsDoes
    DEF Onward, Wrote, RowUnmoved, StatusKept, ProjectKept
  <2> QED
    BY <1>0, <2>1, RestTold
<1>18. ASSUME NEW w \in Workers, Crash(w)
       PROVE  Told(j)'
  <2>1. RowUnmoved(j) /\ Onward /\ "crash" \in faults'
    BY <1>0, <1>1, <1>18, CrashDoes DEF Onward, RowUnmoved, StatusKept, ProjectKept
  <2> QED
    BY <1>0, <1>18, <2>1, CrashDoes, RestTold
<1>19. CASE UNCHANGED vars
  BY <1>0, <1>8, <1>19, RestTold DEF vars
<1> QED
  BY <1>0, <1>4, <1>5, <1>6, <1>7, <1>9, <1>10, <1>12, <1>13, <1>14, <1>15, <1>16, <1>17,
     <1>18, <1>19, Steps

LEMMA InitTold == Init => StatusInv
<1> SUFFICES ASSUME Init PROVE StatusInv
  OBVIOUS
<1>1. IdInv /\ TypeInv
  BY InitIds DEF IdInv
<1>2. (\A r \in Runs : ~Busy(r)) /\ \A j \in Jobs : job[j] = Null
  BY DEF Init, Busy
<1>3. HeldAlone /\ Causes
  BY <1>2 DEF HeldAlone, Works, At, Causes, OfCancelled
<1>4. Rooted
  BY NoId DEF Init, Rooted
<1>5. \A j \in Jobs : Told(j)
  BY <1>2 DEF Told, Watched
<1> QED
  BY <1>1, <1>3, <1>4, <1>5 DEF StatusInv, LockInv

LEMMA NextStatus == StatusInv /\ [Next]_vars => StatusInv'
<1> SUFFICES ASSUME StatusInv, [Next]_vars PROVE StatusInv'
  OBVIOUS
<1>1. TypeInv /\ LockInv /\ IdInv /\ Rooted /\ Causes
  BY DEF StatusInv, LockInv
<1>2. LockInv' /\ IdInv' /\ Rooted' /\ Causes'
  BY <1>1, NextTyped, NextHeld, NextIds, NextRooted, NextCauses DEF LockInv
<1>3. \A j \in Jobs : Told(j)'
  BY <1>2, NextTold
<1> QED
  BY <1>2, <1>3 DEF StatusInv

LEMMA StatusesAgree == StatusInv => StatusTells
<1> SUFFICES ASSUME StatusInv PROVE StatusTells
  OBVIOUS
<1>1. TypeInv /\ RowsRefer /\ \A j \in Jobs : Told(j)
  BY DEF StatusInv, LockInv, IdInv
<1>2. ReadyKeepsProject
  <2> SUFFICES ASSUME NEW j \in Jobs, j \notin overtaken, job[j] # Null, job[j].status = "ready",
                      ~Had("readiness"), ~Had("stall")
               PROVE  \E p \in Projects : project[p] = j /\ p = job[j].project
    BY DEF ReadyKeepsProject
  <2>1. job[j].project # Null
    BY <1>1 DEF Told, Watched, Sole
  <2>2. job[j].project \in Projects /\ project[job[j].project] = j
    BY <1>1, <2>1, IdsTyped DEF RowsRefer
  <2> QED
    BY <2>2
<1>3. FailedLeavesNothing
  <2> SUFFICES ASSUME NEW j \in Jobs, j \notin overtaken, job[j] # Null, job[j].status = "failed",
                      Undisturbed(j), ~Had("crash"), ~Had("stall")
               PROVE  \A p \in Projects : project[p] = j => p \in left
    BY DEF FailedLeavesNothing
  <2>1. Watched(j) /\ job[j].status \in Unpublished
    BY DEF Watched, Sole, Unpublished
  <2>2. \A r \in Runs : ~On(r, j)
    BY DEF Undisturbed, On
  <2> QED
    BY <1>1, <2>1, <2>2 DEF Told, Nothing
<1> QED
  BY <1>2, <1>3 DEF StatusTells

\* A setup that is ready has its project and one that failed has left none but those whose
\* own deletion failed, whatever starts, recoveries, cancellations and clean-ups of any
\* number of workers interleave and whichever of their statements and deletions throw,
\* unless a worker stalled past its lease or went on with a setup that was given up, the
\* readiness check itself failed, or (for a failure) a worker died over it.
THEOREM StatusesTell == Spec => []StatusTells
<1>1. Spec => []StatusInv
  BY InitTold, NextStatus, PTL DEF Spec
<1> QED
  BY <1>1, StatusesAgree, PTL
===============================================================================
