----------------------------- MODULE Automations -----------------------------
(***************************************************************************)
(* One automation: its runs (handlers/automation.handler.ts), the          *)
(* recurring job that triggers them next to the webhook and the button,    *)
(* and the requests that schedule, pause, cancel, transfer and delete it   *)
(* (trpc/automation.routes.ts, queries/automation.queries.ts).             *)
(*                                                                         *)
(* Every awaited statement is a step.  Of the scheduler only what becomes  *)
(* of the row of this job is kept: it is claimed while pending, executed,  *)
(* and pending again afterwards, since it has a cron.  What stopping its   *)
(* agent does to a run is the subject of AgentRuns: here its stream may    *)
(* end at any time.                                                        *)
(***************************************************************************)
EXTENDS Naturals, FiniteSets, FiniteSetsExt

CONSTANTS
    Bounds,      \* each a bound on the runs, on the requests that change the
                 \* schedule or delete, on the calls of cancelRun, on the job
                 \* rows and on the crashes
    Null

ASSUME AutomationAssumption ==
    /\ IsFiniteSet(Bounds)
    /\ Bounds \subseteq [runs : Nat, edits : Nat, cancels : Nat, jobs : Nat \ {0}, crashes : Nat]

Runs    == 1..Max({b.runs : b \in Bounds})
Edits   == 1..Max({b.edits : b \in Bounds})
Cancels == 1..Max({b.cancels : b \in Bounds})
JobIds  == 1..Max({b.jobs : b \in Bounds})
Owners == {"creator", "successor"}

VARIABLES
    bound,       \* the bound of this behaviour
    automation,  \* the automation row, Null once it is deleted
    job,         \* the scheduled_job row with the key of the automation, or Null
    run,         \* run -> its automation_run row, or Null
    chat,        \* run -> the owner of its chat, or Null
    worker,      \* run -> the call of runAutomation or startAutomationRun
    edit,        \* each request
    cancel,      \* each call of cancelRun
    jobs,        \* job rows created so far
    disturbed,   \* have requests overlapped, or was one cut short? (history)
    handover,    \* runs that were starting at the transfer (history)
    crashes      \* crashes so far

rows    == <<automation, job, run, chat>>
history == <<bound, disturbed, handover>>
vars    == <<bound, automation, job, run, chat, worker, edit, cancel, jobs,
             disturbed, handover, crashes>>

Statuses == {"running", "completed", "failed", "cancelled"}

AutomationRow == [job : JobIds \union {Null}, owner : Owners]
JobRow        == [id : JobIds, status : {"pending", "running", "paused"}]
RunRow        == [status : Statuses, attached : BOOLEAN]

RunCall == [phase : {"idle", "start", "insert", "chat", "attach", "agent", "drain", "settle",
                     "report", "over"},
            job : JobIds \union {Null}, owner : Owners \union {Null}, failed : BOOLEAN]
Request == [phase : {"idle", "select", "refresh", "write", "link", "verify", "reread", "unjob",
                     "unlink", "delete", "over"},
            kind : {"none", "enable", "pause", "unschedule", "delete"},
            job : JobIds \union {Null}]

ASSUME NullAssumption == Null \notin Nat \union AutomationRow \union JobRow \union RunRow

Cancelled == [phase |-> "over", run |-> Null]
Answered == [phase |-> "over", kind |-> "none", job |-> Null]
Idle == [phase |-> "idle", job |-> Null, owner |-> Null, failed |-> FALSE]
Over == [Idle EXCEPT !.phase = "over"]

TypeOK ==
    /\ bound \in Bounds
    /\ automation \in AutomationRow \union {Null}
    /\ job \in JobRow \union {Null}
    /\ run \in [Runs -> RunRow \union {Null}]
    /\ chat \in [Runs -> Owners \union {Null}]
    /\ worker \in [Runs -> RunCall]
    /\ edit \in [Edits -> Request]
    /\ cancel \in [Cancels -> [phase : {"idle", "flip", "over"}, run : Runs \union {Null}]]
    /\ jobs \in JobIds \union {0}
    /\ disturbed \in BOOLEAN /\ handover \subseteq Runs
    /\ crashes \in 0..bound.crashes

\* The automation was created with a schedule, or with the webhook alone.
Init ==
    /\ bound \in Bounds
    /\ \E scheduled \in BOOLEAN :
          /\ automation = [job |-> IF scheduled THEN 1 ELSE Null, owner |-> "creator"]
          /\ job = IF scheduled THEN [id |-> 1, status |-> "pending"] ELSE Null
          /\ jobs = IF scheduled THEN 1 ELSE 0
    /\ run = [i \in Runs |-> Null]
    /\ chat = [i \in Runs |-> Null]
    /\ worker = [i \in Runs |-> Idle]
    /\ edit = [e \in Edits |-> [Answered EXCEPT !.phase = "idle"]]
    /\ cancel = [k \in Cancels |-> [Cancelled EXCEPT !.phase = "idle"]]
    /\ disturbed = FALSE /\ handover = {}
    /\ crashes = 0

\* The left join of an automation with its job.
Scheduled == automation # Null /\ job # Null /\ job.id = automation.job
Enabled   == Scheduled /\ job.status # "paused"

At(i, phase) == worker[i].phase = phase
InEdit(e, phase) == edit[e].phase = phase
Quiet(e) == edit[e].phase \in {"idle", "over"}

Running(i) == run[i] # Null /\ run[i].status = "running"

-----------------------------------------------------------------------------
(* What starts a run *)

NextRun(i) ==
    /\ i <= bound.runs
    /\ At(i, "idle") /\ \A j \in 1..(i - 1) : ~At(j, "idle")

\* The scheduler claims the job; executeJob looks its project up first.
Claim(i) ==
    /\ NextRun(i)
    /\ job # Null /\ job.status = "pending"
    /\ job' = [job EXCEPT !.status = "running"]
    /\ worker' = [worker EXCEPT ![i] = [Idle EXCEPT !.phase = "start", !.job = job.id]]
    /\ UNCHANGED <<automation, run, chat, edit, cancel, jobs, history, crashes>>

\* The webhook answers 409 while the automation is paused.
Webhook(i) ==
    /\ NextRun(i)
    /\ automation # Null
    /\ Scheduled => Enabled
    /\ worker' = [worker EXCEPT ![i].phase = "start"]
    /\ UNCHANGED <<rows, edit, cancel, jobs, history, crashes>>

\* runNow
RunNow(i) ==
    /\ NextRun(i)
    /\ automation # Null
    /\ worker' = [worker EXCEPT ![i].phase = "start"]
    /\ UNCHANGED <<rows, edit, cancel, jobs, history, crashes>>

-----------------------------------------------------------------------------
(* A run: createAutomationRun and finishAutomationRun *)

Go(i, phase) == worker' = [worker EXCEPT ![i].phase = phase]

\* The call returns or throws; the scheduler reports what it executed.
End(i) ==
    worker' = [worker EXCEPT ![i] = IF @.job = Null THEN Over
                                    ELSE [Over EXCEPT !.phase = "report", !.job = worker[i].job]]

\* getAutomationById; requireEnabled for what the scheduler executes.
Start(i) ==
    /\ At(i, "start")
    /\ IF automation = Null \/ (worker[i].job # Null /\ ~Enabled)
       THEN End(i)
       ELSE worker' = [worker EXCEPT ![i].phase = "insert", ![i].owner = automation.owner]
    /\ UNCHANGED <<rows, edit, cancel, jobs, history, crashes>>

Insert(i) ==
    /\ At(i, "insert")
    /\ IF automation = Null
       THEN End(i) /\ UNCHANGED run
       ELSE /\ run' = [run EXCEPT ![i] = [status |-> "running", attached |-> FALSE]]
            /\ Go(i, "chat")
    /\ UNCHANGED <<automation, job, chat, edit, cancel, jobs, history, crashes>>

CreateChat(i) ==
    /\ At(i, "chat")
    /\ chat' = [chat EXCEPT ![i] = worker[i].owner]
    /\ worker' = [worker EXCEPT ![i].phase = "attach", ![i].owner = Null]
    /\ UNCHANGED <<automation, job, run, edit, cancel, jobs, history, crashes>>

AttachRunChat(i) ==
    /\ At(i, "attach")
    /\ run' = [run EXCEPT ![i] = IF @ = Null THEN Null ELSE [@ EXCEPT !.attached = TRUE]]
    /\ Go(i, "agent")
    /\ UNCHANGED <<automation, job, chat, edit, cancel, jobs, history, crashes>>

\* getChat, agentService.create and agent.stream
StartAgent(i) ==
    /\ At(i, "agent")
    /\ chat[i] # Null
    /\ Go(i, "drain")
    /\ UNCHANGED <<rows, edit, cancel, jobs, history, crashes>>

\* Something awaited before the agent runs fails.
RunFails(i) ==
    /\ At(i, "chat") \/ At(i, "attach") \/ At(i, "agent")
    /\ worker' = [worker EXCEPT ![i].phase = "settle", ![i].owner = Null, ![i].failed = TRUE]
    /\ UNCHANGED <<rows, edit, cancel, jobs, history, crashes>>

\* The stream ends or was stopped; the run has failed if the agent did not call
\* every integration it should have, or the stream could not be saved.
Drain(i) ==
    /\ At(i, "drain")
    /\ \E failed \in BOOLEAN :
          worker' = [worker EXCEPT ![i].phase = "settle", ![i].failed = failed]
    /\ UNCHANGED <<rows, edit, cancel, jobs, history, crashes>>

\* Variant: the row is written whatever it says by now.
WrittenAnyway(i, status) == IF run[i] = Null THEN Null ELSE [run[i] EXCEPT !.status = status]

\* UPDATE automation_run ... WHERE status = 'running'
Written(i, status) == IF Running(i) THEN [run[i] EXCEPT !.status = status] ELSE run[i]

\* completeAutomationRun, failAutomationRun; a failure to write is logged.
Settle(i) ==
    /\ At(i, "settle")
    /\ run' \in {run, [run EXCEPT ![i] = Written(i, IF worker[i].failed THEN "failed" ELSE "completed")]}
    /\ End(i)
    /\ UNCHANGED <<automation, job, chat, edit, cancel, jobs, history, crashes>>

\* onJobSuccess and onJobFailure: a job with a cron is pending again, to be
\* retried or for its next run.
Report(i) ==
    /\ At(i, "report")
    /\ job' = IF job # Null /\ job.id = worker[i].job THEN [job EXCEPT !.status = "pending"] ELSE job
    /\ worker' = [worker EXCEPT ![i] = Over]
    /\ UNCHANGED <<automation, run, chat, edit, cancel, jobs, history, crashes>>

Working(i) ==
    \/ Start(i) \/ Insert(i) \/ CreateChat(i) \/ AttachRunChat(i) \/ StartAgent(i)
    \/ RunFails(i) \/ Drain(i) \/ Settle(i) \/ Report(i)

-----------------------------------------------------------------------------
(* Stale and cancelled runs, crashes *)

\* Variant: a run whose process is gone is left to it.
FailStaleAlive ==
    \E S \in SUBSET {i \in Runs : Running(i) /\ worker[i] # Over} \ {{}} :
        /\ run' = [i \in Runs |-> IF i \in S THEN Written(i, "failed") ELSE run[i]]
        /\ UNCHANGED <<automation, job, chat, worker, edit, cancel, jobs, history, crashes>>

\* failStaleAutomationRuns, whenever a user lists automations or runs, and only
\* then: those that run for half an hour, or seem to.
FailStale ==
    \E S \in SUBSET {i \in Runs : Running(i)} \ {{}} :
        /\ run' = [i \in Runs |-> IF i \in S THEN Written(i, "failed") ELSE run[i]]
        /\ UNCHANGED <<automation, job, chat, worker, edit, cancel, jobs, history, crashes>>

\* cancelRun reads the run ...
CancelRun(k, i) ==
    /\ cancel[k].phase = "idle" /\ k <= bound.cancels
    /\ run[i] # Null
    /\ cancel' = [cancel EXCEPT ![k] = IF Running(i) THEN [phase |-> "flip", run |-> i] ELSE Cancelled]
    /\ UNCHANGED <<rows, worker, edit, jobs, history, crashes>>

\* ... and flips the row once it has stopped the agent.
CancelAutomationRun(k) ==
    /\ cancel[k].phase = "flip"
    /\ run' = [run EXCEPT ![cancel[k].run] = Written(cancel[k].run, "cancelled")]
    /\ cancel' = [cancel EXCEPT ![k] = Cancelled]
    /\ UNCHANGED <<automation, job, chat, worker, edit, jobs, history, crashes>>

Crash ==
    /\ crashes < bound.crashes
    /\ crashes' = crashes + 1
    /\ worker' = [i \in Runs |-> IF At(i, "idle") THEN Idle ELSE Over]
    /\ cancel' = [k \in Cancels |-> IF cancel[k].phase = "idle" THEN cancel[k] ELSE Cancelled]
    /\ edit' = [e \in Edits |-> IF InEdit(e, "idle") THEN edit[e] ELSE Answered]
    /\ disturbed' = (disturbed \/ \E e \in Edits : ~Quiet(e))
    /\ UNCHANGED <<rows, jobs, bound, handover>>

\* reclaimStaleJobs
Reclaim ==
    /\ job # Null /\ job.status = "running"
    /\ \A i \in Runs : worker[i].job # job.id
    /\ job' = [job EXCEPT !.status = "pending"]
    /\ UNCHANGED <<automation, run, chat, worker, edit, cancel, jobs, history, crashes>>

-----------------------------------------------------------------------------
(* Requests *)

EditTo(e, phase) == edit' = [edit EXCEPT ![e].phase = phase]
Answer(e) == edit' = [edit EXCEPT ![e] = Answered]

\* update, setEnabled and setEnabledAsAdmin find the automation, or delete does.
BeginEdit(e, kind) ==
    /\ InEdit(e, "idle") /\ e <= bound.edits
    /\ \A f \in 1..(e - 1) : ~InEdit(f, "idle")
    /\ automation # Null
    /\ edit' = [edit EXCEPT ![e] =
         CASE kind = "delete" -> [kind |-> kind, job |-> automation.job,
                                  phase |-> IF automation.job = Null THEN "delete" ELSE "unjob"]
           [] kind = "unschedule" -> [kind |-> kind, job |-> Null, phase |-> "reread"]
           [] OTHER -> [kind |-> kind, job |-> Null, phase |-> "select"]]
    /\ disturbed' = (disturbed \/ \E f \in Edits : ~Quiet(f))
    /\ UNCHANGED <<rows, worker, cancel, jobs, bound, handover, crashes>>

\* upsertRecurringJob reads whether the job runs ...
Select(e) ==
    /\ InEdit(e, "select")
    /\ edit' = [edit EXCEPT ![e] =
         IF job # Null /\ job.status = "running"
         THEN [@ EXCEPT !.phase = "refresh", !.job = job.id]
         ELSE [@ EXCEPT !.phase = "write"]]
    /\ UNCHANGED <<rows, worker, cancel, jobs, history, crashes>>

\* ... and leaves the status of one that does alone (refreshRunningJobDefinition);
\* there is no row to return if the job is gone.
Refresh(e) ==
    /\ InEdit(e, "refresh")
    /\ IF job # Null /\ job.id = edit[e].job THEN EditTo(e, "link") ELSE Answer(e)
    /\ UNCHANGED <<rows, worker, cancel, jobs, history, crashes>>

StatusOf(e) == IF edit[e].kind = "pause" THEN "paused" ELSE "pending"

Write(e) ==
    /\ InEdit(e, "write")
    /\ IF job = Null
       THEN /\ jobs < bound.jobs
            /\ jobs' = jobs + 1
            /\ job' = [id |-> jobs + 1, status |-> StatusOf(e)]
       ELSE /\ job' = [job EXCEPT !.status = StatusOf(e)]
            /\ UNCHANGED jobs
    /\ edit' = [edit EXCEPT ![e].phase = "link", ![e].job = job'.id]
    /\ UNCHANGED <<automation, run, chat, worker, cancel, history, crashes>>

\* linkAutomationJob; the link to a job that is gone is refused.
Link(e) ==
    /\ InEdit(e, "link")
    /\ IF automation = Null
       THEN EditTo(e, "verify") /\ UNCHANGED automation
       ELSE IF job # Null /\ job.id = edit[e].job
       THEN EditTo(e, "verify") /\ automation' = [automation EXCEPT !.job = edit[e].job]
       ELSE Answer(e) /\ UNCHANGED automation
    /\ UNCHANGED <<job, run, chat, worker, cancel, jobs, history, crashes>>

\* The automation is read again for the answer.
Verify(e) ==
    /\ InEdit(e, "verify")
    /\ Answer(e)
    /\ UNCHANGED <<rows, worker, cancel, jobs, history, crashes>>

\* removeAutomationSchedule
Reread(e) ==
    /\ InEdit(e, "reread")
    /\ edit' = [edit EXCEPT ![e] =
         IF automation # Null /\ automation.job # Null
         THEN [@ EXCEPT !.phase = "unjob", !.job = automation.job]
         ELSE [@ EXCEPT !.phase = "verify"]]
    /\ UNCHANGED <<rows, worker, cancel, jobs, history, crashes>>

\* Variant: the job stays.
UnjobNothing(e) ==
    /\ InEdit(e, "unjob")
    /\ EditTo(e, IF edit[e].kind = "delete" THEN "delete" ELSE "unlink")
    /\ UNCHANGED <<rows, worker, cancel, jobs, history, crashes>>

\* deleteJob, by the id that was read; the row goes with what links to it.
Unjob(e) ==
    /\ InEdit(e, "unjob")
    /\ job' = IF job # Null /\ job.id = edit[e].job THEN Null ELSE job
    /\ automation' = IF automation # Null /\ automation.job = edit[e].job
                     THEN [automation EXCEPT !.job = Null] ELSE automation
    /\ EditTo(e, IF edit[e].kind = "delete" THEN "delete" ELSE "unlink")
    /\ UNCHANGED <<run, chat, worker, cancel, jobs, history, crashes>>

Unlink(e) ==
    /\ InEdit(e, "unlink")
    /\ automation' = IF automation = Null THEN Null ELSE [automation EXCEPT !.job = Null]
    /\ EditTo(e, "verify")
    /\ UNCHANGED <<job, run, chat, worker, cancel, jobs, history, crashes>>

\* deleteProjectAutomation, and deleteAutomation of an owner who has not changed:
\* the chats of its runs, then the automation with its runs.
Delete(e) ==
    /\ InEdit(e, "delete")
    /\ chat' = [i \in Runs |-> IF run[i] # Null /\ run[i].attached THEN Null ELSE chat[i]]
    /\ automation' = Null
    /\ run' = [i \in Runs |-> Null]
    /\ Answer(e)
    /\ UNCHANGED <<job, worker, cancel, jobs, history, crashes>>

\* Variant: the chats stay with the owner they had.
HandOverNothing == UNCHANGED chat

HandOver ==
    chat' = [i \in Runs |-> IF chat[i] # Null /\ run[i] # Null /\ run[i].attached
                            THEN "successor" ELSE chat[i]]

\* transferAutomationOwnership
Transfer ==
    /\ automation # Null /\ automation.owner = "creator"
    /\ automation' = [automation EXCEPT !.owner = "successor"]
    /\ HandOver
    /\ handover' = {i \in Runs : \E phase \in {"insert", "chat", "attach"} : At(i, phase)}
    /\ UNCHANGED <<job, run, worker, edit, cancel, jobs, bound, disturbed, crashes>>

Editing(e) ==
    \/ \E kind \in {"enable", "pause", "unschedule", "delete"} : BeginEdit(e, kind)
    \/ Select(e) \/ Refresh(e) \/ Write(e) \/ Link(e) \/ Verify(e)
    \/ Reread(e) \/ Unjob(e) \/ Unlink(e) \/ Delete(e)

-----------------------------------------------------------------------------
Next ==
    \/ \E i \in Runs : Claim(i) \/ Webhook(i) \/ RunNow(i) \/ Working(i)
    \/ \E k \in Cancels : (\E i \in Runs : CancelRun(k, i)) \/ CancelAutomationRun(k)
    \/ \E e \in Edits : Editing(e)
    \/ Transfer \/ FailStale \/ Reclaim \/ Crash

Spec == Init /\ [][Next]_vars

\* Runs go on and the scheduler reclaims.  No request is fair, neither those that
\* change the automation nor those that list its runs and so fail the stale ones.
FairSpec ==
    /\ Spec
    /\ \A i \in Runs : WF_vars(Working(i))
    /\ WF_vars(Reclaim)

-----------------------------------------------------------------------------
(* Properties *)

\* A run ends once: of completing, failing, being cancelled and going stale the
\* first one stands, and the history does not change any more.
EndsOnce ==
    [][\A i \in Runs : (run[i] # Null /\ ~Running(i) /\ run'[i] # Null)
                          => run'[i].status = run[i].status]_vars

\* As long as requests are answered one after the other, the only job there is is
\* the one its automation names: none goes on firing for a deleted or an
\* unscheduled automation, though the scheduler executes it meanwhile.
JobIsLinked ==
    ~disturbed /\ (\A e \in Edits : Quiet(e)) =>
        (job = Null \/ Scheduled)

\* The rows are well typed and linked to each other as the code takes for granted.
RowsLinked == TypeOK /\ JobIsLinked

\* The owner of an automation can open the chats of its runs: those of earlier
\* runs were handed over, later runs belong to the new owner.  A run that was
\* starting at the transfer keeps the owner it had read.
HistoryReadable ==
    \A i \in Runs \ handover :
        (run[i] # Null /\ run[i].attached /\ chat[i] # Null) => chat[i] = automation.owner

\* A run ends by itself as long as somebody still works on it: only a run whose
\* process died, or whose last write failed, is left running ...
RunsEnd == \A i \in Runs : Running(i) ~> ~Running(i) \/ worker[i] = Over

\* ... and not even that one stays running for ever if users go on looking at the
\* runs: whatever state it was left in, a look ends it.
LookedAtRunsEnd == WF_vars(FailStale) => \A i \in Runs : Running(i) ~> ~Running(i)

\* The job of the schedule is given back after every execution, however the run
\* ended and whatever became of its automation meanwhile.
ScheduleGoesOn ==
    (job # Null /\ job.status = "running") ~> (job = Null \/ job.status # "running")

\* Nothing stays running: a run in the history only until somebody looks, the job of
\* the schedule not even then.
NothingStaysRunning == RunsEnd /\ LookedAtRunsEnd /\ ScheduleGoesOn

-----------------------------------------------------------------------------
(* What the repository says, and the code does not keep *)

\* Once a request to pause is answered the automation is paused: its job is not up
\* for another run, and its webhook refuses.
PauseTakes ==
    [][\A e \in Edits :
          (InEdit(e, "verify") /\ edit[e].kind = "pause" /\ ~disturbed /\ edit'[e] = Answered)
              => ~Enabled]_vars
=============================================================================
