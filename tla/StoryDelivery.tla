---------------------------- MODULE StoryDelivery ----------------------------
(***************************************************************************)
(* The delivery of one live story to its recipients: on a schedule of its  *)
(* own (a recurring story.deliver job) or after each scheduled refresh, in *)
(* which case a failed delivery is retried by a one-off story.deliver job  *)
(* (handlers/story-delivery.handler.ts, handlers/story-refresh.handler.ts, *)
(* services/story-delivery.service.ts).                                    *)
(*                                                                         *)
(* An occurrence is one refresh, or one tick of the schedule with its      *)
(* retries.  A delivery that fails on some channels is tried again on      *)
(* those alone: the targets that were reached travel in the payload of the *)
(* job that retries (skipDeliveries).                                      *)
(*                                                                         *)
(* A row is claimed by one worker at a time and handed out again after a   *)
(* crash, as module Scheduler describes.  Recipients and channels are      *)
(* fixed; the wait for the story's lock does not time out; a handler reads *)
(* the story and its delivery at one time; requests run to their end.      *)
(***************************************************************************)
EXTENDS Naturals, FiniteSets

CONSTANTS
    Targets,        \* the recipients, each on each of the delivery's channels
    Crons,          \* cron expressions of schedules
    Occurrences,    \* names for occurrences; bounds how many there are
    Editors,        \* concurrent requests that change settings
    MaxAttempts,    \* scheduled_job.max_attempts
    MaxEdits,       \* bound on the requests that change settings
    MaxFaults,      \* bound on the faults of one behaviour
    Bounds,         \* how many requests, faults and occurrences there may be together
    Null

Schedule == "schedule"   \* uniqueKey story-delivery:<story>
Refresh  == "refresh"    \* the story.refresh job
Keys     == Occurrences \union {Schedule}   \* an occurrence: story-delivery-retry:<activity>

FaultKinds == {"send", "crash", "statement"}

RowIds   == 0..MaxEdits
Row      == [id : RowIds, status : {"pending", "running", "failed"}, attempts : 0..(MaxAttempts + MaxFaults),
             skip : SUBSET Targets, occ : Occurrences \union {Null}]
Exec     == [key : Keys \union {Refresh}, id : RowIds,
             phase : {"waiting", "locked", "enqueue", "save", "failed", "delivered", "nothing"},
             skip : SUBSET Targets, ok : SUBSET Targets]
Editor   == [phase : {"reread", "sync", "write", "link", "delete", "disable"},
             enabled : BOOLEAN, cron : Crons \union {Null}, id : RowIds \union {Null},
             last : BOOLEAN, number : RowIds]

\* What is asked of the constants.
StoryAssumption ==
    /\ MaxAttempts \in Nat \ {0} /\ MaxEdits \in Nat /\ MaxFaults \in Nat
    /\ Null \notin Crons \union Keys \union {Refresh} \union Row \union Exec \union Editor \union RowIds
    /\ Occurrences \intersect {Schedule, Refresh} = {}
    /\ Bounds \subseteq [edits : 0..MaxEdits, faults : 0..MaxFaults, occurrences : Nat]

VARIABLES
    story,     \* isLive and cacheSchedule
    delivery,  \* the story_delivery row
    rows,      \* scheduled_job: the recurring delivery and the one-off retries
    exec,      \* occurrence -> the handler that works on it, or Null
    origin,    \* occurrence -> Schedule or Refresh once it has begun
    sent,      \* occurrence -> target -> how often it was reached
    done,      \* occurrences whose delivery ended without an error
    editing,   \* editor -> its request, or Null
    edits,     \* requests to change settings so far
    overlap,   \* have requests overlapped? (history)
    faults     \* kind -> how many there were

settings == <<story, delivery, editing, edits, overlap>>
vars == <<story, delivery, rows, exec, origin, sent, done, editing, edits, overlap, faults>>

TypeOK ==
    /\ story \in [live : BOOLEAN, schedule : Crons \union {Null}]
    /\ delivery \in [enabled : BOOLEAN, cron : Crons \union {Null}, jobId : RowIds \union {Null}]
    /\ rows \in [Keys -> Row \union {Null}]
    /\ exec \in [Occurrences -> Exec \union {Null}]
    /\ origin \in [Occurrences -> {Schedule, Refresh, Null}]
    /\ sent \in [Occurrences -> [Targets -> Nat]]
    /\ done \subseteq Occurrences
    /\ editing \in [Editors -> Editor \union {Null}]
    /\ edits \in 0..MaxEdits /\ overlap \in {"never", "now", "before"}
    /\ faults \in [FaultKinds -> 0..MaxFaults]

\* A live story that is refreshed on a schedule and not delivered yet.
Init ==
    /\ \E c \in Crons : story = [live |-> TRUE, schedule |-> c]
    /\ delivery = [enabled |-> FALSE, cron |-> Null, jobId |-> Null]
    /\ rows = [k \in Keys |-> Null]
    /\ exec = [o \in Occurrences |-> Null]
    /\ origin = [o \in Occurrences |-> Null]
    /\ sent = [o \in Occurrences |-> [t \in Targets |-> 0]]
    /\ done = {}
    /\ editing = [e \in Editors |-> Null]
    /\ edits = 0 /\ overlap = "never"
    /\ faults = [k \in FaultKinds |-> 0]

HowMany == faults["send"] + faults["crash"] + faults["statement"]
Begun   == {o \in Occurrences : origin[o] # Null}

Within(requests, failures, occurrences) ==
    \E b \in Bounds : requests <= b.edits /\ failures <= b.faults /\ occurrences <= b.occurrences

Fault(kind)   == /\ HowMany < MaxFaults /\ Within(edits, HowMany + 1, Cardinality(Begun))
                 /\ faults' = [faults EXCEPT ![kind] = @ + 1]
At(o, phase)  == exec[o] # Null /\ exec[o].phase = phase
Go(o, phase)  == exec' = [exec EXCEPT ![o].phase = phase]
LockHeld      == \E o \in Occurrences : At(o, "locked")
OwnRow(o)     == exec[o].key # Refresh /\ rows[exec[o].key] # Null /\ rows[exec[o].key].id = exec[o].id
ExecutedBy(k) == \E o \in Occurrences : exec[o] # Null /\ exec[o].key = k
                                          /\ rows[k] # Null /\ exec[o].id = rows[k].id

-----------------------------------------------------------------------------
(* Occurrences begin *)

NewExec(key, id, phase, skip) == [key |-> key, id |-> id, phase |-> phase, skip |-> skip, ok |-> {}]

\* The names of occurrences are interchangeable: the next one is drawn in a fixed order.
Begins(o) ==
    /\ origin[o] = Null /\ o = CHOOSE p \in Occurrences : origin[p] = Null
    /\ Within(edits, HowMany, Cardinality(Begun) + 1)

\* A due row is claimed, with the payload it has then.
Claim(k, o) ==
    /\ rows[k] # Null /\ rows[k].status = "pending"
    /\ o = rows[k].occ \/ (rows[k].occ = Null /\ Begins(o))
    /\ exec[o] = Null
    /\ rows' = [rows EXCEPT ![k].status = "running", ![k].attempts = @ + 1, ![k].occ = o]
    /\ exec' = [exec EXCEPT ![o] = NewExec(k, rows[k].id, "waiting", rows[k].skip)]
    /\ origin' = [origin EXCEPT ![o] = IF @ = Null THEN Schedule ELSE @]
    /\ UNCHANGED <<settings, sent, done, faults>>

\* storyRefreshHandler
StartRefresh(o) ==
    /\ story.live /\ story.schedule # Null
    /\ Begins(o)
    /\ ~\E p \in Occurrences : exec[p] # Null /\ exec[p].key = Refresh
    /\ exec' = [exec EXCEPT ![o] = NewExec(Refresh, 0, "waiting", {})]
    /\ origin' = [origin EXCEPT ![o] = Refresh]
    /\ UNCHANGED <<settings, rows, sent, done, faults>>

-----------------------------------------------------------------------------
(* deliver, under the lock of the story *)

DeliversOnRefresh == delivery.enabled /\ delivery.cron \in {Null, story.schedule}

\* runScheduledStoryDelivery, and deliverStoryOnRefresh with the refresh before it:
\* the story, which is read before the refresh, and the delivery, which is read after
\* it, are read in one step.
LoadContext(o) ==
    /\ At(o, "waiting") /\ ~LockHeld
    /\ Go(o, IF IF exec[o].key = Refresh THEN story.live /\ DeliversOnRefresh ELSE delivery.enabled
             THEN "locked" ELSE "nothing")
    /\ UNCHANGED <<settings, rows, origin, sent, done, faults>>

Reach(o, ts) == sent' = [sent EXCEPT ![o] = [t \in Targets |-> IF t \in ts THEN @[t] + 1 ELSE @[t]]]

Wanted(o) == Targets \ exec[o].skip

\* notifyUsers with throwOnChannelError.
Deliver(o) ==
    /\ At(o, "locked")
    /\ \/ /\ Reach(o, Wanted(o))
          /\ Go(o, "delivered")
          /\ UNCHANGED faults
       \/ \E ok \in SUBSET Wanted(o) :
             /\ ok # Wanted(o)
             /\ Fault("send")
             /\ Reach(o, ok)
             /\ exec' = [exec EXCEPT ![o].phase = IF exec[o].key = Refresh THEN "enqueue" ELSE "save",
                                     ![o].ok = ok]
    /\ UNCHANGED <<settings, rows, origin, done>>

\* Variant: only what this attempt reached is kept.
SkipsOfThisAttempt(o) == exec[o].ok

\* mergeSkipDeliveries
MergedSkips(o) == exec[o].skip \union exec[o].ok

\* The handler keeps what was reached in the payload of its row and rethrows.
SaveSkips(o) ==
    /\ At(o, "save")
    /\ rows' = IF OwnRow(o) THEN [rows EXCEPT ![exec[o].key].skip = MergedSkips(o)] ELSE rows
    /\ Go(o, "failed")
    /\ UNCHANGED <<settings, origin, sent, done, faults>>

\* skipDeliveries: error.succeeded
SucceededSkips(o) == exec[o].ok

EnqueueRetry(o) ==
    /\ At(o, "enqueue")
    /\ rows' = [rows EXCEPT ![o] = [id |-> 0, status |-> "pending", attempts |-> 0,
                                    skip |-> SucceededSkips(o), occ |-> o]]
    /\ exec' = [exec EXCEPT ![o] = Null]
    /\ UNCHANGED <<settings, origin, sent, done, faults>>

-----------------------------------------------------------------------------
(* The scheduler's outcomes: onJobSuccess, onJobFailure, reclaimStaleJobs *)

\* Variant: a recurring row is closed like a one-off job.
RescheduledAsDone(row) == [row EXCEPT !.status = "done", !.occ = Null]

\* rescheduleJob: the next run is another occurrence, with the payload as it is.
Rescheduled(row) == [row EXCEPT !.status = "pending", !.attempts = 0, !.occ = Null]

Succeed(o) ==
    /\ At(o, "delivered") \/ At(o, "nothing")
    /\ rows' = IF ~OwnRow(o) THEN rows
               ELSE [rows EXCEPT ![exec[o].key] = IF exec[o].key = Schedule THEN Rescheduled(@) ELSE Null]
    /\ done' = IF At(o, "delivered") THEN done \union {o} ELSE done
    /\ exec' = [exec EXCEPT ![o] = Null]
    /\ UNCHANGED <<settings, origin, sent, faults>>

\* Variant: a row that failed is not tried again.
FailedRowOnce(k) == IF k = Schedule THEN Rescheduled(rows[k]) ELSE [rows[k] EXCEPT !.status = "failed"]

FailedRow(k) ==
    IF rows[k].attempts < MaxAttempts THEN [rows[k] EXCEPT !.status = "pending"]
    ELSE IF k = Schedule THEN Rescheduled(rows[k])
    ELSE [rows[k] EXCEPT !.status = "failed"]

Fail(o) ==
    /\ At(o, "failed")
    /\ rows' = IF OwnRow(o) THEN [rows EXCEPT ![exec[o].key] = FailedRow(exec[o].key)] ELSE rows
    /\ exec' = [exec EXCEPT ![o] = Null]
    /\ UNCHANGED <<settings, origin, sent, done, faults>>

\* updateJobPayload throws instead of keeping what was reached, or enqueueOnce does
\* and the refresh fails without a retry of its delivery.
StatementFails(o) ==
    /\ Fault("statement")
    /\ \/ At(o, "save") /\ Go(o, "failed")
       \/ At(o, "enqueue") /\ exec' = [exec EXCEPT ![o] = Null]
    /\ UNCHANGED <<settings, rows, origin, sent, done>>

\* The process of an execution dies.
Crash(o) ==
    /\ Fault("crash")
    /\ exec[o] # Null
    /\ exec' = [exec EXCEPT ![o] = Null]
    /\ UNCHANGED <<settings, rows, origin, sent, done>>

Reclaim(k) ==
    /\ rows[k] # Null /\ rows[k].status = "running" /\ ~ExecutedBy(k)
    /\ rows' = [rows EXCEPT ![k].status = "pending"]
    /\ UNCHANGED <<settings, exec, origin, sent, done, faults>>

-----------------------------------------------------------------------------
(* Settings: the routes setDelivery, updateLiveSettings and archive *)

\* A request is given a number, which names the row its upsert may create.
EditNow(e, phase, enabled, cron, last) ==
    editing' = [editing EXCEPT ![e] = [phase |-> phase, enabled |-> enabled, cron |-> cron,
                                       id |-> Null, last |-> last, number |-> edits + 1]]
Quiet         == \A e \in Editors : editing[e] = Null

\* The names of editors are interchangeable: the next one is drawn in a fixed order.
Idle(e) ==
    /\ editing[e] = Null /\ e = CHOOSE f \in Editors : editing[f] = Null
    /\ edits < MaxEdits /\ Within(edits + 1, HowMany, Cardinality(Begun))
    /\ edits' = edits + 1
    /\ overlap' = IF ~Quiet THEN "now" ELSE IF overlap = "never" THEN "never" ELSE "before"
Editing(e, p) == editing[e] # Null /\ editing[e].phase = p
Finish(e)     == editing' = [editing EXCEPT ![e] = Null]
Step(e, p)    == editing' = [editing EXCEPT ![e].phase = p]
NextStep(e)   == IF editing[e].last THEN Step(e, "disable") ELSE Finish(e)
jobs          == <<exec, origin, sent, done, faults>>

\* setDelivery.  It enables the delivery of a story that was live when it read it, which
\* another request may have changed since, so that is no guard here.
SaveDelivery(e, enabled, cron) ==
    /\ Idle(e)
    /\ delivery' = [delivery EXCEPT !.enabled = enabled, !.cron = cron]
    /\ EditNow(e, "sync", enabled, cron, FALSE)
    /\ UNCHANGED <<story, rows, jobs>>

\* updateLiveSettings
SaveLive(e, live, schedule) ==
    /\ Idle(e)
    /\ story' = [live |-> live, schedule |-> schedule]
    /\ EditNow(e, "reread", live, Null, FALSE)
    /\ UNCHANGED <<delivery, rows, jobs>>

RereadDelivery(e) ==
    /\ Editing(e, "reread")
    /\ editing' = [editing EXCEPT ![e].phase = "sync", ![e].cron = delivery.cron,
                                  ![e].enabled = @ /\ delivery.enabled]
    /\ UNCHANGED <<story, delivery, edits, overlap, rows, jobs>>

\* disableStoryDelivery
Disable(e) ==
    /\ Idle(e)
    /\ EditNow(e, "sync", FALSE, Null, TRUE)
    /\ UNCHANGED <<story, delivery, rows, jobs>>

SetDisabled(e) ==
    /\ Editing(e, "disable")
    /\ delivery' = [delivery EXCEPT !.enabled = FALSE]
    /\ Finish(e)
    /\ UNCHANGED <<story, edits, overlap, rows, jobs>>

\* Variant: a delivery that coincides with the refresh gets a job as well.
ShouldScheduleAlways(enabled, cron) == enabled /\ cron # Null

ShouldSchedule(enabled, cron) ==
    enabled /\ cron # Null /\ ~(story.live /\ story.schedule = cron)

\* syncStoryDeliveryJob
Sync(e) ==
    /\ Editing(e, "sync")
    /\ IF ShouldSchedule(editing[e].enabled, editing[e].cron) THEN Step(e, "write")
       ELSE IF delivery.jobId # Null
       THEN editing' = [editing EXCEPT ![e].phase = "delete", ![e].id = delivery.jobId]
       ELSE NextStep(e)
    /\ UNCHANGED <<story, delivery, edits, overlap, rows, jobs>>

\* upsertRecurringJob: a running row keeps its state, any other starts over.
UpsertedRow(e) ==
    IF rows[Schedule] = Null
    THEN [id |-> editing[e].number, status |-> "pending", attempts |-> 0, skip |-> {}, occ |-> Null]
    ELSE IF rows[Schedule].status = "running" THEN [rows[Schedule] EXCEPT !.skip = {}]
    ELSE [Rescheduled(rows[Schedule]) EXCEPT !.skip = {}]

WriteJob(e) ==
    /\ Editing(e, "write")
    /\ rows' = [rows EXCEPT ![Schedule] = UpsertedRow(e)]
    /\ editing' = [editing EXCEPT ![e].phase = "link", ![e].id = UpsertedRow(e).id]
    /\ UNCHANGED <<story, delivery, edits, overlap, jobs>>

\* setScheduledJobId after an upsert; after a delete it is set to null.
LinkJob(e) ==
    /\ Editing(e, "link")
    /\ delivery' = [delivery EXCEPT !.jobId = editing[e].id]
    /\ NextStep(e)
    /\ UNCHANGED <<story, edits, overlap, rows, jobs>>

DeleteJob(e) ==
    /\ Editing(e, "delete")
    /\ rows' = IF rows[Schedule] # Null /\ rows[Schedule].id = editing[e].id
               THEN [rows EXCEPT ![Schedule] = Null] ELSE rows
    /\ editing' = [editing EXCEPT ![e].phase = "link", ![e].id = Null]
    /\ UNCHANGED <<story, delivery, edits, overlap, jobs>>

-----------------------------------------------------------------------------
Work(o) ==
    \/ LoadContext(o) \/ Deliver(o) \/ SaveSkips(o) \/ EnqueueRetry(o) \/ Succeed(o) \/ Fail(o)
Edit(e) ==
    \/ \E enabled \in BOOLEAN, c \in Crons \union {Null} : SaveDelivery(e, enabled, c)
    \/ \E live \in BOOLEAN, c \in Crons \union {Null} : SaveLive(e, live, c)
    \/ Disable(e)
EditStep(e) ==
    RereadDelivery(e) \/ SetDisabled(e) \/ Sync(e) \/ WriteJob(e) \/ LinkJob(e) \/ DeleteJob(e)

Next ==
    \/ \E k \in Keys, o \in Occurrences : Claim(k, o)
    \/ \E o \in Occurrences : StartRefresh(o) \/ Work(o) \/ StatementFails(o) \/ Crash(o)
    \/ \E k \in Keys : Reclaim(k)
    \/ \E e \in Editors : Edit(e) \/ EditStep(e)

Spec == Init /\ [][Next]_vars

\* Handlers return, the poll and reclaim loops keep their interval.
FairSpec ==
    /\ Spec
    /\ \A o \in Occurrences : WF_vars(Work(o))
    /\ \A k \in Keys : WF_vars(Reclaim(k)) /\ WF_vars(\E o \in Occurrences : Claim(k, o))

-----------------------------------------------------------------------------
(* Properties *)

\* No recipient gets an occurrence twice on one channel, however often its
\* delivery is retried: unless what was reached was not kept, or the settings
\* were changed after the delivery had been set up.
ReachedOnce ==
    edits <= 1 /\ faults["crash"] = 0 /\ faults["statement"] = 0
        => \A o \in Occurrences, t \in Targets : sent[o][t] <= 1

\* A delivery after a refresh that ended without an error has reached everyone,
\* over the refresh and its retries.
RefreshReachesAll ==
    \A o \in done : origin[o] = Refresh => \A t \in Targets : sent[o][t] >= 1

\* While nobody changes settings the story is delivered either by a job of its
\* own or by its refresh, never by both, and by neither once it is disabled.
\* Requests that overlap may leave anything behind; the next one that has the story
\* to itself puts it right, but for a job the story does not name any more.
OnePath ==
    Quiet /\ rows[Schedule] # Null =>
        \/ delivery.enabled /\ ~(story.live /\ DeliversOnRefresh)
        \/ overlap = "now"
        \/ overlap = "before" /\ delivery.jobId # rows[Schedule].id

\* A failed delivery after a refresh is made good: its retry goes on until
\* everyone was reached, or ends failed once its attempts are used up.
RetriesComplete ==
    \A o \in Occurrences :
        rows[o] # Null ~> \/ \A t \in Targets : sent[o][t] >= 1
                          \/ ~delivery.enabled
                          \/ rows[o] # Null /\ rows[o].status = "failed" /\ rows[o].attempts >= MaxAttempts

-----------------------------------------------------------------------------
(* What the repository says, and the code does not keep *)

\* Every delivery that ended without an error has reached everyone.
DeliveryReachesAll == \A o \in done : \A t \in Targets : sent[o][t] >= 1
=============================================================================
