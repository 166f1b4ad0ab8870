--------------------------- MODULE Scheduler_proofs ---------------------------
(***************************************************************************)
(* Proofs about Scheduler, for every number of rows, workers, claims and   *)
(* attempts: its typing, the exclusiveness of claims, the budget of        *)
(* attempts, and that a recurring job every process handles is never       *)
(* dropped.                                                                *)
(***************************************************************************)
EXTENDS Scheduler, TLAPS

(***************************************************************************)
(* What the statements of scheduled-job.queries.ts write is a row.         *)
(***************************************************************************)

LEMMA LiveRow ==
    ASSUME TypeOK, NEW id \in Ids, Live(id)
    PROVE  row[id] \in Row
BY DEF TypeOK, Live

LEMMA NewRowType ==
    ASSUME NEW key \in Keys, NEW cron \in Crons \union {NoCron},
           NEW status \in {"pending", "paused"}, NEW delay \in Nat
    PROVE  NewRow(key, cron, status, delay) \in Row
BY BoundsAssumption, InputsAssumption DEF NewRow, Row, AttemptsCap

LEMMA EditedType ==
    ASSUME NEW r \in Row, NEW input \in Edit
    PROVE  /\ Edited(r, input) \in Row
           /\ Edited(r, input).key = r.key
           /\ Edited(r, input).cron = input.cron
<1>1. input.cron \in Crons /\ input.edit \in Edits
  BY DEF Edit
<1>4. input.edit \in [status : {"keep", "pending", "paused"}, reset : BOOLEAN]
  BY <1>1, InputsAssumption
<1>2. input.edit.status \in {"keep", "pending", "paused"} /\ input.edit.reset \in BOOLEAN
  BY <1>4
<1>3. 0 \in 0..AttemptsCap
  BY BoundsAssumption DEF AttemptsCap
<1>5. input.cron \in Nat
  BY <1>1, InputsAssumption
<1> QED
  BY <1>1, <1>2, <1>3, <1>5 DEF Edited, Row

LEMMA CompletedType ==
    ASSUME NEW r \in Row, NEW delay \in Nat
    PROVE  /\ Rescheduled(r, delay) \in Row /\ Rescheduled(r, delay).key = r.key
           /\ Rescheduled(r, delay).cron = r.cron
           /\ Rescheduled(r, delay).status = "pending"
           /\ Retried(r, delay) \in Row     /\ Retried(r, delay).key = r.key
           /\ Retried(r, delay).cron = r.cron
           /\ Retried(r, delay).status = "pending"
           /\ MarkedFailed(r) \in Row       /\ MarkedFailed(r).key = r.key
           /\ MarkedFailed(r).cron = r.cron
           /\ MarkedFailed(r).status = "failed"
<1>1. 0 \in 0..AttemptsCap
  BY BoundsAssumption DEF AttemptsCap
<1> QED
  BY <1>1 DEF Rescheduled, Retried, MarkedFailed, Row

LEMMA ClaimedType ==
    ASSUME NEW r \in Row, NEW c \in Claims
    PROVE  /\ Claimed(r, c) \in Row
           /\ Claimed(r, c).key = r.key /\ Claimed(r, c).cron = r.cron
           /\ Claimed(r, c).status = "running"
           /\ Claimed(r, c).lockAge = 0 /\ Claimed(r, c).lockedBy = c
<1>1. r.attempts \in 0..AttemptsCap
  BY DEF Row
<1>2. Smaller(r.attempts + 1, AttemptsCap) \in 0..AttemptsCap
  BY <1>1, BoundsAssumption DEF Smaller, AttemptsCap
<1>3. 0 \in 0..Lease
  BY BoundsAssumption
<1> QED
  BY <1>2, <1>3 DEF Claimed, Row

LEMMA CronsPositive == \A cron \in Crons : cron \in Nat /\ cron # NoCron
BY InputsAssumption DEF NoCron

LEMMA ActiveExec ==
    ASSUME TypeOK, NEW c \in Claims, Active(c)
    PROVE  /\ exec[c] \in Execution
           /\ exec[c].id \in Ids
           /\ exec[c].worker \in Workers
           /\ exec[c].attempts \in 0..AttemptsCap
           /\ exec[c].cron \in Crons \union {NoCron}
           /\ exec[c].age \in 0..Lease
           /\ exec[c].key \in Keys
<1>1. exec[c] \in Execution
  BY DEF TypeOK, Active
<1> QED
  BY <1>1 DEF Execution

(***************************************************************************)
(* Typing                                                                  *)
(***************************************************************************)

LEMMA WriteType ==
    ASSUME TypeOK, NEW c \in Claims, Active(c), NEW new,
           Live(exec[c].id) => new \in Row \union {Gone},
           Write(c, new)
    PROVE  TypeOK'
<1>1. row' \in [Ids -> Row \union {Unused, Gone}]
  BY ActiveExec DEF Write, TypeOK
<1>2. exec' \in [Claims -> Execution \union {Null}]
  BY DEF Write, TypeOK
<1> QED
  BY <1>1, <1>2 DEF Write, TypeOK

LEMMA EnterType ==
    ASSUME TypeOK, NEW c \in Claims, Active(c), NEW phase \in Phases, Enter(c, phase)
    PROVE  TypeOK'
<1>1. [exec[c] EXCEPT !.phase = phase] \in Execution
  BY ActiveExec DEF Execution
<1>2. exec' \in [Claims -> Execution \union {Null}]
  BY <1>1 DEF Enter, TypeOK
<1> QED
  BY <1>2 DEF Enter, TypeOK

LEMMA DecideType ==
    ASSUME TypeOK, NEW c \in Claims, Active(c),
           NEW withCron \in Phases, NEW withoutCron \in Phases,
           Decide(c, withCron, withoutCron)
    PROVE  TypeOK'
<1> DEFINE cron == IF Live(exec[c].id) THEN RowOf(c).cron ELSE exec[c].cron
           phase == IF cron = NoCron THEN withoutCron ELSE withCron
<1>1. cron \in Crons \union {NoCron}
  <2>1. Live(exec[c].id) => RowOf(c) \in Row
    BY ActiveExec, LiveRow DEF RowOf
  <2> QED
    BY <2>1, ActiveExec DEF Row
<1>2. phase \in Phases
  OBVIOUS
<1>3. exec' = [exec EXCEPT ![c].cron = cron, ![c].phase = phase]
  BY DEF Decide
<1> HIDE DEF cron, phase
<1>4. [exec[c] EXCEPT !.cron = cron, !.phase = phase] \in Execution
  BY <1>1, <1>2, ActiveExec DEF Execution
<1>5. exec' = [exec EXCEPT ![c] = [exec[c] EXCEPT !.cron = cron, !.phase = phase]]
  BY <1>3, ActiveExec DEF TypeOK
<1>6. exec' \in [Claims -> Execution \union {Null}]
  BY <1>4, <1>5 DEF TypeOK
<1> QED
  BY <1>6 DEF Decide, TypeOK

LEMMA InitTypeOK == Init => TypeOK
BY BoundsAssumption DEF Init, TypeOK, Idle

LEMMA CallerTypeOK == TypeOK /\ Caller => TypeOK'
<1> SUFFICES ASSUME TypeOK, Caller PROVE TypeOK'
  OBVIOUS
<1>1. ASSUME NEW key \in OnceKeys, EnqueueOnce(key) PROVE TypeOK'
  <2>1. NewRow(key, NoCron, "pending", 0) \in Row
    BY NewRowType DEF Keys
  <2> QED
    BY <1>1, <2>1 DEF EnqueueOnce, TypeOK
<1>2. ASSUME NEW id \in Ids, DeleteJob(id) PROVE TypeOK'
  BY <1>2 DEF DeleteJob, TypeOK
<1>3. ASSUME NEW key \in CronKeys, NEW cron \in Crons, NEW edit \in Edits,
             UpsertSelect(key, cron, edit)
      PROVE  TypeOK'
  <2>1. editor' \in Edit
    BY <1>3 DEF UpsertSelect, Edit
  <2> QED
    BY <1>3, <2>1 DEF UpsertSelect, TypeOK
<1>4. CASE UpsertRefresh
  <2>1. editor \in Edit /\ editor.cron \in Crons
    BY <1>4 DEF UpsertRefresh, TypeOK, Edit
  <2>2. ASSUME Live(editor.target)
        PROVE  [row[editor.target] EXCEPT !.cron = editor.cron] \in Row
    BY <1>4, <2>1, <2>2, LiveRow DEF UpsertRefresh, Row
  <2>3. row' \in [Ids -> Row \union {Unused, Gone}]
    BY <1>4, <2>2 DEF UpsertRefresh, TypeOK
  <2> QED
    BY <1>4, <2>3 DEF UpsertRefresh, TypeOK
<1>5. CASE UpsertInsert
  <2>1. editor \in Edit /\ editor.cron \in Crons /\ editor.edit \in Edits /\ editor.key \in Keys
    BY <1>5 DEF UpsertInsert, TypeOK, Edit, Keys
  <2>2. editor.edit.status \in {"keep", "pending", "paused"}
    <3>1. editor.edit \in [status : {"keep", "pending", "paused"}, reset : BOOLEAN]
      BY <2>1, InputsAssumption
    <3> QED
      BY <3>1
  <2>3. ASSUME NEW id \in Holding(editor.key) PROVE id \in Ids /\ Edited(row[id], editor) \in Row
    BY <2>1, <2>3, LiveRow, EditedType DEF Holding, LiveIds
  <2>4. NewRow(editor.key, editor.cron,
               IF editor.edit.status = "keep" THEN "pending" ELSE editor.edit.status,
               editor.cron) \in Row
    BY <2>1, <2>2, NewRowType, CronsPositive
  <2>5. row' \in [Ids -> Row \union {Unused, Gone}]
    BY <1>5, <2>3, <2>4 DEF UpsertInsert, TypeOK
  <2> QED
    BY <1>5, <2>5 DEF UpsertInsert, TypeOK
<1> QED
  BY <1>1, <1>2, <1>3, <1>4, <1>5 DEF Caller

LEMMA ClaimingTypeOK ==
    ASSUME TypeOK, NEW w \in Workers, Claiming(w)
    PROVE  TypeOK'
<1>1. CASE Poll(w)
  <2>1. PICK todo \in SUBSET {id \in Ids : Due(id)} :
           poll' = [poll EXCEPT ![w] = [phase |-> "claiming", todo |-> todo]]
    BY <1>1 DEF Poll
  <2> QED
    BY <1>1, <2>1 DEF Poll, TypeOK
<1>2. CASE ClaimNext(w)
  <2>1. PICK id \in poll[w].todo :
           /\ poll' = [poll EXCEPT ![w].todo = @ \ {id}]
           /\ \/ UNCHANGED <<row, exec>>
              \/ /\ Claimable(id)
                 /\ \E c \in Claims :
                       /\ row' = [row EXCEPT ![id] = Claimed(row[id], c)]
                       /\ exec' = [exec EXCEPT ![c] = ExecutionOf(w, id, Claimed(row[id], c))]
    BY <1>2 DEF ClaimNext
  <2>2. poll[w] \in [phase : {Idle, "claiming", "executing"}, todo : SUBSET Ids]
    BY DEF TypeOK
  <2>3. id \in Ids /\ poll' \in [Workers -> [phase : {Idle, "claiming", "executing"},
                                             todo : SUBSET Ids]]
    BY <2>1, <2>2 DEF TypeOK
  <2>4. CASE UNCHANGED <<row, exec>>
    BY <1>2, <2>3, <2>4 DEF ClaimNext, TypeOK
  <2>5. CASE ~UNCHANGED <<row, exec>>
    <3>1. row[id] \in Row
      BY <2>1, <2>3, <2>5, LiveRow DEF Claimable, Pending
    <3>2. PICK c \in Claims :
             /\ row' = [row EXCEPT ![id] = Claimed(row[id], c)]
             /\ exec' = [exec EXCEPT ![c] = ExecutionOf(w, id, Claimed(row[id], c))]
      BY <2>1, <2>5
    <3>3. Claimed(row[id], c) \in Row
      BY <3>1, ClaimedType
    <3>4. ExecutionOf(w, id, Claimed(row[id], c)) \in Execution
      BY <2>3, <3>3, BoundsAssumption DEF ExecutionOf, Execution, Row, Phases
    <3>5. /\ row' \in [Ids -> Row \union {Unused, Gone}]
          /\ exec' \in [Claims -> Execution \union {Null}]
      BY <3>2, <3>3, <3>4 DEF TypeOK
    <3> QED
      BY <1>2, <2>3, <3>5 DEF ClaimNext, TypeOK
  <2> QED
    BY <2>4, <2>5
<1>3. CASE StartExecuting(w)
  <2>1. ASSUME NEW c \in Claims, Active(c)
        PROVE  [exec[c] EXCEPT !.phase = "started"] \in Execution
    BY <2>1, ActiveExec DEF Execution, Phases
  <2>2. exec' \in [Claims -> Execution \union {Null}]
    BY <1>3, <2>1 DEF StartExecuting, OfWorker, TypeOK
  <2> QED
    BY <1>3, <2>2 DEF StartExecuting, TypeOK
<1>4. CASE PollDone(w)
  BY <1>4 DEF PollDone, TypeOK, Idle
<1> QED
  BY <1>1, <1>2, <1>3, <1>4 DEF Claiming

LEMMA ExecutingTypeOK ==
    ASSUME TypeOK, NEW c \in Claims, Executing(c)
    PROVE  TypeOK'
<1>0. Active(c)
  BY DEF Executing, NoHandler, CallHandler, SkipRestricted, HandlerReturns,
         HandlerThrows, OnJobSuccess, OnJobFailure, RescheduleJob, DeleteFinished,
         MarkJobFailed, InPhase
<1>1. Live(exec[c].id) => RowOf(c) \in Row
  BY <1>0, ActiveExec, LiveRow DEF RowOf
<1>2. CASE NoHandler(c)
  <2> DEFINE new == IF AttemptsLeft(c) THEN Retried(RowOf(c), 1) ELSE MarkedFailed(RowOf(c))
  <2>1. Live(exec[c].id) => new \in Row
    BY <1>1, CompletedType
  <2>2. Write(c, new)
    BY <1>2 DEF NoHandler
  <2> QED
    BY <1>0, <2>1, <2>2, WriteType
<1>3. CASE CallHandler(c) \/ SkipRestricted(c) \/ HandlerReturns(c) \/ HandlerThrows(c)
  BY <1>0, <1>3, EnterType
     DEF CallHandler, SkipRestricted, HandlerReturns, HandlerThrows, Phases
<1>4. CASE OnJobSuccess(c)
  BY <1>0, <1>4, DecideType DEF OnJobSuccess, Phases
<1>5. CASE OnJobFailure(c)
  BY <1>0, <1>5, DecideType, EnterType DEF OnJobFailure, Phases
<1>6. CASE RescheduleJob(c)
  <2>1. exec[c].cron \in Nat
    BY <1>0, ActiveExec, CronsPositive DEF NoCron
  <2>2. Live(exec[c].id) => Rescheduled(RowOf(c), exec[c].cron) \in Row
    BY <1>1, <2>1, CompletedType
  <2> QED
    BY <1>0, <1>6, <2>2, WriteType DEF RescheduleJob
<1>7. CASE DeleteFinished(c)
  BY <1>0, <1>7, WriteType DEF DeleteFinished
<1>8. CASE MarkJobFailed(c)
  <2>1. Live(exec[c].id) => MarkedFailed(RowOf(c)) \in Row /\ Retried(RowOf(c), Backoff) \in Row
    BY <1>1, CompletedType, BoundsAssumption
  <2> QED
    BY <1>0, <1>8, <2>1, WriteType DEF MarkJobFailed
<1> QED
  BY <1>2, <1>3, <1>4, <1>5, <1>6, <1>7, <1>8 DEF Executing

LEMMA ReclaimTypeOK == TypeOK /\ Reclaim => TypeOK'
<1> SUFFICES ASSUME TypeOK, Reclaim PROVE TypeOK'
  OBVIOUS
<1>1. ASSUME NEW id \in Ids, Expired(id)
      PROVE  [row[id] EXCEPT !.status = "pending", !.lockAge = Null,
                             !.lockedBy = Null] \in Row
  BY <1>1, LiveRow DEF Expired, Running, Row
<1>2. row' \in [Ids -> Row \union {Unused, Gone}]
  BY <1>1 DEF Reclaim, TypeOK
<1> QED
  BY <1>2 DEF Reclaim, TypeOK

LEMMA TickedRow ==
    ASSUME TypeOK, Tick, NEW id \in Ids, Live(id)
    PROVE  row'[id] \in Row
<1>1. row[id] \in Row
  BY LiveRow
<1> DEFINE runIn == IF row[id].runIn = 0 THEN 0 ELSE row[id].runIn - 1
           lockAge == IF row[id].lockAge = Null THEN Null
                      ELSE Smaller(row[id].lockAge + 1, Lease)
<1>2. runIn \in Nat
  BY <1>1 DEF Row
<1>3. lockAge \in (0..Lease) \union {Null}
  <2>1. row[id].lockAge \in (0..Lease) \union {Null}
    BY <1>1 DEF Row
  <2> QED
    BY <2>1, BoundsAssumption DEF Smaller
<1>4. row'[id] = [row[id] EXCEPT !.runIn = runIn, !.lockAge = lockAge]
  BY DEF Tick
<1> HIDE DEF runIn, lockAge
<1> QED
  BY <1>1, <1>2, <1>3, <1>4 DEF Row

LEMMA TickTypeOK == TypeOK /\ Tick => TypeOK'
<1> SUFFICES ASSUME TypeOK, Tick PROVE TypeOK'
  OBVIOUS
<1>1. ASSUME NEW id \in Ids, Live(id) PROVE row'[id] \in Row
  BY <1>1, TickedRow
<1>2. row' \in [Ids -> Row \union {Unused, Gone}]
  BY <1>1 DEF Tick, Live, TypeOK
<1>3. ASSUME NEW c \in Claims, Active(c) PROVE exec'[c] \in Execution
  <2>1. exec[c] \in Execution /\ exec[c].age \in 0..Lease
    BY <1>3, ActiveExec
  <2>2. Smaller(exec[c].age + 1, Lease) \in 0..Lease
    BY <2>1, BoundsAssumption DEF Smaller
  <2>3. exec'[c] = [exec[c] EXCEPT !.age = Smaller(exec[c].age + 1, Lease)]
    BY <1>3 DEF Tick
  <2> QED
    BY <2>1, <2>2, <2>3 DEF Execution
<1>4. exec' \in [Claims -> Execution \union {Null}]
  BY <1>3 DEF Tick, TypeOK
<1> QED
  BY <1>2, <1>4 DEF Tick, TypeOK

LEMMA FaultyTypeOK == TypeOK /\ Faulty => TypeOK'
<1> SUFFICES ASSUME TypeOK, Faulty PROVE TypeOK'
  OBVIOUS
<1>0. Fault => faults' \in 0..MaxFaults
  BY BoundsAssumption DEF Fault, TypeOK
<1>1. ASSUME NEW w \in Workers, Crash(w) \/ ClaimFails(w) PROVE TypeOK'
  BY <1>0, <1>1 DEF Crash, ClaimFails, TypeOK
<1>2. ASSUME NEW c \in Claims, SuccessWriteFails(c) PROVE TypeOK'
  <2>1. [exec[c] EXCEPT !.phase = "failed"] \in Execution
    BY <1>2, ActiveExec DEF SuccessWriteFails, InPhase, Execution, Phases
  <2>2. exec' \in [Claims -> Execution \union {Null}]
    BY <1>2, <2>1 DEF SuccessWriteFails, TypeOK
  <2> QED
    BY <1>0, <1>2, <2>2 DEF SuccessWriteFails, TypeOK
<1>3. ASSUME NEW c \in Claims, FailureWriteFails(c) PROVE TypeOK'
  <2>1. exec[c].worker \in Workers
    BY <1>3, ActiveExec DEF FailureWriteFails, InPhase
  <2>2. poll' \in [Workers -> [phase : {Idle, "claiming", "executing"}, todo : SUBSET Ids]]
    BY <1>3, <2>1 DEF FailureWriteFails, TypeOK
  <2> QED
    BY <1>0, <1>3, <2>2 DEF FailureWriteFails, TypeOK
<1> QED
  BY <1>1, <1>2, <1>3 DEF Faulty

LEMMA NextTypeOK == TypeOK /\ [Next]_vars => TypeOK'
<1> SUFFICES ASSUME TypeOK, [Next]_vars PROVE TypeOK'
  OBVIOUS
<1>1. CASE UNCHANGED vars
  BY <1>1 DEF vars, TypeOK
<1> QED
  BY <1>1, CallerTypeOK, ClaimingTypeOK, ExecutingTypeOK, ReclaimTypeOK, TickTypeOK,
     FaultyTypeOK DEF Next

\* Whatever callers, workers and faults do, scheduled_job and the state every
\* process keeps of its poll and its executions stay well formed.
THEOREM TypeCorrect == Spec => []TypeOK
<1> QED
  BY InitTypeOK, NextTypeOK, PTL DEF Spec

(***************************************************************************)
(* Exclusive claims.  MutualExclusion alone is not inductive: a row could  *)
(* become claimable while it is being executed.  The strengthening says    *)
(* that every execution holds the lease of its row, and that the lease is  *)
(* as old as the execution, so that Reclaim never takes it.                *)
(***************************************************************************)

HoldsLease(c) ==
    /\ row[exec[c].id] # Unused
    /\ exec[c].age < Lease
    /\ Live(exec[c].id) => /\ RowOf(c).status = "running"
                           /\ RowOf(c).lockedBy = c
                           /\ RowOf(c).lockAge = exec[c].age

ClaimsHeld == \A c \in Claims : Active(c) => HoldsLease(c)

ExclusiveInv == TypeOK /\ ClaimsHeld /\ MutualExclusion

\* No handler outlives its lease, and no caller of upsertRecurringJob resets
\* a schedule or sets its status: boot's ensureRecurring only.
Undisturbed ==
    /\ ~SlowHandlers
    /\ \A edit \in Edits : edit.status = "keep" /\ ~edit.reset

\* Steps that move or end executions and leave the rows alone.
LEMMA ExecutionsMove ==
    ASSUME ExclusiveInv, row' = row,
           \A c \in Claims : \/ exec'[c] = Null
                             \/ /\ Active(c)
                                /\ exec'[c].id = exec[c].id
                                /\ exec'[c].age = exec[c].age
    PROVE  ClaimsHeld' /\ MutualExclusion'
<1>1. ASSUME NEW c \in Claims, Active(c)' PROVE HoldsLease(c)'
  BY <1>1 DEF ExclusiveInv, ClaimsHeld, HoldsLease, RowOf, Live, Active
<1>2. MutualExclusion'
  BY DEF ExclusiveInv, MutualExclusion, Active
<1> QED
  BY <1>1, <1>2 DEF ClaimsHeld

\* Steps of callers: a row in use is deleted, or keeps its status and lock.
LEMMA RowsEdited ==
    ASSUME ExclusiveInv, exec' = exec,
           \A id \in Ids : row[id] # Unused =>
               \/ row'[id] \in {row[id], Gone}
               \/ /\ Live(id) /\ row'[id] \in Row
                  /\ row'[id].status = row[id].status
                  /\ row'[id].lockAge = row[id].lockAge
                  /\ row'[id].lockedBy = row[id].lockedBy
    PROVE  ClaimsHeld' /\ MutualExclusion'
<1>1. ASSUME NEW c \in Claims, Active(c)' PROVE HoldsLease(c)'
  <2>1. Active(c) /\ HoldsLease(c) /\ exec[c].id \in Ids
    BY <1>1, ActiveExec DEF ExclusiveInv, ClaimsHeld, Active
  <2> QED
    BY <2>1, ValuesAssumption DEF HoldsLease, RowOf, Live
<1>2. MutualExclusion'
  BY DEF ExclusiveInv, MutualExclusion, Active
<1> QED
  BY <1>1, <1>2 DEF ClaimsHeld

\* The last statement of an execution touches no row another one executes.
LEMMA RowWritten ==
    ASSUME ExclusiveInv, NEW c \in Claims, Active(c), NEW new, Write(c, new)
    PROVE  ClaimsHeld' /\ MutualExclusion'
<1>1. ASSUME NEW d \in Claims, Active(d)'
      PROVE  /\ d # c /\ Active(d) /\ exec'[d] = exec[d] /\ exec[d].id # exec[c].id
             /\ exec[d].id \in Ids
  <2>1. d # c /\ exec'[d] = exec[d]
    BY <1>1 DEF Write, Active, ExclusiveInv, TypeOK
  <2>2. Active(d)
    BY <1>1, <2>1 DEF Active
  <2> QED
    BY <2>1, <2>2, ActiveExec DEF ExclusiveInv, MutualExclusion
<1>2. ASSUME NEW d \in Claims, Active(d)' PROVE HoldsLease(d)'
  <2>1. row'[exec[d].id] = row[exec[d].id]
    BY <1>1, <1>2 DEF Write, ExclusiveInv, TypeOK
  <2> QED
    BY <1>1, <1>2, <2>1 DEF ExclusiveInv, ClaimsHeld, HoldsLease, RowOf, Live
<1>3. MutualExclusion'
  BY <1>1 DEF ExclusiveInv, MutualExclusion
<1> QED
  BY <1>2, <1>3 DEF ClaimsHeld

LEMMA ExclusiveInit == Init => ExclusiveInv
BY InitTypeOK DEF Init, ExclusiveInv, ClaimsHeld, MutualExclusion, Active

LEMMA CallerExclusive ==
    ASSUME ExclusiveInv, Undisturbed, Caller
    PROVE  ClaimsHeld' /\ MutualExclusion'
<1>0. TypeOK
  BY DEF ExclusiveInv
<1>1. ASSUME NEW key \in OnceKeys, EnqueueOnce(key) PROVE ClaimsHeld' /\ MutualExclusion'
  BY <1>0, <1>1, RowsEdited DEF EnqueueOnce, TypeOK
<1>2. ASSUME NEW id \in Ids, DeleteJob(id) PROVE ClaimsHeld' /\ MutualExclusion'
  BY <1>0, <1>2, RowsEdited DEF DeleteJob, TypeOK
<1>3. ASSUME NEW key \in CronKeys, NEW cron \in Crons, NEW edit \in Edits,
             UpsertSelect(key, cron, edit)
      PROVE  ClaimsHeld' /\ MutualExclusion'
  BY <1>3, RowsEdited DEF UpsertSelect
<1>4. CASE UpsertRefresh
  <2>1. editor \in Edit /\ editor.cron \in Crons
    BY <1>0, <1>4 DEF UpsertRefresh, TypeOK, Edit
  <2>2. ASSUME Live(editor.target)
        PROVE  /\ [row[editor.target] EXCEPT !.cron = editor.cron] \in Row
               /\ row[editor.target] \in Row
    BY <1>0, <1>4, <2>1, <2>2, LiveRow DEF UpsertRefresh, Row
  <2>3. ASSUME NEW id \in Ids
        PROVE  \/ row'[id] = row[id]
               \/ /\ Live(id) /\ row[id] \in Row /\ row'[id] \in Row
                  /\ row'[id] = [row[id] EXCEPT !.cron = editor.cron]
    BY <1>0, <1>4, <2>2 DEF UpsertRefresh, TypeOK
  <2>4. ASSUME NEW id \in Ids, row'[id] # row[id]
        PROVE  /\ Live(id) /\ row'[id] \in Row
               /\ row'[id].status = row[id].status
               /\ row'[id].lockAge = row[id].lockAge
               /\ row'[id].lockedBy = row[id].lockedBy
    BY <2>3, <2>4 DEF Row
  <2> QED
    BY <1>4, <2>4, RowsEdited DEF UpsertRefresh
<1>5. CASE UpsertInsert
  <2>1. editor \in Edit /\ editor.edit.status = "keep" /\ ~editor.edit.reset
    BY <1>0, <1>5 DEF UpsertInsert, TypeOK, Edit, Undisturbed
  <2>2. ASSUME NEW id \in Holding(editor.key)
        PROVE  /\ id \in Ids /\ Live(id) /\ Edited(row[id], editor) \in Row
               /\ Edited(row[id], editor).status = row[id].status
               /\ Edited(row[id], editor).lockAge = row[id].lockAge
               /\ Edited(row[id], editor).lockedBy = row[id].lockedBy
    <3>1. id \in Ids /\ Live(id) /\ row[id] \in Row
      BY <1>0, <2>2, LiveRow DEF Holding, LiveIds
    <3>2. Edited(row[id], editor) \in Row
      BY <2>1, <3>1, EditedType
    <3> QED
      BY <2>1, <3>1, <3>2 DEF Edited, Row
  <2>3. CASE \E id \in Holding(editor.key) : row' = [row EXCEPT ![id] = Edited(@, editor)]
    BY <1>0, <1>5, <2>2, <2>3, RowsEdited DEF UpsertInsert, TypeOK
  <2>4. CASE \E id \in Ids : /\ row[id] = Unused
                             /\ \A other \in Ids \ {id} : row'[other] = row[other]
    BY <1>5, <2>4, RowsEdited DEF UpsertInsert
  <2> QED
    BY <1>0, <1>5, <2>3, <2>4 DEF UpsertInsert, TypeOK
<1> QED
  BY <1>1, <1>2, <1>3, <1>4, <1>5 DEF Caller

LEMMA ClaimingExclusive ==
    ASSUME ExclusiveInv, NEW w \in Workers, Claiming(w)
    PROVE  ClaimsHeld' /\ MutualExclusion'
<1>0. TypeOK
  BY DEF ExclusiveInv
<1>1. CASE Poll(w) \/ PollDone(w) \/ UNCHANGED <<row, exec>>
  BY <1>1, RowsEdited DEF Poll, PollDone
<1>2. CASE StartExecuting(w)
  <2>1. ASSUME NEW c \in Claims
        PROVE  \/ exec'[c] = Null
               \/ Active(c) /\ exec'[c].id = exec[c].id /\ exec'[c].age = exec[c].age
    <3>1. CASE Active(c)
      BY <1>0, <1>2, <3>1, ActiveExec DEF StartExecuting, Execution
    <3> QED
      BY <1>2, <3>1 DEF StartExecuting, OfWorker, Active
  <2> QED
    BY <1>2, <2>1, ExecutionsMove DEF StartExecuting
<1>3. CASE ClaimNext(w) /\ ~UNCHANGED <<row, exec>>
  <2>1. PICK id \in poll[w].todo, c \in Claims :
           /\ Claimable(id) /\ ~Active(c)
           /\ row' = [row EXCEPT ![id] = Claimed(row[id], c)]
           /\ exec' = [exec EXCEPT ![c] = ExecutionOf(w, id, Claimed(row[id], c))]
    BY <1>3 DEF ClaimNext
  <2>2. id \in Ids
    <3>1. poll[w] \in [phase : {Idle, "claiming", "executing"}, todo : SUBSET Ids]
      BY <1>0 DEF TypeOK
    <3> QED
      BY <2>1, <3>1
  <2>3. row[id] \in Row /\ row[id].status = "pending"
    BY <1>0, <2>1, <2>2, LiveRow DEF Claimable, Pending
  <2>4. /\ row' [id] \in Row /\ row'[id].status = "running"
        /\ row'[id].lockedBy = c /\ row'[id].lockAge = 0
        /\ row'[id] # Unused
    BY <1>0, <2>1, <2>2, <2>3, ClaimedType, ValuesAssumption DEF TypeOK
  <2>5. exec'[c].id = id /\ exec'[c].age = 0
    BY <1>0, <2>1 DEF TypeOK, ExecutionOf
  <2>6. ASSUME NEW d \in Claims, d # c, Active(d)'
        PROVE  /\ Active(d) /\ exec'[d] = exec[d] /\ exec[d].id \in Ids
               /\ exec[d].id # id /\ row'[exec[d].id] = row[exec[d].id]
    <3>1. Active(d) /\ exec'[d] = exec[d]
      BY <1>0, <2>1, <2>6 DEF Active, TypeOK
    <3>2. exec[d].id \in Ids
      BY <1>0, <3>1, ActiveExec
    <3>3. exec[d].id # id
      BY <2>1, <2>3, <3>1 DEF ExclusiveInv, ClaimsHeld, HoldsLease, RowOf, Claimable, Pending
    <3> QED
      BY <1>0, <2>1, <3>1, <3>2, <3>3 DEF TypeOK
  <2>7. ASSUME NEW d \in Claims, Active(d)' PROVE HoldsLease(d)'
    <3>1. CASE d = c
      BY <2>4, <2>5, <3>1, BoundsAssumption DEF HoldsLease, RowOf
    <3>2. CASE d # c
      BY <2>6, <2>7, <3>2 DEF ExclusiveInv, ClaimsHeld, HoldsLease, RowOf, Live
    <3> QED
      BY <3>1, <3>2
  <2>8. MutualExclusion'
    BY <2>5, <2>6 DEF ExclusiveInv, MutualExclusion
  <2> QED
    BY <2>7, <2>8 DEF ClaimsHeld
<1> QED
  BY <1>1, <1>2, <1>3 DEF Claiming

LEMMA ExecutingExclusive ==
    ASSUME ExclusiveInv, NEW c \in Claims, Executing(c)
    PROVE  ClaimsHeld' /\ MutualExclusion'
<1>0. TypeOK /\ Active(c)
  BY DEF Executing, NoHandler, CallHandler, SkipRestricted, HandlerReturns,
         HandlerThrows, OnJobSuccess, OnJobFailure, RescheduleJob, DeleteFinished,
         MarkJobFailed, InPhase, ExclusiveInv
<1>1. CASE \E new : Write(c, new)
  BY <1>0, <1>1, RowWritten
<1>2. ASSUME NEW phase, Enter(c, phase) PROVE ClaimsHeld' /\ MutualExclusion'
  <2>1. ASSUME NEW d \in Claims
        PROVE  \/ exec'[d] = Null
               \/ Active(d) /\ exec'[d].id = exec[d].id /\ exec'[d].age = exec[d].age
    BY <1>0, <1>2, ActiveExec DEF Enter, TypeOK, Active, Execution
  <2> QED
    BY <1>2, <2>1, ExecutionsMove DEF Enter
<1>3. ASSUME NEW m, NEW n, Decide(c, m, n) PROVE ClaimsHeld' /\ MutualExclusion'
  <2>1. PICK cron, phase : exec' = [exec EXCEPT ![c].cron = cron, ![c].phase = phase]
    BY <1>3 DEF Decide
  <2>2. ASSUME NEW d \in Claims
        PROVE  \/ exec'[d] = Null
               \/ Active(d) /\ exec'[d].id = exec[d].id /\ exec'[d].age = exec[d].age
    BY <1>0, <2>1, ActiveExec DEF TypeOK, Active, Execution
  <2> QED
    BY <1>3, <2>2, ExecutionsMove DEF Decide
<1> QED
  BY <1>1, <1>2, <1>3
     DEF Executing, NoHandler, CallHandler, SkipRestricted, HandlerReturns,
         HandlerThrows, OnJobSuccess, OnJobFailure, RescheduleJob, DeleteFinished,
         MarkJobFailed

\* A row being executed has not expired: its lease is younger than Lease.
LEMMA ReclaimExclusive ==
    ASSUME ExclusiveInv, Reclaim
    PROVE  ClaimsHeld' /\ MutualExclusion'
<1>0. TypeOK
  BY DEF ExclusiveInv
<1>1. ASSUME NEW c \in Claims, Active(c)
      PROVE  exec[c].id \in Ids /\ row'[exec[c].id] = row[exec[c].id]
  <2>1. exec[c].id \in Ids /\ HoldsLease(c) /\ exec[c].age \in 0..Lease
    BY <1>0, <1>1, ActiveExec DEF ExclusiveInv, ClaimsHeld
  <2>2. ~Expired(exec[c].id)
    BY <2>1, BoundsAssumption DEF Expired, Running, HoldsLease, RowOf
  <2> QED
    BY <2>1, <2>2 DEF Reclaim
<1>2. exec' = exec
  BY DEF Reclaim
<1>3. ASSUME NEW c \in Claims, Active(c)' PROVE HoldsLease(c)'
  BY <1>1, <1>2, <1>3 DEF ExclusiveInv, ClaimsHeld, HoldsLease, RowOf, Live, Active
<1>4. MutualExclusion'
  BY <1>2 DEF ExclusiveInv, MutualExclusion, Active
<1> QED
  BY <1>3, <1>4 DEF ClaimsHeld

\* Time passes for a lease and for the execution that holds it alike.
LEMMA TickExclusive ==
    ASSUME ExclusiveInv, ~SlowHandlers, Tick
    PROVE  ClaimsHeld' /\ MutualExclusion'
<1>0. TypeOK
  BY DEF ExclusiveInv
<1>1. ASSUME NEW c \in Claims, Active(c)'
      PROVE  /\ Active(c) /\ exec[c].id \in Ids /\ exec'[c].id = exec[c].id
             /\ exec'[c].age = exec[c].age + 1 /\ exec'[c].age < Lease
  <2>1. Active(c)
    BY <1>1 DEF Active, Tick
  <2>2. exec[c] \in Execution /\ exec[c].id \in Ids /\ exec[c].age \in 0..Lease
    BY <1>0, <2>1, ActiveExec
  <2>3. exec[c].age + 1 < Lease
    BY <2>1 DEF Tick
  <2>4. exec'[c] = [exec[c] EXCEPT !.age = Smaller(exec[c].age + 1, Lease)]
    BY <2>1 DEF Tick
  <2>5. Smaller(exec[c].age + 1, Lease) = exec[c].age + 1
    BY <2>3 DEF Smaller
  <2> QED
    BY <2>1, <2>2, <2>3, <2>4, <2>5 DEF Execution
<1>2. ASSUME NEW c \in Claims, Active(c)' PROVE HoldsLease(c)'
  <2>1. Active(c) /\ HoldsLease(c) /\ exec[c].id \in Ids /\ exec[c].age \in 0..Lease
    BY <1>0, <1>1, <1>2, ActiveExec DEF ExclusiveInv, ClaimsHeld
  <2>2. CASE ~Live(exec[c].id)
    BY <1>1, <1>2, <2>1, <2>2 DEF HoldsLease, Tick, Live, RowOf
  <2>3. CASE Live(exec[c].id)
    <3> DEFINE id == exec[c].id
    <3>1. row[id] \in Row
      BY <1>0, <2>1, <2>3, LiveRow
    <3>2. row[id].lockAge = exec[c].age /\ row[id].lockAge # Null
      BY <2>1, <2>3, ValuesAssumption DEF HoldsLease, RowOf
    <3>3. PICK runIn : row'[id] = [row[id] EXCEPT !.runIn = runIn,
                                      !.lockAge = Smaller(row[id].lockAge + 1, Lease)]
      BY <2>1, <2>3, <3>2 DEF Tick
    <3>4. Smaller(row[id].lockAge + 1, Lease) = exec'[c].age
      BY <1>1, <1>2, <2>1, <3>2 DEF Smaller
    <3>5. /\ row'[id].status = row[id].status /\ row'[id].lockedBy = row[id].lockedBy
          /\ row'[id].lockAge = exec'[c].age
      BY <3>1, <3>3, <3>4 DEF Row
    <3>6. row'[id] # Unused
      BY <1>0, <2>1, <2>3, TickedRow, ValuesAssumption
    <3> QED
      BY <1>1, <1>2, <2>1, <2>3, <3>5, <3>6 DEF HoldsLease, RowOf
  <2> QED
    BY <2>2, <2>3
<1>3. MutualExclusion'
  BY <1>1 DEF ExclusiveInv, MutualExclusion
<1> QED
  BY <1>2, <1>3 DEF ClaimsHeld

LEMMA FaultyExclusive ==
    ASSUME ExclusiveInv, Faulty
    PROVE  ClaimsHeld' /\ MutualExclusion'
<1>0. TypeOK
  BY DEF ExclusiveInv
<1>1. ASSUME NEW c \in Claims
      PROVE  \/ exec'[c] = Null
             \/ Active(c) /\ exec'[c].id = exec[c].id /\ exec'[c].age = exec[c].age
  <2>1. CASE \E w \in Workers : Crash(w) \/ ClaimFails(w)
    BY <2>1 DEF Crash, ClaimFails, Active
  <2>2. ASSUME NEW d \in Claims, SuccessWriteFails(d)
        PROVE  \/ exec'[c] = Null
               \/ Active(c) /\ exec'[c].id = exec[c].id /\ exec'[c].age = exec[c].age
    <3>1. exec[d] \in Execution
      BY <1>0, <2>2, ActiveExec DEF SuccessWriteFails, InPhase
    <3>2. exec' = [exec EXCEPT ![d] = [exec[d] EXCEPT !.phase = "failed"]]
      BY <2>2 DEF SuccessWriteFails
    <3> QED
      BY <1>0, <2>2, <3>1, <3>2
         DEF SuccessWriteFails, InPhase, Active, Execution, TypeOK
  <2>3. CASE \E d \in Claims : FailureWriteFails(d)
    BY <1>0, <2>3 DEF FailureWriteFails, Active, TypeOK
  <2> QED
    BY <2>1, <2>2, <2>3 DEF Faulty
<1>2. row' = row
  BY DEF Faulty, Crash, ClaimFails, SuccessWriteFails, FailureWriteFails
<1> QED
  BY <1>1, <1>2, ExecutionsMove

LEMMA ExclusiveNext ==
    ASSUME ExclusiveInv, Undisturbed, [Next]_vars
    PROVE  ExclusiveInv'
<1>1. TypeOK'
  BY NextTypeOK DEF ExclusiveInv
<1>2. CASE UNCHANGED vars
  BY <1>1, <1>2, RowsEdited DEF vars, ExclusiveInv
<1>3. CASE Next
  BY <1>1, <1>3, CallerExclusive, ClaimingExclusive, ExecutingExclusive,
     ReclaimExclusive, TickExclusive, FaultyExclusive
     DEF Next, ExclusiveInv, Undisturbed
<1> QED
  BY <1>2, <1>3

\* The claim of claimDueJobs is exclusive, for any number of processes, jobs
\* and crashes, as long as no handler outlives its lease and no edit resets a
\* row: at most one execution of a job at a time.
THEOREM Exclusive ==
    ASSUME Undisturbed
    PROVE  Spec => []MutualExclusion
<1>1. ExclusiveInv /\ [Next]_vars => ExclusiveInv'
  BY ExclusiveNext
<1>2. ExclusiveInv => MutualExclusion
  BY DEF ExclusiveInv
<1> QED
  BY ExclusiveInit, <1>1, <1>2, PTL DEF Spec

(***************************************************************************)
(* The budget of attempts.  The strengthening follows the counter: a row   *)
(* waits with an attempt left, a running row is being executed, and an     *)
(* execution carries the count its row has, so that onJobFailure decides   *)
(* on the count the next claim will raise.  A fault ends it: a row left    *)
(* running with nobody executing it is reclaimed with all its attempts.    *)
(***************************************************************************)

RowInBudget(id) ==
    /\ row[id].attempts <= MaxAttempts
    /\ row[id].status = "pending" => row[id].attempts < MaxAttempts
    /\ row[id].status = "running" => \E c \in Claims : Active(c) /\ exec[c].id = id

CountAgrees(c) ==
    /\ Live(exec[c].id) => exec[c].attempts = RowOf(c).attempts
    /\ exec[c].phase = "retry" => AttemptsLeft(c)

Budget ==
    /\ \A id \in LiveIds : RowInBudget(id)
    /\ \A c \in Claims : Active(c) => CountAgrees(c)

BudgetInv == ExclusiveInv /\ (faults = 0 => Budget)

\* Executions advance, none of them beyond its budget, and no row changes.
LEMMA ExecutionsInBudget ==
    ASSUME Budget, row' = row,
           \A c \in Claims :
               /\ Active(c)' <=> Active(c)
               /\ Active(c) => /\ exec'[c].id = exec[c].id
                               /\ exec'[c].attempts = exec[c].attempts
                               /\ exec'[c].phase = "retry" =>
                                      exec[c].phase = "retry" \/ AttemptsLeft(c)
    PROVE  Budget'
<1>1. ASSUME NEW id \in LiveIds' PROVE RowInBudget(id)'
  <2>1. id \in LiveIds /\ RowInBudget(id)
    BY <1>1 DEF Budget, LiveIds, Live
  <2> QED
    BY <2>1 DEF RowInBudget
<1>2. ASSUME NEW c \in Claims, Active(c)' PROVE CountAgrees(c)'
  <2>1. Active(c) /\ CountAgrees(c)
    BY <1>2 DEF Budget
  <2> QED
    BY <2>1 DEF CountAgrees, Live, RowOf, AttemptsLeft
<1> QED
  BY <1>1, <1>2 DEF Budget

\* Callers delete a row, leave its count and status, or insert one.
LEMMA EditsInBudget ==
    ASSUME ExclusiveInv, Budget, exec' = exec,
           \A id \in Ids :
               \/ row'[id] \in {row[id], Gone}
               \/ /\ Live(id)
                  /\ row'[id].attempts = row[id].attempts
                  /\ row'[id].status = row[id].status
               \/ /\ row[id] = Unused
                  /\ row'[id].attempts = 0
                  /\ row'[id].status # "running"
    PROVE  Budget'
<1>1. ASSUME NEW id \in LiveIds' PROVE RowInBudget(id)'
  <2>0. id \in Ids /\ row'[id] # Gone /\ row'[id] # Unused
    BY <1>1 DEF LiveIds, Live
  <2>1. CASE Live(id)
    <3>1. RowInBudget(id)
      BY <2>0, <2>1 DEF Budget, LiveIds
    <3> QED
      BY <2>0, <2>1, <3>1 DEF RowInBudget, Active, Live
  <2>2. CASE ~Live(id)
    <3>1. row'[id].attempts = 0 /\ row'[id].status # "running"
      BY <2>0, <2>2 DEF Live
    <3> QED
      BY <3>1, BoundsAssumption DEF RowInBudget
  <2> QED
    BY <2>1, <2>2
<1>2. ASSUME NEW c \in Claims, Active(c)' PROVE CountAgrees(c)'
  <2>1. Active(c) /\ CountAgrees(c) /\ exec'[c] = exec[c]
    BY <1>2 DEF Budget, Active
  <2>2. exec[c].id \in Ids /\ row[exec[c].id] # Unused
    BY <2>1, ActiveExec DEF ExclusiveInv, ClaimsHeld, HoldsLease
  <2>3. Live(exec[c].id)' =>
            Live(exec[c].id) /\ row'[exec[c].id].attempts = row[exec[c].id].attempts
    BY <2>2 DEF Live
  <2> QED
    BY <2>1, <2>3 DEF CountAgrees, RowOf, AttemptsLeft, Live
<1> QED
  BY <1>1, <1>2 DEF Budget

\* The last statement of an execution deletes its row or leaves it an attempt,
\* unless it marks the row failed.
LEMMA WriteInBudget ==
    ASSUME ExclusiveInv, Budget, NEW c \in Claims, Active(c), NEW new, Write(c, new),
           Live(exec[c].id) =>
               \/ new = Gone
               \/ /\ new.attempts <= MaxAttempts
                  /\ new.status = "pending" => new.attempts < MaxAttempts
                  /\ new.status # "running"
    PROVE  Budget'
<1>0. TypeOK /\ exec[c].id \in Ids
  BY ActiveExec DEF ExclusiveInv
<1>1. ASSUME NEW id \in LiveIds' PROVE RowInBudget(id)'
  <2>0. id \in Ids /\ row'[id] # Gone /\ row'[id] # Unused
    BY <1>1 DEF LiveIds, Live
  <2>1. CASE id = exec[c].id /\ Live(id)
    <3>1. row'[id] = new
      BY <1>0, <2>1 DEF Write, TypeOK
    <3> QED
      BY <2>0, <2>1, <3>1 DEF RowInBudget
  <2>2. CASE ~(id = exec[c].id /\ Live(id))
    <3>1. row'[id] = row[id]
      BY <1>0, <2>0, <2>2 DEF Write, TypeOK
    <3>2. Live(id) /\ RowInBudget(id) /\ id # exec[c].id
      BY <2>0, <2>2, <3>1 DEF Budget, LiveIds, Live
    <3>3. ASSUME NEW d \in Claims, Active(d), exec[d].id = id
          PROVE  Active(d)' /\ exec'[d].id = id
      BY <1>0, <3>2, <3>3 DEF Write, TypeOK, Active
    <3> QED
      BY <3>1, <3>2, <3>3 DEF RowInBudget
  <2> QED
    BY <2>1, <2>2
<1>2. ASSUME NEW d \in Claims, Active(d)' PROVE CountAgrees(d)'
  <2>1. d # c /\ Active(d) /\ exec'[d] = exec[d]
    BY <1>0, <1>2 DEF Write, TypeOK, Active
  <2>2. exec[d].id \in Ids /\ exec[d].id # exec[c].id
    BY <1>0, <2>1, ActiveExec DEF ExclusiveInv, MutualExclusion
  <2>3. row'[exec[d].id] = row[exec[d].id]
    BY <1>0, <2>2 DEF Write, TypeOK
  <2> QED
    BY <2>1, <2>3 DEF Budget, CountAgrees, RowOf, AttemptsLeft, Live
<1> QED
  BY <1>1, <1>2 DEF Budget

LEMMA CallerInBudget ==
    ASSUME ExclusiveInv, Budget, Undisturbed, Caller
    PROVE  Budget'
<1>0. TypeOK
  BY DEF ExclusiveInv
<1>1. ASSUME NEW key \in OnceKeys, EnqueueOnce(key) PROVE Budget'
  BY <1>0, <1>1, EditsInBudget DEF EnqueueOnce, TypeOK, NewRow
<1>2. ASSUME NEW id \in Ids, DeleteJob(id) PROVE Budget'
  BY <1>0, <1>2, EditsInBudget DEF DeleteJob, TypeOK
<1>3. ASSUME NEW key \in CronKeys, NEW cron \in Crons, NEW edit \in Edits,
             UpsertSelect(key, cron, edit)
      PROVE  Budget'
  BY <1>3, EditsInBudget DEF UpsertSelect
<1>4. CASE UpsertRefresh
  <2>1. ASSUME NEW id \in Ids, row'[id] # row[id]
        PROVE  /\ Live(id) /\ row[id] \in Row
               /\ row'[id] = [row[id] EXCEPT !.cron = editor.cron]
    BY <1>0, <1>4, <2>1, LiveRow DEF UpsertRefresh, TypeOK
  <2>2. ASSUME NEW id \in Ids, row'[id] # row[id]
        PROVE  /\ Live(id) /\ row'[id].attempts = row[id].attempts
               /\ row'[id].status = row[id].status
    BY <2>1, <2>2 DEF Row
  <2> QED
    BY <1>4, <2>2, EditsInBudget DEF UpsertRefresh
<1>5. CASE UpsertInsert
  <2>1. editor \in Edit /\ editor.edit.status = "keep" /\ ~editor.edit.reset
    BY <1>0, <1>5 DEF UpsertInsert, TypeOK, Edit, Undisturbed
  <2>2. ASSUME NEW id \in Holding(editor.key)
        PROVE  /\ id \in Ids /\ Live(id)
               /\ Edited(row[id], editor).attempts = row[id].attempts
               /\ Edited(row[id], editor).status = row[id].status
    <3>1. id \in Ids /\ Live(id) /\ row[id] \in Row
      BY <1>0, <2>2, LiveRow DEF Holding, LiveIds
    <3> QED
      BY <2>1, <3>1 DEF Edited, Row
  <2>3. CASE \E id \in Holding(editor.key) : row' = [row EXCEPT ![id] = Edited(@, editor)]
    BY <1>0, <1>5, <2>2, <2>3, EditsInBudget DEF UpsertInsert, TypeOK
  <2>4. CASE \E id \in Ids : /\ row[id] = Unused
                             /\ row' = [row EXCEPT ![id] =
                                          NewRow(editor.key, editor.cron, "pending", editor.cron)]
    BY <1>0, <1>5, <2>4, EditsInBudget DEF UpsertInsert, TypeOK, NewRow
  <2> QED
    BY <1>0, <1>5, <2>1, <2>3, <2>4 DEF UpsertInsert, TypeOK
<1> QED
  BY <1>1, <1>2, <1>3, <1>4, <1>5 DEF Caller

LEMMA ClaimingInBudget ==
    ASSUME ExclusiveInv, Budget, NEW w \in Workers, Claiming(w)
    PROVE  Budget'
<1>0. TypeOK
  BY DEF ExclusiveInv
<1>1. CASE Poll(w) \/ PollDone(w) \/ UNCHANGED <<row, exec>>
  BY <1>1, EditsInBudget DEF Poll, PollDone
<1>2. CASE StartExecuting(w)
  <2>1. ASSUME NEW c \in Claims
        PROVE  /\ Active(c)' <=> Active(c)
               /\ Active(c) => /\ exec'[c].id = exec[c].id
                               /\ exec'[c].attempts = exec[c].attempts
                               /\ exec'[c].phase = "retry" => exec[c].phase = "retry"
    <3>1. CASE exec'[c] = exec[c]
      BY <3>1 DEF Active
    <3>2. CASE exec'[c] # exec[c]
      <4>1. Active(c) /\ exec'[c] = [exec[c] EXCEPT !.phase = "started"]
        BY <1>2, <3>2 DEF StartExecuting, OfWorker
      <4>2. exec[c] \in Execution
        BY <1>0, <4>1, ActiveExec
      <4>3. exec'[c] \in Execution
        BY <4>1, <4>2 DEF Execution, Phases
      <4> QED
        BY <4>1, <4>2, <4>3, ValuesAssumption DEF Execution, Active
    <3> QED
      BY <3>1, <3>2
  <2> QED
    BY <1>2, <2>1, ExecutionsInBudget DEF StartExecuting
<1>3. CASE ClaimNext(w) /\ ~UNCHANGED <<row, exec>>
  <2>1. PICK id \in poll[w].todo, c \in Claims :
           /\ Claimable(id) /\ ~Active(c)
           /\ row' = [row EXCEPT ![id] = Claimed(row[id], c)]
           /\ exec' = [exec EXCEPT ![c] = ExecutionOf(w, id, Claimed(row[id], c))]
    BY <1>3 DEF ClaimNext
  <2>2. id \in Ids
    <3>1. poll[w] \in [phase : {Idle, "claiming", "executing"}, todo : SUBSET Ids]
      BY <1>0 DEF TypeOK
    <3> QED
      BY <2>1, <3>1
  <2>3. /\ row[id] \in Row /\ row[id].status = "pending" /\ Live(id)
        /\ row[id].attempts < MaxAttempts /\ row[id].attempts \in Nat
    <3>1. row[id] \in Row /\ row[id].status = "pending" /\ Live(id)
      BY <1>0, <2>1, <2>2, LiveRow DEF Claimable, Pending
    <3> QED
      BY <2>2, <3>1 DEF Budget, LiveIds, RowInBudget, Row
  <2>4. /\ row'[id] = Claimed(row[id], c) /\ row'[id].status = "running"
        /\ row'[id].attempts = row[id].attempts + 1
    <3>1. row'[id] = Claimed(row[id], c) /\ row'[id].status = "running"
      BY <1>0, <2>1, <2>2, <2>3, ClaimedType DEF TypeOK
    <3>2. Smaller(row[id].attempts + 1, AttemptsCap) = row[id].attempts + 1
      BY <2>3, BoundsAssumption DEF Smaller, AttemptsCap
    <3> QED
      BY <2>3, <3>1, <3>2 DEF Claimed, Row
  <2>5. /\ exec'[c].id = id /\ exec'[c].attempts = row'[id].attempts
        /\ exec'[c].phase = "claimed" /\ Active(c)'
    <3>1. exec'[c] = ExecutionOf(w, id, row'[id])
      BY <1>0, <2>1, <2>4 DEF TypeOK
    <3>2. TypeOK'
      BY <1>0, NextTypeOK DEF Next
    <3>3. exec'[c] \in Execution \/ exec'[c] = Null
      BY <3>2 DEF TypeOK
    <3>4. row'[id] \in Row
      BY <2>3, <2>4, ClaimedType
    <3>5. exec'[c] \in Execution
      BY <2>2, <2>3, <3>1, <3>4, BoundsAssumption DEF ExecutionOf, Execution, Row, Phases
    <3> QED
      BY <3>1, <3>5, ValuesAssumption DEF ExecutionOf, Active
  <2>6. ASSUME NEW d \in Claims, d # c
        PROVE  exec'[d] = exec[d]
    BY <1>0, <2>1, <2>6 DEF TypeOK
  <2>7. ASSUME NEW other \in LiveIds' PROVE RowInBudget(other)'
    <3>1. CASE other = id
      BY <2>3, <2>4, <2>5, <3>1, BoundsAssumption DEF RowInBudget
    <3>2. CASE other # id
      <4>1. other \in LiveIds /\ row'[other] = row[other]
        BY <1>0, <2>1, <2>7, <3>2 DEF TypeOK, LiveIds, Live
      <4>2. ASSUME NEW d \in Claims, Active(d), exec[d].id = other
            PROVE  Active(d)' /\ exec'[d].id = other
        BY <2>1, <2>6, <4>2 DEF Active
      <4> QED
        BY <4>1, <4>2 DEF Budget, RowInBudget
    <3> QED
      BY <3>1, <3>2
  <2>8. ASSUME NEW d \in Claims, Active(d)' PROVE CountAgrees(d)'
    <3>1. CASE d = c
      BY <2>5, <3>1 DEF CountAgrees, RowOf
    <3>2. CASE d # c
      <4>1. Active(d) /\ exec'[d] = exec[d] /\ CountAgrees(d) /\ HoldsLease(d)
        BY <2>6, <2>8, <3>2 DEF Budget, Active, ExclusiveInv, ClaimsHeld
      <4>2. exec[d].id \in Ids /\ exec[d].id # id
        BY <1>0, <2>3, <4>1, ActiveExec DEF HoldsLease, RowOf
      <4>3. row'[exec[d].id] = row[exec[d].id]
        BY <1>0, <2>1, <4>2 DEF TypeOK
      <4> QED
        BY <4>1, <4>3 DEF CountAgrees, RowOf, AttemptsLeft, Live
    <3> QED
      BY <3>1, <3>2
  <2> QED
    BY <2>7, <2>8 DEF Budget
<1> QED
  BY <1>1, <1>2, <1>3 DEF Claiming

\* An execution enters a phase, its cron refreshed or not.
LEMMA PhaseInBudget ==
    ASSUME ExclusiveInv, Budget, NEW c \in Claims, Active(c), row' = row,
           NEW cron \in Crons \union {NoCron}, NEW phase \in Phases,
           phase = "retry" => AttemptsLeft(c),
           exec' = [exec EXCEPT ![c].cron = cron, ![c].phase = phase]
    PROVE  Budget'
<1>0. TypeOK /\ exec[c] \in Execution
  BY ActiveExec DEF ExclusiveInv
<1>1. exec'[c] = [exec[c] EXCEPT !.cron = cron, !.phase = phase]
  BY <1>0 DEF TypeOK
<1>2. exec'[c] \in Execution
  <2>1. [exec[c] EXCEPT !.cron = cron, !.phase = phase] \in Execution
    BY <1>0 DEF Execution
  <2> QED
    BY <1>1, <2>1
<1>3. ASSUME NEW d \in Claims
      PROVE  /\ Active(d)' <=> Active(d)
             /\ Active(d) => /\ exec'[d].id = exec[d].id
                             /\ exec'[d].attempts = exec[d].attempts
                             /\ exec'[d].phase = "retry" =>
                                    exec[d].phase = "retry" \/ AttemptsLeft(d)
  <2>1. CASE d = c
    BY <1>0, <1>1, <1>2, <2>1, ValuesAssumption DEF Execution, Active
  <2>2. CASE d # c
    BY <1>0, <2>2 DEF TypeOK, Active
  <2> QED
    BY <2>1, <2>2
<1> QED
  BY <1>3, ExecutionsInBudget

LEMMA EnterInBudget ==
    ASSUME ExclusiveInv, Budget, NEW c \in Claims, Active(c),
           NEW phase \in Phases, Enter(c, phase), phase = "retry" => AttemptsLeft(c)
    PROVE  Budget'
<1>1. exec[c] \in Execution /\ exec[c].cron \in Crons \union {NoCron} /\ TypeOK
  BY ActiveExec DEF ExclusiveInv
<1>2. [exec[c] EXCEPT !.phase = phase] = [exec[c] EXCEPT !.cron = exec[c].cron, !.phase = phase]
  BY <1>1 DEF Execution
<1>3. exec' = [exec EXCEPT ![c].cron = exec[c].cron, ![c].phase = phase]
  BY <1>1, <1>2 DEF Enter, TypeOK
<1> QED
  BY <1>1, <1>3, PhaseInBudget DEF Enter

LEMMA DecideInBudget ==
    ASSUME ExclusiveInv, Budget, NEW c \in Claims, Active(c),
           NEW withCron \in Phases \ {"retry"}, NEW withoutCron \in Phases \ {"retry"},
           Decide(c, withCron, withoutCron)
    PROVE  Budget'
<1> DEFINE cron == IF Live(exec[c].id) THEN RowOf(c).cron ELSE exec[c].cron
           phase == IF cron = NoCron THEN withoutCron ELSE withCron
<1>1. cron \in Crons \union {NoCron}
  <2>1. Live(exec[c].id) => RowOf(c) \in Row
    BY ActiveExec, LiveRow DEF RowOf, ExclusiveInv
  <2> QED
    BY <2>1, ActiveExec DEF Row, ExclusiveInv
<1>2. phase \in Phases /\ phase # "retry"
  OBVIOUS
<1>3. row' = row /\ exec' = [exec EXCEPT ![c].cron = cron, ![c].phase = phase]
  BY DEF Decide
<1> HIDE DEF cron, phase
<1> QED
  BY <1>1, <1>2, <1>3, PhaseInBudget

LEMMA ExecutingInBudget ==
    ASSUME ExclusiveInv, Budget, NEW c \in Claims, Executing(c)
    PROVE  Budget'
<1>0. TypeOK /\ Active(c)
  BY DEF Executing, NoHandler, CallHandler, SkipRestricted, HandlerReturns,
         HandlerThrows, OnJobSuccess, OnJobFailure, RescheduleJob, DeleteFinished,
         MarkJobFailed, InPhase, ExclusiveInv
<1>1. ASSUME Live(exec[c].id)
      PROVE  /\ exec[c].id \in Ids /\ RowOf(c) \in Row /\ RowOf(c).attempts <= MaxAttempts
             /\ AttemptsLeft(c) <=> RowOf(c).attempts < MaxAttempts
  BY <1>0, <1>1, ActiveExec, LiveRow
     DEF Budget, CountAgrees, RowInBudget, LiveIds, RowOf, AttemptsLeft
\* What the last statements write, delays apart.
<1>2. ASSUME Live(exec[c].id), NEW delay
      PROVE  /\ Rescheduled(RowOf(c), delay).attempts = 0
             /\ Rescheduled(RowOf(c), delay).status = "pending"
             /\ Retried(RowOf(c), delay).attempts = RowOf(c).attempts
             /\ Retried(RowOf(c), delay).status = "pending"
             /\ MarkedFailed(RowOf(c)).attempts = RowOf(c).attempts
             /\ MarkedFailed(RowOf(c)).status = "failed"
  BY <1>1, <1>2 DEF Rescheduled, Retried, MarkedFailed, Row
<1>3. CASE NoHandler(c)
  <2>1. CASE AttemptsLeft(c)
    <3>1. Write(c, Retried(RowOf(c), 1))
      BY <1>3, <2>1 DEF NoHandler
    <3>2. Live(exec[c].id) => /\ Retried(RowOf(c), 1).attempts < MaxAttempts
                              /\ Retried(RowOf(c), 1).attempts <= MaxAttempts
                              /\ Retried(RowOf(c), 1).status # "running"
      BY <1>1, <1>2, <2>1
    <3> QED
      BY <1>0, <3>1, <3>2, WriteInBudget
  <2>2. CASE ~AttemptsLeft(c)
    <3>1. Write(c, MarkedFailed(RowOf(c)))
      BY <1>3, <2>2 DEF NoHandler
    <3>2. Live(exec[c].id) => /\ MarkedFailed(RowOf(c)).attempts <= MaxAttempts
                              /\ MarkedFailed(RowOf(c)).status = "failed"
      BY <1>1, <1>2
    <3> QED
      BY <1>0, <3>1, <3>2, WriteInBudget
  <2> QED
    BY <2>1, <2>2
<1>4. CASE CallHandler(c) \/ SkipRestricted(c) \/ HandlerReturns(c) \/ HandlerThrows(c)
  BY <1>0, <1>4, EnterInBudget
     DEF CallHandler, SkipRestricted, HandlerReturns, HandlerThrows, Phases
<1>5. CASE OnJobSuccess(c)
  BY <1>0, <1>5, DecideInBudget DEF OnJobSuccess, Phases
<1>6. CASE OnJobFailure(c)
  BY <1>0, <1>6, EnterInBudget, DecideInBudget DEF OnJobFailure, Phases
<1>7. CASE RescheduleJob(c)
  <2>1. Write(c, Rescheduled(RowOf(c), exec[c].cron))
    BY <1>7 DEF RescheduleJob
  <2>2. Live(exec[c].id) => /\ Rescheduled(RowOf(c), exec[c].cron).attempts = 0
                            /\ Rescheduled(RowOf(c), exec[c].cron).status # "running"
    BY <1>2
  <2> QED
    BY <1>0, <2>1, <2>2, WriteInBudget, BoundsAssumption
<1>8. CASE DeleteFinished(c)
  BY <1>0, <1>8, WriteInBudget DEF DeleteFinished
<1>9. CASE MarkJobFailed(c)
  <2>1. CASE Write(c, MarkedFailed(RowOf(c)))
    <3>1. Live(exec[c].id) => /\ MarkedFailed(RowOf(c)).attempts <= MaxAttempts
                              /\ MarkedFailed(RowOf(c)).status = "failed"
      BY <1>1, <1>2
    <3> QED
      BY <1>0, <2>1, <3>1, WriteInBudget
  <2>2. CASE InPhase(c, {"retry"}) /\ Write(c, Retried(RowOf(c), Backoff))
    <3>1. AttemptsLeft(c)
      BY <1>0, <2>2 DEF InPhase, Budget, CountAgrees
    <3>2. Live(exec[c].id) => /\ Retried(RowOf(c), Backoff).attempts < MaxAttempts
                              /\ Retried(RowOf(c), Backoff).attempts <= MaxAttempts
                              /\ Retried(RowOf(c), Backoff).status # "running"
      BY <1>1, <1>2, <3>1
    <3> QED
      BY <1>0, <2>2, <3>2, WriteInBudget
  <2> QED
    BY <1>9, <2>1, <2>2 DEF MarkJobFailed
<1> QED
  BY <1>3, <1>4, <1>5, <1>6, <1>7, <1>8, <1>9 DEF Executing

\* As long as nothing failed, every running row is executed by somebody who
\* holds its lease: there is nothing to reclaim.
LEMMA NothingToReclaim ==
    ASSUME ExclusiveInv, Budget, NEW id \in Ids
    PROVE  ~Expired(id)
<1> SUFFICES ASSUME Expired(id) PROVE FALSE
  OBVIOUS
<1>1. PICK c \in Claims : Active(c) /\ exec[c].id = id
  BY DEF Expired, Running, Budget, LiveIds, RowInBudget
<1>2. HoldsLease(c) /\ exec[c].age \in 0..Lease
  BY <1>1, ActiveExec DEF ExclusiveInv, ClaimsHeld
<1> QED
  BY <1>1, <1>2, BoundsAssumption DEF HoldsLease, RowOf, Expired, Running

LEMMA TickInBudget ==
    ASSUME ExclusiveInv, Budget, Tick
    PROVE  Budget'
<1>0. TypeOK
  BY DEF ExclusiveInv
<1>1. ASSUME NEW id \in Ids
      PROVE  /\ Live(id)' <=> Live(id)
             /\ Live(id) => /\ row'[id].attempts = row[id].attempts
                            /\ row'[id].status = row[id].status
  <2>1. CASE ~Live(id)
    BY <2>1 DEF Tick, Live
  <2>2. CASE Live(id)
    <3>1. row[id] \in Row
      BY <1>0, <2>2, LiveRow
    <3>2. PICK runIn, lockAge : row'[id] = [row[id] EXCEPT !.runIn = runIn, !.lockAge = lockAge]
      BY <2>2 DEF Tick
    <3>3. row'[id] \notin {Unused, Gone}
      BY <1>0, <2>2, TickedRow, ValuesAssumption
    <3> QED
      BY <2>2, <3>1, <3>2, <3>3 DEF Live, Row
  <2> QED
    BY <2>1, <2>2
<1>2. ASSUME NEW c \in Claims
      PROVE  /\ Active(c)' <=> Active(c)
             /\ Active(c) => /\ exec'[c].id = exec[c].id /\ exec'[c].phase = exec[c].phase
                             /\ exec'[c].attempts = exec[c].attempts
  <2>1. CASE ~Active(c)
    BY <2>1 DEF Tick, Active
  <2>2. CASE Active(c)
    <3>1. exec[c] \in Execution
      BY <1>0, <2>2, ActiveExec
    <3>2. exec'[c] = [exec[c] EXCEPT !.age = Smaller(exec[c].age + 1, Lease)]
      BY <2>2 DEF Tick
    <3>3. Smaller(exec[c].age + 1, Lease) \in 0..Lease
      BY <3>1, BoundsAssumption DEF Smaller, Execution
    <3>4. exec'[c] \in Execution
      BY <3>1, <3>2, <3>3 DEF Execution
    <3> QED
      BY <2>2, <3>1, <3>2, <3>4, ValuesAssumption DEF Active, Execution
  <2> QED
    BY <2>1, <2>2
<1>3. ASSUME NEW id \in LiveIds' PROVE RowInBudget(id)'
  <2>1. id \in LiveIds /\ RowInBudget(id)
    BY <1>1, <1>3 DEF Budget, LiveIds
  <2> QED
    BY <1>1, <1>2, <2>1 DEF RowInBudget, LiveIds
<1>4. ASSUME NEW c \in Claims, Active(c)' PROVE CountAgrees(c)'
  <2>1. Active(c) /\ CountAgrees(c) /\ exec[c].id \in Ids
    BY <1>0, <1>2, <1>4, ActiveExec DEF Budget
  <2> QED
    BY <1>1, <1>2, <2>1 DEF CountAgrees, RowOf, AttemptsLeft
<1> QED
  BY <1>3, <1>4 DEF Budget

LEMMA BudgetNext ==
    ASSUME BudgetInv, Undisturbed, [Next]_vars
    PROVE  BudgetInv'
<1>1. ExclusiveInv /\ ExclusiveInv'
  BY ExclusiveNext DEF BudgetInv
<1>2. ASSUME faults' = 0 PROVE Budget'
  <2>0. faults \in Nat /\ faults' \in Nat
    BY <1>1, BoundsAssumption DEF ExclusiveInv, TypeOK
  <2>1. CASE UNCHANGED vars
    BY <1>1, <1>2, <2>1, EditsInBudget DEF vars, BudgetInv
  <2>2. CASE Faulty
    <3>1. faults' = faults + 1
      BY <2>2 DEF Faulty, Crash, ClaimFails, SuccessWriteFails, FailureWriteFails, Fault
    <3> QED
      BY <1>2, <2>0, <3>1
  <2>3. CASE Next /\ ~Faulty
    <3>1. faults' = faults
      BY <2>3 DEF Next, Caller, EnqueueOnce, DeleteJob, UpsertSelect, UpsertRefresh,
             UpsertInsert, Claiming, Poll, ClaimNext, StartExecuting, PollDone, Executing,
             NoHandler, CallHandler, SkipRestricted, HandlerReturns, HandlerThrows,
             OnJobSuccess, OnJobFailure, RescheduleJob, DeleteFinished, MarkJobFailed,
             Write, Enter, Decide, Reclaim, Tick
    <3>2. Budget
      BY <1>2, <3>1 DEF BudgetInv
    <3>3. ~Reclaim
      BY <1>1, <3>2, NothingToReclaim DEF Reclaim
    <3> QED
      BY <1>1, <2>3, <3>2, <3>3, CallerInBudget, ClaimingInBudget, ExecutingInBudget,
         TickInBudget DEF Next
  <2> QED
    BY <2>1, <2>2, <2>3
<1> QED
  BY <1>1, <1>2 DEF BudgetInv

\* A job is never claimed more than max_attempts times between two resets of
\* its counter, as long as no process crashed, no statement failed, no handler
\* outlived its lease and no edit reset the row: the two places that decide on
\* another attempt (the retry without a handler and onJobFailure) decide on a
\* count that is still the row's.
THEOREM AttemptsBudgeted ==
    ASSUME Undisturbed
    PROVE  Spec => []RetryBudget
<1>1. Init => BudgetInv
  BY ExclusiveInit DEF Init, BudgetInv, Budget, LiveIds, Live, Active
<1>2. BudgetInv /\ [Next]_vars => BudgetInv'
  BY BudgetNext
<1>3. BudgetInv => RetryBudget
  BY DEF BudgetInv, Budget, RowInBudget, RetryBudget
<1> QED
  BY <1>1, <1>2, <1>3, PTL DEF Spec

(***************************************************************************)
(* Recurring jobs are kept.  The strengthening follows the key: the row of *)
(* a recurring job always has a cron, an execution carries the key of the  *)
(* row it claimed, and none that gives up carries a recurring key.  It     *)
(* holds without any assumption on handlers, edits or faults.              *)
(***************************************************************************)

Recurring(key) == key \in CronKeys /\ \A w \in Workers : key \in Handles[w]

RowKept(id) ==
    /\ row[id].key \in CronKeys => row[id].cron # NoCron
    /\ Recurring(row[id].key) => row[id].status # "failed"

ExecutionKept(c) ==
    /\ row[exec[c].id] # Unused
    /\ Live(exec[c].id) => exec[c].key = RowOf(c).key
    /\ exec[c].key \in CronKeys => exec[c].cron # NoCron
    /\ exec[c].phase = "giveUp" => exec[c].key \notin CronKeys

RowsKept       == \A id \in Ids : Live(id) => RowKept(id)
ExecutionsKept == \A c \in Claims : Active(c) => ExecutionKept(c)
KeptInv        == TypeOK /\ RowsKept /\ ExecutionsKept

LEMMA KeptInit == Init => KeptInv
BY InitTypeOK DEF Init, KeptInv, RowsKept, ExecutionsKept, Active, Live

\* Steps that change rows only: a row in use keeps its key.
LEMMA KeptRows ==
    ASSUME KeptInv, exec' = exec, NEW id \in Ids,
           \A other \in Ids \ {id} : row'[other] = row[other],
           \/ row'[id] = row[id]
           \/ row'[id] = Gone
           \/ row'[id] \in Row /\ RowKept(id)' /\ row[id] = Unused
           \/ row'[id] \in Row /\ RowKept(id)' /\ Live(id) /\ row'[id].key = row[id].key
    PROVE  RowsKept' /\ ExecutionsKept'
<1>1. RowsKept'
  BY DEF KeptInv, RowsKept, RowKept, Live
<1>2. ASSUME NEW c \in Claims, Active(c)' PROVE ExecutionKept(c)'
  <2>1. Active(c) /\ ExecutionKept(c) /\ exec[c].id \in Ids
    BY <1>2, ActiveExec DEF KeptInv, ExecutionsKept, Active
  <2>2. row'[exec[c].id] # Unused
    BY <2>1, ValuesAssumption DEF ExecutionKept
  <2>3. Live(exec[c].id)' => exec[c].key = row'[exec[c].id].key
    BY <2>1, <2>2 DEF ExecutionKept, Live, RowOf
  <2> QED
    BY <2>1, <2>2, <2>3 DEF ExecutionKept, RowOf
<1> QED
  BY <1>1, <1>2 DEF ExecutionsKept

\* Steps that move or end executions and leave the rows alone.
LEMMA KeptExecutions ==
    ASSUME KeptInv, row' = row,
           \A c \in Claims : exec'[c] = Null \/ (Active(c) /\ ExecutionKept(c)')
    PROVE  RowsKept' /\ ExecutionsKept'
BY DEF KeptInv, RowsKept, RowKept, Live, ExecutionsKept, Active

LEMMA KeptWrite ==
    ASSUME KeptInv, NEW c \in Claims, Active(c), NEW new, Write(c, new),
           Live(exec[c].id) =>
               \/ new = Gone
               \/ /\ new \in Row /\ new.key = RowOf(c).key /\ new.cron = RowOf(c).cron
                  /\ Recurring(new.key) => new.status # "failed"
    PROVE  RowsKept' /\ ExecutionsKept'
<1>0. exec[c].id \in Ids
  BY ActiveExec DEF KeptInv
<1>1. ASSUME NEW id \in Ids, Live(id)' PROVE RowKept(id)'
  BY <1>0, <1>1 DEF Write, KeptInv, TypeOK, RowsKept, RowKept, Live, RowOf
<1>2. ASSUME NEW d \in Claims, Active(d)' PROVE ExecutionKept(d)'
  <2>1. exec'[d] = exec[d] /\ Active(d) /\ ExecutionKept(d) /\ exec[d].id \in Ids
    BY <1>2, ActiveExec DEF Write, Active, KeptInv, TypeOK, ExecutionsKept
  <2>2. row'[exec[d].id] # Unused
    BY <2>1, ValuesAssumption DEF Write, ExecutionKept, KeptInv, TypeOK
  <2>3. Live(exec[d].id)' => Live(exec[d].id) /\ row'[exec[d].id].key = row[exec[d].id].key
    BY <1>0, <2>1, <2>2 DEF Write, Live, KeptInv, TypeOK, RowOf, ExecutionKept
  <2> QED
    BY <2>1, <2>2, <2>3 DEF ExecutionKept, RowOf
<1> QED
  BY <1>1, <1>2 DEF RowsKept, ExecutionsKept

LEMMA CallerKept ==
    ASSUME KeptInv, Caller
    PROVE  RowsKept' /\ ExecutionsKept'
<1>0. TypeOK
  BY DEF KeptInv
<1>1. ASSUME NEW key \in OnceKeys, EnqueueOnce(key) PROVE RowsKept' /\ ExecutionsKept'
  <2>1. PICK id \in Ids : /\ row[id] = Unused
                          /\ row' = [row EXCEPT ![id] = NewRow(key, NoCron, "pending", 0)]
    BY <1>1 DEF EnqueueOnce
  <2>2. row'[id] \in Row /\ row'[id].key = key /\ row'[id].status = "pending"
    <3>1. NewRow(key, NoCron, "pending", 0) \in Row
      BY NewRowType DEF Keys
    <3> QED
      BY <1>0, <2>1, <3>1 DEF TypeOK, NewRow
  <2>3. RowKept(id)'
    BY <2>2, InputsAssumption DEF RowKept
  <2>4. \A other \in Ids \ {id} : row'[other] = row[other]
    BY <1>0, <2>1 DEF TypeOK
  <2>5. exec' = exec
    BY <1>1 DEF EnqueueOnce
  <2> QED
    BY <2>1, <2>2, <2>3, <2>4, <2>5, KeptRows
<1>2. ASSUME NEW id \in Ids, DeleteJob(id) PROVE RowsKept' /\ ExecutionsKept'
  <2>1. exec' = exec /\ row'[id] = Gone /\ \A other \in Ids \ {id} : row'[other] = row[other]
    BY <1>0, <1>2 DEF DeleteJob, TypeOK
  <2> QED
    BY <2>1, KeptRows
<1>3. ASSUME NEW key \in CronKeys, NEW cron \in Crons, NEW edit \in Edits,
             UpsertSelect(key, cron, edit)
      PROVE  RowsKept' /\ ExecutionsKept'
  BY <1>3 DEF UpsertSelect, KeptInv, RowsKept, RowKept, Live, ExecutionsKept, Active,
              ExecutionKept, RowOf
<1>4. CASE UpsertRefresh
  <2>0. PICK id \in Ids : id = editor.target
    BY <1>4 DEF UpsertRefresh
  <2>1. exec' = exec
    BY <1>4 DEF UpsertRefresh
  <2>2. editor.cron \in Crons /\ editor.cron # NoCron
    BY <1>0, <1>4, CronsPositive DEF UpsertRefresh, TypeOK, Edit
  <2>3. CASE ~Live(id)
    BY <1>4, <2>0, <2>1, <2>3, KeptRows DEF UpsertRefresh
  <2>4. CASE Live(id)
    <3>1. row[id] \in Row /\ RowKept(id)
      BY <1>0, <2>1, <2>4, LiveRow DEF KeptInv, RowsKept
    <3>2. row' = [row EXCEPT ![id] = [row[id] EXCEPT !.cron = editor.cron]]
      BY <1>4, <2>0, <2>4 DEF UpsertRefresh
    <3>3. row'[id] = [row[id] EXCEPT !.cron = editor.cron]
      BY <1>0, <2>1, <3>2 DEF TypeOK
    <3>4. /\ row'[id] \in Row /\ row'[id].key = row[id].key
          /\ row'[id].status = row[id].status /\ row'[id].cron = editor.cron
      BY <2>2, <3>1, <3>3 DEF Row
    <3>5. RowKept(id)'
      BY <2>2, <3>1, <3>4 DEF RowKept
    <3>6. \A other \in Ids \ {id} : row'[other] = row[other]
      BY <1>0, <2>1, <3>2 DEF TypeOK
    <3> QED
      BY <2>1, <2>4, <3>4, <3>5, <3>6, KeptRows
  <2> QED
    BY <2>3, <2>4
<1>5. CASE UpsertInsert
  <2>1. editor \in Edit /\ editor.key \in Keys /\ editor.cron \in Crons /\ editor.edit \in Edits
    BY <1>0, <1>5 DEF UpsertInsert, TypeOK, Edit, Keys
  <2>2. editor.cron \in Nat /\ editor.cron # NoCron
    BY <2>1, CronsPositive
  <2>3. editor.edit.status \in {"keep", "pending", "paused"}
    <3>1. editor.edit \in [status : {"keep", "pending", "paused"}, reset : BOOLEAN]
      BY <2>1, InputsAssumption
    <3> QED
      BY <3>1
  <2>4. exec' = exec
    BY <1>5 DEF UpsertInsert
  <2>5. ASSUME NEW id \in Holding(editor.key), row' = [row EXCEPT ![id] = Edited(@, editor)]
        PROVE  RowsKept' /\ ExecutionsKept'
    <3>1. id \in Ids /\ Live(id) /\ row[id] \in Row /\ RowKept(id)
      BY <1>0, LiveRow DEF Holding, LiveIds, KeptInv, RowsKept
    <3>2. row'[id] = Edited(row[id], editor)
      BY <1>0, <2>5, <3>1 DEF TypeOK
    <3>3. row'[id] \in Row /\ row'[id].key = row[id].key /\ row'[id].cron = editor.cron
      BY <2>1, <3>1, <3>2, EditedType
    <3>4. row'[id].status \in {row[id].status, "pending", "paused"}
      BY <2>3, <3>1, <3>2 DEF Edited, Row
    <3>5. RowKept(id)'
      BY <2>2, <3>1, <3>3, <3>4 DEF RowKept, Recurring
    <3>6. \A other \in Ids \ {id} : row'[other] = row[other]
      BY <1>0, <2>5, <3>1 DEF TypeOK
    <3> QED
      BY <2>4, <3>1, <3>3, <3>5, <3>6, KeptRows
  <2> DEFINE status == IF editor.edit.status = "keep" THEN "pending" ELSE editor.edit.status
             new    == NewRow(editor.key, editor.cron, status, editor.cron)
  <2>6. ASSUME NEW id \in Ids, row[id] = Unused, row' = [row EXCEPT ![id] = new]
        PROVE  RowsKept' /\ ExecutionsKept'
    <3>1. row'[id] = new
      BY <1>0, <2>6 DEF TypeOK
    <3>2. new \in Row /\ new.status # "failed" /\ new.cron # NoCron
      BY <2>1, <2>2, <2>3, NewRowType DEF NewRow
    <3>3. row'[id] \in Row /\ RowKept(id)'
      BY <3>1, <3>2 DEF RowKept
    <3>4. \A other \in Ids \ {id} : row'[other] = row[other]
      BY <1>0, <2>6 DEF TypeOK
    <3> QED
      BY <2>4, <2>6, <3>3, <3>4, KeptRows
  <2> QED
    BY <1>5, <2>5, <2>6 DEF UpsertInsert
<1> QED
  BY <1>1, <1>2, <1>3, <1>4, <1>5 DEF Caller

LEMMA ClaimingKept ==
    ASSUME KeptInv, NEW w \in Workers, Claiming(w)
    PROVE  RowsKept' /\ ExecutionsKept'
<1>0. TypeOK
  BY DEF KeptInv
<1>1. CASE Poll(w) \/ PollDone(w) \/ UNCHANGED <<row, exec>>
  BY <1>1 DEF Poll, PollDone, KeptInv, RowsKept, RowKept, Live, ExecutionsKept, Active,
              ExecutionKept, RowOf
<1>2. CASE StartExecuting(w)
  <2>1. ASSUME NEW c \in Claims, Active(c) PROVE ExecutionKept(c)'
    <3>1. exec[c] \in Execution /\ ExecutionKept(c)
      BY <1>0, <2>1, ActiveExec DEF KeptInv, ExecutionsKept
    <3>2. exec'[c] \in {exec[c], [exec[c] EXCEPT !.phase = "started"]}
      BY <1>2 DEF StartExecuting
    <3>3. /\ exec'[c].id = exec[c].id /\ exec'[c].key = exec[c].key
          /\ exec'[c].cron = exec[c].cron
          /\ exec'[c].phase \in {exec[c].phase, "started"}
      BY <3>1, <3>2 DEF Execution
    <3>4. row' = row
      BY <1>2 DEF StartExecuting
    <3> QED
      BY <3>1, <3>3, <3>4 DEF ExecutionKept, RowOf, Live
  <2>2. ASSUME NEW c \in Claims, ~Active(c) PROVE exec'[c] = Null
    BY <1>2, <2>2 DEF StartExecuting, OfWorker, Active
  <2>3. row' = row
    BY <1>2 DEF StartExecuting
  <2> QED
    BY <2>1, <2>2, <2>3, KeptExecutions
<1>3. CASE ClaimNext(w) /\ ~UNCHANGED <<row, exec>>
  <2>1. PICK id \in poll[w].todo, c \in Claims :
           /\ Claimable(id)
           /\ row' = [row EXCEPT ![id] = Claimed(row[id], c)]
           /\ exec' = [exec EXCEPT ![c] = ExecutionOf(w, id, Claimed(row[id], c))]
    BY <1>3 DEF ClaimNext
  <2>2. id \in Ids
    <3>1. poll[w] \in [phase : {Idle, "claiming", "executing"}, todo : SUBSET Ids]
      BY <1>0 DEF TypeOK
    <3> QED
      BY <2>1, <3>1
  <2>3. row[id] \in Row /\ RowKept(id) /\ Live(id)
    BY <1>0, <2>1, <2>2, LiveRow DEF Claimable, Pending, KeptInv, RowsKept
  <2>4. /\ row'[id] \in Row /\ row'[id].key = row[id].key /\ row'[id].cron = row[id].cron
        /\ row'[id].status = "running" /\ row'[id] \notin {Unused, Gone}
        /\ \A other \in Ids \ {id} : row'[other] = row[other]
    BY <1>0, <2>1, <2>2, <2>3, ClaimedType, ValuesAssumption DEF TypeOK
  <2>5. /\ exec'[c].id = id /\ exec'[c].key = row[id].key
        /\ exec'[c].cron = row[id].cron /\ exec'[c].phase = "claimed"
    BY <1>0, <2>1, <2>3, ClaimedType DEF TypeOK, ExecutionOf
  <2>6. ASSUME NEW other \in Ids, Live(other)' PROVE RowKept(other)'
    BY <2>3, <2>4, <2>6 DEF KeptInv, RowsKept, RowKept, Live
  <2>7. ASSUME NEW d \in Claims, Active(d)' PROVE ExecutionKept(d)'
    <3>1. CASE d = c
      BY <2>3, <2>4, <2>5, <3>1 DEF ExecutionKept, RowOf, RowKept
    <3>2. CASE d # c
      <4>1. exec'[d] = exec[d] /\ Active(d) /\ ExecutionKept(d) /\ exec[d].id \in Ids
        BY <1>0, <2>1, <2>7, <3>2, ActiveExec DEF Active, TypeOK, KeptInv, ExecutionsKept
      <4> QED
        BY <2>3, <2>4, <4>1 DEF ExecutionKept, RowOf, Live
    <3> QED
      BY <3>1, <3>2
  <2> QED
    BY <2>6, <2>7 DEF RowsKept, ExecutionsKept
<1> QED
  BY <1>1, <1>2, <1>3 DEF Claiming

LEMMA ExecutingKept ==
    ASSUME KeptInv, NEW c \in Claims, Executing(c)
    PROVE  RowsKept' /\ ExecutionsKept'
<1>0. TypeOK /\ Active(c)
  BY DEF Executing, NoHandler, CallHandler, SkipRestricted, HandlerReturns,
         HandlerThrows, OnJobSuccess, OnJobFailure, RescheduleJob, DeleteFinished,
         MarkJobFailed, InPhase, KeptInv
<1>1. /\ exec[c] \in Execution /\ exec[c].id \in Ids /\ ExecutionKept(c)
      /\ exec[c].worker \in Workers
  BY <1>0, ActiveExec DEF KeptInv, ExecutionsKept
<1>2. Live(exec[c].id) => /\ RowOf(c) \in Row /\ RowKept(exec[c].id)
                          /\ exec[c].key = RowOf(c).key
  BY <1>0, <1>1, LiveRow DEF RowOf, KeptInv, RowsKept, ExecutionKept
<1>3. CASE NoHandler(c)
  <2> DEFINE new == IF AttemptsLeft(c) THEN Retried(RowOf(c), 1) ELSE MarkedFailed(RowOf(c))
  <2>1. Live(exec[c].id) => /\ new \in Row /\ new.key = RowOf(c).key
                            /\ new.cron = RowOf(c).cron
    BY <1>2, CompletedType
  <2>2. ~Recurring(exec[c].key)
    BY <1>1, <1>3 DEF NoHandler, HasHandler, Recurring
  <2>3. Write(c, new)
    BY <1>3 DEF NoHandler
  <2> QED
    BY <1>0, <1>2, <2>1, <2>2, <2>3, KeptWrite
<1>4. ASSUME NEW phase \in Phases, Enter(c, phase), phase # "giveUp" \/ exec[c].key \notin CronKeys
      PROVE  RowsKept' /\ ExecutionsKept'
  <2>1. exec' = [exec EXCEPT ![c] = [exec[c] EXCEPT !.phase = phase]] /\ row' = row
    BY <1>4 DEF Enter
  <2>2. /\ exec'[c].id = exec[c].id /\ exec'[c].key = exec[c].key
        /\ exec'[c].cron = exec[c].cron /\ exec'[c].phase = phase
    BY <1>0, <1>1, <2>1 DEF TypeOK, Execution
  <2>3. ASSUME NEW d \in Claims, exec'[d] # Null PROVE Active(d) /\ ExecutionKept(d)'
    <3>1. CASE d = c
      BY <1>0, <1>1, <1>4, <2>1, <2>2, <3>1 DEF ExecutionKept, RowOf, Live
    <3>2. CASE d # c
      BY <1>0, <2>1, <2>3, <3>2
         DEF TypeOK, Active, KeptInv, ExecutionsKept, ExecutionKept, RowOf, Live
    <3> QED
      BY <3>1, <3>2
  <2> QED
    BY <2>1, <2>3, KeptExecutions
<1>5. ASSUME NEW m \in Phases, NEW n \in Phases, m # "giveUp", Decide(c, m, n)
      PROVE  RowsKept' /\ ExecutionsKept'
  <2> DEFINE cron  == IF Live(exec[c].id) THEN RowOf(c).cron ELSE exec[c].cron
             phase == IF cron = NoCron THEN n ELSE m
  <2>1. exec' = [exec EXCEPT ![c].cron = cron, ![c].phase = phase] /\ row' = row
    BY <1>5 DEF Decide
  <2>2. exec[c].key \in CronKeys => cron # NoCron
    BY <1>1, <1>2 DEF ExecutionKept, RowKept, RowOf
  <2>3. phase = "giveUp" => exec[c].key \notin CronKeys
    BY <1>5, <2>2
  <2> HIDE DEF cron, phase
  <2>4. /\ exec'[c].id = exec[c].id /\ exec'[c].key = exec[c].key
        /\ exec'[c].cron = cron /\ exec'[c].phase = phase
    BY <1>0, <1>1, <2>1 DEF TypeOK, Execution
  <2>5. ASSUME NEW d \in Claims, exec'[d] # Null PROVE Active(d) /\ ExecutionKept(d)'
    <3>1. CASE d = c
      BY <1>0, <1>1, <2>1, <2>2, <2>3, <2>4, <3>1 DEF ExecutionKept, RowOf, Live
    <3>2. CASE d # c
      BY <1>0, <2>1, <2>5, <3>2
         DEF TypeOK, Active, KeptInv, ExecutionsKept, ExecutionKept, RowOf, Live
    <3> QED
      BY <3>1, <3>2
  <2> QED
    BY <2>1, <2>5, KeptExecutions
<1>6. CASE RescheduleJob(c)
  <2>1. exec[c].cron \in Nat
    BY <1>0, ActiveExec, CronsPositive DEF NoCron
  <2>2. Live(exec[c].id) =>
           LET new == Rescheduled(RowOf(c), exec[c].cron)
           IN  /\ new \in Row /\ new.key = RowOf(c).key /\ new.cron = RowOf(c).cron
               /\ new.status # "failed"
    BY <1>2, <2>1, CompletedType
  <2> QED
    BY <1>0, <1>6, <2>2, KeptWrite DEF RescheduleJob
<1>7. CASE DeleteFinished(c)
  BY <1>0, <1>7, KeptWrite DEF DeleteFinished
<1>8. CASE MarkJobFailed(c)
  <2>1. CASE InPhase(c, {"giveUp"}) /\ Write(c, MarkedFailed(RowOf(c)))
    <3>1. exec[c].key \notin CronKeys
      BY <1>1, <2>1 DEF InPhase, ExecutionKept
    <3> QED
      BY <1>0, <1>2, <2>1, <3>1, CompletedType, KeptWrite DEF Recurring
  <2>2. CASE InPhase(c, {"retry"}) /\ Write(c, Retried(RowOf(c), Backoff))
    <3>1. Live(exec[c].id) =>
           LET new == Retried(RowOf(c), Backoff)
           IN  /\ new \in Row /\ new.key = RowOf(c).key /\ new.cron = RowOf(c).cron
               /\ new.status # "failed"
      BY <1>2, CompletedType, BoundsAssumption
    <3> QED
      BY <1>0, <2>2, <3>1, KeptWrite
  <2> QED
    BY <1>8, <2>1, <2>2 DEF MarkJobFailed
<1>9. CASE CallHandler(c) \/ SkipRestricted(c) \/ HandlerReturns(c) \/ HandlerThrows(c)
  BY <1>4, <1>9 DEF CallHandler, SkipRestricted, HandlerReturns, HandlerThrows, Phases
<1>10. CASE OnJobSuccess(c) \/ OnJobFailure(c)
  BY <1>4, <1>5, <1>10 DEF OnJobSuccess, OnJobFailure, Phases
<1> QED
  BY <1>3, <1>6, <1>7, <1>8, <1>9, <1>10 DEF Executing

LEMMA ReclaimKept ==
    ASSUME KeptInv, Reclaim
    PROVE  RowsKept' /\ ExecutionsKept'
<1>0. TypeOK
  BY DEF KeptInv
<1>1. ASSUME NEW id \in Ids
      PROVE  \/ row'[id] = row[id]
             \/ /\ Live(id) /\ row'[id] \notin {Unused, Gone} /\ row'[id].key = row[id].key
                /\ row'[id].cron = row[id].cron /\ row'[id].status = "pending"
  <2>1. CASE Expired(id)
    <3>1. row[id] \in Row /\ Live(id)
      BY <1>0, <2>1, LiveRow DEF Expired, Running
    <3>2. row'[id] = [row[id] EXCEPT !.status = "pending", !.lockAge = Null, !.lockedBy = Null]
      BY <2>1 DEF Reclaim
    <3>3. row'[id] \in Row
      BY <3>1, <3>2 DEF Row
    <3> QED
      BY <3>1, <3>2, <3>3, ValuesAssumption DEF Row
  <2> QED
    BY <2>1 DEF Reclaim
<1>2. exec' = exec
  BY DEF Reclaim
<1>3. RowsKept'
  BY <1>1 DEF KeptInv, RowsKept, RowKept, Live
<1>4. ASSUME NEW c \in Claims, Active(c)' PROVE ExecutionKept(c)'
  <2>1. Active(c) /\ ExecutionKept(c) /\ exec[c].id \in Ids
    BY <1>0, <1>2, <1>4, ActiveExec DEF Active, KeptInv, ExecutionsKept
  <2> QED
    BY <1>1, <1>2, <2>1 DEF ExecutionKept, RowOf, Live
<1> QED
  BY <1>3, <1>4 DEF ExecutionsKept

LEMMA TickKept ==
    ASSUME KeptInv, Tick
    PROVE  RowsKept' /\ ExecutionsKept'
<1>0. TypeOK
  BY DEF KeptInv
<1>1. ASSUME NEW id \in Ids
      PROVE  \/ row'[id] = row[id] /\ ~Live(id)
             \/ /\ Live(id) /\ row'[id] \notin {Unused, Gone} /\ row'[id].key = row[id].key
                /\ row'[id].cron = row[id].cron /\ row'[id].status = row[id].status
  <2>1. CASE Live(id)
    <3>1. row[id] \in Row /\ row'[id] \in Row
      BY <1>0, <2>1, LiveRow, TickedRow
    <3>2. PICK runIn, lockAge : row'[id] = [row[id] EXCEPT !.runIn = runIn, !.lockAge = lockAge]
      BY <2>1 DEF Tick
    <3> QED
      BY <2>1, <3>1, <3>2, ValuesAssumption DEF Row
  <2> QED
    BY <2>1 DEF Tick
<1>2. RowsKept'
  BY <1>1 DEF KeptInv, RowsKept, RowKept, Live
<1>3. ASSUME NEW c \in Claims, Active(c)' PROVE ExecutionKept(c)'
  <2>1. Active(c)
    BY <1>3 DEF Active, Tick
  <2>2. exec[c] \in Execution /\ ExecutionKept(c) /\ exec[c].id \in Ids
    BY <1>0, <2>1, ActiveExec DEF KeptInv, ExecutionsKept
  <2>3. PICK age : exec'[c] = [exec[c] EXCEPT !.age = age]
    BY <2>1 DEF Tick
  <2>4. /\ exec'[c].id = exec[c].id /\ exec'[c].key = exec[c].key
        /\ exec'[c].cron = exec[c].cron /\ exec'[c].phase = exec[c].phase
    BY <2>2, <2>3 DEF Execution
  <2> QED
    BY <1>1, <2>2, <2>4 DEF ExecutionKept, RowOf, Live
<1> QED
  BY <1>2, <1>3 DEF ExecutionsKept

LEMMA FaultyKept ==
    ASSUME KeptInv, Faulty
    PROVE  RowsKept' /\ ExecutionsKept'
<1>0. TypeOK
  BY DEF KeptInv
<1>1. row' = row
  BY DEF Faulty, Crash, ClaimFails, SuccessWriteFails, FailureWriteFails
<1>2. ASSUME NEW c \in Claims, exec'[c] # Null PROVE Active(c) /\ ExecutionKept(c)'
  <2>1. CASE \/ \E w \in Workers : Crash(w) \/ ClaimFails(w)
             \/ \E d \in Claims : FailureWriteFails(d)
    BY <1>0, <1>1, <1>2, <2>1
       DEF Crash, ClaimFails, FailureWriteFails, Active, TypeOK, KeptInv, ExecutionsKept,
           ExecutionKept, RowOf, Live
  <2>2. ASSUME NEW d \in Claims, SuccessWriteFails(d)
        PROVE  Active(c) /\ ExecutionKept(c)'
    <3>1. exec[d] \in Execution /\ Active(d) /\ ExecutionKept(d)
      BY <1>0, <2>2, ActiveExec DEF SuccessWriteFails, InPhase, KeptInv, ExecutionsKept
    <3>2. exec' = [exec EXCEPT ![d] = [exec[d] EXCEPT !.phase = "failed"]]
      BY <2>2 DEF SuccessWriteFails
    <3>3. /\ exec'[d].id = exec[d].id /\ exec'[d].key = exec[d].key
          /\ exec'[d].cron = exec[d].cron /\ exec'[d].phase = "failed"
      BY <1>0, <3>1, <3>2 DEF Execution, TypeOK
    <3>4. CASE c = d
      BY <1>1, <3>1, <3>3, <3>4 DEF ExecutionKept, RowOf, Live
    <3>5. CASE c # d
      BY <1>0, <1>1, <1>2, <3>2, <3>5
         DEF Active, TypeOK, KeptInv, ExecutionsKept, ExecutionKept, RowOf, Live
    <3> QED
      BY <3>4, <3>5
  <2> QED
    BY <2>1, <2>2 DEF Faulty
<1> QED
  BY <1>1, <1>2, KeptExecutions

LEMMA KeptNext == KeptInv /\ [Next]_vars => KeptInv'
<1> SUFFICES ASSUME KeptInv, [Next]_vars PROVE KeptInv'
  OBVIOUS
<1>1. TypeOK'
  BY NextTypeOK DEF KeptInv
<1>2. CASE UNCHANGED vars
  BY <1>1, <1>2 DEF vars, KeptInv, RowsKept, RowKept, Live, ExecutionsKept, Active,
                    ExecutionKept, RowOf
<1>3. CASE Next
  BY <1>1, <1>3, CallerKept, ClaimingKept, ExecutingKept, ReclaimKept, TickKept, FaultyKept
     DEF Next, KeptInv
<1> QED
  BY <1>2, <1>3

\* A recurring job that every process has a handler for never ends as failed,
\* whatever crashes, failed statements, slow handlers and edits there are.
THEOREM RecurringKept == Spec => []RecurringNeverDropped
<1>1. KeptInv => RecurringNeverDropped
  BY DEF KeptInv, RowsKept, RowKept, Recurring, RecurringNeverDropped, LiveIds
<1> QED
  BY KeptInit, KeptNext, <1>1, PTL DEF Spec
=============================================================================
