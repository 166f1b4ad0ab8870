--------------------------- MODULE Automations_proofs ---------------------------
(***************************************************************************)
(* What the rows of an automation keep, for any number of runs, requests,  *)
(* cancellations, job rows and crashes.                                    *)
(*                                                                         *)
(* RowsLinked needs to know where every request is: a job that no          *)
(* automation names is one that its request is about to link, and a        *)
(* request deletes the automation only after the job is gone.              *)
(* HistoryReadable needs to know whose chat a run that is starting will    *)
(* create, and EndsOnce that a run is inserted once.                       *)
(***************************************************************************)
EXTENDS Automations, FiniteSetTheorems, WellFoundedInduction, TLAPS

(***************************************************************************)
(* The numbers of runs, requests and job rows.                             *)
(***************************************************************************)

\* Induction over the subsets of Bounds: the smallest one without a largest
\* number of jobs would have one without the element that is removed.
LEMMA LargestExists ==
    ASSUME NEW b \in Bounds
    PROVE  \E c \in Bounds : \A d \in Bounds : d.jobs <= c.jobs
<1> DEFINE Bounded(T) == \E c \in T : \A d \in T : d.jobs <= c.jobs
           F == {T \in SUBSET Bounds : T # {} /\ ~Bounded(T)}
<1> SUFFICES ASSUME F # {} PROVE FALSE
  OBVIOUS
<1>1. PICK T \in F : \A U \in F : ~(<<U, T>> \in StrictSubsetOrdering(Bounds))
  <2>1. F \subseteq FiniteSubsetsOf(Bounds)
    BY AutomationAssumption, FS_Subset DEF FiniteSubsetsOf
  <2> HIDE DEF F
  <2> QED
    BY <2>1, AutomationAssumption, FS_StrictSubsetOrderingWellFounded, WFMin, Zenon
<1>2. \A d \in T : d.jobs \in Nat
  BY AutomationAssumption
<1>3. PICK t \in T : TRUE
  OBVIOUS
<1>4. T \ {t} \notin F
  BY <1>1, <1>3 DEF StrictSubsetOrdering, OpToRel
<1>5. CASE T \ {t} = {}
  <2>1. \A d \in T : d.jobs <= t.jobs
    BY <1>2, <1>3, <1>5
  <2> QED
    BY <1>3, <2>1
<1>6. CASE Bounded(T \ {t})
  <2>1. PICK c \in T \ {t} : \A d \in T \ {t} : d.jobs <= c.jobs
    BY <1>6
  <2>2. \/ \A d \in T : d.jobs <= c.jobs
        \/ \A d \in T : d.jobs <= t.jobs
    BY <1>2, <1>3, <2>1
  <2> QED
    BY <1>3, <2>1, <2>2
<1> QED
  BY <1>4, <1>5, <1>6

LEMMA JobNumbers ==
    ASSUME NEW b \in Bounds
    PROVE  JobIds \subseteq Nat \ {0} /\ 1..b.jobs \subseteq JobIds
<1> DEFINE S == {d.jobs : d \in Bounds}
<1>1. \E m \in S : \A n \in S : m >= n
  <2>1. PICK c \in Bounds : \A d \in Bounds : d.jobs <= c.jobs
    BY LargestExists
  <2>2. c.jobs \in Nat /\ \A d \in Bounds : d.jobs \in Nat
    BY AutomationAssumption
  <2> QED
    BY <2>1, <2>2
<1>2. Max(S) \in S /\ \A n \in S : Max(S) >= n
  BY <1>1 DEF Max
<1>3. S \subseteq Nat /\ b.jobs \in S
  BY AutomationAssumption
<1>4. JobIds = 1..Max(S)
  BY DEF JobIds
<1>5. Max(S) \in Nat /\ b.jobs \in Nat /\ b.jobs <= Max(S)
  BY <1>2, <1>3
<1> HIDE DEF S
<1>6. PICK m \in Nat : m = Max(S)
  BY <1>5
<1> QED
  BY <1>4, <1>5, <1>6

(***************************************************************************)
(* Typing                                                                  *)
(***************************************************************************)

LEMMA CallTyped ==
    /\ Idle \in RunCall /\ Over \in RunCall /\ Over.phase = "over" /\ Idle.phase = "idle"
    /\ \A n \in JobIds : /\ [Over EXCEPT !.phase = "report", !.job = n] \in RunCall
                         /\ [Over EXCEPT !.phase = "report", !.job = n].phase = "report"
BY DEF Idle, Over, RunCall

\* A run's call moves to another phase, and nothing else of it changes.
LEMMA GoMoves ==
    ASSUME TypeOK, NEW i \in Runs, NEW phase, [worker[i] EXCEPT !.phase = phase] \in RunCall,
           Go(i, phase)
    PROVE  /\ worker' \in [Runs -> RunCall]
           /\ worker'[i].phase = phase /\ worker'[i].owner = worker[i].owner
           /\ \A j \in Runs \ {i} : worker'[j] = worker[j]
<1>1. worker[i] \in RunCall
  BY DEF TypeOK
<1>2. worker'[i] = [worker[i] EXCEPT !.phase = phase]
  BY DEF Go, TypeOK
<1> QED
  BY <1>1, <1>2 DEF Go, TypeOK, RunCall

\* The call is over, or has an outcome to report.
LEMMA EndMoves ==
    ASSUME TypeOK, NEW i \in Runs, End(i)
    PROVE  /\ worker' \in [Runs -> RunCall]
           /\ worker'[i].phase \in {"over", "report"}
           /\ \A j \in Runs \ {i} : worker'[j] = worker[j]
<1>1. worker[i].job \in JobIds \union {Null}
  BY DEF TypeOK, RunCall
<1>2. PICK r \in RunCall : r.phase \in {"over", "report"} /\ worker' = [worker EXCEPT ![i] = r]
  BY <1>1, CallTyped DEF End
<1> QED
  BY <1>2 DEF TypeOK

LEMMA InitTyped == Init => TypeOK
<1> SUFFICES ASSUME Init PROVE TypeOK
  OBVIOUS
<1>1. bound \in Bounds /\ bound.jobs \in Nat \ {0} /\ bound.crashes \in Nat
  BY AutomationAssumption DEF Init
<1>2. 1 \in JobIds
  BY <1>1, JobNumbers
<1>3. PICK scheduled \in BOOLEAN :
         /\ automation = [job |-> IF scheduled THEN 1 ELSE Null, owner |-> "creator"]
         /\ job = IF scheduled THEN [id |-> 1, status |-> "pending"] ELSE Null
         /\ jobs = IF scheduled THEN 1 ELSE 0
  BY DEF Init
<1>4. automation \in AutomationRow /\ job \in JobRow \union {Null} /\ jobs \in JobIds \union {0}
  BY <1>2, <1>3 DEF AutomationRow, JobRow, Owners
<1>5. worker \in [Runs -> RunCall] /\ edit \in [Edits -> Request]
  BY DEF Init, Idle, Answered, RunCall, Request
<1>6. cancel \in [Cancels -> [phase : {"idle", "flip", "over"}, run : Runs \union {Null}]]
  BY DEF Init, Cancelled
<1>7. run \in [Runs -> RunRow \union {Null}] /\ chat \in [Runs -> Owners \union {Null}]
  BY DEF Init
<1>8. crashes \in 0..bound.crashes /\ disturbed \in BOOLEAN /\ handover \subseteq Runs
  <2>1. crashes = 0 /\ disturbed = FALSE /\ handover = {}
    BY DEF Init
  <2>2. crashes \in 0..bound.crashes
    BY <1>1, <2>1
  <2> QED
    BY <2>1, <2>2
<1> QED
  BY <1>1, <1>4, <1>5, <1>6, <1>7, <1>8 DEF TypeOK

LEMMA WrittenTyped ==
    ASSUME TypeOK, NEW i \in Runs, NEW status \in Statuses
    PROVE  /\ Written(i, status) \in RunRow \union {Null}
           /\ Written(i, status) = Null <=> run[i] = Null
           /\ run[i] # Null => Written(i, status).attached = run[i].attached
           /\ run[i] # Null /\ ~Running(i) => Written(i, status).status = run[i].status
<1>1. run[i] \in RunRow \union {Null}
  BY DEF TypeOK
<1>2. CASE Running(i)
  <2>1. run[i] \in RunRow /\ run[i] # Null
    BY <1>1, <1>2 DEF Running
  <2>2. /\ [run[i] EXCEPT !.status = status] \in RunRow
        /\ [run[i] EXCEPT !.status = status].attached = run[i].attached
    BY <2>1 DEF RunRow
  <2> QED
    BY <1>2, <2>1, <2>2, NullAssumption DEF Written
<1>3. CASE ~Running(i)
  BY <1>1, <1>3 DEF Written
<1> QED
  BY <1>2, <1>3

LEMMA StartingTyped ==
    ASSUME TypeOK, NEW i \in Runs, Claim(i) \/ Webhook(i) \/ RunNow(i)
    PROVE  TypeOK'
<1>1. worker[i] \in RunCall
  BY DEF TypeOK
<1>2. CASE Claim(i)
  <2>1. job \in JobRow /\ job.id \in JobIds
    BY <1>2 DEF Claim, TypeOK, JobRow
  <2>2. [job EXCEPT !.status = "running"] \in JobRow
    BY <2>1 DEF JobRow
  <2>3. [Idle EXCEPT !.phase = "start", !.job = job.id] \in RunCall
    BY <2>1 DEF Idle, RunCall
  <2> QED
    BY <1>2, <2>2, <2>3 DEF Claim, TypeOK, history
<1>3. CASE Webhook(i) \/ RunNow(i)
  <2>1. [worker[i] EXCEPT !.phase = "start"] \in RunCall
    BY <1>1 DEF RunCall
  <2> QED
    BY <1>3, <2>1 DEF Webhook, RunNow, TypeOK, rows, history
<1> QED
  BY <1>2, <1>3

LEMMA WorkingTyped ==
    ASSUME TypeOK, NEW i \in Runs, Working(i)
    PROVE  TypeOK'
<1>1. worker[i] \in RunCall
  BY DEF TypeOK
<1>2. ASSUME NEW phase \in {"chat", "agent", "drain"}
      PROVE  [worker[i] EXCEPT !.phase = phase] \in RunCall
  BY <1>1 DEF RunCall
<1>3. ASSUME automation # Null PROVE automation \in AutomationRow /\ automation.owner \in Owners
  BY <1>3 DEF TypeOK, AutomationRow
<1>4. CASE Start(i)
  <2>1. worker' \in [Runs -> RunCall]
    <3>1. CASE End(i)
      BY <3>1, EndMoves
    <3>2. CASE ~End(i)
      <4>1. /\ automation # Null
            /\ worker' = [worker EXCEPT ![i].phase = "insert", ![i].owner = automation.owner]
        BY <1>4, <3>2 DEF Start
      <4>2. [worker[i] EXCEPT !.phase = "insert", !.owner = automation.owner] \in RunCall
        BY <1>1, <1>3, <4>1 DEF RunCall
      <4> QED
        BY <4>1, <4>2 DEF TypeOK
    <3> QED
      BY <3>1, <3>2
  <2> QED
    BY <1>4, <2>1 DEF Start, TypeOK, rows, history
<1>5. CASE Insert(i)
  <2>1. worker' \in [Runs -> RunCall]
    BY <1>2, <1>5, EndMoves, GoMoves DEF Insert
  <2>2. [status |-> "running", attached |-> FALSE] \in RunRow
    BY DEF RunRow, Statuses
  <2> QED
    BY <1>5, <2>1, <2>2 DEF Insert, TypeOK, history
<1>6. CASE CreateChat(i)
  <2>1. worker[i].owner \in Owners \union {Null}
    BY <1>1 DEF RunCall
  <2>2. [worker[i] EXCEPT !.phase = "attach", !.owner = Null] \in RunCall
    BY <1>1 DEF RunCall
  <2> QED
    BY <1>6, <2>1, <2>2 DEF CreateChat, TypeOK, history
<1>7. CASE AttachRunChat(i)
  <2>1. worker' \in [Runs -> RunCall]
    BY <1>2, <1>7, GoMoves DEF AttachRunChat
  <2>2. run[i] \in RunRow \union {Null}
    BY DEF TypeOK
  <2>3. run[i] # Null => [run[i] EXCEPT !.attached = TRUE] \in RunRow
    BY <2>2 DEF RunRow
  <2>4. run' \in [Runs -> RunRow \union {Null}]
    BY <1>7, <2>3 DEF AttachRunChat, TypeOK
  <2> QED
    BY <1>7, <2>1, <2>4 DEF AttachRunChat, TypeOK, history
<1>8. CASE StartAgent(i)
  <2>1. worker' \in [Runs -> RunCall]
    BY <1>2, <1>8, GoMoves DEF StartAgent
  <2> QED
    BY <1>8, <2>1 DEF StartAgent, TypeOK, rows, history
<1>9. CASE RunFails(i)
  <2>1. [worker[i] EXCEPT !.phase = "settle", !.owner = Null, !.failed = TRUE] \in RunCall
    BY <1>1 DEF RunCall
  <2> QED
    BY <1>9, <2>1 DEF RunFails, TypeOK, rows, history
<1>10. CASE Drain(i)
  <2>1. \A failed \in BOOLEAN : [worker[i] EXCEPT !.phase = "settle", !.failed = failed] \in RunCall
    BY <1>1 DEF RunCall
  <2> QED
    BY <1>10, <2>1 DEF Drain, TypeOK, rows, history
<1>11. CASE Settle(i)
  <2>1. worker' \in [Runs -> RunCall]
    BY <1>11, EndMoves DEF Settle
  <2>2. run' \in [Runs -> RunRow \union {Null}]
    <3>1. \A status \in Statuses : Written(i, status) \in RunRow \union {Null}
      BY WrittenTyped
    <3>2. (IF worker[i].failed THEN "failed" ELSE "completed") \in Statuses
      BY DEF Statuses
    <3> QED
      BY <1>11, <3>1, <3>2 DEF Settle, TypeOK
  <2> QED
    BY <1>11, <2>1, <2>2 DEF Settle, TypeOK, history
<1>12. CASE Report(i)
  <2>1. job # Null => job \in JobRow /\ [job EXCEPT !.status = "pending"] \in JobRow
    BY DEF TypeOK, JobRow
  <2> QED
    BY <1>12, <2>1, CallTyped DEF Report, TypeOK, history
<1> QED
  BY <1>4, <1>5, <1>6, <1>7, <1>8, <1>9, <1>10, <1>11, <1>12 DEF Working

LEMMA OthersTyped ==
    ASSUME TypeOK,
           \/ FailStale \/ Reclaim \/ Crash \/ Transfer
           \/ \E k \in Cancels : (\E i \in Runs : CancelRun(k, i)) \/ CancelAutomationRun(k)
    PROVE  TypeOK'
<1>0. bound.crashes \in Nat
  BY AutomationAssumption DEF TypeOK
<1>1. CASE FailStale
  <2>1. \A i \in Runs : Written(i, "failed") \in RunRow \union {Null}
    BY WrittenTyped DEF Statuses
  <2> QED
    BY <1>1, <2>1 DEF FailStale, TypeOK, history
<1>2. CASE Reclaim
  <2>1. [job EXCEPT !.status = "pending"] \in JobRow
    BY <1>2 DEF Reclaim, TypeOK, JobRow
  <2> QED
    BY <1>2, <2>1 DEF Reclaim, TypeOK, history
<1>3. CASE Crash
  <2>1. Answered \in Request /\ Cancelled \in [phase : {"idle", "flip", "over"}, run : Runs \union {Null}]
    BY DEF Answered, Request, Cancelled
  <2>2. crashes' \in 0..bound.crashes
    BY <1>0, <1>3 DEF Crash, TypeOK
  <2> QED
    BY <1>3, <2>1, <2>2, CallTyped DEF Crash, TypeOK, rows
<1>4. CASE Transfer
  <2>1. automation \in AutomationRow
    BY <1>4 DEF Transfer, TypeOK
  <2>2. [automation EXCEPT !.owner = "successor"] \in AutomationRow
    BY <2>1 DEF AutomationRow, Owners
  <2>3. chat' \in [Runs -> Owners \union {Null}]
    BY <1>4 DEF Transfer, HandOver, TypeOK, Owners
  <2>4. handover' \subseteq Runs
    BY <1>4 DEF Transfer
  <2> QED
    BY <1>4, <2>2, <2>3, <2>4 DEF Transfer, TypeOK
<1>5. ASSUME NEW k \in Cancels, NEW i \in Runs, CancelRun(k, i) PROVE TypeOK'
  <2>1. Cancelled \in [phase : {"idle", "flip", "over"}, run : Runs \union {Null}]
    BY DEF Cancelled
  <2>2. [phase |-> "flip", run |-> i] \in [phase : {"idle", "flip", "over"}, run : Runs \union {Null}]
    OBVIOUS
  <2> QED
    BY <1>5, <2>1, <2>2 DEF CancelRun, TypeOK, rows, history
<1>6. ASSUME NEW k \in Cancels, CancelAutomationRun(k) PROVE TypeOK'
  <2>1. Cancelled \in [phase : {"idle", "flip", "over"}, run : Runs \union {Null}]
    BY DEF Cancelled
  <2>2. run' \in [Runs -> RunRow \union {Null}]
    <3>1. \A i \in Runs : Written(i, "cancelled") \in RunRow \union {Null}
      BY WrittenTyped DEF Statuses
    <3> QED
      BY <1>6, <3>1 DEF CancelAutomationRun, TypeOK
  <2> QED
    BY <1>6, <2>1, <2>2 DEF CancelAutomationRun, TypeOK, history
<1> QED
  BY <1>1, <1>2, <1>3, <1>4, <1>5, <1>6

LEMMA EditingTyped ==
    ASSUME TypeOK, NEW e \in Edits, Editing(e)
    PROVE  TypeOK'
<1>0. edit[e] \in Request /\ Answered \in Request
  BY DEF TypeOK, Answered, Request
<1>1. ASSUME NEW phase \in {"link", "verify", "delete", "unlink", "write"}
      PROVE  [edit[e] EXCEPT !.phase = phase] \in Request
  BY <1>0 DEF Request
<1>2. ASSUME NEW phase \in {"refresh", "link", "unjob"}, NEW id \in JobIds
      PROVE  [edit[e] EXCEPT !.phase = phase, !.job = id] \in Request
  BY <1>0 DEF Request
<1>3. job # Null => job \in JobRow /\ job.id \in JobIds
  BY DEF TypeOK, JobRow
<1>4. automation # Null => automation \in AutomationRow /\ automation.job \in JobIds \union {Null}
  BY DEF TypeOK, AutomationRow
<1>5. \A n \in JobIds \union {Null} :
         automation # Null => [automation EXCEPT !.job = n] \in AutomationRow
  BY <1>4 DEF AutomationRow
<1>6. edit[e].job \in JobIds \union {Null}
  BY <1>0 DEF Request
<1>7. ASSUME NEW kind \in {"enable", "pause", "unschedule", "delete"}, BeginEdit(e, kind)
      PROVE  TypeOK'
  <2>1. automation.job \in JobIds \union {Null}
    BY <1>4, <1>7 DEF BeginEdit
  <2>2. PICK r \in Request : edit' = [edit EXCEPT ![e] = r]
    <3>1. CASE kind = "delete"
      <4>1. PICK phase \in {"delete", "unjob"} :
               edit' = [edit EXCEPT ![e] = [kind |-> kind, job |-> automation.job, phase |-> phase]]
        BY <1>7, <3>1 DEF BeginEdit
      <4>2. [kind |-> kind, job |-> automation.job, phase |-> phase] \in Request
        BY <2>1, <4>1 DEF Request
      <4> QED
        BY <4>1, <4>2
    <3>2. CASE kind = "unschedule"
      BY <1>7, <3>2 DEF BeginEdit, Request
    <3>3. CASE kind \notin {"delete", "unschedule"}
      BY <1>7, <3>3 DEF BeginEdit, Request
    <3> QED
      BY <3>1, <3>2, <3>3
  <2> QED
    BY <1>7, <2>2 DEF BeginEdit, TypeOK, rows
<1>8. CASE Select(e)
  BY <1>1, <1>2, <1>3, <1>8 DEF Select, TypeOK, rows, history
<1>9. CASE Refresh(e)
  BY <1>0, <1>1, <1>9 DEF Refresh, EditTo, Answer, TypeOK, rows, history
<1>10. CASE Write(e)
  <2>1. job' \in JobRow /\ jobs' \in JobIds \union {0}
    <3>1. StatusOf(e) \in {"paused", "pending"}
      BY DEF StatusOf
    <3>2. CASE job = Null
      <4>1. jobs + 1 \in JobIds
        <5>1. jobs \in Nat /\ bound.jobs \in Nat /\ 1..bound.jobs \subseteq JobIds /\ jobs < bound.jobs
          BY <1>10, <3>2, JobNumbers, AutomationAssumption DEF TypeOK, Write
        <5> QED
          BY <5>1
      <4> QED
        BY <1>10, <3>1, <3>2, <4>1 DEF Write, JobRow
    <3>3. CASE job # Null
      BY <1>3, <1>10, <3>1, <3>3 DEF Write, JobRow, TypeOK
    <3> QED
      BY <3>2, <3>3
  <2>2. job'.id \in JobIds
    BY <2>1 DEF JobRow
  <2> QED
    BY <1>2, <1>10, <2>1, <2>2 DEF Write, TypeOK, history
<1>11. CASE Link(e)
  BY <1>0, <1>1, <1>5, <1>6, <1>11 DEF Link, EditTo, Answer, TypeOK, history
<1>12. CASE Verify(e)
  BY <1>0, <1>12 DEF Verify, Answer, TypeOK, rows, history
<1>13. CASE Reread(e)
  BY <1>1, <1>2, <1>4, <1>13 DEF Reread, TypeOK, rows, history
<1>14. CASE Unjob(e)
  BY <1>1, <1>5, <1>14 DEF Unjob, EditTo, TypeOK, history
<1>15. CASE Unlink(e)
  BY <1>1, <1>5, <1>15 DEF Unlink, EditTo, TypeOK, history
<1>16. CASE Delete(e)
  BY <1>0, <1>16 DEF Delete, Answer, TypeOK, history
<1> QED
  BY <1>7, <1>8, <1>9, <1>10, <1>11, <1>12, <1>13, <1>14, <1>15, <1>16 DEF Editing

LEMMA NextTyped == TypeOK /\ [Next]_vars => TypeOK'
<1> SUFFICES ASSUME TypeOK, [Next]_vars PROVE TypeOK'
  OBVIOUS
<1>1. CASE UNCHANGED vars
  BY <1>1 DEF vars, TypeOK
<1> QED
  BY <1>1, StartingTyped, WorkingTyped, OthersTyped, EditingTyped DEF Next

(***************************************************************************)
(* Runs and their chats                                                    *)
(***************************************************************************)

\* A run is inserted once, attached once, and goes with its automation.
RunRows(i) ==
    /\ automation = Null => run[i] = Null
    /\ worker[i].phase \in {"idle", "start", "insert"} => run[i] = Null
    /\ worker[i].phase \in {"chat", "attach"} => run[i] = Null \/ ~run[i].attached

\* The owner a call read, or gave its chat to, is still the automation's.
OwnerKept(i) ==
    automation # Null =>
        /\ worker[i].phase \in {"insert", "chat"} => worker[i].owner = automation.owner
        /\ worker[i].phase = "attach" /\ chat[i] # Null => chat[i] = automation.owner
        /\ run[i] # Null /\ run[i].attached /\ chat[i] # Null => chat[i] = automation.owner

RunInv ==
    /\ \A i \in Runs : RunRows(i)
    /\ \A i \in Runs \ handover : OwnerKept(i)

\* A step of one run leaves those of the others as they are.
LEMMA OneRun ==
    ASSUME RunInv, NEW i \in Runs, automation' = automation, handover' = handover,
           \A j \in Runs \ {i} : worker'[j] = worker[j] /\ run'[j] = run[j] /\ chat'[j] = chat[j],
           RunRows(i)', i \notin handover => OwnerKept(i)'
    PROVE  RunInv'
<1>1. ASSUME NEW j \in Runs \ {i} PROVE RunRows(j)' /\ (j \notin handover => OwnerKept(j)')
  BY <1>1 DEF RunInv, RunRows, OwnerKept
<1> QED
  BY <1>1 DEF RunInv

\* A run that only moves on to a phase past the transfer's reach.
LEMMA RunMoves ==
    ASSUME TypeOK, RunInv, NEW i \in Runs, automation' = automation, handover' = handover,
           run' = run, chat' = chat,
           worker'[i].phase \in {"agent", "drain", "settle", "report", "over"},
           \A j \in Runs \ {i} : worker'[j] = worker[j]
    PROVE  RunInv'
<1>1. RunRows(i)' /\ (i \notin handover => OwnerKept(i)')
  BY DEF RunInv, RunRows, OwnerKept
<1> QED
  BY <1>1, OneRun

LEMMA StartingRuns ==
    ASSUME TypeOK, RunInv, NEW i \in Runs, Claim(i) \/ Webhook(i) \/ RunNow(i)
    PROVE  RunInv'
<1>1. worker[i] \in RunCall /\ worker[i].phase = "idle"
  BY DEF TypeOK, Claim, Webhook, RunNow, NextRun, At
<1>2. /\ automation' = automation /\ run' = run /\ chat' = chat /\ handover' = handover
      /\ \A j \in Runs \ {i} : worker'[j] = worker[j]
  BY DEF TypeOK, Claim, Webhook, RunNow, rows, history
<1>3. worker'[i].phase = "start"
  <2>1. CASE Claim(i)
    <3>1. worker'[i] = [Idle EXCEPT !.phase = "start", !.job = job.id]
      BY <2>1 DEF Claim, TypeOK
    <3> QED
      BY <3>1 DEF Idle
  <2>2. CASE Webhook(i) \/ RunNow(i)
    <3>1. worker'[i] = [worker[i] EXCEPT !.phase = "start"]
      BY <2>2 DEF Webhook, RunNow, TypeOK
    <3> QED
      BY <1>1, <3>1 DEF RunCall
  <2> QED
    BY <2>1, <2>2
<1>4. RunRows(i)' /\ (i \notin handover => OwnerKept(i)')
  BY <1>1, <1>2, <1>3 DEF RunInv, RunRows, OwnerKept
<1> QED
  BY <1>2, <1>4, OneRun

LEMMA WorkingRuns ==
    ASSUME TypeOK, RunInv, NEW i \in Runs, Working(i)
    PROVE  RunInv'
<1>0. worker[i] \in RunCall /\ automation' = automation /\ handover' = handover
  BY DEF TypeOK, Working, Start, Insert, CreateChat, AttachRunChat, StartAgent, RunFails, Drain,
         Settle, Report, rows, history
<1>1. ASSUME NEW phase \in {"chat", "agent", "drain"}
      PROVE  [worker[i] EXCEPT !.phase = phase] \in RunCall
  BY <1>0 DEF RunCall
<1>2. CASE Start(i)
  <2>1. CASE End(i)
    BY <1>0, <1>2, <2>1, EndMoves, RunMoves DEF Start, rows
  <2>2. CASE ~End(i)
    <3>1. /\ worker' = [worker EXCEPT ![i] =
                           [worker[i] EXCEPT !.phase = "insert", !.owner = automation.owner]]
          /\ worker[i].phase = "start" /\ run' = run /\ chat' = chat
      BY <1>2, <2>2 DEF Start, At, rows
    <3>2. worker'[i].phase = "insert" /\ worker'[i].owner = automation.owner
      BY <1>0, <3>1 DEF TypeOK, RunCall
    <3>3. \A j \in Runs \ {i} : worker'[j] = worker[j]
      BY <3>1 DEF TypeOK
    <3>4. RunRows(i)' /\ (i \notin handover => OwnerKept(i)')
      BY <1>0, <3>1, <3>2 DEF RunInv, RunRows, OwnerKept
    <3> QED
      BY <1>0, <3>1, <3>3, <3>4, OneRun
  <2> QED
    BY <2>1, <2>2
<1>3. CASE Insert(i)
  <2>1. CASE automation = Null
    BY <1>0, <1>3, <2>1, EndMoves, RunMoves DEF Insert
  <2>2. CASE automation # Null
    <3>1. /\ run' = [run EXCEPT ![i] = [status |-> "running", attached |-> FALSE]]
          /\ Go(i, "chat") /\ worker[i].phase = "insert" /\ chat' = chat
      BY <1>3, <2>2 DEF Insert, At
    <3>2. /\ worker'[i].phase = "chat" /\ worker'[i].owner = worker[i].owner
          /\ \A j \in Runs \ {i} : worker'[j] = worker[j]
      BY <1>1, <3>1, GoMoves
    <3>3. run'[i] = [status |-> "running", attached |-> FALSE]
      BY <3>1 DEF TypeOK
    <3>4. \A j \in Runs \ {i} : run'[j] = run[j]
      BY <3>1 DEF TypeOK
    <3>5. RunRows(i)' /\ (i \notin handover => OwnerKept(i)')
      BY <1>0, <2>2, <3>1, <3>2, <3>3 DEF RunInv, RunRows, OwnerKept
    <3> QED
      BY <1>0, <3>1, <3>2, <3>4, <3>5, OneRun
  <2> QED
    BY <2>1, <2>2
<1>4. CASE CreateChat(i)
  <2>1. /\ worker[i].phase = "chat" /\ run' = run
        /\ chat' = [chat EXCEPT ![i] = worker[i].owner]
        /\ worker' = [worker EXCEPT ![i] = [worker[i] EXCEPT !.phase = "attach", !.owner = Null]]
    BY <1>4 DEF CreateChat, At
  <2>2. worker'[i].phase = "attach" /\ \A j \in Runs \ {i} : worker'[j] = worker[j]
    BY <1>0, <2>1 DEF TypeOK, RunCall
  <2>3. chat'[i] = worker[i].owner /\ \A j \in Runs \ {i} : chat'[j] = chat[j]
    BY <2>1 DEF TypeOK
  <2>4. RunRows(i)' /\ (i \notin handover => OwnerKept(i)')
    BY <1>0, <2>1, <2>2, <2>3 DEF RunInv, RunRows, OwnerKept
  <2> QED
    BY <1>0, <2>1, <2>2, <2>3, <2>4, OneRun
<1>5. CASE AttachRunChat(i)
  <2>1. /\ worker[i].phase = "attach" /\ chat' = chat /\ Go(i, "agent")
        /\ run' = [run EXCEPT ![i] = IF run[i] = Null THEN Null ELSE [run[i] EXCEPT !.attached = TRUE]]
    BY <1>5 DEF AttachRunChat, At
  <2>2. worker'[i].phase = "agent" /\ \A j \in Runs \ {i} : worker'[j] = worker[j]
    BY <1>1, <2>1, GoMoves
  <2>3. /\ run[i] = Null => run'[i] = Null
        /\ \A j \in Runs \ {i} : run'[j] = run[j]
    BY <2>1 DEF TypeOK
  <2>4. RunRows(i)' /\ (i \notin handover => OwnerKept(i)')
    BY <1>0, <2>1, <2>2, <2>3 DEF RunInv, RunRows, OwnerKept
  <2> QED
    BY <1>0, <2>1, <2>2, <2>3, <2>4, OneRun
<1>6. CASE StartAgent(i)
  BY <1>0, <1>1, <1>6, GoMoves, RunMoves DEF StartAgent, rows
<1>7. CASE RunFails(i) \/ Drain(i)
  <2>1. PICK failed :
           worker' = [worker EXCEPT ![i].phase = "settle", ![i].owner = Null, ![i].failed = failed]
           \/ worker' = [worker EXCEPT ![i].phase = "settle", ![i].failed = failed]
    BY <1>7 DEF RunFails, Drain
  <2>2. worker'[i].phase = "settle" /\ \A j \in Runs \ {i} : worker'[j] = worker[j]
    BY <1>0, <2>1 DEF TypeOK, RunCall
  <2> QED
    BY <1>0, <1>7, <2>2, RunMoves DEF RunFails, Drain, rows
<1>8. CASE Settle(i)
  <2>1. PICK status \in Statuses : run' \in {run, [run EXCEPT ![i] = Written(i, status)]}
    BY <1>8 DEF Settle, Statuses
  <2>2. /\ worker'[i].phase \in {"over", "report"}
        /\ \A j \in Runs \ {i} : worker'[j] = worker[j] /\ run'[j] = run[j] /\ chat'[j] = chat[j]
    BY <1>8, <2>1, EndMoves DEF Settle, TypeOK
  <2>3. /\ run'[i] = Null <=> run[i] = Null
        /\ run[i] # Null => run'[i].attached = run[i].attached
    BY <2>1, WrittenTyped DEF TypeOK
  <2>4. RunRows(i)' /\ (i \notin handover => OwnerKept(i)')
    BY <1>0, <1>8, <2>2, <2>3 DEF Settle, RunInv, RunRows, OwnerKept
  <2> QED
    BY <1>0, <2>2, <2>4, OneRun
<1>9. CASE Report(i)
  <2>1. worker'[i].phase = "over" /\ \A j \in Runs \ {i} : worker'[j] = worker[j]
    BY <1>9, CallTyped DEF Report, TypeOK
  <2> QED
    BY <1>0, <1>9, <2>1, RunMoves DEF Report
<1> QED
  BY <1>2, <1>3, <1>4, <1>5, <1>6, <1>7, <1>8, <1>9 DEF Working

\* Steps that leave a run where it is, but for the status it has.
LEMMA RunsStay ==
    ASSUME RunInv, chat' = chat, worker' = worker, handover' = handover,
           automation' = Null <=> automation = Null,
           automation # Null => automation'.owner = automation.owner,
           \A i \in Runs : /\ run'[i] = Null <=> run[i] = Null
                           /\ run[i] # Null => run'[i].attached = run[i].attached
    PROVE  RunInv'
BY DEF RunInv, RunRows, OwnerKept

LEMMA OthersRuns ==
    ASSUME TypeOK, RunInv,
           \/ FailStale \/ Reclaim \/ Crash \/ Transfer
           \/ \E k \in Cancels : (\E i \in Runs : CancelRun(k, i)) \/ CancelAutomationRun(k)
    PROVE  RunInv'
<1>1. CASE FailStale
  <2>1. \A i \in Runs : /\ run'[i] = Null <=> run[i] = Null
                        /\ run[i] # Null => run'[i].attached = run[i].attached
    BY <1>1, WrittenTyped DEF FailStale, Statuses
  <2> QED
    BY <1>1, <2>1, RunsStay DEF FailStale, history
<1>2. CASE Reclaim
  BY <1>2, RunsStay DEF Reclaim, history
<1>3. CASE Crash
  <2>1. ASSUME NEW i \in Runs
        PROVE  \/ worker'[i].phase = "over"
               \/ worker'[i].phase = "idle" /\ worker[i].phase = "idle"
    BY <1>3, CallTyped DEF Crash, At
  <2>2. automation' = automation /\ run' = run /\ chat' = chat /\ handover' = handover
    BY <1>3 DEF Crash, rows
  <2>3. ASSUME NEW i \in Runs PROVE RunRows(i)' /\ (i \notin handover => OwnerKept(i)')
    BY <2>1, <2>2, <2>3 DEF RunInv, RunRows, OwnerKept
  <2> QED
    BY <2>2, <2>3 DEF RunInv
<1>4. CASE Transfer
  <2>1. /\ automation \in AutomationRow /\ automation # Null
        /\ automation' = [automation EXCEPT !.owner = "successor"]
        /\ run' = run /\ worker' = worker
    BY <1>4 DEF Transfer, TypeOK
  <2>2. automation'.owner = "successor"
    BY <2>1 DEF AutomationRow
  <2>3. automation' # Null
    <3>1. automation' \in AutomationRow
      BY <2>1 DEF AutomationRow, Owners
    <3> QED
      BY <3>1, NullAssumption
  <2>4. ASSUME NEW i \in Runs PROVE RunRows(i)'
    BY <2>1, <2>3, <2>4 DEF RunInv, RunRows
  <2>5. ASSUME NEW i \in Runs \ handover' PROVE OwnerKept(i)'
    <3>1. worker[i].phase \notin {"insert", "chat", "attach"}
      BY <1>4, <2>5 DEF Transfer, At
    <3>2. run[i] # Null /\ run[i].attached /\ chat'[i] # Null => chat'[i] = "successor"
      BY <1>4, <2>5 DEF Transfer, HandOver
    <3> QED
      BY <2>1, <2>2, <3>1, <3>2 DEF OwnerKept
  <2> QED
    BY <2>4, <2>5 DEF RunInv
<1>5. ASSUME NEW k \in Cancels, NEW i \in Runs, CancelRun(k, i) PROVE RunInv'
  BY <1>5, RunsStay DEF CancelRun, rows, history
<1>6. ASSUME NEW k \in Cancels, CancelAutomationRun(k) PROVE RunInv'
  <2>1. \A i \in Runs : /\ run'[i] = Null <=> run[i] = Null
                        /\ run[i] # Null => run'[i].attached = run[i].attached
    BY <1>6, WrittenTyped DEF CancelAutomationRun, Statuses, TypeOK
  <2> QED
    BY <1>6, <2>1, RunsStay DEF CancelAutomationRun, history
<1> QED
  BY <1>1, <1>2, <1>3, <1>4, <1>5, <1>6

\* A request changes which job an automation names, or deletes it with its runs.
LEMMA EditingRuns ==
    ASSUME TypeOK, RunInv, NEW e \in Edits, Editing(e)
    PROVE  RunInv'
<1>1. CASE Delete(e)
  <2>1. automation' = Null /\ (\A i \in Runs : run'[i] = Null) /\ worker' = worker
    BY <1>1 DEF Delete
  <2> QED
    BY <2>1 DEF RunInv, RunRows, OwnerKept
<1>2. CASE ~Delete(e)
  <2>1. run' = run /\ chat' = chat /\ worker' = worker /\ handover' = handover
    BY <1>2 DEF Editing, BeginEdit, Select, Refresh, Write, Link, Verify, Reread, Unjob, Unlink,
       rows, history
  <2>2. \/ automation' = automation
        \/ \E n \in JobIds \union {Null} :
              automation # Null /\ automation' = [automation EXCEPT !.job = n]
    <3>1. edit[e].job \in JobIds \union {Null}
      BY DEF TypeOK, Request
    <3> QED
      BY <1>2, <3>1 DEF Editing, BeginEdit, Select, Refresh, Write, Link, Verify, Reread, Unjob,
         Unlink, rows
  <2>3. /\ automation' = Null <=> automation = Null
        /\ automation # Null => automation'.owner = automation.owner
    <3>1. CASE automation' = automation
      BY <3>1
    <3>2. CASE automation' # automation
      <4>1. PICK n \in JobIds \union {Null} :
               automation # Null /\ automation' = [automation EXCEPT !.job = n]
        BY <2>2, <3>2
      <4>2. automation \in AutomationRow
        BY <4>1 DEF TypeOK
      <4>3. automation' \in AutomationRow /\ automation'.owner = automation.owner
        BY <4>1, <4>2 DEF AutomationRow
      <4> QED
        BY <4>1, <4>3, NullAssumption
    <3> QED
      BY <3>1, <3>2
  <2> QED
    BY <2>1, <2>3, RunsStay
<1> QED
  BY <1>1, <1>2

LEMMA NextRuns ==
    ASSUME TypeOK, RunInv, [Next]_vars
    PROVE  RunInv'
<1>1. CASE UNCHANGED vars
  BY <1>1, RunsStay DEF vars
<1> QED
  BY <1>1, StartingRuns, WorkingRuns, OthersRuns, EditingRuns DEF Next

LEMMA RunInvariant == Spec => [](TypeOK /\ RunInv)
<1>1. Init => RunInv
  <2>1. Init => \A i \in Runs : run[i] = Null /\ worker[i].phase = "idle"
    BY CallTyped DEF Init
  <2> QED
    BY <2>1 DEF RunInv, RunRows, OwnerKept
<1>2. TypeOK /\ RunInv /\ [Next]_vars => (TypeOK /\ RunInv)'
  BY NextTyped, NextRuns
<1> QED
  BY InitTyped, <1>1, <1>2, PTL DEF Spec

\* A transfer gives the chats of all earlier runs to the new owner, whatever is
\* running, being scheduled, cancelled or deleted meanwhile, and later runs create
\* theirs for the owner the automation has; the exception is a run that was between
\* reading the owner and attaching its chat when the transfer was made.
THEOREM OwnersReadHistory == Spec => []HistoryReadable
<1>1. RunInv => HistoryReadable
  BY DEF RunInv, RunRows, OwnerKept, HistoryReadable
<1> QED
  BY <1>1, RunInvariant, PTL

\* The first outcome of a run stands: the settling call, a cancellation and the
\* sweep of stale runs write a row only while it says running, and no run is
\* inserted twice.
THEOREM RunsEndOnce == Spec => EndsOnce
<1>1. ASSUME TypeOK, RunInv, [Next]_vars
      PROVE  [\A i \in Runs : (run[i] # Null /\ ~Running(i) /\ run'[i] # Null)
                                 => run'[i].status = run[i].status]_vars
  <2> SUFFICES ASSUME Next, NEW i \in Runs, run[i] # Null, ~Running(i), run'[i] # Null
               PROVE  run'[i].status = run[i].status
    BY <1>1 DEF vars
  <2>1. \A status \in Statuses : Written(i, status) = run[i]
    BY DEF Written
  <2>2. ASSUME NEW j \in Runs, Working(j) PROVE run'[i].status = run[i].status
    <3>1. CASE Insert(j)
      <4>1. run[j] = Null
        BY <1>1, <3>1 DEF Insert, At, RunInv, RunRows
      <4> QED
        BY <1>1, <3>1, <4>1 DEF Insert, TypeOK
    <3>2. CASE AttachRunChat(j)
      <4>1. run[i] \in RunRow
        BY <1>1 DEF TypeOK
      <4>2. run'[i] \in {run[i], [run[i] EXCEPT !.attached = TRUE]}
        BY <1>1, <3>2 DEF AttachRunChat, TypeOK
      <4> QED
        BY <4>1, <4>2 DEF RunRow
    <3>3. CASE Settle(j)
      BY <1>1, <2>1, <3>3 DEF Settle, TypeOK, Statuses
    <3>4. CASE run' = run
      BY <3>4
    <3> QED
      BY <2>2, <3>1, <3>2, <3>3, <3>4
         DEF Working, Start, CreateChat, StartAgent, RunFails, Drain, Report, rows
  <2>3. CASE FailStale
    BY <2>1, <2>3 DEF FailStale, Statuses
  <2>4. ASSUME NEW k \in Cancels, CancelAutomationRun(k) PROVE run'[i].status = run[i].status
    BY <1>1, <2>1, <2>4 DEF CancelAutomationRun, TypeOK, Statuses
  <2>5. ASSUME NEW e \in Edits, Editing(e) PROVE run' = run \/ run'[i] = Null
    BY <2>5 DEF Editing, BeginEdit, Select, Refresh, Write, Link, Verify, Reread, Unjob, Unlink,
       Delete, rows
  <2>6. CASE run' = run
    BY <2>6
  <2> QED
    BY <2>2, <2>3, <2>4, <2>5, <2>6
       DEF Next, Claim, Webhook, RunNow, CancelRun, Transfer, Reclaim, Crash, rows
<1>2. TypeOK /\ RunInv /\ [Next]_vars
         => [\A i \in Runs : (run[i] # Null /\ ~Running(i) /\ run'[i] # Null)
                                => run'[i].status = run[i].status]_vars
  BY <1>1
<1> QED
  BY <1>2, RunInvariant, PTL DEF Spec, EndsOnce

(***************************************************************************)
(* The job and its automation                                              *)
(***************************************************************************)

\* The foreign key: an automation names a job that is there.
LinkIntact ==
    automation # Null /\ automation.job # Null => job # Null /\ job.id = automation.job

\* What a request relies on when no other one overlaps with it.
ReliesOn(e) ==
    /\ edit[e].phase \in {"select", "refresh", "write", "link", "reread"} => automation # Null
    /\ edit[e].phase = "link" => job # Null /\ job.id = edit[e].job
    /\ edit[e].phase = "unjob" => /\ automation # Null
                                  /\ edit[e].job # Null /\ automation.job = edit[e].job
    /\ edit[e].phase \in {"unlink", "delete"} => job = Null

InTurn ==
    /\ \A e, f \in Edits : ~Quiet(e) /\ ~Quiet(f) => e = f
    /\ \A e \in Edits : ReliesOn(e)
    /\ job = Null \/ Scheduled \/ \E e \in Edits : edit[e].phase = "link"

LinkInv == LinkIntact /\ (~disturbed => InTurn)

\* The row of the job may change its status, and the automation its owner.
LEMMA LinksStay ==
    ASSUME LinkInv, edit' = edit, disturbed' = disturbed,
           job' = Null <=> job = Null,
           job # Null => job'.id = job.id,
           automation' = Null <=> automation = Null,
           automation # Null => automation'.job = automation.job
    PROVE  LinkInv'
<1>1. LinkIntact'
  BY DEF LinkInv, LinkIntact
<1>2. Scheduled' <=> Scheduled
  BY DEF Scheduled
<1>3. ~disturbed => InTurn'
  BY <1>2 DEF LinkInv, InTurn, ReliesOn, Quiet
<1> QED
  BY <1>1, <1>3 DEF LinkInv

LEMMA JobRowKept ==
    ASSUME job \in JobRow, NEW status \in {"pending", "running", "paused"}
    PROVE  /\ [job EXCEPT !.status = status] # Null
           /\ [job EXCEPT !.status = status].id = job.id
BY NullAssumption DEF JobRow

LEMMA RunsLinks ==
    ASSUME TypeOK, LinkInv,
           \/ \E i \in Runs : Claim(i) \/ Webhook(i) \/ RunNow(i) \/ Working(i)
           \/ FailStale \/ Reclaim \/ Transfer
           \/ \E k \in Cancels : (\E i \in Runs : CancelRun(k, i)) \/ CancelAutomationRun(k)
    PROVE  LinkInv'
<1>1. edit' = edit /\ disturbed' = disturbed
  BY DEF Claim, Webhook, RunNow, Working, Start, Insert, CreateChat, AttachRunChat, StartAgent,
     RunFails, Drain, Settle, Report, FailStale, Reclaim, Transfer, CancelRun,
     CancelAutomationRun, rows, history
<1>2. job' = job \/ (job # Null /\ \E status \in {"pending", "running"} :
                                      job' = [job EXCEPT !.status = status])
  BY DEF Claim, Webhook, RunNow, Working, Start, Insert, CreateChat, AttachRunChat, StartAgent,
     RunFails, Drain, Settle, Report, FailStale, Reclaim, Transfer, CancelRun,
     CancelAutomationRun, rows, history
<1>3. (job' = Null <=> job = Null) /\ (job # Null => job'.id = job.id)
  BY <1>2, JobRowKept DEF TypeOK
<1>4. \/ automation' = automation
      \/ automation # Null /\ automation' = [automation EXCEPT !.owner = "successor"]
  BY DEF Claim, Webhook, RunNow, Working, Start, Insert, CreateChat, AttachRunChat, StartAgent,
     RunFails, Drain, Settle, Report, FailStale, Reclaim, Transfer, CancelRun,
     CancelAutomationRun, rows, history
<1>5. /\ automation' = Null <=> automation = Null
      /\ automation # Null => automation'.job = automation.job
  <2>1. CASE automation' = automation
    BY <2>1
  <2>2. CASE automation' # automation
    <3>1. automation \in AutomationRow
      BY <1>4, <2>2 DEF TypeOK
    <3>2. automation' \in AutomationRow /\ automation'.job = automation.job
      BY <1>4, <2>2, <3>1 DEF AutomationRow, Owners
    <3> QED
      BY <1>4, <2>2, <3>2, NullAssumption
  <2> QED
    BY <2>1, <2>2
<1> QED
  BY <1>1, <1>3, <1>5, LinksStay

LEMMA CrashLinks ==
    ASSUME TypeOK, LinkInv, Crash
    PROVE  LinkInv'
<1>1. automation' = automation /\ job' = job
  BY DEF Crash, rows
<1>2. ASSUME ~disturbed' PROVE InTurn'
  <2>1. ~disturbed /\ \A e \in Edits : Quiet(e)
    BY <1>2 DEF Crash
  <2>2. ASSUME NEW e \in Edits PROVE edit'[e].phase \in {"idle", "over"}
    BY DEF Crash, InEdit, Answered
  <2>3. job = Null \/ Scheduled
    BY <2>1 DEF LinkInv, InTurn, Quiet
  <2> QED
    BY <1>1, <2>2, <2>3 DEF InTurn, ReliesOn, Quiet, Scheduled
<1> QED
  BY <1>1, <1>2 DEF LinkInv, LinkIntact

\* The step of a request when no other one is under way: only its own place
\* has to be right afterwards.
LEMMA Alone ==
    ASSUME TypeOK, LinkInv, NEW e \in Edits, ~Quiet(e), disturbed' = disturbed,
           \A f \in Edits \ {e} : edit'[f] = edit[f],
           LinkIntact',
           ~disturbed => /\ ReliesOn(e)'
                         /\ job' = Null \/ Scheduled' \/ edit'[e].phase = "link"
    PROVE  LinkInv'
<1>1. ASSUME ~disturbed PROVE InTurn'
  <2>1. \A f \in Edits \ {e} : Quiet(f) /\ edit'[f] = edit[f]
    BY <1>1 DEF LinkInv, InTurn
  <2>2. \A f \in Edits \ {e} : Quiet(f)' /\ ReliesOn(f)'
    BY <2>1 DEF Quiet, ReliesOn
  <2> QED
    BY <1>1, <2>2 DEF InTurn
<1> QED
  BY <1>1 DEF LinkInv

LEMMA BeginLinks ==
    ASSUME TypeOK, LinkInv, NEW e \in Edits,
           NEW kind \in {"enable", "pause", "unschedule", "delete"}, BeginEdit(e, kind)
    PROVE  LinkInv'
<1>1. automation' = automation /\ job' = job /\ automation # Null
  BY DEF BeginEdit, rows
<1>2. ASSUME ~disturbed' PROVE InTurn'
  <2>1. ~disturbed /\ \A f \in Edits : Quiet(f)
    BY <1>2 DEF BeginEdit
  <2>2. job = Null \/ Scheduled
    BY <2>1 DEF LinkInv, InTurn, Quiet
  <2>3. \A f \in Edits \ {e} : edit'[f] = edit[f]
    BY DEF BeginEdit, TypeOK
  <2>4. edit'[e] = CASE kind = "delete" -> [kind |-> kind, job |-> automation.job,
                                     phase |-> IF automation.job = Null THEN "delete" ELSE "unjob"]
                     [] kind = "unschedule" -> [kind |-> kind, job |-> Null, phase |-> "reread"]
                     [] OTHER -> [kind |-> kind, job |-> Null, phase |-> "select"]
    BY DEF BeginEdit, TypeOK
  <2>5. ReliesOn(e)'
    <3>1. CASE kind = "delete"
      <4>1. CASE automation.job = Null
        <5>1. edit'[e].phase = "delete"
          BY <2>4, <3>1, <4>1
        <5>2. job = Null
          BY <1>1, <2>2, <4>1, NullAssumption DEF Scheduled, TypeOK, JobRow, JobIds
        <5> QED
          BY <1>1, <5>1, <5>2 DEF ReliesOn
      <4>2. CASE automation.job # Null
        <5>1. edit'[e].phase = "unjob" /\ edit'[e].job = automation.job
          BY <2>4, <3>1, <4>2
        <5> QED
          BY <1>1, <4>2, <5>1 DEF ReliesOn
      <4> QED
        BY <4>1, <4>2
    <3>2. CASE kind # "delete"
      <4>1. edit'[e].phase \in {"reread", "select"}
        BY <2>4, <3>2
      <4> QED
        BY <1>1, <4>1 DEF ReliesOn
    <3> QED
      BY <3>1, <3>2
  <2>6. ASSUME NEW f \in Edits \ {e} PROVE Quiet(f)' /\ ReliesOn(f)'
    BY <2>1, <2>3 DEF Quiet, ReliesOn
  <2> QED
    BY <1>1, <2>2, <2>5, <2>6 DEF InTurn, Scheduled
<1> QED
  BY <1>1, <1>2 DEF LinkInv, LinkIntact

LEMMA EditingLinks ==
    ASSUME TypeOK, LinkInv, NEW e \in Edits, Editing(e)
    PROVE  LinkInv'
<1>0. edit[e] \in Request
  BY DEF TypeOK
<1>1. ASSUME NEW kind \in {"enable", "pause", "unschedule", "delete"}, BeginEdit(e, kind)
      PROVE  LinkInv'
  BY <1>1, BeginLinks
<1> SUFFICES ASSUME ~\E kind \in {"enable", "pause", "unschedule", "delete"} : BeginEdit(e, kind)
             PROVE  LinkInv'
  BY <1>1
<1>2. /\ ~Quiet(e) /\ disturbed' = disturbed
      /\ \A f \in Edits \ {e} : edit'[f] = edit[f]
  BY DEF Editing, Select, Refresh, Write, Link, Verify, Reread, Unjob, Unlink, Delete, InEdit,
     Quiet, EditTo, Answer, TypeOK, rows, history
<1>3. ASSUME NEW phase PROVE EditTo(e, phase) => edit'[e].phase = phase /\ edit'[e].job = edit[e].job
  BY <1>0 DEF EditTo, TypeOK, Request
<1>4. Answer(e) => edit'[e].phase = "over"
  BY DEF Answer, Answered, TypeOK
\* A request that only reads, when it goes on to a phase that relies on nothing
\* but the automation, or answers.
<1>5. ASSUME job' = job, automation' = automation, edit[e].phase # "link",
             \/ edit'[e].phase \in {"verify", "over"}
             \/ edit'[e].phase \in {"write", "refresh"} /\ edit[e].phase = "select"
      PROVE  LinkInv'
  <2>1. ~disturbed => /\ ReliesOn(e)
                      /\ \A f \in Edits : edit[f].phase = "link" => f = e
                      /\ job = Null \/ Scheduled
    BY <1>2, <1>5 DEF LinkInv, InTurn, Quiet
  <2> QED
    BY <1>2, <1>5, <2>1, Alone DEF LinkInv, LinkIntact, ReliesOn, Scheduled
<1>6. CASE Select(e)
  <2>1. edit'[e].phase \in {"write", "refresh"} /\ edit[e].phase = "select"
    BY <1>0, <1>6 DEF Select, InEdit, TypeOK, Request
  <2> QED
    BY <1>5, <1>6, <2>1 DEF Select, rows
<1>7. CASE Refresh(e)
  <2>1. CASE job # Null /\ job.id = edit[e].job
    <3>1. edit'[e].phase = "link" /\ edit'[e].job = edit[e].job
      BY <1>3, <1>7, <2>1 DEF Refresh
    <3>2. job' = job /\ automation' = automation /\ edit[e].phase = "refresh"
      BY <1>7 DEF Refresh, InEdit, rows
    <3>3. ~disturbed => ReliesOn(e)'
      BY <2>1, <3>1, <3>2 DEF LinkInv, InTurn, ReliesOn
    <3> QED
      BY <1>2, <3>1, <3>2, <3>3, Alone DEF LinkInv, LinkIntact
  <2>2. CASE ~(job # Null /\ job.id = edit[e].job)
    BY <1>4, <1>5, <1>7, <2>2 DEF Refresh, InEdit, rows
  <2> QED
    BY <2>1, <2>2
<1>8. CASE Write(e)
  <2>1. /\ edit' = [edit EXCEPT ![e].phase = "link", ![e].job = job'.id]
        /\ automation' = automation /\ edit[e].phase = "write"
    BY <1>8 DEF Write, InEdit
  <2>2. edit'[e].phase = "link" /\ edit'[e].job = job'.id
    BY <1>0, <2>1 DEF TypeOK, Request
  <2>3. job' # Null /\ (job # Null => job'.id = job.id)
    <3>1. CASE job = Null
      <4>1. TypeOK'
        BY NextTyped DEF Next
      <4>2. job' = [id |-> jobs + 1, status |-> StatusOf(e)] /\ job' \in JobRow \union {Null}
        BY <1>8, <3>1, <4>1 DEF Write, TypeOK
      <4>3. jobs + 1 \in JobIds /\ StatusOf(e) \in {"paused", "pending"}
        <5>1. /\ jobs \in Nat /\ bound.jobs \in Nat /\ 1..bound.jobs \subseteq JobIds
              /\ jobs < bound.jobs
          BY <1>8, <3>1, JobNumbers, AutomationAssumption DEF TypeOK, Write
        <5> QED
          BY <5>1 DEF StatusOf
      <4>4. job' \in JobRow
        BY <4>2, <4>3 DEF JobRow
      <4> QED
        BY <3>1, <4>4, NullAssumption
    <3>2. CASE job # Null
      <4>1. job \in JobRow /\ job' = [job EXCEPT !.status = StatusOf(e)]
            /\ StatusOf(e) \in {"paused", "pending"}
        BY <1>8, <3>2 DEF Write, TypeOK, StatusOf
      <4> QED
        BY <4>1, JobRowKept
    <3> QED
      BY <3>1, <3>2
  <2>4. LinkIntact'
    BY <2>1, <2>3 DEF LinkInv, LinkIntact
  <2>5. ~disturbed => ReliesOn(e)'
    BY <2>1, <2>2, <2>3 DEF LinkInv, InTurn, ReliesOn
  <2> QED
    BY <1>2, <2>2, <2>4, <2>5, Alone
<1>9. CASE Link(e)
  <2>0. job' = job /\ edit[e].phase = "link"
    BY <1>9 DEF Link, InEdit
  <2>1. CASE automation # Null /\ job # Null /\ job.id = edit[e].job
    <3>1. automation' = [automation EXCEPT !.job = edit[e].job] /\ edit'[e].phase = "verify"
      BY <1>3, <1>9, <2>1 DEF Link
    <3>2. automation \in AutomationRow /\ edit[e].job \in JobIds \union {Null}
      BY <1>0, <2>1 DEF TypeOK, Request
    <3>3. automation' # Null /\ automation'.job = job'.id
      <4>1. automation' \in AutomationRow /\ automation'.job = edit[e].job
        BY <3>1, <3>2 DEF AutomationRow
      <4> QED
        BY <2>0, <2>1, <4>1, NullAssumption
    <3>4. LinkIntact' /\ Scheduled' /\ ReliesOn(e)'
      BY <2>0, <2>1, <3>1, <3>3 DEF LinkIntact, Scheduled, ReliesOn
    <3> QED
      BY <1>2, <3>4, Alone
  <2>2. CASE ~(automation # Null /\ job # Null /\ job.id = edit[e].job)
    <3>1. automation' = automation
      BY <1>9, <2>2 DEF Link
    <3>2. disturbed
      BY <2>0, <2>2 DEF LinkInv, InTurn, ReliesOn
    <3> QED
      BY <1>2, <2>0, <3>1, <3>2, Alone DEF LinkInv, LinkIntact
  <2> QED
    BY <2>1, <2>2
<1>10. CASE Verify(e)
  BY <1>4, <1>5, <1>10 DEF Verify, InEdit, rows
<1>11. CASE Reread(e)
  <2>1. job' = job /\ automation' = automation /\ edit[e].phase = "reread"
    BY <1>11 DEF Reread, InEdit, rows
  <2>2. CASE automation # Null /\ automation.job # Null
    <3>1. edit'[e].phase = "unjob" /\ edit'[e].job = automation.job
      BY <1>0, <1>11, <2>2 DEF Reread, TypeOK, Request
    <3>2. ReliesOn(e)' /\ LinkIntact'
      BY <2>1, <2>2, <3>1 DEF ReliesOn, LinkInv, LinkIntact
    <3>3. ~disturbed => job = Null \/ Scheduled
      BY <1>2, <2>1 DEF LinkInv, InTurn, Quiet
    <3> QED
      BY <1>2, <2>1, <3>2, <3>3, Alone DEF Scheduled
  <2>3. CASE ~(automation # Null /\ automation.job # Null)
    <3>1. edit'[e].phase = "verify"
      BY <1>0, <1>11, <2>3 DEF Reread, TypeOK, Request
    <3> QED
      BY <1>5, <2>1, <3>1
  <2> QED
    BY <2>2, <2>3
<1>12. CASE Unjob(e)
  <2>0. edit[e].phase = "unjob" /\ edit'[e].phase \in {"delete", "unlink"}
    BY <1>3, <1>12 DEF Unjob, InEdit
  <2>1. /\ job' = IF job # Null /\ job.id = edit[e].job THEN Null ELSE job
        /\ automation' = IF automation # Null /\ automation.job = edit[e].job
                         THEN [automation EXCEPT !.job = Null] ELSE automation
    BY <1>12 DEF Unjob
  <2>2. LinkIntact'
    <3>1. CASE automation # Null /\ automation.job = edit[e].job
      <4>1. automation \in AutomationRow /\ automation' = [automation EXCEPT !.job = Null]
        BY <2>1, <3>1 DEF TypeOK
      <4> QED
        BY <4>1 DEF LinkIntact, AutomationRow
    <3>2. CASE ~(automation # Null /\ automation.job = edit[e].job)
      BY <2>1, <3>2 DEF LinkInv, LinkIntact
    <3> QED
      BY <3>1, <3>2
  <2>3. ~disturbed => job' = Null
    BY <2>0, <2>1 DEF LinkInv, LinkIntact, InTurn, ReliesOn
  <2>4. ~disturbed => ReliesOn(e)'
    BY <2>0, <2>3 DEF ReliesOn
  <2> QED
    BY <1>2, <2>2, <2>3, <2>4, Alone
<1>13. CASE Unlink(e)
  <2>1. /\ edit[e].phase = "unlink" /\ edit'[e].phase = "verify" /\ job' = job
        /\ automation' = IF automation = Null THEN Null ELSE [automation EXCEPT !.job = Null]
    BY <1>3, <1>13 DEF Unlink, InEdit
  <2>2. LinkIntact'
    BY <2>1 DEF LinkIntact, TypeOK, AutomationRow
  <2>3. ~disturbed => job' = Null
    BY <2>1 DEF LinkInv, InTurn, ReliesOn
  <2>4. ReliesOn(e)'
    BY <2>1 DEF ReliesOn
  <2> QED
    BY <1>2, <2>2, <2>3, <2>4, Alone
<1>14. CASE Delete(e)
  <2>1. edit[e].phase = "delete" /\ edit'[e].phase = "over" /\ job' = job /\ automation' = Null
    BY <1>4, <1>14 DEF Delete, InEdit
  <2>2. LinkIntact' /\ ReliesOn(e)' /\ (~disturbed => job' = Null)
    BY <2>1 DEF LinkInv, InTurn, LinkIntact, ReliesOn
  <2> QED
    BY <1>2, <2>2, Alone
<1> QED
  BY <1>6, <1>7, <1>8, <1>9, <1>10, <1>11, <1>12, <1>13, <1>14 DEF Editing

LEMMA NextLinks ==
    ASSUME TypeOK, LinkInv, [Next]_vars
    PROVE  LinkInv'
<1>1. CASE UNCHANGED vars
  BY <1>1, LinksStay DEF vars
<1>2. CASE Next
  BY <1>2, RunsLinks, CrashLinks, EditingLinks DEF Next
<1> QED
  BY <1>1, <1>2

LEMMA InitLinks == Init => LinkInv
<1> SUFFICES ASSUME Init PROVE LinkInv
  OBVIOUS
<1>1. PICK scheduled \in BOOLEAN :
         /\ automation = [job |-> IF scheduled THEN 1 ELSE Null, owner |-> "creator"]
         /\ job = IF scheduled THEN [id |-> 1, status |-> "pending"] ELSE Null
  BY DEF Init
<1>2. automation # Null /\ (job # Null => scheduled)
  <2>1. TypeOK
    BY InitTyped
  <2>2. automation \in AutomationRow
    <3>1. 1 \in JobIds
      <4>1. bound \in Bounds /\ bound.jobs \in Nat \ {0}
        BY AutomationAssumption DEF Init
      <4> QED
        BY <4>1, JobNumbers
    <3> QED
      BY <1>1, <3>1 DEF AutomationRow, Owners
  <2> QED
    BY <1>1, <2>2, NullAssumption
<1>3. LinkIntact /\ (job = Null \/ Scheduled)
  <2>1. CASE scheduled
    <3>1. automation.job = 1 /\ job.id = 1 /\ job # Null
      <4>1. job = [id |-> 1, status |-> "pending"]
        BY <1>1, <2>1
      <4>2. 1 \in JobIds
        <5>1. bound \in Bounds /\ bound.jobs \in Nat \ {0}
          BY AutomationAssumption DEF Init
        <5> QED
          BY <5>1, JobNumbers
      <4>3. job \in JobRow
        BY <4>1, <4>2 DEF JobRow
      <4> QED
        BY <1>1, <2>1, <4>1, <4>3, NullAssumption
    <3> QED
      BY <1>2, <3>1 DEF LinkIntact, Scheduled
  <2>2. CASE ~scheduled
    BY <1>1, <2>2 DEF LinkIntact
  <2> QED
    BY <2>1, <2>2
<1>4. \A e \in Edits : edit[e].phase = "idle"
  BY DEF Init, Answered
<1> QED
  BY <1>3, <1>4 DEF LinkInv, InTurn, ReliesOn, Quiet

\* While the requests are answered one after the other and none is cut short,
\* there is no job but the one its automation names, however its executions,
\* their reports and the reclaiming of stale ones interleave with them: no job
\* goes on firing for an automation that is deleted or has no schedule any more.
THEOREM JobsLinked == Spec => []RowsLinked
<1>1. TypeOK /\ LinkInv /\ [Next]_vars => (TypeOK /\ LinkInv)'
  BY NextTyped, NextLinks
<1>2. TypeOK /\ LinkInv => RowsLinked
  BY DEF LinkInv, InTurn, Quiet, RowsLinked, JobIsLinked
<1> QED
  BY InitTyped, InitLinks, <1>1, <1>2, PTL DEF Spec
=============================================================================
