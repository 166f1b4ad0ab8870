---------------------------- MODULE MeteredStreams ----------------------------
(***************************************************************************)
(* The metering of managed model calls (agents/managed-ai.ts) on top of    *)
(* the wallet: what a call and its stream go through, which of their ends  *)
(* is recorded, and what the customer is charged for it.                   *)
(*                                                                         *)
(* The provider, the reader of the stream, its cancellation and the abort  *)
(* signal of the run act on their own; the code between two awaits is one  *)
(* step.  A prompt costs one credit, and so does each streamed delta.      *)
(***************************************************************************)
EXTENDS CreditLedger

CONSTANT MaxChars  \* bound on the deltas of a stream

\* What a stream was estimated to cost is among the costs of a call, and so is nothing.
ASSUME MeteringAssumption == MaxChars \in Nat /\ 0..(MaxChars + 1) \subseteq Charges

VARIABLE stream  \* operation id -> its call as the middleware sees it

mvars == <<vars, stream>>

Stream == [phase    : {"none", "refused", "opening", "open", "closed", "errored", "cancelled", "gone"},
           aborted  : BOOLEAN,             \* abortSignal.aborted
           chars    : 0..MaxChars,         \* streamedChars
           recorded : Nat \union {Null},   \* recording: what the end that came first costs
           caught   : BOOLEAN,             \* is a failure of the recording only logged?
           pulling  : {"no", "chunk", "last", "throw"}]  \* a read that awaits the recording

MTypeOK == TypeOK /\ stream \in [Ops -> Stream]

MInit ==
    /\ Init
    /\ stream = [o \in Ops |-> [phase |-> "none", aborted |-> FALSE, chars |-> 0,
                                recorded |-> Null, caught |-> FALSE, pulling |-> "no"]]

Becomes(o, new) == stream' = [stream EXCEPT ![o] = new]

\* estimateUsage
Estimate(o) == 1 + stream[o].chars

\* Variant: whichever end comes last is recorded.
RecordAgain(o, cost) ==
    IF call[o] = "calling" THEN StartSettling(o, cost)
    ELSE /\ charge' = [charge EXCEPT ![o] = IF call[o] = "settling" THEN cost ELSE @]
         /\ UNCHANGED <<money, call, stale, rowLock, walletLock, sweep, grant, faults>>

\* recordOnce, and recordManagedAiUsage for calls without a stream.
RecordOnce(o, cost) ==
    IF stream[o].recorded = Null THEN StartSettling(o, cost) ELSE UNCHANGED vars

Recorded(o, cost) == [stream[o] EXCEPT !.recorded = IF @ = Null THEN cost ELSE @]

-----------------------------------------------------------------------------
(* The call: wrapGenerate and wrapStream *)

\* prepareCall
Open(o, amount) ==
    /\ Reserve(o, amount)
    /\ Becomes(o, [stream[o] EXCEPT !.phase = IF Covers(OrgOf[o], amount) THEN "opening" ELSE "refused"])

\* doGenerate or doStream throws, and so does the call once that is recorded.
OpenFails(o) ==
    /\ stream[o].phase = "opening" /\ stream[o].pulling = "no"
    /\ RecordOnce(o, 0)
    /\ Becomes(o, [Recorded(o, 0) EXCEPT !.pulling = "throw"])

\* doGenerate returns.
Generated(o, cost) ==
    /\ stream[o].phase = "opening" /\ stream[o].pulling = "no"
    /\ RecordOnce(o, cost)
    /\ Becomes(o, [Recorded(o, cost) EXCEPT !.pulling = "last"])

\* doStream returns: meterStream listens to aborts from now on.
Opened(o) ==
    /\ stream[o].phase = "opening" /\ stream[o].pulling = "no"
    /\ Becomes(o, [stream[o] EXCEPT !.phase = "open"])
    /\ UNCHANGED vars

-----------------------------------------------------------------------------
(* The stream: meterStream *)

MayPull(o) == stream[o].phase = "open" /\ stream[o].pulling = "no"

Delta(o) ==
    /\ MayPull(o)
    /\ stream[o].chars < MaxChars
    /\ Becomes(o, [stream[o] EXCEPT !.chars = @ + 1])
    /\ UNCHANGED vars

\* A read brings the finish chunk, with the usage the provider counted.
Finish(o, cost) ==
    /\ MayPull(o)
    /\ RecordOnce(o, cost)
    /\ Becomes(o, [Recorded(o, cost) EXCEPT !.pulling = "chunk"])

ErrorChunk(o) ==
    /\ MayPull(o)
    /\ RecordOnce(o, 0)
    /\ Becomes(o, [Recorded(o, 0) EXCEPT !.pulling = "chunk"])

\* Variant: a stream that closes is taken to have finished.
EndUnrecorded(o) ==
    /\ MayPull(o)
    /\ Becomes(o, [stream[o] EXCEPT !.phase = "closed"])
    /\ UNCHANGED vars

\* The source closes or throws.
End(o) ==
    LET cost == IF stream[o].aborted THEN Estimate(o) ELSE 0 IN
    /\ MayPull(o)
    /\ RecordOnce(o, cost)
    /\ \E how \in {"last", "throw"} : Becomes(o, [Recorded(o, cost) EXCEPT !.pulling = how])

Settled(o) == call[o] \in {"done", "lost", "crashed"}
Threw(o)   == call[o] \in {"lost", "crashed"} /\ ~stream[o].caught

\* What was read is handed on once the recording is over; the stream fails with it.
PullEnds(o) ==
    /\ stream[o].pulling # "no"
    /\ Settled(o)
    /\ Becomes(o, [stream[o] EXCEPT !.pulling = "no",
                     !.phase = IF Threw(o) \/ stream[o].pulling = "throw" THEN "errored"
                               ELSE IF stream[o].pulling = "last" THEN "closed" ELSE @])
    /\ UNCHANGED vars

\* recordAbort, while somebody listens; an abort that comes before the stream only
\* shows in the signal.
Abort(o) ==
    /\ stream[o].phase \in {"opening", "open"} /\ ~stream[o].aborted
    /\ IF stream[o].phase = "open" /\ stream[o].recorded = Null
       THEN /\ RecordOnce(o, Estimate(o))
            /\ Becomes(o, [Recorded(o, Estimate(o)) EXCEPT !.aborted = TRUE, !.caught = TRUE])
       ELSE /\ Becomes(o, [stream[o] EXCEPT !.aborted = TRUE])
            /\ UNCHANGED vars

\* The reader cancels, whatever it is waiting for.
Cancel(o) ==
    /\ stream[o].phase = "open"
    /\ RecordOnce(o, Estimate(o))
    /\ Becomes(o, [Recorded(o, Estimate(o)) EXCEPT !.phase = "cancelled", !.pulling = "no"])

\* The process dies, with the stream, or the settlement throws.
Lose(o) ==
    /\ CallLost(o)
    /\ \/ Becomes(o, [stream[o] EXCEPT !.phase = "gone", !.pulling = "no"])
       \/ call[o] # "calling" /\ UNCHANGED stream

-----------------------------------------------------------------------------
Costs == Charges \ {0}

Reading(o) ==
    \/ OpenFails(o) \/ Opened(o) \/ \E cost \in Costs : Generated(o, cost) \/ Finish(o, cost)
    \/ Delta(o) \/ ErrorChunk(o) \/ End(o) \/ PullEnds(o)

Metering(o) ==
    \/ \E amount \in Reservations : Open(o, amount)
    \/ Reading(o) \/ Abort(o) \/ Cancel(o) \/ Lose(o)

Booking ==
    \/ \E c \in Credits, org \in Orgs : IssueCredit(c, org)
    \/ \E q \in Granters : Granting(q)
    \/ \E o \in Ops : SettleLock(o) \/ SettleCommit(o) \/ BecomeStale(o)
    \/ \E s \in Sweepers : Sweeping(s)

MNext == (\E o \in Ops : Metering(o)) \/ (Booking /\ UNCHANGED stream)

\* Providers answer, end or fail, and a stream that is not cancelled is read on.
MSpec == MInit /\ [][MNext]_mvars /\ Fairness /\ \A o \in Ops : WF_mvars(Reading(o))

-----------------------------------------------------------------------------
(* Properties *)

\* No call ends unrecorded, and the customer pays for what ended it: what the
\* provider counted when it finished, what had been streamed when it was stopped
\* or cancelled, nothing when it failed; whatever comes after that end, and
\* however late the usage is written.
ChargedAsEnded ==
    /\ MTypeOK
    /\ \A o \in Ops : stream[o].phase \in {"closed", "errored", "cancelled"} => call[o] # "calling"
    /\ \A o \in Ops : usage[o] # Null => usage[o] = stream[o].recorded

\* Every call that reserved credits comes to its settlement, whether it is read to
\* its end, stopped, cancelled or failed, without waiting for the lifecycle job;
\* and what a process took with it or could not settle, the job gives back.
CallsSettle ==
    /\ \A o \in Ops : call[o] = "calling" ~> Settled(o)
    /\ LostReservationsReturn
=============================================================================
