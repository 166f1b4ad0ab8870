--------------------------- MODULE PurchaseMovements ---------------------------
(***************************************************************************)
(* What happens to bought credits when the payment is refunded or          *)
(* disputed: the webhook jobs of handlers/stripe-webhook.handler.ts read   *)
(* the charge or the dispute from Stripe, and set the movement of that     *)
(* refund or dispute on the purchase (setCreditPurchaseMovement and        *)
(* calculatePurchaseMovementDelta in queries/credit-ledger.queries.ts).    *)
(*                                                                         *)
(* One purchase.  Each change at Stripe is an event, which the webhook     *)
(* route stores once and enqueues as a job; a job that fails is run again. *)
(* The movement is one transaction that locks the wallet first.            *)
(***************************************************************************)
EXTENDS Integers, FiniteSets, FiniteSetsExt

CONSTANTS
    Workers,     \* executions of the processing job that may overlap
    Disputes,    \* disputes of the payment
    Credits,     \* walletAmountMicroUsd of the purchase
    Paid,        \* amount of the charge
    Disputed,    \* amount of each dispute
    MaxFaults,   \* bound on the executions that die
    Null

\* The statuses a dispute goes through; "none": not opened.
Withdrawn == {"needs_response", "under_review", "lost"}
DisputeStatuses == Withdrawn \union {"none", "won"}

Groups == {"refund"} \union Disputes

VARIABLES
    refunded,   \* charge.amount_refunded at Stripe
    dispute,    \* the status of each dispute at Stripe
    credited,   \* has the purchase been credited?
    jobs,       \* of each refund or dispute, the jobs that wait
    worker,     \* each execution: what it processes, and the key of what it read
    movement,   \* credit_ledger: idempotency key -> movement, or Null
    overlapped, \* refunds and disputes two jobs were processed of at once (history)
    faults

vars == <<refunded, dispute, credited, jobs, worker, movement, overlapped, faults>>
atStripe == <<refunded, dispute>>

\* The idempotency key names the amount refunded, or the status of the dispute.
Keys == ({"refund"} \X (1..Paid)) \union (Disputes \X (DisputeStatuses \ {"none"}))

Movement == [target : -Credits..0, delta : -Credits..Credits, seq : Nat]

TypeOK ==
    /\ refunded \in 0..Paid
    /\ dispute \in [Disputes -> DisputeStatuses]
    /\ credited \in BOOLEAN
    /\ jobs \in [Groups -> Nat]
    /\ worker \in [Workers -> [phase : {"idle", "reading", "read", "marking"},
                               group : Groups, key : Keys \union {Null}]]
    /\ movement \in [Keys -> Movement \union {Null}]
    /\ overlapped \subseteq Groups
    /\ faults \in 0..MaxFaults

Idle == [phase |-> "idle", group |-> "refund", key |-> Null]

Init ==
    /\ refunded = 0
    /\ dispute = [d \in Disputes |-> "none"]
    /\ credited = FALSE
    /\ jobs = [g \in Groups |-> 0]
    /\ worker = [w \in Workers |-> Idle]
    /\ movement = [k \in Keys |-> Null]
    /\ overlapped = {}
    /\ faults = 0

-----------------------------------------------------------------------------
(* Stripe *)

Event(g) == jobs' = [jobs EXCEPT ![g] = @ + 1]

Refund ==
    /\ refunded' \in (refunded + 1)..Paid
    /\ Event("refund")
    /\ UNCHANGED <<dispute, credited, worker, movement, overlapped, faults>>

Follows(from) ==
    CASE from = "none"           -> {"needs_response"}
      [] from = "needs_response" -> {"under_review", "won", "lost"}
      [] from = "under_review"   -> {"won", "lost"}
      [] OTHER                   -> {}

Contest(d) ==
    /\ \E status \in Follows(dispute[d]) : dispute' = [dispute EXCEPT ![d] = status]
    /\ Event(d)
    /\ UNCHANGED <<refunded, credited, worker, movement, overlapped, faults>>

\* The checkout event, or the success page, credits the purchase.
Credit ==
    /\ ~credited
    /\ credited' = TRUE
    /\ UNCHANGED <<atStripe, jobs, worker, movement, overlapped, faults>>

-----------------------------------------------------------------------------
(* Processing an event *)

Busy(w, g) == worker[w].phase # "idle" /\ worker[w].group = g

\* Executions that are idle are alike; the next one is the one that takes the job.
NextWorker == CHOOSE w \in Workers : worker[w].phase = "idle"

Take(w, g) ==
    /\ worker[w].phase = "idle"
    /\ w = NextWorker
    /\ jobs[g] > 0
    /\ jobs' = [jobs EXCEPT ![g] = @ - 1]
    /\ worker' = [worker EXCEPT ![w] = [phase |-> "reading", group |-> g, key |-> Null]]
    /\ overlapped' = IF \E v \in Workers : Busy(v, g) THEN overlapped \union {g} ELSE overlapped
    /\ UNCHANGED <<atStripe, credited, movement, faults>>

\* What Stripe says of a refund or a dispute.
AtStripe(g) == IF g = "refund" THEN <<g, refunded>> ELSE <<g, dispute[g]>>

\* getStripeCharge, getStripeDispute
Read(w) ==
    LET g == worker[w].group IN
    /\ worker[w].phase = "reading"
    /\ worker' = [worker EXCEPT ![w].phase = "read",
                                ![w].key = AtStripe(g)]
    /\ UNCHANGED <<atStripe, credited, jobs, movement, overlapped, faults>>

\* Variant: an event of a purchase that is not credited is acknowledged.
WaitsForCreditNever == FALSE

\* getCreditPurchaseForClawback throws until the purchase is credited.
WaitsForCredit == ~credited

\* The job goes back to wait.  The code does so for ten attempts, here there is no
\* limit: the purchase may be credited after any number of them.
Retry(w) ==
    /\ worker' = [worker EXCEPT ![w] = Idle]
    /\ Event(worker[w].group)

NotCredited(w) ==
    /\ worker[w].phase = "read"
    /\ WaitsForCredit
    /\ Retry(w)
    /\ UNCHANGED <<atStripe, credited, movement, overlapped, faults>>

Share(amount) ==
    LET credit == (Credits * amount) \div Paid IN IF credit < Credits THEN credit ELSE Credits

\* targetDeltaMicroUsd of a refund or a dispute.
Target(key) ==
    IF key[1] = "refund" THEN -Share(key[2])
    ELSE IF key[2] \in Withdrawn THEN -Share(Disputed) ELSE 0

Moved(m)    == {k \in Keys : m[k] # Null}
Total(m)    == MapThenSumSet(LAMBDA k : m[k].delta, Moved(m))
Of(m, g)    == {k \in Moved(m) : k[1] = g}

\* The target of a group is the one recorded last.
Recorded(m, g) ==
    m[CHOOSE k \in Of(m, g) : \A j \in Of(m, g) : m[k].seq >= m[j].seq].target

\* The targets of all groups, with the one being set.
Desired(g, target) ==
    MapThenSumSet(LAMBDA h : IF h = g THEN target ELSE Recorded(movement, h),
                  {h \in Groups : h = g \/ Of(movement, h) # {}})

\* A purchase loses no more than it brought.
Bounded(sum) == IF sum < -Credits THEN -Credits ELSE sum

SetMovement(g, key) ==
    movement' = [movement EXCEPT ![key] =
                   [target |-> Target(key),
                    delta  |-> Bounded(Desired(g, Target(key))) - Total(movement),
                    seq    |-> Cardinality(Moved(movement)) + 1]]

\* Variant: a key that is taken is an error, and the job is tried again.
ApplyOnce(w) ==
    LET g   == worker[w].group
        key == worker[w].key IN
    /\ worker[w].phase = "read"
    /\ ~WaitsForCredit
    /\ IF movement[key] # Null
       THEN Retry(w) /\ UNCHANGED movement
       ELSE /\ SetMovement(g, key)
            /\ worker' = [worker EXCEPT ![w].phase = "marking", ![w].key = Null]
            /\ UNCHANGED jobs
    /\ UNCHANGED <<atStripe, credited, overlapped, faults>>

\* setCreditPurchaseMovement: nothing is appended under a key that is taken,
\* and a payment without a purchase has no movements.
Apply(w) ==
    LET g   == worker[w].group
        key == worker[w].key IN
    /\ worker[w].phase = "read"
    /\ ~WaitsForCredit
    /\ worker' = [worker EXCEPT ![w].phase = "marking", ![w].key = Null]
    /\ IF ~credited \/ movement[key] # Null THEN UNCHANGED movement ELSE SetMovement(g, key)
    /\ UNCHANGED <<atStripe, credited, jobs, overlapped, faults>>

\* markStripeWebhookEventProcessed
Mark(w) ==
    /\ worker[w].phase = "marking"
    /\ worker' = [worker EXCEPT ![w] = Idle]
    /\ UNCHANGED <<atStripe, credited, jobs, movement, overlapped, faults>>

\* The process dies, or a request fails: the job is run again.
Die(w) ==
    /\ worker[w].phase # "idle"
    /\ faults < MaxFaults
    /\ faults' = faults + 1
    /\ Retry(w)
    /\ UNCHANGED <<atStripe, credited, movement, overlapped>>

Step(w) == Read(w) \/ NotCredited(w) \/ Apply(w) \/ Mark(w)

Next ==
    \/ Refund \/ Credit
    \/ \E d \in Disputes : Contest(d)
    \/ \E w \in Workers : (\E g \in Groups : Take(w, g)) \/ Step(w) \/ Die(w)

Spec == Init /\ [][Next]_vars

-----------------------------------------------------------------------------
(* Properties *)

\* The movements of a purchase add up to what its refund and disputes came to
\* last, and never to more than the purchase: a dispute that is won gives back
\* what the refund does not hold.
AddsUp ==
    Total(movement) =
        LET sum == MapThenSumSet(LAMBDA g : Recorded(movement, g),
                                 {g \in Groups : Of(movement, g) # {}})
        IN  IF sum < -Credits THEN -Credits ELSE sum

Quiet == /\ \A g \in Groups : jobs[g] = 0
         /\ \A w \in Workers : worker[w].phase = "idle"

\* What Stripe says the payment lost.
Lost == MapThenSumSet(LAMBDA g : Target(AtStripe(g)), Groups)

\* When every event is processed, and no two of one refund or dispute were at
\* once, the purchase holds exactly the credits that are refunded or withdrawn at
\* that time, whatever the order of the events, the retries and the credit.
HoldsWhatWasLost ==
    Quiet /\ overlapped = {} =>
        Total(movement) = IF Lost < -Credits THEN -Credits ELSE Lost

\* Events that came before the credit of their purchase are worked off after it.
WorkedOff == credited ~> Quiet
=============================================================================
