----------------------------- MODULE StripeEvents -----------------------------
(***************************************************************************)
(* The job that processes a stored Stripe event hands it to the handler of *)
(* its type (STRIPE_EVENT_HANDLERS of handlers/stripe-webhook.handler.ts): *)
(* subscription events lead to BillingSync, charge and dispute events to   *)
(* PurchaseMovements.  They share no state, so a behaviour is about one of *)
(* the two, and the state of the other stays as it began.                  *)
(***************************************************************************)
EXTENDS BillingSync, FiniteSets

CONSTANTS Workers, Disputes, Credits, Paid, Disputed

ASSUME PurchaseAssumption ==
    /\ Credits \in Nat \ {0} /\ Paid \in Nat \ {0} /\ Disputed \in 1..Paid
    /\ "refund" \notin Disputes /\ IsFiniteSet(Disputes)

VARIABLES
    concern,   \* what the events are about: a "subscription" or a "payment"
    refunded, dispute, credited, jobs, worker, movement, overlapped, deaths

Purchase == INSTANCE PurchaseMovements WITH faults <- deaths

ASSUME MovementAssumption == Null \notin Purchase!Movement

purchase == <<refunded, dispute, credited, jobs, worker, movement, overlapped, deaths>>
all      == <<concern, vars, purchase>>

EventsInit ==
    /\ concern \in {"subscription", "payment"}
    /\ Init
    /\ Purchase!Init

\* processSubscriptionEvent, processInvoiceEvent, processCheckoutEvent
OfSubscription(A) == concern = "subscription" /\ A /\ UNCHANGED <<concern, purchase>>

\* processRefundEvent, processDisputeEvent
OfPayment(A) == concern = "payment" /\ A /\ UNCHANGED <<concern, vars>>

EventsNext == OfSubscription(Next) \/ OfPayment(Purchase!Next)

\* Jobs that started are carried through, waiting ones are taken, and the
\* lifecycle job runs again every hour.
EventsFairSpec ==
    /\ EventsInit /\ [][EventsNext]_all
    /\ \A s \in Syncs : WF_all(OfSubscription(Step(s)))
    /\ \A w \in Workers : WF_all(OfPayment(Purchase!Step(w)))
    /\ WF_all(OfPayment(\E w \in Workers, g \in Purchase!Groups : Purchase!Take(w, g)))

-----------------------------------------------------------------------------
(* Properties: of the billing row those of BillingSync, and these *)

\* The movements of a purchase are well typed and add up to what its refund and
\* disputes came to last, and never to more than the purchase; once processed,
\* events leave exactly what the payment lost, in whatever order they came,
\* unless two of one refund or dispute were processed at once.
HoldsWhatWasLost == Purchase!TypeOK /\ Purchase!AddsUp /\ Purchase!HoldsWhatWasLost

\* Once Stripe is quiet the row of the organization comes to agree with it, and
\* stays so, whichever reconciliations overlapped or failed before, and no customer
\* keeps a current placeholder next to a paid subscription.
RowCatchesUp == (concern = "subscription" => CatchesUp) /\ PlaceholderEnds

\* Once the purchase is credited the jobs of its refund and its disputes succeed,
\* those that failed because they came before it included.
WorkedOff == Purchase!WorkedOff
=============================================================================
