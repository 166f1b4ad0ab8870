------------------------------ MODULE BillingSync ------------------------------
(***************************************************************************)
(* How the billing row of an organization follows its Stripe customer      *)
(* (services/billing-reconciliation.service.ts): each reconciliation       *)
(* claims the row with a token, lists the customer's subscriptions, and    *)
(* writes what it selected unless a later one has claimed the row.  Once   *)
(* a paid subscription is shown, the placeholder of the trial is canceled, *)
(* after its trial end has been carried over.                              *)
(*                                                                         *)
(* Reconciliations are run by webhook jobs and admins, and every hour by   *)
(* the billing lifecycle job, which also provisions the placeholder.  The  *)
(* customer, attached to the organization, has at most one placeholder and *)
(* one paid subscription.  Stripe changes between any two steps.           *)
(***************************************************************************)
EXTENDS Naturals

CONSTANTS
    Once,         \* reconciliations of webhook jobs and admins, retried when they fail
    Hourly,       \* the billing lifecycle job
    MaxEnd,       \* bound: trial ends are 1..MaxEnd
    MaxChanges,   \* bound on the changes at Stripe that we did not make
    MaxFaults,    \* bound on reconciliations that fail
    Null

Syncs == Once \union {Hourly}

ASSUME BillingAssumption ==
    /\ MaxEnd \in Nat \ {0} /\ MaxChanges \in Nat /\ MaxFaults \in Nat
    /\ Hourly \notin Once /\ Null \notin Syncs

VARIABLES
    placeholder,  \* the trial placeholder at Stripe
    paid,         \* the paid subscription at Stripe
    carried,      \* trial ends updateCloudPaidSubscriptionTrialEnd was called with
    removed,      \* has a reconciliation canceled the placeholder? (history)
    clock,        \* changes at Stripe so far (history)
    changes,      \* of those, the ones not made by us
    row,          \* organization_billing
    sync,         \* each reconciliation
    faults

stripe == <<placeholder, paid, carried, removed, clock, changes>>
vars   == <<placeholder, paid, carried, removed, clock, changes, row, sync, faults>>

Statuses == {"none", "trialing", "active", "canceled"}
Subscription == [status : Statuses, end : 0..MaxEnd]
Absent == [status |-> "none", end |-> 0]
Current(s) == s.status \in {"trialing", "active"}

Phases == {"idle", "provisioning", "claiming", "listing", "listed", "ready", "canceling", "done"}

TypeOK ==
    /\ placeholder \in Subscription
    /\ paid \in Subscription
    /\ carried \subseteq 1..MaxEnd
    /\ removed \in BOOLEAN
    /\ clock \in Nat
    /\ changes \in 0..MaxChanges
    /\ row \in [token : Syncs \union {Null}, shows : {"none", "placeholder", "paid"},
                status : Statuses \ {"none"}, end : 1..MaxEnd, asOf : Nat]
    /\ sync \in [Syncs -> [phase : Phases, end : 0..MaxEnd,
                           placeholder : Subscription, paid : Subscription, asOf : Nat]]
    /\ faults \in 0..MaxFaults

\* The trial was started with the setup grant; its Stripe side is provisioned later.
Init ==
    /\ placeholder = Absent /\ paid = Absent
    /\ carried = {} /\ removed = FALSE
    /\ clock = 0 /\ changes = 0
    /\ row = [token |-> Null, shows |-> "none", status |-> "trialing", end |-> 1, asOf |-> 0]
    /\ sync = [s \in Syncs |-> [phase |-> "idle", end |-> 0, placeholder |-> Absent,
                                paid |-> Absent, asOf |-> 0]]
    /\ faults = 0

-----------------------------------------------------------------------------
(* The customer, and time, at Stripe *)

Change ==
    /\ changes < MaxChanges
    /\ changes' = changes + 1
    /\ clock' = clock + 1
    /\ UNCHANGED <<carried, removed, row, sync, faults>>

\* A checkout session is paid; it was created for a trial end the row showed.
Subscribe ==
    /\ paid = Absent
    /\ Change
    /\ paid' \in [status : {"trialing"}, end : 1..row.end]
                   \union {[status |-> "active", end |-> 0]}
    /\ UNCHANGED placeholder

\* The trial is extended in the Stripe dashboard.
Extend ==
    /\ placeholder.status = "trialing" /\ placeholder.end < MaxEnd
    /\ Change
    /\ placeholder' = [placeholder EXCEPT !.end = @ + 1]
    /\ UNCHANGED paid

PaidMoves ==
    /\ Current(paid)
    /\ Change
    /\ paid' \in {[paid EXCEPT !.status = st] : st \in {"active", "canceled"} \ {paid.status}}
    /\ UNCHANGED placeholder

\* The trial is over: the placeholder has a cancel_at and no payment method.
TrialOver ==
    /\ placeholder.status = "trialing"
    /\ Change
    /\ placeholder' = [placeholder EXCEPT !.status = "canceled"]
    /\ UNCHANGED paid

-----------------------------------------------------------------------------
(* Reconciliations *)

At(s, phase) == sync[s].phase = phase
Go(s, phase) == sync' = [sync EXCEPT ![s].phase = phase]

\* runCloudBillingLifecycle provisions a trial that has no Stripe subscription
\* yet; provisionCloudTrial reads the row again.
Start(s) ==
    /\ At(s, "idle")
    /\ IF s = Hourly /\ row.status = "trialing" /\ row.shows = "none"
       THEN sync' = [sync EXCEPT ![s].phase = "provisioning", ![s].end = row.end]
       ELSE Go(s, "claiming")
    /\ UNCHANGED <<stripe, row, faults>>

\* Create the placeholder unless the customer has a subscription.
Provision(s) ==
    /\ At(s, "provisioning")
    /\ Go(s, "claiming")
    /\ IF placeholder = Absent /\ paid = Absent
       THEN /\ placeholder' = [status |-> "trialing", end |-> sync[s].end]
            /\ clock' = clock + 1
       ELSE UNCHANGED <<placeholder, clock>>
    /\ UNCHANGED <<paid, carried, removed, changes, row, faults>>

\* claimBillingSync
Claim(s) ==
    /\ At(s, "claiming")
    /\ row' = [row EXCEPT !.token = s]
    /\ sync' = [sync EXCEPT ![s].phase = "listing", ![s].end = row.end]
    /\ UNCHANGED <<stripe, faults>>

\* listCloudSubscriptions
List(s) ==
    /\ At(s, "listing")
    /\ sync' = [sync EXCEPT ![s].phase = "listed", ![s].placeholder = placeholder,
                            ![s].paid = paid, ![s].asOf = clock]
    /\ UNCHANGED <<stripe, row, faults>>

\* selectCloudSubscription: a paid one, current or not, before a placeholder.
Selected(ph, pd) ==
    CASE pd.status # "none" -> "paid"
      [] pd.status = "none" /\ ph.status # "none" -> "placeholder"
      [] OTHER -> "none"

Carries(s) ==
    /\ sync[s].paid.status = "trialing"
    /\ Current(sync[s].placeholder)
    /\ sync[s].placeholder.end > sync[s].paid.end

\* carryForwardLatestTrialEnd; the idempotency key names the trial end, so that
\* a repeated call changes nothing.  Stripe refuses it for a canceled one.
CarryForward(s) ==
    LET end     == sync[s].placeholder.end
        updated == [status |-> "trialing", end |-> end] IN
    /\ At(s, "listed")
    /\ IF Carries(s)
       THEN /\ end \in carried \/ paid.status # "canceled"
            /\ sync' = [sync EXCEPT ![s].phase = "ready", ![s].paid = updated]
            /\ carried' = carried \union {end}
            /\ IF end \in carried
               THEN UNCHANGED <<paid, clock>>
               ELSE paid' = updated /\ clock' = clock + 1
       ELSE /\ Go(s, "ready")
            /\ UNCHANGED <<paid, carried, clock>>
    /\ UNCHANGED <<placeholder, removed, changes, row, faults>>

CarryRefused(s) ==
    /\ At(s, "listed") /\ Carries(s)
    /\ sync[s].placeholder.end \notin carried /\ paid.status = "canceled"
    /\ Go(s, "idle")
    /\ UNCHANGED <<stripe, row, faults>>

\* Variant: the update does not test the token.
HoldsAnyway(s) == TRUE

\* updateSubscriptionProjection tests the token it claimed the row with.
Holds(s) == row.token = s

Projection(s) == IF Selected(sync[s].placeholder, sync[s].paid) = "paid"
                 THEN sync[s].paid ELSE sync[s].placeholder

\* Variant: the trial end is taken from the subscription even if it has none.
ShownEndUnset(s) == Projection(s).end

\* Variant: the trial end of the row comes first.
ShownEndKept(s) == sync[s].end

\* projection.trialEndsAt ?? claim.billing.trialEndsAt
ShownEnd(s) == IF Projection(s).end = 0 THEN sync[s].end ELSE Projection(s).end

Shown(s) ==
    [token |-> Null, shows |-> Selected(sync[s].placeholder, sync[s].paid),
     status |-> Projection(s).status, end |-> ShownEnd(s), asOf |-> sync[s].asOf]

\* Variant: placeholders are canceled whether or not the row was written.
CancelsAnyway(s) == Selected(sync[s].placeholder, sync[s].paid) = "paid"

\* applied && selected.kind === 'paid-cloud'
Cancels(s) == Holds(s) /\ Selected(sync[s].placeholder, sync[s].paid) = "paid"

After(s) == IF s = Hourly THEN "idle" ELSE "done"

\* Without a subscription only the payment method is written.
Write(s) ==
    /\ At(s, "ready")
    /\ row' = CASE ~Holds(s) -> row
                [] Holds(s) /\ Selected(sync[s].placeholder, sync[s].paid) = "none" ->
                     [row EXCEPT !.token = Null, !.asOf = sync[s].asOf]
                [] OTHER -> Shown(s)
    /\ Go(s, IF Cancels(s) /\ Current(sync[s].placeholder) THEN "canceling" ELSE After(s))
    /\ UNCHANGED <<stripe, faults>>

\* cancelCurrentTrialPlaceholders.  The idempotency key makes a repeated call
\* succeed; Stripe refuses to cancel what ended by itself, and the job fails.
CancelPlaceholder(s) ==
    /\ At(s, "canceling")
    /\ Go(s, IF Current(placeholder) \/ removed THEN After(s) ELSE "idle")
    /\ IF Current(placeholder)
       THEN /\ placeholder' = [placeholder EXCEPT !.status = "canceled"]
            /\ removed' = TRUE
            /\ clock' = clock + 1
       ELSE UNCHANGED <<placeholder, removed, clock>>
    /\ UNCHANGED <<paid, carried, changes, row, faults>>

\* The process dies, or a request fails.  A webhook job is tried again, the
\* lifecycle job logs it; the token stays.
Fail(s) ==
    /\ faults < MaxFaults
    /\ faults' = faults + 1
    /\ sync[s].phase \notin {"idle", "done"}
    /\ Go(s, "idle")
    /\ UNCHANGED <<stripe, row>>

Step(s) ==
    \/ Start(s) \/ Provision(s) \/ Claim(s) \/ List(s) \/ CarryForward(s)
    \/ CarryRefused(s) \/ Write(s) \/ CancelPlaceholder(s)

Next ==
    \/ \E s \in Syncs : Step(s) \/ Fail(s)
    \/ Subscribe \/ Extend \/ PaidMoves \/ TrialOver

Spec == Init /\ [][Next]_vars

\* Jobs that started are carried through, and the lifecycle job runs again
\* every hour.
FairSpec == Spec /\ \A s \in Syncs : WF_vars(Step(s))

-----------------------------------------------------------------------------
(* Properties *)

\* The row never goes back to an older reading of Stripe: a slow reconciliation
\* does not overwrite a later one (billingSyncToken).
NeverGoesBack == [][row'.asOf >= row.asOf]_vars

\* The placeholder is canceled only when the row shows the paid subscription,
\* and the row goes on showing it: no organization is left with a trial that
\* ended because it paid.
CanceledOncePaid == removed => row.shows = "paid"

Agrees ==
    LET shown == Selected(placeholder, paid)
        sub   == IF shown = "paid" THEN paid ELSE placeholder IN
    /\ row.shows = shown
    /\ row.status = sub.status
    /\ sub.end # 0 => row.end = sub.end

\* Once Stripe is quiet the row comes to agree with it, and stays so, whichever
\* reconciliations overlapped or failed before.
CatchesUp == <>[]Agrees

\* No customer keeps a current placeholder next to a paid subscription.
PlaceholderEnds == (Current(placeholder) /\ paid.status # "none") ~> ~Current(placeholder)

-----------------------------------------------------------------------------
(* What the repository says, and the code does not keep *)

\* A trial that was extended is not shortened by paying: when a reconciliation
\* canceled the placeholder, the paid trial ends no earlier than it would have.
ExtensionKept == removed /\ paid.status = "trialing" => paid.end >= placeholder.end
=============================================================================
