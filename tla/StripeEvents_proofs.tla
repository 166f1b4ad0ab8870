-------------------------- MODULE StripeEvents_proofs --------------------------
(***************************************************************************)
(* What the jobs that process Stripe events keep.                          *)
(*                                                                         *)
(* Of subscriptions: what the sync token achieves, for any set of          *)
(* reconciliations and any changes at Stripe.  A reconciliation that still *)
(* holds the row when it writes has listed Stripe after the last write     *)
(* (Fresh): whatever the row shows, its listing is as new, and has the     *)
(* paid subscription if the row has.  As a paid subscription never         *)
(* vanishes from the customer (Lasting), a row that shows it goes on doing *)
(* so.                                                                     *)
(*                                                                         *)
(* Of payments: what the movements of a purchase come to, for any number   *)
(* of disputes and executions.  Each movement makes the books add up to    *)
(* the latest target of every group (Ledger), so what matters is that the  *)
(* latest one is of what Stripe says now.  It is recorded, or its event    *)
(* waits or is worked on (Heard); and it is the latest, because the one    *)
(* execution of a group reads Stripe after all that is recorded (InTurn).  *)
(***************************************************************************)
EXTENDS StripeEvents, FiniteSetTheorems, WellFoundedInduction, TLAPS

-----------------------------------------------------------------------------
(* The billing row of an organization *)

Listed(s) == sync[s].phase \in {"listed", "ready"}

\* Readings are from the past.
Past ==
    /\ row.asOf <= clock
    /\ \A s \in Syncs : sync[s].asOf <= clock

\* What a reconciliation that holds the row has listed is as new as the row.
Fresh ==
    \A s \in Syncs : row.token = s /\ Listed(s) =>
        /\ row.asOf <= sync[s].asOf
        /\ row.shows = "paid" => sync[s].paid.status # "none"

\* Who saw the paid subscription can rely on it.
Lasting ==
    /\ row.shows = "paid" => paid.status # "none"
    /\ \A s \in Syncs : sync[s].paid.status # "none" => paid.status # "none"

\* A reconciliation that cancels the placeholder has shown the paid subscription.
Showing == \A s \in Syncs : sync[s].phase = "canceling" => row.shows = "paid"

\* From the claim on a reconciliation knows the trial end of the row.
Claimed ==
    \A s \in Syncs : sync[s].phase \in {"listing", "listed", "ready"} => sync[s].end \in 1..MaxEnd

IInv == TypeOK /\ Past /\ Fresh /\ Lasting /\ Showing /\ Claimed /\ CanceledOncePaid

-----------------------------------------------------------------------------
\* The steps at Stripe change no row and no reconciliation.
LEMMA StripeKeeps ==
    ASSUME IInv, Subscribe \/ Extend \/ PaidMoves \/ TrialOver
    PROVE  IInv'
<1> USE BillingAssumption DEF IInv, TypeOK, Subscription, Statuses
<1>1. /\ UNCHANGED <<carried, removed, row, sync, faults>>
      /\ changes' \in 0..MaxChanges /\ clock' = clock + 1
  BY DEF Subscribe, Extend, PaidMoves, TrialOver, Change
<1>2. placeholder' \in Subscription
  BY DEF Subscribe, Extend, PaidMoves, TrialOver, Change
<1>3. paid' \in Subscription /\ (paid.status # "none" => paid'.status # "none")
  <2>1. CASE Subscribe
    BY <2>1 DEF Subscribe, Absent
  <2>2. CASE PaidMoves
    BY <2>2 DEF PaidMoves, Current
  <2>3. CASE Extend \/ TrialOver
    BY <2>3 DEF Extend, TrialOver
  <2> QED
    BY <2>1, <2>2, <2>3
<1>4. TypeOK'
  BY <1>1, <1>2, <1>3
<1>5. Past' /\ Fresh' /\ Showing' /\ Claimed' /\ CanceledOncePaid'
  BY <1>1 DEF Past, Fresh, Listed, Showing, Claimed, CanceledOncePaid
<1>6. Lasting'
  BY <1>1, <1>3 DEF Lasting
<1> QED
  BY <1>4, <1>5, <1>6

\* A step of a reconciliation that leaves the row and Stripe alone, unless it
\* lists or goes on to cancel.
LEMMA GoKeeps ==
    ASSUME IInv, NEW s \in Syncs, NEW to \in {"idle", "claiming", "done"},
           Go(s, to), UNCHANGED <<paid, row>>, clock' \in Nat, clock' >= clock,
           placeholder' \in Subscription, carried' = carried, removed' = removed,
           changes' = changes, faults' \in 0..MaxFaults
    PROVE  IInv'
<1> USE BillingAssumption DEF IInv, TypeOK
<1>1. /\ sync'[s] = [sync[s] EXCEPT !.phase = to]
      /\ \A t \in Syncs \ {s} : sync'[t] = sync[t]
  BY DEF Go
<1>2. /\ sync'[s].phase = to /\ sync'[s].end = sync[s].end /\ sync'[s].asOf = sync[s].asOf
      /\ sync'[s].placeholder = sync[s].placeholder /\ sync'[s].paid = sync[s].paid
  BY <1>1
<1>3. TypeOK'
  BY DEF Go, Phases
<1>4. Past' /\ Fresh' /\ Lasting' /\ Showing' /\ Claimed' /\ CanceledOncePaid'
  BY <1>1, <1>2 DEF Past, Fresh, Listed, Lasting, Showing, Claimed, CanceledOncePaid
<1> QED
  BY <1>3, <1>4

LEMMA StartKeeps == ASSUME IInv, NEW s \in Syncs, Start(s) PROVE IInv'
<1> USE BillingAssumption DEF IInv, TypeOK
<1>1. PICK end \in 0..MaxEnd, to \in {"provisioning", "claiming"} :
          sync' = [sync EXCEPT ![s].phase = to, ![s].end = end]
  BY DEF Start, Go
<1>2. /\ sync'[s].phase = to /\ sync'[s].end = end /\ sync'[s].asOf = sync[s].asOf
      /\ sync'[s].placeholder = sync[s].placeholder /\ sync'[s].paid = sync[s].paid
      /\ \A t \in Syncs \ {s} : sync'[t] = sync[t]
  BY <1>1
<1>3. UNCHANGED <<stripe, row, faults>>
  BY DEF Start
<1>4. TypeOK'
  BY <1>1, <1>3 DEF stripe, Phases
<1>5. Past' /\ Fresh' /\ Lasting' /\ Showing' /\ Claimed' /\ CanceledOncePaid'
  BY <1>2, <1>3 DEF stripe, Past, Fresh, Listed, Lasting, Showing, Claimed, CanceledOncePaid
<1> QED
  BY <1>4, <1>5

LEMMA ProvisionKeeps == ASSUME IInv, NEW s \in Syncs, Provision(s) PROVE IInv'
<1> USE DEF IInv
<1>1. placeholder' \in Subscription
  BY DEF Provision, TypeOK, Subscription, Statuses
<1>2. clock' \in Nat /\ clock' >= clock
  BY DEF Provision, TypeOK
<1> QED
  BY <1>1, <1>2, GoKeeps DEF Provision, TypeOK

LEMMA ClaimKeeps == ASSUME IInv, NEW s \in Syncs, Claim(s) PROVE IInv'
<1> USE BillingAssumption DEF IInv, TypeOK
<1>1. /\ sync'[s].phase = "listing" /\ sync'[s].end = row.end /\ sync'[s].asOf = sync[s].asOf
      /\ sync'[s].placeholder = sync[s].placeholder /\ sync'[s].paid = sync[s].paid
      /\ \A t \in Syncs \ {s} : sync'[t] = sync[t]
  BY DEF Claim
<1>2. /\ row'.token = s /\ row'.shows = row.shows /\ row'.asOf = row.asOf
      /\ UNCHANGED <<stripe, faults>>
  BY DEF Claim
<1>3. TypeOK'
  <2>0. row.end \in 0..MaxEnd
    OBVIOUS
  <2>1. sync' \in [Syncs -> [phase : Phases, end : 0..MaxEnd, placeholder : Subscription,
                             paid : Subscription, asOf : Nat]]
    BY <2>0 DEF Claim, Phases
  <2>2. row' \in [token : Syncs \union {Null}, shows : {"none", "placeholder", "paid"},
                  status : Statuses \ {"none"}, end : 1..MaxEnd, asOf : Nat]
    BY DEF Claim
  <2> QED
    BY <1>2, <2>1, <2>2 DEF stripe
<1>4. Past' /\ Fresh' /\ Lasting' /\ Showing' /\ Claimed' /\ CanceledOncePaid'
  BY <1>1, <1>2 DEF stripe, Past, Fresh, Listed, Lasting, Showing, Claimed, CanceledOncePaid
<1> QED
  BY <1>3, <1>4

\* The listing is the newest there is.
LEMMA ListKeeps == ASSUME IInv, NEW s \in Syncs, List(s) PROVE IInv'
<1> USE BillingAssumption DEF IInv, TypeOK
<1>1. /\ sync[s].phase = "listing" /\ sync'[s].phase = "listed"
      /\ sync'[s].end = sync[s].end /\ sync'[s].asOf = clock
      /\ sync'[s].placeholder = placeholder /\ sync'[s].paid = paid
      /\ \A t \in Syncs \ {s} : sync'[t] = sync[t]
  BY DEF List, At
<1>2. UNCHANGED <<stripe, row, faults>>
  BY DEF List
<1>3. TypeOK'
  <2>1. sync' \in [Syncs -> [phase : Phases, end : 0..MaxEnd, placeholder : Subscription,
                             paid : Subscription, asOf : Nat]]
    <3>1. /\ placeholder \in Subscription /\ paid \in Subscription /\ clock \in Nat
          /\ "listed" \in Phases
      BY DEF Phases
    <3>2. sync' = [sync EXCEPT ![s] = [@ EXCEPT !.phase = "listed", !.placeholder = placeholder,
                                                !.paid = paid, !.asOf = clock]]
      BY DEF List
    <3> QED
      BY <3>1, <3>2
  <2> QED
    BY <1>2, <2>1 DEF stripe
<1>4. Past' /\ Fresh' /\ Lasting' /\ Showing' /\ Claimed' /\ CanceledOncePaid'
  BY <1>1, <1>2 DEF stripe, Past, Fresh, Listed, Lasting, Showing, Claimed, CanceledOncePaid
<1> QED
  BY <1>3, <1>4

\* Only a paid subscription that was listed is extended.
LEMMA CarryKeeps == ASSUME IInv, NEW s \in Syncs, CarryForward(s) PROVE IInv'
<1> USE BillingAssumption DEF IInv, TypeOK
<1>1. UNCHANGED <<placeholder, removed, changes, row, faults>> /\ sync[s].phase = "listed"
  BY DEF CarryForward, At
<1>2. CASE Carries(s)
  <2> DEFINE end == sync[s].placeholder.end
             updated == [status |-> "trialing", end |-> end]
  <2>1. end \in 1..MaxEnd
    <3>1. end \in 0..MaxEnd /\ sync[s].paid.end \in 0..MaxEnd /\ end > sync[s].paid.end
      BY <1>2 DEF Carries, Subscription
    <3> QED
      BY <3>1
  <2>2. updated \in Subscription /\ updated.status = "trialing"
    BY <2>1 DEF Subscription, Statuses
  <2>3. /\ sync' = [sync EXCEPT ![s].phase = "ready", ![s].paid = updated]
        /\ carried' = carried \union {end}
        /\ (paid' = paid /\ clock' = clock) \/ (paid' = updated /\ clock' = clock + 1)
    BY <1>2 DEF CarryForward
  <2>4. /\ sync'[s].phase = "ready" /\ sync'[s].end = sync[s].end /\ sync'[s].asOf = sync[s].asOf
        /\ sync'[s].placeholder = sync[s].placeholder /\ sync'[s].paid = updated
        /\ \A t \in Syncs \ {s} : sync'[t] = sync[t]
    BY <2>3
  <2>5. paid.status # "none" /\ paid'.status # "none" /\ paid' \in Subscription
    BY <1>2, <2>2, <2>3 DEF Carries, Lasting
  <2> HIDE DEF updated
  <2>6. sync' \in [Syncs -> [phase : Phases, end : 0..MaxEnd, placeholder : Subscription,
                             paid : Subscription, asOf : Nat]]
    BY <2>2, <2>3 DEF Phases
  <2>7. TypeOK'
    BY <1>1, <2>1, <2>3, <2>5, <2>6
  <2>8. clock' \in Nat /\ clock' >= clock
    BY <2>3
  <2>9. Past'
    BY <1>1, <2>4, <2>8 DEF Past
  <2>10. Fresh' /\ Lasting'
    BY <1>1, <2>2, <2>4, <2>5 DEF Fresh, Listed, Lasting
  <2>11. Showing' /\ Claimed' /\ CanceledOncePaid'
    BY <1>1, <2>4 DEF Showing, Claimed, CanceledOncePaid
  <2> QED
    BY <2>7, <2>9, <2>10, <2>11
<1>3. CASE ~Carries(s)
  <2>1. sync' = [sync EXCEPT ![s].phase = "ready"] /\ UNCHANGED <<paid, carried, clock>>
    BY <1>3 DEF CarryForward, Go
  <2>2. /\ sync'[s].phase = "ready" /\ sync'[s].end = sync[s].end /\ sync'[s].asOf = sync[s].asOf
        /\ sync'[s].placeholder = sync[s].placeholder /\ sync'[s].paid = sync[s].paid
        /\ \A t \in Syncs \ {s} : sync'[t] = sync[t]
    BY <2>1
  <2>3. TypeOK'
    BY <1>1, <2>1 DEF Phases
  <2>4. Past' /\ Fresh' /\ Lasting' /\ Showing' /\ Claimed' /\ CanceledOncePaid'
    BY <1>1, <2>1, <2>2 DEF Past, Fresh, Listed, Lasting, Showing, Claimed, CanceledOncePaid
  <2> QED
    BY <2>3, <2>4
<1> QED
  BY <1>2, <1>3

\* Whoever holds the row writes something as new as what it showed.
LEMMA WriteKeeps ==
    ASSUME IInv, NEW s \in Syncs, Write(s)
    PROVE  IInv' /\ row'.asOf >= row.asOf
<1> USE BillingAssumption DEF IInv, TypeOK
<1>1. UNCHANGED <<stripe, faults>> /\ sync[s].phase = "ready"
  BY DEF Write, At
<1>2. PICK to \in {"canceling", "idle", "done"} :
          /\ Go(s, to)
          /\ to = "canceling" => Cancels(s)
  BY DEF Write, After
<1>3. /\ sync'[s].phase = to /\ sync'[s].end = sync[s].end /\ sync'[s].asOf = sync[s].asOf
      /\ sync'[s].placeholder = sync[s].placeholder /\ sync'[s].paid = sync[s].paid
      /\ \A t \in Syncs \ {s} : sync'[t] = sync[t]
  BY <1>2 DEF Go
<1>4. sync' \in [Syncs -> [phase : Phases, end : 0..MaxEnd, placeholder : Subscription,
                           paid : Subscription, asOf : Nat]]
  BY <1>2 DEF Go, Phases
<1>5. CASE ~Holds(s)
  <2>1. row' = row /\ to # "canceling"
    BY <1>2, <1>5 DEF Write, Cancels
  <2>2. TypeOK' /\ row'.asOf >= row.asOf
    BY <1>1, <1>4, <2>1 DEF stripe
  <2>3. Past' /\ Fresh' /\ Lasting' /\ Showing' /\ Claimed' /\ CanceledOncePaid'
    BY <1>1, <1>3, <2>1 DEF stripe, Past, Fresh, Listed, Lasting, Showing, Claimed, CanceledOncePaid
  <2> QED
    BY <2>2, <2>3
<1>6. CASE Holds(s)
  <2>1. /\ row.asOf <= sync[s].asOf
        /\ row.shows = "paid" => sync[s].paid.status # "none"
    BY <1>1, <1>6 DEF Holds, Fresh, Listed
  <2>2. Selected(sync[s].placeholder, sync[s].paid) = "paid" <=> sync[s].paid.status # "none"
    BY DEF Selected
  <2>3. /\ row'.token = Null /\ row'.asOf = sync[s].asOf
        /\ row'.shows = "paid" <=> sync[s].paid.status # "none"
        /\ row' \in [token : Syncs \union {Null}, shows : {"none", "placeholder", "paid"},
                     status : Statuses \ {"none"}, end : 1..MaxEnd, asOf : Nat]
    <3>1. CASE Selected(sync[s].placeholder, sync[s].paid) = "none"
      BY <1>6, <2>1, <2>2, <3>1 DEF Write
    <3>2. CASE Selected(sync[s].placeholder, sync[s].paid) # "none"
      <4>1. row' = Shown(s)
        BY <1>6, <3>2 DEF Write
      <4>2. Projection(s) \in Subscription /\ Projection(s).status # "none"
        BY <3>2 DEF Projection, Selected
      <4>3. ShownEnd(s) \in 1..MaxEnd
        BY <1>1, <4>2 DEF ShownEnd, Claimed, Subscription
      <4>4. Selected(sync[s].placeholder, sync[s].paid) \in {"none", "placeholder", "paid"}
        BY DEF Selected
      <4> QED
        BY <2>2, <4>1, <4>2, <4>3, <4>4 DEF Shown, Subscription
    <3> QED
      BY <3>1, <3>2
  <2>4. TypeOK'
    BY <1>1, <1>4, <2>3 DEF stripe
  <2>5. Past' /\ Fresh' /\ Lasting' /\ Claimed'
    BY <1>1, <1>3, <2>3 DEF stripe, Past, Fresh, Listed, Lasting, Claimed
  <2>6. row.shows = "paid" => row'.shows = "paid"
    BY <2>1, <2>3
  <2>7. Showing'
    BY <1>2, <1>3, <2>2, <2>3, <2>6 DEF Showing, Cancels
  <2>8. CanceledOncePaid'
    BY <1>1, <2>6 DEF stripe, CanceledOncePaid
  <2>9. row'.asOf >= row.asOf
    BY <2>1, <2>3
  <2> QED
    BY <2>4, <2>5, <2>7, <2>8, <2>9
<1> QED
  BY <1>5, <1>6

LEMMA CancelKeeps == ASSUME IInv, NEW s \in Syncs, CancelPlaceholder(s) PROVE IInv'
<1> USE BillingAssumption DEF IInv, TypeOK
<1>1. PICK to \in {"idle", "done"} : Go(s, to)
  BY DEF CancelPlaceholder, After
<1>2. /\ UNCHANGED <<paid, carried, changes, row, faults>>
      /\ clock' \in Nat /\ clock' >= clock /\ removed' \in BOOLEAN
  <2>1. CASE Current(placeholder)
    BY <2>1 DEF CancelPlaceholder
  <2>2. CASE ~Current(placeholder)
    BY <2>2 DEF CancelPlaceholder
  <2> QED
    BY <2>1, <2>2
<1>3. placeholder' \in Subscription
  BY DEF CancelPlaceholder, Subscription, Statuses
<1>4. row.shows = "paid"
  BY DEF CancelPlaceholder, At, Showing
<1>5. /\ sync'[s].phase = to /\ sync'[s].end = sync[s].end /\ sync'[s].asOf = sync[s].asOf
      /\ sync'[s].placeholder = sync[s].placeholder /\ sync'[s].paid = sync[s].paid
      /\ \A t \in Syncs \ {s} : sync'[t] = sync[t]
  BY <1>1 DEF Go
<1>6. TypeOK'
  BY <1>1, <1>2, <1>3 DEF Go, Phases
<1>7. Past' /\ Fresh' /\ Lasting' /\ Showing' /\ Claimed' /\ CanceledOncePaid'
  BY <1>2, <1>4, <1>5 DEF Past, Fresh, Listed, Lasting, Showing, Claimed, CanceledOncePaid
<1> QED
  BY <1>6, <1>7

\* Every step keeps IInv, and no step makes the row older.
LEMMA StepKeeps == IInv /\ [Next]_vars => IInv' /\ row'.asOf >= row.asOf
<1> SUFFICES ASSUME IInv, [Next]_vars PROVE IInv' /\ row'.asOf >= row.asOf
  OBVIOUS
<1>1. row.asOf \in Nat
  BY DEF IInv, TypeOK
<1>2. CASE UNCHANGED vars
  BY <1>1, <1>2 DEF vars, stripe, IInv, TypeOK, Past, Fresh, Listed, Lasting, Showing, Claimed,
                    CanceledOncePaid
<1>3. CASE Subscribe \/ Extend \/ PaidMoves \/ TrialOver
  <2>1. row' = row
    BY <1>3 DEF Subscribe, Extend, PaidMoves, TrialOver, Change
  <2> QED
    BY <1>1, <1>3, <2>1, StripeKeeps
<1>4. ASSUME NEW s \in Syncs, Start(s) \/ Provision(s) \/ List(s) \/ CarryForward(s)
                              \/ CancelPlaceholder(s)
      PROVE  IInv' /\ row'.asOf >= row.asOf
  <2>1. row' = row
    BY <1>4 DEF Start, Provision, List, CarryForward, CancelPlaceholder
  <2> QED
    BY <1>1, <1>4, <2>1, StartKeeps, ProvisionKeeps, ListKeeps, CarryKeeps, CancelKeeps
<1>5. ASSUME NEW s \in Syncs, Claim(s) PROVE IInv' /\ row'.asOf >= row.asOf
  <2>1. row'.asOf = row.asOf
    BY <1>5 DEF Claim, IInv, TypeOK
  <2> QED
    BY <1>1, <1>5, <2>1, ClaimKeeps
<1>6. ASSUME NEW s \in Syncs, Write(s) PROVE IInv' /\ row'.asOf >= row.asOf
  BY <1>6, WriteKeeps
<1>7. ASSUME NEW s \in Syncs, CarryRefused(s) \/ Fail(s) PROVE IInv' /\ row'.asOf >= row.asOf
  <2>1. /\ Go(s, "idle") /\ UNCHANGED <<stripe, row>> /\ faults' \in 0..MaxFaults
    BY <1>7, BillingAssumption DEF CarryRefused, Fail, IInv, TypeOK
  <2>2. IInv'
    BY <2>1, GoKeeps DEF stripe, IInv, TypeOK
  <2> QED
    BY <1>1, <2>1, <2>2
<1> QED
  BY <1>2, <1>3, <1>4, <1>5, <1>6, <1>7 DEF Next, Step

LEMMA Invariant == Spec => []IInv
<1>1. ASSUME Init PROVE IInv
  <2> USE <1>1, BillingAssumption DEF Init
  <2>1. Absent \in Subscription
    BY DEF Absent, Subscription, Statuses
  <2>2. /\ row.token = Null /\ row.shows = "none" /\ row.asOf = 0
        /\ \A s \in Syncs : sync[s] = [phase |-> "idle", end |-> 0, placeholder |-> Absent,
                                      paid |-> Absent, asOf |-> 0]
    OBVIOUS
  <2>3. row \in [token : Syncs \union {Null}, shows : {"none", "placeholder", "paid"},
                 status : Statuses \ {"none"}, end : 1..MaxEnd, asOf : Nat]
    BY DEF Statuses
  <2>4. sync \in [Syncs -> [phase : Phases, end : 0..MaxEnd, placeholder : Subscription,
                            paid : Subscription, asOf : Nat]]
    BY <2>1 DEF Phases
  <2>5. TypeOK
    <3>1. /\ placeholder \in Subscription /\ paid \in Subscription /\ carried \subseteq 1..MaxEnd
          /\ removed \in BOOLEAN /\ clock \in Nat
      BY <2>1
    <3>2. changes \in 0..MaxChanges /\ faults \in 0..MaxFaults
      OBVIOUS
    <3> QED
      BY <2>3, <2>4, <3>1, <3>2 DEF TypeOK
  <2>6. Past /\ Fresh /\ Lasting /\ Showing /\ Claimed /\ CanceledOncePaid
    <3>1. /\ clock = 0 /\ ~removed
          /\ \A s \in Syncs : /\ sync[s].phase = "idle" /\ sync[s].asOf = 0
                              /\ sync[s].paid.status = "none"
      BY <2>2 DEF Absent
    <3> QED
      BY <2>2, <3>1 DEF Past, Fresh, Listed, Lasting, Showing, Claimed, CanceledOncePaid
  <2> QED
    BY <2>5, <2>6 DEF IInv
<1> QED
  BY <1>1, StepKeeps, PTL DEF Spec

-----------------------------------------------------------------------------
(* Sums over finite sets.  MapThenSumSet is a recursive function over the  *)
(* subsets; two such functions agree, since a smallest set on which they   *)
(* differ would have a smaller one.                                        *)

LEMMA SmallestSet ==
    ASSUME NEW A, IsFiniteSet(A), NEW F \in SUBSET SUBSET A, F # {}
    PROVE  \E T \in F : \A U \in F : U \subseteq T => U = T
<1>1. F \subseteq FiniteSubsetsOf(A)
  BY FS_Subset DEF FiniteSubsetsOf
<1>2. PICK T \in F : \A U \in F : ~ (<<U, T>> \in StrictSubsetOrdering(A))
  BY <1>1, FS_StrictSubsetOrderingWellFounded, WFMin, Zenon
<1> QED
  BY <1>2 DEF StrictSubsetOrdering, OpToRel

First(T) == CHOOSE k \in T : TRUE
Rest(T)  == T \ {First(T)}

LEMMA RestSmaller == ASSUME NEW T, T # {} PROVE First(T) \in T /\ Rest(T) \subseteq T /\ Rest(T) # T
  BY DEF First, Rest

SumsUp(f, A, sum) ==
    sum = [T \in SUBSET A |-> IF T = {} THEN 0 ELSE f[First(T)] + sum[Rest(T)]]

\* The sum of f over T.
Sum(f, T) == (CHOOSE sum : SumsUp(f, T, sum))[T]

LEMMA SumsAgree ==
    ASSUME NEW f, NEW g, NEW A, IsFiniteSet(A), NEW B \in SUBSET A, \A k \in B : f[k] = g[k],
           NEW s, NEW t, SumsUp(f, A, s), SumsUp(g, B, t)
    PROVE  \A T \in SUBSET B : s[T] = t[T]
<1> DEFINE F == {T \in SUBSET B : s[T] # t[T]}
<1> SUFFICES ASSUME F # {} PROVE FALSE
  OBVIOUS
<1>1. PICK T \in F : \A U \in F : U \subseteq T => U = T
  <2>1. F \in SUBSET SUBSET A
    OBVIOUS
  <2> HIDE DEF F
  <2> QED
    BY <2>1, SmallestSet
<1>2. T # {}
  BY DEF SumsUp
<1>3. s[Rest(T)] = t[Rest(T)]
  BY <1>1, <1>2, RestSmaller
<1> QED
  BY <1>2, <1>3, RestSmaller DEF SumsUp

LEMMA SumExists ==
    ASSUME NEW f, NEW A, IsFiniteSet(A)
    PROVE  \E sum : SumsUp(f, A, sum)
<1> DEFINE F == {T \in SUBSET A : ~ \E sum : SumsUp(f, T, sum)}
<1> SUFFICES ASSUME F # {} PROVE FALSE
  OBVIOUS
<1>1. PICK T \in F : \A U \in F : U \subseteq T => U = T
  <2>1. F \in SUBSET SUBSET A
    OBVIOUS
  <2> HIDE DEF F
  <2> QED
    BY <2>1, SmallestSet
<1> DEFINE Up(U) == CHOOSE sum : SumsUp(f, U, sum)
           whole == [U \in SUBSET T |-> IF U = {} THEN 0
                                      ELSE f[First(U)] + Up(Rest(U))[Rest(U)]]
<1>2. ASSUME NEW U \in SUBSET T, U # T PROVE SumsUp(f, U, Up(U)) /\ IsFiniteSet(U)
  <2>1. \E s : SumsUp(f, U, s)
    BY <1>1, <1>2
  <2>2. IsFiniteSet(U)
    BY FS_Subset
  <2> QED
    BY <2>1, <2>2
<1>3. ASSUME NEW U \in SUBSET T, U # T PROVE whole[U] = Up(U)[U]
  <2>0. SumsUp(f, U, Up(U)) /\ IsFiniteSet(U)
    BY <1>2, <1>3
  <2> HIDE DEF Up
  <2>1. CASE U = {}
    BY <2>0, <2>1 DEF SumsUp
  <2>2. CASE U # {}
    <3>1. Rest(U) \in SUBSET U /\ Rest(U) \in SUBSET T /\ Rest(U) # T
      BY <2>2, RestSmaller, <1>3
    <3>2. SumsUp(f, Rest(U), Up(Rest(U))) /\ \A k \in Rest(U) : f[k] = f[k]
      BY <3>1, <1>2
    <3>3. Up(U)[Rest(U)] = Up(Rest(U))[Rest(U)]
      BY <2>0, <3>1, <3>2, SumsAgree
    <3>4. Up(U)[U] = f[First(U)] + Up(U)[Rest(U)]
      BY <2>0, <2>2 DEF SumsUp
    <3> QED
      BY <3>3, <3>4, <2>2
  <2> QED
    BY <2>1, <2>2
<1>4. SumsUp(f, T, whole)
  <2>1. ASSUME NEW U \in SUBSET T, U # {}
        PROVE  whole[Rest(U)] = Up(Rest(U))[Rest(U)]
    <3>1. Rest(U) \in SUBSET T /\ Rest(U) # T
      BY <2>1, RestSmaller
    <3> QED
      BY <1>3, <3>1
  <2>2. whole = [U \in SUBSET T |-> IF U = {} THEN 0 ELSE f[First(U)] + whole[Rest(U)]]
    <3>1. \A U \in SUBSET T : whole[U] = IF U = {} THEN 0 ELSE f[First(U)] + whole[Rest(U)]
      <4> SUFFICES ASSUME NEW U \in SUBSET T
                   PROVE  whole[U] = IF U = {} THEN 0 ELSE f[First(U)] + whole[Rest(U)]
        OBVIOUS
      <4>1. whole[U] = IF U = {} THEN 0 ELSE f[First(U)] + Up(Rest(U))[Rest(U)]
        OBVIOUS
      <4> HIDE DEF whole, Up
      <4> QED
        BY <2>1, <4>1
    <3>2. whole = [U \in SUBSET T |-> whole[U]]
      OBVIOUS
    <3> HIDE DEF whole
    <3> QED
      BY <3>1, <3>2
  <2> QED
    BY <2>2 DEF SumsUp
<1> QED
  BY <1>1, <1>4

LEMMA SumIs ==
    ASSUME NEW f, NEW T, IsFiniteSet(T)
    PROVE  \E sum : SumsUp(f, T, sum) /\ Sum(f, T) = sum[T]
  BY SumExists DEF Sum

LEMMA SumOfNone == ASSUME NEW f PROVE Sum(f, {}) = 0
<1>1. PICK sum : SumsUp(f, {}, sum) /\ Sum(f, {}) = sum[{}]
  BY FS_EmptySet, SumIs
<1> QED
  BY <1>1 DEF SumsUp

LEMMA SumSame ==
    ASSUME NEW f, NEW g, NEW T, IsFiniteSet(T), \A k \in T : f[k] = g[k]
    PROVE  Sum(f, T) = Sum(g, T)
<1>1. PICK s : SumsUp(f, T, s) /\ Sum(f, T) = s[T]
  BY SumIs
<1>2. PICK t : SumsUp(g, T, t) /\ Sum(g, T) = t[T]
  BY SumIs
<1>3. \A U \in SUBSET T : s[U] = t[U]
  BY <1>1, <1>2, SumsAgree
<1> QED
  BY <1>1, <1>2, <1>3

LEMMA SumFirst ==
    ASSUME NEW f, NEW T, IsFiniteSet(T), T # {}
    PROVE  Sum(f, T) = f[First(T)] + Sum(f, Rest(T))
<1>1. PICK s : SumsUp(f, T, s) /\ Sum(f, T) = s[T]
  BY SumIs
<1>2. IsFiniteSet(Rest(T)) /\ Rest(T) \in SUBSET T
  BY FS_RemoveElement DEF Rest
<1>3. PICK r : SumsUp(f, Rest(T), r) /\ Sum(f, Rest(T)) = r[Rest(T)]
  BY <1>2, SumIs
<1>4. \A k \in Rest(T) : f[k] = f[k]
  OBVIOUS
<1>5. s[Rest(T)] = r[Rest(T)]
  BY <1>1, <1>2, <1>3, <1>4, SumsAgree
<1> QED
  BY <1>1, <1>3, <1>5 DEF SumsUp

LEMMA SumType ==
    ASSUME NEW f, NEW A, IsFiniteSet(A), \A k \in A : f[k] \in Int
    PROVE  Sum(f, A) \in Int
<1> DEFINE F == {T \in SUBSET A : Sum(f, T) \notin Int}
<1> SUFFICES ASSUME F # {} PROVE FALSE
  OBVIOUS
<1>1. PICK T \in F : \A U \in F : U \subseteq T => U = T
  <2>1. F \in SUBSET SUBSET A
    OBVIOUS
  <2> HIDE DEF F
  <2> QED
    BY <2>1, SmallestSet
<1>2. T # {}
  BY SumOfNone
<1>3. Sum(f, Rest(T)) \in Int /\ f[First(T)] \in Int
  BY <1>1, <1>2, RestSmaller
<1>4. Sum(f, T) = f[First(T)] + Sum(f, Rest(T))
  BY <1>2, FS_Subset, SumFirst
<1> QED
  BY <1>3, <1>4

\* A sum of losses is a loss.
LEMMA SumOfLosses ==
    ASSUME NEW f, NEW A, IsFiniteSet(A), \A k \in A : f[k] \in Int /\ f[k] <= 0
    PROVE  Sum(f, A) <= 0
<1> DEFINE F == {T \in SUBSET A : ~(Sum(f, T) <= 0)}
<1> SUFFICES ASSUME F # {} PROVE FALSE
  OBVIOUS
<1>1. PICK T \in F : \A U \in F : U \subseteq T => U = T
  <2>1. F \in SUBSET SUBSET A
    OBVIOUS
  <2> HIDE DEF F
  <2> QED
    BY <2>1, SmallestSet
<1>2. T # {}
  BY SumOfNone
<1>3. Sum(f, Rest(T)) <= 0 /\ f[First(T)] \in Int /\ f[First(T)] <= 0
  BY <1>1, <1>2, RestSmaller
<1>4. Sum(f, Rest(T)) \in Int
  BY <1>2, RestSmaller, FS_Subset, SumType
<1>5. Sum(f, T) = f[First(T)] + Sum(f, Rest(T))
  BY <1>2, FS_Subset, SumFirst
<1> QED
  BY <1>3, <1>4, <1>5

LEMMA SumOfAny ==
    ASSUME NEW f, NEW A, IsFiniteSet(A), \A k \in A : f[k] \in Int, NEW k \in A
    PROVE  Sum(f, A) = f[k] + Sum(f, A \ {k})
<1> DEFINE F == {T \in SUBSET A : \E x \in T : Sum(f, T) # f[x] + Sum(f, T \ {x})}
<1> SUFFICES ASSUME F # {} PROVE FALSE
  OBVIOUS
<1>1. PICK T \in F : \A U \in F : U \subseteq T => U = T
  <2>1. F \in SUBSET SUBSET A
    OBVIOUS
  <2> HIDE DEF F
  <2> QED
    BY <2>1, SmallestSet
<1>2. PICK x \in T : Sum(f, T) # f[x] + Sum(f, T \ {x})
  OBVIOUS
<1>3. \A U \in SUBSET A : IsFiniteSet(U) /\ Sum(f, U) \in Int
  BY FS_Subset, SumType
<1> DEFINE y == First(T)
<1>4. y \in T /\ Sum(f, T) = f[y] + Sum(f, T \ {y})
  BY <1>2, <1>3, SumFirst, RestSmaller DEF Rest
<1> HIDE DEF y
<1>5. x # y
  BY <1>2, <1>4
<1>6. Sum(f, T \ {y}) = f[x] + Sum(f, (T \ {y}) \ {x})
  BY <1>1, <1>4, <1>5
<1>7. Sum(f, T \ {x}) = f[y] + Sum(f, (T \ {x}) \ {y})
  BY <1>1, <1>4, <1>5
<1>8. (T \ {y}) \ {x} = (T \ {x}) \ {y}
  OBVIOUS
<1>9. /\ f[x] \in Int /\ f[y] \in Int
      /\ Sum(f, (T \ {x}) \ {y}) \in Int
  BY <1>3, <1>4
<1> QED
  <2> DEFINE a == f[x]
             b == f[y]
             c == Sum(f, (T \ {x}) \ {y})
  <2>1. /\ Sum(f, T) = b + Sum(f, T \ {y})
        /\ Sum(f, T \ {y}) = a + c
        /\ Sum(f, T \ {x}) = b + c
        /\ Sum(f, T) # a + Sum(f, T \ {x})
    BY <1>2, <1>4, <1>6, <1>7, <1>8
  <2>2. a \in Int /\ b \in Int /\ c \in Int
    BY <1>9
  <2> HIDE DEF a, b, c, F
  <2> QED
    BY <2>1, <2>2

\* What adds nothing can be left out of a sum.
LEMMA SumOfPart ==
    ASSUME NEW f, NEW A, IsFiniteSet(A), \A k \in A : f[k] \in Int,
           NEW B \in SUBSET A, \A k \in A \ B : f[k] = 0
    PROVE  Sum(f, A) = Sum(f, B)
<1> DEFINE F == {T \in SUBSET A : B \subseteq T /\ Sum(f, T) # Sum(f, B)}
<1> SUFFICES ASSUME F # {} PROVE FALSE
  OBVIOUS
<1>1. PICK T \in F : \A U \in F : U \subseteq T => U = T
  <2>1. F \in SUBSET SUBSET A
    OBVIOUS
  <2> HIDE DEF F
  <2> QED
    BY <2>1, SmallestSet
<1>2. PICK k \in T : k \notin B
  OBVIOUS
<1>3. Sum(f, T) = f[k] + Sum(f, T \ {k})
  BY <1>2, FS_Subset, SumOfAny
<1>4. Sum(f, T \ {k}) \in Int
  BY FS_Subset, SumType
<1>5. Sum(f, T \ {k}) = Sum(f, B)
  BY <1>1, <1>2
<1> QED
  BY <1>2, <1>3, <1>4, <1>5

LEMMA SumUnique ==
    ASSUME NEW f, NEW T, IsFiniteSet(T), NEW u, SumsUp(f, T, u)
    PROVE  Sum(f, T) = u[T]
<1>1. PICK s : SumsUp(f, T, s) /\ Sum(f, T) = s[T]
  BY SumIs
<1>2. \A k \in T : f[k] = f[k]
  OBVIOUS
<1>3. \A U \in SUBSET T : s[U] = u[U]
  BY <1>1, <1>2, SumsAgree
<1> QED
  BY <1>1, <1>3
-----------------------------------------------------------------------------
(* The sums of PurchaseMovements are sums of functions. *)

LEMMA TotalIsSum ==
    ASSUME NEW m, IsFiniteSet(Purchase!Moved(m))
    PROVE  Purchase!Total(m) = Sum([k \in Purchase!Moved(m) |-> m[k].delta], Purchase!Moved(m))
<1> DEFINE T == Purchase!Moved(m)
           f == [k \in Purchase!Moved(m) |-> m[k].delta]
           Goes(s) == s = [U \in SUBSET T |->
                             IF U = {} THEN 0 ELSE (m[First(U)].delta) + s[Rest(U)]]
<1>1. Purchase!Total(m) = (CHOOSE s : Goes(s))[T]
  BY DEF Purchase!Total, First, Rest, Purchase!MapThenSumSet, Purchase!MapThenFoldSet
<1>2. ASSUME NEW s PROVE Goes(s) <=> SumsUp(f, T, s)
  <2>1. \A U \in SUBSET T : U # {} => f[First(U)] = m[First(U)].delta
    BY RestSmaller
  <2> HIDE DEF f, T
  <2> QED
    BY <2>1 DEF SumsUp
<1> HIDE DEF f, T, Goes
<1>3. SumsUp(f, T, CHOOSE u : Goes(u))
  BY <1>2, SumExists DEF T
<1> QED
  BY <1>1, <1>3, SumUnique DEF T, f

\* The groups that have movements, and their latest targets.
Held(m)    == {g \in Purchase!Groups : Purchase!Of(m, g) # {}}
Latests(m) == [g \in Held(m) |-> Purchase!Recorded(m, g)]

LEMMA RecordedIsSum ==
    ASSUME NEW m, IsFiniteSet(Held(m))
    PROVE  Purchase!MapThenSumSet(LAMBDA g : Purchase!Recorded(m, g), Held(m)) = Sum(Latests(m), Held(m))
<1> DEFINE T == Held(m)
           f == Latests(m)
           Goes(s) == s = [U \in SUBSET T |->
                             IF U = {} THEN 0 ELSE (Purchase!Recorded(m, First(U))) + s[Rest(U)]]
<1>1. Purchase!MapThenSumSet(LAMBDA g : Purchase!Recorded(m, g), Held(m)) = (CHOOSE s : Goes(s))[T]
  BY DEF First, Rest, Purchase!MapThenSumSet, Purchase!MapThenFoldSet
<1>2. ASSUME NEW s PROVE Goes(s) <=> SumsUp(f, T, s)
  <2>1. \A U \in SUBSET T : U # {} => f[First(U)] = Purchase!Recorded(m, First(U))
    BY RestSmaller DEF Latests
  <2> HIDE DEF f, T
  <2> QED
    BY <2>1 DEF SumsUp
<1> HIDE DEF f, T, Goes
<1>3. SumsUp(f, T, CHOOSE u : Goes(u))
  BY <1>2, SumExists DEF T
<1> QED
  BY <1>1, <1>3, SumUnique DEF T, f

Setting(g)       == {h \in Purchase!Groups : h = g \/ Purchase!Of(movement, h) # {}}
Desires(g, aim)  == [h \in Setting(g) |-> IF h = g THEN aim ELSE Purchase!Recorded(movement, h)]

LEMMA DesiredIsSum ==
    ASSUME NEW g, NEW aim, IsFiniteSet(Setting(g))
    PROVE  Purchase!Desired(g, aim) = Sum(Desires(g, aim), Setting(g))
<1> DEFINE T == Setting(g)
           f == Desires(g, aim)
           Goes(s) == s = [U \in SUBSET T |->
                             IF U = {} THEN 0 ELSE (IF First(U) = g THEN aim ELSE Purchase!Recorded(movement, First(U))) + s[Rest(U)]]
<1>1. Purchase!Desired(g, aim) = (CHOOSE s : Goes(s))[T]
  BY DEF Purchase!Desired, Setting, First, Rest, Purchase!MapThenSumSet, Purchase!MapThenFoldSet
<1>2. ASSUME NEW s PROVE Goes(s) <=> SumsUp(f, T, s)
  <2>1. \A U \in SUBSET T : U # {} => f[First(U)] = IF First(U) = g THEN aim ELSE Purchase!Recorded(movement, First(U))
    BY RestSmaller DEF Desires
  <2> HIDE DEF f, T
  <2> QED
    BY <2>1 DEF SumsUp
<1> HIDE DEF f, T, Goes
<1>3. SumsUp(f, T, CHOOSE u : Goes(u))
  BY <1>2, SumExists DEF T
<1> QED
  BY <1>1, <1>3, SumUnique DEF T, f

Losses == [g \in Purchase!Groups |-> Purchase!Target(Purchase!AtStripe(g))]

LEMMA LostIsSum ==
    ASSUME IsFiniteSet(Purchase!Groups)
    PROVE  Purchase!Lost = Sum(Losses, Purchase!Groups)
<1> DEFINE T == Purchase!Groups
           f == Losses
           Goes(s) == s = [U \in SUBSET T |->
                             IF U = {} THEN 0 ELSE (Purchase!Target(Purchase!AtStripe(First(U)))) + s[Rest(U)]]
<1>1. Purchase!Lost = (CHOOSE s : Goes(s))[T]
  BY DEF Purchase!Lost, First, Rest, Purchase!MapThenSumSet, Purchase!MapThenFoldSet
<1>2. ASSUME NEW s PROVE Goes(s) <=> SumsUp(f, T, s)
  <2>1. \A U \in SUBSET T : U # {} => f[First(U)] = Purchase!Target(Purchase!AtStripe(First(U)))
    BY RestSmaller DEF Losses
  <2> HIDE DEF f, T
  <2> QED
    BY <2>1 DEF SumsUp
<1> HIDE DEF f, T, Goes
<1>3. SumsUp(f, T, CHOOSE u : Goes(u))
  BY <1>2, SumExists DEF T
<1> QED
  BY <1>1, <1>3, SumUnique DEF T, f

\* What the movements should add up to.
AddsUpOf(m) == Purchase!Total(m) = Purchase!Bounded(Sum(Latests(m), Held(m)))

LEMMA AddsUpIs == IsFiniteSet(Held(movement)) => (Purchase!AddsUp <=> AddsUpOf(movement))
<1>1. Purchase!AddsUp <=>
        Purchase!Total(movement) = Purchase!Bounded(Purchase!MapThenSumSet(LAMBDA g : Purchase!Recorded(movement, g), Held(movement)))
  BY DEF Purchase!AddsUp, Purchase!Bounded, Held
<1> QED
  BY <1>1, RecordedIsSum DEF AddsUpOf

LEMMA AddsUpNext == IsFiniteSet(Held(movement')) => (Purchase!AddsUp' <=> AddsUpOf(movement'))
<1>1. (IsFiniteSet(Held(movement)) => (Purchase!AddsUp <=> AddsUpOf(movement)))'
  BY AddsUpIs, PTL
<1> QED
  BY <1>1
-----------------------------------------------------------------------------
(* What a purchase's movements follow *)

\* The amounts refunded, and the statuses of a dispute, come in this order.
Stage(status) ==
    IF status = "none" THEN 0
    ELSE IF status = "needs_response" THEN 1
    ELSE IF status = "under_review" THEN 2 ELSE 3

Age(key)    == IF key[1] = "refund" THEN key[2] ELSE Stage(key[2])
Comes(k, l) == k = l \/ Age(k) < Age(l)

Holder(k) == Purchase!AtStripe(k[1])

\* Movements are of what Stripe says, or said before.
Follow ==
    \A k \in Purchase!Moved(movement) :
        Comes(k, Holder(k)) /\ movement[k].target = Purchase!Target(k)

\* Sequences count the movements, and one of each group is the latest.
Counted ==
    /\ IsFiniteSet(Purchase!Moved(movement))
    /\ \A k \in Purchase!Moved(movement) : movement[k].seq <= Cardinality(Purchase!Moved(movement))
    /\ \A g \in Purchase!Groups : Purchase!Of(movement, g) # {} =>
          \E k \in Purchase!Of(movement, g) : \A j \in Purchase!Of(movement, g) \ {k} : movement[k].seq > movement[j].seq

Before(k, j) == Age(k) < Age(j) /\ movement[k].seq < movement[j].seq

\* Unless two of its events overlapped, a group's movements are in the order in
\* which Stripe came to them, and what its one execution has read comes after them.
InTurn ==
    \A g \in Purchase!Groups \ overlapped :
        /\ \A v, w \in Workers : Purchase!Busy(v, g) /\ Purchase!Busy(w, g) => v = w
        /\ \A k, j \in Purchase!Of(movement, g) : k # j => Before(k, j) \/ Before(j, k)
        /\ \A w \in Workers : worker[w].phase = "read" /\ worker[w].group = g =>
              \A k \in Purchase!Of(movement, g) : Comes(k, worker[w].key)

\* What an execution has read is what Stripe says, or said before.
Reads ==
    \A w \in Workers : worker[w].phase = "read" =>
        /\ worker[w].key \in Purchase!Keys /\ worker[w].key[1] = worker[w].group
        /\ Comes(worker[w].key, Purchase!AtStripe(worker[w].group))

\* Only what began at Stripe has events.
Begun ==
    \A g \in Purchase!Groups :
        jobs[g] > 0 \/ (\E w \in Workers : Purchase!Busy(w, g)) => Age(Purchase!AtStripe(g)) > 0

\* An execution that will record, or find recorded, what Stripe says of a group.
Brings(w, g) ==
    /\ Purchase!Busy(w, g)
    /\ worker[w].phase = "reading" \/ (worker[w].phase = "read" /\ worker[w].key = Purchase!AtStripe(g))

\* Whatever Stripe says of a group is recorded, or about to be.
Heard ==
    \A g \in Purchase!Groups : Age(Purchase!AtStripe(g)) > 0 =>
        \/ jobs[g] > 0
        \/ Purchase!AtStripe(g) \in Purchase!Moved(movement)
        \/ \E w \in Workers : Brings(w, g)

Ledger == Follow /\ Counted /\ Purchase!AddsUp
Course == InTurn /\ Reads /\ Begun /\ Heard
PInv   == Purchase!TypeOK /\ Ledger /\ Course

LEMMA ShareType ==
    /\ \A amount \in 0..Paid : Purchase!Share(amount) \in 0..Credits
    /\ Purchase!Share(0) = 0
<1> USE PurchaseAssumption
<1>1. ASSUME NEW amount \in 0..Paid PROVE Purchase!Share(amount) \in 0..Credits
  <2>1. Credits * amount \in Nat
    OBVIOUS
  <2>2. (Credits * amount) \div Paid \in Nat
    BY <2>1
  <2> QED
    BY <2>2 DEF Purchase!Share
<1>2. Purchase!Share(0) = 0
  <2>1. Credits * 0 = 0 /\ 0 \div Paid = 0
    OBVIOUS
  <2> QED
    BY <2>1 DEF Purchase!Share
<1> QED
  BY <1>1, <1>2

LEMMA KeyFacts ==
    ASSUME NEW k \in Purchase!Keys
    PROVE  /\ k[1] \in Purchase!Groups /\ Age(k) \in Nat \ {0}
           /\ Purchase!Target(k) \in -Credits..0
<1> USE PurchaseAssumption
<1>1. CASE k \in {"refund"} \X (1..Paid)
  <2>1. k[1] = "refund" /\ k[2] \in 1..Paid
    BY <1>1
  <2>2. Purchase!Share(k[2]) \in 0..Credits
    BY <2>1, ShareType
  <2> QED
    BY <2>1, <2>2 DEF Purchase!Groups, Age, Purchase!Target
<1>2. CASE k \in Disputes \X (Purchase!DisputeStatuses \ {"none"})
  <2>1. k[1] \in Disputes /\ k[1] # "refund" /\ k[2] \in Purchase!DisputeStatuses \ {"none"}
    BY <1>2
  <2>2. Purchase!Share(Disputed) \in 0..Credits
    BY ShareType
  <2> QED
    BY <2>1, <2>2 DEF Purchase!Groups, Age, Stage, Purchase!Target, Purchase!DisputeStatuses, Purchase!Withdrawn
<1> QED
  BY <1>1, <1>2 DEF Purchase!Keys

LEMMA StripeFacts ==
    ASSUME Purchase!TypeOK, NEW g \in Purchase!Groups
    PROVE  /\ Purchase!AtStripe(g)[1] = g /\ Age(Purchase!AtStripe(g)) \in Nat
           /\ Age(Purchase!AtStripe(g)) > 0 => Purchase!AtStripe(g) \in Purchase!Keys
           /\ Age(Purchase!AtStripe(g)) = 0 => Purchase!Target(Purchase!AtStripe(g)) = 0
<1> USE PurchaseAssumption
<1>1. CASE g = "refund"
  <2>1. Purchase!AtStripe(g) = <<g, refunded>> /\ refunded \in 0..Paid
    BY <1>1 DEF Purchase!AtStripe, Purchase!TypeOK
  <2>2. Age(Purchase!AtStripe(g)) = refunded
    BY <1>1, <2>1 DEF Age
  <2>3. refunded > 0 => Purchase!AtStripe(g) \in Purchase!Keys
    BY <1>1, <2>1 DEF Purchase!Keys
  <2>4. refunded = 0 => Purchase!Target(Purchase!AtStripe(g)) = 0
    BY <1>1, <2>1, ShareType DEF Purchase!Target
  <2> QED
    BY <2>1, <2>2, <2>3, <2>4
<1>2. CASE g # "refund"
  <2>1. g \in Disputes /\ Purchase!AtStripe(g) = <<g, dispute[g]>> /\ dispute[g] \in Purchase!DisputeStatuses
    BY <1>2 DEF Purchase!AtStripe, Purchase!TypeOK, Purchase!Groups
  <2>2. Age(Purchase!AtStripe(g)) = Stage(dispute[g])
    BY <1>2, <2>1 DEF Age
  <2>3. Stage(dispute[g]) \in Nat /\ (Stage(dispute[g]) = 0 <=> dispute[g] = "none")
    BY <2>1 DEF Stage, Purchase!DisputeStatuses, Purchase!Withdrawn
  <2>4. dispute[g] # "none" => Purchase!AtStripe(g) \in Purchase!Keys
    BY <2>1 DEF Purchase!Keys
  <2>5. dispute[g] = "none" => Purchase!Target(Purchase!AtStripe(g)) = 0
    BY <1>2, <2>1 DEF Purchase!Target, Purchase!Withdrawn
  <2> QED
    BY <2>1, <2>2, <2>3, <2>4, <2>5
<1> QED
  BY <1>1, <1>2

LEMMA MovedFacts ==
    ASSUME Purchase!TypeOK, NEW k \in Purchase!Moved(movement)
    PROVE  /\ k \in Purchase!Keys /\ movement[k] \in Purchase!Movement
           /\ k[1] \in Purchase!Groups /\ k \in Purchase!Of(movement, k[1])
           /\ movement[k].seq \in Nat /\ movement[k].delta \in Int
  BY KeyFacts, PurchaseAssumption DEF Purchase!TypeOK, Purchase!Moved, Purchase!Of, Purchase!Movement

LEMMA LatestRecorded ==
    ASSUME NEW m, NEW g, NEW k \in Purchase!Of(m, g), \A j \in Purchase!Of(m, g) : m[j].seq \in Nat,
           \A j \in Purchase!Of(m, g) \ {k} : m[k].seq > m[j].seq
    PROVE  Purchase!Recorded(m, g) = m[k].target
<1>1. \A j \in Purchase!Of(m, g) : m[k].seq >= m[j].seq
  OBVIOUS
<1>2. \A j \in Purchase!Of(m, g) : (\A i \in Purchase!Of(m, g) : m[j].seq >= m[i].seq) => j = k
  <2> SUFFICES ASSUME NEW j \in Purchase!Of(m, g), j # k, m[j].seq >= m[k].seq PROVE FALSE
    OBVIOUS
  <2>1. m[k].seq > m[j].seq /\ m[k].seq \in Nat /\ m[j].seq \in Nat
    OBVIOUS
  <2> QED
    BY <2>1
<1>3. (CHOOSE j \in Purchase!Of(m, g) : \A i \in Purchase!Of(m, g) : m[j].seq >= m[i].seq) = k
  BY <1>1, <1>2
<1> QED
  BY <1>3 DEF Purchase!Recorded

LEMMA GroupsFinite ==
    /\ IsFiniteSet(Purchase!Groups)
    /\ \A S \in SUBSET Purchase!Groups : IsFiniteSet(S)
<1>1. IsFiniteSet({"refund"}) /\ IsFiniteSet(Disputes)
  BY FS_Singleton, PurchaseAssumption
<1>2. IsFiniteSet(Purchase!Groups)
  BY <1>1, FS_Union DEF Purchase!Groups
<1> QED
  BY <1>2, FS_Subset

\* What is recorded of a group is a loss, and so is all of it.
LEMMA RecordedLoss ==
    ASSUME Purchase!TypeOK, Follow, Counted, NEW g \in Held(movement)
    PROVE  Purchase!Recorded(movement, g) \in -Credits..0
<1>1. PICK k \in Purchase!Of(movement, g) : \A j \in Purchase!Of(movement, g) \ {k} : movement[k].seq > movement[j].seq
  BY DEF Counted, Held
<1>2. Purchase!Of(movement, g) \subseteq Purchase!Moved(movement)
  BY DEF Purchase!Of
<1>3. \A j \in Purchase!Of(movement, g) : movement[j].seq \in Nat
  BY <1>2, MovedFacts
<1>4. Purchase!Recorded(movement, g) = movement[k].target
  BY <1>1, <1>3, LatestRecorded
<1>5. movement[k] \in Purchase!Movement
  BY <1>2, MovedFacts
<1> QED
  BY <1>4, <1>5 DEF Purchase!Movement

LEMMA BoundedLoss ==
    ASSUME NEW sum \in Int, sum <= 0
    PROVE  Purchase!Bounded(sum) \in -Credits..0
  BY PurchaseAssumption DEF Purchase!Bounded

LEMMA TotalLoss ==
    ASSUME Purchase!TypeOK, Ledger
    PROVE  Purchase!Total(movement) \in -Credits..0
<1>1. IsFiniteSet(Held(movement))
  BY GroupsFinite DEF Held
<1>2. \A g \in Held(movement) : Latests(movement)[g] \in Int /\ Latests(movement)[g] <= 0
  BY RecordedLoss, PurchaseAssumption DEF Latests, Ledger
<1>3. Sum(Latests(movement), Held(movement)) \in Int
  BY <1>1, <1>2, SumType
<1>4. Sum(Latests(movement), Held(movement)) <= 0
  BY <1>1, <1>2, SumOfLosses
<1> QED
  BY <1>1, <1>3, <1>4, BoundedLoss, AddsUpIs DEF AddsUpOf, Ledger

LEMMA CardinalitySame == ASSUME NEW S PROVE Purchase!Cardinality(S) = Cardinality(S)
  BY DEF Purchase!Cardinality, Cardinality

\* A movement is set: the books count it, and add up with it.
LEMMA SetKeepsLedger ==
    ASSUME Purchase!TypeOK, Ledger, NEW g \in Purchase!Groups, NEW key \in Purchase!Keys, key[1] = g,
           movement[key] = Null, Purchase!SetMovement(g, key)
    PROVE  /\ movement' \in [Purchase!Keys -> Purchase!Movement \union {Null}]
           /\ Purchase!Moved(movement') = Purchase!Moved(movement) \union {key}
           /\ movement'[key].target = Purchase!Target(key)
           /\ \A k \in Purchase!Moved(movement) : movement'[k] = movement[k] /\ movement[k].seq < movement'[key].seq
           /\ Counted' /\ Purchase!AddsUp'
<1> DEFINE aim == Purchase!Target(key)
           n   == Cardinality(Purchase!Moved(movement)) + 1
           d   == Purchase!Bounded(Purchase!Desired(g, aim)) - Purchase!Total(movement)
           m   == movement'
<1> USE PurchaseAssumption
<1>1. aim \in -Credits..0
  BY KeyFacts
<1>2. /\ m[key] = [target |-> aim, delta |-> d, seq |-> n]
      /\ \A k \in Purchase!Keys \ {key} : m[k] = movement[k]
      /\ m = [movement EXCEPT ![key] = [target |-> aim, delta |-> d, seq |-> n]]
  <2>1. m = [movement EXCEPT ![key] = [target |-> aim, delta |-> d, seq |-> n]]
    BY CardinalitySame DEF Purchase!SetMovement
  <2> HIDE DEF m, d, n, aim
  <2> QED
    BY <2>1 DEF Purchase!TypeOK
<1>3. IsFiniteSet(Setting(g)) /\ IsFiniteSet(Held(movement))
  BY GroupsFinite DEF Setting, Held
<1>4. \A h \in Setting(g) : Desires(g, aim)[h] \in Int /\ Desires(g, aim)[h] <= 0
  <2>1. \A h \in Setting(g) : h = g \/ h \in Held(movement)
    BY DEF Setting, Held
  <2> QED
    BY <1>1, <2>1, RecordedLoss DEF Desires, Ledger
<1>5. Purchase!Desired(g, aim) \in Int /\ Purchase!Desired(g, aim) <= 0
  BY <1>3, <1>4, DesiredIsSum, SumType, SumOfLosses
<1>6. Purchase!Bounded(Purchase!Desired(g, aim)) \in -Credits..0 /\ Purchase!Total(movement) \in -Credits..0
  BY <1>5, BoundedLoss, TotalLoss
<1>7. d \in -Credits..Credits
  BY <1>6
<1>8. n \in Nat /\ IsFiniteSet(Purchase!Moved(movement)) /\ Cardinality(Purchase!Moved(movement)) \in Nat
  BY FS_CardinalityType DEF Ledger, Counted
<1>9. m \in [Purchase!Keys -> Purchase!Movement \union {Null}]
  <2>1. [target |-> aim, delta |-> d, seq |-> n] \in Purchase!Movement
    BY <1>1, <1>7, <1>8 DEF Purchase!Movement
  <2> HIDE DEF d, n, aim
  <2> QED
    BY <1>2, <2>1 DEF Purchase!TypeOK
<1> HIDE DEF m
<1>10. key \notin Purchase!Moved(movement) /\ Purchase!Moved(m) = Purchase!Moved(movement) \union {key}
  <2>1. [target |-> aim, delta |-> d, seq |-> n] \in Purchase!Movement
    BY <1>1, <1>7, <1>8 DEF Purchase!Movement
  <2>2. m[key] # Null
    BY <1>2, <2>1, MovementAssumption
  <2> QED
    BY <1>2, <2>2 DEF Purchase!Moved
<1> HIDE DEF d, n, aim
<1>11. \A k \in Purchase!Moved(movement) : m[k] = movement[k]
  BY <1>2, <1>10 DEF Purchase!Moved
<1>12. \A k \in Purchase!Moved(movement) : movement[k].seq < m[key].seq /\ movement[k].seq \in Nat
  BY <1>2, <1>8, MovedFacts DEF n, Ledger, Counted
<1>13. /\ Purchase!Of(m, g) = Purchase!Of(movement, g) \union {key}
       /\ \A h \in Purchase!Groups \ {g} : Purchase!Of(m, h) = Purchase!Of(movement, h)
       /\ \A h \in Purchase!Groups : Purchase!Of(movement, h) \subseteq Purchase!Moved(movement)
  BY <1>10 DEF Purchase!Of
<1>14. IsFiniteSet(Purchase!Moved(m)) /\ Cardinality(Purchase!Moved(m)) = n
  BY <1>8, <1>10, FS_AddElement DEF n
<1>15. m[key].seq = n
  BY <1>2
<1>16. Counted'
  <2>1. \A k \in Purchase!Moved(m) : m[k].seq <= Cardinality(Purchase!Moved(m))
    BY <1>8, <1>10, <1>11, <1>12, <1>14, <1>15
  <2>2. ASSUME NEW h \in Purchase!Groups, Purchase!Of(m, h) # {}
        PROVE  \E k \in Purchase!Of(m, h) : \A j \in Purchase!Of(m, h) \ {k} : m[k].seq > m[j].seq
    <3>1. CASE h = g
      <4>1. \A j \in Purchase!Of(m, h) \ {key} : m[key].seq > m[j].seq
        BY <1>8, <1>11, <1>12, <1>13, <1>15, <3>1
      <4> QED
        BY <1>13, <3>1, <4>1
    <3>2. CASE h # g
      BY <1>11, <1>13, <2>2, <3>2 DEF Ledger, Counted
    <3> QED
      BY <3>1, <3>2
  <2> QED
    BY <1>14, <2>1, <2>2 DEF Counted, m
<1>17. Held(m) = Setting(g)
  BY <1>13 DEF Held, Setting
<1>18. ASSUME NEW h \in Held(m) PROVE Latests(m)[h] = Desires(g, aim)[h]
  <2>1. CASE h = g
    <3>1. \A j \in Purchase!Of(m, g) : m[j].seq \in Nat
      BY <1>8, <1>11, <1>12, <1>13, <1>15
    <3>2. \A j \in Purchase!Of(m, g) \ {key} : m[key].seq > m[j].seq
      BY <1>8, <1>11, <1>12, <1>13, <1>15
    <3>3. Purchase!Recorded(m, g) = m[key].target
      BY <1>13, <3>1, <3>2, LatestRecorded
    <3> QED
      BY <1>2, <1>17, <1>18, <2>1, <3>3 DEF Latests, Desires
  <2>2. CASE h # g
    <3>0. h \in Purchase!Groups /\ Purchase!Of(movement, h) # {} /\ Purchase!Of(m, h) = Purchase!Of(movement, h)
      BY <1>13, <1>18, <2>2 DEF Held
    <3>1. PICK k \in Purchase!Of(movement, h) :
             \A j \in Purchase!Of(movement, h) \ {k} : movement[k].seq > movement[j].seq
      BY <3>0 DEF Ledger, Counted
    <3>2. Purchase!Recorded(movement, h) = movement[k].target
      BY <1>12, <1>13, <3>0, <3>1, LatestRecorded
    <3>3. \A j \in Purchase!Of(m, h) : m[j].seq \in Nat
      BY <1>11, <1>12, <1>13, <3>0
    <3>4. k \in Purchase!Of(m, h) /\ \A j \in Purchase!Of(m, h) \ {k} : m[k].seq > m[j].seq
      BY <1>11, <1>13, <3>0, <3>1
    <3>5. Purchase!Recorded(m, h) = m[k].target
      BY <3>3, <3>4, LatestRecorded
    <3>6. m[k] = movement[k]
      BY <1>11, <1>13, <3>0
    <3> QED
      BY <1>17, <1>18, <2>2, <3>2, <3>5, <3>6 DEF Latests, Desires
  <2> QED
    BY <2>1, <2>2
<1>19. Sum(Latests(m), Held(m)) = Purchase!Desired(g, aim)
  BY <1>3, <1>17, <1>18, SumSame, DesiredIsSum
<1>20. Purchase!Total(m) = Purchase!Bounded(Purchase!Desired(g, aim))
  <2> DEFINE f == [k \in Purchase!Moved(m) |-> m[k].delta]
             e == [k \in Purchase!Moved(movement) |-> movement[k].delta]
  <2>1. \A k \in Purchase!Moved(m) : f[k] \in Int
    <3>1. m[key].delta \in Int
      BY <1>2, <1>7
    <3>2. \A k \in Purchase!Moved(movement) : m[k].delta \in Int
      BY <1>11, MovedFacts
    <3> QED
      BY <1>10, <3>1, <3>2
  <2>2. Purchase!Total(m) = Sum(f, Purchase!Moved(m))
    BY <1>14, TotalIsSum
  <2>3. Purchase!Moved(m) \ {key} = Purchase!Moved(movement) /\ key \in Purchase!Moved(m)
    BY <1>10
  <2>4. \A k \in Purchase!Moved(movement) : f[k] = e[k]
    BY <1>10, <1>11
  <2>5. Purchase!Total(movement) = Sum(e, Purchase!Moved(movement))
    BY <1>8, TotalIsSum
  <2>6. f[key] = d
    <3>1. m[key].delta = d
      BY <1>2
    <3> QED
      BY <1>10, <3>1
  <2> HIDE DEF f, e
  <2>7. Sum(f, Purchase!Moved(m)) = f[key] + Sum(f, Purchase!Moved(movement))
    BY <1>14, <2>1, <2>3, SumOfAny
  <2>8. Sum(f, Purchase!Moved(movement)) = Sum(e, Purchase!Moved(movement))
    BY <1>8, <2>4, SumSame
  <2>9. Purchase!Total(m) = d + Purchase!Total(movement)
    BY <2>2, <2>5, <2>6, <2>7, <2>8
  <2> QED
    BY <1>6, <2>9 DEF d
<1>21. Purchase!AddsUp'
  BY <1>3, <1>17, <1>19, <1>20, AddsUpNext DEF m, AddsUpOf
<1> QED
  BY <1>2, <1>9, <1>10, <1>11, <1>12, <1>16, <1>21 DEF m, aim

LEMMA AgeNext == Purchase!TypeOK' => \A g \in Purchase!Groups : Age(Purchase!AtStripe(g)') \in Nat
<1>1. Purchase!TypeOK => \A g \in Purchase!Groups : Age(Purchase!AtStripe(g)) \in Nat
  BY StripeFacts
<1>2. (Purchase!TypeOK => \A g \in Purchase!Groups : Age(Purchase!AtStripe(g)) \in Nat)'
  BY <1>1, PTL
<1> QED
  BY <1>2

LEMMA AddsUpStays == ASSUME UNCHANGED movement, Purchase!AddsUp PROVE Purchase!AddsUp'
<1>1. IsFiniteSet(Held(movement)) /\ Held(movement') = Held(movement)
  BY GroupsFinite DEF Held
<1>2. AddsUpOf(movement)
  BY <1>1, AddsUpIs
<1>3. AddsUpOf(movement')
  BY <1>2
<1> QED
  BY <1>1, <1>3, AddsUpNext

LEMMA ComesStays ==
    ASSUME Purchase!TypeOK, Purchase!TypeOK', NEW h \in Purchase!Groups, NEW k \in Purchase!Keys, Comes(k, Purchase!AtStripe(h)),
           \/ Purchase!AtStripe(h)' = Purchase!AtStripe(h)
           \/ Age(Purchase!AtStripe(h)) < Age(Purchase!AtStripe(h)')
    PROVE  Comes(k, Purchase!AtStripe(h)')
<1>1. Age(k) \in Nat /\ Age(Purchase!AtStripe(h)) \in Nat /\ Age(Purchase!AtStripe(h)') \in Nat
  BY KeyFacts, StripeFacts, AgeNext
<1>2. CASE Purchase!AtStripe(h)' = Purchase!AtStripe(h)
  BY <1>2
<1>3. CASE Age(Purchase!AtStripe(h)) < Age(Purchase!AtStripe(h)')
  <2>1. Age(k) <= Age(Purchase!AtStripe(h))
    BY <1>1 DEF Comes
  <2>2. Age(k) < Age(Purchase!AtStripe(h)')
    BY <1>1, <1>3, <2>1
  <2> QED
    BY <2>2 DEF Comes
<1> QED
  BY <1>2, <1>3

\* Without a movement the ledger is kept as long as Stripe only goes on.
LEMMA LedgerStays ==
    ASSUME Purchase!TypeOK, Purchase!TypeOK', Ledger, UNCHANGED movement,
           \A h \in Purchase!Groups : \/ Purchase!AtStripe(h)' = Purchase!AtStripe(h)
                               \/ Age(Purchase!AtStripe(h)) < Age(Purchase!AtStripe(h)')
    PROVE  Ledger'
<1>1. Purchase!Moved(movement') = Purchase!Moved(movement)
  OBVIOUS
<1>2. Counted'
  BY DEF Ledger, Counted
<1>3. ASSUME NEW k \in Purchase!Moved(movement) PROVE Comes(k, Purchase!AtStripe(k[1])')
  BY MovedFacts, ComesStays DEF Ledger, Follow, Holder
<1>4. Follow'
  BY <1>1, <1>3 DEF Ledger, Follow, Holder
<1> QED
  BY <1>2, <1>4, AddsUpStays DEF Ledger

\* Stripe goes on with a group, and sends an event.
LEMMA StripeGoesOn ==
    ASSUME PInv, Purchase!TypeOK', NEW g \in Purchase!Groups,
           Purchase!Event(g), UNCHANGED <<worker, movement, overlapped>>,
           Age(Purchase!AtStripe(g)) < Age(Purchase!AtStripe(g)'),
           \A h \in Purchase!Groups \ {g} : Purchase!AtStripe(h)' = Purchase!AtStripe(h)
    PROVE  PInv'
<1>1. /\ jobs'[g] = jobs[g] + 1 /\ jobs[g] \in Nat
      /\ \A h \in Purchase!Groups \ {g} : jobs'[h] = jobs[h]
  BY DEF Purchase!Event, PInv, Purchase!TypeOK
<1>2. Ledger'
  BY LedgerStays DEF PInv
<1>3. InTurn'
  BY DEF InTurn, Before, Purchase!Busy, PInv, Course
<1>4. Reads'
  <2> SUFFICES ASSUME NEW w \in Workers, worker[w].phase = "read"
               PROVE  Comes(worker[w].key, Purchase!AtStripe(worker[w].group)')
    BY DEF Reads, PInv, Course
  <2>1. PICK h \in Purchase!Groups, k \in Purchase!Keys :
          h = worker[w].group /\ k = worker[w].key /\ Comes(k, Purchase!AtStripe(h))
    BY DEF Reads, PInv, Course, Purchase!TypeOK
  <2>2. Comes(k, Purchase!AtStripe(h)')
    BY <2>1, ComesStays DEF PInv
  <2> QED
    BY <2>1, <2>2 DEF Purchase!AtStripe
<1>5. Begun'
  <2>1. Age(Purchase!AtStripe(g)) \in Nat
    BY StripeFacts DEF PInv
  <2>2. Age(Purchase!AtStripe(g)') > 0
    BY <2>1, AgeNext
  <2>3. \A h \in Purchase!Groups \ {g} :
          jobs'[h] > 0 \/ (\E w \in Workers : Purchase!Busy(w, h)') => Age(Purchase!AtStripe(h)') > 0
    BY <1>1 DEF Begun, Purchase!Busy, PInv, Course
  <2> QED
    BY <2>2, <2>3 DEF Begun
<1>6. Heard'
  <2>1. jobs'[g] > 0
    BY <1>1
  <2>2. \A h \in Purchase!Groups \ {g} : Age(Purchase!AtStripe(h)') > 0 =>
          \/ jobs'[h] > 0
          \/ Purchase!AtStripe(h)' \in Purchase!Moved(movement')
          \/ \E w \in Workers : Brings(w, h)'
    BY <1>1 DEF Heard, Brings, Purchase!Busy, PInv, Course
  <2> QED
    BY <2>1, <2>2 DEF Heard
<1> QED
  BY <1>2, <1>3, <1>4, <1>5, <1>6 DEF PInv, Course

\* What executions do leaves Stripe alone.
LEMMA StripeSame ==
    ASSUME UNCHANGED <<refunded, dispute>>
    PROVE  \A h : Purchase!AtStripe(h)' = Purchase!AtStripe(h)
  BY DEF Purchase!AtStripe

LEMMA BusyFacts ==
    ASSUME Purchase!TypeOK, NEW w \in Workers, worker[w].phase # "idle"
    PROVE  worker[w].group \in Purchase!Groups /\ Purchase!Busy(w, worker[w].group)
  BY DEF Purchase!TypeOK, Purchase!Busy

\* An execution takes an event: if another one of the group is at it, they overlap.
LEMMA TakeKeeps ==
    ASSUME PInv, Purchase!TypeOK', NEW w \in Workers, NEW g \in Purchase!Groups, Purchase!Take(w, g)
    PROVE  PInv'
<1>1. /\ worker[w].phase = "idle" /\ worker'[w] = [phase |-> "reading", group |-> g, key |-> Null]
      /\ \A v \in Workers \ {w} : worker'[v] = worker[v]
      /\ jobs[g] > 0 /\ \A h \in Purchase!Groups \ {g} : jobs'[h] = jobs[h]
      /\ UNCHANGED <<refunded, dispute, movement>>
      /\ overlapped \subseteq overlapped'
      /\ (\E v \in Workers : Purchase!Busy(v, g)) => g \in overlapped'
  BY DEF Purchase!Take, PInv, Purchase!TypeOK, Purchase!atStripe
<1>2. \A h \in Purchase!Groups : Purchase!AtStripe(h)' = Purchase!AtStripe(h)
  BY <1>1, StripeSame
<1>3. Ledger'
  BY <1>1, <1>2, LedgerStays DEF PInv
<1>4. \A v \in Workers, h \in Purchase!Groups : Purchase!Busy(v, h)' <=> (v # w /\ Purchase!Busy(v, h)) \/ (v = w /\ h = g)
  BY <1>1 DEF Purchase!Busy
<1>5. InTurn'
  <2> SUFFICES ASSUME NEW h \in Purchase!Groups \ overlapped'
               PROVE  /\ \A u, v \in Workers : Purchase!Busy(u, h)' /\ Purchase!Busy(v, h)' => u = v
                      /\ \A k, j \in Purchase!Of(movement, h) : k # j => Before(k, j) \/ Before(j, k)
                      /\ \A v \in Workers : worker'[v].phase = "read" /\ worker'[v].group = h =>
                            \A k \in Purchase!Of(movement, h) : Comes(k, worker'[v].key)
    BY <1>1 DEF InTurn, Before
  <2>1. h \in Purchase!Groups \ overlapped
    BY <1>1
  <2>2. \A u, v \in Workers : Purchase!Busy(u, h)' /\ Purchase!Busy(v, h)' => u = v
    BY <1>1, <1>4, <2>1 DEF InTurn, PInv, Course
  <2>3. \A v \in Workers : worker'[v].phase = "read" => worker'[v] = worker[v]
    BY <1>1
  <2> QED
    BY <2>1, <2>2, <2>3 DEF InTurn, PInv, Course
<1>6. Reads'
  <2> SUFFICES ASSUME NEW v \in Workers, worker'[v].phase = "read"
               PROVE  /\ worker'[v].key \in Purchase!Keys /\ worker'[v].key[1] = worker'[v].group
                      /\ Comes(worker[v].key, Purchase!AtStripe(worker[v].group))
                      /\ worker'[v] = worker[v]
    BY <1>1 DEF Reads, Purchase!AtStripe
  <2>1. worker'[v] = worker[v]
    BY <1>1
  <2> QED
    BY <2>1 DEF Reads, PInv, Course
<1>7. Begun'
  BY <1>1, <1>2, <1>4 DEF Begun, PInv, Course
<1>8. Heard'
  <2>1. Brings(w, g)'
    BY <1>1, <1>4 DEF Brings
  <2>2. \A h \in Purchase!Groups, v \in Workers : Brings(v, h) => Brings(v, h)'
    BY <1>1, <1>2, <1>4 DEF Brings, Purchase!Busy
  <2> QED
    BY <1>1, <1>2, <2>1, <2>2 DEF Heard, PInv, Course
<1> QED
  BY <1>3, <1>5, <1>6, <1>7, <1>8 DEF PInv, Course

\* An execution reads what Stripe says now: whatever is recorded came before.
LEMMA ReadKeeps ==
    ASSUME PInv, Purchase!TypeOK', NEW w \in Workers, Purchase!Read(w)
    PROVE  PInv'
<1>0. PICK g \in Purchase!Groups : worker[w].group = g /\ Purchase!Busy(w, g) /\ worker[w].phase = "reading"
  BY DEF Purchase!Read, Purchase!Busy, PInv, Purchase!TypeOK
<1>1. /\ worker'[w].phase = "read" /\ worker'[w].group = g /\ worker'[w].key = Purchase!AtStripe(g)
      /\ \A v \in Workers \ {w} : worker'[v] = worker[v]
      /\ UNCHANGED <<refunded, dispute, movement, jobs, overlapped>>
  BY <1>0 DEF Purchase!Read, PInv, Purchase!TypeOK, Purchase!atStripe
<1>2. \A h \in Purchase!Groups : Purchase!AtStripe(h)' = Purchase!AtStripe(h)
  BY <1>1, StripeSame
<1>3. Ledger'
  BY <1>1, <1>2, LedgerStays DEF PInv
<1>4. \A v \in Workers, h \in Purchase!Groups : Purchase!Busy(v, h)' <=> Purchase!Busy(v, h)
  BY <1>0, <1>1 DEF Purchase!Busy
<1>5. Purchase!AtStripe(g) \in Purchase!Keys /\ Purchase!AtStripe(g)[1] = g
  BY <1>0, StripeFacts DEF Begun, PInv, Course
<1>6. InTurn'
  <2> SUFFICES ASSUME NEW h \in Purchase!Groups \ overlapped
               PROVE  /\ \A u, v \in Workers : Purchase!Busy(u, h)' /\ Purchase!Busy(v, h)' => u = v
                      /\ \A k, j \in Purchase!Of(movement, h) : k # j => Before(k, j) \/ Before(j, k)
                      /\ \A v \in Workers : worker'[v].phase = "read" /\ worker'[v].group = h =>
                            \A k \in Purchase!Of(movement, h) : Comes(k, worker'[v].key)
    BY <1>1 DEF InTurn, Before
  <2>1. \A u, v \in Workers : Purchase!Busy(u, h)' /\ Purchase!Busy(v, h)' => u = v
    BY <1>4 DEF InTurn, PInv, Course
  <2>2. \A k \in Purchase!Of(movement, g) : Comes(k, Purchase!AtStripe(g))
    BY DEF Purchase!Of, PInv, Ledger, Follow, Holder
  <2> QED
    BY <1>1, <2>1, <2>2 DEF InTurn, PInv, Course
<1>7. Reads'
  <2> SUFFICES ASSUME NEW v \in Workers, worker'[v].phase = "read"
               PROVE  /\ worker'[v].key \in Purchase!Keys /\ worker'[v].key[1] = worker'[v].group
                      /\ Comes(worker'[v].key, Purchase!AtStripe(worker[v].group))
                      /\ worker'[v].group = worker[v].group
    BY <1>1 DEF Reads, Purchase!AtStripe
  <2>1. CASE v = w
    BY <1>0, <1>1, <1>5, <2>1 DEF Comes
  <2>2. CASE v # w
    BY <1>1, <2>2 DEF Reads, PInv, Course
  <2> QED
    BY <2>1, <2>2
<1>8. Begun'
  BY <1>1, <1>2, <1>4 DEF Begun, PInv, Course
<1>9. Heard'
  <2>1. \A h \in Purchase!Groups, v \in Workers : Brings(v, h) => Brings(v, h)'
    BY <1>0, <1>1, <1>2, <1>4 DEF Brings, Purchase!Busy
  <2> QED
    BY <1>1, <1>2, <2>1 DEF Heard, PInv, Course
<1> QED
  BY <1>3, <1>6, <1>7, <1>8, <1>9 DEF PInv, Course

\* An execution ends, or is done with the ledger: either its event is tried again, or
\* what Stripe says is recorded, or somebody else brings it.
LEMMA LeavesKeeps ==
    ASSUME PInv, Purchase!TypeOK', NEW w \in Workers, NEW g \in Purchase!Groups,
           Purchase!Busy(w, g), UNCHANGED <<refunded, dispute, movement, overlapped>>,
           \A v \in Workers \ {w} : worker'[v] = worker[v],
           worker'[w].phase = "idle" \/ (worker'[w].phase = "marking" /\ worker'[w].group = g),
           jobs'[g] > 0 => jobs[g] > 0 \/ Purchase!Busy(w, g),
           jobs[g] > 0 => jobs'[g] > 0,
           \A h \in Purchase!Groups \ {g} : jobs'[h] = jobs[h],
           Brings(w, g) => jobs'[g] > 0 \/ Purchase!AtStripe(g) \in Purchase!Moved(movement)
    PROVE  PInv'
<1>1. \A h \in Purchase!Groups : Purchase!AtStripe(h)' = Purchase!AtStripe(h)
  BY StripeSame
<1>2. Ledger'
  BY <1>1, LedgerStays DEF PInv
<1>3. \A v \in Workers, h \in Purchase!Groups : Purchase!Busy(v, h)' => Purchase!Busy(v, h)
  BY DEF Purchase!Busy
<1>4. \A v \in Workers : worker'[v].phase = "read" => worker'[v] = worker[v]
  OBVIOUS
<1>5. InTurn'
  <2> SUFFICES ASSUME NEW h \in Purchase!Groups \ overlapped
               PROVE  /\ \A u, v \in Workers : Purchase!Busy(u, h)' /\ Purchase!Busy(v, h)' => u = v
                      /\ \A k, j \in Purchase!Of(movement, h) : k # j => Before(k, j) \/ Before(j, k)
                      /\ \A v \in Workers : worker'[v].phase = "read" /\ worker'[v].group = h =>
                            \A k \in Purchase!Of(movement, h) : Comes(k, worker'[v].key)
    BY DEF InTurn, Before
  <2> QED
    BY <1>3, <1>4 DEF InTurn, PInv, Course
<1>6. Reads'
  <2> SUFFICES ASSUME NEW v \in Workers, worker'[v].phase = "read"
               PROVE  /\ worker'[v].key \in Purchase!Keys /\ worker'[v].key[1] = worker'[v].group
                      /\ Comes(worker[v].key, Purchase!AtStripe(worker[v].group))
                      /\ worker'[v] = worker[v]
    BY DEF Reads, Purchase!AtStripe
  <2> QED
    BY <1>4 DEF Reads, PInv, Course
<1>7. Begun'
  BY <1>1, <1>3 DEF Begun, PInv, Course
<1>8. Heard'
  <2>1. \A h \in Purchase!Groups, v \in Workers : v # w /\ Brings(v, h) => Brings(v, h)'
    BY <1>1 DEF Brings, Purchase!Busy
  <2>2. \A h \in Purchase!Groups : Brings(w, h) => h = g
    BY DEF Brings, Purchase!Busy
  <2>3. ASSUME NEW h \in Purchase!Groups, Age(Purchase!AtStripe(h)) > 0
        PROVE  \/ jobs'[h] > 0
               \/ Purchase!AtStripe(h) \in Purchase!Moved(movement)
               \/ \E v \in Workers : Brings(v, h)'
    <3>1. CASE jobs[h] > 0 \/ Purchase!AtStripe(h) \in Purchase!Moved(movement)
      BY <3>1
    <3>2. CASE \E v \in Workers : Brings(v, h)
      BY <2>1, <2>2, <3>2
    <3> QED
      BY <2>3, <3>1, <3>2 DEF Heard, PInv, Course
  <2> QED
    BY <1>1, <2>3 DEF Heard
<1> QED
  BY <1>2, <1>5, <1>6, <1>7, <1>8 DEF PInv, Course

\* A movement is set: it comes after those of its group, for it was read after them.
LEMMA SetKeeps ==
    ASSUME PInv, Purchase!TypeOK', NEW w \in Workers, NEW g \in Purchase!Groups, NEW key \in Purchase!Keys,
           worker[w].phase = "read", worker[w].group = g, worker[w].key = key,
           movement[key] = Null, Purchase!SetMovement(g, key),
           worker'[w].phase = "marking", worker'[w].group = g,
           \A v \in Workers \ {w} : worker'[v] = worker[v],
           UNCHANGED <<refunded, dispute, jobs, overlapped>>
    PROVE  PInv'
<1>0. key[1] = g /\ Comes(key, Purchase!AtStripe(g)) /\ Purchase!Busy(w, g)
  BY DEF Reads, PInv, Course, Purchase!Busy
<1>1. /\ Purchase!Moved(movement') = Purchase!Moved(movement) \union {key}
      /\ movement'[key].target = Purchase!Target(key)
      /\ \A k \in Purchase!Moved(movement) : movement'[k] = movement[k] /\ movement[k].seq < movement'[key].seq
      /\ Counted' /\ Purchase!AddsUp'
  BY <1>0, SetKeepsLedger DEF PInv
<1>2. \A h : Purchase!AtStripe(h)' = Purchase!AtStripe(h)
  BY StripeSame
<1>3. Follow'
  <2> SUFFICES ASSUME NEW k \in Purchase!Moved(movement')
               PROVE  Comes(k, Purchase!AtStripe(k[1])) /\ movement'[k].target = Purchase!Target(k)
    BY <1>2 DEF Follow, Holder
  <2>1. CASE k = key
    BY <1>0, <1>1, <2>1
  <2>2. CASE k # key
    BY <1>1, <2>2 DEF PInv, Ledger, Follow, Holder
  <2> QED
    BY <2>1, <2>2
<1>4. \A v \in Workers, h \in Purchase!Groups : Purchase!Busy(v, h)' <=> Purchase!Busy(v, h)
  BY DEF Purchase!Busy
<1>5. /\ Purchase!Of(movement', g) = Purchase!Of(movement, g) \union {key}
      /\ \A h \in Purchase!Groups \ {g} : Purchase!Of(movement', h) = Purchase!Of(movement, h)
      /\ \A h \in Purchase!Groups : Purchase!Of(movement, h) \subseteq Purchase!Moved(movement)
  BY <1>0, <1>1 DEF Purchase!Of
<1>6. key \notin Purchase!Moved(movement)
  BY DEF Purchase!Moved
<1>7. InTurn'
  <2> SUFFICES ASSUME NEW h \in Purchase!Groups \ overlapped
               PROVE  /\ \A u, v \in Workers : Purchase!Busy(u, h)' /\ Purchase!Busy(v, h)' => u = v
                      /\ \A k, j \in Purchase!Of(movement', h) : k # j => Before(k, j)' \/ Before(j, k)'
                      /\ \A v \in Workers : worker'[v].phase = "read" /\ worker'[v].group = h =>
                            \A k \in Purchase!Of(movement', h) : Comes(k, worker'[v].key)
    BY DEF InTurn, Before
  <2>1. \A u, v \in Workers : Purchase!Busy(u, h)' /\ Purchase!Busy(v, h)' => u = v
    BY <1>4 DEF InTurn, PInv, Course
  <2>2. \A k, j \in Purchase!Of(movement, h) : k # j => Before(k, j)' \/ Before(j, k)'
    BY <1>1, <1>5 DEF InTurn, PInv, Course, Before
  <2>3. CASE h = g
    <3>1. \A k \in Purchase!Of(movement, g) : Before(k, key)'
      BY <1>1, <1>5, <1>6, <2>3 DEF InTurn, PInv, Course, Comes, Before
    <3>2. \A v \in Workers : ~(worker'[v].phase = "read" /\ worker'[v].group = h)
      <4> SUFFICES ASSUME NEW v \in Workers, worker'[v].phase = "read", worker'[v].group = h
                   PROVE  FALSE
        OBVIOUS
      <4>1. v # w /\ Purchase!Busy(v, g)' /\ Purchase!Busy(w, g)'
        BY <2>3 DEF Purchase!Busy
      <4> QED
        BY <2>1, <2>3, <4>1
    <3> QED
      BY <1>5, <2>1, <2>2, <2>3, <3>1, <3>2
  <2>4. CASE h # g
    <3>1. \A v \in Workers : worker'[v].phase = "read" => worker'[v] = worker[v]
      OBVIOUS
    <3> QED
      BY <1>5, <2>1, <2>2, <2>4, <3>1 DEF InTurn, PInv, Course
  <2> QED
    BY <2>3, <2>4
<1>8. Reads'
  <2> SUFFICES ASSUME NEW v \in Workers, worker'[v].phase = "read"
               PROVE  /\ worker'[v].key \in Purchase!Keys /\ worker'[v].key[1] = worker'[v].group
                      /\ Comes(worker[v].key, Purchase!AtStripe(worker[v].group))
                      /\ worker'[v] = worker[v]
    BY DEF Reads, Purchase!AtStripe
  <2>1. worker'[v] = worker[v]
    OBVIOUS
  <2> QED
    BY <2>1 DEF Reads, PInv, Course
<1>9. Begun'
  BY <1>2, <1>4 DEF Begun, PInv, Course
<1>10. Heard'
  <2>1. \A h \in Purchase!Groups, v \in Workers : v # w /\ Brings(v, h) => Brings(v, h)'
    BY <1>2 DEF Brings, Purchase!Busy
  <2>2. \A h \in Purchase!Groups : Brings(w, h) => h = g /\ key = Purchase!AtStripe(h)
    BY DEF Brings, Purchase!Busy
  <2>3. ASSUME NEW h \in Purchase!Groups, Age(Purchase!AtStripe(h)) > 0
        PROVE  \/ jobs'[h] > 0
               \/ Purchase!AtStripe(h) \in Purchase!Moved(movement')
               \/ \E v \in Workers : Brings(v, h)'
    <3>1. CASE jobs[h] > 0 \/ Purchase!AtStripe(h) \in Purchase!Moved(movement)
      BY <1>1, <3>1
    <3>2. CASE \E v \in Workers : Brings(v, h)
      BY <1>1, <2>1, <2>2, <3>2
    <3> QED
      BY <2>3, <3>1, <3>2 DEF Heard, PInv, Course
  <2> QED
    BY <1>2, <2>3 DEF Heard
<1> QED
  BY <1>1, <1>3, <1>7, <1>8, <1>9, <1>10 DEF PInv, Course, Ledger

\* Every step of the events of a purchase keeps the invariant.
LEMMA RefundKeeps == ASSUME PInv, Purchase!Refund PROVE PInv'
<1> USE PurchaseAssumption
<1>1. /\ "refund" \in Purchase!Groups /\ refunded' \in 0..Paid /\ refunded < refunded'
      /\ UNCHANGED <<dispute, credited, worker, movement, overlapped, deaths>>
      /\ Purchase!Event("refund")
  BY DEF Purchase!Refund, Purchase!Groups, PInv, Purchase!TypeOK
<1>2. Purchase!TypeOK'
  BY <1>1 DEF Purchase!Event, PInv, Purchase!TypeOK
<1>3. \A h \in Purchase!Groups \ {"refund"} : Purchase!AtStripe(h)' = Purchase!AtStripe(h)
  BY <1>1 DEF Purchase!AtStripe
<1>4. Age(Purchase!AtStripe("refund")) < Age(Purchase!AtStripe("refund")')
  BY <1>1 DEF Purchase!AtStripe, Age
<1> QED
  BY <1>1, <1>2, <1>3, <1>4, StripeGoesOn

LEMMA ContestKeeps == ASSUME PInv, NEW d \in Disputes, Purchase!Contest(d) PROVE PInv'
<1> USE PurchaseAssumption
<1>1. PICK status \in Purchase!Follows(dispute[d]) : dispute' = [dispute EXCEPT ![d] = status]
  BY DEF Purchase!Contest
<1>2. /\ d \in Purchase!Groups /\ d # "refund" /\ dispute[d] \in Purchase!DisputeStatuses
      /\ UNCHANGED <<refunded, credited, worker, movement, overlapped, deaths>>
      /\ Purchase!Event(d)
  BY DEF Purchase!Contest, Purchase!Groups, PInv, Purchase!TypeOK
<1>3. status \in Purchase!DisputeStatuses /\ Stage(dispute[d]) < Stage(status)
  BY <1>1, <1>2 DEF Purchase!Follows, Purchase!DisputeStatuses, Purchase!Withdrawn, Stage
<1>4. dispute'[d] = status /\ \A h \in Disputes \ {d} : dispute'[h] = dispute[h]
  BY <1>1 DEF PInv, Purchase!TypeOK
<1>5. Purchase!TypeOK'
  BY <1>1, <1>2, <1>3 DEF Purchase!Event, PInv, Purchase!TypeOK
<1>6. \A h \in Purchase!Groups \ {d} : Purchase!AtStripe(h)' = Purchase!AtStripe(h)
  BY <1>2, <1>4 DEF Purchase!AtStripe, Purchase!Groups
<1>7. Age(Purchase!AtStripe(d)) < Age(Purchase!AtStripe(d)')
  BY <1>2, <1>3, <1>4 DEF Purchase!AtStripe, Age
<1> QED
  BY <1>2, <1>5, <1>6, <1>7, StripeGoesOn

LEMMA CreditKeeps == ASSUME PInv, Purchase!Credit PROVE PInv'
<1>1. /\ UNCHANGED <<refunded, dispute, jobs, worker, movement, overlapped, deaths>> /\ credited' = TRUE
  BY DEF Purchase!Credit, Purchase!atStripe
<1>2. Purchase!TypeOK'
  BY <1>1 DEF PInv, Purchase!TypeOK
<1>3. \A h : Purchase!AtStripe(h)' = Purchase!AtStripe(h)
  BY <1>1, StripeSame
<1>4. Ledger'
  BY <1>1, <1>2, <1>3, LedgerStays DEF PInv
<1>5. InTurn'
  BY <1>1 DEF InTurn, Before, Purchase!Busy, PInv, Course
<1>6. Reads'
  BY <1>1 DEF Reads, Purchase!AtStripe, PInv, Course
<1>7. Begun'
  BY <1>1, <1>3 DEF Begun, Purchase!Busy, PInv, Course
<1>8. Heard'
  BY <1>1, <1>3 DEF Heard, Brings, Purchase!Busy, PInv, Course
<1> QED
  BY <1>2, <1>4, <1>5, <1>6, <1>7, <1>8 DEF PInv, Course

\* An execution that fails leaves its event to the next one.
LEMMA RetryKeeps ==
    ASSUME PInv, NEW w \in Workers, worker[w].phase # "idle", Purchase!Retry(w),
           UNCHANGED <<refunded, dispute, credited, movement, overlapped>>, deaths' \in 0..MaxFaults
    PROVE  PInv'
<1>0. PICK g \in Purchase!Groups : worker[w].group = g /\ Purchase!Busy(w, g)
  BY BusyFacts DEF PInv
<1>1. /\ worker'[w] = Purchase!Idle /\ \A v \in Workers \ {w} : worker'[v] = worker[v]
      /\ worker' = [worker EXCEPT ![w] = Purchase!Idle]
      /\ jobs' = [jobs EXCEPT ![g] = @ + 1] /\ jobs'[g] > 0
      /\ \A h \in Purchase!Groups \ {g} : jobs'[h] = jobs[h]
  BY <1>0 DEF Purchase!Retry, Purchase!Event, PInv, Purchase!TypeOK
<1>2. Purchase!TypeOK'
  <2>1. Purchase!Idle \in [phase : {"idle", "reading", "read", "marking"}, group : Purchase!Groups, key : Purchase!Keys \union {Null}]
    BY DEF Purchase!Idle, Purchase!Groups
  <2> QED
    BY <1>1, <2>1 DEF PInv, Purchase!TypeOK
<1>3. worker'[w].phase = "idle"
  BY <1>1 DEF Purchase!Idle
<1> QED
  BY <1>0, <1>1, <1>2, <1>3, LeavesKeeps

LEMMA ApplyKeeps == ASSUME PInv, NEW w \in Workers, Purchase!Apply(w) PROVE PInv'
<1>0. PICK g \in Purchase!Groups, key \in Purchase!Keys :
        worker[w].group = g /\ worker[w].key = key /\ worker[w].phase = "read" /\ Purchase!Busy(w, g)
  BY BusyFacts DEF Purchase!Apply, PInv, Course, Reads
<1>1. /\ worker'[w].phase = "marking" /\ worker'[w].group = g
      /\ \A v \in Workers \ {w} : worker'[v] = worker[v]
      /\ UNCHANGED <<refunded, dispute, credited, jobs, overlapped, deaths>>
      /\ worker' \in [Workers -> [phase : {"idle", "reading", "read", "marking"},
                                  group : Purchase!Groups, key : Purchase!Keys \union {Null}]]
  BY <1>0 DEF Purchase!Apply, PInv, Purchase!TypeOK, Purchase!atStripe
<1>2. IF movement[key] # Null THEN UNCHANGED movement ELSE Purchase!SetMovement(g, key)
  BY <1>0 DEF Purchase!Apply, Purchase!WaitsForCredit
<1>3. CASE movement[key] # Null
  <2>1. Purchase!TypeOK'
    BY <1>1, <1>2, <1>3 DEF PInv, Purchase!TypeOK
  <2>2. Brings(w, g) => Purchase!AtStripe(g) \in Purchase!Moved(movement)
    BY <1>0, <1>3 DEF Brings, Purchase!Moved
  <2> QED
    BY <1>0, <1>1, <1>2, <1>3, <2>1, <2>2, LeavesKeeps
<1>4. CASE movement[key] = Null
  <2>1. key[1] = g
    BY <1>0 DEF PInv, Course, Reads
  <2>2. movement' \in [Purchase!Keys -> Purchase!Movement \union {Null}]
    BY <1>2, <1>4, <2>1, SetKeepsLedger DEF PInv
  <2>3. Purchase!TypeOK'
    BY <1>1, <2>2 DEF PInv, Purchase!TypeOK
  <2> QED
    BY <1>0, <1>1, <1>2, <1>4, <2>3, SetKeeps
<1> QED
  BY <1>3, <1>4

LEMMA MarkKeeps == ASSUME PInv, NEW w \in Workers, Purchase!Mark(w) PROVE PInv'
<1>0. PICK g \in Purchase!Groups : worker[w].group = g /\ Purchase!Busy(w, g) /\ worker[w].phase = "marking"
  BY BusyFacts DEF Purchase!Mark, PInv
<1>1. /\ worker' = [worker EXCEPT ![w] = Purchase!Idle]
      /\ UNCHANGED <<refunded, dispute, credited, jobs, movement, overlapped, deaths>>
  BY DEF Purchase!Mark, Purchase!atStripe
<1>2. worker'[w] = Purchase!Idle /\ \A v \in Workers \ {w} : worker'[v] = worker[v]
  BY <1>1 DEF PInv, Purchase!TypeOK
<1>3. Purchase!TypeOK'
  <2>1. Purchase!Idle \in [phase : {"idle", "reading", "read", "marking"}, group : Purchase!Groups, key : Purchase!Keys \union {Null}]
    BY DEF Purchase!Idle, Purchase!Groups
  <2> QED
    BY <1>1, <2>1 DEF PInv, Purchase!TypeOK
<1>4. worker'[w].phase = "idle" /\ ~Brings(w, g)
  BY <1>0, <1>2 DEF Purchase!Idle, Brings
<1> QED
  BY <1>0, <1>1, <1>2, <1>3, <1>4, LeavesKeeps

LEMMA PurchaseStep == PInv /\ [Purchase!Next]_(Purchase!vars) => PInv'
<1> SUFFICES ASSUME PInv, [Purchase!Next]_(Purchase!vars) PROVE PInv'
  OBVIOUS
<1>1. CASE UNCHANGED Purchase!vars
  <2>1. UNCHANGED <<refunded, dispute, credited, jobs, worker, movement, overlapped, deaths>>
    BY <1>1 DEF Purchase!vars
  <2>2. Purchase!TypeOK'
    BY <2>1 DEF PInv, Purchase!TypeOK
  <2>3. \A h : Purchase!AtStripe(h)' = Purchase!AtStripe(h)
    BY <2>1, StripeSame
  <2>4. Ledger'
    BY <2>1, <2>2, <2>3, LedgerStays DEF PInv
  <2>5. InTurn' /\ Reads'
    BY <2>1 DEF InTurn, Before, Purchase!Busy, Reads, Purchase!AtStripe, PInv, Course
  <2>6. Begun' /\ Heard'
    BY <2>1, <2>3 DEF Begun, Heard, Brings, Purchase!Busy, PInv, Course
  <2> QED
    BY <2>2, <2>4, <2>5, <2>6 DEF PInv, Course
<1>2. ASSUME NEW w \in Workers, NEW g \in Purchase!Groups, Purchase!Take(w, g) PROVE PInv'
  <2>1. Purchase!TypeOK'
    <3>1. worker' \in [Workers -> [phase : {"idle", "reading", "read", "marking"},
                                   group : Purchase!Groups, key : Purchase!Keys \union {Null}]]
      BY <1>2 DEF Purchase!Take, PInv, Purchase!TypeOK
    <3>2. jobs' \in [Purchase!Groups -> Nat] /\ overlapped' \subseteq Purchase!Groups
      BY <1>2 DEF Purchase!Take, PInv, Purchase!TypeOK
    <3> QED
      BY <1>2, <3>1, <3>2 DEF Purchase!Take, PInv, Purchase!TypeOK, Purchase!atStripe
  <2> QED
    BY <1>2, <2>1, TakeKeeps
<1>3. ASSUME NEW w \in Workers, Purchase!Read(w) PROVE PInv'
  <2>0. PICK g \in Purchase!Groups : worker[w].group = g /\ Purchase!Busy(w, g)
    BY <1>3, BusyFacts DEF Purchase!Read, PInv
  <2>1. Purchase!AtStripe(g) \in Purchase!Keys
    BY <2>0, StripeFacts DEF PInv, Course, Begun
  <2>2. worker' \in [Workers -> [phase : {"idle", "reading", "read", "marking"},
                                 group : Purchase!Groups, key : Purchase!Keys \union {Null}]]
    BY <1>3, <2>0, <2>1 DEF Purchase!Read, PInv, Purchase!TypeOK
  <2>3. Purchase!TypeOK'
    BY <1>3, <2>2 DEF Purchase!Read, PInv, Purchase!TypeOK, Purchase!atStripe
  <2> QED
    BY <1>3, <2>3, ReadKeeps
<1>4. ASSUME NEW w \in Workers, Purchase!NotCredited(w) PROVE PInv'
  BY <1>4, RetryKeeps DEF Purchase!NotCredited, PInv, Purchase!TypeOK, Purchase!atStripe
<1>5. ASSUME NEW w \in Workers, Purchase!Die(w) PROVE PInv'
  <2>1. deaths' \in 0..MaxFaults
    BY <1>5, BillingAssumption DEF Purchase!Die, PInv, Purchase!TypeOK
  <2> QED
    BY <1>5, <2>1, RetryKeeps DEF Purchase!Die, Purchase!atStripe
<1> QED
  BY <1>1, <1>2, <1>3, <1>4, <1>5, RefundKeeps, ContestKeeps, CreditKeeps, ApplyKeeps, MarkKeeps
  DEF Purchase!Next, Purchase!Step

LEMMA PurchaseBegins == Purchase!Init => PInv
<1> SUFFICES ASSUME Purchase!Init PROVE PInv
  OBVIOUS
<1> USE PurchaseAssumption
<1>1. Purchase!Moved(movement) = {} /\ \A g : Purchase!Of(movement, g) = {}
  BY DEF Purchase!Init, Purchase!Moved, Purchase!Of
<1>2. Purchase!TypeOK
  <2>1. Purchase!Idle \in [phase : {"idle", "reading", "read", "marking"}, group : Purchase!Groups, key : Purchase!Keys \union {Null}]
    BY DEF Purchase!Idle, Purchase!Groups
  <2>2. "none" \in Purchase!DisputeStatuses
    BY DEF Purchase!DisputeStatuses
  <2> QED
    <3>1. worker \in [Workers -> [phase : {"idle", "reading", "read", "marking"},
                                  group : Purchase!Groups, key : Purchase!Keys \union {Null}]]
      BY <2>1 DEF Purchase!Init
    <3>2. dispute \in [Disputes -> Purchase!DisputeStatuses] /\ movement \in [Purchase!Keys -> Purchase!Movement \union {Null}]
      BY <2>2 DEF Purchase!Init
    <3>3. jobs \in [Purchase!Groups -> Nat]
      BY DEF Purchase!Init
    <3>4. credited \in BOOLEAN
      BY Zenon DEF Purchase!Init
    <3>5. refunded \in 0..Paid /\ overlapped \subseteq Purchase!Groups /\ deaths \in 0..MaxFaults
      BY BillingAssumption DEF Purchase!Init
    <3> QED
      BY <3>1, <3>2, <3>3, <3>4, <3>5 DEF Purchase!TypeOK
<1>3. Follow /\ Counted
  BY <1>1, FS_EmptySet DEF Follow, Counted
<1>4. Purchase!AddsUp
  <2>1. Held(movement) = {}
    BY <1>1 DEF Held
  <2>2. Sum(Latests(movement), Held(movement)) = 0
    BY <2>1, SumOfNone
  <2>3. Purchase!Total(movement) = 0
    BY <1>1, FS_EmptySet, TotalIsSum, SumOfNone
  <2> QED
    BY <2>1, <2>2, <2>3, FS_EmptySet, AddsUpIs DEF AddsUpOf, Purchase!Bounded
<1>5. \A w \in Workers : worker[w].phase = "idle"
  BY DEF Purchase!Init, Purchase!Idle
<1>6. InTurn /\ Reads
  BY <1>1, <1>5 DEF InTurn, Reads, Purchase!Busy
<1>7. \A g \in Purchase!Groups : jobs[g] = 0 /\ Age(Purchase!AtStripe(g)) = 0
  BY DEF Purchase!Init, Purchase!AtStripe, Age, Stage, Purchase!Groups
<1>8. Begun /\ Heard
  BY <1>5, <1>7 DEF Begun, Heard, Purchase!Busy
<1> QED
  BY <1>2, <1>3, <1>4, <1>6, <1>8 DEF PInv, Ledger, Course

\* Once everything is processed the latest movement of each group is of what
\* Stripe says, so that they add up to what the payment lost.
LEMMA PurchaseHolds == PInv => Purchase!HoldsWhatWasLost
<1> SUFFICES ASSUME PInv, Purchase!Quiet, overlapped = {}
             PROVE  Purchase!Total(movement) = Purchase!Bounded(Purchase!Lost)
  BY DEF Purchase!HoldsWhatWasLost, Purchase!Bounded
<1> USE PurchaseAssumption
<1>1. \A g \in Purchase!Groups : Age(Purchase!AtStripe(g)) > 0 => Purchase!AtStripe(g) \in Purchase!Of(movement, g)
  <2>1. \A w \in Workers, g \in Purchase!Groups : ~Brings(w, g)
    BY DEF Purchase!Quiet, Brings, Purchase!Busy
  <2>2. \A g \in Purchase!Groups : Purchase!AtStripe(g)[1] = g
    BY StripeFacts DEF PInv
  <2> QED
    BY <2>1, <2>2 DEF Purchase!Quiet, PInv, Course, Heard, Purchase!Of
<1>2. \A g \in Held(movement) : Latests(movement)[g] = Losses[g]
  <2> SUFFICES ASSUME NEW g \in Held(movement) PROVE Purchase!Recorded(movement, g) = Purchase!Target(Purchase!AtStripe(g))
    BY DEF Latests, Losses, Held
  <2> DEFINE a == Purchase!AtStripe(g)
  <2>0. g \in Purchase!Groups /\ Age(a) \in Nat
    BY StripeFacts DEF Held, PInv
  <2>1. PICK i : i \in Purchase!Of(movement, g)
    BY DEF Held
  <2>2. \A k \in Purchase!Of(movement, g) : k \in Purchase!Moved(movement) /\ k \in Purchase!Keys /\ Age(k) \in Nat \ {0}
                                      /\ Comes(k, a) /\ movement[k].seq \in Nat
    BY MovedFacts, KeyFacts DEF Purchase!Of, PInv, Ledger, Follow, Holder
  <2>3. Age(a) > 0
    BY <2>0, <2>1, <2>2 DEF Comes
  <2>4. a \in Purchase!Of(movement, g)
    BY <1>1, <2>0, <2>3
  <2> HIDE DEF a
  <2>5. \A k \in Purchase!Of(movement, g) \ {a} : Before(k, a)
    <3> SUFFICES ASSUME NEW k \in Purchase!Of(movement, g) \ {a} PROVE Before(k, a)
      OBVIOUS
    <3>1. Before(k, a) \/ Before(a, k)
      BY <2>0, <2>4 DEF PInv, Course, InTurn
    <3>2. Age(k) < Age(a)
      BY <2>2 DEF Comes
    <3>3. Age(k) \in Nat /\ Age(a) \in Nat
      BY <2>0, <2>2
    <3> QED
      BY <3>1, <3>2, <3>3 DEF Before
  <2>6. \A k \in Purchase!Of(movement, g) \ {a} : movement[a].seq > movement[k].seq
    BY <2>2, <2>4, <2>5 DEF Before
  <2>7. Purchase!Recorded(movement, g) = movement[a].target
    BY <2>2, <2>4, <2>6, LatestRecorded
  <2> QED
    BY <2>2, <2>4, <2>7 DEF PInv, Ledger, Follow, a
<1>3. \A g \in Purchase!Groups : Losses[g] \in Int
  <2> SUFFICES ASSUME NEW g \in Purchase!Groups PROVE Purchase!Target(Purchase!AtStripe(g)) \in Int
    BY DEF Losses
  <2>1. CASE Age(Purchase!AtStripe(g)) = 0
    BY <2>1, StripeFacts DEF PInv
  <2>2. CASE Age(Purchase!AtStripe(g)) > 0
    BY <2>2, StripeFacts, KeyFacts DEF PInv
  <2> QED
    BY <2>1, <2>2, StripeFacts DEF PInv
<1>4. \A g \in Purchase!Groups \ Held(movement) : Losses[g] = 0
  <2> SUFFICES ASSUME NEW g \in Purchase!Groups \ Held(movement) PROVE Purchase!Target(Purchase!AtStripe(g)) = 0
    BY DEF Losses
  <2>1. ~(Age(Purchase!AtStripe(g)) > 0)
    BY <1>1 DEF Held
  <2> QED
    BY <2>1, StripeFacts DEF PInv
<1>5. Held(movement) \in SUBSET Purchase!Groups /\ IsFiniteSet(Purchase!Groups) /\ IsFiniteSet(Held(movement))
  BY GroupsFinite DEF Held
<1>6. Purchase!Lost = Sum(Losses, Held(movement))
  BY <1>3, <1>4, <1>5, LostIsSum, SumOfPart
<1>7. Sum(Latests(movement), Held(movement)) = Purchase!Lost
  BY <1>2, <1>5, <1>6, SumSame
<1> QED
  BY <1>5, <1>7, AddsUpIs DEF PInv, Ledger, AddsUpOf

-----------------------------------------------------------------------------
(* The events of Stripe *)

\* Every step is one of the events in question or leaves their state alone, so what
\* is proved of each holds of the whole.
LEMMA ProjectsToRow == EventsFairSpec => Spec
<1>1. EventsInit => Init
  BY DEF EventsInit
<1>2. [EventsNext]_all => [Next]_vars
  BY DEF EventsNext, OfSubscription, OfPayment, all
<1> QED
  BY <1>1, <1>2, PTL DEF EventsFairSpec, Spec

LEMMA PurchaseInvariant == EventsFairSpec => []PInv
<1>1. EventsInit => PInv
  BY PurchaseBegins DEF EventsInit
<1>2. [EventsNext]_all => [Purchase!Next]_(Purchase!vars)
  BY DEF EventsNext, OfSubscription, OfPayment, all, purchase, Purchase!vars
<1>3. PInv /\ [EventsNext]_all => PInv'
  BY <1>2, PurchaseStep
<1> QED
  BY <1>1, <1>3, PTL DEF EventsFairSpec

\* Every reachable state is well typed; the row always has a status and a trial end.
THEOREM TypeCorrect == EventsFairSpec => []TypeOK
  BY Invariant, ProjectsToRow, PTL DEF IInv

\* A slow reconciliation never overwrites a later one, for any set of them.
THEOREM Monotone == EventsFairSpec => NeverGoesBack
<1>1. IInv /\ [Next]_vars => [row'.asOf >= row.asOf]_vars
  BY StepKeeps
<1> QED
  BY <1>1, Invariant, ProjectsToRow, PTL DEF Spec, NeverGoesBack

\* The placeholder is canceled only once the paid subscription is shown, and the
\* row goes on showing it, for any set of reconciliations.
THEOREM PaidStays == EventsFairSpec => []CanceledOncePaid
  BY Invariant, ProjectsToRow, PTL DEF IInv

\* The movements of a purchase always add up to what its refund and its disputes came
\* to last; and when all events are processed, none of them next to another of its
\* group, they are what the payment lost by then: for any purchase, any number of
\* disputes and executions, and whatever the order, the retries and the deaths.
THEOREM PurchaseBooks == EventsFairSpec => []HoldsWhatWasLost
<1>1. PInv => HoldsWhatWasLost
  BY PurchaseHolds DEF HoldsWhatWasLost, PInv, Ledger
<1> QED
  BY <1>1, PurchaseInvariant, PTL
=============================================================================
