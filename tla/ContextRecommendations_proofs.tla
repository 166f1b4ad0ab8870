---------------------- MODULE ContextRecommendations_proofs ----------------------
(***************************************************************************)
(* What the analysis runs of a project keep, for any number of runs,       *)
(* findings, messages, decisions and faults.                               *)
(*                                                                         *)
(* DownvotesCovered and LinksStay rest on one invariant: a downvote that a *)
(* run answers for is linked or still carried by the run, and a run that   *)
(* is about to delete links of a downvote has left it one.  The second     *)
(* half of it is what makes the first stable; it is lost only when two     *)
(* runs delete at the same time (mixed).                                   *)
(***************************************************************************)
EXTENDS ContextRecommendations, SequenceTheorems, TLAPS

(***************************************************************************)
(* The state of a run                                                      *)
(***************************************************************************)

Present == {f \in Fingerprints : rec[f] # Null}

Plan == [insert : SUBSET Fingerprints, update : SUBSET Fingerprints, resolve : SUBSET Fingerprints]

Readings == UNION {[S -> {"open", "applied"}] : S \in SUBSET Fingerprints}
Clusters == UNION {[S -> SUBSET Messages] : S \in SUBSET Findings}

Run ==
    [phase : Phases, row : Nat, existing : Readings, dismissed : SUBSET Fingerprints,
     plan : Plan, todo : SUBSET Messages, clusters : Clusters,
     target : {<<>>} \union (Fingerprints \X SUBSET Messages),
     pairs : SUBSET (Fingerprints \X Messages), owed : SUBSET Messages]

Scope ==
    [passes : SUBSET Passes, findings : SUBSET Findings, messages : SUBSET Messages,
     runs : Nat, asks : SUBSET {"status", "vote", "cancel"}, decisions : Nat, faults : Nat]

Typed ==
    /\ rec \in [Fingerprints -> Statuses \union {Null}]
    /\ links \subseteq Present \X Messages
    /\ voted \subseteq Messages
    /\ rows \in Seq(RunRow)
    /\ pass \in [Passes -> Run]
    /\ \A p \in Passes : pass[p].row \in 0..Len(rows)
    /\ mixed \in BOOLEAN
    /\ scope \in Scope

\* A run names recommendations that are there: those it read, those it links to,
\* and the one whose links it is about to write.
Named(r) ==
    /\ DOMAIN r.existing \subseteq Present
    /\ r.pairs \subseteq Present \X Messages
    /\ r.phase \in {"find", "insert", "link"} => r.target \in Fingerprints \X SUBSET Messages
    /\ r.phase = "link" => r.target[1] \in Present

\* What a run is about to apply does not touch what it read as dismissed.
Apart(r) ==
    r.phase = "apply" =>
        /\ r.plan.update \subseteq DOMAIN r.existing
        /\ (r.plan.insert \union r.plan.update \union r.plan.resolve) \intersect r.dismissed = {}

\* The members of the clusters that come after the one of f, if f is one.
ToCome(r, f) == IF f \in Findings THEN UNION Range(r.clusters) ELSE {}

\* The downvotes a run still carries: unassigned, to be attached, in the cluster it
\* is at, or in one to come.
Carried(r) ==
    IF r.phase \in {"match", "ask", "left"} THEN r.todo
    ELSE IF r.phase = "attach" THEN r.todo \union {l[2] : l \in r.pairs}
    ELSE IF r.phase = "clusters" THEN UNION Range(r.clusters)
    ELSE IF r.phase \in {"find", "insert", "link"} THEN r.target[2] \union ToCome(r, r.target[1])
    ELSE {}

\* Each downvote a run answers for is covered, or the run carries it.
Answered(r) == r.owed \subseteq Covered \union Carried(r)

\* Of each downvote a run deletes links of it keeps one.
Keeps(r) ==
    r.phase = "delete" => \A l \in r.pairs : \E k \in links \ r.pairs : k[2] = l[2]

Sound == \A p \in Passes : Named(pass[p]) /\ Apart(pass[p])
Kept  == mixed \/ \A p \in Passes : Answered(pass[p]) /\ Keeps(pass[p])

RInv == Typed /\ Sound /\ Kept

-----------------------------------------------------------------------------
LEMMA RestingTyped == Resting \in Run
<1>1. <<>> \in [{} -> {"open", "applied"}] /\ <<>> \in [{} -> SUBSET Messages]
  OBVIOUS
<1>2. <<>> \in Readings /\ <<>> \in Clusters
  BY <1>1 DEF Readings, Clusters
<1> QED
  BY <1>2 DEF Resting, Run, Plan, Phases

LEMMA FailingTyped ==
    ASSUME Typed, NEW p \in Passes
    PROVE  /\ Failing(p) \in Run
           /\ Failing(p).row = pass[p].row /\ Failing(p).phase = "failing"
           /\ Failing(p).owed = {} /\ Failing(p).pairs = {}
           /\ Failing(p).existing = <<>>
BY RestingTyped DEF Failing, Typed, Run, Resting, Phases

LEMMA SettlingTyped ==
    ASSUME NEW r \in Run
    PROVE  /\ Settling(r) \in Run
           /\ Settling(r).row = r.row /\ Settling(r).phase = "normalize"
           /\ Settling(r).owed = r.owed /\ Settling(r).pairs = {}
           /\ Settling(r).existing = <<>>
BY RestingTyped DEF Settling, Run, Resting, Phases

\* One run moves, links may be added, and nothing that is there goes.
LEMMA Moves ==
    ASSUME RInv, NEW p \in Passes, NEW r \in Run, Go(p, r), r.row \in 0..Len(rows'),
           rec' \in [Fingerprints -> Statuses \union {Null}], Present \subseteq Present',
           links \subseteq links', links' \subseteq Present' \X Messages,
           voted' \subseteq Messages, rows' \in Seq(RunRow), Len(rows) <= Len(rows'),
           mixed' = mixed, scope' \in Scope,
           Named(r)', Apart(r), Answered(r)' \/ mixed, Keeps(r)' \/ mixed
    PROVE  RInv'
<1> USE DEF RInv
<1>1. /\ pass' \in [Passes -> Run] /\ pass'[p] = r
      /\ \A q \in Passes \ {p} : pass'[q] = pass[q]
  BY DEF Go, Typed
<1>2. Len(rows) \in Nat /\ Len(rows') \in Nat
  BY LenProperties DEF Typed
<1>3. \A q \in Passes : pass'[q].row \in 0..Len(rows')
  <2> SUFFICES ASSUME NEW q \in Passes, q # p PROVE pass'[q].row \in 0..Len(rows')
    BY <1>1
  <2>1. pass'[q] = pass[q] /\ pass[q].row \in 0..Len(rows)
    BY <1>1 DEF Typed
  <2> QED
    BY <1>2, <2>1
<1>4. Typed'
  BY <1>1, <1>3 DEF Typed
<1>5. Sound'
  <2> SUFFICES ASSUME NEW q \in Passes, q # p PROVE Named(pass[q])' /\ Apart(pass[q])'
    BY <1>1 DEF Sound, Named, Apart
  <2>1. Named(pass[q]) /\ Apart(pass[q]) /\ pass'[q] = pass[q]
    BY <1>1 DEF Sound
  <2> QED
    BY <2>1 DEF Named, Apart
<1>6. Covered \subseteq Covered'
  BY DEF Covered
<1>7. Kept'
  <2> SUFFICES ASSUME NEW q \in Passes, q # p, ~mixed PROVE Answered(pass[q])' /\ Keeps(pass[q])'
    BY <1>1 DEF Kept, Answered, Keeps, Carried
  <2>1. Answered(pass[q]) /\ Keeps(pass[q]) /\ pass'[q] = pass[q]
    BY <1>1 DEF Kept
  <2>2. Answered(pass[q])'
    BY <1>6, <2>1 DEF Answered, Carried
  <2>3. Keeps(pass[q])'
    BY <2>1 DEF Keeps
  <2> QED
    BY <2>2, <2>3
<1> QED
  BY <1>4, <1>5, <1>7

\* The same for a step that changes nothing but the run.
LEMMA MovesOn ==
    ASSUME RInv, NEW p \in Passes, NEW r \in Run, Go(p, r), r.row = pass[p].row,
           UNCHANGED <<data, rows>>, scope' \in Scope,
           Named(r), Apart(r), Answered(r) \/ mixed, Keeps(r) \/ mixed
    PROVE  RInv'
<1>1. rec' = rec /\ links' = links /\ voted' = voted /\ mixed' = mixed /\ rows' = rows
  BY DEF data
<1>2. Present' = Present /\ Covered' = Covered
  BY <1>1 DEF Present, Covered
<1>3. Named(r)' /\ (Answered(r)' \/ mixed) /\ (Keeps(r)' \/ mixed)
  BY <1>1, <1>2 DEF Named, Answered, Keeps
<1>4. r.row \in 0..Len(rows') /\ Len(rows) <= Len(rows')
  BY <1>1, LenProperties DEF RInv, Typed
<1> QED
  BY <1>1, <1>2, <1>3, <1>4, Moves DEF RInv, Typed

\* A run that gives up, or is over, carries nothing.
LEMMA Stops ==
    ASSUME RInv, NEW p \in Passes, NEW r \in {Failing(p), Resting}, Go(p, r),
           UNCHANGED data, rows' \in Seq(RunRow), Len(rows') = Len(rows), scope' \in Scope
    PROVE  RInv'
<1>1. r \in Run /\ r.owed = {} /\ r.pairs = {} /\ r.existing = <<>>
      /\ r.phase \in {"failing", "idle"} /\ r.row \in {0, pass[p].row}
  <2>1. CASE r = Failing(p)
    BY <2>1, FailingTyped DEF RInv
  <2>2. CASE r = Resting
    BY <2>2, RestingTyped DEF Resting
  <2> QED
    BY <2>1, <2>2
<1>2. rec' = rec /\ links' = links /\ voted' = voted /\ mixed' = mixed
  BY DEF data
<1>3. Present' = Present /\ Covered' = Covered
  BY <1>2 DEF Present, Covered
<1>4. Named(r)' /\ Apart(r) /\ Answered(r)' /\ Keeps(r)'
  BY <1>1 DEF Named, Apart, Answered, Keeps
<1>5. Len(rows) \in Nat /\ Len(rows) <= Len(rows') /\ r.row \in 0..Len(rows')
  BY <1>1, LenProperties DEF RInv, Typed
<1> QED
  BY <1>1, <1>2, <1>3, <1>4, <1>5, Moves DEF RInv, Typed

-----------------------------------------------------------------------------
(* What the agent finds *)

LEMMA SelectKeeps == ASSUME RInv, NEW p \in Passes, Select(p) PROVE RInv'
<1> DEFINE next == IF rows # <<>> /\ rows[Len(rows)] \in Running THEN "idle" ELSE "create"
           r == [pass[p] EXCEPT !.phase = next]
<1>1. pass[p] \in Run /\ Named(pass[p]) /\ pass[p].phase = "select"
  BY DEF RInv, Typed, Sound, Select, At
<1>2. next \in {"idle", "create"}
  OBVIOUS
<1>3. /\ r \in Run /\ r.row = pass[p].row /\ r.phase = next
      /\ r.existing = pass[p].existing /\ r.pairs = pass[p].pairs /\ r.owed = pass[p].owed
  BY <1>1, <1>2 DEF Run, Phases
<1>4. Go(p, r) /\ UNCHANGED <<data, rows, scope>>
  BY DEF Select, To
<1> HIDE DEF r, next
<1>5. Named(r) /\ Apart(r) /\ Keeps(r)
  BY <1>1, <1>2, <1>3 DEF Named, Apart, Keeps
<1>6. Answered(r) \/ mixed
  BY <1>1, <1>2, <1>3 DEF RInv, Kept, Answered, Carried
<1> QED
  BY <1>3, <1>4, <1>5, <1>6, MovesOn DEF RInv, Typed

LEMMA ReadExistingKeeps == ASSUME RInv, NEW p \in Passes, ReadExisting(p) PROVE RInv'
<1> DEFINE r == [pass[p] EXCEPT !.phase = "dismissed", !.existing = Restrict(rec, Reconcilable)]
<1>1. pass[p] \in Run /\ Named(pass[p]) /\ pass[p].phase = "existing"
  BY DEF RInv, Typed, Sound, ReadExisting, At
<1>2. /\ Restrict(rec, Reconcilable) \in [Reconcilable -> {"open", "applied"}]
      /\ Reconcilable \subseteq Present
  BY RecommendationsAssumption DEF Restrict, Reconcilable, Present, Statuses
<1>3. Restrict(rec, Reconcilable) \in Readings /\ DOMAIN Restrict(rec, Reconcilable) \subseteq Present
  BY <1>2 DEF Readings, Present
<1> HIDE DEF r
<1>4. /\ r \in Run /\ r.row = pass[p].row /\ r.phase = "dismissed"
      /\ r.existing = Restrict(rec, Reconcilable) /\ r.pairs = pass[p].pairs /\ r.owed = pass[p].owed
  BY <1>1, <1>3 DEF Run, Phases, r
<1>5. Go(p, r) /\ UNCHANGED <<data, rows, scope>>
  BY DEF ReadExisting, r
<1>6. Named(r) /\ Apart(r) /\ Keeps(r)
  BY <1>1, <1>3, <1>4 DEF Named, Apart, Keeps
<1>7. Answered(r) \/ mixed
  BY <1>1, <1>4 DEF RInv, Kept, Answered, Carried
<1> QED
  BY <1>4, <1>5, <1>6, <1>7, MovesOn DEF RInv, Typed

LEMMA ReadDismissedKeeps == ASSUME RInv, NEW p \in Passes, ReadDismissed(p) PROVE RInv'
<1> DEFINE r == [pass[p] EXCEPT !.phase = "agent",
                                !.dismissed = {f \in Fingerprints : rec[f] = "dismissed"}]
<1>1. pass[p] \in Run /\ Named(pass[p]) /\ pass[p].phase = "dismissed"
  BY DEF RInv, Typed, Sound, ReadDismissed, At
<1>2. /\ r \in Run /\ r.row = pass[p].row /\ r.phase = "agent"
      /\ r.existing = pass[p].existing /\ r.pairs = pass[p].pairs /\ r.owed = pass[p].owed
  BY <1>1 DEF Run, Phases
<1>3. Go(p, r) /\ UNCHANGED <<data, rows, scope>>
  BY DEF ReadDismissed
<1> HIDE DEF r
<1>4. Named(r) /\ Apart(r) /\ Keeps(r)
  BY <1>1, <1>2 DEF Named, Apart, Keeps
<1>5. Answered(r) \/ mixed
  BY <1>1, <1>2 DEF RInv, Kept, Answered, Carried
<1> QED
  BY <1>2, <1>3, <1>4, <1>5, MovesOn DEF RInv, Typed

\* What reconcile returns keeps off what was dismissed, and updates what was read.
LEMMA AgentEndsKeeps == ASSUME RInv, NEW p \in Passes, AgentEnds(p) PROVE RInv'
<1>1. /\ pass[p] \in Run /\ Named(pass[p]) /\ pass[p].phase = "agent"
      /\ DOMAIN pass[p].existing \subseteq Fingerprints /\ pass[p].dismissed \in SUBSET Fingerprints
      /\ UNCHANGED <<data, rows, scope>>
  BY DEF RInv, Typed, Sound, AgentEnds, At, Named, Present, Run
<1>2. scope.findings \union DOMAIN pass[p].existing \subseteq Fingerprints
  BY <1>1 DEF RInv, Typed, Scope, Fingerprints
<1>3. PICK recorded \in SUBSET Fingerprints, strong \in SUBSET Fingerprints,
           resolved \in SUBSET DOMAIN pass[p].existing :
        /\ strong \subseteq recorded
        /\ Go(p, [pass[p] EXCEPT !.phase = "apply",
                    !.plan = Reconcile(pass[p].existing, pass[p].dismissed, recorded, strong, resolved)])
  BY <1>2 DEF AgentEnds
<1> DEFINE plan == Reconcile(pass[p].existing, pass[p].dismissed, recorded, strong, resolved)
           r == [pass[p] EXCEPT !.phase = "apply", !.plan = plan]
<1>4. /\ plan \in Plan /\ plan.update \subseteq DOMAIN pass[p].existing
      /\ (plan.insert \union plan.update \union plan.resolve) \intersect pass[p].dismissed = {}
  <2>1. /\ plan.insert \subseteq recorded \ pass[p].dismissed
        /\ plan.update \subseteq (recorded \ pass[p].dismissed) \intersect DOMAIN pass[p].existing
        /\ plan.resolve \subseteq DOMAIN pass[p].existing \ pass[p].dismissed
    BY <1>3 DEF Reconcile
  <2>2. plan = [insert |-> plan.insert, update |-> plan.update, resolve |-> plan.resolve]
    BY DEF Reconcile
  <2> HIDE DEF plan
  <2>3. /\ plan.insert \subseteq Fingerprints /\ plan.update \subseteq Fingerprints
        /\ plan.resolve \subseteq Fingerprints
    BY <1>1, <2>1
  <2>4. plan \in Plan
    BY <2>2, <2>3 DEF Plan
  <2> QED
    BY <2>1, <2>4
<1>5. Go(p, r)
  BY <1>3
<1> HIDE DEF plan
<1>6. /\ r \in Run /\ r.row = pass[p].row /\ r.phase = "apply" /\ r.plan = plan
      /\ r.existing = pass[p].existing /\ r.dismissed = pass[p].dismissed
      /\ r.pairs = pass[p].pairs /\ r.owed = pass[p].owed
  BY <1>1, <1>4 DEF Run, Phases
<1> HIDE DEF r
<1>7. Named(r) /\ Apart(r) /\ Keeps(r)
  BY <1>1, <1>4, <1>6 DEF Named, Apart, Keeps
<1>8. Answered(r) \/ mixed
  BY <1>1, <1>6 DEF RInv, Kept, Answered, Carried
<1> QED
  BY <1>1, <1>5, <1>6, <1>7, <1>8, MovesOn DEF RInv, Typed

\* applyActions makes every recommendation it touches one that is there.
LEMMA ApplyActionsKeeps == ASSUME RInv, NEW p \in Passes, ApplyActions(p) PROVE RInv'
<1> DEFINE old == pass[p]
<1>1. /\ old \in Run /\ Named(old) /\ Apart(old) /\ old.phase = "apply"
      /\ UNCHANGED <<voted, mixed, rows, scope>>
  BY DEF RInv, Typed, Sound, ApplyActions, At
<1>2. CASE \E f \in old.plan.insert : rec[f] # Null
  <2>1. Go(p, Failing(p)) /\ UNCHANGED <<rec, links>>
    BY <1>2 DEF ApplyActions
  <2> QED
    BY <1>1, <2>1, Stops DEF RInv, Typed, data
<1>3. CASE ~\E f \in old.plan.insert : rec[f] # Null
  <2>1. PICK cited \in SUBSET ((old.plan.insert \union old.plan.update) \X voted) :
          links' = links \union cited
    BY <1>3 DEF ApplyActions
  <2>2. /\ Go(p, [old EXCEPT !.phase = "list", !.plan = Resting.plan])
        /\ rec' = [f \in Fingerprints |-> AfterPlan(f, old.plan, old.existing)]
    BY <1>3 DEF ApplyActions
  <2>3. old.plan \in Plan /\ old.plan.update \subseteq DOMAIN old.existing
        /\ DOMAIN old.existing \subseteq Present
    BY <1>1 DEF Run, Named, Apart
  <2>4. \A f \in Fingerprints : AfterPlan(f, old.plan, old.existing) \in {"open", "applied", rec[f]}
    BY DEF AfterPlan
  <2>5. rec' \in [Fingerprints -> Statuses \union {Null}] /\ Present \subseteq Present'
    BY <2>2, <2>4, RecommendationsAssumption DEF RInv, Typed, Statuses, Present
  <2>6. old.plan.insert \subseteq Present'
    BY <2>2, <2>3, RecommendationsAssumption DEF AfterPlan, Present, Plan, Statuses
  <2>7. links' \subseteq Present' \X Messages
    BY <2>1, <2>3, <2>5, <2>6 DEF RInv, Typed
  <2>8. PICK r \in Run : /\ r = [old EXCEPT !.phase = "list", !.plan = Resting.plan]
                        /\ r.row = old.row /\ r.phase = "list"
                        /\ r.existing = old.existing /\ r.pairs = old.pairs /\ r.owed = old.owed
    <3>1. Resting.plan \in Plan
      BY RestingTyped DEF Run
    <3> DEFINE new == [old EXCEPT !.phase = "list", !.plan = Resting.plan]
    <3>2. /\ new \in Run /\ new.row = old.row /\ new.phase = "list"
          /\ new.existing = old.existing /\ new.pairs = old.pairs /\ new.owed = old.owed
      BY <1>1, <3>1 DEF Run, Phases
    <3> QED
      BY <3>2
  <2>9. Named(r)' /\ Apart(r) /\ Keeps(r)'
    BY <1>1, <2>5, <2>8 DEF Named, Apart, Keeps
  <2>10. Covered \subseteq Covered'
    BY <2>1 DEF Covered
  <2>11. Answered(r)' \/ mixed
    BY <1>1, <2>8, <2>10 DEF RInv, Kept, Answered, Carried
  <2>12. r.row \in 0..Len(rows') /\ Len(rows) <= Len(rows') /\ rows' \in Seq(RunRow)
    BY <1>1, <2>8, LenProperties DEF RInv, Typed
  <2> QED
    BY <1>1, <2>1, <2>2, <2>5, <2>7, <2>8, <2>9, <2>11, <2>12, Moves DEF RInv, Typed
<1> QED
  BY <1>2, <1>3

-----------------------------------------------------------------------------
(* Downvotes nobody covers *)

\* A run that turns to all links has covered what it owes.
LEMMA Settles ==
    ASSUME RInv, NEW p \in Passes, NEW r \in Run, Go(p, Settling(r)), r.row = pass[p].row,
           UNCHANGED <<rec, voted, mixed, rows, scope>>,
           links \subseteq links', links' \subseteq Present \X Messages,
           r.owed \subseteq Covered' \/ mixed
    PROVE  RInv'
<1>1. PICK s \in Run : /\ s = Settling(r) /\ s.row = r.row /\ s.phase = "normalize"
                       /\ s.owed = r.owed /\ s.pairs = {} /\ s.existing = <<>>
  BY SettlingTyped
<1>2. Present' = Present
  BY DEF Present
<1>3. Named(s)' /\ Apart(s) /\ (Answered(s)' \/ mixed) /\ Keeps(s)'
  BY <1>1 DEF Named, Apart, Answered, Keeps
<1>4. s.row \in 0..Len(rows') /\ Len(rows) <= Len(rows')
  BY <1>1, LenProperties DEF RInv, Typed
<1> QED
  BY <1>1, <1>2, <1>3, <1>4, Moves DEF RInv, Typed

\* The recommendation of some downvotes is written next.
LEMMA Writes ==
    ASSUME RInv, NEW p \in Passes, NEW r \in Run, NEW f \in Fingerprints, NEW S \in SUBSET Messages,
           Go(p, Write(r, f, S)), r.row = pass[p].row, UNCHANGED <<data, rows, scope>>,
           DOMAIN r.existing \subseteq Present, r.pairs \subseteq Present \X Messages,
           r.owed \subseteq Covered \union S \union ToCome(r, f) \/ mixed
    PROVE  RInv'
<1>1. PICK w \in Run : /\ w = Write(r, f, S) /\ w.row = r.row
                       /\ w.phase = IF f \in DOMAIN r.existing THEN "link" ELSE "find"
                       /\ w.target = <<f, S>> /\ w.clusters = r.clusters /\ w.owed = r.owed
                       /\ w.pairs = r.pairs /\ w.existing = r.existing
  <2> DEFINE new == Write(r, f, S)
  <2>1. /\ new \in Run /\ new.row = r.row
        /\ new.phase = IF f \in DOMAIN r.existing THEN "link" ELSE "find"
        /\ new.target = <<f, S>> /\ new.clusters = r.clusters /\ new.owed = r.owed
        /\ new.pairs = r.pairs /\ new.existing = r.existing
    BY DEF Write, Run, Phases
  <2> QED
    BY <2>1
<1>2. Named(w) /\ Apart(w) /\ Keeps(w)
  BY <1>1 DEF Named, Apart, Keeps
<1>3. Answered(w) \/ mixed
  BY <1>1 DEF Answered, Carried, ToCome
<1> QED
  BY <1>1, <1>2, <1>3, MovesOn DEF RInv, Typed

LEMMA FallsBack ==
    ASSUME RInv, NEW p \in Passes, NEW r \in Run, NEW S \in SUBSET Messages,
           Go(p, Fallback(r, S)), r.row = pass[p].row, UNCHANGED <<data, rows, scope>>,
           DOMAIN r.existing \subseteq Present, r.pairs \subseteq Present \X Messages,
           r.owed \subseteq Covered \union S \/ mixed
    PROVE  RInv'
<1>1. links' = links /\ rec' = rec /\ Covered' = Covered /\ UNCHANGED <<rec, voted, mixed, rows, scope>>
  BY DEF data, Covered
<1>2. CASE S = {}
  <2>1. Go(p, Settling(r))
    BY <1>2 DEF Fallback
  <2>2. r.owed \subseteq Covered' \/ mixed
    BY <1>1, <1>2
  <2> QED
    BY <1>1, <2>1, <2>2, Settles DEF RInv, Typed
<1>3. CASE S # {} /\ S \in r.dismissed
  <2>1. Go(p, Settling([r EXCEPT !.owed = @ \ S]))
    BY <1>3 DEF Fallback
  <2>2. PICK s \in Run : s = [r EXCEPT !.owed = @ \ S] /\ s.owed = r.owed \ S /\ s.row = r.row
    <3> DEFINE new == [r EXCEPT !.owed = @ \ S]
    <3>1. new \in Run /\ new.owed = r.owed \ S /\ new.row = r.row
      BY DEF Run
    <3> QED
      BY <3>1
  <2>3. s.owed \subseteq Covered' \/ mixed
    BY <1>1, <2>2
  <2> QED
    BY <1>1, <2>1, <2>2, <2>3, Settles DEF RInv, Typed
<1>4. CASE S # {} /\ S \notin r.dismissed
  <2>1. Go(p, Write(r, S, S))
    BY <1>4 DEF Fallback
  <2>2. S \in Fingerprints
    BY <1>4 DEF Fingerprints, Fallbacks
  <2> QED
    BY <2>1, <2>2, Writes
<1> QED
  BY <1>2, <1>3, <1>4

LEMMA ListKeeps == ASSUME RInv, NEW p \in Passes, List(p) PROVE RInv'
<1> DEFINE old == pass[p]
           open == voted \ Covered
<1>1. /\ old \in Run /\ Named(old) /\ Apart(old) /\ old.phase = "list"
      /\ UNCHANGED <<data, rows, scope>> /\ open \subseteq Messages
      /\ old.owed \subseteq Covered \/ mixed
      /\ Go(p, IF open = {} THEN Settling(old) ELSE [old EXCEPT !.phase = "match", !.todo = open, !.owed = open])
  BY DEF RInv, Typed, Sound, Kept, Answered, Carried, List, At
<1>2. CASE open = {}
  <2>1. Go(p, Settling(old)) /\ Covered' = Covered /\ links' = links
        /\ UNCHANGED <<rec, voted, mixed, rows, scope>>
    BY <1>1, <1>2 DEF data, Covered
  <2> QED
    BY <1>1, <2>1, Settles DEF RInv, Typed
<1>3. CASE open # {}
  <2> DEFINE r == [old EXCEPT !.phase = "match", !.todo = open, !.owed = open]
  <2>1. Go(p, r)
    BY <1>1, <1>3
  <2>2. /\ r \in Run /\ r.row = old.row /\ r.phase = "match" /\ r.owed = open /\ r.todo = open
        /\ r.existing = old.existing /\ r.pairs = old.pairs
    BY <1>1 DEF Run, Phases
  <2> HIDE DEF r, open
  <2>3. Named(r) /\ Apart(r) /\ Answered(r) /\ Keeps(r)
    BY <1>1, <2>2 DEF Named, Apart, Answered, Carried, Keeps
  <2> QED
    BY <1>1, <2>1, <2>2, <2>3, MovesOn DEF RInv, Typed
<1> QED
  BY <1>2, <1>3

LEMMA MatchKeeps == ASSUME RInv, NEW p \in Passes, Match(p) PROVE RInv'
<1> DEFINE old == pass[p]
<1>1. /\ old \in Run /\ Named(old) /\ old.phase = "match"
      /\ UNCHANGED <<data, rows, scope>>
      /\ old.owed \subseteq Covered \union old.todo \/ mixed
  BY DEF RInv, Typed, Sound, Kept, Answered, Carried, Match, At
<1>2. PICK pairs \in SUBSET (Reconcilable \X old.todo) :
        Go(p, [old EXCEPT !.phase = "attach", !.pairs = pairs, !.todo = @ \ {l[2] : l \in pairs}])
  BY DEF Match
<1> DEFINE r == [old EXCEPT !.phase = "attach", !.pairs = pairs, !.todo = @ \ {l[2] : l \in pairs}]
<1>3. Reconcilable \subseteq Present /\ Present \subseteq Fingerprints
  BY RecommendationsAssumption DEF Reconcilable, Present, Statuses
<1>4. pairs \subseteq Present \X Messages
  BY <1>1, <1>3 DEF Run
<1>5. /\ r \in Run /\ r.row = old.row /\ r.phase = "attach" /\ r.owed = old.owed
      /\ r.todo = old.todo \ {l[2] : l \in pairs}
      /\ r.existing = old.existing /\ r.pairs = pairs
  BY <1>1, <1>3, <1>4 DEF Run, Phases
<1>6. Go(p, r)
  BY <1>2
<1> HIDE DEF r
<1>7. Named(r) /\ Apart(r) /\ Keeps(r)
  BY <1>1, <1>4, <1>5 DEF Named, Apart, Keeps
<1>8. Answered(r) \/ mixed
  <2>1. old.todo \subseteq r.todo \union {l[2] : l \in r.pairs}
    BY <1>5
  <2> QED
    BY <1>1, <1>5, <2>1 DEF Answered, Carried
<1> QED
  BY <1>1, <1>5, <1>6, <1>7, <1>8, MovesOn DEF RInv, Typed

LEMMA AttachKeeps == ASSUME RInv, NEW p \in Passes, Attach(p) PROVE RInv'
<1> DEFINE old == pass[p]
<1>1. /\ old \in Run /\ Named(old) /\ old.phase = "attach"
      /\ UNCHANGED <<rec, voted, mixed, rows, scope>>
      /\ old.owed \subseteq Covered \union old.todo \union {l[2] : l \in old.pairs} \/ mixed
  BY DEF RInv, Typed, Sound, Kept, Answered, Carried, Attach, At
<1>2. Present' = Present
  BY <1>1 DEF Present
<1>3. ASSUME NEW l \in old.pairs, links' = links \union {l}, Go(p, [old EXCEPT !.pairs = @ \ {l}])
      PROVE  RInv'
  <2>1. PICK r \in Run : /\ r = [old EXCEPT !.pairs = @ \ {l}]
                         /\ r.row = old.row /\ r.phase = "attach" /\ r.owed = old.owed /\ r.todo = old.todo
                         /\ r.existing = old.existing /\ r.pairs = old.pairs \ {l}
    <3> DEFINE new == [old EXCEPT !.pairs = @ \ {l}]
    <3>1. /\ new \in Run /\ new.row = old.row /\ new.phase = "attach" /\ new.owed = old.owed
          /\ new.todo = old.todo /\ new.existing = old.existing /\ new.pairs = old.pairs \ {l}
      BY <1>1 DEF Run
    <3> QED
      BY <3>1
  <2>2. links' \subseteq Present \X Messages
    BY <1>1, <1>3 DEF RInv, Typed, Named
  <2>3. Named(r)' /\ Apart(r) /\ Keeps(r)'
    BY <1>1, <1>2, <2>1 DEF Named, Apart, Keeps
  <2>4. Covered' = Covered \union {l[2]}
    BY <1>3 DEF Covered
  <2>5. {k[2] : k \in old.pairs} \subseteq {k[2] : k \in r.pairs} \union {l[2]}
    BY <2>1
  <2>6. Answered(r)' \/ mixed
    BY <1>1, <2>1, <2>4, <2>5 DEF Answered, Carried
  <2>7. r.row \in 0..Len(rows') /\ Len(rows) <= Len(rows')
    BY <1>1, <2>1, LenProperties DEF RInv, Typed
  <2> QED
    BY <1>1, <1>2, <1>3, <2>1, <2>2, <2>3, <2>6, <2>7, Moves DEF RInv, Typed
<1>4. CASE old.pairs = {} /\ UNCHANGED links /\ old.todo = {} /\ Go(p, Settling(old))
  <2>1. Covered' = Covered
    BY <1>4 DEF Covered
  <2>2. old.owed \subseteq Covered' \/ mixed
    BY <1>1, <1>4, <2>1
  <2> QED
    BY <1>1, <1>4, <2>2, Settles DEF RInv, Typed
<1>5. CASE old.pairs = {} /\ UNCHANGED links /\ Go(p, [old EXCEPT !.phase = "ask"])
  <2> DEFINE r == [old EXCEPT !.phase = "ask"]
  <2>1. /\ r \in Run /\ r.row = old.row /\ r.phase = "ask" /\ r.owed = old.owed /\ r.todo = old.todo
        /\ r.existing = old.existing /\ r.pairs = old.pairs
    BY <1>1 DEF Run, Phases
  <2>2. Go(p, r) /\ UNCHANGED <<data, rows>> /\ scope' = scope
    BY <1>1, <1>5 DEF data
  <2> HIDE DEF r
  <2>3. Named(r) /\ Apart(r) /\ Keeps(r)
    BY <1>1, <2>1 DEF Named, Apart, Keeps
  <2>4. Answered(r) \/ mixed
    BY <1>1, <1>5, <2>1 DEF Answered, Carried
  <2> QED
    BY <2>1, <2>2, <2>3, <2>4, MovesOn DEF RInv, Typed
<1> QED
  BY <1>3, <1>4, <1>5 DEF Attach

\* A cluster is taken out of those that are left.
LEMMA ClusterTaken ==
    ASSUME NEW c \in Clusters, NEW f \in DOMAIN c
    PROVE  /\ Restrict(c, DOMAIN c \ {f}) \in Clusters
           /\ c[f] \in SUBSET Messages /\ f \in Findings
           /\ UNION Range(c) = c[f] \union UNION Range(Restrict(c, DOMAIN c \ {f}))
<1>1. PICK S \in SUBSET Findings : c \in [S -> SUBSET Messages]
  BY DEF Clusters
<1>2. Restrict(c, DOMAIN c \ {f}) \in [S \ {f} -> SUBSET Messages]
  BY <1>1 DEF Restrict
<1>3. Restrict(c, DOMAIN c \ {f}) \in Clusters
  BY <1>2 DEF Clusters
<1>4. Range(c) = {c[f]} \union Range(Restrict(c, DOMAIN c \ {f}))
  BY DEF Range, Restrict
<1> QED
  BY <1>1, <1>3, <1>4

LEMMA AskKeeps == ASSUME RInv, NEW p \in Passes, Ask(p) PROVE RInv'
<1> DEFINE old == pass[p]
<1>1. /\ old \in Run /\ Named(old) /\ old.phase = "ask"
      /\ UNCHANGED <<data, rows, scope>> /\ old.todo \in SUBSET Messages
      /\ old.owed \subseteq Covered \union old.todo \/ mixed
  BY DEF RInv, Typed, Sound, Kept, Answered, Carried, Ask, At, Run
<1>2. CASE Go(p, Fallback(old, old.todo))
  BY <1>1, <1>2, FallsBack DEF Named
<1>3. ASSUME NEW S \in SUBSET scope.findings, NEW clusters \in [S -> (SUBSET old.todo) \ {{}}],
             Go(p, [old EXCEPT !.phase = "clusters", !.clusters = clusters,
                               !.todo = UNION Range(clusters),
                               !.owed = @ \ (old.todo \ UNION Range(clusters))])
      PROVE  RInv'
  <2> DEFINE grouped == UNION Range(clusters)
             r == [old EXCEPT !.phase = "clusters", !.clusters = clusters, !.todo = grouped,
                              !.owed = @ \ (old.todo \ grouped)]
  <2>1. clusters \in Clusters
    <3>1. S \subseteq Findings /\ clusters \in [S -> SUBSET Messages]
      BY <1>1, <1>3 DEF RInv, Typed, Scope
    <3> QED
      BY <3>1 DEF Clusters
  <2>2. grouped \in SUBSET Messages
    BY <1>1, <1>3 DEF Range
  <2>3. Go(p, r)
    BY <1>3
  <2> HIDE DEF grouped
  <2>4. /\ r \in Run /\ r.row = old.row /\ r.phase = "clusters" /\ r.clusters = clusters
        /\ r.owed = old.owed \ (old.todo \ grouped)
        /\ r.existing = old.existing /\ r.pairs = old.pairs
    BY <1>1, <2>1, <2>2 DEF Run, Phases
  <2> HIDE DEF r
  <2>5. Named(r) /\ Apart(r) /\ Keeps(r)
    BY <1>1, <2>4 DEF Named, Apart, Keeps
  <2>6. Answered(r) \/ mixed
    BY <1>1, <2>4 DEF Answered, Carried, grouped
  <2> QED
    BY <1>1, <2>3, <2>4, <2>5, <2>6, MovesOn DEF RInv, Typed
<1> QED
  BY <1>2, <1>3 DEF Ask

LEMMA NextClusterKeeps == ASSUME RInv, NEW p \in Passes, NextCluster(p) PROVE RInv'
<1> DEFINE old == pass[p]
<1>1. /\ old \in Run /\ Named(old) /\ old.phase = "clusters" /\ old.clusters \in Clusters
      /\ UNCHANGED <<data, rows, scope>>
      /\ old.owed \subseteq Covered \union UNION Range(old.clusters) \/ mixed
  BY DEF RInv, Typed, Sound, Kept, Answered, Carried, NextCluster, At, Run
<1>2. ASSUME NEW f \in DOMAIN old.clusters,
             LET members == old.clusters[f]
                 rest    == [old EXCEPT !.clusters = Restrict(@, DOMAIN @ \ {f})]
             IN  Go(p, IF f \in old.dismissed
                       THEN [rest EXCEPT !.todo = @ \ members, !.owed = @ \ members]
                       ELSE Write(rest, f, members))
      PROVE  RInv'
  <2> DEFINE members == old.clusters[f]
             left == Restrict(old.clusters, DOMAIN old.clusters \ {f})
             rest == [old EXCEPT !.clusters = left]
  <2>1. /\ left \in Clusters /\ members \in SUBSET Messages /\ f \in Fingerprints
        /\ UNION Range(old.clusters) = members \union UNION Range(left)
    BY <1>1, ClusterTaken DEF Fingerprints
  <2>2. Go(p, IF f \in old.dismissed THEN [rest EXCEPT !.todo = @ \ members, !.owed = @ \ members]
              ELSE Write(rest, f, members))
    BY <1>2
  <2> HIDE DEF members, left
  <2>3. PICK s \in Run : /\ s = rest /\ s.row = old.row /\ s.phase = "clusters" /\ s.clusters = left
                         /\ s.owed = old.owed /\ s.existing = old.existing /\ s.pairs = old.pairs
    <3>1. /\ rest \in Run /\ rest.row = old.row /\ rest.phase = "clusters" /\ rest.clusters = left
          /\ rest.owed = old.owed /\ rest.existing = old.existing /\ rest.pairs = old.pairs
      BY <1>1, <2>1 DEF Run
    <3> QED
      BY <3>1
  <2>4. CASE f \in old.dismissed
    <3> DEFINE r == [s EXCEPT !.todo = @ \ members, !.owed = @ \ members]
    <3>1. /\ r \in Run /\ r.row = old.row /\ r.phase = "clusters" /\ r.clusters = left
          /\ r.owed = old.owed \ members /\ r.existing = old.existing /\ r.pairs = old.pairs
      BY <2>1, <2>3 DEF Run
    <3>2. Go(p, r)
      BY <2>2, <2>3, <2>4
    <3> HIDE DEF r
    <3>3. Named(r) /\ Apart(r) /\ Keeps(r)
      BY <1>1, <3>1 DEF Named, Apart, Keeps
    <3>4. Answered(r) \/ mixed
      BY <1>1, <2>1, <3>1 DEF Answered, Carried
    <3> QED
      BY <1>1, <3>1, <3>2, <3>3, <3>4, MovesOn DEF RInv, Typed
  <2>5. CASE f \notin old.dismissed
    <3>1. Go(p, Write(s, f, members))
      BY <2>2, <2>3, <2>5
    <3>2. f \in Findings
      BY <1>1, ClusterTaken
    <3>3. s.owed \subseteq Covered \union members \union ToCome(s, f) \/ mixed
      BY <1>1, <2>1, <2>3, <3>2 DEF ToCome
    <3> QED
      BY <1>1, <2>1, <2>3, <3>1, <3>3, Writes DEF Named
  <2> QED
    BY <2>4, <2>5
<1>3. CASE DOMAIN old.clusters = {} /\ To(p, "still")
  <2> DEFINE r == [old EXCEPT !.phase = "still"]
  <2>1. /\ r \in Run /\ r.row = old.row /\ r.phase = "still" /\ r.owed = old.owed
        /\ r.existing = old.existing /\ r.pairs = old.pairs
    BY <1>1 DEF Run, Phases
  <2>2. Go(p, r)
    BY <1>3 DEF To
  <2> HIDE DEF r
  <2>3. Named(r) /\ Apart(r) /\ Keeps(r)
    BY <1>1, <2>1 DEF Named, Apart, Keeps
  <2>4. UNION Range(old.clusters) = {}
    BY <1>3 DEF Range
  <2>5. Answered(r) \/ mixed
    BY <1>1, <2>1, <2>4 DEF Answered, Carried
  <2> QED
    BY <1>1, <2>1, <2>2, <2>3, <2>5, MovesOn DEF RInv, Typed
<1> QED
  BY <1>2, <1>3 DEF NextCluster

LEMMA FindKeeps == ASSUME RInv, NEW p \in Passes, Find(p) PROVE RInv'
<1> DEFINE old == pass[p]
           next == IF rec[old.target[1]] = Null THEN "insert" ELSE "link"
           r == [old EXCEPT !.phase = next]
<1>1. /\ old \in Run /\ Named(old) /\ old.phase = "find"
      /\ UNCHANGED <<data, rows, scope>> /\ Go(p, r)
      /\ old.target \in Fingerprints \X SUBSET Messages
      /\ old.owed \subseteq Covered \union old.target[2] \union ToCome(old, old.target[1]) \/ mixed
  BY DEF RInv, Typed, Sound, Kept, Answered, Carried, Find, At, To, Named
<1>2. /\ r \in Run /\ r.row = old.row /\ r.phase = next /\ r.owed = old.owed
      /\ r.target = old.target /\ r.clusters = old.clusters
      /\ r.existing = old.existing /\ r.pairs = old.pairs
  BY <1>1 DEF Run, Phases
<1> HIDE DEF r
<1>3. Named(r) /\ Apart(r) /\ Keeps(r)
  BY <1>1, <1>2 DEF Named, Apart, Keeps, Present
<1>4. Answered(r) \/ mixed
  BY <1>1, <1>2 DEF Answered, Carried, ToCome
<1> QED
  BY <1>1, <1>2, <1>3, <1>4, MovesOn DEF RInv, Typed

LEMMA InsertKeeps == ASSUME RInv, NEW p \in Passes, Insert(p) PROVE RInv'
<1> DEFINE old == pass[p]
           f == old.target[1]
<1>1. /\ old \in Run /\ Named(old) /\ old.phase = "insert"
      /\ UNCHANGED <<links, voted, mixed, rows, scope>>
      /\ old.target \in Fingerprints \X SUBSET Messages
      /\ old.owed \subseteq Covered \union old.target[2] \union ToCome(old, old.target[1]) \/ mixed
  BY DEF RInv, Typed, Sound, Kept, Answered, Carried, Insert, At, Named
<1>2. CASE rec[f] # Null
  <2>1. Go(p, Failing(p)) /\ UNCHANGED <<data, rows, scope>>
    BY <1>1, <1>2 DEF Insert, data
  <2> QED
    BY <2>1, Stops DEF RInv, Typed
<1>3. CASE rec[f] = Null
  <2>1. Go(p, [old EXCEPT !.phase = "link"]) /\ rec' = [rec EXCEPT ![f] = "open"]
    BY <1>3 DEF Insert, To
  <2>2. PICK r \in Run : /\ r = [old EXCEPT !.phase = "link"]
                         /\ r.row = old.row /\ r.phase = "link" /\ r.owed = old.owed
                         /\ r.target = old.target /\ r.clusters = old.clusters
                         /\ r.existing = old.existing /\ r.pairs = old.pairs
    <3> DEFINE new == [old EXCEPT !.phase = "link"]
    <3>1. /\ new \in Run /\ new.row = old.row /\ new.phase = "link" /\ new.owed = old.owed
          /\ new.target = old.target /\ new.clusters = old.clusters
          /\ new.existing = old.existing /\ new.pairs = old.pairs
      BY <1>1 DEF Run, Phases
    <3> QED
      BY <3>1
  <2>3. /\ rec' \in [Fingerprints -> Statuses \union {Null}]
        /\ Present' = Present \union {f} /\ f \in Fingerprints
    BY <1>1, <2>1, RecommendationsAssumption DEF RInv, Typed, Present, Statuses
  <2>4. Named(r)' /\ Apart(r) /\ Keeps(r)'
    BY <1>1, <2>2, <2>3 DEF Named, Apart, Keeps
  <2>5. Answered(r)' \/ mixed
    BY <1>1, <2>2 DEF Answered, Carried, Covered, ToCome
  <2>6. r.row \in 0..Len(rows') /\ Len(rows) <= Len(rows')
    BY <1>1, <2>2, LenProperties DEF RInv, Typed
  <2>7. links \subseteq links' /\ links' \subseteq Present' \X Messages
    BY <1>1, <2>3 DEF RInv, Typed
  <2> QED
    BY <1>1, <2>1, <2>2, <2>3, <2>4, <2>5, <2>6, <2>7, Moves DEF RInv, Typed
<1> QED
  BY <1>2, <1>3

LEMMA LinkKeeps == ASSUME RInv, NEW p \in Passes, Link(p) PROVE RInv'
<1> DEFINE old == pass[p]
           f == old.target[1]
           members == old.target[2]
<1>1. /\ old \in Run /\ Named(old) /\ old.phase = "link"
      /\ UNCHANGED <<rec, voted, mixed, rows, scope>>
      /\ f \in Present /\ members \in SUBSET Messages
      /\ links' = links \union ({f} \X members)
      /\ old.owed \subseteq Covered \union members \union ToCome(old, f) \/ mixed
  BY DEF RInv, Typed, Sound, Kept, Answered, Carried, Link, At, Named
<1>2. links \subseteq links' /\ links' \subseteq Present \X Messages
  BY <1>1 DEF RInv, Typed
<1>3. Covered' = Covered \union members
  <2>1. \A m \in members : <<f, m>> \in links' /\ <<f, m>>[2] = m
    BY <1>1
  <2>2. \A l \in {f} \X members : l[2] \in members
    OBVIOUS
  <2> QED
    BY <1>1, <2>1, <2>2 DEF Covered
<1>4. CASE f \in Findings
  <2>1. Go(p, [old EXCEPT !.phase = "clusters", !.target = <<>>])
    BY <1>4 DEF Link
  <2>2. PICK r \in Run : /\ r = [old EXCEPT !.phase = "clusters", !.target = <<>>]
                         /\ r.row = old.row /\ r.phase = "clusters" /\ r.owed = old.owed
                         /\ r.clusters = old.clusters
                         /\ r.existing = old.existing /\ r.pairs = old.pairs
    <3> DEFINE new == [old EXCEPT !.phase = "clusters", !.target = <<>>]
    <3>1. /\ new \in Run /\ new.row = old.row /\ new.phase = "clusters" /\ new.owed = old.owed
          /\ new.clusters = old.clusters /\ new.existing = old.existing /\ new.pairs = old.pairs
      BY <1>1 DEF Run, Phases
    <3> QED
      BY <3>1
  <2>3. Present' = Present
    BY <1>1 DEF Present
  <2>4. Named(r)' /\ Apart(r) /\ Keeps(r)'
    BY <1>1, <2>2, <2>3 DEF Named, Apart, Keeps
  <2>5. Answered(r)' \/ mixed
    BY <1>1, <1>3, <1>4, <2>2 DEF Answered, Carried, ToCome
  <2>6. r.row \in 0..Len(rows') /\ Len(rows) <= Len(rows')
    BY <1>1, <2>2, LenProperties DEF RInv, Typed
  <2> QED
    BY <1>1, <1>2, <2>1, <2>2, <2>3, <2>4, <2>5, <2>6, Moves DEF RInv, Typed
<1>5. CASE f \notin Findings
  <2>1. Go(p, Settling(old))
    BY <1>5 DEF Link
  <2>2. old.owed \subseteq Covered' \/ mixed
    BY <1>1, <1>3, <1>5 DEF ToCome
  <2> QED
    BY <1>1, <1>2, <2>1, <2>2, Settles
<1> QED
  BY <1>4, <1>5

LEMMA StillKeeps == ASSUME RInv, NEW p \in Passes, Still(p) PROVE RInv'
<1> DEFINE old == pass[p]
           left == old.todo \ Covered
<1>1. /\ old \in Run /\ Named(old) /\ old.phase = "still"
      /\ UNCHANGED <<data, rows, scope>> /\ left \in SUBSET Messages
      /\ old.owed \subseteq Covered \/ mixed
      /\ Go(p, IF left = {} THEN Settling(old) ELSE [old EXCEPT !.todo = left, !.phase = "left"])
  BY DEF RInv, Typed, Sound, Kept, Answered, Carried, Still, At, Run
<1>2. CASE left = {}
  <2>1. Go(p, Settling(old)) /\ Covered' = Covered /\ links' = links
        /\ UNCHANGED <<rec, voted, mixed, rows, scope>>
    BY <1>1, <1>2 DEF data, Covered
  <2> QED
    BY <1>1, <2>1, Settles DEF RInv, Typed
<1>3. CASE left # {}
  <2> DEFINE r == [old EXCEPT !.todo = left, !.phase = "left"]
  <2>1. Go(p, r)
    BY <1>1, <1>3
  <2>2. /\ r \in Run /\ r.row = old.row /\ r.phase = "left" /\ r.owed = old.owed
        /\ r.existing = old.existing /\ r.pairs = old.pairs
    BY <1>1 DEF Run, Phases
  <2> HIDE DEF r, left
  <2>3. Named(r) /\ Apart(r) /\ Keeps(r)
    BY <1>1, <2>2 DEF Named, Apart, Keeps
  <2>4. Answered(r) \/ mixed
    BY <1>1, <2>2 DEF Answered
  <2> QED
    BY <1>1, <2>1, <2>2, <2>3, <2>4, MovesOn DEF RInv, Typed
<1> QED
  BY <1>2, <1>3

LEMMA LeftKeeps == ASSUME RInv, NEW p \in Passes, Left(p) PROVE RInv'
<1> DEFINE old == pass[p]
           S == old.todo \ Covered
<1>1. /\ old \in Run /\ Named(old) /\ old.phase = "left"
      /\ UNCHANGED <<data, rows, scope>> /\ S \in SUBSET Messages
      /\ old.owed \subseteq Covered \union old.todo \/ mixed
      /\ Go(p, Fallback(old, S))
  BY DEF RInv, Typed, Sound, Kept, Answered, Carried, Left, At, Run
<1>2. old.owed \subseteq Covered \union S \/ mixed
  BY <1>1
<1> HIDE DEF S
<1> QED
  BY <1>1, <1>2, FallsBack DEF Named

-----------------------------------------------------------------------------
(* To whom a downvote belongs *)

\* Of each downvote one link is kept.
LEMMA NormalizeKeeps == ASSUME RInv, NEW p \in Passes, Normalize(p) PROVE RInv'
<1> DEFINE old == pass[p]
<1>1. /\ old \in Run /\ Named(old) /\ old.phase = "normalize"
      /\ UNCHANGED <<data, rows, scope>>
      /\ old.owed \subseteq Covered \/ mixed
  BY DEF RInv, Typed, Sound, Kept, Answered, Carried, Normalize, At
<1>2. PICK kept \in SUBSET links :
        /\ \A m \in Covered : kept \intersect Group(m) \subseteq Owners(m)
        /\ \A m \in Covered : Owners(m) # {} => kept \intersect Group(m) # {}
        /\ Go(p, [old EXCEPT !.phase = "delete", !.pairs = links \ kept])
  BY DEF Normalize
<1> DEFINE r == [old EXCEPT !.phase = "delete", !.pairs = links \ kept]
<1>3. /\ links \subseteq Present \X Messages /\ Present \subseteq Fingerprints
  BY DEF RInv, Typed, Present
<1>4. /\ r \in Run /\ r.row = old.row /\ r.phase = "delete" /\ r.owed = old.owed
      /\ r.existing = old.existing /\ r.pairs = links \ kept
  BY <1>1, <1>3 DEF Run, Phases
<1>5. Go(p, r)
  BY <1>2
<1> HIDE DEF r
<1>6. Named(r) /\ Apart(r)
  BY <1>1, <1>3, <1>4 DEF Named, Apart
<1>7. ASSUME NEW l \in r.pairs PROVE \E k \in links \ r.pairs : k[2] = l[2]
  <2>1. l \in links /\ l[2] \in Covered /\ l \in Group(l[2])
    BY <1>4 DEF Covered, Group
  <2>2. Owners(l[2]) # {}
    BY <2>1 DEF Owners
  <2>3. PICK k \in kept : k \in Group(l[2])
    BY <1>2, <2>1, <2>2
  <2> QED
    BY <1>4, <2>3 DEF Group
<1>8. Keeps(r)
  BY <1>7 DEF Keeps
<1>9. Answered(r) \/ mixed
  BY <1>1, <1>4 DEF Answered
<1> QED
  BY <1>1, <1>4, <1>5, <1>6, <1>8, <1>9, MovesOn DEF RInv, Typed

\* The last link of a downvote stays, unless two runs delete at the same time.
LEMMA DeleteLeaves ==
    ASSUME RInv, NEW p \in Passes, Delete(p)
    PROVE  Covered \subseteq Covered' \/ mixed
<1>1. Keeps(pass[p]) \/ mixed
  BY DEF RInv, Kept
<1>2. pass[p].phase = "delete" /\ links' = links \ pass[p].pairs
  BY DEF Delete, At
<1>3. ASSUME ~mixed, NEW l \in links PROVE \E k \in links' : k[2] = l[2]
  BY <1>1, <1>2, <1>3 DEF Keeps
<1> QED
  BY <1>3 DEF Covered

LEMMA DeleteKeeps == ASSUME RInv, NEW p \in Passes, Delete(p) PROVE RInv'
<1> DEFINE old == pass[p]
<1>1. /\ old \in Run /\ Named(old) /\ old.phase = "delete"
      /\ UNCHANGED <<rec, voted, rows, scope>>
      /\ links' = links \ old.pairs
      /\ mixed' = (mixed \/ \E q \in Passes \ {p} : At(q, "delete") /\ old.pairs # {})
      /\ old.owed \subseteq Covered \/ mixed
  BY DEF RInv, Typed, Sound, Kept, Answered, Carried, Delete, At
<1>2. PICK r \in Run : /\ r = [old EXCEPT !.phase = "complete", !.pairs = {}]
                       /\ r.row = old.row /\ r.phase = "complete" /\ r.owed = old.owed
                       /\ r.existing = old.existing /\ r.pairs = {}
  <2> DEFINE new == [old EXCEPT !.phase = "complete", !.pairs = {}]
  <2>1. /\ new \in Run /\ new.row = old.row /\ new.phase = "complete" /\ new.owed = old.owed
        /\ new.existing = old.existing /\ new.pairs = {}
    BY <1>1 DEF Run, Phases
  <2> QED
    BY <2>1
<1>3. /\ pass' \in [Passes -> Run] /\ pass'[p] = r
      /\ \A q \in Passes \ {p} : pass'[q] = pass[q]
  BY <1>2 DEF Delete, Go, RInv, Typed
<1>4. Present' = Present
  BY <1>1 DEF Present
<1>5. Typed'
  <2>1. \A q \in Passes : pass'[q].row = pass[q].row
    BY <1>2, <1>3
  <2>2. mixed' \in BOOLEAN
    BY <1>1 DEF RInv, Typed
  <2>3. links' \subseteq Present' \X Messages
    BY <1>1, <1>4 DEF RInv, Typed
  <2> QED
    BY <1>1, <1>3, <2>1, <2>2, <2>3 DEF RInv, Typed
<1>6. Sound'
  <2> SUFFICES ASSUME NEW q \in Passes PROVE Named(pass[q])' /\ Apart(pass[q])'
    BY DEF Sound
  <2>1. CASE q = p
    BY <1>1, <1>2, <1>3, <1>4, <2>1 DEF Named, Apart
  <2>2. CASE q # p
    <3>1. Named(pass[q]) /\ Apart(pass[q]) /\ pass'[q] = pass[q]
      BY <1>3, <2>2 DEF RInv, Sound
    <3> QED
      BY <1>4, <3>1 DEF Named, Apart
  <2> QED
    BY <2>1, <2>2
<1>7. ASSUME ~mixed', NEW q \in Passes PROVE Answered(pass[q])' /\ Keeps(pass[q])'
  <2>1. ~mixed /\ Covered \subseteq Covered'
    BY <1>1, <1>7, DeleteLeaves
  <2>2. CASE q = p
    BY <1>1, <1>2, <1>3, <2>1, <2>2 DEF Answered, Keeps
  <2>3. CASE q # p
    <3>1. Answered(pass[q]) /\ Keeps(pass[q]) /\ pass'[q] = pass[q]
      BY <1>3, <2>1, <2>3 DEF RInv, Kept
    <3>2. Answered(pass[q])'
      BY <2>1, <3>1 DEF Answered, Carried, ToCome
    <3>3. pass[q].phase = "delete" => links' = links
      BY <1>1, <1>7, <2>3 DEF At
    <3> QED
      BY <3>1, <3>2, <3>3 DEF Keeps
  <2> QED
    BY <2>2, <2>3
<1> QED
  BY <1>5, <1>6, <1>7 DEF RInv, Kept

-----------------------------------------------------------------------------
(* Runs begin and end *)

LEMMA RowsMarked ==
    ASSUME rows \in Seq(RunRow)
    PROVE  /\ FailStaleRuns => rows' \in Seq(RunRow) /\ Len(rows') = Len(rows)
           /\ \A k \in Nat, status \in RunRow :
                 EndRun(k, status) => rows' \in Seq(RunRow) /\ Len(rows') = Len(rows)
<1>1. Len(rows) \in Nat /\ rows \in [1..Len(rows) -> RunRow] /\ DOMAIN rows = 1..Len(rows)
  BY LenProperties
<1>2. ASSUME NEW s \in [1..Len(rows) -> RunRow] PROVE s \in Seq(RunRow) /\ Len(s) = Len(rows)
  <2>1. s \in Seq(RunRow)
    BY <1>1, SeqDef
  <2>2. DOMAIN s = 1..Len(s) /\ Len(s) \in Nat
    BY <2>1, LenProperties
  <2> QED
    BY <1>1, <2>1, <2>2
<1>3. ASSUME FailStaleRuns PROVE rows' \in [1..Len(rows) -> RunRow]
  BY <1>1, <1>3 DEF FailStaleRuns, RunRow
<1>4. ASSUME NEW k \in Nat, NEW status \in RunRow, EndRun(k, status) PROVE rows' \in [1..Len(rows) -> RunRow]
  BY <1>1, <1>4 DEF EndRun
<1> QED
  BY <1>2, <1>3, <1>4

LEMMA StartKeeps == ASSUME RInv, NEW p \in Passes, Start(p) PROVE RInv'
<1> DEFINE old == pass[p]
<1>1. /\ old \in Run /\ Named(old) /\ old.phase = "idle"
      /\ UNCHANGED <<data, scope>> /\ rows' \in Seq(RunRow) /\ Len(rows') = Len(rows)
      /\ old.owed \subseteq Covered \/ mixed
  <2>1. old.phase = "idle"
    BY DEF Start, At
  <2> QED
    BY <2>1, RowsMarked DEF RInv, Typed, Sound, Kept, Answered, Carried, Start
<1>2. rec' = rec /\ links' = links /\ voted' = voted /\ mixed' = mixed
      /\ Present' = Present /\ Covered' = Covered
  BY <1>1 DEF data, Present, Covered
<1>3. PICK r \in Run : /\ r = [old EXCEPT !.phase = "select"]
                       /\ r.row = old.row /\ r.phase = "select" /\ r.owed = old.owed
                       /\ r.existing = old.existing /\ r.pairs = old.pairs
  <2> DEFINE new == [old EXCEPT !.phase = "select"]
  <2>1. /\ new \in Run /\ new.row = old.row /\ new.phase = "select" /\ new.owed = old.owed
        /\ new.existing = old.existing /\ new.pairs = old.pairs
    BY <1>1 DEF Run, Phases
  <2> QED
    BY <2>1
<1>4. Go(p, r)
  BY <1>3 DEF Start, To
<1>5. Named(r)' /\ Apart(r) /\ Keeps(r)' /\ (Answered(r)' \/ mixed)
  BY <1>1, <1>2, <1>3 DEF Named, Apart, Keeps, Answered
<1>6. r.row \in 0..Len(rows') /\ Len(rows) <= Len(rows')
  BY <1>1, <1>3, LenProperties DEF RInv, Typed
<1> QED
  BY <1>1, <1>2, <1>3, <1>4, <1>5, <1>6, Moves DEF RInv, Typed

LEMMA CreateRunKeeps == ASSUME RInv, NEW p \in Passes, CreateRun(p) PROVE RInv'
<1> DEFINE old == pass[p]
<1>1. /\ old \in Run /\ Named(old) /\ old.phase = "create"
      /\ UNCHANGED data /\ rows' = Append(rows, "running") /\ rows \in Seq(RunRow)
      /\ old.owed \subseteq Covered \/ mixed
  BY DEF RInv, Typed, Sound, Kept, Answered, Carried, CreateRun, At
<1>2. rec' = rec /\ links' = links /\ voted' = voted /\ mixed' = mixed
      /\ Present' = Present /\ Covered' = Covered
  BY <1>1 DEF data, Present, Covered
<1>3. rows' \in Seq(RunRow) /\ Len(rows') = Len(rows) + 1 /\ Len(rows) \in Nat
  BY <1>1, AppendProperties, LenProperties DEF RunRow, Running
<1>4. PICK r \in Run : /\ r = [old EXCEPT !.phase = "existing", !.row = Len(rows')]
                       /\ r.row = Len(rows') /\ r.phase = "existing" /\ r.owed = old.owed
                       /\ r.existing = old.existing /\ r.pairs = old.pairs
  <2>1. PICK n \in Nat : n = Len(rows')
    BY <1>3
  <2> DEFINE new == [old EXCEPT !.phase = "existing", !.row = n]
  <2>2. /\ new \in Run /\ new.row = n /\ new.phase = "existing" /\ new.owed = old.owed
        /\ new.existing = old.existing /\ new.pairs = old.pairs
    BY <1>1 DEF Run, Phases
  <2> QED
    BY <2>1, <2>2
<1>5. Go(p, r)
  BY <1>4 DEF CreateRun
<1>6. Named(r)' /\ Apart(r) /\ Keeps(r)' /\ (Answered(r)' \/ mixed)
  BY <1>1, <1>2, <1>4 DEF Named, Apart, Keeps, Answered
<1>7. scope' \in Scope
  BY DEF CreateRun, RInv, Typed, Scope
<1>8. r.row \in 0..Len(rows') /\ Len(rows) <= Len(rows')
  BY <1>3, <1>4
<1> QED
  BY <1>1, <1>2, <1>3, <1>5, <1>6, <1>7, <1>8, Moves DEF RInv, Typed

LEMMA EndKeeps ==
    ASSUME RInv, NEW p \in Passes,
           Complete(p) \/ FailRun(p) \/ AgentFails(p) \/ StatementFails(p) \/ Crash(p)
    PROVE  RInv'
<1>1. rows \in Seq(RunRow) /\ scope \in Scope /\ pass[p].row \in Nat
  BY DEF RInv, Typed, Run
<1>2. CASE Complete(p) \/ FailRun(p)
  <2>1. PICK status \in RunRow : EndRun(pass[p].row, status)
    BY <1>2 DEF Complete, FailRun, RunRow
  <2>2. rows' \in Seq(RunRow) /\ Len(rows') = Len(rows)
    BY <1>1, <2>1, RowsMarked
  <2>3. Go(p, Resting) /\ UNCHANGED data /\ scope' \in Scope
    BY <1>1, <1>2 DEF Complete, FailRun
  <2> QED
    BY <2>2, <2>3, Stops
<1>3. CASE AgentFails(p) \/ StatementFails(p) \/ Crash(p)
  <2>1. Go(p, Failing(p)) \/ Go(p, Resting)
    BY <1>3 DEF AgentFails, StatementFails, Crash
  <2>2. UNCHANGED <<data, rows>>
    BY <1>3 DEF AgentFails, StatementFails, Crash
  <2>3. scope' \in Scope
    BY <1>1, <1>3 DEF AgentFails, StatementFails, Crash, Fault, Scope
  <2> QED
    BY <1>1, <2>1, <2>2, <2>3, Stops
<1> QED
  BY <1>2, <1>3

\* Whoever looks, decides or waits leaves the runs at what they are doing.
LEMMA AsideKeeps ==
    ASSUME RInv, UNCHANGED <<pass, links, mixed>>,
           rec' \in [Fingerprints -> Statuses \union {Null}], Present \subseteq Present',
           voted' \subseteq Messages, rows' \in Seq(RunRow), Len(rows') = Len(rows), scope' \in Scope
    PROVE  RInv'
<1>1. Typed'
  BY DEF RInv, Typed
<1>2. Sound'
  BY DEF RInv, Sound, Named, Apart
<1>3. Covered' = Covered
  BY DEF Covered
<1>4. Kept'
  <2> SUFFICES ASSUME ~mixed, NEW p \in Passes PROVE Answered(pass[p])' /\ Keeps(pass[p])'
    BY DEF Kept
  <2>1. Answered(pass[p]) /\ Keeps(pass[p]) /\ pass'[p] = pass[p]
    BY DEF RInv, Kept
  <2> QED
    BY <1>3, <2>1 DEF Answered, Carried, ToCome, Keeps
<1> QED
  BY <1>1, <1>2, <1>4 DEF RInv

LEMMA OthersKeep ==
    ASSUME RInv,
           \/ Look
           \/ \E k \in DOMAIN rows : CancelRun(k) \/ BecomeStale(k)
           \/ \E f \in Fingerprints, status \in Statuses : SetStatus(f, status)
           \/ \E m \in scope.messages : Downvote(m)
    PROVE  RInv'
<1>1. /\ rows \in Seq(RunRow) /\ scope \in Scope /\ voted \subseteq Messages
      /\ rec \in [Fingerprints -> Statuses \union {Null}] /\ DOMAIN rows \subseteq Nat
  BY LenProperties DEF RInv, Typed
<1>2. ASSUME NEW ask, Decision(ask) PROVE scope' \in Scope
  BY <1>1, <1>2 DEF Decision, Scope
<1>3. CASE Look
  BY <1>1, <1>3, RowsMarked, AsideKeeps DEF Look, data, Present
<1>4. ASSUME NEW k \in DOMAIN rows, CancelRun(k) PROVE RInv'
  <2>1. rows' \in Seq(RunRow) /\ Len(rows') = Len(rows)
    BY <1>1, <1>4, RowsMarked DEF CancelRun, RunRow
  <2>2. Present' = Present /\ UNCHANGED <<rec, links, voted, pass, mixed>>
    BY <1>4 DEF CancelRun, data, Present
  <2>3. scope' \in Scope
    BY <1>2, <1>4 DEF CancelRun
  <2> QED
    BY <1>1, <2>1, <2>2, <2>3, AsideKeeps
<1>5. ASSUME NEW k \in DOMAIN rows, BecomeStale(k) PROVE RInv'
  <2>1. rows' \in Seq(RunRow) /\ Len(rows') = Len(rows)
    BY <1>1, <1>5, ExceptSeq, LenProperties DEF BecomeStale, RunRow, Running
  <2>2. Present' = Present /\ UNCHANGED <<rec, links, voted, pass, mixed, scope>>
    BY <1>5 DEF BecomeStale, data, Present
  <2> QED
    BY <1>1, <2>1, <2>2, AsideKeeps
<1>6. ASSUME NEW f \in Fingerprints, NEW status \in Statuses, SetStatus(f, status) PROVE RInv'
  <2>1. rec' \in [Fingerprints -> Statuses \union {Null}] /\ Present \subseteq Present'
    BY <1>1, <1>6, RecommendationsAssumption DEF SetStatus, Present
  <2>2. UNCHANGED <<links, voted, rows, pass, mixed>> /\ scope' \in Scope
    BY <1>2, <1>6 DEF SetStatus
  <2> QED
    BY <1>1, <2>1, <2>2, AsideKeeps
<1>7. ASSUME NEW m \in scope.messages, Downvote(m) PROVE RInv'
  <2>1. voted' \subseteq Messages /\ Present' = Present
    BY <1>1, <1>7 DEF Downvote, Present, Scope
  <2>2. UNCHANGED <<rec, links, rows, pass, mixed>> /\ scope' \in Scope
    BY <1>2, <1>7 DEF Downvote
  <2> QED
    BY <1>1, <2>1, <2>2, AsideKeeps
<1> QED
  BY <1>3, <1>4, <1>5, <1>6, <1>7

-----------------------------------------------------------------------------
LEMMA InitHolds == Init => RInv
<1> SUFFICES ASSUME Init PROVE RInv
  OBVIOUS
<1>1. scope \in Scope
  BY RecommendationsAssumption DEF Init, Scope
<1>2. rows = <<>> /\ Len(rows) = 0 /\ rows \in Seq(RunRow)
  BY EmptySeq DEF Init
<1>3. \A p \in Passes : pass[p] = Resting
  BY DEF Init
<1>4. /\ Resting.phase = "idle" /\ Resting.row = 0 /\ Resting.owed = {} /\ Resting.pairs = {}
      /\ Resting.existing = <<>>
  BY DEF Resting
<1>5. pass \in [Passes -> Run]
  BY RestingTyped DEF Init
<1>6. Typed
  <2>1. rec \in [Fingerprints -> Statuses \union {Null}] /\ links = {} /\ mixed = FALSE
    BY DEF Init
  <2>2. voted \subseteq Messages
    BY <1>1 DEF Init, Scope
  <2>3. \A p \in Passes : pass[p].row \in 0..Len(rows)
    BY <1>2, <1>3, <1>4
  <2> QED
    BY <1>1, <1>2, <1>5, <2>1, <2>2, <2>3 DEF Typed
<1>7. Named(Resting) /\ Apart(Resting) /\ Answered(Resting) /\ Keeps(Resting)
  BY <1>4 DEF Named, Apart, Answered, Keeps
<1> QED
  BY <1>3, <1>6, <1>7 DEF RInv, Sound, Kept

LEMMA NextKeeps == RInv /\ [Next]_vars => RInv'
<1> SUFFICES ASSUME RInv, [Next]_vars PROVE RInv'
  OBVIOUS
<1>1. CASE UNCHANGED vars
  <2>1. Present' = Present /\ rec' \in [Fingerprints -> Statuses \union {Null}]
        /\ rows' \in Seq(RunRow) /\ Len(rows') = Len(rows) /\ scope' \in Scope /\ voted' \subseteq Messages
    BY <1>1 DEF vars, RInv, Typed, Present
  <2> QED
    BY <1>1, <2>1, AsideKeeps DEF vars
<1>2. ASSUME NEW p \in scope.passes, Start(p) \/ Work(p) \/ StatementFails(p) \/ Crash(p) PROVE RInv'
  <2>1. p \in Passes
    BY DEF RInv, Typed, Scope
  <2>2. CASE Start(p)
    BY <2>1, <2>2, StartKeeps
  <2>3. CASE StatementFails(p) \/ Crash(p) \/ AgentFails(p) \/ Complete(p) \/ FailRun(p)
    BY <2>1, <2>3, EndKeeps
  <2>4. CASE Select(p) \/ CreateRun(p)
    BY <2>1, <2>4, SelectKeeps, CreateRunKeeps
  <2>5. CASE ReadExisting(p) \/ ReadDismissed(p) \/ AgentEnds(p) \/ ApplyActions(p)
    BY <2>1, <2>5, ReadExistingKeeps, ReadDismissedKeeps, AgentEndsKeeps, ApplyActionsKeeps
  <2>6. CASE Cover(p)
    BY <2>1, <2>6, ListKeeps, MatchKeeps, AttachKeeps, AskKeeps, NextClusterKeeps, FindKeeps, InsertKeeps,
       LinkKeeps, StillKeeps, LeftKeeps DEF Cover
  <2>7. CASE Normalize(p) \/ Delete(p)
    BY <2>1, <2>7, NormalizeKeeps, DeleteKeeps
  <2> QED
    BY <1>2, <2>2, <2>3, <2>4, <2>5, <2>6, <2>7 DEF Work, Analyse
<1> QED
  BY <1>1, <1>2, OthersKeep DEF Next

\* RInv is an invariant.
LEMMA Invariant == Spec => []RInv
BY InitHolds, NextKeeps, PTL DEF Spec

-----------------------------------------------------------------------------
LEMMA RowsKeepTheirEnd ==
    ASSUME RInv, [Next]_vars, NEW k \in DOMAIN rows, rows[k] \notin Running
    PROVE  rows'[k] = rows[k]
<1>1. rows \in Seq(RunRow) /\ DOMAIN rows = 1..Len(rows) /\ Len(rows) \in Nat
  BY LenProperties DEF RInv, Typed
<1>2. CASE UNCHANGED rows
  BY <1>2
<1>3. CASE FailStaleRuns
  BY <1>3 DEF FailStaleRuns, Running
<1>4. ASSUME NEW j, NEW status, EndRun(j, status) PROVE rows'[k] = rows[k]
  BY <1>1, <1>4 DEF EndRun
<1>5. CASE rows' = Append(rows, "running")
  BY <1>1, <1>5, AppendProperties DEF RunRow, Running
<1>6. ASSUME NEW j \in DOMAIN rows, BecomeStale(j) PROVE rows'[k] = rows[k]
  BY <1>1, <1>6 DEF BecomeStale, Running
<1>7. CASE UNCHANGED vars
  BY <1>2, <1>7 DEF vars
<1>8. CASE Look
  BY <1>3, <1>8 DEF Look
<1>9. ASSUME NEW p \in scope.passes, Start(p) \/ Work(p) \/ StatementFails(p) \/ Crash(p)
      PROVE  rows'[k] = rows[k]
  <2>1. CASE Start(p)
    BY <1>3, <2>1 DEF Start
  <2>2. CASE CreateRun(p)
    BY <1>5, <2>2 DEF CreateRun
  <2>3. CASE Complete(p) \/ FailRun(p)
    BY <1>4, <2>3 DEF Complete, FailRun
  <2>4. CASE StatementFails(p) \/ Crash(p) \/ Select(p) \/ Analyse(p) \/ Normalize(p) \/ Delete(p)
    BY <1>2, <2>4 DEF StatementFails, Crash, Select, Analyse, ReadExisting, ReadDismissed, AgentEnds, AgentFails,
       ApplyActions, Normalize, Delete
  <2>5. CASE Cover(p)
    BY <1>2, <2>5 DEF Cover, List, Match, Attach, Ask, NextCluster, Find, Insert, Link, Still, Left
  <2> QED
    BY <1>9, <2>1, <2>2, <2>3, <2>4, <2>5 DEF Work
<1>10. ASSUME NEW j \in DOMAIN rows, CancelRun(j) PROVE rows'[k] = rows[k]
  BY <1>4, <1>10 DEF CancelRun
<1>11. CASE \/ \E f \in Fingerprints, status \in Statuses : SetStatus(f, status)
            \/ \E m \in scope.messages : Downvote(m)
  BY <1>2, <1>11 DEF SetStatus, Downvote
<1> QED
  BY <1>6, <1>7, <1>8, <1>9, <1>10, <1>11 DEF Next

\* A run writes recommendations at two places, and not at those it read as dismissed.
LEMMA DismissedLeft ==
    ASSUME RInv, [Next]_vars, NEW p \in Passes, NEW f \in Fingerprints,
           f \in pass[p].dismissed, rec[f] = "dismissed", pass'[p] # pass[p]
    PROVE  rec'[f] = "dismissed"
<1>1. CASE UNCHANGED rec
  BY <1>1
<1>2. CASE UNCHANGED pass
  BY <1>2
<1>3. ASSUME NEW q \in scope.passes, ApplyActions(q) PROVE rec'[f] = "dismissed"
  <2>1. CASE q # p
    <3>1. q \in Passes /\ pass'[p] = pass[p]
      BY <1>3, <2>1 DEF RInv, Typed, Scope, ApplyActions, Go
    <3> QED
      BY <3>1
  <2>2. CASE q = p /\ ~UNCHANGED rec
    <3>1. /\ rec' = [g \in Fingerprints |-> AfterPlan(g, pass[p].plan, pass[p].existing)]
          /\ pass[p].phase = "apply"
      BY <1>3, <2>2 DEF ApplyActions, At
    <3>2. Apart(pass[p])
      BY DEF RInv, Sound
    <3>3. f \notin pass[p].plan.insert /\ f \notin pass[p].plan.update /\ f \notin pass[p].plan.resolve
      BY <3>1, <3>2 DEF Apart
    <3> QED
      BY <3>1, <3>3 DEF AfterPlan
  <2> QED
    BY <1>1, <2>1, <2>2
<1>4. ASSUME NEW q \in scope.passes, Insert(q) PROVE rec'[f] = "dismissed"
  <2>1. CASE UNCHANGED rec
    BY <2>1
  <2>2. CASE rec[pass[q].target[1]] = Null /\ rec' = [rec EXCEPT ![pass[q].target[1]] = "open"]
    <3>1. pass[q].target[1] # f
      BY <2>2, RecommendationsAssumption DEF Statuses
    <3> QED
      BY <2>2, <3>1 DEF RInv, Typed
  <2> QED
    BY <1>4, <2>1, <2>2 DEF Insert
<1>5. CASE UNCHANGED vars
  BY <1>5 DEF vars
<1>6. CASE Look
  BY <1>1, <1>6 DEF Look, data
<1>7. ASSUME NEW q \in scope.passes, Start(q) \/ Work(q) \/ StatementFails(q) \/ Crash(q)
      PROVE  rec'[f] = "dismissed"
  <2>1. CASE Start(q) \/ StatementFails(q) \/ Crash(q)
    BY <1>1, <2>1 DEF Start, StatementFails, Crash, data
  <2>2. CASE Select(q) \/ CreateRun(q) \/ Normalize(q) \/ Delete(q) \/ Complete(q) \/ FailRun(q)
    BY <1>1, <2>2 DEF Select, CreateRun, Normalize, Delete, Complete, FailRun, data
  <2>3. CASE ReadExisting(q) \/ ReadDismissed(q) \/ AgentEnds(q) \/ AgentFails(q)
    BY <1>1, <2>3 DEF ReadExisting, ReadDismissed, AgentEnds, AgentFails, data
  <2>4. CASE List(q) \/ Match(q) \/ Attach(q) \/ Ask(q) \/ NextCluster(q) \/ Find(q) \/ Link(q) \/ Still(q) \/ Left(q)
    BY <1>1, <2>4 DEF List, Match, Attach, Ask, NextCluster, Find, Link, Still, Left, data
  <2> QED
    BY <1>3, <1>4, <1>7, <2>1, <2>2, <2>3, <2>4 DEF Work, Analyse, Cover
<1>8. CASE \E k \in DOMAIN rows : CancelRun(k) \/ BecomeStale(k)
  BY <1>2, <1>8 DEF CancelRun, BecomeStale
<1>9. CASE \/ \E g \in Fingerprints, status \in Statuses : SetStatus(g, status)
           \/ \E m \in scope.messages : Downvote(m)
  BY <1>2, <1>9 DEF SetStatus, Downvote
<1> QED
  BY <1>5, <1>6, <1>7, <1>8, <1>9 DEF Next

\* Links go in one step only.
LEMMA LinksLeft == ASSUME RInv, [Next]_vars PROVE Covered \subseteq Covered' \/ mixed'
<1>1. CASE links \subseteq links'
  BY <1>1 DEF Covered
<1>2. CASE UNCHANGED vars
  BY <1>1, <1>2 DEF vars
<1>3. CASE Look
  BY <1>1, <1>3 DEF Look, data
<1>4. ASSUME NEW q \in scope.passes, Start(q) \/ Work(q) \/ StatementFails(q) \/ Crash(q)
      PROVE  Covered \subseteq Covered' \/ mixed'
  <2>1. CASE Delete(q)
    <3>1. q \in Passes /\ (mixed => mixed')
      BY <2>1 DEF RInv, Typed, Scope, Delete
    <3> QED
      BY <2>1, <3>1, DeleteLeaves
  <2>2. CASE Start(q) \/ StatementFails(q) \/ Crash(q)
    BY <1>1, <2>2 DEF Start, StatementFails, Crash, data
  <2>3. CASE Select(q) \/ CreateRun(q) \/ Normalize(q) \/ Complete(q) \/ FailRun(q)
    BY <1>1, <2>3 DEF Select, CreateRun, Normalize, Complete, FailRun, data
  <2>4. CASE Analyse(q)
    BY <1>1, <2>4 DEF Analyse, ReadExisting, ReadDismissed, AgentEnds, AgentFails, ApplyActions, data
  <2>5. CASE Cover(q)
    BY <1>1, <2>5 DEF Cover, List, Match, Attach, Ask, NextCluster, Find, Insert, Link, Still, Left, data
  <2> QED
    BY <1>4, <2>1, <2>2, <2>3, <2>4, <2>5 DEF Work
<1>5. CASE \E k \in DOMAIN rows : CancelRun(k) \/ BecomeStale(k)
  BY <1>1, <1>5 DEF CancelRun, BecomeStale, data
<1>6. CASE \/ \E g \in Fingerprints, status \in Statuses : SetStatus(g, status)
           \/ \E m \in scope.messages : Downvote(m)
  BY <1>1, <1>6 DEF SetStatus, Downvote
<1> QED
  BY <1>2, <1>3, <1>4, <1>5, <1>6 DEF Next

-----------------------------------------------------------------------------
\* A run that completes has covered the downvotes it answers for, whatever other
\* runs, administrators and faults did meanwhile, unless two runs deleted at once.
THEOREM Covering == Spec => []DownvotesCovered
<1>1. RInv => DownvotesCovered
  <2> SUFFICES ASSUME RInv PROVE DownvotesCovered
    OBVIOUS
  <2>1. ASSUME NEW p \in Passes
        PROVE  /\ DOMAIN pass[p] = DOMAIN Resting
               /\ pass[p].phase \in Phases /\ pass[p].row \in 0..Len(rows)
               /\ Range(pass[p].existing) \subseteq Statuses \ {"dismissed"}
               /\ pass[p].owed \subseteq Messages
    <3>1. pass[p] \in Run /\ pass[p].row \in 0..Len(rows)
      BY DEF RInv, Typed
    <3>2. DOMAIN pass[p] = DOMAIN Resting
      BY <3>1 DEF Run, Resting
    <3>3. PICK S \in SUBSET Fingerprints : pass[p].existing \in [S -> {"open", "applied"}]
      BY <3>1 DEF Run, Readings
    <3>4. Range(pass[p].existing) \subseteq Statuses \ {"dismissed"}
      BY <3>3 DEF Range, Statuses
    <3> QED
      BY <3>1, <3>2, <3>4 DEF Run
  <2>2. TypeOK
    BY <2>1 DEF TypeOK, RInv, Typed, Present
  <2>3. ASSUME NEW p \in Passes, At(p, "complete"), ~mixed PROVE pass[p].owed \subseteq Covered
    BY <2>3 DEF RInv, Kept, Answered, Carried, At
  <2> QED
    BY <2>2, <2>3 DEF DownvotesCovered
<1> QED
  BY <1>1, Invariant, PTL

\* Runs keep the end they came to first and leave dismissed what they read as
\* dismissed, for any number of runs.
THEOREM Decided == Spec => DecidedStays
<1>1. ASSUME RInv, [Next]_vars
      PROVE  [/\ \A k \in DOMAIN rows : rows[k] \notin Running => rows'[k] = rows[k]
              /\ \A p \in Passes, f \in Fingerprints :
                    f \in pass[p].dismissed /\ rec[f] = "dismissed" /\ pass'[p] # pass[p]
                       => rec'[f] = "dismissed"]_vars
  BY <1>1, RowsKeepTheirEnd, DismissedLeft
<1> QED
  BY <1>1, Invariant, PTL DEF Spec, DecidedStays

\* No run takes the last link of a downvote away, unless two delete at once.
THEOREM LastLinkStays == Spec => LinksStay
<1>1. ASSUME RInv, [Next]_vars PROVE [Covered \subseteq Covered' \/ mixed']_vars
  BY <1>1, LinksLeft
<1> QED
  BY <1>1, Invariant, PTL DEF Spec, LinksStay
=============================================================================
