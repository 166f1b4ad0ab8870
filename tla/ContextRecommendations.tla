------------------------ MODULE ContextRecommendations ------------------------
(***************************************************************************)
(* The analysis runs of one project that turn its chats into               *)
(* recommendations (services/context-recommendations.service.ts), as the   *)
(* recurring job and administrators start them, and what administrators    *)
(* decide meanwhile.                                                       *)
(*                                                                         *)
(* A run reads the recommendations there are, lets an agent work for       *)
(* minutes, applies what the agent found in one transaction, gives every   *)
(* downvote without a recommendation one, and settles to which of several  *)
(* recommendations a downvote belongs.  A statement is one step.  Models   *)
(* answer anything.  Runs of the project do not open pull requests by      *)
(* themselves (autoCreatePrs is off).                                      *)
(***************************************************************************)
EXTENDS FiniteSets, Functions, Sequences, Naturals

CONSTANTS
    Passes,    \* executions of runContextRecommendations at one time
    Findings,  \* fingerprints of what a model can find
    Messages,  \* answers that users vote down
    Scopes,    \* bounds: who acts, and how many runs, decisions and faults there are
    Null

Statuses == {"open", "applied", "dismissed"}

ASSUME RecommendationsAssumption ==
    /\ Scopes \subseteq [passes : SUBSET Passes, findings : SUBSET Findings, messages : SUBSET Messages,
                         runs : Nat, asks : SUBSET {"status", "vote", "cancel"},
                         decisions : Nat, faults : Nat]
    /\ Null \notin Passes \union Findings \union Messages \union Statuses

VARIABLES
    rec,    \* fingerprint -> the status of its context_recommendation, or Null
    links,  \* context_recommendation_linked_feedback: fingerprints and messages
    voted,  \* messages with a downvote
    rows,   \* context_recommendation_run, in the order of startedAt
    pass,   \* pass -> how far it is
    mixed,  \* were links deleted that another run had counted on?
    scope   \* who acts, and the runs, decisions and faults that may still come

vars == <<rec, links, voted, rows, pass, mixed, scope>>

\* fallbackSubjectKey: the digest of a set of messages stands for the set.
Fallbacks    == (SUBSET Messages) \ {{}}
Fingerprints == Findings \union Fallbacks

Running  == {"running", "overdue"}  \* overdue: running for ten minutes
RunRow   == Running \union {"completed", "failed", "cancelled"}

Phases == {"idle", "select", "create", "existing", "dismissed", "agent", "apply", "list",
           "match", "attach", "ask", "clusters", "find", "insert", "link", "still", "left",
           "normalize", "delete", "complete", "failing"}

Resting ==
    [phase     |-> "idle",
     row       |-> 0,     \* its run
     existing  |-> <<>>,  \* fingerprint -> the status it was read with
     dismissed |-> {},    \* fingerprints read as dismissed
     plan      |-> [insert |-> {}, update |-> {}, resolve |-> {}],
     todo      |-> {},    \* downvotes to cover
     clusters  |-> <<>>,  \* fingerprint -> its messages
     target    |-> <<>>,  \* the cluster that is written: its fingerprint and messages
     pairs     |-> {},    \* links to write, or to delete
     owed      |-> {}]    \* downvotes this run has to have covered

TypeOK ==
    /\ rec \in [Fingerprints -> Statuses \union {Null}]
    /\ links \subseteq {f \in Fingerprints : rec[f] # Null} \X Messages
    /\ voted \subseteq Messages
    /\ rows \in Seq(RunRow)
    /\ \A p \in Passes :
          /\ DOMAIN pass[p] = DOMAIN Resting
          /\ pass[p].phase \in Phases /\ pass[p].row \in 0..Len(rows)
          /\ Range(pass[p].existing) \subseteq Statuses \ {"dismissed"}
          /\ pass[p].owed \subseteq Messages

\* What earlier runs and administrators left.
Init ==
    /\ scope \in Scopes
    /\ rec \in {r \in [Fingerprints -> Statuses \union {Null}] :
                  \A f \in Fingerprints \ scope.findings : r[f] = Null}
    /\ voted \in SUBSET scope.messages
    /\ links = {} /\ rows = <<>>
    /\ pass = [p \in Passes |-> Resting]
    /\ mixed = FALSE

At(p, phase) == pass[p].phase = phase
Go(p, new)   == pass' = [pass EXCEPT ![p] = new]
To(p, phase) == Go(p, [pass[p] EXCEPT !.phase = phase])

Failing(p) == [Resting EXCEPT !.phase = "failing", !.row = pass[p].row]

\* Once downvotes are covered a run turns to all links, and needs nothing it read.
Settling(r) == [Resting EXCEPT !.phase = "normalize", !.row = r.row, !.owed = r.owed]

Covered      == {l[2] : l \in links}
Reconcilable == {f \in Fingerprints : rec[f] \in {"open", "applied"}}
data         == <<rec, links, voted, mixed>>

Decision(ask) ==
    /\ ask \in scope.asks /\ scope.decisions > 0
    /\ scope' = [scope EXCEPT !.decisions = @ - 1]

-----------------------------------------------------------------------------
(* Runs: trpc/context-recommendation.routes.ts and the handler of the job *)

\* Variant: runs are left as they are.
KeepStaleRuns == rows' = rows

\* failStaleRuns: the first half of getLatestRun, for whoever looks at the runs.
FailStaleRuns == rows' = [k \in DOMAIN rows |-> IF rows[k] = "overdue" THEN "failed" ELSE rows[k]]

Look ==
    /\ FailStaleRuns
    /\ UNCHANGED <<data, pass, scope>>

\* The job is due, or an administrator asks for a run: any pass that does nothing.
Start(p) ==
    /\ scope.runs > 0
    /\ \E q \in scope.passes : At(q, "idle")
    /\ p = CHOOSE q \in scope.passes : At(q, "idle")
    /\ FailStaleRuns
    /\ To(p, "select")
    /\ UNCHANGED <<data, scope>>

\* The latest run decides whether there is one more.
Select(p) ==
    /\ At(p, "select")
    /\ To(p, IF rows # <<>> /\ rows[Len(rows)] \in Running THEN "idle" ELSE "create")
    /\ UNCHANGED <<data, rows, scope>>

\* createRun
CreateRun(p) ==
    /\ At(p, "create")
    /\ scope.runs > 0
    /\ rows' = Append(rows, "running")
    /\ Go(p, [pass[p] EXCEPT !.phase = "existing", !.row = Len(rows')])
    /\ scope' = [scope EXCEPT !.runs = @ - 1]
    /\ UNCHANGED data

\* completeRun, failRun and cancelRun only change a run that is running.
EndRun(k, status) == rows' = [rows EXCEPT ![k] = IF @ \in Running THEN status ELSE @]

Complete(p) ==
    /\ At(p, "complete")
    /\ EndRun(pass[p].row, "completed")
    /\ Go(p, Resting)
    /\ UNCHANGED <<data, scope>>

FailRun(p) ==
    /\ At(p, "failing")
    /\ EndRun(pass[p].row, "failed")
    /\ Go(p, Resting)
    /\ UNCHANGED <<data, scope>>

\* The agent is told to stop, which it does with what it found; the run goes on.
CancelRun(k) ==
    /\ Decision("cancel")
    /\ rows[k] \in Running
    /\ EndRun(k, "cancelled")
    /\ UNCHANGED <<data, pass>>

-----------------------------------------------------------------------------
(* What the agent finds: runContextRecommendations, reconcile, applyActions *)

\* getReconcilableRecommendations
ReadExisting(p) ==
    /\ At(p, "existing")
    /\ Go(p, [pass[p] EXCEPT !.phase = "dismissed", !.existing = Restrict(rec, Reconcilable)])
    /\ UNCHANGED <<data, rows, scope>>

\* getDismissedFingerprints
ReadDismissed(p) ==
    /\ At(p, "dismissed")
    /\ Go(p, [pass[p] EXCEPT !.phase = "agent",
                             !.dismissed = {f \in Fingerprints : rec[f] = "dismissed"}])
    /\ UNCHANGED <<data, rows, scope>>

\* Variant: what was dismissed is not told from the rest.
ReconcileAnything(existing, dismissed, recorded, strong, resolved) ==
    [insert  |-> strong \ DOMAIN existing,
     update  |-> recorded \intersect DOMAIN existing,
     resolve |-> {f \in (resolved \ recorded) \intersect DOMAIN existing : existing[f] = "open"}]

\* reconcile, with the findings that reach the impact floor.
Reconcile(existing, dismissed, recorded, strong, resolved) ==
    LET found == recorded \ dismissed
    IN  [insert  |-> (strong \intersect found) \ DOMAIN existing,
         update  |-> found \intersect DOMAIN existing,
         resolve |-> {f \in (resolved \ (found \union dismissed)) \intersect DOMAIN existing :
                        existing[f] = "open"}]

\* The agent records findings of its own and those it was shown, and resolves some.
AgentEnds(p) ==
    LET r == pass[p] IN
    /\ At(p, "agent")
    /\ \E recorded \in SUBSET (scope.findings \union DOMAIN r.existing) :
         \E strong \in SUBSET recorded, resolved \in SUBSET DOMAIN r.existing :
            Go(p, [r EXCEPT !.phase = "apply",
                     !.plan = Reconcile(r.existing, r.dismissed, recorded, strong, resolved)])
    /\ UNCHANGED <<data, rows, scope>>

AgentFails(p) ==
    /\ At(p, "agent")
    /\ Go(p, Failing(p))
    /\ UNCHANGED <<data, rows, scope>>

\* An applied recommendation that is found again is reopened.
AfterPlan(f, plan, existing) ==
    IF f \in plan.insert \/ (f \in plan.update /\ existing[f] = "applied") THEN "open"
    ELSE IF f \in plan.resolve THEN "applied"
    ELSE rec[f]

\* applyActions: its transaction fails if a fingerprint is there already.
ApplyActions(p) ==
    LET r == pass[p] IN
    /\ At(p, "apply")
    /\ IF \E f \in r.plan.insert : rec[f] # Null
       THEN Go(p, Failing(p)) /\ UNCHANGED <<rec, links>>
       ELSE /\ rec' = [f \in Fingerprints |-> AfterPlan(f, r.plan, r.existing)]
            /\ \E cited \in SUBSET ((r.plan.insert \union r.plan.update) \X voted) :
                  links' = links \union cited
            /\ Go(p, [r EXCEPT !.phase = "list", !.plan = Resting.plan])
    /\ UNCHANGED <<voted, mixed, rows, scope>>

-----------------------------------------------------------------------------
(* Downvotes nobody covers: ensureFeedbackCoverage *)

\* getUnlinkedNegativeFeedbacks
List(p) ==
    LET open == voted \ Covered IN
    /\ At(p, "list")
    /\ Go(p, IF open = {} THEN Settling(pass[p])
             ELSE [pass[p] EXCEPT !.phase = "match", !.todo = open, !.owed = open])
    /\ UNCHANGED <<data, rows, scope>>

\* attachFeedbackToExistingRecommendations: what a recommendation refers to, if that
\* was not dismissed.
Match(p) ==
    /\ At(p, "match")
    /\ \E pairs \in SUBSET (Reconcilable \X pass[p].todo) :
          /\ \A a, b \in pairs : a[2] = b[2] => a = b
          /\ Go(p, [pass[p] EXCEPT !.phase = "attach", !.pairs = pairs,
                                   !.todo = @ \ {l[2] : l \in pairs}])
    /\ UNCHANGED <<data, rows, scope>>

\* linkFeedbackToRecommendation, one after the other.
Attach(p) ==
    LET r == pass[p] IN
    /\ At(p, "attach")
    /\ \/ \E l \in r.pairs :
             /\ links' = links \union {l}
             /\ Go(p, [r EXCEPT !.pairs = @ \ {l}])
       \/ /\ r.pairs = {}
          /\ Go(p, IF r.todo = {} THEN Settling(r) ELSE [r EXCEPT !.phase = "ask"])
          /\ UNCHANGED links
    /\ UNCHANGED <<rec, voted, mixed, rows, scope>>

\* upsertBackfillRecommendation: a recommendation the run knows is not looked up.
Write(r, f, members) ==
    [r EXCEPT !.target = <<f, members>>,
              !.phase = IF f \in DOMAIN r.existing THEN "link" ELSE "find"]

\* Variant: without clusters there is nothing to write.
NoFallback(r, S) == Settling(r)

\* applyFallbackRecos
Fallback(r, S) ==
    IF S = {} THEN Settling(r)
    ELSE IF S \in r.dismissed THEN Settling([r EXCEPT !.owed = @ \ S])
    ELSE Write(r, S, S)

\* clusterFeedbacks: the model groups some of the downvotes, or it fails.
Ask(p) ==
    LET r == pass[p] IN
    /\ At(p, "ask")
    /\ \/ Go(p, Fallback(r, r.todo))
       \/ \E S \in (SUBSET scope.findings) \ {{}} : \E clusters \in [S -> (SUBSET r.todo) \ {{}}] :
            LET grouped == UNION Range(clusters) IN
            Go(p, [r EXCEPT !.phase = "clusters", !.clusters = clusters, !.todo = grouped,
                            !.owed = @ \ (r.todo \ grouped)])
    /\ UNCHANGED <<data, rows, scope>>

\* applyFeedbackClusters: the next cluster, unless its fingerprint was dismissed.
NextCluster(p) ==
    LET r == pass[p] IN
    /\ At(p, "clusters")
    /\ \/ \E f \in DOMAIN r.clusters :
            LET members == r.clusters[f]
                rest    == [r EXCEPT !.clusters = Restrict(@, DOMAIN @ \ {f})]
            IN  Go(p, IF f \in r.dismissed
                      THEN [rest EXCEPT !.todo = @ \ members, !.owed = @ \ members]
                      ELSE Write(rest, f, members))
       \/ DOMAIN r.clusters = {} /\ To(p, "still")
    /\ UNCHANGED <<data, rows, scope>>

\* getRecommendationByFingerprint, whatever its status
Find(p) ==
    /\ At(p, "find")
    /\ To(p, IF rec[pass[p].target[1]] = Null THEN "insert" ELSE "link")
    /\ UNCHANGED <<data, rows, scope>>

\* insertRecommendation fails if the fingerprint is there by now.
Insert(p) ==
    LET f == pass[p].target[1] IN
    /\ At(p, "insert")
    /\ IF rec[f] = Null
       THEN To(p, "link") /\ rec' = [rec EXCEPT ![f] = "open"]
       ELSE Go(p, Failing(p)) /\ UNCHANGED rec
    /\ UNCHANGED <<links, voted, mixed, rows, scope>>

Link(p) ==
    LET r == pass[p] IN
    /\ At(p, "link")
    /\ links' = links \union ({r.target[1]} \X r.target[2])
    /\ Go(p, IF r.target[1] \in Findings THEN [r EXCEPT !.phase = "clusters", !.target = <<>>]
             ELSE Settling(r))
    /\ UNCHANGED <<rec, voted, mixed, rows, scope>>

\* getStillUnlinked, and what is left of it goes to the fallback.
Still(p) ==
    LET left == pass[p].todo \ Covered IN
    /\ At(p, "still")
    /\ Go(p, IF left = {} THEN Settling(pass[p])
             ELSE [pass[p] EXCEPT !.todo = left, !.phase = "left"])
    /\ UNCHANGED <<data, rows, scope>>

Left(p) ==
    /\ At(p, "left")
    /\ Go(p, Fallback(pass[p], pass[p].todo \ Covered))
    /\ UNCHANGED <<data, rows, scope>>

-----------------------------------------------------------------------------
(* To whom a downvote belongs: normalizeFeedbackLinks *)

Group(m) == {l \in links : l[2] = m}

\* Variant: a dismissed recommendation never owns a downvote.
OwnersStanding(m) == {l \in Group(m) : rec[l[1]] # "dismissed"}

\* pickFeedbackOwner, by what they refer to, their impact and their age
Owners(m) ==
    LET active == {l \in Group(m) : rec[l[1]] # "dismissed"}
    IN  IF active = {} THEN Group(m) ELSE active

\* listAllFeedbackLinks: all links but one of each downvote are stale.
Normalize(p) ==
    /\ At(p, "normalize")
    /\ \E kept \in SUBSET links :
          /\ \A m \in Covered : Cardinality(kept \intersect Group(m)) <= 1
          /\ \A m \in Covered : kept \intersect Group(m) \subseteq Owners(m)
          /\ \A m \in Covered : Owners(m) # {} => kept \intersect Group(m) # {}
          /\ Go(p, [pass[p] EXCEPT !.phase = "delete", !.pairs = links \ kept])
    /\ UNCHANGED <<data, rows, scope>>

\* deleteFeedbackLinks
Delete(p) ==
    /\ At(p, "delete")
    /\ links' = links \ pass[p].pairs
    /\ mixed' = (mixed \/ \E q \in Passes \ {p} : At(q, "delete") /\ pass[p].pairs # {})
    /\ Go(p, [pass[p] EXCEPT !.phase = "complete", !.pairs = {}])
    /\ UNCHANGED <<rec, voted, rows, scope>>

-----------------------------------------------------------------------------
(* Administrators, users, time and faults *)

\* setRecommendationStatus
SetStatus(f, status) ==
    /\ Decision("status")
    /\ rec[f] \notin {Null, status}
    /\ rec' = [rec EXCEPT ![f] = status]
    /\ UNCHANGED <<links, voted, rows, pass, mixed>>

Downvote(m) ==
    /\ Decision("vote")
    /\ m \notin voted
    /\ voted' = voted \union {m}
    /\ UNCHANGED <<rec, links, rows, pass, mixed>>

\* Ten minutes pass.
BecomeStale(k) ==
    /\ rows[k] = "running"
    /\ rows' = [rows EXCEPT ![k] = "overdue"]
    /\ UNCHANGED <<data, pass, scope>>

Fault == scope.faults > 0 /\ scope' = [scope EXCEPT !.faults = @ - 1]

\* A statement of the run throws: the run fails.
StatementFails(p) ==
    /\ pass[p].phase \notin {"idle", "failing"} /\ pass[p].row # 0
    /\ Fault
    /\ Go(p, Failing(p))
    /\ UNCHANGED <<data, rows>>

\* The process dies, or the run cannot be marked failed, or there is none yet.
Crash(p) ==
    /\ pass[p].phase # "idle"
    /\ Fault
    /\ Go(p, Resting)
    /\ UNCHANGED <<data, rows>>

-----------------------------------------------------------------------------
Analyse(p) == ReadExisting(p) \/ ReadDismissed(p) \/ AgentEnds(p) \/ AgentFails(p) \/ ApplyActions(p)
Cover(p)   == List(p) \/ Match(p) \/ Attach(p) \/ Ask(p) \/ NextCluster(p) \/ Find(p) \/ Insert(p)
                \/ Link(p) \/ Still(p) \/ Left(p)
Work(p)    == Select(p) \/ CreateRun(p) \/ Analyse(p) \/ Cover(p) \/ Normalize(p) \/ Delete(p)
                \/ Complete(p) \/ FailRun(p)

Next ==
    \/ Look
    \/ \E p \in scope.passes : Start(p) \/ Work(p) \/ StatementFails(p) \/ Crash(p)
    \/ \E k \in DOMAIN rows : CancelRun(k) \/ BecomeStale(k)
    \/ \E f \in Fingerprints, status \in Statuses : SetStatus(f, status)
    \/ \E m \in scope.messages : Downvote(m)

Spec == Init /\ [][Next]_vars

\* Models answer or fail; time passes, and the page and the job go on looking at
\* the latest run.
FairSpec ==
    /\ Spec
    /\ \A p \in Passes : WF_vars(Work(p))
    /\ WF_vars(\E k \in DOMAIN rows : BecomeStale(k))
    /\ WF_vars(Look)

-----------------------------------------------------------------------------
(* Properties *)

\* What was decided stays: a run keeps the end it came to first, also when it was
\* cancelled or given up and works on; and what a run has read as dismissed it
\* leaves dismissed.
DecidedStays ==
    [][/\ \A k \in DOMAIN rows : rows[k] \notin Running => rows'[k] = rows[k]
       /\ \A p \in Passes, f \in Fingerprints :
             f \in pass[p].dismissed /\ rec[f] = "dismissed" /\ pass'[p] # pass[p]
                => rec'[f] = "dismissed"]_vars

\* Runs take links away, but never the last one of a downvote, whoever was
\* dismissed in between: unless two runs settle links at once.
LinksStay ==
    [][Covered \subseteq Covered' \/ mixed']_vars

\* Of the downvotes a run found without a recommendation it leaves none behind when
\* it completes: whatever the model made of them, but for those it left out of its
\* clusters, and those whose recommendation was dismissed.
DownvotesCovered ==
    /\ TypeOK
    /\ \A p \in Passes : At(p, "complete") /\ ~mixed => pass[p].owed \subseteq Covered

\* No run counts as running for ever, whatever became of its process: the project
\* is analysed again.
RunsEnd == []<>(\A k \in DOMAIN rows : rows[k] \notin Running)
=============================================================================
