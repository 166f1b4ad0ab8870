----------------------------- MODULE StoryQueries -----------------------------
(***************************************************************************)
(* One refresh of a live story (services/live-story.ts): the queries it    *)
(* shows and those they read from are run again, each once, and what they  *)
(* return replaces the story's data cache.                                 *)
(*                                                                         *)
(* A local query reads earlier results as tables: those of this refresh    *)
(* from a map in memory, and any other from the rows the chat has stored   *)
(* (services/query-result.service.ts), which are from before the refresh.  *)
(* References may be circular, and name queries the chat does not have.    *)
(*                                                                         *)
(* Rows are "old" (stored in the chat), "fresh" (of this refresh, from     *)
(* fresh rows alone) or "mixed".  The code between two awaits is one step. *)
(***************************************************************************)
EXTENDS Naturals, SequencesExt, Relation

CONSTANTS
    Queries,  \* query ids
    Null

VARIABLES
    sql,        \* id -> the query as the chat has it, or Null
    shown,      \* the queries of the story, in the order they are run
    queries,    \* the ids loaded so far
    frontier,   \* those of them whose references were not followed yet
    requested,  \* ids asked for
    exec,       \* the executions, in the order they came to their first await
    results,    \* toolContext.queryResults: id -> its rows, or Null
    refresh,    \* how far the refresh is
    cache       \* the data cache of the story: id -> rows, or Null

story == <<sql, shown>>
vars  == <<sql, shown, queries, frontier, requested, exec, results, refresh, cache>>

Rows  == {"old", "fresh", "mixed"}
Query == [local : BOOLEAN, refs : SetToAllKPermutations(Queries)]
Exec  == [query : Queries, awaits : SUBSET Nat, handed : SUBSET Nat,
          phase : {"await", "read", "fetch", "run", "done", "failed"},
          read : Seq(Rows \union {Null}), rows : Rows \union {Null}]

TypeOK ==
    /\ sql \in [Queries -> Query \union {Null}]
    /\ shown \in SetToAllKPermutations(Queries)
    /\ queries \subseteq Queries /\ frontier \subseteq queries /\ requested \subseteq Queries
    /\ exec \in Seq(Exec)
    /\ results \in [Queries -> Rows \union {Null}]
    /\ refresh \in {"loading", "running", "narrating", "done", "failed"}
    /\ cache \in {Null} \union UNION {[S -> Rows] : S \in SUBSET Queries}

\* A query reads other queries, and only a local one does.
Stored == {[local |-> FALSE, refs |-> <<>>]} \union [local : {TRUE}, refs : SetToAllKPermutations(Queries)]

Init ==
    /\ sql \in [Queries -> Stored \union {Null}]
    /\ \A q \in Queries : sql[q] # Null => ~Contains(sql[q].refs, q)
    /\ shown \in SetToAllKPermutations({q \in Queries : sql[q] # Null}) \ {<<>>}
    /\ queries = ToSet(shown) /\ frontier = ToSet(shown) /\ requested = ToSet(shown)
    /\ exec = <<>>
    /\ results = [q \in Queries |-> Null]
    /\ refresh = "loading"
    /\ cache = Null

-----------------------------------------------------------------------------
(* Which queries to run, and what they wait for *)

ReferencedBy(S) == UNION {ToSet(sql[q].refs) : q \in S}

\* loadUpstreamQueries: one turn of its loop.
LoadUpstream ==
    LET missing == ReferencedBy(frontier) \ requested
    IN  /\ refresh = "loading" /\ missing # {}
        /\ requested' = requested \union missing
        /\ frontier' = {q \in missing : sql[q] # Null}
        /\ queries' = queries \union frontier'
        /\ UNCHANGED <<story, exec, results, refresh, cache>>

\* A query that waits for nothing goes on to its first reference, or to the database.
After(q, read) == IF Len(read) < Len(sql[q].refs) THEN "read" ELSE "run"

NewExec(q, awaits) ==
    [query |-> q, awaits |-> awaits, handed |-> {},
     phase |-> IF awaits # {} THEN "await" ELSE After(q, <<>>),
     read |-> <<>>, rows |-> Null]

\* Variant: only what the story shows is run first.
UpstreamShown(q, lineage) ==
    SelectSeq(sql[q].refs, LAMBDA id : Contains(shown, id) /\ id \notin lineage)

\* A query that is its own ancestor is not waited for.
Upstream(q, lineage) == SelectSeq(sql[q].refs, LAMBDA id : id \in queries /\ id \notin lineage)

\* Variant: nothing is remembered of the runs there are.
NeverPending(q, plan) == FALSE

\* running.get
Pending(q, plan) == \E i \in DOMAIN plan : plan[i].query = q

\* A run there is a promise of, and the queries that are not waited for.
Promise == [query : Queries, lineage : SUBSET Queries]

\* Variant: a run is registered before it is executed, and only knows itself.
RegisteredFirst[ids \in Seq(Queries), ancestors \in SUBSET Queries, plan \in Seq(Promise)] ==
    IF ids = <<>> THEN plan
    ELSE LET q == Head(ids)
         IN  RegisteredFirst[Tail(ids), ancestors,
                IF Pending(q, plan) THEN plan
                ELSE RegisteredFirst[Upstream(q, {q}), {q},
                                     Append(plan, [query |-> q, lineage |-> {q}])]]

\* Variant of Plan.
PlanRegistered(ids) == RegisteredFirst[ids, {}, <<>>]

\* run and execute, up to the first await, for one query after the other: depth
\* first, and a run is registered once its upstream runs are.
Run[ids \in Seq(Queries), ancestors \in SUBSET Queries, plan \in Seq(Promise)] ==
    IF ids = <<>> THEN plan
    ELSE LET q       == Head(ids)
             lineage == ancestors \union {q}
         IN  Run[Tail(ids), ancestors,
                IF Pending(q, plan) THEN plan
                ELSE Append(Run[Upstream(q, lineage), lineage, plan],
                            [query |-> q, lineage |-> lineage])]

\* The runs of a refresh, in the order they are promised.
Plan(ids) == Run[ids, {}, <<>>]

\* execute: every run awaits those of its upstream queries.
Executions[plan \in Seq(Promise)] ==
    [i \in DOMAIN plan |->
        NewExec(plan[i].query,
                {j \in DOMAIN plan : Contains(Upstream(plan[i].query, plan[i].lineage), plan[j].query)})]

\* The upstream queries are all there; every query of the story is run.
Launch ==
    /\ refresh = "loading"
    /\ ReferencedBy(frontier) \subseteq requested
    /\ exec' = Executions[Plan(shown)]
    /\ refresh' = "running"
    /\ UNCHANGED <<story, queries, frontier, requested, results, cache>>

-----------------------------------------------------------------------------
(* An execution *)

Unmoved == <<story, queries, frontier, requested, refresh, cache>>

\* The rows of an upstream query that ended are handed to the local database.
Hand(e, d) ==
    /\ d \in exec[e].awaits \ exec[e].handed
    /\ exec[d].phase = "done"
    /\ results' = [results EXCEPT ![exec[d].query] = exec[d].rows]
    /\ LET handed == exec[e].handed \union {d}
       IN  exec' = [exec EXCEPT ![e].handed = handed,
                                ![e].phase = IF @ = "await" /\ handed = exec[e].awaits
                                             THEN After(exec[e].query, <<>>) ELSE @]
    /\ UNCHANGED Unmoved

Reject(e) ==
    /\ exec[e].phase = "await"
    /\ \E d \in exec[e].awaits : exec[d].phase = "failed"
    /\ exec' = [exec EXCEPT ![e].phase = "failed"]
    /\ UNCHANGED <<Unmoved, results>>

NextRef(e) == sql[exec[e].query].refs[Len(exec[e].read) + 1]

Took(e, rows) ==
    LET read == Append(exec[e].read, rows)
    IN  exec' = [exec EXCEPT ![e].read = read, ![e].phase = After(exec[e].query, read)]

\* collectReferencedResults: the next reference, from memory if it is there.
Read(e) ==
    /\ exec[e].phase = "read"
    /\ IF results[NextRef(e)] # Null
       THEN Took(e, results[NextRef(e)])
       ELSE exec' = [exec EXCEPT ![e].phase = "fetch"]
    /\ UNCHANGED <<Unmoved, results>>

\* getQueryResult found nothing in memory: what the chat has is put there.
Fetch(e) ==
    /\ exec[e].phase = "fetch"
    /\ IF sql[NextRef(e)] # Null
       THEN Took(e, "old") /\ results' = [results EXCEPT ![NextRef(e)] = "old"]
       ELSE Took(e, Null) /\ UNCHANGED results
    /\ UNCHANGED Unmoved

\* The query runs: a table it names and nobody has is an error.
Execute(e) ==
    /\ exec[e].phase = "run"
    /\ exec' = [exec EXCEPT ![e].phase = IF Contains(exec[e].read, Null) THEN "failed" ELSE "done",
                            ![e].rows = IF Contains(exec[e].read, Null) THEN Null
                                        ELSE IF ToSet(exec[e].read) \subseteq {"fresh"} THEN "fresh"
                                        ELSE "mixed"]
    /\ UNCHANGED <<Unmoved, results>>

\* The warehouse, the database or the local engine throws.
Fail(e) ==
    /\ exec[e].phase \in {"read", "fetch", "run"}
    /\ exec' = [exec EXCEPT ![e].phase = "failed"]
    /\ UNCHANGED <<Unmoved, results>>

-----------------------------------------------------------------------------
(* The end of the refresh *)

Roots == {e \in DOMAIN exec : Contains(shown, exec[e].query)}

\* Promise.all: with the first failure, or with the last result.
Settle ==
    /\ refresh = "running"
    /\ \/ /\ \E e \in Roots : exec[e].phase = "failed"
          /\ refresh' = "failed"
       \/ /\ \A e \in Roots : exec[e].phase = "done"
          /\ refresh' = "narrating"
    /\ UNCHANGED <<story, queries, frontier, requested, exec, results, cache>>

\* The narrative is written from the rows, and both are cached; or that fails.
Narrate ==
    /\ refresh = "narrating"
    /\ \/ /\ refresh' = "done"
          /\ cache' = [q \in ToSet(shown) |-> exec[CHOOSE e \in Roots : exec[e].query = q].rows]
       \/ refresh' = "failed" /\ UNCHANGED cache
    /\ UNCHANGED <<story, queries, frontier, requested, exec, results>>

Refresh == LoadUpstream \/ Launch \/ Settle \/ Narrate

Step(e) == (\E d \in DOMAIN exec : Hand(e, d)) \/ Reject(e) \/ Read(e) \/ Fetch(e) \/ Execute(e) \/ Fail(e)

Next == Refresh \/ \E e \in DOMAIN exec : Step(e)

Spec == Init /\ [][Next]_vars

\* Whatever can go on does: queries answer or fail.
FairSpec == Spec /\ WF_vars(Next)

-----------------------------------------------------------------------------
(* Properties *)

Reads == TransitiveClosure([x, y \in Queries |-> sql[x] # Null /\ Contains(sql[x].refs, y)], Queries)

\* A local query reads the fresh rows of every query it references, but of those
\* that read from it in turn, however its references are shared, nested or
\* circular and in whatever order they end; and a story none of whose queries
\* leads into a circle caches nothing that was computed from older rows.
ReadsFresh ==
    /\ \A e \in DOMAIN exec : \A i \in DOMAIN exec[e].read :
          LET q == exec[e].query
              u == sql[q].refs[i]
          IN  exec[e].read[i] = "old" => Reads[u, q]
    /\ refresh = "done" => \A q \in DOMAIN cache :
          cache[q] = "fresh" \/ \E c \in Queries : Reads[c, c] /\ (c = q \/ Reads[q, c])

\* Each query costs one run, however many queries and charts read it, and only
\* what the story leads to is run.
RunsOnce ==
    /\ TypeOK
    /\ \A d, e \in DOMAIN exec : exec[d].query = exec[e].query => d = e
    /\ \A e \in DOMAIN exec : \E q \in ToSet(shown) : exec[e].query = q \/ Reads[q, exec[e].query]

\* A refresh ends, and leaves no query waiting: queries that read from each other
\* do not wait for each other.
RefreshEnds ==
    <>(/\ refresh \in {"done", "failed"}
       /\ \A e \in DOMAIN exec : exec[e].phase \in {"done", "failed"})
=============================================================================
