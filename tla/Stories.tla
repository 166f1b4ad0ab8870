-------------------------------- MODULE Stories --------------------------------
(***************************************************************************)
(* Stories and their refreshes: how a story reaches its recipients         *)
(* (StoryDelivery), and how the rows it shows are computed again           *)
(* (StoryQueries).  A delivery asks of a refresh only whether it succeeds, *)
(* and a refresh knows nothing of deliveries, so a behaviour is about one  *)
(* of the two.                                                             *)
(***************************************************************************)
EXTENDS StoryPromises

CONSTANT Queries  \* query ids

ASSUME QueriesAssumption == Null \notin Queries

VARIABLES
    concern,  \* "delivery" or "refresh"
    sql, shown, queries, frontier, requested, running, results, refresh, cache

Refreshing == INSTANCE StoryQueries WITH exec <- running

delivering == <<story, delivery, rows, exec, origin, sent, done, editing, edits, overlap, faults>>
refreshing == <<sql, shown, queries, frontier, requested, running, results, refresh, cache>>
svars      == <<concern, delivering, refreshing>>

NothingToRefresh ==
    /\ sql = [q \in Queries |-> Null] /\ shown = <<>>
    /\ queries = {} /\ frontier = {} /\ requested = {}
    /\ running = <<>> /\ results = [q \in Queries |-> Null]
    /\ refresh = "done" /\ cache = <<>>

StoriesInit ==
    /\ D!Init
    /\ \/ concern = "delivery" /\ NothingToRefresh
       \/ concern = "refresh" /\ Refreshing!Init /\ story.schedule = CHOOSE c \in Crons : TRUE

OfDelivery(A) == concern = "delivery" /\ A /\ UNCHANGED <<concern, refreshing>>
OfRefresh(A)  == concern = "refresh" /\ A /\ UNCHANGED <<concern, delivering>>

StoriesNext == OfDelivery(D!Next) \/ OfRefresh(Refreshing!Next)

\* As in FairSpec of the two.
StoriesSpec ==
    /\ StoriesInit /\ [][StoriesNext]_svars
    /\ \A o \in Occurrences : WF_svars(OfDelivery(D!Work(o)))
    /\ \A k \in D!Keys : /\ WF_svars(OfDelivery(D!Reclaim(k)))
                         /\ WF_svars(OfDelivery(\E o \in Occurrences : D!Claim(k, o)))
    /\ WF_svars(OfRefresh(Refreshing!Next))

-----------------------------------------------------------------------------
(* Properties *)

\* What a story shows after its refresh is computed from fresh rows, each query
\* having run once (ReadsFresh and RunsOnce of StoryQueries).
RefreshedOnceFromFresh == Refreshing!ReadsFresh /\ Refreshing!RunsOnce

\* Nothing is left half done: a failed delivery is retried until everyone was reached
\* or its attempts are used up (RetriesComplete), and a refresh ends with no query
\* waiting (RefreshEnds of StoryQueries).
StoriesEnd == D!RetriesComplete /\ (concern = "refresh" => Refreshing!RefreshEnds)
=============================================================================
