---------------------------- MODULE WithKeyedLock ----------------------------
(***************************************************************************)
(* withKeyedLock for one key (utils/keyed-lock.ts): the database of the    *)
(* deployment decides, once and for all, which of the two locks its        *)
(* callers get.  The state of the other one stays as it began.             *)
(***************************************************************************)
EXTENDS KeyedLock

VARIABLES
    dialect,  \* dbConfig.dialect
    held, previous, chain, failed, ticket, arrived

Memory == INSTANCE InMemoryLock WITH phase <- chain

memory == <<held, previous, chain, failed, ticket, arrived>>
all    == <<dialect, vars, memory>>

WithInit ==
    /\ dialect \in {"postgres", "sqlite"}
    /\ Init
    /\ Memory!Init

\* withDatabaseLock
OnPostgres(A) == dialect = "postgres" /\ A /\ UNCHANGED <<dialect, memory>>

\* withInMemoryLock
InMemory(A) == dialect # "postgres" /\ A /\ UNCHANGED <<dialect, vars>>

WithNext == OnPostgres(Next) \/ InMemory(Memory!Next)

\* Time passes, timers fire, callers poll, microtasks run.  Functions return in the
\* process whose callers are chained to them; on Postgres they need not.
Proceeds(c) ==
    \/ OnPostgres(Renew(c) \/ Poll(c) \/ Release(c))
    \/ InMemory(Memory!Run(c) \/ Memory!Settle(c) \/ Memory!Finally(c))

WithFairSpec ==
    /\ WithInit /\ [][WithNext]_all
    /\ WF_all(OnPostgres(Tick))
    /\ \A c \in Calls : WF_all(Proceeds(c))

-----------------------------------------------------------------------------
(* Properties: of the leased row IsMutex, and these *)

\* The chained promises are a mutex: withInMemoryLock keeps the promise of
\* withKeyedLock, at every interleaving of callers and continuations.
ChainIsMutex == Memory!ChainIsMutex

\* Nobody overtakes: a call that runs has no earlier one behind it still waiting;
\* and once everyone is through the map holds no entry for the key.
InOrder == Memory!InOrder /\ Memory!NothingKept

\* Nobody waits for ever: a poller gets the row or gives up, whether the owner
\* lives, hangs or died; a chained call runs, also after one whose function threw.
NobodyWaitsForEver ==
    \A c \in Calls :
        LET waits == phase[c] = "polling" \/ chain[c] = "chained" IN waits ~> ~waits
=============================================================================
