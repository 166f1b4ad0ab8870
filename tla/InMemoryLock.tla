----------------------------- MODULE InMemoryLock -----------------------------
(***************************************************************************)
(* withKeyedLock for one key on SQLite (withInMemoryLock in                *)
(* utils/keyed-lock.ts): every call chains its function to the promise     *)
(* that the map holds for the key and puts its own promise there; a call   *)
(* that settles takes its promise out again if it is still the one held.   *)
(*                                                                         *)
(* The continuations run as microtasks of one process, in any order here.  *)
(***************************************************************************)
EXTENDS Naturals, LockCalls

VARIABLES
    held,     \* inMemoryLocks.get(key): the call whose promise it is, or Nobody
    previous, \* call -> the call it is chained to, or Nobody
    phase,    \* call -> how far it is
    failed,   \* the calls whose function threw
    ticket,   \* call -> its place in the order of arrival (history)
    arrived   \* how many have arrived (history)

vars == <<held, previous, phase, failed, ticket, arrived>>

Phases == {"new", "chained", "running", "settled", "over"}

TypeOK ==
    /\ held \in Calls \union {Nobody}
    /\ previous \in [Calls -> Calls \union {Nobody}]
    /\ phase \in [Calls -> Phases]
    /\ failed \subseteq Calls
    /\ ticket \in [Calls -> Nat]
    /\ arrived \in Nat

Init ==
    /\ held = Nobody
    /\ previous = [c \in Calls |-> Nobody]
    /\ phase = [c \in Calls |-> "new"]
    /\ failed = {}
    /\ ticket = [c \in Calls |-> 0]
    /\ arrived = 0

Settled(c) == phase[c] \in {"settled", "over"}

\* The synchronous part of the call.
Chain(c) ==
    /\ phase[c] = "new"
    /\ previous' = [previous EXCEPT ![c] = held]
    /\ held' = c
    /\ phase' = [phase EXCEPT ![c] = "chained"]
    /\ ticket' = [ticket EXCEPT ![c] = arrived + 1]
    /\ arrived' = arrived + 1
    /\ UNCHANGED failed

\* previous.catch(() => undefined).then(fn)
Runs(c) == previous[c] # Nobody => Settled(previous[c])

Run(c) ==
    /\ phase[c] = "chained"
    /\ Runs(c)
    /\ phase' = [phase EXCEPT ![c] = "running"]
    /\ UNCHANGED <<held, previous, failed, ticket, arrived>>

\* The function resolves or rejects.
Settle(c) ==
    /\ phase[c] = "running"
    /\ phase' = [phase EXCEPT ![c] = "settled"]
    /\ failed' \in {failed, failed \union {c}}
    /\ UNCHANGED <<held, previous, ticket, arrived>>

\* Variant: the promise is taken out whoever put it there.
HeldAfterAnyway(c) == Nobody

HeldAfter(c) == IF held = c THEN Nobody ELSE held

\* current.finally
Finally(c) ==
    /\ phase[c] = "settled"
    /\ held' = HeldAfter(c)
    /\ phase' = [phase EXCEPT ![c] = "over"]
    /\ UNCHANGED <<previous, failed, ticket, arrived>>

Next == \E c \in Calls : Chain(c) \/ Run(c) \/ Settle(c) \/ Finally(c)

Spec == Init /\ [][Next]_vars

-----------------------------------------------------------------------------
(* Properties *)

\* What a caller sees of withKeyedLock.
Seen == [c \in Calls |-> CASE phase[c] = "new" -> "new"
                           [] phase[c] = "chained" -> "waiting"
                           [] phase[c] = "running" -> "running"
                           [] OTHER -> "over"]

M == INSTANCE Mutex WITH call <- Seen

\* The chained promises are a mutex: withInMemoryLock keeps the promise of
\* withKeyedLock, at every interleaving of callers and continuations.
ChainIsMutex == M!Spec

Waits(c) == phase[c] = "chained"

\* Nobody overtakes: a call that runs has no earlier one behind it still waiting.
InOrder ==
    \A c, d \in Calls : phase[c] = "running" /\ Waits(d) => ticket[c] < ticket[d]

\* Once everyone is through the map holds no entry for the key.
NothingKept == (\A c \in Calls : phase[c] \in {"new", "over"}) => held = Nobody
=============================================================================
