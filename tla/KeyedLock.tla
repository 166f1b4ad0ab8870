------------------------------ MODULE KeyedLock ------------------------------
(***************************************************************************)
(* withKeyedLock for one key on Postgres (withDatabaseLock in              *)
(* utils/keyed-lock.ts, queries/keyed-lock.queries.ts): a row names the    *)
(* owner and the end of its lease, callers poll for it, and a timer in the *)
(* owner's process renews the lease until the function has returned.       *)
(*                                                                         *)
(* Each call draws a new owner id, and is named by it.                     *)
(* Time is counted in renewal intervals, by the clock of the database.     *)
(* Timers run on time unless the process stalls; one renewal is due in     *)
(* every interval and may fail.                                            *)
(***************************************************************************)
EXTENDS Integers, LockCalls

CONSTANTS
    Lease,        \* LOCK_LEASE_MS in renewal intervals
    MaxWait,      \* MAX_WAIT_MS in renewal intervals
    Stalls,       \* may a process stall past its renewals?
    Crashes,      \* may a process die, or a release fail?
    MaxMissed     \* bound on the renewals of one behaviour that fail

ASSUME LockAssumption ==
    /\ Lease \in Nat \ {0} /\ MaxWait \in Nat /\ MaxMissed \in Nat
    /\ Stalls \in BOOLEAN /\ Crashes \in BOOLEAN

VARIABLES
    owner,    \* keyed_lock.owner, Nobody when there is no row
    left,     \* expires_at - now; one past its end it stays there
    phase,    \* call -> "new", "polling", "running", "releasing", "over" or "dead"
    due,      \* call -> is the renewal of this interval still to come?
    waited,   \* call -> how long it has polled
    missed    \* failed renewals so far

vars == <<owner, left, phase, due, waited, missed>>

Phases == {"new", "polling", "running", "releasing", "over", "dead"}

TypeOK ==
    /\ owner \in Calls \union {Nobody}
    /\ left \in -1..Lease
    /\ phase \in [Calls -> Phases]
    /\ due \in [Calls -> BOOLEAN]
    /\ waited \in [Calls -> 0..MaxWait]
    /\ missed \in 0..MaxMissed

Init ==
    /\ owner = Nobody
    /\ left = 0
    /\ phase = [c \in Calls |-> "new"]
    /\ due = [c \in Calls |-> FALSE]
    /\ waited = [c \in Calls |-> 0]
    /\ missed = 0

Go(c, to) == phase' = [phase EXCEPT ![c] = to]

Call(c) ==
    /\ phase[c] = "new"
    /\ Go(c, "polling")
    /\ UNCHANGED <<owner, left, due, waited, missed>>

\* Variant: a lease counts as over at its last instant.
FreeEarly == owner = Nobody \/ left <= 1

\* tryAcquireLock: insert, or take over a row whose expires_at < now().
Free == owner = Nobody \/ left < 0

Acquire(c) ==
    /\ phase[c] = "polling"
    /\ Free
    /\ owner' = c
    /\ left' = Lease
    /\ Go(c, "running")
    /\ due' = [due EXCEPT ![c] = FALSE]
    /\ UNCHANGED <<waited, missed>>

\* acquireLock throws after the deadline.
TimeOut(c) ==
    /\ phase[c] = "polling"
    /\ ~Free /\ waited[c] = MaxWait
    /\ Go(c, "over")
    /\ UNCHANGED <<owner, left, due, waited, missed>>

Alive(c) == phase[c] = "running"

\* renewLock: only the owner's row, and only while expires_at > now().
Renew(c) ==
    /\ Alive(c) /\ due[c]
    /\ due' = [due EXCEPT ![c] = FALSE]
    /\ left' = IF owner = c /\ left > 0 THEN Lease ELSE left
    /\ UNCHANGED <<owner, phase, waited, missed>>

\* The statement fails; renewLease logs it.
RenewFails(c) ==
    /\ Alive(c) /\ due[c]
    /\ missed < MaxMissed
    /\ missed' = missed + 1
    /\ due' = [due EXCEPT ![c] = FALSE]
    /\ UNCHANGED <<owner, left, phase, waited>>

\* The function returned or threw: no more renewals.
Return(c) ==
    /\ phase[c] = "running"
    /\ Go(c, "releasing")
    /\ due' = [due EXCEPT ![c] = FALSE]
    /\ UNCHANGED <<owner, left, waited, missed>>

Owns(c) == owner = c

\* releaseLock, or releaseLockSafely after an error.
Release(c) ==
    /\ phase[c] = "releasing"
    /\ owner' = IF Owns(c) THEN Nobody ELSE owner
    /\ Go(c, "over")
    /\ UNCHANGED <<left, due, waited, missed>>

ReleaseFails(c) ==
    /\ phase[c] = "releasing"
    /\ Crashes
    /\ Go(c, "over")
    /\ UNCHANGED <<owner, left, due, waited, missed>>

\* deleteExpiredLocks
DeleteExpired ==
    /\ owner # Nobody /\ left < 0
    /\ owner' = Nobody
    /\ UNCHANGED <<left, phase, due, waited, missed>>

Crash(c) ==
    /\ Crashes
    /\ phase[c] \in {"polling", "running", "releasing"}
    /\ Go(c, "dead")
    /\ due' = [due EXCEPT ![c] = FALSE]
    /\ UNCHANGED <<owner, left, waited, missed>>

\* Variant: the deadline starts over at every attempt.
WaitedAnew(c) == 0

WaitedLonger(c) == IF waited[c] < MaxWait THEN waited[c] + 1 ELSE waited[c]

\* An interval passes; the renewals of the last one have been tried.
Tick ==
    /\ Stalls \/ \A c \in Calls : ~due[c]
    /\ left' = IF left >= 0 /\ owner # Nobody THEN left - 1 ELSE left
    /\ due' = [c \in Calls |-> due[c] \/ Alive(c)]
    /\ waited' = [c \in Calls |-> IF phase[c] = "polling" THEN WaitedLonger(c) ELSE waited[c]]
    /\ UNCHANGED <<owner, phase, missed>>

Poll(c) == Acquire(c) \/ TimeOut(c)

Next ==
    \/ \E c \in Calls : \/ Call(c) \/ Poll(c) \/ Renew(c) \/ RenewFails(c)
                        \/ Return(c) \/ Release(c) \/ ReleaseFails(c) \/ Crash(c)
    \/ DeleteExpired
    \/ Tick

Spec == Init /\ [][Next]_vars

-----------------------------------------------------------------------------
(* Properties *)

\* What a caller sees of withKeyedLock: a dead one will not run any more.
Seen == [c \in Calls |-> CASE phase[c] = "new" -> "new"
                           [] phase[c] = "polling" -> "waiting"
                           [] phase[c] = "running" -> "running"
                           [] OTHER -> "over"]

M == INSTANCE Mutex WITH call <- Seen

\* withDatabaseLock keeps the promise of withKeyedLock, as long as no process
\* stalls and the renewals that fail are fewer than those a lease spans: two of
\* them at two minutes and thirty seconds.  A caller that dies while it polls has
\* given up, one that dies while it runs has left.
IsMutex == M!Spec

\* A call that finishes late, after its lease was taken over, leaves the row of
\* the new owner alone: the row goes away only by its owner's release, or expired.
KeepsOthersRow ==
    [][(owner # Nobody /\ owner' = Nobody)
          => left < 0 \/ phase'[owner] # phase[owner]]_vars
=============================================================================
