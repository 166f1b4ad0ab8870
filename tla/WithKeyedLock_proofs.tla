-------------------------- MODULE WithKeyedLock_proofs --------------------------
(***************************************************************************)
(* withKeyedLock is a mutex on either database; and the deliveries of a    *)
(* live story, which run under it, reach whom they should.                 *)
(*                                                                         *)
(* On Postgres: the leased row is a mutex, for any set of calls, any       *)
(* crashes and any lease, as long as the processes do not stall and the    *)
(* renewals that fail leave one of the lease to succeed.  A call that runs *)
(* owns the row (Held), because its lease cannot have run out: every       *)
(* interval costs one unit unless it is renewed, and only a renewal that   *)
(* fails, or is still due, is not.                                         *)
(*                                                                         *)
(* On SQLite: the chained promises are a mutex, for any set of calls.  The *)
(* argument orders the calls by their arrival.  Whoever arrived after an   *)
(* active call is still chained (Queue), for each waits for the one right  *)
(* before it; so of two calls that run one would be waiting.  The entry of *)
(* the map is the last arrival or gone, and it goes only when nobody is    *)
(* active (Tail).                                                          *)
(*                                                                         *)
(* The choice: every step is one of the lock in use or leaves its state    *)
(* alone, so what is proved of each lock holds of withKeyedLock.           *)
(*                                                                         *)
(* The deliveries: what an occurrence's next attempt skips is what was     *)
(* sent, and whoever was reached is skipped, as long as a handler owns the *)
(* row it runs for.  A request that has the story to itself leaves its     *)
(* settings and its recurring job on one path, however earlier requests    *)
(* overlapped (Agreed): it knows the job, or sees there is none.           *)
(***************************************************************************)
EXTENDS WithKeyedLock, StoryPromises, TLAPS

(* The leased row (module KeyedLock) *)

Due(c) == IF due[c] THEN 1 ELSE 0

\* A call that runs owns the row, with what its missed renewals left of the lease.
Held ==
    \A c \in Calls : phase[c] = "running" =>
        owner = c /\ left >= Lease - missed - Due(c)

IInv == TypeOK /\ Held

-----------------------------------------------------------------------------
\* Every reachable state is well typed.
LEMMA TypeInductive == TypeOK /\ [Next]_vars => TypeOK'
<1> SUFFICES ASSUME TypeOK, [Next]_vars PROVE TypeOK'
  OBVIOUS
<1> USE NobodyAssumption, LockAssumption DEF TypeOK, Phases, Go
<1>1. CASE UNCHANGED vars
  BY <1>1 DEF vars
<1>2. ASSUME NEW c \in Calls, Call(c) \/ TimeOut(c) PROVE TypeOK'
  BY <1>2 DEF Call, TimeOut
<1>3. ASSUME NEW c \in Calls, Acquire(c) PROVE TypeOK'
  <2>1. left' \in -1..Lease
    BY <1>3 DEF Acquire
  <2> QED
    BY <1>3, <2>1 DEF Acquire
<1>4. ASSUME NEW c \in Calls, Renew(c) PROVE TypeOK'
  BY <1>4 DEF Renew
<1>5. ASSUME NEW c \in Calls, RenewFails(c) PROVE TypeOK'
  <2>1. missed' \in 0..MaxMissed
    BY <1>5 DEF RenewFails
  <2> QED
    BY <1>5, <2>1 DEF RenewFails
<1>6. ASSUME NEW c \in Calls, Return(c) \/ Crash(c) PROVE TypeOK'
  BY <1>6 DEF Return, Crash
<1>7. ASSUME NEW c \in Calls, Release(c) \/ ReleaseFails(c) PROVE TypeOK'
  BY <1>7 DEF Release, ReleaseFails
<1>8. CASE DeleteExpired
  BY <1>8 DEF DeleteExpired
<1>9. CASE Tick
  <2>1. left' \in -1..Lease
    BY <1>9 DEF Tick
  <2>2. due' \in [Calls -> BOOLEAN]
    BY <1>9 DEF Tick, Alive
  <2>3. waited' \in [Calls -> 0..MaxWait]
    BY <1>9 DEF Tick, WaitedLonger
  <2> QED
    BY <1>9, <2>1, <2>2, <2>3 DEF Tick
<1> QED
  BY <1>1, <1>2, <1>3, <1>4, <1>5, <1>6, <1>7, <1>8, <1>9 DEF Next, Poll

\* The lease of a call that runs is not over.
LEMMA LeaseLasts ==
    ASSUME IInv, MaxMissed + 2 <= Lease, NEW c \in Calls, phase[c] = "running"
    PROVE  owner = c /\ left > 0
<1>1. /\ left >= Lease - missed - Due(c) /\ Due(c) \in 0..1
      /\ left \in Int /\ missed \in 0..MaxMissed /\ Lease \in Nat /\ MaxMissed \in Nat
  BY NobodyAssumption, LockAssumption DEF IInv, TypeOK, Held, Due
<1> QED
  BY <1>1 DEF IInv, Held

\* No step takes the row from a call that runs.
LEMMA HeldKept ==
    ASSUME Stalls = FALSE, MaxMissed + 2 <= Lease, IInv, [Next]_vars
    PROVE  Held'
<1> SUFFICES ASSUME NEW c \in Calls, phase'[c] = "running"
             PROVE  owner' = c /\ left' >= Lease - missed' - Due(c)'
  BY DEF Held
<1>1. /\ left \in Int /\ missed \in Nat /\ Lease \in Nat
      /\ phase \in [Calls -> Phases] /\ due \in [Calls -> BOOLEAN] /\ Nobody \notin Calls
  BY NobodyAssumption, LockAssumption DEF IInv, TypeOK
<1>2. phase[c] = "running" => owner = c /\ left > 0 /\ left >= Lease - missed - Due(c)
  BY LeaseLasts DEF IInv, Held
<1>3. CASE UNCHANGED vars
  BY <1>2, <1>3 DEF vars, Due
<1>4. ASSUME NEW d \in Calls, Acquire(d) PROVE owner' = c /\ left' >= Lease - missed' - Due(c)'
  <2>1. phase[c] # "running"
    BY <1>1, <1>2, <1>4 DEF Acquire, Free
  <2>2. d = c
    BY <1>1, <1>4, <2>1 DEF Acquire, Go
  <2> QED
    BY <1>1, <1>4, <2>2 DEF Acquire, Due
<1>5. ASSUME NEW d \in Calls, Renew(d) PROVE owner' = c /\ left' >= Lease - missed' - Due(c)'
  <2>1. /\ phase[c] = "running" /\ phase[d] = "running" /\ owner' = owner /\ missed' = missed
        /\ left' = IF owner = d /\ left > 0 THEN Lease ELSE left
    BY <1>5 DEF Renew, Alive
  <2>2. owner = c /\ owner = d /\ left > 0
    BY <1>2, <2>1, LeaseLasts
  <2> QED
    BY <1>1, <2>1, <2>2 DEF Due
<1>6. ASSUME NEW d \in Calls, RenewFails(d) PROVE owner' = c /\ left' >= Lease - missed' - Due(c)'
  <2>1. /\ phase[c] = "running" /\ phase[d] = "running" /\ owner' = owner /\ left' = left
        /\ missed' = missed + 1 /\ due[d] /\ due' = [due EXCEPT ![d] = FALSE]
    BY <1>6 DEF RenewFails, Alive
  <2>2. owner = c /\ c = d /\ left >= Lease - missed - Due(c)
    BY <1>2, <2>1, LeaseLasts
  <2>3. Due(c) = 1 /\ Due(c)' = 0
    BY <1>1, <2>1, <2>2 DEF Due
  <2> QED
    BY <1>1, <2>1, <2>2, <2>3
<1>7. ASSUME NEW d \in Calls, Call(d) \/ TimeOut(d) \/ Return(d) \/ ReleaseFails(d) \/ Crash(d)
      PROVE  owner' = c /\ left' >= Lease - missed' - Due(c)'
  <2>1. phase[c] = "running" /\ c # d /\ UNCHANGED <<owner, left, missed>> /\ due'[c] = due[c]
    BY <1>1, <1>7 DEF Call, TimeOut, Return, ReleaseFails, Crash, Go
  <2> QED
    BY <1>2, <2>1 DEF Due
<1>8. ASSUME NEW d \in Calls, Release(d) PROVE owner' = c /\ left' >= Lease - missed' - Due(c)'
  <2>1. phase[c] = "running" /\ c # d /\ UNCHANGED <<left, due, missed>>
        /\ owner' = IF owner = d THEN Nobody ELSE owner
    BY <1>1, <1>8 DEF Release, Owns, Go
  <2> QED
    BY <1>2, <2>1 DEF Due
<1>9. CASE DeleteExpired
  BY <1>1, <1>2, <1>9 DEF DeleteExpired
<1>10. CASE Tick
  <2>1. /\ phase[c] = "running" /\ owner' = owner /\ missed' = missed /\ ~due[c] /\ due'[c]
        /\ left' = IF left >= 0 /\ owner # Nobody THEN left - 1 ELSE left
    BY <1>1, <1>10 DEF Tick, Alive
  <2>2. Due(c) = 0 /\ Due(c)' = 1
    BY <2>1 DEF Due
  <2> QED
    BY <1>1, <1>2, <2>1, <2>2
<1> QED
  BY <1>3, <1>4, <1>5, <1>6, <1>7, <1>8, <1>9, <1>10 DEF Next, Poll

\* IInv is an invariant.
LEMMA Invariant ==
    ASSUME Stalls = FALSE, MaxMissed + 2 <= Lease
    PROVE  Spec => []IInv
<1>1. Init => IInv
  BY NobodyAssumption, LockAssumption DEF Init, IInv, TypeOK, Phases, Held
<1>2. IInv /\ [Next]_vars => IInv'
  BY TypeInductive, HeldKept DEF IInv
<1> QED
  BY <1>1, <1>2, PTL DEF Spec

-----------------------------------------------------------------------------
\* withDatabaseLock keeps the promise of withKeyedLock, for any set of calls and
\* any crashes: its behaviours, seen by the callers, are those of a mutex.
THEOREM Refines ==
    ASSUME Stalls = FALSE, MaxMissed + 2 <= Lease
    PROVE  Spec => IsMutex
<1>1. Init => M!Init
  BY DEF Init, M!Init, Seen
<1>2. ASSUME IInv, [Next]_vars PROVE [M!Next]_Seen
  <2> USE <1>2 DEF IInv, TypeOK, Phases, Go
  <2>1. CASE UNCHANGED vars
    BY <2>1 DEF vars, Seen
  <2>2. ASSUME NEW c \in Calls, Call(c) PROVE M!Wait(c)
    BY <2>2 DEF Call, Seen, M!Wait, M!Move
  <2>3. ASSUME NEW c \in Calls, Acquire(c) PROVE M!Enter(c)
    <3>1. Seen[c] = "waiting" /\ Seen' = [Seen EXCEPT ![c] = "running"]
      BY <2>3 DEF Acquire, Seen
    <3>2. ASSUME NEW d \in Calls, Seen[d] = "running" PROVE FALSE
      <4>1. phase[d] = "running"
        BY <3>2 DEF Seen
      <4>2. owner = d /\ left > 0
        BY <4>1, LeaseLasts
      <4> QED
        BY <2>3, <4>2, NobodyAssumption, LockAssumption DEF Acquire, Free
    <3> QED
      BY <3>1, <3>2 DEF M!Enter, M!Move
  <2>4. ASSUME NEW c \in Calls, TimeOut(c) PROVE M!GiveUp(c)
    BY <2>4 DEF TimeOut, Seen, M!GiveUp, M!Move
  <2>5. ASSUME NEW c \in Calls, Return(c) PROVE M!Leave(c)
    BY <2>5 DEF Return, Seen, M!Leave, M!Move
  <2>6. ASSUME NEW c \in Calls, Release(c) \/ ReleaseFails(c) PROVE UNCHANGED Seen
    BY <2>6 DEF Release, ReleaseFails, Seen
  <2>7. ASSUME NEW c \in Calls, Crash(c) PROVE [M!Next]_Seen
    <3>1. CASE phase[c] = "polling"
      <4>1. M!GiveUp(c)
        BY <2>7, <3>1 DEF Crash, Seen, M!GiveUp, M!Move
      <4> QED
        BY <4>1 DEF M!Next
    <3>2. CASE phase[c] = "running"
      <4>1. M!Leave(c)
        BY <2>7, <3>2 DEF Crash, Seen, M!Leave, M!Move
      <4> QED
        BY <4>1 DEF M!Next
    <3>3. CASE phase[c] = "releasing"
      BY <2>7, <3>3 DEF Crash, Seen
    <3> QED
      BY <2>7, <3>1, <3>2, <3>3 DEF Crash
  <2>8. ASSUME NEW c \in Calls, Renew(c) \/ RenewFails(c) PROVE UNCHANGED Seen
    BY <2>8 DEF Renew, RenewFails, Seen
  <2>9. CASE DeleteExpired \/ Tick
    BY <2>9 DEF DeleteExpired, Tick, Seen
  <2> QED
    BY <2>1, <2>2, <2>3, <2>4, <2>5, <2>6, <2>7, <2>8, <2>9 DEF Next, Poll, M!Next
<1> QED
  BY <1>1, <1>2, Invariant, PTL DEF Spec, IsMutex, M!Spec

\* A call that returns after its lease was taken over, because its process
\* stalled or its renewals failed, leaves the row of the new owner alone.
THEOREM LateReleaseHarmless == Spec => KeepsOthersRow
<1>1. Init => TypeOK
  BY NobodyAssumption, LockAssumption DEF Init, TypeOK, Phases
<1>2. ASSUME TypeOK, [Next]_vars
      PROVE  [(owner # Nobody /\ owner' = Nobody)
                 => left < 0 \/ phase'[owner] # phase[owner]]_vars
  <2> SUFFICES ASSUME owner # Nobody, owner' = Nobody, ~(left < 0)
               PROVE  phase'[owner] # phase[owner]
    OBVIOUS
  <2>1. PICK c \in Calls : Release(c)
    BY <1>2, NobodyAssumption, LockAssumption DEF vars, Next, Call, Poll, Acquire, TimeOut, Renew, RenewFails,
       Return, ReleaseFails, Crash, DeleteExpired, Tick
  <2>2. owner = c /\ phase[c] = "releasing"
    BY <2>1 DEF Release, Owns
  <2>3. phase'[c] = "over"
    BY <1>2, <2>1 DEF TypeOK, Release, Go
  <2> QED
    BY <2>2, <2>3
<1> QED
  BY <1>1, <1>2, TypeInductive, PTL DEF Spec, KeepsOthersRow

-----------------------------------------------------------------------------
(***************************************************************************)
(* The chained promises (module InMemoryLock)                              *)
(***************************************************************************)

Active(c) == chain[c] \in {"chained", "running"}
Came(c)   == chain[c] # "new"

\* The calls have distinct places, up to the number that arrived.
Places ==
    /\ \A c \in Calls : Came(c) => ticket[c] <= arrived
    /\ \A c, d \in Calls : Came(c) /\ Came(d) /\ ticket[c] = ticket[d] => c = d

\* Behind an active call everybody is chained.
Queue ==
    \A c, d \in Calls :
        Active(c) /\ Came(d) /\ ticket[c] < ticket[d] => chain[d] = "chained"

\* The map holds the last arrival, or nothing and then nobody is active.
Tail ==
    /\ held # Nobody => Came(held) /\ ticket[held] = arrived
    /\ held = Nobody => \A c \in Calls : ~Active(c)
    /\ held # Nobody => chain[held] # "over"

\* A call is chained to the one right before it, or to none and then nobody
\* before it is active.
Links ==
    \A c \in Calls : Active(c) =>
        /\ previous[c] # Nobody => /\ previous[c] \in Calls
                                 /\ Came(previous[c])
                                 /\ ticket[previous[c]] + 1 = ticket[c]
        /\ previous[c] = Nobody => \A b \in Calls : Active(b) => ticket[c] <= ticket[b]

\* A call that runs has nobody active before it.
Front == \A c, b \in Calls : chain[c] = "running" /\ Active(b) => ticket[c] <= ticket[b]

ChainInv == Memory!TypeOK /\ Places /\ Queue /\ Tail /\ Links /\ Front

-----------------------------------------------------------------------------
\* Every reachable state is well typed.
LEMMA ChainTyped == Memory!TypeOK /\ [Memory!Next]_(Memory!vars) => Memory!TypeOK'
<1> SUFFICES ASSUME Memory!TypeOK, [Memory!Next]_(Memory!vars) PROVE Memory!TypeOK'
  OBVIOUS
<1> USE NobodyAssumption DEF Memory!TypeOK, Memory!Phases
<1>1. CASE UNCHANGED Memory!vars
  BY <1>1 DEF Memory!vars
<1>2. ASSUME NEW c \in Calls, Memory!Chain(c) PROVE Memory!TypeOK'
  BY <1>2 DEF Memory!Chain
<1>3. ASSUME NEW c \in Calls, Memory!Run(c) PROVE Memory!TypeOK'
  BY <1>3 DEF Memory!Run
<1>4. ASSUME NEW c \in Calls, Memory!Settle(c) PROVE Memory!TypeOK'
  BY <1>4 DEF Memory!Settle
<1>5. ASSUME NEW c \in Calls, Memory!Finally(c) PROVE Memory!TypeOK'
  BY <1>5 DEF Memory!Finally, Memory!HeldAfter
<1> QED
  BY <1>1, <1>2, <1>3, <1>4, <1>5 DEF Memory!Next

\* A call arrives behind everybody else.
LEMMA ChainKeeps == ASSUME ChainInv, NEW c \in Calls, Memory!Chain(c)
    PROVE (Places /\ Queue /\ Tail /\ Links /\ Front)'
<1> USE NobodyAssumption DEF Memory!TypeOK, ChainInv
<1>1. /\ chain[c] = "new" /\ chain'[c] = "chained" /\ ticket'[c] = arrived + 1
      /\ previous'[c] = held /\ held' = c /\ arrived' = arrived + 1
      /\ \A d \in Calls \ {c} : chain'[d] = chain[d] /\ ticket'[d] = ticket[d] /\ previous'[d] = previous[d]
  BY DEF Memory!Chain
<1>2. \A d \in Calls \ {c} : Came(d) => ticket[d] < ticket'[c]
  BY <1>1 DEF Places
<1>3. Places'
  BY <1>1, <1>2 DEF Places, Came
<1>4. Queue'
  BY <1>1, <1>2 DEF Queue, Active, Came
<1>5. Tail'
  BY <1>1 DEF Tail, Came, Active
<1>6. ASSUME NEW d \in Calls \ {c}, Active(d), previous[d] # Nobody
      PROVE  /\ previous[d] \in Calls
             /\ chain'[previous[d]] # "new"
             /\ ticket'[previous[d]] + 1 = ticket'[d]
  <2>1. previous[d] \in Calls /\ chain[previous[d]] # "new" /\ ticket[previous[d]] + 1 = ticket[d]
    BY <1>6 DEF Links, Came
  <2>2. previous[d] # c
    BY <1>1, <2>1
  <2> QED
    BY <1>1, <1>6, <2>1, <2>2
<1>7. ASSUME NEW d \in Calls \ {c}, Active(d), previous[d] = Nobody, NEW b \in Calls, Active(b)'
      PROVE  ticket'[d] <= ticket'[b]
  <2>1. ticket'[d] = ticket[d] /\ ticket[d] < ticket'[c] /\ ticket[d] \in Nat /\ ticket'[c] \in Nat
    BY <1>1, <1>2, <1>7 DEF Active, Came
  <2>2. CASE b = c
    BY <2>1, <2>2
  <2>3. CASE b # c
    <3>1. Active(b) /\ ticket'[b] = ticket[b]
      BY <1>1, <1>7, <2>3 DEF Active
    <3> QED
      BY <1>7, <2>1, <3>1 DEF Links
  <2> QED
    BY <2>2, <2>3
<1>8. Links'
  <2> SUFFICES ASSUME NEW d \in Calls, Active(d)'
               PROVE  /\ previous'[d] # Nobody => /\ previous'[d] \in Calls
                                                /\ chain'[previous'[d]] # "new"
                                                /\ ticket'[previous'[d]] + 1 = ticket'[d]
                      /\ previous'[d] = Nobody => \A b \in Calls : Active(b)' => ticket'[d] <= ticket'[b]
    BY DEF Links, Came
  <2>1. CASE d # c
    <3>1. Active(d) /\ previous'[d] = previous[d]
      BY <1>1, <2>1 DEF Active
    <3> QED
      BY <1>6, <1>7, <2>1, <3>1
  <2>2. CASE d = c /\ held # Nobody
    <3>1. held \in Calls /\ chain[held] # "new" /\ ticket[held] = arrived
      BY <2>2 DEF Tail, Came
    <3>2. held # c
      BY <1>1, <3>1
    <3> QED
      BY <1>1, <2>2, <3>1, <3>2
  <2>3. CASE d = c /\ held = Nobody
    <3>1. \A b \in Calls : Active(b)' => b = c
      BY <1>1, <2>3 DEF Tail, Active
    <3>2. \A b \in Calls : Active(b)' => ticket'[d] <= ticket'[b]
      BY <1>1, <2>3, <3>1
    <3> QED
      BY <1>1, <2>3, <3>2
  <2> QED
    BY <2>1, <2>2, <2>3
<1>9. Front'
  BY <1>1, <1>2 DEF Front, Active, Came
<1> QED
  BY <1>3, <1>4, <1>5, <1>8, <1>9

\* Only a call whose predecessor has settled runs, so nobody before it is active.
LEMMA RunKeeps == ASSUME ChainInv, NEW c \in Calls, Memory!Run(c) PROVE (Places /\ Queue /\ Tail /\ Links /\ Front)'
<1> USE NobodyAssumption DEF Memory!TypeOK, ChainInv
<1>1. /\ chain[c] = "chained" /\ chain'[c] = "running"
      /\ held' = held /\ previous' = previous /\ ticket' = ticket /\ arrived' = arrived
      /\ \A d \in Calls \ {c} : chain'[d] = chain[d]
  BY DEF Memory!Run
<1>2. \A d \in Calls : (Active(d)' <=> Active(d)) /\ (Came(d)' <=> Came(d))
  BY <1>1 DEF Active, Came
<1>3. ASSUME NEW b \in Calls, Active(b) PROVE ticket[c] <= ticket[b]
  <2>1. CASE previous[c] = Nobody
    BY <1>1, <1>3, <2>1 DEF Links, Active
  <2>2. CASE previous[c] # Nobody
    <3>1. /\ previous[c] \in Calls /\ Came(previous[c]) /\ ~Active(previous[c])
          /\ ticket[previous[c]] + 1 = ticket[c] /\ chain[previous[c]] # "chained"
      BY <1>1, <2>2 DEF Links, Active, Memory!Run, Memory!Runs, Memory!Settled
    <3>2. ~(ticket[b] < ticket[previous[c]])
      BY <1>3, <3>1 DEF Queue
    <3>3. ticket[b] # ticket[previous[c]]
      BY <1>3, <3>1 DEF Places, Active, Came
    <3> QED
      BY <3>1, <3>2, <3>3
  <2> QED
    BY <2>1, <2>2
<1>4. Places'
  BY <1>1, <1>2 DEF Places
<1>5. ASSUME NEW b \in Calls, NEW d \in Calls, Active(b), Came(d), ticket[b] < ticket[d]
      PROVE chain'[d] = "chained"
  BY <1>1, <1>3, <1>5 DEF Queue, Active
<1>6. Queue'
  BY <1>1, <1>2, <1>5 DEF Queue
<1>7. Tail'
  BY <1>1, <1>2 DEF Tail, Came
<1>8. Links'
  BY <1>1, <1>2 DEF Links
<1>9. Front'
  BY <1>1, <1>2, <1>3 DEF Front
<1> QED
  BY <1>4, <1>6, <1>7, <1>8, <1>9

\* A call that settles, or takes its promise out, is active no more.
LEMMA EndKeeps ==
    ASSUME ChainInv, NEW c \in Calls, Memory!Settle(c) \/ Memory!Finally(c)
    PROVE  (Places /\ Queue /\ Tail /\ Links /\ Front)'
<1> USE NobodyAssumption DEF Memory!TypeOK, ChainInv
<1>1. /\ chain[c] # "new" /\ chain'[c] \in {"settled", "over"}
      /\ previous' = previous /\ ticket' = ticket /\ arrived' = arrived
      /\ \A d \in Calls \ {c} : chain'[d] = chain[d]
  BY DEF Memory!Settle, Memory!Finally
<1>2. \A d \in Calls : (Active(d)' => Active(d)) /\ (Came(d)' <=> Came(d))
  BY <1>1 DEF Active, Came
<1>3. Places'
  BY <1>1, <1>2 DEF Places
<1>4. ASSUME NEW b \in Calls, NEW d \in Calls, Active(b)', Came(d), ticket[b] < ticket[d]
      PROVE chain'[d] = "chained"
  <2>1. chain[d] = "chained"
    BY <1>2, <1>4 DEF Queue
  <2>2. d # c
    BY <2>1 DEF Memory!Settle, Memory!Finally
  <2> QED
    BY <1>1, <2>1, <2>2
<1>5. Queue'
  BY <1>1, <1>2, <1>4 DEF Queue
<1>6. Links'
  BY <1>1, <1>2 DEF Links
<1>7. Front'
  BY <1>1, <1>2 DEF Front, Active
<1>8. ASSUME held' = held, held # Nobody => chain'[held] # "over" PROVE Tail'
  BY <1>1, <1>2, <1>8 DEF Tail, Came
<1>9. CASE Memory!Settle(c)
  <2>1. held' = held /\ (held # Nobody => chain'[held] # "over")
    BY <1>9 DEF Tail, Memory!Settle
  <2> QED
    BY <1>3, <1>5, <1>6, <1>7, <1>8, <2>1
<1>10. CASE Memory!Finally(c) /\ held # c
  <2>1. held' = held /\ (held # Nobody => chain'[held] # "over")
    BY <1>10 DEF Tail, Memory!Finally, Memory!HeldAfter
  <2> QED
    BY <1>3, <1>5, <1>6, <1>7, <1>8, <2>1
<1>11. CASE Memory!Finally(c) /\ held = c
  <2>1. held' = Nobody /\ chain[c] = "settled" /\ ticket[c] = arrived
    BY <1>11 DEF Memory!Finally, Memory!HeldAfter, Tail
  <2>2. ASSUME NEW b \in Calls, Active(b)' PROVE FALSE
    <3>1. Active(b) /\ b # c /\ Came(b) /\ Came(c)
      BY <1>1, <1>2, <2>1, <2>2 DEF Active, Came
    <3>2. ticket[b] < ticket[c]
      BY <2>1, <3>1 DEF Places
    <3> QED
      BY <2>1, <3>1, <3>2 DEF Queue
  <2>3. Tail'
    BY <2>1, <2>2 DEF Tail
  <2> QED
    BY <1>3, <1>5, <1>6, <1>7, <2>3
<1> QED
  BY <1>9, <1>10, <1>11

\* IInv is an invariant.
LEMMA ChainInvariant == Memory!Spec => []ChainInv
<1>1. Memory!Init => ChainInv
  BY NobodyAssumption DEF Memory!Init, ChainInv, Memory!TypeOK, Memory!Phases, Places, Queue, Tail, Links, Front, Active, Came
<1>2. ChainInv /\ [Memory!Next]_(Memory!vars) => ChainInv'
  <2> SUFFICES ASSUME ChainInv, [Memory!Next]_(Memory!vars) PROVE ChainInv'
    OBVIOUS
  <2>1. Memory!TypeOK'
    BY ChainTyped DEF ChainInv
  <2>2. CASE UNCHANGED Memory!vars
    BY <2>1, <2>2 DEF Memory!vars, ChainInv, Places, Queue, Tail, Links, Front, Active, Came
  <2>3. ASSUME NEW c \in Calls, Memory!Chain(c) PROVE ChainInv'
    BY <2>1, <2>3, ChainKeeps DEF ChainInv
  <2>4. ASSUME NEW c \in Calls, Memory!Run(c) PROVE ChainInv'
    BY <2>1, <2>4, RunKeeps DEF ChainInv
  <2>5. ASSUME NEW c \in Calls, Memory!Settle(c) \/ Memory!Finally(c) PROVE ChainInv'
    BY <2>1, <2>5, EndKeeps DEF ChainInv
  <2> QED
    BY <2>2, <2>3, <2>4, <2>5 DEF Memory!Next
<1> QED
  BY <1>1, <1>2, PTL DEF Memory!Spec

-----------------------------------------------------------------------------
\* withInMemoryLock keeps the promise of withKeyedLock, for any set of calls:
\* its behaviours, seen by the callers, are those of a mutex.
LEMMA ChainRefines == Memory!Spec => Memory!ChainIsMutex
<1>1. Memory!Init => Memory!M!Init
  BY DEF Memory!Init, Memory!M!Init, Memory!Seen
<1>2. ASSUME ChainInv, ChainInv', [Memory!Next]_(Memory!vars) PROVE [Memory!M!Next]_(Memory!Seen)
  <2>1. CASE UNCHANGED Memory!vars
    BY <2>1 DEF Memory!vars, Memory!Seen
  <2>2. ASSUME NEW c \in Calls, Memory!Chain(c) PROVE Memory!M!Wait(c)
    BY <1>2, <2>2 DEF ChainInv, Memory!TypeOK, Memory!Phases, Memory!Chain, Memory!Seen, Memory!M!Wait, Memory!M!Move
  <2>3. ASSUME NEW c \in Calls, Memory!Run(c) PROVE Memory!M!Enter(c)
    <3>1. Memory!Seen[c] = "waiting" /\ Memory!Seen' = [Memory!Seen EXCEPT ![c] = "running"]
      BY <1>2, <2>3 DEF ChainInv, Memory!TypeOK, Memory!Phases, Memory!Run, Memory!Seen
    <3>2. ASSUME NEW d \in Calls, Memory!Seen[d] = "running" PROVE FALSE
      <4>1. chain[d] = "running" /\ d # c
        BY <1>2, <2>3, <3>2 DEF ChainInv, Memory!TypeOK, Memory!Phases, Memory!Run, Memory!Seen
      <4>2. chain'[d] = "running" /\ chain'[c] = "running"
        BY <1>2, <2>3, <4>1 DEF ChainInv, Memory!TypeOK, Memory!Run
      <4>3. Active(c)' /\ Active(d)' /\ Came(c)' /\ Came(d)'
        BY <4>2 DEF Active, Came
      <4>4. ticket'[c] <= ticket'[d] /\ ticket'[d] <= ticket'[c]
        BY <1>2, <4>2, <4>3 DEF ChainInv, Front
      <4>5. ticket'[c] = ticket'[d]
        BY <1>2, <4>4 DEF ChainInv, Memory!TypeOK
      <4> QED
        BY <1>2, <4>1, <4>3, <4>5 DEF ChainInv, Places
    <3> QED
      BY <3>1, <3>2 DEF Memory!M!Enter, Memory!M!Move
  <2>4. ASSUME NEW c \in Calls, Memory!Settle(c) PROVE Memory!M!Leave(c)
    BY <1>2, <2>4 DEF ChainInv, Memory!TypeOK, Memory!Phases, Memory!Settle, Memory!Seen, Memory!M!Leave, Memory!M!Move
  <2>5. ASSUME NEW c \in Calls, Memory!Finally(c) PROVE UNCHANGED Memory!Seen
    BY <1>2, <2>5 DEF ChainInv, Memory!TypeOK, Memory!Phases, Memory!Finally, Memory!Seen
  <2> QED
    BY <1>2, <2>1, <2>2, <2>3, <2>4, <2>5 DEF Memory!Next, Memory!M!Next
<1> QED
  BY <1>1, <1>2, ChainInvariant, PTL DEF Memory!Spec, Memory!ChainIsMutex, Memory!M!Spec

\* Nobody overtakes, for any set of calls.
LEMMA ChainOrdered == Memory!Spec => []Memory!InOrder
<1>1. ChainInv => Memory!InOrder
  <2> SUFFICES ASSUME ChainInv, NEW c \in Calls, NEW d \in Calls, chain[c] = "running", Memory!Waits(d)
               PROVE ticket[c] < ticket[d]
    BY DEF Memory!InOrder
  <2>1. Active(c) /\ Active(d) /\ Came(c) /\ Came(d) /\ c # d
    BY DEF Active, Came, Memory!Waits
  <2>2. ticket[c] <= ticket[d] /\ ticket[c] # ticket[d]
    BY <2>1 DEF ChainInv, Front, Places
  <2> QED
    BY <2>2 DEF ChainInv, Memory!TypeOK
<1> QED
  BY <1>1, ChainInvariant, PTL

\* Once everyone is through the map holds no entry, for any set of calls.
LEMMA ChainEmpties == Memory!Spec => []Memory!NothingKept
<1>1. ChainInv => Memory!NothingKept
  BY DEF ChainInv, Memory!TypeOK, Tail, Came, Memory!NothingKept
<1> QED
  BY <1>1, ChainInvariant, PTL

-----------------------------------------------------------------------------
(* The lock of the database in use *)

WithSpec == WithInit /\ [][WithNext]_all

\* On either database the in-memory lock behaves by its own specification.
LEMMA ProjectsToMemory == WithSpec => Memory!Spec
<1>1. WithInit => Memory!Init
  BY DEF WithInit
<1>2. [WithNext]_all => [Memory!Next]_(Memory!vars)
  BY DEF WithNext, OnPostgres, InMemory, all, memory, Memory!vars
<1> QED
  BY <1>1, <1>2, PTL DEF WithSpec, Memory!Spec

\* On either database the row and its callers behave by their own specification.
LEMMA ProjectsToRow == WithSpec => Spec
<1>1. WithInit => Init
  BY DEF WithInit
<1>2. [WithNext]_all => [Next]_vars
  BY DEF WithNext, OnPostgres, InMemory, all
<1> QED
  BY <1>1, <1>2, PTL DEF WithSpec, Spec

\* The callers of the leased row see the abstract mutex, when no process stalls and
\* the renewals that fail are fewer than a lease spans.
THEOREM LeasedMutex ==
    ASSUME Stalls = FALSE, MaxMissed + 2 <= Lease
    PROVE  WithSpec => IsMutex
BY Refines, ProjectsToRow, PTL

\* The callers of the in-memory lock see the abstract mutex.
THEOREM ChainedMutex == WithSpec => ChainIsMutex
BY ChainRefines, ProjectsToMemory, PTL DEF ChainIsMutex

\* No call overtakes one that came before it, and the map ends up empty.
THEOREM ChainedInOrder == WithSpec => []InOrder
BY ChainOrdered, ChainEmpties, ProjectsToMemory, PTL DEF InOrder
-----------------------------------------------------------------------------
(***************************************************************************)
(* The delivery of one live story (module StoryDelivery).  No recipient    *)
(* gets an occurrence twice unless what was reached was lost, and a        *)
(* refresh that ended well has reached everyone (Delivered): a crash gives *)
(* a row one more attempt and nothing else does (Typed), an occurrence     *)
(* stays on the path it began on (Paired), what a refresh skips was sent   *)
(* (SkipsSent), and while all is calm a handler owns its row, which        *)
(* carries what was reached to the next attempt (Once).                    *)
(***************************************************************************)

-----------------------------------------------------------------------------
(* Typing, and the attempts of a row *)

\* A crash gives a row one attempt beyond its limit, and nothing else does.
RowBounded(k) ==
    rows[k] # Null =>
        /\ rows[k].status = "pending" => rows[k].attempts < MaxAttempts + faults["crash"]
        /\ rows[k].status = "running" => rows[k].attempts <= MaxAttempts + faults["crash"]
        /\ rows[k].status = "running" /\ ~D!ExecutedBy(k) => rows[k].attempts < MaxAttempts + faults["crash"]

Typed == D!TypeOK /\ \A k \in D!Keys : RowBounded(k)

-----------------------------------------------------------------------------
(* An occurrence, its handler and its row *)

Reached(o) == {t \in Targets : sent[o][t] >= 1}

\* An occurrence of the schedule is worked on for the recurring row, one of a
\* refresh for the refresh itself or for its own retry.
HandlerOf(o) ==
    exec[o] # Null =>
        /\ exec[o].key \in {D!Refresh, D!Schedule, o}
        /\ origin[o] = IF exec[o].key = D!Schedule THEN D!Schedule ELSE D!Refresh
        /\ exec[o].key = D!Refresh => exec[o].skip = {} /\ rows[o] = Null
        /\ exec[o].phase = "enqueue" => exec[o].key = D!Refresh
        /\ exec[o].phase \in {"save", "failed"} => exec[o].key # D!Refresh

RowOf(k) ==
    rows[k] # Null =>
        /\ k # D!Schedule => rows[k].occ = k
        /\ rows[k].occ # Null => origin[rows[k].occ] = IF k = D!Schedule THEN D!Schedule ELSE D!Refresh

\* What a refresh and its retries skip was sent.
SkipsWereSent(o) ==
    /\ o \in done => origin[o] # Null
    /\ origin[o] = D!Refresh =>
        /\ exec[o] # Null => exec[o].skip \union exec[o].ok \subseteq Reached(o)
        /\ rows[o] # Null => rows[o].skip \subseteq Reached(o)
        /\ D!At(o, "delivered") \/ o \in done => Reached(o) = Targets

Paired ==
    /\ \A o \in Occurrences : HandlerOf(o)
    /\ \A k \in D!Keys : RowOf(k)

SkipsSent == \A o \in Occurrences : SkipsWereSent(o)

-----------------------------------------------------------------------------
(* While nothing crashes, no statement fails and the settings changed once *)

Calm == edits <= 1 /\ faults["crash"] = 0 /\ faults["statement"] = 0

\* A handler has the row it runs for, and a running row has its handler.
HandlerOwns(o) ==
    exec[o] # Null /\ exec[o].key # D!Refresh =>
        /\ rows[exec[o].key] # Null
        /\ rows[exec[o].key].id = exec[o].id
        /\ rows[exec[o].key].status = "running"
        /\ rows[exec[o].key].occ = o

RowIsHandled(k) ==
    rows[k] # Null /\ rows[k].status = "running" =>
        /\ rows[k].occ # Null
        /\ exec[rows[k].occ] # Null
        /\ exec[rows[k].occ].key = k

HandlersOwnRows ==
    /\ \A o \in Occurrences : HandlerOwns(o)
    /\ \A k \in D!Keys : RowIsHandled(k)

\* The first change finds no job, and deletes none.
FirstEdit ==
    /\ \A e, f \in Editors : editing[e] # Null /\ editing[f] # Null => e = f
    /\ \A e \in Editors : editing[e] # Null =>
          /\ edits = 1
          /\ editing[e].phase # "delete"
          /\ editing[e].phase \in {"reread", "sync", "write"} => rows[D!Schedule] = Null /\ delivery.jobId = Null
    /\ edits = 0 => rows[D!Schedule] = Null /\ delivery.jobId = Null

\* Whoever was reached is skipped by the next attempt.
HandlerSkips(o) ==
    /\ origin[o] = Null => Reached(o) = {}
    /\ exec[o] # Null =>
          /\ exec[o].phase \in {"waiting", "locked"} => Reached(o) \subseteq exec[o].skip
          /\ exec[o].phase \in {"enqueue", "save"} => Reached(o) \subseteq exec[o].skip \union exec[o].ok
          /\ exec[o].phase = "failed" => Reached(o) \subseteq rows[exec[o].key].skip

RowSkips(k) ==
    rows[k] # Null /\ rows[k].status = "pending" /\ rows[k].occ # Null =>
        Reached(rows[k].occ) \subseteq rows[k].skip

ReachedSkipped ==
    /\ \A o \in Occurrences : HandlerSkips(o)
    /\ \A k \in D!Keys : RowSkips(k)
    /\ \A o \in Occurrences, t \in Targets : sent[o][t] <= 1

Once == Calm => HandlersOwnRows /\ FirstEdit /\ ReachedSkipped

-----------------------------------------------------------------------------
(* Unless requests overlap: the job and the settings *)

JobNow    == IF rows[D!Schedule] = Null THEN Null ELSE rows[D!Schedule].id
Separate  == D!ShouldSchedule(delivery.enabled, delivery.cron)

EditorOf(e) ==
    editing[e] # Null =>
        /\ editing[e].last => ~editing[e].enabled
        /\ editing[e].phase = "sync" /\ editing[e].enabled =>
              delivery.enabled /\ delivery.cron = editing[e].cron
        /\ editing[e].phase = "write" => Separate /\ ~editing[e].last
        /\ editing[e].phase = "link" /\ editing[e].id # Null => Separate /\ ~editing[e].last
        /\ editing[e].phase = "disable" => JobNow = Null \/ delivery.jobId # JobNow

\* The job the story names is one of its own schedule, or there is none.
Settled == D!Quiet /\ JobNow # Null /\ delivery.jobId = JobNow => Separate

\* As long as no requests have overlapped, the story names the job there is.
LinkedBy(e) == D!Editing(e, "link") \/ D!Editing(e, "delete") => editing[e].id = JobNow
Linked ==
    /\ \A e \in Editors : LinkedBy(e)
    /\ (\A e \in Editors : ~D!Editing(e, "link")) => delivery.jobId = JobNow

Agreed ==
    overlap # "now" =>
        /\ \A e, f \in Editors : editing[e] # Null /\ editing[f] # Null => e = f
        /\ \A e \in Editors : EditorOf(e)
        /\ Settled
        /\ overlap = "never" => Linked

-----------------------------------------------------------------------------
(* What each action does to rows, handlers and editors *)

RowRec(id, status, attempts, skip, occ) ==
    [id |-> id, status |-> status, attempts |-> attempts, skip |-> skip, occ |-> occ]
ExecRec(key, id, ph, skip, ok) ==
    [key |-> key, id |-> id, phase |-> ph, skip |-> skip, ok |-> ok]
EditRec(ph, enabled, cron, id, last, number) ==
    [phase |-> ph, enabled |-> enabled, cron |-> cron, id |-> id, last |-> last, number |-> number]

DeliveryRec(enabled, cron, jobId) ==
    [enabled |-> enabled, cron |-> cron, jobId |-> jobId]

OtherRows(k)    == \A j \in D!Keys \ {k} : rows'[j] = rows[j]
OtherExecs(o)   == \A p \in Occurrences \ {o} : exec'[p] = exec[p]
OtherEditors(e) == \A f \in Editors \ {e} : editing'[f] = editing[f]

\* The constants, as the proofs need them.
LEMMA Names ==
    ASSUME D!StoryAssumption
    PROVE  /\ Null \notin Crons /\ Null \notin Occurrences /\ Null \notin D!Keys
           /\ Null # D!Schedule /\ Null # D!Refresh /\ Null \notin D!RowIds
           /\ Null \notin D!Row /\ Null \notin D!Exec /\ Null \notin D!Editor
           /\ D!Schedule # D!Refresh /\ D!Schedule \notin Occurrences /\ D!Refresh \notin D!Keys
           /\ D!Schedule \in D!Keys /\ Occurrences \subseteq D!Keys
           /\ MaxAttempts \in Nat /\ MaxAttempts > 0 /\ MaxEdits \in Nat /\ MaxFaults \in Nat
  BY DEF D!StoryAssumption, D!Keys, D!Schedule, D!Refresh

\* Changing one field of a row gives that row with the field changed.
LEMMA RowFields ==
    ASSUME NEW row \in D!Row
    PROVE  /\ row = RowRec(row.id, row.status, row.attempts, row.skip, row.occ)
           /\ row.id \in D!RowIds /\ row.status \in {"pending", "running", "failed"}
           /\ row.attempts \in Nat /\ row.skip \in SUBSET Targets
           /\ row.occ \in Occurrences \union {Null}
  BY DEF D!Row, RowRec

LEMMA RowSkipping ==
    ASSUME NEW row \in D!Row
    PROVE  [row EXCEPT !.skip = {}] = RowRec(row.id, row.status, row.attempts, {}, row.occ)
<1>1. row = RowRec(row.id, row.status, row.attempts, row.skip, row.occ)
  BY RowFields
<1>2. \A id, status, attempts, skip, occ :
        [RowRec(id, status, attempts, skip, occ) EXCEPT !.skip = {}] = RowRec(id, status, attempts, {}, occ)
  BY DEF RowRec
<1>3. QED
  BY <1>1, <1>2

LEMMA ExecFields ==
    ASSUME NEW ex \in D!Exec
    PROVE  /\ ex = ExecRec(ex.key, ex.id, ex.phase, ex.skip, ex.ok)
           /\ ex.key \in D!Keys \union {D!Refresh} /\ ex.id \in D!RowIds
           /\ ex.phase \in {"waiting", "locked", "enqueue", "save", "failed", "delivered", "nothing"}
           /\ ex.skip \in SUBSET Targets /\ ex.ok \in SUBSET Targets
  BY DEF D!Exec, ExecRec

LEMMA EditorFields ==
    ASSUME NEW ed \in D!Editor
    PROVE  /\ ed = EditRec(ed.phase, ed.enabled, ed.cron, ed.id, ed.last, ed.number)
           /\ ed.phase \in {"reread", "sync", "write", "link", "delete", "disable"}
           /\ ed.enabled \in BOOLEAN /\ ed.last \in BOOLEAN
           /\ ed.cron \in Crons \union {Null} /\ ed.id \in D!RowIds \union {Null}
           /\ ed.number \in D!RowIds
  BY DEF D!Editor, EditRec

LEMMA RescheduledRow ==
    ASSUME NEW row \in D!Row
    PROVE  D!Rescheduled(row) = RowRec(row.id, "pending", 0, row.skip, Null)
<1>1. [row EXCEPT !.status = "pending"] = RowRec(row.id, "pending", row.attempts, row.skip, row.occ)
  BY DEF D!Row, RowRec
<1>2. [RowRec(row.id, "pending", row.attempts, row.skip, row.occ) EXCEPT !.attempts = 0]
        = RowRec(row.id, "pending", 0, row.skip, row.occ)
  BY DEF RowRec
<1>3. [RowRec(row.id, "pending", 0, row.skip, row.occ) EXCEPT !.occ = Null]
        = RowRec(row.id, "pending", 0, row.skip, Null)
  BY DEF RowRec
<1>4. QED
  BY <1>1, <1>2, <1>3 DEF D!Rescheduled

LEMMA ClaimEffect ==
    ASSUME D!StoryAssumption, D!TypeOK, NEW k \in D!Keys, NEW o \in Occurrences, D!Claim(k, o)
    PROVE  /\ rows[k] \in D!Row /\ rows[k] # Null /\ rows[k].status = "pending"
           /\ o = rows[k].occ \/ (rows[k].occ = Null /\ origin[o] = Null)
           /\ exec[o] = Null
           /\ rows'[k] = RowRec(rows[k].id, "running", rows[k].attempts + 1, rows[k].skip, o)
           /\ exec'[o] = ExecRec(k, rows[k].id, "waiting", rows[k].skip, {})
           /\ origin'[o] = IF origin[o] = Null THEN D!Schedule ELSE origin[o]
           /\ \A p \in Occurrences \ {o} : origin'[p] = origin[p]
           /\ OtherRows(k) /\ OtherExecs(o)
           /\ UNCHANGED <<story, delivery, editing, edits, overlap, sent, done, faults>>
<1>1. rows[k] \in D!Row
  BY Names DEF D!TypeOK, D!Claim
<1>2. rows'[k] = RowRec(rows[k].id, "running", rows[k].attempts + 1, rows[k].skip, o)
  BY <1>1 DEF D!TypeOK, D!Claim, D!Row, RowRec
<1>3. QED
  BY <1>1, <1>2, Names DEF D!TypeOK, D!Claim, D!Begins, D!NewExec, ExecRec, OtherRows, OtherExecs,
     D!settings

LEMMA StartEffect ==
    ASSUME D!StoryAssumption, D!TypeOK, NEW o \in Occurrences, D!StartRefresh(o)
    PROVE  /\ origin[o] = Null
           /\ exec'[o] = ExecRec(D!Refresh, 0, "waiting", {}, {})
           /\ origin'[o] = D!Refresh
           /\ \A p \in Occurrences \ {o} : origin'[p] = origin[p]
           /\ OtherExecs(o)
           /\ UNCHANGED <<story, delivery, editing, edits, overlap, rows, sent, done, faults>>
  BY DEF D!TypeOK, D!StartRefresh, D!Begins, D!NewExec, ExecRec, OtherExecs, D!settings

LEMMA GoEffect ==
    ASSUME D!TypeOK, NEW o \in Occurrences, NEW ph, exec[o] \in D!Exec, D!Go(o, ph)
    PROVE  /\ exec'[o] = ExecRec(exec[o].key, exec[o].id, ph, exec[o].skip, exec[o].ok)
           /\ OtherExecs(o)
  BY DEF D!TypeOK, D!Go, D!Exec, ExecRec, OtherExecs

LEMMA LoadEffect ==
    ASSUME D!StoryAssumption, D!TypeOK, NEW o \in Occurrences, D!LoadContext(o)
    PROVE  /\ exec[o] \in D!Exec /\ exec[o] # Null /\ exec[o].phase = "waiting"
           /\ \E ph \in {"locked", "nothing"} :
                 exec'[o] = ExecRec(exec[o].key, exec[o].id, ph, exec[o].skip, exec[o].ok)
           /\ OtherExecs(o)
           /\ UNCHANGED <<story, delivery, editing, edits, overlap, rows, origin, sent, done, faults>>
<1>1. exec[o] \in D!Exec
  BY Names DEF D!TypeOK, D!LoadContext, D!At
<1>2. PICK ph \in {"locked", "nothing"} : D!Go(o, ph)
  BY DEF D!LoadContext
<1>3. QED
  BY <1>1, <1>2, GoEffect DEF D!LoadContext, D!At, D!settings

\* A delivery reaches some of those it does not skip: all of them when it ends well.
LEMMA DeliverEffect ==
    ASSUME D!StoryAssumption, D!TypeOK, NEW o \in Occurrences, D!Deliver(o)
    PROVE  /\ exec[o] \in D!Exec /\ exec[o] # Null /\ exec[o].phase = "locked"
           /\ \E ts \in SUBSET (Targets \ exec[o].skip) :
                 /\ \A t \in Targets : sent'[o][t] = IF t \in ts THEN sent[o][t] + 1 ELSE sent[o][t]
                 /\ \/ /\ ts = Targets \ exec[o].skip
                       /\ exec'[o] = ExecRec(exec[o].key, exec[o].id, "delivered", exec[o].skip, exec[o].ok)
                    \/ exec'[o] = ExecRec(exec[o].key, exec[o].id,
                                          IF exec[o].key = D!Refresh THEN "enqueue" ELSE "save", exec[o].skip, ts)
           /\ \A p \in Occurrences \ {o} : sent'[p] = sent[p]
           /\ sent' \in [Occurrences -> [Targets -> Nat]]
           /\ OtherExecs(o)
           /\ faults'["crash"] = faults["crash"] /\ faults'["statement"] = faults["statement"]
           /\ UNCHANGED <<story, delivery, editing, edits, overlap, rows, origin, done>>
<1>1. exec[o] \in D!Exec /\ exec[o] # Null /\ exec[o].phase = "locked"
  BY Names DEF D!TypeOK, D!Deliver, D!At
<1>2. ASSUME NEW ts, D!Reach(o, ts)
      PROVE  /\ \A t \in Targets : sent'[o][t] = IF t \in ts THEN sent[o][t] + 1 ELSE sent[o][t]
             /\ \A p \in Occurrences \ {o} : sent'[p] = sent[p]
  BY <1>2 DEF D!TypeOK, D!Reach
<1>3. sent' \in [Occurrences -> [Targets -> Nat]]
  <2>1. PICK ts : D!Reach(o, ts)
    BY DEF D!Deliver
  <2>2. [t \in Targets |-> IF t \in ts THEN sent[o][t] + 1 ELSE sent[o][t]] \in [Targets -> Nat]
    BY DEF D!TypeOK
  <2>3. QED
    BY <2>1, <2>2 DEF D!TypeOK, D!Reach
<1>4. CASE D!Reach(o, D!Wanted(o)) /\ D!Go(o, "delivered") /\ UNCHANGED faults
  <2>1. exec'[o] = ExecRec(exec[o].key, exec[o].id, "delivered", exec[o].skip, exec[o].ok) /\ OtherExecs(o)
    BY <1>1, <1>4, GoEffect
  <2>2. D!Wanted(o) = Targets \ exec[o].skip
    BY DEF D!Wanted
  <2>3. /\ \A t \in Targets : sent'[o][t] = IF t \in D!Wanted(o) THEN sent[o][t] + 1 ELSE sent[o][t]
        /\ \A p \in Occurrences \ {o} : sent'[p] = sent[p]
    BY <1>2, <1>4
  <2>4. QED
    BY <1>1, <1>4, <1>3, <2>1, <2>2, <2>3 DEF D!Deliver, D!settings
<1>5. ASSUME NEW ok \in SUBSET D!Wanted(o), D!Fault("send"), D!Reach(o, ok),
             exec' = [exec EXCEPT ![o].phase = IF exec[o].key = D!Refresh THEN "enqueue" ELSE "save", ![o].ok = ok]
      PROVE  /\ exec'[o] = ExecRec(exec[o].key, exec[o].id,
                                   IF exec[o].key = D!Refresh THEN "enqueue" ELSE "save", exec[o].skip, ok)
             /\ OtherExecs(o)
             /\ faults'["crash"] = faults["crash"] /\ faults'["statement"] = faults["statement"]
  <2>1. faults'["crash"] = faults["crash"] /\ faults'["statement"] = faults["statement"]
    BY <1>5 DEF D!Fault, D!TypeOK, D!FaultKinds
  <2>2. OtherExecs(o)
    BY <1>5 DEF D!TypeOK, OtherExecs
  <2>3. exec'[o] = [exec[o] EXCEPT !.phase = IF exec[o].key = D!Refresh THEN "enqueue" ELSE "save", !.ok = ok]
    BY <1>5 DEF D!TypeOK
  <2>4. QED
    BY <1>1, <2>1, <2>2, <2>3 DEF D!Exec, ExecRec
<1>6. CASE \E ok \in SUBSET D!Wanted(o) :
              /\ ok # D!Wanted(o)
              /\ D!Fault("send")
              /\ D!Reach(o, ok)
              /\ exec' = [exec EXCEPT ![o].phase = IF exec[o].key = D!Refresh THEN "enqueue" ELSE "save", ![o].ok = ok]
  <2>1. PICK ok \in SUBSET D!Wanted(o) :
              /\ D!Fault("send") /\ D!Reach(o, ok)
              /\ exec' = [exec EXCEPT ![o].phase = IF exec[o].key = D!Refresh THEN "enqueue" ELSE "save", ![o].ok = ok]
    BY <1>6
  <2>2. /\ exec'[o] = ExecRec(exec[o].key, exec[o].id,
                              IF exec[o].key = D!Refresh THEN "enqueue" ELSE "save", exec[o].skip, ok)
        /\ OtherExecs(o)
        /\ faults'["crash"] = faults["crash"] /\ faults'["statement"] = faults["statement"]
    BY <2>1, <1>5
  <2>3. /\ \A t \in Targets : sent'[o][t] = IF t \in ok THEN sent[o][t] + 1 ELSE sent[o][t]
        /\ \A p \in Occurrences \ {o} : sent'[p] = sent[p]
    BY <1>2, <2>1
  <2>4. ok \in SUBSET (Targets \ exec[o].skip)
    BY <2>1 DEF D!Wanted
  <2>5. QED
    BY <1>1, <1>3, <2>2, <2>3, <2>4 DEF D!Deliver, D!settings
<1>7. QED
  BY <1>4, <1>6 DEF D!Deliver

LEMMA SaveEffect ==
    ASSUME D!StoryAssumption, D!TypeOK, NEW o \in Occurrences, D!SaveSkips(o)
    PROVE  /\ exec[o] \in D!Exec /\ exec[o] # Null /\ exec[o].phase = "save"
           /\ exec'[o] = ExecRec(exec[o].key, exec[o].id, "failed", exec[o].skip, exec[o].ok)
           /\ OtherExecs(o)
           /\ D!OwnRow(o) =>
                 /\ exec[o].key \in D!Keys /\ rows[exec[o].key] \in D!Row
                 /\ rows'[exec[o].key] =
                       RowRec(rows[exec[o].key].id, rows[exec[o].key].status, rows[exec[o].key].attempts,
                              exec[o].skip \union exec[o].ok, rows[exec[o].key].occ)
                 /\ OtherRows(exec[o].key)
           /\ ~D!OwnRow(o) => rows' = rows
           /\ UNCHANGED <<story, delivery, editing, edits, overlap, origin, sent, done, faults>>
<1>1. exec[o] \in D!Exec /\ exec[o] # Null /\ exec[o].phase = "save"
  BY Names DEF D!TypeOK, D!SaveSkips, D!At
<1>2. exec'[o] = ExecRec(exec[o].key, exec[o].id, "failed", exec[o].skip, exec[o].ok) /\ OtherExecs(o)
  BY <1>1, GoEffect DEF D!SaveSkips
<1>3. ASSUME D!OwnRow(o)
      PROVE  /\ exec[o].key \in D!Keys /\ rows[exec[o].key] \in D!Row
             /\ rows'[exec[o].key] =
                   RowRec(rows[exec[o].key].id, rows[exec[o].key].status, rows[exec[o].key].attempts,
                          exec[o].skip \union exec[o].ok, rows[exec[o].key].occ)
             /\ OtherRows(exec[o].key)
  <2>1. exec[o].key \in D!Keys /\ rows[exec[o].key] \in D!Row
    BY <1>1, <1>3, ExecFields DEF D!OwnRow, D!TypeOK
  <2>2. rows'[exec[o].key] = [rows[exec[o].key] EXCEPT !.skip = D!MergedSkips(o)] /\ OtherRows(exec[o].key)
    BY <1>3, <2>1 DEF D!SaveSkips, D!TypeOK, OtherRows
  <2>3. QED
    BY <2>1, <2>2 DEF D!MergedSkips, D!Row, RowRec
<1>4. QED
  BY <1>1, <1>2, <1>3 DEF D!SaveSkips, D!settings

LEMMA EnqueueEffect ==
    ASSUME D!StoryAssumption, D!TypeOK, NEW o \in Occurrences, D!EnqueueRetry(o)
    PROVE  /\ exec[o] \in D!Exec /\ exec[o] # Null /\ exec[o].phase = "enqueue"
           /\ rows'[o] = RowRec(0, "pending", 0, exec[o].ok, o)
           /\ OtherRows(o)
           /\ exec'[o] = Null /\ OtherExecs(o)
           /\ UNCHANGED <<story, delivery, editing, edits, overlap, origin, sent, done, faults>>
<1>1. exec[o] \in D!Exec /\ exec[o] # Null /\ exec[o].phase = "enqueue"
  BY Names DEF D!TypeOK, D!EnqueueRetry, D!At
<1>2. QED
  BY <1>1, Names DEF D!EnqueueRetry, D!TypeOK, D!SucceededSkips, RowRec, OtherRows, OtherExecs,
     D!settings

LEMMA SucceedEffect ==
    ASSUME D!StoryAssumption, D!TypeOK, NEW o \in Occurrences, D!Succeed(o)
    PROVE  /\ exec[o] \in D!Exec /\ exec[o] # Null /\ exec[o].phase \in {"delivered", "nothing"}
           /\ exec'[o] = Null /\ OtherExecs(o)
           /\ D!OwnRow(o) =>
                 /\ exec[o].key \in D!Keys /\ rows[exec[o].key] \in D!Row
                 /\ rows'[exec[o].key] =
                       IF exec[o].key = D!Schedule
                       THEN RowRec(rows[exec[o].key].id, "pending", 0, rows[exec[o].key].skip, Null)
                       ELSE Null
                 /\ OtherRows(exec[o].key)
           /\ ~D!OwnRow(o) => rows' = rows
           /\ done' = IF exec[o].phase = "delivered" THEN done \union {o} ELSE done
           /\ UNCHANGED <<story, delivery, editing, edits, overlap, origin, sent, faults>>
<1>1. exec[o] \in D!Exec /\ exec[o] # Null /\ exec[o].phase \in {"delivered", "nothing"}
  BY Names DEF D!TypeOK, D!Succeed, D!At
<1>3. ASSUME D!OwnRow(o)
      PROVE  /\ exec[o].key \in D!Keys /\ rows[exec[o].key] \in D!Row
             /\ rows'[exec[o].key] =
                   IF exec[o].key = D!Schedule
                   THEN RowRec(rows[exec[o].key].id, "pending", 0, rows[exec[o].key].skip, Null)
                   ELSE Null
             /\ OtherRows(exec[o].key)
  <2>1. exec[o].key \in D!Keys /\ rows[exec[o].key] \in D!Row
    BY <1>1, <1>3, ExecFields DEF D!OwnRow, D!TypeOK
  <2>2. /\ rows'[exec[o].key] = IF exec[o].key = D!Schedule THEN D!Rescheduled(rows[exec[o].key]) ELSE Null
        /\ OtherRows(exec[o].key)
    BY <1>3, <2>1 DEF D!Succeed, D!TypeOK, OtherRows
  <2>3. QED
    BY <2>1, <2>2, RescheduledRow
<1>4. QED
  BY <1>1, <1>3 DEF D!Succeed, D!At, D!TypeOK, OtherExecs, D!settings

\* A row that failed is tried again, or is over: the schedule goes on.
LEMMA FailEffect ==
    ASSUME D!StoryAssumption, D!TypeOK, NEW o \in Occurrences, D!Fail(o)
    PROVE  /\ exec[o] \in D!Exec /\ exec[o] # Null /\ exec[o].phase = "failed"
           /\ exec'[o] = Null /\ OtherExecs(o)
           /\ D!OwnRow(o) =>
                 /\ exec[o].key \in D!Keys /\ rows[exec[o].key] \in D!Row
                 /\ OtherRows(exec[o].key)
                 /\ LET row == rows[exec[o].key]
                    IN  \/ /\ row.attempts < MaxAttempts
                           /\ rows'[exec[o].key] = RowRec(row.id, "pending", row.attempts, row.skip, row.occ)
                        \/ /\ exec[o].key = D!Schedule
                           /\ rows'[exec[o].key] = RowRec(row.id, "pending", 0, row.skip, Null)
                        \/ /\ exec[o].key # D!Schedule
                           /\ rows'[exec[o].key] = RowRec(row.id, "failed", row.attempts, row.skip, row.occ)
           /\ ~D!OwnRow(o) => rows' = rows
           /\ UNCHANGED <<story, delivery, editing, edits, overlap, origin, sent, done, faults>>
<1>1. exec[o] \in D!Exec /\ exec[o] # Null /\ exec[o].phase = "failed"
  BY Names DEF D!TypeOK, D!Fail, D!At
<1>2. ASSUME D!OwnRow(o)
      PROVE  /\ exec[o].key \in D!Keys /\ rows[exec[o].key] \in D!Row
             /\ OtherRows(exec[o].key)
             /\ LET row == rows[exec[o].key]
                IN  \/ /\ row.attempts < MaxAttempts
                       /\ rows'[exec[o].key] = RowRec(row.id, "pending", row.attempts, row.skip, row.occ)
                    \/ /\ exec[o].key = D!Schedule
                       /\ rows'[exec[o].key] = RowRec(row.id, "pending", 0, row.skip, Null)
                    \/ /\ exec[o].key # D!Schedule
                       /\ rows'[exec[o].key] = RowRec(row.id, "failed", row.attempts, row.skip, row.occ)
  <2> DEFINE row == rows[exec[o].key]
  <2>1. exec[o].key \in D!Keys /\ row \in D!Row
    BY <1>1, <1>2, ExecFields DEF D!OwnRow, D!TypeOK
  <2>2. rows'[exec[o].key] = D!FailedRow(exec[o].key) /\ OtherRows(exec[o].key)
    BY <1>2, <2>1 DEF D!Fail, D!TypeOK, OtherRows
  <2>3. D!Rescheduled(row) = RowRec(row.id, "pending", 0, row.skip, Null)
    BY <2>1, RescheduledRow
  <2>4. /\ [row EXCEPT !.status = "pending"] = RowRec(row.id, "pending", row.attempts, row.skip, row.occ)
        /\ [row EXCEPT !.status = "failed"] = RowRec(row.id, "failed", row.attempts, row.skip, row.occ)
    BY <2>1 DEF D!Row, RowRec
  <2>5. QED
    BY <2>1, <2>2, <2>3, <2>4 DEF D!FailedRow
<1>3. QED
  BY <1>1, <1>2 DEF D!Fail, D!TypeOK, OtherExecs, D!settings

LEMMA StatementEffect ==
    ASSUME D!StoryAssumption, D!TypeOK, NEW o \in Occurrences, D!StatementFails(o)
    PROVE  /\ exec[o] \in D!Exec /\ exec[o] # Null
           /\ \/ /\ exec[o].phase = "save"
                 /\ exec'[o] = ExecRec(exec[o].key, exec[o].id, "failed", exec[o].skip, exec[o].ok)
              \/ exec[o].phase = "enqueue" /\ exec'[o] = Null
           /\ OtherExecs(o)
           /\ faults'["crash"] = faults["crash"] /\ faults'["statement"] = faults["statement"] + 1
           /\ UNCHANGED <<story, delivery, editing, edits, overlap, rows, origin, sent, done>>
<1>1. exec[o] \in D!Exec /\ exec[o] # Null
  BY Names DEF D!TypeOK, D!StatementFails, D!At
<1>2. CASE D!At(o, "save") /\ D!Go(o, "failed")
  BY <1>1, <1>2, GoEffect DEF D!At, D!StatementFails, D!Fault, D!TypeOK, D!FaultKinds, D!settings
<1>3. CASE D!At(o, "enqueue") /\ exec' = [exec EXCEPT ![o] = Null]
  BY <1>1, <1>3 DEF D!At, OtherExecs, D!StatementFails, D!Fault, D!TypeOK, D!FaultKinds, D!settings
<1>4. QED
  BY <1>2, <1>3 DEF D!StatementFails

LEMMA CrashEffect ==
    ASSUME D!StoryAssumption, D!TypeOK, NEW o \in Occurrences, D!Crash(o)
    PROVE  /\ exec'[o] = Null /\ OtherExecs(o)
           /\ faults'["crash"] = faults["crash"] + 1 /\ faults'["statement"] = faults["statement"]
           /\ UNCHANGED <<story, delivery, editing, edits, overlap, rows, origin, sent, done>>
  BY DEF D!Crash, D!Fault, D!TypeOK, D!FaultKinds, OtherExecs, D!settings

LEMMA ReclaimEffect ==
    ASSUME D!StoryAssumption, D!TypeOK, NEW k \in D!Keys, D!Reclaim(k)
    PROVE  /\ rows[k] \in D!Row /\ rows[k] # Null /\ rows[k].status = "running" /\ ~D!ExecutedBy(k)
           /\ rows'[k] = RowRec(rows[k].id, "pending", rows[k].attempts, rows[k].skip, rows[k].occ)
           /\ OtherRows(k)
           /\ UNCHANGED <<story, delivery, editing, edits, overlap, exec, origin, sent, done, faults>>
<1>1. rows[k] \in D!Row
  BY Names DEF D!TypeOK, D!Reclaim
<1>2. rows'[k] = [rows[k] EXCEPT !.status = "pending"] /\ OtherRows(k)
  BY DEF D!TypeOK, D!Reclaim, OtherRows
<1>3. [rows[k] EXCEPT !.status = "pending"]
        = RowRec(rows[k].id, "pending", rows[k].attempts, rows[k].skip, rows[k].occ)
  BY <1>1 DEF D!Row, RowRec
<1>4. QED
  BY <1>1, <1>2, <1>3 DEF D!Reclaim, D!settings

\* The settings of the delivery, field by field.
LEMMA DeliveryFields ==
    ASSUME D!TypeOK
    PROVE  /\ story.live \in BOOLEAN /\ story.schedule \in Crons \union {Null}
           /\ delivery.enabled \in BOOLEAN /\ delivery.cron \in Crons \union {Null}
           /\ delivery.jobId \in D!RowIds \union {Null}
           /\ \A b \in BOOLEAN : \A c : [delivery EXCEPT !.enabled = b, !.cron = c]
                           = [enabled |-> b, cron |-> c, jobId |-> delivery.jobId]
           /\ \A b \in BOOLEAN : [delivery EXCEPT !.enabled = b]
                           = [enabled |-> b, cron |-> delivery.cron, jobId |-> delivery.jobId]
           /\ \A i : [delivery EXCEPT !.jobId = i]
                           = [enabled |-> delivery.enabled, cron |-> delivery.cron, jobId |-> i]
<1>1. /\ story \in [live : BOOLEAN, schedule : Crons \union {Null}]
      /\ delivery \in [enabled : BOOLEAN, cron : Crons \union {Null}, jobId : D!RowIds \union {Null}]
  BY DEF D!TypeOK
<1>2. \A b \in BOOLEAN : [delivery EXCEPT !.enabled = b]
                 = [enabled |-> b, cron |-> delivery.cron, jobId |-> delivery.jobId]
  BY <1>1
<1>3. \A i : [delivery EXCEPT !.jobId = i]
                 = [enabled |-> delivery.enabled, cron |-> delivery.cron, jobId |-> i]
  BY <1>1
<1>4. ASSUME NEW b \in BOOLEAN, NEW c
      PROVE  [delivery EXCEPT !.enabled = b, !.cron = c] = [enabled |-> b, cron |-> c, jobId |-> delivery.jobId]
  <2>1. [[enabled |-> b, cron |-> delivery.cron, jobId |-> delivery.jobId] EXCEPT !.cron = c]
          = [enabled |-> b, cron |-> c, jobId |-> delivery.jobId]
    OBVIOUS
  <2>2. QED
    BY <1>2, <2>1
<1>5. QED
  BY <1>1, <1>2, <1>3, <1>4

\* A request that begins overlaps with those that are under way.
OverlapBegins == overlap' = IF ~D!Quiet THEN "now" ELSE IF overlap = "never" THEN "never" ELSE "before"

LEMMA IdleEffect ==
    ASSUME D!StoryAssumption, D!TypeOK, NEW e \in Editors, NEW ph, NEW enabled \in BOOLEAN,
           NEW cron,
           NEW last \in BOOLEAN,
           D!Idle(e), D!EditNow(e, ph, enabled, cron, last)
    PROVE  /\ editing[e] = Null /\ edits < MaxEdits /\ edits' = edits + 1
           /\ editing'[e] = EditRec(ph, enabled, cron, Null, last, edits + 1)
           /\ OtherEditors(e)
           /\ OverlapBegins
  BY DEF OverlapBegins, D!TypeOK, D!Idle, D!EditNow, EditRec, OtherEditors

LEMMA SaveDeliveryEffect ==
    ASSUME D!StoryAssumption, D!TypeOK, NEW e \in Editors, NEW enabled \in BOOLEAN, NEW c,
           D!SaveDelivery(e, enabled, c)
    PROVE  /\ editing[e] = Null /\ edits < MaxEdits /\ edits' = edits + 1
           /\ editing'[e] = EditRec("sync", enabled, c, Null, FALSE, edits + 1)
           /\ OtherEditors(e) /\ OverlapBegins
           /\ delivery' = DeliveryRec(enabled, c, delivery.jobId)
           /\ UNCHANGED <<story, rows, exec, origin, sent, done, faults>>
<1>1. D!Idle(e) /\ D!EditNow(e, "sync", enabled, c, FALSE)
  BY DEF D!SaveDelivery
<1>2. delivery' = DeliveryRec(enabled, c, delivery.jobId)
  BY DeliveryFields DEF D!SaveDelivery, DeliveryRec
<1>3. /\ editing[e] = Null /\ edits < MaxEdits /\ edits' = edits + 1
      /\ editing'[e] = EditRec("sync", enabled, c, Null, FALSE, edits + 1)
      /\ OtherEditors(e) /\ OverlapBegins
  BY <1>1, IdleEffect
<1>4. QED
  BY <1>2, <1>3 DEF D!SaveDelivery, D!jobs

LEMMA SaveLiveEffect ==
    ASSUME D!StoryAssumption, D!TypeOK, NEW e \in Editors, NEW live \in BOOLEAN,
           NEW c \in Crons \union {Null},
           D!SaveLive(e, live, c)
    PROVE  /\ editing[e] = Null /\ edits < MaxEdits /\ edits' = edits + 1
           /\ editing'[e] = EditRec("reread", live, Null, Null, FALSE, edits + 1)
           /\ OtherEditors(e) /\ OverlapBegins
           /\ story' = [live |-> live, schedule |-> c]
           /\ UNCHANGED <<delivery, rows, exec, origin, sent, done, faults>>
<1>1. D!Idle(e) /\ D!EditNow(e, "reread", live, Null, FALSE)
  BY DEF D!SaveLive
<1>2. QED
  BY <1>1, IdleEffect DEF D!SaveLive, D!jobs

LEMMA DisableEffect ==
    ASSUME D!StoryAssumption, D!TypeOK, NEW e \in Editors, D!Disable(e)
    PROVE  /\ editing[e] = Null /\ edits < MaxEdits /\ edits' = edits + 1
           /\ editing'[e] = EditRec("sync", FALSE, Null, Null, TRUE, edits + 1)
           /\ OtherEditors(e) /\ OverlapBegins
           /\ UNCHANGED <<story, delivery, rows, exec, origin, sent, done, faults>>
  BY IdleEffect DEF D!Disable, D!jobs

LEMMA EditorTyped ==
    ASSUME D!StoryAssumption, D!TypeOK, NEW e \in Editors, NEW p, D!Editing(e, p)
    PROVE  editing[e] \in D!Editor /\ editing[e] # Null /\ editing[e].phase = p
  BY Names DEF D!TypeOK, D!Editing

LEMMA StepEffect ==
    ASSUME D!TypeOK, NEW e \in Editors, editing[e] \in D!Editor
    PROVE  /\ \A p : D!Step(e, p) =>
                 /\ editing'[e] = EditRec(p, editing[e].enabled, editing[e].cron, editing[e].id, editing[e].last, editing[e].number)
                 /\ OtherEditors(e)
           /\ D!NextStep(e) =>
                 /\ editing'[e] = IF editing[e].last
                                  THEN EditRec("disable", editing[e].enabled, editing[e].cron, editing[e].id, TRUE, editing[e].number)
                                  ELSE Null
                 /\ OtherEditors(e)
<1>1. ASSUME NEW p, D!Step(e, p)
      PROVE  /\ editing'[e] = EditRec(p, editing[e].enabled, editing[e].cron, editing[e].id, editing[e].last, editing[e].number)
             /\ OtherEditors(e)
  BY <1>1 DEF D!TypeOK, D!Step, D!Editor, EditRec, OtherEditors
<1>2. ASSUME D!NextStep(e), ~editing[e].last PROVE editing'[e] = Null /\ OtherEditors(e)
  BY <1>2 DEF D!TypeOK, D!NextStep, D!Finish, OtherEditors
<1>3. ASSUME D!NextStep(e), editing[e].last
      PROVE  /\ editing'[e] = EditRec("disable", editing[e].enabled, editing[e].cron, editing[e].id, TRUE, editing[e].number)
             /\ OtherEditors(e)
  <2>1. D!Step(e, "disable")
    BY <1>3 DEF D!NextStep
  <2>2. editing[e].last = TRUE
    BY <1>3, EditorFields
  <2>3. QED
    BY <1>1, <2>1, <2>2
<1>4. QED
  BY <1>1, <1>2, <1>3

LEMMA RereadEffect ==
    ASSUME D!StoryAssumption, D!TypeOK, NEW e \in Editors, D!RereadDelivery(e)
    PROVE  /\ editing[e] \in D!Editor /\ editing[e] # Null /\ editing[e].phase = "reread"
           /\ editing'[e] = EditRec("sync", editing[e].enabled /\ delivery.enabled, delivery.cron,
                                    editing[e].id, editing[e].last, editing[e].number)
           /\ OtherEditors(e)
           /\ UNCHANGED <<story, delivery, edits, overlap, rows, exec, origin, sent, done, faults>>
<1>1. editing[e] \in D!Editor /\ editing[e] # Null /\ editing[e].phase = "reread"
  BY EditorTyped DEF D!RereadDelivery
<1>2. editing'[e] = EditRec("sync", editing[e].enabled /\ delivery.enabled, delivery.cron,
                            editing[e].id, editing[e].last, editing[e].number)
  BY <1>1 DEF D!TypeOK, D!RereadDelivery, D!Editor, EditRec
<1>3. QED
  BY <1>1, <1>2 DEF D!TypeOK, D!RereadDelivery, OtherEditors, D!jobs

LEMMA SetDisabledEffect ==
    ASSUME D!StoryAssumption, D!TypeOK, NEW e \in Editors, D!SetDisabled(e)
    PROVE  /\ editing[e] \in D!Editor /\ editing[e] # Null /\ editing[e].phase = "disable"
           /\ editing'[e] = Null /\ OtherEditors(e)
           /\ delivery' = DeliveryRec(FALSE, delivery.cron, delivery.jobId)
           /\ UNCHANGED <<story, edits, overlap, rows, exec, origin, sent, done, faults>>
<1>1. editing'[e] = Null /\ OtherEditors(e)
  BY DEF D!TypeOK, D!SetDisabled, D!Finish, OtherEditors
<1>2. QED
  BY <1>1, EditorTyped, DeliveryFields DEF D!SetDisabled, DeliveryRec, D!jobs

\* The job is written for an enabled schedule, and deleted or left alone otherwise.
LEMMA SyncEffect ==
    ASSUME D!StoryAssumption, D!TypeOK, NEW e \in Editors, D!Sync(e)
    PROVE  /\ editing[e] \in D!Editor /\ editing[e] # Null /\ editing[e].phase = "sync"
           /\ \/ /\ D!ShouldSchedule(editing[e].enabled, editing[e].cron)
                 /\ editing'[e] = EditRec("write", editing[e].enabled, editing[e].cron,
                                          editing[e].id, editing[e].last, editing[e].number)
              \/ /\ ~D!ShouldSchedule(editing[e].enabled, editing[e].cron) /\ delivery.jobId # Null
                 /\ editing'[e] = EditRec("delete", editing[e].enabled, editing[e].cron,
                                          delivery.jobId, editing[e].last, editing[e].number)
              \/ /\ ~D!ShouldSchedule(editing[e].enabled, editing[e].cron) /\ delivery.jobId = Null
                 /\ editing'[e] = IF editing[e].last
                                  THEN EditRec("disable", editing[e].enabled, editing[e].cron, editing[e].id, TRUE, editing[e].number)
                                  ELSE Null
           /\ OtherEditors(e)
           /\ UNCHANGED <<story, delivery, edits, overlap, rows, exec, origin, sent, done, faults>>
<1>1. editing[e] \in D!Editor /\ editing[e] # Null /\ editing[e].phase = "sync"
  BY EditorTyped DEF D!Sync
<1>2. CASE D!ShouldSchedule(editing[e].enabled, editing[e].cron)
  BY <1>1, <1>2, StepEffect DEF D!Sync, D!jobs
<1>3. CASE ~D!ShouldSchedule(editing[e].enabled, editing[e].cron) /\ delivery.jobId # Null
  <2>1. editing' = [editing EXCEPT ![e].phase = "delete", ![e].id = delivery.jobId]
    BY <1>3 DEF D!Sync
  <2>2. editing'[e] = EditRec("delete", editing[e].enabled, editing[e].cron, delivery.jobId, editing[e].last, editing[e].number)
    BY <1>1, <2>1 DEF D!TypeOK, D!Editor, EditRec
  <2>3. QED
    BY <1>1, <1>3, <2>1, <2>2 DEF D!TypeOK, OtherEditors, D!Sync, D!jobs
<1>4. CASE ~D!ShouldSchedule(editing[e].enabled, editing[e].cron) /\ delivery.jobId = Null
  <2>1. D!NextStep(e)
    BY <1>4 DEF D!Sync
  <2>2. QED
    BY <1>1, <1>4, <2>1, StepEffect DEF D!Sync, D!jobs
<1>5. QED
  BY <1>2, <1>3, <1>4

LEMMA WriteEffect ==
    ASSUME D!StoryAssumption, D!TypeOK, NEW e \in Editors, D!WriteJob(e)
    PROVE  /\ editing[e] \in D!Editor /\ editing[e] # Null /\ editing[e].phase = "write"
           /\ \/ /\ rows[D!Schedule] = Null
                 /\ rows'[D!Schedule] = RowRec(editing[e].number, "pending", 0, {}, Null)
              \/ /\ rows[D!Schedule] \in D!Row /\ rows[D!Schedule] # Null /\ rows[D!Schedule].status = "running"
                 /\ rows'[D!Schedule] = RowRec(rows[D!Schedule].id, "running", rows[D!Schedule].attempts, {},
                                             rows[D!Schedule].occ)
              \/ /\ rows[D!Schedule] \in D!Row /\ rows[D!Schedule] # Null /\ rows[D!Schedule].status # "running"
                 /\ rows'[D!Schedule] = RowRec(rows[D!Schedule].id, "pending", 0, {}, Null)
           /\ OtherRows(D!Schedule)
           /\ editing'[e] = EditRec("link", editing[e].enabled, editing[e].cron,
                                    rows'[D!Schedule].id, editing[e].last, editing[e].number)
           /\ OtherEditors(e)
           /\ UNCHANGED <<story, delivery, edits, overlap, exec, origin, sent, done, faults>>
<1>1. editing[e] \in D!Editor /\ editing[e] # Null /\ editing[e].phase = "write"
  BY EditorTyped DEF D!WriteJob
<1>2. rows'[D!Schedule] = D!UpsertedRow(e) /\ OtherRows(D!Schedule)
  BY Names DEF D!TypeOK, D!WriteJob, OtherRows
<1>3. editing'[e] = EditRec("link", editing[e].enabled, editing[e].cron, D!UpsertedRow(e).id, editing[e].last, editing[e].number)
  BY <1>1 DEF D!TypeOK, D!WriteJob, D!Editor, EditRec
<1>4. OtherEditors(e)
  BY DEF D!TypeOK, D!WriteJob, OtherEditors
<1>5. \/ /\ rows[D!Schedule] = Null
         /\ D!UpsertedRow(e) = RowRec(editing[e].number, "pending", 0, {}, Null)
      \/ /\ rows[D!Schedule] \in D!Row /\ rows[D!Schedule] # Null /\ rows[D!Schedule].status = "running"
         /\ D!UpsertedRow(e) = RowRec(rows[D!Schedule].id, "running", rows[D!Schedule].attempts, {}, rows[D!Schedule].occ)
      \/ /\ rows[D!Schedule] \in D!Row /\ rows[D!Schedule] # Null /\ rows[D!Schedule].status # "running"
         /\ D!UpsertedRow(e) = RowRec(rows[D!Schedule].id, "pending", 0, {}, Null)
  <2>1. CASE rows[D!Schedule] = Null
    BY <2>1 DEF D!UpsertedRow, RowRec
  <2>2. CASE rows[D!Schedule] # Null
    <3> DEFINE row == rows[D!Schedule]
    <3>1. row \in D!Row
      BY <2>2, Names DEF D!TypeOK
    <3>. HIDE DEF row
    <3>6. [row EXCEPT !.skip = {}] = RowRec(row.id, row.status, row.attempts, {}, row.occ)
      BY <3>1, RowSkipping
    <3>3. D!Rescheduled(row) = RowRec(row.id, "pending", 0, row.skip, Null)
      BY <3>1, RescheduledRow
    <3>4. [RowRec(row.id, "pending", 0, row.skip, Null) EXCEPT !.skip = {}] = RowRec(row.id, "pending", 0, {}, Null)
      BY DEF RowRec
    <3>5. QED
      BY <2>2, <3>1, <3>6, <3>3, <3>4 DEF D!UpsertedRow, row
  <2>3. QED
    BY <2>1, <2>2
<1>6. QED
  BY <1>1, <1>2, <1>3, <1>4, <1>5 DEF D!WriteJob, D!jobs

LEMMA LinkEffect ==
    ASSUME D!StoryAssumption, D!TypeOK, NEW e \in Editors, D!LinkJob(e)
    PROVE  /\ editing[e] \in D!Editor /\ editing[e] # Null /\ editing[e].phase = "link"
           /\ delivery' = DeliveryRec(delivery.enabled, delivery.cron, editing[e].id)
           /\ editing'[e] = IF editing[e].last
                            THEN EditRec("disable", editing[e].enabled, editing[e].cron, editing[e].id, TRUE, editing[e].number)
                            ELSE Null
           /\ OtherEditors(e)
           /\ UNCHANGED <<story, edits, overlap, rows, exec, origin, sent, done, faults>>
  BY EditorTyped, StepEffect, DeliveryFields DEF D!LinkJob, DeliveryRec, D!jobs

LEMMA DeleteEffect ==
    ASSUME D!StoryAssumption, D!TypeOK, NEW e \in Editors, D!DeleteJob(e)
    PROVE  /\ editing[e] \in D!Editor /\ editing[e] # Null /\ editing[e].phase = "delete"
           /\ rows'[D!Schedule] = IF rows[D!Schedule] # Null /\ rows[D!Schedule].id = editing[e].id
                                THEN Null ELSE rows[D!Schedule]
           /\ OtherRows(D!Schedule)
           /\ editing'[e] = EditRec("link", editing[e].enabled, editing[e].cron, Null, editing[e].last, editing[e].number)
           /\ OtherEditors(e)
           /\ UNCHANGED <<story, delivery, edits, overlap, exec, origin, sent, done, faults>>
<1>1. editing[e] \in D!Editor /\ editing[e] # Null /\ editing[e].phase = "delete"
  BY EditorTyped DEF D!DeleteJob
<1>2. editing'[e] = EditRec("link", editing[e].enabled, editing[e].cron, Null, editing[e].last, editing[e].number)
  BY <1>1 DEF D!TypeOK, D!DeleteJob, D!Editor, EditRec
<1>3. QED
  BY <1>1, <1>2, Names DEF D!TypeOK, D!DeleteJob, OtherRows, OtherEditors, D!jobs

-----------------------------------------------------------------------------
(* Typing *)

LEMMA MadeRow ==
    ASSUME NEW i \in D!RowIds, NEW s \in {"pending", "running", "failed"},
           NEW a \in 0..(MaxAttempts + MaxFaults),
           NEW sk \in SUBSET Targets, NEW oc \in Occurrences \union {Null}
    PROVE  RowRec(i, s, a, sk, oc) \in D!Row
  BY DEF RowRec, D!Row

LEMMA MadeExec ==
    ASSUME NEW k \in D!Keys \union {D!Refresh}, NEW i \in D!RowIds,
           NEW ph \in {"waiting", "locked", "enqueue", "save", "failed", "delivered", "nothing"},
           NEW sk \in SUBSET Targets, NEW ok \in SUBSET Targets
    PROVE  ExecRec(k, i, ph, sk, ok) \in D!Exec
  BY DEF ExecRec, D!Exec

LEMMA MadeEditor ==
    ASSUME NEW ph \in {"reread", "sync", "write", "link", "delete", "disable"}, NEW b \in BOOLEAN,
           NEW c \in Crons \union {Null}, NEW i \in D!RowIds \union {Null}, NEW l \in BOOLEAN, NEW n \in D!RowIds
    PROVE  EditRec(ph, b, c, i, l, n) \in D!Editor
  BY DEF EditRec, D!Editor

\* The variables keep their shape, whatever their values are.
Shaped ==
    /\ rows = [k \in D!Keys |-> rows[k]]
    /\ exec = [o \in Occurrences |-> exec[o]]
    /\ origin = [o \in Occurrences |-> origin[o]]
    /\ editing = [e \in Editors |-> editing[e]]
    /\ overlap \in {"never", "now", "before"}

LEMMA JobShapes ==
    ASSUME D!TypeOK, NEW o \in Occurrences,
           D!Work(o) \/ D!StartRefresh(o) \/ D!StatementFails(o) \/ D!Crash(o)
    PROVE  Shaped'
<1>1. CASE D!StartRefresh(o)
  BY <1>1 DEF D!TypeOK, D!StartRefresh, Shaped, D!settings
<1>2. CASE D!LoadContext(o)
  BY <1>2 DEF D!TypeOK, D!LoadContext, D!Go, Shaped, D!settings
<1>3. CASE D!Deliver(o)
  BY <1>3 DEF D!TypeOK, D!Deliver, D!Go, Shaped, D!settings
<1>4. CASE D!SaveSkips(o)
  BY <1>4 DEF D!TypeOK, D!SaveSkips, D!Go, Shaped, D!settings
<1>5. CASE D!EnqueueRetry(o)
  BY <1>5 DEF D!TypeOK, D!EnqueueRetry, Shaped, D!settings
<1>6. CASE D!Succeed(o)
  BY <1>6 DEF D!TypeOK, D!Succeed, Shaped, D!settings
<1>7. CASE D!Fail(o)
  BY <1>7 DEF D!TypeOK, D!Fail, Shaped, D!settings
<1>8. CASE D!StatementFails(o)
  BY <1>8 DEF D!TypeOK, D!StatementFails, D!Go, Shaped, D!settings
<1>9. CASE D!Crash(o)
  BY <1>9 DEF D!TypeOK, D!Crash, Shaped, D!settings
<1>10. QED
  BY <1>1, <1>2, <1>3, <1>4, <1>5, <1>6, <1>7, <1>8, <1>9 DEF D!Work

LEMMA RowShapes ==
    ASSUME D!TypeOK, NEW k \in D!Keys, D!Reclaim(k) \/ \E o \in Occurrences : D!Claim(k, o)
    PROVE  Shaped'
  BY DEF D!TypeOK, D!Reclaim, D!Claim, Shaped, D!settings

LEMMA EditShapes ==
    ASSUME D!TypeOK, NEW e \in Editors, D!Edit(e) \/ D!EditStep(e)
    PROVE  Shaped'
<1>1. CASE D!Edit(e)
  BY <1>1 DEF D!TypeOK, D!Edit, D!SaveDelivery, D!SaveLive, D!Disable, D!Idle, D!EditNow, Shaped,
     D!jobs
<1>2. CASE D!RereadDelivery(e)
  BY <1>2 DEF D!TypeOK, D!RereadDelivery, Shaped, D!jobs
<1>3. CASE D!SetDisabled(e)
  BY <1>3 DEF D!TypeOK, D!SetDisabled, D!Finish, Shaped, D!jobs
<1>4. CASE D!Sync(e)
  BY <1>4 DEF D!TypeOK, D!Sync, D!NextStep, D!Step, D!Finish, Shaped, D!jobs
<1>5. CASE D!WriteJob(e)
  BY <1>5 DEF D!TypeOK, D!WriteJob, Shaped, D!jobs
<1>6. CASE D!LinkJob(e)
  BY <1>6 DEF D!TypeOK, D!LinkJob, D!NextStep, D!Step, D!Finish, Shaped, D!jobs
<1>7. CASE D!DeleteJob(e)
  BY <1>7 DEF D!TypeOK, D!DeleteJob, Shaped, D!jobs
<1>8. QED
  BY <1>1, <1>2, <1>3, <1>4, <1>5, <1>6, <1>7 DEF D!EditStep

LEMMA FaultsTyped ==
    ASSUME D!StoryAssumption, D!TypeOK, NEW kind \in D!FaultKinds, D!Fault(kind)
    PROVE  faults' \in [D!FaultKinds -> 0..MaxFaults]
<1>1. /\ "send" \in D!FaultKinds /\ "crash" \in D!FaultKinds /\ "statement" \in D!FaultKinds
      /\ faults["send"] \in Nat /\ faults["crash"] \in Nat /\ faults["statement"] \in Nat
  BY DEF D!TypeOK, D!FaultKinds
<1>2. kind = "send" \/ kind = "crash" \/ kind = "statement"
  BY DEF D!FaultKinds
<1>3. faults[kind] + 1 \in 0..MaxFaults
  BY <1>1, <1>2, Names DEF D!Fault, D!HowMany
<1>4. QED
  BY <1>3 DEF D!Fault, D!TypeOK

\* The types of the jobs, from those of what changed.
LEMMA JobsTyped ==
    ASSUME D!TypeOK, Shaped',
           \A k \in D!Keys : rows'[k] \in D!Row \union {Null},
           \A o \in Occurrences : exec'[o] \in D!Exec \union {Null},
           \A o \in Occurrences : origin'[o] \in {D!Schedule, D!Refresh, Null},
           sent' \in [Occurrences -> [Targets -> Nat]],
           done' \subseteq Occurrences,
           faults' \in [D!FaultKinds -> 0..MaxFaults],
           UNCHANGED <<story, delivery, editing, edits, overlap>>
    PROVE  D!TypeOK'
<1>1. rows' \in [D!Keys -> D!Row \union {Null}]
  BY DEF Shaped
<1>2. exec' \in [Occurrences -> D!Exec \union {Null}]
  BY DEF Shaped
<1>3. origin' \in [Occurrences -> {D!Schedule, D!Refresh, Null}]
  BY DEF Shaped
<1>4. QED
  BY <1>1, <1>2, <1>3 DEF D!TypeOK, Shaped

LEMMA EditsTyped ==
    ASSUME D!TypeOK, Shaped',
           \A k \in D!Keys : rows'[k] \in D!Row \union {Null},
           \A e \in Editors : editing'[e] \in D!Editor \union {Null},
           edits' \in 0..MaxEdits,
           story' \in [live : BOOLEAN, schedule : Crons \union {Null}],
           delivery' \in [enabled : BOOLEAN, cron : Crons \union {Null}, jobId : D!RowIds \union {Null}],
           UNCHANGED <<exec, origin, sent, done, faults>>
    PROVE  D!TypeOK'
<1>1. rows' \in [D!Keys -> D!Row \union {Null}]
  BY DEF Shaped
<1>2. editing' \in [Editors -> D!Editor \union {Null}]
  BY DEF Shaped
<1>3. QED
  BY <1>1, <1>2 DEF D!TypeOK, Shaped

\* A row is bounded when its attempts start over, or when it keeps its handler.
LEMMA Bounded ==
    ASSUME D!StoryAssumption, D!TypeOK, NEW j \in D!Keys, RowBounded(j),
           faults'["crash"] = faults["crash"],
           \/ rows'[j] = Null
           \/ rows'[j].status = "failed"
           \/ rows'[j].status = "pending" /\ rows'[j].attempts < MaxAttempts + faults["crash"]
           \/ /\ rows[j] # Null
              /\ rows'[j].status = rows[j].status /\ rows'[j].attempts = rows[j].attempts /\ rows'[j].id = rows[j].id
              /\ \A p \in Occurrences : exec[p] # Null /\ exec[p].key = j /\ exec[p].id = rows[j].id =>
                    exec'[p] # Null /\ exec'[p].key = j /\ exec'[p].id = exec[p].id
    PROVE  RowBounded(j)'
<1>1. CASE /\ rows'[j] # Null /\ rows[j] # Null
           /\ rows'[j].status = rows[j].status /\ rows'[j].attempts = rows[j].attempts /\ rows'[j].id = rows[j].id
           /\ \A p \in Occurrences : exec[p] # Null /\ exec[p].key = j /\ exec[p].id = rows[j].id =>
                 exec'[p] # Null /\ exec'[p].key = j /\ exec'[p].id = exec[p].id
  <2>1. D!ExecutedBy(j) => D!ExecutedBy(j)'
    BY <1>1 DEF D!ExecutedBy
  <2>2. QED
    BY <1>1, <2>1 DEF RowBounded
<1>2. QED
  BY <1>1 DEF RowBounded

LEMMA ClaimTyped ==
    ASSUME D!StoryAssumption, Typed, NEW k \in D!Keys, NEW o \in Occurrences, D!Claim(k, o)
    PROVE  Typed' /\ rows'[k] \in D!Row /\ exec'[o] \in D!Exec
<1> D!TypeOK
  BY DEF Typed
<1>1. /\ rows[k] \in D!Row /\ rows[k] # Null /\ rows[k].status = "pending"
      /\ exec[o] = Null
      /\ rows'[k] = RowRec(rows[k].id, "running", rows[k].attempts + 1, rows[k].skip, o)
      /\ exec'[o] = ExecRec(k, rows[k].id, "waiting", rows[k].skip, {})
      /\ origin'[o] = IF origin[o] = Null THEN D!Schedule ELSE origin[o]
      /\ \A p \in Occurrences \ {o} : origin'[p] = origin[p]
      /\ OtherRows(k) /\ OtherExecs(o)
      /\ UNCHANGED <<story, delivery, editing, edits, overlap, sent, done, faults>>
  BY ClaimEffect
<1>2. Shaped'
  BY RowShapes
<1>3. /\ rows[k].id \in D!RowIds /\ rows[k].attempts \in Nat /\ rows[k].skip \in SUBSET Targets
  BY <1>1, RowFields
<1>4. rows[k].attempts < MaxAttempts + faults["crash"] /\ faults["crash"] \in 0..MaxFaults
  BY <1>1 DEF Typed, RowBounded, D!TypeOK, D!FaultKinds
<1>5. rows'[k] \in D!Row
  <2>1. rows[k].attempts + 1 \in 0..(MaxAttempts + MaxFaults)
    BY <1>3, <1>4, Names
  <2>2. QED
    BY <1>1, <1>3, <2>1, MadeRow
<1>6. exec'[o] \in D!Exec
  BY <1>1, <1>3, MadeExec
<1>7. D!TypeOK'
  <2>1. \A j \in D!Keys : rows'[j] \in D!Row \union {Null}
    BY <1>1, <1>5 DEF OtherRows, D!TypeOK
  <2>2. \A p \in Occurrences : exec'[p] \in D!Exec \union {Null}
    BY <1>1, <1>6 DEF OtherExecs, D!TypeOK
  <2>3. \A p \in Occurrences : origin'[p] \in {D!Schedule, D!Refresh, Null}
    BY <1>1 DEF D!TypeOK
  <2>4. sent' \in [Occurrences -> [Targets -> Nat]] /\ done' \subseteq Occurrences
        /\ faults' \in [D!FaultKinds -> 0..MaxFaults]
    BY <1>1 DEF D!TypeOK
  <2>5. QED
    BY <1>1, <1>2, <2>1, <2>2, <2>3, <2>4, JobsTyped
<1>8. ASSUME NEW j \in D!Keys PROVE RowBounded(j)'
  <2>1. CASE j = k
    <3>1. D!ExecutedBy(k)'
      BY <1>1, Names, <1>5, <1>6 DEF D!ExecutedBy, RowRec, ExecRec
    <3>2. rows'[k].status = "running" /\ rows'[k].attempts = rows[k].attempts + 1
      BY <1>1 DEF RowRec
    <3>3. QED
      BY <2>1, <3>1, <3>2, <1>1, <1>3, <1>4, Names DEF RowBounded
  <2>2. CASE j # k
    <3>1. rows'[j] = rows[j]
      BY <1>1, <2>2 DEF OtherRows
    <3>2. \A p \in Occurrences : exec[p] # Null => exec'[p] = exec[p]
      BY <1>1 DEF OtherExecs
    <3>3. faults'["crash"] = faults["crash"] /\ RowBounded(j)
      BY <1>1 DEF Typed
    <3>4. QED
      BY <3>1, <3>2, <3>3, Bounded
  <2>3. QED
    BY <2>1, <2>2
<1>9. QED
  BY <1>5, <1>6, <1>7, <1>8 DEF Typed

LEMMA ReclaimTyped ==
    ASSUME D!StoryAssumption, Typed, NEW k \in D!Keys, D!Reclaim(k)
    PROVE  Typed'
<1> D!TypeOK
  BY DEF Typed
<1>1. /\ rows[k] \in D!Row /\ rows[k] # Null /\ rows[k].status = "running" /\ ~D!ExecutedBy(k)
      /\ rows'[k] = RowRec(rows[k].id, "pending", rows[k].attempts, rows[k].skip, rows[k].occ)
      /\ OtherRows(k)
      /\ UNCHANGED <<story, delivery, editing, edits, overlap, exec, origin, sent, done, faults>>
  BY ReclaimEffect
<1>2. Shaped'
  BY RowShapes
<1>3. rows'[k] \in D!Row
  <2>1. rows[k].attempts \in 0..(MaxAttempts + MaxFaults)
    BY <1>1 DEF D!Row
  <2>2. QED
    BY <1>1, <2>1, RowFields, MadeRow
<1>4. D!TypeOK'
  <2>1. \A j \in D!Keys : rows'[j] \in D!Row \union {Null}
    BY <1>1, <1>3 DEF OtherRows, D!TypeOK
  <2>2. /\ \A p \in Occurrences : exec'[p] \in D!Exec \union {Null}
        /\ \A p \in Occurrences : origin'[p] \in {D!Schedule, D!Refresh, Null}
        /\ sent' \in [Occurrences -> [Targets -> Nat]] /\ done' \subseteq Occurrences
        /\ faults' \in [D!FaultKinds -> 0..MaxFaults]
    BY <1>1 DEF D!TypeOK
  <2>3. QED
    BY <1>1, <1>2, <2>1, <2>2, JobsTyped
<1>5. ASSUME NEW j \in D!Keys PROVE RowBounded(j)'
  <2>1. faults'["crash"] = faults["crash"] /\ RowBounded(j) /\ exec' = exec
    BY <1>1 DEF Typed
  <2>2. CASE j = k
    <3>1. rows[k].attempts < MaxAttempts + faults["crash"]
      BY <1>1, <2>1, <2>2 DEF RowBounded
    <3>2. rows'[j].status = "pending" /\ rows'[j].attempts < MaxAttempts + faults["crash"]
      BY <1>1, <2>2, <3>1 DEF RowRec
    <3>3. QED
      BY <2>1, <3>2, Bounded
  <2>3. CASE j # k
    <3>1. rows'[j] = rows[j]
      BY <1>1, <2>3 DEF OtherRows
    <3>2. QED
      BY <2>1, <3>1, Bounded
  <2>4. QED
    BY <2>2, <2>3
<1>6. QED
  BY <1>4, <1>5 DEF Typed

\* A step that moves a handler on, and no row.
LEMMA HandlerStepTyped ==
    ASSUME D!StoryAssumption, Typed, NEW o \in Occurrences, Shaped',
           rows' = rows, exec'[o] \in D!Exec, OtherExecs(o),
           exec[o] # Null => exec'[o].key = exec[o].key /\ exec'[o].id = exec[o].id,
           \A p \in Occurrences : origin'[p] \in {D!Schedule, D!Refresh, Null},
           sent' \in [Occurrences -> [Targets -> Nat]], done' = done,
           faults' \in [D!FaultKinds -> 0..MaxFaults], faults'["crash"] = faults["crash"],
           UNCHANGED <<story, delivery, editing, edits, overlap>>
    PROVE  Typed'
<1> D!TypeOK
  BY DEF Typed
<1>1. D!TypeOK'
  <2>1. /\ \A j \in D!Keys : rows'[j] \in D!Row \union {Null}
        /\ \A p \in Occurrences : exec'[p] \in D!Exec \union {Null}
        /\ done' \subseteq Occurrences
    BY DEF OtherExecs, D!TypeOK
  <2>2. QED
    BY <2>1, JobsTyped
<1>2. ASSUME NEW j \in D!Keys PROVE RowBounded(j)'
  <2>1. RowBounded(j) /\ rows'[j] = rows[j]
    BY DEF Typed
  <2>2. exec'[o] # Null
    BY Names
  <2>3. \A p \in Occurrences : exec[p] # Null =>
           exec'[p] # Null /\ exec'[p].key = exec[p].key /\ exec'[p].id = exec[p].id
    BY <2>2 DEF OtherExecs
  <2>4. QED
    BY <2>1, <2>3, Bounded
<1>3. QED
  BY <1>1, <1>2 DEF Typed

\* A handler that goes on keeps its row.
LEMMA Moved ==
    ASSUME D!StoryAssumption, D!TypeOK, NEW o \in Occurrences,
           D!LoadContext(o) \/ D!Deliver(o) \/ D!SaveSkips(o) \/ (D!StatementFails(o) /\ exec'[o] # Null)
    PROVE  /\ exec[o] \in D!Exec /\ exec[o] # Null
           /\ exec'[o] \in D!Exec /\ exec'[o] # Null
           /\ exec'[o].key = exec[o].key /\ exec'[o].id = exec[o].id
           /\ OtherExecs(o)
<1>1. exec[o] \in D!Exec /\ exec[o] # Null /\ OtherExecs(o)
  BY LoadEffect, DeliverEffect, SaveEffect, StatementEffect
<1>2. ASSUME NEW ph \in {"waiting", "locked", "enqueue", "save", "failed", "delivered", "nothing"},
             NEW ok \in SUBSET Targets,
             exec'[o] = ExecRec(exec[o].key, exec[o].id, ph, exec[o].skip, ok)
      PROVE  exec'[o] \in D!Exec /\ exec'[o].key = exec[o].key /\ exec'[o].id = exec[o].id
  <2>1. ExecRec(exec[o].key, exec[o].id, ph, exec[o].skip, ok) \in D!Exec
    BY <1>1, ExecFields, MadeExec
  <2>2. QED
    BY <1>2, <2>1 DEF ExecRec
<1>3. exec[o].ok \in SUBSET Targets
  BY <1>1, ExecFields
<1>4. CASE D!LoadContext(o)
  BY <1>1, <1>2, <1>3, <1>4, LoadEffect, Names
<1>5. CASE D!Deliver(o)
  <2>1. PICK ts \in SUBSET (Targets \ exec[o].skip) :
           \/ exec'[o] = ExecRec(exec[o].key, exec[o].id, "delivered", exec[o].skip, exec[o].ok)
           \/ exec'[o] = ExecRec(exec[o].key, exec[o].id,
                                 IF exec[o].key = D!Refresh THEN "enqueue" ELSE "save", exec[o].skip, ts)
    BY <1>5, DeliverEffect
  <2>2. ts \in SUBSET Targets
    OBVIOUS
  <2>3. QED
    BY <1>1, <1>2, <1>3, <2>1, <2>2, Names
<1>6. CASE D!SaveSkips(o) \/ (D!StatementFails(o) /\ exec'[o] # Null)
  BY <1>1, <1>2, <1>3, <1>6, SaveEffect, StatementEffect, Names
<1>7. QED
  BY <1>4, <1>5, <1>6

\* A step that ends a handler, or moves it on, without a row of its own.
LEMMA NoRowTyped ==
    ASSUME D!StoryAssumption, Typed, NEW o \in Occurrences, Shaped',
           exec[o] # Null, ~D!OwnRow(o), rows' = rows,
           OtherExecs(o), exec'[o] \in D!Exec \union {Null},
           done' \subseteq Occurrences,
           faults' = faults \/ faults' \in [D!FaultKinds -> 0..MaxFaults], faults'["crash"] = faults["crash"],
           UNCHANGED <<story, delivery, editing, edits, overlap, origin, sent>>
    PROVE  Typed'
<1> D!TypeOK
  BY DEF Typed
<1>1. D!TypeOK'
  <2>1. /\ \A j \in D!Keys : rows'[j] \in D!Row \union {Null}
        /\ \A p \in Occurrences : exec'[p] \in D!Exec \union {Null}
    BY DEF OtherExecs, D!TypeOK
  <2>2. /\ \A p \in Occurrences : origin'[p] \in {D!Schedule, D!Refresh, Null}
        /\ sent' \in [Occurrences -> [Targets -> Nat]]
        /\ faults' \in [D!FaultKinds -> 0..MaxFaults]
    BY DEF D!TypeOK
  <2>3. QED
    BY <2>1, <2>2, JobsTyped
<1>2. ASSUME NEW j \in D!Keys PROVE RowBounded(j)'
  <2>1. RowBounded(j) /\ rows'[j] = rows[j] /\ faults'["crash"] = faults["crash"]
    BY DEF Typed
  <2>2. ASSUME rows[j] # Null, NEW p \in Occurrences, exec[p] # Null, exec[p].key = j, exec[p].id = rows[j].id
        PROVE  exec'[p] = exec[p]
    <3>1. p # o
      BY <2>2, Names DEF D!OwnRow
    <3>2. QED
      BY <3>1 DEF OtherExecs
  <2>3. QED
    BY <2>1, <2>2, Bounded
<1>3. QED
  BY <1>1, <1>2 DEF Typed

LEMMA WaitingTyped ==
    ASSUME D!StoryAssumption, Typed, Paired, NEW o \in Occurrences,
           D!StartRefresh(o) \/ D!LoadContext(o) \/ D!Deliver(o) \/ D!StatementFails(o)
    PROVE  Typed'
<1> D!TypeOK
  BY DEF Typed
<1>1. Shaped'
  BY JobShapes DEF D!Work
<1>2. CASE D!StartRefresh(o)
  <2>1. exec'[o] = ExecRec(D!Refresh, 0, "waiting", {}, {}) /\ origin[o] = Null
    BY <1>2, StartEffect
  <2>2. exec'[o] \in D!Exec
    <3>1. 0 \in D!RowIds
      BY Names DEF D!RowIds
    <3>2. QED
      BY <2>1, <3>1, MadeExec
  <2>3. exec[o] = Null
    BY <2>1, Names DEF Paired, HandlerOf
  <2>4. \A p \in Occurrences : origin'[p] \in {D!Schedule, D!Refresh, Null}
    BY <1>2, StartEffect DEF D!TypeOK
  <2>5. UNCHANGED <<story, delivery, editing, edits, overlap, rows, sent, done, faults>> /\ OtherExecs(o)
    BY <1>2, StartEffect
  <2>6. sent' \in [Occurrences -> [Targets -> Nat]] /\ faults' \in [D!FaultKinds -> 0..MaxFaults]
    BY <2>5 DEF D!TypeOK
  <2>7. QED
    BY <1>1, <2>2, <2>3, <2>4, <2>5, <2>6, HandlerStepTyped
<1>3. CASE D!LoadContext(o)
  <2>1. UNCHANGED <<story, delivery, editing, edits, overlap, rows, origin, sent, done, faults>>
    BY <1>3, LoadEffect
  <2>2. /\ \A p \in Occurrences : origin'[p] \in {D!Schedule, D!Refresh, Null}
        /\ sent' \in [Occurrences -> [Targets -> Nat]] /\ faults' \in [D!FaultKinds -> 0..MaxFaults]
    BY <2>1 DEF D!TypeOK
  <2>3. QED
    BY <1>1, <1>3, <2>1, <2>2, Moved, HandlerStepTyped
<1>4. CASE D!Deliver(o)
  <2>1. /\ faults'["crash"] = faults["crash"]
        /\ sent' \in [Occurrences -> [Targets -> Nat]]
        /\ UNCHANGED <<story, delivery, editing, edits, overlap, rows, origin, done>>
    BY <1>4, DeliverEffect
  <2>2. faults' \in [D!FaultKinds -> 0..MaxFaults]
    BY <1>4, FaultsTyped DEF D!Deliver, D!FaultKinds, D!TypeOK
  <2>3. \A p \in Occurrences : origin'[p] \in {D!Schedule, D!Refresh, Null}
    BY <2>1 DEF D!TypeOK
  <2>4. QED
    BY <1>1, <1>4, <2>1, <2>2, <2>3, Moved, HandlerStepTyped
<1>5. CASE D!StatementFails(o)
  <2>1. /\ faults'["crash"] = faults["crash"]
        /\ UNCHANGED <<story, delivery, editing, edits, overlap, rows, origin, sent, done>>
    BY <1>5, StatementEffect
  <2>2. faults' \in [D!FaultKinds -> 0..MaxFaults]
    BY <1>5, FaultsTyped DEF D!StatementFails, D!FaultKinds
  <2>3. /\ \A p \in Occurrences : origin'[p] \in {D!Schedule, D!Refresh, Null}
        /\ sent' \in [Occurrences -> [Targets -> Nat]]
    BY <2>1 DEF D!TypeOK
  <2>4. CASE exec'[o] # Null
    BY <1>1, <1>5, <2>1, <2>2, <2>3, <2>4, Moved, HandlerStepTyped
  <2>5. CASE exec'[o] = Null
    <3>1. exec[o] # Null /\ exec[o].phase = "enqueue" /\ OtherExecs(o)
      BY <1>5, <2>5, MadeExec, ExecFields, StatementEffect, Names
    <3>2. ~D!OwnRow(o)
      BY <3>1 DEF Paired, HandlerOf, D!OwnRow
    <3>3. done' \subseteq Occurrences
      BY <2>1 DEF D!TypeOK
    <3>4. QED
      BY <1>1, <2>1, <2>2, <2>5, <3>1, <3>2, <3>3, NoRowTyped
  <2>6. QED
    BY <2>4, <2>5
<1>6. QED
  BY <1>2, <1>3, <1>4, <1>5

\* A step that ends a handler or moves it on, and writes one row.
LEMMA RowStepTyped ==
    ASSUME D!StoryAssumption, Typed, NEW o \in Occurrences, NEW k \in D!Keys, Shaped',
           OtherRows(k), OtherExecs(o), rows'[k] \in D!Row \union {Null}, exec'[o] \in D!Exec \union {Null},
           \A j \in D!Keys \ {k} : exec[o] # Null /\ exec[o].key = j => rows[j] = Null \/ exec[o].id # rows[j].id,
           RowBounded(k)',
           done' \subseteq Occurrences,
           UNCHANGED <<story, delivery, editing, edits, overlap, origin, sent, faults>>
    PROVE  Typed'
<1> D!TypeOK
  BY DEF Typed
<1>1. D!TypeOK'
  <2>1. /\ \A j \in D!Keys : rows'[j] \in D!Row \union {Null}
        /\ \A p \in Occurrences : exec'[p] \in D!Exec \union {Null}
    BY DEF OtherExecs, OtherRows, D!TypeOK
  <2>2. /\ \A p \in Occurrences : origin'[p] \in {D!Schedule, D!Refresh, Null}
        /\ sent' \in [Occurrences -> [Targets -> Nat]]
        /\ faults' \in [D!FaultKinds -> 0..MaxFaults]
    BY DEF D!TypeOK
  <2>3. QED
    BY <2>1, <2>2, JobsTyped
<1>2. ASSUME NEW j \in D!Keys PROVE RowBounded(j)'
  <2>1. CASE j = k
    BY <2>1
  <2>2. CASE j # k
    <3>1. RowBounded(j) /\ rows'[j] = rows[j] /\ faults'["crash"] = faults["crash"]
      BY <2>2 DEF Typed, OtherRows
    <3>2. ASSUME rows[j] # Null, NEW p \in Occurrences, exec[p] # Null, exec[p].key = j, exec[p].id = rows[j].id
          PROVE  exec'[p] = exec[p]
      BY <2>2, <3>2 DEF OtherExecs
    <3>3. QED
      BY <3>1, <3>2, Bounded
  <2>3. QED
    BY <2>1, <2>2
<1>3. QED
  BY <1>1, <1>2 DEF Typed

\* A handler that saves or ends leaves a well typed row, and the recurring one in place.
LEMMA RowWritten ==
    ASSUME D!StoryAssumption, D!TypeOK, NEW o \in Occurrences,
           D!SaveSkips(o) \/ D!Succeed(o) \/ D!Fail(o),
           D!OwnRow(o), NEW k, k = exec[o].key
    PROVE  /\ k \in D!Keys /\ rows[k] \in D!Row /\ rows[k] # Null /\ OtherRows(k)
           /\ rows'[k] \in D!Row \union {Null}
           /\ D!Succeed(o) => k = D!Schedule \/ rows'[k] = Null
           /\ ~D!Succeed(o) \/ k = D!Schedule => rows'[k] \in D!Row /\ rows'[k].id = rows[k].id
<1>1. k \in D!Keys /\ rows[k] \in D!Row /\ rows[k] # Null /\ OtherRows(k) /\ exec[o] \in D!Exec
  BY SaveEffect, SucceedEffect, FailEffect DEF D!OwnRow
<1>2. ASSUME NEW s \in {"pending", "running", "failed"}, NEW a \in {0, rows[k].attempts}, NEW sk \in SUBSET Targets,
             NEW oc \in {Null, rows[k].occ}, rows'[k] = RowRec(rows[k].id, s, a, sk, oc)
      PROVE  rows'[k] \in D!Row /\ rows'[k].id = rows[k].id
  <2>1. a \in 0..(MaxAttempts + MaxFaults)
    BY <1>1, Names DEF D!Row
  <2>2. oc \in Occurrences \union {Null}
    BY <1>1, RowFields
  <2>3. RowRec(rows[k].id, s, a, sk, oc) \in D!Row
    BY <1>1, <2>1, <2>2, RowFields, MadeRow
  <2>4. QED
    BY <1>2, <2>3 DEF RowRec
<1>3. /\ rows[k].skip \in SUBSET Targets /\ exec[o].skip \union exec[o].ok \in SUBSET Targets
      /\ rows[k].status \in {"pending", "running", "failed"}
  BY <1>1, RowFields, ExecFields
<1>4. CASE D!SaveSkips(o)
  <2>1. rows'[k] = RowRec(rows[k].id, rows[k].status, rows[k].attempts, exec[o].skip \union exec[o].ok, rows[k].occ)
    BY <1>4, SaveEffect
  <2>2. exec[o].phase = "save" /\ ~D!Succeed(o)
    BY <1>4, SaveEffect, SucceedEffect
  <2>3. QED
    BY <1>1, <1>2, <1>3, <2>1, <2>2
<1>5. CASE D!Succeed(o)
  <2>1. rows'[k] = IF k = D!Schedule THEN RowRec(rows[k].id, "pending", 0, rows[k].skip, Null) ELSE Null
    BY <1>5, SucceedEffect
  <2>2. QED
    BY <1>1, <1>2, <1>3, <1>5, <2>1
<1>6. CASE D!Fail(o)
  <2>1. \/ rows'[k] = RowRec(rows[k].id, "pending", rows[k].attempts, rows[k].skip, rows[k].occ)
        \/ rows'[k] = RowRec(rows[k].id, "pending", 0, rows[k].skip, Null)
        \/ rows'[k] = RowRec(rows[k].id, "failed", rows[k].attempts, rows[k].skip, rows[k].occ)
    BY <1>6, FailEffect
  <2>2. exec[o].phase = "failed" /\ ~D!Succeed(o)
    BY <1>6, FailEffect, SucceedEffect
  <2>3. QED
    BY <1>1, <1>2, <1>3, <2>1, <2>2
<1>7. QED
  BY <1>4, <1>5, <1>6

LEMMA EndingTyped ==
    ASSUME D!StoryAssumption, Typed, Paired, NEW o \in Occurrences,
           D!SaveSkips(o) \/ D!EnqueueRetry(o) \/ D!Succeed(o) \/ D!Fail(o)
    PROVE  Typed'
<1> D!TypeOK
  BY DEF Typed
<1>1. Shaped'
  BY JobShapes DEF D!Work
<1>2. faults["crash"] \in Nat
  BY DEF D!TypeOK, D!FaultKinds
<1>3. CASE D!EnqueueRetry(o)
  <2>1. /\ exec[o] \in D!Exec /\ exec[o] # Null /\ exec[o].phase = "enqueue"
        /\ rows'[o] = RowRec(0, "pending", 0, exec[o].ok, o)
        /\ OtherRows(o)
        /\ exec'[o] = Null /\ OtherExecs(o)
        /\ UNCHANGED <<story, delivery, editing, edits, overlap, origin, sent, done, faults>>
    BY <1>3, EnqueueEffect
  <2>2. exec[o].key \notin D!Keys
    BY <2>1, Names DEF Paired, HandlerOf
  <2>3. rows'[o] \in D!Row
    <3>1. 0 \in D!RowIds /\ 0 \in 0..(MaxAttempts + MaxFaults)
      BY Names DEF D!RowIds
    <3>2. QED
      BY <2>1, <3>1, ExecFields, MadeRow
  <2>4. RowBounded(o)'
    BY <2>1, <1>2, Names DEF RowBounded, RowRec
  <2>5. o \in D!Keys /\ done' \subseteq Occurrences
    BY <2>1, Names DEF D!TypeOK
  <2>6. QED
    BY <1>1, <2>1, <2>2, <2>3, <2>4, <2>5, RowStepTyped
<1>4. CASE D!SaveSkips(o)
  <2>1. /\ exec[o] \in D!Exec /\ exec[o] # Null
        /\ exec'[o] = ExecRec(exec[o].key, exec[o].id, "failed", exec[o].skip, exec[o].ok)
        /\ OtherExecs(o)
        /\ UNCHANGED <<story, delivery, editing, edits, overlap, origin, sent, done, faults>>
        /\ ~D!OwnRow(o) => rows' = rows
    BY <1>4, SaveEffect
  <2>2. exec'[o] \in D!Exec /\ exec'[o].key = exec[o].key /\ exec'[o].id = exec[o].id
    BY <1>4, Moved
  <2>3. done' \subseteq Occurrences
    BY <2>1 DEF D!TypeOK
  <2>4. CASE D!OwnRow(o)
    <3> PICK k : k = exec[o].key
      OBVIOUS
    <3> DEFINE row == rows[k]
    <3>1. /\ k \in D!Keys /\ row \in D!Row /\ row # Null
          /\ rows'[k] = RowRec(row.id, row.status, row.attempts, exec[o].skip \union exec[o].ok, row.occ)
          /\ OtherRows(k)
      BY <1>4, <2>4, SaveEffect, Names
    <3>2. rows'[k] \in D!Row \union {Null}
      BY <1>4, <2>4, RowWritten
    <3>3. RowBounded(k)'
      <4>1. rows'[k].status = row.status /\ rows'[k].attempts = row.attempts /\ rows'[k].id = row.id
        BY <3>1 DEF RowRec
      <4>2. ASSUME NEW p \in Occurrences, exec[p] # Null
            PROVE  exec'[p] # Null /\ exec'[p].key = exec[p].key /\ exec'[p].id = exec[p].id
        BY <4>2, <2>1, <2>2, Names DEF OtherExecs
      <4>3. RowBounded(k) /\ faults'["crash"] = faults["crash"]
        BY <2>1, <3>1 DEF Typed
      <4>4. QED
        BY <3>1, <4>1, <4>2, <4>3, Bounded
    <3>4. QED
      BY <1>1, <2>1, <2>2, <2>3, <3>1, <3>2, <3>3, RowStepTyped
  <2>5. CASE ~D!OwnRow(o)
    BY <1>1, <2>1, <2>2, <2>3, <2>5, NoRowTyped
  <2>6. QED
    BY <2>4, <2>5
<1>5. CASE D!Succeed(o)
  <2>1. /\ exec[o] \in D!Exec /\ exec[o] # Null
        /\ exec'[o] = Null /\ OtherExecs(o)
        /\ done' \in {done, done \union {o}}
        /\ UNCHANGED <<story, delivery, editing, edits, overlap, origin, sent, faults>>
        /\ ~D!OwnRow(o) => rows' = rows
    BY <1>5, SucceedEffect
  <2>2. done' \subseteq Occurrences
    BY <2>1 DEF D!TypeOK
  <2>3. CASE D!OwnRow(o)
    <3> PICK k : k = exec[o].key
      OBVIOUS
    <3> DEFINE row == rows[k]
    <3>1. /\ k \in D!Keys /\ row \in D!Row
          /\ rows'[k] = IF k = D!Schedule THEN RowRec(row.id, "pending", 0, row.skip, Null) ELSE Null
          /\ OtherRows(k)
      BY <1>5, <2>3, SucceedEffect
    <3>2. rows'[k] \in D!Row \union {Null}
      BY <1>5, <2>3, RowWritten
    <3>3. RowBounded(k)'
      BY <1>2, <2>1, <3>1, Names DEF RowBounded, RowRec
    <3>4. QED
      BY <1>1, <2>1, <2>2, <3>1, <3>2, <3>3, RowStepTyped
  <2>4. CASE ~D!OwnRow(o)
    BY <1>1, <2>1, <2>2, <2>4, NoRowTyped
  <2>5. QED
    BY <2>3, <2>4
<1>6. CASE D!Fail(o)
  <2>1. /\ exec[o] \in D!Exec /\ exec[o] # Null
        /\ exec'[o] = Null /\ OtherExecs(o)
        /\ UNCHANGED <<story, delivery, editing, edits, overlap, origin, sent, done, faults>>
        /\ ~D!OwnRow(o) => rows' = rows
    BY <1>6, FailEffect
  <2>2. done' \subseteq Occurrences
    BY <2>1 DEF D!TypeOK
  <2>3. CASE D!OwnRow(o)
    <3> PICK k : k = exec[o].key
      OBVIOUS
    <3> DEFINE row == rows[k]
    <3>1. /\ k \in D!Keys /\ row \in D!Row /\ OtherRows(k)
          /\ \/ /\ row.attempts < MaxAttempts
                /\ rows'[k] = RowRec(row.id, "pending", row.attempts, row.skip, row.occ)
             \/ rows'[k] = RowRec(row.id, "pending", 0, row.skip, Null)
             \/ rows'[k] = RowRec(row.id, "failed", row.attempts, row.skip, row.occ)
      BY <1>6, <2>3, FailEffect
    <3>2. rows'[k] \in D!Row \union {Null}
      BY <1>6, <2>3, RowWritten
    <3>3. RowBounded(k)'
      <4>1. row.attempts \in Nat /\ faults'["crash"] = faults["crash"]
        BY <2>1, <3>1, RowFields
      <4>2. \/ rows'[k].status = "pending" /\ rows'[k].attempts < MaxAttempts + faults["crash"]
            \/ rows'[k].status = "failed"
        BY <1>2, <3>1, <4>1, Names DEF RowRec
      <4>3. QED
        BY <4>1, <4>2 DEF RowBounded
    <3>4. QED
      BY <1>1, <2>1, <2>2, <3>1, <3>2, <3>3, RowStepTyped
  <2>4. CASE ~D!OwnRow(o)
    BY <1>1, <2>1, <2>2, <2>4, NoRowTyped
  <2>5. QED
    BY <2>3, <2>4
<1>7. QED
  BY <1>3, <1>4, <1>5, <1>6

LEMMA CrashTyped ==
    ASSUME D!StoryAssumption, Typed, NEW o \in Occurrences, D!Crash(o)
    PROVE  Typed'
<1> D!TypeOK
  BY DEF Typed
<1>1. /\ exec'[o] = Null /\ OtherExecs(o)
      /\ faults'["crash"] = faults["crash"] + 1
      /\ UNCHANGED <<story, delivery, editing, edits, overlap, rows, origin, sent, done>>
  BY CrashEffect
<1>2. D!TypeOK'
  <2>1. Shaped'
    BY JobShapes
  <2>2. faults' \in [D!FaultKinds -> 0..MaxFaults]
    BY FaultsTyped DEF D!Crash, D!FaultKinds
  <2>3. /\ \A j \in D!Keys : rows'[j] \in D!Row \union {Null}
        /\ \A p \in Occurrences : exec'[p] \in D!Exec \union {Null}
        /\ \A p \in Occurrences : origin'[p] \in {D!Schedule, D!Refresh, Null}
        /\ sent' \in [Occurrences -> [Targets -> Nat]] /\ done' \subseteq Occurrences
    BY <1>1 DEF OtherExecs, D!TypeOK
  <2>4. QED
    BY <1>1, <2>1, <2>2, <2>3, JobsTyped
<1>3. ASSUME NEW j \in D!Keys, rows[j] # Null PROVE RowBounded(j)'
  <2>1. rows[j] \in D!Row /\ rows'[j] = rows[j] /\ RowBounded(j)
    BY <1>1, <1>3 DEF D!TypeOK, Typed
  <2>2. rows[j].attempts \in Nat /\ faults["crash"] \in Nat
    BY <2>1, RowFields DEF D!TypeOK, D!FaultKinds
  <2>3. QED
    BY <1>1, <1>3, <2>1, <2>2, Names DEF RowBounded
<1>4. ASSUME NEW j \in D!Keys, rows[j] = Null PROVE RowBounded(j)'
  BY <1>1, <1>4 DEF RowBounded
<1>5. QED
  BY <1>2, <1>3, <1>4 DEF Typed

LEMMA UpsertTyped ==
    ASSUME D!StoryAssumption, D!TypeOK, NEW e \in Editors, D!WriteJob(e)
    PROVE  rows'[D!Schedule] \in D!Row
<1> DEFINE row == rows[D!Schedule]
<1>1. \/ rows'[D!Schedule] = RowRec(editing[e].number, "pending", 0, {}, Null)
      \/ row \in D!Row /\ rows'[D!Schedule] = RowRec(row.id, "running", row.attempts, {}, row.occ)
      \/ row \in D!Row /\ rows'[D!Schedule] = RowRec(row.id, "pending", 0, {}, Null)
  BY WriteEffect
<1>2. /\ 0 \in 0..(MaxAttempts + MaxFaults) /\ {} \in SUBSET Targets
      /\ editing[e].number \in D!RowIds /\ Null \in Occurrences \union {Null}
  BY Names, WriteEffect, EditorFields DEF D!TypeOK
<1>3. RowRec(editing[e].number, "pending", 0, {}, Null) \in D!Row
  BY <1>2, MadeRow
<1>4. ASSUME row \in D!Row
      PROVE  /\ RowRec(row.id, "running", row.attempts, {}, row.occ) \in D!Row
             /\ RowRec(row.id, "pending", 0, {}, Null) \in D!Row
  <2>1. row.attempts \in 0..(MaxAttempts + MaxFaults)
    BY <1>4 DEF D!Row
  <2>2. QED
    BY <1>2, <1>4, <2>1, RowFields, MadeRow
<1>5. QED
  BY <1>1, <1>3, <1>4

LEMMA EditTyped ==
    ASSUME D!StoryAssumption, Typed, NEW e \in Editors, D!Edit(e) \/ D!EditStep(e)
    PROVE  Typed'
<1> D!TypeOK
  BY DEF Typed
<1>1. Shaped'
  BY EditShapes
<1>2. edits \in 0..MaxEdits /\ edits \in D!RowIds
  BY DEF D!TypeOK, D!RowIds
<1>3. /\ Null \in Crons \union {Null} /\ Null \in D!RowIds \union {Null} /\ Null \in Occurrences \union {Null}
      /\ \A c \in Crons : c \in Crons \union {Null}
      /\ \A i \in D!RowIds : i \in D!RowIds \union {Null}
  OBVIOUS
<1>4. ASSUME rows' = rows, NEW ed \in D!Editor \union {Null}, editing'[e] = ed, OtherEditors(e),
             edits' \in 0..MaxEdits,
             story' \in [live : BOOLEAN, schedule : Crons \union {Null}],
             delivery' \in [enabled : BOOLEAN, cron : Crons \union {Null}, jobId : D!RowIds \union {Null}],
             UNCHANGED <<exec, origin, sent, done, faults>>
      PROVE  Typed'
  <2>1. D!TypeOK'
    <3>1. /\ \A j \in D!Keys : rows'[j] \in D!Row \union {Null}
          /\ \A f \in Editors : editing'[f] \in D!Editor \union {Null}
      BY <1>4 DEF D!TypeOK, OtherEditors
    <3>2. QED
      BY <1>1, <1>4, <3>1, EditsTyped
  <2>2. ASSUME NEW j \in D!Keys PROVE RowBounded(j)'
    <3>1. RowBounded(j)
      BY DEF Typed
    <3>2. QED
      BY <1>4, <3>1 DEF RowBounded, D!ExecutedBy
  <2>3. QED
    BY <2>1, <2>2 DEF Typed
<1>5. ASSUME NEW ed \in D!Editor, editing'[e] = ed, OtherEditors(e), OtherRows(D!Schedule),
             rows'[D!Schedule] \in D!Row \union {Null}, RowBounded(D!Schedule)',
             UNCHANGED <<story, delivery, edits, overlap, exec, origin, sent, done, faults>>
      PROVE  Typed'
  <2>1. D!TypeOK'
    <3>1. /\ \A j \in D!Keys : rows'[j] \in D!Row \union {Null}
          /\ \A f \in Editors : editing'[f] \in D!Editor \union {Null}
          /\ edits' \in 0..MaxEdits
          /\ story' \in [live : BOOLEAN, schedule : Crons \union {Null}]
          /\ delivery' \in [enabled : BOOLEAN, cron : Crons \union {Null}, jobId : D!RowIds \union {Null}]
      BY <1>5 DEF D!TypeOK, OtherEditors, OtherRows
    <3>2. QED
      BY <1>1, <1>5, <3>1, EditsTyped
  <2>2. ASSUME NEW j \in D!Keys, j # D!Schedule PROVE RowBounded(j)'
    <3>1. RowBounded(j) /\ rows'[j] = rows[j]
      BY <1>5, <2>2 DEF Typed, OtherRows
    <3>2. QED
      BY <1>5, <3>1 DEF RowBounded, D!ExecutedBy
  <2>3. QED
    BY <1>5, <2>1, <2>2 DEF Typed
<1>6. CASE \E enabled \in BOOLEAN, c \in Crons \union {Null} : D!SaveDelivery(e, enabled, c)
  <2>1. PICK enabled \in BOOLEAN, c \in Crons \union {Null} : D!SaveDelivery(e, enabled, c)
    BY <1>6
  <2>2. /\ edits < MaxEdits /\ edits' = edits + 1
        /\ editing'[e] = EditRec("sync", enabled, c, Null, FALSE, edits + 1)
        /\ OtherEditors(e)
        /\ delivery' = DeliveryRec(enabled, c, delivery.jobId)
        /\ UNCHANGED <<story, rows, exec, origin, sent, done, faults>>
    BY <2>1, SaveDeliveryEffect
  <2>4. edits' \in 0..MaxEdits /\ edits + 1 \in D!RowIds
    BY <1>2, <2>2, Names DEF D!RowIds
  <2>3. EditRec("sync", enabled, c, Null, FALSE, edits + 1) \in D!Editor
    BY <1>3, <2>4, MadeEditor
  <2>5. delivery' \in [enabled : BOOLEAN, cron : Crons \union {Null}, jobId : D!RowIds \union {Null}]
    BY <2>2, DeliveryFields DEF DeliveryRec
  <2>6. story' \in [live : BOOLEAN, schedule : Crons \union {Null}]
    BY <2>2 DEF D!TypeOK
  <2>7. QED
    BY <1>4, <2>2, <2>3, <2>4, <2>5, <2>6
<1>7. CASE \E live \in BOOLEAN, c \in Crons \union {Null} : D!SaveLive(e, live, c)
  <2>1. PICK live \in BOOLEAN, c \in Crons \union {Null} : D!SaveLive(e, live, c)
    BY <1>7
  <2>2. /\ edits < MaxEdits /\ edits' = edits + 1
        /\ editing'[e] = EditRec("reread", live, Null, Null, FALSE, edits + 1)
        /\ OtherEditors(e)
        /\ story' = [live |-> live, schedule |-> c]
        /\ UNCHANGED <<delivery, rows, exec, origin, sent, done, faults>>
    BY <2>1, SaveLiveEffect
  <2>4. edits' \in 0..MaxEdits /\ edits + 1 \in D!RowIds
    BY <1>2, <2>2, Names DEF D!RowIds
  <2>3. EditRec("reread", live, Null, Null, FALSE, edits + 1) \in D!Editor
    BY <1>3, <2>4, MadeEditor
  <2>5. story' \in [live : BOOLEAN, schedule : Crons \union {Null}]
    BY <2>2
  <2>6. delivery' \in [enabled : BOOLEAN, cron : Crons \union {Null}, jobId : D!RowIds \union {Null}]
    BY <2>2 DEF D!TypeOK
  <2>7. QED
    BY <1>4, <2>2, <2>3, <2>4, <2>5, <2>6
<1>8. CASE D!Disable(e)
  <2>1. /\ edits < MaxEdits /\ edits' = edits + 1
        /\ editing'[e] = EditRec("sync", FALSE, Null, Null, TRUE, edits + 1)
        /\ OtherEditors(e)
        /\ UNCHANGED <<story, delivery, rows, exec, origin, sent, done, faults>>
    BY <1>8, DisableEffect
  <2>3. edits' \in 0..MaxEdits /\ edits + 1 \in D!RowIds
    BY <1>2, <2>1, Names DEF D!RowIds
  <2>2. EditRec("sync", FALSE, Null, Null, TRUE, edits + 1) \in D!Editor
    BY <1>3, <2>3, MadeEditor
  <2>4. /\ story' \in [live : BOOLEAN, schedule : Crons \union {Null}]
        /\ delivery' \in [enabled : BOOLEAN, cron : Crons \union {Null}, jobId : D!RowIds \union {Null}]
    BY <2>1 DEF D!TypeOK
  <2>5. QED
    BY <1>4, <2>1, <2>2, <2>3, <2>4
<1>9. CASE D!RereadDelivery(e) \/ D!Sync(e)
  <2>1. /\ editing[e] \in D!Editor /\ OtherEditors(e)
        /\ UNCHANGED <<story, delivery, edits, overlap, rows, exec, origin, sent, done, faults>>
    BY <1>9, RereadEffect, SyncEffect
  <2>2. editing'[e] \in D!Editor \union {Null}
    <3>1. delivery.cron \in Crons \union {Null} /\ delivery.jobId \in D!RowIds \union {Null}
          /\ (editing[e].enabled /\ delivery.enabled) \in BOOLEAN /\ TRUE \in BOOLEAN
      BY DeliveryFields
    <3>5. /\ editing[e].enabled \in BOOLEAN /\ editing[e].last \in BOOLEAN
          /\ editing[e].cron \in Crons \union {Null} /\ editing[e].id \in D!RowIds \union {Null}
          /\ editing[e].number \in D!RowIds
      BY <2>1, EditorFields
    <3>2. CASE D!RereadDelivery(e)
      <4>1. EditRec("sync", editing[e].enabled /\ delivery.enabled, delivery.cron, editing[e].id, editing[e].last, editing[e].number)
               \in D!Editor
        BY <3>1, <3>5, MadeEditor
      <4>2. QED
        BY <3>2, <4>1, RereadEffect
    <3>3. CASE D!Sync(e)
      <4>1. EditRec("write", editing[e].enabled, editing[e].cron, editing[e].id, editing[e].last, editing[e].number) \in D!Editor
        BY <3>5, MadeEditor
      <4>2. EditRec("delete", editing[e].enabled, editing[e].cron, delivery.jobId, editing[e].last, editing[e].number) \in D!Editor
        BY <3>1, <3>5, MadeEditor
      <4>3. EditRec("disable", editing[e].enabled, editing[e].cron, editing[e].id, TRUE, editing[e].number) \in D!Editor
        BY <3>1, <3>5, MadeEditor
      <4>4. QED
        BY <3>3, <4>1, <4>2, <4>3, SyncEffect
    <3>4. QED
      BY <1>9, <3>2, <3>3
  <2>3. /\ story' \in [live : BOOLEAN, schedule : Crons \union {Null}]
        /\ delivery' \in [enabled : BOOLEAN, cron : Crons \union {Null}, jobId : D!RowIds \union {Null}]
        /\ edits' \in 0..MaxEdits
    BY <2>1 DEF D!TypeOK
  <2>4. QED
    BY <1>4, <2>1, <2>2, <2>3
<1>10. CASE D!SetDisabled(e)
  <2>1. /\ editing'[e] = Null /\ OtherEditors(e)
        /\ delivery' = DeliveryRec(FALSE, delivery.cron, delivery.jobId)
        /\ UNCHANGED <<story, edits, overlap, rows, exec, origin, sent, done, faults>>
    BY <1>10, SetDisabledEffect
  <2>2. delivery' \in [enabled : BOOLEAN, cron : Crons \union {Null}, jobId : D!RowIds \union {Null}]
    BY <2>1, DeliveryFields DEF DeliveryRec
  <2>3. story' \in [live : BOOLEAN, schedule : Crons \union {Null}] /\ edits' \in 0..MaxEdits
    BY <2>1 DEF D!TypeOK
  <2>4. QED
    BY <1>4, <2>1, <2>2, <2>3
<1>11. CASE D!LinkJob(e)
  <2>1. /\ editing[e] \in D!Editor /\ OtherEditors(e)
        /\ delivery' = DeliveryRec(delivery.enabled, delivery.cron, editing[e].id)
        /\ editing'[e] = IF editing[e].last
                         THEN EditRec("disable", editing[e].enabled, editing[e].cron, editing[e].id, TRUE, editing[e].number)
                         ELSE Null
        /\ UNCHANGED <<story, edits, overlap, rows, exec, origin, sent, done, faults>>
    BY <1>11, LinkEffect
  <2>2. editing'[e] \in D!Editor \union {Null}
    <3>1. EditRec("disable", editing[e].enabled, editing[e].cron, editing[e].id, TRUE, editing[e].number) \in D!Editor
      <4>1. /\ editing[e].enabled \in BOOLEAN /\ editing[e].cron \in Crons \union {Null}
            /\ editing[e].id \in D!RowIds \union {Null} /\ editing[e].number \in D!RowIds
        BY <2>1, EditorFields
      <4>2. QED
        BY <4>1, MadeEditor
    <3>2. QED
      BY <2>1, <3>1
  <2>3. delivery' \in [enabled : BOOLEAN, cron : Crons \union {Null}, jobId : D!RowIds \union {Null}]
    BY <2>1, DeliveryFields, EditorFields DEF DeliveryRec
  <2>4. story' \in [live : BOOLEAN, schedule : Crons \union {Null}] /\ edits' \in 0..MaxEdits
    BY <2>1 DEF D!TypeOK
  <2>5. QED
    BY <1>4, <2>1, <2>2, <2>3, <2>4
<1>12. CASE D!WriteJob(e)
  <2>1. /\ editing[e] \in D!Editor /\ OtherRows(D!Schedule) /\ OtherEditors(e)
        /\ editing'[e] = EditRec("link", editing[e].enabled, editing[e].cron, rows'[D!Schedule].id, editing[e].last, editing[e].number)
        /\ UNCHANGED <<story, delivery, edits, overlap, exec, origin, sent, done, faults>>
    BY <1>12, WriteEffect
  <2> DEFINE row == rows[D!Schedule]
  <2>2. \/ rows'[D!Schedule] = RowRec(editing[e].number, "pending", 0, {}, Null)
        \/ /\ row \in D!Row /\ row # Null /\ row.status = "running"
           /\ rows'[D!Schedule] = RowRec(row.id, "running", row.attempts, {}, row.occ)
        \/ row \in D!Row /\ rows'[D!Schedule] = RowRec(row.id, "pending", 0, {}, Null)
    BY <1>12, WriteEffect
  <2>3. rows'[D!Schedule] \in D!Row
    BY <1>12, UpsertTyped
  <2>4. RowBounded(D!Schedule)'
    <3>1. /\ D!Schedule \in D!Keys /\ RowBounded(D!Schedule) /\ faults'["crash"] = faults["crash"]
          /\ faults["crash"] \in Nat
      BY <2>1, Names DEF Typed, D!TypeOK, D!FaultKinds
    <3>2. \/ rows'[D!Schedule].status = "pending" /\ rows'[D!Schedule].attempts < MaxAttempts + faults["crash"]
          \/ /\ row # Null /\ rows'[D!Schedule].status = row.status /\ rows'[D!Schedule].attempts = row.attempts
             /\ rows'[D!Schedule].id = row.id
      BY <2>2, <3>1, Names DEF RowRec
    <3>3. \A p \in Occurrences : exec[p] # Null /\ exec[p].key = D!Schedule /\ exec[p].id = rows[D!Schedule].id =>
             exec'[p] # Null /\ exec'[p].key = D!Schedule /\ exec'[p].id = exec[p].id
      BY <2>1
    <3>4. QED
      BY <3>1, <3>2, <3>3, Bounded
  <2>5. editing'[e] \in D!Editor
    <3>1. rows'[D!Schedule].id \in D!RowIds \union {Null}
      BY <2>3, RowFields
    <3>2. /\ editing[e].enabled \in BOOLEAN /\ editing[e].last \in BOOLEAN
          /\ editing[e].cron \in Crons \union {Null} /\ editing[e].id \in D!RowIds \union {Null}
          /\ editing[e].number \in D!RowIds
      BY <2>1, EditorFields
    <3>3. EditRec("link", editing[e].enabled, editing[e].cron, rows'[D!Schedule].id, editing[e].last, editing[e].number) \in D!Editor
      BY <3>1, <3>2, MadeEditor
    <3>4. QED
      BY <2>1, <3>3
  <2>6. QED
    BY <1>5, <2>1, <2>3, <2>4, <2>5
<1>13. CASE D!DeleteJob(e)
  <2>1. /\ editing[e] \in D!Editor /\ OtherRows(D!Schedule) /\ OtherEditors(e)
        /\ rows'[D!Schedule] \in {Null, rows[D!Schedule]}
        /\ editing'[e] = EditRec("link", editing[e].enabled, editing[e].cron, Null, editing[e].last, editing[e].number)
        /\ UNCHANGED <<story, delivery, edits, overlap, exec, origin, sent, done, faults>>
    BY <1>13, DeleteEffect
  <2>2. editing'[e] \in D!Editor
    <3>1. EditRec("link", editing[e].enabled, editing[e].cron, Null, editing[e].last, editing[e].number) \in D!Editor
      BY <1>3, <2>1, EditorFields, MadeEditor
    <3>2. QED
      BY <2>1, <3>1
  <2>3. rows'[D!Schedule] \in D!Row \union {Null}
    BY <2>1, Names DEF D!TypeOK
  <2>4. RowBounded(D!Schedule)'
    BY <2>1, Names DEF Typed, RowBounded, D!ExecutedBy
  <2>5. QED
    BY <1>5, <2>1, <2>2, <2>3, <2>4
<1>14. QED
  BY <1>6, <1>7, <1>8, <1>9, <1>10, <1>11, <1>12, <1>13 DEF D!Edit, D!EditStep

LEMMA TypedStep ==
    ASSUME D!StoryAssumption, Typed, Paired, [D!Next]_(D!vars)
    PROVE  Typed'
<1>1. CASE UNCHANGED D!vars
  BY <1>1 DEF D!vars, Typed, D!TypeOK, RowBounded, D!ExecutedBy
<1>2. CASE D!Next
  BY <1>2, ClaimTyped, ReclaimTyped, WaitingTyped, EndingTyped, CrashTyped, EditTyped DEF D!Next,
     D!Work
<1>3. QED
  BY <1>1, <1>2

-----------------------------------------------------------------------------
(* An occurrence keeps its path: the schedule, or the refresh and its retries *)

\* Where a row belongs decides what its next handler works on.
LEMMA Claimed ==
    ASSUME D!StoryAssumption, D!TypeOK, Paired, NEW k \in D!Keys, NEW o \in Occurrences,
           D!Claim(k, o)
    PROVE  /\ k # D!Schedule => o = k
           /\ origin'[o] = IF k = D!Schedule THEN D!Schedule ELSE D!Refresh
           /\ origin[o] # Null => origin'[o] = origin[o]
           /\ origin[o] = Null => k = D!Schedule
<1>1. /\ rows[k] # Null
      /\ o = rows[k].occ \/ (rows[k].occ = Null /\ origin[o] = Null)
      /\ origin'[o] = IF origin[o] = Null THEN D!Schedule ELSE origin[o]
  BY ClaimEffect
<1>2. RowOf(k)
  BY DEF Paired
<1>3. CASE k # D!Schedule
  <2>1. rows[k].occ = k /\ k \in Occurrences
    BY <1>1, <1>2, <1>3 DEF RowOf, D!Keys
  <2>2. o = k /\ origin[o] = D!Refresh
    BY <1>1, <1>2, <1>3, <2>1, Names DEF RowOf
  <2>3. QED
    BY <1>1, <1>3, <2>2, Names
<1>4. CASE k = D!Schedule
  BY <1>1, <1>2, <1>4, Names DEF RowOf
<1>5. QED
  BY <1>3, <1>4

LEMMA ClaimPaired ==
    ASSUME D!StoryAssumption, D!TypeOK, Paired, NEW k \in D!Keys, NEW o \in Occurrences,
           D!Claim(k, o)
    PROVE  Paired'
<1>1. /\ rows[k] # Null /\ exec[o] = Null
      /\ rows'[k] = RowRec(rows[k].id, "running", rows[k].attempts + 1, rows[k].skip, o)
      /\ exec'[o] = ExecRec(k, rows[k].id, "waiting", rows[k].skip, {})
      /\ \A p \in Occurrences \ {o} : origin'[p] = origin[p]
      /\ OtherRows(k) /\ OtherExecs(o)
  BY ClaimEffect
<1>2. /\ k # D!Schedule => o = k
      /\ origin'[o] = IF k = D!Schedule THEN D!Schedule ELSE D!Refresh
      /\ origin[o] # Null => origin'[o] = origin[o]
  BY Claimed
<1>3. HandlerOf(o)'
  BY <1>1, <1>2, Names DEF HandlerOf, ExecRec
<1>4. ASSUME NEW p \in Occurrences, p # o PROVE HandlerOf(p)'
  <2>1. HandlerOf(p) /\ exec'[p] = exec[p] /\ origin'[p] = origin[p]
    BY <1>1, <1>4 DEF Paired, OtherExecs
  <2>2. rows[p] = Null => rows'[p] = Null
    BY <1>1, Names DEF OtherRows
  <2>3. QED
    BY <2>1, <2>2 DEF HandlerOf
<1>5. RowOf(k)'
  BY <1>1, <1>2 DEF RowOf, RowRec
<1>6. ASSUME NEW j \in D!Keys, j # k PROVE RowOf(j)'
  <2>1. RowOf(j) /\ rows'[j] = rows[j]
    BY <1>1, <1>6 DEF Paired, OtherRows
  <2>2. ASSUME rows[j] # Null, rows[j].occ # Null PROVE origin'[rows[j].occ] = origin[rows[j].occ]
    <3>1. rows[j].occ \in Occurrences /\ origin[rows[j].occ] # Null
      BY <2>1, <2>2, RowFields, Names DEF D!TypeOK, RowOf
    <3>2. QED
      BY <1>1, <1>2, <3>1
  <2>3. QED
    BY <2>1, <2>2 DEF RowOf
<1>7. QED
  BY <1>3, <1>4, <1>5, <1>6 DEF Paired

LEMMA StartPaired ==
    ASSUME D!StoryAssumption, D!TypeOK, Paired, NEW o \in Occurrences, D!StartRefresh(o)
    PROVE  Paired' /\ rows[o] = Null
<1>1. /\ origin[o] = Null
      /\ exec'[o] = ExecRec(D!Refresh, 0, "waiting", {}, {})
      /\ origin'[o] = D!Refresh
      /\ \A p \in Occurrences \ {o} : origin'[p] = origin[p]
      /\ OtherExecs(o) /\ rows' = rows
  BY StartEffect
<1>2. rows[o] = Null
  BY <1>1, Names DEF Paired, RowOf
<1>3. HandlerOf(o)'
  BY <1>1, <1>2, Names DEF HandlerOf, ExecRec
<1>4. ASSUME NEW p \in Occurrences, p # o PROVE HandlerOf(p)'
  BY <1>1, <1>4 DEF Paired, HandlerOf, OtherExecs
<1>5. ASSUME NEW j \in D!Keys PROVE RowOf(j)'
  <2>1. ASSUME rows[j] # Null, rows[j].occ # Null PROVE origin'[rows[j].occ] = origin[rows[j].occ]
    <3>1. rows[j].occ \in Occurrences /\ origin[rows[j].occ] # Null
      BY <2>1, RowFields, Names DEF D!TypeOK, RowOf, Paired
    <3>2. QED
      BY <1>1, <3>1
  <2>2. QED
    BY <1>1, <2>1 DEF Paired, RowOf
<1>6. QED
  BY <1>2, <1>3, <1>4, <1>5 DEF Paired

\* What the other steps may do to a handler and to a row.
HandlerStays(p) ==
    exec'[p] # Null =>
        /\ exec[p] # Null /\ exec'[p].key = exec[p].key /\ exec'[p].skip = exec[p].skip
        /\ \/ exec'[p].phase = exec[p].phase
           \/ exec'[p].phase \in {"waiting", "locked", "delivered", "nothing"}
           \/ exec'[p].phase = "enqueue" /\ exec[p].key = D!Refresh
           \/ exec'[p].phase \in {"save", "failed"} /\ exec[p].key # D!Refresh

RowStays(j) ==
    rows'[j] # Null =>
        \/ rows[j] # Null /\ rows'[j].occ = rows[j].occ
        \/ j = D!Schedule /\ rows'[j].occ = Null
        \/ j \in Occurrences /\ exec'[j] = Null /\ rows'[j].occ = j /\ origin[j] = D!Refresh

LEMMA PairedKept ==
    ASSUME D!StoryAssumption, D!TypeOK, Paired, origin' = origin,
           \A p \in Occurrences : HandlerStays(p),
           \A j \in D!Keys : RowStays(j)
    PROVE  Paired'
<1>1. ASSUME NEW p \in Occurrences PROVE HandlerOf(p)'
  <2>1. HandlerOf(p) /\ HandlerStays(p) /\ RowStays(p) /\ p # D!Schedule
    BY Names DEF Paired
  <2>2. QED
    BY <2>1 DEF HandlerOf, HandlerStays, RowStays
<1>2. ASSUME NEW j \in D!Keys PROVE RowOf(j)'
  <2>1. RowOf(j) /\ RowStays(j)
    BY DEF Paired
  <2>2. QED
    BY <2>1, Names DEF RowOf, RowStays
<1>3. QED
  BY <1>1, <1>2 DEF Paired

LEMMA WorkPaired ==
    ASSUME D!StoryAssumption, D!TypeOK, Paired, NEW o \in Occurrences,
           D!Work(o) \/ D!StatementFails(o) \/ D!Crash(o)
    PROVE  Paired'
<1>1. HandlerOf(o) /\ \A p \in Occurrences : p # D!Schedule
  BY Names DEF Paired
<1>2. CASE D!LoadContext(o) \/ D!Deliver(o) \/ D!StatementFails(o)
  <2>1. exec[o] # Null /\ OtherExecs(o) /\ UNCHANGED <<rows, origin>>
    BY <1>2, LoadEffect, DeliverEffect, StatementEffect
  <2>2. HandlerStays(o)
    <3>1. CASE D!LoadContext(o)
      <4>1. PICK ph \in {"locked", "nothing"} :
               exec'[o] = ExecRec(exec[o].key, exec[o].id, ph, exec[o].skip, exec[o].ok)
        BY <3>1, LoadEffect
      <4>2. QED
        BY <2>1, <4>1 DEF HandlerStays, ExecRec
    <3>2. CASE D!Deliver(o)
      <4>1. PICK ts :
               \/ exec'[o] = ExecRec(exec[o].key, exec[o].id, "delivered", exec[o].skip, exec[o].ok)
               \/ exec'[o] = ExecRec(exec[o].key, exec[o].id,
                                     IF exec[o].key = D!Refresh THEN "enqueue" ELSE "save", exec[o].skip, ts)
        BY <3>2, DeliverEffect
      <4>2. QED
        BY <2>1, <4>1 DEF HandlerStays, ExecRec
    <3>3. CASE D!StatementFails(o)
      <4>1. \/ /\ exec'[o] = ExecRec(exec[o].key, exec[o].id, "failed", exec[o].skip, exec[o].ok)
               /\ exec[o].phase = "save"
            \/ exec'[o] = Null
        BY <3>3, StatementEffect
      <4>2. QED
        BY <1>1, <2>1, <4>1 DEF HandlerStays, HandlerOf, ExecRec
    <3>4. QED
      BY <1>2, <3>1, <3>2, <3>3
  <2>3. /\ \A p \in Occurrences : HandlerStays(p)
        /\ \A j \in D!Keys : RowStays(j)
    BY <2>1, <2>2 DEF HandlerStays, RowStays, OtherExecs
  <2>4. QED
    BY <2>1, <2>3, PairedKept
<1>3. CASE D!Crash(o)
  <2>1. exec'[o] = Null /\ OtherExecs(o) /\ UNCHANGED <<rows, origin>>
    BY <1>3, CrashEffect
  <2>2. /\ \A p \in Occurrences : HandlerStays(p)
        /\ \A j \in D!Keys : RowStays(j)
    BY <2>1 DEF HandlerStays, RowStays, OtherExecs
  <2>3. QED
    BY <2>1, <2>2, PairedKept
<1>4. CASE D!SaveSkips(o)
  <2>1. /\ exec[o] # Null /\ exec[o].phase = "save"
        /\ exec'[o] = ExecRec(exec[o].key, exec[o].id, "failed", exec[o].skip, exec[o].ok)
        /\ OtherExecs(o) /\ origin' = origin
    BY <1>4, SaveEffect
  <2>2. \A p \in Occurrences : HandlerStays(p)
    BY <1>1, <2>1 DEF HandlerStays, HandlerOf, ExecRec, OtherExecs
  <2>3. CASE D!OwnRow(o)
    <3> PICK k : k = exec[o].key
      OBVIOUS
    <3>1. rows'[k].occ = rows[k].occ /\ rows[k] # Null /\ OtherRows(k)
      <4>1. /\ rows'[k] = RowRec(rows[k].id, rows[k].status, rows[k].attempts,
                                 exec[o].skip \union exec[o].ok, rows[k].occ)
            /\ OtherRows(k)
        BY <1>4, <2>3, SaveEffect
      <4>2. QED
        BY <2>3, <4>1 DEF RowRec, D!OwnRow
    <3>2. \A j \in D!Keys : RowStays(j)
      BY <3>1 DEF RowStays, OtherRows
    <3>3. QED
      BY <2>1, <2>2, <3>2, PairedKept
  <2>4. CASE ~D!OwnRow(o)
    <3>1. \A j \in D!Keys : RowStays(j)
      BY <1>4, <2>4, SaveEffect DEF RowStays
    <3>2. QED
      BY <2>1, <2>2, <3>1, PairedKept
  <2>5. QED
    BY <2>3, <2>4
<1>5. CASE D!EnqueueRetry(o)
  <2>1. /\ exec[o] # Null /\ exec[o].phase = "enqueue"
        /\ rows'[o] = RowRec(0, "pending", 0, exec[o].ok, o)
        /\ OtherRows(o)
        /\ exec'[o] = Null /\ OtherExecs(o) /\ origin' = origin
    BY <1>5, EnqueueEffect
  <2>2. \A p \in Occurrences : HandlerStays(p)
    BY <2>1 DEF HandlerStays, OtherExecs
  <2>3. origin[o] = D!Refresh
    BY <1>1, <2>1, Names DEF HandlerOf
  <2>4. \A j \in D!Keys : RowStays(j)
    BY <2>1, <2>3 DEF RowStays, OtherRows, RowRec
  <2>5. QED
    BY <2>1, <2>2, <2>4, PairedKept
<1>6. CASE D!Succeed(o) \/ D!Fail(o)
  <2>1. exec'[o] = Null /\ OtherExecs(o) /\ origin' = origin
    BY <1>6, SucceedEffect, FailEffect
  <2>2. \A p \in Occurrences : HandlerStays(p)
    BY <2>1 DEF HandlerStays, OtherExecs
  <2>3. CASE D!OwnRow(o)
    <3> PICK k : k = exec[o].key
      OBVIOUS
    <3>1. OtherRows(k) /\ rows[k] # Null
      BY <1>6, <2>3, SucceedEffect, FailEffect DEF D!OwnRow
    <3>2. \/ rows'[k] = Null
          \/ rows'[k].occ = rows[k].occ
          \/ k = D!Schedule /\ rows'[k].occ = Null
      <4>1. CASE D!Succeed(o)
        <5>1. rows'[k] = IF k = D!Schedule THEN RowRec(rows[k].id, "pending", 0, rows[k].skip, Null) ELSE Null
          BY <2>3, <4>1, SucceedEffect
        <5>2. QED
          BY <5>1 DEF RowRec
      <4>2. CASE D!Fail(o)
        <5>1. \/ rows'[k] = RowRec(rows[k].id, "pending", rows[k].attempts, rows[k].skip, rows[k].occ)
              \/ k = D!Schedule /\ rows'[k] = RowRec(rows[k].id, "pending", 0, rows[k].skip, Null)
              \/ rows'[k] = RowRec(rows[k].id, "failed", rows[k].attempts, rows[k].skip, rows[k].occ)
          BY <2>3, <4>2, FailEffect
        <5>2. QED
          BY <5>1 DEF RowRec
      <4>3. QED
        BY <1>6, <4>1, <4>2
    <3>3. \A j \in D!Keys : RowStays(j)
      BY <3>1, <3>2 DEF RowStays, OtherRows
    <3>4. QED
      BY <2>1, <2>2, <3>3, PairedKept
  <2>4. CASE ~D!OwnRow(o)
    <3>1. \A j \in D!Keys : RowStays(j)
      BY <1>6, <2>4, SucceedEffect, FailEffect DEF RowStays
    <3>2. QED
      BY <2>1, <2>2, <3>1, PairedKept
  <2>5. QED
    BY <2>3, <2>4
<1>7. QED
  BY <1>2, <1>3, <1>4, <1>5, <1>6 DEF D!Work

LEMMA ReclaimPaired ==
    ASSUME D!StoryAssumption, D!TypeOK, Paired, NEW k \in D!Keys, D!Reclaim(k)
    PROVE  Paired'
<1>1. /\ rows[k] # Null /\ rows'[k].occ = rows[k].occ /\ OtherRows(k)
      /\ exec' = exec /\ origin' = origin
  <2>1. /\ rows[k] # Null /\ OtherRows(k) /\ exec' = exec /\ origin' = origin
        /\ rows'[k] = RowRec(rows[k].id, "pending", rows[k].attempts, rows[k].skip, rows[k].occ)
    BY ReclaimEffect
  <2>2. QED
    BY <2>1 DEF RowRec
<1>2. /\ \A p \in Occurrences : HandlerStays(p)
      /\ \A j \in D!Keys : RowStays(j)
  BY <1>1 DEF HandlerStays, RowStays, OtherRows
<1>3. QED
  BY <1>1, <1>2, PairedKept

\* A change of the settings touches no handler, and of the rows only the recurring one.
LEMMA EditOutside ==
    ASSUME D!StoryAssumption, D!TypeOK, NEW e \in Editors, D!Edit(e) \/ D!EditStep(e)
    PROVE  /\ UNCHANGED <<exec, origin, sent, done, faults>>
           /\ OtherRows(D!Schedule)
           /\ \/ rows' = rows
              \/ rows'[D!Schedule] = Null
              \/ rows'[D!Schedule].occ = Null
              \/ rows[D!Schedule] # Null /\ rows'[D!Schedule].occ = rows[D!Schedule].occ
<1>1. CASE D!Edit(e)
  BY <1>1 DEF D!Edit, D!SaveDelivery, D!SaveLive, D!Disable, D!jobs, OtherRows
<1>2. CASE D!RereadDelivery(e) \/ D!SetDisabled(e) \/ D!Sync(e) \/ D!LinkJob(e)
  BY <1>2 DEF D!RereadDelivery, D!SetDisabled, D!Sync, D!LinkJob, D!jobs, OtherRows
<1>3. CASE D!WriteJob(e)
  <2>1. /\ UNCHANGED <<exec, origin, sent, done, faults>> /\ OtherRows(D!Schedule)
        /\ \/ rows'[D!Schedule] = RowRec(editing[e].number, "pending", 0, {}, Null)
           \/ rows'[D!Schedule] = RowRec(rows[D!Schedule].id, "pending", 0, {}, Null)
           \/ /\ rows[D!Schedule] # Null
              /\ rows'[D!Schedule] = RowRec(rows[D!Schedule].id, "running", rows[D!Schedule].attempts, {},
                                          rows[D!Schedule].occ)
    BY <1>3, WriteEffect
  <2>2. \/ rows'[D!Schedule].occ = Null
        \/ rows[D!Schedule] # Null /\ rows'[D!Schedule].occ = rows[D!Schedule].occ
    BY <2>1 DEF RowRec
  <2>3. QED
    BY <2>1, <2>2
<1>4. CASE D!DeleteJob(e)
  BY <1>4, DeleteEffect
<1>5. QED
  BY <1>1, <1>2, <1>3, <1>4 DEF D!EditStep

LEMMA EditPaired ==
    ASSUME D!StoryAssumption, D!TypeOK, Paired, NEW e \in Editors, D!Edit(e) \/ D!EditStep(e)
    PROVE  Paired'
<1>1. \A p \in Occurrences : HandlerStays(p)
  BY EditOutside DEF HandlerStays
<1>2. \A j \in D!Keys : RowStays(j)
  BY EditOutside DEF RowStays, OtherRows
<1>3. QED
  BY <1>1, <1>2, EditOutside, PairedKept

LEMMA PairedStep ==
    ASSUME D!StoryAssumption, D!TypeOK, Paired, [D!Next]_(D!vars)
    PROVE  Paired'
<1>1. CASE UNCHANGED D!vars
  BY <1>1 DEF D!vars, Paired, HandlerOf, RowOf
<1>2. CASE D!Next
  BY <1>2, ClaimPaired, StartPaired, WorkPaired, ReclaimPaired, EditPaired DEF D!Next
<1>3. QED
  BY <1>1, <1>2

-----------------------------------------------------------------------------
(* A refresh that ends well has reached everyone *)

\* What the steps that reach nobody do to an occurrence: what it skips was
\* skipped before, or has just been reached.
SkipsStay(p) ==
    /\ p \in done' => p \in done \/ D!At(p, "delivered")
    /\ exec'[p] # Null =>
          /\ exec[p] # Null /\ exec'[p].skip = exec[p].skip /\ exec'[p].ok = exec[p].ok
          /\ exec'[p].phase = "delivered" => exec[p].phase = "delivered"
    /\ rows'[p] # Null =>
          \/ rows[p] # Null /\ rows'[p].skip = rows[p].skip
          \/ exec[p] # Null /\ rows'[p].skip \subseteq exec[p].skip \union exec[p].ok

LEMMA SkipsKept ==
    ASSUME D!StoryAssumption, D!TypeOK, Paired, SkipsSent, NEW p \in Occurrences, SkipsStay(p),
           origin'[p] = origin[p], Reached(p) \subseteq Reached(p)'
    PROVE  SkipsWereSent(p)'
<1>1. SkipsWereSent(p) /\ HandlerOf(p)
  BY DEF SkipsSent, Paired
<1>2. Reached(p)' \subseteq Targets
  BY DEF Reached
<1>3. p \in done' => origin'[p] # Null
  BY <1>1, Names DEF SkipsWereSent, SkipsStay, HandlerOf, D!At
<1>4. ASSUME origin'[p] = D!Refresh
      PROVE  /\ exec'[p] # Null => exec'[p].skip \union exec'[p].ok \subseteq Reached(p)'
             /\ rows'[p] # Null => rows'[p].skip \subseteq Reached(p)'
             /\ D!At(p, "delivered")' \/ p \in done' => Reached(p)' = Targets
  <2>1. /\ exec[p] # Null => exec[p].skip \union exec[p].ok \subseteq Reached(p)
        /\ rows[p] # Null => rows[p].skip \subseteq Reached(p)
        /\ D!At(p, "delivered") \/ p \in done => Reached(p) = Targets
    BY <1>1, <1>4 DEF SkipsWereSent
  <2>2. exec'[p] # Null => exec'[p].skip \union exec'[p].ok \subseteq Reached(p)'
    BY <2>1 DEF SkipsStay
  <2>3. rows'[p] # Null => rows'[p].skip \subseteq Reached(p)'
    BY <2>1 DEF SkipsStay
  <2>4. D!At(p, "delivered")' \/ p \in done' => D!At(p, "delivered") \/ p \in done
    BY DEF SkipsStay, D!At
  <2>5. QED
    BY <1>2, <2>1, <2>2, <2>3, <2>4
<1>5. QED
  BY <1>3, <1>4 DEF SkipsWereSent

LEMMA ClaimSent ==
    ASSUME D!StoryAssumption, D!TypeOK, Paired, SkipsSent, NEW k \in D!Keys, NEW o \in Occurrences,
           D!Claim(k, o)
    PROVE  SkipsSent'
<1>1. /\ rows[k] \in D!Row /\ rows[k] # Null /\ exec[o] = Null
      /\ rows'[k] = RowRec(rows[k].id, "running", rows[k].attempts + 1, rows[k].skip, o)
      /\ exec'[o] = ExecRec(k, rows[k].id, "waiting", rows[k].skip, {})
      /\ \A p \in Occurrences \ {o} : origin'[p] = origin[p]
      /\ OtherRows(k) /\ OtherExecs(o)
      /\ UNCHANGED <<sent, done>>
  BY ClaimEffect
<1>2. /\ k # D!Schedule => o = k
      /\ origin'[o] = IF k = D!Schedule THEN D!Schedule ELSE D!Refresh
      /\ origin[o] # Null => origin'[o] = origin[o]
      /\ origin[o] = Null => k = D!Schedule
  BY Claimed
<1>3. \A j \in D!Keys : rows'[j] # Null => rows[j] # Null /\ rows'[j].skip = rows[j].skip
  BY <1>1 DEF OtherRows, RowRec
<1>4. \A p \in Occurrences : Reached(p)' = Reached(p)
  BY <1>1 DEF Reached
<1>5. ASSUME NEW p \in Occurrences, p # o PROVE SkipsWereSent(p)'
  <2>1. SkipsStay(p)
    BY <1>1, <1>3, <1>5, Names DEF SkipsStay, OtherExecs
  <2>2. QED
    BY <1>1, <1>4, <1>5, <2>1, SkipsKept
<1>6. SkipsWereSent(o)'
  <2>1. SkipsWereSent(o)
    BY DEF SkipsSent
  <2>2. o \in done' => origin'[o] # Null
    BY <1>2, Names
  <2>3. ASSUME origin'[o] = D!Refresh
        PROVE  /\ exec'[o].skip \union exec'[o].ok \subseteq Reached(o)'
               /\ rows'[o] # Null => rows'[o].skip \subseteq Reached(o)'
               /\ D!At(o, "delivered")' \/ o \in done' => Reached(o)' = Targets
    <3>1. o = k /\ origin[o] = D!Refresh
      BY <1>2, <2>3, Names
    <3>2. rows[o].skip \subseteq Reached(o) /\ (o \in done => Reached(o) = Targets)
      BY <1>1, <2>1, <3>1 DEF SkipsWereSent
    <3>3. exec'[o].skip = rows[k].skip /\ exec'[o].ok = {} /\ exec'[o].phase = "waiting"
      BY <1>1 DEF ExecRec
    <3>4. QED
      BY <1>1, <1>3, <1>4, <3>1, <3>2, <3>3 DEF D!At
  <2>4. QED
    BY <2>2, <2>3 DEF SkipsWereSent
<1>7. QED
  BY <1>5, <1>6 DEF SkipsSent

LEMMA StartSent ==
    ASSUME D!StoryAssumption, D!TypeOK, Paired, SkipsSent, NEW o \in Occurrences, D!StartRefresh(o)
    PROVE  SkipsSent'
<1>1. /\ origin[o] = Null
      /\ exec'[o] = ExecRec(D!Refresh, 0, "waiting", {}, {})
      /\ \A p \in Occurrences \ {o} : origin'[p] = origin[p]
      /\ OtherExecs(o) /\ origin'[o] = D!Refresh
      /\ UNCHANGED <<rows, sent, done>>
  BY StartEffect
<1>2. \A p \in Occurrences : Reached(p)' = Reached(p)
  BY <1>1 DEF Reached
<1>3. ASSUME NEW p \in Occurrences, p # o PROVE SkipsWereSent(p)'
  <2>1. SkipsStay(p)
    BY <1>1, <1>3 DEF SkipsStay, OtherExecs
  <2>2. QED
    BY <1>1, <1>2, <1>3, <2>1, SkipsKept
<1>4. SkipsWereSent(o)'
  <2>1. o \notin done'
    BY <1>1 DEF SkipsSent, SkipsWereSent
  <2>2. rows'[o] = Null
    BY <1>1, StartPaired
  <2>3. exec'[o].skip = {} /\ exec'[o].ok = {} /\ exec'[o].phase = "waiting"
    BY <1>1 DEF ExecRec
  <2>4. QED
    BY <2>1, <2>2, <2>3 DEF SkipsWereSent, D!At
<1>5. QED
  BY <1>3, <1>4 DEF SkipsSent

LEMMA DeliverSent ==
    ASSUME D!StoryAssumption, D!TypeOK, Paired, SkipsSent, NEW o \in Occurrences, D!Deliver(o)
    PROVE  SkipsSent'
<1>1. /\ exec[o] \in D!Exec /\ exec[o] # Null /\ exec[o].phase = "locked"
      /\ \A p \in Occurrences \ {o} : sent'[p] = sent[p]
      /\ OtherExecs(o)
      /\ UNCHANGED <<rows, origin, done>>
  BY DeliverEffect
<1>2. PICK ts \in SUBSET (Targets \ exec[o].skip) :
         /\ \A t \in Targets : sent'[o][t] = IF t \in ts THEN sent[o][t] + 1 ELSE sent[o][t]
         /\ \/ /\ ts = Targets \ exec[o].skip
               /\ exec'[o] = ExecRec(exec[o].key, exec[o].id, "delivered", exec[o].skip, exec[o].ok)
            \/ exec'[o] = ExecRec(exec[o].key, exec[o].id,
                                  IF exec[o].key = D!Refresh THEN "enqueue" ELSE "save", exec[o].skip, ts)
  BY DeliverEffect
<1>3. Reached(o) \subseteq Reached(o)' /\ ts \subseteq Reached(o)'
  <2>1. \A t \in Targets : sent[o][t] \in Nat
    BY DEF D!TypeOK
  <2>2. QED
    BY <1>2, <2>1 DEF Reached
<1>4. ASSUME NEW p \in Occurrences, p # o PROVE SkipsWereSent(p)'
  <2>1. SkipsStay(p) /\ Reached(p)' = Reached(p)
    BY <1>1, <1>4 DEF SkipsStay, OtherExecs, Reached
  <2>2. QED
    BY <1>1, <1>4, <2>1, SkipsKept
<1>5. SkipsWereSent(o)'
  <2>1. SkipsWereSent(o)
    BY DEF SkipsSent
  <2>2. ASSUME origin[o] = D!Refresh
        PROVE  /\ exec'[o].skip \union exec'[o].ok \subseteq Reached(o)'
               /\ rows[o] # Null => rows[o].skip \subseteq Reached(o)'
               /\ exec'[o].phase = "delivered" \/ o \in done => Reached(o)' = Targets
    <3>1. /\ exec[o].skip \union exec[o].ok \subseteq Reached(o)
          /\ rows[o] # Null => rows[o].skip \subseteq Reached(o)
          /\ o \in done => Reached(o) = Targets
      BY <1>1, <2>1, <2>2 DEF SkipsWereSent
    <3>2. Reached(o)' \subseteq Targets
      BY DEF Reached
    <3>3. \/ /\ exec'[o].skip = exec[o].skip /\ exec'[o].ok = exec[o].ok
             /\ ts = Targets \ exec[o].skip
          \/ /\ exec'[o].skip = exec[o].skip /\ exec'[o].ok = ts /\ exec'[o].phase # "delivered"
      BY <1>2 DEF ExecRec
    <3>4. QED
      BY <1>3, <3>1, <3>2, <3>3
  <2>3. QED
    BY <1>1, <2>1, <2>2 DEF SkipsWereSent, D!At
<1>6. QED
  BY <1>4, <1>5 DEF SkipsSent

LEMMA WorkSent ==
    ASSUME D!StoryAssumption, D!TypeOK, Paired, SkipsSent, NEW o \in Occurrences,
           D!Work(o) \/ D!StatementFails(o) \/ D!Crash(o), ~D!Deliver(o)
    PROVE  SkipsSent'
<1>1. UNCHANGED <<origin, sent>>
  BY DEF D!Work, D!LoadContext, D!SaveSkips, D!EnqueueRetry, D!Succeed, D!Fail, D!StatementFails,
     D!Crash
<1>2. OtherExecs(o)
  BY LoadEffect, SaveEffect, EnqueueEffect, SucceedEffect, FailEffect, StatementEffect, CrashEffect
     DEF D!Work
<1>3. exec'[o] # Null =>
         /\ exec[o] # Null /\ exec'[o].skip = exec[o].skip /\ exec'[o].ok = exec[o].ok
         /\ exec'[o].phase # "delivered"
  <2>1. CASE D!LoadContext(o)
    <3>1. exec[o] # Null /\ \E ph \in {"locked", "nothing"} :
             exec'[o] = ExecRec(exec[o].key, exec[o].id, ph, exec[o].skip, exec[o].ok)
      BY <2>1, LoadEffect
    <3>2. QED
      BY <3>1 DEF ExecRec
  <2>2. CASE D!SaveSkips(o) \/ D!StatementFails(o)
    <3>1. exec'[o] # Null => exec[o] # Null /\ exec'[o] = ExecRec(exec[o].key, exec[o].id, "failed", exec[o].skip, exec[o].ok)
      BY <2>2, SaveEffect, StatementEffect
    <3>2. QED
      BY <3>1 DEF ExecRec
  <2>3. CASE D!EnqueueRetry(o) \/ D!Succeed(o) \/ D!Fail(o) \/ D!Crash(o)
    BY <2>3, EnqueueEffect, SucceedEffect, FailEffect, CrashEffect
  <2>4. QED
    BY <2>1, <2>2, <2>3 DEF D!Work
<1>4. \A p \in Occurrences : p \in done' => p \in done \/ D!At(p, "delivered")
  <2>1. CASE D!Succeed(o)
    BY <2>1, SucceedEffect DEF D!At
  <2>2. CASE ~D!Succeed(o)
    <3>1. done' = done
      BY <2>2 DEF D!Work, D!LoadContext, D!SaveSkips, D!EnqueueRetry, D!Fail, D!StatementFails,
         D!Crash
    <3>2. QED
      BY <3>1
  <2>3. QED
    BY <2>1, <2>2
<1>5. ASSUME NEW p \in Occurrences, rows'[p] # Null
      PROVE  \/ rows[p] # Null /\ rows'[p].skip = rows[p].skip
             \/ exec[p] # Null /\ rows'[p].skip \subseteq exec[p].skip \union exec[p].ok
  <2>1. HandlerOf(o) /\ p # D!Schedule /\ p # D!Refresh /\ p \in D!Keys
    BY Names DEF Paired
  <2>2. CASE rows' = rows
    BY <1>5, <2>2
  <2>3. CASE D!EnqueueRetry(o)
    <3>1. /\ exec[o] # Null /\ rows'[o] = RowRec(0, "pending", 0, exec[o].ok, o) /\ OtherRows(o)
      BY <2>3, EnqueueEffect
    <3>2. CASE p = o
      BY <3>1, <3>2 DEF RowRec
    <3>3. CASE p # o
      BY <1>5, <2>1, <3>1, <3>3 DEF OtherRows
    <3>4. QED
      BY <3>2, <3>3
  <2>4. CASE D!OwnRow(o) /\ (D!SaveSkips(o) \/ D!Succeed(o) \/ D!Fail(o))
    <3> PICK k : k = exec[o].key
      OBVIOUS
    <3>1. exec[o] # Null /\ OtherRows(k) /\ rows[k] # Null
      BY <2>4, SaveEffect, SucceedEffect, FailEffect DEF D!OwnRow
    <3>2. CASE p # k
      BY <1>5, <2>1, <3>1, <3>2 DEF OtherRows
    <3>3. CASE p = k
      <4>1. p = o
        BY <2>1, <3>1, <3>3 DEF HandlerOf
      <4>2. CASE D!SaveSkips(o)
        <5>1. rows'[k] = RowRec(rows[k].id, rows[k].status, rows[k].attempts,
                                exec[o].skip \union exec[o].ok, rows[k].occ)
          BY <2>4, <4>2, SaveEffect
        <5>2. QED
          BY <3>1, <3>3, <4>1, <5>1 DEF RowRec
      <4>3. CASE D!Succeed(o)
        BY <1>5, <2>1, <2>4, <3>3, <4>3, SucceedEffect
      <4>4. CASE D!Fail(o)
        <5>1. \/ rows'[k] = RowRec(rows[k].id, "pending", rows[k].attempts, rows[k].skip, rows[k].occ)
              \/ rows'[k] = RowRec(rows[k].id, "failed", rows[k].attempts, rows[k].skip, rows[k].occ)
          BY <2>1, <2>4, <3>3, <4>4, FailEffect
        <5>2. QED
          BY <3>1, <3>3, <5>1 DEF RowRec
      <4>5. QED
        BY <2>4, <4>2, <4>3, <4>4
    <3>4. QED
      BY <3>2, <3>3
  <2>5. CASE ~D!OwnRow(o) /\ (D!SaveSkips(o) \/ D!Succeed(o) \/ D!Fail(o))
    BY <2>2, <2>5, SaveEffect, SucceedEffect, FailEffect
  <2>6. CASE D!LoadContext(o) \/ D!StatementFails(o) \/ D!Crash(o)
    BY <2>2, <2>6, LoadEffect, StatementEffect, CrashEffect
  <2>7. QED
    BY <2>3, <2>4, <2>5, <2>6 DEF D!Work
<1>6. ASSUME NEW p \in Occurrences PROVE SkipsWereSent(p)'
  <2>1. exec'[p] # Null =>
           /\ exec[p] # Null /\ exec'[p].skip = exec[p].skip /\ exec'[p].ok = exec[p].ok
           /\ exec'[p].phase = "delivered" => exec[p].phase = "delivered"
    BY <1>2, <1>3 DEF OtherExecs
  <2>2. SkipsStay(p)
    BY <1>4, <1>5, <2>1 DEF SkipsStay
  <2>3. Reached(p) \subseteq Reached(p)' /\ origin'[p] = origin[p]
    BY <1>1 DEF Reached
  <2>4. QED
    BY <2>2, <2>3, SkipsKept
<1>7. QED
  BY <1>6 DEF SkipsSent

LEMMA SentStep ==
    ASSUME D!StoryAssumption, D!TypeOK, Paired, SkipsSent, [D!Next]_(D!vars)
    PROVE  SkipsSent'
<1>1. CASE UNCHANGED D!vars
  BY <1>1 DEF D!vars, SkipsSent, SkipsWereSent, Reached, D!At
<1>2. ASSUME UNCHANGED <<exec, origin, sent, done>>,
             \A p \in Occurrences : rows'[p] # Null => rows[p] # Null /\ rows'[p].skip = rows[p].skip
      PROVE  SkipsSent'
  <2>1. ASSUME NEW p \in Occurrences PROVE SkipsWereSent(p)'
    <3>1. SkipsStay(p) /\ Reached(p)' = Reached(p) /\ origin'[p] = origin[p]
      BY <1>2 DEF SkipsStay, Reached
    <3>2. QED
      BY <3>1, SkipsKept
  <2>2. QED
    BY <2>1 DEF SkipsSent
<1>3. ASSUME NEW k \in D!Keys, D!Reclaim(k) PROVE SkipsSent'
  <2>1. /\ rows'[k] = RowRec(rows[k].id, "pending", rows[k].attempts, rows[k].skip, rows[k].occ)
        /\ OtherRows(k) /\ rows[k] # Null
        /\ UNCHANGED <<exec, origin, sent, done>>
    BY <1>3, ReclaimEffect
  <2>2. \A p \in Occurrences : rows'[p] # Null => rows[p] # Null /\ rows'[p].skip = rows[p].skip
    BY <2>1, Names DEF OtherRows, RowRec
  <2>3. QED
    BY <1>2, <2>1, <2>2
<1>4. ASSUME NEW e \in Editors, D!Edit(e) \/ D!EditStep(e) PROVE SkipsSent'
  <2>1. OtherRows(D!Schedule) /\ UNCHANGED <<exec, origin, sent, done>>
    BY <1>4, EditOutside
  <2>2. \A p \in Occurrences : rows'[p] = rows[p]
    BY <2>1, Names DEF OtherRows
  <2>3. QED
    BY <1>2, <2>1, <2>2
<1>5. CASE D!Next
  BY <1>3, <1>4, <1>5, ClaimSent, StartSent, DeliverSent, WorkSent DEF D!Next
<1>6. QED
  BY <1>1, <1>5

-----------------------------------------------------------------------------
(* Nobody is reached twice *)

\* A handler and its row, as the steps of other handlers leave them.
LEMMA OwnsKept ==
    ASSUME HandlersOwnRows, NEW p \in Occurrences, exec'[p] = exec[p],
           exec[p] # Null /\ exec[p].key # D!Refresh => rows'[exec[p].key] = rows[exec[p].key]
    PROVE  HandlerOwns(p)'
  BY DEF HandlersOwnRows, HandlerOwns

LEMMA HandledKept ==
    ASSUME D!StoryAssumption, D!TypeOK, HandlersOwnRows, NEW j \in D!Keys, NEW o \in Occurrences,
           rows'[j] = rows[j], OtherExecs(o),
           exec[o] = Null \/ exec[o].key # j \/ (exec'[o] # Null /\ exec'[o].key = exec[o].key)
    PROVE  RowIsHandled(j)'
<1>1. RowIsHandled(j)
  BY DEF HandlersOwnRows
<1>2. ASSUME rows[j] # Null, rows[j].status = "running"
      PROVE  exec'[rows[j].occ] # Null /\ exec'[rows[j].occ].key = j
  <2>1. rows[j].occ # Null /\ exec[rows[j].occ] # Null /\ exec[rows[j].occ].key = j
    BY <1>1, <1>2 DEF RowIsHandled
  <2>2. rows[j].occ \in Occurrences
    BY <1>2, <2>1, RowFields DEF D!TypeOK
  <2>3. QED
    BY <2>1, <2>2 DEF OtherExecs
<1>3. QED
  BY <1>1, <1>2 DEF RowIsHandled

\* Two handlers never share a row.
LEMMA OneHandler ==
    ASSUME HandlersOwnRows, NEW o \in Occurrences, NEW p \in Occurrences, exec[o] # Null,
           exec[p] # Null,
           exec[o].key = exec[p].key, exec[o].key # D!Refresh
    PROVE  o = p
<1>1. HandlerOwns(o) /\ HandlerOwns(p)
  BY DEF HandlersOwnRows
<1>2. QED
  BY <1>1 DEF HandlerOwns

LEMMA ClaimOwns ==
    ASSUME D!StoryAssumption, Typed, Paired, HandlersOwnRows, NEW k \in D!Keys,
           NEW o \in Occurrences, D!Claim(k, o)
    PROVE  HandlersOwnRows'
<1> D!TypeOK
  BY DEF Typed
<1>1. /\ rows[k] # Null /\ rows[k].status = "pending" /\ exec[o] = Null
      /\ rows'[k] = RowRec(rows[k].id, "running", rows[k].attempts + 1, rows[k].skip, o)
      /\ exec'[o] = ExecRec(k, rows[k].id, "waiting", rows[k].skip, {})
      /\ rows'[k] # Null
      /\ exec'[o] # Null
      /\ OtherRows(k) /\ OtherExecs(o)
  BY ClaimEffect, ClaimTyped, Names
<1>2. HandlerOwns(o)'
  BY <1>1 DEF HandlerOwns, RowRec, ExecRec
<1>3. ASSUME NEW p \in Occurrences, p # o PROVE HandlerOwns(p)'
  <2>1. exec'[p] = exec[p] /\ HandlerOwns(p) /\ HandlerOf(p)
    BY <1>1, <1>3 DEF OtherExecs, HandlersOwnRows, Paired
  <2>2. ASSUME exec[p] # Null, exec[p].key # D!Refresh PROVE rows'[exec[p].key] = rows[exec[p].key]
    <3>1. exec[p].key \in D!Keys
      BY <2>1, <2>2, Names DEF HandlerOf
    <3>2. exec[p].key # k
      BY <1>1, <2>1, <2>2 DEF HandlerOwns
    <3>3. QED
      BY <1>1, <3>1, <3>2 DEF OtherRows
  <2>3. QED
    BY <2>1, <2>2, OwnsKept
<1>4. RowIsHandled(k)'
  BY <1>1, Names DEF RowIsHandled, RowRec, ExecRec
<1>5. ASSUME NEW j \in D!Keys, j # k PROVE RowIsHandled(j)'
  BY <1>1, <1>5, HandledKept DEF OtherRows
<1>6. QED
  BY <1>2, <1>3, <1>4, <1>5 DEF HandlersOwnRows

\* A step that moves a handler on, and may write its row's payload.
LEMMA MoveOwns ==
    ASSUME D!StoryAssumption, D!TypeOK, Paired, HandlersOwnRows, NEW o \in Occurrences,
           D!StartRefresh(o) \/ D!LoadContext(o) \/ D!Deliver(o) \/ D!SaveSkips(o)
    PROVE  HandlersOwnRows'
<1>1. \A p \in Occurrences : HandlerOf(p) /\ HandlerOwns(p)
  BY DEF Paired, HandlersOwnRows
<1>2. OtherExecs(o)
  BY StartEffect, LoadEffect, DeliverEffect, SaveEffect
<1>3. \/ exec[o] = Null /\ exec'[o].key = D!Refresh
      \/ /\ exec[o] # Null /\ exec'[o] # Null
         /\ exec'[o].key = exec[o].key /\ exec'[o].id = exec[o].id
  <2>1. CASE D!StartRefresh(o)
    <3>1. origin[o] = Null /\ exec'[o] = ExecRec(D!Refresh, 0, "waiting", {}, {})
      BY <2>1, StartEffect
    <3>2. exec[o] = Null
      BY <1>1, <3>1, Names DEF HandlerOf
    <3>3. QED
      BY <3>1, <3>2 DEF ExecRec
  <2>2. CASE D!LoadContext(o) \/ D!Deliver(o) \/ D!SaveSkips(o)
    BY <2>2, Moved
  <2>3. QED
    BY <2>1, <2>2
<1>4. \A j \in D!Keys :
         \/ rows'[j] = rows[j]
         \/ /\ rows[j] # Null /\ rows'[j] # Null
            /\ rows'[j].id = rows[j].id /\ rows'[j].status = rows[j].status /\ rows'[j].occ = rows[j].occ
  <2>1. CASE D!StartRefresh(o) \/ D!LoadContext(o) \/ D!Deliver(o) \/ (D!SaveSkips(o) /\ ~D!OwnRow(o))
    BY <2>1, StartEffect, LoadEffect, DeliverEffect, SaveEffect
  <2>2. CASE D!SaveSkips(o) /\ D!OwnRow(o)
    <3> PICK k : k = exec[o].key
      OBVIOUS
    <3>1. /\ k \in D!Keys /\ rows[k] \in D!Row /\ exec[o] \in D!Exec
          /\ rows'[k] = RowRec(rows[k].id, rows[k].status, rows[k].attempts,
                               exec[o].skip \union exec[o].ok, rows[k].occ)
          /\ OtherRows(k)
      BY <2>2, SaveEffect
    <3>2. rows'[k] \in D!Row
      <4>1. exec[o].phase = "save" /\ ~D!Succeed(o)
        BY <2>2, SaveEffect, SucceedEffect
      <4>2. QED
        BY <2>2, <4>1, RowWritten
    <3>3. QED
      BY <3>1, <3>2, Names DEF OtherRows, RowRec
  <2>3. QED
    BY <2>1, <2>2
<1>5. ASSUME NEW p \in Occurrences PROVE HandlerOwns(p)'
  <2>1. exec'[p] # Null /\ exec'[p].key # D!Refresh =>
           exec[p] # Null /\ exec'[p].key = exec[p].key /\ exec'[p].id = exec[p].id
    BY <1>2, <1>3 DEF OtherExecs
  <2>2. exec[p] # Null /\ exec[p].key # D!Refresh => exec[p].key \in D!Keys
    BY <1>1, Names DEF HandlerOf
  <2>3. QED
    BY <1>1, <1>4, <2>1, <2>2 DEF HandlerOwns
<1>6. ASSUME NEW j \in D!Keys PROVE RowIsHandled(j)'
  <2>1. RowIsHandled(j)
    BY DEF HandlersOwnRows
  <2>2. ASSUME rows[j] # Null, rows[j].status = "running"
        PROVE  rows[j].occ # Null /\ exec'[rows[j].occ] # Null /\ exec'[rows[j].occ].key = j
    <3>1. rows[j].occ # Null /\ exec[rows[j].occ] # Null /\ exec[rows[j].occ].key = j
      BY <2>1, <2>2 DEF RowIsHandled
    <3>2. rows[j].occ \in Occurrences
      BY <2>2, <3>1, RowFields DEF D!TypeOK
    <3>3. QED
      BY <1>2, <1>3, <3>1, <3>2, Names DEF OtherExecs
  <2>3. QED
    BY <1>4, <2>2 DEF RowIsHandled
<1>7. QED
  BY <1>5, <1>6 DEF HandlersOwnRows

\* A step that ends a handler, and gives its row back.
LEMMA EndOwns ==
    ASSUME D!StoryAssumption, D!TypeOK, Paired, HandlersOwnRows, NEW o \in Occurrences,
           D!EnqueueRetry(o) \/ D!Succeed(o) \/ D!Fail(o)
    PROVE  HandlersOwnRows'
<1>1. \A p \in Occurrences : HandlerOf(p) /\ HandlerOwns(p)
  BY DEF Paired, HandlersOwnRows
<1>2. exec[o] # Null /\ exec'[o] = Null /\ OtherExecs(o)
  BY EnqueueEffect, SucceedEffect, FailEffect
<1>3. ASSUME NEW k \in D!Keys, OtherRows(k), rows'[k] = Null \/ rows'[k].status # "running",
             exec[o].key = k \/ (exec[o].key = D!Refresh /\ k = o)
      PROVE  HandlersOwnRows'
  <2>1. ASSUME NEW p \in Occurrences PROVE HandlerOwns(p)'
    <3>1. CASE p = o
      BY <1>2, <3>1 DEF HandlerOwns
    <3>2. CASE p # o
      <4>1. exec'[p] = exec[p]
        BY <1>2, <3>2 DEF OtherExecs
      <4>2. ASSUME exec[p] # Null, exec[p].key # D!Refresh PROVE exec[p].key \in D!Keys \ {k}
        <5>1. exec[p].key \in {D!Schedule, p}
          BY <1>1, <4>2 DEF HandlerOf
        <5>2. exec[p].key # k
          BY <1>2, <1>3, <3>2, <4>2, <5>1, OneHandler, Names
        <5>3. QED
          BY <5>1, <5>2, Names
      <4>3. QED
        BY <1>3, <4>1, <4>2, OwnsKept DEF OtherRows
    <3>3. QED
      BY <3>1, <3>2
  <2>2. RowIsHandled(k)'
    BY <1>3 DEF RowIsHandled
  <2>3. ASSUME NEW j \in D!Keys, j # k PROVE RowIsHandled(j)'
    <3>1. exec[o].key # j
      BY <1>3, <2>3, Names
    <3>2. rows'[j] = rows[j]
      BY <1>3, <2>3 DEF OtherRows
    <3>3. QED
      BY <1>2, <3>1, <3>2, HandledKept
  <2>4. QED
    BY <2>1, <2>2, <2>3 DEF HandlersOwnRows
<1>4. CASE D!EnqueueRetry(o)
  <2>1. /\ exec[o].phase = "enqueue" /\ OtherRows(o)
        /\ rows'[o] = RowRec(0, "pending", 0, exec[o].ok, o)
    BY <1>4, EnqueueEffect
  <2>2. exec[o].key = D!Refresh /\ o \in D!Keys /\ rows'[o].status # "running"
    BY <1>1, <1>2, <2>1, Names DEF HandlerOf, RowRec
  <2>3. QED
    BY <1>3, <2>1, <2>2
<1>5. CASE (D!Succeed(o) \/ D!Fail(o)) /\ exec[o].key # D!Refresh
  <2> PICK k : k = exec[o].key
    OBVIOUS
  <2>1. D!OwnRow(o) /\ k \in D!Keys
    BY <1>1, <1>2, <1>5, Names DEF HandlerOwns, HandlerOf, D!OwnRow
  <2>2. OtherRows(k)
    BY <1>5, <2>1, SucceedEffect, FailEffect
  <2>3. rows'[k] = Null \/ rows'[k].status # "running"
    <3>1. CASE D!Succeed(o)
      <4>1. rows'[k] = IF k = D!Schedule THEN RowRec(rows[k].id, "pending", 0, rows[k].skip, Null) ELSE Null
        BY <2>1, <3>1, SucceedEffect
      <4>2. QED
        BY <4>1 DEF RowRec
    <3>2. CASE D!Fail(o)
      <4>1. \/ rows'[k] = RowRec(rows[k].id, "pending", rows[k].attempts, rows[k].skip, rows[k].occ)
            \/ rows'[k] = RowRec(rows[k].id, "pending", 0, rows[k].skip, Null)
            \/ rows'[k] = RowRec(rows[k].id, "failed", rows[k].attempts, rows[k].skip, rows[k].occ)
        BY <2>1, <3>2, FailEffect
      <4>2. QED
        BY <4>1 DEF RowRec
    <3>3. QED
      BY <1>5, <3>1, <3>2
  <2>4. QED
    BY <1>3, <2>1, <2>2, <2>3
<1>6. CASE (D!Succeed(o) \/ D!Fail(o)) /\ exec[o].key = D!Refresh
  <2>1. rows' = rows
    BY <1>6, SucceedEffect, FailEffect DEF D!OwnRow
  <2>2. ASSUME NEW p \in Occurrences PROVE HandlerOwns(p)'
    <3>1. CASE p = o
      BY <1>2, <3>1 DEF HandlerOwns
    <3>2. CASE p # o
      BY <1>2, <2>1, <3>2, OwnsKept DEF OtherExecs
    <3>3. QED
      BY <3>1, <3>2
  <2>3. ASSUME NEW j \in D!Keys PROVE RowIsHandled(j)'
    BY <1>2, <1>6, <2>1, HandledKept, Names
  <2>4. QED
    BY <2>2, <2>3 DEF HandlersOwnRows
<1>7. QED
  BY <1>4, <1>5, <1>6

\* Without a crash no row is left to be reclaimed.
LEMMA NoReclaim ==
    ASSUME D!StoryAssumption, D!TypeOK, HandlersOwnRows, NEW k \in D!Keys
    PROVE  ~D!Reclaim(k)
<1> SUFFICES ASSUME D!Reclaim(k) PROVE FALSE
  OBVIOUS
<1>1. rows[k] \in D!Row /\ rows[k] # Null /\ rows[k].status = "running" /\ ~D!ExecutedBy(k)
  BY ReclaimEffect
<1>2. RowIsHandled(k)
  BY DEF HandlersOwnRows
<1>3. PICK o \in Occurrences : o = rows[k].occ /\ exec[o] # Null /\ exec[o].key = k
  BY <1>1, <1>2, RowFields DEF RowIsHandled
<1>4. HandlerOwns(o) /\ k # D!Refresh
  BY Names DEF HandlersOwnRows
<1>5. QED
  BY <1>1, <1>3, <1>4 DEF HandlerOwns, D!ExecutedBy

\* The first change of the settings meets no job.
LEMMA EditOwns ==
    ASSUME D!StoryAssumption, D!TypeOK, Paired, HandlersOwnRows, FirstEdit, NEW e \in Editors,
           D!Edit(e) \/ D!EditStep(e)
    PROVE  HandlersOwnRows' /\ ~D!DeleteJob(e) /\ (D!WriteJob(e) => rows[D!Schedule] = Null)
<1>1. ~D!DeleteJob(e)
  BY DeleteEffect DEF FirstEdit
<1>2. D!WriteJob(e) => rows[D!Schedule] = Null
  BY WriteEffect DEF FirstEdit
<1>3. exec' = exec /\ OtherRows(D!Schedule)
  BY EditOutside
<1>4. CASE D!WriteJob(e)
  <2>1. rows[D!Schedule] = Null
    BY <1>2, <1>4
  <2>2. rows'[D!Schedule] = RowRec(editing[e].number, "pending", 0, {}, Null)
    BY <1>4, <2>1, WriteEffect
  <2>3. ASSUME NEW p \in Occurrences PROVE HandlerOwns(p)'
    <3>1. HandlerOwns(p) /\ HandlerOf(p)
      BY DEF HandlersOwnRows, Paired
    <3>2. ASSUME exec[p] # Null, exec[p].key # D!Refresh PROVE exec[p].key \in D!Keys \ {D!Schedule}
      BY <2>1, <3>1, <3>2, Names DEF HandlerOwns, HandlerOf
    <3>3. QED
      BY <1>3, <3>2, OwnsKept DEF OtherRows
  <2>4. RowIsHandled(D!Schedule)'
    BY <2>2 DEF RowIsHandled, RowRec
  <2>5. ASSUME NEW j \in D!Keys, j # D!Schedule PROVE RowIsHandled(j)'
    BY <1>3, <2>5 DEF HandlersOwnRows, RowIsHandled, OtherRows
  <2>6. QED
    BY <1>1, <1>2, <2>3, <2>4, <2>5 DEF HandlersOwnRows
<1>5. CASE ~D!WriteJob(e)
  <2>1. rows' = rows
    BY <1>1, <1>5 DEF D!Edit, D!EditStep, D!SaveDelivery, D!SaveLive, D!Disable, D!RereadDelivery,
       D!SetDisabled, D!Sync, D!LinkJob
  <2>2. QED
    BY <1>1, <1>2, <1>3, <2>1 DEF HandlersOwnRows, HandlerOwns, RowIsHandled
<1>6. QED
  BY <1>4, <1>5

\* The jobs leave the settings alone, and neither make nor delete the recurring row.
LEMMA JobsOutside ==
    ASSUME D!StoryAssumption, Typed, Paired, D!Next, ~\E e \in Editors : D!Edit(e) \/ D!EditStep(e)
    PROVE  /\ UNCHANGED <<story, delivery, editing, edits, overlap>>
           /\ rows[D!Schedule] = Null => rows'[D!Schedule] = Null
           /\ rows[D!Schedule] # Null => rows'[D!Schedule] # Null /\ rows'[D!Schedule].id = rows[D!Schedule].id
<1> D!TypeOK
  BY DEF Typed
<1>1. ASSUME NEW k \in D!Keys, NEW o \in Occurrences, D!Claim(k, o)
      PROVE  /\ UNCHANGED <<story, delivery, editing, edits, overlap>>
             /\ rows[D!Schedule] = Null => rows'[D!Schedule] = Null
             /\ rows[D!Schedule] # Null => rows'[D!Schedule] # Null /\ rows'[D!Schedule].id = rows[D!Schedule].id
  <2>1. /\ rows[k] # Null /\ OtherRows(k)
        /\ rows'[k] = RowRec(rows[k].id, "running", rows[k].attempts + 1, rows[k].skip, o)
        /\ UNCHANGED <<story, delivery, editing, edits, overlap>>
    BY <1>1, ClaimEffect
  <2>2. rows'[k] # Null
    BY <1>1, ClaimTyped, Names
  <2>3. QED
    BY <2>1, <2>2, Names DEF OtherRows, RowRec
<1>2. ASSUME NEW k \in D!Keys, D!Reclaim(k)
      PROVE  /\ UNCHANGED <<story, delivery, editing, edits, overlap>>
             /\ rows[D!Schedule] = Null => rows'[D!Schedule] = Null
             /\ rows[D!Schedule] # Null => rows'[D!Schedule] # Null /\ rows'[D!Schedule].id = rows[D!Schedule].id
  <2>1. /\ rows[k] \in D!Row /\ rows[k] # Null /\ OtherRows(k)
        /\ rows'[k] = RowRec(rows[k].id, "pending", rows[k].attempts, rows[k].skip, rows[k].occ)
        /\ UNCHANGED <<story, delivery, editing, edits, overlap>>
    BY <1>2, ReclaimEffect
  <2>2. rows'[k] # Null
    <3>1. rows[k].attempts \in 0..(MaxAttempts + MaxFaults)
      BY <2>1 DEF D!Row
    <3>2. QED
      BY <2>1, <3>1, RowFields, MadeRow, Names
  <2>3. QED
    BY <2>1, <2>2, Names DEF OtherRows, RowRec
<1>3. ASSUME NEW o \in Occurrences, D!StartRefresh(o) \/ D!Work(o) \/ D!StatementFails(o) \/ D!Crash(o)
      PROVE  /\ UNCHANGED <<story, delivery, editing, edits, overlap>>
             /\ rows[D!Schedule] = Null => rows'[D!Schedule] = Null
             /\ rows[D!Schedule] # Null => rows'[D!Schedule] # Null /\ rows'[D!Schedule].id = rows[D!Schedule].id
  <2>1. UNCHANGED <<story, delivery, editing, edits, overlap>>
    BY <1>3 DEF D!Work, D!StartRefresh, D!LoadContext, D!Deliver, D!SaveSkips, D!EnqueueRetry,
       D!Succeed, D!Fail,
                D!StatementFails, D!Crash, D!settings
  <2>2. CASE rows' = rows
    BY <2>1, <2>2
  <2>3. CASE OtherRows(o)
    BY <2>1, <2>3, Names DEF OtherRows
  <2>4. CASE D!OwnRow(o) /\ (D!SaveSkips(o) \/ D!Succeed(o) \/ D!Fail(o))
    <3> PICK k : k = exec[o].key
      OBVIOUS
    <3>1. /\ OtherRows(k) /\ k \in D!Keys /\ rows[k] # Null
          /\ k = D!Schedule => rows'[k] \in D!Row /\ rows'[k].id = rows[k].id
      BY <2>4, RowWritten
    <3>2. QED
      BY <2>1, <3>1, Names DEF OtherRows
  <2>5. CASE ~D!OwnRow(o) /\ (D!SaveSkips(o) \/ D!Succeed(o) \/ D!Fail(o))
    BY <2>2, <2>5, SaveEffect, SucceedEffect, FailEffect
  <2>6. CASE D!StartRefresh(o) \/ D!LoadContext(o) \/ D!Deliver(o) \/ D!StatementFails(o) \/ D!Crash(o)
    BY <2>2, <2>6, StartEffect, LoadEffect, DeliverEffect, StatementEffect, CrashEffect
  <2>7. QED
    BY <1>3, <2>3, <2>4, <2>5, <2>6, EnqueueEffect DEF D!Work
<1>4. QED
  BY <1>1, <1>2, <1>3 DEF D!Next

LEMMA FirstEditStep ==
    ASSUME D!StoryAssumption, Typed, Paired, FirstEdit, D!Next, edits' <= 1
    PROVE  FirstEdit'
<1> D!TypeOK
  BY DEF Typed
<1>1. CASE ~\E e \in Editors : D!Edit(e) \/ D!EditStep(e)
  BY <1>1, JobsOutside DEF FirstEdit
<1>2. ASSUME NEW e \in Editors, D!Edit(e) PROVE FirstEdit'
  <2>1. /\ editing[e] = Null /\ edits' = edits + 1 /\ OtherEditors(e) /\ rows' = rows
        /\ delivery'.jobId = delivery.jobId
        /\ editing'[e].phase # "delete"
    <3>1. CASE \E enabled \in BOOLEAN, c \in Crons \union {Null} : D!SaveDelivery(e, enabled, c)
      <4>1. PICK enabled \in BOOLEAN, c \in Crons \union {Null} : D!SaveDelivery(e, enabled, c)
        BY <3>1
      <4>2. /\ editing[e] = Null /\ edits' = edits + 1 /\ OtherEditors(e) /\ rows' = rows
            /\ editing'[e] = EditRec("sync", enabled, c, Null, FALSE, edits + 1)
            /\ delivery' = DeliveryRec(enabled, c, delivery.jobId)
        BY <4>1, SaveDeliveryEffect
      <4>3. QED
        BY <4>2 DEF DeliveryRec, EditRec
    <3>2. CASE \E live \in BOOLEAN, c \in Crons \union {Null} : D!SaveLive(e, live, c)
      <4>1. PICK live \in BOOLEAN, c \in Crons \union {Null} : D!SaveLive(e, live, c)
        BY <3>2
      <4>2. /\ editing[e] = Null /\ edits' = edits + 1 /\ OtherEditors(e) /\ rows' = rows
            /\ editing'[e] = EditRec("reread", live, Null, Null, FALSE, edits + 1)
            /\ delivery' = delivery
        BY <4>1, SaveLiveEffect
      <4>3. QED
        BY <4>2 DEF EditRec
    <3>3. CASE D!Disable(e)
      <4>1. /\ editing[e] = Null /\ edits' = edits + 1 /\ OtherEditors(e) /\ rows' = rows
            /\ editing'[e] = EditRec("sync", FALSE, Null, Null, TRUE, edits + 1)
            /\ delivery' = delivery
        BY <3>3, DisableEffect
      <4>2. QED
        BY <4>1 DEF EditRec
    <3>4. QED
      BY <1>2, <3>1, <3>2, <3>3 DEF D!Edit
  <2>2. edits = 0
    BY <2>1 DEF D!TypeOK
  <2>3. \A f \in Editors : editing[f] = Null
    BY <2>2 DEF FirstEdit
  <2>4. \A f \in Editors : editing'[f] # Null => f = e
    BY <2>1, <2>3 DEF OtherEditors
  <2>5. QED
    BY <2>1, <2>2, <2>4 DEF FirstEdit
<1>3. ASSUME NEW e \in Editors, D!EditStep(e) PROVE FirstEdit'
  <2>1. editing[e] # Null /\ OtherEditors(e) /\ edits' = edits
    BY <1>3, RereadEffect, SetDisabledEffect, SyncEffect, WriteEffect, LinkEffect, DeleteEffect
       DEF D!EditStep
  <2>2. /\ edits = 1 /\ editing[e].phase # "delete"
        /\ editing[e].phase \in {"reread", "sync", "write"} => rows[D!Schedule] = Null /\ delivery.jobId = Null
        /\ \A f \in Editors : editing[f] # Null => f = e
    BY <2>1 DEF FirstEdit
  <2>3. \A f \in Editors : editing'[f] # Null => f = e
    BY <2>1, <2>2 DEF OtherEditors
  <2>4. editing'[e] # Null =>
           /\ editing'[e].phase # "delete"
           /\ editing'[e].phase \in {"reread", "sync", "write"} =>
                 /\ editing[e].phase \in {"reread", "sync"}
                 /\ rows' = rows /\ delivery' = delivery
    <3>1. CASE D!RereadDelivery(e)
      <4>1. /\ editing[e].phase = "reread" /\ rows' = rows /\ delivery' = delivery
            /\ editing'[e] = EditRec("sync", editing[e].enabled /\ delivery.enabled, delivery.cron,
                                     editing[e].id, editing[e].last, editing[e].number)
        BY <3>1, RereadEffect
      <4>2. QED
        BY <4>1 DEF EditRec
    <3>2. CASE D!Sync(e)
      <4>1. /\ editing[e].phase = "sync" /\ rows' = rows /\ delivery' = delivery
            /\ \/ editing'[e] = EditRec("write", editing[e].enabled, editing[e].cron, editing[e].id, editing[e].last, editing[e].number)
               \/ editing'[e] = EditRec("disable", editing[e].enabled, editing[e].cron, editing[e].id, TRUE, editing[e].number)
               \/ editing'[e] = Null
        BY <2>2, <3>2, SyncEffect
      <4>2. QED
        BY <4>1 DEF EditRec
    <3>3. CASE D!SetDisabled(e)
      BY <3>3, SetDisabledEffect
    <3>4. CASE D!LinkJob(e)
      <4>1. \/ editing'[e] = EditRec("disable", editing[e].enabled, editing[e].cron, editing[e].id, TRUE, editing[e].number)
            \/ editing'[e] = Null
        BY <3>4, LinkEffect
      <4>2. QED
        BY <4>1 DEF EditRec
    <3>5. CASE D!WriteJob(e)
      <4>1. editing'[e] = EditRec("link", editing[e].enabled, editing[e].cron, rows'[D!Schedule].id, editing[e].last, editing[e].number)
        BY <3>5, WriteEffect
      <4>2. QED
        BY <4>1 DEF EditRec
    <3>6. CASE D!DeleteJob(e)
      BY <2>2, <3>6, DeleteEffect
    <3>7. QED
      BY <1>3, <3>1, <3>2, <3>3, <3>4, <3>5, <3>6 DEF D!EditStep
  <2>5. QED
    BY <2>1, <2>2, <2>3, <2>4 DEF FirstEdit
<1>4. QED
  BY <1>1, <1>2, <1>3

LEMMA RememberKept ==
    ASSUME Paired, ReachedSkipped, NEW p \in Occurrences,
           exec'[p] = exec[p], origin'[p] = origin[p], sent'[p] = sent[p],
           exec[p] # Null /\ exec[p].key # D!Refresh => rows'[exec[p].key].skip = rows[exec[p].key].skip
    PROVE  HandlerSkips(p)'
<1>1. HandlerSkips(p) /\ HandlerOf(p)
  BY DEF ReachedSkipped, Paired
<1>2. Reached(p)' = Reached(p)
  BY DEF Reached
<1>3. QED
  BY <1>1, <1>2 DEF HandlerSkips, HandlerOf

LEMMA RowRemembersKept ==
    ASSUME D!StoryAssumption, D!TypeOK, ReachedSkipped, NEW j \in D!Keys, rows'[j] = rows[j],
           \A p \in Occurrences : rows[j] # Null /\ rows[j].status = "pending" /\ rows[j].occ = p => sent'[p] = sent[p]
    PROVE  RowSkips(j)'
<1>1. RowSkips(j)
  BY DEF ReachedSkipped
<1>2. ASSUME rows[j] # Null, rows[j].status = "pending", rows[j].occ # Null
      PROVE  Reached(rows[j].occ)' \subseteq rows'[j].skip
  <2>1. PICK p \in Occurrences : p = rows[j].occ
    BY <1>2, RowFields DEF D!TypeOK
  <2>2. sent'[p] = sent[p] /\ Reached(p) \subseteq rows[j].skip
    BY <1>1, <1>2, <2>1 DEF RowSkips
  <2>3. Reached(p)' \subseteq rows'[j].skip /\ rows'[j].occ = p
    BY <2>1, <2>2 DEF Reached
  <2>4. QED
    BY <2>3
<1>3. QED
  BY <1>2 DEF RowSkips

\* The row a handler works for is not pending, so nobody else can claim its occurrence.
LEMMA WorkedOn ==
    ASSUME D!StoryAssumption, D!TypeOK, Paired, HandlersOwnRows, NEW o \in Occurrences,
           exec[o] # Null,
           NEW j \in D!Keys, rows[j] # Null, rows[j].status = "pending"
    PROVE  rows[j].occ # o
<1> SUFFICES ASSUME rows[j].occ = o PROVE FALSE
  OBVIOUS
<1>1. HandlerOf(o) /\ HandlerOwns(o) /\ RowOf(j)
  BY DEF Paired, HandlersOwnRows
<1>2. CASE exec[o].key = j
  BY <1>1, <1>2, Names DEF HandlerOwns
<1>3. CASE exec[o].key # j
  <2>1. origin[o] = IF j = D!Schedule THEN D!Schedule ELSE D!Refresh
    BY <1>1, Names DEF RowOf
  <2>2. j # D!Schedule => j = o
    BY <1>1 DEF RowOf
  <2>3. exec[o].key = D!Refresh /\ j = o
    BY <1>1, <1>3, <2>1, <2>2, Names DEF HandlerOf
  <2>4. QED
    BY <1>1, <2>3 DEF HandlerOf
<1>4. QED
  BY <1>2, <1>3

LEMMA ClaimRemembers ==
    ASSUME D!StoryAssumption, D!TypeOK, Paired, ReachedSkipped, NEW k \in D!Keys,
           NEW o \in Occurrences, D!Claim(k, o)
    PROVE  ReachedSkipped'
<1>1. /\ rows[k] # Null /\ rows[k].status = "pending" /\ exec[o] = Null
      /\ o = rows[k].occ \/ (rows[k].occ = Null /\ origin[o] = Null)
      /\ rows'[k] = RowRec(rows[k].id, "running", rows[k].attempts + 1, rows[k].skip, o)
      /\ exec'[o] = ExecRec(k, rows[k].id, "waiting", rows[k].skip, {})
      /\ \A p \in Occurrences \ {o} : origin'[p] = origin[p]
      /\ OtherRows(k) /\ OtherExecs(o) /\ sent' = sent
  BY ClaimEffect
<1>2. \A j \in D!Keys : rows'[j].skip = rows[j].skip
  BY <1>1 DEF OtherRows, RowRec
<1>3. HandlerSkips(o)'
  <2>1. origin'[o] # Null
    BY Claimed, Names
  <2>2. Reached(o) \subseteq rows[k].skip /\ Reached(o)' = Reached(o)
    BY <1>1, Names DEF ReachedSkipped, RowSkips, HandlerSkips, Reached
  <2>3. exec'[o].phase = "waiting" /\ exec'[o].skip = rows[k].skip
    BY <1>1 DEF ExecRec
  <2>4. QED
    BY <2>1, <2>2, <2>3 DEF HandlerSkips
<1>4. ASSUME NEW p \in Occurrences, p # o PROVE HandlerSkips(p)'
  <2>1. exec[p] # Null /\ exec[p].key # D!Refresh => exec[p].key \in D!Keys
    BY Names DEF Paired, HandlerOf
  <2>2. QED
    BY <1>1, <1>2, <1>4, <2>1, RememberKept DEF OtherExecs
<1>5. RowSkips(k)'
  BY <1>1 DEF RowSkips, RowRec
<1>6. ASSUME NEW j \in D!Keys, j # k PROVE RowSkips(j)'
  BY <1>1, <1>6, RowRemembersKept DEF OtherRows
<1>7. QED
  BY <1>1, <1>3, <1>4, <1>5, <1>6 DEF ReachedSkipped

\* Whoever is reached by a delivery was not skipped, so not reached before.
LEMMA DeliverRemembers ==
    ASSUME D!StoryAssumption, D!TypeOK, Paired, HandlersOwnRows, ReachedSkipped,
           NEW o \in Occurrences, D!Deliver(o)
    PROVE  ReachedSkipped'
<1>1. /\ exec[o] \in D!Exec /\ exec[o] # Null /\ exec[o].phase = "locked"
      /\ \A p \in Occurrences \ {o} : sent'[p] = sent[p]
      /\ OtherExecs(o)
      /\ UNCHANGED <<rows, origin>>
  BY DeliverEffect
<1>2. PICK ts \in SUBSET (Targets \ exec[o].skip) :
         /\ \A t \in Targets : sent'[o][t] = IF t \in ts THEN sent[o][t] + 1 ELSE sent[o][t]
         /\ \/ exec'[o] = ExecRec(exec[o].key, exec[o].id, "delivered", exec[o].skip, exec[o].ok)
            \/ exec'[o] = ExecRec(exec[o].key, exec[o].id,
                                  IF exec[o].key = D!Refresh THEN "enqueue" ELSE "save", exec[o].skip, ts)
  BY DeliverEffect
<1>3. Reached(o) \subseteq exec[o].skip /\ \A t \in Targets : sent[o][t] \in Nat
  BY <1>1 DEF ReachedSkipped, HandlerSkips, D!TypeOK
<1>4. Reached(o)' \subseteq Reached(o) \union ts
  BY <1>2 DEF Reached
<1>5. HandlerSkips(o)'
  <2>1. origin'[o] # Null
    BY <1>1, Names DEF Paired, HandlerOf
  <2>2. \/ exec'[o].phase = "delivered"
        \/ /\ exec'[o].phase \in {"enqueue", "save"} /\ exec'[o].skip = exec[o].skip /\ exec'[o].ok = ts
    BY <1>2 DEF ExecRec
  <2>3. QED
    BY <1>3, <1>4, <2>1, <2>2 DEF HandlerSkips
<1>6. ASSUME NEW p \in Occurrences, p # o PROVE HandlerSkips(p)'
  BY <1>1, <1>6, RememberKept DEF OtherExecs
<1>7. ASSUME NEW j \in D!Keys PROVE RowSkips(j)'
  BY <1>1, WorkedOn, RowRemembersKept
<1>8. ASSUME NEW p \in Occurrences, NEW t \in Targets PROVE sent'[p][t] <= 1
  <2>1. CASE p # o
    BY <1>1, <2>1 DEF ReachedSkipped
  <2>2. CASE p = o /\ t \in ts
    <3>1. sent[o][t] = 0
      BY <1>3, <2>2 DEF Reached
    <3>2. QED
      BY <1>2, <2>2, <3>1
  <2>3. CASE p = o /\ t \notin ts
    BY <1>2, <2>3 DEF ReachedSkipped
  <2>4. QED
    BY <2>1, <2>2, <2>3
<1>9. QED
  BY <1>5, <1>6, <1>7, <1>8 DEF ReachedSkipped

\* A handler that begins or waits for the lock reaches nobody.
LEMMA BeginRemembers ==
    ASSUME D!StoryAssumption, D!TypeOK, Paired, ReachedSkipped, NEW o \in Occurrences,
           D!StartRefresh(o) \/ D!LoadContext(o)
    PROVE  ReachedSkipped'
<1>1. UNCHANGED <<rows, sent>> /\ OtherExecs(o) /\ \A p \in Occurrences \ {o} : origin'[p] = origin[p]
  BY StartEffect, LoadEffect
<1>2. HandlerSkips(o)'
  <2>1. Reached(o)' = Reached(o) /\ HandlerSkips(o)
    BY <1>1 DEF Reached, ReachedSkipped
  <2>2. CASE D!StartRefresh(o)
    <3>1. origin[o] = Null /\ origin'[o] = D!Refresh /\ exec'[o] = ExecRec(D!Refresh, 0, "waiting", {}, {})
      BY <2>2, StartEffect
    <3>2. exec'[o].phase = "waiting"
      BY <3>1 DEF ExecRec
    <3>3. QED
      BY <2>1, <3>1, <3>2, Names DEF HandlerSkips
  <2>3. CASE D!LoadContext(o)
    <3>1. exec[o] # Null /\ exec[o].phase = "waiting" /\ origin' = origin
      BY <2>3, LoadEffect
    <3>2. PICK ph \in {"locked", "nothing"} :
             exec'[o] = ExecRec(exec[o].key, exec[o].id, ph, exec[o].skip, exec[o].ok)
      BY <2>3, LoadEffect
    <3>3. exec'[o].phase \in {"locked", "nothing"} /\ exec'[o].skip = exec[o].skip
      BY <3>2 DEF ExecRec
    <3>4. QED
      BY <2>1, <3>1, <3>3 DEF HandlerSkips
  <2>4. QED
    BY <2>2, <2>3
<1>3. ASSUME NEW p \in Occurrences, p # o PROVE HandlerSkips(p)'
  BY <1>1, <1>3, RememberKept DEF OtherExecs
<1>4. ASSUME NEW j \in D!Keys PROVE RowSkips(j)'
  BY <1>1, RowRemembersKept
<1>5. QED
  BY <1>1, <1>2, <1>3, <1>4 DEF ReachedSkipped

\* A handler that saves what was reached, or ends, leaves it in its row.
LEMMA EndRemembers ==
    ASSUME D!StoryAssumption, D!TypeOK, Paired, HandlersOwnRows, ReachedSkipped,
           NEW o \in Occurrences,
           D!SaveSkips(o) \/ D!EnqueueRetry(o) \/ D!Succeed(o) \/ D!Fail(o)
    PROVE  ReachedSkipped'
<1>1. /\ exec[o] \in D!Exec /\ exec[o] # Null /\ OtherExecs(o)
      /\ UNCHANGED <<origin, sent>>
  BY SaveEffect, EnqueueEffect, SucceedEffect, FailEffect
<1>2. \A p \in Occurrences : HandlerOf(p) /\ HandlerOwns(p) /\ HandlerSkips(p)
  BY DEF Paired, HandlersOwnRows, ReachedSkipped
<1>3. \A p \in Occurrences : Reached(p)' = Reached(p)
  BY <1>1 DEF Reached
<1>4. ASSUME NEW k \in D!Keys, OtherRows(k), exec[o].key = k \/ (exec[o].key = D!Refresh /\ k = o),
             HandlerSkips(o)', RowSkips(k)'
      PROVE  ReachedSkipped'
  <2>1. ASSUME NEW p \in Occurrences, p # o PROVE HandlerSkips(p)'
    <3>1. ASSUME exec[p] # Null, exec[p].key # D!Refresh PROVE exec[p].key \in D!Keys \ {k}
      <4>1. exec[p].key \in {D!Schedule, p}
        BY <1>2, <3>1 DEF HandlerOf
      <4>2. exec[p].key # k
        BY <1>1, <1>4, <2>1, <3>1, <4>1, OneHandler, Names
      <4>3. QED
        BY <4>1, <4>2, Names
    <3>2. QED
      BY <1>1, <1>4, <2>1, <3>1, RememberKept DEF OtherExecs, OtherRows
  <2>2. ASSUME NEW j \in D!Keys, j # k PROVE RowSkips(j)'
    BY <1>1, <1>4, <2>2, RowRemembersKept DEF OtherRows
  <2>3. QED
    BY <1>1, <1>4, <2>1, <2>2 DEF ReachedSkipped
<1>5. CASE D!SaveSkips(o)
  <2>1. /\ exec[o].phase = "save"
        /\ exec'[o] = ExecRec(exec[o].key, exec[o].id, "failed", exec[o].skip, exec[o].ok)
    BY <1>5, SaveEffect
  <2> PICK k : k = exec[o].key
    OBVIOUS
  <2>2. k # D!Refresh /\ k \in D!Keys /\ D!OwnRow(o) /\ rows[k].status = "running" /\ rows[k].occ = o
    BY <1>1, <1>2, <2>1, Names DEF HandlerOf, HandlerOwns, D!OwnRow
  <2>3. /\ rows'[k] = RowRec(rows[k].id, rows[k].status, rows[k].attempts,
                             exec[o].skip \union exec[o].ok, rows[k].occ)
        /\ OtherRows(k)
    BY <1>5, <2>2, SaveEffect
  <2>4. rows'[k].status = "running" /\ rows'[k].skip = exec[o].skip \union exec[o].ok
    BY <2>2, <2>3 DEF RowRec
  <2>5. exec'[o].phase = "failed" /\ exec'[o].key = k
    BY <2>1 DEF ExecRec
  <2>6. HandlerSkips(o)'
    BY <1>1, <1>2, <1>3, <2>1, <2>4, <2>5 DEF HandlerSkips
  <2>7. RowSkips(k)'
    BY <2>4 DEF RowSkips
  <2>8. QED
    BY <1>4, <2>2, <2>3, <2>6, <2>7
<1>6. CASE ~D!SaveSkips(o)
  <2>1. exec'[o] = Null
    BY <1>6, EnqueueEffect, SucceedEffect, FailEffect
  <2>2. HandlerSkips(o)'
    BY <1>1, <1>2, <1>3, <2>1 DEF HandlerSkips
  <2>3. CASE D!EnqueueRetry(o)
    <3>1. /\ exec[o].phase = "enqueue" /\ OtherRows(o)
          /\ rows'[o] = RowRec(0, "pending", 0, exec[o].ok, o)
      BY <2>3, EnqueueEffect
    <3>2. exec[o].key = D!Refresh /\ exec[o].skip = {} /\ o \in D!Keys
      BY <1>1, <1>2, <3>1, Names DEF HandlerOf
    <3>3. Reached(o)' \subseteq exec[o].ok
      BY <1>1, <1>2, <1>3, <3>1, <3>2 DEF HandlerSkips
    <3>4. rows'[o].occ = o /\ rows'[o].skip = exec[o].ok
      BY <3>1 DEF RowRec
    <3>5. RowSkips(o)'
      BY <3>3, <3>4 DEF RowSkips
    <3>6. QED
      BY <1>4, <2>2, <3>1, <3>2, <3>5
  <2>4. CASE (D!Succeed(o) \/ D!Fail(o)) /\ exec[o].key = D!Refresh
    <3>1. rows' = rows
      BY <2>4, SucceedEffect, FailEffect DEF D!OwnRow
    <3>2. RowSkips(o)' /\ o \in D!Keys
      BY <1>1, <3>1, RowRemembersKept, Names
    <3>3. QED
      BY <1>4, <2>2, <2>4, <3>1, <3>2 DEF OtherRows
  <2>5. CASE (D!Succeed(o) \/ D!Fail(o)) /\ exec[o].key # D!Refresh
    <3> PICK k : k = exec[o].key
      OBVIOUS
    <3>1. k \in D!Keys /\ D!OwnRow(o) /\ rows[k].occ = o
      BY <1>1, <1>2, <2>5, Names DEF HandlerOf, HandlerOwns, D!OwnRow
    <3>2. OtherRows(k)
      BY <2>5, <3>1, SucceedEffect, FailEffect
    <3>3. CASE D!Succeed(o)
      <4>1. rows'[k] = IF k = D!Schedule THEN RowRec(rows[k].id, "pending", 0, rows[k].skip, Null) ELSE Null
        BY <3>1, <3>3, SucceedEffect
      <4>2. RowSkips(k)'
        BY <4>1 DEF RowSkips, RowRec
      <4>3. QED
        BY <1>4, <2>2, <3>1, <3>2, <4>2
    <3>4. CASE D!Fail(o)
      <4>1. /\ exec[o].phase = "failed"
            /\ \/ rows'[k] = RowRec(rows[k].id, "pending", rows[k].attempts, rows[k].skip, rows[k].occ)
               \/ rows'[k] = RowRec(rows[k].id, "pending", 0, rows[k].skip, Null)
               \/ rows'[k] = RowRec(rows[k].id, "failed", rows[k].attempts, rows[k].skip, rows[k].occ)
        BY <3>1, <3>4, FailEffect
      <4>2. Reached(o)' \subseteq rows[k].skip
        BY <1>1, <1>2, <1>3, <4>1 DEF HandlerSkips
      <4>3. \/ rows'[k].occ = o /\ rows'[k].skip = rows[k].skip
            \/ rows'[k].occ = Null
            \/ rows'[k].status = "failed"
        BY <3>1, <4>1 DEF RowRec
      <4>4. RowSkips(k)'
        BY <4>2, <4>3 DEF RowSkips
      <4>5. QED
        BY <1>4, <2>2, <3>1, <3>2, <4>4
    <3>5. QED
      BY <2>5, <3>3, <3>4
  <2>6. QED
    BY <1>6, <2>3, <2>4, <2>5
<1>7. QED
  BY <1>5, <1>6

LEMMA EditRemembers ==
    ASSUME D!StoryAssumption, D!TypeOK, Paired, HandlersOwnRows, FirstEdit, ReachedSkipped,
           NEW e \in Editors, D!Edit(e) \/ D!EditStep(e)
    PROVE  ReachedSkipped'
<1>1. UNCHANGED <<exec, origin, sent>> /\ OtherRows(D!Schedule)
  BY EditOutside
<1>2. CASE D!WriteJob(e)
  <2>1. rows[D!Schedule] = Null
    BY <1>2, EditOwns
  <2>2. rows'[D!Schedule] = RowRec(editing[e].number, "pending", 0, {}, Null)
    BY <1>2, <2>1, WriteEffect
  <2>3. ASSUME NEW p \in Occurrences PROVE HandlerSkips(p)'
    <3>1. exec[p] # Null /\ exec[p].key # D!Refresh => exec[p].key \in D!Keys \ {D!Schedule}
      BY <2>1, Names DEF Paired, HandlerOf, HandlersOwnRows, HandlerOwns
    <3>2. QED
      BY <1>1, <3>1, RememberKept DEF OtherRows
  <2>4. RowSkips(D!Schedule)'
    BY <2>2 DEF RowSkips, RowRec
  <2>5. ASSUME NEW j \in D!Keys, j # D!Schedule PROVE RowSkips(j)'
    BY <1>1, <2>5, RowRemembersKept DEF OtherRows
  <2>6. QED
    BY <1>1, <2>3, <2>4, <2>5 DEF ReachedSkipped
<1>3. CASE ~D!WriteJob(e)
  <2>1. rows' = rows
    BY <1>3, EditOwns DEF D!Edit, D!EditStep, D!SaveDelivery, D!SaveLive, D!Disable,
       D!RereadDelivery, D!SetDisabled, D!Sync, D!LinkJob
  <2>2. QED
    BY <1>1, <2>1 DEF ReachedSkipped, HandlerSkips, RowSkips, Reached
<1>4. QED
  BY <1>2, <1>3

LEMMA OnceStep ==
    ASSUME D!StoryAssumption, Typed, Typed', Paired, Once, [D!Next]_(D!vars)
    PROVE  Once'
<1> D!TypeOK /\ D!TypeOK'
  BY DEF Typed
<1>1. CASE UNCHANGED D!vars
  BY <1>1 DEF D!vars, Once, Calm, HandlersOwnRows, HandlerOwns, RowIsHandled, FirstEdit,
     ReachedSkipped,
              HandlerSkips, RowSkips, Reached
<1>2. CASE D!Next
  <2> SUFFICES ASSUME Calm' PROVE (HandlersOwnRows /\ FirstEdit /\ ReachedSkipped)'
    BY DEF Once
  <2>1. ASSUME NEW o \in Occurrences PROVE ~D!Crash(o) /\ ~D!StatementFails(o)
    BY CrashEffect, StatementEffect DEF Calm, D!TypeOK, D!FaultKinds
  <2>2. edits \in Nat /\ edits' >= edits /\ faults'["crash"] = faults["crash"] /\ faults'["statement"] = faults["statement"]
    <3>1. edits \in Nat
      BY DEF D!TypeOK
    <3>2. CASE \E k \in D!Keys, o \in Occurrences : D!Claim(k, o)
      BY <3>1, <3>2 DEF D!Claim, D!settings
    <3>3. CASE \E k \in D!Keys : D!Reclaim(k)
      BY <3>1, <3>3 DEF D!Reclaim, D!settings
    <3>4. ASSUME NEW o \in Occurrences, D!StartRefresh(o) \/ D!Work(o)
          PROVE  edits' = edits /\ faults'["crash"] = faults["crash"] /\ faults'["statement"] = faults["statement"]
      BY <3>4, StartEffect, LoadEffect, DeliverEffect, SaveEffect, EnqueueEffect, SucceedEffect,
         FailEffect DEF D!Work
    <3>5. ASSUME NEW e \in Editors, D!Edit(e) \/ D!EditStep(e)
          PROVE  edits' >= edits /\ faults' = faults
      <4>1. faults' = faults
        BY <3>5, EditOutside
      <4>2. CASE D!Edit(e)
        <5>1. D!Idle(e)
          BY <4>2 DEF D!Edit, D!SaveDelivery, D!SaveLive, D!Disable
        <5>2. QED
          BY <3>1, <4>1, <5>1 DEF D!Idle
      <4>3. CASE D!EditStep(e)
        <5>1. edits' = edits
          BY <4>3, RereadEffect, SetDisabledEffect, SyncEffect, WriteEffect, LinkEffect,
             DeleteEffect
          DEF D!EditStep
        <5>2. QED
          BY <3>1, <4>1, <5>1
      <4>4. QED
        BY <3>5, <4>2, <4>3
    <3>6. QED
      BY <1>2, <2>1, <3>1, <3>2, <3>3, <3>4, <3>5 DEF D!Next
  <2>3. edits' <= 1 /\ Calm
    BY <2>2 DEF Calm, D!TypeOK
  <2>4. HandlersOwnRows /\ FirstEdit /\ ReachedSkipped
    BY <2>3 DEF Once
  <2>5. FirstEdit'
    BY <1>2, <2>3, <2>4, FirstEditStep
  <2>6. ASSUME NEW k \in D!Keys, NEW o \in Occurrences, D!Claim(k, o) PROVE HandlersOwnRows' /\ ReachedSkipped'
    BY <2>4, <2>6, ClaimOwns, ClaimRemembers
  <2>7. ASSUME NEW o \in Occurrences, D!StartRefresh(o) \/ D!Work(o) PROVE HandlersOwnRows' /\ ReachedSkipped'
    BY <2>4, <2>7, MoveOwns, EndOwns, BeginRemembers, DeliverRemembers, EndRemembers DEF D!Work
  <2>8. ASSUME NEW e \in Editors, D!Edit(e) \/ D!EditStep(e) PROVE HandlersOwnRows' /\ ReachedSkipped'
    BY <2>4, <2>8, EditOwns, EditRemembers
  <2>9. QED
    BY <1>2, <2>1, <2>4, <2>5, <2>6, <2>7, <2>8, NoReclaim DEF D!Next
<1>3. QED
  BY <1>1, <1>2

-----------------------------------------------------------------------------
(* Unless requests overlap, the job and the settings agree *)

LEMMA JobsAgree ==
    ASSUME D!StoryAssumption, Typed, Paired, Agreed, D!Next,
           ~\E e \in Editors : D!Edit(e) \/ D!EditStep(e)
    PROVE  Agreed'
<1>1. UNCHANGED <<story, delivery, editing, edits, overlap>>
  BY JobsOutside
<1>2. JobNow' = JobNow
  BY JobsOutside DEF JobNow
<1>3. Separate' = Separate
  BY <1>1 DEF Separate, D!ShouldSchedule
<1>4. QED
  BY <1>1, <1>2, <1>3 DEF Agreed, EditorOf, Settled, Linked, LinkedBy, D!Quiet, D!Editing

\* The editor that goes on, or ends, is the only one.
LEMMA EditorAgrees ==
    ASSUME NEW e \in Editors, \A f \in Editors \ {e} : editing'[f] = Null, EditorOf(e)',
           overlap' = "never" =>
               /\ LinkedBy(e)'
               /\ editing'[e] = Null \/ editing'[e].phase # "link" => delivery'.jobId = JobNow',
           editing'[e] = Null /\ JobNow' # Null /\ delivery'.jobId = JobNow' => Separate'
    PROVE  Agreed'
<1>1. \A f \in Editors : EditorOf(f)'
  BY DEF EditorOf
<1>2. Settled'
  BY DEF Settled, D!Quiet
<1>3. overlap' = "never" => Linked'
  BY DEF Linked, LinkedBy, D!Editing
<1>4. QED
  BY <1>1, <1>2, <1>3 DEF Agreed

\* A request's number is one of the row ids.
LEMMA EditNumbered ==
    ASSUME D!StoryAssumption, D!TypeOK, edits < MaxEdits
    PROVE  edits + 1 \in D!RowIds
  BY Names DEF D!TypeOK, D!RowIds

LEMMA EditAgrees ==
    ASSUME D!StoryAssumption, D!TypeOK, Agreed, NEW e \in Editors, D!Edit(e)
    PROVE  Agreed'
<1>1. ASSUME OverlapBegins, overlap' # "now"
      PROVE  /\ \A f \in Editors : editing[f] = Null
             /\ overlap' = "never" => overlap = "never"
  BY <1>1 DEF OverlapBegins, D!Quiet
<1>2. ASSUME editing[e] = Null, rows' = rows, delivery'.jobId = delivery.jobId,
             NEW ph \in {"sync", "reread"}, NEW b \in BOOLEAN, NEW c \in Crons \union {Null}, NEW l \in BOOLEAN,
             editing'[e] = EditRec(ph, b, c, Null, l, edits + 1), edits + 1 \in D!RowIds,
             OtherEditors(e), OverlapBegins,
             l => ~b,
             ph = "sync" /\ b => delivery'.enabled /\ delivery'.cron = c
      PROVE  Agreed'
  <2> SUFFICES ASSUME overlap' # "now" PROVE Agreed'
    BY DEF Agreed
  <2>1. overlap' = "never" => delivery.jobId = JobNow /\ JobNow' = JobNow
    BY <1>1, <1>2 DEF Agreed, Linked, D!Editing, JobNow
  <2>2. editing'[e] # Null
    BY <1>2, MadeEditor, Names
  <2>3. editing'[e].phase = ph /\ editing'[e].enabled = b /\ editing'[e].cron = c /\ editing'[e].last = l
    BY <1>2 DEF EditRec
  <2>4. EditorOf(e)' /\ LinkedBy(e)'
    BY <1>2, <2>3 DEF EditorOf, LinkedBy, D!Editing
  <2>5. \A f \in Editors \ {e} : editing'[f] = Null
    BY <1>1, <1>2 DEF OtherEditors
  <2>6. QED
    BY <1>2, <2>1, <2>2, <2>4, <2>5, EditorAgrees
<1>3. CASE \E enabled \in BOOLEAN, c \in Crons \union {Null} : D!SaveDelivery(e, enabled, c)
  <2>1. PICK enabled \in BOOLEAN, c \in Crons \union {Null} : D!SaveDelivery(e, enabled, c)
    BY <1>3
  <2>2. /\ editing[e] = Null /\ rows' = rows
        /\ editing'[e] = EditRec("sync", enabled, c, Null, FALSE, edits + 1)
        /\ delivery' = DeliveryRec(enabled, c, delivery.jobId)
        /\ edits + 1 \in D!RowIds /\ OtherEditors(e) /\ OverlapBegins
    BY <2>1, SaveDeliveryEffect, EditNumbered
  <2>3. delivery'.jobId = delivery.jobId /\ delivery'.enabled = enabled /\ delivery'.cron = c
    BY <2>2 DEF DeliveryRec
  <2>4. QED
    BY <1>2, <2>2, <2>3
<1>4. CASE \E live \in BOOLEAN, c \in Crons \union {Null} : D!SaveLive(e, live, c)
  <2>1. PICK live \in BOOLEAN, c \in Crons \union {Null} : D!SaveLive(e, live, c)
    BY <1>4
  <2>2. /\ editing[e] = Null /\ rows' = rows /\ delivery' = delivery
        /\ editing'[e] = EditRec("reread", live, Null, Null, FALSE, edits + 1)
        /\ edits + 1 \in D!RowIds /\ OtherEditors(e) /\ OverlapBegins
    BY <2>1, SaveLiveEffect, EditNumbered
  <2>3. QED
    BY <1>2, <2>2
<1>5. CASE D!Disable(e)
  <2>1. /\ editing[e] = Null /\ rows' = rows /\ delivery' = delivery
        /\ editing'[e] = EditRec("sync", FALSE, Null, Null, TRUE, edits + 1)
        /\ edits + 1 \in D!RowIds /\ OtherEditors(e) /\ OverlapBegins
    BY <1>5, DisableEffect, EditNumbered
  <2>2. QED
    BY <1>2, <2>1
<1>6. QED
  BY <1>3, <1>4, <1>5 DEF D!Edit

LEMMA EditStepAgrees ==
    ASSUME D!StoryAssumption, D!TypeOK, Agreed, NEW e \in Editors, D!EditStep(e)
    PROVE  Agreed'
<1>0. editing[e] # Null /\ OtherEditors(e) /\ overlap' = overlap
  BY RereadEffect, SetDisabledEffect, SyncEffect, WriteEffect, LinkEffect, DeleteEffect
     DEF D!EditStep
<1> SUFFICES ASSUME overlap # "now" PROVE Agreed'
  BY <1>0 DEF Agreed
<1>1. \A f \in Editors \ {e} : editing'[f] = Null
  BY <1>0 DEF Agreed, OtherEditors
<1>2. EditorOf(e)
  BY DEF Agreed
<1>3. overlap = "never" =>
         /\ LinkedBy(e)
         /\ editing[e].phase # "link" => delivery.jobId = JobNow
  <2>1. \A f \in Editors : editing[f] # Null => f = e
    BY <1>0 DEF Agreed
  <2>2. QED
    BY <1>0, <2>1 DEF Agreed, Linked, D!Editing
<1>4. CASE D!RereadDelivery(e)
  <2>1. /\ editing[e] \in D!Editor /\ editing[e] # Null /\ editing[e].phase = "reread"
        /\ editing'[e] = EditRec("sync", editing[e].enabled /\ delivery.enabled, delivery.cron,
                                 editing[e].id, editing[e].last, editing[e].number)
        /\ UNCHANGED <<story, delivery, rows>>
    BY <1>4, RereadEffect
  <2>2. editing'[e] # Null
    <3>1. EditRec("sync", editing[e].enabled /\ delivery.enabled, delivery.cron, editing[e].id, editing[e].last, editing[e].number)
             \in D!Editor
      BY <2>1, EditorFields, DeliveryFields, MadeEditor
    <3>2. QED
      BY <2>1, <3>1, Names
  <2>3. /\ editing'[e].phase = "sync" /\ editing'[e].enabled = (editing[e].enabled /\ delivery.enabled)
        /\ editing'[e].cron = delivery.cron /\ editing'[e].last = editing[e].last
    BY <2>1 DEF EditRec
  <2>4. EditorOf(e)'
    BY <1>2, <2>1, <2>3, EditorFields, DeliveryFields DEF EditorOf
  <2>5. JobNow' = JobNow /\ (overlap = "never" => delivery.jobId = JobNow) /\ LinkedBy(e)'
    BY <1>3, <2>1, <2>3 DEF JobNow, LinkedBy, D!Editing
  <2>6. QED
    BY <1>0, <1>1, <2>1, <2>2, <2>4, <2>5, EditorAgrees
<1>5. CASE D!Sync(e)
  <2>1. /\ editing[e] \in D!Editor /\ editing[e] # Null /\ editing[e].phase = "sync"
        /\ UNCHANGED <<story, delivery, rows>>
    BY <1>5, SyncEffect
  <2>2. JobNow' = JobNow /\ (overlap = "never" => delivery.jobId = JobNow) /\ Separate' = Separate
    BY <1>3, <2>1 DEF JobNow, Separate, D!ShouldSchedule
  <2>3. editing[e].enabled \in BOOLEAN /\ editing[e].last \in BOOLEAN
    BY <2>1, EditorFields
  <2>4. CASE /\ D!ShouldSchedule(editing[e].enabled, editing[e].cron)
             /\ editing'[e] = EditRec("write", editing[e].enabled, editing[e].cron, editing[e].id, editing[e].last, editing[e].number)
    <3>1. /\ editing'[e].phase = "write" /\ editing'[e].last = editing[e].last
          /\ editing'[e].enabled = editing[e].enabled
      BY <2>4 DEF EditRec
    <3>2. Separate /\ ~editing[e].last
      BY <1>2, <2>1, <2>4 DEF EditorOf, Separate, D!ShouldSchedule
    <3>3. editing'[e] # Null
      <4>1. EditRec("write", editing[e].enabled, editing[e].cron, editing[e].id, editing[e].last, editing[e].number) \in D!Editor
        BY <2>1, EditorFields, MadeEditor
      <4>2. QED
        BY <2>4, <4>1, Names
    <3>4. EditorOf(e)' /\ LinkedBy(e)'
      BY <2>2, <3>1, <3>2 DEF EditorOf, LinkedBy, D!Editing
    <3>5. QED
      BY <1>0, <1>1, <2>1, <2>2, <3>3, <3>4, EditorAgrees
  <2>5. CASE editing'[e] = EditRec("delete", editing[e].enabled, editing[e].cron, delivery.jobId, editing[e].last, editing[e].number)
    <3>1. /\ editing'[e].phase = "delete" /\ editing'[e].last = editing[e].last
          /\ editing'[e].enabled = editing[e].enabled /\ editing'[e].id = delivery.jobId
      BY <2>5 DEF EditRec
    <3>2. editing'[e] # Null
      <4>1. EditRec("delete", editing[e].enabled, editing[e].cron, delivery.jobId, editing[e].last, editing[e].number) \in D!Editor
        BY <2>1, EditorFields, DeliveryFields, MadeEditor
      <4>2. QED
        BY <2>5, <4>1, Names
    <3>3. EditorOf(e)' /\ (overlap = "never" => LinkedBy(e)')
      BY <1>2, <2>1, <2>2, <3>1 DEF EditorOf, LinkedBy, D!Editing
    <3>4. QED
      BY <1>0, <1>1, <2>1, <2>2, <3>2, <3>3, EditorAgrees
  <2>6. CASE /\ delivery.jobId = Null
             /\ editing'[e] = IF editing[e].last
                              THEN EditRec("disable", editing[e].enabled, editing[e].cron, editing[e].id, TRUE, editing[e].number)
                              ELSE Null
    <3>1. delivery'.jobId = Null
      BY <2>1, <2>6
    <3>2. editing'[e] # Null =>
             /\ editing'[e].phase = "disable" /\ ~editing'[e].enabled
      <4>1. CASE editing[e].last
        <5>1. editing'[e].phase = "disable" /\ editing'[e].enabled = editing[e].enabled
          BY <2>6, <4>1 DEF EditRec
        <5>2. QED
          BY <1>2, <2>1, <4>1, <5>1 DEF EditorOf
      <4>2. CASE ~editing[e].last
        BY <2>6, <4>2
      <4>3. QED
        BY <2>3, <4>1, <4>2
    <3>3. EditorOf(e)' /\ LinkedBy(e)'
      BY <3>1, <3>2 DEF EditorOf, LinkedBy, D!Editing
    <3>4. QED
      BY <1>0, <1>1, <2>1, <2>2, <3>1, <3>3, EditorAgrees
  <2>7. QED
    BY <1>5, <2>4, <2>5, <2>6, SyncEffect
<1>6. CASE D!WriteJob(e)
  <2>1. /\ editing[e] \in D!Editor /\ editing[e] # Null /\ editing[e].phase = "write"
        /\ editing'[e] = EditRec("link", editing[e].enabled, editing[e].cron, rows'[D!Schedule].id, editing[e].last, editing[e].number)
        /\ UNCHANGED <<story, delivery>>
    BY <1>6, WriteEffect
  <2>2. rows'[D!Schedule] \in D!Row /\ rows'[D!Schedule] # Null
    BY <1>6, UpsertTyped, Names
  <2>3. JobNow' = rows'[D!Schedule].id /\ Separate' = Separate
    BY <2>1, <2>2 DEF JobNow, Separate, D!ShouldSchedule
  <2>4. /\ editing'[e].phase = "link" /\ editing'[e].id = rows'[D!Schedule].id /\ editing'[e].last = editing[e].last
        /\ editing'[e].enabled = editing[e].enabled
    BY <2>1 DEF EditRec
  <2>5. Separate /\ ~editing[e].last
    BY <1>2, <2>1 DEF EditorOf
  <2>6. EditorOf(e)' /\ LinkedBy(e)'
    BY <2>3, <2>4, <2>5 DEF EditorOf, LinkedBy, D!Editing
  <2>7. QED
    <3>1. editing'[e] # Null
      <4>1. \A i \in D!RowIds \union {Null} :
               EditRec("link", editing[e].enabled, editing[e].cron, i, editing[e].last, editing[e].number) \in D!Editor
        BY <2>1, EditorFields, MadeEditor
      <4>2. QED
        BY <2>1, <2>2, <4>1, RowFields, Names
    <3>2. QED
      BY <1>0, <1>1, <2>4, <2>6, <3>1, EditorAgrees
<1>7. CASE D!LinkJob(e)
  <2>1. /\ editing[e] \in D!Editor /\ editing[e] # Null /\ editing[e].phase = "link"
        /\ delivery' = DeliveryRec(delivery.enabled, delivery.cron, editing[e].id)
        /\ editing'[e] = IF editing[e].last
                         THEN EditRec("disable", editing[e].enabled, editing[e].cron, editing[e].id, TRUE, editing[e].number)
                         ELSE Null
        /\ UNCHANGED <<story, rows>>
    BY <1>7, LinkEffect
  <2>2. /\ overlap = "never" => editing[e].id = JobNow
        /\ JobNow' = JobNow
        /\ editing[e].id # Null => Separate /\ ~editing[e].last
    BY <1>2, <1>3, <2>1 DEF EditorOf, LinkedBy, D!Editing, JobNow
  <2>3. delivery'.jobId = editing[e].id /\ delivery'.enabled = delivery.enabled /\ delivery'.cron = delivery.cron
    BY <2>1 DEF DeliveryRec
  <2>4. Separate' = Separate
    BY <2>1, <2>3 DEF Separate, D!ShouldSchedule
  <2>5. editing'[e] # Null => editing'[e].phase = "disable" /\ ~editing'[e].enabled /\ editing[e].id = Null
    <3>1. CASE editing[e].last
      <4>1. editing'[e].phase = "disable" /\ editing'[e].enabled = editing[e].enabled
        BY <2>1, <3>1 DEF EditRec
      <4>2. QED
        BY <1>2, <2>1, <2>2, <3>1, <4>1 DEF EditorOf
    <3>2. CASE ~editing[e].last
      BY <2>1, <3>2
    <3>3. QED
      BY <2>1, <3>1, <3>2, EditorFields
  <2>6. EditorOf(e)' /\ LinkedBy(e)'
    BY <2>3, <2>5 DEF EditorOf, LinkedBy, D!Editing
  <2>7. QED
    BY <1>0, <1>1, <2>2, <2>3, <2>4, <2>6, EditorAgrees
<1>8. CASE D!DeleteJob(e)
  <2>1. /\ editing[e] \in D!Editor /\ editing[e] # Null /\ editing[e].phase = "delete"
        /\ rows'[D!Schedule] = IF rows[D!Schedule] # Null /\ rows[D!Schedule].id = editing[e].id
                             THEN Null ELSE rows[D!Schedule]
        /\ editing'[e] = EditRec("link", editing[e].enabled, editing[e].cron, Null, editing[e].last, editing[e].number)
    BY <1>8, DeleteEffect
  <2>2. overlap = "never" => editing[e].id = JobNow
    BY <1>3, <2>1 DEF LinkedBy, D!Editing
  <2>3. overlap = "never" => JobNow' = Null
    BY <2>1, <2>2 DEF JobNow
  <2>4. /\ editing'[e].phase = "link" /\ editing'[e].id = Null /\ editing'[e].last = editing[e].last
        /\ editing'[e].enabled = editing[e].enabled
    BY <2>1 DEF EditRec
  <2>5. EditorOf(e)' /\ (overlap = "never" => LinkedBy(e)')
    BY <1>2, <2>1, <2>3, <2>4 DEF EditorOf, LinkedBy, D!Editing
  <2>6. editing'[e] # Null
    <3>1. EditRec("link", editing[e].enabled, editing[e].cron, Null, editing[e].last, editing[e].number) \in D!Editor
      BY <2>1, EditorFields, MadeEditor
    <3>2. QED
      BY <2>1, <3>1, Names
  <2>7. QED
    BY <1>0, <1>1, <2>4, <2>5, <2>6, EditorAgrees
<1>9. CASE D!SetDisabled(e)
  <2>1. /\ editing[e] # Null /\ editing[e].phase = "disable"
        /\ editing'[e] = Null /\ rows' = rows
        /\ delivery' = DeliveryRec(FALSE, delivery.cron, delivery.jobId)
    BY <1>9, SetDisabledEffect
  <2>2. /\ JobNow = Null \/ delivery.jobId # JobNow
        /\ JobNow' = JobNow
        /\ overlap = "never" => delivery.jobId = JobNow
    BY <1>2, <1>3, <2>1 DEF EditorOf, JobNow
  <2>3. delivery'.jobId = delivery.jobId
    BY <2>1 DEF DeliveryRec
  <2>4. EditorOf(e)' /\ LinkedBy(e)'
    BY <2>1 DEF EditorOf, LinkedBy, D!Editing
  <2>5. QED
    BY <1>0, <1>1, <2>1, <2>2, <2>3, <2>4, EditorAgrees
<1>10. QED
  BY <1>4, <1>5, <1>6, <1>7, <1>8, <1>9 DEF D!EditStep

LEMMA AgreedStep ==
    ASSUME D!StoryAssumption, Typed, Paired, Agreed, [D!Next]_(D!vars)
    PROVE  Agreed'
<1> D!TypeOK
  BY DEF Typed
<1>1. CASE UNCHANGED D!vars
  BY <1>1 DEF D!vars, Agreed, EditorOf, Settled, Linked, LinkedBy, D!Quiet, D!Editing, JobNow,
     Separate, D!ShouldSchedule
<1>2. CASE \E e \in Editors : D!Edit(e) \/ D!EditStep(e)
  BY <1>2, EditAgrees, EditStepAgrees
<1>3. CASE D!Next /\ ~\E e \in Editors : D!Edit(e) \/ D!EditStep(e)
  BY <1>3, JobsAgree
<1>4. QED
  BY <1>1, <1>2, <1>3

-----------------------------------------------------------------------------
(* The theorems *)

DInv == Typed /\ Paired /\ SkipsSent /\ Once

LEMMA InitHolds ==
    ASSUME D!StoryAssumption, D!Init
    PROVE  DInv /\ Agreed
<1>1. /\ \A k \in D!Keys : rows[k] = Null
      /\ \A o \in Occurrences : exec[o] = Null /\ origin[o] = Null
      /\ \A o \in Occurrences, t \in Targets : sent[o][t] = 0
      /\ \A e \in Editors : editing[e] = Null
      /\ done = {} /\ delivery.jobId = Null /\ overlap = "never"
  BY DEF D!Init
<1>2. Typed
  <2>1. /\ story \in [live : BOOLEAN, schedule : Crons \union {Null}]
        /\ delivery \in [enabled : BOOLEAN, cron : Crons \union {Null}, jobId : D!RowIds \union {Null}]
        /\ edits \in 0..MaxEdits /\ overlap \in {"never", "now", "before"}
    BY Names DEF D!Init
  <2>2. faults \in [D!FaultKinds -> 0..MaxFaults]
    BY Names DEF D!Init
  <2>3. /\ rows \in [D!Keys -> D!Row \union {Null}]
        /\ exec \in [Occurrences -> D!Exec \union {Null}]
        /\ origin \in [Occurrences -> {D!Schedule, D!Refresh, Null}]
        /\ sent \in [Occurrences -> [Targets -> Nat]]
        /\ done \subseteq Occurrences
        /\ editing \in [Editors -> D!Editor \union {Null}]
    BY DEF D!Init
  <2>4. \A k \in D!Keys : RowBounded(k)
    BY <1>1 DEF RowBounded
  <2>5. QED
    BY <2>1, <2>2, <2>3, <2>4 DEF Typed, D!TypeOK
<1>3. Paired
  BY <1>1 DEF Paired, HandlerOf, RowOf
<1>4. SkipsSent
  BY <1>1, Names DEF SkipsSent, SkipsWereSent, D!At
<1>5. Once
  <2>1. HandlersOwnRows
    BY <1>1 DEF HandlersOwnRows, HandlerOwns, RowIsHandled
  <2>2. FirstEdit
    BY <1>1, Names DEF FirstEdit
  <2>3. ReachedSkipped
    BY <1>1 DEF ReachedSkipped, HandlerSkips, RowSkips, Reached
  <2>4. QED
    BY <2>1, <2>2, <2>3 DEF Once
<1>6. Agreed
  BY <1>1, Names DEF Agreed, EditorOf, Settled, Linked, LinkedBy, D!Quiet, D!Editing, JobNow
<1>7. QED
  BY <1>2, <1>3, <1>4, <1>5, <1>6 DEF DInv

LEMMA DeliveryInvariant == D!Spec => []DInv
<1>1. D!Init => DInv
  BY InitHolds, DeliveryAssumption
<1>2. DInv /\ [D!Next]_(D!vars) => DInv'
  BY TypedStep, PairedStep, SentStep, OnceStep, DeliveryAssumption DEF DInv, Typed
<1>3. QED
  BY <1>1, <1>2, PTL DEF D!Spec

\* Nobody gets an occurrence twice unless what was reached was lost, and a
\* refresh that ended well has reached everyone over its retries.
THEOREM Delivered == D!Spec => []DeliveredOnce
<1>1. DInv => DeliveredOnce
  <2> SUFFICES ASSUME DInv PROVE DeliveredOnce
    OBVIOUS
  <2>1. D!ReachedOnce
    BY DEF DInv, Once, Calm, ReachedSkipped, D!ReachedOnce
  <2>2. D!RefreshReachesAll
    <3> SUFFICES ASSUME NEW o \in done, origin[o] = D!Refresh, NEW t \in Targets
                 PROVE  sent[o][t] >= 1
      BY DEF D!RefreshReachesAll
    <3>1. o \in Occurrences
      BY DEF DInv, Typed, D!TypeOK
    <3>2. Targets \subseteq Reached(o)
      BY <3>1 DEF DInv, SkipsSent, SkipsWereSent
    <3>3. QED
      BY <3>2 DEF Reached
  <2>3. QED
    BY <2>1, <2>2 DEF DeliveredOnce
<1>2. QED
  BY <1>1, DeliveryInvariant, PTL

\* Whatever the number of editors, and however their requests overlap: one that has
\* the story to itself leaves the recurring job and the settings on one path, but for
\* a job that earlier overlaps made the story forget.
THEOREM OnePathOnly == D!Spec => []SettingsAgree
<1>1. D!Init => Typed /\ Paired /\ Agreed
  BY InitHolds, DeliveryAssumption DEF DInv
<1>2. (Typed /\ Paired /\ Agreed) /\ [D!Next]_(D!vars) => (Typed /\ Paired /\ Agreed)'
  BY TypedStep, PairedStep, AgreedStep, DeliveryAssumption DEF Typed
<1>3. Typed /\ Agreed => SettingsAgree
  <2> SUFFICES ASSUME Typed, Agreed, D!Quiet, rows[D!Schedule] # Null, overlap # "now",
                      ~(overlap = "before" /\ delivery.jobId # rows[D!Schedule].id)
               PROVE  delivery.enabled /\ ~(story.live /\ D!DeliversOnRefresh)
    BY DEF SettingsAgree, D!OnePath, Typed
  <2>1. rows[D!Schedule].id # Null /\ JobNow = rows[D!Schedule].id
    BY RowFields, Names, DeliveryAssumption DEF Typed, D!TypeOK, JobNow
  <2>2. delivery.jobId = JobNow
    BY <2>1 DEF Agreed, Linked, D!Quiet, D!Editing, Typed, D!TypeOK
  <2>3. Separate
    BY <2>1, <2>2 DEF Agreed, Settled
  <2>4. QED
    BY <2>3 DEF Separate, D!ShouldSchedule, D!DeliversOnRefresh
<1>4. QED
  BY <1>1, <1>2, <1>3, PTL DEF D!Spec
=============================================================================
