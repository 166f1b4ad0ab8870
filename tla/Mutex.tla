-------------------------------- MODULE Mutex --------------------------------
(***************************************************************************)
(* What withKeyedLock (utils/keyed-lock.ts) promises its callers for one   *)
(* key, whichever database the backend runs on: one function runs at a     *)
(* time, and a caller may be turned away instead of running its function.  *)
(***************************************************************************)
CONSTANT Calls   \* calls of withKeyedLock for one key

VARIABLE call    \* call -> "new", "waiting", "running" or "over"

Init == call = [c \in Calls |-> "new"]

Move(c, from, to) == call[c] = from /\ call' = [call EXCEPT ![c] = to]

Wait(c)   == Move(c, "new", "waiting")
Enter(c)  == Move(c, "waiting", "running") /\ \A d \in Calls : call[d] # "running"
Leave(c)  == Move(c, "running", "over")
GiveUp(c) == Move(c, "waiting", "over")

Next == \E c \in Calls : Wait(c) \/ Enter(c) \/ Leave(c) \/ GiveUp(c)

Spec == Init /\ [][Next]_call

\* One function runs at a time.
Exclusive == \A c, d \in Calls : call[c] = "running" /\ call[d] = "running" => c = d
=============================================================================
