------------------------------ MODULE LockCalls ------------------------------
(***************************************************************************)
(* The callers of withKeyedLock (utils/keyed-lock.ts) for one key, and the *)
(* value that stands for nobody.                                           *)
(***************************************************************************)
CONSTANTS Calls, Nobody

ASSUME NobodyAssumption == Nobody \notin Calls
=============================================================================
