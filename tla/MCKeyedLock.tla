----------------------------- MODULE MCKeyedLock -----------------------------
(***************************************************************************)
(* An instance of WithKeyedLock for TLC: a lease of four renewal           *)
(* intervals, as LOCK_LEASE_MS and LOCK_RENEW_INTERVAL_MS give.            *)
(***************************************************************************)
EXTENDS WithKeyedLock
=============================================================================
