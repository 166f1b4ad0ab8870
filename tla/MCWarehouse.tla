----------------------------- MODULE MCWarehouse -----------------------------
(***************************************************************************)
(* Instances of WarehouseProvisioning for TLC.                             *)
(***************************************************************************)
EXTENDS WarehouseProvisioning

CONSTANTS j1, j2, w1, w2

\* One setup among two workers, with two faults of any kind but a failed statement, or
\* with a failed statement; with a failed statement and another fault, one worker that
\* dies and goes on; a setup and its retry.
Scope(jobs, workers, count, kinds) == [jobs |-> jobs, workers |-> workers, faults |-> count, kinds |-> kinds]

Faulty ==
    {Scope({j1}, {w1, w2}, 2, Faults \ {"statement"}),
     Scope({j1}, {w1, w2}, 1, {"statement"}),
     Scope({j1}, {w1}, 2, {"statement", "crash", "cleanup"})}
FaultyAndRetried == Faulty \union {Scope({j1, j2}, {w1}, 0, {})}
TwoWorkers       == {Scope({j1}, {w1, w2}, 0, {})}
=============================================================================
