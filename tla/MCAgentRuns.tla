----------------------------- MODULE MCAgentRuns -----------------------------
(***************************************************************************)
(* Instances of AgentRuns for TLC.                                         *)
(***************************************************************************)
EXTENDS AgentRuns

\* A thread long enough for edits of edits and for switching there and back, and
\* two requests in each other's way.
Bounds == [c \in Clients |->
             IF c = "patient" THEN [requests |-> 4, cancels |-> 2, switches |-> 2, faults |-> 1]
                              ELSE [requests |-> 2, cancels |-> 1, switches |-> 0, faults |-> 1]]
=============================================================================
