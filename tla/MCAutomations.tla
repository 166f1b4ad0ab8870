---------------------------- MODULE MCAutomations ----------------------------
(***************************************************************************)
(* Instances of Automations for TLC: two requests around one run, two runs *)
(* of which one is cancelled or dies, and a run around which a request, a  *)
(* cancel and a crash meet.                                                *)
(***************************************************************************)
EXTENDS Automations

SmallBounds ==
    {[runs |-> 1, edits |-> 2, cancels |-> 0, jobs |-> 2, crashes |-> 0],
     [runs |-> 2, edits |-> 0, cancels |-> 1, jobs |-> 1, crashes |-> 0],
     [runs |-> 2, edits |-> 0, cancels |-> 0, jobs |-> 1, crashes |-> 1],
     [runs |-> 1, edits |-> 1, cancels |-> 1, jobs |-> 1, crashes |-> 1]}
=============================================================================
