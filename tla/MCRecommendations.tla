-------------------------- MODULE MCRecommendations --------------------------
(***************************************************************************)
(* Instances of ContextRecommendations for TLC: one run after another,     *)
(* one run with several downvotes and findings, and two runs at once.      *)
(***************************************************************************)
EXTENDS ContextRecommendations

CONSTANTS f1, f2, m1, m2

All == {"status", "vote", "cancel"}

Again ==
    [passes |-> {"p1"}, findings |-> {f1}, messages |-> {m1},
     runs |-> 2, asks |-> All, decisions |-> 2, faults |-> 1]

Grouped ==
    [passes |-> {"p1"}, findings |-> {f1, f2}, messages |-> {m1, m2},
     runs |-> 1, asks |-> {"status"}, decisions |-> 1, faults |-> 0]

Together ==
    [passes |-> {"p1", "p2"}, findings |-> {f1}, messages |-> {m1},
     runs |-> 2, asks |-> {"cancel"}, decisions |-> 1, faults |-> 0]

SmallScopes == {Again, Grouped, Together}
=============================================================================
