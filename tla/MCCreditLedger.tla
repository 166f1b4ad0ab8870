---------------------------- MODULE MCCreditLedger ----------------------------
(***************************************************************************)
(* Instances of CreditLedger for TLC.                                      *)
(***************************************************************************)
EXTENDS CreditLedger, TLC

OneOrg == [o \in Ops |-> CHOOSE org \in Orgs : TRUE]

Symmetry == Permutations(Ops) \union Permutations(Credits) \union Permutations(Subjects)
            \union Permutations(Granters) \union Permutations(Sweepers)
=============================================================================
