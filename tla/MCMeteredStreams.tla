--------------------------- MODULE MCMeteredStreams ---------------------------
(***************************************************************************)
(* Instances of MeteredStreams for TLC.                                    *)
(***************************************************************************)
EXTENDS MeteredStreams

OneOrg == [o \in Ops |-> CHOOSE org \in Orgs : TRUE]
=============================================================================
