---------------------------- MODULE MCStripeEvents ----------------------------
(***************************************************************************)
(* An instance of StripeEvents for TLC.                                    *)
(***************************************************************************)
EXTENDS StripeEvents
=============================================================================
