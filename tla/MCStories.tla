------------------------------ MODULE MCStories ------------------------------
(***************************************************************************)
(* Instances of Stories for TLC: a story with two recipients, and every    *)
(* story over a few queries.  Some deliveries fail until their attempts    *)
(* are used up, some requests overlap while the story is delivered, and    *)
(* some requests have the story to themselves after others overlapped.     *)
(***************************************************************************)
EXTENDS Stories, Naturals

SmallBounds ==
    {[edits |-> 1, faults |-> 3, occurrences |-> 2],
     [edits |-> 2, faults |-> 0, occurrences |-> 2],
     [edits |-> 2, faults |-> 1, occurrences |-> 1],
     [edits |-> 4, faults |-> 0, occurrences |-> 0]}
=============================================================================
