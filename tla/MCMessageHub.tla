--------------------------- MODULE MCMessageHub ---------------------------
(***************************************************************************)
(* Two channels, two users and two subscription identities over a window   *)
(* of two records, with a third notification on a channel pushing one out. *)
(* The subscription identities are interchangeable, and so are the two     *)
(* generations, of which the process takes one.                            *)
(***************************************************************************)
EXTENDS MessageHub, TLC

Symmetry == Permutations(Subscriptions) \cup Permutations(Generations)
===========================================================================
