-------------------------- MODULE MCReviewEventStream --------------------------
(***************************************************************************)
(* ReviewEventStream for TLC: the streams of the instance are alike.       *)
(***************************************************************************)
EXTENDS ReviewEventStream, TLC

Symmetry == Permutations(Streams)
===============================================================================
