------------------------------ MODULE MCReadSide ------------------------------
(***************************************************************************)
(* A small instance of ReadSide, with the reports of MCEventReview.        *)
(***************************************************************************)
EXTENDS ReadSide, MCEventReview, TLC

\* Who reviews makes no difference; no liveness is checked here.
MCSymmetry == Permutations(Reviewers)
=============================================================================
