----------------------------- MODULE MCInternship -----------------------------
(***************************************************************************)
(* One learner, two tasks and two requests.                                *)
(***************************************************************************)
EXTENDS Internship, TLC

Symmetry == Permutations(Tasks) \cup Permutations(Requests)
=============================================================================
