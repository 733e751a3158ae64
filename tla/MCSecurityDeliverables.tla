----------------------- MODULE MCSecurityDeliverables -----------------------
(***************************************************************************)
(* A small assessment for the model checker.                               *)
(***************************************************************************)
EXTENDS SecurityDeliverables, TLC

Symmetry ==
    Permutations(Sessions) \cup Permutations(Consultants) \cup Permutations(Reports)
        \cup Permutations(Texts)
=============================================================================
