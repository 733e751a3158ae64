--------------------------- MODULE MCCasTransition --------------------------
(***************************************************************************)
(* The compare-and-set on a learning resource: the entity whose operations *)
(* use every form of it (commands with several candidates, an edit guard   *)
(* that keeps the status, a guarded delete).                               *)
(***************************************************************************)
EXTENDS CasTransition, TLC

Registry == INSTANCE WorkflowOperations

ResourceTransitions ==
    {[from |-> t.from, to |-> t.to] : t \in {u \in Registry!Resource.transitions : u.from # {}}}
        \cup {[from |-> op.allowed, to |-> IF op.kind = "EDIT_GUARD" THEN Keep ELSE Gone] :
                op \in {o \in Registry!ResourceOperations : o.kind # "TRANSITION"}}

ClientSymmetry == Permutations(Clients)
=============================================================================
