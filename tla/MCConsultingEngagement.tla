----------------------- MODULE MCConsultingEngagement -----------------------
(***************************************************************************)
(* Small engagements for the model checker.                                *)
(***************************************************************************)
EXTENDS ConsultingEngagement, TLC

\* An authorisation that covers the service, and one that does not.
Coverage == {[from |-> 0, until |-> MaxClock, covers |-> c] : c \in BOOLEAN}

\* An authorisation that runs out at the first tick.
Passing == {[from |-> 0, until |-> 0, covers |-> TRUE]}

Symmetry ==
    Permutations(Sessions) \cup Permutations(Consultants) \cup Permutations(Assessments)
=============================================================================
