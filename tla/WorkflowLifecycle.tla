-------------------------- MODULE WorkflowLifecycle -------------------------
(***************************************************************************)
(* One record of one entity, driven through the API by every operation the *)
(* map allows: created, edited under an edit guard, moved by a command     *)
(* whose candidate transition is resolved against the current state,       *)
(* deleted under a delete guard.  The record's content is the number of    *)
(* edits made to it; `reviewed` is the content last put before a reviewer. *)
(*                                                                         *)
(* Programmes and courses are created in DRAFT by an operation the map     *)
(* does not list (their registry entries hold no operation for it).        *)
(***************************************************************************)
EXTENDS WorkflowOperations

CONSTANT MaxEdits   \* bound on the edits of one record

ASSUME MaxEditsAssumption == MaxEdits \in Nat

VARIABLES entity, status, content, reviewed

vars == <<entity, status, content, reviewed>>

Deleted == "(deleted)"

ReviewStates == {"UNDER_REVIEW", "IN_REVIEW"}
PublicStates == {"PUBLISHED", "APPROVED", "RELEASED"}

OperationsOf(e) == {op \in Operations : op.entity = e}
Commands(e)     == {op \in OperationsOf(e) : op.kind = "TRANSITION"}
Live            == status \notin {New, Deleted}

\* The shape of the state: a record is in a state the registry lists for its
\* entity, not created yet, or deleted.
TypeOK ==
    /\ entity \in Entities
    /\ status \in Definition[entity].states \cup {New, Deleted}
    /\ content \in 0..MaxEdits
    /\ reviewed \in 0..MaxEdits

Init ==
    /\ entity \in Entities
    /\ status = New
    /\ content = 0
    /\ reviewed = 0

Enter(to) ==
    /\ status' = to
    /\ reviewed' = IF to \in ReviewStates THEN content ELSE reviewed
    /\ UNCHANGED <<entity, content>>

\* A command: resolve the candidate, then the registry's answer for it.
Perform(op) ==
    LET id == ResolveCandidate(entity, op.ids, status)
        to == Validate(entity, id, status)
    IN  /\ op \in Commands(entity)
        /\ status # Deleted
        /\ id # Reject
        /\ to # Reject
        /\ Enter(to)

CreateUnmapped ==
    /\ status = New
    /\ entity \in {"InternshipProgramme", "Course"}
    /\ Enter("DRAFT")

\* The number of edits a record's content has gone through identifies it.
Edit(op) ==
    /\ op \in OperationsOf(entity)
    /\ op.kind = "EDIT_GUARD"
    /\ status \in op.allowed
    /\ content < MaxEdits
    /\ content' = content + 1
    /\ UNCHANGED <<entity, status, reviewed>>

Delete(op) ==
    /\ op \in OperationsOf(entity)
    /\ op.kind = "DELETE_GUARD"
    /\ status \in op.allowed
    /\ status' = Deleted
    /\ UNCHANGED <<entity, content, reviewed>>

Next ==
    \/ CreateUnmapped
    \/ \E op \in Operations : Perform(op) \/ Edit(op) \/ Delete(op)

Spec == Init /\ [][Next]_vars

-----------------------------------------------------------------------------
(* Properties.                                                             *)

\* Two readings of a multi-candidate command exist in the code: the services
\* resolve one candidate against the row they read, the workflow services hand
\* the union of the candidates' from-states to one CAS.  They accept the same
\* states and lead to the same one, whatever the record's state.
ResolutionAgreesWithUnion ==
    \A op \in Commands(entity) :
        LET Candidates == UNION {TransitionsOf(entity, op.ids[i]) : i \in DOMAIN op.ids}
            Union      == UNION {t.from : t \in Candidates}
            Resolved   == ResolveCandidate(entity, op.ids, status)
        IN  Live => /\ Resolved # Reject <=> status \in Union
                    /\ Resolved # Reject =>
                         {Validate(entity, Resolved, status)} = {t.to : t \in Candidates}

\* A state is terminal exactly when no command of the API leaves it: nothing
\* reopens a closed record, and nothing is left in a state that the registry
\* calls open but no operation can move on.
TerminalMeansStuck ==
    Live => (status \in Definition[entity].terminalStates <=>
                \A op \in Commands(entity) : ResolveCandidate(entity, op.ids, status) = Reject)

Reviewed == {"CareerListing", "EmployerOpportunity", "Report"}

\* What a moderator or reviewer saw is what becomes public: once past review,
\* the content of a listing, an opportunity or a report is the content that was
\* put under review, until it goes back and is reviewed again.
PublicContentWasReviewed ==
    entity \in Reviewed /\ status \in PublicStates \cup {"READY_FOR_RELEASE", "CLOSED", "SUPERSEDED"}
        => content = reviewed

=============================================================================
