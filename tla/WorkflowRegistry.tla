-------------------------- MODULE WorkflowRegistry --------------------------
(***************************************************************************)
(* The lifecycle registry every product service consults: which states     *)
(* each persisted entity may be in, which of them are terminal, and the    *)
(* named transitions between them (workflow-registry.ts); the operations   *)
(* of the HTTP API mapped onto those transitions, or onto an edit or       *)
(* delete guard (workflow-operation-map.ts); and the two operators that    *)
(* answer questions about it (workflow-validation.service.ts).             *)
(*                                                                         *)
(* The module has no variables: it is the data and the pure functions the  *)
(* other modules are built on.                                             *)
(***************************************************************************)
EXTENDS Naturals, Sequences

\* The "(new)" pseudo-state: what a create transition starts from.
New == "(new)"

Transition(id, from, to) == [id |-> id, from |-> from, to |-> to]

Lifecycle(states, terminal, transitions) ==
    [states |-> states, terminalStates |-> terminal, transitions |-> transitions]

-----------------------------------------------------------------------------
(* The entities, one definition each.                                      *)

InternshipProgramme == Lifecycle(
    {"DRAFT", "PUBLISHED", "CLOSED", "ARCHIVED"}, {"ARCHIVED"},
    {Transition("WF-PRG-01", {"DRAFT"}, "PUBLISHED"),
     Transition("WF-PRG-02", {"PUBLISHED"}, "CLOSED"),
     Transition("WF-PRG-03", {"CLOSED"}, "ARCHIVED"),
     Transition("WF-PRG-04", {"PUBLISHED"}, "DRAFT")})

InternshipApplication == Lifecycle(
    {"SUBMITTED", "UNDER_REVIEW", "ACCEPTED", "REJECTED"}, {"ACCEPTED", "REJECTED"},
    {Transition("WF-APP-01", {}, "SUBMITTED"),
     Transition("WF-APP-02", {"SUBMITTED"}, "UNDER_REVIEW"),
     Transition("WF-APP-03", {"UNDER_REVIEW"}, "ACCEPTED"),
     Transition("WF-APP-04", {"UNDER_REVIEW"}, "REJECTED")})

Submission == Lifecycle(
    {"SUBMITTED", "UNDER_REVIEW", "REVISION_REQUIRED", "APPROVED"}, {"APPROVED"},
    {Transition("WF-SUB-01", {}, "SUBMITTED"),
     Transition("WF-SUB-02", {"SUBMITTED"}, "UNDER_REVIEW"),
     Transition("WF-SUB-03", {"UNDER_REVIEW"}, "APPROVED"),
     Transition("WF-SUB-04", {"UNDER_REVIEW"}, "REVISION_REQUIRED"),
     Transition("WF-SUB-05", {"REVISION_REQUIRED"}, "SUBMITTED")})

Certificate == Lifecycle(
    {"ISSUED", "REVOKED"}, {"REVOKED"},
    {Transition("WF-CERT-01", {}, "ISSUED"),
     Transition("WF-CERT-02", {"ISSUED"}, "REVOKED")})

CareerListing == Lifecycle(
    {"SUBMITTED", "UNDER_REVIEW", "PUBLISHED", "REJECTED", "CLOSED"}, {"CLOSED"},
    {Transition("WF-LST-01", {}, "SUBMITTED"),
     Transition("WF-LST-02", {"SUBMITTED"}, "UNDER_REVIEW"),
     Transition("WF-LST-03", {"UNDER_REVIEW"}, "PUBLISHED"),
     Transition("WF-LST-04", {"UNDER_REVIEW"}, "REJECTED"),
     Transition("WF-LST-05", {"REJECTED"}, "SUBMITTED"),
     Transition("WF-LST-06", {"PUBLISHED"}, "CLOSED")})

\* Moderated by the same graph as a listing, transcribed once more in the code.
EmployerOpportunity == CareerListing

ConsultingRequest == Lifecycle(
    {"SUBMITTED", "UNDER_REVIEW", "ACCEPTED", "DECLINED", "IN_PROGRESS", "COMPLETED"},
    {"DECLINED", "COMPLETED"},
    {Transition("WF-REQ-01", {}, "SUBMITTED"),
     Transition("WF-REQ-02", {"SUBMITTED"}, "UNDER_REVIEW"),
     Transition("WF-REQ-03", {"UNDER_REVIEW"}, "ACCEPTED"),
     Transition("WF-REQ-04", {"UNDER_REVIEW"}, "DECLINED"),
     Transition("WF-REQ-05", {"ACCEPTED"}, "IN_PROGRESS"),
     Transition("WF-REQ-06", {"IN_PROGRESS"}, "COMPLETED")})

SecurityAssessment == Lifecycle(
    {"PLANNED", "IN_PROGRESS", "COMPLETED", "CANCELLED"}, {"COMPLETED", "CANCELLED"},
    {Transition("WF-ASM-01", {}, "PLANNED"),
     Transition("WF-ASM-02", {"PLANNED"}, "IN_PROGRESS"),
     Transition("WF-ASM-03", {"IN_PROGRESS"}, "COMPLETED"),
     Transition("WF-ASM-04", {"PLANNED"}, "CANCELLED"),
     Transition("WF-ASM-05", {"IN_PROGRESS"}, "CANCELLED")})

Finding == Lifecycle(
    {"OPEN", "REMEDIATION_IN_PROGRESS", "RESOLVED"}, {},
    {Transition("WF-FND-01", {}, "OPEN"),
     Transition("WF-FND-02", {"OPEN"}, "REMEDIATION_IN_PROGRESS"),
     Transition("WF-FND-03", {"OPEN"}, "RESOLVED"),
     Transition("WF-FND-04", {"REMEDIATION_IN_PROGRESS"}, "RESOLVED"),
     Transition("WF-FND-05", {"RESOLVED"}, "OPEN")})

\* A slip in the registry: the destination of WF-RPT-04 is no report state.
ReportMisspelt == Lifecycle(
    {"DRAFT", "IN_REVIEW", "READY_FOR_RELEASE", "RELEASED", "SUPERSEDED"}, {"SUPERSEDED"},
    {Transition("WF-RPT-01", {}, "DRAFT"),
     Transition("WF-RPT-02", {"DRAFT"}, "IN_REVIEW"),
     Transition("WF-RPT-04", {"IN_REVIEW"}, "READY")})

Report == Lifecycle(
    {"DRAFT", "IN_REVIEW", "READY_FOR_RELEASE", "RELEASED", "SUPERSEDED"}, {"SUPERSEDED"},
    {Transition("WF-RPT-01", {}, "DRAFT"),
     Transition("WF-RPT-02", {"DRAFT"}, "IN_REVIEW"),
     Transition("WF-RPT-03", {"IN_REVIEW"}, "DRAFT"),
     Transition("WF-RPT-04", {"IN_REVIEW"}, "READY_FOR_RELEASE"),
     Transition("WF-RPT-05", {"READY_FOR_RELEASE"}, "DRAFT"),
     Transition("WF-RPT-06", {"READY_FOR_RELEASE"}, "RELEASED"),
     Transition("WF-RPT-07", {"RELEASED"}, "SUPERSEDED")})

MonitoringSubscription == Lifecycle(
    {"REQUESTED", "ACTIVE", "PAUSED", "CANCELLED"}, {"CANCELLED"},
    {Transition("WF-MON-01", {}, "REQUESTED"),
     Transition("WF-MON-02", {"REQUESTED"}, "ACTIVE"),
     Transition("WF-MON-03", {"ACTIVE"}, "PAUSED"),
     Transition("WF-MON-04", {"PAUSED"}, "ACTIVE"),
     Transition("WF-MON-05", {"REQUESTED"}, "CANCELLED"),
     Transition("WF-MON-06", {"ACTIVE"}, "CANCELLED"),
     Transition("WF-MON-07", {"PAUSED"}, "CANCELLED")})

\* A slip in the registry: the republishing row is missing.
ResourceWithoutRepublish == Lifecycle(
    {"DRAFT", "PUBLISHED", "ARCHIVED"}, {},
    {Transition("WF-RES-01", {}, "DRAFT"),
     Transition("WF-RES-02", {"DRAFT"}, "PUBLISHED"),
     Transition("WF-RES-03", {"PUBLISHED"}, "ARCHIVED")})

Resource == Lifecycle(
    {"DRAFT", "PUBLISHED", "ARCHIVED"}, {},
    {Transition("WF-RES-01", {}, "DRAFT"),
     Transition("WF-RES-02", {"DRAFT"}, "PUBLISHED"),
     Transition("WF-RES-03", {"PUBLISHED"}, "ARCHIVED"),
     Transition("WF-RES-04", {"ARCHIVED"}, "PUBLISHED")})

Course == Lifecycle(
    {"DRAFT", "APPROVED", "REJECTED"}, {},
    {Transition("WF-CRS-01", {}, "DRAFT"),
     Transition("WF-CRS-02", {"DRAFT"}, "APPROVED"),
     Transition("WF-CRS-03", {"REJECTED"}, "APPROVED"),
     Transition("WF-CRS-04", {"DRAFT"}, "REJECTED"),
     Transition("WF-CRS-05", {"APPROVED"}, "REJECTED")})

Definition ==
    [InternshipProgramme |-> InternshipProgramme,
     InternshipApplication |-> InternshipApplication,
     Submission |-> Submission,
     Certificate |-> Certificate,
     CareerListing |-> CareerListing,
     EmployerOpportunity |-> EmployerOpportunity,
     ConsultingRequest |-> ConsultingRequest,
     SecurityAssessment |-> SecurityAssessment,
     Finding |-> Finding,
     Report |-> Report,
     MonitoringSubscription |-> MonitoringSubscription,
     Resource |-> Resource,
     Course |-> Course]

Entities == DOMAIN Definition

TransitionsOf(entity, id) == {t \in Definition[entity].transitions : t.id = id}

\* requireTransition: an id the registry does not hold is a programming error.
RequireTransition(entity, id) == CHOOSE t \in TransitionsOf(entity, id) : TRUE

-----------------------------------------------------------------------------
(* Questions about the registry.                                           *)

Reject == "(rejected)"

\* The state a named transition leads to from `state`, or Reject.
Validate(entity, id, state) ==
    LET def == Definition[entity]
        t   == RequireTransition(entity, id)
        Allowed == /\ TransitionsOf(entity, id) # {}
                   /\ IF t.from = {}
                      THEN state = New
                      ELSE /\ state \in def.states
                           /\ state \notin def.terminalStates
                           /\ state \in t.from
    IN  IF Allowed THEN t.to ELSE Reject

\* resolveCandidate accepts a candidate on its own `from` set alone: unlike
\* Validate it consults neither the entity's states nor its terminal states.
Applies(entity, id, state) ==
    \E t \in TransitionsOf(entity, id) :
        \/ t.from = {} /\ state = New
        \/ state # New /\ state \in t.from

\* The first of several candidate ids that applies to `state`, or Reject.
ResolveCandidate(entity, ids, state) ==
    LET Matching == {i \in DOMAIN ids : Applies(entity, ids[i], state)}
    IN  IF Matching = {} THEN Reject
        ELSE ids[CHOOSE i \in Matching : \A j \in Matching : i <= j]

=============================================================================
