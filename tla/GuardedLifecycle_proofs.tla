---------------------- MODULE GuardedLifecycle_proofs ----------------------
(***************************************************************************)
(* What the tables guarantee behind the guard.  Here the lifecycle         *)
(* registry, the operation map, the role requirements and the routes are   *)
(* read entry by entry: each group of entries is shown to fit the others,  *)
(* and the theorems use of the tables only that they fit.                  *)
(***************************************************************************)
EXTENDS PermissionGuard_proofs, FiniteSetTheorems

-----------------------------------------------------------------------------
(* What the registry owes to the operators that read it.                   *)

\* Names are unique, a transition ends in a state of its entity, and none starts
\* from a terminal one.
WellFormed(d) ==
    /\ d.terminalStates \subseteq d.states
    /\ d.states \cap {New, Deleted, Reject} = {}
    /\ \A t \in d.transitions :
          /\ t.id # Reject
          /\ t.to \in d.states
          /\ t.from \subseteq d.states \ d.terminalStates
    /\ \A t, u \in d.transitions : t.id = u.id => t = u

\* The transitions a command may take.
CandidatesOf(op, d) == {t \in d.transitions : \E i \in DOMAIN op.ids : t.id = op.ids[i]}

\* The candidates of a command are ordered and lead to one state; a guard names
\* states of the entity.
CommandFits(op, d) ==
    /\ DOMAIN op.ids \subseteq 1..3
    /\ \A t, u \in CandidatesOf(op, d) : t.to = u.to
    /\ op.allowed \subseteq d.states

\* Every state that is not terminal has a way out ...
HasExits(d) ==
    \A s \in d.states \ d.terminalStates : \E t \in d.transitions : s \in t.from

\* ... and every way out is offered by a command.
ExitsAreOffered(ops, e, d) ==
    \A t \in d.transitions : t.from # {} =>
        \E op \in ops : /\ op.kind = "TRANSITION"
                        /\ op.entity = e
                        /\ \E i \in DOMAIN op.ids : op.ids[i] = t.id

\* Past review: the states PublicContentWasReviewed speaks of.
PastReview == PublicStates \cup {"READY_FOR_RELEASE", "CLOSED", "SUPERSEDED"}
Settled    == ReviewStates \cup PastReview

\* A state past review is reached from review only ...
ReviewComesFirst(d) ==
    \A t \in d.transitions : t.to \in PastReview => t.from # {} /\ t.from \subseteq Settled

\* ... and from review on nothing is edited.
ReviewFits(op, d) ==
    /\ ReviewComesFirst(d)
    /\ op.kind = "EDIT_GUARD" => op.allowed \cap Settled = {}

\* Who asks, and with which operations a record is brought in or rewritten.
Asker == [CareerListing |-> BUSINESS, EmployerOpportunity |-> BUSINESS,
          ConsultingRequest |-> BUSINESS, InternshipApplication |-> LEARNER,
          Submission |-> LEARNER]

ClientAsks  == {"API-BIZCAR-001", "API-BIZCAR-004", "API-BIZOPP-001", "API-BIZOPP-004",
                "API-CON-001"}
LearnerAsks == {"API-APP-001", "API-SUB-001"}

AsksOf(asker) == IF asker = BUSINESS THEN ClientAsks ELSE LearnerAsks

\* The operations that make a request count.
Decisions == {"API-MOD-CAR-02", "API-MOD-OPP-02", "API-APP-007", "API-REV-004", "API-CON-010"}

\* Bringing in and rewriting is asking, and only a decision makes the record count.
SidesFit(op, d, asker, counts) ==
    /\ op.kind = "EDIT_GUARD" => op.api \in AsksOf(asker) /\ op.allowed \cap counts = {}
    /\ \A t \in CandidatesOf(op, d) :
          /\ t.from = {} => op.api \in AsksOf(asker) /\ t.to \notin counts
          /\ t.to \in counts => op.api \in Decisions

-----------------------------------------------------------------------------
(* What the operation map and the routes owe to the guard.                 *)

\* The operations that an Admin oversees without a scope.
OverseenApis ==
    {"API-ASM-002", "API-ASM-003", "API-COMP-001", "API-COMP-002", "API-CON-006", "API-CON-007",
     "API-CON-009", "API-CON-010", "API-CON-011", "API-CON-013", "API-CON-014", "API-CON-015",
     "API-FND-002", "API-FND-003", "API-FND-005", "API-MON-004", "API-REV-001", "API-REV-002",
     "API-REV-003", "API-REV-004", "API-REV-005", "API-RPT-001", "API-RPT-002", "API-RPT-003",
     "API-RPT-004", "API-RPT-006", "API-RPT-013", "API-SCR-002"}

\* The concealed operations whose scope is looked up for the caller's own collection.
CollectionApis ==
    {"API-BIZCAR-001", "API-BIZOPP-001", "API-MON-001", "API-APP-002", "API-ASM-002",
     "API-ASM-007", "API-BIZCAR-002", "API-BIZOPP-002", "API-CER-003", "API-CON-002",
     "API-CON-006", "API-ENR-001", "API-MON-002", "API-PORT-002", "API-PORT-003",
     "API-PORT-004", "API-PORT-007", "API-PORT-010", "API-PORT-013", "API-PORT-016",
     "API-PORT-019", "API-REV-001", "API-RPT-010"}

\* The operations that are public or ask for a session only.
OpenApis ==
    {"API-AUTH-001", "API-AUTH-002", "API-AUTH-003", "API-AUTH-004", "API-AUTH-005",
     "API-AUTH-006", "API-AUTH-007", "API-AUTH-008", "API-AUTH-009", "API-AUTH-010",
     "API-CAR-001", "API-CAR-002", "API-CAR-003", "API-CER-001", "API-EMP-001", "API-EMP-002",
     "API-INT-001", "API-INT-002", "API-PORT-001", "API-RES-001", "API-RES-002"}

\* Technical work asks for the recorded authorisation; what is concealed is looked up
\* as a resource or for the caller's own collection; asking and deciding are for
\* different roles.
MapFits(op) ==
    /\ op.roles \subseteq Roles
    /\ TECHNICAL \in op.flags => AUTH_SCOPE \in ScopeSet(op) /\ op.api \notin OverseenApis
    /\ op.key \in ConcealExistenceKeys /\ RESOURCE \notin op.flags
          /\ ScopeSet(op) \cap ResourceScopes # {} => op.api \in CollectionApis
    /\ op.api \in ClientAsks => op.roles = {BUSINESS}
    /\ op.api \in LearnerAsks => op.roles = {LEARNER}
    /\ op.api \in Decisions => op.roles \cap {BUSINESS, LEARNER} = {}

\* A requirement of one role that asks for a scope concerns a resource, and one that
\* does not ask for the authorisation is an overseer's.
RequirementFits(r) ==
    /\ ScopeSet(r) # {} => r.resource = TRUE
    /\ AUTH_SCOPE \in ScopeSet(r) \/ r.api \in OverseenApis

\* A guarded route is one the map knows; a route with a path parameter is not about
\* the caller's collection.
RouteFits(route, ids) ==
    /\ route.access = "AUTHORIZE" => route.api \in ids
    /\ route.access # "AUTHORIZE" => route.api \in OpenApis
    /\ route.locator # Collection => route.api \notin CollectionApis

-----------------------------------------------------------------------------
(* The inductive invariants.                                               *)

\* From review on, the content is the reviewed content.
ReviewInv == entity \in Reviewed /\ status \in Settled => content = reviewed

RecordInv == TypeOK /\ ReviewInv

\* The asking side has a hand on every record that is there, and another side on
\* every record that counts.
SidesInv ==
    entity \in DOMAIN TwoSided =>
        /\ Live => Asker[entity] \in hands
        /\ status \in TwoSided[entity] => hands # {Asker[entity]}

\* A request that has looked its resource up was asked to, and one that conceals it
\* will not be refused otherwise than with a 404.
Betraying == {"FORBIDDEN", "SECURITY_SCOPE_NOT_AUTHORIZED"}

ConcealInv ==
    /\ request.stage \in {"idle", "routing", "resolving"} =>
          request.resource = Unread /\ request.refusal = NoAnswer
    /\ request.stage = "resolving" => NeedsResource(Required)
    /\ request.resource # Unread => NeedsResource(Required)
    /\ Concealing /\ request.resource # Unread
          => request.refusal \notin Betraying /\ request.answer \notin Betraying

-----------------------------------------------------------------------------
(* The registry, entity by entity.                                         *)

LEMMA RegistryFits == \A e \in Entities : WellFormed(Definition[e])
<1> USE DEF WellFormed, Lifecycle, Transition, New, Deleted, Reject
<1>1. WellFormed(InternshipProgramme) /\ WellFormed(InternshipApplication)
  BY DEF InternshipProgramme, InternshipApplication
<1>2. WellFormed(Submission) /\ WellFormed(Certificate)
  BY DEF Submission, Certificate
<1>3. WellFormed(CareerListing) /\ WellFormed(EmployerOpportunity)
  BY DEF CareerListing, EmployerOpportunity
<1>4. WellFormed(ConsultingRequest)
  BY DEF ConsultingRequest
<1>5. WellFormed(SecurityAssessment) /\ WellFormed(Finding)
  BY DEF SecurityAssessment, Finding
<1>6. WellFormed(Report)
  BY DEF Report
<1>7. WellFormed(MonitoringSubscription)
  BY DEF MonitoringSubscription
<1>8. WellFormed(Resource) /\ WellFormed(Course)
  BY DEF Resource, Course
<1> HIDE DEF WellFormed, Lifecycle, Transition, New, Deleted, Reject
<1> QED
  BY <1>1, <1>2, <1>3, <1>4, <1>5, <1>6, <1>7, <1>8 DEF Entities, Definition

-----------------------------------------------------------------------------
(* The lifecycle operations, entity by entity.                             *)

\* What every operation of an entity owes to the registry.
OperationFits(op) ==
    /\ op.entity \in Entities
    /\ CommandFits(op, Definition[op.entity])
    /\ op.entity \in Reviewed => ReviewFits(op, Definition[op.entity])
    /\ op.entity \in DOMAIN TwoSided =>
          SidesFit(op, Definition[op.entity], Asker[op.entity], TwoSided[op.entity])

\* Entities that nobody asks for and nobody reviews.
LEMMA PlainOperationsFit ==
    \A op \in CertificateOperations \cup AssessmentOperations \cup FindingOperations
                \cup MonitoringOperations \cup ResourceOperations \cup CourseOperations :
        OperationFits(op)
<1> USE DEF CommandFits, CandidatesOf, Lifecycle, Transition, Command, EditGuard, DeleteGuard
<1>1. \A op \in CertificateOperations :
         op.entity = "Certificate" /\ CommandFits(op, Certificate)
  BY DEF CertificateOperations, Certificate
<1>2. \A op \in AssessmentOperations :
         op.entity = "SecurityAssessment" /\ CommandFits(op, SecurityAssessment)
  BY DEF AssessmentOperations, SecurityAssessment
<1>3. \A op \in FindingOperations : op.entity = "Finding" /\ CommandFits(op, Finding)
  BY DEF FindingOperations, Finding
<1>4. \A op \in MonitoringOperations :
         op.entity = "MonitoringSubscription" /\ CommandFits(op, MonitoringSubscription)
  BY DEF MonitoringOperations, MonitoringSubscription
<1>5. \A op \in ResourceOperations : op.entity = "Resource" /\ CommandFits(op, Resource)
  BY DEF ResourceOperations, Resource
<1>6. \A op \in CourseOperations : op.entity = "Course" /\ CommandFits(op, Course)
  BY DEF CourseOperations, Course
<1> HIDE DEF CommandFits, CandidatesOf, Lifecycle, Transition, Command, EditGuard, DeleteGuard
<1>7. /\ Definition["Certificate"] = Certificate
      /\ Definition["SecurityAssessment"] = SecurityAssessment
      /\ Definition["Finding"] = Finding
      /\ Definition["MonitoringSubscription"] = MonitoringSubscription
      /\ Definition["Resource"] = Resource
      /\ Definition["Course"] = Course
      /\ {"Certificate", "SecurityAssessment", "Finding", "MonitoringSubscription", "Resource",
          "Course"} \subseteq Entities
  BY DEF Definition, Entities
<1>8. {"Certificate", "SecurityAssessment", "Finding", "MonitoringSubscription", "Resource",
       "Course"} \cap (Reviewed \cup DOMAIN TwoSided) = {}
  BY DEF Reviewed, TwoSided
<1> QED
  BY <1>1, <1>2, <1>3, <1>4, <1>5, <1>6, <1>7, <1>8 DEF OperationFits

\* Entities where one side asks and the other decides.
LEMMA TwoSidedOperationsFit ==
    \A op \in ListingOperations \cup OpportunityOperations \cup ConsultingOperations
                \cup SubmissionOperations \cup InternshipOperations :
        OperationFits(op)
<1> USE DEF Lifecycle, Transition, Command, EditGuard
<1>1. \A op \in ListingOperations : op.entity = "CareerListing" /\ CommandFits(op, CareerListing)
  BY DEF ListingOperations, CareerListing, CommandFits, CandidatesOf
<1>2. \A op \in OpportunityOperations :
         op.entity = "EmployerOpportunity" /\ CommandFits(op, CareerListing)
  BY DEF OpportunityOperations, CareerListing, CommandFits, CandidatesOf
<1>3. \A op \in ConsultingOperations :
         op.entity = "ConsultingRequest" /\ CommandFits(op, ConsultingRequest)
  BY DEF ConsultingOperations, ConsultingRequest, CommandFits, CandidatesOf
<1>4. \A op \in SubmissionOperations : op.entity = "Submission" /\ CommandFits(op, Submission)
  BY DEF SubmissionOperations, Submission, CommandFits, CandidatesOf
<1>5. \A op \in InternshipOperations :
         \/ op.entity = "InternshipApplication" /\ CommandFits(op, InternshipApplication)
         \/ op.entity = "InternshipProgramme" /\ CommandFits(op, InternshipProgramme)
  BY DEF InternshipOperations, InternshipApplication, InternshipProgramme, CommandFits,
         CandidatesOf
<1>6. \A op \in ListingOperations : SidesFit(op, CareerListing, BUSINESS, {"PUBLISHED"})
  <2>1. \A op \in ListingOperations :
            op.kind = "EDIT_GUARD" => op.api = "API-BIZCAR-004" /\ op.allowed = {"REJECTED"}
    BY DEF ListingOperations
  <2>2. \A op \in ListingOperations : \A i \in DOMAIN op.ids :
            /\ op.ids[i] = "WF-LST-01" => op.api = "API-BIZCAR-001"
            /\ op.ids[i] = "WF-LST-03" => op.api = "API-MOD-CAR-02"
    BY DEF ListingOperations
  <2>3. \A t \in CareerListing.transitions :
            /\ t.from = {} => t.id = "WF-LST-01" /\ t.to = "SUBMITTED"
            /\ t.to = "PUBLISHED" => t.id = "WF-LST-03"
    BY DEF CareerListing
  <2> QED
    BY <2>1, <2>2, <2>3 DEF SidesFit, CandidatesOf, AsksOf, ClientAsks, LearnerAsks, Decisions,
                            BUSINESS, LEARNER
<1>7. \A op \in OpportunityOperations : SidesFit(op, CareerListing, BUSINESS, {"PUBLISHED"})
  <2>1. \A op \in OpportunityOperations :
            op.kind = "EDIT_GUARD" => op.api = "API-BIZOPP-004" /\ op.allowed = {"REJECTED"}
    BY DEF OpportunityOperations
  <2>2. \A op \in OpportunityOperations : \A i \in DOMAIN op.ids :
            /\ op.ids[i] = "WF-LST-01" => op.api = "API-BIZOPP-001"
            /\ op.ids[i] = "WF-LST-03" => op.api = "API-MOD-OPP-02"
    BY DEF OpportunityOperations
  <2>3. \A t \in CareerListing.transitions :
            /\ t.from = {} => t.id = "WF-LST-01" /\ t.to = "SUBMITTED"
            /\ t.to = "PUBLISHED" => t.id = "WF-LST-03"
    BY DEF CareerListing
  <2> QED
    BY <2>1, <2>2, <2>3 DEF SidesFit, CandidatesOf, AsksOf, ClientAsks, LearnerAsks, Decisions,
                            BUSINESS, LEARNER
<1>8. \A op \in ConsultingOperations :
         SidesFit(op, ConsultingRequest, BUSINESS, {"ACCEPTED"})
  <2>1. \A op \in ConsultingOperations :
            op.kind # "EDIT_GUARD"
    BY DEF ConsultingOperations
  <2>2. \A op \in ConsultingOperations : \A i \in DOMAIN op.ids :
            /\ op.ids[i] = "WF-REQ-01" => op.api = "API-CON-001"
            /\ op.ids[i] = "WF-REQ-03" => op.api = "API-CON-010"
    BY DEF ConsultingOperations
  <2>3. \A t \in ConsultingRequest.transitions :
            /\ t.from = {} => t.id = "WF-REQ-01" /\ t.to = "SUBMITTED"
            /\ t.to = "ACCEPTED" => t.id = "WF-REQ-03"
    BY DEF ConsultingRequest
  <2> QED
    BY <2>1, <2>2, <2>3 DEF SidesFit, CandidatesOf, AsksOf, ClientAsks, LearnerAsks, Decisions,
                            BUSINESS, LEARNER
<1>9. \A op \in SubmissionOperations : SidesFit(op, Submission, LEARNER, {"APPROVED"})
  <2>1. \A op \in SubmissionOperations :
            op.kind # "EDIT_GUARD"
    BY DEF SubmissionOperations
  <2>2. \A op \in SubmissionOperations : \A i \in DOMAIN op.ids :
            /\ op.ids[i] = "WF-SUB-01" => op.api = "API-SUB-001"
            /\ op.ids[i] = "WF-SUB-03" => op.api = "API-REV-004"
    BY DEF SubmissionOperations
  <2>3. \A t \in Submission.transitions :
            /\ t.from = {} => t.id = "WF-SUB-01" /\ t.to = "SUBMITTED"
            /\ t.to = "APPROVED" => t.id = "WF-SUB-03"
    BY DEF Submission
  <2> QED
    BY <2>1, <2>2, <2>3 DEF SidesFit, CandidatesOf, AsksOf, ClientAsks, LearnerAsks, Decisions,
                            BUSINESS, LEARNER
<1>10. \A op \in InternshipOperations : op.entity = "InternshipApplication" =>
          SidesFit(op, InternshipApplication, LEARNER, {"ACCEPTED"})
  <2>1. \A op \in InternshipOperations :
            op.entity = "InternshipApplication" => op.kind # "EDIT_GUARD"
    BY DEF InternshipOperations
  <2>2. \A op \in InternshipOperations : \A i \in DOMAIN op.ids :
            /\ op.ids[i] = "WF-APP-01" => op.api = "API-APP-001"
            /\ op.ids[i] = "WF-APP-03" => op.api = "API-APP-007"
    BY DEF InternshipOperations
  <2>3. \A t \in InternshipApplication.transitions :
            /\ t.from = {} => t.id = "WF-APP-01" /\ t.to = "SUBMITTED"
            /\ t.to = "ACCEPTED" => t.id = "WF-APP-03"
    BY DEF InternshipApplication
  <2> QED
    BY <2>1, <2>2, <2>3 DEF SidesFit, CandidatesOf, AsksOf, ClientAsks, LearnerAsks, Decisions,
                            BUSINESS, LEARNER
<1> USE DEF ReviewFits, ReviewComesFirst, Settled, PastReview, PublicStates, ReviewStates
<1>11. ReviewComesFirst(CareerListing)
  BY DEF CareerListing
<1>12. \A op \in ListingOperations \cup OpportunityOperations :
          op.kind = "EDIT_GUARD" => op.allowed \cap Settled = {}
  BY DEF ListingOperations, OpportunityOperations
<1> HIDE DEF ReviewFits, ReviewComesFirst, Settled, PastReview, PublicStates, ReviewStates,
             Lifecycle, Transition, Command, EditGuard
<1>13. /\ Definition["CareerListing"] = CareerListing
       /\ Definition["EmployerOpportunity"] = CareerListing
       /\ Definition["ConsultingRequest"] = ConsultingRequest
       /\ Definition["Submission"] = Submission
       /\ Definition["InternshipApplication"] = InternshipApplication
       /\ Definition["InternshipProgramme"] = InternshipProgramme
       /\ {"CareerListing", "EmployerOpportunity", "ConsultingRequest", "Submission",
           "InternshipApplication", "InternshipProgramme"} \subseteq Entities
  BY DEF Definition, Entities, EmployerOpportunity
<1>14. /\ Asker["CareerListing"] = BUSINESS /\ TwoSided["CareerListing"] = {"PUBLISHED"}
       /\ Asker["EmployerOpportunity"] = BUSINESS
       /\ TwoSided["EmployerOpportunity"] = {"PUBLISHED"}
       /\ Asker["ConsultingRequest"] = BUSINESS /\ TwoSided["ConsultingRequest"] = {"ACCEPTED"}
       /\ Asker["Submission"] = LEARNER /\ TwoSided["Submission"] = {"APPROVED"}
       /\ Asker["InternshipApplication"] = LEARNER
       /\ TwoSided["InternshipApplication"] = {"ACCEPTED"}
       /\ "InternshipProgramme" \notin DOMAIN TwoSided
       /\ {"ConsultingRequest", "Submission", "InternshipApplication", "InternshipProgramme"}
            \cap Reviewed = {}
  BY DEF Asker, TwoSided, Reviewed
<1>15. \A op \in ListingOperations \cup OpportunityOperations : OperationFits(op)
  BY <1>1, <1>2, <1>6, <1>7, <1>11, <1>12, <1>13, <1>14 DEF OperationFits, ReviewFits
<1>16. \A op \in ConsultingOperations \cup SubmissionOperations : OperationFits(op)
  BY <1>3, <1>4, <1>8, <1>9, <1>13, <1>14 DEF OperationFits
<1>17. \A op \in InternshipOperations : OperationFits(op)
  BY <1>5, <1>10, <1>13, <1>14 DEF OperationFits
<1> QED
  BY <1>15, <1>16, <1>17

\* Reports are reviewed, but prepared and reviewed by one side.
LEMMA ReportOperationsFit == \A op \in ReportOperations : OperationFits(op)
<1>1. \A op \in ReportOperations : op.entity = "Report" /\ CommandFits(op, Report)
  BY DEF ReportOperations, Report, CommandFits, CandidatesOf, Lifecycle, Transition, Command,
         EditGuard
<1>2. ReviewComesFirst(Report)
  BY DEF Report, ReviewComesFirst, Settled, PastReview, PublicStates, ReviewStates, Lifecycle,
         Transition
<1>3. \A op \in ReportOperations : op.kind = "EDIT_GUARD" => op.allowed \cap Settled = {}
  BY DEF ReportOperations, Settled, PastReview, PublicStates, ReviewStates, Command, EditGuard
<1>4. Definition["Report"] = Report /\ "Report" \in Entities /\ "Report" \notin DOMAIN TwoSided
  BY DEF Definition, Entities, TwoSided
<1> QED
  BY <1>1, <1>2, <1>3, <1>4 DEF OperationFits, ReviewFits

LEMMA OperationsFit == \A op \in Operations : OperationFits(op)
BY PlainOperationsFit, TwoSidedOperationsFit, ReportOperationsFit DEF Operations

LEMMA OpenStatesHaveExits == \A e \in Entities : HasExits(Definition[e])
<1> USE DEF HasExits, Lifecycle, Transition
<1>1. HasExits(Certificate) /\ HasExits(CareerListing)
  BY DEF Certificate, CareerListing
<1>2. HasExits(ConsultingRequest) /\ HasExits(Submission)
  BY DEF ConsultingRequest, Submission
<1>3. HasExits(InternshipApplication) /\ HasExits(InternshipProgramme)
  BY DEF InternshipApplication, InternshipProgramme
<1>4. HasExits(SecurityAssessment) /\ HasExits(Finding)
  BY DEF SecurityAssessment, Finding
<1>5. HasExits(Report) /\ HasExits(MonitoringSubscription)
  BY DEF Report, MonitoringSubscription
<1>6. HasExits(Resource) /\ HasExits(Course)
  BY DEF Resource, Course
<1> HIDE DEF HasExits, Lifecycle, Transition
<1> QED
  BY <1>1, <1>2, <1>3, <1>4, <1>5, <1>6 DEF Entities, Definition, EmployerOpportunity

LEMMA ExitsOffered == \A e \in Entities : ExitsAreOffered(Operations, e, Definition[e])
<1> USE DEF ExitsAreOffered, Lifecycle, Transition, Command, EditGuard, DeleteGuard
<1>1. ExitsAreOffered(CertificateOperations, "Certificate", Certificate)
  BY DEF CertificateOperations, Certificate
<1>2. ExitsAreOffered(ListingOperations, "CareerListing", CareerListing)
  BY DEF ListingOperations, CareerListing
<1>3. ExitsAreOffered(OpportunityOperations, "EmployerOpportunity", CareerListing)
  BY DEF OpportunityOperations, CareerListing
<1>4. ExitsAreOffered(ConsultingOperations, "ConsultingRequest", ConsultingRequest)
  BY DEF ConsultingOperations, ConsultingRequest
<1>5. ExitsAreOffered(SubmissionOperations, "Submission", Submission)
  BY DEF SubmissionOperations, Submission
<1>6. ExitsAreOffered(InternshipOperations, "InternshipApplication", InternshipApplication)
  BY DEF InternshipOperations, InternshipApplication
<1>7. ExitsAreOffered(InternshipOperations, "InternshipProgramme", InternshipProgramme)
  BY DEF InternshipOperations, InternshipProgramme
<1>8. ExitsAreOffered(AssessmentOperations, "SecurityAssessment", SecurityAssessment)
  BY DEF AssessmentOperations, SecurityAssessment
<1>9. ExitsAreOffered(FindingOperations, "Finding", Finding)
  BY DEF FindingOperations, Finding
<1>10. ExitsAreOffered(ReportOperations, "Report", Report)
  BY DEF ReportOperations, Report
<1>11. ExitsAreOffered(MonitoringOperations, "MonitoringSubscription", MonitoringSubscription)
  BY DEF MonitoringOperations, MonitoringSubscription
<1>12. ExitsAreOffered(ResourceOperations, "Resource", Resource)
  BY DEF ResourceOperations, Resource
<1>13. ExitsAreOffered(CourseOperations, "Course", Course)
  BY DEF CourseOperations, Course
<1> HIDE DEF ExitsAreOffered, Lifecycle, Transition, Command, EditGuard, DeleteGuard
<1>14. \A ops, e, d : ops \subseteq Operations /\ ExitsAreOffered(ops, e, d)
          => ExitsAreOffered(Operations, e, d)
  BY DEF ExitsAreOffered
<1>15. \A e \in Entities : \E ops \in SUBSET Operations : ExitsAreOffered(ops, e, Definition[e])
  BY <1>1, <1>2, <1>3, <1>4, <1>5, <1>6, <1>7, <1>8, <1>9, <1>10, <1>11, <1>12, <1>13
  DEF Entities, Definition, EmployerOpportunity, Operations
<1> QED
  BY <1>14, <1>15

-----------------------------------------------------------------------------
(* The operation map, area by area.                                        *)

LEMMA MapFitsAll == \A op \in ApiOperations : MapFits(op)
<1> USE DEF MapFits, Op, Roles, ScopeSet, ResourceScopes, ConcealExistenceKeys, OverseenApis,
            CollectionApis, ClientAsks, LearnerAsks, Decisions, LEARNER, BUSINESS, MENTOR,
            CONSULTANT, ADMIN, OWN, ORG, ASG, PUB, COND, AUTH_SCOPE, RESOURCE, TECHNICAL,
            AUDIT, NoKey
<1>1. \A op \in AccountApis \cup AdminAccountApis \cup AnalyticsApis \cup AuditApis \cup
             RegistrationApis \cup SessionApis :
         MapFits(op)
  BY DEF AccountApis, AdminAccountApis, AnalyticsApis, AuditApis, RegistrationApis,
         SessionApis, AdminOp, ClientOp, UnkeyedOp
<1>2. \A op \in SystemApis \cup FileApis \cup DonationApis :
         MapFits(op)
  BY DEF SystemApis, FileApis, DonationApis, AdminOp, UnkeyedOp, CallerDomainOp
<1>3. \A op \in CourseAdminApis \cup ResourceAdminApis \cup CourseApis \cup ResourceApis :
         MapFits(op)
  BY DEF CourseAdminApis, ResourceAdminApis, CourseApis, ResourceApis, AdminOp, LearnerOp
<1>4. \A op \in OwnApplicationApis \cup ApplicationReviewApis \cup EnrollmentApis \cup
             ProgrammeApis \cup ProgrammeClosingApis \cup TaskApis :
         MapFits(op)
  BY DEF OwnApplicationApis, ApplicationReviewApis, EnrollmentApis, ProgrammeApis,
         ProgrammeClosingApis, TaskApis, AdminOp, LearnerOp
<1>5. \A op \in SubmissionApis \cup ReviewApis \cup CompletionApis \cup CertificateApis :
         MapFits(op)
  BY DEF SubmissionApis, ReviewApis, CompletionApis, CertificateApis, AdminOp, LearnerOp
<1>6. \A op \in OwnListingApis \cup OwnOpportunityApis \cup PublicListingApis \cup
             EmployerDirectoryApis \cup ListingModerationApis \cup OpportunityModerationApis :
         MapFits(op)
  BY DEF OwnListingApis, OwnOpportunityApis, PublicListingApis, EmployerDirectoryApis,
         ListingModerationApis, OpportunityModerationApis, AdminOp, ClientOp
<1>7. \A op \in PortfolioApis \cup PortfolioLinkAndSkillApis \cup
             PortfolioCertificationApis \cup PortfolioAchievementApis :
         MapFits(op)
  BY DEF PortfolioApis, PortfolioLinkAndSkillApis, PortfolioCertificationApis,
         PortfolioAchievementApis, LearnerOp
<1>8. \A op \in ClientRequestApis \cup RequestReviewApis \cup DeliveryApis :
         MapFits(op)
  BY DEF ClientRequestApis, RequestReviewApis, DeliveryApis, AdminOp, ClientOp, ConsultantOp,
         TechnicalOp
<1>9. \A op \in AssessmentApis \cup ClientAssessmentApis \cup FindingApis \cup
             ClientMonitoringApis \cup MonitoringApis :
         MapFits(op)
  BY DEF AssessmentApis, ClientAssessmentApis, FindingApis, ClientMonitoringApis,
         MonitoringApis, AdminOp, ClientOp, ConsultantOp, TechnicalOp
<1>10. \A op \in ReportDraftApis \cup ReportReleaseApis \cup ScoreApis :
         MapFits(op)
  BY DEF ReportDraftApis, ReportReleaseApis, ScoreApis, AdminOp, ClientOp, ConsultantOp,
         TechnicalOp
<1> HIDE DEF MapFits, Op, Roles, ScopeSet, ResourceScopes, ConcealExistenceKeys, OverseenApis,
             CollectionApis, ClientAsks, LearnerAsks, Decisions, LEARNER, BUSINESS, MENTOR,
             CONSULTANT, ADMIN, OWN, ORG, ASG, PUB, COND, AUTH_SCOPE, RESOURCE, TECHNICAL,
             AUDIT, NoKey
<1> QED
  BY <1>1, <1>2, <1>3, <1>4, <1>5, <1>6, <1>7, <1>8, <1>9, <1>10
  DEF ApiOperations

\* The requirement of one role: an overseer's asks for nothing, any other for the
\* scopes of the operation, on a resource.
LEMMA RequirementsFit == \A r \in RoleRequirements : RequirementFits(r)
<1> USE DEF RequirementFits, Requirement, ScopeSet, ASG, AUTH_SCOPE, OverseenApis
<1>1. \A api, role : /\ RequirementFits(Requirement(api, role, <<ASG, AUTH_SCOPE>>, TRUE))
                     /\ RequirementFits(Requirement(api, role, <<AUTH_SCOPE>>, TRUE))
  OBVIOUS
<1>2. \A api \in OverseenApis : \A role : /\ RequirementFits(Requirement(api, role, <<ASG>>, TRUE))
                                          /\ RequirementFits(Requirement(api, role, <<>>, FALSE))
  OBVIOUS
<1> HIDE DEF RequirementFits, Requirement, ScopeSet, ASG, AUTH_SCOPE, OverseenApis
<1>3. ASSUME NEW apis, NEW r \in AllTechnical(apis)
      PROVE  RequirementFits(r)
  <2>1. PICK api \in apis : r \in TechnicalWork(api)
    BY <1>3 DEF AllTechnical
  <2> QED
    BY <1>1, <2>1 DEF TechnicalWork
<1>4. ASSUME NEW reviewer, NEW apis \in SUBSET OverseenApis, NEW r \in AllOversight(apis, reviewer)
      PROVE  RequirementFits(r)
  <2>1. PICK api \in apis : r \in Oversight(api, reviewer)
    BY <1>4 DEF AllOversight
  <2> QED
    BY <1>2, <2>1 DEF Oversight
<1>5. \A r \in AssessmentRequirements \cup CompletionRequirements \cup FindingRequirements :
         RequirementFits(r)
  <2>1. /\ {"API-ASM-002", "API-ASM-003"} \subseteq OverseenApis
        /\ {"API-COMP-001", "API-COMP-002"} \subseteq OverseenApis
        /\ {"API-FND-002", "API-FND-003", "API-FND-005"} \subseteq OverseenApis
    BY DEF OverseenApis
  <2> QED
    BY <1>3, <1>4, <2>1 DEF AssessmentRequirements, CompletionRequirements, FindingRequirements
<1>6. \A r \in ReviewRequirements \cup ReportRequirements : RequirementFits(r)
  <2>1. /\ {"API-REV-001", "API-REV-002", "API-REV-003", "API-REV-004", "API-REV-005"}
              \subseteq OverseenApis
        /\ {"API-RPT-001", "API-RPT-002", "API-RPT-003", "API-RPT-004", "API-RPT-006",
            "API-RPT-013"} \subseteq OverseenApis
    BY DEF OverseenApis
  <2> QED
    BY <1>4, <2>1 DEF ReviewRequirements, ReportRequirements
<1>7. \A r \in ConsultingRequirements : RequirementFits(r)
  <2>1. {"API-CON-006", "API-CON-007", "API-CON-009", "API-CON-010", "API-CON-011",
         "API-CON-013", "API-CON-014", "API-CON-015"} \subseteq OverseenApis
    BY DEF OverseenApis
  <2>2. \A r \in TechnicalWork("API-CON-012") : RequirementFits(r)
    BY <1>1 DEF TechnicalWork
  <2> QED
    BY <1>4, <2>1, <2>2 DEF ConsultingRequirements
<1>8. \A r \in MonitoringRequirements \cup ScoreRequirements : RequirementFits(r)
  <2>1. "API-MON-004" \in OverseenApis /\ "API-SCR-002" \in OverseenApis
    BY DEF OverseenApis
  <2> QED
    BY <1>1, <1>2, <2>1 DEF MonitoringRequirements, ScoreRequirements, TechnicalWork, Oversight
<1> QED
  BY <1>5, <1>6, <1>7, <1>8 DEF RoleRequirements

-----------------------------------------------------------------------------
(* The routes, controller by controller.                                   *)

LEMMA RoutesFitAll == \A route \in Routes : RouteFits(route, ApiIds)
<1> DEFINE Ids(ops) == {op.api : op \in ops}
<1> USE DEF RouteFits, Authorized, Public, Session, Collection, OpenApis, CollectionApis, Op
<1>1. \A route \in AuthRoutes : RouteFits(route, Ids({}))
  BY DEF AuthRoutes
<1>2. \A route \in AdminAccountRoutes : RouteFits(route, Ids(AdminAccountApis))
  BY DEF AdminAccountRoutes, AdminAccountApis, AdminOp
<1>3. \A route \in AuditLogRoutes : RouteFits(route, Ids(AuditApis))
  BY DEF AuditLogRoutes, AuditApis, AdminOp
<1>4. \A route \in CareerListingRoutes :
         RouteFits(route, Ids(OwnListingApis \cup ListingModerationApis))
  BY DEF CareerListingRoutes, OwnListingApis, ListingModerationApis, AdminOp, ClientOp
<1>5. \A route \in EmployerOpportunityRoutes :
         RouteFits(route, Ids(OwnOpportunityApis \cup ListingModerationApis \cup
                              OpportunityModerationApis))
  BY DEF EmployerOpportunityRoutes, OwnOpportunityApis, ListingModerationApis,
         OpportunityModerationApis, AdminOp, ClientOp
<1>6. \A route \in CertificateRoutes : RouteFits(route, Ids(CertificateApis))
  BY DEF CertificateRoutes, CertificateApis, AdminOp, LearnerOp
<1>7. \A route \in ConsultingRoutes :
         RouteFits(route, Ids(ClientRequestApis \cup RequestReviewApis \cup DeliveryApis))
  BY DEF ConsultingRoutes, ClientRequestApis, RequestReviewApis, DeliveryApis, AdminOp,
         ClientOp, ConsultantOp, TechnicalOp
<1>8. \A route \in ApplicationRoutes :
         RouteFits(route, Ids(OwnApplicationApis \cup ApplicationReviewApis))
  BY DEF ApplicationRoutes, OwnApplicationApis, ApplicationReviewApis, AdminOp, LearnerOp
<1>9. \A route \in EnrollmentRoutes : RouteFits(route, Ids(EnrollmentApis))
  BY DEF EnrollmentRoutes, EnrollmentApis, AdminOp, LearnerOp
<1>10. \A route \in InternshipRoutes :
         RouteFits(route, Ids(ProgrammeApis \cup ProgrammeClosingApis \cup TaskApis))
  BY DEF InternshipRoutes, ProgrammeApis, ProgrammeClosingApis, TaskApis, AdminOp
<1>11. \A route \in ReviewRoutes : RouteFits(route, Ids(ReviewApis \cup CompletionApis))
  BY DEF ReviewRoutes, ReviewApis, CompletionApis
<1>12. \A route \in SubmissionRoutes : RouteFits(route, Ids(SubmissionApis))
  BY DEF SubmissionRoutes, SubmissionApis, LearnerOp
<1>13. \A route \in PortfolioRoutes :
         RouteFits(route, Ids(PortfolioApis \cup PortfolioLinkAndSkillApis \cup
                              PortfolioCertificationApis \cup PortfolioAchievementApis))
  BY DEF PortfolioRoutes, PortfolioApis, PortfolioLinkAndSkillApis, PortfolioCertificationApis,
         PortfolioAchievementApis, LearnerOp
<1>14. \A route \in ResourceRoutes : RouteFits(route, Ids(ResourceAdminApis))
  BY DEF ResourceRoutes, ResourceAdminApis, AdminOp
<1>15. \A route \in ReportRoutes : RouteFits(route, Ids(ReportDraftApis \cup ReportReleaseApis))
  BY DEF ReportRoutes, ReportDraftApis, ReportReleaseApis, AdminOp, ClientOp, ConsultantOp
<1>16. \A route \in AdminReportRoutes : RouteFits(route, Ids(ReportReleaseApis))
  BY DEF AdminReportRoutes, ReportReleaseApis, AdminOp, ClientOp, ConsultantOp
<1>17. \A route \in BusinessReportRoutes : RouteFits(route, Ids(ReportReleaseApis))
  BY DEF BusinessReportRoutes, ReportReleaseApis, AdminOp, ClientOp, ConsultantOp
<1>18. \A route \in ScoreRoutes : RouteFits(route, Ids(ScoreApis))
  BY DEF ScoreRoutes, ScoreApis, ClientOp, ConsultantOp, TechnicalOp
<1>19. \A route \in BusinessSecurityRoutes : RouteFits(route, Ids(ScoreApis))
  BY DEF BusinessSecurityRoutes, ScoreApis, ClientOp, ConsultantOp, TechnicalOp
<1>20. \A route \in AssessmentRoutes : RouteFits(route, Ids(AssessmentApis))
  BY DEF AssessmentRoutes, AssessmentApis, AdminOp, ConsultantOp, TechnicalOp
<1>21. \A route \in BusinessAssessmentRoutes : RouteFits(route, Ids(ClientAssessmentApis))
  BY DEF BusinessAssessmentRoutes, ClientAssessmentApis, ClientOp
<1>22. \A route \in FindingRoutes : RouteFits(route, Ids(FindingApis))
  BY DEF FindingRoutes, FindingApis, ConsultantOp, TechnicalOp
<1> HIDE DEF Authorized, Public, Session, Collection, OpenApis, CollectionApis, Op
<1>23. \A ops \in SUBSET ApiOperations : \A route :
          RouteFits(route, Ids(ops)) => RouteFits(route, ApiIds)
  BY DEF ApiIds
<1> HIDE DEF RouteFits, Ids
<1>24. \A route \in Routes : \E ops \in SUBSET ApiOperations : RouteFits(route, Ids(ops))
  BY <1>1, <1>2, <1>3, <1>4, <1>5, <1>6, <1>7, <1>8, <1>9, <1>10, <1>11, <1>12, <1>13, <1>14,
     <1>15, <1>16, <1>17, <1>18, <1>19, <1>20, <1>21, <1>22
  DEF Routes, ApiOperations
<1> QED
  BY <1>23, <1>24

-----------------------------------------------------------------------------
(* What the tables' users find in them.                                    *)

\* A guarded route leads to its entry in the operation map.
LEMMA GuardedOperation ==
    ASSUME GuardTypeOK, Guarded
    PROVE  /\ Operation \in ApiOperations
           /\ Operation.api = request.route.api
           /\ MapFits(Operation)
<1>1. request.route \in Routes
  BY DEF GuardTypeOK, Guarded, NoRoute
<1>2. request.route.api \in ApiIds
  BY <1>1, RoutesFitAll DEF RouteFits, Guarded
<1>3. PICK op \in ApiOperations : op.api = request.route.api
  BY <1>2 DEF ApiIds
<1>4. Operation = CHOOSE o \in ApiOperations : o.api = request.route.api
  BY <1>2 DEF Operation, ApiOperation
<1>5. Operation \in ApiOperations /\ Operation.api = request.route.api
  BY <1>3, <1>4
<1> QED
  BY <1>5, MapFitsAll

\* The requirement of a guarded request: technical work asks for the recorded
\* authorisation, and what a concealed path is looked up for concerns a resource.
LEMMA GuardedRequirement ==
    ASSUME GuardTypeOK, Guarded
    PROVE  /\ TECHNICAL \in Operation.flags => AUTH_SCOPE \in ScopeSet(Required)
           /\ Concealing /\ NeedsResource(Required) => Required.resource
<1>1. Operation.api = request.route.api /\ MapFits(Operation)
  BY GuardedOperation
<1> DEFINE mine == {r \in RoleRequirements : r.api = Operation.api /\ r.role = request.role}
<1>2. CASE mine # {}
  <2>1. Required = CHOOSE r \in RoleRequirements : r.api = Operation.api /\ r.role = request.role
    BY <1>2 DEF Required, EffectiveRequirement
  <2>2. Required \in RoleRequirements /\ Required.api = Operation.api
    BY <1>2, <2>1
  <2>3. RequirementFits(Required)
    BY <2>2, RequirementsFit
  <2> QED
    BY <1>1, <2>2, <2>3 DEF MapFits, RequirementFits, NeedsResource
<1>3. CASE mine = {}
  <2>1. Required = Requirement(Operation.api, request.role, Operation.scope,
                               RESOURCE \in Operation.flags)
    BY <1>3 DEF Required, EffectiveRequirement
  <2>2. /\ Required.scope = Operation.scope
        /\ Required.resource = (RESOURCE \in Operation.flags)
    BY <2>1 DEF Requirement
  <2>3. ScopeSet(Required) = ScopeSet(Operation)
    BY <2>2 DEF ScopeSet
  <2>4. request.route.locator # Collection => Operation.api \notin CollectionApis
    <3>1. request.route \in Routes
      BY DEF GuardTypeOK, Guarded, NoRoute
    <3> QED
      BY <1>1, <3>1, RoutesFitAll DEF RouteFits
  <2> QED
    BY <1>1, <2>2, <2>3, <2>4 DEF MapFits, NeedsResource, Concealing
<1> QED
  BY <1>2, <1>3

\* A denial of a concealed resource is a 404, whatever failed.
LEMMA ConcealedIsDisclosedAsAbsent ==
    ASSUME GuardTypeOK, Concealing, NeedsResource(Required), NEW failedScope
    PROVE  Disclosed(Operation, Required, failedScope) = "NOT_FOUND"
<1>1. Required.resource
  BY GuardedRequirement DEF Concealing
<1> QED
  BY <1>1 DEF Disclosed, DisclosurePolicy, Concealing

\* No operation on a record is reached through an open route.
LEMMA OperationsAreNotOpen == \A op \in Operations : op.api \notin OpenApis \cup {NoKey}
<1> USE DEF Command, EditGuard, DeleteGuard, OpenApis, NoKey
<1> DEFINE Closed(op) == op.api \notin OpenApis \cup {NoKey}
<1>1. \A op \in InternshipOperations \cup SubmissionOperations \cup CertificateOperations
                  \cup ListingOperations : Closed(op)
  BY DEF InternshipOperations, SubmissionOperations, CertificateOperations, ListingOperations
<1>2. \A op \in OpportunityOperations \cup ConsultingOperations \cup AssessmentOperations
                  \cup FindingOperations : Closed(op)
  BY DEF OpportunityOperations, ConsultingOperations, AssessmentOperations, FindingOperations
<1>3. \A op \in MonitoringOperations \cup ReportOperations \cup ResourceOperations
                  \cup CourseOperations : Closed(op)
  BY DEF MonitoringOperations, ReportOperations, ResourceOperations, CourseOperations
<1> HIDE DEF Command, EditGuard, DeleteGuard, OpenApis, NoKey
<1> QED
  BY <1>1, <1>2, <1>3 DEF Operations

\* Every operation on a record that one side asks for and the other decides on is
\* served behind the guard.
LEMMA TwoSidedAreServed ==
    \A op \in Operations : op.entity \in DOMAIN TwoSided => Served(op)
<1> DEFINE Behind(routes, api) ==
        \E locator, apis : Authorized(locator, apis) \subseteq routes /\ api \in apis
<1> USE DEF Command, EditGuard, DeleteGuard
<1>1. \A op \in ListingOperations : Behind(CareerListingRoutes, op.api)
  <2>1. \A api \in {"API-BIZCAR-001", "API-BIZCAR-004", "API-BIZCAR-005", "API-BIZCAR-006",
                    "API-MOD-CAR-01", "API-MOD-CAR-02", "API-MOD-CAR-03", "API-MOD-CAR-04"} :
           Behind(CareerListingRoutes, api)
    BY DEF CareerListingRoutes
  <2> HIDE DEF Behind
  <2> QED
    BY <2>1 DEF ListingOperations
<1>2. \A op \in OpportunityOperations : Behind(EmployerOpportunityRoutes, op.api)
  <2>1. \A api \in {"API-BIZOPP-001", "API-BIZOPP-004", "API-BIZOPP-005", "API-BIZOPP-006",
                    "API-MOD-OPP-01", "API-MOD-OPP-02", "API-MOD-OPP-03", "API-MOD-OPP-04"} :
           Behind(EmployerOpportunityRoutes, api)
    BY DEF EmployerOpportunityRoutes
  <2> HIDE DEF Behind
  <2> QED
    BY <2>1 DEF OpportunityOperations
<1>3. \A op \in ConsultingOperations : Behind(ConsultingRoutes, op.api)
  <2>1. \A api \in {"API-CON-001", "API-CON-009", "API-CON-010", "API-CON-011", "API-CON-012",
                    "API-CON-013"} : Behind(ConsultingRoutes, api)
    BY DEF ConsultingRoutes
  <2> HIDE DEF Behind
  <2> QED
    BY <2>1 DEF ConsultingOperations
<1>4. \A op \in SubmissionOperations :
         Behind(ReviewRoutes, op.api) \/ Behind(SubmissionRoutes, op.api)
  <2>1. \A api \in {"API-REV-003", "API-REV-004", "API-REV-005"} : Behind(ReviewRoutes, api)
    BY DEF ReviewRoutes
  <2>2. \A api \in {"API-SUB-001", "API-SUB-003"} : Behind(SubmissionRoutes, api)
    BY DEF SubmissionRoutes
  <2> HIDE DEF Behind
  <2> QED
    BY <2>1, <2>2 DEF SubmissionOperations
<1>5. \A op \in InternshipOperations : op.entity \in DOMAIN TwoSided =>
         Behind(ApplicationRoutes, op.api)
  <2>1. \A api \in {"API-APP-001", "API-APP-006", "API-APP-007", "API-APP-008"} :
           Behind(ApplicationRoutes, api)
    BY DEF ApplicationRoutes
  <2> HIDE DEF Behind
  <2> QED
    BY <2>1 DEF InternshipOperations, TwoSided
<1>6. \A op \in ListingOperations \cup OpportunityOperations \cup ConsultingOperations
                  \cup SubmissionOperations \cup InternshipOperations : op.api \notin StopsShort
  BY DEF ListingOperations, OpportunityOperations, ConsultingOperations, SubmissionOperations,
         InternshipOperations, StopsShort
<1>7. \A op \in CertificateOperations \cup AssessmentOperations \cup FindingOperations
                  \cup MonitoringOperations \cup ReportOperations \cup ResourceOperations
                  \cup CourseOperations : op.entity \notin DOMAIN TwoSided
  BY DEF CertificateOperations, AssessmentOperations, FindingOperations, MonitoringOperations,
         ReportOperations, ResourceOperations, CourseOperations, TwoSided
<1> HIDE DEF Command, EditGuard, DeleteGuard
<1>8. \A routes, api : routes \subseteq Routes /\ Behind(routes, api) => api \in ServedApis
  <2> SUFFICES ASSUME NEW api, NEW locator, NEW apis, Authorized(locator, apis) \subseteq Routes,
                      api \in apis
               PROVE  api \in ServedApis
    OBVIOUS
  <2>1. [api |-> api, access |-> "AUTHORIZE", locator |-> locator] \in Routes
    BY DEF Authorized
  <2> QED
    BY <2>1 DEF ServedApis
<1>9. /\ CareerListingRoutes \subseteq Routes
      /\ EmployerOpportunityRoutes \subseteq Routes
      /\ ConsultingRoutes \subseteq Routes
      /\ ReviewRoutes \subseteq Routes
      /\ SubmissionRoutes \subseteq Routes
      /\ ApplicationRoutes \subseteq Routes
  BY DEF Routes
<1> HIDE DEF Behind
<1>10. \A op \in Operations : op.entity \in DOMAIN TwoSided =>
          op.api \in ServedApis /\ op.api \notin StopsShort
  BY <1>1, <1>2, <1>3, <1>4, <1>5, <1>6, <1>7, <1>8, <1>9 DEF Operations
<1> QED
  BY <1>10 DEF Served

-----------------------------------------------------------------------------
(* Resolving and validating a transition.                                  *)

\* A transition can be taken from a state.
Takes(t, s) == \/ t.from = {} /\ s = New
               \/ s # New /\ s \in t.from

\* A command is resolved to the id of a candidate that can be taken, or to Reject if
\* there is none.
LEMMA Resolution ==
    ASSUME NEW op \in Operations, NEW s
    PROVE  LET d  == Definition[op.entity]
               id == ResolveCandidate(op.entity, op.ids, s)
           IN  \/ /\ id = Reject
                  /\ \A t \in CandidatesOf(op, d) : ~Takes(t, s)
               \/ /\ id # Reject
                  /\ \E t \in CandidatesOf(op, d) : t.id = id /\ Takes(t, s)
<1> DEFINE d        == Definition[op.entity]
           Matching == {i \in DOMAIN op.ids : Applies(op.entity, op.ids[i], s)}
<1>1. WellFormed(d) /\ DOMAIN op.ids \subseteq 1..3
  BY OperationsFit, RegistryFits DEF OperationFits, CommandFits
<1>2. \A i \in Matching : \E t \in CandidatesOf(op, d) : t.id = op.ids[i] /\ Takes(t, s)
  BY DEF Applies, TransitionsOf, CandidatesOf, Takes
<1>3. ASSUME NEW t \in CandidatesOf(op, d), Takes(t, s)
      PROVE  Matching # {}
  BY <1>3 DEF Applies, TransitionsOf, CandidatesOf, Takes
<1>4. CASE Matching = {}
  BY <1>3, <1>4 DEF ResolveCandidate
<1>5. CASE Matching # {}
  <2> DEFINE first == CHOOSE i \in Matching : \A j \in Matching : i <= j
  <2>1. Matching \subseteq {1, 2, 3}
    BY <1>1
  <2> HIDE DEF Matching
  <2>2. \E i \in Matching : \A j \in Matching : i <= j
    <3>1. CASE 1 \in Matching
      BY <2>1, <3>1
    <3>2. CASE 1 \notin Matching /\ 2 \in Matching
      BY <2>1, <3>2
    <3>3. CASE Matching = {3}
      BY <3>3
    <3> QED
      BY <1>5, <2>1, <3>1, <3>2, <3>3
  <2>3. first \in Matching
    BY <2>2
  <2>4. ResolveCandidate(op.entity, op.ids, s) = op.ids[first]
    BY <1>5 DEF ResolveCandidate, Matching
  <2>5. PICK t \in CandidatesOf(op, d) : t.id = op.ids[first] /\ Takes(t, s)
    BY <1>2, <2>3
  <2>6. t.id # Reject
    BY <1>1 DEF CandidatesOf, WellFormed
  <2> QED
    BY <2>4, <2>5, <2>6
<1> QED
  BY <1>4, <1>5

\* The registry lets a transition that can be taken lead to its state.
LEMMA Validation ==
    ASSUME NEW e \in Entities, NEW t \in Definition[e].transitions, NEW s, Takes(t, s)
    PROVE  Validate(e, t.id, s) = t.to /\ t.to # Reject
<1>1. WellFormed(Definition[e])
  BY RegistryFits
<1>2. TransitionsOf(e, t.id) = {t}
  BY <1>1 DEF TransitionsOf, WellFormed
<1>3. RequireTransition(e, t.id) = t
  BY <1>2 DEF RequireTransition
<1>4. t.from # {} => s \in Definition[e].states /\ s \notin Definition[e].terminalStates
  BY <1>1 DEF WellFormed, Takes
<1>5. t.to # Reject
  BY <1>1 DEF WellFormed
<1> QED
  BY <1>2, <1>3, <1>4, <1>5 DEF Validate, Takes

\* A command takes one of its candidates.
LEMMA CommandTakesCandidate ==
    ASSUME TypeOK, NEW op, Perform(op)
    PROVE  /\ op \in Operations /\ op.entity = entity
           /\ status # Deleted
           /\ \E t \in CandidatesOf(op, Definition[entity]) : Takes(t, status) /\ Enter(t.to)
<1> DEFINE id == ResolveCandidate(entity, op.ids, status)
<1>1. op \in Operations /\ op.entity = entity /\ status # Deleted
  BY DEF Perform, Commands, OperationsOf
<1>2. id # Reject /\ Enter(Validate(entity, id, status))
  BY DEF Perform
<1>3. PICK t \in CandidatesOf(op, Definition[entity]) : t.id = id /\ Takes(t, status)
  BY <1>1, <1>2, Resolution
<1>4. Validate(entity, id, status) = t.to
  BY <1>3, Validation DEF CandidatesOf, TypeOK
<1> QED
  BY <1>1, <1>2, <1>3, <1>4

-----------------------------------------------------------------------------
(* The record.                                                             *)

\* The two readings of a command agree, and a terminal state is one no command leaves:
\* both hold of the tables in every state a record can be in.
LEMMA CommandsAgree ==
    ASSUME TypeOK
    PROVE  ResolutionAgreesWithUnion
<1> SUFFICES ASSUME NEW op \in Commands(entity), Live
             PROVE  LET Candidates == UNION {TransitionsOf(entity, op.ids[i]) : i \in DOMAIN op.ids}
                        Union      == UNION {t.from : t \in Candidates}
                        Resolved   == ResolveCandidate(entity, op.ids, status)
                    IN  /\ Resolved # Reject <=> status \in Union
                        /\ Resolved # Reject =>
                             {Validate(entity, Resolved, status)} = {t.to : t \in Candidates}
  BY DEF ResolutionAgreesWithUnion
<1> DEFINE Candidates == UNION {TransitionsOf(entity, op.ids[i]) : i \in DOMAIN op.ids}
           Resolved   == ResolveCandidate(entity, op.ids, status)
<1>1. op \in Operations /\ op.entity = entity /\ entity \in Entities
  BY DEF Commands, OperationsOf, TypeOK
<1>2. Candidates = CandidatesOf(op, Definition[entity])
  BY DEF CandidatesOf, TransitionsOf
<1>3. \A t : Takes(t, status) <=> status \in t.from
  BY DEF Takes, Live
<1>4. Resolved # Reject <=> \E t \in Candidates : status \in t.from
  BY <1>1, <1>2, <1>3, Resolution
<1>5. ASSUME Resolved # Reject
      PROVE  {Validate(entity, Resolved, status)} = {t.to : t \in Candidates}
  <2>1. PICK t \in Candidates : t.id = Resolved /\ Takes(t, status)
    BY <1>1, <1>2, <1>5, Resolution
  <2>2. Validate(entity, Resolved, status) = t.to
    BY <1>1, <1>2, <2>1, Validation DEF CandidatesOf
  <2>3. \A u \in Candidates : u.to = t.to
    BY <1>1, <1>2, OperationsFit DEF OperationFits, CommandFits
  <2> QED
    BY <2>2, <2>3
<1> QED
  BY <1>4, <1>5

LEMMA TerminalStatesAreLeftByNone ==
    ASSUME TypeOK
    PROVE  TerminalMeansStuck
<1> SUFFICES ASSUME Live
             PROVE  status \in Definition[entity].terminalStates <=>
                      \A op \in Commands(entity) :
                         ResolveCandidate(entity, op.ids, status) = Reject
  BY DEF TerminalMeansStuck
<1> DEFINE d == Definition[entity]
<1>1. entity \in Entities /\ status \in d.states /\ WellFormed(d)
  BY RegistryFits DEF TypeOK, Live
<1>2. \A t : Takes(t, status) <=> status \in t.from
  BY DEF Takes, Live
<1>3. ASSUME status \in d.terminalStates, NEW op \in Commands(entity)
      PROVE  ResolveCandidate(entity, op.ids, status) = Reject
  <2>1. op \in Operations /\ op.entity = entity
    BY DEF Commands, OperationsOf
  <2>2. \A t \in CandidatesOf(op, d) : ~Takes(t, status)
    BY <1>1, <1>2, <1>3 DEF CandidatesOf, WellFormed
  <2> QED
    BY <2>1, <2>2, Resolution
<1>4. ASSUME status \notin d.terminalStates
      PROVE  \E op \in Commands(entity) : ResolveCandidate(entity, op.ids, status) # Reject
  <2>1. PICK t \in d.transitions : status \in t.from
    BY <1>1, <1>4, OpenStatesHaveExits DEF HasExits
  <2>2. PICK op \in Operations : /\ op.kind = "TRANSITION"
                                 /\ op.entity = entity
                                 /\ \E i \in DOMAIN op.ids : op.ids[i] = t.id
    BY <1>1, <2>1, ExitsOffered DEF ExitsAreOffered
  <2>3. t \in CandidatesOf(op, d) /\ Takes(t, status)
    BY <1>2, <2>1, <2>2 DEF CandidatesOf
  <2>4. op \in Commands(entity)
    BY <2>2 DEF Commands, OperationsOf
  <2> QED
    BY <2>2, <2>3, <2>4, Resolution
<1> QED
  BY <1>3, <1>4

LEMMA RecordInit == Init => RecordInv
<1> SUFFICES ASSUME Init PROVE RecordInv
  OBVIOUS
<1>1. TypeOK
  BY MaxEditsAssumption DEF Init, TypeOK
<1>2. status \notin Settled
  BY DEF Init, Settled, PastReview, ReviewStates, PublicStates, New
<1> QED
  BY <1>1, <1>2 DEF RecordInv, ReviewInv

\* A command keeps the record in the registry's states, and brings nothing past review
\* whose content was not reviewed.
LEMMA PerformKeepsRecord ==
    ASSUME RecordInv, NEW op, Perform(op)
    PROVE  RecordInv'
<1>1. TypeOK /\ op \in Operations /\ op.entity = entity /\ entity \in Entities
  BY CommandTakesCandidate DEF RecordInv, TypeOK
<1>2. PICK t \in CandidatesOf(op, Definition[entity]) : Takes(t, status) /\ Enter(t.to)
  BY <1>1, CommandTakesCandidate
<1>3. t \in Definition[entity].transitions /\ t.to \in Definition[entity].states
  BY <1>1, RegistryFits DEF CandidatesOf, WellFormed
<1>4. /\ entity' = entity /\ content' = content /\ status' = t.to
      /\ reviewed' = IF t.to \in ReviewStates THEN content ELSE reviewed
  BY <1>2 DEF Enter
<1>5. TypeOK'
  BY <1>1, <1>3, <1>4 DEF TypeOK
<1>6. ReviewInv'
  <2> SUFFICES ASSUME entity \in Reviewed, t.to \in PastReview, t.to \notin ReviewStates
               PROVE  content = reviewed
    BY <1>4 DEF ReviewInv, Settled
  <2>1. ReviewComesFirst(Definition[entity])
    BY <1>1, OperationsFit DEF OperationFits, ReviewFits
  <2>2. t.from # {} /\ t.from \subseteq Settled
    BY <1>3, <2>1 DEF ReviewComesFirst
  <2>3. status \in Settled
    BY <1>2, <2>2 DEF Takes
  <2> QED
    BY <2>3 DEF RecordInv, ReviewInv
<1> QED
  BY <1>5, <1>6 DEF RecordInv

\* An edit happens outside review and the states behind it.
LEMMA EditKeepsRecord ==
    ASSUME RecordInv, NEW op, Edit(op)
    PROVE  RecordInv'
<1>1. TypeOK /\ op \in Operations /\ op.entity = entity /\ OperationFits(op)
  BY OperationsFit DEF Edit, OperationsOf, RecordInv
<1>2. /\ entity' = entity /\ status' = status /\ reviewed' = reviewed
      /\ content' = content + 1 /\ content < MaxEdits
  BY DEF Edit
<1>3. content' \in 0..MaxEdits
  BY <1>1, <1>2, MaxEditsAssumption DEF TypeOK
<1>4. TypeOK'
  BY <1>1, <1>2, <1>3 DEF TypeOK
<1>5. entity \in Reviewed => status \notin Settled
  BY <1>1 DEF OperationFits, ReviewFits, Edit
<1>6. ReviewInv'
  BY <1>2, <1>5 DEF ReviewInv
<1> QED
  BY <1>4, <1>6 DEF RecordInv

LEMMA DeleteKeepsRecord ==
    ASSUME RecordInv, NEW op, Delete(op)
    PROVE  RecordInv'
<1>1. /\ entity' = entity /\ status' = Deleted /\ content' = content /\ reviewed' = reviewed
  BY DEF Delete
<1>2. Deleted \notin Settled
  BY DEF Deleted, Settled, PastReview, ReviewStates, PublicStates
<1> QED
  BY <1>1, <1>2 DEF RecordInv, TypeOK, ReviewInv

LEMMA CreateKeepsRecord ==
    ASSUME RecordInv, CreateUnmapped
    PROVE  RecordInv'
<1>1. /\ entity' = entity /\ status' = "DRAFT" /\ content' = content
      /\ reviewed' = reviewed
  BY DEF CreateUnmapped, Enter, ReviewStates
<1>2. /\ "DRAFT" \in Definition["InternshipProgramme"].states
      /\ "DRAFT" \in Definition["Course"].states
  BY DEF Definition, InternshipProgramme, Course, Lifecycle
<1>3. "DRAFT" \in Definition[entity].states
  BY <1>2 DEF CreateUnmapped
<1>4. "DRAFT" \notin Settled
  BY DEF Settled, PastReview, ReviewStates, PublicStates
<1> QED
  BY <1>1, <1>3, <1>4 DEF RecordInv, TypeOK, ReviewInv

LEMMA NextKeepsRecord ==
    ASSUME RecordInv, [Next]_vars
    PROVE  RecordInv'
<1>1. CASE UNCHANGED vars
  BY <1>1 DEF vars, RecordInv, TypeOK, ReviewInv
<1>2. CASE CreateUnmapped
  BY <1>2, CreateKeepsRecord
<1>3. CASE \E op \in Operations : Perform(op) \/ Edit(op) \/ Delete(op)
  BY <1>3, PerformKeepsRecord, EditKeepsRecord, DeleteKeepsRecord
<1> QED
  BY <1>1, <1>2, <1>3 DEF Next

\* The record is always in a state the registry lists, and its content is the reviewed
\* one from review on.
THEOREM RecordInvariant == Spec => []RecordInv
<1>1. RecordInv /\ [Next]_vars => RecordInv'
  BY NextKeepsRecord
<1> QED
  BY <1>1, RecordInit, PTL DEF Spec

\* The record behind the guard is a record of the registry: requests change only which
\* of the registry's steps are taken, never what a step does.
LEMMA GuardedStepIsLifecycleStep ==
    ASSUME [GuardedNext]_guardedVars
    PROVE  [Next]_vars
<1>1. CASE GuardRecord \/ HandleElsewhere \/ UNCHANGED guardedVars
  BY <1>1 DEF GuardRecord, HandleElsewhere, guardedVars, vars
<1>2. CASE HandleOperation
  BY <1>2 DEF HandleOperation, OperationsOf, Work, Next
<1>3. CASE HandleCreation
  BY <1>3 DEF HandleCreation, Next
<1>4. CASE Unserved
  BY <1>4 DEF Unserved, Work, Next
<1> QED
  BY <1>1, <1>2, <1>3, <1>4 DEF GuardedNext

\* The guarded record implements the lifecycle of the registry.
THEOREM GuardedImplementsLifecycle == GuardedSpec => Spec
<1>1. GuardedInit => Init
  BY DEF GuardedInit
<1>2. [GuardedNext]_guardedVars => [Next]_vars
  BY GuardedStepIsLifecycleStep
<1> QED
  BY <1>1, <1>2, PTL DEF GuardedSpec, Spec

\* What becomes public is what was reviewed, through whatever commands and edits the
\* map allows: listings, opportunities and reports.
THEOREM PublicIsReviewed == GuardedSpec => []PublicContentWasReviewed
<1>1. RecordInv => PublicContentWasReviewed
  BY DEF RecordInv, ReviewInv, PublicContentWasReviewed, Settled, PastReview
<1> QED
  BY <1>1, RecordInvariant, GuardedImplementsLifecycle, PTL

\* One candidate resolved against the row and the union of the candidates accept the
\* same states and lead to the same one.
THEOREM ReadingsAgree == GuardedSpec => []ResolutionAgreesWithUnion
<1>1. RecordInv => ResolutionAgreesWithUnion
  BY CommandsAgree DEF RecordInv
<1> QED
  BY <1>1, RecordInvariant, GuardedImplementsLifecycle, PTL

\* A state is terminal exactly when no command of the API leaves it.
THEOREM TerminalIsStuck == GuardedSpec => []TerminalMeansStuck
<1>1. RecordInv => TerminalMeansStuck
  BY TerminalStatesAreLeftByNone DEF RecordInv
<1> QED
  BY <1>1, RecordInvariant, GuardedImplementsLifecycle, PTL

-----------------------------------------------------------------------------
(* The request.                                                            *)

\* What has been handled on evidence has the evidence its flags demand.
LEMMA EvidenceCoversTechnicalWork ==
    ASSUME GuardTypeOK, HandledOnEvidence
    PROVE  TechnicalWorkIsCovered
<1> SUFFICES ASSUME Admitted, Guarded, TECHNICAL \in Operation.flags
             PROVE  request.authScope = "COVERED"
  BY DEF TechnicalWorkIsCovered
<1>1. AUTH_SCOPE \in ScopeSet(Required)
  BY GuardedRequirement
<1>2. Holds(AUTH_SCOPE)
  BY <1>1 DEF HandledOnEvidence
<1>3. AUTH_SCOPE \notin ResourceScopes /\ AUTH_SCOPE # COND
  BY DEF AUTH_SCOPE, ResourceScopes, COND, OWN, ORG, ASG, PUB
<1> QED
  BY <1>2, <1>3 DEF Holds

\* Technical security work is never handled without the recorded authorisation read as
\* covering it, whichever role asks.
THEOREM TechnicalWorkNeedsAuthorisation == GuardedSpec => []TechnicalWorkIsCovered
<1>1. GuardInv => TechnicalWorkIsCovered
  BY EvidenceCoversTechnicalWork DEF GuardInv
<1> QED
  BY <1>1, LifecycleImplementsGuard, GuardInvariant, PTL

\* A step that looks nothing up conceals what it concealed, unless it refuses or
\* answers in a way that betrays.
LEMMA KeptConcealment ==
    ASSUME GuardInv, ConcealInv, Keeps,
           request'.stage \notin {"idle", "routing"},
           request'.stage = "resolving" => /\ NeedsResource(Required)
                                           /\ request.resource = Unread
                                           /\ request'.refusal = NoAnswer,
           Concealing /\ request.resource # Unread
              => request'.refusal \notin Betraying /\ request'.answer \notin Betraying
    PROVE  ConcealInv'
<1>1. Concealing' = Concealing /\ Required' = Required /\ request'.resource = request.resource
  BY KeptEvidence DEF Concealing, Keeps
<1> QED
  BY <1>1 DEF ConcealInv

LEMMA ReceiveConceals ==
    ASSUME ConcealInv, NEW route, NEW role, Receive(route, role)
    PROVE  ConcealInv'
<1>1. request'.stage = "routing" /\ request'.resource = Unread /\ request'.refusal = NoAnswer
  BY DEF Receive, Idle
<1> QED
  BY <1>1 DEF ConcealInv

LEMMA FinishConceals ==
    ASSUME ConcealInv, Finish
    PROVE  ConcealInv'
<1>1. request'.stage = "idle" /\ request'.resource = Unread /\ request'.refusal = NoAnswer
  BY DEF Finish, Idle
<1> QED
  BY <1>1 DEF ConcealInv

\* Before the look-up nothing is betrayed: the resource is still unread.
LEMMA RoutingConceals ==
    ASSUME GuardInv, ConcealInv, PassUnguarded \/ RefuseAnonymous \/ CheckRole
    PROVE  ConcealInv'
<1>1. request.resource = Unread /\ request.refusal = NoAnswer
  BY DEF ConcealInv, PassUnguarded, RefuseAnonymous, CheckRole
<1>2. PICK stage \in {"answered", "refusing", "admitting", "resolving", "scoping", "handling"} :
         /\ Keeps /\ request'.stage = stage
         /\ stage = "resolving" => NeedsResource(Required) /\ request'.refusal = request.refusal
  <2>1. CASE PassUnguarded
    BY <2>1, StepForms DEF PassUnguarded, Stages, GuardInv
  <2>2. CASE RefuseAnonymous
    BY <2>2, StepForms DEF RefuseAnonymous, Answers, GuardInv
  <2>3. CASE CheckRole
    <3> DEFINE next == IF Required.scope = <<>> THEN "admitting"
                       ELSE IF NeedsResource(Required) THEN "resolving" ELSE "scoping"
    <3>1. \/ \E a \in Answers : Answer(a)
          \/ Refuse("FORBIDDEN")
          \/ Proceed(next)
      BY <2>3 DEF CheckRole, Answers
    <3>2. next \in {"admitting", "resolving", "scoping"}
            /\ (next = "resolving" => NeedsResource(Required))
      OBVIOUS
    <3> HIDE DEF next
    <3> QED
      BY <3>1, <3>2, StepForms DEF Answers, Stages, GuardInv
  <2> QED
    BY <2>1, <2>2, <2>3
<1> QED
  BY <1>1, <1>2, KeptConcealment

\* The look-up itself: a failed one is disclosed as absent where the policy conceals.
LEMMA ResolveConceals ==
    ASSUME GuardInv, ConcealInv, Resolve
    PROVE  ConcealInv'
<1>1. GuardTypeOK /\ request.stage = "resolving" /\ request.answer = NoAnswer
        /\ NeedsResource(Required)
  BY DEF GuardInv, StageInv, Waiting, ConcealInv, Resolve
<1>2. PICK outcome \in Outcomes(PermissionOf(Operation).domain, request.route.locator) :
         TakeOutcome(outcome)
  BY DEF Resolve
<1>3. /\ request'.route = request.route /\ request'.role = request.role
      /\ request'.answer = NoAnswer
      /\ request'.stage \in {"refusing", "scoping"}
      /\ \/ request'.refusal = request.refusal /\ request'.stage = "scoping"
         \/ request'.refusal \in {"NOT_FOUND", Disclosed(Operation, Required, NoKey)}
  BY <1>1, <1>2 DEF GuardTypeOK, TakeOutcome
<1>4. Concealing' = Concealing /\ Required' = Required
  BY <1>3 DEF Concealing, Required, Operation, Guarded
<1>5. Concealing => Disclosed(Operation, Required, NoKey) = "NOT_FOUND"
  BY <1>1, ConcealedIsDisclosedAsAbsent
<1>6. request.refusal = NoAnswer
  BY <1>1 DEF ConcealInv
<1> QED
  BY <1>1, <1>3, <1>4, <1>5, <1>6 DEF ConcealInv, Betraying, NoAnswer


LEMMA ReadAuthScopeConceals ==
    ASSUME GuardInv, ConcealInv, ReadAuthScope
    PROVE  ConcealInv'
<1>1. PICK read \in {"COVERED", "NOT_COVERED"} : request' = [request EXCEPT !.authScope = read]
  BY DEF ReadAuthScope
<1>2. GuardTypeOK
  BY DEF GuardInv
<1>3. /\ request'.stage = request.stage /\ request'.resource = request.resource
      /\ request'.route = request.route /\ request'.role = request.role
      /\ request'.refusal = request.refusal /\ request'.answer = request.answer
  BY <1>1, <1>2 DEF GuardTypeOK
<1>4. Concealing' = Concealing /\ Required' = Required
  BY <1>3 DEF Concealing, Required, Operation, Guarded
<1> QED
  BY <1>3, <1>4 DEF ConcealInv

\* A scope that fails is disclosed as absent where the policy conceals.
LEMMA DecideScopesConceals ==
    ASSUME GuardInv, ConcealInv, DecideScopes
    PROVE  ConcealInv'
<1>1. GuardTypeOK /\ request.answer = NoAnswer
  BY DEF DecideScopes, GuardInv, StageInv, Waiting
<1>2. CASE Failing(Required.scope) = {}
  <2>1. Proceed("admitting")
    BY <1>2 DEF DecideScopes
  <2>2. /\ Keeps /\ request'.stage = "admitting"
        /\ request'.refusal = request.refusal /\ request'.answer = request.answer
    BY <1>1, <2>1, StepForms DEF Stages
  <2> QED
    BY <2>2, KeptConcealment DEF ConcealInv
<1>3. CASE Failing(Required.scope) # {}
  <2> DEFINE refusal == Disclosed(Operation, Required,
                                  Required.scope[FirstOf(Failing(Required.scope))])
  <2>1. Refuse(refusal)
    BY <1>3 DEF DecideScopes
  <2>2. refusal \in Answers
    BY DEF Disclosed, Answers
  <2>3. Concealing /\ request.resource # Unread => refusal = "NOT_FOUND"
    BY <1>1, ConcealedIsDisclosedAsAbsent DEF ConcealInv
  <2> HIDE DEF refusal
  <2>4. /\ Keeps /\ request'.stage = "refusing"
        /\ request'.refusal = refusal /\ request'.answer = request.answer
    BY <1>1, <2>1, <2>2, StepForms
  <2> QED
    BY <1>1, <2>3, <2>4, KeptConcealment DEF Betraying, NoAnswer
<1> QED
  BY <1>2, <1>3

\* An answer repeats the refusal, or is none of the two.
LEMMA AnswersConceal ==
    ASSUME GuardInv, ConcealInv, Admit \/ Deny \/ Handle
    PROVE  ConcealInv'
<1>1. GuardTypeOK
  BY DEF GuardInv
<1>2. /\ Keeps
      /\ request'.stage \in {"answered", "handling"}
      /\ request'.refusal = request.refusal
      /\ request'.answer \in {request.answer, request.refusal, "DATABASE_ERROR", "HANDLED"}
  <2>1. CASE Admit
    BY <1>1, <2>1 DEF Admit, Answer, Proceed, Keeps, GuardTypeOK
  <2>2. CASE Deny
    BY <1>1, <2>2 DEF Deny, Keeps, GuardTypeOK
  <2>3. CASE Handle
    BY <1>1, <2>3 DEF Handle, Answer, Keeps, GuardTypeOK
  <2> QED
    BY <2>1, <2>2, <2>3
<1> QED
  BY <1>2, KeptConcealment DEF ConcealInv, Betraying

LEMMA GuardKeepsConcealing ==
    ASSUME GuardInv, ConcealInv, [GuardStep \/ Handle]_request
    PROVE  ConcealInv'
<1>1. CASE UNCHANGED request
  BY <1>1 DEF ConcealInv, Concealing, Required, Operation, Guarded
<1>2. CASE \E route \in Routes, role \in Callers : Receive(route, role)
  BY <1>2, ReceiveConceals
<1>3. CASE PassUnguarded \/ RefuseAnonymous \/ CheckRole
  BY <1>3, RoutingConceals
<1>4. CASE Resolve \/ ReadAuthScope \/ DecideScopes
  BY <1>4, ResolveConceals, ReadAuthScopeConceals, DecideScopesConceals
<1>5. CASE Admit \/ Deny \/ Handle \/ Finish
  BY <1>5, AnswersConceal, FinishConceals
<1> QED
  BY <1>1, <1>2, <1>3, <1>4, <1>5 DEF GuardStep

\* Who may not have a concealed resource cannot tell it from one that is not there: a
\* refusal that follows the look-up of the path is a 404.
THEOREM ConcealedIsAbsent == GuardedSpec => []ConcealedLooksAbsent
<1>1. GuardInit => ConcealInv
  BY DEF GuardInit, Idle, ConcealInv, Concealing, Guarded, NoRoute
<1>2. GuardInv /\ ConcealInv /\ [GuardStep \/ Handle]_request => ConcealInv'
  BY GuardKeepsConcealing
<1>3. ConcealInv => ConcealedLooksAbsent
  BY DEF ConcealInv, ConcealedLooksAbsent, Betraying
<1> QED
  BY <1>1, <1>2, <1>3, LifecycleImplementsGuard, GuardInvariant, PTL DEF GuardSpec

-----------------------------------------------------------------------------
(* The record and the hands on it.                                         *)

GuardedInv == RecordInv /\ GuardInv /\ hands \subseteq Roles /\ SidesInv

\* A handler that is not behind an open route serves a role that the map lists.
LEMMA HandledForListedRole ==
    ASSUME GuardInv, Handle, request.route.api \notin OpenApis \cup {NoKey}
    PROVE  /\ Operation \in ApiOperations
           /\ Operation.api = request.route.api
           /\ MapFits(Operation)
           /\ request.role \in Operation.roles
<1>1. GuardTypeOK /\ Admitted /\ HandledOnEvidence
  BY DEF GuardInv, Handle, Admitted
<1>2. request.route \in Routes
  BY <1>1 DEF GuardTypeOK, NoRoute
<1>3. Guarded
  BY <1>2, RoutesFitAll DEF RouteFits, Guarded
<1> QED
  BY <1>1, <1>3, GuardedOperation DEF HandledOnEvidence

\* The roles whose hands are on the record are roles.
LEMMA HandsTyped ==
    ASSUME GuardInv, hands \subseteq Roles, [GuardedNext]_guardedVars
    PROVE  hands' \subseteq Roles
<1>1. CASE GuardRecord \/ HandleElsewhere \/ Unserved \/ UNCHANGED guardedVars
  BY <1>1 DEF GuardRecord, HandleElsewhere, Unserved, guardedVars
<1>2. ASSUME Handle, request.route.api \notin OpenApis \cup {NoKey},
             hands' = HandsAfter(request.role)
      PROVE  hands' \subseteq Roles
  <2>1. request.role \in Roles
    BY <1>2, HandledForListedRole DEF MapFits
  <2> QED
    BY <1>2, <2>1 DEF HandsAfter
<1>3. CASE HandleOperation
  BY <1>2, <1>3, OperationsAreNotOpen DEF HandleOperation, OperationsOf
<1>4. CASE HandleCreation
  BY <1>2, <1>4 DEF HandleCreation, OpenApis, NoKey
<1> QED
  BY <1>1, <1>2, <1>3, <1>4 DEF GuardedNext

\* What a role does to a record that one side asks for: bringing it in and rewriting it
\* is the asker's, and a decision is somebody else's.
LEMMA WorkTakesBothSides ==
    ASSUME GuardedInv, NEW op \in OperationsOf(entity), op.api = request.route.api,
           Handle, Work(op), hands' = HandsAfter(request.role),
           entity \in DOMAIN TwoSided
    PROVE  SidesInv'
<1> DEFINE asker  == Asker[entity]
           counts == TwoSided[entity]
           role   == request.role
<1>1. op \in Operations /\ op.entity = entity /\ TypeOK /\ entity \in Entities
  BY DEF OperationsOf, GuardedInv, RecordInv, TypeOK
<1>2. SidesFit(op, Definition[entity], asker, counts)
  BY <1>1, OperationsFit DEF OperationFits
<1>3. asker \in {BUSINESS, LEARNER} /\ New \notin counts /\ Deleted \notin counts
  BY DEF Asker, TwoSided, New, Deleted
<1>4. /\ op.api \in AsksOf(asker) => role = asker
      /\ op.api \in Decisions => role # asker
  <2>1. Operation.api = op.api /\ MapFits(Operation) /\ role \in Operation.roles
    BY <1>1, HandledForListedRole, OperationsAreNotOpen DEF GuardedInv
  <2>2. BUSINESS # LEARNER
    BY DEF BUSINESS, LEARNER
  <2> QED
    BY <1>3, <2>1, <2>2 DEF MapFits, AsksOf
<1>5. /\ Live => asker \in hands
      /\ status \in counts => hands # {asker}
  BY DEF GuardedInv, SidesInv
<1>6. CASE Perform(op)
  <2>1. PICK t \in CandidatesOf(op, Definition[entity]) : Takes(t, status) /\ Enter(t.to)
    BY <1>1, <1>6, CommandTakesCandidate
  <2>2. status # Deleted /\ entity' = entity /\ content' = content /\ status' = t.to
    BY <1>1, <1>6, <2>1, CommandTakesCandidate DEF Enter
  <2>3. CASE status = New
    <3>1. t.from = {}
      BY <2>1, <2>3 DEF Takes
    <3>2. role = asker /\ t.to \notin counts
      BY <1>2, <1>4, <3>1 DEF SidesFit
    <3>3. hands' = {asker}
      BY <2>3, <3>2 DEF HandsAfter
    <3> QED
      BY <2>2, <3>2, <3>3 DEF SidesInv
  <2>4. CASE status # New
    <3>1. asker \in hands /\ hands' = hands \cup {role}
      BY <1>5, <2>2, <2>4 DEF HandsAfter, Live
    <3>2. t.to \in counts => role # asker
      BY <1>2, <1>4 DEF SidesFit
    <3> QED
      BY <2>2, <3>1, <3>2 DEF SidesInv
  <2> QED
    BY <2>3, <2>4
<1>7. CASE Edit(op)
  <2>1. entity' = entity /\ status' = status /\ content' # content
    BY <1>1, <1>7 DEF Edit, TypeOK
  <2>2. role = asker /\ status \notin counts
    BY <1>2, <1>4, <1>7 DEF SidesFit, Edit
  <2>3. hands' = {asker}
    BY <2>1, <2>2 DEF HandsAfter
  <2> QED
    BY <2>1, <2>2, <2>3 DEF SidesInv
<1>8. CASE Delete(op)
  <2>1. entity' = entity /\ status' = Deleted
    BY <1>8 DEF Delete
  <2> QED
    BY <1>3, <2>1 DEF SidesInv, Live
<1> QED
  BY <1>6, <1>7, <1>8 DEF Work

LEMMA SidesKept ==
    ASSUME GuardedInv, [GuardedNext]_guardedVars
    PROVE  SidesInv'
<1>1. CASE GuardRecord \/ HandleElsewhere \/ UNCHANGED guardedVars
  BY <1>1 DEF GuardRecord, HandleElsewhere, guardedVars, vars, GuardedInv, SidesInv, Live
<1>2. CASE HandleOperation
  <2>1. PICK op \in OperationsOf(entity) : op.api = request.route.api /\ Work(op)
    BY <1>2 DEF HandleOperation
  <2>2. Handle /\ hands' = HandsAfter(request.role)
    BY <1>2 DEF HandleOperation
  <2>3. CASE entity \in DOMAIN TwoSided
    BY <2>1, <2>2, <2>3, WorkTakesBothSides
  <2>4. CASE entity \notin DOMAIN TwoSided
    BY <2>1, <2>4 DEF Work, Perform, Enter, Edit, Delete, SidesInv
  <2> QED
    BY <2>3, <2>4
<1>3. CASE HandleCreation
  BY <1>3 DEF HandleCreation, CreateUnmapped, Enter, SidesInv, TwoSided
<1>4. CASE Unserved
  <2>1. CASE entity = "Course" /\ CreateUnmapped
    BY <2>1 DEF CreateUnmapped, Enter, SidesInv, TwoSided
  <2>2. CASE \E op \in Operations : ~Served(op) /\ Work(op)
    <3>1. PICK op \in Operations : ~Served(op) /\ Work(op)
      BY <2>2
    <3>2. op.entity = entity /\ entity' = entity
      BY <3>1 DEF Work, Perform, Commands, Enter, Edit, Delete, OperationsOf
    <3>3. entity \notin DOMAIN TwoSided
      BY <3>1, <3>2, TwoSidedAreServed
    <3> QED
      BY <3>2, <3>3 DEF SidesInv
  <2> QED
    BY <1>4, <2>1, <2>2 DEF Unserved
<1> QED
  BY <1>1, <1>2, <1>3, <1>4 DEF GuardedNext

\* The invariant of the record behind the guard: the record's, the guard's, and both
\* sides' hands on a record that counts.
THEOREM GuardedInvariant == GuardedSpec => []GuardedInv
<1>1. GuardedInit => GuardedInv
  <2>1. GuardedInit => /\ ~Live
                       /\ entity \in DOMAIN TwoSided => status \notin TwoSided[entity]
    BY DEF GuardedInit, Init, Live, TwoSided, New
  <2> QED
    BY <2>1, RecordInit, InitInv DEF GuardedInit, GuardedInv, SidesInv
<1>2. GuardedInv /\ [GuardedNext]_guardedVars => GuardedInv'
  <2> SUFFICES ASSUME GuardedInv, [GuardedNext]_guardedVars
               PROVE  GuardedInv'
    OBVIOUS
  <2>1. RecordInv'
    BY GuardedStepIsLifecycleStep, NextKeepsRecord DEF GuardedInv
  <2>2. GuardInv'
    BY StepImplementsGuard, GuardKeepsInv DEF GuardedInv
  <2>3. hands' \subseteq Roles
    BY HandsTyped DEF GuardedInv
  <2>4. SidesInv'
    BY SidesKept
  <2> QED
    BY <2>1, <2>2, <2>3, <2>4 DEF GuardedInv
<1> QED
  BY <1>1, <1>2, PTL DEF GuardedSpec

\* The shape of the guarded record.
THEOREM GuardedTypeCorrect == GuardedSpec => []GuardedTypeOK
<1>1. GuardedInv => GuardedTypeOK
  BY DEF GuardedInv, RecordInv, GuardInv, GuardedTypeOK
<1> QED
  BY <1>1, GuardedInvariant, PTL

\* Nobody decides on their own request: a listing, an opportunity, an application, a
\* submission or a consulting request that counts has two roles' hands on its content.
THEOREM TwoRolesDecide == GuardedSpec => []NobodyDecidesAlone
<1>1. GuardedInv => NobodyDecidesAlone
  <2> SUFFICES ASSUME GuardedInv, entity \in DOMAIN TwoSided, status \in TwoSided[entity]
               PROVE  Cardinality(hands) > 1
    BY DEF NobodyDecidesAlone
  <2> DEFINE asker == Asker[entity]
  <2>1. Live
    BY DEF Live, TwoSided, New, Deleted
  <2>2. asker \in hands /\ hands # {asker}
    BY <2>1 DEF GuardedInv, SidesInv
  <2>3. IsFiniteSet(hands)
    <3>1. IsFiniteSet({LEARNER})
      BY FS_Singleton
    <3>2. IsFiniteSet({LEARNER} \cup {BUSINESS} \cup {MENTOR} \cup {CONSULTANT} \cup {ADMIN})
      BY <3>1, FS_AddElement
    <3>3. Roles = {LEARNER} \cup {BUSINESS} \cup {MENTOR} \cup {CONSULTANT} \cup {ADMIN}
      BY DEF Roles
    <3> QED
      BY <3>2, <3>3, FS_Subset DEF GuardedInv
  <2>4. Cardinality({asker}) = 1
    BY FS_Singleton
  <2>5. Cardinality({asker}) < Cardinality(hands)
    BY <2>2, <2>3, FS_Subset, FS_CardinalityType
  <2> QED
    BY <2>3, <2>4, <2>5, FS_CardinalityType
<1> QED
  BY <1>1, GuardedInvariant, PTL

=============================================================================
