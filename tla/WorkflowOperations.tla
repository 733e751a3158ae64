------------------------- MODULE WorkflowOperations -------------------------
(***************************************************************************)
(* The operations of the HTTP API that the lifecycle registry governs      *)
(* (workflow-operation-map.ts).  A TRANSITION lists the candidate          *)
(* transition ids of one command, in order; an EDIT_GUARD the states in    *)
(* which the content may change; a DELETE_GUARD the states in which the    *)
(* row may be removed.                                                     *)
(***************************************************************************)
EXTENDS WorkflowRegistry

Command(api, entity, ids) ==
    [api |-> api, kind |-> "TRANSITION", entity |-> entity, ids |-> ids, allowed |-> {}]
EditGuard(api, entity, states) ==
    [api |-> api, kind |-> "EDIT_GUARD", entity |-> entity, ids |-> <<>>, allowed |-> states]
DeleteGuard(api, entity, states) ==
    [api |-> api, kind |-> "DELETE_GUARD", entity |-> entity, ids |-> <<>>, allowed |-> states]

InternshipOperations ==
    {Command("API-APP-001", "InternshipApplication", <<"WF-APP-01">>),
     Command("API-APP-006", "InternshipApplication", <<"WF-APP-02">>),
     Command("API-APP-007", "InternshipApplication", <<"WF-APP-03">>),
     Command("API-APP-008", "InternshipApplication", <<"WF-APP-04">>),
     EditGuard("API-INT-004", "InternshipProgramme", {"DRAFT"}),
     Command("API-INT-005", "InternshipProgramme", <<"WF-PRG-01">>),
     Command("API-INT-006", "InternshipProgramme", <<"WF-PRG-02">>),
     Command("API-INT-007", "InternshipProgramme", <<"WF-PRG-03">>),
     Command("API-INT-008", "InternshipProgramme", <<"WF-PRG-04">>)}

SubmissionOperations ==
    {Command("API-REV-003", "Submission", <<"WF-SUB-02">>),
     Command("API-REV-004", "Submission", <<"WF-SUB-03">>),
     Command("API-REV-005", "Submission", <<"WF-SUB-04">>),
     Command("API-SUB-001", "Submission", <<"WF-SUB-01">>),
     Command("API-SUB-003", "Submission", <<"WF-SUB-05">>)}

CertificateOperations ==
    {Command("API-CER-002", "Certificate", <<"WF-CERT-01">>),
     Command("API-CER-006", "Certificate", <<"WF-CERT-02">>)}

ListingOperations ==
    {Command("API-BIZCAR-001", "CareerListing", <<"WF-LST-01">>),
     EditGuard("API-BIZCAR-004", "CareerListing", {"REJECTED"}),
     Command("API-BIZCAR-005", "CareerListing", <<"WF-LST-05">>),
     Command("API-BIZCAR-006", "CareerListing", <<"WF-LST-06">>),
     Command("API-MOD-CAR-01", "CareerListing", <<"WF-LST-02">>),
     Command("API-MOD-CAR-02", "CareerListing", <<"WF-LST-03">>),
     Command("API-MOD-CAR-03", "CareerListing", <<"WF-LST-04">>),
     Command("API-MOD-CAR-04", "CareerListing", <<"WF-LST-06">>)}

OpportunityOperations ==
    {Command("API-BIZOPP-001", "EmployerOpportunity", <<"WF-LST-01">>),
     EditGuard("API-BIZOPP-004", "EmployerOpportunity", {"REJECTED"}),
     Command("API-BIZOPP-005", "EmployerOpportunity", <<"WF-LST-05">>),
     Command("API-BIZOPP-006", "EmployerOpportunity", <<"WF-LST-06">>),
     Command("API-MOD-OPP-01", "EmployerOpportunity", <<"WF-LST-02">>),
     Command("API-MOD-OPP-02", "EmployerOpportunity", <<"WF-LST-03">>),
     Command("API-MOD-OPP-03", "EmployerOpportunity", <<"WF-LST-04">>),
     Command("API-MOD-OPP-04", "EmployerOpportunity", <<"WF-LST-06">>)}

ConsultingOperations ==
    {Command("API-CON-001", "ConsultingRequest", <<"WF-REQ-01">>),
     Command("API-CON-009", "ConsultingRequest", <<"WF-REQ-02">>),
     Command("API-CON-010", "ConsultingRequest", <<"WF-REQ-03">>),
     Command("API-CON-011", "ConsultingRequest", <<"WF-REQ-04">>),
     Command("API-CON-012", "ConsultingRequest", <<"WF-REQ-05">>),
     Command("API-CON-013", "ConsultingRequest", <<"WF-REQ-06">>)}

AssessmentOperations ==
    {Command("API-ASM-001", "SecurityAssessment", <<"WF-ASM-01">>),
     Command("API-ASM-004", "SecurityAssessment", <<"WF-ASM-02">>),
     Command("API-ASM-005", "SecurityAssessment", <<"WF-ASM-03">>),
     Command("API-ASM-006", "SecurityAssessment", <<"WF-ASM-04", "WF-ASM-05">>)}

FindingOperations ==
    {Command("API-FND-001", "Finding", <<"WF-FND-01">>),
     EditGuard("API-FND-004", "Finding", {"OPEN", "REMEDIATION_IN_PROGRESS"}),
     Command("API-FND-005", "Finding", <<"WF-FND-02">>),
     Command("API-FND-006", "Finding", <<"WF-FND-03", "WF-FND-04">>),
     Command("API-FND-007", "Finding", <<"WF-FND-05">>)}

\* A slip in the map: cancelling listed under the completing transition.
MonitoringOperationsMixedTargets ==
    {Command("API-MON-001", "MonitoringSubscription", <<"WF-MON-01">>),
     Command("API-MON-006", "MonitoringSubscription", <<"WF-MON-02">>),
     Command("API-MON-007", "MonitoringSubscription", <<"WF-MON-03">>),
     Command("API-MON-008", "MonitoringSubscription", <<"WF-MON-04">>),
     Command("API-MON-009", "MonitoringSubscription", <<"WF-MON-05", "WF-MON-03", "WF-MON-07">>)}

MonitoringOperations ==
    {Command("API-MON-001", "MonitoringSubscription", <<"WF-MON-01">>),
     Command("API-MON-006", "MonitoringSubscription", <<"WF-MON-02">>),
     Command("API-MON-007", "MonitoringSubscription", <<"WF-MON-03">>),
     Command("API-MON-008", "MonitoringSubscription", <<"WF-MON-04">>),
     Command("API-MON-009", "MonitoringSubscription", <<"WF-MON-05", "WF-MON-06", "WF-MON-07">>)}

\* A slip in the map: a report under review stays editable.
ReportOperationsEditableInReview ==
    {EditGuard("API-RPT-003", "Report", {"DRAFT", "IN_REVIEW"}),
     EditGuard("API-RPT-004", "Report", {"DRAFT"}),
     Command("API-RPT-001", "Report", <<"WF-RPT-01">>),
     Command("API-RPT-005", "Report", <<"WF-RPT-02">>),
     Command("API-RPT-006", "Report", <<"WF-RPT-03", "WF-RPT-05">>),
     Command("API-RPT-007", "Report", <<"WF-RPT-04">>),
     Command("API-RPT-008", "Report", <<"WF-RPT-06">>),
     Command("API-RPT-009", "Report", <<"WF-RPT-07">>)}

ReportOperations ==
    {Command("API-RPT-001", "Report", <<"WF-RPT-01">>),
     EditGuard("API-RPT-003", "Report", {"DRAFT"}),
     EditGuard("API-RPT-004", "Report", {"DRAFT"}),
     Command("API-RPT-005", "Report", <<"WF-RPT-02">>),
     Command("API-RPT-006", "Report", <<"WF-RPT-03", "WF-RPT-05">>),
     Command("API-RPT-007", "Report", <<"WF-RPT-04">>),
     Command("API-RPT-008", "Report", <<"WF-RPT-06">>),
     Command("API-RPT-009", "Report", <<"WF-RPT-07">>)}

ResourceOperations ==
    {Command("API-ADMRES-001", "Resource", <<"WF-RES-01">>),
     EditGuard("API-ADMRES-002", "Resource", {"DRAFT", "PUBLISHED", "ARCHIVED"}),
     Command("API-ADMRES-003", "Resource", <<"WF-RES-02", "WF-RES-04">>),
     Command("API-ADMRES-004", "Resource", <<"WF-RES-03">>),
     DeleteGuard("API-ADMRES-005", "Resource", {"DRAFT"})}

CourseOperations ==
    {EditGuard("API-ADMCRS-002", "Course", {"DRAFT", "REJECTED"}),
     Command("API-ADMCRS-003", "Course", <<"WF-CRS-02", "WF-CRS-03">>),
     Command("API-ADMCRS-004", "Course", <<"WF-CRS-04", "WF-CRS-05">>),
     DeleteGuard("API-ADMCRS-005", "Course", {"DRAFT", "REJECTED"})}

Operations ==
    InternshipOperations \cup SubmissionOperations \cup CertificateOperations
        \cup ListingOperations \cup OpportunityOperations \cup ConsultingOperations
        \cup AssessmentOperations \cup FindingOperations \cup MonitoringOperations
        \cup ReportOperations \cup ResourceOperations \cup CourseOperations

=============================================================================
