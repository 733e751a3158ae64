----------------------------- MODULE ApiRoutes -----------------------------
(***************************************************************************)
(* The routes the controllers declare: how each is opened (@Public,        *)
(* @AuthenticatedOnly, @AuthorizeOperation) and the path parameter it       *)
(* binds, which is all a resource resolver and the AUTH_SCOPE check see of  *)
(* the request.  A public route is named by the operation its method and   *)
(* path belong to in the map.                                              *)
(***************************************************************************)
EXTENDS ResourceContexts

Authorized(locator, apis) == {[api |-> a, access |-> "AUTHORIZE", locator |-> locator] : a \in apis}
Public(apis)  == {[api |-> a, access |-> "PUBLIC", locator |-> Collection] : a \in apis}
Session(apis) == {[api |-> a, access |-> "SESSION", locator |-> Collection] : a \in apis}

AuthRoutes ==
    Public({"API-AUTH-001", "API-AUTH-002", "API-AUTH-003", "API-AUTH-004", "API-AUTH-005",
            "API-AUTH-006", "API-AUTH-009", "API-AUTH-010"})
        \cup Session({"API-AUTH-007", "API-AUTH-008"})

AdminAccountRoutes ==
    Authorized(Collection, {"API-ADM-001", "API-ADM-004"})
        \cup Authorized("userId", {"API-ADM-002", "API-ADM-003"})
        \cup Authorized("employerId", {"API-ADM-005", "API-ADM-006", "API-ADM-007"})

AuditLogRoutes ==
    Authorized(Collection, {"API-AUD-001"}) \cup Authorized("auditLogId", {"API-AUD-002"})

CareerListingRoutes ==
    Public({"API-CAR-001", "API-CAR-002", "API-CAR-003"})
        \cup Authorized(Collection, {"API-BIZCAR-001", "API-BIZCAR-002", "API-MOD-001"})
        \cup Authorized("listingId", {"API-BIZCAR-003", "API-BIZCAR-004", "API-BIZCAR-005",
                                      "API-BIZCAR-006"})
        \cup Authorized("id", {"API-MOD-CAR-01", "API-MOD-CAR-02", "API-MOD-CAR-03",
                               "API-MOD-CAR-04"})

EmployerOpportunityRoutes ==
    Public({"API-EMP-001", "API-EMP-002"})
        \cup Authorized(Collection, {"API-BIZOPP-001", "API-BIZOPP-002", "API-MOD-002"})
        \cup Authorized("opportunityId", {"API-BIZOPP-003", "API-BIZOPP-004",
                                          "API-BIZOPP-005", "API-BIZOPP-006"})
        \cup Authorized("id", {"API-MOD-OPP-01", "API-MOD-OPP-02", "API-MOD-OPP-03",
                               "API-MOD-OPP-04"})

CertificateRoutes ==
    Public({"API-CER-001"})
        \cup Authorized(Collection, {"API-CER-003"})
        \cup Authorized("certificateId", {"API-CER-004", "API-CER-006"})
        \cup Authorized("enrollmentId", {"API-CER-002"})

ConsultingRoutes ==
    Authorized(Collection, {"API-CON-001", "API-CON-002", "API-CON-006"})
        \cup Authorized("requestId",
                {"API-CON-003", "API-CON-004", "API-CON-005", "API-CON-007", "API-CON-008",
                 "API-CON-009", "API-CON-010", "API-CON-011", "API-CON-012", "API-CON-013",
                 "API-CON-014", "API-CON-015"})

ApplicationRoutes ==
    Authorized("internshipId", {"API-APP-001"})
        \cup Authorized(Collection, {"API-APP-002", "API-APP-004"})
        \cup Authorized("applicationId", {"API-APP-003", "API-APP-005", "API-APP-006",
                                          "API-APP-007", "API-APP-008"})

EnrollmentRoutes ==
    Authorized(Collection, {"API-ENR-001"})
        \cup Authorized("enrollmentId", {"API-ENR-002", "API-ENR-003", "API-ENR-004",
                                         "API-ENR-005"})

InternshipRoutes ==
    Public({"API-INT-001", "API-INT-002"})
        \cup Authorized(Collection, {"API-INT-003", "API-INT-009"})
        \cup Authorized("internshipId", {"API-INT-004", "API-INT-005", "API-INT-006",
                                         "API-INT-007", "API-INT-008", "API-INT-010",
                                         "API-TSK-001", "API-TSK-002"})
        \cup Authorized("taskId", {"API-TSK-003", "API-TSK-004"})

ReviewRoutes ==
    Authorized(Collection, {"API-REV-001"})
        \cup Authorized("submissionId", {"API-REV-002", "API-REV-003", "API-REV-004",
                                         "API-REV-005"})
        \cup Authorized("enrollmentId", {"API-COMP-001", "API-COMP-002"})

SubmissionRoutes ==
    Authorized("assignmentId", {"API-SUB-001"})
        \cup Authorized("submissionId", {"API-SUB-002", "API-SUB-003"})

PortfolioRoutes ==
    Public({"API-PORT-001"})
        \cup Authorized(Collection, {"API-PORT-002", "API-PORT-003", "API-PORT-004",
                                     "API-PORT-007", "API-PORT-010", "API-PORT-013",
                                     "API-PORT-016", "API-PORT-019"})
        \cup Authorized("itemId", {"API-PORT-005", "API-PORT-006", "API-PORT-008",
                                   "API-PORT-009", "API-PORT-011", "API-PORT-012",
                                   "API-PORT-014", "API-PORT-015", "API-PORT-017",
                                   "API-PORT-018", "API-PORT-020", "API-PORT-021"})
        \cup Authorized("certificateId", {"API-PORT-022", "API-PORT-023", "API-PORT-024"})

ResourceRoutes ==
    Public({"API-RES-001", "API-RES-002"})
        \cup Authorized(Collection, {"API-ADMRES-001", "API-ADMRES-006"})
        \cup Authorized("resourceId", {"API-ADMRES-002", "API-ADMRES-003", "API-ADMRES-004",
                                       "API-ADMRES-005", "API-ADMRES-007"})

ReportRoutes ==
    Authorized("assessmentId", {"API-RPT-001", "API-RPT-013"})
        \cup Authorized("reportId", {"API-RPT-002", "API-RPT-003", "API-RPT-004",
                                     "API-RPT-005", "API-RPT-006", "API-RPT-007"})

AdminReportRoutes == Authorized("reportId", {"API-RPT-008", "API-RPT-009"})

BusinessReportRoutes ==
    Authorized(Collection, {"API-RPT-010"})
        \cup Authorized("reportId", {"API-RPT-011", "API-RPT-012"})

ScoreRoutes == Authorized("assessmentId", {"API-SCR-001", "API-SCR-002"})

BusinessSecurityRoutes == Authorized(Collection, {"API-SCR-003", "API-SCR-004", "API-SCR-005"})

AssessmentRoutes ==
    Authorized("requestId", {"API-ASM-001"})
        \cup Authorized(Collection, {"API-ASM-002"})
        \cup Authorized("assessmentId", {"API-ASM-003", "API-ASM-004", "API-ASM-005",
                                         "API-ASM-006"})

BusinessAssessmentRoutes ==
    Authorized(Collection, {"API-ASM-007"}) \cup Authorized("assessmentId", {"API-ASM-008"})

FindingRoutes ==
    Authorized("assessmentId", {"API-FND-001", "API-FND-002"})
        \cup Authorized("findingId", {"API-FND-003", "API-FND-004", "API-FND-005",
                                      "API-FND-006", "API-FND-007"})

Routes ==
    UNION {AuthRoutes, AdminAccountRoutes, AuditLogRoutes, CareerListingRoutes,
           EmployerOpportunityRoutes, CertificateRoutes, ConsultingRoutes, ApplicationRoutes,
           EnrollmentRoutes, InternshipRoutes, ReviewRoutes, SubmissionRoutes,
           PortfolioRoutes, ResourceRoutes, ReportRoutes, AdminReportRoutes,
           BusinessReportRoutes, ScoreRoutes, BusinessSecurityRoutes, AssessmentRoutes,
           BusinessAssessmentRoutes, FindingRoutes}

=============================================================================
