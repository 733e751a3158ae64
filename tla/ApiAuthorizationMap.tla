------------------------ MODULE ApiAuthorizationMap ------------------------
(***************************************************************************)
(* The operations of the HTTP API and what each asks of its caller         *)
(* (api-authorization-map.ts): a permission, the roles that may use it,    *)
(* the scopes every one of them must satisfy, in the order in which they   *)
(* are evaluated, and whether the operation concerns an identified         *)
(* resource, performs technical security work, and is audited.  What the   *)
(* permission guard does not read is left out: method, path, wording.      *)
(***************************************************************************)

LEARNER    == "ROLE_LEARNER"
BUSINESS   == "ROLE_BUSINESS"
MENTOR     == "ROLE_MENTOR"
CONSULTANT == "ROLE_CONSULTANT"
ADMIN      == "ROLE_ADMIN"

Roles == {LEARNER, BUSINESS, MENTOR, CONSULTANT, ADMIN}

\* What a caller must satisfy: it owns the resource, belongs to its employer,
\* is assigned to it, the resource is public, a condition of the product holds,
\* or the recorded authorisation covers the technical work.
OWN        == "OWN"
ORG        == "ORG"
ASG        == "ASG"
PUB        == "PUB"
COND       == "COND"
AUTH_SCOPE == "AUTH_SCOPE"

ResourceScopes == {OWN, ORG, ASG, PUB}

RESOURCE  == "resourceContextRequired"
TECHNICAL == "authScopeRequired"
AUDIT     == "auditRequired"

NoKey == "(none)"

Op(api, key, roles, scope, flags) ==
    [api |-> api, mode |-> "DIRECT_PERMISSION", key |-> key, roles |-> roles,
     scope |-> scope, flags |-> flags]

\* The common shapes: administration, a client's own, a learner's own.
AdminOp(api, key, flags)   == Op(api, key, {ADMIN}, <<>>, flags)
ClientOp(api, key, flags)  == Op(api, key, {BUSINESS}, <<ORG>>, flags)
LearnerOp(api, key, flags) == Op(api, key, {LEARNER}, <<OWN>>, flags)
ConsultantOp(api, key, flags) == Op(api, key, {CONSULTANT, ADMIN}, <<ASG>>, flags)
TechnicalOp(api, key) ==
    Op(api, key, {CONSULTANT, ADMIN}, <<ASG, AUTH_SCOPE>>, {RESOURCE, TECHNICAL, AUDIT})

\* Public and session-only operations name no permission.
UnkeyedOp(api) == Op(api, NoKey, {}, <<>>, {})

\* A file is governed by the domain it belongs to, which nothing resolves yet.
CallerDomainOp(api) == [UnkeyedOp(api) EXCEPT !.mode = "CALLER_DOMAIN_PERMISSION"]

AccountApis ==
    {Op("API-ACC-001", "account.profile.read_update_own", {}, <<OWN>>, {}),
     Op("API-ACC-002", "account.profile.read_update_own", {}, <<OWN>>, {}),
     ClientOp("API-ACC-003", "account.profile.read_update_own", {}),
     ClientOp("API-ACC-004", "account.profile.read_update_own", {}),
     Op("API-ACC-005", "account.delete.request_own", {}, <<OWN, COND>>, {AUDIT})}

AdminAccountApis ==
    {AdminOp("API-ADM-001", "account.role.assign_privileged", {}),
     AdminOp("API-ADM-002", "account.role.assign_privileged", {RESOURCE}),
     AdminOp("API-ADM-003", "account.role.assign_privileged", {RESOURCE, AUDIT}),
     AdminOp("API-ADM-004", "account.role.assign_privileged", {}),
     AdminOp("API-ADM-005", "account.role.assign_privileged", {RESOURCE}),
     AdminOp("API-ADM-006", "account.role.assign_privileged", {RESOURCE, AUDIT}),
     AdminOp("API-ADM-007", "account.role.assign_privileged", {RESOURCE, AUDIT})}

AnalyticsApis ==
    {AdminOp("API-ADM-008", "analytics.read", {})}

CourseAdminApis ==
    {AdminOp("API-ADMCRS-001", "course.manage_approve", {AUDIT}),
     AdminOp("API-ADMCRS-002", "course.manage_approve", {RESOURCE, AUDIT}),
     AdminOp("API-ADMCRS-003", "course.manage_approve", {RESOURCE, AUDIT}),
     AdminOp("API-ADMCRS-004", "course.manage_approve", {RESOURCE, AUDIT}),
     AdminOp("API-ADMCRS-005", "course.manage_approve", {RESOURCE, AUDIT}),
     AdminOp("API-ADMCRS-006", "course.manage_approve", {}),
     AdminOp("API-ADMCRS-007", "course.manage_approve", {RESOURCE})}

ResourceAdminApis ==
    {AdminOp("API-ADMRES-001", "resource.manage", {AUDIT}),
     AdminOp("API-ADMRES-002", "resource.manage", {RESOURCE, AUDIT}),
     AdminOp("API-ADMRES-003", "resource.manage", {RESOURCE, AUDIT}),
     AdminOp("API-ADMRES-004", "resource.manage", {RESOURCE, AUDIT}),
     AdminOp("API-ADMRES-005", "resource.manage", {RESOURCE, AUDIT}),
     AdminOp("API-ADMRES-006", "resource.manage", {}),
     AdminOp("API-ADMRES-007", "resource.manage", {RESOURCE})}

OwnApplicationApis ==
    {LearnerOp("API-APP-001", "internship.application.create_own", {RESOURCE, AUDIT}),
     LearnerOp("API-APP-002", "internship.application.read_own", {}),
     LearnerOp("API-APP-003", "internship.application.read_own", {RESOURCE})}

ApplicationReviewApis ==
    {AdminOp("API-APP-004", "internship.application.review", {}),
     AdminOp("API-APP-005", "internship.application.review", {RESOURCE}),
     AdminOp("API-APP-006", "internship.application.review", {RESOURCE, AUDIT}),
     AdminOp("API-APP-007", "internship.application.review", {RESOURCE, AUDIT}),
     AdminOp("API-APP-008", "internship.application.review", {RESOURCE, AUDIT})}

AssessmentApis ==
    {TechnicalOp("API-ASM-001", "assessment.manage_assigned"),
     ConsultantOp("API-ASM-002", "assessment.manage_assigned", {}),
     ConsultantOp("API-ASM-003", "assessment.manage_assigned", {RESOURCE}),
     TechnicalOp("API-ASM-004", "assessment.manage_assigned"),
     TechnicalOp("API-ASM-005", "assessment.manage_assigned"),
     AdminOp("API-ASM-006", "assessment.manage_assigned", {RESOURCE, AUDIT})}

ClientAssessmentApis ==
    {ClientOp("API-ASM-007", "assessment.read_client", {}),
     ClientOp("API-ASM-008", "assessment.read_client", {RESOURCE})}

AuditApis ==
    {AdminOp("API-AUD-001", "audit.read", {}),
     AdminOp("API-AUD-002", "audit.read", {RESOURCE})}

RegistrationApis ==
    {UnkeyedOp("API-AUTH-001"),
     Op("API-AUTH-002", "auth.learner.register", {}, <<>>, {}),
     Op("API-AUTH-003", "auth.business.register", {}, <<>>, {}),
     UnkeyedOp("API-AUTH-004"),
     UnkeyedOp("API-AUTH-005")}

SessionApis ==
    {UnkeyedOp("API-AUTH-006"),
     UnkeyedOp("API-AUTH-007"),
     UnkeyedOp("API-AUTH-008"),
     UnkeyedOp("API-AUTH-009"),
     UnkeyedOp("API-AUTH-010")}

OwnListingApis ==
    {ClientOp("API-BIZCAR-001", "career.submit_own", {AUDIT}),
     ClientOp("API-BIZCAR-002", "career.submit_own", {}),
     ClientOp("API-BIZCAR-003", "career.submit_own", {RESOURCE}),
     ClientOp("API-BIZCAR-004", "career.submit_own", {RESOURCE}),
     ClientOp("API-BIZCAR-005", "career.submit_own", {RESOURCE, AUDIT}),
     ClientOp("API-BIZCAR-006", "career.submit_own", {RESOURCE, AUDIT})}

OwnOpportunityApis ==
    {ClientOp("API-BIZOPP-001", "employer.opportunity.submit_own", {AUDIT}),
     ClientOp("API-BIZOPP-002", "employer.opportunity.submit_own", {}),
     ClientOp("API-BIZOPP-003", "employer.opportunity.submit_own", {RESOURCE}),
     ClientOp("API-BIZOPP-004", "employer.opportunity.submit_own", {RESOURCE}),
     ClientOp("API-BIZOPP-005", "employer.opportunity.submit_own", {RESOURCE, AUDIT}),
     ClientOp("API-BIZOPP-006", "employer.opportunity.submit_own", {RESOURCE, AUDIT})}

PublicListingApis ==
    {Op("API-CAR-001", "career.read", {}, <<PUB>>, {}),
     Op("API-CAR-002", "career.read", {}, <<PUB>>, {RESOURCE}),
     Op("API-CAR-003", "career.read", {}, <<PUB>>, {RESOURCE})}

CertificateApis ==
    {Op("API-CER-001", "certificate.verify_public", {}, <<PUB>>, {RESOURCE}),
     AdminOp("API-CER-002", "certificate.issue_manage", {RESOURCE, AUDIT}),
     LearnerOp("API-CER-003", "certificate.read_own", {}),
     LearnerOp("API-CER-004", "certificate.read_own", {RESOURCE}),
     LearnerOp("API-CER-005", "certificate.read_own", {RESOURCE}),
     AdminOp("API-CER-006", "certificate.revoke", {RESOURCE, AUDIT})}

CompletionApis ==
    {Op("API-COMP-001", "completion.review_assigned", {MENTOR, ADMIN}, <<ASG>>, {RESOURCE}),
     Op("API-COMP-002", "completion.review_assigned", {MENTOR, ADMIN}, <<ASG>>, {RESOURCE, AUDIT})}

ClientRequestApis ==
    {ClientOp("API-CON-001", "consulting.request.create_own", {AUDIT}),
     ClientOp("API-CON-002", "consulting.request.read_own", {}),
     ClientOp("API-CON-003", "consulting.request.read_own", {RESOURCE}),
     ClientOp("API-CON-004", "consulting.scope.confirm_own", {RESOURCE, AUDIT}),
     ClientOp("API-CON-005", "consulting.scope.confirm_own", {RESOURCE})}

RequestReviewApis ==
    {ConsultantOp("API-CON-006", "consulting.request.review_assigned", {}),
     ConsultantOp("API-CON-007", "consulting.request.review_assigned", {RESOURCE}),
     AdminOp("API-CON-008", "consulting.request.review_assigned", {RESOURCE, AUDIT}),
     ConsultantOp("API-CON-009", "consulting.request.review_assigned", {RESOURCE, AUDIT}),
     ConsultantOp("API-CON-010", "consulting.request.review_assigned", {RESOURCE, AUDIT}),
     ConsultantOp("API-CON-011", "consulting.request.review_assigned", {RESOURCE, AUDIT})}

DeliveryApis ==
    {TechnicalOp("API-CON-012", "consulting.request.review_assigned"),
     ConsultantOp("API-CON-013", "consulting.request.review_assigned", {RESOURCE, AUDIT}),
     ConsultantOp("API-CON-014", "consulting.internal_note.manage", {RESOURCE}),
     ConsultantOp("API-CON-015", "consulting.internal_note.manage", {RESOURCE, AUDIT})}

CourseApis ==
    {Op("API-CRS-001", "course.read", {}, <<PUB>>, {}),
     Op("API-CRS-002", "course.read", {}, <<PUB>>, {RESOURCE}),
     Op("API-CRS-003", "course.read", {}, <<PUB>>, {RESOURCE})}

DonationApis ==
    {Op("API-DON-001", "donation.create", {}, <<>>, {}),
     Op("API-DON-002", "donation.create", {}, <<>>, {RESOURCE}),
     UnkeyedOp("API-DON-003"),
     AdminOp("API-DON-004", "donation.reporting.read_manage", {}),
     AdminOp("API-DON-005", "donation.reporting.read_manage", {RESOURCE})}

EmployerDirectoryApis ==
    {Op("API-EMP-001", "public.content.read", {}, <<PUB>>, {}),
     Op("API-EMP-002", "public.content.read", {}, <<PUB>>, {RESOURCE})}

EnrollmentApis ==
    {LearnerOp("API-ENR-001", "internship.application.read_own", {}),
     LearnerOp("API-ENR-002", "internship.application.read_own", {RESOURCE}),
     LearnerOp("API-ENR-003", "internship.task.read_assigned", {RESOURCE}),
     AdminOp("API-ENR-004", "internship.task.manage_assign", {RESOURCE, AUDIT}),
     AdminOp("API-ENR-005", "internship.task.manage_assign", {RESOURCE})}

FileApis ==
    {CallerDomainOp("API-FILE-001"),
     CallerDomainOp("API-FILE-002")}

FindingApis ==
    {TechnicalOp("API-FND-001", "finding.manage_assigned"),
     ConsultantOp("API-FND-002", "finding.manage_assigned", {RESOURCE}),
     ConsultantOp("API-FND-003", "finding.manage_assigned", {RESOURCE}),
     TechnicalOp("API-FND-004", "finding.manage_assigned"),
     ConsultantOp("API-FND-005", "finding.manage_assigned", {RESOURCE, AUDIT}),
     TechnicalOp("API-FND-006", "finding.manage_assigned"),
     TechnicalOp("API-FND-007", "finding.manage_assigned")}

ProgrammeApis ==
    {Op("API-INT-001", "internship.program.read", {}, <<PUB>>, {}),
     Op("API-INT-002", "internship.program.read", {}, <<PUB>>, {RESOURCE}),
     AdminOp("API-INT-003", "internship.program.manage", {AUDIT}),
     AdminOp("API-INT-004", "internship.program.manage", {RESOURCE, AUDIT}),
     AdminOp("API-INT-005", "internship.program.manage", {RESOURCE, AUDIT})}

ProgrammeClosingApis ==
    {AdminOp("API-INT-006", "internship.program.manage", {RESOURCE, AUDIT}),
     AdminOp("API-INT-007", "internship.program.manage", {RESOURCE, AUDIT}),
     AdminOp("API-INT-008", "internship.program.manage", {RESOURCE, AUDIT}),
     AdminOp("API-INT-009", "internship.program.manage", {}),
     AdminOp("API-INT-010", "internship.program.manage", {RESOURCE})}

ListingModerationApis ==
    {AdminOp("API-MOD-001", "career.manage_moderate", {}),
     AdminOp("API-MOD-002", "employer.portal.moderate", {}),
     AdminOp("API-MOD-CAR-01", "career.manage_moderate", {RESOURCE, AUDIT}),
     AdminOp("API-MOD-CAR-02", "career.manage_moderate", {RESOURCE, AUDIT}),
     AdminOp("API-MOD-CAR-03", "career.manage_moderate", {RESOURCE, AUDIT}),
     AdminOp("API-MOD-CAR-04", "career.manage_moderate", {RESOURCE, AUDIT})}

OpportunityModerationApis ==
    {AdminOp("API-MOD-OPP-01", "employer.portal.moderate", {RESOURCE, AUDIT}),
     AdminOp("API-MOD-OPP-02", "employer.portal.moderate", {RESOURCE, AUDIT}),
     AdminOp("API-MOD-OPP-03", "employer.portal.moderate", {RESOURCE, AUDIT}),
     AdminOp("API-MOD-OPP-04", "employer.portal.moderate", {RESOURCE, AUDIT})}

ClientMonitoringApis ==
    {ClientOp("API-MON-001", "monitoring.read_choose_own", {AUDIT}),
     ClientOp("API-MON-002", "monitoring.read_choose_own", {}),
     ClientOp("API-MON-003", "monitoring.read_choose_own", {RESOURCE})}

MonitoringApis ==
    {ConsultantOp("API-MON-004", "monitoring.perform_assigned", {}),
     AdminOp("API-MON-005", "monitoring.admin_manage", {RESOURCE, AUDIT}),
     AdminOp("API-MON-006", "monitoring.admin_manage", {RESOURCE, AUDIT}),
     AdminOp("API-MON-007", "monitoring.admin_manage", {RESOURCE, AUDIT}),
     AdminOp("API-MON-008", "monitoring.admin_manage", {RESOURCE, AUDIT}),
     AdminOp("API-MON-009", "monitoring.admin_manage", {RESOURCE, AUDIT})}

PortfolioApis ==
    {Op("API-PORT-001", "portfolio.public.read", {}, <<PUB>>, {RESOURCE}),
     LearnerOp("API-PORT-002", "portfolio.manage_own", {}),
     LearnerOp("API-PORT-003", "portfolio.publish_control_own", {}),
     LearnerOp("API-PORT-004", "portfolio.manage_own", {}),
     LearnerOp("API-PORT-005", "portfolio.manage_own", {RESOURCE}),
     LearnerOp("API-PORT-006", "portfolio.manage_own", {RESOURCE})}

PortfolioLinkAndSkillApis ==
    {LearnerOp("API-PORT-007", "portfolio.manage_own", {}),
     LearnerOp("API-PORT-008", "portfolio.manage_own", {RESOURCE}),
     LearnerOp("API-PORT-009", "portfolio.manage_own", {RESOURCE}),
     LearnerOp("API-PORT-010", "portfolio.manage_own", {}),
     LearnerOp("API-PORT-011", "portfolio.manage_own", {RESOURCE}),
     LearnerOp("API-PORT-012", "portfolio.manage_own", {RESOURCE})}

PortfolioCertificationApis ==
    {LearnerOp("API-PORT-013", "portfolio.manage_own", {}),
     LearnerOp("API-PORT-014", "portfolio.manage_own", {RESOURCE}),
     LearnerOp("API-PORT-015", "portfolio.manage_own", {RESOURCE}),
     LearnerOp("API-PORT-016", "portfolio.manage_own", {}),
     LearnerOp("API-PORT-017", "portfolio.manage_own", {RESOURCE}),
     LearnerOp("API-PORT-018", "portfolio.manage_own", {RESOURCE})}

PortfolioAchievementApis ==
    {LearnerOp("API-PORT-019", "portfolio.manage_own", {}),
     LearnerOp("API-PORT-020", "portfolio.manage_own", {RESOURCE}),
     LearnerOp("API-PORT-021", "portfolio.manage_own", {RESOURCE}),
     LearnerOp("API-PORT-022", "portfolio.manage_own", {RESOURCE}),
     LearnerOp("API-PORT-023", "portfolio.publish_control_own", {RESOURCE}),
     LearnerOp("API-PORT-024", "portfolio.manage_own", {RESOURCE}),
     Op("API-PORT-025", "employer.talent.discover", {BUSINESS}, <<PUB>>, {})}

ResourceApis ==
    {Op("API-RES-001", "resource.read", {}, <<PUB>>, {}),
     Op("API-RES-002", "resource.read", {}, <<PUB>>, {RESOURCE}),
     LearnerOp("API-RES-003", "resource.bookmark.manage_own", {}),
     LearnerOp("API-RES-004", "resource.bookmark.manage_own", {RESOURCE}),
     LearnerOp("API-RES-005", "resource.bookmark.manage_own", {RESOURCE}),
     LearnerOp("API-RES-006", "resource.progress.manage_own", {RESOURCE}),
     LearnerOp("API-RES-007", "resource.progress.manage_own", {RESOURCE})}

ReviewApis ==
    {Op("API-REV-001", "submission.review_assigned", {MENTOR, ADMIN}, <<ASG>>, {}),
     Op("API-REV-002", "submission.review_assigned", {MENTOR, ADMIN}, <<ASG>>, {RESOURCE}),
     Op("API-REV-003", "submission.review_assigned", {MENTOR, ADMIN}, <<ASG>>, {RESOURCE, AUDIT}),
     Op("API-REV-004", "submission.review_assigned", {MENTOR, ADMIN}, <<ASG>>, {RESOURCE, AUDIT}),
     Op("API-REV-005", "submission.review_assigned", {MENTOR, ADMIN}, <<ASG>>, {RESOURCE, AUDIT})}

ReportDraftApis ==
    {ConsultantOp("API-RPT-001", "report.prepare_review_assigned", {RESOURCE, AUDIT}),
     ConsultantOp("API-RPT-002", "report.prepare_review_assigned", {RESOURCE}),
     ConsultantOp("API-RPT-003", "report.prepare_review_assigned", {RESOURCE, AUDIT}),
     ConsultantOp("API-RPT-004", "report.prepare_review_assigned", {RESOURCE}),
     Op("API-RPT-005", "report.prepare_review_assigned", {CONSULTANT}, <<ASG>>, {RESOURCE, AUDIT}),
     ConsultantOp("API-RPT-006", "report.prepare_review_assigned", {RESOURCE, AUDIT}),
     Op("API-RPT-007", "report.prepare_review_assigned", {CONSULTANT}, <<ASG>>, {RESOURCE, AUDIT})}

ReportReleaseApis ==
    {AdminOp("API-RPT-008", "report.release_client", {RESOURCE, AUDIT}),
     AdminOp("API-RPT-009", "report.release_client", {RESOURCE, AUDIT}),
     ClientOp("API-RPT-010", "report.read_client", {}),
     ClientOp("API-RPT-011", "report.read_client", {RESOURCE}),
     ClientOp("API-RPT-012", "report.read_client", {RESOURCE}),
     ConsultantOp("API-RPT-013", "report.prepare_review_assigned", {RESOURCE})}

ScoreApis ==
    {TechnicalOp("API-SCR-001", "security_score.calculate_assigned"),
     ConsultantOp("API-SCR-002", "security_score.calculate_assigned", {RESOURCE}),
     ClientOp("API-SCR-003", "security_score.read_client", {}),
     ClientOp("API-SCR-004", "finding.read_client", {}),
     ClientOp("API-SCR-005", "security_score.read_client", {})}

SubmissionApis ==
    {LearnerOp("API-SUB-001", "submission.create_update_own", {RESOURCE, AUDIT}),
     LearnerOp("API-SUB-002", "submission.create_update_own", {RESOURCE}),
     LearnerOp("API-SUB-003", "submission.create_update_own", {RESOURCE, AUDIT})}

SystemApis ==
    {UnkeyedOp("API-SYS-001"),
     UnkeyedOp("API-SYS-002")}

TaskApis ==
    {AdminOp("API-TSK-001", "internship.task.manage_assign", {RESOURCE, AUDIT}),
     AdminOp("API-TSK-002", "internship.task.manage_assign", {RESOURCE}),
     AdminOp("API-TSK-003", "internship.task.manage_assign", {RESOURCE, AUDIT}),
     AdminOp("API-TSK-004", "internship.task.manage_assign", {RESOURCE, AUDIT})}

ApiOperations ==
    UNION {AccountApis, AdminAccountApis, AnalyticsApis, CourseAdminApis,
           ResourceAdminApis, OwnApplicationApis, ApplicationReviewApis, AssessmentApis,
           ClientAssessmentApis, AuditApis, RegistrationApis, SessionApis, OwnListingApis,
           OwnOpportunityApis, PublicListingApis, CertificateApis, CompletionApis,
           ClientRequestApis, RequestReviewApis, DeliveryApis, CourseApis, DonationApis,
           EmployerDirectoryApis, EnrollmentApis, FileApis, FindingApis, ProgrammeApis,
           ProgrammeClosingApis, ListingModerationApis, OpportunityModerationApis,
           ClientMonitoringApis, MonitoringApis, PortfolioApis, PortfolioLinkAndSkillApis,
           PortfolioCertificationApis, PortfolioAchievementApis, ResourceApis, ReviewApis,
           ReportDraftApis, ReportReleaseApis, ScoreApis, SubmissionApis, SystemApis,
           TaskApis}

ApiIds == {op.api : op \in ApiOperations}

ApiOperation == [api \in ApiIds |-> CHOOSE op \in ApiOperations : op.api = api]

=============================================================================
