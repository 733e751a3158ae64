------------------------- MODULE PermissionPolicies -------------------------
(***************************************************************************)
(* The policy tables beside the operation map: the permission registry     *)
(* (permission-registry.ts), the requirements that differ from role to     *)
(* role within one operation (operation-role-policy.ts), what a denial may *)
(* disclose (disclosure-policy.ts) and the conditions that exist           *)
(* (condition-registry.ts).                                                *)
(***************************************************************************)
EXTENDS ApiAuthorizationMap

Permission(key, domain, roles) ==
    [key |-> key, domain |-> domain, roles |-> roles, systemOnly |-> FALSE]

AccountPermissions ==
    {Permission("public.content.read", "public", Roles),
     Permission("auth.learner.register", "auth", {ADMIN}),
     Permission("auth.business.register", "auth", {BUSINESS, ADMIN}),
     Permission("account.profile.read_update_own", "account", Roles),
     Permission("account.delete.request_own", "account", Roles),
     Permission("account.role.assign_privileged", "account", {ADMIN})}

LearningPermissions ==
    {Permission("resource.read", "resource", Roles),
     Permission("resource.bookmark.manage_own", "resource", {LEARNER}),
     Permission("resource.progress.manage_own", "resource", {LEARNER}),
     Permission("resource.manage", "resource", {ADMIN}),
     Permission("course.read", "course", Roles),
     Permission("course.manage_approve", "course", {ADMIN})}

CareerPermissions ==
    {Permission("career.read", "career", Roles),
     Permission("career.submit_own", "career", {BUSINESS}),
     Permission("career.manage_moderate", "career", {ADMIN}),
     Permission("career_tools.read", "career_tools", Roles),
     Permission("cv_review.use_own", "cv_review", {LEARNER, ADMIN})}

PortfolioPermissions ==
    {Permission("portfolio.manage_own", "portfolio", {LEARNER}),
     Permission("portfolio.publish_control_own", "portfolio", {LEARNER}),
     Permission("portfolio.public.read", "portfolio", Roles)}

InternshipPermissions ==
    {Permission("internship.program.read", "internship", {LEARNER, BUSINESS, MENTOR, ADMIN}),
     Permission("internship.program.manage", "internship", {ADMIN}),
     Permission("internship.application.create_own", "internship", {LEARNER}),
     Permission("internship.application.read_own", "internship", {LEARNER, ADMIN}),
     Permission("internship.application.review", "internship", {ADMIN}),
     Permission("internship.task.read_assigned", "internship", {LEARNER, MENTOR, ADMIN}),
     Permission("internship.task.manage_assign", "internship", {ADMIN}),
     Permission("submission.create_update_own", "submission", {LEARNER, ADMIN}),
     Permission("submission.review_assigned", "submission", {MENTOR, ADMIN}),
     Permission("completion.review_assigned", "completion", {MENTOR, ADMIN})}

CertificatePermissions ==
    {Permission("certificate.verify_public", "certificate", Roles),
     Permission("certificate.read_own", "certificate", {LEARNER, ADMIN}),
     Permission("certificate.issue_manage", "certificate", {ADMIN}),
     Permission("certificate.revoke", "certificate", {ADMIN})}

EmployerPermissions ==
    {Permission("employer.opportunity.submit_own", "employer", {BUSINESS}),
     Permission("employer.talent.discover", "employer", {BUSINESS, ADMIN}),
     Permission("employer.portal.moderate", "employer", {ADMIN}),
     Permission("employer.communication.participate", "employer", {LEARNER, BUSINESS, ADMIN})}

ConsultingPermissions ==
    {Permission("consulting.request.create_own", "consulting", {BUSINESS}),
     Permission("consulting.scope.confirm_own", "consulting", {BUSINESS, CONSULTANT, ADMIN}),
     Permission("consulting.request.read_own", "consulting", {BUSINESS, ADMIN}),
     Permission("consulting.request.review_assigned", "consulting", {CONSULTANT, ADMIN}),
     Permission("consulting.internal_note.manage", "consulting", {CONSULTANT, ADMIN})}

SecurityWorkPermissions ==
    {Permission("assessment.read_client", "assessment", {BUSINESS, ADMIN}),
     Permission("assessment.manage_assigned", "assessment", {CONSULTANT, ADMIN}),
     Permission("finding.read_client", "finding", {BUSINESS, ADMIN}),
     Permission("finding.manage_assigned", "finding", {CONSULTANT, ADMIN}),
     Permission("security_score.read_client", "security_score", {BUSINESS, ADMIN}),
     Permission("security_score.calculate_assigned", "security_score", {CONSULTANT, ADMIN}),
     Permission("report.read_client", "report", {BUSINESS, ADMIN}),
     Permission("report.prepare_review_assigned", "report", {CONSULTANT, ADMIN}),
     Permission("report.release_client", "report", {ADMIN})}

MonitoringPermissions ==
    {Permission("monitoring.read_choose_own", "monitoring", {BUSINESS, ADMIN}),
     Permission("monitoring.perform_assigned", "monitoring", {CONSULTANT, ADMIN}),
     Permission("monitoring.admin_manage", "monitoring", {ADMIN})}

OversightPermissions ==
    {Permission("donation.create", "donation", Roles),
     Permission("donation.reporting.read_manage", "donation", {ADMIN}),
     Permission("analytics.read", "analytics", {ADMIN}),
     Permission("audit.read", "audit", {ADMIN})}

\* Written by the system itself, never granted to a role.
SystemPermission == [Permission("audit.event.write_system", "audit", {}) EXCEPT !.systemOnly = TRUE]

Permissions ==
    UNION {AccountPermissions, LearningPermissions, CareerPermissions, PortfolioPermissions,
           InternshipPermissions, CertificatePermissions, EmployerPermissions,
           ConsultingPermissions, SecurityWorkPermissions, MonitoringPermissions,
           OversightPermissions, {SystemPermission}}

PermissionRegistry ==
    [key \in {p.key : p \in Permissions} |-> CHOOSE p \in Permissions : p.key = key]

-----------------------------------------------------------------------------
\* Where the roles of one operation are alternatives, each has a requirement
\* of its own, and the one in the operation map is not looked at.
Requirement(api, role, scope, resource) ==
    [api |-> api, role |-> role, scope |-> scope, resource |-> resource]

\* Assignment is asked of the reviewer, never of an Admin.
Oversight(api, reviewer) ==
    {Requirement(api, reviewer, <<ASG>>, TRUE), Requirement(api, ADMIN, <<>>, FALSE)}

\* A slip: the Admin oversees technical work as any other.
TechnicalWorkOverseen(api) ==
    {Requirement(api, CONSULTANT, <<ASG, AUTH_SCOPE>>, TRUE), Requirement(api, ADMIN, <<>>, FALSE)}

\* The recorded authorisation is asked of both.
TechnicalWork(api) ==
    {Requirement(api, CONSULTANT, <<ASG, AUTH_SCOPE>>, TRUE),
     Requirement(api, ADMIN, <<AUTH_SCOPE>>, TRUE)}

AllOversight(apis, reviewer) == UNION {Oversight(api, reviewer) : api \in apis}
AllTechnical(apis)           == UNION {TechnicalWork(api) : api \in apis}

AssessmentRequirements ==
    AllTechnical({"API-ASM-001", "API-ASM-004", "API-ASM-005"})
        \cup AllOversight({"API-ASM-002", "API-ASM-003"}, CONSULTANT)

CompletionRequirements == AllOversight({"API-COMP-001", "API-COMP-002"}, MENTOR)

ConsultingRequirements ==
    TechnicalWork("API-CON-012")
        \cup AllOversight({"API-CON-006", "API-CON-007", "API-CON-009", "API-CON-010",
                           "API-CON-011", "API-CON-013", "API-CON-014", "API-CON-015"},
                          CONSULTANT)

FindingRequirements ==
    AllTechnical({"API-FND-001", "API-FND-004", "API-FND-006", "API-FND-007"})
        \cup AllOversight({"API-FND-002", "API-FND-003", "API-FND-005"}, CONSULTANT)

MonitoringRequirements == Oversight("API-MON-004", CONSULTANT)

ReviewRequirements ==
    AllOversight({"API-REV-001", "API-REV-002", "API-REV-003", "API-REV-004", "API-REV-005"},
                 MENTOR)

ReportRequirements ==
    AllOversight({"API-RPT-001", "API-RPT-002", "API-RPT-003", "API-RPT-004", "API-RPT-006",
                  "API-RPT-013"}, CONSULTANT)

ScoreRequirements == TechnicalWork("API-SCR-001") \cup Oversight("API-SCR-002", CONSULTANT)

RoleRequirements ==
    UNION {AssessmentRequirements, CompletionRequirements, ConsultingRequirements,
           FindingRequirements, MonitoringRequirements, ReviewRequirements,
           ReportRequirements, ScoreRequirements}

\* The one requirement that a caller in this role must satisfy.
EffectiveRequirement(op, role) ==
    IF \E r \in RoleRequirements : r.api = op.api /\ r.role = role
    THEN CHOOSE r \in RoleRequirements : r.api = op.api /\ r.role = role
    ELSE Requirement(op.api, role, op.scope, RESOURCE \in op.flags)

-----------------------------------------------------------------------------
ConcealExistenceKeys ==
    {"assessment.manage_assigned", "assessment.read_client", "consulting.internal_note.manage",
     "consulting.request.read_own", "consulting.request.review_assigned",
     "consulting.scope.confirm_own", "finding.manage_assigned",
     "security_score.calculate_assigned", "report.prepare_review_assigned",
     "report.read_client", "report.release_client", "monitoring.admin_manage",
     "monitoring.read_choose_own", "career.submit_own", "employer.opportunity.submit_own",
     "certificate.read_own", "internship.application.read_own",
     "internship.task.read_assigned", "portfolio.manage_own",
     "portfolio.publish_control_own", "resource.progress.manage_own",
     "submission.create_update_own", "completion.review_assigned",
     "submission.review_assigned", "certificate.issue_manage", "audit.read",
     "donation.reporting.read_manage"}

NotApplicableKeys ==
    {"career.read", "course.read", "portfolio.public.read", "public.content.read",
     "resource.read", "internship.application.create_own"}

\* One key covers a learner's enrolment and the tasks of a programme.
ConcealedOperations  == {"API-ENR-004", "API-ENR-005"}
DisclosedOperations  == {"API-TSK-001", "API-TSK-002", "API-TSK-003", "API-TSK-004"}

DisclosurePolicy(op, resourceRequired) ==
    IF ~resourceRequired THEN "NOT_APPLICABLE"
    ELSE IF op.api \in ConcealedOperations THEN "CONCEAL_EXISTENCE"
    ELSE IF op.api \in DisclosedOperations THEN "DISCLOSE_FORBIDDEN"
    ELSE IF op.key \in ConcealExistenceKeys THEN "CONCEAL_EXISTENCE"
    ELSE IF op.key \in NotApplicableKeys THEN "NOT_APPLICABLE"
    ELSE "DISCLOSE_FORBIDDEN"

\* Every documented condition of the product is deferred: none can hold.
ImplementedConditions == {}

=============================================================================
