-------------------------- MODULE ResourceContexts --------------------------
(***************************************************************************)
(* What the thirteen resource resolvers can report about the resource a    *)
(* route names (ResourceContextResolver and its implementations).  A       *)
(* resolver looks at the path parameter it knows; with none of them it     *)
(* answers for the caller's own collection.  `always` are the facts that   *)
(* hold of every resource found that way, `sometimes` those that depend on *)
(* the row or on the caller, `absent` says that there may be no such row.  *)
(* A learner's and an employer's facts are relative to the caller: OWN     *)
(* means "owned by the caller".                                            *)
(***************************************************************************)
EXTENDS ApiAuthorizationMap

Collection == "(collection)"   \* no path parameter

Row(domain, locator, always, sometimes) ==
    [domain |-> domain, locator |-> locator, always |-> always, sometimes |-> sometimes,
     absent |-> TRUE]

\* The caller's own collection is not read from the database.
Own(domain, always, sometimes) ==
    [Row(domain, Collection, always, sometimes) EXCEPT !.absent = FALSE]

InternshipResolver ==
    {Row("internship", "applicationId", {}, {OWN}),
     Row("internship", "enrollmentId", {}, {OWN}),
     Row("internship", "internshipId", {OWN}, {PUB}),
     Own("internship", {OWN}, {})}

\* An unclaimed submission counts every reviewer as assigned to it.
SubmissionResolver ==
    {Row("submission", "submissionId", {}, {OWN, ASG}),
     Row("submission", "assignmentId", {}, {OWN}),
     Own("submission", {OWN, ASG}, {})}

CompletionResolver == {Row("completion", "enrollmentId", {}, {ASG})}

CertificateResolver ==
    {Row("certificate", "certificateId", {}, {OWN}), Own("certificate", {OWN}, {})}

\* A certificate is looked for in the caller's own portfolio.
PortfolioResolver ==
    {Row("portfolio", "publicSlug", {}, {PUB}),
     Row("portfolio", "itemId", {}, {OWN}),
     Row("portfolio", "certificateId", {OWN}, {}),
     Own("portfolio", {OWN}, {})}

\* ORG of a collection: the caller belongs to an employer at all.
CareerResolver ==
    {Row("career", "listingId", {}, {ORG, PUB}), Own("career", {}, {ORG})}

EmployerOpportunityResolver ==
    {Row("employer", "opportunityId", {}, {ORG, PUB}), Own("employer", {}, {ORG})}

ConsultingResolver ==
    {Row("consulting", "requestId", {}, {ORG, ASG}), Own("consulting", {ASG}, {ORG})}

AssessmentResolver ==
    {Row("assessment", "requestId", {}, {ORG, ASG}),
     Row("assessment", "assessmentId", {}, {ORG, ASG}),
     Own("assessment", {ASG}, {ORG})}

FindingResolver ==
    {Row("finding", "findingId", {}, {ORG, ASG}),
     Row("finding", "assessmentId", {}, {ORG, ASG}),
     Own("finding", {}, {ORG})}

ReportResolver ==
    {Row("report", "reportId", {}, {ORG, ASG}),
     Row("report", "assessmentId", {}, {ORG, ASG}),
     Own("report", {}, {ORG})}

SecurityScoreResolver ==
    {Row("security_score", "assessmentId", {}, {ORG, ASG}), Own("security_score", {}, {ORG})}

LearningResourceResolver == {Row("resource", "resourceId", {}, {PUB})}

Resolvers ==
    UNION {InternshipResolver, SubmissionResolver, CompletionResolver, CertificateResolver,
           PortfolioResolver, CareerResolver, EmployerOpportunityResolver, ConsultingResolver,
           AssessmentResolver, FindingResolver, ReportResolver, SecurityScoreResolver,
           LearningResourceResolver}

Known(domain) == {r \in Resolvers : r.domain = domain}

\* The branch a resolver takes: a parameter it does not know counts as none.
Branch(domain, locator) ==
    {r \in Known(domain) :
        r.locator = IF \E s \in Known(domain) : s.locator = locator
                    THEN locator ELSE Collection}

Found(facts) == [status |-> "FOUND", facts |-> facts]
NotFound     == [status |-> "NOT_FOUND", facts |-> {}]
Failed       == [status |-> "RESOLVER_FAILURE", facts |-> {}]
NoResolver   == [status |-> "NO_RESOLVER", facts |-> {}]

\* Everything that resolving a route's resource may answer.
Outcomes(domain, locator) ==
    IF Known(domain) = {} THEN {NoResolver}
    ELSE IF Branch(domain, locator) = {} THEN {NotFound}
    ELSE LET r == CHOOSE b \in Branch(domain, locator) : TRUE
         IN  {Found(r.always \cup some) : some \in SUBSET r.sometimes}
             \cup (IF r.absent THEN {NotFound, Failed} ELSE {})

=============================================================================
