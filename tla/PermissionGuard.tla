--------------------------- MODULE PermissionGuard ---------------------------
(***************************************************************************)
(* One HTTP request on its way to a handler: the session check, the        *)
(* permission guard with the reads it waits for (the resource, the recorded *)
(* authorisation) and the audit row it writes, then the handler            *)
(* (auth.guard.ts, permission.guard.ts, scope-evaluation.service.ts).      *)
(* What a read reports is any answer the read can give: the row may be     *)
(* anybody's, absent, or the database may fail.                            *)
(***************************************************************************)
EXTENDS PermissionPolicies, ApiRoutes, Naturals, Sequences

VARIABLE request   \* the request under way, and what it has found out

Anonymous == "(no session)"
Callers   == Roles \cup {Anonymous}

NoAnswer == "(none yet)"
NoRoute  == [api |-> NoKey, access |-> "PUBLIC", locator |-> Collection]
Unread   == [status |-> "UNREAD", facts |-> {}]

\* `failedScope` is the scope that decided against the caller, `trail` the audit rows.
Idle == [stage |-> "idle", route |-> NoRoute, role |-> Anonymous, resource |-> Unread,
         authScope |-> "UNREAD", refusal |-> NoAnswer, trail |-> {}, answer |-> NoAnswer]

Operation    == ApiOperation[request.route.api]
PermissionOf(op) == PermissionRegistry[op.key]
Required     == EffectiveRequirement(Operation, request.role)
Audited      == AUDIT \in Operation.flags
ScopeSet(requirement) == {requirement.scope[i] : i \in DOMAIN requirement.scope}

Stages == {"idle", "routing", "resolving", "scoping", "refusing", "admitting", "handling",
           "answered"}

Answers == {NoAnswer, "HANDLED", "AUTH_REQUIRED", "FORBIDDEN", "SECURITY_SCOPE_NOT_AUTHORIZED",
            "NOT_FOUND", "AUTHORIZATION_MISCONFIGURED", "DATABASE_ERROR"}

\* An audit row: the decision, and whether it names the resource.
TrailRows == [decision : {"ALLOW", "DENY"}, named : BOOLEAN]

Resources == [status : {"UNREAD", "FOUND", "NOT_FOUND", "RESOLVER_FAILURE", "NO_RESOLVER"},
              facts : SUBSET ResourceScopes]

GuardTypeOK ==
    request \in [stage : Stages, route : Routes \cup {NoRoute}, role : Callers,
                 resource : Resources, authScope : {"UNREAD", "COVERED", "NOT_COVERED"},
                 refusal : Answers, trail : SUBSET TrailRows, answer : Answers]

GuardInit == request = Idle

-----------------------------------------------------------------------------
\* Which caller may ask for an operation at all.
Classified(op) ==
    /\ op.mode = "DIRECT_PERMISSION"
    /\ op.key # NoKey
    /\ ~PermissionOf(op).systemOnly

\* A slip: either table lets the role through.
EitherTableAllows(op, role) == role \in PermissionOf(op).roles \/ role \in op.roles

RoleAllowed(op, role) == role \in PermissionOf(op).roles /\ role \in op.roles

NeedsResource(requirement) ==
    requirement.resource \/ ScopeSet(requirement) \cap ResourceScopes # {}

\* A slip: a scope that does not cover the work is reported as such.
ScopeDisclosedFirst(op, requirement, failedScope) ==
    IF failedScope = AUTH_SCOPE THEN "SECURITY_SCOPE_NOT_AUTHORIZED"
    ELSE IF DisclosurePolicy(op, requirement.resource) = "CONCEAL_EXISTENCE" THEN "NOT_FOUND"
    ELSE "FORBIDDEN"

\* A denial that follows the look-up of a resource says 404 where the policy
\* conceals; only then does it matter which scope failed.
Disclosed(op, requirement, failedScope) ==
    IF DisclosurePolicy(op, requirement.resource) = "CONCEAL_EXISTENCE" THEN "NOT_FOUND"
    ELSE IF failedScope = AUTH_SCOPE THEN "SECURITY_SCOPE_NOT_AUTHORIZED"
    ELSE "FORBIDDEN"

\* The path parameter that leads to the recorded authorisation.
AuthScopeLocators(api) ==
    IF api \in {"API-CON-012", "API-ASM-001"} THEN {"requestId"}
    ELSE {"findingId", "assessmentId"}

Holds(scope) ==
    CASE scope \in ResourceScopes -> scope \in request.resource.facts
      [] scope = COND             -> ImplementedConditions # {}
      [] scope = AUTH_SCOPE       -> request.authScope = "COVERED"

\* The scopes are evaluated in order; the first that does not hold ends it.
Failing(scope) == {i \in DOMAIN scope : ~Holds(scope[i])}
FirstOf(S)     == CHOOSE i \in S : \A j \in S : i <= j

-----------------------------------------------------------------------------
(* The steps of the request.                                               *)

Answer(a) == request' = [request EXCEPT !.stage = "answered", !.answer = a]
Refuse(a) == request' = [request EXCEPT !.stage = "refusing", !.refusal = a]
Proceed(stage) == request' = [request EXCEPT !.stage = stage]

Receive(route, role) ==
    /\ request.stage = "idle"
    /\ request' = [Idle EXCEPT !.stage = "routing", !.route = route, !.role = role]

\* @Public, and @AuthenticatedOnly for anyone with a session.
PassUnguarded ==
    /\ request.stage = "routing"
    /\ \/ request.route.access = "PUBLIC"
       \/ request.route.access = "SESSION" /\ request.role # Anonymous
    /\ Proceed("handling")

RefuseAnonymous ==
    /\ request.stage = "routing"
    /\ request.route.access # "PUBLIC"
    /\ request.role = Anonymous
    /\ Answer("AUTH_REQUIRED")

\* The role is refused before anything is read, whatever the path names.
CheckRole ==
    /\ request.stage = "routing"
    /\ request.route.access = "AUTHORIZE"
    /\ request.role # Anonymous
    /\ IF ~Classified(Operation)
       THEN Answer(IF Operation.mode = "CALLER_DOMAIN_PERMISSION"
                   THEN "FORBIDDEN" ELSE "AUTHORIZATION_MISCONFIGURED")
       ELSE IF ~RoleAllowed(Operation, request.role) THEN Refuse("FORBIDDEN")
       ELSE Proceed(IF Required.scope = <<>> THEN "admitting"
                    ELSE IF NeedsResource(Required) THEN "resolving"
                    ELSE "scoping")

\* A slip: a look-up that failed is taken for a resource on which nothing is to check.
TakeOutcomeTrusting(outcome) ==
    request' = [request EXCEPT !.resource = outcome,
                               !.stage = IF outcome.status = "FOUND" THEN "scoping" ELSE "admitting"]

\* A resource that is not there is a 404 under every policy.
TakeOutcome(outcome) ==
    CASE outcome.status = "NOT_FOUND" ->
           request' = [request EXCEPT !.resource = outcome, !.stage = "refusing",
                                      !.refusal = "NOT_FOUND"]
      [] outcome.status = "FOUND" ->
           request' = [request EXCEPT !.resource = outcome, !.stage = "scoping"]
      [] OTHER ->
           request' = [request EXCEPT !.resource = outcome, !.stage = "refusing",
                                      !.refusal = Disclosed(Operation, Required, NoKey)]

Resolve ==
    /\ request.stage = "resolving"
    /\ \E outcome \in Outcomes(PermissionOf(Operation).domain, request.route.locator) :
          TakeOutcome(outcome)

\* AUTH_SCOPE has a read of its own, made once the scopes before it hold.
ReadAuthScope ==
    LET scope == Required.scope
    IN  /\ request.stage = "scoping"
        /\ request.authScope = "UNREAD"
        /\ Failing(scope) # {}
        /\ scope[FirstOf(Failing(scope))] = AUTH_SCOPE
        /\ \E read \in IF request.route.locator \in AuthScopeLocators(Operation.api)
                       THEN {"COVERED", "NOT_COVERED"} ELSE {"NOT_COVERED"} :
              request' = [request EXCEPT !.authScope = read]

DecideScopes ==
    LET scope  == Required.scope
        failed == Failing(scope)
    IN  /\ request.stage = "scoping"
        /\ request.authScope = "UNREAD" /\ failed # {} => scope[FirstOf(failed)] # AUTH_SCOPE
        /\ IF failed = {} THEN Proceed("admitting")
           ELSE Refuse(Disclosed(Operation, Required, scope[FirstOf(failed)]))

\* A slip: the path is taken for the resource it names.
TrailRowOfPath(decision) ==
    [decision |-> decision, named |-> request.route.locator # Collection]

TrailRow(decision) == [decision |-> decision, named |-> request.resource.status = "FOUND"]

\* An ALLOW that must be audited is not given before its row is there.
Admit ==
    /\ request.stage = "admitting"
    /\ IF Audited
       THEN \/ request' = [request EXCEPT !.stage = "handling", !.trail = @ \cup {TrailRow("ALLOW")}]
            \/ Answer("DATABASE_ERROR")
       ELSE Proceed("handling")

\* A DENY is given whether its row could be written or not.
Deny ==
    /\ request.stage = "refusing"
    /\ \E rows \in IF Audited THEN {{TrailRow("DENY")}, {}} ELSE {{}} :
          request' = [request EXCEPT !.stage = "answered", !.answer = request.refusal,
                                     !.trail = @ \cup rows]

Handle ==
    /\ request.stage = "handling"
    /\ Answer("HANDLED")

Finish ==
    /\ request.stage = "answered"
    /\ request' = Idle

GuardStep ==
    \/ \E route \in Routes, role \in Callers : Receive(route, role)
    \/ PassUnguarded \/ RefuseAnonymous \/ CheckRole
    \/ Resolve \/ ReadAuthScope \/ DecideScopes
    \/ Admit \/ Deny \/ Finish

GuardSpec == GuardInit /\ [][GuardStep \/ Handle]_request

-----------------------------------------------------------------------------
(* Properties.                                                             *)

Admitted == request.stage = "handling" \/ request.answer = "HANDLED"
Guarded  == request.route.access = "AUTHORIZE"

\* The path names a resource whose existence the policy conceals.
Concealing ==
    /\ Guarded
    /\ request.route.locator # Collection
    /\ Operation.key \in ConcealExistenceKeys
    /\ Operation.api \notin DisclosedOperations

\* The guard fails closed: a handler behind @AuthorizeOperation runs only for a role
\* that both tables list, on a resource that was found, with every scope the role's
\* own requirement asks for seen to hold, and with its ALLOW row written (a grant by
\* role alone, without scopes, leaves the look-up to the handler).  No failed
\* read, missing resolver or lost audit row lets a request through.
HandledOnEvidence ==
    Admitted /\ Guarded =>
        /\ request.role \in PermissionOf(Operation).roles \cap Operation.roles
        /\ ScopeSet(Required) # {} /\ NeedsResource(Required) => request.resource.status = "FOUND"
        /\ \A s \in ScopeSet(Required) : Holds(s)
        /\ Audited => \E row \in request.trail : row.decision = "ALLOW"

\* Technical security work is never handled without the recorded authorisation read
\* as covering it, whichever role asks: no requirement of a single role drops what
\* the operation map demands.
TechnicalWorkIsCovered ==
    Admitted /\ Guarded /\ TECHNICAL \in Operation.flags => request.authScope = "COVERED"

\* Who may not have a concealed resource cannot tell it from one that is not there:
\* once the path has been looked up, a refusal is a 404, whether the row was absent,
\* somebody else's, unreadable, or outside the authorised scope.
ConcealedLooksAbsent ==
    Concealing /\ request.resource # Unread
        => request.answer \notin {"FORBIDDEN", "SECURITY_SCOPE_NOT_AUTHORIZED"}

\* The trail agrees with what the caller was told: one decision at most, an ALLOW for
\* nothing that was refused, a DENY for nothing that was handled, and a resource is
\* named only if it was found.
TrailTellsTheDecision ==
    \A row \in request.trail :
        /\ request.trail = {row}
        /\ row.named => request.resource.status = "FOUND"
        /\ row.decision = "ALLOW" => request.answer \in {NoAnswer, "HANDLED"}
        /\ row.decision = "DENY" => request.answer \in {"FORBIDDEN", "NOT_FOUND",
                                                        "SECURITY_SCOPE_NOT_AUTHORIZED"}

=============================================================================
