------------------------ MODULE PermissionGuard_proofs ------------------------
(***************************************************************************)
(* What the permission guard guarantees whatever the tables say: the proofs *)
(* leave the operation map, the registry, the role policies and the        *)
(* disclosure policy unexpanded, so that no entry added or changed there   *)
(* can make the guard fail open.                                           *)
(***************************************************************************)
EXTENDS GuardedLifecycle, TLAPS

\* What a request has established by the time it reaches each stage.
Permitted ==
    /\ Guarded
    /\ RoleAllowed(Operation, request.role)

Looked == NeedsResource(Required) => request.resource.status = "FOUND"

Evidence ==
    /\ Permitted
    /\ ScopeSet(Required) # {} => Looked
    /\ \A s \in ScopeSet(Required) : Holds(s)

Refusals == {"FORBIDDEN", "NOT_FOUND", "SECURITY_SCOPE_NOT_AUTHORIZED"}

Waiting == {"idle", "routing", "resolving", "scoping", "refusing", "admitting"}

\* Before a stage is left, nothing is written and nothing is answered; what is asked
\* at a stage has been seen by the next.
StageInv ==
    /\ request.stage \in Waiting => request.trail = {} /\ request.answer = NoAnswer
    /\ request.stage = "handling" => request.answer = NoAnswer
    /\ request.stage \in {"resolving", "scoping"} => Permitted
    /\ request.stage = "scoping" => Looked
    /\ request.stage = "admitting" => Evidence
    /\ request.stage = "refusing" => request.refusal \in Refusals

\* The rows of a request that may still be handled, or was.
TrailInv ==
    request.stage = "handling" \/ request.answer = "HANDLED" =>
        request.trail \subseteq {TrailRow("ALLOW")}

GuardInv == GuardTypeOK /\ StageInv /\ TrailInv /\ HandledOnEvidence /\ TrailTellsTheDecision

-----------------------------------------------------------------------------
(* The resolvers report facts about scopes only.                           *)

LEMMA RowsTyped ==
    \A r \in Resolvers : r.always \subseteq ResourceScopes /\ r.sometimes \subseteq ResourceScopes
<1>1. \A d, l, A, S : Row(d, l, A, S).always = A /\ Row(d, l, A, S).sometimes = S
  BY DEF Row
<1>2. \A d, A, S : Own(d, A, S).always = A /\ Own(d, A, S).sometimes = S
  BY <1>1 DEF Own, Row
<1> QED
  BY <1>1, <1>2
  DEF Resolvers, InternshipResolver, SubmissionResolver, CompletionResolver, CertificateResolver,
      PortfolioResolver, CareerResolver, EmployerOpportunityResolver, ConsultingResolver,
      AssessmentResolver, FindingResolver, ReportResolver, SecurityScoreResolver,
      LearningResourceResolver, ResourceScopes

LEMMA OutcomesTyped ==
    ASSUME NEW domain, NEW locator, NEW outcome \in Outcomes(domain, locator)
    PROVE  outcome \in Resources
<1>1. {NoResolver, NotFound, Failed} \subseteq Resources
  BY DEF NoResolver, NotFound, Failed, Resources
<1>2. CASE Branch(domain, locator) = {} \/ Known(domain) = {}
  BY <1>1, <1>2 DEF Outcomes
<1>3. CASE Branch(domain, locator) # {} /\ Known(domain) # {}
  <2> DEFINE r == CHOOSE b \in Branch(domain, locator) : TRUE
  <2>1. r \in Resolvers
    BY <1>3 DEF Branch, Known
  <2>2. \A some \in SUBSET r.sometimes : Found(r.always \cup some) \in Resources
    BY <2>1, RowsTyped DEF Found, Resources
  <2>3. outcome \in {Found(r.always \cup some) : some \in SUBSET r.sometimes}
                      \cup {NotFound, Failed}
    BY <1>3 DEF Outcomes
  <2> QED
    BY <1>1, <2>2, <2>3
<1> QED
  BY <1>2, <1>3

-----------------------------------------------------------------------------
(* What a step leaves alone stays established.                             *)

\* The step looks nothing up: what is known of the request stays as it is.
Keeps ==
    /\ request'.route = request.route
    /\ request'.role = request.role
    /\ request'.resource = request.resource
    /\ request'.authScope = request.authScope

LEMMA KeptEvidence ==
    ASSUME Keeps
    PROVE  /\ Operation' = Operation
           /\ Required' = Required
           /\ Audited' = Audited
           /\ Guarded' = Guarded
           /\ Permitted' = Permitted
           /\ Looked' = Looked
           /\ Evidence' = Evidence
           /\ \A d : TrailRow(d)' = TrailRow(d)
<1>1. Operation' = Operation /\ Guarded' = Guarded
  BY DEF Keeps, Operation, Guarded
<1>2. Required' = Required /\ Audited' = Audited
  BY <1>1 DEF Keeps, Required, Audited
<1>3. Permitted' = Permitted
  BY <1>1 DEF Keeps, Permitted
<1>4. Looked' = Looked
  BY <1>2 DEF Keeps, Looked
<1>5. \A s : Holds(s)' = Holds(s)
  BY DEF Keeps, Holds
<1>6. Evidence' = Evidence
  BY <1>2, <1>3, <1>4, <1>5 DEF Evidence
<1>7. \A d : TrailRow(d)' = TrailRow(d)
  BY DEF Keeps, TrailRow
<1> QED
  BY <1>1, <1>2, <1>3, <1>4, <1>6, <1>7

\* The forms every step but a look-up has.
LEMMA StepForms ==
    ASSUME GuardTypeOK
    PROVE  /\ \A a \in Answers : Answer(a) => /\ Keeps /\ GuardTypeOK'
                                    /\ request'.stage = "answered"
                                    /\ request'.answer = a
                                    /\ request'.refusal = request.refusal
                                    /\ request'.trail = request.trail
           /\ \A a \in Answers : Refuse(a) => /\ Keeps /\ GuardTypeOK'
                                    /\ request'.stage = "refusing"
                                    /\ request'.refusal = a
                                    /\ request'.answer = request.answer
                                    /\ request'.trail = request.trail
           /\ \A t \in Stages : Proceed(t) => /\ Keeps /\ GuardTypeOK'
                                    /\ request'.stage = t
                                    /\ request'.refusal = request.refusal
                                    /\ request'.answer = request.answer
                                    /\ request'.trail = request.trail
<1>1. \A a \in Answers : Answer(a) => /\ Keeps /\ GuardTypeOK'
                                    /\ request'.stage = "answered"
                                    /\ request'.answer = a
                                    /\ request'.refusal = request.refusal
                                    /\ request'.trail = request.trail
  BY DEF GuardTypeOK, Answer, Keeps, Stages
<1>2. \A a \in Answers : Refuse(a) => /\ Keeps /\ GuardTypeOK'
                                    /\ request'.stage = "refusing"
                                    /\ request'.refusal = a
                                    /\ request'.answer = request.answer
                                    /\ request'.trail = request.trail
  BY DEF GuardTypeOK, Refuse, Keeps, Stages
<1>3. \A t \in Stages : Proceed(t) => /\ Keeps /\ GuardTypeOK'
                                    /\ request'.stage = t
                                    /\ request'.refusal = request.refusal
                                    /\ request'.answer = request.answer
                                    /\ request'.trail = request.trail
  BY DEF GuardTypeOK, Proceed, Keeps
<1> QED
  BY <1>1, <1>2, <1>3

LEMMA InitInv == GuardInit => GuardInv
<1> SUFFICES ASSUME GuardInit PROVE GuardInv
  OBVIOUS
<1>1. GuardTypeOK
  BY DEF GuardInit, Idle, GuardTypeOK, Stages, Callers, Answers, Resources, Unread, NoAnswer
<1> QED
  BY <1>1 DEF GuardInit, Idle, GuardInv, StageInv, TrailInv, HandledOnEvidence, Admitted,
              TrailTellsTheDecision, NoAnswer, Waiting

-----------------------------------------------------------------------------
(* Every step keeps the invariant.                                         *)

\* A request that still waits has neither been handled nor left a row.
LEMMA StillWaiting ==
    ASSUME GuardTypeOK', request'.stage \in Waiting, request'.trail = {},
           request'.answer = NoAnswer,
           request'.stage \in {"resolving", "scoping"} => Permitted',
           request'.stage = "scoping" => Looked',
           request'.stage = "admitting" => Evidence',
           request'.stage = "refusing" => request'.refusal \in Refusals
    PROVE  GuardInv'
<1>1. StageInv'
  BY DEF StageInv, Waiting
<1>2. ~Admitted'
  BY DEF Admitted, Waiting, NoAnswer
<1> QED
  BY <1>1, <1>2 DEF GuardInv, TrailInv, HandledOnEvidence, TrailTellsTheDecision, Admitted

\* A request is handed over with its evidence, and its row if one is asked for.
LEMMA HandedOver ==
    ASSUME GuardTypeOK', request'.stage = "handling", request'.answer = NoAnswer,
           request'.trail \subseteq {TrailRow("ALLOW")'},
           Guarded' => Evidence' /\ (Audited' => TrailRow("ALLOW")' \in request'.trail)
    PROVE  GuardInv'
<1>1. StageInv' /\ TrailInv'
  BY DEF StageInv, TrailInv, Waiting
<1>2. HandledOnEvidence'
  BY DEF HandledOnEvidence, Evidence, Permitted, RoleAllowed, Looked, TrailRow
<1>3. TrailTellsTheDecision'
  <2> SUFFICES ASSUME NEW row \in request'.trail
               PROVE  /\ request'.trail = {row}
                      /\ row.named => request'.resource.status = "FOUND"
                      /\ row.decision = "ALLOW"
    BY DEF TrailTellsTheDecision
  <2>1. row = TrailRow("ALLOW")' /\ request'.trail = {row}
    OBVIOUS
  <2>2. row.decision = "ALLOW" /\ (row.named => request'.resource.status = "FOUND")
    BY <2>1 DEF TrailRow
  <2> QED
    BY <2>1, <2>2
<1> QED
  BY <1>1, <1>2, <1>3 DEF GuardInv

LEMMA ReceiveInv ==
    ASSUME GuardInv, NEW route \in Routes, NEW role \in Callers, Receive(route, role)
    PROVE  GuardInv'
<1>1. GuardTypeOK'
  BY DEF GuardInv, GuardTypeOK, Receive, Idle, Stages, Answers, Resources, Unread, NoAnswer
<1>2. request'.stage = "routing" /\ request'.trail = {} /\ request'.answer = NoAnswer
  BY DEF Receive, Idle
<1> QED
  BY <1>1, <1>2, StillWaiting DEF Waiting

LEMMA PassUnguardedInv ==
    ASSUME GuardInv, PassUnguarded
    PROVE  GuardInv'
<1>1. Proceed("handling") /\ ~Guarded
  BY DEF PassUnguarded, Guarded
<1>2. Keeps /\ GuardTypeOK' /\ request'.stage = "handling" /\ request'.answer = NoAnswer
        /\ request'.trail = {}
  BY <1>1, StepForms DEF GuardInv, StageInv, Stages, PassUnguarded, Waiting
<1> QED
  BY <1>1, <1>2, KeptEvidence, HandedOver

LEMMA RefuseAnonymousInv ==
    ASSUME GuardInv, RefuseAnonymous
    PROVE  GuardInv'
<1>1. /\ GuardTypeOK' /\ request'.stage = "answered" /\ request'.answer = "AUTH_REQUIRED"
      /\ request'.trail = {}
  BY StepForms DEF GuardInv, StageInv, Waiting, RefuseAnonymous, Answers
<1> QED
  BY <1>1 DEF GuardInv, StageInv, TrailInv, HandledOnEvidence, TrailTellsTheDecision, Admitted,
              Waiting

LEMMA CheckRoleInv ==
    ASSUME GuardInv, CheckRole
    PROVE  GuardInv'
<1>1. request.trail = {} /\ request.answer = NoAnswer /\ Guarded /\ GuardTypeOK
  BY DEF CheckRole, GuardInv, StageInv, Waiting, Guarded
<1>2. CASE ~Classified(Operation)
  <2>1. \E a \in Answers \ {"HANDLED"} : Answer(a)
    BY <1>2 DEF CheckRole, Answers
  <2>2. /\ GuardTypeOK' /\ request'.stage = "answered" /\ request'.answer # "HANDLED"
        /\ request'.trail = {}
    BY <1>1, <2>1, StepForms
  <2> QED
    BY <2>2 DEF GuardInv, StageInv, TrailInv, HandledOnEvidence, TrailTellsTheDecision,
                Admitted, Waiting
<1>3. CASE Classified(Operation) /\ ~RoleAllowed(Operation, request.role)
  <2>1. Refuse("FORBIDDEN")
    BY <1>3 DEF CheckRole
  <2>2. /\ GuardTypeOK' /\ request'.stage = "refusing" /\ request'.refusal = "FORBIDDEN"
        /\ request'.trail = {} /\ request'.answer = NoAnswer
    BY <1>1, <2>1, StepForms DEF Answers
  <2> QED
    BY <2>2, StillWaiting DEF Waiting, Refusals
<1>4. CASE Classified(Operation) /\ RoleAllowed(Operation, request.role)
  <2> DEFINE next == IF Required.scope = <<>> THEN "admitting"
                     ELSE IF NeedsResource(Required) THEN "resolving" ELSE "scoping"
  <2>1. Proceed(next)
    BY <1>4 DEF CheckRole
  <2>2. Keeps /\ GuardTypeOK' /\ request'.stage = next
        /\ request'.trail = {} /\ request'.answer = NoAnswer
    BY <1>1, <2>1, StepForms DEF Stages
  <2>3. Permitted
    BY <1>1, <1>4 DEF Permitted
  <2>4. next = "scoping" => Looked
    BY DEF Looked
  <2>5. next = "admitting" => Evidence
    BY <2>3 DEF Evidence, ScopeSet
  <2>6. Permitted' /\ (next = "scoping" => Looked') /\ (next = "admitting" => Evidence')
    BY <2>2, <2>3, <2>4, <2>5, KeptEvidence
  <2>7. next \in {"admitting", "resolving", "scoping"}
    OBVIOUS
  <2> QED
    BY <2>2, <2>6, <2>7, StillWaiting DEF Waiting
<1> QED
  BY <1>2, <1>3, <1>4

LEMMA ResolveInv ==
    ASSUME GuardInv, Resolve
    PROVE  GuardInv'
<1>1. /\ request.trail = {} /\ request.answer = NoAnswer /\ Permitted /\ GuardTypeOK
      /\ request.stage = "resolving"
  BY DEF Resolve, GuardInv, StageInv, Waiting
<1>2. PICK outcome \in Outcomes(PermissionOf(Operation).domain, request.route.locator) :
         TakeOutcome(outcome)
  BY DEF Resolve
<1>3. outcome \in Resources
  BY OutcomesTyped
<1>4. PICK stage \in {"refusing", "scoping"}, refusal \in Refusals \cup {request.refusal} :
         /\ request' = [request EXCEPT !.resource = outcome, !.stage = stage,
                                       !.refusal = refusal]
         /\ stage = "scoping" => outcome.status = "FOUND"
         /\ stage = "refusing" => refusal \in Refusals
  <2>1. CASE outcome.status = "FOUND"
    <3>1. request' = [request EXCEPT !.resource = outcome, !.stage = "scoping"]
      BY <1>2, <2>1 DEF TakeOutcome
    <3>2. request' = [request EXCEPT !.resource = outcome, !.stage = "scoping",
                                     !.refusal = request.refusal]
      BY <1>1, <3>1 DEF GuardTypeOK
    <3> QED
      BY <2>1, <3>2
  <2>2. CASE outcome.status = "NOT_FOUND"
    <3>1. request' = [request EXCEPT !.resource = outcome, !.stage = "refusing",
                                     !.refusal = "NOT_FOUND"]
      BY <1>2, <2>2 DEF TakeOutcome
    <3> QED
      BY <3>1 DEF Refusals
  <2>3. CASE outcome.status \notin {"FOUND", "NOT_FOUND"}
    <3>1. request' = [request EXCEPT !.resource = outcome, !.stage = "refusing",
                                     !.refusal = Disclosed(Operation, Required, NoKey)]
      BY <1>2, <2>3 DEF TakeOutcome
    <3>2. Disclosed(Operation, Required, NoKey) \in Refusals
      BY DEF Disclosed, Refusals
    <3> QED
      BY <3>1, <3>2
  <2> QED
    BY <2>1, <2>2, <2>3
<1>5. /\ GuardTypeOK' /\ request'.stage = stage /\ request'.refusal = refusal
      /\ request'.trail = {} /\ request'.answer = NoAnswer /\ request'.resource = outcome
      /\ request'.route = request.route /\ request'.role = request.role
  BY <1>1, <1>3, <1>4 DEF GuardTypeOK, Refusals, Answers, Stages
<1>6. Permitted'
  BY <1>1, <1>5 DEF Permitted, Guarded, Operation
<1>7. stage = "scoping" => Looked'
  BY <1>4, <1>5 DEF Looked
<1> QED
  BY <1>4, <1>5, <1>6, <1>7, StillWaiting DEF Waiting

LEMMA ReadAuthScopeInv ==
    ASSUME GuardInv, ReadAuthScope
    PROVE  GuardInv'
<1>1. /\ request.trail = {} /\ request.answer = NoAnswer /\ Permitted /\ Looked /\ GuardTypeOK
      /\ request.stage = "scoping"
  BY DEF ReadAuthScope, GuardInv, StageInv, Waiting
<1>2. PICK read \in {"COVERED", "NOT_COVERED"} : request' = [request EXCEPT !.authScope = read]
  BY DEF ReadAuthScope
<1>3. /\ GuardTypeOK' /\ request'.stage = "scoping" /\ request'.trail = {}
      /\ request'.answer = NoAnswer /\ request'.resource = request.resource
      /\ request'.route = request.route /\ request'.role = request.role
  BY <1>1, <1>2 DEF GuardTypeOK
<1>4. Permitted'
  BY <1>1, <1>3 DEF Permitted, Guarded, Operation
<1>5. Looked'
  BY <1>1, <1>3 DEF Looked, Required, Operation
<1> QED
  BY <1>3, <1>4, <1>5, StillWaiting DEF Waiting

LEMMA DecideScopesInv ==
    ASSUME GuardInv, DecideScopes
    PROVE  GuardInv'
<1>1. /\ request.trail = {} /\ request.answer = NoAnswer /\ Permitted /\ Looked /\ GuardTypeOK
  BY DEF DecideScopes, GuardInv, StageInv, Waiting
<1>2. CASE Failing(Required.scope) = {}
  <2>1. Proceed("admitting")
    BY <1>2 DEF DecideScopes
  <2>2. Evidence
    BY <1>1, <1>2 DEF Evidence, ScopeSet, Failing
  <2>3. Keeps /\ GuardTypeOK' /\ request'.stage = "admitting" /\ request'.trail = {}
          /\ request'.answer = NoAnswer
    BY <1>1, <2>1, StepForms DEF Stages
  <2>4. Evidence'
    BY <2>2, <2>3, KeptEvidence
  <2> QED
    BY <2>3, <2>4, StillWaiting DEF Waiting
<1>3. CASE Failing(Required.scope) # {}
  <2> DEFINE refusal == Disclosed(Operation, Required,
                                  Required.scope[FirstOf(Failing(Required.scope))])
  <2>1. Refuse(refusal)
    BY <1>3 DEF DecideScopes
  <2>2. refusal \in Refusals /\ refusal \in Answers
    BY DEF Disclosed, Refusals, Answers
  <2> HIDE DEF refusal
  <2>3. GuardTypeOK' /\ request'.stage = "refusing" /\ request'.refusal = refusal
          /\ request'.trail = {} /\ request'.answer = NoAnswer
    BY <1>1, <2>1, <2>2, StepForms
  <2> QED
    BY <2>2, <2>3, StillWaiting DEF Waiting
<1> QED
  BY <1>2, <1>3

LEMMA AdmitInv ==
    ASSUME GuardInv, Admit
    PROVE  GuardInv'
<1>1. /\ request.trail = {} /\ request.answer = NoAnswer /\ Evidence /\ GuardTypeOK
      /\ request.stage = "admitting"
  BY DEF Admit, GuardInv, StageInv, Waiting
<1>2. CASE ~Audited
  <2>1. Proceed("handling")
    BY <1>2 DEF Admit
  <2>2. Keeps /\ GuardTypeOK' /\ request'.stage = "handling" /\ request'.trail = {}
          /\ request'.answer = NoAnswer
    BY <1>1, <2>1, StepForms DEF Stages
  <2>3. Evidence' /\ ~Audited'
    BY <1>1, <1>2, <2>2, KeptEvidence
  <2> QED
    BY <2>2, <2>3, HandedOver
<1>3. CASE request' = [request EXCEPT !.stage = "handling", !.trail = @ \cup {TrailRow("ALLOW")}]
  <2>1. TrailRow("ALLOW") \in TrailRows
    <3>1. (request.resource.status = "FOUND") \in BOOLEAN
      OBVIOUS
    <3> QED
      BY <3>1 DEF TrailRow, TrailRows
  <2>2. Keeps /\ GuardTypeOK' /\ request'.stage = "handling"
          /\ request'.trail = {TrailRow("ALLOW")} /\ request'.answer = NoAnswer
    BY <1>1, <1>3, <2>1 DEF Keeps, GuardTypeOK, Stages
  <2>3. Evidence' /\ request'.trail = {TrailRow("ALLOW")'}
    BY <1>1, <2>2, KeptEvidence
  <2> QED
    BY <2>2, <2>3, HandedOver
<1>4. CASE Answer("DATABASE_ERROR")
  <2>1. GuardTypeOK' /\ request'.stage = "answered" /\ request'.answer = "DATABASE_ERROR"
          /\ request'.trail = {}
    BY <1>1, <1>4, StepForms DEF Answers
  <2> QED
    BY <2>1 DEF GuardInv, StageInv, TrailInv, HandledOnEvidence, TrailTellsTheDecision,
                Admitted, Waiting
<1> QED
  BY <1>2, <1>3, <1>4 DEF Admit

LEMMA DenyInv ==
    ASSUME GuardInv, Deny
    PROVE  GuardInv'
<1>1. /\ request.trail = {} /\ request.refusal \in Refusals /\ GuardTypeOK
      /\ request.stage = "refusing"
  BY DEF Deny, GuardInv, StageInv, Waiting
<1>2. PICK rows \in {{TrailRow("DENY")}, {}} :
         request' = [request EXCEPT !.stage = "answered", !.answer = request.refusal,
                                    !.trail = @ \cup rows]
  BY DEF Deny
<1>3. rows \subseteq TrailRows
  <2>1. (request.resource.status = "FOUND") \in BOOLEAN
    OBVIOUS
  <2>2. TrailRow("DENY") \in TrailRows
    BY <2>1 DEF TrailRow, TrailRows
  <2> QED
    BY <2>2
<1>4. /\ GuardTypeOK' /\ request'.stage = "answered" /\ request'.answer = request.refusal
      /\ request'.trail = rows /\ request'.resource = request.resource
  BY <1>1, <1>2, <1>3 DEF GuardTypeOK, Stages
<1>5. TrailTellsTheDecision'
  <2> SUFFICES ASSUME NEW row \in rows
               PROVE  /\ rows = {row}
                      /\ row.named => request'.resource.status = "FOUND"
                      /\ row.decision = "DENY"
    BY <1>1, <1>4 DEF TrailTellsTheDecision, Refusals
  <2>1. row = TrailRow("DENY") /\ rows = {row}
    OBVIOUS
  <2>2. row.decision = "DENY" /\ (row.named => request.resource.status = "FOUND")
    BY <2>1 DEF TrailRow
  <2> QED
    BY <1>4, <2>1, <2>2
<1> QED
  BY <1>1, <1>4, <1>5 DEF GuardInv, StageInv, TrailInv, HandledOnEvidence, Admitted, Refusals,
                          Waiting

LEMMA HandleInv ==
    ASSUME GuardInv, Handle
    PROVE  GuardInv'
<1>1. GuardTypeOK /\ request.stage = "handling" /\ Answer("HANDLED")
  BY DEF Handle, GuardInv
<1>2. Keeps /\ GuardTypeOK' /\ request'.stage = "answered" /\ request'.answer = "HANDLED"
        /\ request'.trail = request.trail
  BY <1>1, StepForms DEF Answers
<1>3. request.trail \subseteq {TrailRow("ALLOW")} /\ HandledOnEvidence
  BY <1>1 DEF GuardInv, TrailInv
<1>4. StageInv' /\ TrailInv'
  BY <1>2, <1>3, KeptEvidence DEF StageInv, TrailInv, Waiting
<1>5. HandledOnEvidence'
  <2> SUFFICES ASSUME Guarded
               PROVE  HandledOnEvidence'
    BY <1>2, KeptEvidence DEF HandledOnEvidence
  <2>1. Evidence /\ (Audited => \E row \in request.trail : row.decision = "ALLOW")
    BY <1>1, <1>3 DEF HandledOnEvidence, Admitted, Evidence, Permitted, Looked, RoleAllowed
  <2>2. Evidence' /\ (Audited' => \E row \in request'.trail : row.decision = "ALLOW")
    BY <1>2, <2>1, KeptEvidence
  <2> QED
    BY <2>2 DEF HandledOnEvidence, Evidence, Permitted, Looked, RoleAllowed
<1>6. TrailTellsTheDecision'
  <2> SUFFICES ASSUME NEW row \in request.trail
               PROVE  /\ request.trail = {row}
                      /\ row.named => request.resource.status = "FOUND"
                      /\ row.decision = "ALLOW"
    BY <1>2 DEF TrailTellsTheDecision, Keeps
  <2>1. request.trail = {row} /\ row = TrailRow("ALLOW")
    BY <1>3
  <2>2. row.decision = "ALLOW" /\ (row.named => request.resource.status = "FOUND")
    BY <2>1 DEF TrailRow
  <2> QED
    BY <2>1, <2>2
<1> QED
  BY <1>2, <1>4, <1>5, <1>6 DEF GuardInv

LEMMA FinishInv ==
    ASSUME GuardInv, Finish
    PROVE  GuardInv'
<1>1. GuardInit'
  BY DEF Finish, GuardInit
<1>2. GuardTypeOK'
  BY <1>1 DEF GuardInit, Idle, GuardTypeOK, Stages, Callers, Answers, Resources, Unread, NoAnswer
<1>3. request'.stage = "idle" /\ request'.trail = {} /\ request'.answer = NoAnswer
  BY <1>1 DEF GuardInit, Idle
<1> QED
  BY <1>2, <1>3, StillWaiting DEF Waiting

LEMMA GuardKeepsInv ==
    ASSUME GuardInv, [GuardStep \/ Handle]_request
    PROVE  GuardInv'
<1>1. CASE UNCHANGED request
  BY <1>1 DEF GuardInv, GuardTypeOK, StageInv, TrailInv, HandledOnEvidence,
              TrailTellsTheDecision, Permitted, Looked, Evidence, Admitted, Guarded, Operation,
              Required, Audited, Holds, TrailRow
<1>2. CASE \E route \in Routes, role \in Callers : Receive(route, role)
  BY <1>2, ReceiveInv
<1>3. CASE PassUnguarded \/ RefuseAnonymous \/ CheckRole
  BY <1>3, PassUnguardedInv, RefuseAnonymousInv, CheckRoleInv
<1>4. CASE Resolve \/ ReadAuthScope \/ DecideScopes
  BY <1>4, ResolveInv, ReadAuthScopeInv, DecideScopesInv
<1>5. CASE Admit \/ Deny \/ Handle \/ Finish
  BY <1>5, AdmitInv, DenyInv, HandleInv, FinishInv
<1> QED
  BY <1>1, <1>2, <1>3, <1>4, <1>5 DEF GuardStep

-----------------------------------------------------------------------------
(* The guard, and the record behind it.                                    *)

\* Every step of the guarded record is a step of the guard, or none.
LEMMA StepImplementsGuard ==
    ASSUME [GuardedNext]_guardedVars
    PROVE  [GuardStep \/ Handle]_request
BY DEF GuardedNext, GuardRecord, HandleOperation, HandleCreation, HandleElsewhere, Unserved,
       guardedVars

\* The guarded lifecycle implements the guard: a record behind it changes nothing
\* about what the guard does with a request.
THEOREM LifecycleImplementsGuard == GuardedSpec => GuardSpec
<1>1. GuardedInit => GuardInit
  BY DEF GuardedInit
<1>2. [GuardedNext]_guardedVars => [GuardStep \/ Handle]_request
  BY StepImplementsGuard
<1> QED
  BY <1>1, <1>2, PTL DEF GuardedSpec, GuardSpec

\* What the guard has established and written by each of its stages.
THEOREM GuardInvariant == GuardSpec => []GuardInv
<1>1. GuardInit => GuardInv
  BY InitInv
<1>2. GuardInv /\ [GuardStep \/ Handle]_request => GuardInv'
  BY GuardKeepsInv
<1> QED
  BY <1>1, <1>2, PTL DEF GuardSpec

\* The guard fails closed: whatever the tables hold, a handler behind it runs only
\* with the evidence its requirement asks for and its audit row written.
THEOREM HandlersRunOnEvidence == GuardedSpec => []HandledOnEvidence
<1>1. GuardInv => HandledOnEvidence
  BY DEF GuardInv
<1> QED
  BY <1>1, LifecycleImplementsGuard, GuardInvariant, PTL

\* Whatever the tables hold, a request leaves one audit row at most, and it agrees
\* with the answer.
THEOREM TrailAgreesWithAnswer == GuardedSpec => []TrailTellsTheDecision
<1>1. GuardInv => TrailTellsTheDecision
  BY DEF GuardInv
<1> QED
  BY <1>1, LifecycleImplementsGuard, GuardInvariant, PTL

=============================================================================
