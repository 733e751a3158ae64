# A formal model of the Cyber Hub API

The repository is the backend of Cyber Hub: a NestJS service over PostgreSQL
that runs internships, a job board, consulting engagements, security
assessments, reports, learning resources and the accounts of everybody involved.
This directory holds TLA+ modules translated from that code, the TLC
configurations that check them, and TLAPS proofs about them. All source paths
below are relative to the repository's own `src/`.

## 1. Inventory of the system

Every request goes through global guards (CSRF, authentication, permission),
then a controller, a service and a repository. All state is in PostgreSQL under
READ COMMITTED; `TransactionManager.runInTransaction` gives a service one
transaction. Any number of API processes run side by side, so everything two
requests share is a row.

| Component | State | Operations | What is hard about it |
|---|---|---|---|
| Workflow registry and operation map (`core/workflow`) | none | `validate`, `resolveCandidate`, the map of operations | 13 hand-written state machines and 60 operations must agree |
| Compare-and-set (`core/workflow/transition.repository.ts`) | `status`, `state_version` of a row | one conditional UPDATE, one diagnostic read | other commands commit between the two |
| Learning resources (`modules/resources`) | `resources` | create, edit, publish, archive, delete | lock, check, conditional write |
| Consulting requests (`modules/consulting`) | `consulting_requests`, `security_scope_authorizations`, notes | create, review, accept, decline, assign, start delivery, complete, confirm a scope | guards read before the row lock; completion depends on other rows |
| Security assessments and findings (`modules/security-work`) | `security_assessments`, `vulnerability_findings` | create, start, complete, cancel; record, edit, remediate, resolve, reopen a finding | lock order request - assessment - scope; authorisation may be superseded meanwhile; findings outlive the assessment and are cited by reports |
| AUTH_SCOPE evaluator (`core/security/authorization`) | none | is this authorisation current, in its window, covering? | its verdict is used after it was computed |
| Permission guard and policy tables (`core/security`) | audit rows | session check, role check, resource look-up, AUTH_SCOPE, scopes, the audit row, the handler | five tables must agree on each of 202 operations; every read and the audit row may fail; a refusal must not tell what exists |
| Accounts (`modules/auth`) | users, sessions, one-time tokens | register, verify, log in, reset, log out | one-time tokens and sessions under concurrency |
| Admin accounts (`modules/admin-accounts`) | roles | role changes | the last Admin, lock order |
| Idempotency (`core/idempotency`) | keys | reserve, replay, release | a retry while the first call runs |
| Internships (`modules/internship`) | programme, application, enrolment, task, submission | publish, apply, review, submit, approve | several writes without a transaction; counts read before writes |
| Certificates (`modules/certificate`) | certificates | issue, revoke | eligibility is derived, then used |
| Career (`modules/career`) | listings, opportunities | submit, moderate, edit, close | content that changes under review |
| Security reports (`modules/security-report`) | `security_reports`, `security_report_findings` | create, edit, choose findings, submit, return, mark ready, release, supersede | three tables change under one report: its row, its membership, the findings it cites |
| Security score (`modules/security-score`) | audit rows | calculate (always refused), list | the refusal comes after the audit row commits |
| Portfolio, audit log, configuration | owner's content; inserted rows; none | reads and simple writes | little |

## 2. Modules

| Module | Models |
|---|---|
| `WorkflowRegistry` | `workflow-registry.ts`, `workflow-validation.service.ts`: the state machines and the functions that read them |
| `WorkflowOperations` | `workflow-operation-map.ts`: every operation with its candidates or its guard |
| `WorkflowLifecycle` | one record of any entity, driven by every operation the map allows |
| `ApiAuthorizationMap` | `api-authorization-map.ts`: every API operation with its permission, roles, scopes and flags |
| `PermissionPolicies` | `permission-registry.ts`, `operation-role-policy.ts`, `disclosure-policy.ts`: the tables beside it |
| `ResourceContexts` | the thirteen resource resolvers: what each can report of the resource a path names |
| `ApiRoutes` | the routes of the controllers: access decorator and path parameter |
| `PermissionGuard` | one request on its way through session check, guard, reads and audit row to its handler |
| `PermissionGuard_proofs` | its theorems, and that the composition below implements it |
| `GuardedLifecycle` | composes `PermissionGuard` and `WorkflowLifecycle`: a record that only guarded requests change |
| `GuardedLifecycle_proofs` | its theorems, over the contents of the tables, and that it implements `WorkflowLifecycle` |
| `VersionedRecord` | the abstract promise of optimistic concurrency: a command is decided at one instant |
| `CasTransition`, `MCCasTransition` | the UPDATE and the diagnostic read, raced by any number of callers |
| `CasTransition_proofs` | its theorems |
| `ConsultingEngagement`, `MCConsultingEngagement` | one request, its scope versions, its assessments and concurrent sessions |
| `ConsultingEngagement_proofs` | its theorems |
| `AdminRoles`, `MCAdminRoles` | role changes, their row locks and their one decision |
| `AdminRoles_proofs` | its theorems |
| `Accounts`, `MCAccounts` | registration, one-time tokens, passwords, sessions and the authentication of a request |
| `Accounts_proofs` | its theorems |
| `ReviewedReports` | the abstract promise to the reader of an assessment's reports, without rows, locks or versions |
| `SecurityDeliverables`, `MCSecurityDeliverables` | the findings and reports of one assessment, and the concurrent sessions that work on them |
| `SecurityDeliverables_proofs` | its theorems, the refinement of `ReviewedReports` among them |
| `Internship`, `MCInternship` | one programme, its applications, enrolments, assignments, submissions, the completion gate and the certificates |
| `Internship_proofs` | its theorems |
| `RegisteredRow` | the abstract promise of every table with a lifecycle: one row, moved along registered transitions and edited, each time under a version of its own |

`WorkflowRegistry` has no variables and is what the others stand on:
`WorkflowOperations` extends it, `WorkflowLifecycle` walks it, the model of the
compare-and-set takes its transitions from it, and `ConsultingEngagement` takes
the from-states of each command from it, as the services do; so does
`SecurityDeliverables`. `GuardedLifecycle` extends `WorkflowLifecycle` and
`PermissionGuard`, and `PermissionGuard` extends the four tables.

### State and actions against the code

*WorkflowLifecycle.* `Perform` is `ResourceService.transitionCommand` read as
every service's: resolve the candidate, validate it, move the row. `Edit` and
`Delete` are the edit and delete guards. `reviewed` is a history of the content
that was last put under review.

*CasTransition.* `Update(c)` is the conditional UPDATE of
`executeCasTransition`, atomic in the database; `Diagnose(c)` is the separate
read that classifies a failure. `applied` is the trail of commands that took
effect. `Issue` lets a caller name any version that was ever served; with
`Guessing = TRUE`, any version at all, as the request schema does.

*ConsultingEngagement.* A session is one HTTP request. `Begin` is the
permission guard, which reads without a lock; `TakeLock` the
`SELECT .. FOR UPDATE` of the request row; `Check` the handler's own guards;
the `Commit..` actions the writes. What a handler remembers between its checks
and its writes is in `cmd[s].read`. Review commands and `startDelivery` are a
single UPDATE that waits for the row lock and re-evaluates its WHERE clause on
the row as it is then; `startDelivery`'s scope subquery is read from the
snapshot taken before that wait. `Abort` is a crash, a dropped connection or a
statement that failed: PostgreSQL rolls back.

*PermissionGuard.* The one variable is the request: its route, its caller's
role, what it has read so far, the audit rows it wrote and its answer. Each
`await` of the guard is a step: `Receive`, `RefuseAnonymous` (the session check),
`CheckRole`, `Resolve` (the resource resolver), `ReadAuthScope`, `DecideScopes`,
`Admit` and `Deny` (with the audit row, which may fail), `Handle`. A read reports
anything the read can give: the resolver of the route's domain says which facts
always or sometimes hold of a row found by that parameter, and it may find none
or fail. The tables are the source's, row by row.

*GuardedLifecycle.* A controller's operation changes the record only in the
`HandleOperation` of a request that the guard let through. `hands` is a history:
the roles that worked on the present content. Operations without a route
(courses, monitoring) or whose handler always stops short (`API-RPT-008`,
`API-RPT-009`) are walked without a request in `Unserved`, so that the registry
is still covered whole.

*SecurityDeliverables.* A session is one HTTP request. `Send` is the guard, with
the version the client was shown; `Enter` takes the request's row lock
(`lockAssessment`, `lockReport`, `mutateFinding`) and tests what the handler
tests under it (`Admits`); each `Commit..` action is the handler's writes, all
its tables at once, with the WHERE clause of the UPDATE (`Matches`). Which
operation it is, is chosen at `Enter`: the guard tests the same assignment for
all of them. `cmd[s].shown` is a history: what the caller saw of the report
with the version it names. `Reassign` and `AdvanceAssessment` are `assign` and
`assessmentCommand`, taken while nobody holds the request's row, which they lock
as well (`ConsultingEngagement` has them step by step); `Lapse` is an authorisation
superseded or run out, which no lock prevents. `calculate` of the score and
`release` and `supersede` of a report are commands `Admits` always refuses: no
methodology and no file policy exist in this code, so no report is ever
`RELEASED`.

*ReviewedReports* and the refinement. The abstract state is a shelf: for each
report its stage, its number, what its author decided (`own`) and the words of
the findings it cites (`cited`). It is instantiated with the rows' own:
`shelf <- [r \in Reports |-> Shelved(r)]`, where `Shelved` joins a report with
its findings as the service's views do. A finding edited is one abstract step
that changes every open report citing it.

*AdminRoles.* `Begin` is the guard and the statement start of `lockAdminIds`:
the rows it will lock come from the snapshot it starts with (`toLock`).
`LockAdmin` takes them one by one in the order of their ids and filters each
again on its newest version, which is what PostgreSQL does after a wait;
`LockTarget` is `lockUser`; `MayChange` is `evaluateRoleChange`; `Commit` and
`RollBack` end the transaction and release every row.

*Accounts.* `FindToken` .. `Confirm` are the two confirmations, one transaction
each: the token is read without a lock (`findByHash`), the UPDATE of the users
row takes its lock (`WriteUser`, `holder`), a reset revokes the sessions its
snapshot shows (`Sweep`), and everything shows at the commit. `BeginLogin` and
`OpenSession` are the two halves of `login`, `ReadSession` and `Grant` of
`authenticate`. `RoleChanged` is what a role change does to an account. Two
histories: a session remembers the `password` it was opened with, a token how
often it was used (`uses`).

*Internship.* A command that is one conditional UPDATE is one action
(`Administrate`, `Decide`, `Review`, `Revoke`); one that reads first and writes
later is several, and whatever it read is in `cmd[r]`. `Leave` may end any of
them between two statements, with what was written left in place, since only
the acceptance of an application runs in a transaction. A caller names a version
the row had when it asked (`Named`), or any with `Guessing = TRUE`. `judged` is a
history: the assignments the last verdict ELIGIBLE was based on. A later NOT_ELIGIBLE
takes the gate away and not the history, so that `CertificateWasEarned` can speak of
a certificate whose gate was withdrawn after it was issued, or just before.

## 3. Runs

| Run | Configuration | What it shows |
|---|---|---|
| `workflow_lifecycle` | `GuardedLifecycle.cfg` | every role asks for every route: handlers run only on evidence, technical work only under an authorisation, a concealed resource looks absent, the trail tells the decision, and no single role takes a listing, an opportunity, an internship application, a submission or a consulting request from its creation to its approval; both readings of a multi-candidate command agree in every reachable state; exactly the registered terminal states are stuck; only reviewed content is public |
| `cas` | `MCCasTransition.cfg` | one winner per version, an unbroken trail, refusals with a true cause, and the refinement of `VersionedRecord` |
| `engagement` | `MCConsultingEngagement.cfg` | completion over finished work only; assignment agrees on request and assessments; a replaced consultant cannot finish the request or move an assessment any more; a closed engagement is frozen; scope versions form one line; technical work commits only under the current covering authorisation |
| `engagement_live` | `MCEngagementLive.cfg` | every command ends |
| `deliverables` | `MCSecurityDeliverables.cfg` | a report is submitted and marked ready as it was shown, by the consultant in charge at that instant; the commands, locks and versions implement `ReviewedReports` |
| `admin_roles` | `MCAdminRoles.cfg` | an Admin always remains; a decision is made against current Admins and on the word of one; the refusal that protects the last Admin is never needed |
| `admin_roles_waits` | `MCAdminRolesWaits.cfg` | violation: after a demotion two role changes wait on each other |
| `accounts` | `MCAccounts.cfg` | a reset ends every session, those about to be opened included; nobody is let in with an old password; an address is verified by a token of its own |
| `accounts_tokens` | `MCAccountsTokens.cfg` | violation: one token used twice |
| `internship` | `MCInternship.cfg` | rows exist only for what came before them; version numbers are never claimed twice; eligibility stands on approved, assigned work; a certificate exists only where a verdict ELIGIBLE was once written on such work; a revoked one is never replaced |
| `internship_draft` | `MCInternshipDraft.cfg` | violation: a draft programme with an application |
| `internship_eligible` | `MCInternshipEligible.cfg` | violation: an eligible enrolment with unapproved work |

### Bounds

`MaxEdits = 2` allows an edit before and one after a review, all that
`PublicContentWasReviewed` compares. In `GuardedLifecycle` a request for an
operation of another entity is followed only beside a record that does not exist
yet (`Concerns`): every route is still asked for by every role, and such a
request cannot touch a record. `MaxVersion = 3` allows a create, an edit, a
publication and the deletion or republication that follow, and two callers
suffice for every race of a single row (each property relates at most two
commands). Two sessions are enough for the races between a checking handler and a
committing one, since at most one holds the row lock; two consultants for a
reassignment; two assessments for "some completed, none active"; two scope
versions for a supersession. The safety run has no clock, since its properties
speak of currency and coverage; the liveness run has one tick, which ends the
authorisation's window.

`SecurityDeliverables` has two sessions (one commits while the other is between
its guard and its lock; at most one is past it), two consultants for a
reassignment, two reports for the numbering, one finding with two texts, and
`MaxWrites = 5`: a finding and a report recorded, the report submitted and marked
ready, and one write more, at any place, that must not disturb them. Citing no
finding, or saying nothing (`Blank`), are among the choices.

`AdminRoles` has three accounts, two of them Admins: enough for an actor, a
target and the Admin who remains, and for ids on either side of a promoted
account; `MaxChanges = 2` lets every account be demoted and promoted again.
`Accounts` has one account (rows of different accounts never meet), two
passwords, two tokens, one session and two requests: one commits while the other
is between its read and its write; `MaxVersion = 3` allows two resets, or one
and a role change. `Internship` has one learner (enrolments share only the
programme, whose state later commands do not read) and two requests; two tasks,
one judged and one assigned behind the evaluation's back; `MaxVersion = 7`, which
is a first submission and two full rounds of revision, so that a request can read
a submission waiting for revision and write when it waits for another;
`MaxProgramme = 4`, the shortest lifecycle with a return to draft or an archive.

The internship runs set `CHECK_DEADLOCK FALSE`: an archived programme whose
application was rejected has nothing left to do, and a record at its bound
cannot move. `workflow_lifecycle` sets it too: a record in a terminal state has
reached its end, which is what `TerminalMeansStuck` is about. Every other run
checks deadlock, which in `AdminRoles` and
`Accounts` is always broken by a rollback, as in the database: waiting requests
are the subject of `NoDeadlock` instead.

### Fairness

`FairSpec` assumes that a handler that can take its next step takes it (Node
runs it, PostgreSQL answers), weakly; and that the row lock goes to a session
that keeps asking for it, strongly: PostgreSQL queues waiters on a tuple. No
fairness is assumed of the clients, the clock or of failures.

### Findings

1. *Role changes can deadlock.* `lockAdminIds` promises one lock order. The rows
   come from the statement's snapshot and the target's row after them, whatever
   its id. Let 2 and 3 be the Admins. A request that started then still locks row 2
   after 2 was demoted, finds no Admin in it, keeps it and goes on to row 3; a
   request by 3 that started after the demotion has locked row 3, the only Admin's
   left, and asks for row 2 as its target. PostgreSQL aborts one of them.
2. *A one-time token can be used twice.* `token-lifecycle.service.ts` promises it
   cannot; `consume` reads without a lock and writes without a condition, so two
   confirmations that have both read the token both succeed.
3. *A draft with applications.* `returnToDraft` looks for applications and then
   updates the programme; an application can arrive in between.
4. *Eligible with unfinished work.* A task assigned while or after
   the enrolment is evaluated leaves the gate as it is, and a certificate is
   issued on the stored gate.

### Callers who guess

The request schemas accept any positive `expectedStateVersion`. The runs let
callers name versions they were shown (`Guessing = FALSE`), as the clients do.
With `Guessing = TRUE` four properties fail. In `CasTransition`, a guessed
version can come true between the UPDATE and the diagnostic read: the refusal then
has neither of the causes `transition.repository.ts` documents
(`ConflictHasACause`), and a command that was refused applies after all
(`LostForGood`, `DecidedAtOneInstant`). The row itself stays safe:
`OneWinnerPerVersion` and `AuditChain` hold either way. In `Internship`,
`resubmit` takes the next number from a row it read earlier, so a guess can move
a submission whose new version row then meets its unique key (`NumbersAreFresh`);
the other properties hold either way.

## 4. Proofs

`CasTransition_proofs` proves, for any rows, callers, lifecycle and bound: the
type invariant; `OneWinnerPerVersion` and `AuditChain`, whose inductive
invariant says that the trail of a row holds exactly the versions below its
current one, each started where its predecessor ended; and, for callers who
name served versions only, `LostForGood`, `ConflictHasACause` and the
refinement of `VersionedRecord`. The last needs that versions never go back
(`ForwardOnly`): a command whose UPDATE failed then never matches again, so the
instant of the diagnostic read is the instant of the decision.

`ConsultingEngagement_proofs` proves, for any sets of sessions, consultants,
assessments and windows, every safety property of `engagement`. The
inductive invariant says what a handler that passed its check may still rely
on at its commit: the rows it read are protected by the request's row lock,
except those the lock does not protect, which no commit uses.

`AdminRoles_proofs` proves, for any accounts, Admins and requests, every property
of `admin_roles`. The invariant adds two facts: who asks is not the target, and
an account a request counts as a locked Admin is one and stays one, because a
role changes only under the row's lock. The actor is among them at the decision,
so demoting the target leaves the actor.

`Accounts_proofs` proves, for any accounts, passwords, tokens, sessions and
requests, every property of `accounts`. The idea of the invariant: a session, or
a log-in under way, remembers a version and a password that belonged together.
An account never has two passwords at one version, and versions only grow, so
whoever matches the current version remembers the current password.

`PermissionGuard_proofs` proves, whatever the policy tables hold, that handlers
run on evidence only (`HandledOnEvidence`) and that the trail tells the decision.
The invariant follows the request through its stages: what a stage asks has been
seen by the next (`StageInv`: the role at `resolving`, the resource at `scoping`,
all of `Evidence` at `admitting`), and while it may still be handled it has
written nothing but an ALLOW (`TrailInv`). The tables and the routes are never
expanded in the proof. `LifecycleImplementsGuard` carries the result over to
`GuardedLifecycle`: every step of the composition is a step of the guard or
leaves the request alone.

`SecurityDeliverables_proofs` proves, for any sessions, consultants, findings,
reports, texts and bound, all three properties of `deliverables`. The inductive
invariant has three parts beside the types. What a session that holds the lock
tested is still true (`HeldInv`), because every write that could undo it needs
the same lock; the lapse of an authorisation does not, and `Admitted` leaves it
out. A session that names the current version of a report was shown that report
(`SentInv`), because every write of a report, the replacement of its findings
included, moves its version. And a report past its draft is complete, a ready one
stands over a completed assessment (`JudgedInv`), which is why the words it cites
are fixed: findings are edited only while the assessment runs, and it never runs
again. The refinement then goes commit by commit (`NewReportImplements`,
`ReportEditImplements`, `ReportMoveImplements`, `FindingsImplement`); every other
step is a stutter (`ReadAsBefore`).

`GuardedLifecycle_proofs` proves what depends on the contents of the tables, and
so every property of `workflow_lifecycle` the guard alone does not give. Its first
part reads the registry, the operation map, the role requirements and the routes
entry by entry and shows that they fit each other: names are unique, no transition
leaves a terminal state, the candidates of a command lead to one state
(`CommandFits`), every other state has an exit (`HasExits`) that some command offers
(`ExitsAreOffered`), what is past review is reached from review only and nothing is
edited from review on (`ReviewFits`), technical work asks for `AUTH_SCOPE` of every
role (`MapFits`, `RequirementFits`), and no role has both sides of a decision
(`SidesFit`). From there on the proofs use only that the tables fit, so a new entry
that fits needs no new argument, and one that does not fails at the entry. The
invariants then are short: a record's content is the reviewed one from review on
(`ReviewInv`); a refused request answers with what an absent resource would get
(`ConcealInv`); the hands on a record's content tell how far it can have come
(`SidesInv`). The composition implements `WorkflowLifecycle`: what the guard lets
through is one of its commands, and the rest is a stutter.

`Internship_proofs` proves, for any learners, tasks, requests and bounds, every
property of `internship`. Most of it rests on one lemma, `NothingIsTakenBack`: no
step withdraws an enrolment, an assignment or an approval. What an evaluation found
of the assignments it read still holds of those when it is written, although nothing
locks the rows (`EarnedInv`), and what was once found complete (`Completed`) stays so,
whether or not the gate is withdrawn before the certificate is inserted; a task assigned
meanwhile is the finding above. A revoked certificate stays the only one of its
enrolment, because the insert meets the UNIQUE key. For the version numbers
(`NumbersInv`), the number a resubmission claims is one past the row's current one as
long as the row has the version the caller was shown, and otherwise the UPDATE that
precedes the record fails; callers who guess are excluded by the theorem's hypothesis
(see *Callers who guess*).

`RowsFollowTheRegistry`, in `ConsultingEngagement_proofs`, `SecurityDeliverables_proofs`
and `Internship_proofs`, says the same of eight kinds of rows: a request, an
assessment, a finding, a report, a programme, an application, a submission and a
certificate each implement `RegisteredRow`. Whatever the sessions around it do, a row
is created in the state the registry creates it in (the services look the creating
transition up, but write the status of the new row out), moves along registered
transitions from the state it has at the commit, is edited only in states that are
not terminal, and takes the next version each time, so that a version a client was
shown names one state of the row for good. What is not a command of the row, such as
a reassignment, leaves both alone. A certificate has no `state_version`; the number
of times it was written stands for it. TLC checked the refinements on the instances
of `engagement`, `deliverables` and `internship` before they were proved; no
configuration lists them.

All of these assume only what the modules' named `ASSUME`s say of the constants
(bounds are numbers, `None` is not an id). Each strengthened invariant was checked
by TLC on the instance of its run before it was proved.

Only model-checked: `EveryCommandEnds`, since liveness under fairness is out of the
prover's reach. The four violations are counterexamples, and stay with TLC.

## 5. Not modelled, and the plan

Left out for good: configuration, logging, the response envelope, health,
pagination and views (reads and formatting), the audit log's read side.

In the modelled parts: the note threads, listings and views (reads that no guard
uses); the edits of an employer's profile and status; creating, editing and
deleting tasks; the throttling and CSRF cookie of the authentication routes. In
`SecurityDeliverables`, the employer of a row (a row of another employer is
refused as an absent one) and the order of a report's findings, which no
guard reads; a supersession's lineage and what the client reads, which need a
released report.

Observed while modelling, and held against no document:

- A delivery started before any assessment exists can never be completed:
  `createAssessment` is refused once the request has left `ACCEPTED`, and
  `complete` needs a completed assessment.
- After the assessment is completed, a reassignment of the request leaves no
  consultant whom both rows name. Until it is assigned back, its draft reports can
  be edited by an Admin but neither submitted nor marked ready by anybody.
- The version of a report covers its own content and its choice of findings, not
  the words of those findings. A consultant who read a report under review while
  the assessment ran can mark it ready after one of its findings was edited.
- `getCurrentValid` excludes the last instant of an authorisation's window, the
  evaluator includes it. The first has no caller.

Planned, in this order:

1. Idempotency: reservation, replay and release of a key, kept in the memory of
   one process and forgotten at its restart; the promise is that the one endpoint
   that uses it issues one certificate, which the UNIQUE enrolment keeps anyway
   (`Internship`).
2. The release of a report and its supersession, once a file policy exists.
3. Career listings and opportunities as they are stored; portfolio and the
   certificates attached to it.
