------------------------------ MODULE Internship ------------------------------
(***************************************************************************)
(* One internship programme, from its publication to the certificates of   *)
(* its learners (modules/internship, modules/certificate), worked on by    *)
(* any number of concurrent HTTP requests.                                 *)
(*                                                                         *)
(* Apart from the acceptance of an application nothing here runs in a      *)
(* transaction: a command is one conditional UPDATE, or some reads and     *)
(* then one or two writes, and every statement stands alone.  A request    *)
(* may stop between any two of them.  A command that is one conditional    *)
(* UPDATE is one action.  Callers name a version they have been shown,     *)
(* unless Guessing lets them name any.                                     *)
(***************************************************************************)
EXTENDS Naturals

CONSTANTS
    Applications,   \* applications to the programme; an enrolment has its application's id
    Tasks,          \* the tasks of the programme
    Requests,       \* concurrent HTTP requests
    MaxVersion,     \* bound on the state_version of applications and submissions
    MaxProgramme,   \* bound on the state_version of the programme
    Guessing,       \* callers may name a version they were never shown
    None            \* no application, no task

ASSUME InternshipAssumption ==
    /\ MaxVersion \in Nat \ {0}
    /\ MaxProgramme \in 1..MaxVersion
    /\ Guessing \in BOOLEAN
    /\ None \notin Applications \cup Tasks

VARIABLES
    programme,      \* [status, version]
    application,    \* Applications -> [status, version]
    enrolled,       \* the applications that have become enrolments
    assigned,       \* the assignments: pairs <<enrolment, task>>
    submission,     \* Assignments -> [status, version, currentVersion]
    recorded,       \* Assignments -> the version numbers in submission_versions
    eligible,       \* the enrolments whose completion_eligibility is ELIGIBLE
    judged,         \* history: Applications -> what its last verdict ELIGIBLE was based on
    certificate,    \* Applications -> NONE, ISSUED or REVOKED
    pc,             \* Requests -> where the request is
    cmd             \* Requests -> what it works on and what it has read

tables == <<programme, application, enrolled, assigned, submission, recorded, eligible,
            judged, certificate>>
vars == <<programme, application, enrolled, assigned, submission, recorded, eligible,
          judged, certificate, pc, cmd>>

Assignments == Applications \X Tasks

Programme   == [status : {"DRAFT", "PUBLISHED", "CLOSED", "ARCHIVED"}, version : 1..MaxProgramme]
Application == [status : {"NONE", "SUBMITTED", "UNDER_REVIEW", "ACCEPTED", "REJECTED"},
                version : 1..MaxVersion]
Submission  == [status : {"NONE", "SUBMITTED", "UNDER_REVIEW", "REVISION_REQUIRED", "APPROVED"},
                version : 1..MaxVersion, currentVersion : 1..MaxVersion]
Work        == [application : Applications \cup {None}, task : Tasks \cup {None},
                version : 0..MaxVersion, number : 0..MaxVersion,
                toCheck : SUBSET Assignments, seen : SUBSET Assignments]

Nothing == [application |-> None, task |-> None, version |-> 0, number |-> 0,
            toCheck |-> {}, seen |-> {}]

Approved(x) == submission[x].status = "APPROVED"
Assigned(a) == {x \in assigned : x[1] = a}
Subject(r)  == <<cmd[r].application, cmd[r].task>>

\* The shape of the state: work exists only for what came before it.
TypeOK ==
    /\ programme \in Programme
    /\ application \in [Applications -> Application]
    /\ enrolled \subseteq {a \in Applications : application[a].status = "ACCEPTED"}
    /\ assigned \subseteq enrolled \X Tasks
    /\ submission \in [Assignments -> Submission]
    /\ recorded \in [Assignments -> SUBSET (1..MaxVersion)]
    /\ \A x \in Assignments : submission[x].status # "NONE" => x \in assigned
    /\ eligible \subseteq enrolled
    /\ judged \in [Applications -> SUBSET Assignments]
    /\ certificate \in [Applications -> {"NONE", "ISSUED", "REVOKED"}]
    /\ pc \in [Requests -> {"idle", "apply", "draft", "submit", "resubmit", "record",
                            "evaluate", "refuse", "issue", "insert"}]
    /\ cmd \in [Requests -> Work]

Init ==
    /\ programme = [status |-> "DRAFT", version |-> 1]
    /\ application = [a \in Applications |-> [status |-> "NONE", version |-> 1]]
    /\ enrolled = {}
    /\ assigned = {}
    /\ submission = [x \in Assignments |-> [status |-> "NONE", version |-> 1, currentVersion |-> 1]]
    /\ recorded = [x \in Assignments |-> {}]
    /\ eligible = {}
    /\ judged = [a \in Applications |-> {}]
    /\ certificate = [a \in Applications |-> "NONE"]
    /\ pc = [r \in Requests |-> "idle"]
    /\ cmd = [r \in Requests |-> Nothing]

-----------------------------------------------------------------------------
(* The steps of a request.                                                 *)

Begin(r, step, work) ==
    /\ pc[r] = "idle"
    /\ pc' = [pc EXCEPT ![r] = step]
    /\ cmd' = [cmd EXCEPT ![r] = work]
    /\ UNCHANGED tables

Goto(r, step) == pc' = [pc EXCEPT ![r] = step] /\ UNCHANGED cmd

End(r) ==
    /\ pc' = [pc EXCEPT ![r] = "idle"]
    /\ cmd' = [cmd EXCEPT ![r] = Nothing]

\* Refused, finished, failed or cut off: what was written stays.
Leave(r) == pc[r] # "idle" /\ End(r) /\ UNCHANGED tables

\* Every conditional UPDATE moves one row from a state to another and bumps its version.
Moved(row, to) == [row EXCEPT !.status = to, !.version = @ + 1]

\* The versions a caller may name when a row is to be moved from a state.  A version it
\* was shown and that is past, or has another state, can never match: such a request
\* is refused whatever happens, and is left out.
Named(row, from) ==
    IF Guessing THEN 1..MaxVersion
    ELSE {v \in {row.version} : row.status = from}

CanMove(row, from) == row.status = from /\ row.version < MaxVersion

-----------------------------------------------------------------------------
(* The programme and its applications.                                     *)

ProgrammeCommand(from, to) ==
    /\ CanMove(programme, from) /\ programme.version < MaxProgramme
    /\ programme' = Moved(programme, to)
    /\ UNCHANGED <<application, enrolled, assigned, submission, recorded, eligible, judged,
                   certificate, pc, cmd>>

\* publish, close, archive, and an edit of the draft.
Administrate ==
    \/ ProgrammeCommand("DRAFT", "PUBLISHED")
    \/ ProgrammeCommand("PUBLISHED", "CLOSED")
    \/ ProgrammeCommand("CLOSED", "ARCHIVED")
    \/ ProgrammeCommand("DRAFT", "DRAFT")

\* returnToDraft: the applications are looked for first ...
BeginReturnToDraft(r) ==
    /\ \A a \in Applications : application[a].status = "NONE"
    /\ \E v \in Named(programme, "PUBLISHED") : Begin(r, "draft", [Nothing EXCEPT !.version = v])

\* ... and the UPDATE asks for the status and the version alone.
ReturnToDraft(r) ==
    /\ pc[r] = "draft"
    /\ CanMove(programme, "PUBLISHED") /\ programme.version < MaxProgramme
    /\ programme.version = cmd[r].version
    /\ programme' = Moved(programme, "DRAFT")
    /\ End(r)
    /\ UNCHANGED <<application, enrolled, assigned, submission, recorded, eligible, judged,
                   certificate>>

BeginApply(r) ==
    \E a \in Applications :
        /\ programme.status = "PUBLISHED"
        /\ Begin(r, "apply", [Nothing EXCEPT !.application = a])

Apply(r) ==
    LET a == cmd[r].application
    IN  /\ pc[r] = "apply"
        /\ application[a].status = "NONE"
        /\ application' = [application EXCEPT ![a].status = "SUBMITTED"]
        /\ End(r)
        /\ UNCHANGED <<programme, enrolled, assigned, submission, recorded, eligible, judged,
                       certificate>>

\* startReview, reject, and accept, which enrols in the same transaction.
Decide(a) ==
    /\ \/ /\ CanMove(application[a], "SUBMITTED")
          /\ application' = [application EXCEPT ![a] = Moved(@, "UNDER_REVIEW")]
          /\ UNCHANGED enrolled
       \/ /\ CanMove(application[a], "UNDER_REVIEW")
          /\ application' = [application EXCEPT ![a] = Moved(@, "REJECTED")]
          /\ UNCHANGED enrolled
       \/ /\ CanMove(application[a], "UNDER_REVIEW")
          /\ application' = [application EXCEPT ![a] = Moved(@, "ACCEPTED")]
          /\ enrolled' = enrolled \cup {a}
    /\ UNCHANGED <<programme, assigned, submission, recorded, eligible, judged, certificate, pc,
                   cmd>>

-----------------------------------------------------------------------------
(* Tasks, submissions and reviews.                                         *)

\* A slip: any application that is there can be given tasks.
AssignableWhenApplied(a) == application[a].status # "NONE"

Assignable(a) == a \in enrolled

AssignTasks(a) ==
    /\ Assignable(a)
    /\ \E chosen \in SUBSET Tasks \ {{}} : assigned' = assigned \cup ({a} \X chosen)
    /\ UNCHANGED <<programme, application, enrolled, submission, recorded, eligible, judged,
                   certificate, pc, cmd>>

BeginSubmit(r) ==
    \E x \in assigned :
        /\ submission[x].status = "NONE"
        /\ Begin(r, "submit", [Nothing EXCEPT !.application = x[1], !.task = x[2]])

\* The unique key on the assignment decides between two first submissions.
Submit(r) ==
    LET x == Subject(r)
    IN  /\ pc[r] = "submit"
        /\ submission[x].status = "NONE"
        /\ submission' = [submission EXCEPT ![x].status = "SUBMITTED"]
        /\ cmd' = [cmd EXCEPT ![r].number = 1]
        /\ pc' = [pc EXCEPT ![r] = "record"]
        /\ UNCHANGED <<programme, application, enrolled, assigned, recorded, eligible, judged,
                       certificate>>

\* resubmit: the next number comes from the row as it is read here.
BeginResubmit(r) ==
    \E x \in assigned :
        /\ submission[x].status # "NONE"
        /\ submission[x].currentVersion < MaxVersion
        /\ \E v \in Named(submission[x], "REVISION_REQUIRED") :
              Begin(r, "resubmit", [Nothing EXCEPT !.application = x[1], !.task = x[2],
                                       !.version = v,
                                       !.number = submission[x].currentVersion + 1])

\* A slip: the UPDATE asks for the status and leaves the version aside.
SameStatus(r) == TRUE

SameVersion(r) == submission[Subject(r)].version = cmd[r].version

Resubmit(r) ==
    LET x == Subject(r)
    IN  /\ pc[r] = "resubmit"
        /\ CanMove(submission[x], "REVISION_REQUIRED") /\ SameVersion(r)
        /\ submission' = [submission EXCEPT
              ![x] = [Moved(@, "SUBMITTED") EXCEPT !.currentVersion = cmd[r].number]]
        /\ Goto(r, "record")
        /\ UNCHANGED <<programme, application, enrolled, assigned, recorded, eligible, judged,
                       certificate>>

\* The evidence; (submission, number) is a unique key.
Record(r) ==
    LET x == Subject(r)
    IN  /\ pc[r] = "record"
        /\ cmd[r].number \notin recorded[x]
        /\ recorded' = [recorded EXCEPT ![x] = @ \cup {cmd[r].number}]
        /\ End(r)
        /\ UNCHANGED <<programme, application, enrolled, assigned, submission, eligible, judged,
                       certificate>>

\* A slip: an approval can be taken back for another revision.
ReviewMovesReopening ==
    {<<"SUBMITTED", "UNDER_REVIEW">>, <<"UNDER_REVIEW", "APPROVED">>,
     <<"UNDER_REVIEW", "REVISION_REQUIRED">>, <<"APPROVED", "REVISION_REQUIRED">>}

\* startReview, approve, requestRevision.
ReviewMoves ==
    {<<"SUBMITTED", "UNDER_REVIEW">>, <<"UNDER_REVIEW", "APPROVED">>,
     <<"UNDER_REVIEW", "REVISION_REQUIRED">>}

Review(x) ==
    /\ \E m \in ReviewMoves :
          /\ CanMove(submission[x], m[1])
          /\ submission' = [submission EXCEPT ![x] = Moved(@, m[2])]
    /\ UNCHANGED <<programme, application, enrolled, assigned, recorded, eligible, judged,
                   certificate, pc, cmd>>

-----------------------------------------------------------------------------
(* Completion and the certificate.                                         *)

\* evaluate: the assignments are read at once, their submissions one by one.
BeginEvaluate(r) ==
    \E a \in enrolled :
        Begin(r, "evaluate", [Nothing EXCEPT !.application = a, !.toCheck = Assigned(a),
                                             !.seen = Assigned(a)])

CheckSubmission(r) ==
    /\ pc[r] = "evaluate"
    /\ \E x \in cmd[r].toCheck :
          /\ Approved(x)
          /\ cmd' = [cmd EXCEPT ![r].toCheck = @ \ {x}]
    /\ UNCHANGED <<tables, pc>>

\* A slip: an enrolment without tasks has nothing left to do.
CompleteVacuously(c) == c.toCheck = {}

Complete(c) == c.toCheck = {} /\ c.seen # {}

WriteEligible(r) ==
    LET a == cmd[r].application
    IN  /\ pc[r] = "evaluate"
        /\ Complete(cmd[r])
        /\ eligible' = eligible \cup {a}
        /\ judged' = [judged EXCEPT ![a] = cmd[r].seen]
        /\ End(r)
        /\ UNCHANGED <<programme, application, enrolled, assigned, submission, recorded,
                       certificate>>

FindUnapproved(r) ==
    /\ pc[r] = "evaluate"
    /\ cmd[r].seen = {} \/ \E x \in cmd[r].toCheck : ~Approved(x)
    /\ Goto(r, "refuse")
    /\ UNCHANGED tables

WriteNotEligible(r) ==
    LET a == cmd[r].application
    IN  /\ pc[r] = "refuse"
        /\ eligible' = eligible \ {a}
        /\ End(r)
        /\ UNCHANGED <<programme, application, enrolled, assigned, submission, recorded,
                       judged, certificate>>

\* A slip: some approved work is enough for the certificate.
ReadyOnSomeWork(a) == \E x \in Assigned(a) : Approved(x)

Ready(a) == a \in eligible

\* issue: the eligibility, then the certificate that may exist, then the insert.
BeginIssue(r) ==
    \E a \in enrolled :
        /\ Ready(a)
        /\ Begin(r, "issue", [Nothing EXCEPT !.application = a])

LookForCertificate(r) ==
    /\ pc[r] = "issue"
    /\ certificate[cmd[r].application] = "NONE"
    /\ Goto(r, "insert")
    /\ UNCHANGED tables

\* A slip: the look-up is trusted, there is no unique key.
FreeAsLookedUp(a) == TRUE

\* UNIQUE(enrollment_id).
Free(a) == certificate[a] = "NONE"

InsertCertificate(r) ==
    LET a == cmd[r].application
    IN  /\ pc[r] = "insert"
        /\ Free(a)
        /\ certificate' = [certificate EXCEPT ![a] = "ISSUED"]
        /\ End(r)
        /\ UNCHANGED <<programme, application, enrolled, assigned, submission, recorded, eligible,
                       judged>>

Revoke(a) ==
    /\ certificate[a] = "ISSUED"
    /\ certificate' = [certificate EXCEPT ![a] = "REVOKED"]
    /\ UNCHANGED <<programme, application, enrolled, assigned, submission, recorded, eligible,
                   judged, pc, cmd>>

Next ==
    \/ Administrate
    \/ \E a \in Applications : Decide(a) \/ AssignTasks(a) \/ Revoke(a)
    \/ \E x \in Assignments : Review(x)
    \/ \E r \in Requests :
          \/ BeginReturnToDraft(r) \/ ReturnToDraft(r) \/ BeginApply(r) \/ Apply(r)
          \/ BeginSubmit(r) \/ Submit(r) \/ BeginResubmit(r) \/ Resubmit(r) \/ Record(r)
          \/ BeginEvaluate(r) \/ CheckSubmission(r) \/ WriteEligible(r)
          \/ FindUnapproved(r) \/ WriteNotEligible(r)
          \/ BeginIssue(r) \/ LookForCertificate(r) \/ InsertCertificate(r) \/ Leave(r)

Spec == Init /\ [][Next]_vars

-----------------------------------------------------------------------------
(* Properties.                                                             *)

\* Two resubmissions never claim the same number, and what is recorded is never
\* claimed again: the history is append-only whatever is lost on the way.
NumbersAreFresh ==
    \A r \in Requests : pc[r] = "record" =>
        /\ cmd[r].number \notin recorded[Subject(r)]
        /\ \A q \in Requests : pc[q] = "record" /\ Subject(q) = Subject(r)
              /\ cmd[q].number = cmd[r].number => q = r

\* A verdict ELIGIBLE was written for the enrolment once, on the strength of some work,
\* all of it assigned to the enrolment and approved to this day.
Completed(a) ==
    /\ judged[a] # {}
    /\ judged[a] \subseteq Assigned(a)
    /\ \A x \in judged[a] : Approved(x)

\* Who is eligible was judged so on work that was assigned to the enrolment and is all
\* approved to this day, although evaluate reads it piece by piece and writes later.
EligibleOnApprovedWork == \A a \in eligible : Completed(a)

\* Nobody holds a certificate, valid or revoked, for an enrolment that no evaluation
\* ever found complete: some approved work does not do.  The gate is read before the
\* insert and may have been withdrawn in between; the work it stood for is still approved.
CertificateWasEarned ==
    \A a \in Applications : certificate[a] # "NONE" => Completed(a)

\* A certificate that was revoked is not replaced by a valid one, by an issue that
\* was under way either.
RevokedForGood ==
    [][\A a \in Applications : certificate[a] = "REVOKED" => certificate'[a] = "REVOKED"]_vars

\* A programme goes back to draft only before any application exists.
DraftHasNoApplications ==
    programme.status = "DRAFT" => \A a \in Applications : application[a].status = "NONE"

\* Eligibility is derived: every task assigned to the enrolment has been approved.
EligibleMeansAllApproved ==
    \A a \in eligible : \A x \in Assigned(a) : Approved(x)

=============================================================================
