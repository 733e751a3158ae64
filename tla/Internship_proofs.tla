-------------------------- MODULE Internship_proofs --------------------------
(***************************************************************************)
(* What holds of a programme for any applications, tasks, requests and     *)
(* bounds.  No statement of it runs in a transaction, so the invariant     *)
(* rests on what nothing takes back: an enrolment, an assignment and an    *)
(* approval last, and a submission that has the version it was read at is   *)
(* the submission that was read.                                           *)
(***************************************************************************)
EXTENDS Internship, TLAPS

\* What a request works on is there, from its first step to its last.
SubjectsExist ==
    \A r \in Requests :
        /\ pc[r] = "apply" => cmd[r].application \in Applications
        /\ pc[r] \in {"submit", "resubmit", "record"} => Subject(r) \in assigned
        /\ pc[r] \in {"resubmit", "record"} => cmd[r].number > 0
        /\ pc[r] \in {"evaluate", "refuse", "issue", "insert"} => cmd[r].application \in enrolled

ShapeInv == TypeOK /\ SubjectsExist

\* What an evaluation has ticked off is approved, and it ticks off what was assigned.
Judging(work) ==
    /\ work.toCheck \subseteq work.seen
    /\ work.seen \subseteq Assigned(work.application)
    /\ \A x \in work.seen \ work.toCheck : Approved(x)

EvaluationsHold == \A r \in Requests : pc[r] = "evaluate" => Judging(cmd[r])

\* A certificate under way is as earned as one that is there.
IssuesAreEarned ==
    \A r \in Requests : pc[r] \in {"issue", "insert"} => Completed(cmd[r].application)

EarnedInv == EvaluationsHold /\ IssuesAreEarned /\ EligibleOnApprovedWork /\ CertificateWasEarned

\* The history holds numbers up to the current one, and nothing before there is work.
HistoryIsBehind ==
    \A x \in Assignments :
        /\ recorded[x] \subseteq 1..submission[x].currentVersion
        /\ submission[x].status = "NONE" => recorded[x] = {} /\ submission[x].currentVersion = 1

\* A number that waits to be recorded is one the submission has reached; the number a
\* resubmission claims is the next one, if the row is still the one it read.
NumbersAreClaimed ==
    \A r \in Requests :
        /\ pc[r] \in {"resubmit", "record"} => submission[Subject(r)].status # "NONE"
        /\ pc[r] = "record" => cmd[r].number \in 1..submission[Subject(r)].currentVersion
        /\ pc[r] = "resubmit" =>
              /\ cmd[r].version <= submission[Subject(r)].version
              /\ cmd[r].version = submission[Subject(r)].version
                    => cmd[r].number = submission[Subject(r)].currentVersion + 1

NumbersInv == HistoryIsBehind /\ NumbersAreClaimed /\ NumbersAreFresh

-----------------------------------------------------------------------------
(* The shape of the state.                                                 *)

\* What a request starts with, and what it goes on with, is a piece of work.
LEMMA NothingIsWork == Nothing \in Work
BY InternshipAssumption DEF Work, Nothing

LEMMA WorkOnEvaluation ==
    ASSUME NEW work \in Work, NEW a \in Applications, NEW S \in SUBSET Assignments
    PROVE  [work EXCEPT !.application = a, !.toCheck = S, !.seen = S] \in Work
BY DEF Work

LEMMA WorkOnTask ==
    ASSUME NEW work \in Work, NEW a \in Applications, NEW t \in Tasks,
           NEW v \in 0..MaxVersion, NEW n \in 0..MaxVersion
    PROVE  /\ [work EXCEPT !.application = a, !.task = t] \in Work
           /\ [work EXCEPT !.application = a, !.task = t, !.version = v, !.number = n] \in Work
BY DEF Work

\* A conditional UPDATE moves a row to the next version of another state.
LEMMA MovedApplication ==
    ASSUME NEW row \in Application, row.version < MaxVersion,
           NEW to \in {"UNDER_REVIEW", "ACCEPTED", "REJECTED"}
    PROVE  Moved(row, to) \in Application /\ Moved(row, to).status = to
<1>1. row.version \in 1..MaxVersion /\ MaxVersion \in Nat
  BY InternshipAssumption DEF Application
<1>2. row.version + 1 \in 1..MaxVersion
  BY <1>1
<1> QED
  BY <1>2 DEF Moved, Application

LEMMA MovedProgramme ==
    ASSUME NEW row \in Programme, row.version < MaxProgramme,
           NEW to \in {"DRAFT", "PUBLISHED", "CLOSED", "ARCHIVED"}
    PROVE  Moved(row, to) \in Programme
<1>1. row.version \in 1..MaxProgramme /\ MaxProgramme \in Nat
  BY InternshipAssumption DEF Programme
<1>2. row.version + 1 \in 1..MaxProgramme
  BY <1>1
<1> QED
  BY <1>2 DEF Moved, Programme

LEMMA MovedSubmission ==
    ASSUME NEW row \in Submission, row.version < MaxVersion,
           NEW to \in {"SUBMITTED", "UNDER_REVIEW", "REVISION_REQUIRED", "APPROVED"}
    PROVE  /\ Moved(row, to) \in Submission
           /\ Moved(row, to).status = to
           /\ Moved(row, to).version = row.version + 1
           /\ Moved(row, to).currentVersion = row.currentVersion
<1>1. row.version \in 1..MaxVersion /\ MaxVersion \in Nat
  BY InternshipAssumption DEF Submission
<1>2. row.version + 1 \in 1..MaxVersion
  BY <1>1
<1> QED
  BY <1>2 DEF Moved, Submission

\* An assignment is a pair of an application and a task.
LEMMA Pairs ==
    ASSUME TypeOK
    PROVE  /\ assigned \subseteq Assignments
           /\ enrolled \subseteq Applications
           /\ \A x \in assigned : x[1] \in enrolled /\ x[2] \in Tasks /\ x = <<x[1], x[2]>>
BY DEF TypeOK, Assignments

\* The first step of a request touches no table, and is right if its own subject is.
LEMMA BeginShape ==
    ASSUME ShapeInv, NEW r \in Requests,
           NEW step \in {"apply", "draft", "submit", "resubmit", "evaluate", "issue"},
           NEW work \in Work, Begin(r, step, work),
           step = "apply" => work.application \in Applications,
           step \in {"submit", "resubmit"} => <<work.application, work.task>> \in assigned,
           step = "resubmit" => work.number > 0,
           step \in {"evaluate", "issue"} => work.application \in enrolled
    PROVE  ShapeInv'
<1>1. pc' = [pc EXCEPT ![r] = step] /\ cmd' = [cmd EXCEPT ![r] = work] /\ UNCHANGED tables
  BY DEF Begin
<1>2. TypeOK'
  BY <1>1 DEF ShapeInv, TypeOK, tables, Assigned
<1>3. SubjectsExist'
  BY <1>1 DEF ShapeInv, TypeOK, SubjectsExist, Subject, tables
<1> QED
  BY <1>2, <1>3 DEF ShapeInv

\* A step of nobody's request: the subjects last as long as the tables only grow.
LEMMA SubjectsLast ==
    ASSUME SubjectsExist, UNCHANGED <<pc, cmd>>, enrolled \subseteq enrolled', assigned \subseteq assigned'
    PROVE  SubjectsExist'
BY DEF SubjectsExist, Subject

LEMMA EndKeepsSubjects ==
    ASSUME ShapeInv, NEW r \in Requests, End(r), UNCHANGED <<enrolled, assigned>>
    PROVE  SubjectsExist' /\ pc' \in [Requests -> {"idle", "apply", "draft", "submit", "resubmit",
                                      "record", "evaluate", "refuse", "issue", "insert"}]
                          /\ cmd' \in [Requests -> Work]
<1>1. pc' = [pc EXCEPT ![r] = "idle"] /\ cmd' = [cmd EXCEPT ![r] = Nothing]
  BY DEF End
<1> QED
  BY <1>1, NothingIsWork DEF ShapeInv, TypeOK, SubjectsExist, Subject

-----------------------------------------------------------------------------
(* Type correctness, one lemma per part of the programme.                  *)

\* The programme and its applications.
LEMMA ApplicationsShape ==
    ASSUME ShapeInv
    PROVE  /\ Administrate => ShapeInv'
           /\ \A a \in Applications : Decide(a) => ShapeInv'
           /\ \A r \in Requests : BeginReturnToDraft(r) \/ ReturnToDraft(r) \/ BeginApply(r) \/ Apply(r)
                                      => ShapeInv'
<1>1. ASSUME NEW from, NEW to \in {"DRAFT", "PUBLISHED", "CLOSED", "ARCHIVED"},
             ProgrammeCommand(from, to)
      PROVE  ShapeInv'
  <2>1. programme' \in Programme
    BY <1>1, MovedProgramme DEF ProgrammeCommand, ShapeInv, TypeOK
  <2>2. TypeOK'
    BY <1>1, <2>1 DEF ProgrammeCommand, ShapeInv, TypeOK
  <2> QED
    BY <1>1, <2>2, SubjectsLast DEF ProgrammeCommand, ShapeInv
<1>2. Administrate => ShapeInv'
  BY <1>1 DEF Administrate
<1>3. ASSUME NEW a \in Applications, Decide(a)
      PROVE  ShapeInv'
  <2>1. PICK to \in {"UNDER_REVIEW", "ACCEPTED", "REJECTED"} :
           /\ application[a].version < MaxVersion
           /\ application[a].status \in {"SUBMITTED", "UNDER_REVIEW"}
           /\ application' = [application EXCEPT ![a] = Moved(application[a], to)]
           /\ enrolled' = IF to = "ACCEPTED" THEN enrolled \cup {a} ELSE enrolled
    BY <1>3 DEF Decide, CanMove
  <2>2. application \in [Applications -> Application]
    BY DEF ShapeInv, TypeOK
  <2>3. Moved(application[a], to) \in Application /\ Moved(application[a], to).status = to
    BY <2>1, <2>2, MovedApplication
  <2>4. application' \in [Applications -> Application]
    BY <2>1, <2>2, <2>3
  <2>5. a \notin enrolled
    BY <2>1 DEF ShapeInv, TypeOK
  <2>6. enrolled' \subseteq {b \in Applications : application'[b].status = "ACCEPTED"}
    BY <2>1, <2>2, <2>3, <2>5 DEF ShapeInv, TypeOK
  <2>7. assigned' \subseteq enrolled' \X Tasks /\ eligible' \subseteq enrolled'
    BY <1>3, <2>1 DEF Decide, ShapeInv, TypeOK
  <2>8. TypeOK'
    BY <1>3, <2>4, <2>6, <2>7 DEF Decide, ShapeInv, TypeOK
  <2> QED
    BY <1>3, <2>1, <2>8, SubjectsLast DEF Decide, ShapeInv
<1>4. ASSUME NEW r \in Requests, BeginReturnToDraft(r)
      PROVE  ShapeInv'
  <2>1. PICK v \in Named(programme, "PUBLISHED") : Begin(r, "draft", [Nothing EXCEPT !.version = v])
    BY <1>4 DEF BeginReturnToDraft
  <2>2. v \in 0..MaxVersion
    BY InternshipAssumption DEF Named, ShapeInv, TypeOK, Programme
  <2>3. [Nothing EXCEPT !.version = v] \in Work
    BY <2>2, NothingIsWork DEF Work
  <2> QED
    BY <2>1, <2>3, BeginShape
<1>5. ASSUME NEW r \in Requests, ReturnToDraft(r)
      PROVE  ShapeInv'
  <2>1. programme' \in Programme
    BY <1>5, MovedProgramme DEF ReturnToDraft, ShapeInv, TypeOK
  <2>2. SubjectsExist' /\ TypeOK'
    BY <1>5, <2>1, EndKeepsSubjects DEF ReturnToDraft, ShapeInv, TypeOK
  <2> QED
    BY <2>2 DEF ShapeInv
<1>6. ASSUME NEW r \in Requests, BeginApply(r)
      PROVE  ShapeInv'
  <2>1. PICK a \in Applications : Begin(r, "apply", [Nothing EXCEPT !.application = a])
    BY <1>6 DEF BeginApply
  <2>2. [Nothing EXCEPT !.application = a] \in Work /\ [Nothing EXCEPT !.application = a].application = a
    BY NothingIsWork DEF Work
  <2> QED
    BY <2>1, <2>2, BeginShape
<1>7. ASSUME NEW r \in Requests, Apply(r)
      PROVE  ShapeInv'
  <2> DEFINE a == cmd[r].application
  <2>1. a \in Applications
    BY <1>7 DEF Apply, ShapeInv, SubjectsExist
  <2>2. application' \in [Applications -> Application]
    BY <1>7, <2>1 DEF Apply, ShapeInv, TypeOK, Application
  <2>3. a \notin enrolled
    BY <1>7 DEF Apply, ShapeInv, TypeOK
  <2>4. enrolled' \subseteq {b \in Applications : application'[b].status = "ACCEPTED"}
    BY <1>7, <2>1, <2>3 DEF Apply, ShapeInv, TypeOK
  <2>5. SubjectsExist' /\ TypeOK'
    BY <1>7, <2>2, <2>4, EndKeepsSubjects DEF Apply, ShapeInv, TypeOK
  <2> QED
    BY <2>5 DEF ShapeInv
<1> QED
  BY <1>2, <1>3, <1>4, <1>5, <1>6, <1>7

\* Tasks, submissions and reviews.
LEMMA SubmissionsShape ==
    ASSUME ShapeInv
    PROVE  /\ \A a \in Applications : AssignTasks(a) => ShapeInv'
           /\ \A x \in Assignments : Review(x) => ShapeInv'
           /\ \A r \in Requests : BeginSubmit(r) \/ Submit(r) \/ BeginResubmit(r) \/ Resubmit(r)
                                      \/ Record(r) => ShapeInv'
<1> USE DEF ShapeInv
<1>1. ASSUME NEW a \in Applications, AssignTasks(a)
      PROVE  ShapeInv'
  <2>1. assigned \subseteq assigned' /\ assigned' \subseteq enrolled \X Tasks
    BY <1>1 DEF AssignTasks, Assignable, TypeOK
  <2>2. TypeOK'
    BY <1>1, <2>1 DEF AssignTasks, TypeOK
  <2> QED
    BY <1>1, <2>1, <2>2, SubjectsLast DEF AssignTasks
<1>2. ASSUME NEW x \in Assignments, Review(x)
      PROVE  ShapeInv'
  <2>1. PICK m \in ReviewMoves :
           /\ CanMove(submission[x], m[1])
           /\ submission' = [submission EXCEPT ![x] = Moved(submission[x], m[2])]
    BY <1>2 DEF Review
  <2>2. m[2] \in {"SUBMITTED", "UNDER_REVIEW", "REVISION_REQUIRED", "APPROVED"} /\ m[1] # "NONE"
    BY <2>1 DEF ReviewMoves
  <2>3. Moved(submission[x], m[2]) \in Submission /\ x \in assigned
    BY <2>1, <2>2, MovedSubmission DEF CanMove, TypeOK
  <2>4. TypeOK'
    BY <1>2, <2>1, <2>3 DEF Review, TypeOK
  <2> QED
    BY <1>2, <2>4, SubjectsLast DEF Review
<1>3. ASSUME NEW r \in Requests, BeginSubmit(r)
      PROVE  ShapeInv'
  <2>1. PICK x \in assigned : Begin(r, "submit", [Nothing EXCEPT !.application = x[1], !.task = x[2]])
    BY <1>3 DEF BeginSubmit
  <2> DEFINE work == [Nothing EXCEPT !.application = x[1], !.task = x[2]]
  <2>2. x[1] \in Applications /\ x[2] \in Tasks /\ x = <<x[1], x[2]>>
    BY Pairs
  <2>3. work \in Work /\ work.application = x[1] /\ work.task = x[2]
    BY <2>2, NothingIsWork DEF Work
  <2> QED
    BY <2>1, <2>2, <2>3, BeginShape
<1>4. ASSUME NEW r \in Requests, Submit(r)
      PROVE  ShapeInv'
  <2> DEFINE x == Subject(r)
  <2>1. x \in assigned /\ x \in Assignments
    BY <1>4, Pairs DEF Submit, SubjectsExist
  <2>2. submission' \in [Assignments -> Submission]
    BY <1>4, <2>1 DEF Submit, TypeOK, Submission
  <2>3. \A y \in Assignments : submission'[y].status # "NONE" => y \in assigned
    BY <1>4, <2>1 DEF Submit, TypeOK
  <2>4. pc' = [pc EXCEPT ![r] = "record"] /\ cmd' = [cmd EXCEPT ![r] = [cmd[r] EXCEPT !.number = 1]]
    BY <1>4 DEF Submit
  <2>5. 1 \in 0..MaxVersion /\ cmd[r] \in Work
    BY InternshipAssumption DEF TypeOK
  <2>6. /\ cmd'[r] \in Work /\ cmd'[r].number = 1
        /\ cmd'[r].application = cmd[r].application /\ cmd'[r].task = cmd[r].task
    BY <2>4, <2>5 DEF Work, TypeOK
  <2>7. cmd' \in [Requests -> Work]
    BY <2>4, <2>6 DEF TypeOK
  <2>8. TypeOK'
    BY <1>4, <2>2, <2>3, <2>4, <2>7 DEF Submit, TypeOK
  <2>9. SubjectsExist'
    BY <1>4, <2>1, <2>4, <2>6 DEF Submit, SubjectsExist, Subject, TypeOK
  <2> QED
    BY <2>8, <2>9
<1>5. ASSUME NEW r \in Requests, BeginResubmit(r)
      PROVE  ShapeInv'
  <2>0. PICK x \in assigned :
           /\ submission[x].currentVersion < MaxVersion
           /\ \E v \in Named(submission[x], "REVISION_REQUIRED") :
                 Begin(r, "resubmit", [Nothing EXCEPT !.application = x[1], !.task = x[2],
                                          !.version = v,
                                          !.number = submission[x].currentVersion + 1])
    BY <1>5 DEF BeginResubmit
  <2>1. PICK v \in Named(submission[x], "REVISION_REQUIRED") :
           Begin(r, "resubmit", [Nothing EXCEPT !.application = x[1], !.task = x[2],
                                    !.version = v,
                                    !.number = submission[x].currentVersion + 1])
    BY <2>0
  <2> DEFINE n    == submission[x].currentVersion + 1
             work == [Nothing EXCEPT !.application = x[1], !.task = x[2], !.version = v, !.number = n]
  <2>2. x[1] \in Applications /\ x[2] \in Tasks /\ x = <<x[1], x[2]>> /\ x \in Assignments
    BY Pairs
  <2>3. n \in 1..MaxVersion /\ v \in 0..MaxVersion
    BY <2>0, <2>1, <2>2, InternshipAssumption DEF TypeOK, Submission, Named
  <2> HIDE DEF n
  <2>4. n \in 0..MaxVersion /\ n > 0
    BY <2>3, InternshipAssumption
  <2>5. work \in Work
    BY <2>2, <2>3, <2>4, WorkOnTask, NothingIsWork
  <2>6. work.application = x[1] /\ work.task = x[2] /\ work.number = n
    BY DEF Nothing
  <2> QED
    BY <2>1, <2>2, <2>4, <2>5, <2>6, BeginShape DEF n
<1>6. ASSUME NEW r \in Requests, Resubmit(r)
      PROVE  ShapeInv'
  <2> DEFINE x == Subject(r)
             moved == Moved(submission[x], "SUBMITTED")
  <2>1. x \in assigned /\ x \in Assignments /\ cmd[r].number > 0 /\ cmd[r] \in Work
    BY <1>6, Pairs DEF Resubmit, SubjectsExist, TypeOK
  <2>2. cmd[r].number \in 1..MaxVersion
    BY <2>1, InternshipAssumption DEF Work
  <2>3. moved \in Submission
    BY <1>6, <2>1, MovedSubmission DEF Resubmit, CanMove, TypeOK
  <2>4. submission' = [submission EXCEPT ![x] = [moved EXCEPT !.currentVersion = cmd[r].number]]
    BY <1>6 DEF Resubmit
  <2>5. [moved EXCEPT !.currentVersion = cmd[r].number] \in Submission
    BY <2>2, <2>3 DEF Submission
  <2>6. submission' \in [Assignments -> Submission]
    BY <2>1, <2>4, <2>5 DEF TypeOK
  <2>7. TypeOK'
    BY <1>6, <2>1, <2>4, <2>6 DEF Resubmit, Goto, TypeOK
  <2>8. SubjectsExist'
    BY <1>6, <2>1 DEF Resubmit, Goto, SubjectsExist, Subject, TypeOK
  <2> QED
    BY <2>7, <2>8
<1>7. ASSUME NEW r \in Requests, Record(r)
      PROVE  ShapeInv'
  <2> DEFINE x == Subject(r)
  <2>1. x \in assigned /\ x \in Assignments
    BY <1>7, Pairs DEF Record, SubjectsExist
  <2>2. cmd[r].number > 0 /\ cmd[r] \in Work
    BY <1>7 DEF Record, SubjectsExist, TypeOK
  <2>3. cmd[r].number \in 1..MaxVersion
    BY <2>2, InternshipAssumption DEF Work
  <2>4. recorded' \in [Assignments -> SUBSET (1..MaxVersion)]
    BY <1>7, <2>1, <2>3 DEF Record, TypeOK
  <2> QED
    BY <1>7, <2>4, EndKeepsSubjects DEF Record, TypeOK
<1> QED
  BY <1>1, <1>2, <1>3, <1>4, <1>5, <1>6, <1>7

\* Completion and the certificate.
LEMMA CompletionShape ==
    ASSUME ShapeInv
    PROVE  /\ \A a \in Applications : Revoke(a) => ShapeInv'
           /\ \A r \in Requests :
                 BeginEvaluate(r) \/ CheckSubmission(r) \/ WriteEligible(r) \/ FindUnapproved(r)
                     \/ WriteNotEligible(r) \/ BeginIssue(r) \/ LookForCertificate(r)
                     \/ InsertCertificate(r) \/ Leave(r) => ShapeInv'
<1> USE DEF ShapeInv
<1>1. ASSUME NEW a \in Applications, Revoke(a)
      PROVE  ShapeInv'
  BY <1>1, SubjectsLast DEF Revoke, TypeOK
<1>2. ASSUME NEW r \in Requests, BeginEvaluate(r)
      PROVE  ShapeInv'
  <2>1. PICK a \in enrolled :
           Begin(r, "evaluate", [Nothing EXCEPT !.application = a, !.toCheck = Assigned(a),
                                    !.seen = Assigned(a)])
    BY <1>2 DEF BeginEvaluate
  <2> DEFINE work == [Nothing EXCEPT !.application = a, !.toCheck = Assigned(a), !.seen = Assigned(a)]
  <2>2. a \in Applications /\ Assigned(a) \in SUBSET Assignments
    BY Pairs DEF Assigned
  <2>3. work \in Work
    BY <2>2, WorkOnEvaluation, NothingIsWork
  <2>4. work.application = a
    BY DEF Nothing
  <2> QED
    BY <2>1, <2>3, <2>4, BeginShape
<1>3. ASSUME NEW r \in Requests, CheckSubmission(r)
      PROVE  ShapeInv'
  <2>1. PICK x \in cmd[r].toCheck : cmd' = [cmd EXCEPT ![r] = [cmd[r] EXCEPT !.toCheck = @ \ {x}]]
    BY <1>3 DEF CheckSubmission, TypeOK
  <2>2. cmd[r] \in Work
    BY DEF TypeOK
  <2>3. [cmd[r] EXCEPT !.toCheck = @ \ {x}] \in Work
    BY <2>2 DEF Work
  <2>4. cmd' \in [Requests -> Work] /\ cmd'[r].application = cmd[r].application
    BY <2>1, <2>2, <2>3 DEF TypeOK, Work
  <2>5. TypeOK'
    BY <1>3, <2>4 DEF CheckSubmission, tables, TypeOK
  <2>6. SubjectsExist'
    BY <1>3, <2>1, <2>4 DEF CheckSubmission, tables, SubjectsExist, Subject, TypeOK
  <2> QED
    BY <2>5, <2>6
<1>4. ASSUME NEW r \in Requests, WriteEligible(r)
      PROVE  ShapeInv'
  <2>1. cmd[r].application \in enrolled
    BY <1>4 DEF WriteEligible, SubjectsExist
  <2>2. cmd[r].seen \in SUBSET Assignments
    BY DEF TypeOK, Work
  <2> QED
    BY <1>4, <2>1, <2>2, EndKeepsSubjects DEF WriteEligible, TypeOK
<1>5. ASSUME NEW r \in Requests, FindUnapproved(r)
      PROVE  ShapeInv'
  BY <1>5 DEF FindUnapproved, Goto, tables, TypeOK, SubjectsExist, Subject
<1>6. ASSUME NEW r \in Requests, WriteNotEligible(r)
      PROVE  ShapeInv'
  BY <1>6, EndKeepsSubjects DEF WriteNotEligible, TypeOK
<1>7. ASSUME NEW r \in Requests, BeginIssue(r)
      PROVE  ShapeInv'
  <2>1. PICK a \in enrolled : Begin(r, "issue", [Nothing EXCEPT !.application = a])
    BY <1>7 DEF BeginIssue
  <2>2. [Nothing EXCEPT !.application = a] \in Work /\ [Nothing EXCEPT !.application = a].application = a
    BY NothingIsWork, Pairs DEF Work
  <2> QED
    BY <2>1, <2>2, BeginShape
<1>8. ASSUME NEW r \in Requests, LookForCertificate(r)
      PROVE  ShapeInv'
  BY <1>8 DEF LookForCertificate, Goto, tables, TypeOK, SubjectsExist, Subject
<1>9. ASSUME NEW r \in Requests, InsertCertificate(r)
      PROVE  ShapeInv'
  BY <1>9, EndKeepsSubjects DEF InsertCertificate, TypeOK
<1>10. ASSUME NEW r \in Requests, Leave(r)
       PROVE  ShapeInv'
  BY <1>10, EndKeepsSubjects DEF Leave, tables, TypeOK
<1> QED
  BY <1>1, <1>2, <1>3, <1>4, <1>5, <1>6, <1>7, <1>8, <1>9, <1>10

LEMMA ShapeStep == ShapeInv /\ [Next]_vars => ShapeInv'
<1>1. ShapeInv /\ UNCHANGED vars => ShapeInv'
  BY DEF vars, ShapeInv, TypeOK, SubjectsExist, Subject
<1> QED
  BY <1>1, ApplicationsShape, SubmissionsShape, CompletionShape DEF Next

LEMMA ShapeHolds == Spec => []ShapeInv
<1>1. Init => ShapeInv
  <2>1. Init => TypeOK
    BY NothingIsWork, InternshipAssumption
    DEF Init, TypeOK, Programme, Application, Submission
  <2>2. Init => SubjectsExist
    BY DEF Init, SubjectsExist
  <2> QED
    BY <2>1, <2>2 DEF ShapeInv
<1> QED
  BY <1>1, ShapeStep, PTL DEF Spec

\* Work exists only for what came before it: assignments for enrolments, enrolments for
\* accepted applications, submissions for assignments, eligibility for enrolments.
THEOREM TypeCorrect == Spec => []TypeOK
<1>1. ShapeInv => TypeOK
  BY DEF ShapeInv
<1> QED
  BY <1>1, ShapeHolds, PTL

-----------------------------------------------------------------------------
(* What nothing takes back.                                                *)

\* No step withdraws an enrolment, an assignment or an approval.
LEMMA NothingIsTakenBack ==
    ASSUME ShapeInv, [Next]_vars
    PROVE  /\ enrolled \subseteq enrolled'
           /\ assigned \subseteq assigned'
           /\ \A x \in Assignments : Approved(x) => Approved(x)'
           /\ \A a : Assigned(a) \subseteq Assigned(a)'
<1>1. enrolled \subseteq enrolled'
  BY DEF Next, vars, tables, Administrate, ProgrammeCommand, Decide, AssignTasks, Revoke, Review,
         BeginReturnToDraft, ReturnToDraft, BeginApply, Apply, BeginSubmit, Submit, BeginResubmit,
         Resubmit, Record, BeginEvaluate, CheckSubmission, WriteEligible, FindUnapproved,
         WriteNotEligible, BeginIssue, LookForCertificate, InsertCertificate, Leave, Begin
<1>2. assigned \subseteq assigned'
  BY DEF Next, vars, tables, Administrate, ProgrammeCommand, Decide, AssignTasks, Revoke, Review,
         BeginReturnToDraft, ReturnToDraft, BeginApply, Apply, BeginSubmit, Submit, BeginResubmit,
         Resubmit, Record, BeginEvaluate, CheckSubmission, WriteEligible, FindUnapproved,
         WriteNotEligible, BeginIssue, LookForCertificate, InsertCertificate, Leave, Begin
<1>3. ASSUME NEW x \in Assignments, Approved(x)
      PROVE  Approved(x)'
  <2>1. CASE \E y \in Assignments : Review(y)
    <3>1. PICK y \in Assignments, m \in ReviewMoves :
             /\ CanMove(submission[y], m[1])
             /\ submission' = [submission EXCEPT ![y] = Moved(submission[y], m[2])]
      BY <2>1 DEF Review
    <3>2. y # x
      BY <1>3, <3>1 DEF Approved, CanMove, ReviewMoves
    <3> QED
      BY <1>3, <3>1, <3>2 DEF Approved, ShapeInv, TypeOK
  <2>2. CASE \E r \in Requests : Submit(r) \/ Resubmit(r)
    <3>1. PICK r \in Requests : Submit(r) \/ Resubmit(r)
      BY <2>2
    <3>2. Subject(r) # x
      BY <1>3, <3>1 DEF Submit, Resubmit, CanMove, Approved
    <3> QED
      BY <1>3, <3>1, <3>2 DEF Submit, Resubmit, Approved, ShapeInv, TypeOK
  <2>3. CASE UNCHANGED submission
    BY <1>3, <2>3 DEF Approved
  <2>4. \/ \E y \in Assignments : Review(y)
        \/ \E r \in Requests : Submit(r) \/ Resubmit(r)
        \/ UNCHANGED submission
    BY DEF Next, vars, tables, Administrate, ProgrammeCommand, Decide, AssignTasks, Revoke,
           BeginReturnToDraft, ReturnToDraft, BeginApply, Apply, BeginSubmit, BeginResubmit,
           Record, BeginEvaluate, CheckSubmission, WriteEligible, FindUnapproved,
           WriteNotEligible, BeginIssue, LookForCertificate, InsertCertificate, Leave, Begin
  <2> QED
    BY <2>1, <2>2, <2>3, <2>4
<1>4. \A a : Assigned(a) \subseteq Assigned(a)'
  BY <1>2 DEF Assigned
<1> QED
  BY <1>1, <1>2, <1>3, <1>4

-----------------------------------------------------------------------------
(* Eligibility and certificates are earned.                                *)

\* A verdict overwrites the one before it with work that is all approved and assigned.
LEMMA VerdictIsFounded ==
    ASSUME ShapeInv, EarnedInv, NEW r \in Requests, WriteEligible(r), NEW a \in Applications
    PROVE  IF a = cmd[r].application THEN Completed(a)' ELSE judged'[a] = judged[a]
<1>1. judged' = [judged EXCEPT ![cmd[r].application] = cmd[r].seen]
  BY DEF WriteEligible
<1>2. CASE a # cmd[r].application
  BY <1>1, <1>2 DEF ShapeInv, TypeOK
<1>3. CASE a = cmd[r].application
  <2>1. Judging(cmd[r]) /\ cmd[r].toCheck = {} /\ cmd[r].seen # {}
    BY DEF WriteEligible, Complete, EarnedInv, EvaluationsHold
  <2>2. judged'[a] = cmd[r].seen
    BY <1>1, <1>3 DEF ShapeInv, TypeOK
  <2>3. UNCHANGED <<assigned, submission>>
    BY DEF WriteEligible
  <2> QED
    BY <1>3, <2>1, <2>2, <2>3 DEF Judging, Completed, Assigned, Approved
<1> QED
  BY <1>2, <1>3

\* What was found complete once stays so, or is found complete anew.
LEMMA CompletedLasts ==
    ASSUME ShapeInv, EarnedInv, [Next]_vars, NEW a \in Applications, Completed(a)
    PROVE  Completed(a)'
<1>1. CASE judged'[a] = judged[a]
  <2>1. Assigned(a) \subseteq Assignments
    BY Pairs DEF Assigned, ShapeInv
  <2>2. judged'[a] # {} /\ judged'[a] \subseteq Assigned(a)'
    BY <1>1, NothingIsTakenBack DEF Completed
  <2>3. \A x \in judged'[a] : Approved(x)'
    BY <1>1, <2>1, NothingIsTakenBack DEF Completed
  <2> QED
    BY <2>2, <2>3 DEF Completed
<1>2. CASE \E r \in Requests : WriteEligible(r)
  BY <1>1, <1>2, VerdictIsFounded
<1>3. UNCHANGED judged \/ \E r \in Requests : WriteEligible(r)
  BY DEF Next, vars, tables, Administrate, ProgrammeCommand, Decide, AssignTasks, Revoke, Review,
         BeginReturnToDraft, ReturnToDraft, BeginApply, Apply, BeginSubmit, Submit, BeginResubmit,
         Resubmit, Record, BeginEvaluate, CheckSubmission, FindUnapproved,
         WriteNotEligible, BeginIssue, LookForCertificate, InsertCertificate, Leave, Begin
<1> QED
  BY <1>1, <1>2, <1>3

\* A step keeps the invariant if what it adds to the evaluations, the issues, the
\* eligible and the certificates is itself founded.
LEMMA EarnedStep ==
    ASSUME ShapeInv, EarnedInv, [Next]_vars,
           \A r \in Requests : pc'[r] = "evaluate" =>
              \/ pc[r] = "evaluate" /\ cmd'[r] = cmd[r]
              \/ Judging(cmd[r])',
           \A r \in Requests : pc'[r] \in {"issue", "insert"} =>
              \/ pc[r] \in {"issue", "insert"} /\ cmd'[r] = cmd[r]
              \/ Completed(cmd[r].application)',
           \A a \in eligible' : a \in eligible \/ Completed(a)',
           \A a \in Applications : certificate'[a] # "NONE" =>
              certificate[a] # "NONE" \/ Completed(a)'
    PROVE  EarnedInv'
<1>1. EvaluationsHold'
  <2> SUFFICES ASSUME NEW r \in Requests, pc'[r] = "evaluate", ~Judging(cmd[r])'
               PROVE  FALSE
    BY DEF EvaluationsHold
  <2>1. cmd'[r] = cmd[r] /\ Judging(cmd[r])
    BY DEF EarnedInv, EvaluationsHold
  <2>2. cmd[r].seen \subseteq Assigned(cmd[r].application)
    BY <2>1 DEF Judging
  <2>3. cmd[r].seen \subseteq {x \in assigned' : x[1] = cmd[r].application}
    BY <2>2, NothingIsTakenBack DEF Assigned
  <2>4. \A x \in cmd[r].seen \ cmd[r].toCheck : Approved(x)'
    BY <2>1, <2>2, Pairs, NothingIsTakenBack DEF Judging, Assigned, ShapeInv
  <2> QED
    BY <2>1, <2>3, <2>4 DEF Judging, Assigned, Approved
<1>2. IssuesAreEarned'
  <2> SUFFICES ASSUME NEW r \in Requests, pc[r] \in {"issue", "insert"}, cmd'[r] = cmd[r]
               PROVE  Completed(cmd[r].application)'
    BY DEF IssuesAreEarned
  <2>1. cmd[r].application \in Applications
    BY Pairs DEF ShapeInv, SubjectsExist
  <2>2. Completed(cmd[r].application)
    BY DEF EarnedInv, IssuesAreEarned
  <2>3. Completed(cmd[r].application)' <=>
           /\ judged'[cmd[r].application] # {}
           /\ judged'[cmd[r].application] \subseteq Assigned(cmd[r].application)'
           /\ \A x \in judged'[cmd[r].application] : Approved(x)'
    BY DEF Completed
  <2> QED
    BY <2>1, <2>2, CompletedLasts DEF Completed, Assigned
<1>3. EligibleOnApprovedWork'
  <2>1. \A a \in eligible : a \in Applications /\ Completed(a)
    BY Pairs DEF ShapeInv, TypeOK, EarnedInv, EligibleOnApprovedWork
  <2> QED
    BY <2>1, CompletedLasts DEF EligibleOnApprovedWork
<1>4. CertificateWasEarned'
  BY CompletedLasts DEF EarnedInv, CertificateWasEarned
<1> QED
  BY <1>1, <1>2, <1>3, <1>4 DEF EarnedInv

\* The steps that found something new.
LEMMA EvaluationEarned ==
    ASSUME ShapeInv, EarnedInv, NEW r \in Requests,
           BeginEvaluate(r) \/ CheckSubmission(r) \/ WriteEligible(r)
    PROVE  EarnedInv'
<1> USE DEF ShapeInv
<1>0. [Next]_vars
  BY DEF Next
<1>1. CASE BeginEvaluate(r)
  <2>1. PICK a \in enrolled :
           Begin(r, "evaluate", [Nothing EXCEPT !.application = a, !.toCheck = Assigned(a),
                                    !.seen = Assigned(a)])
    BY <1>1 DEF BeginEvaluate
  <2>2. /\ cmd'[r].application = a /\ cmd'[r].toCheck = Assigned(a) /\ cmd'[r].seen = Assigned(a)
        /\ \A q \in Requests \ {r} : pc'[q] = pc[q] /\ cmd'[q] = cmd[q]
        /\ pc'[r] = "evaluate" /\ UNCHANGED tables
    BY <2>1 DEF Begin, Nothing, TypeOK
  <2>3. Judging(cmd[r])'
    BY <2>2 DEF Judging, Assigned, tables
  <2> QED
    BY <1>0, <2>2, <2>3, EarnedStep DEF tables
<1>2. CASE CheckSubmission(r)
  <2>1. PICK x \in cmd[r].toCheck :
           Approved(x) /\ cmd' = [cmd EXCEPT ![r] = [cmd[r] EXCEPT !.toCheck = @ \ {x}]]
    BY <1>2 DEF CheckSubmission
  <2>2. /\ cmd'[r].application = cmd[r].application /\ cmd'[r].toCheck = cmd[r].toCheck \ {x}
        /\ cmd'[r].seen = cmd[r].seen
        /\ \A q \in Requests \ {r} : cmd'[q] = cmd[q]
        /\ pc[r] = "evaluate" /\ UNCHANGED <<tables, pc>>
    BY <1>2, <2>1 DEF CheckSubmission, TypeOK, Work
  <2>3. Judging(cmd[r])
    BY <2>2 DEF EarnedInv, EvaluationsHold
  <2>4. Judging(cmd[r])'
    BY <2>1, <2>2, <2>3 DEF Judging, Assigned, Approved, tables
  <2> QED
    BY <1>0, <2>2, <2>4, EarnedStep DEF tables
<1>3. CASE WriteEligible(r)
  <2>1. \A a \in eligible' : a \in eligible \/ Completed(a)'
    <3> SUFFICES ASSUME NEW a \in eligible', a \notin eligible
                 PROVE  Completed(a)'
      OBVIOUS
    <3>1. a = cmd[r].application
      BY <1>3 DEF WriteEligible
    <3>2. a \in Applications
      BY <1>3, <3>1, Pairs DEF WriteEligible, SubjectsExist
    <3> QED
      BY <1>3, <3>1, <3>2, VerdictIsFounded
  <2>2. pc' = [pc EXCEPT ![r] = "idle"] /\ cmd' = [cmd EXCEPT ![r] = Nothing] /\ UNCHANGED certificate
    BY <1>3 DEF WriteEligible, End
  <2>3. \A q \in Requests : pc'[q] # "idle" => pc'[q] = pc[q] /\ cmd'[q] = cmd[q]
    BY <2>2 DEF TypeOK
  <2> QED
    BY <1>0, <2>1, <2>2, <2>3, EarnedStep
<1> QED
  BY <1>1, <1>2, <1>3

LEMMA IssueEarned ==
    ASSUME ShapeInv, EarnedInv, NEW r \in Requests, BeginIssue(r) \/ InsertCertificate(r)
    PROVE  EarnedInv'
<1> USE DEF ShapeInv
<1>0. [Next]_vars
  BY DEF Next
<1>1. CASE BeginIssue(r)
  <2>1. PICK a \in enrolled : a \in eligible /\ Begin(r, "issue", [Nothing EXCEPT !.application = a])
    BY <1>1 DEF BeginIssue, Ready
  <2>2. Completed(a)
    BY <2>1 DEF EarnedInv, EligibleOnApprovedWork
  <2>3. /\ cmd'[r].application = a
        /\ \A q \in Requests \ {r} : pc'[q] = pc[q] /\ cmd'[q] = cmd[q]
        /\ pc'[r] = "issue" /\ UNCHANGED tables
    BY <2>1 DEF Begin, Nothing, TypeOK
  <2>4. Completed(cmd[r].application)'
    BY <2>2, <2>3 DEF Completed, Assigned, Approved, tables
  <2> QED
    BY <1>0, <2>3, <2>4, EarnedStep DEF tables
<1>2. CASE InsertCertificate(r)
  <2>0. PICK a \in Applications : a = cmd[r].application
    BY <1>2, Pairs DEF InsertCertificate, SubjectsExist
  <2>1. Completed(a)
    BY <1>2, <2>0 DEF InsertCertificate, EarnedInv, IssuesAreEarned
  <2>2. Completed(a)'
    BY <1>2, <2>1 DEF InsertCertificate, Completed, Assigned, Approved
  <2>3. \A b \in Applications : certificate'[b] # "NONE" => certificate[b] # "NONE" \/ b = a
    BY <1>2, <2>0 DEF InsertCertificate, TypeOK
  <2>4. /\ pc' = [pc EXCEPT ![r] = "idle"] /\ cmd' = [cmd EXCEPT ![r] = Nothing]
        /\ UNCHANGED eligible
    BY <1>2 DEF InsertCertificate, End
  <2>5. \A q \in Requests : pc'[q] # "idle" => pc'[q] = pc[q] /\ cmd'[q] = cmd[q]
    BY <2>4 DEF TypeOK
  <2>6. \A b \in Applications : certificate'[b] # "NONE" => certificate[b] # "NONE" \/ Completed(b)'
    BY <2>2, <2>3
  <2> QED
    BY <1>0, <2>4, <2>5, <2>6, EarnedStep
<1> QED
  BY <1>1, <1>2

\* Every other step founds nothing new.
LEMMA NothingNewToEarn ==
    ASSUME ShapeInv, EarnedInv, [Next]_vars,
           \A r \in Requests : ~BeginEvaluate(r) /\ ~CheckSubmission(r) /\ ~WriteEligible(r)
                                   /\ ~BeginIssue(r) /\ ~InsertCertificate(r)
    PROVE  EarnedInv'
<1> USE DEF ShapeInv
<1> SUFFICES /\ \A a \in Applications : certificate'[a] # "NONE" => certificate[a] # "NONE"
             /\ eligible' \subseteq eligible
             /\ \A r \in Requests : pc'[r] \in {"evaluate", "issue", "insert"} =>
                   /\ cmd'[r] = cmd[r]
                   /\ pc'[r] = "evaluate" => pc[r] = "evaluate"
                   /\ pc'[r] # "evaluate" => pc[r] \in {"issue", "insert"}
  BY EarnedStep
<1>1. CASE UNCHANGED <<certificate, eligible, pc, cmd>>
  BY <1>1
<1>2. CASE \E a \in Applications : Revoke(a)
  BY <1>2 DEF Revoke, TypeOK
<1>3. ASSUME NEW r \in Requests,
             BeginReturnToDraft(r) \/ BeginApply(r) \/ BeginSubmit(r) \/ BeginResubmit(r)
      PROVE  /\ UNCHANGED tables
             /\ \A q \in Requests : pc'[q] \in {"evaluate", "issue", "insert"} =>
                                       pc'[q] = pc[q] /\ cmd'[q] = cmd[q]
  BY <1>3 DEF BeginReturnToDraft, BeginApply, BeginSubmit, BeginResubmit, Begin, TypeOK
<1>4. ASSUME NEW r \in Requests,
             \/ ReturnToDraft(r) \/ Apply(r) \/ Submit(r) \/ Resubmit(r) \/ Record(r)
             \/ LookForCertificate(r) \/ FindUnapproved(r) \/ Leave(r)
      PROVE  /\ UNCHANGED <<certificate, eligible>>
             /\ \A q \in Requests : pc'[q] \in {"evaluate", "issue", "insert"} =>
                   /\ cmd'[q] = cmd[q]
                   /\ pc'[q] = "evaluate" => pc[q] = "evaluate"
                   /\ pc'[q] # "evaluate" => pc[q] \in {"issue", "insert"}
  BY <1>4 DEF ReturnToDraft, Apply, Submit, Resubmit, Record, LookForCertificate, FindUnapproved,
              Leave, End, Goto, TypeOK, tables
<1>5. ASSUME NEW r \in Requests, WriteNotEligible(r)
      PROVE  /\ UNCHANGED certificate
             /\ eligible' \subseteq eligible
             /\ \A q \in Requests : pc'[q] \in {"evaluate", "issue", "insert"} =>
                                       pc'[q] = pc[q] /\ cmd'[q] = cmd[q]
  BY <1>5 DEF WriteNotEligible, End, TypeOK
<1>6. \/ UNCHANGED <<certificate, eligible, pc, cmd>>
      \/ \E a \in Applications : Revoke(a)
      \/ \E r \in Requests :
            \/ BeginReturnToDraft(r) \/ BeginApply(r) \/ BeginSubmit(r) \/ BeginResubmit(r)
            \/ ReturnToDraft(r) \/ Apply(r) \/ Submit(r) \/ Resubmit(r) \/ Record(r)
            \/ LookForCertificate(r) \/ FindUnapproved(r) \/ Leave(r) \/ WriteNotEligible(r)
  BY DEF Next, vars, Administrate, ProgrammeCommand, Decide, AssignTasks, Review
<1>7. ASSUME NEW r \in Requests,
             BeginReturnToDraft(r) \/ BeginApply(r) \/ BeginSubmit(r) \/ BeginResubmit(r)
      PROVE  UNCHANGED <<certificate, eligible>>
  BY <1>3, <1>7 DEF tables
<1> QED
  BY <1>1, <1>2, <1>3, <1>4, <1>5, <1>6, <1>7

LEMMA EarnedHolds == Spec => []EarnedInv
<1>1. Init => EarnedInv
  BY DEF Init, EarnedInv, EvaluationsHold, IssuesAreEarned, EligibleOnApprovedWork,
         CertificateWasEarned
<1>2. ShapeInv /\ EarnedInv /\ [Next]_vars => EarnedInv'
  BY EvaluationEarned, IssueEarned, NothingNewToEarn
<1> QED
  BY <1>1, <1>2, ShapeHolds, PTL DEF Spec

\* Eligibility rests on work that was assigned and is approved to this day, however
\* evaluations, new assignments and reviews interleave.
THEOREM EligibilityIsFounded == Spec => []EligibleOnApprovedWork
<1>1. EarnedInv => EligibleOnApprovedWork
  BY DEF EarnedInv
<1> QED
  BY <1>1, EarnedHolds, PTL

\* No certificate exists, revoked or not, for an enrolment that was never evaluated
\* ELIGIBLE, and the work its last such verdict was based on is all approved to this day,
\* although eligibility is looked up statements before the insert and may be withdrawn.
THEOREM CertificatesAreEarned == Spec => []CertificateWasEarned
<1>1. EarnedInv => CertificateWasEarned
  BY DEF EarnedInv
<1> QED
  BY <1>1, EarnedHolds, PTL

\* A revoked certificate is never replaced by a valid one: an issue that looked before
\* the revocation fails on the unique key.
THEOREM RevocationIsFinal == Spec => RevokedForGood
<1>1. ShapeInv /\ [Next]_vars =>
         [\A a \in Applications : certificate[a] = "REVOKED" => certificate'[a] = "REVOKED"]_vars
  <2> SUFFICES ASSUME ShapeInv, [Next]_vars, NEW a \in Applications, certificate[a] = "REVOKED"
               PROVE  certificate'[a] = "REVOKED"
    OBVIOUS
  <2>1. CASE \E b \in Applications : Revoke(b)
    BY <2>1 DEF Revoke, ShapeInv, TypeOK
  <2>2. CASE \E r \in Requests : InsertCertificate(r)
    BY <2>2 DEF InsertCertificate, Free, ShapeInv, TypeOK
  <2>3. \/ \E b \in Applications : Revoke(b)
        \/ \E r \in Requests : InsertCertificate(r)
        \/ UNCHANGED certificate
    BY DEF Next, vars, tables, Administrate, ProgrammeCommand, Decide, AssignTasks, Review,
           BeginReturnToDraft, ReturnToDraft, BeginApply, Apply, BeginSubmit, Submit,
           BeginResubmit, Resubmit, Record, BeginEvaluate, CheckSubmission, WriteEligible,
           FindUnapproved, WriteNotEligible, BeginIssue, LookForCertificate, Leave, Begin
  <2> QED
    BY <2>1, <2>2, <2>3
<1> QED
  BY <1>1, ShapeHolds, PTL DEF Spec, RevokedForGood

-----------------------------------------------------------------------------
(* The history of a submission is append-only.                             *)

\* Who neither moves a submission nor takes up a number disturbs nothing.
LEMMA NumbersLeftAlone ==
    ASSUME NumbersInv, UNCHANGED <<submission, recorded>>,
           \A r \in Requests : pc'[r] \in {"resubmit", "record"} => pc'[r] = pc[r] /\ cmd'[r] = cmd[r]
    PROVE  NumbersInv'
<1>1. HistoryIsBehind'
  BY DEF NumbersInv, HistoryIsBehind
<1>2. NumbersAreClaimed'
  BY DEF NumbersInv, NumbersAreClaimed, Subject
<1>3. NumbersAreFresh'
  BY DEF NumbersInv, NumbersAreFresh, Subject
<1> QED
  BY <1>1, <1>2, <1>3 DEF NumbersInv

\* A review moves the row on: a resubmission that read it before no longer matches.
LEMMA NumbersReview ==
    ASSUME ShapeInv, NumbersInv, NEW x \in Assignments, Review(x)
    PROVE  NumbersInv'
<1> USE DEF ShapeInv
<1>1. PICK m \in ReviewMoves :
         /\ CanMove(submission[x], m[1])
         /\ submission' = [submission EXCEPT ![x] = Moved(submission[x], m[2])]
  BY DEF Review
<1>2. UNCHANGED <<recorded, pc, cmd>>
  BY DEF Review
<1>3. m[2] \in {"SUBMITTED", "UNDER_REVIEW", "REVISION_REQUIRED", "APPROVED"} /\ m[1] # "NONE"
  BY DEF ReviewMoves
<1>4. submission[x] \in Submission /\ submission[x].status # "NONE"
  BY <1>1, <1>3 DEF TypeOK, CanMove
<1>5. /\ submission'[x].status # "NONE"
      /\ submission'[x].version = submission[x].version + 1
      /\ submission'[x].currentVersion = submission[x].currentVersion
  BY <1>1, <1>3, <1>4, MovedSubmission DEF CanMove, TypeOK
<1>6. \A y \in Assignments \ {x} : submission'[y] = submission[y]
  BY <1>1 DEF TypeOK
<1>7. HistoryIsBehind'
  BY <1>2, <1>5, <1>6 DEF NumbersInv, HistoryIsBehind
<1>8. NumbersAreClaimed'
  <2> SUFFICES ASSUME NEW r \in Requests, pc[r] \in {"resubmit", "record"}
               PROVE  /\ submission'[Subject(r)].status # "NONE"
                      /\ pc[r] = "record" => cmd[r].number \in 1..submission'[Subject(r)].currentVersion
                      /\ pc[r] = "resubmit" =>
                            /\ cmd[r].version <= submission'[Subject(r)].version
                            /\ cmd[r].version = submission'[Subject(r)].version
                                  => cmd[r].number = submission'[Subject(r)].currentVersion + 1
    BY <1>2 DEF NumbersAreClaimed, Subject
  <2>1. Subject(r) \in Assignments
    BY Pairs DEF SubjectsExist
  <2>2. cmd[r].version \in Nat /\ submission[Subject(r)].version \in Nat
    BY <2>1, InternshipAssumption DEF TypeOK, Work, Submission
  <2>3. CASE Subject(r) = x
    BY <1>5, <2>2, <2>3 DEF NumbersInv, NumbersAreClaimed
  <2>4. CASE Subject(r) # x
    BY <1>6, <2>1, <2>4 DEF NumbersInv, NumbersAreClaimed
  <2> QED
    BY <2>3, <2>4
<1>9. NumbersAreFresh'
  BY <1>2 DEF NumbersInv, NumbersAreFresh, Subject
<1> QED
  BY <1>7, <1>8, <1>9 DEF NumbersInv

\* The first submission claims number 1, and nobody was before it.
LEMMA NumbersSubmit ==
    ASSUME ShapeInv, NumbersInv, NEW r \in Requests, Submit(r)
    PROVE  NumbersInv'
<1> USE DEF ShapeInv
<1> DEFINE x == Subject(r)
<1>1. x \in Assignments /\ submission[x].status = "NONE"
  BY Pairs DEF Submit, SubjectsExist
<1>2. recorded[x] = {} /\ submission[x].currentVersion = 1
  BY <1>1 DEF NumbersInv, HistoryIsBehind
<1>3. /\ submission' = [submission EXCEPT ![x] = [submission[x] EXCEPT !.status = "SUBMITTED"]]
      /\ pc' = [pc EXCEPT ![r] = "record"] /\ UNCHANGED recorded
      /\ cmd' = [cmd EXCEPT ![r] = [cmd[r] EXCEPT !.number = 1]]
  BY DEF Submit
<1>4. /\ submission'[x].status = "SUBMITTED" /\ submission'[x].currentVersion = 1
      /\ \A y \in Assignments \ {x} : submission'[y] = submission[y]
  BY <1>1, <1>2, <1>3 DEF TypeOK, Submission
<1>5. /\ pc'[r] = "record" /\ cmd'[r].number = 1
      /\ cmd'[r].application = cmd[r].application /\ cmd'[r].task = cmd[r].task
      /\ \A q \in Requests \ {r} : pc'[q] = pc[q] /\ cmd'[q] = cmd[q]
  BY <1>3 DEF TypeOK, Work
<1>6. Subject(r)' = x /\ \A q \in Requests \ {r} : Subject(q)' = Subject(q)
  BY <1>5 DEF Subject
<1>7. \A q \in Requests : pc[q] \in {"resubmit", "record"} =>
         Subject(q) # x /\ Subject(q) \in Assignments
  BY <1>1, Pairs DEF NumbersInv, NumbersAreClaimed, SubjectsExist
<1>8. HistoryIsBehind'
  BY <1>2, <1>3, <1>4 DEF NumbersInv, HistoryIsBehind
<1>9. NumbersAreClaimed'
  BY <1>4, <1>5, <1>6, <1>7 DEF NumbersInv, NumbersAreClaimed
<1>10. NumbersAreFresh'
  BY <1>2, <1>3, <1>5, <1>6, <1>7 DEF NumbersInv, NumbersAreFresh
<1> QED
  BY <1>8, <1>9, <1>10 DEF NumbersInv

\* Who names the version it was shown claims the number after the current one.
LEMMA NumbersBeginResubmit ==
    ASSUME ~Guessing, ShapeInv, NumbersInv, NEW r \in Requests, BeginResubmit(r)
    PROVE  NumbersInv'
<1> USE DEF ShapeInv
<1>0. PICK x \in assigned :
         \E v \in Named(submission[x], "REVISION_REQUIRED") :
            Begin(r, "resubmit", [Nothing EXCEPT !.application = x[1], !.task = x[2],
                                     !.version = v,
                                     !.number = submission[x].currentVersion + 1])
  BY DEF BeginResubmit
<1>1. PICK v \in Named(submission[x], "REVISION_REQUIRED") :
         Begin(r, "resubmit", [Nothing EXCEPT !.application = x[1], !.task = x[2],
                                  !.version = v,
                                  !.number = submission[x].currentVersion + 1])
  BY <1>0
<1>2. x \in Assignments /\ x = <<x[1], x[2]>>
  BY Pairs
<1>3. v = submission[x].version /\ submission[x].status = "REVISION_REQUIRED" /\ v \in Nat
  BY <1>1, <1>2, InternshipAssumption DEF Named, TypeOK, Submission
<1>4. /\ pc'[r] = "resubmit" /\ Subject(r)' = x /\ cmd'[r].version = v
      /\ cmd'[r].number = submission[x].currentVersion + 1
      /\ \A q \in Requests \ {r} : pc'[q] = pc[q] /\ cmd'[q] = cmd[q] /\ Subject(q)' = Subject(q)
      /\ UNCHANGED tables
  BY <1>1, <1>2 DEF Begin, Nothing, Subject, TypeOK
<1>5. HistoryIsBehind'
  BY <1>4 DEF NumbersInv, HistoryIsBehind, tables
<1>6. NumbersAreClaimed'
  BY <1>3, <1>4 DEF NumbersInv, NumbersAreClaimed, tables
<1>7. NumbersAreFresh'
  BY <1>4 DEF NumbersInv, NumbersAreFresh, tables
<1> QED
  BY <1>5, <1>6, <1>7 DEF NumbersInv

\* A resubmission that still matches moves the row to the number it claimed: it is past
\* every number recorded or waiting to be.
LEMMA NumbersResubmit ==
    ASSUME ShapeInv, NumbersInv, NEW r \in Requests, Resubmit(r)
    PROVE  NumbersInv'
<1> USE DEF ShapeInv
<1> DEFINE x == Subject(r)
           n == cmd[r].number
           current == submission[x].currentVersion
           moved == Moved(submission[x], "SUBMITTED")
<1>1. x \in Assignments /\ pc[r] = "resubmit" /\ cmd[r].version = submission[x].version
  BY Pairs DEF Resubmit, SubjectsExist, SameVersion
<1>2. n = current + 1 /\ current \in Nat
  BY <1>1, InternshipAssumption DEF NumbersInv, NumbersAreClaimed, TypeOK, Submission
<1>3. submission[x] \in Submission /\ submission[x].version < MaxVersion
  BY <1>1 DEF Resubmit, CanMove, TypeOK
<1>4. /\ submission' = [submission EXCEPT ![x] = [moved EXCEPT !.currentVersion = n]]
      /\ pc' = [pc EXCEPT ![r] = "record"] /\ UNCHANGED <<cmd, recorded>>
  BY DEF Resubmit, Goto
<1>5. moved \in Submission /\ moved.status = "SUBMITTED" /\ moved.version = submission[x].version + 1
  BY <1>3, MovedSubmission
<1> HIDE DEF moved
<1>6. /\ submission'[x].status = "SUBMITTED" /\ submission'[x].currentVersion = n
      /\ submission'[x].version = submission[x].version + 1
      /\ \A y \in Assignments \ {x} : submission'[y] = submission[y]
  BY <1>1, <1>4, <1>5 DEF TypeOK, Submission
<1>7. /\ pc'[r] = "record" /\ \A q \in Requests \ {r} : pc'[q] = pc[q]
      /\ \A q \in Requests : Subject(q)' = Subject(q)
  BY <1>4 DEF TypeOK, Subject
<1>8. \A q \in Requests : pc[q] \in {"resubmit", "record"} =>
         /\ Subject(q) \in Assignments
         /\ cmd[q].version \in Nat /\ submission[Subject(q)].version \in Nat
         /\ submission[Subject(q)].currentVersion \in Nat
  BY Pairs, InternshipAssumption DEF SubjectsExist, TypeOK, Work, Submission
<1>9. HistoryIsBehind'
  <2>1. recorded[x] \subseteq 1..n
    BY <1>1, <1>2 DEF NumbersInv, HistoryIsBehind
  <2> QED
    BY <1>4, <1>6, <2>1 DEF NumbersInv, HistoryIsBehind
<1>10. NumbersAreClaimed'
  <2> SUFFICES ASSUME NEW q \in Requests, pc'[q] \in {"resubmit", "record"}
               PROVE  /\ submission'[Subject(q)].status # "NONE"
                      /\ pc'[q] = "record" => cmd[q].number \in 1..submission'[Subject(q)].currentVersion
                      /\ pc'[q] = "resubmit" =>
                            /\ cmd[q].version <= submission'[Subject(q)].version
                            /\ cmd[q].version = submission'[Subject(q)].version
                                  => cmd[q].number = submission'[Subject(q)].currentVersion + 1
    BY <1>4, <1>7 DEF NumbersAreClaimed
  <2>1. CASE q = r
    BY <1>2, <1>6, <1>7, <2>1
  <2>2. CASE q # r /\ Subject(q) = x
    BY <1>2, <1>6, <1>7, <1>8, <2>2 DEF NumbersInv, NumbersAreClaimed
  <2>3. CASE q # r /\ Subject(q) # x
    BY <1>6, <1>7, <1>8, <2>3 DEF NumbersInv, NumbersAreClaimed
  <2> QED
    BY <2>1, <2>2, <2>3
<1>11. NumbersAreFresh'
  <2>1. n \notin recorded[x]
    BY <1>1, <1>2 DEF NumbersInv, HistoryIsBehind
  <2>2. \A q \in Requests : pc[q] = "record" /\ Subject(q) = x => cmd[q].number # n
    BY <1>2 DEF NumbersInv, NumbersAreClaimed
  <2> QED
    BY <1>4, <1>7, <2>1, <2>2 DEF NumbersInv, NumbersAreFresh
<1> QED
  BY <1>9, <1>10, <1>11 DEF NumbersInv

\* What is recorded was claimed by one request alone.
LEMMA NumbersRecord ==
    ASSUME ShapeInv, NumbersInv, NEW r \in Requests, Record(r)
    PROVE  NumbersInv'
<1> USE DEF ShapeInv
<1> DEFINE x == Subject(r)
           n == cmd[r].number
<1>1. x \in Assignments /\ pc[r] = "record" /\ n \in 1..submission[x].currentVersion
  BY Pairs DEF Record, SubjectsExist, NumbersInv, NumbersAreClaimed
<1>2. submission[x].status # "NONE"
  BY <1>1 DEF NumbersInv, NumbersAreClaimed
<1>3. /\ recorded' = [recorded EXCEPT ![x] = recorded[x] \cup {n}] /\ UNCHANGED submission
      /\ pc' = [pc EXCEPT ![r] = "idle"] /\ cmd' = [cmd EXCEPT ![r] = Nothing]
  BY DEF Record, End
<1>4. \A q \in Requests : pc'[q] \in {"resubmit", "record"} =>
         q # r /\ pc'[q] = pc[q] /\ cmd'[q] = cmd[q] /\ Subject(q)' = Subject(q)
  BY <1>3 DEF TypeOK, Subject
<1>5. HistoryIsBehind'
  BY <1>1, <1>2, <1>3 DEF NumbersInv, HistoryIsBehind, TypeOK
<1>6. NumbersAreClaimed'
  BY <1>3, <1>4 DEF NumbersInv, NumbersAreClaimed
<1>7. NumbersAreFresh'
  <2>1. \A q \in Requests : pc'[q] = "record" => cmd[q].number \notin recorded'[Subject(q)]
    BY <1>1, <1>3, <1>4 DEF NumbersInv, NumbersAreFresh, TypeOK
  <2> QED
    BY <1>4, <2>1 DEF NumbersInv, NumbersAreFresh
<1> QED
  BY <1>5, <1>6, <1>7 DEF NumbersInv

LEMMA NumbersStep ==
    ASSUME ~Guessing, ShapeInv, NumbersInv, [Next]_vars
    PROVE  NumbersInv'
<1> USE DEF ShapeInv
<1>1. CASE UNCHANGED <<submission, recorded, pc, cmd>>
  BY <1>1, NumbersLeftAlone
<1>2. ASSUME NEW r \in Requests,
             BeginReturnToDraft(r) \/ BeginApply(r) \/ BeginSubmit(r) \/ BeginEvaluate(r)
                 \/ BeginIssue(r)
      PROVE  NumbersInv'
  BY <1>2, NumbersLeftAlone
  DEF BeginReturnToDraft, BeginApply, BeginSubmit, BeginEvaluate, BeginIssue, Begin, tables, TypeOK
<1>3. ASSUME NEW r \in Requests,
             \/ ReturnToDraft(r) \/ Apply(r) \/ CheckSubmission(r) \/ WriteEligible(r)
             \/ FindUnapproved(r) \/ WriteNotEligible(r) \/ LookForCertificate(r)
             \/ InsertCertificate(r) \/ Leave(r)
      PROVE  NumbersInv'
  BY <1>3, NumbersLeftAlone
  DEF ReturnToDraft, Apply, CheckSubmission, WriteEligible, FindUnapproved, WriteNotEligible,
      LookForCertificate, InsertCertificate, Leave, End, Goto, tables, TypeOK
<1>4. \/ UNCHANGED <<submission, recorded, pc, cmd>>
      \/ \E x \in Assignments : Review(x)
      \/ \E r \in Requests :
            \/ BeginReturnToDraft(r) \/ BeginApply(r) \/ BeginSubmit(r) \/ BeginEvaluate(r)
            \/ BeginIssue(r) \/ BeginResubmit(r) \/ ReturnToDraft(r) \/ Apply(r)
            \/ CheckSubmission(r) \/ WriteEligible(r) \/ FindUnapproved(r) \/ WriteNotEligible(r)
            \/ LookForCertificate(r) \/ InsertCertificate(r) \/ Leave(r) \/ Submit(r)
            \/ Resubmit(r) \/ Record(r)
  BY DEF Next, vars, Administrate, ProgrammeCommand, Decide, AssignTasks, Revoke
<1> QED
  BY <1>1, <1>2, <1>3, <1>4, NumbersReview, NumbersSubmit, NumbersBeginResubmit, NumbersResubmit,
     NumbersRecord

\* Callers who name the version they were shown never overwrite history: a number is
\* claimed once, whichever requests race and whichever are cut off before they record it.
THEOREM HistoryIsAppendOnly == ~Guessing => (Spec => []NumbersAreFresh)
<1> SUFFICES ASSUME ~Guessing PROVE Spec => []NumbersAreFresh
  OBVIOUS
<1>1. Init => NumbersInv
  BY DEF Init, NumbersInv, HistoryIsBehind, NumbersAreClaimed, NumbersAreFresh
<1>2. ShapeInv /\ NumbersInv /\ [Next]_vars => NumbersInv'
  BY NumbersStep
<1>3. NumbersInv => NumbersAreFresh
  BY DEF NumbersInv
<1> QED
  BY <1>1, <1>2, <1>3, ShapeHolds, PTL DEF Spec

-----------------------------------------------------------------------------
(* The rows and the registry.  The services look a transition up and write *)
(* the status of a new row out; the model writes all of them out, and here *)
(* they are held against the registry.                                     *)

Registry == INSTANCE WorkflowRegistry

\* A row that is not there has no version yet.
VersionOf(row) == IF row.status = "NONE" THEN 0 ELSE row.version

\* A certificate has no state_version: how often it was written stands for it.
Writes(a) == IF certificate[a] = "NONE" THEN 0 ELSE IF certificate[a] = "ISSUED" THEN 1 ELSE 2

ProgrammeRow == INSTANCE RegisteredRow WITH
    Entity <- Registry!InternshipProgramme, Absent <- "NONE", First <- "DRAFT",
    status <- programme.status, version <- programme.version

ApplicationRow(a) == INSTANCE RegisteredRow WITH
    Entity <- Registry!InternshipApplication, Absent <- "NONE", First <- "NONE",
    status <- application[a].status, version <- VersionOf(application[a])

SubmissionRow(x) == INSTANCE RegisteredRow WITH
    Entity <- Registry!Submission, Absent <- "NONE", First <- "NONE",
    status <- submission[x].status, version <- VersionOf(submission[x])

CertificateRow(a) == INSTANCE RegisteredRow WITH
    Entity <- Registry!Certificate, Absent <- "NONE", First <- "NONE",
    status <- certificate[a], version <- Writes(a)

\* The registry's rows the internship uses.
Leads(entity, from, to) == \E t \in entity.transitions : from \in t.from /\ to = t.to
Makes(entity, to) == \E t \in entity.transitions : t.from = {} /\ to = t.to

LEMMA ProgrammeTransitions ==
    /\ Leads(Registry!InternshipProgramme, "DRAFT", "PUBLISHED")
    /\ Leads(Registry!InternshipProgramme, "PUBLISHED", "CLOSED")
    /\ Leads(Registry!InternshipProgramme, "CLOSED", "ARCHIVED")
    /\ Leads(Registry!InternshipProgramme, "PUBLISHED", "DRAFT")
    /\ "DRAFT" \in Registry!InternshipProgramme.states
                     \ Registry!InternshipProgramme.terminalStates
BY DEF Leads, Registry!InternshipProgramme, Registry!Lifecycle, Registry!Transition

LEMMA ApplicationTransitions ==
    /\ Makes(Registry!InternshipApplication, "SUBMITTED")
    /\ Leads(Registry!InternshipApplication, "SUBMITTED", "UNDER_REVIEW")
    /\ Leads(Registry!InternshipApplication, "UNDER_REVIEW", "ACCEPTED")
    /\ Leads(Registry!InternshipApplication, "UNDER_REVIEW", "REJECTED")
BY DEF Leads, Makes, Registry!InternshipApplication, Registry!Lifecycle, Registry!Transition

LEMMA SubmissionTransitions ==
    /\ Makes(Registry!Submission, "SUBMITTED")
    /\ Leads(Registry!Submission, "REVISION_REQUIRED", "SUBMITTED")
    /\ \A m \in ReviewMoves : Leads(Registry!Submission, m[1], m[2])
<1>1. /\ Makes(Registry!Submission, "SUBMITTED")
      /\ Leads(Registry!Submission, "REVISION_REQUIRED", "SUBMITTED")
      /\ Leads(Registry!Submission, "SUBMITTED", "UNDER_REVIEW")
      /\ Leads(Registry!Submission, "UNDER_REVIEW", "APPROVED")
      /\ Leads(Registry!Submission, "UNDER_REVIEW", "REVISION_REQUIRED")
  BY DEF Leads, Makes, Registry!Submission, Registry!Lifecycle, Registry!Transition
<1> QED
  BY <1>1 DEF ReviewMoves

LEMMA CertificateTransitions ==
    /\ Makes(Registry!Certificate, "ISSUED")
    /\ Leads(Registry!Certificate, "ISSUED", "REVOKED")
BY DEF Leads, Makes, Registry!Certificate, Registry!Lifecycle, Registry!Transition

\* The programme is moved by an administrator's command, or by a return to draft that
\* still finds it published.
LEMMA ProgrammeFollows ==
    ASSUME ShapeInv, [Next]_vars
    PROVE  ProgrammeRow!RowNext \/ UNCHANGED ProgrammeRow!row
<1>1. programme \in Programme
  BY DEF ShapeInv, TypeOK
<1>2. ASSUME NEW from, NEW to, programme.status = from, programme' = Moved(programme, to),
             to \in {"DRAFT", "PUBLISHED", "CLOSED", "ARCHIVED"}
      PROVE  /\ programme'.status = to /\ programme'.version = programme.version + 1
             /\ programme.status = from
  BY <1>1, <1>2 DEF Moved, Programme
<1>3. ASSUME NEW from, NEW to \in {"DRAFT", "PUBLISHED", "CLOSED", "ARCHIVED"},
             programme.status = from, programme' = Moved(programme, to),
             Leads(Registry!InternshipProgramme, from, to)
      PROVE  ProgrammeRow!RowNext
  BY <1>2, <1>3 DEF Leads, ProgrammeRow!RowNext, ProgrammeRow!Move
<1>4. CASE Administrate
  <2>1. CASE ProgrammeCommand("DRAFT", "DRAFT")
    BY <1>2, <2>1, ProgrammeTransitions
    DEF ProgrammeCommand, CanMove, ProgrammeRow!RowNext, ProgrammeRow!Edit
  <2>2. CASE ProgrammeCommand("DRAFT", "PUBLISHED")
    BY <1>3, <2>2, ProgrammeTransitions DEF ProgrammeCommand, CanMove
  <2>3. CASE ProgrammeCommand("PUBLISHED", "CLOSED")
    BY <1>3, <2>3, ProgrammeTransitions DEF ProgrammeCommand, CanMove
  <2>4. CASE ProgrammeCommand("CLOSED", "ARCHIVED")
    BY <1>3, <2>4, ProgrammeTransitions DEF ProgrammeCommand, CanMove
  <2> QED
    BY <1>4, <2>1, <2>2, <2>3, <2>4 DEF Administrate
<1>5. ASSUME NEW r \in Requests, ReturnToDraft(r)
      PROVE  ProgrammeRow!RowNext
  BY <1>3, <1>5, ProgrammeTransitions DEF ReturnToDraft, CanMove
<1>6. \/ Administrate
      \/ \E r \in Requests : ReturnToDraft(r)
      \/ UNCHANGED programme
  BY DEF Next, vars, tables, Decide, AssignTasks, Revoke, Review, BeginReturnToDraft, BeginApply,
         Apply, BeginSubmit, Submit, BeginResubmit, Resubmit, Record, BeginEvaluate,
         CheckSubmission, WriteEligible, FindUnapproved, WriteNotEligible, BeginIssue,
         LookForCertificate, InsertCertificate, Leave, Begin
<1> QED
  BY <1>4, <1>5, <1>6 DEF ProgrammeRow!row

\* An application is inserted once, and decided one state at a time.
LEMMA ApplicationMoves ==
    ASSUME ShapeInv, [Next]_vars, NEW a \in Applications
    PROVE  LET old == application[a]
               new == application'[a]
           IN  \/ new = old
               \/ /\ old.status = "NONE" /\ new.status = "SUBMITTED"
                  /\ new.version = old.version
               \/ /\ old.status # "NONE" /\ new.status # "NONE"
                  /\ Leads(Registry!InternshipApplication, old.status, new.status)
                  /\ new.version = old.version + 1
<1> USE DEF ShapeInv
<1> DEFINE old == application[a]
           new == application'[a]
<1>1. application \in [Applications -> Application] /\ old \in Application
  BY DEF TypeOK
<1>2. ASSUME NEW r \in Requests, Apply(r), new # old
      PROVE  /\ old.status = "NONE" /\ new.status = "SUBMITTED"
             /\ new.version = old.version
  <2>1. /\ cmd[r].application = a /\ old.status = "NONE"
        /\ new = [old EXCEPT !.status = "SUBMITTED"]
    BY <1>1, <1>2 DEF Apply
  <2> QED
    BY <1>1, <2>1 DEF Application
<1>3. ASSUME NEW b \in Applications, Decide(b), new # old
      PROVE  /\ old.status # "NONE" /\ new.status # "NONE"
             /\ Leads(Registry!InternshipApplication, old.status, new.status)
             /\ new.version = old.version + 1
  <2>1. b = a
    BY <1>1, <1>3 DEF Decide
  <2>2. \E to \in {"UNDER_REVIEW", "ACCEPTED", "REJECTED"} :
           /\ new = Moved(old, to)
           /\ Leads(Registry!InternshipApplication, old.status, to)
           /\ old.status # "NONE"
    BY <1>1, <1>3, <2>1, ApplicationTransitions DEF Decide, CanMove
  <2>3. PICK to \in {"UNDER_REVIEW", "ACCEPTED", "REJECTED"} :
           /\ new = Moved(old, to)
           /\ Leads(Registry!InternshipApplication, old.status, to)
           /\ old.status # "NONE"
    BY <2>2
  <2>4. new.status = to /\ new.version = old.version + 1
    BY <1>1, <2>3 DEF Moved, Application
  <2> QED
    BY <2>3, <2>4
<1>4. \/ \E r \in Requests : Apply(r)
      \/ \E b \in Applications : Decide(b)
      \/ UNCHANGED application
  BY DEF Next, vars, tables, Administrate, ProgrammeCommand, AssignTasks, Revoke, Review,
         BeginReturnToDraft, ReturnToDraft, BeginApply, BeginSubmit, Submit, BeginResubmit,
         Resubmit, Record, BeginEvaluate, CheckSubmission, WriteEligible, FindUnapproved,
         WriteNotEligible, BeginIssue, LookForCertificate, InsertCertificate, Leave, Begin
<1> QED
  BY <1>2, <1>3, <1>4

\* A submission is inserted once, resubmitted from a revision and reviewed one state
\* at a time.
LEMMA SubmissionMoves ==
    ASSUME ShapeInv, [Next]_vars, NEW x \in Assignments
    PROVE  LET old == submission[x]
               new == submission'[x]
           IN  \/ new = old
               \/ /\ old.status = "NONE" /\ new.status = "SUBMITTED"
                  /\ new.version = old.version
               \/ /\ old.status # "NONE" /\ new.status # "NONE"
                  /\ Leads(Registry!Submission, old.status, new.status)
                  /\ new.version = old.version + 1
<1> USE DEF ShapeInv
<1> DEFINE old == submission[x]
           new == submission'[x]
<1>1. submission \in [Assignments -> Submission] /\ old \in Submission
  BY DEF TypeOK
<1>2. ASSUME NEW r \in Requests, Submit(r), new # old
      PROVE  /\ old.status = "NONE" /\ new.status = "SUBMITTED"
             /\ new.version = old.version
  <2>1. old.status = "NONE" /\ new = [old EXCEPT !.status = "SUBMITTED"]
    BY <1>1, <1>2 DEF Submit
  <2> QED
    BY <1>1, <2>1 DEF Submission
<1>3. ASSUME NEW r \in Requests, Resubmit(r), new # old
      PROVE  /\ old.status = "REVISION_REQUIRED" /\ new.status = "SUBMITTED"
             /\ new.version = old.version + 1
  <2> DEFINE moved == Moved(old, "SUBMITTED")
  <2>1. /\ old.status = "REVISION_REQUIRED" /\ old.version < MaxVersion
        /\ new = [moved EXCEPT !.currentVersion = cmd[r].number]
    BY <1>1, <1>3 DEF Resubmit, CanMove
  <2>2. moved \in Submission /\ moved.status = "SUBMITTED" /\ moved.version = old.version + 1
    BY <1>1, <2>1, MovedSubmission
  <2> HIDE DEF moved
  <2> QED
    BY <2>1, <2>2 DEF Submission
<1>4. ASSUME NEW y \in Assignments, Review(y), new # old
      PROVE  /\ old.status # "NONE" /\ new.status # "NONE"
             /\ Leads(Registry!Submission, old.status, new.status)
             /\ new.version = old.version + 1
  <2>1. PICK m \in ReviewMoves :
           /\ CanMove(submission[y], m[1])
           /\ submission' = [submission EXCEPT ![y] = Moved(@, m[2])]
    BY <1>4 DEF Review
  <2>2. old.status = m[1] /\ old.version < MaxVersion /\ new = Moved(old, m[2])
    BY <1>1, <1>4, <2>1 DEF CanMove
  <2>3. m[1] # "NONE" /\ m[2] \in {"SUBMITTED", "UNDER_REVIEW", "REVISION_REQUIRED", "APPROVED"}
    BY DEF ReviewMoves
  <2>4. new.status = m[2] /\ new.version = old.version + 1
    BY <1>1, <2>2, <2>3, MovedSubmission
  <2> QED
    BY <2>2, <2>3, <2>4, SubmissionTransitions
<1>5. \/ \E r \in Requests : Submit(r) \/ Resubmit(r)
      \/ \E y \in Assignments : Review(y)
      \/ UNCHANGED submission
  BY DEF Next, vars, tables, Administrate, ProgrammeCommand, Decide, AssignTasks, Revoke,
         BeginReturnToDraft, ReturnToDraft, BeginApply, Apply, BeginSubmit, BeginResubmit, Record,
         BeginEvaluate, CheckSubmission, WriteEligible, FindUnapproved, WriteNotEligible,
         BeginIssue, LookForCertificate, InsertCertificate, Leave, Begin
<1> QED
  BY <1>2, <1>3, <1>4, <1>5, SubmissionTransitions

\* A certificate is issued where there is none, and revoked.
LEMMA CertificateMoves ==
    ASSUME ShapeInv, [Next]_vars, NEW a \in Applications
    PROVE  \/ certificate'[a] = certificate[a]
           \/ certificate[a] = "NONE" /\ certificate'[a] = "ISSUED"
           \/ certificate[a] = "ISSUED" /\ certificate'[a] = "REVOKED"
<1> USE DEF ShapeInv
<1>1. CASE \E b \in Applications : Revoke(b)
  BY <1>1 DEF Revoke, TypeOK
<1>2. CASE \E r \in Requests : InsertCertificate(r)
  BY <1>2 DEF InsertCertificate, Free, TypeOK
<1>3. \/ \E b \in Applications : Revoke(b)
      \/ \E r \in Requests : InsertCertificate(r)
      \/ UNCHANGED certificate
  BY DEF Next, vars, tables, Administrate, ProgrammeCommand, Decide, AssignTasks, Review,
         BeginReturnToDraft, ReturnToDraft, BeginApply, Apply, BeginSubmit, Submit,
         BeginResubmit, Resubmit, Record, BeginEvaluate, CheckSubmission, WriteEligible,
         FindUnapproved, WriteNotEligible, BeginIssue, LookForCertificate, Leave, Begin
<1> QED
  BY <1>1, <1>2, <1>3

\* A row that is not there has not been written.
NothingWrittenYet ==
    /\ \A a \in Applications : application[a].status = "NONE" => application[a].version = 1
    /\ \A x \in Assignments : submission[x].status = "NONE" => submission[x].version = 1

LEMMA WrittenOnceThere == Spec => []NothingWrittenYet
<1>1. Init => NothingWrittenYet
  BY DEF Init, NothingWrittenYet
<1>2. ShapeInv /\ NothingWrittenYet /\ [Next]_vars => NothingWrittenYet'
  BY ApplicationMoves, SubmissionMoves DEF NothingWrittenYet
<1> QED
  BY <1>1, <1>2, ShapeHolds, PTL DEF Spec

LEMMA ApplicationFollows ==
    ASSUME ShapeInv, NothingWrittenYet, [Next]_vars, NEW a \in Applications
    PROVE  ApplicationRow(a)!RowNext \/ UNCHANGED ApplicationRow(a)!row
<1>1. application[a].status = "NONE" => application[a].version = 1
  BY DEF NothingWrittenYet
<1>2. CASE application'[a] = application[a]
  BY <1>2 DEF ApplicationRow!row, VersionOf
<1>3. CASE /\ application[a].status = "NONE" /\ application'[a].status = "SUBMITTED"
           /\ application'[a].version = application[a].version
  BY <1>1, <1>3, ApplicationTransitions
  DEF Makes, VersionOf, ApplicationRow!RowNext, ApplicationRow!Create
<1>4. CASE /\ application[a].status # "NONE" /\ application'[a].status # "NONE"
           /\ Leads(Registry!InternshipApplication, application[a].status, application'[a].status)
           /\ application'[a].version = application[a].version + 1
  BY <1>4 DEF Leads, VersionOf, ApplicationRow!RowNext, ApplicationRow!Move
<1> QED
  BY <1>2, <1>3, <1>4, ApplicationMoves

LEMMA SubmissionFollows ==
    ASSUME ShapeInv, NothingWrittenYet, [Next]_vars, NEW x \in Assignments
    PROVE  SubmissionRow(x)!RowNext \/ UNCHANGED SubmissionRow(x)!row
<1>1. submission[x].status = "NONE" => submission[x].version = 1
  BY DEF NothingWrittenYet
<1>2. CASE submission'[x] = submission[x]
  BY <1>2 DEF SubmissionRow!row, VersionOf
<1>3. CASE /\ submission[x].status = "NONE" /\ submission'[x].status = "SUBMITTED"
           /\ submission'[x].version = submission[x].version
  BY <1>1, <1>3, SubmissionTransitions
  DEF Makes, VersionOf, SubmissionRow!RowNext, SubmissionRow!Create
<1>4. CASE /\ submission[x].status # "NONE" /\ submission'[x].status # "NONE"
           /\ Leads(Registry!Submission, submission[x].status, submission'[x].status)
           /\ submission'[x].version = submission[x].version + 1
  BY <1>4 DEF Leads, VersionOf, SubmissionRow!RowNext, SubmissionRow!Move
<1> QED
  BY <1>2, <1>3, <1>4, SubmissionMoves

LEMMA CertificateFollows ==
    ASSUME ShapeInv, [Next]_vars, NEW a \in Applications
    PROVE  CertificateRow(a)!RowNext \/ UNCHANGED CertificateRow(a)!row
<1>1. CASE certificate'[a] = certificate[a]
  BY <1>1 DEF CertificateRow!row, Writes
<1>2. CASE certificate[a] = "NONE" /\ certificate'[a] = "ISSUED"
  BY <1>2, CertificateTransitions
  DEF Makes, Writes, CertificateRow!RowNext, CertificateRow!Create
<1>3. CASE certificate[a] = "ISSUED" /\ certificate'[a] = "REVOKED"
  BY <1>3, CertificateTransitions
  DEF Leads, Writes, CertificateRow!RowNext, CertificateRow!Move
<1> QED
  BY <1>1, <1>2, <1>3, CertificateMoves

\* However requests interleave or are cut off, the programme, each application, each
\* submission and each certificate is a row that follows the registry: it moves along
\* registered transitions only, each under a version of its own.
THEOREM RowsFollowTheRegistry ==
    Spec => /\ ProgrammeRow!RowSpec
            /\ \A a \in Applications : ApplicationRow(a)!RowSpec /\ CertificateRow(a)!RowSpec
            /\ \A x \in Assignments : SubmissionRow(x)!RowSpec
<1>1. Spec => ProgrammeRow!RowSpec
  <2>1. Init => ProgrammeRow!RowInit
    BY DEF Init, ProgrammeRow!RowInit
  <2>2. ShapeInv /\ [Next]_vars => [ProgrammeRow!RowNext]_(ProgrammeRow!row)
    BY ProgrammeFollows
  <2> QED
    BY <2>1, <2>2, ShapeHolds, PTL DEF Spec, ProgrammeRow!RowSpec
<1>2. ASSUME NEW a \in Applications
      PROVE  Spec => ApplicationRow(a)!RowSpec
  <2>1. Init => ApplicationRow(a)!RowInit
    BY DEF Init, VersionOf, ApplicationRow!RowInit
  <2>2. ShapeInv /\ NothingWrittenYet /\ [Next]_vars
           => [ApplicationRow(a)!RowNext]_(ApplicationRow(a)!row)
    BY ApplicationFollows
  <2> QED
    BY <2>1, <2>2, ShapeHolds, WrittenOnceThere, PTL DEF Spec, ApplicationRow!RowSpec
<1>3. ASSUME NEW a \in Applications
      PROVE  Spec => CertificateRow(a)!RowSpec
  <2>1. Init => CertificateRow(a)!RowInit
    BY DEF Init, Writes, CertificateRow!RowInit
  <2>2. ShapeInv /\ [Next]_vars => [CertificateRow(a)!RowNext]_(CertificateRow(a)!row)
    BY CertificateFollows
  <2> QED
    BY <2>1, <2>2, ShapeHolds, PTL DEF Spec, CertificateRow!RowSpec
<1>4. ASSUME NEW x \in Assignments
      PROVE  Spec => SubmissionRow(x)!RowSpec
  <2>1. Init => SubmissionRow(x)!RowInit
    BY DEF Init, VersionOf, SubmissionRow!RowInit
  <2>2. ShapeInv /\ NothingWrittenYet /\ [Next]_vars
           => [SubmissionRow(x)!RowNext]_(SubmissionRow(x)!row)
    BY SubmissionFollows
  <2> QED
    BY <2>1, <2>2, ShapeHolds, WrittenOnceThere, PTL DEF Spec, SubmissionRow!RowSpec
<1> QED
  BY <1>1, <1>2, <1>3, <1>4

=============================================================================
