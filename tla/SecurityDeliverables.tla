------------------------ MODULE SecurityDeliverables ------------------------
(***************************************************************************)
(* What a security assessment hands over: the findings recorded on it and  *)
(* the reports that cite them, worked on by any number of concurrent HTTP  *)
(* requests, the sessions (security-work.service.ts,                       *)
(* security-report.service.ts, security-score.service.ts and their         *)
(* repositories).                                                          *)
(*                                                                         *)
(* Every command here is one transaction that locks the consulting request *)
(* first and the rows it writes after it:                                  *)
(*   Send       the client has read the record and names its version; the  *)
(*              permission guard reads the assignment, without a lock;     *)
(*   Enter      SELECT .. FOR UPDATE of the request, then of the rows, and *)
(*              the handler's own guards on the rows as they are then;     *)
(*   a commit   every write at once; or a rollback.                        *)
(* What is asked for is chosen at Enter: nothing depends on it before.     *)
(* ConsultingEngagement has the commands that move the request and the     *)
(* assessment; here each of them is one step, taken while no session holds *)
(* the request's row.  A command that finds another employer's row is      *)
(* refused as if the row were absent; employers are left out.              *)
(***************************************************************************)
EXTENDS WorkflowRegistry, FiniteSets

CONSTANTS
    Sessions,       \* concurrent HTTP requests
    Consultants,    \* users with ROLE_CONSULTANT
    Findings,       \* ids of findings (bounds how many are created)
    Reports,        \* ids of reports (bounds how many are created)
    Texts,          \* what a finding may say
    Contents,       \* what a report may say
    Blank,          \* the content of a report nobody has written yet
    MaxWrites,      \* bound on the writes to findings and reports, all together
    None            \* no user, no session, no target

Admin == "ROLE_ADMIN"

ASSUME DeliverablesAssumption ==
    /\ MaxWrites \in Nat
    /\ Blank \in Contents \ Texts
    /\ None \notin Sessions \cup Consultants \cup Findings \cup Reports
    /\ Admin \notin Consultants
    /\ Findings \cap Reports = {}

VARIABLES
    assigned,   \* the consultant of the request
    assessment, \* [status, consultant, covered]: covered while its authorisation is
    findings,   \* Findings -> [status, ver, text]
    reports,    \* Reports -> [status, ver, number, content, members]
    holder,     \* the session holding the row lock of the request, or None
    pc,         \* Sessions -> where its command is
    cmd         \* Sessions -> the command: who, what, and what it has read

rows == <<assigned, assessment, findings, reports>>
vars == <<assigned, assessment, findings, reports, holder, pc, cmd>>

NoText    == [status |-> New, ver |-> 0, text |-> Blank]
NoReport  == [status |-> New, ver |-> 0, number |-> 0, content |-> Blank, members |-> {}]

FindingMoves == {"startRemediation", "resolve", "reopen"}
FindingOps   == {"editFinding"} \cup FindingMoves
ReportEdits  == {"updateReport", "replaceFindings"}
ReportMoves  == {"submitReview", "returnToDraft", "markReady"}
ReportOps    == ReportEdits \cup ReportMoves \cup {"release", "supersede"}
AssessmentOps == {"createFinding", "createReport", "calculateScore"}
Ops          == FindingOps \cup ReportOps \cup AssessmentOps

\* The operations that need the recorded authorisation.
Technical == {"createFinding", "editFinding", "resolve", "reopen", "calculateScore"}

Recorded == {f \in Findings : findings[f].status # New}
Begun    == {r \in Reports : reports[r].status # New}

\* The operations on a record, or on the assessment itself.
OpsOn(on) ==
    IF on \in Findings THEN FindingOps ELSE IF on \in Reports THEN ReportOps ELSE AssessmentOps

\* The roles an operation is open to.
Actors(op) ==
    IF op \in {"release", "supersede"} THEN {Admin}
    ELSE IF op \in {"submitReview", "markReady"} THEN Consultants
    ELSE Consultants \cup {Admin}

\* expectedStateVersion, as the client last read it.
VersionOf(on) ==
    IF on \in Findings THEN findings[on].ver
    ELSE IF on \in Reports THEN reports[on].ver ELSE 0

\* What the author of a report decides.
Own(r) == [content |-> reports[r].content, members |-> reports[r].members]

-----------------------------------------------------------------------------
(* The conditions the guards and the handlers test.                        *)

\* Consultants act on their own request and their own assessment; Admin is never
\* checked for assignment.
Access(c) ==
    c.by \in Consultants => assigned = c.by /\ assessment.consultant = c.by

\* A slip: findings may still be edited on a completed assessment.
FindingsOpenWhileCompleted(op) == assessment.status \in {"IN_PROGRESS", "COMPLETED"}

\* A finding is recorded and edited while the assessment runs; its remediation may
\* be followed up afterwards.
FindingsOpen(op) ==
    \/ assessment.status = "IN_PROGRESS"
    \/ assessment.status = "COMPLETED" /\ op \in FindingMoves

ReportsOpen == assessment.status \in {"IN_PROGRESS", "COMPLETED"}

\* A report can be judged once it says something and cites a finding.
Reviewable(r) == reports[r].content # Blank /\ reports[r].members # {}

\* The transition a command on a finding or a report asks for, given the state
\* the handler read.
FindingMove(c) ==
    RequireTransition("Finding",
        IF c.op = "startRemediation" THEN "WF-FND-02"
        ELSE IF c.op = "reopen" THEN "WF-FND-05"
        ELSE IF c.read.status = "OPEN" THEN "WF-FND-03" ELSE "WF-FND-04")

ReportMove(c) ==
    RequireTransition("Report",
        IF c.op = "submitReview" THEN "WF-RPT-02"
        ELSE IF c.op = "markReady" THEN "WF-RPT-04"
        ELSE IF c.read.status = "IN_REVIEW" THEN "WF-RPT-03" ELSE "WF-RPT-05")

\* The states an edit is allowed in.
EditStates(op) ==
    IF op = "editFinding" THEN {"OPEN", "REMEDIATION_IN_PROGRESS"} ELSE {"DRAFT"}

\* The artifact gate of a release: no file policy exists, so it always refuses.
FilePolicyConfigured == FALSE

\* The report a supersession puts in the place of r.
Replaces(q, r) ==
    /\ q # r
    /\ reports[q].status = "RELEASED"
    /\ reports[q].number > reports[r].number

AdmitsFinding(c) ==
    /\ findings[c.on].ver = c.version
    /\ FindingsOpen(c.op)

AdmitsReport(c) ==
    /\ reports[c.on].ver = c.version
    /\ c.op \in ReportEdits => reports[c.on].status \in EditStates(c.op)
    /\ c.op = "submitReview" => ReportsOpen /\ Reviewable(c.on)
    /\ c.op = "markReady" => assessment.status = "COMPLETED" /\ Reviewable(c.on)
    /\ c.op = "returnToDraft" =>
          /\ reports[c.on].status \in {"IN_REVIEW", "READY_FOR_RELEASE"}
          /\ reports[c.on].status = "READY_FOR_RELEASE" => c.by = Admin
    /\ c.op = "release" =>
          /\ reports[c.on].status = "READY_FOR_RELEASE"
          /\ assessment.status = "COMPLETED"
          /\ FilePolicyConfigured
    /\ c.op = "supersede" =>
          /\ reports[c.on].status = "RELEASED"
          /\ \E q \in Reports : Replaces(q, c.on)

\* What a handler tests once it holds the locks.  A score is never calculated: the
\* attempt is recorded and refused, there is no methodology.
Admits(c) ==
    /\ Access(c)
    /\ c.op \in Technical => assessment.covered
    /\ c.op = "createFinding" => FindingsOpen(c.op)
    /\ c.op = "createReport" => ReportsOpen
    /\ c.op # "calculateScore"
    /\ c.op \in FindingOps => AdmitsFinding(c)
    /\ c.op \in ReportOps => AdmitsReport(c)

-----------------------------------------------------------------------------
(* The state.                                                              *)

\* `shown` is what the caller was shown of a report with the version it names,
\* `status` and `latest` are what the handler read under the lock.
NothingRead == [status |-> New, latest |-> 0]
NothingShown == [content |-> Blank, members |-> {}]

NoCommand == [op |-> "none", by |-> None, on |-> None, version |-> 0,
              shown |-> NothingShown, read |-> NothingRead]

FindingStates == {"OPEN", "REMEDIATION_IN_PROGRESS", "RESOLVED"}
ReportStates  == {"DRAFT", "IN_REVIEW", "READY_FOR_RELEASE"}

FindingRow == [status : FindingStates, ver : Nat \ {0}, text : Texts]
ReportRow  == [status : ReportStates, ver : Nat \ {0}, number : Nat \ {0},
               content : Contents, members : SUBSET Findings]
ReportWords == [content : Contents, members : SUBSET Findings]

Command ==
    [op : Ops \cup {"none"}, by : Consultants \cup {Admin, None},
     on : Findings \cup Reports \cup {None}, version : Nat, shown : ReportWords,
     read : [status : FindingStates \cup ReportStates \cup {New}, latest : Nat]]

\* The shape of the state: a report cites findings that exist, no report is ever
\* RELEASED, and a session holds the lock exactly inside the section that needs it.
TypeOK ==
    /\ assigned \in Consultants
    /\ assessment \in [status : {"PLANNED", "IN_PROGRESS", "COMPLETED", "CANCELLED"},
                       consultant : Consultants, covered : BOOLEAN]
    /\ findings \in [Findings -> {NoText} \cup FindingRow]
    /\ reports \in [Reports -> {NoReport} \cup ReportRow]
    /\ \A r \in Reports : reports[r].members \subseteq Recorded
    /\ pc \in [Sessions -> {"idle", "sent", "commit"}]
    /\ cmd \in [Sessions -> Command]
    /\ holder \in Sessions \cup {None}
    /\ \A s \in Sessions : pc[s] = "commit" <=> holder = s

\* The assessment has just been planned, under an authorisation that covers it.
Init ==
    /\ assigned \in Consultants
    /\ assessment = [status |-> "PLANNED", consultant |-> assigned, covered |-> TRUE]
    /\ findings = [f \in Findings |-> NoText]
    /\ reports = [r \in Reports |-> NoReport]
    /\ holder = None
    /\ pc = [s \in Sessions |-> "idle"]
    /\ cmd = [s \in Sessions |-> NoCommand]

-----------------------------------------------------------------------------
(* The steps of a session.                                                 *)

\* The bound: each version of a record is a write.
Written == {w \in (Findings \cup Reports) \X (1..MaxWrites) : w[2] <= VersionOf(w[1])}
Room    == Cardinality(Written) < MaxWrites

\* The guard of every operation tests the assignment; it tests the authorisation
\* too where the operation needs it, but that can only lapse before Enter tests it
\* again.
Send(s) ==
    /\ pc[s] = "idle"
    /\ Room
    /\ \E by \in Consultants \cup {Admin}, on \in {None} \cup Recorded \cup Begun :
          LET c == [op |-> "none", by |-> by, on |-> on, version |-> VersionOf(on),
                    shown |-> IF on \in Reports THEN Own(on) ELSE NothingShown,
                    read |-> NothingRead]
          IN  /\ Access(c)
              /\ cmd' = [cmd EXCEPT ![s] = c]
    /\ pc' = [pc EXCEPT ![s] = "sent"]
    /\ UNCHANGED <<rows, holder>>

\* A slip: a transaction that ends keeps its connection, and the row locks.
EndHoldingTheLock(s) ==
    /\ pc' = [pc EXCEPT ![s] = "idle"]
    /\ cmd' = [cmd EXCEPT ![s] = NoCommand]
    /\ UNCHANGED holder

\* The transaction ends, and with it the row locks.
End(s) ==
    /\ pc' = [pc EXCEPT ![s] = "idle"]
    /\ cmd' = [cmd EXCEPT ![s] = NoCommand]
    /\ holder' = IF holder = s THEN None ELSE holder

RollBack(s) == End(s) /\ UNCHANGED rows

StatusOf(on) ==
    IF on \in Findings THEN findings[on].status
    ELSE IF on \in Reports THEN reports[on].status ELSE New

\* nextVersionNo reads the highest number there is.
Enter(s) ==
    /\ pc[s] = "sent"
    /\ holder = None
    /\ \E op \in OpsOn(cmd[s].on) :
          LET c == [cmd[s] EXCEPT !.op = op]
          IN  /\ c.by \in Actors(op)
              /\ \/ /\ Admits(c)
                    /\ \E n \in {0} \cup {reports[r].number : r \in Reports} :
                          /\ \A r \in Reports : reports[r].number <= n
                          /\ cmd' = [cmd EXCEPT ![s] =
                                [c EXCEPT !.read = [status |-> StatusOf(c.on), latest |-> n]]]
                    /\ pc' = [pc EXCEPT ![s] = "commit"]
                    /\ holder' = s
                    /\ UNCHANGED rows
                 \/ ~Admits(c) /\ RollBack(s)

CommitNewFinding(s) ==
    /\ pc[s] = "commit" /\ cmd[s].op = "createFinding"
    /\ \E f \in Findings \ Recorded, t \in Texts :
          findings' = [findings EXCEPT ![f] = [status |-> "OPEN", ver |-> 1, text |-> t]]
    /\ End(s)
    /\ UNCHANGED <<assigned, assessment, reports>>

\* The WHERE clause of every UPDATE: the version and the state it was read in.
Matches(record, c, from) == record.ver = c.version /\ record.status \in from

Moved(record, to)     == [record EXCEPT !.status = to, !.ver = @ + 1]
Edited(finding, text) == [finding EXCEPT !.text = text, !.ver = @ + 1]

CommitFindingEdit(s) ==
    LET c == cmd[s]
    IN  /\ pc[s] = "commit" /\ c.op = "editFinding"
        /\ IF Matches(findings[c.on], c, EditStates(c.op))
           THEN \E t \in Texts :
                   findings' = [findings EXCEPT ![c.on] = Edited(@, t)]
           ELSE UNCHANGED findings
        /\ End(s)
        /\ UNCHANGED <<assigned, assessment, reports>>

CommitFindingMove(s) ==
    LET c == cmd[s]
    IN  /\ pc[s] = "commit" /\ c.op \in FindingMoves
        /\ findings' = IF Matches(findings[c.on], c, FindingMove(c).from)
                       THEN [findings EXCEPT ![c.on] = Moved(@, FindingMove(c).to)]
                       ELSE findings
        /\ End(s)
        /\ UNCHANGED <<assigned, assessment, reports>>

\* A report, its finding membership and its number, which is unique.
CommitNewReport(s) ==
    LET n == cmd[s].read.latest + 1
    IN  /\ pc[s] = "commit" /\ cmd[s].op = "createReport"
        /\ IF \A r \in Reports : reports[r].number # n
           THEN \E r \in Reports \ Begun, text \in Contents, cited \in SUBSET Recorded :
                   reports' = [reports EXCEPT ![r] =
                                 [status |-> "DRAFT", ver |-> 1, number |-> n,
                                  content |-> text, members |-> cited]]
           ELSE UNCHANGED reports
        /\ End(s)
        /\ UNCHANGED <<assigned, assessment, findings>>

\* A slip: replacing the findings leaves the version of the report alone.
RewrittenInPlace(report, c, text, cited) ==
    IF c.op = "updateReport" THEN [report EXCEPT !.content = text, !.ver = @ + 1]
    ELSE [report EXCEPT !.members = cited]

\* update sets the content, or leaves it; replaceFindings sets the membership.
Rewritten(report, c, text, cited) ==
    IF c.op = "updateReport" THEN [report EXCEPT !.content = text, !.ver = @ + 1]
    ELSE [report EXCEPT !.members = cited, !.ver = @ + 1]

CommitReportEdit(s) ==
    LET c == cmd[s]
    IN  /\ pc[s] = "commit" /\ c.op \in ReportEdits
        /\ IF Matches(reports[c.on], c, EditStates(c.op))
           THEN \E text \in Contents, cited \in SUBSET Recorded :
                   reports' = [reports EXCEPT ![c.on] = Rewritten(@, c, text, cited)]
           ELSE UNCHANGED reports
        /\ End(s)
        /\ UNCHANGED <<assigned, assessment, findings>>

CommitReportMove(s) ==
    LET c == cmd[s]
    IN  /\ pc[s] = "commit" /\ c.op \in ReportMoves
        /\ reports' = IF Matches(reports[c.on], c, ReportMove(c).from)
                      THEN [reports EXCEPT ![c.on] = Moved(@, ReportMove(c).to)]
                      ELSE reports
        /\ End(s)
        /\ UNCHANGED <<assigned, assessment, findings>>

\* The process dies, the connection drops or a statement (the audit insert) fails:
\* the database rolls the transaction back.
Abort(s) == pc[s] # "idle" /\ RollBack(s)

Step(s) ==
    \/ Send(s) \/ Enter(s) \/ Abort(s)
    \/ CommitNewFinding(s) \/ CommitFindingEdit(s) \/ CommitFindingMove(s)
    \/ CommitNewReport(s) \/ CommitReportEdit(s) \/ CommitReportMove(s)

-----------------------------------------------------------------------------
(* What goes on around them.                                               *)

Unheld == holder = None /\ UNCHANGED <<findings, reports, holder, pc, cmd>>

\* The Admin assigns the request; an assessment under way follows.
Reassign ==
    /\ Unheld
    /\ \E k \in Consultants :
          /\ assigned' = k
          /\ assessment' = IF assessment.status \in {"PLANNED", "IN_PROGRESS"}
                           THEN [assessment EXCEPT !.consultant = k] ELSE assessment

AdvanceAssessment ==
    /\ Unheld
    /\ \E id \in {"WF-ASM-02", "WF-ASM-03", "WF-ASM-04", "WF-ASM-05"} :
          LET t == RequireTransition("SecurityAssessment", id)
          IN  /\ assessment.status \in t.from
              /\ id \in {"WF-ASM-02", "WF-ASM-03"} => assessment.covered
              /\ assessment' = [assessment EXCEPT !.status = t.to]
    /\ UNCHANGED assigned

\* The authorisation is superseded, or its window runs out: it never covers again.
Lapse ==
    /\ assessment' = [assessment EXCEPT !.covered = FALSE]
    /\ UNCHANGED <<assigned, findings, reports, holder, pc, cmd>>

Next == Reassign \/ AdvanceAssessment \/ Lapse \/ \E s \in Sessions : Step(s)

Spec == Init /\ [][Next]_vars

-----------------------------------------------------------------------------
(* Properties.                                                             *)

\* A consultant submits a report, or marks it ready, as it was shown to them with
\* the version they name, and while both the request and the assessment are theirs:
\* no edit of the content or of the cited findings slips in between, and no
\* reassignment that committed first goes unnoticed.
JudgedAsShown ==
    [][\A r \in Reports, s \in Sessions :
          /\ pc[s] = "commit" /\ cmd[s].on = r
          /\ reports'[r].status # reports[r].status
          /\ reports'[r].status \in {"IN_REVIEW", "READY_FOR_RELEASE"}
          => /\ cmd[s].shown = Own(r)
             /\ cmd[s].by = assigned /\ cmd[s].by = assessment.consultant]_vars

\* What the client will read: the report and the words of the findings it cites,
\* whose remediation goes on.
Shelved(r) ==
    [stage  |-> IF r \in Begun THEN reports[r].status ELSE "(none)",
     number |-> reports[r].number,
     own    |-> Own(r),
     cited  |-> [f \in reports[r].members |-> findings[f].text]]

Promise == INSTANCE ReviewedReports WITH shelf <- [r \in Reports |-> Shelved(r)]

\* The commands, their locks and their versions keep what the reports promise: they
\* are numbered in the order they were begun, submitted complete, and what was
\* approved stays as it was approved, down to the words of the findings it cites.
KeepsThePromise == Promise!ShelfSpec

=============================================================================
