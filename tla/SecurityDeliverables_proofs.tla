--------------------- MODULE SecurityDeliverables_proofs ---------------------
(***************************************************************************)
(* Proofs about SecurityDeliverables, for any sessions, consultants,       *)
(* findings, reports, texts and bound: its type correctness, that a report *)
(* is judged as it was shown, and that it implements ReviewedReports.      *)
(***************************************************************************)
EXTENDS SecurityDeliverables, TLAPS

-----------------------------------------------------------------------------
(* The transitions of the registry that the commands use.                  *)

LEMMA Required ==
    ASSUME NEW e, NEW id, TransitionsOf(e, id) # {}
    PROVE  RequireTransition(e, id) \in TransitionsOf(e, id)
  BY DEF RequireTransition

LEMMA FindingTransitions ==
    LET T(id) == RequireTransition("Finding", id)
    IN  /\ T("WF-FND-02") = Transition("WF-FND-02", {"OPEN"}, "REMEDIATION_IN_PROGRESS")
        /\ T("WF-FND-03") = Transition("WF-FND-03", {"OPEN"}, "RESOLVED")
        /\ T("WF-FND-04") = Transition("WF-FND-04", {"REMEDIATION_IN_PROGRESS"}, "RESOLVED")
        /\ T("WF-FND-05") = Transition("WF-FND-05", {"RESOLVED"}, "OPEN")
<1>1. Definition["Finding"] = Finding
  BY DEF Definition
<1>2. TransitionsOf("Finding", "WF-FND-02")
        = {Transition("WF-FND-02", {"OPEN"}, "REMEDIATION_IN_PROGRESS")}
  BY <1>1 DEF TransitionsOf, Finding, Lifecycle, Transition
<1>3. TransitionsOf("Finding", "WF-FND-03") = {Transition("WF-FND-03", {"OPEN"}, "RESOLVED")}
  BY <1>1 DEF TransitionsOf, Finding, Lifecycle, Transition
<1>4. TransitionsOf("Finding", "WF-FND-04")
        = {Transition("WF-FND-04", {"REMEDIATION_IN_PROGRESS"}, "RESOLVED")}
  BY <1>1 DEF TransitionsOf, Finding, Lifecycle, Transition
<1>5. TransitionsOf("Finding", "WF-FND-05") = {Transition("WF-FND-05", {"RESOLVED"}, "OPEN")}
  BY <1>1 DEF TransitionsOf, Finding, Lifecycle, Transition
<1> QED
  BY <1>2, <1>3, <1>4, <1>5, Required

LEMMA ReportTransitions ==
    LET T(id) == RequireTransition("Report", id)
    IN  /\ T("WF-RPT-02") = Transition("WF-RPT-02", {"DRAFT"}, "IN_REVIEW")
        /\ T("WF-RPT-03") = Transition("WF-RPT-03", {"IN_REVIEW"}, "DRAFT")
        /\ T("WF-RPT-04") = Transition("WF-RPT-04", {"IN_REVIEW"}, "READY_FOR_RELEASE")
        /\ T("WF-RPT-05") = Transition("WF-RPT-05", {"READY_FOR_RELEASE"}, "DRAFT")
<1>1. Definition["Report"] = Report
  BY DEF Definition
<1>2. TransitionsOf("Report", "WF-RPT-02") = {Transition("WF-RPT-02", {"DRAFT"}, "IN_REVIEW")}
  BY <1>1 DEF TransitionsOf, Report, Lifecycle, Transition
<1>3. TransitionsOf("Report", "WF-RPT-03") = {Transition("WF-RPT-03", {"IN_REVIEW"}, "DRAFT")}
  BY <1>1 DEF TransitionsOf, Report, Lifecycle, Transition
<1>4. TransitionsOf("Report", "WF-RPT-04")
        = {Transition("WF-RPT-04", {"IN_REVIEW"}, "READY_FOR_RELEASE")}
  BY <1>1 DEF TransitionsOf, Report, Lifecycle, Transition
<1>5. TransitionsOf("Report", "WF-RPT-05")
        = {Transition("WF-RPT-05", {"READY_FOR_RELEASE"}, "DRAFT")}
  BY <1>1 DEF TransitionsOf, Report, Lifecycle, Transition
<1> QED
  BY <1>2, <1>3, <1>4, <1>5, Required

LEMMA AssessmentTransitions ==
    LET T(id) == RequireTransition("SecurityAssessment", id)
    IN  /\ T("WF-ASM-02") = Transition("WF-ASM-02", {"PLANNED"}, "IN_PROGRESS")
        /\ T("WF-ASM-03") = Transition("WF-ASM-03", {"IN_PROGRESS"}, "COMPLETED")
        /\ T("WF-ASM-04") = Transition("WF-ASM-04", {"PLANNED"}, "CANCELLED")
        /\ T("WF-ASM-05") = Transition("WF-ASM-05", {"IN_PROGRESS"}, "CANCELLED")
<1>1. Definition["SecurityAssessment"] = SecurityAssessment
  BY DEF Definition
<1>2. TransitionsOf("SecurityAssessment", "WF-ASM-02")
        = {Transition("WF-ASM-02", {"PLANNED"}, "IN_PROGRESS")}
  BY <1>1 DEF TransitionsOf, SecurityAssessment, Lifecycle, Transition
<1>3. TransitionsOf("SecurityAssessment", "WF-ASM-03")
        = {Transition("WF-ASM-03", {"IN_PROGRESS"}, "COMPLETED")}
  BY <1>1 DEF TransitionsOf, SecurityAssessment, Lifecycle, Transition
<1>4. TransitionsOf("SecurityAssessment", "WF-ASM-04")
        = {Transition("WF-ASM-04", {"PLANNED"}, "CANCELLED")}
  BY <1>1 DEF TransitionsOf, SecurityAssessment, Lifecycle, Transition
<1>5. TransitionsOf("SecurityAssessment", "WF-ASM-05")
        = {Transition("WF-ASM-05", {"IN_PROGRESS"}, "CANCELLED")}
  BY <1>1 DEF TransitionsOf, SecurityAssessment, Lifecycle, Transition
<1> QED
  BY <1>2, <1>3, <1>4, <1>5, Required

-----------------------------------------------------------------------------
(* What the helpers do to a row.                                           *)

LEMMA MovedFinding ==
    ASSUME NEW x \in FindingRow, NEW to \in FindingStates
    PROVE  /\ Moved(x, to) \in FindingRow
           /\ Moved(x, to).text = x.text
<1> DEFINE y == [x EXCEPT !.status = to]
           z == [y EXCEPT !.ver = x.ver + 1]
<1>1. y \in FindingRow /\ y.ver = x.ver /\ y.text = x.text
  BY DEF FindingRow
<1> HIDE DEF y
<1>2. z \in FindingRow /\ z.text = x.text
  BY <1>1 DEF FindingRow
<1>3. Moved(x, to) = z
  BY <1>1 DEF Moved, y, FindingRow
<1> QED
  BY <1>2, <1>3

LEMMA EditedFinding ==
    ASSUME NEW x \in FindingRow, NEW t \in Texts
    PROVE  Edited(x, t) \in FindingRow
<1> DEFINE y == [x EXCEPT !.text = t]
           z == [y EXCEPT !.ver = x.ver + 1]
<1>1. y \in FindingRow /\ y.ver = x.ver
  BY DEF FindingRow
<1> HIDE DEF y
<1>2. z \in FindingRow
  BY <1>1 DEF FindingRow
<1>3. Edited(x, t) = z
  BY <1>1 DEF Edited, y, FindingRow
<1> QED
  BY <1>2, <1>3

LEMMA MovedReport ==
    ASSUME NEW x \in ReportRow, NEW to \in ReportStates
    PROVE  /\ Moved(x, to) \in ReportRow
           /\ Moved(x, to).status = to
           /\ Moved(x, to).ver = x.ver + 1
           /\ Moved(x, to).number = x.number
           /\ Moved(x, to).content = x.content
           /\ Moved(x, to).members = x.members
<1> DEFINE y == [x EXCEPT !.status = to]
           z == [y EXCEPT !.ver = x.ver + 1]
<1>1. /\ y \in ReportRow /\ y.status = to /\ y.ver = x.ver
      /\ y.number = x.number /\ y.content = x.content /\ y.members = x.members
  BY DEF ReportRow
<1> HIDE DEF y
<1>2. /\ z \in ReportRow /\ z.status = to /\ z.ver = x.ver + 1
      /\ z.number = x.number /\ z.content = x.content /\ z.members = x.members
  BY <1>1 DEF ReportRow
<1>3. Moved(x, to) = z
  BY <1>1 DEF Moved, y, ReportRow
<1> QED
  BY <1>2, <1>3

LEMMA RewrittenReport ==
    ASSUME NEW x \in ReportRow, NEW c, NEW text \in Contents, NEW cited \in SUBSET Findings
    PROVE  LET z == Rewritten(x, c, text, cited)
           IN  /\ z \in ReportRow
               /\ z.status = x.status /\ z.number = x.number /\ z.ver = x.ver + 1
               /\ z.members \in {x.members, cited}
<1>1. CASE c.op = "updateReport"
  <2> DEFINE y == [x EXCEPT !.content = text]
             z == [y EXCEPT !.ver = x.ver + 1]
  <2>1. /\ y \in ReportRow /\ y.status = x.status /\ y.ver = x.ver
        /\ y.number = x.number /\ y.members = x.members
    BY DEF ReportRow
  <2> HIDE DEF y
  <2>2. /\ z \in ReportRow /\ z.status = x.status /\ z.ver = x.ver + 1
        /\ z.number = x.number /\ z.members = x.members
    BY <2>1 DEF ReportRow
  <2>3. Rewritten(x, c, text, cited) = z
    BY <1>1, <2>1 DEF Rewritten, y, ReportRow
  <2> QED
    BY <2>2, <2>3
<1>2. CASE c.op # "updateReport"
  <2> DEFINE y == [x EXCEPT !.members = cited]
             z == [y EXCEPT !.ver = x.ver + 1]
  <2>1. /\ y \in ReportRow /\ y.status = x.status /\ y.ver = x.ver
        /\ y.number = x.number /\ y.members = cited
    BY DEF ReportRow
  <2> HIDE DEF y
  <2>2. /\ z \in ReportRow /\ z.status = x.status /\ z.ver = x.ver + 1
        /\ z.number = x.number /\ z.members = cited
    BY <2>1 DEF ReportRow
  <2>3. Rewritten(x, c, text, cited) = z
    BY <1>2, <2>1 DEF Rewritten, y, ReportRow
  <2> QED
    BY <2>2, <2>3
<1> QED
  BY <1>1, <1>2


-----------------------------------------------------------------------------
(* The inductive invariant.                                                *)

\* What a session that holds the lock has established, and nobody can undo.
Admitted(c) ==
    /\ c.op \in OpsOn(c.on) /\ c.by \in Actors(c.op)
    /\ Access(c)
    /\ c.op = "createFinding" => FindingsOpen(c.op)
    /\ c.op \in FindingOps => c.on \in Recorded /\ AdmitsFinding(c)
    /\ c.op \in ReportOps => c.on \in Begun /\ AdmitsReport(c)
    /\ c.read.status = StatusOf(c.on)
    /\ c.read.latest \in {0} \cup {reports[r].number : r \in Reports}
    /\ \A r \in Reports : reports[r].number <= c.read.latest

HeldInv == \A s \in Sessions : pc[s] = "commit" => Admitted(cmd[s])

\* A version names one state of a report for good: who names the current one was
\* shown what the report says.
NamedAsShown(c) ==
    /\ c.on \in {None} \cup Recorded \cup Begun
    /\ c.on \in Begun =>
          /\ c.version <= reports[c.on].ver
          /\ c.version = reports[c.on].ver => c.shown = Own(c.on)

SentInv == \A s \in Sessions : pc[s] # "idle" => NamedAsShown(cmd[s])

\* A report is judged complete, and approved over a finished assessment.
JudgedInv ==
    \A r \in Begun :
        /\ reports[r].status # "DRAFT" => Reviewable(r)
        /\ reports[r].status = "READY_FOR_RELEASE" => assessment.status = "COMPLETED"

IInv == TypeOK /\ HeldInv /\ SentInv /\ JudgedInv

\* A row is a finding, or a report, as soon as it exists.
LEMMA Rows ==
    ASSUME TypeOK
    PROVE  /\ \A f \in Findings : findings[f] \in FindingRow \/ findings[f] = NoText
           /\ \A f \in Recorded : f \in Findings /\ findings[f] \in FindingRow
           /\ \A f \in Findings \ Recorded : findings[f] = NoText
           /\ \A r \in Begun : r \in Reports /\ reports[r] \in ReportRow
           /\ \A r \in Reports \ Begun : reports[r] = NoReport
           /\ \A r \in Reports : reports[r].members \subseteq Recorded
  BY DEF TypeOK, Recorded, Begun, FindingRow, ReportRow, NoText, NoReport, FindingStates,
         ReportStates, New

\* Only one session is in its commit, the holder.
LEMMA OneHolder ==
    ASSUME TypeOK, NEW s \in Sessions, pc[s] = "commit", NEW q \in Sessions, q # s
    PROVE  pc[q] # "commit"
  BY DEF TypeOK

\* What a session that ends leaves of the sessions.
LEMMA Ended ==
    ASSUME TypeOK, NEW s \in Sessions, End(s)
    PROVE  /\ pc' \in [Sessions -> {"idle", "sent", "commit"}]
           /\ cmd' \in [Sessions -> Command]
           /\ holder' \in Sessions \cup {None}
           /\ \A q \in Sessions : pc'[q] = "commit" <=> holder' = q
           /\ pc'[s] = "idle"
           /\ \A q \in Sessions \ {s} : pc'[q] = pc[q] /\ cmd'[q] = cmd[q]
<1>1. NothingShown \in ReportWords
  BY DeliverablesAssumption DEF NothingShown, ReportWords
<1>2. NothingRead \in [status : FindingStates \cup ReportStates \cup {New}, latest : Nat]
  BY DEF NothingRead
<1>3. NoCommand \in Command
  BY <1>1, <1>2 DEF NoCommand, Command
<1> QED
  BY <1>3, DeliverablesAssumption DEF TypeOK, End

\* What a session has established lasts while its rows do; only whether the
\* authorisation still covers the assessment is not part of it.
LEMMA AdmittedKept ==
    ASSUME NEW q \in Sessions, Admitted(cmd[q]), cmd'[q] = cmd[q],
           UNCHANGED <<assigned, findings, reports>>,
           assessment'.status = assessment.status,
           assessment'.consultant = assessment.consultant
    PROVE  Admitted(cmd[q])'
<1>1. Access(cmd[q])'
  BY DEF Admitted, Access
<1>2. cmd[q].op = "createFinding" => FindingsOpen(cmd[q].op)'
  BY DEF Admitted, FindingsOpen
<1>3. cmd[q].op \in FindingOps => (cmd[q].on \in Recorded /\ AdmitsFinding(cmd[q]))'
  BY DEF Admitted, FindingsOpen, AdmitsFinding, Recorded
<1>4. cmd[q].op \in ReportOps => (cmd[q].on \in Begun /\ AdmitsReport(cmd[q]))'
  BY DEF Admitted, AdmitsReport, ReportsOpen, Reviewable, Replaces, Begun
<1>5. StatusOf(cmd[q].on)' = StatusOf(cmd[q].on)
  BY DEF StatusOf
<1> QED
  BY <1>1, <1>2, <1>3, <1>4, <1>5 DEF Admitted

\* A version a session names keeps naming what the session was shown.
LEMMA NamedKept ==
    ASSUME TypeOK, NEW q \in Sessions, NamedAsShown(cmd[q]), cmd'[q] = cmd[q],
           Recorded \subseteq Recorded', Begun \subseteq Begun', Begun' \subseteq Reports,
           \A r \in Begun : reports'[r].ver \in Nat
                            /\ (reports'[r] = reports[r] \/ reports'[r].ver > reports[r].ver)
    PROVE  NamedAsShown(cmd[q])'
<1> DEFINE c == cmd[q]
<1>1. c.version \in Nat
  BY DEF TypeOK, Command
<1>2. (c.on \in Begun)' => c.on \in Begun
  BY DeliverablesAssumption DEF NamedAsShown, Recorded
<1>3. c.on \in Begun => c.on \in Reports /\ reports[c.on].ver \in Nat
  BY Rows DEF ReportRow
<1> QED
  BY <1>1, <1>2, <1>3 DEF NamedAsShown, Own

-----------------------------------------------------------------------------
(* The invariant is kept: by the end of a command that wrote nothing, that *)
(* wrote one report, that wrote one finding.                               *)

LEMMA NothingWritten ==
    ASSUME IInv, NEW s \in Sessions, RollBack(s)
    PROVE  IInv'
<1> USE DEF IInv
<1>1. End(s) /\ UNCHANGED rows
  BY DEF RollBack
<1>2. TypeOK'
  <2>1. UNCHANGED Recorded
    BY <1>1 DEF rows, Recorded
  <2> QED
    BY <1>1, <2>1, Ended DEF TypeOK, rows
<1>3. HeldInv'
  <2> SUFFICES ASSUME NEW q \in Sessions, pc'[q] = "commit"
               PROVE  Admitted(cmd[q])'
    BY DEF HeldInv
  <2>1. q # s /\ pc[q] = "commit" /\ cmd'[q] = cmd[q]
    BY <1>1, Ended
  <2> QED
    BY <1>1, <2>1, AdmittedKept DEF HeldInv, rows
<1>4. SentInv'
  <2> SUFFICES ASSUME NEW q \in Sessions, pc'[q] # "idle"
               PROVE  NamedAsShown(cmd[q])'
    BY DEF SentInv
  <2>1. q # s /\ pc[q] # "idle" /\ cmd'[q] = cmd[q]
    BY <1>1, Ended
  <2>2. UNCHANGED <<Recorded, Begun>>
    BY <1>1 DEF rows, Recorded, Begun
  <2>3. \A r \in Begun : reports'[r] = reports[r] /\ reports[r].ver \in Nat
    BY <1>1, Rows DEF rows, ReportRow
  <2> QED
    BY <2>1, <2>2, <2>3, Rows, NamedKept DEF SentInv
<1>5. JudgedInv'
  BY <1>1 DEF JudgedInv, rows, Begun, Reviewable
<1> QED
  BY <1>2, <1>3, <1>4, <1>5

LEMMA OneReportWritten ==
    ASSUME IInv, NEW s \in Sessions, pc[s] = "commit", End(s),
           UNCHANGED <<assigned, assessment, findings>>,
           NEW r \in Reports, NEW z \in ReportRow,
           reports' = [reports EXCEPT ![r] = z],
           z.members \subseteq Recorded,
           r \in Begun => z.ver > reports[r].ver,
           z.status # "DRAFT" => z.content # Blank /\ z.members # {},
           z.status = "READY_FOR_RELEASE" => assessment.status = "COMPLETED"
    PROVE  IInv'
<1> USE DEF IInv
<1>1. /\ reports'[r] = z
      /\ \A q \in Reports \ {r} : reports'[q] = reports[q]
  BY DEF TypeOK
<1>2. UNCHANGED Recorded /\ Begun' = Begun \cup {r}
  BY <1>1 DEF Recorded, Begun, ReportRow, ReportStates, New
<1>3. TypeOK'
  <2>1. reports' \in [Reports -> {NoReport} \cup ReportRow]
    BY DEF TypeOK
  <2>2. \A q \in Reports : reports'[q].members \subseteq Recorded
    BY <1>1 DEF TypeOK
  <2> QED
    BY <1>2, <2>1, <2>2, Ended DEF TypeOK
<1>4. HeldInv'
  BY DeliverablesAssumption DEF HeldInv, End, TypeOK
<1>5. SentInv'
  <2> SUFFICES ASSUME NEW q \in Sessions, pc'[q] # "idle"
               PROVE  NamedAsShown(cmd[q])'
    BY DEF SentInv
  <2>1. q # s /\ pc[q] # "idle" /\ cmd'[q] = cmd[q]
    BY Ended
  <2>2. \A x \in Begun : /\ reports'[x].ver \in Nat
                         /\ reports'[x] = reports[x] \/ reports'[x].ver > reports[x].ver
    BY <1>1, Rows DEF ReportRow
  <2>3. Begun' \subseteq Reports
    BY <1>2, Rows
  <2> QED
    BY <1>2, <2>1, <2>2, <2>3, NamedKept DEF SentInv
<1>6. JudgedInv'
  BY <1>1, <1>2, Rows DEF JudgedInv, Reviewable
<1> QED
  BY <1>3, <1>4, <1>5, <1>6

LEMMA OneFindingWritten ==
    ASSUME IInv, NEW s \in Sessions, pc[s] = "commit", End(s),
           UNCHANGED <<assigned, assessment, reports>>,
           NEW f \in Findings, NEW z \in FindingRow,
           findings' = [findings EXCEPT ![f] = z]
    PROVE  IInv'
<1> USE DEF IInv
<1>1. /\ findings'[f] = z
      /\ \A g \in Findings \ {f} : findings'[g] = findings[g]
  BY DEF TypeOK
<1>2. UNCHANGED Begun /\ Recorded' = Recorded \cup {f}
  BY <1>1 DEF Recorded, Begun, FindingRow, FindingStates, New
<1>3. TypeOK'
  <2>1. findings' \in [Findings -> {NoText} \cup FindingRow]
    BY DEF TypeOK
  <2>2. \A q \in Reports : reports'[q].members \subseteq Recorded'
    BY <1>2 DEF TypeOK
  <2> QED
    BY <2>1, <2>2, Ended DEF TypeOK
<1>4. HeldInv'
  BY DeliverablesAssumption DEF HeldInv, End, TypeOK
<1>5. SentInv'
  <2> SUFFICES ASSUME NEW q \in Sessions, pc'[q] # "idle"
               PROVE  NamedAsShown(cmd[q])'
    BY DEF SentInv
  <2>1. q # s /\ pc[q] # "idle" /\ cmd'[q] = cmd[q]
    BY Ended
  <2>2. \A x \in Begun : reports'[x] = reports[x] /\ reports[x].ver \in Nat
    BY Rows DEF ReportRow
  <2> QED
    BY <1>2, <2>1, <2>2, Rows, NamedKept DEF SentInv
<1>6. JudgedInv'
  BY <1>2 DEF JudgedInv, Reviewable
<1> QED
  BY <1>3, <1>4, <1>5, <1>6

-----------------------------------------------------------------------------
(* What each commit does to the rows.                                      *)

\* A new report bears the number after the highest.
LEMMA NewReportEffect ==
    ASSUME IInv, NEW s \in Sessions, CommitNewReport(s)
    PROVE  \/ UNCHANGED reports
           \/ \E r \in Reports \ Begun, z \in ReportRow :
                 /\ reports' = [reports EXCEPT ![r] = z]
                 /\ z.status = "DRAFT"
                 /\ z.number = cmd[s].read.latest + 1
                 /\ z.members \subseteq Recorded
<1> SUFFICES ASSUME ~ UNCHANGED reports
             PROVE  \E r \in Reports \ Begun, z \in ReportRow :
                       /\ reports' = [reports EXCEPT ![r] = z]
                       /\ z.status = "DRAFT"
                       /\ z.number = cmd[s].read.latest + 1
                       /\ z.members \subseteq Recorded
  OBVIOUS
<1> DEFINE n == cmd[s].read.latest + 1
<1>1. n \in Nat \ {0}
  BY DEF IInv, TypeOK, Command
<1>2. PICK r \in Reports \ Begun, text \in Contents, cited \in SUBSET Recorded :
         reports' = [reports EXCEPT ![r] = [status |-> "DRAFT", ver |-> 1, number |-> n,
                                            content |-> text, members |-> cited]]
  BY DEF CommitNewReport
<1> DEFINE z == [status |-> "DRAFT", ver |-> 1, number |-> n,
                 content |-> text, members |-> cited]
<1>3. z \in ReportRow
  BY <1>1 DEF ReportRow, ReportStates, Recorded
<1> QED
  BY <1>2, <1>3

\* An edit leaves a draft a draft, with its number, under a new version.
LEMMA ReportEditEffect ==
    ASSUME IInv, NEW s \in Sessions, CommitReportEdit(s)
    PROVE  \/ UNCHANGED reports
           \/ \E r \in Begun, z \in ReportRow :
                 /\ reports' = [reports EXCEPT ![r] = z]
                 /\ reports[r].status = "DRAFT" /\ z.status = "DRAFT"
                 /\ z.number = reports[r].number
                 /\ z.ver > reports[r].ver
                 /\ z.members \subseteq Recorded
<1> DEFINE c == cmd[s]
           x == reports[c.on]
<1> SUFFICES ASSUME ~ UNCHANGED reports
             PROVE  \E r \in Begun, z \in ReportRow :
                       /\ reports' = [reports EXCEPT ![r] = z]
                       /\ reports[r].status = "DRAFT" /\ z.status = "DRAFT"
                       /\ z.number = reports[r].number
                       /\ z.ver > reports[r].ver
                       /\ z.members \subseteq Recorded
  OBVIOUS
<1>1. c.op \in ReportEdits /\ Matches(x, c, EditStates(c.op))
  BY DEF CommitReportEdit
<1>2. c.on \in Begun
  BY <1>1 DEF CommitReportEdit, IInv, HeldInv, Admitted, ReportOps
<1>3. x \in ReportRow /\ x.ver \in Nat /\ x.members \subseteq Recorded
  BY <1>2, Rows DEF IInv, ReportRow
<1>4. x.status = "DRAFT"
  BY <1>1 DEF Matches, EditStates, ReportEdits
<1>5. PICK text \in Contents, cited \in SUBSET Recorded :
         reports' = [reports EXCEPT ![c.on] = Rewritten(x, c, text, cited)]
  BY <1>1 DEF CommitReportEdit
<1> DEFINE z == Rewritten(x, c, text, cited)
<1>6. cited \in SUBSET Findings
  BY DEF Recorded
<1>7. /\ z \in ReportRow /\ z.status = x.status /\ z.number = x.number
      /\ z.ver = x.ver + 1 /\ z.members \in {x.members, cited}
  BY <1>3, <1>6, RewrittenReport
<1>8. reports' = [reports EXCEPT ![c.on] = z]
  BY <1>5
<1>9. z.ver > x.ver /\ z.members \subseteq Recorded /\ z.status = "DRAFT"
  BY <1>3, <1>4, <1>7
<1> HIDE DEF z
<1> QED
  BY <1>2, <1>4, <1>7, <1>8, <1>9

\* A move takes a report along its lifecycle, whole.
LEMMA ReportMoveEffect ==
    ASSUME IInv, NEW s \in Sessions, CommitReportMove(s)
    PROVE  \/ UNCHANGED reports
           \/ LET r == cmd[s].on
              IN  \E to \in ReportStates :
                     /\ r \in Begun /\ cmd[s].version = reports[r].ver
                     /\ reports' = [reports EXCEPT ![r] = Moved(reports[r], to)]
                     /\ \/ reports[r].status = "DRAFT" /\ to = "IN_REVIEW"
                           /\ Reviewable(r) /\ cmd[s].op = "submitReview"
                        \/ reports[r].status = "IN_REVIEW" /\ to = "READY_FOR_RELEASE"
                           /\ Reviewable(r) /\ cmd[s].op = "markReady"
                           /\ assessment.status = "COMPLETED"
                        \/ reports[r].status \in {"IN_REVIEW", "READY_FOR_RELEASE"}
                           /\ to = "DRAFT"
<1> DEFINE c == cmd[s]
           r == c.on
           t == ReportMove(c)
<1> SUFFICES ASSUME ~ UNCHANGED reports
             PROVE  \E to \in ReportStates :
                     /\ r \in Begun /\ c.version = reports[r].ver
                     /\ reports' = [reports EXCEPT ![r] = Moved(reports[r], to)]
                     /\ \/ reports[r].status = "DRAFT" /\ to = "IN_REVIEW"
                           /\ Reviewable(r) /\ c.op = "submitReview"
                        \/ reports[r].status = "IN_REVIEW" /\ to = "READY_FOR_RELEASE"
                           /\ Reviewable(r) /\ c.op = "markReady"
                           /\ assessment.status = "COMPLETED"
                        \/ reports[r].status \in {"IN_REVIEW", "READY_FOR_RELEASE"}
                           /\ to = "DRAFT"
  OBVIOUS
<1>1. /\ c.op \in ReportMoves
      /\ reports[r].ver = c.version /\ reports[r].status \in t.from
      /\ reports' = [reports EXCEPT ![r] = Moved(reports[r], t.to)]
  BY DEF CommitReportMove, Matches
<1>2. /\ r \in Begun /\ AdmitsReport(c) /\ c.read.status = StatusOf(r)
      /\ r \in Reports /\ r \notin Findings
  BY <1>1, Rows, DeliverablesAssumption
     DEF CommitReportMove, IInv, HeldInv, Admitted, ReportOps
<1>3. c.read.status = reports[r].status
  BY <1>2 DEF StatusOf
<1>4. CASE c.op = "submitReview"
  <2>1. t.from = {"DRAFT"} /\ t.to = "IN_REVIEW"
    BY <1>4, ReportTransitions DEF ReportMove, Transition
  <2> QED
    BY <1>1, <1>2, <1>4, <2>1 DEF AdmitsReport, ReportStates
<1>5. CASE c.op = "markReady"
  <2>1. t.from = {"IN_REVIEW"} /\ t.to = "READY_FOR_RELEASE"
    BY <1>5, ReportTransitions DEF ReportMove, Transition
  <2> QED
    BY <1>1, <1>2, <1>5, <2>1 DEF AdmitsReport, ReportStates
<1>6. CASE c.op = "returnToDraft"
  <2>1. t.to = "DRAFT"
    BY <1>6, ReportTransitions DEF ReportMove, Transition
  <2>2. reports[r].status \in {"IN_REVIEW", "READY_FOR_RELEASE"}
    BY <1>2, <1>6 DEF AdmitsReport
  <2> QED
    BY <1>1, <1>2, <2>1, <2>2 DEF ReportStates
<1> QED
  BY <1>1, <1>4, <1>5, <1>6 DEF ReportMoves

\* A finding is rewritten while the assessment runs; its remediation leaves its
\* words alone.
LEMMA FindingEffect ==
    ASSUME IInv, NEW s \in Sessions,
           CommitNewFinding(s) \/ CommitFindingEdit(s) \/ CommitFindingMove(s)
    PROVE  \/ UNCHANGED findings
           \/ \E f \in Findings, z \in FindingRow :
                 /\ findings' = [findings EXCEPT ![f] = z]
                 /\ \/ f \notin Recorded
                    \/ z.text = findings[f].text
                    \/ assessment.status = "IN_PROGRESS"
<1> DEFINE c == cmd[s]
           x == findings[c.on]
<1> SUFFICES ASSUME ~ UNCHANGED findings
             PROVE  \E f \in Findings, z \in FindingRow :
                       /\ findings' = [findings EXCEPT ![f] = z]
                       /\ \/ f \notin Recorded
                          \/ z.text = findings[f].text
                          \/ assessment.status = "IN_PROGRESS"
  OBVIOUS
<1>1. CASE CommitNewFinding(s)
  <2>1. PICK f \in Findings \ Recorded, t \in Texts :
           findings' = [findings EXCEPT ![f] = [status |-> "OPEN", ver |-> 1, text |-> t]]
    BY <1>1 DEF CommitNewFinding
  <2>2. [status |-> "OPEN", ver |-> 1, text |-> t] \in FindingRow
    BY DEF FindingRow, FindingStates
  <2> QED
    BY <2>1, <2>2
<1>2. CASE CommitFindingEdit(s)
  <2>1. c.on \in Recorded /\ AdmitsFinding(c)
    BY <1>2 DEF CommitFindingEdit, IInv, HeldInv, Admitted, FindingOps
  <2>2. c.on \in Findings /\ x \in FindingRow
    BY <2>1, Rows DEF IInv
  <2>3. assessment.status = "IN_PROGRESS"
    BY <1>2, <2>1 DEF CommitFindingEdit, AdmitsFinding, FindingsOpen, FindingMoves
  <2>4. PICK t \in Texts : findings' = [findings EXCEPT ![c.on] = Edited(x, t)]
    BY <1>2 DEF CommitFindingEdit
  <2>5. Edited(x, t) \in FindingRow
    BY <2>2, EditedFinding
  <2> QED
    BY <2>2, <2>3, <2>4, <2>5
<1>3. CASE CommitFindingMove(s)
  <2>1. c.on \in Findings /\ x \in FindingRow
    BY <1>3, Rows DEF CommitFindingMove, IInv, HeldInv, Admitted, FindingOps
  <2>2. findings' = [findings EXCEPT ![c.on] = Moved(x, FindingMove(c).to)]
    BY <1>3 DEF CommitFindingMove
  <2>3. FindingMove(c).to \in FindingStates
    BY FindingTransitions DEF FindingMove, Transition, FindingStates
  <2>4. Moved(x, FindingMove(c).to) \in FindingRow
        /\ Moved(x, FindingMove(c).to).text = x.text
    BY <2>1, <2>3, MovedFinding
  <2> QED
    BY <2>1, <2>2, <2>4
<1> QED
  BY <1>1, <1>2, <1>3

-----------------------------------------------------------------------------
(* The invariant is inductive.                                             *)

LEMMA Start == Init => IInv
<1> SUFFICES ASSUME Init PROVE IInv
  OBVIOUS
<1>1. NoCommand \in Command
  <2>1. NothingShown \in ReportWords
    BY DeliverablesAssumption DEF NothingShown, ReportWords
  <2>2. NothingRead \in [status : FindingStates \cup ReportStates \cup {New}, latest : Nat]
    BY DEF NothingRead
  <2> QED
    BY <2>1, <2>2 DEF NoCommand, Command
<1>2. Begun = {}
  BY DEF Init, Begun, NoReport
<1>3. TypeOK
  BY <1>1, DeliverablesAssumption DEF Init, TypeOK, NoReport
<1> QED
  BY <1>2, <1>3 DEF Init, IInv, HeldInv, SentInv, JudgedInv

\* What the client was shown names the current version.
LEMMA SendStep ==
    ASSUME IInv, NEW s \in Sessions, Send(s)
    PROVE  IInv'
<1> USE DEF IInv
<1>1. PICK by \in Consultants \cup {Admin}, on \in {None} \cup Recorded \cup Begun :
         cmd' = [cmd EXCEPT ![s] =
            [op |-> "none", by |-> by, on |-> on, version |-> VersionOf(on),
             shown |-> IF on \in Reports THEN Own(on) ELSE NothingShown,
             read |-> NothingRead]]
  BY DEF Send
<1> DEFINE w == IF on \in Reports THEN Own(on) ELSE NothingShown
           c == [op |-> "none", by |-> by, on |-> on, version |-> VersionOf(on),
                 shown |-> w, read |-> NothingRead]
<1>2. cmd' = [cmd EXCEPT ![s] = c]
  BY <1>1
<1>3. UNCHANGED <<rows, holder>> /\ pc[s] = "idle" /\ pc' = [pc EXCEPT ![s] = "sent"]
  BY DEF Send
<1>4. c \in Command
  <2>1. VersionOf(on) \in Nat
    BY Rows DEF VersionOf, FindingRow, ReportRow, NoText, NoReport
  <2>2. w \in ReportWords
    BY Rows, DeliverablesAssumption DEF Own, ReportWords, ReportRow, NoReport, NothingShown
  <2>3. NothingRead \in [status : FindingStates \cup ReportStates \cup {New}, latest : Nat]
    BY DEF NothingRead
  <2>4. on \in Findings \cup Reports \cup {None}
    BY DEF Recorded, Begun
  <2> HIDE DEF w
  <2> QED
    BY <2>1, <2>2, <2>3, <2>4 DEF Command
<1>5. NamedAsShown(c)
  BY Rows, DeliverablesAssumption DEF NamedAsShown, VersionOf, Own, ReportRow
<1> HIDE DEF c
<1>6. /\ cmd'[s] = c /\ pc'[s] = "sent"
      /\ \A q \in Sessions \ {s} : cmd'[q] = cmd[q] /\ pc'[q] = pc[q]
  BY <1>2, <1>3 DEF TypeOK
<1>7. UNCHANGED <<Recorded, Begun>>
  BY <1>3 DEF rows, Recorded, Begun
<1>8. TypeOK'
  <2>1. cmd' \in [Sessions -> Command] /\ pc' \in [Sessions -> {"idle", "sent", "commit"}]
    BY <1>2, <1>3, <1>4 DEF TypeOK
  <2>2. \A q \in Sessions : pc'[q] = "commit" <=> holder' = q
    BY <1>3, <1>6 DEF TypeOK
  <2> QED
    BY <1>3, <1>7, <2>1, <2>2 DEF TypeOK, rows
<1>9. HeldInv'
  <2> SUFFICES ASSUME NEW q \in Sessions, pc'[q] = "commit"
               PROVE  Admitted(cmd[q])'
    BY DEF HeldInv
  <2>1. pc[q] = "commit" /\ cmd'[q] = cmd[q]
    BY <1>6
  <2> QED
    BY <1>3, <2>1, AdmittedKept DEF HeldInv, rows
<1>10. SentInv'
  <2> SUFFICES ASSUME NEW q \in Sessions, pc'[q] # "idle"
               PROVE  NamedAsShown(cmd[q])'
    BY DEF SentInv
  <2>1. CASE q = s
    BY <1>3, <1>5, <1>6, <1>7, <2>1 DEF NamedAsShown, Own, rows
  <2>2. CASE q # s
    <3>1. pc[q] # "idle" /\ cmd'[q] = cmd[q]
      BY <1>6, <2>2
    <3>2. \A r \in Begun : reports'[r] = reports[r] /\ reports[r].ver \in Nat
      BY <1>3, Rows DEF rows, ReportRow
    <3> QED
      BY <1>7, <3>1, <3>2, Rows, NamedKept DEF SentInv
  <2> QED
    BY <2>1, <2>2
<1>11. JudgedInv'
  BY <1>3 DEF JudgedInv, rows, Begun, Reviewable
<1> QED
  BY <1>8, <1>9, <1>10, <1>11

\* What is tested once the locks are held.
LEMMA EnterStep ==
    ASSUME IInv, NEW s \in Sessions, Enter(s)
    PROVE  IInv'
<1> USE DEF IInv
<1>1. pc[s] = "sent" /\ holder = None
  BY DEF Enter
<1>2. PICK op \in OpsOn(cmd[s].on) :
        LET c == [cmd[s] EXCEPT !.op = op]
        IN  /\ c.by \in Actors(op)
            /\ \/ /\ Admits(c)
                  /\ \E n \in {0} \cup {reports[r].number : r \in Reports} :
                        /\ \A r \in Reports : reports[r].number <= n
                        /\ cmd' = [cmd EXCEPT ![s] =
                              [c EXCEPT !.read = [status |-> StatusOf(c.on), latest |-> n]]]
                  /\ pc' = [pc EXCEPT ![s] = "commit"]
                  /\ holder' = s
                  /\ UNCHANGED rows
               \/ ~Admits(c) /\ RollBack(s)
  BY DEF Enter
<1> DEFINE c == [cmd[s] EXCEPT !.op = op]
<1>3. CASE RollBack(s)
  BY <1>3, NothingWritten
<1>4. CASE ~ RollBack(s)
  <2>1. PICK n \in {0} \cup {reports[r].number : r \in Reports} :
           /\ \A r \in Reports : reports[r].number <= n
           /\ cmd' = [cmd EXCEPT ![s] =
                 [c EXCEPT !.read = [status |-> StatusOf(c.on), latest |-> n]]]
    BY <1>2, <1>4
  <2>2. /\ Admits(c) /\ c.by \in Actors(op)
        /\ pc' = [pc EXCEPT ![s] = "commit"] /\ holder' = s /\ UNCHANGED rows
    BY <1>2, <1>4
  <2> DEFINE d == [op |-> op, by |-> cmd[s].by, on |-> cmd[s].on,
                   version |-> cmd[s].version, shown |-> cmd[s].shown,
                   read |-> [status |-> StatusOf(cmd[s].on), latest |-> n]]
  <2>3. cmd[s] \in Command /\ NamedAsShown(cmd[s])
    BY <1>1 DEF TypeOK, SentInv
  <2>4. /\ c = [op |-> op, by |-> cmd[s].by, on |-> cmd[s].on,
                version |-> cmd[s].version, shown |-> cmd[s].shown, read |-> cmd[s].read]
        /\ c.op = op
    BY <2>3 DEF Command
  <2>5. cmd' = [cmd EXCEPT ![s] = d]
    <3> HIDE DEF c
    <3>1. c.on = cmd[s].on
      BY <2>4
    <3>2. [c EXCEPT !.read = [status |-> StatusOf(c.on), latest |-> n]] = d
      BY <2>4, <3>1
    <3> QED
      BY <2>1, <3>2
  <2>6. d \in Command
    <3>1. op \in Ops
      BY DEF OpsOn, Ops
    <3>2. StatusOf(cmd[s].on) \in FindingStates \cup ReportStates \cup {New}
      BY Rows DEF StatusOf, FindingRow, ReportRow, NoText, NoReport
    <3>3. n \in Nat
      BY Rows DEF ReportRow, NoReport
    <3> QED
      BY <2>3, <3>1, <3>2, <3>3 DEF Command
  <2>7. Admitted(d)
    <3>1. Access(d)
      BY <2>2, <2>4 DEF Admits, Access
    <3>2. op = "createFinding" => FindingsOpen(op)
      BY <2>2, <2>4 DEF Admits
    <3>3. op \in FindingOps => cmd[s].on \in Recorded /\ AdmitsFinding(d)
      <4> SUFFICES ASSUME op \in FindingOps
                   PROVE  cmd[s].on \in Recorded /\ AdmitsFinding(d)
        OBVIOUS
      <4>1. cmd[s].on \in Findings
        BY DEF OpsOn, FindingOps, FindingMoves, ReportOps, ReportEdits, ReportMoves,
               AssessmentOps
      <4>2. AdmitsFinding(d)
        BY <2>2, <2>4 DEF Admits, AdmitsFinding
      <4> QED
        BY <2>3, <4>1, <4>2, DeliverablesAssumption DEF NamedAsShown, Begun
    <3>4. op \in ReportOps => cmd[s].on \in Begun /\ AdmitsReport(d)
      <4> SUFFICES ASSUME op \in ReportOps
                   PROVE  cmd[s].on \in Begun /\ AdmitsReport(d)
        OBVIOUS
      <4>1. cmd[s].on \in Reports
        BY DEF OpsOn, FindingOps, FindingMoves, ReportOps, ReportEdits, ReportMoves,
               AssessmentOps
      <4>2. AdmitsReport(d)
        BY <2>2, <2>4 DEF Admits, AdmitsReport
      <4> QED
        BY <2>3, <4>1, <4>2, DeliverablesAssumption DEF NamedAsShown, Recorded
    <3> QED
      BY <2>1, <2>2, <2>4, <3>1, <3>2, <3>3, <3>4 DEF Admitted
  <2>8. NamedAsShown(d)
    BY <2>3 DEF NamedAsShown
  <2> HIDE DEF d
  <2>9. /\ cmd'[s] = d /\ pc'[s] = "commit"
        /\ \A q \in Sessions \ {s} : cmd'[q] = cmd[q] /\ pc'[q] = pc[q]
    BY <2>2, <2>5 DEF TypeOK
  <2>10. UNCHANGED <<assigned, assessment, findings, reports, Recorded, Begun>>
    BY <2>2 DEF rows, Recorded, Begun
  <2>11. TypeOK'
    <3>1. cmd' \in [Sessions -> Command] /\ pc' \in [Sessions -> {"idle", "sent", "commit"}]
      BY <2>2, <2>5, <2>6 DEF TypeOK
    <3>2. \A q \in Sessions : pc'[q] = "commit" <=> holder' = q
      BY <1>1, <2>2, <2>9, DeliverablesAssumption DEF TypeOK
    <3> QED
      BY <2>2, <2>10, <3>1, <3>2 DEF TypeOK
  <2>12. HeldInv'
    <3> SUFFICES ASSUME NEW q \in Sessions, pc'[q] = "commit"
                 PROVE  Admitted(cmd[q])'
      BY DEF HeldInv
    <3>1. q = s
      BY <1>1, <2>9, DeliverablesAssumption DEF TypeOK
    <3>2. PICK e : e = d
      OBVIOUS
    <3>3. Admitted(e)
      BY <2>7, <3>2
    <3>4. cmd'[q] = e
      BY <2>9, <3>1, <3>2
    <3> QED
      BY <2>10, <3>3, <3>4
         DEF Admitted, Access, FindingsOpen, AdmitsFinding, AdmitsReport, ReportsOpen,
             Reviewable, Replaces, StatusOf
  <2>13. SentInv'
    <3> SUFFICES ASSUME NEW q \in Sessions, pc'[q] # "idle"
                 PROVE  NamedAsShown(cmd[q])'
      BY DEF SentInv
    <3>1. CASE q = s
      BY <2>8, <2>9, <2>10, <3>1 DEF NamedAsShown, Own
    <3>2. CASE q # s
      <4>1. pc[q] # "idle" /\ cmd'[q] = cmd[q]
        BY <2>9, <3>2
      <4>2. \A r \in Begun : reports'[r] = reports[r] /\ reports[r].ver \in Nat
        BY <2>10, Rows DEF ReportRow
      <4> QED
        BY <2>10, <4>1, <4>2, Rows, NamedKept DEF SentInv
    <3> QED
      BY <3>1, <3>2
  <2>14. JudgedInv'
    BY <2>10 DEF JudgedInv, Reviewable
  <2> QED
    BY <2>11, <2>12, <2>13, <2>14
<1> QED
  BY <1>3, <1>4

\* The steps around the sessions happen while nobody holds the request's row, but
\* for the lapse of the authorisation.
LEMMA AroundStep ==
    ASSUME IInv, Reassign \/ AdvanceAssessment \/ Lapse
    PROVE  IInv'
<1> USE DEF IInv
<1>1. UNCHANGED <<findings, reports, holder, pc, cmd, Recorded, Begun>>
  BY DEF Reassign, AdvanceAssessment, Lapse, Unheld, Recorded, Begun
<1>2. TypeOK'
  <2>1. assigned' \in Consultants
    BY DEF Reassign, AdvanceAssessment, Lapse, TypeOK
  <2>2. assessment' \in [status : {"PLANNED", "IN_PROGRESS", "COMPLETED", "CANCELLED"},
                         consultant : Consultants, covered : BOOLEAN]
    <3> DEFINE T(id) == RequireTransition("SecurityAssessment", id)
    <3>1. \A id \in {"WF-ASM-02", "WF-ASM-03", "WF-ASM-04", "WF-ASM-05"} :
             T(id).to \in {"IN_PROGRESS", "COMPLETED", "CANCELLED"}
      BY AssessmentTransitions DEF Transition
    <3> HIDE DEF T
    <3>2. AdvanceAssessment
          => \E id \in {"WF-ASM-02", "WF-ASM-03", "WF-ASM-04", "WF-ASM-05"} :
                assessment' = [assessment EXCEPT !.status = T(id).to]
      BY DEF AdvanceAssessment, T
    <3>3. CASE AdvanceAssessment
      <4>1. PICK id \in {"WF-ASM-02", "WF-ASM-03", "WF-ASM-04", "WF-ASM-05"} :
               assessment' = [assessment EXCEPT !.status = T(id).to]
        BY <3>2, <3>3
      <4>2. T(id).to \in {"PLANNED", "IN_PROGRESS", "COMPLETED", "CANCELLED"}
        BY <3>1
      <4> QED
        BY <4>1, <4>2 DEF TypeOK
    <3>4. CASE Reassign
      BY <3>4 DEF Reassign, TypeOK
    <3>5. CASE Lapse
      BY <3>5 DEF Lapse, TypeOK
    <3> QED
      BY <3>3, <3>4, <3>5
  <2> QED
    BY <1>1, <2>1, <2>2 DEF TypeOK
<1>3. HeldInv'
  <2> SUFFICES ASSUME NEW q \in Sessions, pc[q] = "commit"
               PROVE  Admitted(cmd[q])'
    BY <1>1 DEF HeldInv
  <2>1. holder = q /\ holder # None
    BY DeliverablesAssumption DEF TypeOK
  <2>2. Lapse
    BY <2>1 DEF Reassign, AdvanceAssessment, Unheld
  <2>3. /\ assessment'.status = assessment.status
        /\ assessment'.consultant = assessment.consultant
        /\ UNCHANGED assigned
    BY <2>2 DEF Lapse, TypeOK
  <2> QED
    BY <1>1, <2>3, AdmittedKept DEF HeldInv
<1>4. SentInv'
  <2> SUFFICES ASSUME NEW q \in Sessions, pc[q] # "idle"
               PROVE  NamedAsShown(cmd[q])'
    BY <1>1 DEF SentInv
  <2>1. \A r \in Begun : reports'[r] = reports[r] /\ reports[r].ver \in Nat
    BY <1>1, Rows DEF ReportRow
  <2> QED
    BY <1>1, <2>1, Rows, NamedKept DEF SentInv
<1>5. JudgedInv'
  <2>1. assessment.status = "COMPLETED" => assessment'.status = "COMPLETED"
    BY AssessmentTransitions DEF Reassign, AdvanceAssessment, Lapse, TypeOK, Transition
  <2> QED
    BY <1>1, <2>1 DEF JudgedInv, Reviewable
<1> QED
  BY <1>2, <1>3, <1>4, <1>5

\* The commits, by what they write.
LEMMA CommitStep ==
    ASSUME IInv, NEW s \in Sessions,
           \/ CommitNewFinding(s) \/ CommitFindingEdit(s) \/ CommitFindingMove(s)
           \/ CommitNewReport(s) \/ CommitReportEdit(s) \/ CommitReportMove(s)
    PROVE  IInv'
<1>1. pc[s] = "commit" /\ End(s) /\ UNCHANGED <<assigned, assessment>>
  BY DEF CommitNewFinding, CommitFindingEdit, CommitFindingMove, CommitNewReport,
         CommitReportEdit, CommitReportMove
<1>2. CASE UNCHANGED <<findings, reports>>
  BY <1>1, <1>2, NothingWritten DEF RollBack, rows
<1>3. CASE /\ CommitNewFinding(s) \/ CommitFindingEdit(s) \/ CommitFindingMove(s)
           /\ ~ UNCHANGED findings
  <2>1. UNCHANGED reports
    BY <1>3 DEF CommitNewFinding, CommitFindingEdit, CommitFindingMove
  <2>2. PICK f \in Findings, z \in FindingRow : findings' = [findings EXCEPT ![f] = z]
    BY <1>3, FindingEffect
  <2> QED
    BY <1>1, <2>1, <2>2, OneFindingWritten
<1>4. CASE CommitNewReport(s) /\ ~ UNCHANGED reports
  <2>1. UNCHANGED findings
    BY <1>4 DEF CommitNewReport
  <2>2. PICK r \in Reports \ Begun, z \in ReportRow :
           /\ reports' = [reports EXCEPT ![r] = z]
           /\ z.status = "DRAFT" /\ z.members \subseteq Recorded
    BY <1>4, NewReportEffect
  <2> QED
    BY <1>1, <2>1, <2>2, OneReportWritten
<1>5. CASE CommitReportEdit(s) /\ ~ UNCHANGED reports
  <2>1. UNCHANGED findings
    BY <1>5 DEF CommitReportEdit
  <2>2. PICK r \in Begun, z \in ReportRow :
           /\ reports' = [reports EXCEPT ![r] = z]
           /\ z.status = "DRAFT" /\ z.members \subseteq Recorded
           /\ z.ver > reports[r].ver
    BY <1>5, ReportEditEffect
  <2>3. r \in Reports
    BY DEF Begun
  <2> QED
    BY <1>1, <2>1, <2>2, <2>3, OneReportWritten
<1>6. CASE CommitReportMove(s) /\ ~ UNCHANGED reports
  <2> DEFINE r == cmd[s].on
  <2>1. UNCHANGED findings
    BY <1>6 DEF CommitReportMove
  <2>2. PICK to \in ReportStates :
           /\ r \in Begun
           /\ reports' = [reports EXCEPT ![r] = Moved(reports[r], to)]
           /\ to # "DRAFT" => Reviewable(r)
           /\ to = "READY_FOR_RELEASE" => assessment.status = "COMPLETED"
    BY <1>6, ReportMoveEffect
  <2>3. /\ r \in Reports /\ reports[r] \in ReportRow /\ reports[r].ver \in Nat
        /\ reports[r].members \subseteq Recorded
    BY <2>2, Rows DEF IInv, ReportRow
  <2> DEFINE z == Moved(reports[r], to)
  <2>4. /\ z \in ReportRow /\ z.status = to /\ z.ver = reports[r].ver + 1
        /\ z.content = reports[r].content /\ z.members = reports[r].members
    BY <2>3, MovedReport
  <2>5. z.ver > reports[r].ver
    BY <2>3, <2>4
  <2>6. z.status # "DRAFT" => z.content # Blank /\ z.members # {}
    BY <2>2, <2>4 DEF Reviewable
  <2>7. reports' = [reports EXCEPT ![r] = z]
    BY <2>2
  <2> HIDE DEF z
  <2> QED
    BY <1>1, <2>1, <2>2, <2>3, <2>4, <2>5, <2>6, <2>7, OneReportWritten
<1> QED
  BY <1>2, <1>3, <1>4, <1>5, <1>6
     DEF CommitNewFinding, CommitFindingEdit, CommitFindingMove, CommitNewReport,
         CommitReportEdit, CommitReportMove

\* Every step keeps the invariant.
LEMMA Inductive == IInv /\ [Next]_vars => IInv'
<1> SUFFICES ASSUME IInv, [Next]_vars PROVE IInv'
  OBVIOUS
<1>1. CASE UNCHANGED vars
  BY <1>1 DEF vars, IInv, TypeOK, HeldInv, SentInv, JudgedInv, Admitted, NamedAsShown,
     Access, FindingsOpen, AdmitsFinding, AdmitsReport, ReportsOpen, Reviewable, Replaces,
     StatusOf, Own, Recorded, Begun
<1>2. CASE Reassign \/ AdvanceAssessment \/ Lapse
  BY <1>2, AroundStep
<1>3. ASSUME NEW s \in Sessions, Step(s) PROVE IInv'
  BY <1>3, SendStep, EnterStep, CommitStep, NothingWritten DEF Step, Abort
<1> QED
  BY <1>1, <1>2, <1>3 DEF Next

\* The invariant holds throughout.
LEMMA Always == Spec => []IInv
  BY Start, Inductive, PTL DEF Spec

-----------------------------------------------------------------------------
(* The theorems.                                                           *)

\* The state keeps its shape: a report only cites findings that are recorded, no
\* report becomes RELEASED, and the request's row is locked by the one session that
\* is about to commit (the FOR UPDATE of every command on findings and reports).
THEOREM TypeCorrect == Spec => []TypeOK
<1>1. IInv => TypeOK
  BY DEF IInv
<1> QED
  BY <1>1, Always, PTL

\* No other session writes while one is about to commit.
LEMMA OnlyTheHolderWrites ==
    ASSUME IInv, NEW s \in Sessions, pc[s] = "commit", NEW q \in Sessions, Step(q),
           ~ UNCHANGED reports
    PROVE  q = s /\ (CommitNewReport(s) \/ CommitReportEdit(s) \/ CommitReportMove(s))
<1>1. CommitNewReport(q) \/ CommitReportEdit(q) \/ CommitReportMove(q)
  BY DEF Step, Send, Enter, Abort, RollBack, rows, CommitNewFinding, CommitFindingEdit,
         CommitFindingMove
<1>2. pc[q] = "commit"
  BY <1>1 DEF CommitNewReport, CommitReportEdit, CommitReportMove
<1> QED
  BY <1>1, <1>2, OneHolder DEF IInv

\* The version a consultant names when submitting a report or marking it ready
\* stands for what they were shown, and the assignment is tested under the lock.
THEOREM Judged == Spec => JudgedAsShown
<1> DEFINE Fair(r, s) ==
        /\ pc[s] = "commit" /\ cmd[s].on = r
        /\ reports'[r].status # reports[r].status
        /\ reports'[r].status \in {"IN_REVIEW", "READY_FOR_RELEASE"}
        => /\ cmd[s].shown = Own(r)
           /\ cmd[s].by = assigned /\ cmd[s].by = assessment.consultant
<1>1. ASSUME IInv, [Next]_vars, NEW r \in Reports, NEW s \in Sessions
      PROVE  Fair(r, s)
  <2> SUFFICES ASSUME pc[s] = "commit", cmd[s].on = r,
                      reports'[r].status # reports[r].status,
                      reports'[r].status \in {"IN_REVIEW", "READY_FOR_RELEASE"}
               PROVE  /\ cmd[s].shown = Own(r)
                      /\ cmd[s].by = assigned /\ cmd[s].by = assessment.consultant
    OBVIOUS
  <2>1. ~ UNCHANGED reports
    OBVIOUS
  <2>2. PICK q \in Sessions : Step(q)
    BY <1>1, <2>1 DEF vars, Next, Reassign, AdvanceAssessment, Lapse, Unheld
  <2>3. CommitNewReport(s) \/ CommitReportEdit(s) \/ CommitReportMove(s)
    BY <1>1, <2>1, <2>2, OnlyTheHolderWrites
  <2>4. \A x \in Reports, z \in ReportRow :
           reports' = [reports EXCEPT ![x] = z] /\ z.status = "DRAFT"
           => reports'[r].status \in {"DRAFT", reports[r].status}
    BY <1>1 DEF IInv, TypeOK
  <2>5. CommitReportMove(s)
    <3>1. CASE CommitNewReport(s)
      BY <1>1, <2>1, <2>4, <3>1, NewReportEffect
    <3>2. CASE CommitReportEdit(s)
      BY <1>1, <2>1, <2>4, <3>2, ReportEditEffect DEF Begun
    <3> QED
      BY <2>3, <3>1, <3>2
  <2>6. PICK to \in ReportStates :
           /\ r \in Begun /\ cmd[s].version = reports[r].ver
           /\ reports' = [reports EXCEPT ![r] = Moved(reports[r], to)]
           /\ to # "DRAFT" => cmd[s].op \in {"submitReview", "markReady"}
    BY <1>1, <2>1, <2>5, ReportMoveEffect
  <2>7. Moved(reports[r], to).status = to
    BY <1>1, <2>6, Rows, MovedReport DEF IInv
  <2>8. to # "DRAFT"
    BY <1>1, <2>6, <2>7 DEF IInv, TypeOK
  <2>9. cmd[s].by \in Consultants /\ Access(cmd[s])
    BY <1>1, <2>6, <2>8 DEF IInv, HeldInv, Admitted, Actors
  <2> QED
    BY <1>1, <2>6, <2>9 DEF IInv, SentInv, NamedAsShown, Access
<1>2. IInv /\ [Next]_vars
      => [\A r \in Reports, s \in Sessions : Fair(r, s)]_vars
  BY <1>1
<1> QED
  BY <1>2, Always, PTL DEF Spec, JudgedAsShown

-----------------------------------------------------------------------------
(* The commands implement the promise.                                     *)

shelf == [r \in Reports |-> Shelved(r)]

\* A report whose row and whose cited words stay is read as it was.
LEMMA ReadAsBefore ==
    ASSUME NEW r \in Reports, reports'[r] = reports[r],
           \A f \in reports[r].members : findings'[f].text = findings[f].text
    PROVE  shelf'[r] = shelf[r]
<1>1. [f \in reports'[r].members |-> findings'[f].text]
        = [f \in reports[r].members |-> findings[f].text]
  OBVIOUS
<1>2. (r \in Begun)' = (r \in Begun)
  BY DEF Begun
<1> QED
  BY <1>1, <1>2 DEF shelf, Shelved, Own

\* An edit of a finding reaches the reports still open, and no approved one.
LEMMA FindingsImplement ==
    ASSUME IInv, NEW f \in Findings, NEW z \in FindingRow,
           findings' = [findings EXCEPT ![f] = z], UNCHANGED reports,
           f \notin Recorded \/ z.text = findings[f].text \/ assessment.status = "IN_PROGRESS"
    PROVE  Promise!EditCited
<1>1. UNCHANGED Begun
  BY DEF Begun
<1>2. DOMAIN shelf' = Reports
  BY DEF shelf
<1>3. ASSUME NEW r \in Reports
      PROVE  /\ shelf'[r].stage = shelf[r].stage
             /\ shelf'[r].number = shelf[r].number
             /\ shelf'[r].own = shelf[r].own
             /\ shelf[r].stage \notin {"DRAFT", "IN_REVIEW"} => shelf'[r] = shelf[r]
  <2>1. /\ shelf'[r].stage = shelf[r].stage
        /\ shelf'[r].number = shelf[r].number
        /\ shelf'[r].own = shelf[r].own
    BY <1>1 DEF shelf, Shelved, Own
  <2>2. ASSUME shelf[r].stage \notin {"DRAFT", "IN_REVIEW"}
        PROVE  \A g \in reports[r].members : findings'[g].text = findings[g].text
    <3>1. CASE r \in Begun
      <4>1. reports[r].status = "READY_FOR_RELEASE"
        BY <2>2, <3>1, Rows DEF shelf, Shelved, IInv, ReportRow, ReportStates
      <4>2. assessment.status = "COMPLETED" /\ reports[r].members \subseteq Recorded
        BY <3>1, <4>1 DEF IInv, JudgedInv, TypeOK
      <4> QED
        BY <4>2 DEF IInv, TypeOK, Recorded
    <3>2. CASE r \notin Begun
      <4>1. reports[r] = NoReport
        BY <3>2, Rows DEF IInv
      <4> QED
        BY <4>1 DEF NoReport
    <3> QED
      BY <3>1, <3>2
  <2> QED
    BY <2>1, <2>2, ReadAsBefore
<1> QED
  BY <1>2, <1>3 DEF Promise!EditCited, shelf

\* A report written leaves the others as they were.
LEMMA OthersAsBefore ==
    ASSUME IInv, NEW r \in Reports, NEW z, reports' = [reports EXCEPT ![r] = z],
           UNCHANGED findings
    PROVE  Promise!Others(r)
<1>1. \A q \in Reports \ {r} : reports'[q] = reports[q]
  BY DEF IInv, TypeOK
<1>2. \A q \in Reports \ {r} : shelf'[q] = shelf[q]
  BY <1>1, ReadAsBefore
<1> QED
  BY <1>2 DEF Promise!Others, shelf

LEMMA NewReportImplements ==
    ASSUME IInv, NEW s \in Sessions, CommitNewReport(s), ~ UNCHANGED reports
    PROVE  \E r \in Reports : Promise!Prepare(r)
<1>1. PICK r \in Reports \ Begun, z \in ReportRow :
         /\ reports' = [reports EXCEPT ![r] = z]
         /\ z.status = "DRAFT"
         /\ z.number = cmd[s].read.latest + 1
  BY NewReportEffect
<1>2. UNCHANGED findings /\ Admitted(cmd[s])
  BY DEF CommitNewReport, IInv, HeldInv
<1>3. Promise!Others(r)
  BY <1>1, <1>2, OthersAsBefore
<1>4. reports'[r] = z /\ r \in Begun'
  BY <1>1 DEF IInv, TypeOK, Begun, New
<1>5. shelf'[r].stage = "DRAFT" /\ shelf'[r].number = z.number
  BY <1>1, <1>4 DEF shelf, Shelved
<1>6. /\ shelf[r].stage = Promise!Absent
      /\ \A q \in Reports : shelf[q].number = reports[q].number
  BY <1>1 DEF shelf, Shelved, Promise!Absent
<1>7. cmd[s].read.latest \in Nat /\ \A q \in Reports : reports[q].number \in Nat
  BY Rows DEF IInv, TypeOK, Command, ReportRow, NoReport
<1>8. \A q \in Reports : shelf[q].number < shelf'[r].number
  BY <1>1, <1>2, <1>5, <1>6, <1>7 DEF Admitted
<1>9. shelf'[r].number = 1 \/ \E q \in Reports : shelf'[r].number = shelf[q].number + 1
  BY <1>1, <1>2, <1>5, <1>6, <1>7 DEF Admitted
<1>10. DOMAIN shelf' = Reports
  BY DEF shelf
<1> QED
  BY <1>3, <1>5, <1>6, <1>8, <1>9, <1>10 DEF Promise!Prepare, Promise!Begun, shelf

LEMMA ReportEditImplements ==
    ASSUME IInv, NEW s \in Sessions, CommitReportEdit(s), ~ UNCHANGED reports
    PROVE  \E r \in Reports : Promise!Rewrite(r)
<1>1. PICK r \in Begun, z \in ReportRow :
         /\ reports' = [reports EXCEPT ![r] = z]
         /\ reports[r].status = "DRAFT" /\ z.status = "DRAFT"
         /\ z.number = reports[r].number
  BY ReportEditEffect
<1>2. UNCHANGED findings /\ r \in Reports
  BY DEF CommitReportEdit, Begun
<1>3. Promise!Others(r)
  BY <1>1, <1>2, OthersAsBefore
<1>4. reports'[r] = z /\ r \in Begun'
  BY <1>1, <1>2 DEF IInv, TypeOK, Begun, New
<1>5. /\ shelf'[r].stage = "DRAFT" /\ shelf'[r].number = z.number
      /\ shelf[r].stage = "DRAFT" /\ shelf[r].number = reports[r].number
  BY <1>1, <1>2, <1>4 DEF shelf, Shelved
<1>6. DOMAIN shelf' = Reports
  BY DEF shelf
<1> QED
  BY <1>1, <1>2, <1>3, <1>5, <1>6 DEF Promise!Rewrite, shelf

LEMMA ReportMoveImplements ==
    ASSUME IInv, NEW s \in Sessions, CommitReportMove(s), ~ UNCHANGED reports
    PROVE  \E r \in Reports : Promise!Submit(r) \/ Promise!Return(r) \/ Promise!Approve(r)
<1> DEFINE r == cmd[s].on
<1>1. PICK to \in ReportStates :
         /\ r \in Begun
         /\ reports' = [reports EXCEPT ![r] = Moved(reports[r], to)]
         /\ \/ reports[r].status = "DRAFT" /\ to = "IN_REVIEW" /\ Reviewable(r)
            \/ reports[r].status = "IN_REVIEW" /\ to = "READY_FOR_RELEASE" /\ Reviewable(r)
            \/ reports[r].status \in {"IN_REVIEW", "READY_FOR_RELEASE"} /\ to = "DRAFT"
  BY ReportMoveEffect
<1> DEFINE z == Moved(reports[r], to)
<1>2. /\ UNCHANGED findings /\ r \in Reports
      /\ reports[r] \in ReportRow
  BY <1>1, Rows DEF CommitReportMove, IInv
<1>3. /\ z \in ReportRow /\ z.status = to /\ z.number = reports[r].number
      /\ z.content = reports[r].content /\ z.members = reports[r].members
  BY <1>2, MovedReport
<1>4. reports' = [reports EXCEPT ![r] = z]
  BY <1>1
<1> HIDE DEF z
<1>5. reports'[r] = z /\ r \in Begun'
  BY <1>2, <1>3, <1>4 DEF IInv, TypeOK, Begun, ReportRow, ReportStates, New
<1>6. \A q \in Reports \ {r} : shelf'[q] = shelf[q]
  BY <1>2, <1>4, ReadAsBefore DEF IInv, TypeOK
<1>7. /\ shelf[r] = [stage |-> reports[r].status, number |-> reports[r].number,
                     own |-> Own(r), cited |-> [f \in reports[r].members |-> findings[f].text]]
      /\ shelf'[r] = [stage |-> to, number |-> reports[r].number,
                      own |-> Own(r), cited |-> [f \in reports[r].members |-> findings[f].text]]
  BY <1>1, <1>2, <1>3, <1>5 DEF shelf, Shelved, Own
<1>8. shelf' = [shelf EXCEPT ![r].stage = to]
  BY <1>2, <1>6, <1>7 DEF shelf
<1>9. Promise!Moves(r, to)
  BY <1>8 DEF Promise!Moves, shelf
<1>10. Reviewable(r) => Promise!Complete(shelf[r].own)
  BY <1>7 DEF Reviewable, Promise!Complete, Own
<1>11. shelf[r].stage = reports[r].status
  BY <1>7
<1> QED
  BY <1>1, <1>2, <1>9, <1>10, <1>11 DEF Promise!Submit, Promise!Return, Promise!Approve, shelf

\* The commands on findings and reports implement the promise made to the reader.
THEOREM Implements == Spec => KeepsThePromise
<1>1. Init => Promise!ShelfInit
  <2> SUFFICES ASSUME Init PROVE Promise!ShelfInit
    OBVIOUS
  <2>1. Begun = {} /\ \A r \in Reports : reports[r] = NoReport
    BY DEF Init, Begun, NoReport
  <2>2. \A r \in Reports : shelf[r].stage = Promise!Absent /\ shelf[r].number = 0
    BY <2>1 DEF shelf, Shelved, NoReport, Promise!Absent
  <2>3. DOMAIN shelf = Reports
    BY DEF shelf
  <2> QED
    BY <2>2, <2>3 DEF Promise!ShelfInit, Promise!Begun, shelf
<1>2. IInv /\ [Next]_vars => [Promise!ShelfNext]_shelf
  <2> SUFFICES ASSUME IInv, [Next]_vars, ~ UNCHANGED shelf
               PROVE  Promise!ShelfNext
    OBVIOUS
  <2>1. ~ UNCHANGED <<findings, reports>>
    <3> SUFFICES ASSUME UNCHANGED <<findings, reports>> PROVE UNCHANGED shelf
      OBVIOUS
    <3>1. \A r \in Reports : shelf'[r] = shelf[r]
      BY ReadAsBefore
    <3> QED
      BY <3>1 DEF shelf
  <2>2. PICK s \in Sessions : Step(s)
    BY <2>1 DEF vars, Next, Reassign, AdvanceAssessment, Lapse, Unheld
  <2>3. CASE CommitNewFinding(s) \/ CommitFindingEdit(s) \/ CommitFindingMove(s)
    <3>1. UNCHANGED reports
      BY <2>3 DEF CommitNewFinding, CommitFindingEdit, CommitFindingMove
    <3>2. PICK f \in Findings, z \in FindingRow :
             /\ findings' = [findings EXCEPT ![f] = z]
             /\ \/ f \notin Recorded
                \/ z.text = findings[f].text
                \/ assessment.status = "IN_PROGRESS"
      BY <2>1, <2>3, <3>1, FindingEffect
    <3> QED
      BY <3>1, <3>2, FindingsImplement DEF Promise!ShelfNext
  <2>4. CASE CommitNewReport(s)
    BY <2>1, <2>4, NewReportImplements DEF CommitNewReport, Promise!ShelfNext
  <2>5. CASE CommitReportEdit(s)
    BY <2>1, <2>5, ReportEditImplements DEF CommitReportEdit, Promise!ShelfNext
  <2>6. CASE CommitReportMove(s)
    BY <2>1, <2>6, ReportMoveImplements DEF CommitReportMove, Promise!ShelfNext
  <2> QED
    BY <2>1, <2>2, <2>3, <2>4, <2>5, <2>6 DEF Step, Send, Enter, Abort, RollBack, rows
<1> QED
  BY <1>1, <1>2, Always, PTL DEF Spec, KeepsThePromise, Promise!ShelfSpec, shelf

-----------------------------------------------------------------------------
(* The rows and the registry.                                              *)

FindingLife(f) == INSTANCE RegisteredRow WITH
    Entity <- Finding, Absent <- New, First <- New,
    status <- findings[f].status, version <- findings[f].ver

ReportLife(r) == INSTANCE RegisteredRow WITH
    Entity <- Report, Absent <- New, First <- New,
    status <- reports[r].status, version <- reports[r].ver

\* Each command asks for a transition the registry has, and an edit for a state that
\* is not terminal.
LEMMA FindingCommandsAreRegistered ==
    /\ \A c : FindingMove(c) \in Finding.transitions
    /\ \E t \in Finding.transitions : t.from = {} /\ t.to = "OPEN"
    /\ EditStates("editFinding") \subseteq Finding.states \ Finding.terminalStates
<1>1. \A c : FindingMove(c) \in Finding.transitions
  <2>1. /\ Transition("WF-FND-02", {"OPEN"}, "REMEDIATION_IN_PROGRESS") \in Finding.transitions
        /\ Transition("WF-FND-03", {"OPEN"}, "RESOLVED") \in Finding.transitions
        /\ Transition("WF-FND-04", {"REMEDIATION_IN_PROGRESS"}, "RESOLVED") \in Finding.transitions
        /\ Transition("WF-FND-05", {"RESOLVED"}, "OPEN") \in Finding.transitions
    BY DEF Finding, Lifecycle
  <2> QED
    BY <2>1, FindingTransitions DEF FindingMove
<1>2. \E t \in Finding.transitions : t.from = {} /\ t.to = "OPEN"
  BY DEF Finding, Lifecycle, Transition
<1>3. EditStates("editFinding") \subseteq Finding.states \ Finding.terminalStates
  BY DEF EditStates, Finding, Lifecycle
<1> QED
  BY <1>1, <1>2, <1>3

LEMMA ReportCommandsAreRegistered ==
    /\ \A c : ReportMove(c) \in Report.transitions
    /\ \E t \in Report.transitions : t.from = {} /\ t.to = "DRAFT"
    /\ \A op \in ReportEdits : EditStates(op) \subseteq Report.states \ Report.terminalStates
<1>1. \A c : ReportMove(c) \in Report.transitions
  <2>1. /\ Transition("WF-RPT-02", {"DRAFT"}, "IN_REVIEW") \in Report.transitions
        /\ Transition("WF-RPT-03", {"IN_REVIEW"}, "DRAFT") \in Report.transitions
        /\ Transition("WF-RPT-04", {"IN_REVIEW"}, "READY_FOR_RELEASE") \in Report.transitions
        /\ Transition("WF-RPT-05", {"READY_FOR_RELEASE"}, "DRAFT") \in Report.transitions
    BY DEF Report, Lifecycle
  <2> QED
    BY <2>1, ReportTransitions DEF ReportMove
<1>2. \E t \in Report.transitions : t.from = {} /\ t.to = "DRAFT"
  BY DEF Report, Lifecycle, Transition
<1>3. \A op \in ReportEdits : EditStates(op) \subseteq Report.states \ Report.terminalStates
  BY DEF EditStates, ReportEdits, Report, Lifecycle
<1> QED
  BY <1>1, <1>2, <1>3

\* Findings and reports are written by commits only.
LEMMA OnlyCommitsWrite ==
    ASSUME [Next]_vars
    PROVE  /\ \/ UNCHANGED findings
              \/ \E s \in Sessions :
                    CommitNewFinding(s) \/ CommitFindingEdit(s) \/ CommitFindingMove(s)
           /\ \/ UNCHANGED reports
              \/ \E s \in Sessions :
                    CommitNewReport(s) \/ CommitReportEdit(s) \/ CommitReportMove(s)
BY DEF Next, vars, rows, Reassign, AdvanceAssessment, Lapse, Unheld, Step, Send, Enter, Abort,
       RollBack, CommitNewFinding, CommitFindingEdit, CommitFindingMove, CommitNewReport,
       CommitReportEdit, CommitReportMove

LEMMA FindingFollows ==
    ASSUME IInv, [Next]_vars, NEW f \in Findings
    PROVE  FindingLife(f)!RowNext \/ UNCHANGED FindingLife(f)!row
<1> DEFINE old == findings[f]
           new == findings'[f]
<1>1. TypeOK /\ findings \in [Findings -> {NoText} \cup FindingRow]
  BY DEF IInv, TypeOK
<1>2. ASSUME NEW s \in Sessions, CommitNewFinding(s), new # old
      PROVE  FindingLife(f)!RowNext
  <2>1. old.status = New /\ new.status = "OPEN" /\ new.ver = 1
    BY <1>1, <1>2 DEF CommitNewFinding, Recorded
  <2> QED
    BY <2>1, FindingCommandsAreRegistered DEF FindingLife!RowNext, FindingLife!Create
<1>3. ASSUME NEW s \in Sessions, CommitFindingEdit(s), new # old
      PROVE  FindingLife(f)!RowNext
  <2>1. PICK t \in Texts :
           /\ old.status \in EditStates("editFinding")
           /\ new = Edited(old, t)
    BY <1>1, <1>3 DEF CommitFindingEdit, Matches
  <2>2. old \in FindingRow
    BY <1>1, <2>1 DEF EditStates, NoText, New
  <2>3. new.status = old.status /\ new.ver = old.ver + 1
    BY <2>1, <2>2 DEF Edited, FindingRow
  <2> QED
    BY <2>1, <2>3, FindingCommandsAreRegistered DEF FindingLife!RowNext, FindingLife!Edit
<1>4. ASSUME NEW s \in Sessions, CommitFindingMove(s), new # old
      PROVE  FindingLife(f)!RowNext
  <2> DEFINE t == FindingMove(cmd[s])
  <2>1. cmd[s].on = f /\ old.status \in t.from /\ new = Moved(old, t.to)
    BY <1>1, <1>4 DEF CommitFindingMove, Matches
  <2>2. f \in Recorded
    BY <1>4, <2>1 DEF CommitFindingMove, IInv, HeldInv, Admitted, FindingOps
  <2>3. old \in FindingRow
    BY <1>1, <2>2, Rows
  <2>4. t \in Finding.transitions
    BY FindingCommandsAreRegistered
  <2> HIDE DEF t
  <2>5. new.status = t.to /\ new.ver = old.ver + 1
    BY <2>1, <2>3 DEF Moved, FindingRow
  <2> QED
    BY <2>1, <2>4, <2>5 DEF FindingLife!RowNext, FindingLife!Move
<1>5. CASE new = old
  BY <1>5 DEF FindingLife!row
<1> QED
  BY <1>2, <1>3, <1>4, <1>5, OnlyCommitsWrite

LEMMA ReportFollows ==
    ASSUME IInv, [Next]_vars, NEW r \in Reports
    PROVE  ReportLife(r)!RowNext \/ UNCHANGED ReportLife(r)!row
<1> DEFINE old == reports[r]
           new == reports'[r]
<1>1. TypeOK /\ reports \in [Reports -> {NoReport} \cup ReportRow]
  BY DEF IInv, TypeOK
<1>2. ASSUME NEW s \in Sessions, CommitNewReport(s), new # old
      PROVE  ReportLife(r)!RowNext
  <2>1. old.status = New /\ new.status = "DRAFT" /\ new.ver = 1
    BY <1>1, <1>2 DEF CommitNewReport, Begun
  <2> QED
    BY <2>1, ReportCommandsAreRegistered DEF ReportLife!RowNext, ReportLife!Create
<1>3. ASSUME NEW s \in Sessions, CommitReportEdit(s), new # old
      PROVE  ReportLife(r)!RowNext
  <2> DEFINE c == cmd[s]
  <2>1. c.op \in ReportEdits /\ old.status \in EditStates(c.op)
    BY <1>1, <1>3 DEF CommitReportEdit, Matches
  <2>2. PICK text \in Contents, cited \in SUBSET Recorded : new = Rewritten(old, c, text, cited)
    BY <1>1, <1>3 DEF CommitReportEdit
  <2>3. old \in ReportRow /\ cited \in SUBSET Findings
    BY <1>1, <2>1 DEF EditStates, ReportEdits, NoReport, New, Recorded
  <2>4. new.status = old.status /\ new.ver = old.ver + 1
    BY <2>1, <2>2, <2>3, RewrittenReport
  <2> QED
    BY <2>1, <2>4, ReportCommandsAreRegistered DEF ReportLife!RowNext, ReportLife!Edit
<1>4. ASSUME NEW s \in Sessions, CommitReportMove(s), new # old
      PROVE  ReportLife(r)!RowNext
  <2> DEFINE t == ReportMove(cmd[s])
  <2>1. cmd[s].on = r /\ old.status \in t.from /\ new = Moved(old, t.to)
    BY <1>1, <1>4 DEF CommitReportMove, Matches
  <2>2. r \in Begun
    BY <1>4, <2>1 DEF CommitReportMove, IInv, HeldInv, Admitted, ReportOps
  <2>3. old \in ReportRow
    BY <1>1, <2>2, Rows
  <2>4. t \in Report.transitions
    BY ReportCommandsAreRegistered
  <2> HIDE DEF t
  <2>5. new.status = t.to /\ new.ver = old.ver + 1
    BY <2>1, <2>3 DEF Moved, ReportRow
  <2> QED
    BY <2>1, <2>4, <2>5 DEF ReportLife!RowNext, ReportLife!Move
<1>5. CASE new = old
  BY <1>5 DEF ReportLife!row
<1> QED
  BY <1>2, <1>3, <1>4, <1>5, OnlyCommitsWrite

\* However the sessions interleave, each finding and each report follows the registry:
\* it is created in its first state, moves along registered transitions only and is
\* edited in states that are not terminal, each time under a version of its own.
THEOREM RowsFollowTheRegistry ==
    Spec => /\ \A f \in Findings : FindingLife(f)!RowSpec
            /\ \A r \in Reports : ReportLife(r)!RowSpec
<1>1. ASSUME NEW f \in Findings
      PROVE  Spec => FindingLife(f)!RowSpec
  <2>1. Init => FindingLife(f)!RowInit
    BY DEF Init, NoText, FindingLife!RowInit
  <2>2. IInv /\ [Next]_vars => [FindingLife(f)!RowNext]_(FindingLife(f)!row)
    BY FindingFollows
  <2> QED
    BY <2>1, <2>2, Always, PTL DEF Spec, FindingLife!RowSpec
<1>2. ASSUME NEW r \in Reports
      PROVE  Spec => ReportLife(r)!RowSpec
  <2>1. Init => ReportLife(r)!RowInit
    BY DEF Init, NoReport, ReportLife!RowInit
  <2>2. IInv /\ [Next]_vars => [ReportLife(r)!RowNext]_(ReportLife(r)!row)
    BY ReportFollows
  <2> QED
    BY <2>1, <2>2, Always, PTL DEF Spec, ReportLife!RowSpec
<1> QED
  BY <1>1, <1>2

=============================================================================
