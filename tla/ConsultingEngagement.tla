------------------------ MODULE ConsultingEngagement ------------------------
(***************************************************************************)
(* One consulting engagement: a request, the versions of the business's    *)
(* scope authorisation, the security assessments carried out under it, and *)
(* any number of concurrent HTTP requests (sessions) working on them       *)
(* (consulting.service.ts, security-work.service.ts, their repositories    *)
(* and the AUTH_SCOPE evaluator).                                          *)
(*                                                                         *)
(* The database runs READ COMMITTED.  A session's command goes through     *)
(*   Begin      the permission guard, which reads without a lock;          *)
(*   TakeLock   SELECT .. FOR UPDATE of the request row, by the commands   *)
(*              that write more than that row;                             *)
(*   Check      the handler's own guards, on the rows as they are then;    *)
(*   a commit   every write at once; or a rollback.                        *)
(* The review commands and startDelivery are one UPDATE instead, which     *)
(* waits for the row lock; startDelivery's scope guard is a subquery, read *)
(* from the snapshot taken before that wait (Snapshot).                    *)
(*                                                                         *)
(* The employer, the note thread and the audit rows are left out; one      *)
(* confirmed business user speaks for the employer.                        *)
(***************************************************************************)
EXTENDS WorkflowRegistry, FiniteSets

CONSTANTS
    Sessions,       \* concurrent HTTP requests
    Consultants,    \* users with ROLE_CONSULTANT
    Assessments,    \* ids of assessments (bounds how many are created)
    Windows,        \* scope inputs: [from, until, covers]
    MaxScopes,      \* bound on the scope versions
    MaxClock,       \* bound on the clock
    None            \* no user, no session, no command

Admin    == "ROLE_ADMIN"
Business == "ROLE_BUSINESS"

ASSUME EngagementAssumption ==
    /\ MaxScopes \in Nat /\ MaxClock \in Nat
    /\ Windows \subseteq [from : 0..MaxClock, until : 0..MaxClock, covers : BOOLEAN]
    /\ None \notin Sessions \cup Consultants
    /\ {Admin, Business} \cap Consultants = {}

VARIABLES
    request,    \* [status, ver, consultant]
    scopes,     \* sequence of [versionNo, window, current]
    work,       \* Assessments -> [status, ver, consultant, scope]
    clock,
    holder,     \* the session holding the row lock of the request, or None
    pc,         \* Sessions -> where its command is
    cmd         \* Sessions -> the command: who, what, and what it has read

vars == <<request, scopes, work, clock, holder, pc, cmd>>

Active == {"PLANNED", "IN_PROGRESS"}
Unused == [status |-> New, ver |-> 0, consultant |-> None, scope |-> 0]

TransitionId ==
    [startReview |-> "WF-REQ-02", accept |-> "WF-REQ-03", decline |-> "WF-REQ-04",
     startDelivery |-> "WF-REQ-05", complete |-> "WF-REQ-06"]

Reviews          == {"startReview", "accept", "decline"}
AssessmentMoves  == {"startAssessment", "completeAssessment", "cancelAssessment"}
Locking          == {"assign", "createScope", "complete", "createAssessment"} \cup AssessmentMoves
Ops              == Reviews \cup {"startDelivery"} \cup Locking

Exists(a) == work[a].status # New

\* What the command is about: a new consultant, a scope input, an assessment.
Targets(op) ==
    IF op = "assign" THEN Consultants
    ELSE IF op = "createScope" THEN Windows
    ELSE IF op \in AssessmentMoves THEN {a \in Assessments : Exists(a)}
    ELSE {None}

\* The roles an operation is open to.
Actors(op) ==
    IF op \in {"assign", "cancelAssessment"} THEN {Admin}
    ELSE IF op = "createScope" THEN {Business}
    ELSE Consultants \cup {Admin}

\* expectedStateVersion, as the client last read it.
VersionOf(op, on) == IF op \in AssessmentMoves THEN work[on].ver ELSE request.ver

-----------------------------------------------------------------------------
(* The conditions the guards and the handlers test.                        *)

ScopeCurrent == {i \in DOMAIN scopes : scopes[i].current}

\* A scope authorisation is current and inside its window, both ends included.
ScopeValid(i) ==
    /\ scopes[i].current
    /\ scopes[i].window.from <= clock
    /\ clock <= scopes[i].window.until

\* A slip in the evaluator: a superseded authorisation still counts.
ScopeCoversSuperseded(i) ==
    /\ scopes[i].window.covers
    /\ scopes[i].window.from <= clock
    /\ clock <= scopes[i].window.until

\* It also covers the service and names targets.
ScopeCovers(i) == ScopeValid(i) /\ scopes[i].window.covers

\* A slip in the access predicate: the row lock is taken, the assignment is not
\* looked at again.
AccessFromGuard(c) == TRUE

\* Consultants act on their own request, and on their own assessment; Admin is
\* never checked for assignment.
Access(c) ==
    c.by \in Consultants =>
        /\ request.consultant = c.by
        /\ c.op \in AssessmentMoves => work[c.on].consultant = c.by

\* A slip in the completion guard: work still under way is not counted.
SomeCompletedWork == \E a \in Assessments : work[a].status = "COMPLETED"

OnlyCompletedWork ==
    /\ \E a \in Assessments : work[a].status = "COMPLETED"
    /\ \A a \in Assessments : work[a].status \notin Active

\* The permission guard, run before the handler and without a lock.
Guard(c) ==
    /\ c.by \in Consultants =>
          /\ request.consultant = c.by
          /\ c.op \in AssessmentMoves => work[c.on].consultant = c.by
    /\ c.op = "startDelivery" => \E i \in ScopeCurrent : ScopeValid(i)
    /\ c.op = "createAssessment" => \E i \in ScopeCurrent : ScopeCovers(i)
    /\ c.op \in {"startAssessment", "completeAssessment"} => ScopeCovers(work[c.on].scope)

\* A slip in createAssessment: the request's state is not tested.
MayCreateAssessmentAnytime ==
    request.consultant # None /\ \E i \in ScopeCurrent : ScopeCovers(i)

MayCreateAssessment ==
    /\ \E i \in ScopeCurrent : ScopeCovers(i)
    /\ request.status = "ACCEPTED"
    /\ request.consultant # None

\* What a handler tests once it holds the lock.
Admits(c) ==
    /\ c.op \notin {"assign", "createScope"} => Access(c)
    /\ c.op = "complete" => OnlyCompletedWork
    /\ c.op = "createAssessment" => MayCreateAssessment
    /\ c.op \in {"startAssessment", "completeAssessment"} => ScopeCovers(work[c.on].scope)
    /\ c.op \in AssessmentMoves => work[c.on].ver = c.version

\* The WHERE clause of a transition of the request.
RequestMatches(c) ==
    /\ request.status \in RequireTransition("ConsultingRequest", TransitionId[c.op]).from
    /\ request.ver = c.version

\* The transition an assessment command asks for; a cancellation takes the one
\* that starts in the state the handler read.
MoveOf(c) ==
    RequireTransition("SecurityAssessment",
        IF c.op = "startAssessment" THEN "WF-ASM-02"
        ELSE IF c.op = "completeAssessment" THEN "WF-ASM-03"
        ELSE IF c.read.status = "PLANNED" THEN "WF-ASM-04" ELSE "WF-ASM-05")

AssessmentMatches(c) ==
    work[c.on].ver = c.version /\ work[c.on].status \in MoveOf(c).from

-----------------------------------------------------------------------------
(* The state.                                                              *)

\* The rows a handler remembers between its checks and its writes.
NothingRead == [status |-> New, consultant |-> None, scope |-> 0, latest |-> 0]

Read(c) ==
    [status     |-> IF c.op \in AssessmentMoves THEN work[c.on].status ELSE New,
     consultant |-> request.consultant,
     scope      |-> IF c.op = "createAssessment" THEN CHOOSE i \in ScopeCurrent : TRUE ELSE 0,
     latest     |-> IF scopes = <<>> THEN 0 ELSE scopes[Len(scopes)].versionNo]

NoCommand == [op |-> "none", by |-> None, on |-> None, version |-> 0, read |-> NothingRead]

Users == Consultants \cup {Admin, Business, None}

Command ==
    [op : Ops \cup {"none"}, by : Users, on : Consultants \cup Windows \cup Assessments \cup {None},
     version : Nat,
     read : [status : Definition["SecurityAssessment"].states \cup {New},
             consultant : Consultants \cup {None}, scope : Nat, latest : Nat]]

ScopeVersion == [versionNo : Nat \ {0}, window : Windows, current : BOOLEAN]

Assessment(n) ==
    [status : Definition["SecurityAssessment"].states, ver : Nat \ {0},
     consultant : Consultants, scope : 1..n]

\* The shape of the state: a session holds the lock only inside the section that
\* needs it, and an assessment points at a scope version that exists.
TypeOK ==
    /\ request \in [status : Definition["ConsultingRequest"].states, ver : Nat \ {0},
                    consultant : Consultants \cup {None}]
    /\ scopes \in Seq(ScopeVersion)
    /\ work \in [Assessments -> {Unused} \cup Assessment(Len(scopes))]
    /\ clock \in 0..MaxClock
    /\ pc \in [Sessions -> {"idle", "lock", "check", "commit", "snapshot", "update"}]
    /\ cmd \in [Sessions -> Command]
    /\ holder \in Sessions \cup {None}
    /\ \A s \in Sessions : pc[s] \in {"check", "commit"} <=> holder = s

Init ==
    /\ request = [status |-> "SUBMITTED", ver |-> 1, consultant |-> None]
    /\ scopes = <<>>
    /\ work = [a \in Assessments |-> Unused]
    /\ clock = 0
    /\ holder = None
    /\ pc = [s \in Sessions |-> "idle"]
    /\ cmd = [s \in Sessions |-> NoCommand]

\* The bounds: how many scope versions and assessments can still be begun.
Room(op) ==
    LET Begun == Cardinality({s \in Sessions : cmd[s].op = op})
    IN  /\ op = "createScope" => Len(scopes) + Begun < MaxScopes
        /\ op = "createAssessment" =>
              Begun < Cardinality({a \in Assessments : ~Exists(a)})

-----------------------------------------------------------------------------
(* The steps of a session.                                                 *)

Begin(s) ==
    /\ pc[s] = "idle"
    /\ \E op \in Ops : \E by \in Actors(op), on \in Targets(op) :
          LET c == [op |-> op, by |-> by, on |-> on, version |-> VersionOf(op, on),
                    read |-> NothingRead]
          IN  /\ Room(op)
              /\ Guard(c)
              /\ cmd' = [cmd EXCEPT ![s] = c]
              /\ pc' = [pc EXCEPT ![s] = IF op \in Locking THEN "lock"
                                         ELSE IF op = "startDelivery" THEN "snapshot"
                                         ELSE "update"]
    /\ UNCHANGED <<request, scopes, work, clock, holder>>

\* A slip: createScope reads the versions without locking the request row.
AvailableToScopes(s) == holder = None \/ cmd[s].op = "createScope"

Available(s) == holder = None

TakeLock(s) ==
    /\ pc[s] = "lock"
    /\ Available(s)
    /\ holder' = s
    /\ pc' = [pc EXCEPT ![s] = "check"]
    /\ UNCHANGED <<request, scopes, work, clock, cmd>>

\* A slip: a transaction that gives up keeps its connection, and the row lock.
EndHoldingTheLock(s) ==
    /\ pc' = [pc EXCEPT ![s] = "idle"]
    /\ cmd' = [cmd EXCEPT ![s] = NoCommand]
    /\ UNCHANGED holder

\* The transaction ends, and with it the row lock.
End(s) ==
    /\ pc' = [pc EXCEPT ![s] = "idle"]
    /\ cmd' = [cmd EXCEPT ![s] = NoCommand]
    /\ holder' = IF holder = s THEN None ELSE holder

RollBack(s) == End(s) /\ UNCHANGED <<request, scopes, work, clock>>

Check(s) ==
    LET c == cmd[s]
    IN  /\ pc[s] = "check"
        /\ \/ /\ Admits(c)
              /\ cmd' = [cmd EXCEPT ![s].read = Read(c)]
              /\ pc' = [pc EXCEPT ![s] = "commit"]
              /\ UNCHANGED <<request, scopes, work, clock, holder>>
           \/ ~Admits(c) /\ RollBack(s)

\* The statement takes its snapshot, and evaluates the scope subquery on it.
Snapshot(s) ==
    /\ pc[s] = "snapshot"
    /\ IF \E i \in ScopeCurrent : ScopeValid(i)
       THEN /\ pc' = [pc EXCEPT ![s] = "update"]
            /\ UNCHANGED <<request, scopes, work, clock, holder, cmd>>
       ELSE RollBack(s)

Moved(record, t) == [record EXCEPT !.status = t.to, !.ver = @ + 1]

RequestMoved(c) ==
    Moved(request, RequireTransition("ConsultingRequest", TransitionId[c.op]))

\* The single UPDATE of a review command or of startDelivery, once no transaction
\* holds the row.
Update(s) ==
    LET c == cmd[s]
    IN  /\ pc[s] = "update"
        /\ holder = None
        /\ request' = IF RequestMatches(c) THEN RequestMoved(c) ELSE request
        /\ End(s)
        /\ UNCHANGED <<scopes, work, clock>>

\* A slip in assign: only assessments not started yet follow the reassignment.
ReassignedPlanned(record, k) ==
    IF record.status = "PLANNED" THEN [record EXCEPT !.consultant = k] ELSE record

Reassigned(record, k) ==
    IF record.status \in Active THEN [record EXCEPT !.consultant = k] ELSE record

CommitAssign(s) ==
    /\ pc[s] = "commit" /\ cmd[s].op = "assign"
    /\ request' = [request EXCEPT !.consultant = cmd[s].on]
    /\ work' = [a \in Assessments |-> Reassigned(work[a], cmd[s].on)]
    /\ End(s)
    /\ UNCHANGED <<scopes, clock>>

\* Every current version is superseded, then the next one is inserted.
CommitScope(s) ==
    /\ pc[s] = "commit" /\ cmd[s].op = "createScope"
    /\ scopes' = Append([i \in DOMAIN scopes |-> [scopes[i] EXCEPT !.current = FALSE]],
                        [versionNo |-> cmd[s].read.latest + 1, window |-> cmd[s].on,
                         current |-> TRUE])
    /\ End(s)
    /\ UNCHANGED <<request, work, clock>>

CommitComplete(s) ==
    LET c == cmd[s]
    IN  /\ pc[s] = "commit" /\ c.op = "complete"
        /\ request' = IF RequestMatches(c) /\ OnlyCompletedWork THEN RequestMoved(c) ELSE request
        /\ End(s)
        /\ UNCHANGED <<scopes, work, clock>>

CommitNewAssessment(s) ==
    /\ pc[s] = "commit" /\ cmd[s].op = "createAssessment"
    /\ \E a \in Assessments :
          /\ ~Exists(a)
          /\ work' = [work EXCEPT ![a] =
                        [status |-> "PLANNED", ver |-> 1,
                         consultant |-> cmd[s].read.consultant, scope |-> cmd[s].read.scope]]
    /\ End(s)
    /\ UNCHANGED <<request, scopes, clock>>

CommitAssessment(s) ==
    LET c == cmd[s]
    IN  /\ pc[s] = "commit" /\ c.op \in AssessmentMoves
        /\ work' = IF AssessmentMatches(c)
                   THEN [work EXCEPT ![c.on] = Moved(@, MoveOf(c))] ELSE work
        /\ End(s)
        /\ UNCHANGED <<request, scopes, clock>>

Commit(s) ==
    \/ CommitAssign(s) \/ CommitScope(s) \/ CommitComplete(s)
    \/ CommitNewAssessment(s) \/ CommitAssessment(s)

\* The process dies, the connection drops or a statement (the audit insert) fails:
\* the database rolls the transaction back.
Abort(s) == pc[s] # "idle" /\ RollBack(s)

Tick ==
    /\ clock < MaxClock
    /\ clock' = clock + 1
    /\ UNCHANGED <<request, scopes, work, holder, pc, cmd>>

Progress(s) == Check(s) \/ Snapshot(s) \/ Commit(s)

Next ==
    \/ Tick
    \/ \E s \in Sessions : Begin(s) \/ TakeLock(s) \/ Update(s) \/ Progress(s) \/ Abort(s)

Spec == Init /\ [][Next]_vars

\* A running handler goes on, and the database grants a row lock to its waiters in
\* the order they came: who keeps asking for it gets it.
FairSpec ==
    /\ Spec
    /\ \A s \in Sessions : WF_vars(Progress(s)) /\ SF_vars(TakeLock(s)) /\ SF_vars(Update(s))

-----------------------------------------------------------------------------
(* Properties.                                                             *)

\* Concurrent confirmations never fork the authorisation: its versions are
\* numbered without gap or repetition, and the newest is the one current.
ScopeVersionsAreALine ==
    \A i \in DOMAIN scopes :
        scopes[i].versionNo = i /\ (scopes[i].current <=> i = Len(scopes))

\* A request is completed only over finished work: some assessment was completed
\* and none is left under way, whatever ran at the same time.
CompletedMeansDone ==
    request.status = "COMPLETED" =>
        /\ \E a \in Assessments : work[a].status = "COMPLETED"
        /\ \A a \in Assessments : work[a].status \notin Active

\* The two assignment columns agree: an assessment under way belongs to the
\* consultant the request is assigned to.
ActiveAssignmentAgrees ==
    \A a \in Assessments :
        work[a].status \in Active => work[a].consultant = request.consultant

\* Technical work is planned, started and completed only under the authorisation
\* that is current when it commits, never under one superseded meanwhile.
TechnicalWorkIsAuthorised ==
    [][\A a \in Assessments :
          work'[a].status # work[a].status /\ work'[a].status # "CANCELLED"
              => LET i == work'[a].scope
                 IN  scopes[i].current /\ scopes[i].window.covers]_vars

\* A consultant whose reassignment committed first cannot finish the request or
\* move an assessment any more.
ReassignmentIsObserved ==
    [][\A s \in Sessions :
          pc[s] = "commit" /\ cmd[s].by \in Consultants /\ <<request, work>>' # <<request, work>>
              /\ cmd'[s] = NoCommand
              => cmd[s].by = request.consultant]_vars

\* Nothing moves in a closed engagement: no state change of the request, no new
\* assessment, no command on one.
ClosedIsFrozen ==
    [][request.status \in Definition["ConsultingRequest"].terminalStates =>
          /\ request'.status = request.status
          /\ \A a \in Assessments : work'[a].status = work[a].status]_vars

\* Every command ends, in a commit or a rollback: no waiter is left behind.
EveryCommandEnds == \A s \in Sessions : pc[s] # "idle" ~> pc[s] = "idle"

=============================================================================
