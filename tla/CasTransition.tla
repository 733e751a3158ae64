---------------------------- MODULE CasTransition ---------------------------
(***************************************************************************)
(* The compare-and-set transition as the code performs it, by any number   *)
(* of concurrent callers (transition.repository.ts, and the repositories   *)
(* that write the same UPDATE themselves):                                 *)
(*                                                                         *)
(*   1. one UPDATE (or DELETE) whose WHERE clause compares the id, the     *)
(*      status and the state_version; the database decides atomically;     *)
(*   2. when it matched no row, a SEPARATE read that classifies the        *)
(*      failure for the caller; other commands may commit in between.      *)
(*                                                                         *)
(* The command under way and its answer are the variables of               *)
(* VersionedRecord, which this module implements when callers name only    *)
(* versions that were served to someone (Guessing = FALSE).                *)
(***************************************************************************)
EXTENDS VersionedRecord

CONSTANT Guessing   \* may a caller name a version that does not exist yet?

ASSUME GuessingAssumption == Guessing \in BOOLEAN

VARIABLES
    pc,         \* Clients -> "idle" | "update" | "diagnose"
    applied     \* history: the commands that took effect (the audit trail)

vars == <<rows, pending, answer, pc, applied>>

Answers == {"NONE", "UPDATED", "NOT_FOUND", "STALE_VERSION", "WRONG_STATE", "UNEXPLAINED"}

Applied == [row : Rows, client : Clients, version : 1..MaxVersion,
            was : Statuses, now : Statuses \cup {Gone}]

\* The shape of the state: a caller is idle exactly when it has no command under
\* way, and no version runs past the bound on the versions a command may name.
TypeOK ==
    /\ rows \in [Rows -> Record]
    /\ pending \in [Clients -> Command \cup {NoCommand}]
    /\ answer \in [Clients -> Answers]
    /\ pc \in [Clients -> {"idle", "update", "diagnose"}]
    /\ applied \subseteq Applied
    /\ \A c \in Clients : pc[c] = "idle" <=> pending[c] = NoCommand

-----------------------------------------------------------------------------
(* The steps of a call.                                                    *)

Init ==
    /\ AbsInit
    /\ pc = [c \in Clients |-> "idle"]
    /\ applied = {}

Create(r) ==
    /\ AbsCreate(r)
    /\ UNCHANGED <<pc, applied>>

\* The versions a caller may have read: each value of the column was served to
\* whoever read the row at the time, including a row removed since.  The API takes
\* any positive integer for an existing row, served or not.
Served(r) ==
    IF Guessing /\ rows[r].status # Unborn THEN 1..MaxVersion ELSE 1..rows[r].ver

Issue(c) ==
    /\ pc[c] = "idle"
    /\ \E cmd \in Command :
          /\ cmd.expected \in Served(cmd.row)
          /\ pending' = [pending EXCEPT ![c] = cmd]
    /\ answer' = [answer EXCEPT ![c] = "NONE"]
    /\ pc' = [pc EXCEPT ![c] = "update"]
    /\ UNCHANGED <<rows, applied>>

\* A slip in the WHERE clause: the version is not compared.
MatchesAnyVersion(record, cmd) == Exists(record) /\ record.status \in cmd.by.from

\* The WHERE clause of the UPDATE.
Matches(record, cmd) ==
    /\ Exists(record)
    /\ record.status \in cmd.by.from
    /\ record.ver = cmd.expected

Answer(c, a) ==
    /\ answer' = [answer EXCEPT ![c] = a]
    /\ pending' = [pending EXCEPT ![c] = NoCommand]
    /\ pc' = [pc EXCEPT ![c] = "idle"]

\* A slip in the SET clause: the version stays.
WrittenWithoutBump(record, t) ==
    [status |-> IF t.to = Keep THEN record.status ELSE t.to, ver |-> record.ver]

\* The SET clause of the UPDATE.
Written(record, t) == After(record, t)

\* Slips in the diagnostic read: the two causes swapped; the version of the row
\* not compared again.
DiagnosisSwapped(record, cmd) ==
    IF ~Exists(record) THEN "NOT_FOUND"
    ELSE IF record.status \notin cmd.by.from THEN "WRONG_STATE" ELSE "STALE_VERSION"
DiagnosisStateOnly(record, cmd) ==
    IF ~Exists(record) THEN "NOT_FOUND"
    ELSE IF record.status \notin cmd.by.from THEN "WRONG_STATE" ELSE "UNEXPLAINED"

\* The answer of the diagnostic read.  A row that matches after all has neither
\* of the two causes the answer can report.
Diagnosis(record, cmd) ==
    IF ~Exists(record) THEN "NOT_FOUND"
    ELSE IF record.ver # cmd.expected THEN "STALE_VERSION"
    ELSE IF record.status \notin cmd.by.from THEN "WRONG_STATE"
    ELSE "UNEXPLAINED"

Update(c) ==
    LET cmd == pending[c]
        was == rows[cmd.row]
        new == Written(was, cmd.by)
    IN  /\ pc[c] = "update"
        /\ \/ /\ Matches(was, cmd)
              /\ rows' = [rows EXCEPT ![cmd.row] = new]
              /\ applied' = applied \cup
                    {[row |-> cmd.row, client |-> c, version |-> was.ver,
                      was |-> was.status, now |-> new.status]}
              /\ Answer(c, "UPDATED")
           \/ /\ ~Matches(was, cmd)
              /\ pc' = [pc EXCEPT ![c] = "diagnose"]
              /\ UNCHANGED <<rows, pending, answer, applied>>

Diagnose(c) ==
    /\ pc[c] = "diagnose"
    /\ Answer(c, Diagnosis(rows[pending[c].row], pending[c]))
    /\ UNCHANGED <<rows, applied>>

Next ==
    \/ \E r \in Rows : Create(r)
    \/ \E c \in Clients : Issue(c) \/ Update(c) \/ Diagnose(c)

Spec == Init /\ [][Next]_vars

-----------------------------------------------------------------------------
(* Properties.                                                             *)

\* Two concurrent callers never both succeed against the same starting version
\* of a record, a deletion counting like any other command.
OneWinnerPerVersion ==
    \A a, b \in applied : a.row = b.row /\ a.version = b.version => a = b

\* The commands that took effect on a record form one chain: its first state is
\* the initial one, each command starts in the state its predecessor left, none
\* is missing, and the record is in the state the last one left.
AuditChain ==
    /\ \A a \in applied : a.version = 1 => a.was = InitialStatus
    /\ \A a, b \in applied :
          a.row = b.row /\ b.version = a.version + 1 => b.was = a.now
    /\ \A r \in Rows : \A v \in 1..MaxVersion :
          v < rows[r].ver => \E a \in applied : a.row = r /\ a.version = v
    /\ \A a \in applied :
          a.version + 1 = rows[a.row].ver /\ Exists(rows[a.row])
              => rows[a.row].status = a.now

\* No caller is refused without a cause: a command the UPDATE did not apply is
\* answered with a cause that holds of the row the answer is about.
ConflictHasACause == \A c \in Clients : answer[c] # "UNEXPLAINED"

\* A command that lost stays lost: nothing that commits between the failed
\* UPDATE and the diagnostic read can make the command applicable.
LostForGood ==
    \A c \in Clients :
        pc[c] = "diagnose" => Verdict(rows[pending[c].row], pending[c]) # "UPDATED"

\* Each command appears to be decided at a single instant.
DecidedAtOneInstant == AbsSpec

=============================================================================
