--------------------------- MODULE VersionedRecord --------------------------
(***************************************************************************)
(* What the optimistic-concurrency layer promises its callers, with no     *)
(* mention of how: a command carries the version the caller last saw, and  *)
(* is decided at ONE instant.  At that instant it either takes effect, or  *)
(* is refused for a reason that is true then: the record is gone, its      *)
(* version is another one, or its state does not allow the command.        *)
(***************************************************************************)
EXTENDS Naturals

CONSTANTS
    Rows,           \* records
    Clients,        \* callers, each with at most one command under way
    Statuses,       \* lifecycle states
    InitialStatus,  \* the state a record is created in
    Transitions,    \* what a command may ask for: [from, to]
    MaxVersion      \* bound on the versions a command may name

Unborn == "(new)"       \* a record not created yet
Gone   == "(deleted)"   \* a record removed: as a destination, a DELETE
Keep   == "(same)"      \* as a destination, an edit: the status stays

ASSUME ConstantsAssumption ==
    /\ MaxVersion \in Nat \ {0}
    /\ InitialStatus \in Statuses
    /\ Statuses \cap {Unborn, Gone, Keep} = {}
    /\ Transitions \subseteq [from : SUBSET Statuses, to : Statuses \cup {Gone, Keep}]

VARIABLES
    rows,           \* Rows -> [status, ver]
    pending,        \* Clients -> the command under way, or NoCommand
    answer          \* Clients -> the last answer

absVars == <<rows, pending, answer>>

Record  == [status : Statuses \cup {Unborn, Gone}, ver : 0..(MaxVersion + 1)]
Command == [row : Rows, by : Transitions, expected : 1..MaxVersion]
NoCommand == [expected |-> 0]

Exists(record) == record.status \notin {Unborn, Gone}

\* The record a command that takes effect leaves behind.
After(record, t) ==
    [status |-> IF t.to = Keep THEN record.status ELSE t.to,
     ver    |-> IF t.to = Gone THEN record.ver ELSE record.ver + 1]

\* The verdict on a command, as a function of the record it finds.
Verdict(record, cmd) ==
    IF ~Exists(record) THEN "NOT_FOUND"
    ELSE IF record.ver # cmd.expected THEN "STALE_VERSION"
    ELSE IF record.status \notin cmd.by.from THEN "WRONG_STATE"
    ELSE "UPDATED"

AbsInit ==
    /\ rows = [r \in Rows |-> [status |-> Unborn, ver |-> 0]]
    /\ pending = [c \in Clients |-> NoCommand]
    /\ answer = [c \in Clients |-> "NONE"]

AbsCreate(r) ==
    /\ rows[r].status = Unborn
    /\ rows' = [rows EXCEPT ![r] = [status |-> InitialStatus, ver |-> 1]]
    /\ UNCHANGED <<pending, answer>>

AbsIssue(c) ==
    /\ pending[c] = NoCommand
    /\ \E cmd \in Command : pending' = [pending EXCEPT ![c] = cmd]
    /\ answer' = [answer EXCEPT ![c] = "NONE"]
    /\ UNCHANGED rows

AbsDecide(c) ==
    LET cmd == pending[c]
        v   == Verdict(rows[cmd.row], cmd)
    IN  /\ cmd # NoCommand
        /\ rows' = IF v = "UPDATED"
                   THEN [rows EXCEPT ![cmd.row] = After(rows[cmd.row], cmd.by)]
                   ELSE rows
        /\ pending' = [pending EXCEPT ![c] = NoCommand]
        /\ answer' = [answer EXCEPT ![c] = v]

AbsNext ==
    \/ \E r \in Rows : AbsCreate(r)
    \/ \E c \in Clients : AbsIssue(c) \/ AbsDecide(c)

AbsSpec == AbsInit /\ [][AbsNext]_absVars

=============================================================================
