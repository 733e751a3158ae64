------------------------ MODULE CasTransition_proofs ------------------------
(***************************************************************************)
(* What holds of the compare-and-set for any number of records, callers,   *)
(* statuses and transitions.  The inductive invariant IInv says of every   *)
(* command that took effect that the record has moved past the version it  *)
(* ran against: that is what makes a version unusable once it has won.     *)
(***************************************************************************)
EXTENDS CasTransition, TLAPS

\* A record counts its versions from 1, in its initial status.
CountsFromOne ==
    \A r \in Rows :
        /\ rows[r].status = Unborn <=> rows[r].ver = 0
        /\ rows[r].ver = 1 /\ Exists(rows[r]) => rows[r].status = InitialStatus

\* A version a command ran against is over: the record is past it, or gone.
VersionsAreSpent ==
    \A a \in applied :
        \/ a.version < rows[a.row].ver
        \/ a.version = rows[a.row].ver /\ rows[a.row].status = Gone

\* No caller names a version that does not exist yet.
NamesServed ==
    \A c \in Clients :
        pending[c] # NoCommand => pending[c].expected <= rows[pending[c].row].ver

IInv == TypeOK /\ CountsFromOne /\ VersionsAreSpent /\ OneWinnerPerVersion /\ AuditChain

-----------------------------------------------------------------------------
(* Facts about the operators.                                              *)

\* The pseudo-states are no statuses, and differ from each other.
LEMMA PseudoStates ==
    /\ Unborn \notin Statuses /\ Gone \notin Statuses /\ Keep \notin Statuses
    /\ Unborn # Gone /\ Unborn # Keep /\ Gone # Keep
  BY ConstantsAssumption DEF Unborn, Gone, Keep

\* A command under way is a command; "no command" is none.
LEMMA NoCommandIsNone == NoCommand \notin Command
  BY SMT, ConstantsAssumption DEF NoCommand, Command

\* What a matching UPDATE writes: a record again, of the next version unless it
\* was removed.
LEMMA WrittenRecord ==
    ASSUME NEW record \in Record, NEW cmd \in Command, Matches(record, cmd)
    PROVE  LET new == Written(record, cmd.by)
           IN  /\ new \in Record
               /\ record.status \in Statuses
               /\ record.ver = cmd.expected
               /\ record.ver \in 1..MaxVersion
               /\ new.status \in Statuses \cup {Gone}
               /\ IF new.status = Gone THEN new.ver = record.ver ELSE new.ver = record.ver + 1
<1>1. cmd.by \in Transitions /\ cmd.expected \in 1..MaxVersion
  BY DEF Command
<1>2. cmd.by.to \in Statuses \cup {Gone, Keep} /\ cmd.by.from \subseteq Statuses
  BY <1>1, ConstantsAssumption
<1>3. record.status \in Statuses /\ record.ver = cmd.expected /\ record.ver \in 0..(MaxVersion + 1)
  BY <1>2 DEF Matches, Record
<1> QED
  BY <1>1, <1>2, <1>3, PseudoStates, ConstantsAssumption DEF Written, After, Record

-----------------------------------------------------------------------------
(* Type correctness.                                                       *)

\* Every step keeps the variables in their types; in particular no version runs
\* past the bound the commands are cut off at.
LEMMA TypeStep == TypeOK /\ [Next]_vars => TypeOK'
<1> SUFFICES ASSUME TypeOK, [Next]_vars PROVE TypeOK'
  OBVIOUS
<1>1. ASSUME NEW r \in Rows, Create(r) PROVE TypeOK'
  <2>1. [status |-> InitialStatus, ver |-> 1] \in Record
    BY ConstantsAssumption DEF Record
  <2> QED
    BY <1>1, <2>1 DEF TypeOK, Create, AbsCreate
<1>2. ASSUME NEW c \in Clients, Issue(c) PROVE TypeOK'
  <2>1. PICK cmd \in Command : pending' = [pending EXCEPT ![c] = cmd]
    BY <1>2 DEF Issue
  <2>2. pending' \in [Clients -> Command \cup {NoCommand}] /\ pending'[c] # NoCommand
    BY <2>1, NoCommandIsNone DEF TypeOK
  <2>3. \A d \in Clients : pc'[d] = "idle" <=> pending'[d] = NoCommand
    BY <1>2, <2>1, <2>2 DEF TypeOK, Issue
  <2> QED
    BY <1>2, <2>2, <2>3 DEF TypeOK, Issue, Answers
<1>3. ASSUME NEW c \in Clients, Update(c) PROVE TypeOK'
  <2> DEFINE cmd == pending[c]
             was == rows[cmd.row]
             new == Written(was, cmd.by)
             entry == [row |-> cmd.row, client |-> c, version |-> was.ver,
                       was |-> was.status, now |-> new.status]
  <2>1. cmd \in Command /\ cmd.row \in Rows /\ was \in Record
    BY <1>3 DEF TypeOK, Update, Command
  <2>2. CASE Matches(was, cmd)
    <3>1. new \in Record /\ entry \in Applied
      BY <2>1, <2>2, WrittenRecord DEF Applied
    <3>2. rows' = [rows EXCEPT ![cmd.row] = new] /\ applied' = applied \cup {entry}
          /\ Answer(c, "UPDATED")
      BY <1>3, <2>2 DEF Update
    <3> HIDE DEF new, entry
    <3> QED
      BY <2>1, <3>1, <3>2 DEF TypeOK, Answer, Answers
  <2>3. CASE ~Matches(was, cmd)
    BY <1>3, <2>1, <2>3, NoCommandIsNone DEF TypeOK, Update
  <2> QED
    BY <2>2, <2>3
<1>4. ASSUME NEW c \in Clients, Diagnose(c) PROVE TypeOK'
  <2>1. Diagnosis(rows[pending[c].row], pending[c]) \in Answers
    BY DEF Diagnosis, Answers
  <2> QED
    BY <1>4, <2>1 DEF TypeOK, Diagnose, Answer
<1>5. CASE UNCHANGED vars
  BY <1>5 DEF TypeOK, vars
<1> QED
  BY <1>1, <1>2, <1>3, <1>4, <1>5 DEF Next

\* The state keeps its shape, for every value of the constants.
THEOREM TypeCorrect == Spec => []TypeOK
<1>1. Init => TypeOK
  BY ConstantsAssumption DEF Init, AbsInit, TypeOK, Record, Answers
<1> QED
  BY <1>1, TypeStep, PTL DEF Spec

-----------------------------------------------------------------------------
(* One winner per version, and an unbroken audit chain.                    *)

\* The strengthened invariant, preserved by a successful UPDATE: the new entry of
\* the trail carries a version no older entry carries.
LEMMA WinningStep ==
    ASSUME IInv, TypeOK', NEW c \in Clients, Update(c),
           Matches(rows[pending[c].row], pending[c])
    PROVE  IInv'
<1> DEFINE cmd == pending[c]
           was == rows[cmd.row]
           new == Written(was, cmd.by)
           entry == [row |-> cmd.row, client |-> c, version |-> was.ver,
                     was |-> was.status, now |-> new.status]
<1>1. cmd \in Command /\ cmd.row \in Rows /\ was \in Record
  BY DEF IInv, TypeOK, Update, Command
<1>2. /\ rows' = [rows EXCEPT ![cmd.row] = new]
      /\ applied' = applied \cup {entry}
  BY DEF Update
<1>3. /\ new \in Record
      /\ was.status \in Statuses
      /\ was.ver \in 1..MaxVersion
      /\ new.status \in Statuses \cup {Gone}
      /\ IF new.status = Gone THEN new.ver = was.ver ELSE new.ver = was.ver + 1
  BY <1>1, WrittenRecord
<1> HIDE DEF new
<1>4. /\ rows'[cmd.row] = new
      /\ \A r \in Rows \ {cmd.row} : rows'[r] = rows[r]
  BY <1>1, <1>2 DEF IInv, TypeOK
<1>5. /\ entry.row = cmd.row /\ entry.version = was.ver
      /\ entry.was = was.status /\ entry.now = new.status
  OBVIOUS
<1>6. applied \subseteq Applied /\ MaxVersion \in Nat
  BY ConstantsAssumption DEF IInv, TypeOK
<1>7. \A a \in applied : a.row = cmd.row => a.version < was.ver
  BY <1>1, <1>3, <1>6, PseudoStates DEF IInv, VersionsAreSpent, Applied
<1>8. \A r \in Rows : rows[r].ver \in Nat
  BY <1>6 DEF IInv, TypeOK, Record
<1> HIDE DEF entry, was, cmd
<1>9. CountsFromOne'
  BY <1>1, <1>3, <1>4, <1>6, <1>8, PseudoStates DEF IInv, CountsFromOne, Exists
<1>10. VersionsAreSpent'
  <2> SUFFICES ASSUME NEW a \in applied'
               PROVE  \/ a.version < rows'[a.row].ver
                      \/ a.version = rows'[a.row].ver /\ rows'[a.row].status = Gone
    BY DEF VersionsAreSpent
  <2>1. CASE a = entry
    BY <2>1, <1>3, <1>4, <1>5, <1>6
  <2>2. CASE a \in applied /\ a.row = cmd.row
    BY <2>2, <1>3, <1>4, <1>6, <1>7 DEF Applied
  <2>3. CASE a \in applied /\ a.row # cmd.row
    BY <2>3, <1>4, <1>6 DEF IInv, VersionsAreSpent, Applied
  <2> QED
    BY <1>2, <2>1, <2>2, <2>3
<1>11. OneWinnerPerVersion'
  BY <1>2, <1>3, <1>5, <1>6, <1>7 DEF IInv, OneWinnerPerVersion, Applied
<1>12. AuditChain'
  <2>1. \A a \in applied' : a.version = 1 => a.was = InitialStatus
    <3>1. was.ver = 1 => was.status = InitialStatus
      BY <1>1, <1>3, PseudoStates DEF IInv, CountsFromOne, Exists, was
    <3> QED
      BY <3>1, <1>2, <1>5 DEF IInv, AuditChain
  <2>2. \A a, b \in applied' : a.row = b.row /\ b.version = a.version + 1 => b.was = a.now
    <3> SUFFICES ASSUME NEW a \in applied', NEW b \in applied',
                        a.row = b.row, b.version = a.version + 1
                 PROVE  b.was = a.now
      OBVIOUS
    <3>1. CASE a \in applied /\ b \in applied
      BY <3>1 DEF IInv, AuditChain
    <3>2. CASE a \in applied /\ b = entry
      <4>1. Exists(was)
        BY <1>3, PseudoStates DEF Exists
      <4> QED
        BY <3>2, <4>1, <1>5 DEF IInv, AuditChain, was
    <3>3. CASE a = entry /\ b \in applied
      BY <3>3, <1>3, <1>5, <1>6, <1>7 DEF Applied
    <3>4. CASE a = entry /\ b = entry
      BY <3>4, <1>3, <1>5
    <3> QED
      BY <1>2, <3>1, <3>2, <3>3, <3>4
  <2>3. \A r \in Rows : \A v \in 1..MaxVersion :
          v < rows'[r].ver => \E a \in applied' : a.row = r /\ a.version = v
    <3> SUFFICES ASSUME NEW r \in Rows, NEW v \in 1..MaxVersion, v < rows'[r].ver
                 PROVE  \E a \in applied' : a.row = r /\ a.version = v
      OBVIOUS
    <3>1. CASE v < rows[r].ver
      BY <3>1, <1>2 DEF IInv, AuditChain
    <3>2. CASE ~(v < rows[r].ver)
      <4>1. r = cmd.row /\ v = was.ver
        BY <3>2, <1>3, <1>4, <1>6, <1>8 DEF was
      <4> QED
        BY <4>1, <1>2, <1>5
    <3> QED
      BY <3>1, <3>2
  <2>4. \A a \in applied' :
          a.version + 1 = rows'[a.row].ver /\ Exists(rows'[a.row])
              => rows'[a.row].status = a.now
    <3> SUFFICES ASSUME NEW a \in applied',
                        a.version + 1 = rows'[a.row].ver, Exists(rows'[a.row])
                 PROVE  rows'[a.row].status = a.now
      OBVIOUS
    <3>1. CASE a = entry
      BY <3>1, <1>4, <1>5
    <3>2. CASE a \in applied /\ a.row = cmd.row
      <4>1. new.status # Gone
        BY <3>2, <1>4 DEF Exists
      <4> QED
        BY <3>2, <4>1, <1>3, <1>4, <1>6, <1>7 DEF Applied
    <3>3. CASE a \in applied /\ a.row # cmd.row
      BY <3>3, <1>4, <1>6 DEF IInv, AuditChain, Applied
    <3> QED
      BY <1>2, <3>1, <3>2, <3>3
  <2> QED
    BY <2>1, <2>2, <2>3, <2>4 DEF AuditChain
<1> QED
  BY <1>9, <1>10, <1>11, <1>12 DEF IInv

\* Creating a record starts its chain: nothing was applied to it before.
LEMMA CreatingStep ==
    ASSUME IInv, TypeOK', NEW r \in Rows, Create(r)
    PROVE  IInv'
<1>1. /\ rows[r].status = Unborn /\ rows[r].ver = 0
      /\ rows' = [rows EXCEPT ![r] = [status |-> InitialStatus, ver |-> 1]]
      /\ applied' = applied
  BY DEF Create, AbsCreate, IInv, CountsFromOne
<1>2. /\ rows'[r] = [status |-> InitialStatus, ver |-> 1]
      /\ \A s \in Rows \ {r} : rows'[s] = rows[s]
  BY <1>1 DEF IInv, TypeOK
<1>3. \A a \in applied : a.row \in Rows \ {r} /\ a.version \in 1..MaxVersion
  BY <1>1, ConstantsAssumption, PseudoStates DEF IInv, TypeOK, VersionsAreSpent, Applied
<1>4. CountsFromOne'
  BY <1>2, ConstantsAssumption, PseudoStates DEF IInv, CountsFromOne, Exists
<1>5. VersionsAreSpent' /\ OneWinnerPerVersion'
  BY <1>1, <1>2, <1>3 DEF IInv, VersionsAreSpent, OneWinnerPerVersion
<1>6. AuditChain'
  <2>1. \A s \in Rows : \A v \in 1..MaxVersion :
          v < rows'[s].ver => \E a \in applied' : a.row = s /\ a.version = v
    BY <1>1, <1>2, ConstantsAssumption DEF IInv, AuditChain
  <2> QED
    BY <2>1, <1>1, <1>2, <1>3 DEF IInv, AuditChain
<1> QED
  BY <1>4, <1>5, <1>6 DEF IInv

\* Every step preserves the invariant.
LEMMA IInvStep == IInv /\ [Next]_vars => IInv'
<1> SUFFICES ASSUME IInv, [Next]_vars PROVE IInv'
  OBVIOUS
<1>0. TypeOK'
  BY TypeStep DEF IInv
<1>1. ASSUME NEW r \in Rows, Create(r) PROVE IInv'
  BY <1>0, <1>1, CreatingStep
<1>2. ASSUME rows' = rows, applied' = applied PROVE IInv'
  BY <1>0, <1>2 DEF IInv, CountsFromOne, VersionsAreSpent, OneWinnerPerVersion, AuditChain
<1>3. ASSUME NEW c \in Clients, Issue(c) \/ Diagnose(c) PROVE IInv'
  BY <1>2, <1>3 DEF Issue, Diagnose
<1>4. ASSUME NEW c \in Clients, Update(c) PROVE IInv'
  <2>1. CASE Matches(rows[pending[c].row], pending[c])
    BY <1>0, <1>4, <2>1, WinningStep
  <2>2. CASE ~Matches(rows[pending[c].row], pending[c])
    BY <1>2, <1>4, <2>2 DEF Update
  <2> QED
    BY <2>1, <2>2
<1>5. CASE UNCHANGED vars
  BY <1>2, <1>5 DEF vars
<1> QED
  BY <1>1, <1>3, <1>4, <1>5 DEF Next

\* Initially no record exists and nothing has been applied.
LEMMA IInvInit == Init => IInv
<1> SUFFICES ASSUME Init PROVE IInv
  OBVIOUS
<1>1. TypeOK
  BY ConstantsAssumption DEF Init, AbsInit, TypeOK, Record, Answers
<1> QED
  BY <1>1, PseudoStates, ConstantsAssumption
     DEF Init, AbsInit, IInv, CountsFromOne, VersionsAreSpent, OneWinnerPerVersion,
         AuditChain, Exists

\* Two callers never both succeed against one version of a record, however many
\* records, callers and transitions there are.
THEOREM OneWinner == Spec => []OneWinnerPerVersion
<1>1. IInv => OneWinnerPerVersion
  BY DEF IInv
<1> QED
  BY <1>1, IInvInit, IInvStep, PTL DEF Spec

\* The audit trail of every record is one unbroken chain from its creation to
\* its present state.
THEOREM TrailIsAChain == Spec => []AuditChain
<1>1. IInv => AuditChain
  BY DEF IInv
<1> QED
  BY <1>1, IInvInit, IInvStep, PTL DEF Spec

-----------------------------------------------------------------------------
(* Callers that name only versions they were served: the two steps of a    *)
(* command look like one.                                                  *)

RInv == IInv /\ NamesServed /\ LostForGood

\* A record only moves forward: what has been refused for its version stays so,
\* and so does what names a record of the present version or an older one.
LEMMA ForwardOnly ==
    ASSUME IInv, [Next]_vars, NEW r \in Rows
    PROVE  /\ rows[r].ver <= rows'[r].ver
           /\ rows'[r] # rows[r] /\ Exists(rows'[r]) => rows[r].ver < rows'[r].ver
<1>1. rows[r] \in Record /\ MaxVersion \in Nat
  BY ConstantsAssumption DEF IInv, TypeOK
<1>2. CASE rows'[r] = rows[r]
  BY <1>1, <1>2 DEF Record
<1>3. ASSUME NEW q \in Rows, Create(q), rows'[r] # rows[r]
      PROVE  rows[r].ver = 0 /\ rows'[r].ver = 1
  BY <1>3 DEF Create, AbsCreate, IInv, TypeOK, CountsFromOne
<1>4. ASSUME NEW c \in Clients, Update(c), rows'[r] # rows[r]
      PROVE  IF rows'[r].status = Gone THEN rows'[r].ver = rows[r].ver
                                       ELSE rows'[r].ver = rows[r].ver + 1
  <2>1. /\ pending[c] \in Command /\ pending[c].row = r
        /\ Matches(rows[r], pending[c])
        /\ rows'[r] = Written(rows[r], pending[c].by)
    BY <1>4 DEF Update, IInv, TypeOK, Command
  <2> QED
    BY <1>1, <2>1, WrittenRecord
<1>5. ASSUME NEW c \in Clients, Issue(c) \/ Diagnose(c) PROVE rows'[r] = rows[r]
  BY <1>5 DEF Issue, Diagnose
<1> QED
  BY <1>1, <1>2, <1>3, <1>4, <1>5 DEF Next, vars, Record, Exists

\* Every step preserves it when callers name only versions they were served.
LEMMA RInvStep == ~Guessing /\ RInv /\ [Next]_vars => RInv'
<1> SUFFICES ASSUME ~Guessing, RInv, [Next]_vars PROVE RInv'
  OBVIOUS
<1>1. IInv /\ IInv' /\ TypeOK /\ TypeOK'
  BY IInvStep DEF RInv, IInv
<1>2. \A r \in Rows : rows[r] \in Record /\ rows'[r] \in Record
  BY <1>1 DEF TypeOK
<1>3. ASSUME NEW d \in Clients, pending'[d] = pending[d], pending[d] # NoCommand
      PROVE  /\ pending'[d].expected <= rows'[pending'[d].row].ver
             /\ pc'[d] = "diagnose" /\ pc[d] = "diagnose"
                  => Verdict(rows'[pending'[d].row], pending'[d]) # "UPDATED"
  <2> DEFINE cmd == pending[d]
             was == rows[cmd.row]
             is  == rows'[cmd.row]
  <2>1. cmd \in Command /\ cmd.row \in Rows /\ cmd.expected <= was.ver
    BY <1>1, <1>3 DEF TypeOK, Command, RInv, NamesServed
  <2>2. /\ was.ver <= is.ver
        /\ is # was /\ Exists(is) => was.ver < is.ver
        /\ was.ver \in Nat /\ is.ver \in Nat /\ cmd.expected \in Nat
    BY <1>1, <1>2, <2>1, ForwardOnly, ConstantsAssumption DEF Record, Command
  <2>3. cmd.expected <= is.ver
    BY <2>1, <2>2
  <2>4. ASSUME pc[d] = "diagnose" PROVE Verdict(is, cmd) # "UPDATED"
    <3>1. Verdict(was, cmd) # "UPDATED"
      BY <2>4 DEF RInv, LostForGood
    <3>2. CASE is # was /\ Exists(is)
      BY <2>1, <2>2, <3>2 DEF Verdict
    <3>3. CASE ~Exists(is)
      BY <3>3 DEF Verdict
    <3> QED
      BY <3>1, <3>2, <3>3
  <2> QED
    BY <1>3, <2>3, <2>4
<1>4. ASSUME NEW c \in Clients, Issue(c) PROVE RInv'
  <2>1. PICK cmd \in Command : /\ cmd.expected \in Served(cmd.row)
                               /\ pending' = [pending EXCEPT ![c] = cmd]
    BY <1>4 DEF Issue
  <2>2. cmd.expected <= rows[cmd.row].ver /\ cmd.row \in Rows
    BY <1>2, <2>1 DEF Served, Record, Command
  <2>3. rows' = rows /\ pending'[c] = cmd /\ pc'[c] = "update"
        /\ \A d \in Clients \ {c} : pending'[d] = pending[d] /\ pc'[d] = pc[d]
    BY <1>1, <1>4, <2>1 DEF TypeOK, Issue
  <2>4. NamesServed' /\ LostForGood'
    BY <2>2, <2>3 DEF RInv, NamesServed, LostForGood
  <2> QED
    BY <1>1, <2>4 DEF RInv
<1>5. ASSUME NEW c \in Clients, Update(c) \/ Diagnose(c) PROVE RInv'
  <2>1. /\ \A d \in Clients \ {c} : pending'[d] = pending[d] /\ pc'[d] = pc[d]
        /\ \/ pending'[c] = NoCommand /\ pc'[c] = "idle"
           \/ /\ pending'[c] = pending[c] /\ pc'[c] = "diagnose" /\ rows' = rows
              /\ ~Matches(rows[pending[c].row], pending[c])
    BY <1>1, <1>5 DEF TypeOK, Update, Diagnose, Answer
  <2>2. NamesServed'
    BY <1>3, <2>1 DEF RInv, NamesServed
  <2>3. LostForGood'
    <3> SUFFICES ASSUME NEW d \in Clients, pc'[d] = "diagnose"
                 PROVE  Verdict(rows'[pending'[d].row], pending'[d]) # "UPDATED"
      BY DEF LostForGood
    <3>1. CASE d = c
      BY <2>1, <3>1 DEF Verdict, Matches
    <3>2. CASE d # c
      BY <1>1, <1>3, <2>1, <3>2 DEF TypeOK
    <3> QED
      BY <3>1, <3>2
  <2> QED
    BY <1>1, <2>2, <2>3 DEF RInv
<1>6. ASSUME UNCHANGED <<pending, pc>> PROVE RInv'
  <2>1. NamesServed' /\ LostForGood'
    BY <1>1, <1>3, <1>6 DEF TypeOK, NamesServed, LostForGood
  <2> QED
    BY <1>1, <2>1 DEF RInv
<1> QED
  BY <1>4, <1>5, <1>6 DEF Next, Create, AbsCreate, vars

\* No caller has named anything at first.
LEMMA RInvInit == Init => RInv
  BY IInvInit DEF RInv, Init, AbsInit, NamesServed, LostForGood

\* A command that lost stays lost until its answer, if callers name only versions
\* they were served.
THEOREM Lost == ~Guessing => (Spec => []LostForGood)
<1> SUFFICES ASSUME ~Guessing PROVE Spec => []LostForGood
  OBVIOUS
<1>1. RInv /\ [Next]_vars => RInv'
  BY RInvStep
<1>2. RInv => LostForGood
  BY DEF RInv
<1> QED
  BY <1>1, <1>2, RInvInit, PTL DEF Spec

\* A refusal always has its cause, if callers name only versions they were served.
THEOREM Explained == ~Guessing => (Spec => []ConflictHasACause)
<1> SUFFICES ASSUME ~Guessing PROVE Spec => []ConflictHasACause
  OBVIOUS
<1>1. RInv /\ ConflictHasACause /\ [Next]_vars => ConflictHasACause'
  <2> SUFFICES ASSUME RInv, ConflictHasACause, [Next]_vars PROVE ConflictHasACause'
    OBVIOUS
  <2>1. TypeOK
    BY DEF RInv, IInv
  <2>2. ASSUME NEW c \in Clients, Issue(c) \/ Update(c) PROVE ConflictHasACause'
    BY <2>1, <2>2 DEF TypeOK, ConflictHasACause, Issue, Update, Answer
  <2>3. ASSUME NEW c \in Clients, Diagnose(c) PROVE ConflictHasACause'
    <3>1. Diagnosis(rows[pending[c].row], pending[c]) # "UNEXPLAINED"
      BY <2>3 DEF RInv, LostForGood, Diagnose, Diagnosis, Verdict
    <3> QED
      BY <2>1, <2>3, <3>1 DEF TypeOK, ConflictHasACause, Diagnose, Answer
  <2> QED
    BY <2>2, <2>3 DEF Next, Create, AbsCreate, vars, ConflictHasACause
<1>2. Init => ConflictHasACause
  BY DEF Init, AbsInit, ConflictHasACause
<1>3. RInv /\ [Next]_vars => RInv'
  BY RInvStep
<1> QED
  BY <1>1, <1>2, <1>3, RInvInit, PTL DEF Spec

\* A step of the two-step protocol is a step of the promised one-step protocol, or
\* changes nothing that is promised.
LEMMA StepRefines == ~Guessing /\ RInv /\ [Next]_vars => [AbsNext]_absVars
<1> SUFFICES ASSUME ~Guessing, RInv, [Next]_vars PROVE [AbsNext]_absVars
  OBVIOUS
<1>1. TypeOK
  BY DEF RInv, IInv
<1>2. ASSUME NEW r \in Rows, Create(r) PROVE AbsNext
  BY <1>2 DEF Create, AbsNext
<1>3. ASSUME NEW c \in Clients, Issue(c) PROVE AbsIssue(c)
  BY <1>1, <1>3 DEF TypeOK, Issue, AbsIssue
<1>4. ASSUME NEW c \in Clients, Update(c) PROVE AbsDecide(c) \/ UNCHANGED absVars
  <2>1. pending[c] # NoCommand
    BY <1>1, <1>4 DEF TypeOK, Update
  <2>2. CASE Matches(rows[pending[c].row], pending[c])
    <3>1. Verdict(rows[pending[c].row], pending[c]) = "UPDATED"
      BY <2>2 DEF Matches, Verdict
    <3> QED
      BY <1>4, <2>1, <2>2, <3>1 DEF Update, Answer, AbsDecide, Written
  <2>3. CASE ~Matches(rows[pending[c].row], pending[c])
    BY <1>4, <2>3 DEF Update, absVars
  <2> QED
    BY <2>2, <2>3
<1>5. ASSUME NEW c \in Clients, Diagnose(c) PROVE AbsDecide(c)
  <2>1. pending[c] # NoCommand
    BY <1>1, <1>5 DEF TypeOK, Diagnose
  <2>2. Verdict(rows[pending[c].row], pending[c]) # "UPDATED"
    BY <1>5 DEF RInv, LostForGood, Diagnose
  <2>3. Diagnosis(rows[pending[c].row], pending[c]) = Verdict(rows[pending[c].row], pending[c])
    BY <2>2 DEF Diagnosis, Verdict
  <2> QED
    BY <1>5, <2>1, <2>2, <2>3 DEF Diagnose, Answer, AbsDecide
<1>6. CASE UNCHANGED vars
  BY <1>6 DEF vars, absVars
<1> QED
  BY <1>2, <1>3, <1>4, <1>5, <1>6 DEF Next, AbsNext

\* The compare-and-set with its separate diagnostic read implements a command
\* decided at one instant.
THEOREM Refinement == ~Guessing => (Spec => DecidedAtOneInstant)
<1> SUFFICES ASSUME ~Guessing PROVE Spec => AbsSpec
  BY DEF DecidedAtOneInstant
<1>1. RInv /\ [Next]_vars => RInv' /\ [AbsNext]_absVars
  BY RInvStep, StepRefines
<1>2. Init => AbsInit
  BY DEF Init
<1> QED
  BY <1>1, <1>2, RInvInit, PTL DEF Spec, AbsSpec

=============================================================================
