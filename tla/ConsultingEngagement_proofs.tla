--------------------- MODULE ConsultingEngagement_proofs --------------------
(***************************************************************************)
(* What holds of an engagement for any number of sessions, consultants,    *)
(* assessments, scope versions and windows.                                *)
(***************************************************************************)
EXTENDS ConsultingEngagement, TLAPS

-----------------------------------------------------------------------------
(* The registry's rows this module uses.                                   *)

\* The transition a registered id names is the one the registry holds under it.
LEMMA Required ==
    ASSUME NEW e, NEW id, TransitionsOf(e, id) # {}
    PROVE  RequireTransition(e, id) \in TransitionsOf(e, id)
  BY DEF RequireTransition

\* The five transitions of a request.
LEMMA RequestTransitions ==
    LET T(op) == RequireTransition("ConsultingRequest", TransitionId[op])
    IN  /\ T("startReview")   = Transition("WF-REQ-02", {"SUBMITTED"}, "UNDER_REVIEW")
        /\ T("accept")        = Transition("WF-REQ-03", {"UNDER_REVIEW"}, "ACCEPTED")
        /\ T("decline")       = Transition("WF-REQ-04", {"UNDER_REVIEW"}, "DECLINED")
        /\ T("startDelivery") = Transition("WF-REQ-05", {"ACCEPTED"}, "IN_PROGRESS")
        /\ T("complete")      = Transition("WF-REQ-06", {"IN_PROGRESS"}, "COMPLETED")
<1>1. Definition["ConsultingRequest"] = ConsultingRequest
  BY DEF Definition
<1>2. TransitionsOf("ConsultingRequest", "WF-REQ-02")
        = {Transition("WF-REQ-02", {"SUBMITTED"}, "UNDER_REVIEW")}
  BY <1>1 DEF TransitionsOf, ConsultingRequest, Lifecycle, Transition
<1>3. TransitionsOf("ConsultingRequest", "WF-REQ-03")
        = {Transition("WF-REQ-03", {"UNDER_REVIEW"}, "ACCEPTED")}
  BY <1>1 DEF TransitionsOf, ConsultingRequest, Lifecycle, Transition
<1>4. TransitionsOf("ConsultingRequest", "WF-REQ-04")
        = {Transition("WF-REQ-04", {"UNDER_REVIEW"}, "DECLINED")}
  BY <1>1 DEF TransitionsOf, ConsultingRequest, Lifecycle, Transition
<1>5. TransitionsOf("ConsultingRequest", "WF-REQ-05")
        = {Transition("WF-REQ-05", {"ACCEPTED"}, "IN_PROGRESS")}
  BY <1>1 DEF TransitionsOf, ConsultingRequest, Lifecycle, Transition
<1>6. TransitionsOf("ConsultingRequest", "WF-REQ-06")
        = {Transition("WF-REQ-06", {"IN_PROGRESS"}, "COMPLETED")}
  BY <1>1 DEF TransitionsOf, ConsultingRequest, Lifecycle, Transition
<1>7. /\ TransitionId["startReview"] = "WF-REQ-02" /\ TransitionId["accept"] = "WF-REQ-03"
      /\ TransitionId["decline"] = "WF-REQ-04" /\ TransitionId["startDelivery"] = "WF-REQ-05"
      /\ TransitionId["complete"] = "WF-REQ-06"
  BY DEF TransitionId
<1> QED
  BY <1>2, <1>3, <1>4, <1>5, <1>6, <1>7, Required

\* The four transitions of an assessment that has been created.
LEMMA AssessmentTransitions ==
    LET T(id) == RequireTransition("SecurityAssessment", id)
    IN  /\ T("WF-ASM-02") = Transition("WF-ASM-02", {"PLANNED"}, "IN_PROGRESS")
        /\ T("WF-ASM-03") = Transition("WF-ASM-03", {"IN_PROGRESS"}, "COMPLETED")
        /\ T("WF-ASM-04") = Transition("WF-ASM-04", {"PLANNED"}, "CANCELLED")
        /\ T("WF-ASM-05") = Transition("WF-ASM-05", {"IN_PROGRESS"}, "CANCELLED")
<1>1. Definition["SecurityAssessment"] = SecurityAssessment
  BY DEF Definition
<1>2. TransitionsOf("SecurityAssessment", "WF-ASM-02")
        = {Transition("WF-ASM-02", {"PLANNED"}, "IN_PROGRESS")}
  BY <1>1 DEF TransitionsOf, SecurityAssessment, Lifecycle, Transition
<1>3. TransitionsOf("SecurityAssessment", "WF-ASM-03")
        = {Transition("WF-ASM-03", {"IN_PROGRESS"}, "COMPLETED")}
  BY <1>1 DEF TransitionsOf, SecurityAssessment, Lifecycle, Transition
<1>4. TransitionsOf("SecurityAssessment", "WF-ASM-04")
        = {Transition("WF-ASM-04", {"PLANNED"}, "CANCELLED")}
  BY <1>1 DEF TransitionsOf, SecurityAssessment, Lifecycle, Transition
<1>5. TransitionsOf("SecurityAssessment", "WF-ASM-05")
        = {Transition("WF-ASM-05", {"IN_PROGRESS"}, "CANCELLED")}
  BY <1>1 DEF TransitionsOf, SecurityAssessment, Lifecycle, Transition
<1> QED
  BY <1>2, <1>3, <1>4, <1>5, Required

\* The states of the two lifecycles.
LEMMA States ==
    /\ Definition["ConsultingRequest"].states =
         {"SUBMITTED", "UNDER_REVIEW", "ACCEPTED", "DECLINED", "IN_PROGRESS", "COMPLETED"}
    /\ Definition["ConsultingRequest"].terminalStates = {"DECLINED", "COMPLETED"}
    /\ Definition["SecurityAssessment"].states =
         {"PLANNED", "IN_PROGRESS", "COMPLETED", "CANCELLED"}
<1>1. Definition["SecurityAssessment"] = SecurityAssessment
  BY DEF Definition
<1>2. Definition["ConsultingRequest"] = ConsultingRequest
  BY DEF Definition
<1> QED
  BY <1>1, <1>2 DEF ConsultingRequest, SecurityAssessment, Lifecycle

-----------------------------------------------------------------------------
(* The invariant.                                                          *)

\* Each section of a session's life belongs to the operations that go through it,
\* and a command is about something of the kind its operation needs.
Sections ==
    \A s \in Sessions :
        LET c == cmd[s]
        IN  /\ pc[s] \in {"lock", "check", "commit"} => c.op \in Locking
            /\ pc[s] = "snapshot" => c.op = "startDelivery"
            /\ pc[s] = "update" => c.op \in Reviews \cup {"startDelivery"}
            /\ c.op \in Ops => c.by \in Actors(c.op)
            /\ c.op = "assign" => c.on \in Consultants
            /\ c.op = "createScope" => c.on \in Windows
            /\ c.op \in AssessmentMoves => c.on \in Assessments /\ Exists(c.on)

\* What a handler has established before it writes.
Held(c) ==
    /\ c.read = Read(c)
    /\ c.op \notin {"assign", "createScope"} => Access(c)
    /\ c.op = "complete" => OnlyCompletedWork
    /\ c.op = "createAssessment" =>
          /\ request.status = "ACCEPTED" /\ request.consultant # None
          /\ \E i \in ScopeCurrent : scopes[i].window.covers
    /\ c.op \in {"startAssessment", "completeAssessment"} =>
          scopes[work[c.on].scope].current /\ scopes[work[c.on].scope].window.covers

\* It is still so when the handler commits.
StillTrue == \A s \in Sessions : pc[s] = "commit" => Held(cmd[s])

\* Nothing is assessed for a request that has not been accepted.
NoWorkBeforeAcceptance ==
    request.status \in {"SUBMITTED", "UNDER_REVIEW", "DECLINED"} =>
        \A a \in Assessments : ~Exists(a)

Shape == TypeOK /\ Sections

IInv ==
    /\ Shape
    /\ StillTrue
    /\ ScopeVersionsAreALine
    /\ CompletedMeansDone
    /\ ActiveAssignmentAgrees
    /\ NoWorkBeforeAcceptance

-----------------------------------------------------------------------------
(* Shape: types and sections.                                              *)

\* NoCommand is a command, and Unused is no assessment.
LEMMA Blanks ==
    /\ NoCommand \in Command
    /\ \A n \in Nat : Unused \notin Assessment(n)
    /\ \A n \in Nat : \A x \in Assessment(n) : x.status # New
    /\ "none" \notin Ops
<1>1. New \notin Definition["SecurityAssessment"].states
  BY States DEF New
<1>2. \A n \in Nat : \A x \in Assessment(n) : x.status # New
  BY <1>1 DEF Assessment
<1>3. \A n \in Nat : Unused \notin Assessment(n)
  BY <1>2 DEF Unused
<1>4. NoCommand \in Command
  BY DEF NoCommand, Command, NothingRead, Users
<1> QED
  BY <1>2, <1>3, <1>4 DEF Ops, Reviews, Locking, AssessmentMoves

\* A session that ends leaves the others as they were, and the lock free if it was
\* the one holding it.
LEMMA Ending ==
    ASSUME TypeOK, NEW s \in Sessions, End(s)
    PROVE  /\ pc' \in [Sessions -> {"idle", "lock", "check", "commit", "snapshot", "update"}]
           /\ cmd' \in [Sessions -> Command]
           /\ holder' \in Sessions \cup {None}
           /\ \A t \in Sessions : pc'[t] \in {"check", "commit"} <=> holder' = t
           /\ pc'[s] = "idle" /\ cmd'[s] = NoCommand
           /\ \A t \in Sessions \ {s} : pc'[t] = pc[t] /\ cmd'[t] = cmd[t]
  BY Blanks, EngagementAssumption DEF TypeOK, End

\* The sections of the other sessions, when the record of work only grows.
LEMMA EndingSections ==
    ASSUME Shape, NEW s \in Sessions, End(s),
           \A a \in Assessments : Exists(a) => Exists(a)'
    PROVE  Sections'
<1>1. /\ pc'[s] = "idle" /\ cmd'[s] = NoCommand
      /\ \A t \in Sessions \ {s} : pc'[t] = pc[t] /\ cmd'[t] = cmd[t]
  BY Ending DEF Shape
<1>2. NoCommand.op \notin Ops /\ NoCommand.op # "assign" /\ NoCommand.op # "createScope"
      /\ NoCommand.op \notin AssessmentMoves
  BY Blanks DEF NoCommand, AssessmentMoves
<1> QED
  BY <1>1, <1>2 DEF Shape, Sections

\* A request that has been moved on is a request.
LEMMA MovedRequest ==
    ASSUME TypeOK, NEW c, c.op \in DOMAIN TransitionId
    PROVE  /\ RequestMoved(c) \in [status : Definition["ConsultingRequest"].states,
                                   ver : Nat \ {0}, consultant : Consultants \cup {None}]
           /\ RequestMoved(c).consultant = request.consultant
           /\ RequestMoved(c).status =
                  RequireTransition("ConsultingRequest", TransitionId[c.op]).to
<1> DEFINE S == Definition["ConsultingRequest"].states
           C == Consultants \cup {None}
           t == RequireTransition("ConsultingRequest", TransitionId[c.op])
           y == [request EXCEPT !.status = t.to]
           z == [y EXCEPT !.ver = request.ver + 1]
<1>1. t.to \in S
  BY RequestTransitions, States DEF TransitionId, Transition
<1> HIDE DEF S, C, t
<1>2. request \in [status : S, ver : Nat \ {0}, consultant : C]
  BY DEF TypeOK, S, C
<1>3. y \in [status : S, ver : Nat \ {0}, consultant : C]
      /\ y.consultant = request.consultant /\ y.status = t.to
  BY <1>1, <1>2
<1> HIDE DEF y
<1>4. z \in [status : S, ver : Nat \ {0}, consultant : C]
      /\ z.consultant = request.consultant /\ z.status = t.to
  BY <1>2, <1>3
<1> QED
  BY <1>4 DEF RequestMoved, Moved, S, C, t, y

\* An assessment that has been moved on is an assessment, of the same consultant
\* and under the same scope version.
LEMMA MovedAssessment ==
    ASSUME NEW n \in Nat, NEW c, NEW x \in Assessment(n)
    PROVE  /\ Moved(x, MoveOf(c)) \in Assessment(n)
           /\ Moved(x, MoveOf(c)).consultant = x.consultant
           /\ Moved(x, MoveOf(c)).scope = x.scope
           /\ Moved(x, MoveOf(c)).status = MoveOf(c).to
<1> DEFINE S == Definition["SecurityAssessment"].states
           t == MoveOf(c)
           y == [x EXCEPT !.status = t.to]
           z == [y EXCEPT !.ver = x.ver + 1]
           Rec == [status : S, ver : Nat \ {0}, consultant : Consultants, scope : 1..n]
<1>1. t.to \in S
  BY AssessmentTransitions, States DEF MoveOf, Transition
<1>2. x \in Rec
  BY DEF Assessment
<1> HIDE DEF S, t
<1>3. y \in Rec /\ y.consultant = x.consultant /\ y.scope = x.scope /\ y.status = t.to
  BY <1>1, <1>2
<1> HIDE DEF y
<1>4. z \in Rec /\ z.consultant = x.consultant /\ z.scope = x.scope /\ z.status = t.to
  BY <1>2, <1>3
<1> QED
  BY <1>4 DEF Moved, Assessment, S, t, y

\* What a handler reads is of the types a command remembers.
LEMMA ReadType ==
    ASSUME Shape, NEW s \in Sessions, pc[s] = "check", Admits(cmd[s])
    PROVE  [cmd[s] EXCEPT !.read = Read(cmd[s])] \in Command
<1> DEFINE c == cmd[s]
           Reading == [status : Definition["SecurityAssessment"].states \cup {New},
                       consultant : Consultants \cup {None}, scope : Nat, latest : Nat]
<1>1. c \in Command
  BY DEF Shape, TypeOK
<1>2. c.op \in AssessmentMoves => work[c.on].status \in Definition["SecurityAssessment"].states
  BY DEF Shape, TypeOK, Sections, Exists, Unused, Assessment
<1>3. c.op = "createAssessment" => (CHOOSE i \in ScopeCurrent : TRUE) \in Nat
  <2>1. ScopeCurrent \subseteq Nat
    BY DEF ScopeCurrent, Shape, TypeOK
  <2>2. c.op = "createAssessment" => ScopeCurrent # {}
    BY DEF Admits, MayCreateAssessment
  <2> QED
    BY <2>1, <2>2
<1>4. scopes # <<>> => scopes[Len(scopes)].versionNo \in Nat
  <2>1. scopes \in Seq(ScopeVersion)
    BY DEF Shape, TypeOK
  <2>2. scopes # <<>> => Len(scopes) \in DOMAIN scopes
    BY <2>1
  <2>3. scopes # <<>> => scopes[Len(scopes)] \in ScopeVersion
    BY <2>1, <2>2
  <2> QED
    BY <2>3 DEF ScopeVersion
<1>5. request.consultant \in Consultants \cup {None}
  BY DEF Shape, TypeOK
<1>6. Read(c) \in Reading
  BY <1>2, <1>3, <1>4, <1>5 DEF Read
<1> QED
  BY <1>1, <1>6 DEF Command

\* A new assessment is made for a consultant, under a version that exists.
LEMMA NewAssessmentType ==
    ASSUME IInv, NEW s \in Sessions, pc[s] = "commit", cmd[s].op = "createAssessment"
    PROVE  /\ cmd[s].read.consultant = request.consultant
           /\ cmd[s].read.scope \in ScopeCurrent
           /\ [status |-> "PLANNED", ver |-> 1, consultant |-> cmd[s].read.consultant,
               scope |-> cmd[s].read.scope] \in Assessment(Len(scopes))
<1>1. /\ cmd[s].read = Read(cmd[s]) /\ request.consultant # None
      /\ ScopeCurrent # {}
  BY DEF IInv, StillTrue, Held
<1>2. /\ cmd[s].read.consultant = request.consultant
      /\ cmd[s].read.scope \in ScopeCurrent
  BY <1>1 DEF Read
<1>3. ScopeCurrent \subseteq 1..Len(scopes)
  BY DEF ScopeCurrent, IInv, Shape, TypeOK
<1>4. request.consultant \in Consultants
  BY <1>1 DEF IInv, Shape, TypeOK
<1>5. "PLANNED" \in Definition["SecurityAssessment"].states
  BY States
<1>6. cmd[s].read.scope \in 1..Len(scopes)
  BY <1>2, <1>3
<1> QED
  BY <1>2, <1>4, <1>5, <1>6 DEF Assessment

\* Appending the next version keeps the sequence of versions one, and moves no
\* assessment off its version.
LEMMA NewScopes ==
    ASSUME IInv, NEW s \in Sessions, pc[s] = "commit", CommitScope(s)
    PROVE  /\ scopes' \in Seq(ScopeVersion)
           /\ Len(scopes') = Len(scopes) + 1
           /\ \A i \in DOMAIN scopes : scopes'[i].versionNo = scopes[i].versionNo
                                        /\ scopes'[i].current = FALSE
           /\ scopes'[Len(scopes) + 1].versionNo = Len(scopes) + 1
           /\ scopes'[Len(scopes) + 1].current = TRUE
<1> DEFINE old == [i \in DOMAIN scopes |-> [scopes[i] EXCEPT !.current = FALSE]]
           new == [versionNo |-> cmd[s].read.latest + 1, window |-> cmd[s].on, current |-> TRUE]
<1>1. scopes \in Seq(ScopeVersion)
  BY DEF IInv, Shape, TypeOK
<1>2. cmd[s].on \in Windows /\ cmd[s].read = Read(cmd[s])
  BY DEF IInv, Shape, Sections, StillTrue, Held, CommitScope
<1>3. cmd[s].read.latest = Len(scopes)
  <2>1. CASE scopes = <<>>
    BY <1>2, <2>1 DEF Read
  <2>2. CASE scopes # <<>>
    <3>1. Len(scopes) \in DOMAIN scopes
      BY <1>1, <2>2
    <3>2. scopes[Len(scopes)].versionNo = Len(scopes)
      BY <3>1 DEF IInv, ScopeVersionsAreALine
    <3> QED
      BY <1>2, <2>2, <3>2 DEF Read
  <2> QED
    BY <2>1, <2>2
<1>4. new \in ScopeVersion /\ new.versionNo = Len(scopes) + 1 /\ new.current = TRUE
  BY <1>1, <1>2, <1>3 DEF ScopeVersion
<1>5. \A i \in DOMAIN scopes : /\ [scopes[i] EXCEPT !.current = FALSE] \in ScopeVersion
                               /\ [scopes[i] EXCEPT !.current = FALSE].versionNo = scopes[i].versionNo
                               /\ [scopes[i] EXCEPT !.current = FALSE].current = FALSE
  <2>1. ASSUME NEW x \in [versionNo : Nat \ {0}, window : Windows, current : BOOLEAN]
        PROVE  /\ [x EXCEPT !.current = FALSE]
                     \in [versionNo : Nat \ {0}, window : Windows, current : BOOLEAN]
               /\ [x EXCEPT !.current = FALSE].versionNo = x.versionNo
               /\ [x EXCEPT !.current = FALSE].current = FALSE
    OBVIOUS
  <2>2. \A i \in DOMAIN scopes : scopes[i] \in ScopeVersion
    BY <1>1
  <2> QED
    BY <2>1, <2>2 DEF ScopeVersion
<1>6. old \in Seq(ScopeVersion) /\ Len(old) = Len(scopes) /\ DOMAIN old = DOMAIN scopes
  BY <1>1, <1>5
<1>7. scopes' = Append(old, new)
  BY DEF CommitScope
<1>8. \A i \in DOMAIN scopes : old[i].versionNo = scopes[i].versionNo /\ old[i].current = FALSE
  BY <1>5
<1> HIDE DEF old, new
<1> QED
  BY <1>1, <1>4, <1>6, <1>7, <1>8

\* Every step keeps the shape.
LEMMA ShapeStep == IInv /\ [Next]_vars => Shape'
<1> SUFFICES ASSUME IInv, [Next]_vars PROVE Shape'
  OBVIOUS
<1>0. Shape /\ TypeOK /\ Sections
  BY DEF IInv, Shape
<1>1. CASE Tick
  <2>1. clock' \in 0..MaxClock
    BY <1>0, <1>1, EngagementAssumption DEF TypeOK, Tick
  <2> QED
    BY <1>0, <1>1, <2>1 DEF Shape, TypeOK, Sections, Tick, Exists
<1>2. ASSUME NEW s \in Sessions, Begin(s) PROVE Shape'
  <2>1. PICK op \in Ops : \E by \in Actors(op), on \in Targets(op) :
          LET c == [op |-> op, by |-> by, on |-> on, version |-> VersionOf(op, on),
                    read |-> NothingRead]
          IN  /\ cmd' = [cmd EXCEPT ![s] = c]
              /\ pc' = [pc EXCEPT ![s] = IF op \in Locking THEN "lock"
                                         ELSE IF op = "startDelivery" THEN "snapshot"
                                         ELSE "update"]
    BY <1>2 DEF Begin
  <2>2. PICK by \in Actors(op), on \in Targets(op) :
          LET c == [op |-> op, by |-> by, on |-> on, version |-> VersionOf(op, on),
                    read |-> NothingRead]
          IN  /\ cmd' = [cmd EXCEPT ![s] = c]
              /\ pc' = [pc EXCEPT ![s] = IF op \in Locking THEN "lock"
                                         ELSE IF op = "startDelivery" THEN "snapshot"
                                         ELSE "update"]
    BY <2>1
  <2> DEFINE c == [op |-> op, by |-> by, on |-> on, version |-> VersionOf(op, on),
                   read |-> NothingRead]
  <2>3. VersionOf(op, on) \in Nat
    <3>1. op \in AssessmentMoves => on \in Assessments
      BY DEF Targets, AssessmentMoves
    <3>2. \A a \in Assessments : work[a].ver \in Nat
      BY <1>0 DEF TypeOK, Unused, Assessment
    <3>3. request.ver \in Nat
      BY <1>0 DEF TypeOK
    <3> QED
      BY <3>1, <3>2, <3>3 DEF VersionOf
  <2>4. by \in Users /\ on \in Consultants \cup Windows \cup Assessments \cup {None}
    BY DEF Actors, Users, Targets
  <2>5. NothingRead \in [status : Definition["SecurityAssessment"].states \cup {New},
                        consultant : Consultants \cup {None}, scope : Nat, latest : Nat]
    BY DEF NothingRead
  <2>6. c \in Command
    BY <2>3, <2>4, <2>5 DEF Command
  <2>7. /\ cmd' \in [Sessions -> Command] /\ cmd'[s] = c
        /\ \A t \in Sessions \ {s} : cmd'[t] = cmd[t] /\ pc'[t] = pc[t]
        /\ pc'[s] = IF op \in Locking THEN "lock"
                    ELSE IF op = "startDelivery" THEN "snapshot" ELSE "update"
        /\ pc' \in [Sessions -> {"idle", "lock", "check", "commit", "snapshot", "update"}]
    BY <1>0, <2>2, <2>6 DEF TypeOK
  <2>8. UNCHANGED <<request, scopes, work, clock, holder>> /\ pc[s] = "idle"
    BY <1>2 DEF Begin
  <2>9. TypeOK'
    BY <1>0, <2>7, <2>8 DEF TypeOK
  <2>10. /\ op = "assign" => on \in Consultants
         /\ op = "createScope" => on \in Windows
         /\ op \in AssessmentMoves => on \in Assessments /\ Exists(on)
         /\ op \in Locking \cup Reviews \cup {"startDelivery"}
    BY DEF Targets, AssessmentMoves, Ops
  <2>11. Sections'
    BY <1>0, <2>7, <2>8, <2>10 DEF Sections, Exists
  <2> QED
    BY <2>9, <2>11 DEF Shape
<1>3. ASSUME NEW s \in Sessions, TakeLock(s) PROVE Shape'
  <2>1. holder = None /\ holder' = s /\ pc[s] = "lock" /\ pc' = [pc EXCEPT ![s] = "check"]
        /\ UNCHANGED <<request, scopes, work, clock, cmd>>
    BY <1>3 DEF TakeLock, Available
  <2>2. TypeOK'
    BY <1>0, <2>1, EngagementAssumption DEF TypeOK
  <2>3. Sections'
    BY <1>0, <2>1 DEF TypeOK, Sections, Exists
  <2> QED
    BY <2>2, <2>3 DEF Shape
<1>4. ASSUME NEW s \in Sessions, RollBack(s) PROVE Shape'
  <2>1. UNCHANGED <<request, scopes, work, clock>> /\ End(s)
    BY <1>4 DEF RollBack
  <2>2. TypeOK'
    BY <1>0, <2>1, Ending DEF TypeOK
  <2>3. Sections'
    BY <1>0, <2>1, EndingSections DEF Exists
  <2> QED
    BY <2>2, <2>3 DEF Shape
<1>5. ASSUME NEW s \in Sessions, Check(s) PROVE Shape'
  <2>1. CASE RollBack(s)
    BY <1>4, <2>1
  <2>2. CASE Admits(cmd[s]) /\ ~RollBack(s)
    <3>1. /\ cmd' = [cmd EXCEPT ![s] = [cmd[s] EXCEPT !.read = Read(cmd[s])]]
          /\ pc' = [pc EXCEPT ![s] = "commit"] /\ pc[s] = "check"
          /\ UNCHANGED <<request, scopes, work, clock, holder>>
      BY <1>0, <1>5, <2>2 DEF Check, TypeOK
    <3>2. [cmd[s] EXCEPT !.read = Read(cmd[s])] \in Command
      BY <1>0, <2>2, <3>1, ReadType
    <3>3. LET d == [cmd[s] EXCEPT !.read = Read(cmd[s])]
          IN  d.op = cmd[s].op /\ d.by = cmd[s].by /\ d.on = cmd[s].on
      BY <1>0 DEF TypeOK, Command
    <3>4. TypeOK'
      BY <1>0, <3>1, <3>2 DEF TypeOK
    <3>5. /\ cmd'[s].op = cmd[s].op /\ cmd'[s].by = cmd[s].by /\ cmd'[s].on = cmd[s].on
          /\ pc'[s] = "commit"
          /\ \A t \in Sessions \ {s} : cmd'[t] = cmd[t] /\ pc'[t] = pc[t]
      BY <1>0, <3>1, <3>3 DEF TypeOK
    <3>6. Sections'
      BY <1>0, <3>1, <3>5 DEF Sections, Exists
    <3> QED
      BY <3>4, <3>6 DEF Shape
  <2> QED
    BY <1>5, <2>1, <2>2 DEF Check
<1>6. ASSUME NEW s \in Sessions, Snapshot(s) PROVE Shape'
  <2>1. CASE RollBack(s)
    BY <1>4, <2>1
  <2>2. CASE ~RollBack(s)
    <3>1. /\ pc' = [pc EXCEPT ![s] = "update"] /\ pc[s] = "snapshot"
          /\ UNCHANGED <<request, scopes, work, clock, holder, cmd>>
      BY <1>6, <2>2 DEF Snapshot
    <3>2. TypeOK'
      BY <1>0, <3>1 DEF TypeOK
    <3>3. Sections'
      BY <1>0, <3>1 DEF TypeOK, Sections, Exists
    <3> QED
      BY <3>2, <3>3 DEF Shape
  <2> QED
    BY <2>1, <2>2
<1>7. ASSUME NEW s \in Sessions, Update(s) PROVE Shape'
  <2>1. cmd[s].op \in DOMAIN TransitionId
    BY <1>0, <1>7 DEF Sections, Update, TransitionId, Reviews
  <2>2. request' \in [status : Definition["ConsultingRequest"].states, ver : Nat \ {0},
                      consultant : Consultants \cup {None}]
    BY <1>0, <1>7, <2>1, MovedRequest DEF TypeOK, Update
  <2>3. End(s) /\ UNCHANGED <<scopes, work, clock>>
    BY <1>7 DEF Update
  <2>4. TypeOK'
    BY <1>0, <2>2, <2>3, Ending DEF TypeOK
  <2>5. Sections'
    BY <1>0, <2>3, EndingSections DEF Exists
  <2> QED
    BY <2>4, <2>5 DEF Shape
<1>8. ASSUME NEW s \in Sessions, CommitAssign(s) PROVE Shape'
  <2>1. cmd[s].on \in Consultants
    BY <1>0, <1>8 DEF Sections, CommitAssign
  <2>2. request' \in [status : Definition["ConsultingRequest"].states, ver : Nat \ {0},
                      consultant : Consultants \cup {None}]
    BY <1>0, <1>8, <2>1 DEF TypeOK, CommitAssign
  <2>3. \A a \in Assessments :
          /\ Reassigned(work[a], cmd[s].on) \in {Unused} \cup Assessment(Len(scopes))
          /\ Reassigned(work[a], cmd[s].on).status = work[a].status
    <3>1. ASSUME NEW n, NEW x \in Assessment(n)
          PROVE  /\ Reassigned(x, cmd[s].on) \in Assessment(n)
                 /\ Reassigned(x, cmd[s].on).status = x.status
      BY <2>1 DEF Reassigned, Assessment
    <3>2. Reassigned(Unused, cmd[s].on) = Unused
      BY DEF Reassigned, Unused, Active, New
    <3> QED
      BY <1>0, <3>1, <3>2 DEF TypeOK
  <2>4. End(s) /\ UNCHANGED <<scopes, clock>>
        /\ work' = [a \in Assessments |-> Reassigned(work[a], cmd[s].on)]
    BY <1>8 DEF CommitAssign
  <2>5. TypeOK'
    BY <1>0, <2>2, <2>3, <2>4, Ending DEF TypeOK
  <2>6. Sections'
    BY <1>0, <2>3, <2>4, EndingSections DEF Exists
  <2> QED
    BY <2>5, <2>6 DEF Shape
<1>9. ASSUME NEW s \in Sessions, CommitScope(s) PROVE Shape'
  <2>1. End(s) /\ UNCHANGED <<request, work, clock>> /\ pc[s] = "commit"
    BY <1>9 DEF CommitScope
  <2>2. scopes' \in Seq(ScopeVersion) /\ Len(scopes') = Len(scopes) + 1
    BY <1>9, <2>1, NewScopes
  <2>3. Len(scopes) \in Nat
    BY <1>0 DEF TypeOK
  <2>4. Assessment(Len(scopes)) \subseteq Assessment(Len(scopes'))
    BY <2>2, <2>3 DEF Assessment
  <2>5. TypeOK'
    BY <1>0, <2>1, <2>2, <2>4, Ending DEF TypeOK
  <2>6. Sections'
    BY <1>0, <2>1, EndingSections DEF Exists
  <2> QED
    BY <2>5, <2>6 DEF Shape
<1>10. ASSUME NEW s \in Sessions, CommitComplete(s) PROVE Shape'
  <2>1. request' \in [status : Definition["ConsultingRequest"].states, ver : Nat \ {0},
                      consultant : Consultants \cup {None}]
    BY <1>0, <1>10, MovedRequest DEF TypeOK, CommitComplete, TransitionId
  <2>2. End(s) /\ UNCHANGED <<scopes, work, clock>>
    BY <1>10 DEF CommitComplete
  <2>3. TypeOK'
    BY <1>0, <2>1, <2>2, Ending DEF TypeOK
  <2>4. Sections'
    BY <1>0, <2>2, EndingSections DEF Exists
  <2> QED
    BY <2>3, <2>4 DEF Shape
<1>11. ASSUME NEW s \in Sessions, CommitNewAssessment(s) PROVE Shape'
  <2> DEFINE new == [status |-> "PLANNED", ver |-> 1, consultant |-> cmd[s].read.consultant,
                     scope |-> cmd[s].read.scope]
  <2>1. new \in Assessment(Len(scopes))
    BY <1>11, NewAssessmentType DEF CommitNewAssessment
  <2>2. PICK a \in Assessments : ~Exists(a) /\ work' = [work EXCEPT ![a] = new]
    BY <1>11 DEF CommitNewAssessment
  <2>3. End(s) /\ UNCHANGED <<request, scopes, clock>>
    BY <1>11 DEF CommitNewAssessment
  <2> HIDE DEF new
  <2>4. TypeOK'
    BY <1>0, <2>1, <2>2, <2>3, Ending DEF TypeOK
  <2>5. \A b \in Assessments : Exists(b) => Exists(b)'
    BY <1>0, <2>2 DEF TypeOK, Exists
  <2>6. Sections'
    BY <1>0, <2>3, <2>5, EndingSections
  <2> QED
    BY <2>4, <2>6 DEF Shape
<1>12. ASSUME NEW s \in Sessions, CommitAssessment(s) PROVE Shape'
  <2> DEFINE c == cmd[s]
             new == Moved(work[c.on], MoveOf(c))
  <2>1. c.on \in Assessments /\ work[c.on] \in Assessment(Len(scopes))
    BY <1>0, <1>12 DEF Sections, TypeOK, CommitAssessment, Exists, Unused
  <2>2. new \in Assessment(Len(scopes))
    BY <1>0, <2>1, MovedAssessment DEF TypeOK
  <2>3. End(s) /\ UNCHANGED <<request, scopes, clock>>
        /\ work' = IF AssessmentMatches(c) THEN [work EXCEPT ![c.on] = new] ELSE work
    BY <1>12 DEF CommitAssessment
  <2> HIDE DEF new
  <2>4. TypeOK'
    BY <1>0, <2>2, <2>3, Ending DEF TypeOK
  <2>5. \A b \in Assessments : Exists(b) => Exists(b)'
    <3>1. new.status # New
      BY <1>0, <2>2, Blanks DEF TypeOK
    <3> QED
      BY <1>0, <2>1, <2>3, <3>1 DEF TypeOK, Exists
  <2>6. Sections'
    BY <1>0, <2>3, <2>5, EndingSections
  <2> QED
    BY <2>4, <2>6 DEF Shape
<1>13. CASE UNCHANGED vars
  BY <1>0, <1>13 DEF vars, Shape, TypeOK, Sections, Exists
<1> QED
  BY <1>1, <1>2, <1>3, <1>4, <1>5, <1>6, <1>7, <1>8, <1>9, <1>10, <1>11, <1>12, <1>13
     DEF Next, Progress, Commit, Abort

-----------------------------------------------------------------------------
(* What the row lock buys.                                                 *)

\* While a handler is between its checks and its writes, nobody else writes.
LEMMA HolderAlone ==
    ASSUME IInv, [Next]_vars, NEW t \in Sessions, pc[t] = "commit", pc'[t] = "commit"
    PROVE  UNCHANGED <<request, scopes, work>> /\ cmd'[t] = cmd[t]
<1>0. TypeOK /\ holder = t /\ holder # None
  BY EngagementAssumption DEF IInv, Shape, TypeOK
<1>1. ASSUME NEW s \in Sessions, End(s) PROVE s # t /\ cmd'[t] = cmd[t]
  BY <1>0, <1>1, Ending
<1>2. ASSUME NEW s \in Sessions, Commit(s) PROVE FALSE
  <2>1. pc[s] = "commit" /\ End(s)
    BY <1>2 DEF Commit, CommitAssign, CommitScope, CommitComplete, CommitNewAssessment,
                CommitAssessment
  <2> QED
    BY <1>0, <1>1, <2>1 DEF TypeOK
<1>3. ASSUME NEW s \in Sessions, Update(s) PROVE FALSE
  BY <1>0, <1>3 DEF Update
<1>4. ASSUME NEW s \in Sessions, RollBack(s)
      PROVE  UNCHANGED <<request, scopes, work>> /\ cmd'[t] = cmd[t]
  BY <1>1, <1>4 DEF RollBack
<1>5. ASSUME NEW s \in Sessions, Check(s) \/ Snapshot(s)
      PROVE  UNCHANGED <<request, scopes, work>> /\ cmd'[t] = cmd[t]
  BY <1>0, <1>4, <1>5 DEF Check, Snapshot, TypeOK
<1>6. ASSUME NEW s \in Sessions, Begin(s) \/ TakeLock(s)
      PROVE  UNCHANGED <<request, scopes, work>> /\ cmd'[t] = cmd[t]
  BY <1>0, <1>6 DEF Begin, TakeLock, TypeOK
<1>7. CASE Tick \/ UNCHANGED vars
  BY <1>7 DEF Tick, vars
<1> QED
  BY <1>2, <1>3, <1>4, <1>5, <1>6, <1>7 DEF Next, Progress, Abort

\* A session reaches its writes only by passing its checks.
LEMMA OnlyByChecking ==
    ASSUME IInv, [Next]_vars, NEW t \in Sessions, pc[t] # "commit", pc'[t] = "commit"
    PROVE  /\ Admits(cmd[t])
           /\ UNCHANGED <<request, scopes, work>>
           /\ cmd'[t] = [cmd[t] EXCEPT !.read = Read(cmd[t])]
<1>0. TypeOK
  BY DEF IInv, Shape
<1>1. ASSUME NEW s \in Sessions, End(s) PROVE FALSE
  BY <1>0, <1>1, Ending
<1>2. ASSUME NEW s \in Sessions, Commit(s) \/ Update(s) \/ RollBack(s) PROVE FALSE
  BY <1>1, <1>2 DEF Commit, CommitAssign, CommitScope, CommitComplete, CommitNewAssessment,
                    CommitAssessment, Update, RollBack
<1>3. ASSUME NEW s \in Sessions, Begin(s) PROVE FALSE
  <2>1. \A t2 \in Sessions : pc'[t2] # "commit" \/ pc'[t2] = pc[t2]
    BY <1>0, <1>3 DEF Begin, TypeOK
  <2> QED
    BY <2>1
<1>4. ASSUME NEW s \in Sessions, TakeLock(s) PROVE FALSE
  BY <1>0, <1>4 DEF TakeLock, TypeOK
<1>5. ASSUME NEW s \in Sessions, Snapshot(s) PROVE FALSE
  BY <1>0, <1>2, <1>5 DEF Snapshot, TypeOK
<1>6. ASSUME NEW s \in Sessions, Check(s)
      PROVE  /\ Admits(cmd[t])
             /\ UNCHANGED <<request, scopes, work>>
             /\ cmd'[t] = [cmd[t] EXCEPT !.read = Read(cmd[t])]
  <2>1. /\ Admits(cmd[s]) /\ pc' = [pc EXCEPT ![s] = "commit"]
        /\ cmd' = [cmd EXCEPT ![s] = [cmd[s] EXCEPT !.read = Read(cmd[s])]]
        /\ UNCHANGED <<request, scopes, work>>
    BY <1>0, <1>2, <1>6 DEF Check, TypeOK
  <2>2. s = t
    BY <1>0, <2>1 DEF TypeOK
  <2> QED
    BY <1>0, <2>1, <2>2 DEF TypeOK
<1>7. CASE Tick \/ UNCHANGED vars
  BY <1>7 DEF Tick, vars
<1> QED
  BY <1>2, <1>3, <1>4, <1>5, <1>6, <1>7 DEF Next, Progress, Abort

\* What has been established stays so while nobody writes.
LEMMA HeldStable ==
    ASSUME NEW c, Held(c), UNCHANGED <<request, scopes, work>>
    PROVE  Held(c)'
<1>1. ScopeCurrent' = ScopeCurrent
  BY DEF ScopeCurrent
<1>2. Read(c)' = Read(c)
  BY <1>1 DEF Read
<1>3. Access(c)' <=> Access(c)
  BY DEF Access
<1>4. OnlyCompletedWork' <=> OnlyCompletedWork
  BY DEF OnlyCompletedWork
<1> QED
  BY <1>1, <1>2, <1>3, <1>4 DEF Held

\* Passing the checks establishes it.
LEMMA HeldByChecking ==
    ASSUME NEW c \in Command, Admits(c)
    PROVE  Held([c EXCEPT !.read = Read(c)])
<1> DEFINE d == [c EXCEPT !.read = Read(c)]
<1>1. d.op = c.op /\ d.by = c.by /\ d.on = c.on /\ d.read = Read(c)
  BY DEF Command
<1> HIDE DEF d
<1>2. d.read = Read(d)
  BY <1>1 DEF Read
<1>3. d.op \notin {"assign", "createScope"} => Access(d)
  BY <1>1 DEF Admits, Access
<1>4. d.op = "complete" => OnlyCompletedWork
  BY <1>1 DEF Admits
<1>5. d.op = "createAssessment" =>
        /\ request.status = "ACCEPTED" /\ request.consultant # None
        /\ \E i \in ScopeCurrent : scopes[i].window.covers
  BY <1>1 DEF Admits, MayCreateAssessment, ScopeCovers
<1>6. d.op \in {"startAssessment", "completeAssessment"} =>
        scopes[work[d.on].scope].current /\ scopes[work[d.on].scope].window.covers
  BY <1>1 DEF Admits, ScopeCovers, ScopeValid
<1>7. Held(d)
  BY <1>2, <1>3, <1>4, <1>5, <1>6 DEF Held
<1> QED
  BY <1>7 DEF d

\* What was found under the lock is still so, after any step.
LEMMA StillTrueStep == IInv /\ [Next]_vars => StillTrue'
<1> SUFFICES ASSUME IInv, [Next]_vars, NEW t \in Sessions, pc'[t] = "commit"
             PROVE  Held(cmd[t])'
  BY DEF StillTrue
<1>1. UNCHANGED <<request, scopes, work>>
  BY HolderAlone, OnlyByChecking
<1>2. PICK d : cmd'[t] = d /\ Held(d)
  <2>1. CASE pc[t] = "commit"
    BY <2>1, HolderAlone DEF IInv, StillTrue
  <2>2. CASE pc[t] # "commit"
    BY <2>2, OnlyByChecking, HeldByChecking DEF IInv, Shape, TypeOK
  <2> QED
    BY <2>1, <2>2
<1>3. Held(d)'
  BY <1>1, <1>2, HeldStable
<1> QED
  BY <1>2, <1>3

-----------------------------------------------------------------------------
(* The invariants of the engagement.                                       *)

\* Only a commit, or a single UPDATE, writes.
LEMMA Writers ==
    ASSUME [Next]_vars
    PROVE  \/ UNCHANGED <<request, scopes, work>>
           \/ \E s \in Sessions : Update(s) \/ Commit(s)
  BY DEF Next, vars, Tick, Begin, TakeLock, Progress, Check, Snapshot, Abort, RollBack

\* What a single UPDATE does to the request.
LEMMA UpdateMoves ==
    ASSUME IInv, NEW s \in Sessions, Update(s)
    PROVE  /\ UNCHANGED <<scopes, work>>
           /\ request'.consultant = request.consultant
           /\ \/ request' = request
              \/ request.status = "SUBMITTED" /\ request'.status = "UNDER_REVIEW"
              \/ request.status = "UNDER_REVIEW" /\ request'.status \in {"ACCEPTED", "DECLINED"}
              \/ request.status = "ACCEPTED" /\ request'.status = "IN_PROGRESS"
<1>1. cmd[s].op \in {"startReview", "accept", "decline", "startDelivery"}
  BY DEF IInv, Shape, Sections, Update, Reviews
<1>2. TypeOK /\ cmd[s].op \in DOMAIN TransitionId
  BY <1>1 DEF IInv, Shape, TransitionId
<1>3. CASE ~RequestMatches(cmd[s])
  BY <1>3 DEF Update
<1>4. CASE RequestMatches(cmd[s])
  <2>1. /\ request'.consultant = request.consultant
        /\ request'.status = RequireTransition("ConsultingRequest", TransitionId[cmd[s].op]).to
    BY <1>2, <1>4, MovedRequest DEF Update
  <2>2. request.status \in RequireTransition("ConsultingRequest", TransitionId[cmd[s].op]).from
    BY <1>4 DEF RequestMatches
  <2> QED
    BY <1>1, <2>1, <2>2, RequestTransitions DEF Transition, Update
<1> QED
  BY <1>3, <1>4

\* What completing a request does to it.
LEMMA CompleteMoves ==
    ASSUME IInv, NEW s \in Sessions, CommitComplete(s)
    PROVE  /\ UNCHANGED <<scopes, work>>
           /\ request'.consultant = request.consultant
           /\ \/ request' = request
              \/ /\ request.status = "IN_PROGRESS" /\ request'.status = "COMPLETED"
                 /\ OnlyCompletedWork
<1>1. cmd[s].op = "complete" /\ TypeOK
  BY DEF IInv, Shape, CommitComplete
<1>2. CASE RequestMatches(cmd[s]) /\ OnlyCompletedWork
  <2>1. /\ request'.consultant = request.consultant
        /\ request'.status = RequireTransition("ConsultingRequest", TransitionId["complete"]).to
    BY <1>1, <1>2, MovedRequest DEF CommitComplete, TransitionId
  <2>2. request.status \in RequireTransition("ConsultingRequest", TransitionId["complete"]).from
    BY <1>1, <1>2 DEF RequestMatches
  <2> QED
    BY <1>2, <2>1, <2>2, RequestTransitions DEF Transition, CommitComplete
<1> QED
  BY <1>2 DEF CommitComplete

\* A reassignment moves no state.
LEMMA AssignMoves ==
    ASSUME IInv, NEW s \in Sessions, CommitAssign(s)
    PROVE  /\ request'.status = request.status /\ request'.consultant = cmd[s].on
           /\ UNCHANGED scopes
           /\ \A a \in Assessments :
                 /\ work'[a].status = work[a].status
                 /\ work[a].status \in Active => work'[a].consultant = cmd[s].on
<1>1. TypeOK
  BY DEF IInv, Shape
<1>2. ASSUME NEW n, NEW x \in Assessment(n)
      PROVE  /\ Reassigned(x, cmd[s].on).status = x.status
             /\ x.status \in Active => Reassigned(x, cmd[s].on).consultant = cmd[s].on
  BY DEF Reassigned, Assessment
<1>3. Reassigned(Unused, cmd[s].on) = Unused /\ Unused.status \notin Active
  BY DEF Reassigned, Unused, Active, New
<1>4. \A a \in Assessments : work'[a] = Reassigned(work[a], cmd[s].on)
  BY DEF CommitAssign
<1>5. request'.status = request.status /\ request'.consultant = cmd[s].on
  BY <1>1 DEF TypeOK, CommitAssign
<1> QED
  BY <1>1, <1>2, <1>3, <1>4, <1>5 DEF TypeOK, CommitAssign

\* What an assessment command does to the work.
LEMMA AssessmentMoved ==
    ASSUME IInv, NEW s \in Sessions, CommitAssessment(s)
    PROVE  /\ UNCHANGED <<request, scopes>>
           /\ \/ work' = work
              \/ LET a == cmd[s].on
                 IN  /\ a \in Assessments /\ work[a].status \in Active
                     /\ work'[a].consultant = work[a].consultant
                     /\ work'[a].scope = work[a].scope
                     /\ work'[a].status \in {"IN_PROGRESS", "COMPLETED", "CANCELLED"}
                     /\ work'[a].status # "CANCELLED" =>
                           cmd[s].op \in {"startAssessment", "completeAssessment"}
                     /\ \A b \in Assessments \ {a} : work'[b] = work[b]
<1> DEFINE c == cmd[s]
           a == c.on
           new == Moved(work[a], MoveOf(c))
<1>1. TypeOK /\ c.op \in AssessmentMoves /\ a \in Assessments /\ Exists(a)
  BY DEF IInv, Shape, Sections, CommitAssessment
<1>2. work[a] \in Assessment(Len(scopes)) /\ Len(scopes) \in Nat
  BY <1>1 DEF TypeOK, Exists, Unused
<1>3. CASE ~AssessmentMatches(c)
  BY <1>3 DEF CommitAssessment
<1>4. CASE AssessmentMatches(c)
  <2>1. work[a].status \in MoveOf(c).from
    BY <1>4 DEF AssessmentMatches
  <2>2. /\ MoveOf(c).from \subseteq Active
        /\ MoveOf(c).to \in {"IN_PROGRESS", "COMPLETED", "CANCELLED"}
        /\ MoveOf(c).to # "CANCELLED" => c.op \in {"startAssessment", "completeAssessment"}
    BY AssessmentTransitions DEF MoveOf, Transition, Active
  <2>3. /\ new.consultant = work[a].consultant /\ new.scope = work[a].scope
        /\ new.status = MoveOf(c).to
    BY <1>2, MovedAssessment
  <2>4. work' = [work EXCEPT ![a] = new] /\ UNCHANGED <<request, scopes>>
    BY <1>4 DEF CommitAssessment
  <2> HIDE DEF new
  <2> QED
    BY <1>1, <2>1, <2>2, <2>3, <2>4 DEF TypeOK
<1> QED
  BY <1>3, <1>4

\* Every step preserves the invariants.
LEMMA IInvStep == IInv /\ [Next]_vars => IInv'
<1> SUFFICES ASSUME IInv, [Next]_vars PROVE IInv'
  OBVIOUS
<1> DEFINE Rest == /\ ScopeVersionsAreALine /\ CompletedMeansDone
                   /\ ActiveAssignmentAgrees /\ NoWorkBeforeAcceptance
<1>1. Shape' /\ StillTrue'
  BY ShapeStep, StillTrueStep
<1>2. CASE UNCHANGED <<request, scopes, work>>
  <2>1. Rest'
    BY <1>2 DEF IInv, ScopeVersionsAreALine, CompletedMeansDone, OnlyCompletedWork,
                ActiveAssignmentAgrees, NoWorkBeforeAcceptance, Exists
  <2> QED
    BY <1>1, <2>1 DEF IInv
<1>3. ASSUME NEW s \in Sessions, Update(s) PROVE Rest'
  <2>1. UNCHANGED <<scopes, work>> /\ request'.consultant = request.consultant
    BY <1>3, UpdateMoves
  <2>2. CompletedMeansDone' /\ NoWorkBeforeAcceptance'
    BY <1>3, <2>1, UpdateMoves
       DEF IInv, CompletedMeansDone, OnlyCompletedWork, NoWorkBeforeAcceptance, Exists
  <2>3. ScopeVersionsAreALine' /\ ActiveAssignmentAgrees'
    BY <2>1 DEF IInv, ScopeVersionsAreALine, ActiveAssignmentAgrees
  <2> QED
    BY <2>2, <2>3
<1>4. ASSUME NEW s \in Sessions, CommitComplete(s) PROVE Rest'
  <2>1. UNCHANGED <<scopes, work>> /\ request'.consultant = request.consultant
    BY <1>4, CompleteMoves
  <2>2. CompletedMeansDone' /\ NoWorkBeforeAcceptance'
    BY <1>4, <2>1, CompleteMoves
       DEF IInv, CompletedMeansDone, OnlyCompletedWork, NoWorkBeforeAcceptance, Exists
  <2>3. ScopeVersionsAreALine' /\ ActiveAssignmentAgrees'
    BY <2>1 DEF IInv, ScopeVersionsAreALine, ActiveAssignmentAgrees
  <2> QED
    BY <2>2, <2>3
<1>5. ASSUME NEW s \in Sessions, CommitAssign(s) PROVE Rest'
  BY <1>5, AssignMoves
     DEF IInv, ScopeVersionsAreALine, CompletedMeansDone, OnlyCompletedWork,
         ActiveAssignmentAgrees, NoWorkBeforeAcceptance, Exists
<1>6. ASSUME NEW s \in Sessions, CommitScope(s) PROVE Rest'
  <2>1. UNCHANGED <<request, work>> /\ pc[s] = "commit"
    BY <1>6 DEF CommitScope
  <2>2. /\ scopes \in Seq(ScopeVersion) /\ scopes' \in Seq(ScopeVersion)
        /\ Len(scopes') = Len(scopes) + 1
    BY <1>6, <2>1, NewScopes DEF IInv, Shape, TypeOK
  <2>3. ScopeVersionsAreALine'
    <3> SUFFICES ASSUME NEW i \in DOMAIN scopes'
                 PROVE  scopes'[i].versionNo = i
                        /\ (scopes'[i].current <=> i = Len(scopes'))
      BY DEF ScopeVersionsAreALine
    <3>1. CASE i = Len(scopes) + 1
      BY <1>6, <2>1, <2>2, <3>1, NewScopes
    <3>2. CASE i # Len(scopes) + 1
      <4>1. i \in DOMAIN scopes /\ i # Len(scopes')
        BY <2>2, <3>2
      <4> QED
        BY <1>6, <2>1, <4>1, NewScopes DEF IInv, ScopeVersionsAreALine
    <3> QED
      BY <3>1, <3>2
  <2>4. CompletedMeansDone' /\ ActiveAssignmentAgrees' /\ NoWorkBeforeAcceptance'
    BY <2>1 DEF IInv, CompletedMeansDone, OnlyCompletedWork, ActiveAssignmentAgrees,
                NoWorkBeforeAcceptance, Exists
  <2> QED
    BY <2>3, <2>4
<1>7. ASSUME NEW s \in Sessions, CommitNewAssessment(s) PROVE Rest'
  <2>1. /\ UNCHANGED <<request, scopes>> /\ pc[s] = "commit"
        /\ cmd[s].op = "createAssessment"
    BY <1>7 DEF CommitNewAssessment
  <2>2. request.status = "ACCEPTED"
    BY <2>1 DEF IInv, StillTrue, Held
  <2>3. cmd[s].read.consultant = request.consultant
    BY <2>1, NewAssessmentType
  <2>4. PICK a \in Assessments :
          work' = [work EXCEPT ![a] = [status |-> "PLANNED", ver |-> 1,
                     consultant |-> cmd[s].read.consultant, scope |-> cmd[s].read.scope]]
    BY <1>7 DEF CommitNewAssessment
  <2>5. /\ work'[a].consultant = request.consultant
        /\ \A b \in Assessments \ {a} : work'[b] = work[b]
    BY <2>3, <2>4 DEF IInv, Shape, TypeOK
  <2> QED
    BY <2>1, <2>2, <2>5
       DEF IInv, ScopeVersionsAreALine, CompletedMeansDone, ActiveAssignmentAgrees,
           NoWorkBeforeAcceptance
<1>8. ASSUME NEW s \in Sessions, CommitAssessment(s) PROVE Rest'
  <2>1. CASE work' = work
    BY <1>8, <2>1, AssessmentMoved
       DEF IInv, ScopeVersionsAreALine, CompletedMeansDone, OnlyCompletedWork,
           ActiveAssignmentAgrees, NoWorkBeforeAcceptance, Exists
  <2>2. CASE work' # work
    <3>1. /\ UNCHANGED <<request, scopes>>
          /\ cmd[s].on \in Assessments /\ work[cmd[s].on].status \in Active
          /\ work'[cmd[s].on].consultant = work[cmd[s].on].consultant
          /\ \A b \in Assessments \ {cmd[s].on} : work'[b] = work[b]
      BY <1>8, <2>2, AssessmentMoved
    <3>2. request.status # "COMPLETED"
      BY <3>1 DEF IInv, CompletedMeansDone, OnlyCompletedWork
    <3>3. request.status \notin {"SUBMITTED", "UNDER_REVIEW", "DECLINED"}
      BY <3>1 DEF IInv, NoWorkBeforeAcceptance, Exists, Active, New
    <3> QED
      BY <3>1, <3>2, <3>3
         DEF IInv, ScopeVersionsAreALine, CompletedMeansDone, ActiveAssignmentAgrees,
             NoWorkBeforeAcceptance
  <2> QED
    BY <2>1, <2>2
<1>9. Rest' => IInv'
  BY <1>1 DEF IInv
<1> QED
  BY <1>2, <1>3, <1>4, <1>5, <1>6, <1>7, <1>8, <1>9, Writers DEF Commit

\* Initially nothing has been authorised or planned.
LEMMA IInvInit == Init => IInv
<1> SUFFICES ASSUME Init PROVE IInv
  OBVIOUS
<1>1. TypeOK
  BY Blanks, States, EngagementAssumption DEF Init, TypeOK
<1>2. Sections
  BY Blanks DEF Init, Sections, NoCommand, AssessmentMoves
<1>3. StillTrue /\ ScopeVersionsAreALine /\ CompletedMeansDone
  BY DEF Init, StillTrue, ScopeVersionsAreALine, CompletedMeansDone
<1>4. ActiveAssignmentAgrees /\ NoWorkBeforeAcceptance
  BY DEF Init, ActiveAssignmentAgrees, NoWorkBeforeAcceptance, Exists, Unused, Active, New
<1> QED
  BY <1>1, <1>2, <1>3, <1>4 DEF IInv, Shape

-----------------------------------------------------------------------------
(* The theorems.                                                           *)

\* The invariant holds throughout.
LEMMA Invariance == Spec => []IInv
  BY IInvInit, IInvStep, PTL DEF Spec

\* The state keeps its shape, and the row lock has one holder at a time.
THEOREM TypeCorrect == Spec => []TypeOK
<1>1. IInv => TypeOK
  BY DEF IInv, Shape
<1> QED
  BY <1>1, Invariance, PTL

\* However many confirmations race, the authorisation has one current version, the
\* newest, and its versions are numbered in one line.
THEOREM OneLineOfVersions == Spec => []ScopeVersionsAreALine
<1>1. IInv => ScopeVersionsAreALine
  BY DEF IInv
<1> QED
  BY <1>1, Invariance, PTL

\* No request is completed over unfinished work.
THEOREM Done == Spec => []CompletedMeansDone
<1>1. IInv => CompletedMeansDone
  BY DEF IInv
<1> QED
  BY <1>1, Invariance, PTL

\* The two assignment columns never disagree about work under way.
THEOREM Agreement == Spec => []ActiveAssignmentAgrees
<1>1. IInv => ActiveAssignmentAgrees
  BY DEF IInv
<1> QED
  BY <1>1, Invariance, PTL

\* A closed engagement never moves again.
THEOREM Frozen == Spec => ClosedIsFrozen
<1> DEFINE A == request.status \in Definition["ConsultingRequest"].terminalStates =>
                  /\ request'.status = request.status
                  /\ \A a \in Assessments : work'[a].status = work[a].status
<1>1. IInv /\ [Next]_vars => A
  <2> SUFFICES ASSUME IInv, [Next]_vars, request.status \in {"DECLINED", "COMPLETED"}
               PROVE  /\ request'.status = request.status
                      /\ \A a \in Assessments : work'[a].status = work[a].status
    BY States
  <2>1. \A a \in Assessments : work[a].status \notin Active
    BY DEF IInv, CompletedMeansDone, OnlyCompletedWork, NoWorkBeforeAcceptance, Exists,
           Active, New
  <2>2. ASSUME NEW s \in Sessions, CommitNewAssessment(s) PROVE FALSE
    BY <2>2 DEF IInv, StillTrue, Held, CommitNewAssessment
  <2>3. ASSUME NEW s \in Sessions, CommitAssessment(s)
        PROVE  UNCHANGED <<request, work>>
    BY <2>1, <2>3, AssessmentMoved
  <2>4. ASSUME NEW s \in Sessions, Update(s) \/ CommitComplete(s)
        PROVE  UNCHANGED work /\ request'.status = request.status
    BY <2>4, UpdateMoves, CompleteMoves
  <2>5. ASSUME NEW s \in Sessions, CommitAssign(s) \/ CommitScope(s)
        PROVE  /\ request'.status = request.status
               /\ \A a \in Assessments : work'[a].status = work[a].status
    BY <2>5, AssignMoves DEF CommitScope
  <2> QED
    BY <2>2, <2>3, <2>4, <2>5, Writers DEF Commit
<1> QED
  BY <1>1, Invariance, PTL DEF Spec, ClosedIsFrozen

\* Technical work moves only under the authorisation current at that moment.
THEOREM Authorised == Spec => TechnicalWorkIsAuthorised
<1> DEFINE A == \A a \in Assessments :
          work'[a].status # work[a].status /\ work'[a].status # "CANCELLED"
              => LET i == work'[a].scope
                 IN  scopes[i].current /\ scopes[i].window.covers
<1>1. IInv /\ [Next]_vars => A
  <2> SUFFICES ASSUME IInv, [Next]_vars, NEW a \in Assessments,
                      work'[a].status # work[a].status, work'[a].status # "CANCELLED"
               PROVE  scopes[work'[a].scope].current /\ scopes[work'[a].scope].window.covers
    OBVIOUS
  <2>1. ASSUME NEW s \in Sessions, CommitNewAssessment(s)
        PROVE  scopes[work'[a].scope].current /\ scopes[work'[a].scope].window.covers
    <3>1. pc[s] = "commit" /\ cmd[s].op = "createAssessment"
      BY <2>1 DEF CommitNewAssessment
    <3>2. PICK b \in Assessments :
            work' = [work EXCEPT ![b] = [status |-> "PLANNED", ver |-> 1,
                       consultant |-> cmd[s].read.consultant, scope |-> cmd[s].read.scope]]
      BY <2>1 DEF CommitNewAssessment
    <3>3. work'[a].scope = cmd[s].read.scope
      BY <3>2 DEF IInv, Shape, TypeOK
    <3>4. cmd[s].read.scope \in ScopeCurrent
      BY <3>1, NewAssessmentType
    <3>5. \A i, j \in ScopeCurrent : i = j
      BY DEF IInv, ScopeVersionsAreALine, ScopeCurrent
    <3>6. \E i \in ScopeCurrent : scopes[i].window.covers
      BY <3>1 DEF IInv, StillTrue, Held
    <3> QED
      BY <3>3, <3>4, <3>5, <3>6 DEF ScopeCurrent
  <2>2. ASSUME NEW s \in Sessions, CommitAssessment(s)
        PROVE  scopes[work'[a].scope].current /\ scopes[work'[a].scope].window.covers
    <3>1. /\ a = cmd[s].on /\ work'[a].scope = work[a].scope
          /\ cmd[s].op \in {"startAssessment", "completeAssessment"}
      BY <2>2, AssessmentMoved
    <3>2. Held(cmd[s])
      BY <2>2 DEF IInv, StillTrue, CommitAssessment
    <3> QED
      BY <3>1, <3>2 DEF Held
  <2>3. ASSUME NEW s \in Sessions,
               Update(s) \/ CommitComplete(s) \/ CommitAssign(s) \/ CommitScope(s)
        PROVE  FALSE
    BY <2>3, UpdateMoves, CompleteMoves, AssignMoves DEF CommitScope
  <2> QED
    BY <2>1, <2>2, <2>3, Writers DEF Commit
<1> QED
  BY <1>1, Invariance, PTL DEF Spec, TechnicalWorkIsAuthorised

\* A reassignment that commits first is observed by whoever finishes the request or
\* moves an assessment afterwards.
THEOREM Observed == Spec => ReassignmentIsObserved
<1> DEFINE A == \A s \in Sessions :
          pc[s] = "commit" /\ cmd[s].by \in Consultants
              /\ <<request, work>>' # <<request, work>> /\ cmd'[s] = NoCommand
              => cmd[s].by = request.consultant
<1>1. IInv /\ [Next]_vars => A
  <2> SUFFICES ASSUME IInv, NEW s \in Sessions, pc[s] = "commit", cmd[s].by \in Consultants
               PROVE  cmd[s].by = request.consultant
    OBVIOUS
  <2>1. cmd[s].op \in Locking /\ cmd[s].by \in Actors(cmd[s].op)
    BY DEF IInv, Shape, Sections, Ops
  <2>2. cmd[s].op \notin {"assign", "createScope"}
    BY <2>1, EngagementAssumption DEF Actors
  <2> QED
    BY <2>2 DEF IInv, StillTrue, Held, Access
<1> QED
  BY <1>1, Invariance, PTL DEF Spec, ReassignmentIsObserved

-----------------------------------------------------------------------------
(* The rows and the registry.                                              *)

RequestRow == INSTANCE RegisteredRow WITH
    Entity <- ConsultingRequest, Absent <- New, First <- "SUBMITTED",
    status <- request.status, version <- request.ver

AssessmentRow(a) == INSTANCE RegisteredRow WITH
    Entity <- SecurityAssessment, Absent <- New, First <- New,
    status <- work[a].status, version <- work[a].ver

\* Each command asks for a transition the registry has.
LEMMA CommandsAreRegistered ==
    /\ \A op \in DOMAIN TransitionId :
          RequireTransition("ConsultingRequest", TransitionId[op]) \in ConsultingRequest.transitions
    /\ \A c : MoveOf(c) \in SecurityAssessment.transitions
    /\ \E t \in SecurityAssessment.transitions : t.from = {} /\ t.to = "PLANNED"
<1>1. \A op \in DOMAIN TransitionId :
         RequireTransition("ConsultingRequest", TransitionId[op]) \in ConsultingRequest.transitions
  <2>1. DOMAIN TransitionId = {"startReview", "accept", "decline", "startDelivery", "complete"}
    BY DEF TransitionId
  <2>2. /\ Transition("WF-REQ-02", {"SUBMITTED"}, "UNDER_REVIEW") \in ConsultingRequest.transitions
        /\ Transition("WF-REQ-03", {"UNDER_REVIEW"}, "ACCEPTED") \in ConsultingRequest.transitions
        /\ Transition("WF-REQ-04", {"UNDER_REVIEW"}, "DECLINED") \in ConsultingRequest.transitions
        /\ Transition("WF-REQ-05", {"ACCEPTED"}, "IN_PROGRESS") \in ConsultingRequest.transitions
        /\ Transition("WF-REQ-06", {"IN_PROGRESS"}, "COMPLETED") \in ConsultingRequest.transitions
    BY DEF ConsultingRequest, Lifecycle
  <2> QED
    BY <2>1, <2>2, RequestTransitions
<1>2. \A c : MoveOf(c) \in SecurityAssessment.transitions
  <2>1. /\ Transition("WF-ASM-02", {"PLANNED"}, "IN_PROGRESS") \in SecurityAssessment.transitions
        /\ Transition("WF-ASM-03", {"IN_PROGRESS"}, "COMPLETED") \in SecurityAssessment.transitions
        /\ Transition("WF-ASM-04", {"PLANNED"}, "CANCELLED") \in SecurityAssessment.transitions
        /\ Transition("WF-ASM-05", {"IN_PROGRESS"}, "CANCELLED") \in SecurityAssessment.transitions
    BY DEF SecurityAssessment, Lifecycle
  <2> QED
    BY <2>1, AssessmentTransitions DEF MoveOf
<1>3. \E t \in SecurityAssessment.transitions : t.from = {} /\ t.to = "PLANNED"
  BY DEF SecurityAssessment, Lifecycle, Transition
<1> QED
  BY <1>1, <1>2, <1>3

\* The request's row is moved by a command, or left alone.
LEMMA RequestFollows ==
    ASSUME IInv, [Next]_vars
    PROVE  RequestRow!RowNext \/ UNCHANGED RequestRow!row
<1> DEFINE t(c) == RequireTransition("ConsultingRequest", TransitionId[c.op])
<1>1. TypeOK
  BY DEF IInv, Shape
<1>2. ASSUME NEW c, c.op \in DOMAIN TransitionId, RequestMatches(c), request' = RequestMoved(c)
      PROVE  RequestRow!RowNext
  <2>1. t(c) \in ConsultingRequest.transitions
    BY <1>2, CommandsAreRegistered
  <2>2. request.status \in t(c).from
    BY <1>2 DEF RequestMatches
  <2> HIDE DEF t
  <2>3. request' = Moved(request, t(c))
    BY <1>2 DEF RequestMoved, t
  <2>4. request'.status = t(c).to /\ request'.ver = request.ver + 1
    BY <1>1, <2>3 DEF Moved, TypeOK
  <2> QED
    BY <2>1, <2>2, <2>4 DEF RequestRow!RowNext, RequestRow!Move
<1>3. ASSUME NEW s \in Sessions, Update(s), request' # request
      PROVE  RequestRow!RowNext
  <2>1. cmd[s].op \in DOMAIN TransitionId
    BY <1>3 DEF IInv, Shape, Sections, Update, Reviews, TransitionId
  <2> QED
    BY <1>2, <1>3, <2>1 DEF Update
<1>4. ASSUME NEW s \in Sessions, CommitComplete(s), request' # request
      PROVE  RequestRow!RowNext
  <2>1. cmd[s].op \in DOMAIN TransitionId
    BY <1>4 DEF CommitComplete, TransitionId
  <2> QED
    BY <1>2, <1>4, <2>1 DEF CommitComplete
<1>5. ASSUME NEW s \in Sessions, CommitAssign(s)
      PROVE  UNCHANGED RequestRow!row
  BY <1>1, <1>5 DEF CommitAssign, TypeOK, RequestRow!row
<1>6. CASE UNCHANGED request
  BY <1>6 DEF RequestRow!row
<1> QED
  BY <1>3, <1>4, <1>5, <1>6, Writers
  DEF Commit, CommitScope, CommitNewAssessment, CommitAssessment

\* An assessment is created planned; a command moves it, a reassignment does not.
LEMMA AssessmentFollows ==
    ASSUME IInv, [Next]_vars, NEW a \in Assessments
    PROVE  AssessmentRow(a)!RowNext \/ UNCHANGED AssessmentRow(a)!row
<1>1. TypeOK /\ work[a] \in {Unused} \cup Assessment(Len(scopes))
  BY DEF IInv, Shape, TypeOK
<1>2. ASSUME NEW s \in Sessions, CommitNewAssessment(s), work'[a] # work[a]
      PROVE  AssessmentRow(a)!RowNext
  <2>1. ~Exists(a) /\ work'[a].status = "PLANNED" /\ work'[a].ver = 1
    BY <1>1, <1>2 DEF CommitNewAssessment, TypeOK
  <2> QED
    BY <2>1, CommandsAreRegistered
    DEF Exists, AssessmentRow!RowNext, AssessmentRow!Create
<1>3. ASSUME NEW s \in Sessions, CommitAssessment(s), work'[a] # work[a]
      PROVE  AssessmentRow(a)!RowNext
  <2> DEFINE t == MoveOf(cmd[s])
  <2>1. /\ cmd[s].on = a /\ work[a].status \in t.from
        /\ work' = [work EXCEPT ![a] = Moved(@, t)]
    BY <1>1, <1>3 DEF CommitAssessment, AssessmentMatches, TypeOK
  <2>2. Exists(a)
    BY <1>3, <2>1 DEF IInv, Shape, Sections, CommitAssessment
  <2>3. work[a] \in Assessment(Len(scopes))
    BY <1>1, <2>2 DEF Exists, Unused
  <2>4. t \in SecurityAssessment.transitions
    BY CommandsAreRegistered
  <2> HIDE DEF t
  <2>5. work'[a] = Moved(work[a], t)
    BY <1>1, <2>1 DEF TypeOK
  <2>6. work'[a].status = t.to /\ work'[a].ver = work[a].ver + 1
    BY <2>3, <2>5 DEF Moved, Assessment
  <2> QED
    BY <2>1, <2>4, <2>6 DEF AssessmentRow!RowNext, AssessmentRow!Move
<1>4. ASSUME NEW s \in Sessions, CommitAssign(s)
      PROVE  UNCHANGED AssessmentRow(a)!row
  <2>1. work'[a] = Reassigned(work[a], cmd[s].on)
    BY <1>4 DEF CommitAssign
  <2>2. CASE work[a] \in Assessment(Len(scopes))
    BY <2>1, <2>2 DEF Reassigned, Assessment, AssessmentRow!row
  <2>3. CASE work[a] = Unused
    BY <2>1, <2>3 DEF Reassigned, Unused, New, Active, AssessmentRow!row
  <2> QED
    BY <1>1, <2>2, <2>3
<1>5. CASE work'[a] = work[a]
  BY <1>5 DEF AssessmentRow!row
<1> QED
  BY <1>2, <1>3, <1>4, <1>5, Writers DEF Commit, Update, CommitScope, CommitComplete

\* Whatever the sessions do at once, the request and each of its assessments follow
\* the registry: a command takes effect as a registered transition from the state the
\* row has at its commit, under a version of its own, and a reassignment is neither.
THEOREM RowsFollowTheRegistry ==
    Spec => RequestRow!RowSpec /\ \A a \in Assessments : AssessmentRow(a)!RowSpec
<1>1. Spec => RequestRow!RowSpec
  <2>1. Init => RequestRow!RowInit
    BY DEF Init, RequestRow!RowInit, New
  <2>2. IInv /\ [Next]_vars => [RequestRow!RowNext]_(RequestRow!row)
    BY RequestFollows
  <2> QED
    BY <2>1, <2>2, Invariance, PTL DEF Spec, RequestRow!RowSpec
<1>2. ASSUME NEW a \in Assessments
      PROVE  Spec => AssessmentRow(a)!RowSpec
  <2>1. Init => AssessmentRow(a)!RowInit
    BY DEF Init, Unused, AssessmentRow!RowInit
  <2>2. IInv /\ [Next]_vars => [AssessmentRow(a)!RowNext]_(AssessmentRow(a)!row)
    BY AssessmentFollows
  <2> QED
    BY <2>1, <2>2, Invariance, PTL DEF Spec, AssessmentRow!RowSpec
<1> QED
  BY <1>1, <1>2

=============================================================================
