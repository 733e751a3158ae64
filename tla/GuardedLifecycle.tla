-------------------------- MODULE GuardedLifecycle --------------------------
(***************************************************************************)
(* The permission guard in front of the record: a lifecycle operation that *)
(* a controller serves changes the record only in the handler of a request *)
(* that the guard has let through.  `hands` are the roles that worked on   *)
(* the record since it was created or its content last changed.            *)
(*                                                                         *)
(* The registry also lists operations that no controller serves (courses,  *)
(* monitoring) or whose handler stops short (the release of a report):     *)
(* their transitions are walked without a request, as the tables have them.*)
(***************************************************************************)
EXTENDS WorkflowLifecycle, PermissionGuard, FiniteSets

VARIABLE hands

guardedVars == <<entity, status, content, reviewed, request, hands>>

ServedApis == {route.api : route \in {r \in Routes : r.access = "AUTHORIZE"}}

\* Releasing asks for a file policy that is not configured, and superseding for a
\* released replacement.
StopsShort == {"API-RPT-008", "API-RPT-009"}

Served(op) == op.api \in ServedApis \ StopsShort

\* A request about nothing this record is, is followed only beside a record that
\* does not exist yet: it cannot touch one.
Concerns(route) ==
    (\E op \in OperationsOf(entity) : op.api = route.api) \/ status = New

GuardedInit == Init /\ GuardInit /\ hands = {}

HandsAfter(role) == IF status = New \/ content' # content THEN {role} ELSE hands \cup {role}

Work(op) == Perform(op) \/ Edit(op) \/ Delete(op)

\* The guard's steps leave the record alone.
GuardRecord ==
    /\ GuardStep
    /\ request'.stage = "routing" => Concerns(request'.route)
    /\ UNCHANGED <<vars, hands>>

\* The handler does what the operation means for the record, if it can ...
HandleOperation ==
    /\ Handle
    /\ \E op \in OperationsOf(entity) : op.api = request.route.api /\ Served(op) /\ Work(op)
    /\ hands' = HandsAfter(request.role)

HandleCreation ==
    /\ Handle
    /\ request.route.api = "API-INT-003"
    /\ entity = "InternshipProgramme"
    /\ CreateUnmapped
    /\ hands' = HandsAfter(request.role)

\* ... or is about another record, or is refused by the handler's own checks.
HandleElsewhere == Handle /\ UNCHANGED <<vars, hands>>

\* What the tables hold and no handler does.
Unserved ==
    /\ request = Idle
    /\ \/ \E op \in Operations : ~Served(op) /\ Work(op)
       \/ entity = "Course" /\ CreateUnmapped
    /\ UNCHANGED <<request, hands>>

GuardedNext ==
    GuardRecord \/ HandleOperation \/ HandleCreation \/ HandleElsewhere \/ Unserved

GuardedSpec == GuardedInit /\ [][GuardedNext]_guardedVars

-----------------------------------------------------------------------------
(* Properties.                                                             *)

\* Where one side asks and the other decides, the record gets through only with
\* two roles' hands on its present content.
TwoSided == [CareerListing |-> {"PUBLISHED"}, EmployerOpportunity |-> {"PUBLISHED"},
             InternshipApplication |-> {"ACCEPTED"},
             Submission |-> {"APPROVED"}, ConsultingRequest |-> {"ACCEPTED"}]

\* Nobody decides on their own request: no single role can take a listing, an
\* opportunity, an application, a submission or a consulting request from
\* its creation to the state in which it counts, whatever sequence of operations the
\* two tables and the registry leave open to it.
NobodyDecidesAlone ==
    entity \in DOMAIN TwoSided /\ status \in TwoSided[entity] => Cardinality(hands) > 1

\* The shape of the guarded record.
GuardedTypeOK == TypeOK /\ GuardTypeOK /\ hands \subseteq Roles

=============================================================================
