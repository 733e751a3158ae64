-------------------------- MODULE AdminRoles_proofs --------------------------
(***************************************************************************)
(* Theorems about the role changes, for any set of accounts, any Admins to *)
(* start with and any number of requests.                                  *)
(*                                                                         *)
(* The argument: a role changes only under the lock of its row, so what    *)
(* lockAdminIds returned stays true until the request ends; the caller is  *)
(* among those it returned and is not the target, so the caller is an      *)
(* Admin when the change commits and after it.                             *)
(***************************************************************************)
EXTENDS AdminRoles, TLAPS

\* What a request past its guards may rely on: its target is another account, the
\* Admins it locked are Admins, and at its decision it holds the target's row.
RequestInv ==
    \A r \in Requests :
        /\ pc[r] # "idle" => cmd[r].actor # cmd[r].target
        /\ \A u \in lockedAdminIds[r] : role[u] = Admin
        /\ pc[r] = "decide" => holder[cmd[r].target] = r

IInv == TypeOK /\ RequestInv /\ AnAdminRemains

LEMMA TypeInit == Init => TypeOK
BY RolesAssumption DEF Init, TypeOK, Change

LEMMA TypeStep == TypeOK /\ [Next]_vars => TypeOK'
<1> SUFFICES ASSUME TypeOK, [Next]_vars PROVE TypeOK'
  OBVIOUS
<1> USE RolesAssumption DEF TypeOK, Change, Roles, Admin, Business, Learner
<1>1. CASE UNCHANGED vars
  BY <1>1 DEF vars
<1>2. ASSUME NEW r \in Requests, Begin(r) PROVE TypeOK'
  BY <1>2 DEF Begin
<1>3. ASSUME NEW r \in Requests, LockAdmin(r) PROVE TypeOK'
  <2>1. PICK u \in toLock[r] : /\ holder[u] = None
                               /\ holder' = [holder EXCEPT ![u] = r]
                               /\ toLock' = [toLock EXCEPT ![r] = @ \ {u}]
                               /\ lockedAdminIds' = [lockedAdminIds EXCEPT
                                     ![r] = IF StillAdmin(u) THEN @ \cup {u} ELSE @]
    BY <1>3 DEF LockAdmin
  <2> QED BY <1>3, <2>1 DEF LockAdmin
<1>4. ASSUME NEW r \in Requests, AdminsLocked(r) PROVE TypeOK'
  BY <1>4 DEF AdminsLocked
<1>5. ASSUME NEW r \in Requests, LockTarget(r) PROVE TypeOK'
  BY <1>5 DEF LockTarget
<1>6. ASSUME NEW r \in Requests, End(r),
             role' \in [Users -> Roles], authVersion' \in [Users -> 1..(MaxChanges + 1)]
      PROVE TypeOK'
  BY <1>6 DEF End
<1>7. ASSUME NEW r \in Requests, Commit(r) PROVE TypeOK'
  <2>1. cmd[r].target \in Users /\ cmd[r].role \in Roles
    OBVIOUS
  <2>2. role' \in [Users -> Roles]
    BY <1>7, <2>1 DEF Commit
  <2>3. authVersion[cmd[r].target] + 1 \in 1..(MaxChanges + 1)
    <3>1. authVersion[cmd[r].target] \in 1..(MaxChanges + 1)
      BY <2>1
    <3>2. authVersion[cmd[r].target] <= MaxChanges
      BY <1>7 DEF Commit
    <3> HIDE DEF TypeOK
    <3> QED BY <3>1, <3>2
  <2>4. authVersion' \in [Users -> 1..(MaxChanges + 1)]
    BY <1>7, <2>1, <2>3 DEF Commit
  <2>5. End(r)
    BY <1>7 DEF Commit
  <2> QED BY <1>6, <2>2, <2>4, <2>5
<1>8. ASSUME NEW r \in Requests, RollBack(r) PROVE TypeOK'
  BY <1>6, <1>8 DEF RollBack
<1> QED BY <1>1, <1>2, <1>3, <1>4, <1>5, <1>7, <1>8 DEF Next

\* The shape of the state holds in every behaviour of the role changes.
THEOREM TypeCorrect == Spec => []TypeOK
BY TypeInit, TypeStep, PTL DEF Spec

LEMMA IInvInit == Init => IInv
<1> SUFFICES ASSUME Init PROVE RequestInv /\ AnAdminRemains
  BY TypeInit DEF IInv
<1>1. RequestInv
  BY DEF Init, RequestInv
<1>2. AnAdminRemains
  BY RolesAssumption DEF Init, AnAdminRemains, IsAdmin
<1> QED BY <1>1, <1>2

\* A change commits only for a caller who is an Admin and not its target.
LEMMA CallerRemains ==
    ASSUME IInv, NEW r \in Requests, Commit(r)
    PROVE  /\ role[cmd[r].actor] = Admin
           /\ cmd[r].actor \in Users
           /\ cmd[r].actor # cmd[r].target
BY DEF IInv, TypeOK, RequestInv, Commit, MayChange, ActorIsAdmin, Change

LEMMA IInvStep == IInv /\ [Next]_vars => IInv'
<1> SUFFICES ASSUME IInv, [Next]_vars PROVE RequestInv' /\ AnAdminRemains'
  BY TypeStep DEF IInv
<1> USE RolesAssumption DEF IInv, TypeOK, RequestInv
<1>1. CASE UNCHANGED vars
  BY <1>1 DEF vars, AnAdminRemains, IsAdmin
<1>2. ASSUME NEW r \in Requests, Begin(r) PROVE RequestInv' /\ AnAdminRemains'
  BY <1>2 DEF Begin, NotSelf, AnAdminRemains, IsAdmin, Change
<1>3. ASSUME NEW r \in Requests, LockAdmin(r) PROVE RequestInv' /\ AnAdminRemains'
  <2>1. PICK u \in toLock[r] : /\ holder[u] = None
                               /\ holder' = [holder EXCEPT ![u] = r]
                               /\ lockedAdminIds' = [lockedAdminIds EXCEPT
                                     ![r] = IF StillAdmin(u) THEN @ \cup {u} ELSE @]
    BY <1>3 DEF LockAdmin
  <2>2. pc[r] = "admins" /\ UNCHANGED <<role, authVersion, pc, cmd>>
    BY <1>3 DEF LockAdmin
  <2> QED BY <2>1, <2>2 DEF StillAdmin, AnAdminRemains, IsAdmin
<1>4. ASSUME NEW r \in Requests, AdminsLocked(r) PROVE RequestInv' /\ AnAdminRemains'
  BY <1>4 DEF AdminsLocked, AnAdminRemains, IsAdmin
<1>5. ASSUME NEW r \in Requests, LockTarget(r) PROVE RequestInv' /\ AnAdminRemains'
  BY <1>5 DEF LockTarget, AnAdminRemains, IsAdmin, Change
<1>6. ASSUME NEW r \in Requests, Commit(r) PROVE RequestInv' /\ AnAdminRemains'
  <2>1. AnAdminRemains'
    BY <1>6, CallerRemains DEF Commit, AnAdminRemains, IsAdmin
  <2>2. ASSUME NEW s \in Requests, s # r
        PROVE  cmd[r].target \notin lockedAdminIds[s]
    BY <1>6, <2>2 DEF Commit
  <2>3. RequestInv'
    BY <1>6, <2>2 DEF Commit, End, Change
  <2> QED BY <2>1, <2>3
<1>7. ASSUME NEW r \in Requests, RollBack(r) PROVE RequestInv' /\ AnAdminRemains'
  BY <1>7 DEF RollBack, End, AnAdminRemains, IsAdmin, Change
<1> QED BY <1>1, <1>2, <1>3, <1>4, <1>5, <1>6, <1>7 DEF Next

LEMMA Invariance == Spec => []IInv
BY IInvInit, IInvStep, PTL DEF Spec

\* However role changes race, the platform keeps an Admin.
THEOREM AdminRemains == Spec => []AnAdminRemains
<1>1. IInv => AnAdminRemains
  BY DEF IInv
<1> QED BY <1>1, Invariance, PTL

\* What a request locked as an Admin's row is one until the request ends.
THEOREM AdminsCurrent == Spec => []LockedAdminsAreCurrent
<1>1. IInv => LockedAdminsAreCurrent
  BY DEF IInv, RequestInv, LockedAdminsAreCurrent, IsAdmin
<1> QED BY <1>1, Invariance, PTL

\* The check for the last Admin never decides an answer: the caller remains.
THEOREM LastAdminUnreachable == Spec => []LastAdminNeverAnswered
<1>1. IInv => LastAdminNeverAnswered
  BY DEF IInv, RequestInv, LastAdminNeverAnswered, ActorIsAdmin, KeepsAnAdmin
<1> QED BY <1>1, Invariance, PTL

\* A role changes only on the word of a current Admin.
THEOREM ChangedByAnAdmin == Spec => ChangedByACurrentAdmin
<1> DEFINE Allowed == \A r \in Requests : pc[r] = "decide" /\ role' # role /\ pc'[r] = "idle"
                          => IsAdmin(cmd[r].actor)
<1>1. ASSUME IInv, [Next]_vars PROVE [Allowed]_vars
  <2>1. CASE UNCHANGED vars
    BY <2>1
  <2>2. ASSUME NEW r \in Requests, Commit(r) PROVE Allowed
    <3>1. role[cmd[r].actor] = Admin
      BY <1>1, <2>2, CallerRemains
    <3>2. \A s \in Requests : s # r => pc'[s] = pc[s]
      BY <1>1, <2>2 DEF Commit, End, IInv, TypeOK
    <3> QED BY <3>1, <3>2 DEF IsAdmin
  <2>3. ASSUME NEW r \in Requests,
               Begin(r) \/ LockAdmin(r) \/ AdminsLocked(r) \/ LockTarget(r) \/ RollBack(r)
        PROVE  Allowed
    BY <2>3 DEF Begin, LockAdmin, AdminsLocked, LockTarget, RollBack
  <2> QED BY <1>1, <2>1, <2>2, <2>3 DEF Next
<1>2. IInv /\ [Next]_vars => [Allowed]_vars
  BY <1>1
<1> QED BY <1>2, Invariance, PTL DEF Spec, ChangedByACurrentAdmin
=============================================================================
