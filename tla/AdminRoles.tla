------------------------------ MODULE AdminRoles -----------------------------
(***************************************************************************)
(* Role changes by Admins, raced by any number of HTTP requests            *)
(* (admin-accounts.service.ts, admin-accounts.repository.ts).              *)
(*                                                                         *)
(* A request locks the Admin rows with one SELECT .. ORDER BY id FOR       *)
(* UPDATE, then the target's row, then decides and commits.  PostgreSQL    *)
(* takes the rows to lock from the snapshot the statement starts with and  *)
(* locks them one by one in id order; a row it had to wait for is read     *)
(* again, and drops out of the result, still locked, when it is no longer  *)
(* an Admin's.  A row that became an Admin's after the snapshot is not     *)
(* looked at.                                                              *)
(***************************************************************************)
EXTENDS Naturals, FiniteSets

CONSTANTS
    Users,      \* user ids, in their order as keys
    Admins,     \* the Admins the deployment starts with
    Requests,   \* concurrent PATCH /admin/users/:userId/role
    MaxChanges, \* bound on the role changes of one account
    None        \* no request, no user

Admin     == "ROLE_ADMIN"
Business  == "ROLE_BUSINESS"
Learner   == "ROLE_LEARNER"
Roles     == {Admin, Business, Learner}

ASSUME RolesAssumption ==
    /\ Users \subseteq Nat
    /\ Admins \subseteq Users
    /\ Admins # {}
    /\ MaxChanges \in Nat
    /\ None \notin Requests

VARIABLES
    role,           \* Users -> Roles, as committed
    authVersion,    \* Users -> the version sessions must carry
    holder,         \* Users -> the request holding the row lock, or None
    pc,             \* Requests -> where the request is
    cmd,            \* Requests -> [actor, target, role]
    toLock,         \* Requests -> the rows lockAdminIds still has to lock
    lockedAdminIds  \* Requests -> the ids it returns

vars == <<role, authVersion, holder, pc, cmd, toLock, lockedAdminIds>>

Change == [actor : Users, target : Users, role : Roles]

\* The shape of the state: a row is locked only by a request that is under way,
\* and the ids lockAdminIds returns are ids of locked rows.
TypeOK ==
    /\ role \in [Users -> Roles]
    /\ authVersion \in [Users -> 1..(MaxChanges + 1)]
    /\ holder \in [Users -> Requests \cup {None}]
    /\ pc \in [Requests -> {"idle", "admins", "target", "decide"}]
    /\ cmd \in [Requests -> Change]
    /\ toLock \in [Requests -> SUBSET Users]
    /\ lockedAdminIds \in [Requests -> SUBSET Users]
    /\ \A r \in Requests : lockedAdminIds[r] \subseteq {u \in Users : holder[u] = r}
    /\ \A u \in Users : holder[u] # None => pc[holder[u]] # "idle"

Init ==
    /\ role \in {f \in [Users -> Roles] : {u \in Users : f[u] = Admin} = Admins}
    /\ authVersion = [u \in Users |-> 1]
    /\ holder = [u \in Users |-> None]
    /\ pc = [r \in Requests |-> "idle"]
    /\ cmd \in {[r \in Requests |-> c] : c \in Change}
    /\ toLock = [r \in Requests |-> {}]
    /\ lockedAdminIds = [r \in Requests |-> {}]

-----------------------------------------------------------------------------
(* The steps of a request.                                                 *)

IsAdmin(u) == role[u] = Admin

\* A slip: one's own role is left to the check for the last Admin.
AnyTarget(c) == TRUE

NotSelf(c) == c.actor # c.target

\* The guards admit an Admin; a change of one's own role is refused before any lock.
Begin(r) ==
    /\ pc[r] = "idle"
    /\ \E c \in Change :
          /\ IsAdmin(c.actor)
          /\ NotSelf(c)
          /\ cmd' = [cmd EXCEPT ![r] = c]
    /\ toLock' = [toLock EXCEPT ![r] = {u \in Users : IsAdmin(u)}]
    /\ lockedAdminIds' = [lockedAdminIds EXCEPT ![r] = {}]
    /\ pc' = [pc EXCEPT ![r] = "admins"]
    /\ UNCHANGED <<role, authVersion, holder>>

\* A slip: the row is returned as the statement's snapshot has it.
StillAdminBySnapshot(u) == TRUE

\* The row lock is granted on the newest version, which is filtered again.
StillAdmin(u) == IsAdmin(u)

LockAdmin(r) ==
    /\ pc[r] = "admins"
    /\ \E u \in toLock[r] :
          /\ \A v \in toLock[r] : u <= v
          /\ holder[u] = None
          /\ holder' = [holder EXCEPT ![u] = r]
          /\ toLock' = [toLock EXCEPT ![r] = @ \ {u}]
          /\ lockedAdminIds' =
                [lockedAdminIds EXCEPT ![r] = IF StillAdmin(u) THEN @ \cup {u} ELSE @]
    /\ UNCHANGED <<role, authVersion, pc, cmd>>

AdminsLocked(r) ==
    /\ pc[r] = "admins"
    /\ toLock[r] = {}
    /\ pc' = [pc EXCEPT ![r] = "target"]
    /\ UNCHANGED <<role, authVersion, holder, cmd, toLock, lockedAdminIds>>

LockTarget(r) ==
    LET t == cmd[r].target
    IN  /\ pc[r] = "target"
        /\ holder[t] \in {None, r}
        /\ holder' = [holder EXCEPT ![t] = r]
        /\ pc' = [pc EXCEPT ![r] = "decide"]
        /\ UNCHANGED <<role, authVersion, cmd, toLock, lockedAdminIds>>

\* A slip: the caller's role is taken from its principal, not from the locked rows.
ActorIsAdminByPrincipal(r) == TRUE

ActorIsAdmin(r) == cmd[r].actor \in lockedAdminIds[r]

KeepsAnAdmin(r) ==
    IsAdmin(cmd[r].target) /\ cmd[r].role # Admin
        => lockedAdminIds[r] \ {cmd[r].target} # {}

\* evaluateRoleChange, and the same-role request that changes nothing.
MayChange(r) ==
    /\ role[cmd[r].target] # cmd[r].role
    /\ ActorIsAdmin(r)
    /\ cmd[r].role # Business
    /\ role[cmd[r].target] # Business
    /\ KeepsAnAdmin(r)

\* A slip: a transaction that gives up keeps its connection, and its row locks.
EndHoldingTheRows(r) ==
    /\ pc' = [pc EXCEPT ![r] = "idle"]
    /\ toLock' = [toLock EXCEPT ![r] = {}]
    /\ lockedAdminIds' = [lockedAdminIds EXCEPT ![r] = {}]
    /\ UNCHANGED <<cmd, holder>>

\* The transaction ends, and every row lock it took with it.
End(r) ==
    /\ holder' = [u \in Users |-> IF holder[u] = r THEN None ELSE holder[u]]
    /\ pc' = [pc EXCEPT ![r] = "idle"]
    /\ toLock' = [toLock EXCEPT ![r] = {}]
    /\ lockedAdminIds' = [lockedAdminIds EXCEPT ![r] = {}]
    /\ UNCHANGED cmd

Commit(r) ==
    LET t == cmd[r].target
    IN  /\ pc[r] = "decide"
        /\ MayChange(r)
        /\ authVersion[t] <= MaxChanges
        /\ role' = [role EXCEPT ![t] = cmd[r].role]
        /\ authVersion' = [authVersion EXCEPT ![t] = @ + 1]
        /\ End(r)

\* Refused, a no-op, a failed statement, a dropped connection or a deadlock's victim.
RollBack(r) ==
    /\ pc[r] # "idle"
    /\ End(r)
    /\ UNCHANGED <<role, authVersion>>

Next ==
    \E r \in Requests :
        \/ Begin(r) \/ LockAdmin(r) \/ AdminsLocked(r) \/ LockTarget(r)
        \/ Commit(r) \/ RollBack(r)

Spec == Init /\ [][Next]_vars

-----------------------------------------------------------------------------
(* Properties.                                                             *)

\* The platform keeps at least one Admin, whatever role changes run at once.
AnAdminRemains == \E u \in Users : IsAdmin(u)

\* The Admins a decision is made against are Admins until it commits.
LockedAdminsAreCurrent ==
    \A r \in Requests : \A u \in lockedAdminIds[r] : IsAdmin(u)

\* A role is changed only on the word of someone who is an Admin at that moment:
\* an Admin demoted while waiting for the locks changes nothing.
ChangedByACurrentAdmin ==
    [][\A r \in Requests : pc[r] = "decide" /\ role' # role /\ pc'[r] = "idle"
          => IsAdmin(cmd[r].actor)]_vars

\* The refusal that protects the last Admin is never the reason for an answer:
\* the caller, an Admin and not the target, always remains.
LastAdminNeverAnswered ==
    \A r \in Requests : pc[r] = "decide" /\ ActorIsAdmin(r) => KeepsAnAdmin(r)

\* What a request is waiting for.
WaitsFor(r) ==
    IF pc[r] = "target" THEN holder[cmd[r].target]
    ELSE IF pc[r] = "admins" /\ toLock[r] # {}
         THEN holder[CHOOSE u \in toLock[r] : \A v \in toLock[r] : u <= v]
         ELSE None

\* Concurrent role changes never wait on each other.
NoDeadlock ==
    \A r, s \in Requests : r # s => ~(WaitsFor(r) = s /\ WaitsFor(s) = r)

=============================================================================
