------------------------------- MODULE Accounts ------------------------------
(***************************************************************************)
(* Registration, one-time tokens, passwords and sessions, worked on by any *)
(* number of concurrent HTTP requests (modules/auth).                      *)
(*                                                                         *)
(* The database runs READ COMMITTED.  Registration and the two             *)
(* confirmations are transactions, and an UPDATE of a users row holds its  *)
(* lock until the commit; every other operation is a read followed by one  *)
(* write, with nothing that ties them together.  Names, profiles, mails    *)
(* and audit rows are left out; the business account's employer is created *)
(* and rolled back with the user.                                          *)
(***************************************************************************)
EXTENDS Naturals

CONSTANTS
    Emails,         \* normalized e-mail addresses: the key of an account
    Passwords,
    Tokens,         \* ids of one-time tokens (bounds how many are issued)
    Sessions,       \* ids of sessions (bounds how many are opened)
    Requests,       \* concurrent HTTP requests
    MaxVersion,     \* bound on authVersion
    None            \* no account, no request

Verification == "EMAIL_VERIFICATION"
Reset        == "PASSWORD_RESET"
Purposes     == {Verification, Reset}

ASSUME AccountsAssumption ==
    /\ MaxVersion \in Nat \ {0}
    /\ None \notin Emails \cup Requests \cup Passwords \cup Tokens \cup Sessions

VARIABLES
    users,      \* Emails -> [exists, verified, password, authVersion]
    tokens,     \* Tokens -> [user, purpose, expired, consumed, uses]
    sessions,   \* Sessions -> [user, authVersion, revoked, expired, password]
    holder,     \* Emails -> the request holding the lock of the users row, or None
    pc,         \* Requests -> where the request is
    cmd         \* Requests -> what it works on and what it has read

vars == <<users, tokens, sessions, holder, pc, cmd>>

NoUser    == [exists |-> FALSE, verified |-> FALSE, password |-> None, authVersion |-> 0]
NoToken   == [user |-> None, purpose |-> Verification, expired |-> FALSE,
              consumed |-> FALSE, uses |-> 0]
NoSession == [user |-> None, authVersion |-> 0, revoked |-> FALSE, expired |-> FALSE,
              password |-> None]
Nothing   == [user |-> None, token |-> None, session |-> None, purpose |-> Verification,
              password |-> None, authVersion |-> 0, swept |-> {}]

User    == {NoUser} \cup
           [exists : {TRUE}, verified : BOOLEAN, password : Passwords, authVersion : 1..MaxVersion]
Token   == [user : Emails \cup {None}, purpose : Purposes, expired : BOOLEAN,
            consumed : BOOLEAN, uses : Nat]
Session == [user : Emails \cup {None}, authVersion : 0..MaxVersion, revoked : BOOLEAN,
            expired : BOOLEAN, password : Passwords \cup {None}]
Work    == [user : Emails \cup {None}, token : Tokens \cup {None},
            session : Sessions \cup {None}, purpose : Purposes,
            password : Passwords \cup {None}, authVersion : 0..MaxVersion,
            swept : SUBSET Sessions]

Steps == {"idle", "register", "issue", "confirm", "sweep", "commit", "login",
          "session", "granted"}

\* The shape of the state: a users row is locked exactly by the confirmation that
\* has written it and not committed yet.
TypeOK ==
    /\ users \in [Emails -> User]
    /\ tokens \in [Tokens -> Token]
    /\ sessions \in [Sessions -> Session]
    /\ holder \in [Emails -> Requests \cup {None}]
    /\ pc \in [Requests -> Steps]
    /\ cmd \in [Requests -> Work]
    /\ \A r \in Requests, e \in Emails :
          holder[e] = r <=> pc[r] \in {"sweep", "commit"} /\ cmd[r].user = e

Init ==
    /\ users = [e \in Emails |-> NoUser]
    /\ tokens = [t \in Tokens |-> NoToken]
    /\ sessions = [s \in Sessions |-> NoSession]
    /\ holder = [e \in Emails |-> None]
    /\ pc = [r \in Requests |-> "idle"]
    /\ cmd = [r \in Requests |-> Nothing]

-----------------------------------------------------------------------------
(* The steps of a request.                                                 *)

Begin(r, step, work) ==
    /\ pc[r] = "idle"
    /\ pc' = [pc EXCEPT ![r] = step]
    /\ cmd' = [cmd EXCEPT ![r] = work]
    /\ UNCHANGED <<users, tokens, sessions, holder>>

\* A slip: a transaction that is over keeps the lock of the account.
EndHoldingTheUser(r) ==
    /\ pc' = [pc EXCEPT ![r] = "idle"]
    /\ cmd' = [cmd EXCEPT ![r] = Nothing]
    /\ UNCHANGED holder

End(r) ==
    /\ pc' = [pc EXCEPT ![r] = "idle"]
    /\ cmd' = [cmd EXCEPT ![r] = Nothing]
    /\ holder' = [e \in Emails |-> IF holder[e] = r THEN None ELSE holder[e]]

RollBack(r) == End(r) /\ UNCHANGED <<users, tokens, sessions>>

Issue(e, purpose) ==
    \E t \in Tokens :
        /\ tokens[t].user = None
        /\ tokens' = [tokens EXCEPT ![t] = [NoToken EXCEPT !.user = e, !.purpose = purpose]]

\* registerLearner, registerBusiness: the address is looked up first ...
BeginRegister(r) ==
    \E e \in Emails, p \in Passwords :
        /\ ~users[e].exists
        /\ Begin(r, "register", [Nothing EXCEPT !.user = e, !.password = p])

\* ... and the unique key decides between two who found it free.
Register(r) ==
    LET e == cmd[r].user
    IN  /\ pc[r] = "register"
        /\ ~users[e].exists
        /\ users' = [users EXCEPT ![e] = [exists |-> TRUE, verified |-> FALSE,
                                          password |-> cmd[r].password, authVersion |-> 1]]
        /\ Issue(e, Verification)
        /\ End(r)
        /\ UNCHANGED sessions

\* requestVerification and requestReset: the token is inserted after the read.
BeginRequest(r) ==
    \E e \in Emails, purpose \in Purposes :
        /\ users[e].exists
        /\ purpose = Verification => ~users[e].verified
        /\ Begin(r, "issue", [Nothing EXCEPT !.user = e, !.purpose = purpose])

IssueToken(r) ==
    /\ pc[r] = "issue"
    /\ Issue(cmd[r].user, cmd[r].purpose)
    /\ End(r)
    /\ UNCHANGED <<users, sessions>>

\* A slip: the purpose of the token is not compared.
ValidForAnyPurpose(t, purpose) ==
    tokens[t].user # None /\ ~tokens[t].consumed /\ ~tokens[t].expired

\* What consume asks of the token row it found.
Valid(t, purpose) ==
    /\ tokens[t].user # None
    /\ tokens[t].purpose = purpose
    /\ ~tokens[t].consumed
    /\ ~tokens[t].expired

FindToken(r) ==
    \E t \in Tokens, purpose \in Purposes, p \in Passwords :
        /\ Valid(t, purpose)
        /\ Begin(r, "confirm", [Nothing EXCEPT !.user = tokens[t].user, !.token = t,
                                               !.purpose = purpose, !.password = p])

\* The UPDATE of the users row takes its lock, and shows at the commit only.
WriteUser(r) ==
    LET e == cmd[r].user
    IN  /\ pc[r] = "confirm"
        /\ holder[e] = None
        /\ holder' = [holder EXCEPT ![e] = r]
        /\ pc' = [pc EXCEPT ![r] = IF cmd[r].purpose = Reset THEN "sweep" ELSE "commit"]
        /\ UNCHANGED <<users, tokens, sessions, cmd>>

\* revokeAllActiveForUser: the sessions the statement's snapshot shows.
Sweep(r) ==
    /\ pc[r] = "sweep"
    /\ cmd' = [cmd EXCEPT ![r].swept =
                  {s \in Sessions : sessions[s].user = cmd[r].user /\ ~sessions[s].revoked}]
    /\ pc' = [pc EXCEPT ![r] = "commit"]
    /\ UNCHANGED <<users, tokens, sessions, holder>>

Verified(user) == [user EXCEPT !.verified = TRUE]

\* A slip: the reset revokes the sessions and leaves authVersion alone.
WithPasswordOnly(user, p) == [user EXCEPT !.password = p]

WithPassword(user, p) == [user EXCEPT !.password = p, !.authVersion = @ + 1]

Confirm(r) ==
    LET c == cmd[r]
    IN  /\ pc[r] = "commit"
        /\ c.purpose = Reset => users[c.user].authVersion < MaxVersion
        /\ users' = [users EXCEPT ![c.user] = IF c.purpose = Reset THEN WithPassword(@, c.password)
                                              ELSE Verified(@)]
        /\ sessions' = [s \in Sessions |->
              IF s \in c.swept THEN [sessions[s] EXCEPT !.revoked = TRUE] ELSE sessions[s]]
        /\ tokens' = [tokens EXCEPT ![c.token].consumed = TRUE, ![c.token].uses = @ + 1]
        /\ End(r)

\* login: the password was verified against the row as it was read.
BeginLogin(r) ==
    \E e \in Emails :
        /\ users[e].exists
        /\ Begin(r, "login", [Nothing EXCEPT !.user = e, !.password = users[e].password,
                                             !.authVersion = users[e].authVersion])

\* A slip: the session is stamped with the version at the time of the insert.
StampAtInsert(r) == users[cmd[r].user].authVersion

Stamp(r) == cmd[r].authVersion

OpenSession(r) ==
    /\ pc[r] = "login"
    /\ \E s \in Sessions :
          /\ sessions[s].user = None
          /\ sessions' = [sessions EXCEPT ![s] =
                [NoSession EXCEPT !.user = cmd[r].user, !.authVersion = Stamp(r),
                                  !.password = cmd[r].password]]
    /\ End(r)
    /\ UNCHANGED <<users, tokens>>

\* authenticate: the session row is read, then the users row.
ReadSession(r) ==
    \E s \in Sessions :
        /\ sessions[s].user # None
        /\ ~sessions[s].revoked /\ ~sessions[s].expired
        /\ Begin(r, "session", [Nothing EXCEPT !.user = sessions[s].user, !.session = s,
                                               !.authVersion = sessions[s].authVersion])

\* A slip: a session that is not revoked is good enough.
CurrentWhenNotRevoked(r) == TRUE

Current(r) == cmd[r].authVersion = users[cmd[r].user].authVersion

Grant(r) ==
    /\ pc[r] = "session"
    /\ Current(r)
    /\ pc' = [pc EXCEPT ![r] = "granted"]
    /\ UNCHANGED <<users, tokens, sessions, holder, cmd>>

\* An authenticated request logs out, or does something else.
Logout(r) ==
    /\ pc[r] = "granted"
    /\ sessions' = [sessions EXCEPT ![cmd[r].session].revoked = TRUE]
    /\ End(r)
    /\ UNCHANGED <<users, tokens>>

\* Refused, finished, failed or cut off: what is not committed never was.
Leave(r) == pc[r] # "idle" /\ RollBack(r)

\* A role change by an Admin bumps authVersion as well (AdminRoles).
RoleChanged(e) ==
    /\ users[e].exists
    /\ holder[e] = None
    /\ users[e].authVersion < MaxVersion
    /\ users' = [users EXCEPT ![e].authVersion = @ + 1]
    /\ UNCHANGED <<tokens, sessions, holder, pc, cmd>>

Expire ==
    /\ \/ /\ \E t \in Tokens : tokens[t].user # None /\ ~tokens[t].expired
                 /\ tokens' = [tokens EXCEPT ![t].expired = TRUE]
          /\ UNCHANGED sessions
       \/ /\ \E s \in Sessions : sessions[s].user # None /\ ~sessions[s].expired
                 /\ sessions' = [sessions EXCEPT ![s].expired = TRUE]
          /\ UNCHANGED tokens
    /\ UNCHANGED <<users, holder, pc, cmd>>

Next ==
    \/ Expire
    \/ \E e \in Emails : RoleChanged(e)
    \/ \E r \in Requests :
          \/ BeginRegister(r) \/ Register(r) \/ BeginRequest(r) \/ IssueToken(r)
          \/ FindToken(r) \/ WriteUser(r) \/ Sweep(r) \/ Confirm(r)
          \/ BeginLogin(r) \/ OpenSession(r) \/ ReadSession(r) \/ Grant(r)
          \/ Logout(r) \/ Leave(r)

Spec == Init /\ [][Next]_vars

-----------------------------------------------------------------------------
(* Properties.                                                             *)

\* A session that carries the account's current version was opened with its
\* current password: a reset ends every session, the one a concurrent log-in is
\* about to insert included.
SessionsFollowThePassword ==
    \A s \in Sessions :
        LET x == sessions[s]
        IN  x.user # None /\ x.authVersion = users[x.user].authVersion
                => x.password = users[x.user].password

\* Whoever is let in holds a session opened with the password of that moment.
GrantedOnTheCurrentPassword ==
    [][\A r \in Requests : pc[r] = "session" /\ pc'[r] = "granted"
          => sessions[cmd[r].session].password = users[cmd[r].user].password]_vars

\* An address counts as verified only through a verification token of its own.
VerifiedByItsOwnToken ==
    \A e \in Emails : users[e].verified =>
        \E t \in Tokens : tokens[t].user = e /\ tokens[t].purpose = Verification
                             /\ tokens[t].consumed

\* A token cannot be used twice, even by concurrent requests.
TokenUsedOnce == \A t \in Tokens : tokens[t].uses <= 1

=============================================================================
