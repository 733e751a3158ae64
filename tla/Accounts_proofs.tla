---------------------------- MODULE Accounts_proofs ---------------------------
(***************************************************************************)
(* Proofs about Accounts, for any number of accounts, passwords, tokens,   *)
(* sessions and requests.  The idea is that a session and a log-in under   *)
(* way both remember a version and a password that went together when they *)
(* were read, and that an account never has two passwords at one version.  *)
(***************************************************************************)
EXTENDS Accounts, TLAPS

\* What a request remembers is what it was given by the reads of its earlier steps.
Remembers ==
    \A r \in Requests :
        /\ pc[r] = "register" => cmd[r].user \in Emails /\ cmd[r].password \in Passwords
        /\ pc[r] = "issue" => cmd[r].user \in Emails /\ users[cmd[r].user].exists
        /\ pc[r] \in {"confirm", "sweep", "commit"} =>
              /\ cmd[r].user \in Emails
              /\ users[cmd[r].user].exists
              /\ cmd[r].password \in Passwords
              /\ cmd[r].token \in Tokens
              /\ tokens[cmd[r].token].user = cmd[r].user
              /\ tokens[cmd[r].token].purpose = cmd[r].purpose
        /\ pc[r] \in {"session", "granted"} => cmd[r].session \in Sessions
        /\ pc[r] = "session" =>
              /\ sessions[cmd[r].session].user = cmd[r].user
              /\ sessions[cmd[r].session].user # None
              /\ sessions[cmd[r].session].authVersion = cmd[r].authVersion

\* Every token belongs to an account that exists.
TokensOwned == \A t \in Tokens : tokens[t].user # None => users[tokens[t].user].exists

\* A version and a password that went together on the account e once.
Fits(e, version, password) ==
    /\ e \in Emails
    /\ users[e].exists
    /\ version <= users[e].authVersion
    /\ version = users[e].authVersion => password = users[e].password

SessionsFit ==
    \A s \in Sessions : sessions[s].user # None =>
        Fits(sessions[s].user, sessions[s].authVersion, sessions[s].password)

LoginsFit ==
    \A r \in Requests : pc[r] = "login" =>
        Fits(cmd[r].user, cmd[r].authVersion, cmd[r].password)

IInv ==
    /\ TypeOK
    /\ Remembers
    /\ TokensOwned
    /\ SessionsFit
    /\ LoginsFit
    /\ VerifiedByItsOwnToken

-----------------------------------------------------------------------------

\* The users row of an account that exists.
Row == [exists : {TRUE}, verified : BOOLEAN, password : Passwords, authVersion : 1..MaxVersion]

\* Marking an address verified keeps the password and the version.
LEMMA VerifiedRow ==
    ASSUME NEW u \in Row
    PROVE  /\ Verified(u) \in Row
           /\ Verified(u).authVersion = u.authVersion
           /\ Verified(u).password = u.password
BY DEF Row, Verified

LEMMA NextVersion ==
    ASSUME NEW u \in Row, u.authVersion < MaxVersion PROVE u.authVersion + 1 \in 1..MaxVersion
BY AccountsAssumption DEF Row

\* A new password comes with the next version, and leaves the address as it was.
LEMMA ResetRow ==
    ASSUME NEW u \in Row, NEW p \in Passwords
    PROVE  /\ u.authVersion < MaxVersion => WithPassword(u, p) \in Row
           /\ WithPassword(u, p).verified = u.verified
           /\ WithPassword(u, p).authVersion = u.authVersion + 1
BY NextVersion DEF Row, WithPassword

LEMMA ExistingRow ==
    ASSUME NEW u \in User PROVE u.exists <=> u \in Row
<1>1. ~NoUser.exists
  BY DEF NoUser
<1>2. u.exists => u # NoUser
  BY <1>1, Zenon
<1>3. u # NoUser => u \in Row
  BY DEF User, Row
<1>4. u \in Row => u.exists
  BY DEF Row
<1> QED BY <1>2, <1>3, <1>4

LEMMA InitInv == Init => IInv
BY AccountsAssumption DEF Init, IInv, TypeOK, Remembers, TokensOwned, SessionsFit, LoginsFit,
   VerifiedByItsOwnToken, NoUser, NoToken, NoSession, Nothing, User, Token, Session, Work, Steps,
   Purposes, Verification, Reset

-----------------------------------------------------------------------------
(* One lemma per kind of step.                                             *)

\* Beginning a request disturbs nothing but what the request remembers.
LEMMA BeginStep ==
    ASSUME IInv, NEW r \in Requests, NEW step \in Steps \ {"sweep", "commit"}, NEW work \in Work,
           Begin(r, step, work), Remembers', LoginsFit'
    PROVE  IInv'
<1> USE DEF IInv, Begin
<1>1. TypeOK'
  BY DEF TypeOK
<1>2. TokensOwned' /\ SessionsFit' /\ VerifiedByItsOwnToken'
  BY DEF TokensOwned, SessionsFit, Fits, VerifiedByItsOwnToken
<1> QED BY <1>1, <1>2

LEMMA NothingIsWork == Nothing \in Work
BY AccountsAssumption DEF Work, Nothing, Purposes

LEMMA BeginRegisterStep ==
    ASSUME IInv, NEW r \in Requests, BeginRegister(r) PROVE IInv'
<1>1. PICK e \in Emails, p \in Passwords :
          /\ ~users[e].exists
          /\ Begin(r, "register", [Nothing EXCEPT !.user = e, !.password = p])
  BY DEF BeginRegister
<1> DEFINE work == [Nothing EXCEPT !.user = e, !.password = p]
<1>2. work \in Work /\ work.user = e /\ work.password = p
  BY NothingIsWork DEF Work
<1>3. Begin(r, "register", work)
  BY <1>1
<1> HIDE DEF work
<1>4. Remembers'
  BY <1>1, <1>2, <1>3 DEF IInv, TypeOK, Remembers, Begin
<1>5. LoginsFit'
  BY <1>1, <1>2, <1>3 DEF IInv, TypeOK, LoginsFit, Fits, Begin
<1>6. "register" \in Steps \ {"sweep", "commit"}
  BY DEF Steps
<1> QED BY <1>2, <1>3, <1>4, <1>5, <1>6, BeginStep

LEMMA BeginRequestStep ==
    ASSUME IInv, NEW r \in Requests, BeginRequest(r) PROVE IInv'
<1>1. PICK e \in Emails, purpose \in Purposes :
          /\ users[e].exists
          /\ Begin(r, "issue", [Nothing EXCEPT !.user = e, !.purpose = purpose])
  BY DEF BeginRequest
<1> DEFINE work == [Nothing EXCEPT !.user = e, !.purpose = purpose]
<1>2. work \in Work /\ work.user = e
  BY NothingIsWork DEF Work
<1>3. Begin(r, "issue", work)
  BY <1>1
<1> HIDE DEF work
<1>4. Remembers'
  BY <1>1, <1>2, <1>3 DEF IInv, TypeOK, Remembers, Begin
<1>5. LoginsFit'
  BY <1>1, <1>2, <1>3 DEF IInv, TypeOK, LoginsFit, Fits, Begin
<1>6. "issue" \in Steps \ {"sweep", "commit"}
  BY DEF Steps
<1> QED BY <1>2, <1>3, <1>4, <1>5, <1>6, BeginStep

LEMMA FindTokenStep ==
    ASSUME IInv, NEW r \in Requests, FindToken(r) PROVE IInv'
<1>1. PICK t \in Tokens, purpose \in Purposes, p \in Passwords :
          /\ Valid(t, purpose)
          /\ Begin(r, "confirm", [Nothing EXCEPT !.user = tokens[t].user, !.token = t,
                                                 !.purpose = purpose, !.password = p])
  BY DEF FindToken
<1> DEFINE e == tokens[t].user
           work == [Nothing EXCEPT !.user = e, !.token = t, !.purpose = purpose, !.password = p]
<1>2. e \in Emails /\ users[e].exists /\ tokens[t].purpose = purpose
  BY <1>1 DEF Valid, IInv, TokensOwned, TypeOK, Token
<1> HIDE DEF e
<1>3. /\ work \in Work
      /\ work.user = e /\ work.token = t /\ work.purpose = purpose /\ work.password = p
  BY <1>2, NothingIsWork DEF Work
<1>4. Begin(r, "confirm", work)
  BY <1>1 DEF e
<1> HIDE DEF work
<1>5. Remembers'
  BY <1>2, <1>3, <1>4 DEF IInv, TypeOK, Remembers, Begin, e
<1>6. LoginsFit'
  BY <1>4 DEF IInv, TypeOK, LoginsFit, Fits, Begin
<1>7. "confirm" \in Steps \ {"sweep", "commit"}
  BY DEF Steps
<1> QED BY <1>3, <1>4, <1>5, <1>6, <1>7, BeginStep

LEMMA BeginLoginStep ==
    ASSUME IInv, NEW r \in Requests, BeginLogin(r) PROVE IInv'
<1>1. PICK e \in Emails :
          /\ users[e].exists
          /\ Begin(r, "login", [Nothing EXCEPT !.user = e, !.password = users[e].password,
                                               !.authVersion = users[e].authVersion])
  BY DEF BeginLogin
<1> DEFINE p == users[e].password
           v == users[e].authVersion
           work == [Nothing EXCEPT !.user = e, !.password = p, !.authVersion = v]
<1>2. p \in Passwords /\ v \in 1..MaxVersion
  <2>1. users[e] \in Row
    BY <1>1, ExistingRow DEF IInv, TypeOK
  <2> QED BY <2>1 DEF Row
<1>3. v \in Nat /\ v \in 0..MaxVersion
  <2> HIDE DEF v
  <2> QED BY <1>2, AccountsAssumption
<1>4. /\ work \in Work
      /\ work.user = e /\ work.password = p /\ work.authVersion = v
  <2> HIDE DEF p, v
  <2> QED BY <1>2, <1>3, NothingIsWork DEF Work
<1>5. Begin(r, "login", work)
  BY <1>1
<1> HIDE DEF work
<1>6. Remembers'
  BY <1>5 DEF IInv, TypeOK, Remembers, Begin
<1>7. Fits(e, v, p)'
  BY <1>1, <1>3, <1>5 DEF Fits, Begin
<1>8. LoginsFit'
  BY <1>4, <1>5, <1>7 DEF IInv, TypeOK, LoginsFit, Fits, Begin
<1>9. "login" \in Steps \ {"sweep", "commit"}
  BY DEF Steps
<1> QED BY <1>4, <1>5, <1>6, <1>8, <1>9, BeginStep

LEMMA ReadSessionStep ==
    ASSUME IInv, NEW r \in Requests, ReadSession(r) PROVE IInv'
<1>1. PICK s \in Sessions :
          /\ sessions[s].user # None
          /\ Begin(r, "session", [Nothing EXCEPT !.user = sessions[s].user, !.session = s,
                                                 !.authVersion = sessions[s].authVersion])
  BY DEF ReadSession
<1> DEFINE e == sessions[s].user
           v == sessions[s].authVersion
           work == [Nothing EXCEPT !.user = e, !.session = s, !.authVersion = v]
<1>2. e \in Emails /\ v \in 0..MaxVersion
  BY <1>1 DEF IInv, TypeOK, Session
<1>3. /\ work \in Work
      /\ work.user = e /\ work.session = s /\ work.authVersion = v
  <2> HIDE DEF e, v
  <2> QED BY <1>2, NothingIsWork DEF Work
<1>4. Begin(r, "session", work)
  BY <1>1
<1> HIDE DEF work
<1>5. Remembers'
  BY <1>1, <1>3, <1>4 DEF IInv, TypeOK, Remembers, Begin
<1>6. LoginsFit'
  BY <1>4 DEF IInv, TypeOK, LoginsFit, Fits, Begin
<1>7. "session" \in Steps \ {"sweep", "commit"}
  BY DEF Steps
<1> QED BY <1>3, <1>4, <1>5, <1>6, <1>7, BeginStep

\* What every write to the three tables keeps of the rows that are there.
Advances ==
    /\ users' \in [Emails -> User]
    /\ tokens' \in [Tokens -> Token]
    /\ sessions' \in [Sessions -> Session]
    /\ \A e \in Emails : users[e].exists =>
          /\ users'[e].exists
          /\ users'[e].authVersion \in Nat
          /\ users[e].authVersion <= users'[e].authVersion
          /\ users[e].authVersion = users'[e].authVersion => users'[e].password = users[e].password
    /\ \A t \in Tokens : tokens[t].user # None =>
          tokens'[t].user = tokens[t].user /\ tokens'[t].purpose = tokens[t].purpose
    /\ \A s \in Sessions : sessions[s].user # None =>
          /\ sessions'[s].user = sessions[s].user
          /\ sessions'[s].authVersion = sessions[s].authVersion
          /\ sessions'[s].password = sessions[s].password

\* Each request goes on as it was, but for those that are over.
Others == \A q \in Requests : pc'[q] = "idle" \/ (pc'[q] = pc[q] /\ cmd'[q] = cmd[q])

LEMMA Versions ==
    ASSUME IInv, NEW e \in Emails, users[e].exists PROVE users[e].authVersion \in Nat
<1>1. users[e] \in Row
  BY ExistingRow DEF IInv, TypeOK
<1>2. users[e].authVersion \in 1..MaxVersion
  BY <1>1 DEF Row
<1> QED BY <1>2, AccountsAssumption

\* What went together still does after a write.
LEMMA FitsAdvances ==
    ASSUME IInv, Advances, NEW e, NEW v \in 0..MaxVersion, NEW p, Fits(e, v, p)
    PROVE  Fits(e, v, p)'
<1> DEFINE a == users[e].authVersion
           b == users'[e].authVersion
<1>1. e \in Emails /\ users[e].exists /\ v <= a /\ (v = a => p = users[e].password)
  BY DEF Fits
<1>2. a \in Nat
  BY <1>1, Versions
<1>3. /\ users'[e].exists /\ b \in Nat /\ a <= b
      /\ a = b => users'[e].password = users[e].password
  BY <1>1 DEF Advances
<1>4. v \in Nat
  BY AccountsAssumption
<1>5. v <= b /\ (v = b => v = a /\ a = b)
  <2> HIDE DEF a, b
  <2> QED BY <1>1, <1>2, <1>3, <1>4
<1> QED BY <1>1, <1>3, <1>5 DEF Fits

LEMMA RememberedStep == ASSUME IInv, Advances, Others PROVE Remembers' /\ LoginsFit'
<1>1. \A r \in Requests : cmd[r] \in Work
  BY DEF IInv, TypeOK
<1>2. Remembers'
  <2> SUFFICES ASSUME NEW r \in Requests, pc'[r] = pc[r], cmd'[r] = cmd[r]
               PROVE  Remembers!(r)'
    BY DEF Remembers, Others
  <2> QED BY AccountsAssumption DEF IInv, Remembers, Advances
<1>3. LoginsFit'
  <2> SUFFICES ASSUME NEW r \in Requests, pc'[r] = "login"
               PROVE  Fits(cmd[r].user, cmd[r].authVersion, cmd[r].password)'
    BY DEF LoginsFit
  <2>1. pc[r] = "login" /\ cmd'[r] = cmd[r]
    BY DEF Others
  <2>2. PICK e, v, p : e = cmd[r].user /\ v = cmd[r].authVersion /\ p = cmd[r].password
    OBVIOUS
  <2>3. v \in 0..MaxVersion
    BY <1>1, <2>2 DEF Work
  <2>4. Fits(e, v, p)
    BY <2>1, <2>2 DEF IInv, LoginsFit
  <2>5. Fits(e, v, p)'
    BY <2>3, <2>4, FitsAdvances
  <2> QED BY <2>1, <2>2, <2>5 DEF Fits
<1> QED BY <1>2, <1>3

\* The sessions and the tokens of before are those of an account that exists, and
\* the sessions still fit.
LEMMA RowsStep ==
    ASSUME IInv, Advances
    PROVE  /\ \A t \in Tokens : tokens[t].user # None =>
                  tokens'[t].user = tokens[t].user /\ users'[tokens[t].user].exists
           /\ \A s \in Sessions : sessions[s].user # None =>
                  Fits(sessions[s].user, sessions[s].authVersion, sessions[s].password)'
<1>1. ASSUME NEW t \in Tokens, tokens[t].user # None
      PROVE  tokens'[t].user = tokens[t].user /\ users'[tokens[t].user].exists
  <2>1. tokens[t].user \in Emails /\ users[tokens[t].user].exists
    BY <1>1 DEF IInv, TokensOwned, TypeOK, Token
  <2> QED BY <1>1, <2>1 DEF Advances
<1>2. ASSUME NEW s \in Sessions, sessions[s].user # None
      PROVE  Fits(sessions[s].user, sessions[s].authVersion, sessions[s].password)'
  <2>1. PICK e, v, p : e = sessions[s].user /\ v = sessions[s].authVersion
                         /\ p = sessions[s].password
    OBVIOUS
  <2>2. v \in 0..MaxVersion
    BY <2>1 DEF IInv, TypeOK, Session
  <2>3. Fits(e, v, p)
    BY <1>2, <2>1 DEF IInv, SessionsFit
  <2>4. Fits(e, v, p)'
    BY <2>2, <2>3, FitsAdvances
  <2>5. /\ e = sessions'[s].user /\ v = sessions'[s].authVersion
        /\ p = sessions'[s].password
    BY <1>2, <2>1 DEF Advances
  <2> QED BY <2>4, <2>5 DEF Fits
<1> QED BY <1>1, <1>2

\* The end of a request releases the account it held.
LEMMA EndType ==
    ASSUME IInv, Advances, NEW r \in Requests, End(r) PROVE TypeOK' /\ Others
<1>1. Others /\ cmd' \in [Requests -> Work] /\ pc' \in [Requests -> Steps]
  BY NothingIsWork DEF IInv, TypeOK, Others, End, Steps
<1>2. holder' \in [Emails -> Requests \cup {None}]
  BY DEF IInv, TypeOK, End
<1>3. \A q \in Requests, e \in Emails :
          holder'[e] = q <=> pc'[q] \in {"sweep", "commit"} /\ cmd'[q].user = e
  BY AccountsAssumption DEF IInv, TypeOK, End
<1> QED BY <1>1, <1>2, <1>3 DEF TypeOK, Advances

\* The tables after a write: what remains to be shown of a step is what it adds.
LEMMA WriteStep ==
    ASSUME IInv, TypeOK', Advances, Others,
           \A t \in Tokens : tokens[t].user = None /\ tokens'[t].user # None
              => users'[tokens'[t].user].exists,
           \A s \in Sessions : sessions[s].user = None /\ sessions'[s].user # None
              => Fits(sessions[s].user, sessions[s].authVersion, sessions[s].password)',
           VerifiedByItsOwnToken'
    PROVE  IInv'
<1>1. TokensOwned'
  BY RowsStep DEF TokensOwned
<1>2. SessionsFit'
  BY RowsStep DEF SessionsFit
<1> QED BY <1>1, <1>2, RememberedStep DEF IInv

\* A token that is issued belongs to an account that exists.
LEMMA IssueRows ==
    ASSUME IInv, NEW e \in Emails, NEW purpose \in Purposes, Issue(e, purpose)
    PROVE  /\ tokens' \in [Tokens -> Token]
           /\ \A t \in Tokens : tokens[t].user # None => tokens'[t] = tokens[t]
           /\ \A t \in Tokens : tokens[t].user = None /\ tokens'[t].user # None
                 => tokens'[t].user = e
<1>1. PICK t \in Tokens :
          /\ tokens[t].user = None
          /\ tokens' = [tokens EXCEPT ![t] = [NoToken EXCEPT !.user = e, !.purpose = purpose]]
  BY DEF Issue
<1> DEFINE new == [NoToken EXCEPT !.user = e, !.purpose = purpose]
<1>2. NoToken \in Token
  BY DEF NoToken, Token, Purposes
<1>3. new \in Token /\ new.user = e
  BY <1>2 DEF Token
<1> HIDE DEF new
<1>4. tokens' = [tokens EXCEPT ![t] = new]
  BY <1>1 DEF new
<1> QED BY <1>1, <1>3, <1>4 DEF IInv, TypeOK

LEMMA RegisterStep == ASSUME IInv, NEW r \in Requests, Register(r) PROVE IInv'
<1> DEFINE e == cmd[r].user
           new == [exists |-> TRUE, verified |-> FALSE, password |-> cmd[r].password,
                   authVersion |-> 1]
<1>1. e \in Emails /\ cmd[r].password \in Passwords /\ ~users[e].exists
  BY DEF IInv, Remembers, Register
<1>2. Issue(e, Verification) /\ End(r) /\ sessions' = sessions
  BY DEF Register
<1>3. users' = [users EXCEPT ![e] = new]
  BY DEF Register
<1>4. new \in User /\ new.exists /\ ~new.verified
  <2>1. 1 \in 1..MaxVersion
    BY AccountsAssumption
  <2>2. new \in Row
    BY <1>1, <2>1 DEF Row
  <2> QED BY <2>2 DEF User, Row
<1> HIDE DEF new
<1> HIDE DEF e
<1>5. PICK a \in Emails : a = e
  BY <1>1
<1>6. Verification \in Purposes
  BY DEF Purposes
<1>7. /\ tokens' \in [Tokens -> Token]
      /\ \A t \in Tokens : tokens[t].user # None => tokens'[t] = tokens[t]
      /\ \A t \in Tokens : tokens[t].user = None /\ tokens'[t].user # None
            => tokens'[t].user = a
  BY <1>2, <1>5, <1>6, IssueRows
<1>8. users' \in [Emails -> User]
  BY <1>3, <1>4 DEF IInv, TypeOK
<1>9. \A x \in Emails : users[x].exists => users'[x] = users[x]
  BY <1>1, <1>3 DEF IInv, TypeOK
<1>10. Advances
  BY <1>2, <1>7, <1>8, <1>9, Versions DEF IInv, TypeOK, Advances
<1>11. users'[a].exists /\ ~users'[a].verified
  BY <1>3, <1>4, <1>5 DEF IInv, TypeOK
<1>12. VerifiedByItsOwnToken'
  <2>1. \A x \in Emails : x # a => users'[x] = users[x]
    BY <1>3, <1>5 DEF IInv, TypeOK
  <2>2. ASSUME NEW t \in Tokens, NEW x \in Emails, tokens[t].user = x
        PROVE  tokens'[t] = tokens[t]
    BY <1>7, <2>2, AccountsAssumption
  <2> QED BY <1>11, <2>1, <2>2 DEF IInv, VerifiedByItsOwnToken
<1> QED BY <1>2, <1>7, <1>10, <1>11, <1>12, EndType, WriteStep

LEMMA IssueTokenStep == ASSUME IInv, NEW r \in Requests, IssueToken(r) PROVE IInv'
<1>1. PICK e \in Emails, purpose \in Purposes : Issue(e, purpose) /\ users[e].exists
  <2>1. cmd[r].user \in Emails /\ users[cmd[r].user].exists
    BY DEF IInv, Remembers, IssueToken
  <2>2. cmd[r].purpose \in Purposes
    BY DEF IInv, TypeOK, Work
  <2> QED BY <2>1, <2>2 DEF IssueToken
<1>2. End(r) /\ UNCHANGED <<users, sessions>>
  BY DEF IssueToken
<1>3. /\ tokens' \in [Tokens -> Token]
      /\ \A t \in Tokens : tokens[t].user # None => tokens'[t] = tokens[t]
      /\ \A t \in Tokens : tokens[t].user = None /\ tokens'[t].user # None
            => tokens'[t].user = e
  BY <1>1, IssueRows
<1>4. Advances
  BY <1>2, <1>3, Versions DEF IInv, TypeOK, Advances
<1>5. VerifiedByItsOwnToken'
  <2>1. ASSUME NEW t \in Tokens, NEW x \in Emails, tokens[t].user = x
        PROVE  tokens'[t] = tokens[t]
    BY <1>3, <2>1, AccountsAssumption
  <2> QED BY <1>2, <2>1 DEF IInv, VerifiedByItsOwnToken
<1> QED BY <1>1, <1>2, <1>3, <1>4, <1>5, EndType, WriteStep

\* The confirmations lock and sweep before their commit.
LEMMA WriteUserStep == ASSUME IInv, NEW r \in Requests, WriteUser(r) PROVE IInv'
<1> USE DEF IInv, WriteUser
<1>1. cmd[r].user \in Emails
  BY DEF Remembers
<1>2. TypeOK'
  BY <1>1, AccountsAssumption DEF TypeOK, Steps
<1>3. Remembers'
  BY DEF TypeOK, Remembers
<1>4. TokensOwned' /\ SessionsFit' /\ VerifiedByItsOwnToken'
  BY DEF TokensOwned, SessionsFit, Fits, VerifiedByItsOwnToken
<1>5. LoginsFit'
  BY DEF TypeOK, LoginsFit, Fits
<1> QED BY <1>2, <1>3, <1>4, <1>5

LEMMA SweepStep == ASSUME IInv, NEW r \in Requests, Sweep(r) PROVE IInv'
<1> DEFINE swept == {s \in Sessions : sessions[s].user = cmd[r].user /\ ~sessions[s].revoked}
           new == [cmd[r] EXCEPT !.swept = swept]
<1>1. pc[r] = "sweep" /\ cmd' = [cmd EXCEPT ![r] = new] /\ pc' = [pc EXCEPT ![r] = "commit"]
        /\ UNCHANGED <<users, tokens, sessions, holder>>
  BY DEF Sweep
<1>2. /\ new \in Work
      /\ new.user = cmd[r].user /\ new.token = cmd[r].token
      /\ new.purpose = cmd[r].purpose /\ new.password = cmd[r].password
  <2>1. cmd[r] \in Work /\ swept \in SUBSET Sessions
    BY DEF IInv, TypeOK
  <2> HIDE DEF swept
  <2> QED BY <2>1 DEF Work
<1> HIDE DEF new
<1>3. TypeOK'
  BY <1>1, <1>2 DEF IInv, TypeOK, Steps
<1>4. Remembers'
  BY <1>1, <1>2 DEF IInv, TypeOK, Remembers
<1>5. TokensOwned' /\ SessionsFit' /\ VerifiedByItsOwnToken'
  BY <1>1 DEF IInv, TokensOwned, SessionsFit, Fits, VerifiedByItsOwnToken
<1>6. LoginsFit'
  BY <1>1 DEF IInv, TypeOK, LoginsFit, Fits
<1> QED BY <1>3, <1>4, <1>5, <1>6 DEF IInv

\* A session is the same one after it is revoked.
LEMMA RevokedSession ==
    ASSUME NEW x \in Session
    PROVE  LET y == [x EXCEPT !.revoked = TRUE]
           IN  /\ y \in Session
               /\ y.user = x.user /\ y.authVersion = x.authVersion /\ y.password = x.password
BY DEF Session

\* The commit of a confirmation: the address is verified by the token it consumes, or
\* the new password comes with a version nobody has seen.
LEMMA ConfirmStep == ASSUME IInv, NEW r \in Requests, Confirm(r) PROVE IInv'
<1> DEFINE k == cmd[r].token
<1>1. PICK e \in Emails, p \in Passwords : e = cmd[r].user /\ p = cmd[r].password
  BY DEF IInv, Remembers, Confirm
<1> DEFINE u == users[e]
           new == IF cmd[r].purpose = Reset THEN WithPassword(u, p) ELSE Verified(u)
<1>2. /\ k \in Tokens /\ u \in Row /\ u.exists
      /\ tokens[k].user = e /\ tokens[k].purpose = cmd[r].purpose
      /\ cmd[r].purpose \in {Verification, Reset}
  <2>1. pc[r] = "commit" /\ cmd[r] \in Work /\ u \in User
    BY DEF Confirm, IInv, TypeOK
  <2>2. k \in Tokens /\ u.exists /\ tokens[k].user = e /\ tokens[k].purpose = cmd[r].purpose
    BY <1>1, <2>1 DEF IInv, Remembers
  <2> QED BY <2>1, <2>2, ExistingRow DEF Work, Purposes
<1>3. cmd[r].purpose = Reset => u.authVersion < MaxVersion
  BY <1>1 DEF Confirm
<1>4. /\ users' = [users EXCEPT ![e] = new]
      /\ sessions' = [s \in Sessions |-> IF s \in cmd[r].swept
                        THEN [sessions[s] EXCEPT !.revoked = TRUE] ELSE sessions[s]]
      /\ tokens' = [tokens EXCEPT ![k].consumed = TRUE, ![k].uses = @ + 1]
      /\ End(r)
  BY <1>1 DEF Confirm
<1>5. u.authVersion \in Nat
  BY <1>2, Versions
<1>6. /\ new \in Row
      /\ new.authVersion \in Nat /\ u.authVersion <= new.authVersion
      /\ u.authVersion = new.authVersion => new.password = u.password
      /\ cmd[r].purpose = Reset => new.verified = u.verified
  <2>1. CASE cmd[r].purpose = Reset
    <3>1. new \in Row /\ new.authVersion = u.authVersion + 1 /\ new.verified = u.verified
      BY <1>2, <1>3, <2>1, ResetRow
    <3> HIDE DEF new, u
    <3> QED BY <1>5, <3>1
  <2>2. CASE cmd[r].purpose # Reset
    <3>1. new \in Row /\ new.authVersion = u.authVersion /\ new.password = u.password
      BY <1>2, <2>2, VerifiedRow
    <3> HIDE DEF new, u
    <3> QED BY <1>5, <2>2, <3>1
  <2> QED BY <2>1, <2>2
<1> HIDE DEF new, k
<1>7. users' \in [Emails -> User]
  BY <1>4, <1>6 DEF IInv, TypeOK, User, Row
<1>8. /\ tokens' \in [Tokens -> Token]
      /\ \A t \in Tokens : /\ tokens'[t].user = tokens[t].user
                           /\ tokens'[t].purpose = tokens[t].purpose
                           /\ tokens[t].consumed => tokens'[t].consumed
      /\ tokens'[k].consumed
  BY <1>2, <1>4 DEF IInv, TypeOK, Token
<1>9. /\ sessions' \in [Sessions -> Session]
      /\ \A s \in Sessions : /\ sessions'[s].user = sessions[s].user
                             /\ sessions'[s].authVersion = sessions[s].authVersion
                             /\ sessions'[s].password = sessions[s].password
  <2>1. ASSUME NEW s \in Sessions
        PROVE  sessions[s] \in Session /\ sessions'[s] = IF s \in cmd[r].swept
                 THEN [sessions[s] EXCEPT !.revoked = TRUE] ELSE sessions[s]
    BY <1>4 DEF IInv, TypeOK
  <2>2. sessions' = [s \in Sessions |-> sessions'[s]]
    BY <1>4
  <2> QED BY <2>1, <2>2, RevokedSession
<1>10. users'[e] = new /\ \A x \in Emails \ {e} : users'[x] = users[x]
  BY <1>4 DEF IInv, TypeOK
<1>11. new.exists
  BY <1>6 DEF Row
<1>12. Advances
  BY <1>6, <1>7, <1>8, <1>9, <1>10, <1>11, Versions DEF Advances
<1>13. VerifiedByItsOwnToken'
  <2>1. ASSUME NEW x \in Emails, users'[x].verified
        PROVE  \E t \in Tokens : tokens[t].user = x /\ tokens[t].purpose = Verification
                                    /\ (tokens[t].consumed \/ t = k)
    <3>1. CASE users[x].verified
      BY <3>1 DEF IInv, VerifiedByItsOwnToken
    <3>2. CASE ~users[x].verified
      <4>1. x = e /\ cmd[r].purpose # Reset
        BY <1>6, <1>10, <2>1, <3>2
      <4> QED BY <1>2, <4>1
    <3> QED BY <3>1, <3>2
  <2> QED BY <1>8, <2>1 DEF VerifiedByItsOwnToken
<1> QED BY <1>4, <1>8, <1>9, <1>12, <1>13, EndType, WriteStep

\* The session a log-in opens fits, as what the log-in read did.
LEMMA OpenSessionStep == ASSUME IInv, NEW r \in Requests, OpenSession(r) PROVE IInv'
<1>1. PICK e, v, p : e = cmd[r].user /\ v = cmd[r].authVersion /\ p = cmd[r].password
  OBVIOUS
<1> DEFINE new == [NoSession EXCEPT !.user = e, !.authVersion = v, !.password = p]
<1>2. PICK s \in Sessions :
          sessions[s].user = None /\ sessions' = [sessions EXCEPT ![s] = new]
  BY <1>1 DEF OpenSession, Stamp
<1>3. End(r) /\ UNCHANGED <<users, tokens>>
  BY DEF OpenSession
<1>4. v \in 0..MaxVersion /\ p \in Passwords \cup {None}
  BY <1>1 DEF IInv, TypeOK, Work
<1>5. Fits(e, v, p)
  BY <1>1 DEF IInv, LoginsFit, OpenSession
<1>6. new \in Session /\ new.user = e /\ new.authVersion = v /\ new.password = p
  <2>1. e \in Emails
    BY <1>5 DEF Fits
  <2>2. NoSession \in Session
    BY AccountsAssumption DEF NoSession, Session
  <2> QED BY <1>4, <2>1, <2>2 DEF Session
<1> HIDE DEF new
<1>7. Advances
  BY <1>2, <1>3, <1>6, Versions DEF IInv, TypeOK, Advances
<1>8. Fits(e, v, p)'
  BY <1>3, <1>5 DEF Fits
<1>9. sessions'[s] = new /\ \A x \in Sessions \ {s} : sessions'[x] = sessions[x]
  BY <1>2 DEF IInv, TypeOK
<1>10. ASSUME NEW x \in Sessions, sessions[x].user = None, sessions'[x].user # None
       PROVE  Fits(sessions[x].user, sessions[x].authVersion, sessions[x].password)'
  <2>1. x = s
    BY <1>9, <1>10
  <2> QED BY <1>6, <1>8, <1>9, <2>1 DEF Fits
<1>11. VerifiedByItsOwnToken'
  BY <1>3 DEF IInv, VerifiedByItsOwnToken
<1> QED BY <1>3, <1>7, <1>10, <1>11, EndType, WriteStep

LEMMA GrantStep == ASSUME IInv, NEW r \in Requests, Grant(r) PROVE IInv'
<1> USE DEF IInv, Grant
<1>1. TypeOK'
  BY DEF TypeOK, Steps
<1>2. Remembers'
  BY DEF TypeOK, Remembers
<1>3. TokensOwned' /\ SessionsFit' /\ VerifiedByItsOwnToken'
  BY DEF TokensOwned, SessionsFit, Fits, VerifiedByItsOwnToken
<1>4. LoginsFit'
  BY DEF TypeOK, LoginsFit, Fits
<1> QED BY <1>1, <1>2, <1>3, <1>4

LEMMA LogoutStep == ASSUME IInv, NEW r \in Requests, Logout(r) PROVE IInv'
<1>1. End(r) /\ UNCHANGED <<users, tokens>>
  BY DEF Logout
<1>2. PICK s \in Sessions :
          sessions' = [sessions EXCEPT ![s] = [sessions[s] EXCEPT !.revoked = TRUE]]
  BY DEF IInv, Remembers, Logout
<1>3. \A x \in Sessions : sessions[x] \in Session
  BY DEF IInv, TypeOK
<1>4. /\ sessions' \in [Sessions -> Session]
      /\ \A x \in Sessions : /\ sessions'[x].user = sessions[x].user
                             /\ sessions'[x].authVersion = sessions[x].authVersion
                             /\ sessions'[x].password = sessions[x].password
  BY <1>2, <1>3, RevokedSession DEF IInv, TypeOK
<1>5. Advances
  BY <1>1, <1>4, Versions DEF IInv, TypeOK, Advances
<1>6. VerifiedByItsOwnToken'
  BY <1>1 DEF IInv, VerifiedByItsOwnToken
<1> QED BY <1>1, <1>4, <1>5, <1>6, EndType, WriteStep

LEMMA LeaveStep == ASSUME IInv, NEW r \in Requests, Leave(r) PROVE IInv'
<1>1. End(r) /\ UNCHANGED <<users, tokens, sessions>>
  BY DEF Leave, RollBack
<1>2. Advances
  BY <1>1, Versions DEF IInv, TypeOK, Advances
<1>3. VerifiedByItsOwnToken'
  BY <1>1 DEF IInv, VerifiedByItsOwnToken
<1> QED BY <1>1, <1>2, <1>3, EndType, WriteStep

\* A role change leaves the password and takes the next version.
LEMMA RoleChangedStep == ASSUME IInv, NEW e \in Emails, RoleChanged(e) PROVE IInv'
<1> DEFINE new == [users[e] EXCEPT !.authVersion = @ + 1]
<1>1. /\ users[e].exists /\ users[e].authVersion < MaxVersion
      /\ users' = [users EXCEPT ![e] = new]
      /\ UNCHANGED <<tokens, sessions, holder, pc, cmd>>
  BY DEF RoleChanged
<1>2. users[e] \in Row
  BY <1>1, ExistingRow DEF IInv, TypeOK
<1>3. new \in Row /\ new.authVersion = users[e].authVersion + 1 /\ new.verified = users[e].verified
  <2>1. users[e].authVersion + 1 \in 1..MaxVersion
    BY <1>1, <1>2, NextVersion
  <2>2. PICK u \in Row : u = users[e]
    BY <1>2
  <2>3. [u EXCEPT !.authVersion = @ + 1] \in Row
    BY <2>1, <2>2 DEF Row
  <2>4. /\ [u EXCEPT !.authVersion = @ + 1].authVersion = u.authVersion + 1
        /\ [u EXCEPT !.authVersion = @ + 1].verified = u.verified
    BY DEF Row
  <2>5. new = [u EXCEPT !.authVersion = @ + 1]
    BY <2>2
  <2> HIDE DEF new
  <2> QED BY <2>2, <2>3, <2>4, <2>5
<1> HIDE DEF new
<1>4. users' \in [Emails -> User]
  BY <1>1, <1>3 DEF IInv, TypeOK, User, Row
<1>5. users'[e] = new /\ new.exists /\ \A x \in Emails \ {e} : users'[x] = users[x]
  <2>1. users'[e] = new /\ \A x \in Emails \ {e} : users'[x] = users[x]
    BY <1>1 DEF IInv, TypeOK
  <2>2. new.exists
    BY <1>3 DEF Row
  <2> QED BY <2>1, <2>2
<1>6. Advances
  BY <1>1, <1>3, <1>4, <1>5, Versions DEF IInv, TypeOK, Advances
<1>7. TypeOK' /\ Others
  BY <1>1, <1>4 DEF IInv, TypeOK, Others
<1>8. VerifiedByItsOwnToken'
  BY <1>1, <1>3, <1>5 DEF IInv, VerifiedByItsOwnToken
<1> QED BY <1>1, <1>6, <1>7, <1>8, WriteStep

LEMMA ExpiredToken ==
    ASSUME NEW x \in Token
    PROVE  LET y == [x EXCEPT !.expired = TRUE]
           IN  /\ y \in Token
               /\ y.user = x.user /\ y.purpose = x.purpose /\ y.consumed = x.consumed
BY DEF Token

LEMMA ExpiredSession ==
    ASSUME NEW x \in Session
    PROVE  LET y == [x EXCEPT !.expired = TRUE]
           IN  /\ y \in Session
               /\ y.user = x.user /\ y.authVersion = x.authVersion /\ y.password = x.password
BY DEF Session

\* Time ends tokens and sessions.
LEMMA ExpireStep == ASSUME IInv, Expire PROVE IInv'
<1>1. UNCHANGED <<users, holder, pc, cmd>>
  BY DEF Expire
<1>2. /\ tokens' \in [Tokens -> Token]
      /\ \A t \in Tokens : /\ tokens'[t].user = tokens[t].user
                           /\ tokens'[t].purpose = tokens[t].purpose
                           /\ tokens'[t].consumed = tokens[t].consumed
  <2>1. CASE tokens' = tokens
    BY <2>1 DEF IInv, TypeOK
  <2>2. ASSUME NEW t \in Tokens, tokens' = [tokens EXCEPT ![t].expired = TRUE]
        PROVE  <1>2!1 /\ <1>2!2
    <3>1. \A x \in Tokens : tokens[x] \in Token
      BY DEF IInv, TypeOK
    <3> QED BY <2>2, <3>1, ExpiredToken DEF IInv, TypeOK
  <2> QED BY <2>1, <2>2 DEF Expire
<1>3. /\ sessions' \in [Sessions -> Session]
      /\ \A s \in Sessions : /\ sessions'[s].user = sessions[s].user
                             /\ sessions'[s].authVersion = sessions[s].authVersion
                             /\ sessions'[s].password = sessions[s].password
  <2>1. CASE sessions' = sessions
    BY <2>1 DEF IInv, TypeOK
  <2>2. ASSUME NEW s \in Sessions, sessions' = [sessions EXCEPT ![s].expired = TRUE]
        PROVE  <1>3!1 /\ <1>3!2
    <3>1. \A x \in Sessions : sessions[x] \in Session
      BY DEF IInv, TypeOK
    <3> QED BY <2>2, <3>1, ExpiredSession DEF IInv, TypeOK
  <2> QED BY <2>1, <2>2 DEF Expire
<1>4. Advances
  BY <1>1, <1>2, <1>3, Versions DEF IInv, TypeOK, Advances
<1>5. TypeOK' /\ Others
  BY <1>1, <1>2, <1>3 DEF IInv, TypeOK, Others
<1>6. VerifiedByItsOwnToken'
  BY <1>1, <1>2 DEF IInv, VerifiedByItsOwnToken
<1> QED BY <1>1, <1>2, <1>3, <1>4, <1>5, <1>6, WriteStep

-----------------------------------------------------------------------------
(* The theorems.                                                           *)

LEMMA NextInv == IInv /\ [Next]_vars => IInv'
<1> SUFFICES ASSUME IInv, [Next]_vars PROVE IInv'
  OBVIOUS
<1>1. CASE UNCHANGED vars
  <2>1. Advances /\ Others /\ TypeOK'
    BY <1>1, Versions DEF vars, Advances, Others, IInv, TypeOK
  <2>2. VerifiedByItsOwnToken'
    BY <1>1 DEF vars, IInv, VerifiedByItsOwnToken
  <2> QED BY <1>1, <2>1, <2>2, WriteStep DEF vars
<1>2. CASE Expire \/ \E e \in Emails : RoleChanged(e)
  BY <1>2, ExpireStep, RoleChangedStep
<1>3. ASSUME NEW r \in Requests,
             \/ BeginRegister(r) \/ Register(r) \/ BeginRequest(r) \/ IssueToken(r)
             \/ FindToken(r) \/ WriteUser(r) \/ Sweep(r) \/ Confirm(r)
             \/ BeginLogin(r) \/ OpenSession(r) \/ ReadSession(r) \/ Grant(r)
             \/ Logout(r) \/ Leave(r)
      PROVE  IInv'
  BY <1>3, BeginRegisterStep, RegisterStep, BeginRequestStep, IssueTokenStep, FindTokenStep,
     WriteUserStep, SweepStep, ConfirmStep, BeginLoginStep, OpenSessionStep, ReadSessionStep,
     GrantStep, LogoutStep, LeaveStep
<1> QED BY <1>1, <1>2, <1>3 DEF Next

\* Every behaviour keeps the shape of the state and the accounts' inductive invariant.
THEOREM Inductive == Spec => []IInv
BY InitInv, NextInv, PTL DEF Spec

\* The shape of the state, the locks of the users rows included.
THEOREM TypeCorrect == Spec => []TypeOK
<1>1. IInv => TypeOK
  BY DEF IInv
<1> QED BY <1>1, Inductive, PTL

\* A session with its account's current version was opened with its current password,
\* however resets, log-ins and role changes interleave.
THEOREM PasswordEndsSessions == Spec => []SessionsFollowThePassword
<1>1. IInv => SessionsFollowThePassword
  BY DEF IInv, SessionsFit, Fits, SessionsFollowThePassword
<1> QED BY <1>1, Inductive, PTL

\* An address is verified only by a verification token issued for it.
THEOREM AddressProved == Spec => []VerifiedByItsOwnToken
<1>1. IInv => VerifiedByItsOwnToken
  BY DEF IInv
<1> QED BY <1>1, Inductive, PTL

\* Whoever is let in came with the account's current password, even though the session
\* and the account are read at different moments.
THEOREM LetInOnTheCurrentPassword == Spec => GrantedOnTheCurrentPassword
<1> DEFINE Let(r) == pc[r] = "session" /\ pc'[r] = "granted"
              => sessions[cmd[r].session].password = users[cmd[r].user].password
<1>1. ASSUME IInv, [Next]_vars, NEW r \in Requests, pc[r] = "session", pc'[r] = "granted"
      PROVE  sessions[cmd[r].session].password = users[cmd[r].user].password
  <2>1. Grant(r)
    <3>1. pc \in [Requests -> Steps]
      BY <1>1 DEF IInv, TypeOK
    <3>2. ASSUME UNCHANGED pc PROVE FALSE
      BY <1>1, <3>2
    <3>3. ASSUME NEW q \in Requests, NEW step, step # "granted", pc' = [pc EXCEPT ![q] = step]
          PROVE  FALSE
      BY <1>1, <3>1, <3>3
    <3>4. \A q \in Requests : ~BeginRegister(q) /\ ~BeginRequest(q) /\ ~FindToken(q)
            /\ ~BeginLogin(q) /\ ~ReadSession(q)
      BY <3>3 DEF BeginRegister, BeginRequest, FindToken, BeginLogin, ReadSession, Begin
    <3>5. \A q \in Requests : ~Register(q) /\ ~IssueToken(q) /\ ~Confirm(q) /\ ~OpenSession(q)
            /\ ~Logout(q) /\ ~Leave(q)
      BY <3>3 DEF Register, IssueToken, Confirm, OpenSession, Logout, Leave, RollBack, End
    <3>6. \A q \in Requests : ~WriteUser(q) /\ ~Sweep(q)
      <4>1. \A q \in Requests : ~WriteUser(q)
        <5> SUFFICES ASSUME NEW q \in Requests, WriteUser(q) PROVE FALSE
          OBVIOUS
        <5>1. pc' = [pc EXCEPT ![q] = "sweep"] \/ pc' = [pc EXCEPT ![q] = "commit"]
          BY DEF WriteUser
        <5> QED BY <3>3, <5>1
      <4>2. \A q \in Requests : ~Sweep(q)
        BY <3>3 DEF Sweep
      <4> QED BY <4>1, <4>2
    <3>7. ~Expire /\ (\A e \in Emails : ~RoleChanged(e)) /\ ~UNCHANGED vars
      BY <3>2 DEF Expire, RoleChanged, vars
    <3>8. PICK q \in Requests : Grant(q)
      BY <1>1, <3>4, <3>5, <3>6, <3>7 DEF Next
    <3>9. q = r
      BY <1>1, <3>1, <3>8 DEF Grant
    <3> QED BY <3>8, <3>9
  <2>2. /\ cmd[r].session \in Sessions
        /\ sessions[cmd[r].session].user = cmd[r].user
        /\ sessions[cmd[r].session].user # None
        /\ sessions[cmd[r].session].authVersion = cmd[r].authVersion
    BY <1>1 DEF IInv, Remembers
  <2> QED BY <1>1, <2>1, <2>2 DEF Grant, Current, IInv, SessionsFit, Fits
<1>2. IInv /\ [Next]_vars => [\A r \in Requests : Let(r)]_vars
  BY <1>1
<1> QED BY <1>2, Inductive, PTL DEF Spec, GrantedOnTheCurrentPassword

=============================================================================
