------------------------------ MODULE AuthSession ------------------------------
(***************************************************************************)
(* The sessions of one user: AuthService and PrismaAuthRepository under    *)
(* concurrent logins, refreshes, logouts and password changes, of which    *)
(* any may fail or die between two of its database calls.                  *)
(*                                                                         *)
(* A token is named by the request that issued it (every token has a       *)
(* random jti), a session by the login that created it.  The refresh token *)
(* of a session is kept as a hash, the password as a salted hash that is   *)
(* another one after each change; a hash is what it is the hash of, and    *)
(* the password is the number of changes so far.                           *)
(*                                                                         *)
(* Left out: an expired token, which verifyRefreshToken turns away before  *)
(* anything is read, so that the branch EXPIRED of refresh is never taken; *)
(* wrong passwords, which change nothing; the status of the user, which no *)
(* code changes.                                                           *)
(***************************************************************************)
EXTENDS Naturals

CONSTANTS Requests,      \* HTTP requests of the user
          NoToken,
          MaxChanges     \* bound on password changes

ASSUME RequestsAssumption == NoToken \notin Requests /\ MaxChanges \in Nat

VARIABLES password,   \* users.password_hash
          sessions,   \* the rows of sessions
          requests,   \* the handlers
          delivered,  \* the tokens clients were given, with their sessions
          exchanged,  \* history: which token replaced which in a session
          createdAt,  \* history: the password when a session was created
          failed      \* history: the requests that met a failure

vars == <<password, sessions, requests, delivered, exchanged, createdAt, failed>>
history == <<exchanged, createdAt, failed>>

Kinds == {"none", "login", "refresh", "logout", "logoutAll", "changePassword"}
Pcs == {"idle", "create", "rotate", "reread", "revokeReuse", "revoke",
        "revokeAll", "change", "answer", "done"}
Outcomes == {"none", "ok", "refused", "error"}
Statuses == {"NONE", "ACTIVE", "REVOKED"}

\* A token is named by the request it was issued to, and it carries its session:
\* a signature of verifyToken is one that was issued.
Tokens == Requests \cup {NoToken}
Row == [status : Statuses, token : Tokens]
Request == [kind : Kinds, pc : Pcs, session : Tokens, token : Tokens,
            read : Nat, outcome : Outcomes]

noRow == [status |-> "NONE", token |-> NoToken]
idle == [kind |-> "none", pc |-> "idle", session |-> NoToken, token |-> NoToken,
         read |-> 0, outcome |-> "none"]

Init == /\ password = 0
        /\ sessions = [s \in Requests |-> noRow]
        /\ requests = [r \in Requests |-> idle]
        /\ delivered = {}
        /\ exchanged = {}
        /\ createdAt = [s \in Requests |-> 0]
        /\ failed = {}

-------------------------------------------------------------------------------
(* Helpers *)

Become(r, record) == requests' = [requests EXCEPT ![r] = record]
Goto(r, pc) == Become(r, [requests[r] EXCEPT !.pc = pc])
AnswerWith(r, outcome) == [requests[r] EXCEPT !.pc = "answer", !.outcome = outcome]

IsActive(s) == sessions[s].status = "ACTIVE"

\* UPDATE sessions SET status = REVOKED WHERE status = ACTIVE AND ...
Revoked(scope) ==
  [s \in Requests |-> IF s \in scope /\ IsActive(s)
                      THEN [sessions[s] EXCEPT !.status = "REVOKED"] ELSE sessions[s]]

\* Faulty variant: only the session that asked for the change.
ScopeOfChangeOwn(r) == {requests[r].session}

ScopeOfChange(r) == Requests

\* A request comes with tokens a client holds, session and token; what it reads
\* first decides between the way on, at pc, and the answer at once.
Start(r, kind, session, token, ok, pc, refusal) ==
  /\ requests[r].pc = "idle"
  /\ Become(r, [kind |-> kind, pc |-> IF ok THEN pc ELSE "answer",
                session |-> session, token |-> token, read |-> password,
                outcome |-> IF ok THEN "none" ELSE refusal])
  /\ UNCHANGED <<password, sessions, delivered, history>>

-------------------------------------------------------------------------------
(* login *)

\* The user is read and the password, right at that moment, verified.
StartLogin(r) ==
  Start(r, "login", r, r, TRUE, "create", "refused")

\* issueSession.  The user is not read again.
CreateSession(r) ==
  /\ requests[r].pc = "create"
  /\ sessions' = [sessions EXCEPT ![r] = [status |-> "ACTIVE", token |-> r]]
  /\ createdAt' = [createdAt EXCEPT ![r] = password]
  /\ Become(r, AnswerWith(r, "ok"))
  /\ UNCHANGED <<password, delivered, exchanged, failed>>

-------------------------------------------------------------------------------
(* refresh *)

StartRefresh(r) ==
  \E d \in delivered :
    Start(r, "refresh", d.session, d.token, IsActive(d.session), "rotate", "refused")

\* Faulty variant: any token of the session is exchanged.
CanRotateAnyToken(r) == IsActive(requests[r].session)

\* Faulty variant: a revoked session is rotated too.
CanRotateRevoked(r) == sessions[requests[r].session].token = requests[r].token

CanRotate(r) == /\ IsActive(requests[r].session)
                /\ sessions[requests[r].session].token = requests[r].token

\* Faulty variant: the hash of the presented token is stored again.
StoresPresented(r) == requests[r].token

NextToken(r) == r

\* The conditional UPDATE of rotateRefreshToken.
Rotate(r) ==
  LET s == requests[r].session
  IN  /\ requests[r].pc = "rotate"
      /\ IF CanRotate(r)
         THEN /\ sessions' = [sessions EXCEPT ![s].token = NextToken(r)]
              /\ exchanged' = exchanged \cup
                   {[session |-> s, old |-> requests[r].token, new |-> r]}
              /\ Become(r, AnswerWith(r, "ok"))
         ELSE /\ Goto(r, "reread")
              /\ UNCHANGED <<sessions, exchanged>>
      /\ UNCHANGED <<password, delivered, createdAt, failed>>

\* No row matched: REUSE_DETECTED if the session is still active.
RereadAfterRotation(r) ==
  /\ requests[r].pc = "reread"
  /\ IF IsActive(requests[r].session) THEN Goto(r, "revokeReuse")
     ELSE Become(r, AnswerWith(r, "refused"))
  /\ UNCHANGED <<password, sessions, delivered, history>>

\* Faulty variant: a reused token is only refused.
ScopeOfReuseNone(r) == {}

ScopeOfReuse(r) == {requests[r].session}

RevokeReuse(r) ==
  /\ requests[r].pc = "revokeReuse"
  /\ sessions' = Revoked(ScopeOfReuse(r))
  /\ Become(r, AnswerWith(r, "refused"))
  /\ UNCHANGED <<password, delivered, history>>

-------------------------------------------------------------------------------
(* logout and logoutAll *)

StartLogout(r) ==
  \E d \in delivered :
    Start(r, "logout", d.session, d.token, IsActive(d.session), "revoke", "ok")

\* Faulty variant: the session is revoked only by its current token.
ScopeOfLogoutCurrent(r) ==
  {s \in Requests : s = requests[r].session /\ sessions[s].token = requests[r].token}

ScopeOfLogout(r) == {requests[r].session}

Logout(r) ==
  /\ requests[r].pc = "revoke"
  /\ sessions' = Revoked(ScopeOfLogout(r))
  /\ Become(r, AnswerWith(r, "ok"))
  /\ UNCHANGED <<password, delivered, history>>

\* AuthAccessGuard: the access token of an active session.
StartLogoutAll(r) ==
  \E d \in delivered :
    Start(r, "logoutAll", d.session, d.token, IsActive(d.session), "revokeAll", "refused")

LogoutAll(r) ==
  /\ requests[r].pc = "revokeAll"
  /\ sessions' = Revoked(Requests)
  /\ Become(r, AnswerWith(r, "ok"))
  /\ UNCHANGED <<password, delivered, history>>

-------------------------------------------------------------------------------
(* changePassword *)

\* The guard and the service read the session, the service the password, which
\* is verified against the current one; the new one is hashed.
StartChange(r) ==
  /\ password < MaxChanges
  /\ \E d \in delivered :
       Start(r, "changePassword", d.session, d.token, IsActive(d.session), "change", "refused")

\* Faulty variant: the password that was verified is not compared.
CanChangeAnyPassword(r) == TRUE

CanChange(r) == password = requests[r].read

\* One transaction: the password if it is the verified one, and every session.
ChangePassword(r) ==
  /\ requests[r].pc = "change"
  /\ IF CanChange(r)
     THEN /\ password' = password + 1
          /\ sessions' = Revoked(ScopeOfChange(r))
          /\ Become(r, AnswerWith(r, "ok"))
     ELSE /\ Become(r, AnswerWith(r, "refused"))
          /\ UNCHANGED <<password, sessions>>
  /\ UNCHANGED <<delivered, history>>

-------------------------------------------------------------------------------

\* The answer reaches the client, with the new token if there is one.
Answer(r) ==
  /\ requests[r].pc = "answer"
  /\ Goto(r, "done")
  /\ delivered' = IF requests[r].outcome = "ok" /\ requests[r].kind \in {"login", "refresh"}
                  THEN delivered \cup {[session |-> requests[r].session, token |-> r]} ELSE delivered
  /\ UNCHANGED <<password, sessions, history>>

\* A database call fails before it is executed, or the process dies; at "answer"
\* what was executed stays and the reply is lost.  logout swallows every error.
Fail(r) ==
  /\ requests[r].pc \notin {"idle", "done"}
  /\ Become(r, [requests[r] EXCEPT !.pc = "done",
                  !.outcome = IF requests[r].kind = "logout" THEN "ok" ELSE "error"])
  /\ failed' = failed \cup {r}
  /\ UNCHANGED <<password, sessions, delivered, exchanged, createdAt>>

Handle(r) ==
  \/ StartLogin(r) \/ CreateSession(r)
  \/ StartRefresh(r) \/ Rotate(r) \/ RereadAfterRotation(r) \/ RevokeReuse(r)
  \/ StartLogout(r) \/ Logout(r) \/ StartLogoutAll(r) \/ LogoutAll(r)
  \/ StartChange(r) \/ ChangePassword(r)
  \/ Answer(r) \/ Fail(r)

Next == \E r \in Requests : Handle(r)

Spec == Init /\ [][Next]_vars

-------------------------------------------------------------------------------

\* Type invariant.  A session that exists holds a token.
TypeOK ==
  /\ password \in 0 .. MaxChanges
  /\ sessions \in [Requests -> Row]
  /\ \A s \in Requests : sessions[s].status # "NONE" => sessions[s].token # NoToken
  /\ requests \in [Requests -> Request]
  /\ delivered \subseteq [session : Requests, token : Requests]
  /\ exchanged \subseteq [session : Requests, old : Requests, new : Requests]
  /\ createdAt \in [Requests -> Nat]
  /\ failed \subseteq Requests

Answered(r, kind, outcome) ==
  requests[r].kind = kind /\ requests[r].pc = "done" /\ requests[r].outcome = outcome

\* Two requests with one refresh token, also from different instances: it is
\* exchanged at most once, and never after the token that replaced it was.
TokenExchangedOnce ==
  \A x, y \in exchanged : (x.session = y.session /\ x.old = y.old) => x = y

\* A refresh that is refused leaves no session behind that goes on without it:
\* it was over already, or the reuse of a token has ended it.
RefusedRefreshEndsSession ==
  \A r \in Requests :
    Answered(r, "refresh", "refused") => sessions[requests[r].session].status = "REVOKED"

\* The holder of the last token of a chain can go on: a token that was answered
\* is the current one, or was exchanged, or its session is over.
AnsweredTokenWorks ==
  \A d \in delivered :
    \/ sessions[d.session].token = d.token
    \/ \E x \in exchanged : x.session = d.session /\ x.old = d.token
    \/ sessions[d.session].status = "REVOKED"

\* logout ends the session whatever refreshes run beside it, unless its own
\* database call failed, which it does not tell.
LogoutEndsSession ==
  \A r \in Requests \ failed :
    Answered(r, "logout", "ok") => sessions[requests[r].session].status = "REVOKED"

\* A password change ends every session there is: those that are active were
\* created under the password that is valid now.
NoSessionOutlivesChange ==
  \A s \in Requests : sessions[s].status = "ACTIVE" => createdAt[s] = password

\* Of two changes that verified the same password one is refused.
ChangesDoNotOverwrite ==
  \A q, r \in Requests :
    (/\ Answered(q, "changePassword", "ok") /\ Answered(r, "changePassword", "ok")
     /\ requests[q].read = requests[r].read) => q = r

\* A revoked session is never written again: no refresh that is under way
\* revives it or gives it a token.
RevokedForGood ==
  [][\A s \in Requests : sessions[s].status = "REVOKED" => sessions'[s] = sessions[s]]_vars
===============================================================================
