-------------------------- MODULE AuthSession_proofs --------------------------
(***************************************************************************)
(* The sessions of a user for any number of requests and of password       *)
(* changes: every safety property of AuthSession.  Then the browser of the *)
(* user beside them: BrowserInvariant says that, as long as no answer to   *)
(* an exchange was lost, at most one is under way and the cookie is the    *)
(* current token of its session, or the one that exchange has replaced.    *)
(* Last the rate limit.                                                    *)
(***************************************************************************)
EXTENDS AuthApi, FiniteSetTheorems, TLAPS

\* What a request that has come to a point of its handler is.  One that has none was
\* turned away; one that changes the password read one that leaves room for a change.
RequestOK(r) ==
  LET q == requests[r]
  IN  /\ q.pc = "idle" => q = idle
      /\ q.kind = "none" => q.pc \in {"idle", "answer", "done"}
      /\ q.kind # "none" => q.session \in Requests /\ q.token \in Requests
      /\ q.pc \notin {"answer", "done"} => q.outcome = "none"
      /\ q.pc = "create" => q.kind = "login" /\ q.session = r
      /\ q.pc \in {"rotate", "reread", "revokeReuse"} => q.kind = "refresh"
      /\ q.pc = "revoke" => q.kind = "logout"
      /\ q.pc = "revokeAll" => q.kind = "logoutAll"
      /\ q.pc = "change" => q.kind = "changePassword" /\ q.read < MaxChanges

Types == TypeOK /\ \A r \in Requests : RequestOK(r)

\* A request that has not been answered has issued no token and no session.
Fresh(r) ==
  requests[r].pc \notin {"answer", "done"} =>
    /\ sessions[r] = noRow
    /\ \A s \in Requests : sessions[s].token # r
    /\ \A x \in exchanged : x.old # r /\ x.new # r

FreshTokens == \A r \in Requests : Fresh(r)

\* The token of a session has not been exchanged yet.
CurrentNotExchanged ==
  \A x \in exchanged : sessions[x.session].token # x.old

\* The token t of session s is the current one, or was, or the session is over.
Works(s, t) ==
  \/ sessions[s].token = t
  \/ \E x \in exchanged : x.session = s /\ x.old = t
  \/ sessions[s].status = "REVOKED"

\* What is known of a request when its outcome is, before that is delivered too:
\* its session exists, the token it answers works, and a refused refresh, a logout
\* and a changed password are what they say.
Known(r, kind, outcome) ==
  /\ requests[r].pc \in {"answer", "done"}
  /\ requests[r].kind = kind /\ requests[r].outcome = outcome

OutcomeTrue(r) ==
  LET s == requests[r].session
  IN  /\ requests[r].pc \notin {"create", "done"} /\ requests[r].kind # "none" => sessions[s].status # "NONE"
      /\ requests[r].pc = "answer" /\ (Known(r, "login", "ok") \/ Known(r, "refresh", "ok")) =>
           Works(s, r)
      /\ Known(r, "refresh", "refused") => sessions[s].status = "REVOKED"
      /\ Known(r, "logout", "ok") /\ r \notin failed => sessions[s].status = "REVOKED"
      /\ Known(r, "changePassword", "ok") => requests[r].read < password

OutcomesTrue == \A r \in Requests : OutcomeTrue(r)

\* What clients hold: tokens that work, of sessions that exist.
DeliveredTrue ==
  \A d \in delivered : sessions[d.session].status # "NONE" /\ Works(d.session, d.token)

\* Two changes that are known to have succeeded verified different passwords.
ChangesDiffer ==
  \A q, r \in Requests :
    (/\ Known(q, "changePassword", "ok") /\ Known(r, "changePassword", "ok")
     /\ requests[q].read = requests[r].read) => q = r

SessionInvariant ==
  /\ Types
  /\ FreshTokens
  /\ CurrentNotExchanged
  /\ TokenExchangedOnce
  /\ OutcomesTrue
  /\ DeliveredTrue
  /\ ChangesDiffer
  /\ NoSessionOutlivesChange

-------------------------------------------------------------------------------
(* What a step does *)

\* A step changes one request.  Its new record has to be of the type, and to fit
\* its point of the handler.
LEMMA OneRequest ==
  ASSUME Types, NEW r \in Requests, NEW q \in Request,
         requests' = [requests EXCEPT ![r] = q],
         RequestOK(r)'
  PROVE  /\ requests' \in [Requests -> Request]
         /\ \A p \in Requests : RequestOK(p)'
         /\ requests'[r] = q
         /\ \A p \in Requests \ {r} : requests'[p] = requests[p]
  <1>1. requests \in [Requests -> Request]
    BY DEF Types, TypeOK
  <1>2. /\ requests' \in [Requests -> Request] /\ requests'[r] = q
        /\ \A p \in Requests \ {r} : requests'[p] = requests[p]
    BY <1>1
  <1>3. ASSUME NEW p \in Requests, p # r PROVE RequestOK(p)'
    <2>1. requests'[p] = requests[p] /\ RequestOK(p)
      BY <1>2, <1>3 DEF Types
    <2>2. QED
      BY <2>1 DEF RequestOK
  <1>4. QED
    BY <1>2, <1>3

\* A revocation keeps the tokens, and makes active sessions of its scope revoked.
LEMMA RevokedRows ==
  ASSUME Types, NEW scope, sessions' = Revoked(scope)
  PROVE  /\ sessions' \in [Requests -> Row]
         /\ \A s \in Requests :
              /\ sessions'[s].token = sessions[s].token
              /\ sessions[s].status # "ACTIVE" => sessions'[s] = sessions[s]
              /\ sessions[s].status # "NONE" => sessions'[s].status # "NONE"
              /\ sessions'[s].status = "ACTIVE" => sessions[s].status = "ACTIVE" /\ s \notin scope
              /\ s \in scope /\ sessions[s].status # "NONE" => sessions'[s].status = "REVOKED"
  BY SMT DEF Types, TypeOK, Row, Statuses, Revoked, IsActive

\* A request that moves on keeps what it is.
LEMMA Moved ==
  ASSUME Types, NEW r \in Requests, NEW p \in Pcs, NEW o \in Outcomes,
         requests' = [requests EXCEPT ![r] = [requests[r] EXCEPT !.pc = p, !.outcome = o]],
         RequestOK(r)'
  PROVE  /\ requests' \in [Requests -> Request]
         /\ \A q \in Requests : RequestOK(q)'
  <1>1. [requests[r] EXCEPT !.pc = p, !.outcome = o] \in Request
    BY DEF Types, TypeOK, Request
  <1>2. QED
    BY <1>1, OneRequest

-------------------------------------------------------------------------------
(* Types *)

\* The update every handler begins with keeps the types.
LEMMA StartTypes ==
  ASSUME Types, NEW r \in Requests,
         NEW kind \in Kinds, NEW s \in Requests, NEW t \in Requests, NEW ok \in BOOLEAN,
         NEW pc \in Pcs, NEW refusal \in Outcomes,
         kind = "login" => s = r,
         <<kind, pc>> \in {<<"login", "create">>, <<"refresh", "rotate">>, <<"logout", "revoke">>,
                           <<"logoutAll", "revokeAll">>, <<"changePassword", "change">>},
         kind = "changePassword" => password < MaxChanges,
         Start(r, kind, s, t, ok, pc, refusal)
  PROVE  Types'
  <1> DEFINE q == [kind |-> kind, pc |-> IF ok THEN pc ELSE "answer", session |-> s,
                   token |-> t, read |-> password, outcome |-> IF ok THEN "none" ELSE refusal]
  <1>1. q \in Request /\ requests' = [requests EXCEPT ![r] = q]
    BY SMT DEF Types, TypeOK, Start, Become, Request, Tokens, Pcs, Outcomes
  <1>2. requests'[r] = q
    BY <1>1 DEF Types, TypeOK
  <1>3. RequestOK(r)'
    BY <1>2, SMT DEF RequestOK
  <1>4. requests' \in [Requests -> Request] /\ \A p \in Requests : RequestOK(p)'
    BY <1>1, <1>3, OneRequest
  <1>5. UNCHANGED <<password, sessions, delivered, exchanged, createdAt, failed>>
    BY DEF Start, history
  <1>6. QED
    BY <1>4, <1>5 DEF Types, TypeOK

\* Every step of AuthSession keeps the types.
LEMMA TypesStep == Types /\ [Next]_vars => Types'
  <1> SUFFICES ASSUME Types, [Next]_vars PROVE Types'
    OBVIOUS
  <1>1. CASE UNCHANGED vars
    BY <1>1 DEF vars, Types, TypeOK, RequestOK
  <1>2. ASSUME NEW r \in Requests, StartLogin(r) PROVE Types'
    BY <1>2, StartTypes DEF StartLogin, Kinds, Pcs, Outcomes
  <1>3. ASSUME NEW r \in Requests, CreateSession(r) PROVE Types'
    <2>1. requests' = [requests EXCEPT ![r] = [requests[r] EXCEPT !.pc = "answer", !.outcome = "ok"]]
      BY <1>3 DEF CreateSession, Become, AnswerWith
    <2>2. RequestOK(r)'
      BY <1>3, <2>1, SMT DEF RequestOK, Types, TypeOK, Request, CreateSession
    <2>3. requests' \in [Requests -> Request] /\ \A q \in Requests : RequestOK(q)'
      BY <2>1, <2>2, Moved DEF Pcs, Outcomes
    <2>4. sessions' \in [Requests -> Row] /\ createdAt' \in [Requests -> Nat]
          /\ \A s \in Requests : sessions'[s].status # "NONE" => sessions'[s].token # NoToken
      BY <1>3, RequestsAssumption DEF CreateSession, Types, TypeOK, Row, Statuses, Tokens
    <2>5. QED
      BY <1>3, <2>3, <2>4 DEF CreateSession, Types, TypeOK
  <1>4. ASSUME NEW r \in Requests, StartRefresh(r) PROVE Types'
    <2>1. PICK d \in delivered : Start(r, "refresh", d.session, d.token, IsActive(d.session), "rotate", "refused")
      BY <1>4 DEF StartRefresh
    <2>2. QED
      BY <2>1, StartTypes DEF Types, TypeOK, Kinds, Pcs, Outcomes, IsActive
  <1>5. ASSUME NEW r \in Requests, Rotate(r) PROVE Types'
    <2>1. CASE CanRotate(r)
      <3>1. requests' = [requests EXCEPT ![r] = [requests[r] EXCEPT !.pc = "answer", !.outcome = "ok"]]
        BY <1>5, <2>1 DEF Rotate, Become, AnswerWith
      <3>2. RequestOK(r)' /\ requests[r].session \in Requests /\ requests[r].token \in Requests
        BY <1>5, <3>1, SMT DEF RequestOK, Types, TypeOK, Request, Rotate
      <3>3. requests' \in [Requests -> Request] /\ \A q \in Requests : RequestOK(q)'
        BY <3>1, <3>2, Moved DEF Pcs, Outcomes
      <3>4. sessions' \in [Requests -> Row]
            /\ \A s \in Requests : sessions'[s].status # "NONE" => sessions'[s].token # NoToken
        BY <1>5, <2>1, <3>2, RequestsAssumption DEF Rotate, NextToken, Types, TypeOK, Row, Tokens
      <3>5. exchanged' \subseteq [session : Requests, old : Requests, new : Requests]
        BY <1>5, <2>1, <3>2 DEF Rotate, Types, TypeOK
      <3>6. QED
        BY <1>5, <3>3, <3>4, <3>5 DEF Rotate, Types, TypeOK
    <2>2. CASE ~CanRotate(r)
      <3>1. requests' = [requests EXCEPT ![r] = [requests[r] EXCEPT !.pc = "reread"]]
        BY <1>5, <2>2 DEF Rotate, Become, Goto
      <3>2. RequestOK(r)' /\ [requests[r] EXCEPT !.pc = "reread"] \in Request
        BY <1>5, <3>1, SMT DEF RequestOK, Types, TypeOK, Request, Rotate, Pcs
      <3>3. requests' \in [Requests -> Request] /\ \A q \in Requests : RequestOK(q)'
        BY <3>1, <3>2, OneRequest
      <3>4. QED
        BY <1>5, <2>2, <3>3 DEF Rotate, Types, TypeOK
    <2>3. QED
      BY <2>1, <2>2
  <1>6. ASSUME NEW r \in Requests, RereadAfterRotation(r) PROVE Types'
    <2> DEFINE Moves == requests' \in [Requests -> Request] /\ \A p \in Requests : RequestOK(p)'
    <2>1. ASSUME IsActive(requests[r].session) PROVE Moves
      <3>1. requests' = [requests EXCEPT ![r] = [requests[r] EXCEPT !.pc = "revokeReuse"]]
        BY <1>6, <2>1 DEF RereadAfterRotation, Goto, Become
      <3>2. RequestOK(r)' /\ [requests[r] EXCEPT !.pc = "revokeReuse"] \in Request
        BY <1>6, <3>1, SMT DEF RequestOK, Types, TypeOK, Request, RereadAfterRotation, Pcs
      <3>3. QED
        BY <3>1, <3>2, OneRequest
    <2>2. ASSUME ~IsActive(requests[r].session) PROVE Moves
      <3>1. requests' = [requests EXCEPT ![r] = [requests[r] EXCEPT !.pc = "answer", !.outcome = "refused"]]
        BY <1>6, <2>2 DEF RereadAfterRotation, Become, AnswerWith
      <3>2. RequestOK(r)'
        BY <1>6, <3>1, SMT DEF RequestOK, Types, TypeOK, Request, RereadAfterRotation
      <3>3. QED
        BY <3>1, <3>2, Moved DEF Pcs, Outcomes
    <2>3. Moves
      BY <2>1, <2>2
    <2>4. QED
      BY <1>6, <2>3 DEF RereadAfterRotation, history, Types, TypeOK
  <1>7. ASSUME NEW r \in Requests, RevokeReuse(r) \/ Logout(r) \/ LogoutAll(r) PROVE Types'
    <2>1. PICK o \in {"ok", "refused"} :
            requests' = [requests EXCEPT ![r] = [requests[r] EXCEPT !.pc = "answer", !.outcome = o]]
      BY <1>7 DEF RevokeReuse, Logout, LogoutAll, Become, AnswerWith
    <2>2. RequestOK(r)'
      BY <1>7, <2>1, SMT DEF RequestOK, Types, TypeOK, Request, RevokeReuse, Logout, LogoutAll
    <2>3. requests' \in [Requests -> Request] /\ \A p \in Requests : RequestOK(p)'
      BY <2>1, <2>2, Moved DEF Pcs, Outcomes
    <2>4. \E scope : sessions' = Revoked(scope)
      BY <1>7 DEF RevokeReuse, Logout, LogoutAll
    <2>5. /\ sessions' \in [Requests -> Row]
          /\ \A s \in Requests : sessions'[s].status # "NONE" => sessions'[s].token # NoToken
      BY <2>4, RevokedRows DEF Types, TypeOK, Row
    <2>6. QED
      BY <1>7, <2>3, <2>5 DEF RevokeReuse, Logout, LogoutAll, history, Types, TypeOK
  <1>8. ASSUME NEW r \in Requests, StartLogout(r) PROVE Types'
    <2>1. PICK d \in delivered : Start(r, "logout", d.session, d.token, IsActive(d.session), "revoke", "ok")
      BY <1>8 DEF StartLogout
    <2>2. QED
      BY <2>1, StartTypes DEF Types, TypeOK, Kinds, Pcs, Outcomes, IsActive
  <1>9. ASSUME NEW r \in Requests, StartLogoutAll(r) PROVE Types'
    <2>1. PICK d \in delivered : Start(r, "logoutAll", d.session, d.token, IsActive(d.session), "revokeAll", "refused")
      BY <1>9 DEF StartLogoutAll
    <2>2. QED
      BY <2>1, StartTypes DEF Types, TypeOK, Kinds, Pcs, Outcomes, IsActive
  <1>10. ASSUME NEW r \in Requests, StartChange(r) PROVE Types'
    <2>1. PICK d \in delivered : Start(r, "changePassword", d.session, d.token, IsActive(d.session), "change", "refused")
      BY <1>10 DEF StartChange
    <2>2. password < MaxChanges
      BY <1>10 DEF StartChange
    <2>3. QED
      BY <2>1, <2>2, StartTypes DEF Types, TypeOK, Kinds, Pcs, Outcomes, IsActive
  <1>11. ASSUME NEW r \in Requests, ChangePassword(r) PROVE Types'
    <2>1. PICK o \in {"ok", "refused"} :
            requests' = [requests EXCEPT ![r] = [requests[r] EXCEPT !.pc = "answer", !.outcome = o]]
      BY <1>11 DEF ChangePassword, Become, AnswerWith
    <2>2. RequestOK(r)'
      BY <1>11, <2>1, SMT DEF RequestOK, Types, TypeOK, Request, ChangePassword
    <2>3. requests' \in [Requests -> Request] /\ \A p \in Requests : RequestOK(p)'
      BY <2>1, <2>2, Moved DEF Pcs, Outcomes
    <2>4. sessions' = sessions \/ \E scope : sessions' = Revoked(scope)
      BY <1>11 DEF ChangePassword
    <2>5. /\ sessions' \in [Requests -> Row]
          /\ \A s \in Requests : sessions'[s].status # "NONE" => sessions'[s].token # NoToken
      BY <2>4, RevokedRows DEF Types, TypeOK, Row
    <2>6. password' \in 0 .. MaxChanges
      BY <1>11, RequestsAssumption DEF ChangePassword, CanChange, RequestOK, Types, TypeOK
    <2>7. QED
      BY <1>11, <2>3, <2>5, <2>6 DEF ChangePassword, history, Types, TypeOK
  <1>12. ASSUME NEW r \in Requests, Answer(r) PROVE Types'
    <2>1. requests' = [requests EXCEPT ![r] = [requests[r] EXCEPT !.pc = "done"]]
      BY <1>12 DEF Answer, Goto, Become
    <2>2. /\ RequestOK(r)' /\ [requests[r] EXCEPT !.pc = "done"] \in Request
          /\ requests[r].kind # "none" => requests[r].session \in Requests
      BY <1>12, <2>1, SMT DEF RequestOK, Types, TypeOK, Request, Answer, Pcs
    <2>3. requests' \in [Requests -> Request] /\ \A p \in Requests : RequestOK(p)'
      BY <2>1, <2>2, OneRequest
    <2>4. delivered' \subseteq [session : Requests, token : Requests]
      BY <1>12, <2>2 DEF Answer, Types, TypeOK
    <2>5. QED
      BY <1>12, <2>3, <2>4 DEF Answer, history, Types, TypeOK
  <1>13. ASSUME NEW r \in Requests, Fail(r) PROVE Types'
    <2>1. PICK o \in {"ok", "error"} :
            requests' = [requests EXCEPT ![r] = [requests[r] EXCEPT !.pc = "done", !.outcome = o]]
      BY <1>13 DEF Fail, Become
    <2>2. RequestOK(r)'
      BY <1>13, <2>1, SMT DEF RequestOK, Types, TypeOK, Request, Fail
    <2>3. requests' \in [Requests -> Request] /\ \A p \in Requests : RequestOK(p)'
      BY <2>1, <2>2, Moved DEF Pcs, Outcomes
    <2>4. QED
      BY <1>13, <2>3 DEF Fail, Types, TypeOK
  <1>14. QED
    BY <1>1, <1>2, <1>3, <1>4, <1>5, <1>6, <1>7, <1>8, <1>9, <1>10, <1>11, <1>12, <1>13 DEF Next, Handle

-------------------------------------------------------------------------------
(* What a step does to the sessions, and to the tokens *)

Keeps == UNCHANGED <<sessions, exchanged, createdAt>>

Creates(r) ==
  /\ requests[r].pc = "create" /\ requests'[r].pc = "answer"
  /\ sessions' = [sessions EXCEPT ![r] = [status |-> "ACTIVE", token |-> r]]
  /\ createdAt' = [createdAt EXCEPT ![r] = password]
  /\ UNCHANGED <<password, exchanged>>

Exchanges(r, s) ==
  /\ requests[r].pc = "rotate" /\ requests'[r].pc = "answer"
  /\ requests[r].session = s
  /\ sessions[s] = [status |-> "ACTIVE", token |-> requests[r].token]
  /\ sessions' = [sessions EXCEPT ![s] = [status |-> "ACTIVE", token |-> r]]
  /\ exchanged' = exchanged \cup {[session |-> s, old |-> requests[r].token, new |-> r]}
  /\ UNCHANGED <<password, createdAt>>

Revokes(scope) ==
  /\ sessions' = Revoked(scope)
  /\ UNCHANGED <<exchanged, createdAt>>

\* What a step may do to the rows: nothing, one new session, one exchange, or a revocation.
LEMMA SessionStep ==
  ASSUME Types, Next
  PROVE  \/ Keeps
         \/ \E r \in Requests : Creates(r)
         \/ \E r, s \in Requests : Exchanges(r, s)
         \/ \E scope : Revokes(scope)
  <1>1. ASSUME NEW r \in Requests,
               StartLogin(r) \/ StartRefresh(r) \/ StartLogout(r) \/ StartLogoutAll(r) \/ StartChange(r)
        PROVE  Keeps
    BY <1>1 DEF StartLogin, StartRefresh, StartLogout, StartLogoutAll, StartChange, Start, Keeps, history
  <1>2. ASSUME NEW r \in Requests, RereadAfterRotation(r) \/ Answer(r) \/ Fail(r) PROVE Keeps
    BY <1>2 DEF RereadAfterRotation, Answer, Fail, Keeps, history
  <1>3. ASSUME NEW r \in Requests, CreateSession(r) PROVE Creates(r)
    <2>1. requests' = [requests EXCEPT ![r] = [requests[r] EXCEPT !.pc = "answer", !.outcome = "ok"]]
      BY <1>3 DEF CreateSession, Become, AnswerWith
    <2>2. requests'[r].pc = "answer"
      BY <2>1 DEF Types, TypeOK, Request
    <2>3. QED
      BY <1>3, <2>2 DEF CreateSession, Creates
  <1>4. ASSUME NEW r \in Requests, Rotate(r)
        PROVE  Keeps \/ \E s \in Requests : Exchanges(r, s)
    <2>1. CASE CanRotate(r)
      <3> DEFINE s == requests[r].session
      <3>1. requests' = [requests EXCEPT ![r] = [requests[r] EXCEPT !.pc = "answer", !.outcome = "ok"]]
        BY <1>4, <2>1 DEF Rotate, Become, AnswerWith
      <3>2. requests'[r].pc = "answer"
        BY <3>1 DEF Types, TypeOK, Request
      <3>3. s \in Requests /\ sessions[s] \in Row
        BY <1>4 DEF Rotate, Types, TypeOK, RequestOK
      <3>4. sessions[s] = [status |-> "ACTIVE", token |-> requests[r].token]
        BY <2>1, <3>3 DEF CanRotate, IsActive, Row
      <3>5. [sessions[s] EXCEPT !.token = r] = [status |-> "ACTIVE", token |-> r]
        BY <3>4
      <3>6. sessions' = [sessions EXCEPT ![s] = [sessions[s] EXCEPT !.token = r]]
        BY <1>4, <2>1 DEF Rotate, NextToken
      <3>7. exchanged' = exchanged \cup {[session |-> s, old |-> requests[r].token, new |-> r]}
        BY <1>4, <2>1 DEF Rotate
      <3>8. requests[r].pc = "rotate" /\ UNCHANGED <<password, createdAt>>
        BY <1>4 DEF Rotate
      <3>9. Exchanges(r, s)
        BY <3>2, <3>4, <3>5, <3>6, <3>7, <3>8 DEF Exchanges
      <3>10. QED
        BY <3>3, <3>9
    <2>2. CASE ~CanRotate(r)
      BY <1>4, <2>2 DEF Rotate, Keeps
    <2>3. QED
      BY <2>1, <2>2
  <1>5. ASSUME NEW r \in Requests, RevokeReuse(r) \/ Logout(r) \/ LogoutAll(r)
        PROVE  \E scope : Revokes(scope)
    BY <1>5 DEF RevokeReuse, Logout, LogoutAll, Revokes, history
  <1>6. ASSUME NEW r \in Requests, ChangePassword(r)
        PROVE  Keeps \/ \E scope : Revokes(scope)
    BY <1>6 DEF ChangePassword, Keeps, Revokes, history
  <1>7. QED
    BY <1>1, <1>2, <1>3, <1>4, <1>5, <1>6 DEF Next, Handle

\* An answered request stays answered.
LEMMA StaysAnswered ==
  ASSUME Types, Next, NEW p \in Requests, requests[p].pc \in {"answer", "done"}
  PROVE  requests'[p].pc \in {"answer", "done"}
  <1> PICK r \in Requests : Handle(r)
    BY DEF Next
  <1>1. ASSUME NEW q, requests' = [requests EXCEPT ![r] = q], r # p
        PROVE  requests'[p] = requests[p]
    BY <1>1 DEF Types, TypeOK
  <1>2. ASSUME r = p PROVE Answer(r) \/ Fail(r)
    BY <1>2 DEF Handle, StartLogin, CreateSession, StartRefresh, Rotate, RereadAfterRotation, RevokeReuse,
       StartLogout, Logout, StartLogoutAll, LogoutAll, StartChange, ChangePassword, Start
  <1>3. CASE Answer(r) \/ Fail(r)
    <2>1. requests'[r].pc = "done" /\ \E q : requests' = [requests EXCEPT ![r] = q]
      <3>1. PICK q : requests' = [requests EXCEPT ![r] = q] /\ q.pc = "done"
        <4>1. "pc" \in DOMAIN requests[r]
          BY DEF Types, TypeOK, Request
        <4>2. CASE Answer(r)
          <5> DEFINE q == [requests[r] EXCEPT !.pc = "done"]
          <5>1. requests' = [requests EXCEPT ![r] = q]
            BY <4>2 DEF Answer, Goto, Become
          <5>2. q.pc = "done"
            BY <4>1
          <5>. HIDE DEF q
          <5>. QED
            BY <5>1, <5>2
        <4>3. CASE Fail(r)
          <5>1. PICK outcome : requests' = [requests EXCEPT ![r] =
                                 [requests[r] EXCEPT !.pc = "done", !.outcome = outcome]]
            BY <4>3 DEF Fail, Become
          <5> DEFINE q == [requests[r] EXCEPT !.pc = "done", !.outcome = outcome]
          <5>2. q.pc = "done" /\ requests' = [requests EXCEPT ![r] = q]
            BY <4>1, <5>1
          <5>. HIDE DEF q
          <5>. QED
            BY <5>2
        <4>. QED
          BY <1>3, <4>2, <4>3
      <3>. QED
        BY <3>1 DEF Types, TypeOK
    <2>2. QED
      BY <1>1, <2>1
  <1>4. CASE r # p
    <2>1. \E q : requests' = [requests EXCEPT ![r] = q]
      BY DEF Handle, StartLogin, CreateSession, StartRefresh, Rotate, RereadAfterRotation, RevokeReuse,
       StartLogout, Logout, StartLogoutAll, LogoutAll, StartChange, ChangePassword, Start,
       Answer, Fail, Goto, Become
    <2>2. QED
      BY <1>1, <1>4, <2>1
  <1>5. QED
    BY <1>2, <1>3, <1>4

\* A session that exists goes on existing, and a revoked one stays as it is.
LEMMA SessionsStay ==
  ASSUME Types, FreshTokens, Next, NEW s \in Requests
  PROVE  /\ sessions[s].status # "NONE" => sessions'[s].status # "NONE"
         /\ sessions[s].status = "REVOKED" => sessions'[s] = sessions[s]
  <1>1. CASE Keeps
    BY <1>1 DEF Keeps
  <1>2. ASSUME NEW r \in Requests, Creates(r)
        PROVE  /\ sessions[s].status # "NONE" => sessions'[s].status # "NONE"
               /\ sessions[s].status = "REVOKED" => sessions'[s] = sessions[s]
    <2>1. sessions[r].status = "NONE"
      BY <1>2 DEF Creates, FreshTokens, Fresh, noRow
    <2>2. QED
      BY <1>2, <2>1 DEF Creates, Types, TypeOK
  <1>3. ASSUME NEW r \in Requests, NEW t \in Requests, Exchanges(r, t)
        PROVE  /\ sessions[s].status # "NONE" => sessions'[s].status # "NONE"
               /\ sessions[s].status = "REVOKED" => sessions'[s] = sessions[s]
    BY <1>3 DEF Exchanges, Types, TypeOK
  <1>4. ASSUME NEW scope, Revokes(scope)
        PROVE  /\ sessions[s].status # "NONE" => sessions'[s].status # "NONE"
               /\ sessions[s].status = "REVOKED" => sessions'[s] = sessions[s]
    BY <1>4, RevokedRows DEF Revokes
  <1>5. QED
    BY <1>1, <1>2, <1>3, <1>4, SessionStep

-------------------------------------------------------------------------------
(* Each part of the invariant *)

\* Requests that are not answered yet have handed out neither a token nor a session.
LEMMA FreshStep == ASSUME Types, FreshTokens, Next PROVE FreshTokens'
  <1> SUFFICES ASSUME NEW p \in Requests, requests'[p].pc \notin {"answer", "done"}
               PROVE  /\ sessions'[p] = noRow
                      /\ \A s \in Requests : sessions'[s].token # p
                      /\ \A x \in exchanged' : x.old # p /\ x.new # p
    BY DEF FreshTokens, Fresh
  <1>1. /\ sessions[p] = noRow
        /\ \A s \in Requests : sessions[s].token # p
        /\ \A x \in exchanged : x.old # p /\ x.new # p
    BY StaysAnswered DEF FreshTokens, Fresh
  <1>2. CASE Keeps
    BY <1>1, <1>2 DEF Keeps
  <1>3. ASSUME NEW r \in Requests, Creates(r)
        PROVE  /\ sessions'[p] = noRow
               /\ \A s \in Requests : sessions'[s].token # p
               /\ \A x \in exchanged' : x.old # p /\ x.new # p
    BY <1>1, <1>3 DEF Creates, Types, TypeOK
  <1>4. ASSUME NEW r \in Requests, NEW t \in Requests, Exchanges(r, t)
        PROVE  /\ sessions'[p] = noRow
               /\ \A s \in Requests : sessions'[s].token # p
               /\ \A x \in exchanged' : x.old # p /\ x.new # p
    <2>1. r # p /\ requests[r].token # p /\ t # p
      BY <1>1, <1>4 DEF Exchanges, noRow
    <2>2. QED
      BY <1>1, <1>4, <2>1 DEF Exchanges, Types, TypeOK
  <1>5. ASSUME NEW scope, Revokes(scope)
        PROVE  /\ sessions'[p] = noRow
               /\ \A s \in Requests : sessions'[s].token # p
               /\ \A x \in exchanged' : x.old # p /\ x.new # p
    BY <1>1, <1>5, RevokedRows DEF Revokes, noRow
  <1>6. QED
    BY <1>2, <1>3, <1>4, <1>5, SessionStep

\* An exchange stores a token that has never been exchanged, for one that had not.
LEMMA ExchangedStep ==
  ASSUME Types, FreshTokens, CurrentNotExchanged, TokenExchangedOnce, Next
  PROVE  CurrentNotExchanged' /\ TokenExchangedOnce'
  <1>1. CASE Keeps
    BY <1>1 DEF Keeps, CurrentNotExchanged, TokenExchangedOnce
  <1>2. ASSUME NEW r \in Requests, Creates(r)
        PROVE  CurrentNotExchanged' /\ TokenExchangedOnce'
    <2>1. \A x \in exchanged : x.old # r /\ x.session \in Requests
      BY <1>2 DEF Creates, FreshTokens, Fresh, Types, TypeOK
    <2>2. QED
      BY <1>2, <2>1 DEF Creates, CurrentNotExchanged, TokenExchangedOnce, Types, TypeOK
  <1>3. ASSUME NEW r \in Requests, NEW s \in Requests, Exchanges(r, s)
        PROVE  CurrentNotExchanged' /\ TokenExchangedOnce'
    <2> DEFINE new == [session |-> s, old |-> requests[r].token, new |-> r]
    <2>1. /\ requests[r].token # r
          /\ \A x \in exchanged : x.old # r /\ x.session \in Requests
      BY <1>3 DEF Exchanges, FreshTokens, Fresh, Types, TypeOK
    <2>2. \A x \in exchanged : x.session = s => x.old # requests[r].token
      BY <1>3 DEF Exchanges, CurrentNotExchanged
    <2>3. exchanged' = exchanged \cup {new}
      BY <1>3 DEF Exchanges
    <2>4. /\ sessions'[s].token = r
          /\ \A t \in Requests \ {s} : sessions'[t] = sessions[t]
      BY <1>3 DEF Exchanges, Types, TypeOK
    <2>5. CurrentNotExchanged'
      BY <2>1, <2>3, <2>4 DEF CurrentNotExchanged
    <2>6. TokenExchangedOnce'
      BY <2>2, <2>3 DEF TokenExchangedOnce
    <2>7. QED
      BY <2>5, <2>6
  <1>4. ASSUME NEW scope, Revokes(scope)
        PROVE  CurrentNotExchanged' /\ TokenExchangedOnce'
    BY <1>4, RevokedRows DEF Revokes, CurrentNotExchanged, TokenExchangedOnce, Types, TypeOK
  <1>5. QED
    BY <1>1, <1>2, <1>3, <1>4, SessionStep

\* Sessions that are active were created under the password that is valid.
LEMMA OutlivesStep ==
  ASSUME Types, NoSessionOutlivesChange, Next
  PROVE  NoSessionOutlivesChange'
  <1>1. CASE \E r \in Requests : ChangePassword(r)
    <2> PICK r \in Requests : ChangePassword(r)
      BY <1>1
    <2>1. CASE CanChange(r)
      <3>1. sessions' = Revoked(Requests)
        BY <2>1 DEF ChangePassword, ScopeOfChange
      <3>2. \A s \in Requests : sessions'[s].status # "ACTIVE"
        BY <3>1, RevokedRows
      <3>3. QED
        BY <3>2 DEF NoSessionOutlivesChange
    <2>2. CASE ~CanChange(r)
      BY <2>2 DEF ChangePassword, history, NoSessionOutlivesChange
    <2>3. QED
      BY <2>1, <2>2
  <1>2. CASE ~\E r \in Requests : ChangePassword(r)
    <2>1. password' = password
      BY <1>2 DEF Next, Handle, StartLogin, CreateSession, StartRefresh, Rotate, RereadAfterRotation, RevokeReuse,
         StartLogout, Logout, StartLogoutAll, LogoutAll, StartChange, Start, Answer, Fail
    <2>2. CASE Keeps
      BY <2>1, <2>2 DEF Keeps, NoSessionOutlivesChange
    <2>3. ASSUME NEW r \in Requests, Creates(r) PROVE NoSessionOutlivesChange'
      BY <2>3 DEF Creates, NoSessionOutlivesChange, Types, TypeOK
    <2>4. ASSUME NEW r \in Requests, NEW s \in Requests, Exchanges(r, s)
          PROVE  NoSessionOutlivesChange'
      BY <2>4 DEF Exchanges, NoSessionOutlivesChange, Types, TypeOK
    <2>5. ASSUME NEW scope, Revokes(scope) PROVE NoSessionOutlivesChange'
      BY <2>1, <2>5, RevokedRows DEF Revokes, NoSessionOutlivesChange
    <2>6. QED
      BY <2>2, <2>3, <2>4, <2>5, SessionStep
  <1>3. QED
    BY <1>1, <1>2

-------------------------------------------------------------------------------
(* What a step does to what is known of the requests *)

\* A token that works goes on working.
LEMMA WorksStays ==
  ASSUME Types, FreshTokens, Next, NEW s \in Requests, NEW t \in Requests, Works(s, t)
  PROVE  Works(s, t)'
  <1>1. CASE Keeps
    BY <1>1 DEF Keeps, Works
  <1>2. ASSUME NEW r \in Requests, Creates(r) PROVE Works(s, t)'
    <2>1. CASE s = r
      <3>1. sessions[s] = noRow
        BY <1>2, <2>1 DEF Creates, FreshTokens, Fresh
      <3>2. QED
        BY <1>2, <3>1, RequestsAssumption DEF Creates, Works, noRow
    <2>2. CASE s # r
      BY <1>2, <2>2 DEF Creates, Works, Types, TypeOK
    <2>3. QED
      BY <2>1, <2>2
  <1>3. ASSUME NEW r \in Requests, NEW u \in Requests, Exchanges(r, u) PROVE Works(s, t)'
    <2>1. CASE s = u
      <3> DEFINE new == [session |-> s, old |-> requests[r].token, new |-> r]
      <3>1. new \in exchanged' /\ new.session = s /\ new.old = requests[r].token
        BY <1>3, <2>1 DEF Exchanges
      <3>2. /\ \A x \in exchanged : x \in exchanged'
            /\ sessions[s].status # "REVOKED" /\ sessions[s].token = requests[r].token
        BY <1>3, <2>1 DEF Exchanges
      <3> HIDE DEF new
      <3>3. CASE sessions[s].token = t
        BY <3>1, <3>2, <3>3 DEF Works
      <3>4. CASE sessions[s].token # t
        BY <3>2, <3>4 DEF Works
      <3>5. QED
        BY <3>3, <3>4
    <2>2. CASE s # u
      BY <1>3, <2>2 DEF Exchanges, Works, Types, TypeOK
    <2>3. QED
      BY <2>1, <2>2
  <1>4. ASSUME NEW scope, Revokes(scope) PROVE Works(s, t)'
    BY <1>4, RevokedRows DEF Revokes, Works
  <1>5. QED
    BY <1>1, <1>2, <1>3, <1>4, SessionStep

\* The password is never changed back, and a failure never forgotten.
LEMMA Grows ==
  ASSUME Types, Next
  PROVE  password \in Nat /\ password' \in Nat /\ password <= password' /\ failed \subseteq failed'
  <1>1. password \in Nat
    BY RequestsAssumption DEF Types, TypeOK
  <1>2. password' = password \/ password' = password + 1
    BY DEF Next, Handle, StartLogin, CreateSession, StartRefresh, Rotate, RereadAfterRotation, RevokeReuse,
       StartLogout, Logout, StartLogoutAll, LogoutAll, StartChange, ChangePassword, Start, Answer, Fail
  <1>3. failed \subseteq failed'
    BY DEF Next, Handle, StartLogin, CreateSession, StartRefresh, Rotate, RereadAfterRotation, RevokeReuse,
       StartLogout, Logout, StartLogoutAll, LogoutAll, StartChange, ChangePassword, Start, Answer, Fail, history
  <1>4. QED
    BY <1>1, <1>2, <1>3

\* What is known of a request stays true while it takes no step.
LEMMA OthersStep ==
  ASSUME Types, FreshTokens, OutcomesTrue, Next,
         NEW p \in Requests, requests'[p] = requests[p]
  PROVE  OutcomeTrue(p)'
  <1> DEFINE s == requests[p].session
  <1>1. OutcomeTrue(p)
    BY DEF OutcomesTrue
  <1>2. CASE requests[p].kind = "none"
    BY <1>2 DEF OutcomeTrue, Known
  <1>3. CASE requests[p].kind # "none"
    <2>1. s \in Requests /\ requests[p].read \in Nat
      BY <1>3 DEF Types, RequestOK, TypeOK, Request
    <2>2. /\ sessions[s].status # "NONE" => sessions'[s].status # "NONE"
          /\ sessions[s].status = "REVOKED" => sessions'[s].status = "REVOKED"
          /\ Works(s, p) => Works(s, p)'
      BY <2>1, SessionsStay, WorksStays
    <2>3. requests[p].read < password => requests[p].read < password'
      BY <2>1, Grows
    <2>4. failed \subseteq failed'
      BY Grows
    <2>5. Works(requests[p].session, p)' <=> Works(s, p)'
      BY DEF Works
    <2>6. QED
      BY <1>1, <2>2, <2>3, <2>4, <2>5 DEF OutcomeTrue, Known
  <1>4. QED
    BY <1>2, <1>3

\* Handlers that are started with what a client holds: those that end at once
\* do so because the session, which exists, is not active.
LEMMA StartOutcome ==
  ASSUME Types, DeliveredTrue, NEW r \in Requests, NEW d \in delivered,
         NEW kind \in {"refresh", "logout", "logoutAll", "changePassword"}, NEW pc \in Pcs,
         NEW refusal \in {"ok", "refused"},
         kind # "logout" => refusal = "refused",
         pc \notin {"answer", "done"},
         Start(r, kind, d.session, d.token, IsActive(d.session), pc, refusal)
  PROVE  OutcomeTrue(r)'
  <1> DEFINE s == d.session
  <1>1. s \in Requests /\ sessions[s].status \in Statuses /\ sessions[s].status # "NONE"
    BY DEF Types, TypeOK, Row, DeliveredTrue
  <1>2. /\ requests'[r].session = s /\ requests'[r].kind = kind
        /\ requests'[r].pc = IF IsActive(s) THEN pc ELSE "answer"
        /\ requests'[r].outcome = IF IsActive(s) THEN "none" ELSE refusal
    BY DEF Start, Become, Types, TypeOK
  <1>3. sessions' = sessions
    BY DEF Start
  <1>4. CASE IsActive(s)
    BY <1>1, <1>2, <1>3, <1>4 DEF OutcomeTrue, Known
  <1>5. CASE ~IsActive(s)
    <2>1. sessions[s].status = "REVOKED"
      BY <1>1, <1>5 DEF Statuses, IsActive
    <2>2. QED
      BY <1>2, <1>3, <1>5, <2>1 DEF OutcomeTrue, Known
  <1>6. QED
    BY <1>4, <1>5

\* A handler that goes on with its session, at a point where nothing is known.
LEMMA GoesOn ==
  ASSUME Types, FreshTokens, OutcomesTrue, Next, NEW r \in Requests,
         requests[r].pc \notin {"idle", "create", "answer", "done"},
         requests'[r].session = requests[r].session,
         requests'[r].pc \notin {"answer", "done"}
  PROVE  OutcomeTrue(r)'
  <1>1. requests[r].kind # "none" /\ requests[r].session \in Requests
    BY DEF Types, RequestOK
  <1>2. sessions'[requests[r].session].status # "NONE"
    BY <1>1, SessionsStay DEF OutcomesTrue, OutcomeTrue
  <1>3. QED
    BY <1>2 DEF OutcomeTrue, Known

\* A handler that answers: its session exists, and the outcome is what it says.
LEMMA Answers ==
  ASSUME Types, FreshTokens, OutcomesTrue, Next, NEW r \in Requests, NEW o \in Outcomes,
         requests[r].pc \notin {"idle", "create", "answer", "done"},
         requests' = [requests EXCEPT ![r] = [requests[r] EXCEPT !.pc = "answer", !.outcome = o]],
         LET s == requests[r].session
         IN  /\ requests[r].kind # "login"
             /\ requests[r].kind = "refresh" /\ o = "ok" => Works(s, r)'
             /\ requests[r].kind = "refresh" /\ o = "refused" => sessions'[s].status = "REVOKED"
             /\ requests[r].kind = "logout" /\ o = "ok" => sessions'[s].status = "REVOKED"
             /\ requests[r].kind = "changePassword" /\ o = "ok" => requests[r].read < password'
  PROVE  OutcomeTrue(r)'
  <1> DEFINE s == requests[r].session
  <1>1. requests[r].kind # "none" /\ s \in Requests
    BY DEF Types, RequestOK
  <1>2. sessions'[s].status # "NONE"
    BY <1>1, SessionsStay DEF OutcomesTrue, OutcomeTrue
  <1>3. /\ requests'[r].session = s /\ requests'[r].kind = requests[r].kind
        /\ requests'[r].outcome = o /\ requests'[r].read = requests[r].read
        /\ requests'[r].pc = "answer"
    BY SMT DEF Types, TypeOK, Request
  <1>4. Works(requests[r].session, r)' <=> Works(s, r)'
    BY <1>3 DEF Works
  <1>5. QED
    BY <1>2, <1>3, <1>4 DEF OutcomeTrue, Known

\* What is known of the request that takes the step.
LEMMA ActorStep ==
  ASSUME Types, FreshTokens, OutcomesTrue, DeliveredTrue, Next, NEW r \in Requests,
         Handle(r)
  PROVE  OutcomeTrue(r)'
  <1> DEFINE s == requests[r].session
  <1>a. requests \in [Requests -> Request] /\ RequestOK(r) /\ OutcomeTrue(r)
    BY DEF Types, TypeOK, OutcomesTrue
  <1>1. CASE StartLogin(r)
    <2>1. requests'[r].pc = "create"
      BY <1>1, <1>a DEF StartLogin, Start, Become
    <2>2. QED
      BY <2>1 DEF OutcomeTrue, Known
  <1>2. CASE CreateSession(r)
    <2>1. requests' = [requests EXCEPT ![r] = [requests[r] EXCEPT !.pc = "answer", !.outcome = "ok"]]
      BY <1>2 DEF CreateSession, Become, AnswerWith
    <2>2. requests'[r].session = r /\ requests'[r].kind = "login"
      BY <1>2, <1>a, <2>1 DEF CreateSession, RequestOK, Request
    <2>3. sessions'[r].token = r /\ sessions'[r].status = "ACTIVE"
      BY <1>2 DEF CreateSession, Types, TypeOK
    <2>4. QED
      BY <2>2, <2>3 DEF OutcomeTrue, Known, Works
  <1>3. CASE StartRefresh(r)
    BY <1>3, StartOutcome DEF StartRefresh, Pcs
  <1>4. CASE Rotate(r)
    <2>1. CASE CanRotate(r)
      <3>1. requests' = [requests EXCEPT ![r] = [requests[r] EXCEPT !.pc = "answer", !.outcome = "ok"]]
        BY <1>4, <2>1 DEF Rotate, Become, AnswerWith
      <3>2. requests'[r].session = s /\ requests'[r].kind = "refresh" /\ requests'[r].outcome = "ok"
        BY <1>4, <1>a, <3>1 DEF Rotate, RequestOK, Request
      <3>3. s \in Requests /\ sessions'[s].token = r
        BY <1>4, <1>a, <2>1 DEF Rotate, NextToken, RequestOK, Types, TypeOK, Row
      <3>4. sessions'[s].status # "NONE"
        BY <1>4, <1>a, <3>3, SessionsStay DEF Rotate, RequestOK, OutcomeTrue
      <3>5. QED
        BY <3>2, <3>3, <3>4 DEF OutcomeTrue, Known, Works
    <2>2. CASE ~CanRotate(r)
      <3>1. requests' = [requests EXCEPT ![r] = [requests[r] EXCEPT !.pc = "reread"]]
        BY <1>4, <2>2 DEF Rotate, Goto, Become
      <3>2. requests'[r].session = s /\ requests'[r].pc = "reread"
        BY <1>a, <3>1 DEF Request
      <3>3. QED
        BY <1>4, <3>2, GoesOn DEF Rotate
    <2>3. QED
      BY <2>1, <2>2
  <1>5. CASE RereadAfterRotation(r)
    <2>1. CASE IsActive(s)
      <3>1. requests' = [requests EXCEPT ![r] = [requests[r] EXCEPT !.pc = "revokeReuse"]]
        BY <1>5, <2>1 DEF RereadAfterRotation, Goto, Become
      <3>2. requests'[r].session = s /\ requests'[r].pc = "revokeReuse"
        BY <1>a, <3>1 DEF Request
      <3>3. QED
        BY <1>5, <3>2, GoesOn DEF RereadAfterRotation
    <2>2. CASE ~IsActive(s)
      <3>1. requests' = [requests EXCEPT ![r] = [requests[r] EXCEPT !.pc = "answer", !.outcome = "refused"]]
        BY <1>5, <2>2 DEF RereadAfterRotation, Become, AnswerWith
      <3>2. s \in Requests /\ sessions[s].status \in Statuses /\ sessions[s].status # "NONE"
        BY <1>5, <1>a DEF RereadAfterRotation, RequestOK, OutcomeTrue, Types, TypeOK, Row
      <3>3. sessions'[s].status = "REVOKED"
        BY <1>5, <2>2, <3>2 DEF RereadAfterRotation, IsActive, Statuses
      <3>4. requests[r].kind = "refresh"
        BY <1>5, <1>a DEF RereadAfterRotation, RequestOK
      <3>5. QED
        BY <1>5, <3>1, <3>3, <3>4, Answers DEF RereadAfterRotation, Outcomes
    <2>3. QED
      BY <2>1, <2>2
  <1>6. CASE RevokeReuse(r) \/ Logout(r)
    <2>1. PICK o \in {"ok", "refused"} :
            /\ requests' = [requests EXCEPT ![r] = [requests[r] EXCEPT !.pc = "answer", !.outcome = o]]
            /\ requests[r].kind = "refresh" => o = "refused"
      BY <1>6, <1>a DEF RevokeReuse, Logout, Become, AnswerWith, RequestOK
    <2>2. s \in Requests /\ sessions[s].status # "NONE"
      BY <1>6, <1>a DEF RevokeReuse, Logout, RequestOK, OutcomeTrue
    <2>3. sessions' = Revoked({s})
      BY <1>6 DEF RevokeReuse, ScopeOfReuse, Logout, ScopeOfLogout
    <2>4. sessions'[s].status = "REVOKED"
      <3>1. \A q \in Requests :
              q \in {s} /\ sessions[q].status # "NONE" => sessions'[q].status = "REVOKED"
        BY <2>3, RevokedRows
      <3>. QED
        BY <2>2, <3>1
    <2>5. requests[r].kind \in {"refresh", "logout"}
          /\ requests[r].pc \notin {"idle", "create", "answer", "done"}
      BY <1>6, <1>a DEF RevokeReuse, Logout, RequestOK
    <2>6. QED
      BY <2>1, <2>4, <2>5, Answers DEF Outcomes
  <1>7. CASE StartLogout(r)
    BY <1>7, StartOutcome DEF StartLogout, Pcs
  <1>8. CASE StartLogoutAll(r)
    BY <1>8, StartOutcome DEF StartLogoutAll, Pcs
  <1>9. CASE LogoutAll(r)
    <2>1. requests' = [requests EXCEPT ![r] = [requests[r] EXCEPT !.pc = "answer", !.outcome = "ok"]]
      BY <1>9 DEF LogoutAll, Become, AnswerWith
    <2>2. requests[r].kind = "logoutAll" /\ requests[r].pc = "revokeAll"
      BY <1>9, <1>a DEF LogoutAll, RequestOK
    <2>3. QED
      BY <2>1, <2>2, Answers DEF Outcomes
  <1>10. CASE StartChange(r)
    BY <1>10, StartOutcome DEF StartChange, Pcs
  <1>11. CASE ChangePassword(r)
    <2>1. PICK o \in {"ok", "refused"} :
            /\ requests' = [requests EXCEPT ![r] = [requests[r] EXCEPT !.pc = "answer", !.outcome = o]]
            /\ o = "ok" => requests[r].read = password /\ password' = password + 1
      BY <1>11 DEF ChangePassword, CanChange, Become, AnswerWith
    <2>2. requests[r].kind = "changePassword" /\ requests[r].pc = "change"
      BY <1>11, <1>a DEF ChangePassword, RequestOK
    <2>3. o = "ok" => requests[r].read < password'
      BY <2>1, Grows
    <2>4. QED
      BY <2>1, <2>2, <2>3, Answers DEF Outcomes
  <1>12. CASE Answer(r)
    <2>1. requests' = [requests EXCEPT ![r] = [requests[r] EXCEPT !.pc = "done"]]
      BY <1>12 DEF Answer, Goto, Become
    <2>2. /\ requests'[r].session = s /\ requests'[r].kind = requests[r].kind
          /\ requests'[r].outcome = requests[r].outcome /\ requests'[r].read = requests[r].read
          /\ requests'[r].pc = "done"
      BY <1>a, <2>1 DEF Request
    <2>3. UNCHANGED <<password, sessions, failed>> /\ requests[r].pc = "answer"
      BY <1>12 DEF Answer, history
    <2>4. QED
      BY <1>a, <2>2, <2>3 DEF OutcomeTrue, Known
  <1>13. CASE Fail(r)
    <2>1. requests' = [requests EXCEPT ![r] = [requests[r] EXCEPT !.pc = "done",
                         !.outcome = IF requests[r].kind = "logout" THEN "ok" ELSE "error"]]
      BY <1>13 DEF Fail, Become
    <2>2. /\ requests'[r].kind = requests[r].kind /\ requests'[r].pc = "done"
          /\ requests'[r].outcome = IF requests[r].kind = "logout" THEN "ok" ELSE "error"
      BY <1>a, <2>1 DEF Request
    <2>3. r \in failed'
      BY <1>13 DEF Fail
    <2>4. QED
      BY <2>2, <2>3 DEF OutcomeTrue, Known
  <1>14. QED
    BY <1>1, <1>2, <1>3, <1>4, <1>5, <1>6, <1>7, <1>8, <1>9, <1>10, <1>11, <1>12, <1>13 DEF Handle

\* One request takes a step, and only its record changes.
LEMMA OneActor ==
  ASSUME Types, Next
  PROVE  \E r \in Requests :
           /\ \A p \in Requests \ {r} : requests'[p] = requests[p]
           /\ Handle(r)
  <1>1. PICK r \in Requests : Handle(r)
    BY DEF Next
  <1>2. PICK q : requests' = [requests EXCEPT ![r] = q]
    BY <1>1 DEF Handle, StartLogin, CreateSession, StartRefresh, Rotate, RereadAfterRotation, RevokeReuse,
       StartLogout, Logout, StartLogoutAll, LogoutAll, StartChange, ChangePassword, Start,
       Answer, Fail, Goto, Become
  <1>3. \A p \in Requests \ {r} : requests'[p] = requests[p]
    BY <1>2 DEF Types, TypeOK
  <1>4. QED
    BY <1>1, <1>3

\* What a handler is about to answer is true of the rows.
LEMMA OutcomesStep ==
  ASSUME Types, FreshTokens, OutcomesTrue, DeliveredTrue, Next
  PROVE  OutcomesTrue'
  <1>1. PICK r \in Requests :
           /\ \A p \in Requests \ {r} : requests'[p] = requests[p]
           /\ Handle(r)
    BY OneActor
  <1>2. OutcomeTrue(r)'
    BY <1>1, ActorStep
  <1>3. ASSUME NEW p \in Requests, p # r PROVE OutcomeTrue(p)'
    BY <1>1, <1>3, OthersStep
  <1>4. QED
    BY <1>2, <1>3 DEF OutcomesTrue

\* A client is only given what is known to be true of its request.
LEMMA DeliveredStep ==
  ASSUME Types, FreshTokens, OutcomesTrue, DeliveredTrue, Next
  PROVE  DeliveredTrue'
  <1>1. ASSUME NEW d \in delivered
        PROVE  sessions'[d.session].status # "NONE" /\ Works(d.session, d.token)'
    <2>1. d.session \in Requests /\ d.token \in Requests
      BY DEF Types, TypeOK
    <2>2. sessions[d.session].status # "NONE" /\ Works(d.session, d.token)
      BY DEF DeliveredTrue
    <2>3. QED
      BY <2>1, <2>2, SessionsStay, WorksStays
  <1>2. CASE delivered' = delivered
    BY <1>1, <1>2 DEF DeliveredTrue
  <1>3. ASSUME delivered' # delivered PROVE DeliveredTrue'
    <2>1. PICK r \in Requests : Answer(r)
      BY <1>3 DEF Next, Handle, StartLogin, CreateSession, StartRefresh, Rotate, RereadAfterRotation, RevokeReuse,
         StartLogout, Logout, StartLogoutAll, LogoutAll, StartChange, ChangePassword, Start, Fail
    <2> DEFINE s == requests[r].session
               new == [session |-> s, token |-> r]
    <2>2. /\ requests[r].pc = "answer" /\ requests[r].outcome = "ok"
          /\ requests[r].kind \in {"login", "refresh"}
          /\ delivered' = delivered \cup {new}
          /\ UNCHANGED <<sessions, exchanged>>
      BY <1>3, <2>1 DEF Answer, history
    <2>3. sessions[s].status # "NONE" /\ Works(s, r)
      BY <2>2 DEF OutcomesTrue, OutcomeTrue, Known
    <2>4. \A d \in delivered' : sessions[d.session].status # "NONE" /\ Works(d.session, d.token)
      BY <2>2, <2>3 DEF DeliveredTrue
    <2>5. QED
      BY <2>2, <2>4 DEF DeliveredTrue, Works
  <1>4. QED
    BY <1>2, <1>3

\* A request whose password change is known to have succeeded had that outcome
\* before, or has just replaced the password it verified.
LEMMA ChangeOutcome ==
  ASSUME Types, NEW r \in Requests,
         Handle(r),
         Known(r, "changePassword", "ok")'
  PROVE  \/ Known(r, "changePassword", "ok") /\ requests'[r].read = requests[r].read
         \/ requests'[r].read = password
  <1>a. requests \in [Requests -> Request] /\ RequestOK(r)
    BY DEF Types, TypeOK
  <1>k. /\ requests'[r].pc \in {"answer", "done"}
        /\ requests'[r].kind = "changePassword" /\ requests'[r].outcome = "ok"
    BY DEF Known
  <1>1. ASSUME NEW kind, NEW s, NEW t, NEW ok, NEW pc, NEW refusal,
               Start(r, kind, s, t, ok, pc, refusal)
        PROVE  requests'[r].read = password
    BY <1>1, <1>a DEF Start, Become
  <1>2. CASE StartLogin(r) \/ StartRefresh(r) \/ StartLogout(r) \/ StartLogoutAll(r) \/ StartChange(r)
    BY <1>1, <1>2 DEF StartLogin, StartRefresh, StartLogout, StartLogoutAll, StartChange
  <1>3. CASE \/ CreateSession(r) \/ Rotate(r) \/ RereadAfterRotation(r) \/ RevokeReuse(r)
             \/ Logout(r) \/ LogoutAll(r)
    <2>1. requests[r].kind # "changePassword"
      BY <1>3, <1>a DEF CreateSession, Rotate, RereadAfterRotation, RevokeReuse, Logout, LogoutAll, RequestOK
    <2>2. PICK p \in Pcs, o \in Outcomes :
            \/ requests' = [requests EXCEPT ![r] = [requests[r] EXCEPT !.pc = p]]
            \/ requests' = [requests EXCEPT ![r] = [requests[r] EXCEPT !.pc = p, !.outcome = o]]
      BY <1>3 DEF CreateSession, Rotate, RereadAfterRotation, RevokeReuse, Logout, LogoutAll,
         Goto, Become, AnswerWith, Pcs, Outcomes
    <2>3. requests'[r].kind = requests[r].kind
      BY <1>a, <2>2 DEF Request
    <2>4. QED
      BY <1>k, <2>1, <2>3
  <1>4. CASE ChangePassword(r)
    <2>1. CASE CanChange(r)
      <3>1. requests' = [requests EXCEPT ![r] = [requests[r] EXCEPT !.pc = "answer", !.outcome = "ok"]]
        BY <1>4, <2>1 DEF ChangePassword, Become, AnswerWith
      <3>2. requests'[r].read = requests[r].read
        BY <1>a, <3>1 DEF Request
      <3>3. QED
        BY <2>1, <3>2 DEF CanChange
    <2>2. CASE ~CanChange(r)
      <3>1. requests' = [requests EXCEPT ![r] = [requests[r] EXCEPT !.pc = "answer", !.outcome = "refused"]]
        BY <1>4, <2>2 DEF ChangePassword, Become, AnswerWith
      <3>2. requests'[r].outcome = "refused"
        BY <1>a, <3>1 DEF Request
      <3>3. QED
        BY <1>k, <3>2
    <2>3. QED
      BY <2>1, <2>2
  <1>5. CASE Answer(r)
    <2>1. requests' = [requests EXCEPT ![r] = [requests[r] EXCEPT !.pc = "done"]] /\ requests[r].pc = "answer"
      BY <1>5 DEF Answer, Goto, Become
    <2>2. /\ requests'[r].kind = requests[r].kind /\ requests'[r].outcome = requests[r].outcome
          /\ requests'[r].read = requests[r].read
      BY <1>a, <2>1 DEF Request
    <2>3. QED
      BY <1>k, <2>1, <2>2 DEF Known
  <1>6. CASE Fail(r)
    <2>1. requests' = [requests EXCEPT ![r] = [requests[r] EXCEPT !.pc = "done",
                         !.outcome = IF requests[r].kind = "logout" THEN "ok" ELSE "error"]]
      BY <1>6 DEF Fail, Become
    <2>2. /\ requests'[r].kind = requests[r].kind
          /\ requests'[r].outcome = IF requests[r].kind = "logout" THEN "ok" ELSE "error"
      BY <1>a, <2>1 DEF Request
    <2>3. QED
      BY <1>k, <2>2
  <1>7. QED
    BY <1>2, <1>3, <1>4, <1>5, <1>6 DEF Handle

\* Changes that succeeded verified different passwords: the update of any other one finds
\* the hash it verified gone.
LEMMA ChangesStep ==
  ASSUME Types, OutcomesTrue, ChangesDiffer, Next
  PROVE  ChangesDiffer'
  <1>1. PICK r \in Requests :
           /\ \A p \in Requests \ {r} : requests'[p] = requests[p]
           /\ Handle(r)
    BY OneActor
  <1> DEFINE Changed(p) == Known(p, "changePassword", "ok")
  <1>2. ASSUME NEW p \in Requests, Changed(p) PROVE requests[p].read < password /\ requests[p].read \in Nat
    BY <1>2 DEF OutcomesTrue, OutcomeTrue, Types, TypeOK, Request
  <1>3. ASSUME NEW p \in Requests, p # r
        PROVE  requests'[p].read = requests[p].read /\ (Changed(p)' => Changed(p))
    BY <1>1, <1>3 DEF Known
  <1>4. Changed(r)' => \/ Changed(r) /\ requests'[r].read = requests[r].read
                      \/ requests'[r].read = password
    BY <1>1, ChangeOutcome
  <1>5. password \in Nat
    BY RequestsAssumption DEF Types, TypeOK
  <1> HIDE DEF Changed
  <1>6. ASSUME NEW p \in Requests, p # r, Changed(p)', Changed(r)'
        PROVE  requests'[p].read # requests'[r].read
    <2>1. Changed(p) /\ requests'[p].read = requests[p].read
      BY <1>3, <1>6
    <2>2. requests[p].read < password /\ requests[p].read \in Nat
      BY <1>2, <2>1
    <2>3. CASE Changed(r) /\ requests'[r].read = requests[r].read
      BY <1>6, <2>1, <2>3 DEF ChangesDiffer, Changed
    <2>4. CASE requests'[r].read = password
      BY <1>5, <2>1, <2>2, <2>4
    <2>5. QED
      BY <1>4, <1>6, <2>3, <2>4
  <1>7. ASSUME NEW p \in Requests, NEW q \in Requests, p # r, q # r, Changed(p)', Changed(q)',
               requests'[p].read = requests'[q].read
        PROVE  p = q
    BY <1>3, <1>7 DEF ChangesDiffer, Changed
  <1>8. ASSUME NEW p \in Requests, NEW q \in Requests, Changed(p)', Changed(q)',
               requests'[p].read = requests'[q].read
        PROVE  p = q
    BY <1>6, <1>7, <1>8
  <1>9. QED
    BY <1>8 DEF ChangesDiffer, Changed

-------------------------------------------------------------------------------
(* The invariant *)

\* No session and no answer exists at first.
LEMMA Initially == Init => SessionInvariant
  <1> SUFFICES ASSUME Init PROVE SessionInvariant
    OBVIOUS
  <1>1. /\ password = 0 /\ delivered = {} /\ exchanged = {} /\ failed = {}
        /\ sessions = [s \in Requests |-> noRow] /\ requests = [r \in Requests |-> idle]
        /\ createdAt = [s \in Requests |-> 0]
    BY DEF Init
  <1>2. noRow \in Row /\ idle \in Request
    BY DEF noRow, Row, Statuses, Tokens, idle, Request, Kinds, Pcs, Outcomes
  <1>3. TypeOK
    BY <1>1, <1>2, RequestsAssumption DEF TypeOK, noRow
  <1>4. \A r \in Requests : RequestOK(r)
    BY <1>1 DEF RequestOK, idle
  <1>5. FreshTokens /\ CurrentNotExchanged /\ TokenExchangedOnce
    BY <1>1, RequestsAssumption DEF FreshTokens, Fresh, CurrentNotExchanged, TokenExchangedOnce, noRow
  <1>6. OutcomesTrue /\ DeliveredTrue /\ ChangesDiffer
    BY <1>1 DEF OutcomesTrue, OutcomeTrue, DeliveredTrue, ChangesDiffer, Known, idle
  <1>7. NoSessionOutlivesChange
    BY <1>1 DEF NoSessionOutlivesChange
  <1>8. QED
    BY <1>3, <1>4, <1>5, <1>6, <1>7 DEF SessionInvariant, Types

\* A step that changes nothing keeps the invariant.
LEMMA Stutters == SessionInvariant /\ UNCHANGED vars => SessionInvariant'
  <1> SUFFICES ASSUME SessionInvariant, UNCHANGED vars PROVE SessionInvariant'
    OBVIOUS
  <1>1. Types'
    BY TypesStep DEF SessionInvariant
  <1>2. FreshTokens' /\ CurrentNotExchanged' /\ TokenExchangedOnce'
    BY DEF vars, SessionInvariant, FreshTokens, Fresh, CurrentNotExchanged, TokenExchangedOnce
  <1>3. OutcomesTrue'
    BY DEF vars, SessionInvariant, OutcomesTrue, OutcomeTrue, Known, Works
  <1>4. DeliveredTrue' /\ ChangesDiffer' /\ NoSessionOutlivesChange'
    BY DEF vars, SessionInvariant, DeliveredTrue, Works, ChangesDiffer, Known, NoSessionOutlivesChange
  <1>5. QED
    BY <1>1, <1>2, <1>3, <1>4 DEF SessionInvariant

\* The invariant is inductive.
LEMMA SessionStepHolds == SessionInvariant /\ [Next]_vars => SessionInvariant'
  <1>1. SessionInvariant /\ Next => SessionInvariant'
    BY TypesStep, FreshStep, ExchangedStep, OutlivesStep, OutcomesStep, DeliveredStep, ChangesStep
       DEF SessionInvariant
  <1>2. QED
    BY <1>1, Stutters

\* The sessions keep their invariant.
THEOREM Invariance == Spec => []SessionInvariant
  BY Initially, SessionStepHolds, PTL DEF Spec

\* What the invariant says to the clients.
LEMMA SessionsAreSafe ==
  SessionInvariant => /\ TokenExchangedOnce /\ RefusedRefreshEndsSession /\ AnsweredTokenWorks
                      /\ LogoutEndsSession /\ NoSessionOutlivesChange /\ ChangesDoNotOverwrite
  <1> SUFFICES ASSUME SessionInvariant
               PROVE  /\ TokenExchangedOnce /\ RefusedRefreshEndsSession /\ AnsweredTokenWorks
                      /\ LogoutEndsSession /\ NoSessionOutlivesChange /\ ChangesDoNotOverwrite
    OBVIOUS
  <1>1. TokenExchangedOnce /\ NoSessionOutlivesChange
    BY DEF SessionInvariant
  <1>2. RefusedRefreshEndsSession
    BY DEF SessionInvariant, OutcomesTrue, OutcomeTrue, Known, RefusedRefreshEndsSession, Answered
  <1>3. AnsweredTokenWorks
    BY DEF SessionInvariant, DeliveredTrue, Works, AnsweredTokenWorks
  <1>4. LogoutEndsSession
    BY DEF SessionInvariant, OutcomesTrue, OutcomeTrue, Known, LogoutEndsSession, Answered
  <1>5. ChangesDoNotOverwrite
    BY DEF SessionInvariant, ChangesDiffer, Known, ChangesDoNotOverwrite, Answered
  <1>6. QED
    BY <1>1, <1>2, <1>3, <1>4, <1>5

\* The model is type correct.
THEOREM TypeCorrect == Spec => []TypeOK
  <1>1. SessionInvariant => TypeOK
    BY DEF SessionInvariant, Types
  <1>2. QED
    BY Invariance, <1>1, PTL

\* A refresh token is exchanged at most once, however many requests come with it.
THEOREM ExchangedOnce == Spec => []TokenExchangedOnce
  BY Invariance, SessionsAreSafe, PTL

\* A refused refresh leaves a revoked session behind.
THEOREM RefusalEnds == Spec => []RefusedRefreshEndsSession
  BY Invariance, SessionsAreSafe, PTL

\* A token a client was given is current, was exchanged, or its session is over.
THEOREM AnswersWork == Spec => []AnsweredTokenWorks
  BY Invariance, SessionsAreSafe, PTL

\* A logout whose calls succeeded has ended its session.
THEOREM LogoutEnds == Spec => []LogoutEndsSession
  BY Invariance, SessionsAreSafe, PTL

\* Active sessions were created under the password that is valid now.
THEOREM ChangeEndsSessions == Spec => []NoSessionOutlivesChange
  BY Invariance, SessionsAreSafe, PTL

\* No password change overwrites another one that it has not seen.
THEOREM ChangesAreOrdered == Spec => []ChangesDoNotOverwrite
  BY Invariance, SessionsAreSafe, PTL

\* No step writes to a revoked session.
THEOREM RevokedStays == Spec => RevokedForGood
  <1>1. SessionInvariant /\ [Next]_vars
          => [\A s \in Requests : sessions[s].status = "REVOKED" => sessions'[s] = sessions[s]]_vars
    BY SessionsStay DEF SessionInvariant, vars
  <1>2. QED
    BY Invariance, <1>1, PTL DEF Spec, RevokedForGood

-------------------------------------------------------------------------------
(* The browser beside the sessions. *)

\* A refresh of the browser that has not been answered.
InFlight(r) == calls[r].by = "refresh" /\ requests[r].pc # "done"

\* A token that its holder can exchange, or that was exchanged by the refresh under
\* way, or whose session is over.
Current(s, t) == ~IsActive(s) \/ sessions[s].token = t

\* The shape of the browser's state and of the requests.
BrowserTypes ==
  /\ DOMAIN requests = Requests
  /\ \A r \in Requests : DOMAIN requests[r] = DOMAIN idle
  /\ DOMAIN sessions = Requests
  /\ \A s \in Requests : DOMAIN sessions[s] = {"status", "token"}
  /\ DOMAIN calls = Requests
  /\ DOMAIN tab = DOMAIN NewTab
  /\ cookie # NoCookie => cookie.session \in Requests /\ cookie.token \in Requests
  /\ NoToken \notin Requests

\* What a request was sent for and what its handler is.
CallsHold ==
  \A r \in Requests :
    /\ calls[r].by = "none" <=> requests[r].pc = "idle"
    /\ requests[r].pc = "create" => requests[r].kind = "login"
    /\ requests[r].pc \in {"rotate", "reread", "revokeReuse"} => requests[r].kind = "refresh"
    /\ requests[r].pc \in {"revoke", "change"} => calls[r].by \notin {"login", "refresh"}
    /\ requests[r].kind = "login" => calls[r].by = "login" /\ requests[r].session = r
    /\ requests[r].kind = "refresh" => calls[r].by = "refresh" /\ requests[r].session \in Requests
    /\ requests[r].kind = "logout" => calls[r].by \notin {"login", "refresh"}
    /\ calls[r].by \in {"login", "refresh"} /\ requests[r].outcome = "ok" =>
         requests[r].kind = calls[r].by

\* The session of a cookie, and of a refresh, was created by a login that was answered.
SessionsAnswered ==
  /\ cookie # NoCookie => requests[cookie.session].pc = "done"
  /\ \A r \in Requests : requests[r].kind = "refresh" => requests[requests[r].session].pc = "done"

\* The page that is open waits for the one refresh under way.
SingleFlight ==
  /\ \A r \in Requests : InFlight(r) => tab.refreshing
  /\ \A q, r \in Requests : InFlight(q) /\ InFlight(r) => q = r

\* The cookie can be exchanged, except for the one the refresh under way has exchanged;
\* and that refresh was sent with such a cookie.
CookieIsCurrent ==
  /\ cookie # NoCookie =>
       \/ Current(cookie.session, cookie.token)
       \/ \E r \in Requests : /\ InFlight(r) /\ requests[r].pc = "answer" /\ requests[r].outcome = "ok"
                              /\ requests[r].session = cookie.session
  /\ \A r \in Requests : InFlight(r) =>
       /\ requests[r].pc = "rotate" => Current(requests[r].session, requests[r].token)
       /\ requests[r].pc = "reread" => ~IsActive(requests[r].session)
       /\ requests[r].pc # "revokeReuse"
  /\ \A r \in Requests :
       (/\ calls[r].by \in {"login", "refresh"}
        /\ requests[r].pc = "answer" /\ requests[r].outcome = "ok")
          => Current(requests[r].session, r)

BrowserInvariant ==
  /\ BrowserTypes
  /\ CallsHold
  /\ ~lost => SessionsAnswered /\ SingleFlight /\ CookieIsCurrent

\* A step of request r leaves the other requests alone.
OnlyRequest(r) ==
  /\ DOMAIN requests' = Requests /\ DOMAIN requests'[r] = DOMAIN idle
  /\ \A q \in Requests \ {r} : requests'[q] = requests[q]

\* What a request is that the page sends: it was turned away, or has come to the first
\* step of its handler with a session whose login was answered.
Sent(r, by) ==
  LET q == requests'[r]
  IN  /\ q.pc \in {"answer", "create", "rotate", "revoke", "change"}
      /\ q.pc = "create" => q.kind = "login"
      /\ q.pc = "rotate" => q.kind = "refresh"
      /\ q.pc \in {"revoke", "change"} => by \notin {"login", "refresh"}
      /\ q.kind = "logout" => by \notin {"login", "refresh"}
      /\ q.kind = "login" => by = "login" /\ q.session = r
      /\ q.kind = "refresh" => /\ by = "refresh" /\ q.session \in Requests
                               /\ ~lost => requests[q.session].pc = "done"
      /\ by \in {"login", "refresh"} => q.outcome # "ok"
      /\ by = "refresh" /\ ~lost => /\ ~tab.refreshing
                                    /\ q.pc = "rotate" => Current(q.session, q.token)

\* A request that is sent keeps the invariant.
LEMMA SentKeeps ==
  ASSUME BrowserInvariant, NEW r \in Requests, requests[r].pc = "idle", OnlyRequest(r),
         NEW by \in {"login", "logout", "change", "refresh"}, NEW limited,
         calls' = [calls EXCEPT ![r] = [by |-> by, limited |-> limited]],
         UNCHANGED <<sessions, cookie, lost>>,
         DOMAIN tab' = DOMAIN NewTab,
         by = "refresh" => tab'.refreshing,
         by # "refresh" => tab'.refreshing = tab.refreshing,
         Sent(r, by)
  PROVE  BrowserInvariant'
<1>1. BrowserTypes'
  BY DEF BrowserInvariant, BrowserTypes, OnlyRequest
<1>2. /\ calls'[r].by = by /\ \A q \in Requests \ {r} : calls'[q] = calls[q]
      /\ \A q \in Requests \ {r} : requests'[q] = requests[q]
  BY DEF BrowserInvariant, BrowserTypes, OnlyRequest
<1>3. CallsHold'
  BY <1>2 DEF BrowserInvariant, CallsHold, Sent
<1>4. ASSUME ~lost'
      PROVE  SessionsAnswered' /\ SingleFlight' /\ CookieIsCurrent'
  <2>1. ~lost /\ SessionsAnswered /\ SingleFlight /\ CookieIsCurrent /\ BrowserTypes /\ CallsHold
    BY <1>4 DEF BrowserInvariant
  <2>2. SessionsAnswered'
    BY <1>2, <2>1 DEF SessionsAnswered, Sent, CallsHold, BrowserTypes
  <2>3. /\ \A q \in Requests \ {r} : InFlight(q)' <=> InFlight(q)
        /\ InFlight(r)' => by = "refresh" /\ \A q \in Requests \ {r} : ~InFlight(q)
    BY <1>2, <2>1 DEF InFlight, Sent, SingleFlight
  <2>4. SingleFlight'
    BY <2>1, <2>3 DEF SingleFlight
  <2>5. \A s, t : Current(s, t)' <=> Current(s, t)
    BY DEF Current, IsActive
  <2>6. (cookie # NoCookie =>
           \/ Current(cookie.session, cookie.token)
           \/ \E q \in Requests : /\ InFlight(q) /\ requests[q].pc = "answer" /\ requests[q].outcome = "ok"
                                  /\ requests[q].session = cookie.session)'
    <3>1. ~InFlight(r)
      BY <2>1 DEF InFlight, CallsHold
    <3>. QED
      BY <1>2, <2>1, <2>3, <2>5, <3>1 DEF CookieIsCurrent
  <2>7. (\A q \in Requests : InFlight(q) =>
           /\ requests[q].pc = "rotate" => Current(requests[q].session, requests[q].token)
           /\ requests[q].pc = "reread" => ~IsActive(requests[q].session)
           /\ requests[q].pc # "revokeReuse")'
    <3>. SUFFICES ASSUME NEW q \in Requests, InFlight(q)'
                  PROVE  /\ requests'[q].pc = "rotate" => Current(requests[q].session, requests[q].token)'
                         /\ requests'[q].pc = "reread" => ~IsActive(requests[q].session)'
                         /\ requests'[q].pc # "revokeReuse"
      OBVIOUS
    <3>1. CASE q = r
      BY <1>4, <2>1, <2>3, <2>5, <3>1 DEF Sent, Current, IsActive
    <3>2. CASE q # r
      BY <1>2, <2>1, <2>3, <2>5, <3>2 DEF CookieIsCurrent, Current, IsActive
    <3>. QED
      BY <3>1, <3>2
  <2>8. (\A q \in Requests :
           (/\ calls[q].by \in {"login", "refresh"}
            /\ requests[q].pc = "answer" /\ requests[q].outcome = "ok")
              => Current(requests[q].session, q))'
    <3>. SUFFICES ASSUME NEW q \in Requests, calls'[q].by \in {"login", "refresh"},
                         requests'[q].pc = "answer", requests'[q].outcome = "ok"
                  PROVE  Current(requests[q].session, q)'
      OBVIOUS
    <3>1. q # r
      BY <1>2 DEF Sent
    <3>. QED
      BY <1>2, <2>1, <3>1 DEF CookieIsCurrent, Current, IsActive
  <2>. QED
    BY <2>2, <2>4, <2>6, <2>7, <2>8 DEF CookieIsCurrent
<1>. QED
  BY <1>1, <1>3, <1>4 DEF BrowserInvariant

\* A step of a handler keeps the invariant when it keeps the cookie exchangeable.
LEMMA HandlerKeeps ==
  ASSUME BrowserInvariant, NEW r \in Requests, requests[r].pc \notin {"idle", "done"}, OnlyRequest(r),
         UNCHANGED browserVars,
         requests'[r].kind = requests[r].kind, requests'[r].session = requests[r].session,
         requests'[r].pc \in {"answer", "reread", "revokeReuse"},
         requests'[r].pc # "answer" => requests[r].kind = "refresh",
         calls[r].by \in {"login", "refresh"} /\ requests'[r].outcome = "ok" =>
           requests[r].kind = calls[r].by,
         DOMAIN sessions' = Requests, \A s \in Requests : DOMAIN sessions'[s] = {"status", "token"},
         ~lost => CookieIsCurrent'
  PROVE  BrowserInvariant'
<1>1. BrowserTypes'
  BY DEF BrowserInvariant, BrowserTypes, OnlyRequest, browserVars
<1>2. CallsHold'
  BY DEF BrowserInvariant, CallsHold, OnlyRequest, browserVars
<1>3. ASSUME ~lost
      PROVE  SessionsAnswered' /\ SingleFlight'
  <2>1. SessionsAnswered /\ SingleFlight /\ BrowserTypes /\ CallsHold
    BY <1>3 DEF BrowserInvariant
  <2>2. SessionsAnswered'
    BY <2>1 DEF SessionsAnswered, CallsHold, BrowserTypes, OnlyRequest, browserVars
  <2>3. \A q \in Requests : InFlight(q)' => InFlight(q)
    BY DEF InFlight, OnlyRequest, browserVars
  <2>4. SingleFlight'
    BY <2>1, <2>3 DEF SingleFlight, browserVars
  <2>. QED
    BY <2>2, <2>4
<1>. QED
  BY <1>1, <1>2, <1>3 DEF BrowserInvariant, browserVars

\* Revoking sessions keeps the cookie exchangeable, or makes it one of an ended session.
LEMMA RevokingKeeps ==
  ASSUME BrowserInvariant, NEW r \in Requests, OnlyRequest(r), UNCHANGED browserVars, ~lost,
         requests'[r].pc = "answer",
         calls[r].by = "refresh" => requests'[r].outcome # "ok" /\ requests[r].pc # "answer",
         calls[r].by = "login" => requests'[r].outcome # "ok",
         \A s \in Requests : sessions'[s].token = sessions[s].token
                             /\ (sessions'[s].status = "ACTIVE" => sessions[s].status = "ACTIVE")
  PROVE  CookieIsCurrent'
<1>1. CookieIsCurrent /\ BrowserTypes /\ SingleFlight /\ CallsHold
  BY DEF BrowserInvariant
<1>2. \A s \in Requests : /\ ~IsActive(s) => ~IsActive(s)'
                          /\ \A t : Current(s, t) => Current(s, t)'
  BY DEF Current, IsActive
<1>3. \A q \in Requests \ {r} : (InFlight(q)' <=> InFlight(q)) /\ requests'[q] = requests[q]
  BY DEF InFlight, OnlyRequest, browserVars
<1>4. UNCHANGED <<cookie, calls>>
  BY DEF browserVars
<1>5. (cookie # NoCookie =>
         \/ Current(cookie.session, cookie.token)
         \/ \E q \in Requests : /\ InFlight(q) /\ requests[q].pc = "answer" /\ requests[q].outcome = "ok"
                                /\ requests[q].session = cookie.session)'
  <2>. SUFFICES ASSUME cookie # NoCookie
                PROVE  \/ Current(cookie.session, cookie.token)'
                       \/ \E q \in Requests : /\ InFlight(q)' /\ requests'[q].pc = "answer"
                                              /\ requests'[q].outcome = "ok"
                                              /\ requests'[q].session = cookie.session
    BY <1>4
  <2>1. CASE Current(cookie.session, cookie.token)
    BY <1>1, <1>2, <1>4, <2>1 DEF BrowserTypes, Current, IsActive
  <2>2. CASE \E q \in Requests : /\ InFlight(q) /\ requests[q].pc = "answer"
                                 /\ requests[q].outcome = "ok" /\ requests[q].session = cookie.session
    <3>1. PICK q \in Requests : /\ InFlight(q) /\ requests[q].pc = "answer"
                                /\ requests[q].outcome = "ok" /\ requests[q].session = cookie.session
      BY <2>2
    <3>2. q # r
      BY <3>1 DEF InFlight
    <3>. QED
      BY <1>3, <3>1, <3>2
  <2>. QED
    BY <1>1, <2>1, <2>2 DEF CookieIsCurrent
<1>6. (\A q \in Requests : InFlight(q) =>
         /\ requests[q].pc = "rotate" => Current(requests[q].session, requests[q].token)
         /\ requests[q].pc = "reread" => ~IsActive(requests[q].session)
         /\ requests[q].pc # "revokeReuse")'
  <2>. SUFFICES ASSUME NEW q \in Requests, InFlight(q)'
                PROVE  /\ requests'[q].pc = "rotate" => Current(requests[q].session, requests[q].token)'
                       /\ requests'[q].pc = "reread" => ~IsActive(requests[q].session)'
                       /\ requests'[q].pc # "revokeReuse"
    OBVIOUS
  <2>1. CASE q # r
    <3>1. InFlight(q) /\ requests'[q] = requests[q]
      BY <1>3, <2>1
    <3>2. requests[q].pc \in {"rotate", "reread"} => requests[q].session \in Requests
      BY <1>1 DEF CallsHold
    <3>. QED
      BY <1>1, <1>2, <3>1, <3>2 DEF CookieIsCurrent, Current, IsActive
  <2>. QED
    BY <2>1
<1>7. (\A q \in Requests :
         (/\ calls[q].by \in {"login", "refresh"}
          /\ requests[q].pc = "answer" /\ requests[q].outcome = "ok")
            => Current(requests[q].session, q))'
  <2>. SUFFICES ASSUME NEW q \in Requests, calls[q].by \in {"login", "refresh"},
                       requests'[q].pc = "answer", requests'[q].outcome = "ok"
                PROVE  Current(requests[q].session, q)'
    BY <1>4
  <2>1. q # r /\ requests'[q] = requests[q]
    BY <1>3
  <2>2. requests[q].session \in Requests /\ Current(requests[q].session, q)
    BY <1>1, <2>1 DEF CookieIsCurrent, CallsHold
  <2>. QED
    BY <1>2, <2>1, <2>2 DEF Current, IsActive
<1>. QED
  BY <1>5, <1>6, <1>7 DEF CookieIsCurrent

\* What a handler makes of its request when it answers.
LEMMA AnswersWith ==
  ASSUME BrowserTypes, NEW r \in Requests, NEW outcome, Become(r, AnswerWith(r, outcome))
  PROVE  /\ OnlyRequest(r) /\ requests'[r].kind = requests[r].kind
         /\ requests'[r].session = requests[r].session
         /\ requests'[r].pc = "answer" /\ requests'[r].outcome = outcome
BY DEF Become, AnswerWith, OnlyRequest, BrowserTypes, idle

\* A step of a handler.
LEMMA HandlersKeep ==
  ASSUME BrowserInvariant, NEW r \in Requests, HandlerStep(r), UNCHANGED browserVars
  PROVE  BrowserInvariant'
<1>1. /\ BrowserTypes /\ CallsHold
      /\ ~lost => SessionsAnswered /\ SingleFlight /\ CookieIsCurrent
  BY DEF BrowserInvariant
<1>2. CASE CreateSession(r)
  <2>1. /\ requests[r].pc = "create" /\ requests[r].kind = "login" /\ requests[r].session = r
        /\ calls[r].by = "login"
    BY <1>1, <1>2 DEF CreateSession, CallsHold
  <2>2. /\ OnlyRequest(r) /\ requests'[r].kind = requests[r].kind
        /\ requests'[r].session = requests[r].session
        /\ requests'[r].pc = "answer" /\ requests'[r].outcome = "ok"
    BY <1>1, <1>2, AnswersWith DEF CreateSession
  <2>3. /\ sessions'[r] = [status |-> "ACTIVE", token |-> r]
        /\ \A s \in Requests \ {r} : sessions'[s] = sessions[s]
        /\ DOMAIN sessions' = Requests
    BY <1>1, <1>2 DEF CreateSession, BrowserTypes
  <2>4. ASSUME ~lost
        PROVE  CookieIsCurrent'
    <3>1. \A s \in Requests \ {r} : /\ IsActive(s)' <=> IsActive(s)
                                    /\ \A t : Current(s, t)' <=> Current(s, t)
      BY <2>3 DEF Current, IsActive
    <3>2. Current(r, r)'
      BY <2>3 DEF Current
    <3>3. \A q \in Requests : requests[q].kind = "refresh" => requests[q].session \in Requests \ {r}
      BY <1>1, <2>1, <2>4 DEF CallsHold, SessionsAnswered
    <3>4. cookie # NoCookie => cookie.session \in Requests \ {r}
      BY <1>1, <2>1, <2>4 DEF BrowserTypes, SessionsAnswered
    <3>5. /\ \A q \in Requests \ {r} : (InFlight(q)' <=> InFlight(q)) /\ requests'[q] = requests[q]
          /\ ~InFlight(r) /\ ~InFlight(r)' /\ UNCHANGED <<cookie, calls>>
      BY <2>1, <2>2 DEF InFlight, OnlyRequest, browserVars
    <3>6. (cookie # NoCookie =>
             \/ Current(cookie.session, cookie.token)
             \/ \E q \in Requests : /\ InFlight(q) /\ requests[q].pc = "answer"
                                    /\ requests[q].outcome = "ok"
                                    /\ requests[q].session = cookie.session)'
      BY <1>1, <2>4, <3>1, <3>4, <3>5 DEF CookieIsCurrent, Current, IsActive
    <3>7. (\A q \in Requests : InFlight(q) =>
             /\ requests[q].pc = "rotate" => Current(requests[q].session, requests[q].token)
             /\ requests[q].pc = "reread" => ~IsActive(requests[q].session)
             /\ requests[q].pc # "revokeReuse")'
      <4>. SUFFICES ASSUME NEW q \in Requests, InFlight(q)'
                    PROVE  /\ requests'[q].pc = "rotate" => Current(requests[q].session, requests[q].token)'
                           /\ requests'[q].pc = "reread" => ~IsActive(requests[q].session)'
                           /\ requests'[q].pc # "revokeReuse"
        OBVIOUS
      <4>1. InFlight(q) /\ requests'[q] = requests[q]
        BY <3>5
      <4>2. requests[q].pc \in {"rotate", "reread"} => requests[q].session \in Requests \ {r}
        BY <1>1, <3>3 DEF CallsHold
      <4>. QED
        BY <1>1, <2>4, <3>1, <4>1, <4>2 DEF CookieIsCurrent, Current, IsActive
    <3>8. (\A q \in Requests :
             (/\ calls[q].by \in {"login", "refresh"}
              /\ requests[q].pc = "answer" /\ requests[q].outcome = "ok")
                => Current(requests[q].session, q))'
      <4>. SUFFICES ASSUME NEW q \in Requests, calls[q].by \in {"login", "refresh"},
                           requests'[q].pc = "answer", requests'[q].outcome = "ok"
                    PROVE  Current(requests[q].session, q)'
        BY <3>5
      <4>1. CASE q = r
        BY <2>1, <2>2, <3>2, <4>1 DEF Current, IsActive
      <4>2. CASE q # r
        <5>1. requests'[q] = requests[q] /\ requests[q].kind \in {"login", "refresh"}
          BY <1>1, <3>5, <4>2 DEF CallsHold
        <5>2. requests[q].session \in Requests \ {r}
          BY <1>1, <3>3, <4>2, <5>1 DEF CallsHold
        <5>3. Current(requests[q].session, q)
          BY <1>1, <2>4, <5>1 DEF CookieIsCurrent
        <5>. QED
          BY <3>1, <5>1, <5>2, <5>3 DEF Current, IsActive
      <4>. QED
        BY <4>1, <4>2
    <3>. QED
      BY <3>6, <3>7, <3>8 DEF CookieIsCurrent
  <2>5. \A s \in Requests : DOMAIN sessions'[s] = {"status", "token"}
    BY <1>1, <2>3 DEF BrowserTypes
  <2>. QED
    BY <2>1, <2>2, <2>3, <2>4, <2>5, HandlerKeeps
<1>3. CASE Rotate(r)
  <2>1. requests[r].pc = "rotate" /\ requests[r].kind = "refresh" /\ calls[r].by = "refresh"
        /\ requests[r].session \in Requests /\ InFlight(r)
    BY <1>1, <1>3 DEF Rotate, CallsHold, InFlight
  <2>2. CASE CanRotate(r)
    <3>1. /\ OnlyRequest(r) /\ requests'[r].kind = requests[r].kind
          /\ requests'[r].session = requests[r].session
          /\ requests'[r].pc = "answer" /\ requests'[r].outcome = "ok"
      BY <1>1, <1>3, <2>2, AnswersWith DEF Rotate
    <3>2. /\ sessions'[requests[r].session].token = r
          /\ sessions'[requests[r].session].status = sessions[requests[r].session].status
          /\ \A s \in Requests \ {requests[r].session} : sessions'[s] = sessions[s]
          /\ DOMAIN sessions' = Requests
          /\ \A s \in Requests : DOMAIN sessions'[s] = {"status", "token"}
      BY <1>1, <1>3, <2>1, <2>2 DEF Rotate, NextToken, BrowserTypes
    <3>3. ASSUME ~lost
          PROVE  CookieIsCurrent'
      <4>1. /\ \A q \in Requests \ {r} : ~InFlight(q) /\ ~InFlight(q)' /\ requests'[q] = requests[q]
            /\ InFlight(r)' /\ UNCHANGED <<cookie, calls>>
        BY <1>1, <2>1, <3>1, <3>3 DEF InFlight, OnlyRequest, browserVars, SingleFlight
      <4>2. (cookie # NoCookie =>
               \/ Current(cookie.session, cookie.token)
               \/ \E q \in Requests : /\ InFlight(q) /\ requests[q].pc = "answer"
                                      /\ requests[q].outcome = "ok"
                                      /\ requests[q].session = cookie.session)'
        <5>. SUFFICES ASSUME cookie # NoCookie, cookie.session # requests[r].session
                      PROVE  Current(cookie.session, cookie.token)'
          BY <3>1, <4>1
        <5>1. Current(cookie.session, cookie.token) /\ cookie.session \in Requests
          BY <1>1, <2>1, <3>3, <4>1 DEF CookieIsCurrent, BrowserTypes
        <5>. QED
          BY <3>2, <4>1, <5>1 DEF Current, IsActive
      <4>3. (\A q \in Requests :
               (/\ calls[q].by \in {"login", "refresh"}
                /\ requests[q].pc = "answer" /\ requests[q].outcome = "ok")
                  => Current(requests[q].session, q))'
        <5>. SUFFICES ASSUME NEW q \in Requests, calls[q].by \in {"login", "refresh"},
                             requests'[q].pc = "answer", requests'[q].outcome = "ok"
                      PROVE  Current(requests[q].session, q)'
          BY <4>1
        <5>1. CASE q = r
          BY <3>1, <3>2, <5>1 DEF Current
        <5>2. CASE q # r
          <6>1. requests'[q] = requests[q] /\ ~InFlight(q)
            BY <4>1, <5>2
          <6>2. calls[q].by = "login" /\ requests[q].kind = "login" /\ requests[q].session = q
            BY <1>1, <6>1 DEF InFlight, CallsHold
          <6>3. requests[requests[r].session].pc = "done"
            BY <1>1, <2>1, <3>3 DEF SessionsAnswered
          <6>4. q # requests[r].session /\ Current(q, q)
            BY <1>1, <3>3, <6>1, <6>2, <6>3 DEF CookieIsCurrent
          <6>. QED
            BY <3>2, <6>1, <6>2, <6>4 DEF Current, IsActive
        <5>. QED
          BY <5>1, <5>2
      <4>4. (\A q \in Requests : InFlight(q) =>
               /\ requests[q].pc = "rotate" => Current(requests[q].session, requests[q].token)
               /\ requests[q].pc = "reread" => ~IsActive(requests[q].session)
               /\ requests[q].pc # "revokeReuse")'
        BY <3>1, <4>1
      <4>. QED
        BY <4>2, <4>3, <4>4 DEF CookieIsCurrent
    <3>. QED
      BY <2>1, <3>1, <3>2, <3>3, HandlerKeeps
  <2>3. CASE ~CanRotate(r)
    <3>1. /\ OnlyRequest(r) /\ requests'[r].kind = requests[r].kind
          /\ requests'[r].session = requests[r].session /\ requests'[r].outcome = requests[r].outcome
          /\ requests'[r].pc = "reread" /\ sessions' = sessions
      BY <1>1, <1>3, <2>3 DEF Rotate, Goto, Become, OnlyRequest, BrowserTypes, idle
    <3>2. ASSUME ~lost
          PROVE  CookieIsCurrent'
      <4>1. /\ \A q \in Requests \ {r} : ~InFlight(q) /\ ~InFlight(q)' /\ requests'[q] = requests[q]
            /\ UNCHANGED <<cookie, calls>>
        BY <1>1, <2>1, <3>1, <3>2 DEF InFlight, OnlyRequest, browserVars, SingleFlight
      <4>2. ~IsActive(requests[r].session)
        BY <1>1, <2>1, <2>3, <3>2 DEF CookieIsCurrent, Current, CanRotate
      <4>3. \A s, t : Current(s, t)' <=> Current(s, t)
        BY <3>1 DEF Current, IsActive
      <4>4. (cookie # NoCookie => Current(cookie.session, cookie.token))'
        BY <1>1, <2>1, <3>2, <4>1, <4>3 DEF CookieIsCurrent
      <4>5. (\A q \in Requests : InFlight(q) =>
               /\ requests[q].pc = "rotate" => Current(requests[q].session, requests[q].token)
               /\ requests[q].pc = "reread" => ~IsActive(requests[q].session)
               /\ requests[q].pc # "revokeReuse")'
        BY <3>1, <4>1, <4>2 DEF IsActive
      <4>6. (\A q \in Requests :
               (/\ calls[q].by \in {"login", "refresh"}
                /\ requests[q].pc = "answer" /\ requests[q].outcome = "ok")
                  => Current(requests[q].session, q))'
        BY <1>1, <3>1, <3>2, <4>1, <4>3 DEF CookieIsCurrent, Current, IsActive
      <4>. QED
        BY <4>4, <4>5, <4>6 DEF CookieIsCurrent
    <3>. QED
      BY <1>1, <2>1, <3>1, <3>2, HandlerKeeps DEF BrowserTypes, CallsHold
  <2>. QED
    BY <2>2, <2>3
<1>4. ASSUME OnlyRequest(r), requests'[r].kind = requests[r].kind,
             requests'[r].session = requests[r].session, requests'[r].pc = "answer",
             requests[r].pc \in {"reread", "revokeReuse", "revoke", "change"},
             calls[r].by \in {"login", "refresh"} => requests'[r].outcome # "ok",
             DOMAIN sessions' = Requests,
             \A s \in Requests :
               /\ DOMAIN sessions'[s] = {"status", "token"}
               /\ sessions'[s].token = sessions[s].token
               /\ sessions'[s].status = "ACTIVE" => sessions[s].status = "ACTIVE"
      PROVE  BrowserInvariant'
  <2>1. ~lost => CookieIsCurrent'
    BY <1>4, RevokingKeeps
  <2>. QED
    BY <1>4, <2>1, HandlerKeeps
<1>5. CASE RereadAfterRotation(r)
  <2>1. requests[r].pc = "reread" /\ requests[r].kind = "refresh" /\ sessions' = sessions
        /\ calls[r].by = "refresh" /\ InFlight(r)
    BY <1>1, <1>5 DEF RereadAfterRotation, CallsHold, InFlight
  <2>2. CASE IsActive(requests[r].session)
    <3>1. lost
      BY <1>1, <2>1, <2>2 DEF CookieIsCurrent
    <3>2. /\ OnlyRequest(r) /\ requests'[r].kind = requests[r].kind
          /\ requests'[r].session = requests[r].session /\ requests'[r].outcome = requests[r].outcome
          /\ requests'[r].pc = "revokeReuse"
      BY <1>1, <1>5, <2>2 DEF RereadAfterRotation, Goto, Become, OnlyRequest, BrowserTypes, idle
    <3>. QED
      BY <1>1, <2>1, <3>1, <3>2, HandlerKeeps DEF BrowserTypes, CallsHold
  <2>3. CASE ~IsActive(requests[r].session)
    <3>1. /\ OnlyRequest(r) /\ requests'[r].kind = requests[r].kind
          /\ requests'[r].session = requests[r].session
          /\ requests'[r].pc = "answer" /\ requests'[r].outcome = "refused"
      BY <1>1, <1>5, <2>3, AnswersWith DEF RereadAfterRotation
    <3>. QED
      BY <1>1, <1>4, <2>1, <3>1 DEF BrowserTypes
  <2>. QED
    BY <2>2, <2>3
<1>6. ASSUME NEW scope, sessions' = Revoked(scope)
      PROVE  /\ DOMAIN sessions' = Requests
             /\ \A s \in Requests :
                  /\ DOMAIN sessions'[s] = {"status", "token"}
                  /\ sessions'[s].token = sessions[s].token
                  /\ sessions'[s].status = "ACTIVE" => sessions[s].status = "ACTIVE"
  BY <1>1, <1>6 DEF Revoked, IsActive, BrowserTypes
<1>7. CASE RevokeReuse(r)
  <2>1. /\ OnlyRequest(r) /\ requests'[r].kind = requests[r].kind
        /\ requests'[r].session = requests[r].session
        /\ requests'[r].pc = "answer" /\ requests'[r].outcome = "refused"
        /\ requests[r].pc = "revokeReuse" /\ sessions' = Revoked(ScopeOfReuse(r))
    BY <1>1, <1>7, AnswersWith DEF RevokeReuse
  <2>. QED
    BY <1>4, <1>6, <2>1
<1>8. CASE Logout(r)
  <2>1. /\ OnlyRequest(r) /\ requests'[r].kind = requests[r].kind
        /\ requests'[r].session = requests[r].session /\ requests'[r].pc = "answer"
        /\ requests[r].pc = "revoke" /\ sessions' = Revoked(ScopeOfLogout(r))
    BY <1>1, <1>8, AnswersWith DEF Logout
  <2>2. calls[r].by \notin {"login", "refresh"}
    BY <1>1, <2>1 DEF CallsHold
  <2>. QED
    BY <1>4, <1>6, <2>1, <2>2
<1>9. CASE ChangePassword(r)
  <2>1. /\ OnlyRequest(r) /\ requests'[r].kind = requests[r].kind
        /\ requests'[r].session = requests[r].session /\ requests'[r].pc = "answer"
        /\ requests[r].pc = "change"
    BY <1>1, <1>9, AnswersWith DEF ChangePassword
  <2>2. calls[r].by \notin {"login", "refresh"}
    BY <1>1, <2>1 DEF CallsHold
  <2>3. sessions' = Revoked(ScopeOfChange(r)) \/ sessions' = sessions
    BY <1>9 DEF ChangePassword
  <2>4. CASE sessions' = sessions
    BY <1>1, <1>4, <2>1, <2>2, <2>4 DEF BrowserTypes
  <2>. QED
    BY <1>4, <1>6, <2>1, <2>2, <2>3, <2>4
<1>. QED
  BY <1>2, <1>3, <1>5, <1>7, <1>8, <1>9 DEF HandlerStep

\* A request that is turned away before its handler reads anything.
LEMMA TurnedAwaySends ==
  ASSUME BrowserInvariant, NEW r \in Requests, NEW by, NEW outcome, TurnedAway(r, outcome),
         by \in {"login", "refresh"} => outcome # "ok",
         by = "refresh" => ~tab.refreshing
  PROVE  /\ requests[r].pc = "idle" /\ OnlyRequest(r) /\ Sent(r, by) /\ UNCHANGED sessions
<1>1. /\ requests'[r].pc = "answer" /\ requests'[r].outcome = outcome /\ requests'[r].kind = "none"
      /\ OnlyRequest(r) /\ requests[r].pc = "idle" /\ UNCHANGED sessions
  BY DEF TurnedAway, Become, OnlyRequest, BrowserInvariant, BrowserTypes, idle
<1>. QED
  BY <1>1 DEF Sent

\* A request whose handler starts with a session.
LEMMA StartSends ==
  ASSUME BrowserInvariant, NEW r \in Requests, NEW kind, NEW session, NEW token, NEW ok, NEW pc,
         NEW refusal, Start(r, kind, session, token, ok, pc, refusal)
  PROVE  /\ requests[r].pc = "idle" /\ OnlyRequest(r) /\ UNCHANGED sessions
         /\ requests'[r].kind = kind /\ requests'[r].session = session
         /\ requests'[r].token = token
         /\ requests'[r].pc = (IF ok THEN pc ELSE "answer")
         /\ requests'[r].outcome = (IF ok THEN "none" ELSE refusal)
  BY DEF Start, Become, OnlyRequest, BrowserInvariant, BrowserTypes, idle

\* The exchange of the cookie is sent: none is under way, so the cookie is current.
LEMMA RefreshKeeps ==
  ASSUME BrowserInvariant, NEW r \in Requests, RefreshAccessToken(r)
  PROVE  BrowserInvariant'
<1>1. /\ BrowserTypes /\ CallsHold
      /\ ~lost => SessionsAnswered /\ SingleFlight /\ CookieIsCurrent
  BY DEF BrowserInvariant
<1>2. ~tab.refreshing
  BY DEF RefreshAccessToken, RefreshDue
<1>3. \E limited : Send(r, "refresh", limited, [tab EXCEPT !.refreshAttempted = TRUE, !.refreshing = TRUE])
  BY DEF RefreshAccessToken
<1>4. PICK limited : Send(r, "refresh", limited, [tab EXCEPT !.refreshAttempted = TRUE, !.refreshing = TRUE])
  BY <1>3
<1>5. /\ calls' = [calls EXCEPT ![r] = [by |-> "refresh", limited |-> limited]]
      /\ UNCHANGED <<cookie, lost>>
      /\ DOMAIN tab' = DOMAIN NewTab /\ tab'.refreshing = TRUE
  BY <1>1, <1>4 DEF Send, BrowserTypes, NewTab
<1>6. /\ requests[r].pc = "idle" /\ OnlyRequest(r) /\ Sent(r, "refresh") /\ UNCHANGED sessions
  <2>1. CASE TurnedAway(r, "refused")
    BY <1>2, <2>1, TurnedAwaySends
  <2>2. CASE /\ cookie # NoCookie
             /\ Start(r, "refresh", cookie.session, cookie.token, IsActive(cookie.session), "rotate", "refused")
    <3>1. /\ requests[r].pc = "idle" /\ OnlyRequest(r) /\ UNCHANGED sessions
          /\ requests'[r].kind = "refresh" /\ requests'[r].session = cookie.session
          /\ requests'[r].token = cookie.token
          /\ requests'[r].pc = (IF IsActive(cookie.session) THEN "rotate" ELSE "answer")
          /\ requests'[r].outcome = (IF IsActive(cookie.session) THEN "none" ELSE "refused")
      <4> DEFINE ok == IsActive(cookie.session)
      <4>1. Start(r, "refresh", cookie.session, cookie.token, ok, "rotate", "refused")
        BY <2>2
      <4>. HIDE DEF ok
      <4>2. /\ requests[r].pc = "idle" /\ OnlyRequest(r) /\ UNCHANGED sessions
            /\ requests'[r].kind = "refresh" /\ requests'[r].session = cookie.session
            /\ requests'[r].token = cookie.token
            /\ requests'[r].pc = (IF ok THEN "rotate" ELSE "answer")
            /\ requests'[r].outcome = (IF ok THEN "none" ELSE "refused")
        BY <4>1, StartSends
      <4>. QED
        BY <4>2 DEF ok
    <3>2. cookie.session \in Requests
      BY <1>1, <2>2 DEF BrowserTypes
    <3>3. ~lost => requests[cookie.session].pc = "done" /\ Current(cookie.session, cookie.token)
      <4>1. ~lost => \A q \in Requests : ~InFlight(q)
        BY <1>1, <1>2 DEF SingleFlight
      <4>. QED
        BY <1>1, <2>2, <4>1 DEF SessionsAnswered, CookieIsCurrent
    <3>. QED
      BY <1>2, <3>1, <3>2, <3>3 DEF Sent
  <2>. QED
    BY <2>1, <2>2 DEF RefreshAccessToken, WithCookie
<1>. QED
  BY <1>5, <1>6, SentKeeps

\* The other requests of the page are sent.
LEMMA OthersKeep ==
  ASSUME BrowserInvariant, NEW r \in Requests, Login(r) \/ SignOut(r) \/ SubmitChange(r)
  PROVE  BrowserInvariant'
<1>1. BrowserTypes
  BY DEF BrowserInvariant
<1>2. ASSUME NEW by \in {"login", "logout", "change"}, NEW newTab, Send(r, by, FALSE, newTab),
             DOMAIN newTab = DOMAIN NewTab, newTab.refreshing = tab.refreshing,
             requests[r].pc = "idle", OnlyRequest(r), Sent(r, by), UNCHANGED sessions
      PROVE  BrowserInvariant'
  <2>1. /\ calls' = [calls EXCEPT ![r] = [by |-> by, limited |-> FALSE]]
        /\ UNCHANGED <<cookie, lost>> /\ tab' = newTab
    BY <1>2 DEF Send
  <2>. QED
    BY <1>2, <2>1, SentKeeps
<1>3. CASE Login(r)
  <2>1. /\ requests[r].pc = "idle" /\ OnlyRequest(r) /\ Sent(r, "login") /\ UNCHANGED sessions
    <3>1. CASE StartLogin(r)
      <4>1. /\ requests[r].pc = "idle" /\ OnlyRequest(r) /\ UNCHANGED sessions
            /\ requests'[r].kind = "login" /\ requests'[r].session = r
            /\ requests'[r].pc = "create" /\ requests'[r].outcome = "none"
        <5>1. Start(r, "login", r, r, TRUE, "create", "refused")
          BY <3>1 DEF StartLogin
        <5>2. /\ requests[r].pc = "idle" /\ OnlyRequest(r) /\ UNCHANGED sessions
              /\ requests'[r].kind = "login" /\ requests'[r].session = r
              /\ requests'[r].pc = (IF TRUE THEN "create" ELSE "answer")
              /\ requests'[r].outcome = (IF TRUE THEN "none" ELSE "refused")
          BY <1>1, <5>1 DEF Start, Become, OnlyRequest, BrowserTypes, idle
        <5>. QED
          BY <5>2
      <4>. QED
        BY <4>1 DEF Sent
    <3>2. CASE TurnedAway(r, "refused")
      BY <3>2, TurnedAwaySends
    <3>. QED
      BY <1>3, <3>1, <3>2 DEF Login
  <2>2. Send(r, "login", FALSE, [tab EXCEPT !.login = "loading"])
    BY <1>3 DEF Login
  <2>3. /\ DOMAIN [tab EXCEPT !.login = "loading"] = DOMAIN NewTab
        /\ [tab EXCEPT !.login = "loading"].refreshing = tab.refreshing
    BY <1>1 DEF BrowserTypes, NewTab
  <2>. QED
    BY <1>2, <2>1, <2>2, <2>3
<1>4. CASE SignOut(r)
  <2>1. /\ requests[r].pc = "idle" /\ OnlyRequest(r) /\ Sent(r, "logout") /\ UNCHANGED sessions
    <3>1. CASE TurnedAway(r, "ok")
      BY <3>1, TurnedAwaySends
    <3>2. CASE Start(r, "logout", cookie.session, cookie.token, IsActive(cookie.session), "revoke", "ok")
      <4>1. /\ requests[r].pc = "idle" /\ OnlyRequest(r) /\ UNCHANGED sessions
            /\ requests'[r].kind = "logout" /\ requests'[r].pc \in {"revoke", "answer"}
        BY <3>2, StartSends
      <4>. QED
        BY <4>1 DEF Sent
    <3>. QED
      BY <1>4, <3>1, <3>2 DEF SignOut, WithCookie
  <2>2. Send(r, "logout", FALSE, [tab EXCEPT !.logout = "loading"])
    BY <1>4 DEF SignOut
  <2>3. /\ DOMAIN [tab EXCEPT !.logout = "loading"] = DOMAIN NewTab
        /\ [tab EXCEPT !.logout = "loading"].refreshing = tab.refreshing
    BY <1>1 DEF BrowserTypes, NewTab
  <2>. QED
    BY <1>2, <2>1, <2>2, <2>3
<1>5. CASE SubmitChange(r)
  <2>1. /\ requests[r].pc = "idle" /\ OnlyRequest(r) /\ Sent(r, "change") /\ UNCHANGED sessions
    <3>1. CASE TurnedAway(r, "refused")
      BY <3>1, TurnedAwaySends
    <3>2. ASSUME NEW d, Start(r, "changePassword", d.session, d.token, IsActive(d.session), "change", "refused")
          PROVE  requests[r].pc = "idle" /\ OnlyRequest(r) /\ Sent(r, "change") /\ UNCHANGED sessions
      <4>1. /\ requests[r].pc = "idle" /\ OnlyRequest(r) /\ UNCHANGED sessions
            /\ requests'[r].kind = "changePassword" /\ requests'[r].pc \in {"change", "answer"}
        BY <3>2, StartSends
      <4>. QED
        BY <4>1 DEF Sent
    <3>. QED
      BY <1>5, <3>1, <3>2 DEF SubmitChange
  <2>2. Send(r, "change", FALSE, [tab EXCEPT !.change = "loading"])
    BY <1>5 DEF SubmitChange
  <2>3. /\ DOMAIN [tab EXCEPT !.change = "loading"] = DOMAIN NewTab
        /\ [tab EXCEPT !.change = "loading"].refreshing = tab.refreshing
    BY <1>1 DEF BrowserTypes, NewTab
  <2>. QED
    BY <1>2, <2>1, <2>2, <2>3
<1>. QED
  BY <1>3, <1>4, <1>5

\* A request that has an end, and what the browser makes of it: the answer of a refresh
\* that was sent ends its flight, and a cookie that is set is one that was just issued.
LEMMA EndKeeps ==
  ASSUME BrowserInvariant, NEW r \in Requests, requests[r].pc \notin {"idle", "done"},
         OnlyRequest(r), UNCHANGED <<sessions, calls>>,
         requests'[r].pc = "done" , requests'[r].kind = requests[r].kind,
         requests'[r].session = requests[r].session,
         calls[r].by \in {"login", "refresh"} /\ requests'[r].outcome = "ok" =>
           requests[r].kind = calls[r].by,
         NEW ok \in BOOLEAN, Reaches(r, ok),
         ~lost' => /\ ~lost
                   /\ \/ cookie' = NoCookie
                      \/ /\ cookie' = cookie
                         /\ ~(calls[r].by = "refresh" /\ requests[r].pc = "answer" /\ requests[r].outcome = "ok")
                      \/ /\ cookie'.session = requests[r].session /\ cookie'.token = r
                         /\ requests[r].kind \in {"login", "refresh"} /\ requests[r].pc = "answer"
                         /\ requests[r].outcome = "ok",
         cookie' \in {NoCookie, cookie} \/ (cookie'.session \in Requests /\ cookie'.token \in Requests)
  PROVE  BrowserInvariant'
<1>1. /\ BrowserTypes /\ CallsHold
      /\ ~lost => SessionsAnswered /\ SingleFlight /\ CookieIsCurrent
  BY DEF BrowserInvariant
<1>2. /\ DOMAIN tab' = DOMAIN NewTab
      /\ calls[r].by # "refresh" => tab'.refreshing = tab.refreshing
  BY <1>1 DEF Reaches, TabAfter, BrowserTypes, NewTab
<1>3. BrowserTypes'
  BY <1>1, <1>2 DEF BrowserTypes, OnlyRequest
<1>4. CallsHold'
  BY <1>1 DEF CallsHold, OnlyRequest
<1>5. \A q \in Requests \ {r} : (InFlight(q)' <=> InFlight(q)) /\ requests'[q] = requests[q]
  BY DEF InFlight, OnlyRequest
<1>6. ~InFlight(r)' /\ (InFlight(r) <=> calls[r].by = "refresh")
  BY DEF InFlight
<1>7. \A s, t : (Current(s, t)' <=> Current(s, t)) /\ (IsActive(s)' <=> IsActive(s))
  BY DEF Current, IsActive
<1>8. ASSUME ~lost'
      PROVE  SessionsAnswered' /\ SingleFlight' /\ CookieIsCurrent'
  <2>1. ~lost /\ SessionsAnswered /\ SingleFlight /\ CookieIsCurrent
    BY <1>1, <1>8
  <2>2. ASSUME \/ cookie' = NoCookie
               \/ /\ cookie' = cookie
                  /\ ~(calls[r].by = "refresh" /\ requests[r].pc = "answer" /\ requests[r].outcome = "ok")
        PROVE  /\ (cookie # NoCookie => requests[cookie.session].pc = "done")'
               /\ (cookie # NoCookie =>
                    \/ Current(cookie.session, cookie.token)
                    \/ \E q \in Requests : /\ InFlight(q) /\ requests[q].pc = "answer"
                                           /\ requests[q].outcome = "ok"
                                           /\ requests[q].session = cookie.session)'
    <3>1. (cookie # NoCookie => requests[cookie.session].pc = "done")'
      BY <1>1, <1>5, <2>1, <2>2 DEF SessionsAnswered, BrowserTypes
    <3>2. (cookie # NoCookie =>
             \/ Current(cookie.session, cookie.token)
             \/ \E q \in Requests : /\ InFlight(q) /\ requests[q].pc = "answer"
                                    /\ requests[q].outcome = "ok"
                                    /\ requests[q].session = cookie.session)'
      <4>. SUFFICES ASSUME cookie' = cookie, cookie # NoCookie, ~Current(cookie.session, cookie.token)
                    PROVE  \E q \in Requests : /\ InFlight(q)' /\ requests'[q].pc = "answer"
                                               /\ requests'[q].outcome = "ok"
                                               /\ requests'[q].session = cookie.session
        BY <1>7, <2>2 DEF Current, IsActive
      <4>1. PICK q \in Requests : /\ InFlight(q) /\ requests[q].pc = "answer"
                                  /\ requests[q].outcome = "ok" /\ requests[q].session = cookie.session
        BY <2>1 DEF CookieIsCurrent
      <4>2. q # r
        BY <2>2, <4>1 DEF InFlight
      <4>. QED
        BY <1>5, <4>1, <4>2
    <3>. QED
      BY <3>1, <3>2
  <2>3. ASSUME /\ cookie'.session = requests[r].session /\ cookie'.token = r
               /\ requests[r].kind \in {"login", "refresh"} /\ requests[r].pc = "answer"
               /\ requests[r].outcome = "ok"
        PROVE  /\ (cookie # NoCookie => requests[cookie.session].pc = "done")'
               /\ (cookie # NoCookie =>
                    \/ Current(cookie.session, cookie.token)
                    \/ \E q \in Requests : /\ InFlight(q) /\ requests[q].pc = "answer"
                                           /\ requests[q].outcome = "ok"
                                           /\ requests[q].session = cookie.session)'
    <3>1. calls[r].by = requests[r].kind
      BY <1>1, <2>3 DEF CallsHold
    <3>2. Current(requests[r].session, r)
      BY <2>1, <2>3, <3>1 DEF CookieIsCurrent
    <3>3. requests'[requests[r].session].pc = "done"
      <4>1. CASE requests[r].kind = "login"
        BY <1>1, <4>1 DEF CallsHold
      <4>2. CASE requests[r].kind = "refresh"
        BY <1>1, <1>5, <2>1, <4>2 DEF CallsHold, SessionsAnswered
      <4>. QED
        BY <2>3, <4>1, <4>2
    <3>. QED
      BY <2>3, <3>2, <3>3 DEF Current, IsActive
  <2>4. /\ (cookie # NoCookie => requests[cookie.session].pc = "done")'
        /\ (cookie # NoCookie =>
             \/ Current(cookie.session, cookie.token)
             \/ \E q \in Requests : /\ InFlight(q) /\ requests[q].pc = "answer"
                                    /\ requests[q].outcome = "ok"
                                    /\ requests[q].session = cookie.session)'
    BY <1>8, <2>2, <2>3
  <2>5. SessionsAnswered'
    <3>1. ASSUME NEW q \in Requests, requests'[q].kind = "refresh"
          PROVE  requests'[requests'[q].session].pc = "done"
      <4>1. requests[q].kind = "refresh" /\ requests'[q].session = requests[q].session
        BY <1>5, <3>1
      <4>2. requests[requests[q].session].pc = "done" /\ requests[q].session \in Requests
        BY <1>1, <2>1, <4>1 DEF SessionsAnswered, CallsHold
      <4>. QED
        BY <1>5, <4>1, <4>2
    <3>. QED
      BY <2>4, <3>1 DEF SessionsAnswered
  <2>6. SingleFlight'
    BY <1>2, <1>5, <1>6, <2>1 DEF SingleFlight
  <2>7. (\A q \in Requests : InFlight(q) =>
           /\ requests[q].pc = "rotate" => Current(requests[q].session, requests[q].token)
           /\ requests[q].pc = "reread" => ~IsActive(requests[q].session)
           /\ requests[q].pc # "revokeReuse")'
    BY <1>5, <1>6, <2>1 DEF CookieIsCurrent, Current, IsActive
  <2>8. (\A q \in Requests :
           (/\ calls[q].by \in {"login", "refresh"}
            /\ requests[q].pc = "answer" /\ requests[q].outcome = "ok")
              => Current(requests[q].session, q))'
    BY <1>5, <2>1 DEF CookieIsCurrent, Current, IsActive
  <2>. QED
    BY <2>4, <2>5, <2>6, <2>7, <2>8 DEF CookieIsCurrent
<1>. QED
  BY <1>3, <1>4, <1>8 DEF BrowserInvariant

\* What an answer makes of the cookie: it is set only with a session that was issued.
LEMMA CookieIsSetOrKept ==
  ASSUME NEW r, NEW ok \in BOOLEAN
  PROVE  \/ CookieAfter(r, ok) \in {NoCookie, cookie}
         \/ /\ calls[r].by \in {"login", "refresh"} /\ ok
            /\ CookieAfter(r, ok) = [session |-> requests[r].session, token |-> r]
BY DEF CookieAfter

\* An answer arrives.
LEMMA ArrivalKeeps ==
  ASSUME BrowserInvariant, NEW r \in Requests, AnswerArrives(r)
  PROVE  BrowserInvariant'
<1>1. BrowserTypes /\ CallsHold
  BY DEF BrowserInvariant
<1>2. /\ requests[r].pc = "answer" /\ OnlyRequest(r) /\ UNCHANGED <<sessions, calls, lost>>
      /\ requests'[r].pc = "done" /\ requests'[r].kind = requests[r].kind
      /\ requests'[r].session = requests[r].session /\ requests'[r].outcome = requests[r].outcome
  BY <1>1 DEF AnswerArrives, Answer, Goto, Become, Reaches, OnlyRequest, BrowserTypes, idle
<1>3. PICK ok \in BOOLEAN : Reaches(r, ok)
  BY DEF AnswerArrives
<1>4. cookie' = CookieAfter(r, requests[r].outcome = "ok")
  BY DEF AnswerArrives
<1>5. CASE calls[r].by \in {"login", "refresh"} /\ requests[r].outcome = "ok"
  <2>1. cookie' = [session |-> requests[r].session, token |-> r]
    <3>1. CookieAfter(r, TRUE) = [session |-> requests[r].session, token |-> r]
      BY <1>5 DEF CookieAfter
    <3>2. (requests[r].outcome = "ok") = TRUE
      BY <1>5
    <3>. QED
      BY <1>4, <3>1, <3>2
  <2>2. requests[r].kind \in {"login", "refresh"} /\ requests[r].session \in Requests
    BY <1>1, <1>5 DEF CallsHold
  <2>. QED
    BY <1>1, <1>2, <1>3, <1>5, <2>1, <2>2, EndKeeps DEF CallsHold
<1>6. CASE ~(calls[r].by \in {"login", "refresh"} /\ requests[r].outcome = "ok")
  <2>1. cookie' = NoCookie \/ cookie' = cookie
    <3>1. ~(calls[r].by \in {"login", "refresh"} /\ (requests[r].outcome = "ok"))
      BY <1>6
    <3>. QED
      BY <1>4, <3>1, CookieIsSetOrKept
  <2>. QED
    BY <1>1, <1>2, <1>3, <1>6, <2>1, EndKeeps DEF CallsHold
<1>. QED
  BY <1>5, <1>6

\* A request fails, or its answer is lost.
LEMMA FailureKeeps ==
  ASSUME BrowserInvariant, NEW r \in Requests, RequestFails(r)
  PROVE  BrowserInvariant'
<1>1. BrowserTypes /\ CallsHold
  BY DEF BrowserInvariant
<1>2. /\ requests[r].pc \notin {"idle", "done"} /\ OnlyRequest(r) /\ UNCHANGED <<sessions, calls>>
      /\ requests'[r].pc = "done" /\ requests'[r].kind = requests[r].kind
      /\ requests'[r].session = requests[r].session
      /\ requests'[r].outcome = (IF requests[r].kind = "logout" THEN "ok" ELSE "error")
  BY <1>1 DEF RequestFails, Fail, Become, Reaches, OnlyRequest, BrowserTypes, idle
<1>3. PICK ok \in BOOLEAN : Reaches(r, ok)
  BY DEF RequestFails
<1>4. calls[r].by \in {"login", "refresh"} => requests[r].kind # "logout"
  BY <1>1 DEF CallsHold
<1>5. CASE /\ requests[r].pc # "answer" /\ UNCHANGED lost
           /\ cookie' = CookieAfter(r, requests[r].kind = "logout")
  <2>1. cookie' \in {NoCookie, cookie}
    BY <1>4, <1>5, CookieIsSetOrKept
  <2>. QED
    BY <1>2, <1>3, <1>4, <1>5, <2>1, EndKeeps
<1>6. CASE lost' = (lost \/ requests[r].kind = "refresh") /\ UNCHANGED cookie
  <2>1. ~lost' => ~lost /\ requests[r].kind # "refresh"
    BY <1>6
  <2>2. ~lost' => ~(calls[r].by = "refresh" /\ requests[r].pc = "answer" /\ requests[r].outcome = "ok")
    BY <1>1, <2>1 DEF CallsHold
  <2>. QED
    BY <1>2, <1>3, <1>4, <1>6, <2>1, <2>2, EndKeeps
<1>. QED
  BY <1>5, <1>6 DEF RequestFails

\* A link, and a page load: a refresh that is under way then counts as lost.
LEMMA PagesKeep ==
  ASSUME BrowserInvariant, FollowLink \/ LoadPage
  PROVE  BrowserInvariant'
<1>1. /\ UNCHANGED <<vars, cookie, calls>>
      /\ DOMAIN tab' = DOMAIN NewTab
      /\ ~lost' => ~lost /\ (tab.refreshing => tab'.refreshing)
  <2>1. CASE FollowLink
    <3>1. DOMAIN tab' = DOMAIN tab /\ tab'.refreshing = tab.refreshing
      BY <2>1 DEF FollowLink, NewTab, BrowserInvariant, BrowserTypes
    <3>. QED
      BY <2>1, <3>1 DEF FollowLink, BrowserInvariant, BrowserTypes
  <2>2. CASE LoadPage
    BY <2>2 DEF LoadPage
  <2>. QED
    BY <2>1, <2>2
<1>2. BrowserTypes' /\ CallsHold'
  BY <1>1 DEF vars, BrowserInvariant, BrowserTypes, CallsHold
<1>3. \A q \in Requests : InFlight(q)' <=> InFlight(q)
  BY <1>1 DEF vars, InFlight
<1>4. ~lost' => SessionsAnswered' /\ SingleFlight'
  BY <1>1, <1>3 DEF vars, BrowserInvariant, SessionsAnswered, SingleFlight
<1>5. ~lost' => CookieIsCurrent'
  BY <1>1, <1>3 DEF vars, BrowserInvariant, CookieIsCurrent, Current, IsActive
<1>. QED
  BY <1>2, <1>4, <1>5 DEF BrowserInvariant

\* Every step of the browser keeps the invariant.
LEMMA BrowserNextKeeps ==
  ASSUME BrowserInvariant, BrowserNext
  PROVE  BrowserInvariant'
<1>1. CASE FollowLink \/ LoadPage
  BY <1>1, PagesKeep
<1>2. ASSUME NEW r \in Requests,
             \/ RefreshAccessToken(r) \/ Login(r) \/ SignOut(r) \/ SubmitChange(r)
             \/ AnswerArrives(r) \/ RequestFails(r)
             \/ HandlerStep(r) /\ UNCHANGED browserVars
      PROVE  BrowserInvariant'
  BY <1>2, RefreshKeeps, OthersKeep, ArrivalKeeps, FailureKeeps, HandlersKeep
<1>. QED
  BY <1>1, <1>2 DEF BrowserNext

\* The browser starts without a cookie and without a request.
LEMMA BrowserStarts ==
  ASSUME Init, InitBrowser
  PROVE  BrowserInvariant
<1>1. /\ \A r \in Requests : requests[r] = idle /\ calls[r] = NoCall
      /\ DOMAIN requests = Requests /\ DOMAIN sessions = Requests /\ DOMAIN calls = Requests
      /\ \A s \in Requests : DOMAIN sessions[s] = {"status", "token"}
      /\ cookie = NoCookie /\ tab = NewTab
  BY DEF Init, InitBrowser, noRow
<1>0. \A r \in Requests : calls[r].by = "none" /\ requests[r].pc = "idle" /\ requests[r].kind = "none"
  <2>1. NoCall.by = "none" /\ idle.pc = "idle" /\ idle.kind = "none"
    BY DEF idle, NoCall
  <2>. QED
    BY <1>1, <2>1
<1>2. BrowserTypes
  BY <1>1, RequestsAssumption DEF BrowserTypes
<1>3. CallsHold
  BY <1>0 DEF CallsHold
<1>4. \A r \in Requests : ~InFlight(r)
  BY <1>0 DEF InFlight
<1>5. SessionsAnswered /\ SingleFlight /\ CookieIsCurrent
  BY <1>0, <1>1, <1>4 DEF SessionsAnswered, SingleFlight, CookieIsCurrent
<1>. QED
  BY <1>2, <1>3, <1>5 DEF BrowserInvariant

\* A request that is turned away has read nothing and knows nothing.
LEMMA TurnedAwayHolds ==
  ASSUME SessionInvariant, NEW r \in Requests, NEW outcome \in Outcomes, TurnedAway(r, outcome)
  PROVE  SessionInvariant'
<1> DEFINE q == [idle EXCEPT !.pc = "answer", !.outcome = outcome]
<1>1. /\ requests[r].pc = "idle" /\ requests' = [requests EXCEPT ![r] = q]
      /\ UNCHANGED <<password, sessions, delivered, exchanged, createdAt, failed>>
  BY DEF TurnedAway, Become, history
<1>2. Types /\ requests \in [Requests -> Request]
  BY DEF SessionInvariant, Types, TypeOK
<1>3. q \in Request /\ q.pc = "answer" /\ q.kind = "none" /\ q.outcome = outcome
  BY DEF idle, Request, Tokens, Kinds, Pcs
<1>4. requests'[r] = q
  BY <1>1, <1>2
<1>5. RequestOK(r)'
  BY <1>3, <1>4 DEF RequestOK
<1>6. /\ requests' \in [Requests -> Request]
      /\ \A p \in Requests : RequestOK(p)'
      /\ \A p \in Requests \ {r} : requests'[p] = requests[p]
  BY <1>1, <1>2, <1>3, <1>5, OneRequest
<1>7. Types'
  BY <1>1, <1>2, <1>6 DEF Types, TypeOK
<1>8. FreshTokens'
  BY <1>1, <1>3, <1>4, <1>6 DEF SessionInvariant, FreshTokens, Fresh
<1>9. CurrentNotExchanged' /\ TokenExchangedOnce' /\ DeliveredTrue' /\ NoSessionOutlivesChange'
  BY <1>1 DEF SessionInvariant, CurrentNotExchanged, TokenExchangedOnce, DeliveredTrue, Works,
              NoSessionOutlivesChange
<1>10. OutcomeTrue(r)'
  BY <1>3, <1>4 DEF OutcomeTrue, Known
<1>11. ASSUME NEW p \in Requests \ {r} PROVE OutcomeTrue(p)'
  BY <1>1, <1>6 DEF SessionInvariant, OutcomesTrue, OutcomeTrue, Known, Works
<1>12. ChangesDiffer'
  <2>1. ~Known(r, "changePassword", "ok")'
    BY <1>3, <1>4 DEF Known
  <2>2. \A p \in Requests \ {r} : Known(p, "changePassword", "ok")' <=> Known(p, "changePassword", "ok")
    BY <1>6 DEF Known
  <2>. QED
    BY <1>6, <2>1, <2>2 DEF SessionInvariant, ChangesDiffer
<1>. QED
  BY <1>7, <1>8, <1>9, <1>10, <1>11, <1>12 DEF SessionInvariant, OutcomesTrue

\* The cookie of the browser was given to it.
CookieGiven == cookie # NoCookie => cookie \in delivered

\* A request of the browser is one of AuthSession's, or is turned away.
LEMMA BrowserSteps ==
  ASSUME BrowserInvariant, CookieGiven, BrowserNext
  PROVE  Next \/ UNCHANGED vars
         \/ \E r \in Requests, outcome \in {"ok", "refused"} : TurnedAway(r, outcome)
<1>1. CASE FollowLink \/ LoadPage
  BY <1>1 DEF FollowLink, LoadPage
<1>2. ASSUME NEW r \in Requests, RefreshAccessToken(r) PROVE TurnedAway(r, "refused") \/ StartRefresh(r)
  BY <1>2 DEF RefreshAccessToken, WithCookie, StartRefresh, CookieGiven
<1>3. ASSUME NEW r \in Requests, Login(r) PROVE TurnedAway(r, "refused") \/ StartLogin(r)
  BY <1>3 DEF Login
<1>4. ASSUME NEW r \in Requests, SignOut(r) PROVE TurnedAway(r, "ok") \/ StartLogout(r)
  BY <1>4 DEF SignOut, WithCookie, StartLogout, CookieGiven
<1>5. ASSUME NEW r \in Requests, SubmitChange(r) PROVE TurnedAway(r, "refused") \/ StartChange(r)
  BY <1>5 DEF SubmitChange, StartChange
<1>6. ASSUME NEW r \in Requests, AnswerArrives(r) \/ RequestFails(r) \/ HandlerStep(r) PROVE Handle(r)
  BY <1>6 DEF AnswerArrives, RequestFails, HandlerStep, Handle
<1>7. ASSUME NEW r \in Requests, StartRefresh(r) \/ StartLogin(r) \/ StartLogout(r) \/ StartChange(r)
      PROVE  Next
  BY <1>7 DEF Next, Handle
<1>. QED
  BY <1>1, <1>2, <1>3, <1>4, <1>5, <1>6, <1>7, Zenon DEF BrowserNext, Next

\* A cookie comes with the answer that gives its token.
LEMMA CookieGivenStep ==
  ASSUME BrowserInvariant, CookieGiven, BrowserNext
  PROVE  CookieGiven'
<1>1. CallsHold /\ DOMAIN requests = Requests
  BY DEF BrowserInvariant, BrowserTypes
<1>2. ASSUME NEW r \in Requests, AnswerArrives(r) PROVE CookieGiven'
  <2>1. /\ cookie' = CookieAfter(r, requests[r].outcome = "ok")
        /\ delivered' = IF requests[r].outcome = "ok" /\ requests[r].kind \in {"login", "refresh"}
                        THEN delivered \cup {[session |-> requests[r].session, token |-> r]}
                        ELSE delivered
    BY <1>2 DEF AnswerArrives, Answer
  <2>2. CASE cookie' \in {cookie, NoCookie}
    BY <2>1, <2>2 DEF CookieGiven
  <2>3. CASE calls[r].by \in {"login", "refresh"} /\ requests[r].outcome = "ok"
    <3>1. requests[r].kind \in {"login", "refresh"}
      BY <1>1, <2>3 DEF CallsHold
    <3>2. cookie' = [session |-> requests[r].session, token |-> r]
      BY <2>1, <2>3 DEF CookieAfter
    <3>. QED
      BY <2>1, <2>3, <3>1, <3>2 DEF CookieGiven
  <2>. QED
    BY <2>1, <2>2, <2>3 DEF CookieAfter
<1>3. ASSUME NEW r \in Requests, RequestFails(r) PROVE CookieGiven'
  <2>1. UNCHANGED delivered
    BY <1>3 DEF RequestFails, Fail
  <2>2. cookie' = cookie \/ cookie' = CookieAfter(r, requests[r].kind = "logout")
    BY <1>3 DEF RequestFails
  <2>3. requests[r].kind = "logout" => calls[r].by \notin {"login", "refresh"}
    BY <1>1 DEF CallsHold
  <2>4. cookie' \in {cookie, NoCookie}
    BY <2>2, <2>3 DEF CookieAfter
  <2>. QED
    BY <2>1, <2>4 DEF CookieGiven
<1>4. CASE \/ FollowLink \/ LoadPage
           \/ \E r \in Requests : \/ RefreshAccessToken(r) \/ Login(r) \/ SignOut(r) \/ SubmitChange(r)
                                  \/ HandlerStep(r) /\ UNCHANGED browserVars
  <2>1. UNCHANGED <<cookie, delivered>>
    BY <1>4 DEF FollowLink, LoadPage, vars, RefreshAccessToken, Login, SignOut, SubmitChange, Send,
       WithCookie, TurnedAway, StartLogin, Start, HandlerStep, CreateSession, Rotate, RereadAfterRotation,
       RevokeReuse, Logout, ChangePassword, browserVars, history
  <2>. QED
    BY <2>1 DEF CookieGiven
<1>. QED
  BY <1>2, <1>3, <1>4 DEF BrowserNext

\* The sessions are what AuthSession says they are whichever clients are followed; where
\* the browser is, its invariant holds, and elsewhere it sends nothing.
ApiInvariant ==
  /\ SessionInvariant
  /\ followed = "browser" => BrowserInvariant /\ CookieGiven
  /\ followed # "browser" => \A r \in Requests : calls[r].by = "none"

\* The API starts without sessions, requests and cookies.
LEMMA ApiStarts == InitApi => ApiInvariant
<1>. SUFFICES ASSUME InitApi PROVE ApiInvariant
  OBVIOUS
<1>1. BrowserInvariant /\ SessionInvariant
  BY BrowserStarts, Initially DEF InitApi
<1>2. CookieGiven /\ \A r \in Requests : calls[r].by = "none"
  BY DEF InitApi, InitBrowser, NoCall, CookieGiven
<1>. QED
  BY <1>1, <1>2 DEF ApiInvariant

\* The invariant is inductive.
LEMMA ApiStep == ApiInvariant /\ [NextApi]_apiVars => ApiInvariant'
<1>. SUFFICES ASSUME ApiInvariant, [NextApi]_apiVars PROVE ApiInvariant'
  OBVIOUS
<1>1. SessionInvariant /\ (Next \/ UNCHANGED vars) => SessionInvariant'
  BY SessionStepHolds
<1>2. CASE OneBrowser
  <2>1. BrowserInvariant /\ CookieGiven /\ BrowserNext /\ followed' = "browser"
    BY <1>2 DEF OneBrowser, ApiInvariant
  <2>2. BrowserInvariant' /\ CookieGiven'
    BY <2>1, BrowserNextKeeps, CookieGivenStep
  <2>3. SessionInvariant'
    BY <1>1, <2>1, BrowserSteps, TurnedAwayHolds DEF ApiInvariant, Outcomes
  <2>. QED
    BY <2>1, <2>2, <2>3 DEF ApiInvariant
<1>3. CASE AnyRequests
  BY <1>1, <1>3 DEF AnyRequests, ApiInvariant, browserVars
<1>4. CASE RateLimit \/ UNCHANGED apiVars
  <2>1. UNCHANGED <<followed, vars, browserVars>>
    BY <1>4 DEF RateLimit, apiVars
  <2>2. BrowserInvariant => BrowserInvariant'
    BY <2>1 DEF vars, browserVars, BrowserInvariant, BrowserTypes, CallsHold, SessionsAnswered,
                SingleFlight, CookieIsCurrent, InFlight, Current, IsActive
  <2>3. CookieGiven => CookieGiven'
    BY <2>1 DEF vars, browserVars, CookieGiven
  <2>. QED
    BY <1>1, <2>1, <2>2, <2>3 DEF ApiInvariant, browserVars
<1>. QED
  BY <1>2, <1>3, <1>4 DEF NextApi

\* The API keeps its invariant.
THEOREM ApiInvariance == ApiSpec => []ApiInvariant
  BY ApiStarts, ApiStep, PTL DEF ApiSpec

\* No refresh of the browser is taken for the reuse of a token, for any number of
\* requests, page loads and failures.
THEOREM SingleFlightIsSafe == ApiSpec => []RefreshIsNotReuse
<1>1. ApiInvariant => RefreshIsNotReuse
  BY DEF ApiInvariant, BrowserInvariant, CookieIsCurrent, InFlight, RefreshIsNotReuse
<1>. QED
  BY <1>1, ApiInvariance, PTL

\* What holds of the sessions holds beside the browser too, whose requests are turned
\* away for reasons of their own and whose cookie comes and goes.
THEOREM SessionsHoldInTheApi ==
  ApiSpec => [](/\ TokenExchangedOnce /\ RefusedRefreshEndsSession /\ AnsweredTokenWorks
                /\ LogoutEndsSession /\ NoSessionOutlivesChange /\ ChangesDoNotOverwrite)
<1>1. ApiInvariant => /\ TokenExchangedOnce /\ RefusedRefreshEndsSession /\ AnsweredTokenWorks
                      /\ LogoutEndsSession /\ NoSessionOutlivesChange /\ ChangesDoNotOverwrite
  BY SessionsAreSafe DEF ApiInvariant
<1>. QED
  BY <1>1, ApiInvariance, PTL

--------------------------------------------------------------------------------
\* The limiter.  LimiterInvariant places every request that passed in the last window's
\* length in the bucket it was counted in.

\* A map of buckets whose windows have begun.
MapOK(map) ==
  /\ IsFiniteSet(DOMAIN map.of) /\ DOMAIN map.of \subseteq Keys
  /\ \A key \in DOMAIN map.of : map.of[key] \in [count : Nat, start : Nat] /\ map.of[key].start <= clock
  /\ \A key : <<key, key>> \notin map.before

\* The requests of a key that passed in the bucket that began at start.
InBucket(key, start) == {p \in passed[key] : p.start = start}

\* What has passed of a key in the last window's length passed in buckets whose windows
\* do not overlap, each up to the limit and the one that runs up to its count.
RateHolds(key) ==
  /\ IsFiniteSet(passed[key])
  /\ \A p \in passed[key] :
       /\ p \in [at : Nat, start : Nat, nth : Nat]
       /\ p.start <= p.at /\ p.at < p.start + Window(key) /\ p.at <= clock /\ clock - p.at < Window(key)
  /\ \A p, q \in passed[key] : \/ p.start = q.start
                               \/ p.start + Window(key) <= q.start \/ q.start + Window(key) <= p.start
  /\ \A start : Cardinality(InBucket(key, start)) <= Limit(key)
  /\ Runs(buckets, key) =>
       /\ \A p \in passed[key] : \/ p.start = buckets.of[key].start
                                 \/ p.start + Window(key) <= buckets.of[key].start
       /\ Cardinality(InBucket(key, buckets.of[key].start)) <= buckets.of[key].count
  /\ ~Runs(buckets, key) => \A p \in passed[key] : p.start + Window(key) <= clock

LimiterInvariant ==
  /\ clock \in Nat /\ evicted \in BOOLEAN
  /\ MapOK(buckets)
  /\ passed = [key \in Keys |-> passed[key]]
  /\ ~evicted => \A key \in Keys : RateHolds(key)

LEMMA Policies ==
  ASSUME NEW key \in Keys
  PROVE  /\ Window(key) \in Nat /\ Window(key) > 0 /\ Window(key) <= TrimAge
         /\ Limit(key) \in Nat /\ Limit(key) > 0
         /\ TrimAge \in Nat /\ MaxBuckets \in Nat /\ MaxBuckets > 0
<1>1. key[1] \in Scopes
  BY DEF Keys
<1>2. /\ Limits[key[1]] \in Nat \ {0} /\ Windows[key[1]] \in 1..TrimAge
      /\ TrimAge \in Nat /\ MaxBuckets \in Nat \ {0}
  BY <1>1, PoliciesAssumption
<1>3. Window(key) \in 1..TrimAge /\ Limit(key) \in Nat \ {0}
  BY <1>2 DEF Window, Limit
<1>. QED
  BY <1>2, <1>3

\* What is trimmed is old, or the map had too many keys.
LEMMA TrimKeeps ==
  ASSUME NEW map, MapOK(map), clock \in Nat
  PROVE  /\ MapOK(Trim(map))
         /\ DOMAIN Trim(map).of \subseteq DOMAIN map.of
         /\ \A key \in DOMAIN Trim(map).of : Trim(map).of[key] = map.of[key]
         /\ Cardinality(DOMAIN map.of) <= MaxBuckets =>
              \A key : Runs(map, key) => key \in DOMAIN Trim(map).of
<1> DEFINE recent == {key \in DOMAIN map.of : clock - map.of[key].start < TrimAge}
           last == Last(map, recent)
<1>1. /\ DOMAIN Trim(map).of = last /\ last \subseteq recent /\ recent \subseteq DOMAIN map.of
      /\ \A key \in last : Trim(map).of[key] = map.of[key]
      /\ Trim(map).before \subseteq map.before
  BY DEF Trim, Restricted, Last
<1>2. IsFiniteSet(recent) /\ Cardinality(recent) <= Cardinality(DOMAIN map.of) /\ IsFiniteSet(last)
      /\ Cardinality(DOMAIN map.of) \in Nat
  BY <1>1, FS_Subset, FS_CardinalityType DEF MapOK
<1>3. MapOK(Trim(map))
  BY <1>1, <1>2 DEF MapOK
<1>4. ASSUME Cardinality(DOMAIN map.of) <= MaxBuckets, NEW key, Runs(map, key)
      PROVE  key \in last
  <2>1. key \in recent
    BY <1>4, Policies DEF Runs, InWindow, MapOK
  <2> DEFINE after == {k \in recent : <<key, k>> \in map.before}
  <2>2. after \subseteq recent /\ key \notin after
    BY DEF MapOK
  <2>3. Cardinality(after) <= Cardinality(recent) /\ Cardinality(after) # Cardinality(recent)
        /\ Cardinality(after) \in Nat /\ Cardinality(recent) \in Nat
    BY <1>2, <2>1, <2>2, FS_Subset, FS_CardinalityType
  <2>4. Cardinality(after) < MaxBuckets
    BY <1>2, <1>4, <2>3, PoliciesAssumption
  <2>. QED
    BY <2>1, <2>4 DEF Last
<1>. QED
  BY <1>1, <1>3, <1>4

\* getBucket puts the bucket it returns into the map, and leaves the others alone.
LEMMA GetKeeps ==
  ASSUME NEW map, MapOK(map), clock \in Nat, NEW key \in Keys
  PROVE  LET got == GetBucket(map, key)
         IN  /\ MapOK(got)
             /\ key \in DOMAIN got.of /\ got.of[key] = Bucket(map, key) /\ Runs(got, key)
             /\ DOMAIN got.of \subseteq DOMAIN map.of \cup {key}
             /\ \A k \in DOMAIN got.of \ {key} : k \in DOMAIN map.of /\ got.of[k] = map.of[k]
             /\ Cardinality(DOMAIN map.of) <= MaxBuckets =>
                  \A k : Runs(map, k) => k \in DOMAIN got.of
<1>1. CASE Runs(map, key)
  BY <1>1 DEF GetBucket, Bucket, Runs
<1>2. CASE ~Runs(map, key)
  <2> DEFINE kept == IF Cardinality(DOMAIN map.of) >= MaxBuckets THEN Trim(map) ELSE map
             got == GetBucket(map, key)
             fresh == [count |-> 0, start |-> clock]
  <2>1. /\ MapOK(kept) /\ DOMAIN kept.of \subseteq DOMAIN map.of
        /\ \A k \in DOMAIN kept.of : kept.of[k] = map.of[k]
        /\ Cardinality(DOMAIN map.of) <= MaxBuckets => \A k : Runs(map, k) => k \in DOMAIN kept.of
    BY TrimKeeps DEF Runs
  <2>2. got = Put(kept, key, fresh) /\ Bucket(map, key) = fresh
    BY <1>2 DEF GetBucket, Bucket
  <2>. HIDE DEF kept
  <2>3. /\ DOMAIN got.of = DOMAIN kept.of \cup {key}
        /\ got.of[key] = fresh /\ \A k \in DOMAIN kept.of \ {key} : got.of[k] = kept.of[k]
        /\ \A k : <<k, k>> \in got.before => <<k, k>> \in kept.before
    BY <2>2 DEF Put
  <2>. HIDE DEF got
  <2>4. IsFiniteSet(DOMAIN got.of)
    <3>1. IsFiniteSet(DOMAIN kept.of)
      BY <2>1 DEF MapOK
    <3>. QED
      BY <2>3, <3>1, FS_AddElement
  <2>5. fresh \in [count : Nat, start : Nat] /\ fresh.start <= clock
    OBVIOUS
  <2>6. MapOK(got)
    BY <2>1, <2>3, <2>4, <2>5 DEF MapOK
  <2>7. Runs(got, key)
    BY <2>3, Policies DEF Runs, InWindow
  <2>. QED
    BY <2>1, <2>2, <2>3, <2>6, <2>7 DEF got
<1>. QED
  BY <1>1, <1>2

\* What consume makes of the buckets it got: those of its keys, while the others are as
\* they were; and all that matter are there if the map was not too small.
Got(keys, got, map) ==
  /\ MapOK(map) /\ keys \subseteq Keys
  /\ \A key \in DOMAIN map.of \ keys : key \in DOMAIN buckets.of /\ map.of[key] = buckets.of[key]
  /\ \A key \in keys : key \in DOMAIN map.of => map.of[key] \in got
  /\ ~Overfull(keys) => /\ Cardinality(DOMAIN map.of) <= MaxBuckets
                        /\ \A key \in Matter(keys) : Stays(key, map, map)

LEMMA GetsOne ==
  ASSUME LimiterInvariant, NEW ip \in Keys
  PROVE  Got({ip}, {Bucket(buckets, ip)}, GetBucket(buckets, ip))
<1> DEFINE first == GetBucket(buckets, ip)
<1>1. MapOK(buckets) /\ clock \in Nat
  BY DEF LimiterInvariant
<1>2. /\ MapOK(first) /\ ip \in DOMAIN first.of /\ first.of[ip] = Bucket(buckets, ip)
      /\ DOMAIN first.of \subseteq DOMAIN buckets.of \cup {ip}
      /\ \A k \in DOMAIN first.of \ {ip} : k \in DOMAIN buckets.of /\ first.of[k] = buckets.of[k]
      /\ Cardinality(DOMAIN buckets.of) <= MaxBuckets =>
           \A k : Runs(buckets, k) => k \in DOMAIN first.of
  BY <1>1, GetKeeps
<1>. HIDE DEF first
<1>3. ASSUME ~Overfull({ip})
      PROVE  Cardinality(DOMAIN first.of) <= MaxBuckets /\ \A key \in Matter({ip}) : Stays(key, first, first)
  <2>1. IsFiniteSet(DOMAIN buckets.of \cup {ip})
    BY <1>1, FS_AddElement DEF MapOK
  <2>2. Cardinality(DOMAIN buckets.of \cup {ip}) <= MaxBuckets /\ Cardinality(DOMAIN buckets.of \cup {ip}) \in Nat
    BY <1>3, <2>1, FS_CardinalityType, PoliciesAssumption DEF Overfull
  <2>3. /\ Cardinality(DOMAIN first.of) <= MaxBuckets
        /\ Cardinality(DOMAIN buckets.of) <= MaxBuckets
    <3>1. /\ Cardinality(DOMAIN first.of) <= Cardinality(DOMAIN buckets.of \cup {ip})
          /\ Cardinality(DOMAIN buckets.of) <= Cardinality(DOMAIN buckets.of \cup {ip})
      BY <1>2, <2>1, FS_Subset
    <3>2. Cardinality(DOMAIN first.of) \in Nat /\ Cardinality(DOMAIN buckets.of) \in Nat
      BY <1>1, <1>2, FS_CardinalityType DEF MapOK
    <3>. QED
      BY <2>2, <3>1, <3>2, PoliciesAssumption
  <2>4. ASSUME NEW key \in Matter({ip}), key # ip PROVE Stays(key, first, first)
    BY <1>2, <2>3, <2>4 DEF Matter, Stays, Bucket
  <2>5. Stays(ip, first, first)
    BY <1>2 DEF Stays
  <2>. QED
    BY <2>3, <2>4, <2>5
<1>. QED
  BY <1>2, <1>3 DEF Got, first

LEMMA GetsTwo ==
  ASSUME LimiterInvariant, NEW ip \in Keys, NEW second \in Keys
  PROVE  LET first == GetBucket(buckets, ip)
         IN  Got({ip, second}, {Bucket(buckets, ip), Bucket(first, second)}, GetBucket(first, second))
<1> DEFINE first == GetBucket(buckets, ip)
           map == GetBucket(first, second)
           all == DOMAIN buckets.of \cup {ip, second}
<1>1. MapOK(buckets) /\ clock \in Nat
  BY DEF LimiterInvariant
<1>2. /\ MapOK(first) /\ ip \in DOMAIN first.of /\ first.of[ip] = Bucket(buckets, ip) /\ Runs(first, ip)
      /\ DOMAIN first.of \subseteq DOMAIN buckets.of \cup {ip}
      /\ \A k \in DOMAIN first.of \ {ip} : k \in DOMAIN buckets.of /\ first.of[k] = buckets.of[k]
      /\ Cardinality(DOMAIN buckets.of) <= MaxBuckets =>
           \A k : Runs(buckets, k) => k \in DOMAIN first.of
  BY <1>1, GetKeeps
<1>. HIDE DEF first
<1>3. /\ MapOK(map) /\ second \in DOMAIN map.of /\ map.of[second] = Bucket(first, second)
      /\ DOMAIN map.of \subseteq DOMAIN first.of \cup {second}
      /\ \A k \in DOMAIN map.of \ {second} : k \in DOMAIN first.of /\ map.of[k] = first.of[k]
      /\ Cardinality(DOMAIN first.of) <= MaxBuckets =>
           \A k : Runs(first, k) => k \in DOMAIN map.of
  BY <1>1, <1>2, GetKeeps
<1>. HIDE DEF map
<1>4. ASSUME ~Overfull({ip, second})
      PROVE  Cardinality(DOMAIN map.of) <= MaxBuckets /\ \A key \in Matter({ip, second}) : Stays(key, map, map)
  <2>1. IsFiniteSet(all)
    <3>1. IsFiniteSet((DOMAIN buckets.of \cup {ip}) \cup {second})
      BY <1>1, FS_AddElement DEF MapOK
    <3>2. all = (DOMAIN buckets.of \cup {ip}) \cup {second}
      OBVIOUS
    <3>. QED
      BY <3>1, <3>2
  <2>2. Cardinality(all) <= MaxBuckets /\ Cardinality(all) \in Nat
    BY <1>4, <2>1, FS_CardinalityType, PoliciesAssumption DEF Overfull
  <2>3. \A part \in SUBSET all : Cardinality(part) <= MaxBuckets
    <3>. SUFFICES ASSUME NEW part \in SUBSET all PROVE Cardinality(part) <= MaxBuckets
      OBVIOUS
    <3>1. Cardinality(part) <= Cardinality(all) /\ Cardinality(part) \in Nat
      BY <2>1, FS_Subset, FS_CardinalityType
    <3>. QED
      BY <2>2, <3>1, PoliciesAssumption
  <2>4. /\ Cardinality(DOMAIN buckets.of) <= MaxBuckets /\ Cardinality(DOMAIN first.of) <= MaxBuckets
        /\ Cardinality(DOMAIN map.of) <= MaxBuckets
    <3>1. DOMAIN buckets.of \subseteq all /\ DOMAIN first.of \subseteq all /\ DOMAIN map.of \subseteq all
      BY <1>2, <1>3
    <3>. QED
      BY <2>3, <3>1
  <2>5. ASSUME NEW key, Runs(first, key) PROVE key \in DOMAIN map.of /\ map.of[key] = first.of[key]
    BY <1>3, <2>4, <2>5 DEF Runs, Bucket
  <2>6. Stays(ip, map, map)
    BY <1>2, <2>5 DEF Stays
  <2>7. ASSUME NEW key, Runs(buckets, key), key # ip PROVE Stays(key, map, map)
    <3>1. key \in DOMAIN first.of /\ first.of[key] = buckets.of[key]
      BY <1>2, <2>4, <2>7
    <3>2. Runs(first, key)
      BY <2>7, <3>1 DEF Runs
    <3>. QED
      BY <2>5, <2>7, <3>1, <3>2 DEF Stays, Bucket
  <2>8. ASSUME ~Runs(buckets, second), second # ip PROVE Stays(second, map, map)
    <3>1. ~Runs(first, second)
      BY <1>2, <2>8 DEF Runs
    <3>. QED
      BY <1>3, <2>8, <3>1 DEF Stays, Bucket
  <2>. QED
    BY <2>4, <2>6, <2>7, <2>8 DEF Matter
<1>5. \A key \in DOMAIN map.of \ {ip, second} : key \in DOMAIN buckets.of /\ map.of[key] = buckets.of[key]
  BY <1>2, <1>3
<1>6. \A key \in {ip, second} : key \in DOMAIN map.of => map.of[key] \in {Bucket(buckets, ip), Bucket(first, second)}
  BY <1>2, <1>3
<1>. QED
  BY <1>3, <1>4, <1>5, <1>6 DEF Got, first, map

\* The bucket that a request of the key is counted in begins after all that passed in
\* others, and its count is that of what passed in it at least.
LEMMA BucketHolds ==
  ASSUME clock \in Nat, MapOK(buckets), NEW key \in Keys, RateHolds(key)
  PROVE  LET b == Bucket(buckets, key)
         IN  /\ b \in [count : Nat, start : Nat] /\ InWindow(key, b) /\ b.start <= clock
             /\ \A p \in passed[key] : p.start = b.start \/ p.start + Window(key) <= b.start
             /\ Cardinality(InBucket(key, b.start)) <= b.count
<1>1. CASE Runs(buckets, key)
  BY <1>1 DEF Bucket, Runs, MapOK, RateHolds
<1>2. CASE ~Runs(buckets, key)
  <2>1. Bucket(buckets, key) = [count |-> 0, start |-> clock]
    BY <1>2 DEF Bucket
  <2>2. \A p \in passed[key] : p.start \in Nat /\ p.start + Window(key) <= clock
    BY <1>2 DEF RateHolds
  <2>3. Cardinality(InBucket(key, clock)) = 0
    <3>1. InBucket(key, clock) = {}
      BY <2>2, Policies DEF InBucket
    <3>. QED
      BY <3>1, FS_EmptySet
  <2>4. InWindow(key, [count |-> 0, start |-> clock])
    BY Policies DEF InWindow
  <2>. QED
    BY <2>1, <2>2, <2>3, <2>4
<1>. QED
  BY <1>1, <1>2

\* A request that passes is counted.
LEMMA PassHolds ==
  ASSUME clock \in Nat, MapOK(buckets), NEW key \in Keys, RateHolds(key),
         clock' = clock,
         Bucket(buckets, key).count < Limit(key),
         key \in DOMAIN buckets'.of,
         buckets'.of[key].start = Bucket(buckets, key).start,
         buckets'.of[key].count = Bucket(buckets, key).count + 1,
         passed'[key] = passed[key] \cup {Pass(key, Bucket(buckets, key).start)}
  PROVE  RateHolds(key)'
<1> DEFINE b == Bucket(buckets, key)
           pass == Pass(key, b.start)
<1>1. /\ b \in [count : Nat, start : Nat] /\ clock - b.start < Window(key) /\ b.start <= clock
      /\ \A p \in passed[key] : p.start = b.start \/ p.start + Window(key) <= b.start
      /\ Cardinality(InBucket(key, b.start)) <= b.count
  BY BucketHolds DEF InWindow
<1>2. /\ b.count < Limit(key) /\ key \in DOMAIN buckets'.of /\ buckets'.of[key].start = b.start
      /\ buckets'.of[key].count = b.count + 1 /\ passed'[key] = passed[key] \cup {pass}
  OBVIOUS
<1>3. /\ pass.at = clock /\ pass.start = b.start
      /\ pass \in [at : Nat, start : Nat, nth : Nat]
  <2>1. Cardinality({p \in passed[key] : p.at = clock}) \in Nat
    BY FS_Subset, FS_CardinalityType DEF RateHolds
  <2>. QED
    BY <1>1, <2>1 DEF Pass
<1>. HIDE DEF b, pass
<1>4. IsFiniteSet(passed'[key])
  BY <1>2, FS_AddElement DEF RateHolds
<1>5. \A p \in passed'[key] :
        /\ p \in [at : Nat, start : Nat, nth : Nat]
        /\ p.start <= p.at /\ p.at < p.start + Window(key) /\ p.at <= clock /\ clock - p.at < Window(key)
  BY <1>1, <1>2, <1>3, Policies DEF RateHolds
<1>6. \A p, q \in passed'[key] :
        p.start = q.start \/ p.start + Window(key) <= q.start \/ q.start + Window(key) <= p.start
  BY <1>1, <1>2, <1>3 DEF RateHolds
<1>7. ASSUME NEW start, start # b.start
      PROVE  {p \in passed'[key] : p.start = start} = InBucket(key, start)
  BY <1>2, <1>3, <1>7 DEF InBucket
<1>8. /\ {p \in passed'[key] : p.start = b.start} = InBucket(key, b.start) \cup {pass}
      /\ IsFiniteSet(InBucket(key, b.start)) /\ Cardinality(InBucket(key, b.start)) \in Nat
  BY <1>2, <1>3, FS_Subset, FS_CardinalityType DEF InBucket, RateHolds
<1>9. Cardinality({p \in passed'[key] : p.start = b.start}) <= b.count + 1
  <2>1. \/ Cardinality(InBucket(key, b.start) \cup {pass}) = Cardinality(InBucket(key, b.start))
        \/ Cardinality(InBucket(key, b.start) \cup {pass}) = Cardinality(InBucket(key, b.start)) + 1
    BY <1>8, FS_AddElement
  <2>2. \/ Cardinality({p \in passed'[key] : p.start = b.start}) = Cardinality(InBucket(key, b.start))
        \/ Cardinality({p \in passed'[key] : p.start = b.start}) = Cardinality(InBucket(key, b.start)) + 1
    BY <1>8, <2>1
  <2>3. b.count \in Nat /\ Cardinality(InBucket(key, b.start)) \in Nat
        /\ Cardinality(InBucket(key, b.start)) <= b.count
    BY <1>1, <1>8
  <2>. QED
    BY <2>2, <2>3
<1>10. \A start : Cardinality({p \in passed'[key] : p.start = start}) <= Limit(key)
  <2>. SUFFICES ASSUME NEW start PROVE Cardinality({p \in passed'[key] : p.start = start}) <= Limit(key)
    OBVIOUS
  <2>1. CASE start # b.start
    BY <1>7, <2>1 DEF RateHolds
  <2>2. CASE start = b.start
    <3>1. Cardinality({p \in passed'[key] : p.start = b.start}) \in Nat
      BY <1>4, FS_Subset, FS_CardinalityType
    <3>2. b.count + 1 <= Limit(key)
      BY <1>1, <1>2, Policies
    <3>. QED
      BY <1>1, <1>9, <2>2, <3>1, <3>2, Policies
  <2>. QED
    BY <2>1, <2>2
<1>11. Runs(buckets, key)'
  BY <1>1, <1>2 DEF Runs, InWindow, Window
<1>12. \A p \in passed'[key] : p.start = b.start \/ p.start + Window(key) <= b.start
  BY <1>1, <1>2, <1>3
<1>13. Window(key)' = Window(key) /\ Limit(key)' = Limit(key)
  BY DEF Window, Limit
<1>. QED
  BY <1>2, <1>4, <1>5, <1>6, <1>9, <1>10, <1>11, <1>12, <1>13 DEF RateHolds, InBucket

\* Without a request that passes, the bucket is what it was when that one would be used.
LEMMA NoPassHolds ==
  ASSUME clock \in Nat, MapOK(buckets), NEW key \in Keys, RateHolds(key),
         clock' = clock, passed'[key] = passed[key],
         \/ key \in DOMAIN buckets'.of /\ buckets'.of[key] = Bucket(buckets, key)
         \/ ~Runs(buckets, key) /\ ~Runs(buckets, key)'
  PROVE  RateHolds(key)'
<1> DEFINE b == Bucket(buckets, key)
<1>1. /\ b \in [count : Nat, start : Nat] /\ clock - b.start < Window(key) /\ b.start <= clock
      /\ \A p \in passed[key] : p.start = b.start \/ p.start + Window(key) <= b.start
      /\ Cardinality(InBucket(key, b.start)) <= b.count
  BY BucketHolds DEF InWindow
<1>2. Window(key)' = Window(key) /\ Limit(key)' = Limit(key)
      /\ \A start : InBucket(key, start)' = InBucket(key, start)
  BY DEF Window, Limit, InBucket
<1>3. CASE key \in DOMAIN buckets'.of /\ buckets'.of[key] = b
  <2>1. Runs(buckets, key)'
    BY <1>1, <1>2, <1>3 DEF Runs, InWindow
  <2>. HIDE DEF b
  <2>2. Cardinality(InBucket(key, buckets'.of[key].start)) <= buckets'.of[key].count
    BY <1>1, <1>3
  <2>3. Cardinality(InBucket(key, buckets.of[key].start))' <= buckets'.of[key].count
    BY <2>2 DEF InBucket
  <2>. QED
    BY <1>1, <1>2, <1>3, <2>1, <2>3 DEF RateHolds
<1>4. CASE ~Runs(buckets, key) /\ ~Runs(buckets, key)'
  BY <1>2, <1>4 DEF RateHolds
<1>. QED
  BY <1>3, <1>4

LEMMA ConsumeHolds ==
  ASSUME LimiterInvariant, NEW scope \in Scopes, NEW keys, NEW got, NEW map,
         \A key \in keys : key[1] = scope,
         Got(keys, got, map), Consume(scope, keys, got, map)
  PROVE  LimiterInvariant'
<1> DEFINE blocked == \E bucket \in got : bucket.count >= Limits[scope]
           counted == CountIn(map, keys)
           next == IF blocked THEN map ELSE Trim(counted)
<1>1. /\ clock \in Nat /\ evicted \in BOOLEAN /\ MapOK(buckets)
      /\ passed = [key \in Keys |-> passed[key]]
      /\ ~evicted => \A key \in Keys : RateHolds(key)
  BY DEF LimiterInvariant
<1>2. /\ MapOK(map) /\ keys \subseteq Keys
      /\ \A key \in DOMAIN map.of \ keys : key \in DOMAIN buckets.of /\ map.of[key] = buckets.of[key]
      /\ \A key \in keys : key \in DOMAIN map.of => map.of[key] \in got
      /\ ~Overfull(keys) => /\ Cardinality(DOMAIN map.of) <= MaxBuckets
                            /\ \A key \in Matter(keys) : Stays(key, map, map)
  BY DEF Got
<1>3. /\ buckets' = next /\ clock' = clock
      /\ evicted' = (evicted \/ (Overfull(keys) /\ \E key \in Matter(keys) : ~Stays(key, map, next)))
      /\ passed' = IF blocked \/ evicted' THEN passed
                   ELSE [key \in Keys |->
                           IF key \in keys
                           THEN passed[key] \cup {Pass(key, Bucket(buckets, key).start)}
                           ELSE passed[key]]
  BY DEF Consume
<1>4. /\ DOMAIN counted.of = DOMAIN map.of /\ counted.before = map.before
      /\ \A key \in DOMAIN map.of :
           counted.of[key] = IF key \in keys THEN [map.of[key] EXCEPT !.count = @ + 1] ELSE map.of[key]
  BY DEF CountIn
<1>. HIDE DEF counted
<1>5. \A key \in DOMAIN map.of :
        /\ map.of[key] \in [count : Nat, start : Nat]
        /\ counted.of[key] \in [count : Nat, start : Nat]
        /\ counted.of[key].start = map.of[key].start
        /\ key \in keys => counted.of[key].count = map.of[key].count + 1
  <2>. SUFFICES ASSUME NEW key \in DOMAIN map.of
       PROVE  /\ map.of[key] \in [count : Nat, start : Nat]
              /\ counted.of[key] \in [count : Nat, start : Nat]
              /\ counted.of[key].start = map.of[key].start
              /\ key \in keys => counted.of[key].count = map.of[key].count + 1
    OBVIOUS
  <2>1. map.of[key] \in [count : Nat, start : Nat]
    BY <1>2 DEF MapOK
  <2>2. CASE key \in keys
    <3>1. counted.of[key] = [map.of[key] EXCEPT !.count = map.of[key].count + 1]
      BY <1>4, <2>2
    <3>. QED
      BY <2>1, <3>1
  <2>3. CASE key \notin keys
    BY <1>4, <2>1, <2>3
  <2>. QED
    BY <2>2, <2>3
<1>6. MapOK(counted)
  BY <1>2, <1>4, <1>5 DEF MapOK
<1>7. /\ MapOK(Trim(counted)) /\ DOMAIN Trim(counted).of \subseteq DOMAIN counted.of
      /\ \A key \in DOMAIN Trim(counted).of : Trim(counted).of[key] = counted.of[key]
      /\ Cardinality(DOMAIN counted.of) <= MaxBuckets =>
           \A key : Runs(counted, key) => key \in DOMAIN Trim(counted).of
  BY <1>1, <1>6, TrimKeeps
<1>8. MapOK(next) /\ DOMAIN next.of \subseteq DOMAIN map.of
  BY <1>2, <1>4, <1>7
<1>9. \A key \in DOMAIN next.of : next.of[key] = IF blocked THEN map.of[key] ELSE counted.of[key]
  BY <1>7
<1>10. MapOK(buckets)'
  BY <1>3, <1>8 DEF MapOK
<1>11. evicted' \in BOOLEAN /\ passed' = [key \in Keys |-> passed'[key]]
  BY <1>1, <1>3
<1>12. ASSUME ~evicted', NEW key \in Matter(keys)
       PROVE  Stays(key, map, next)
  <2>1. CASE Overfull(keys)
    BY <1>3, <1>12, <2>1
  <2>2. CASE ~Overfull(keys)
    <3>1. Stays(key, map, map) /\ Cardinality(DOMAIN counted.of) <= MaxBuckets
      BY <1>2, <1>4, <1>12, <2>2
    <3>2. key \in Keys /\ RateHolds(key)
      BY <1>1, <1>2, <1>3, <1>12 DEF Matter, MapOK
    <3>3. InWindow(key, Bucket(buckets, key))
      BY <1>1, <3>2, BucketHolds
    <3>4. Runs(counted, key)
      BY <1>4, <1>5, <3>1, <3>3 DEF Stays, Runs, InWindow
    <3>. QED
      BY <1>7, <3>1, <3>4 DEF Stays
  <2>. QED
    BY <2>1, <2>2
<1>13. ASSUME ~evicted', NEW key \in Keys
       PROVE  RateHolds(key)'
  <2>1. RateHolds(key) /\ ~evicted
    BY <1>1, <1>3, <1>13
  <2>2. CASE key \in keys /\ ~blocked
    <3>1. Stays(key, map, next)
      BY <1>12, <1>13, <2>2 DEF Matter
    <3>2. /\ key \in DOMAIN map.of /\ key \in DOMAIN buckets'.of /\ map.of[key] = Bucket(buckets, key)
          /\ buckets'.of[key] = counted.of[key]
      BY <1>3, <1>8, <1>9, <2>2, <3>1 DEF Stays
    <3>3. map.of[key] \in got /\ Limit(key) = Limits[scope]
      BY <1>2, <2>2, <3>2 DEF Limit
    <3>4. map.of[key].count < Limit(key)
      BY <1>5, <2>2, <3>2, <3>3, Policies
    <3>5. passed'[key] = passed[key] \cup {Pass(key, Bucket(buckets, key).start)}
      BY <1>3, <1>13, <2>2
    <3>. HIDE DEF next, blocked
    <3>. QED
      BY <1>1, <1>3, <1>5, <2>1, <2>2, <3>2, <3>4, <3>5, PassHolds
  <2>3. CASE ~(key \in keys /\ ~blocked)
    <3>1. passed'[key] = passed[key]
      BY <1>1, <1>3, <2>3
    <3>2. CASE key \in Matter(keys)
      <4>1. Stays(key, map, next)
        BY <1>12, <1>13, <3>2
      <4>2. key \in DOMAIN buckets'.of /\ buckets'.of[key] = Bucket(buckets, key)
        BY <1>3, <1>4, <1>8, <1>9, <2>3, <4>1 DEF Stays
      <4>. QED
        BY <1>1, <1>3, <2>1, <3>1, <4>2, NoPassHolds
    <3>3. CASE key \notin Matter(keys)
      <4>1. key \notin keys /\ ~Runs(buckets, key)
        BY <3>3 DEF Matter, Runs
      <4>2. key \in DOMAIN next.of => key \in DOMAIN buckets.of /\ next.of[key] = buckets.of[key]
        BY <1>2, <1>4, <1>8, <1>9, <4>1
      <4>3. ~Runs(buckets, key)'
        BY <1>3, <4>1, <4>2 DEF Runs, InWindow, Window
      <4>. QED
        BY <1>1, <1>3, <2>1, <3>1, <4>1, <4>3, NoPassHolds
    <3>. QED
      BY <3>2, <3>3
  <2>. QED
    BY <2>2, <2>3
<1>. QED
  BY <1>1, <1>3, <1>10, <1>11, <1>13 DEF LimiterInvariant

LEMMA TimeHolds ==
  ASSUME LimiterInvariant, TimePasses
  PROVE  LimiterInvariant'
<1>1. /\ clock \in Nat /\ evicted \in BOOLEAN /\ MapOK(buckets)
      /\ ~evicted => \A key \in Keys : RateHolds(key)
  BY DEF LimiterInvariant
<1>2. /\ clock' = clock + 1 /\ buckets' = buckets /\ evicted' = evicted
      /\ passed' = [key \in Keys |-> {p \in passed[key] : clock' - p.at < Window(key)}]
  BY DEF TimePasses
<1>3. MapOK(buckets)'
  BY <1>1, <1>2 DEF MapOK
<1>4. passed' = [key \in Keys |-> passed'[key]]
  BY <1>2
<1>5. ASSUME ~evicted, NEW key \in Keys
      PROVE  RateHolds(key)'
  <2>1. RateHolds(key)
    BY <1>1, <1>5
  <2>2. passed'[key] = {p \in passed[key] : clock' - p.at < Window(key)}
    BY <1>2
  <2>3. Window(key)' = Window(key) /\ Limit(key)' = Limit(key)
    BY DEF Window, Limit
  <2>4. IsFiniteSet(passed'[key])
    BY <2>1, <2>2, FS_Subset DEF RateHolds
  <2>5. \A p \in passed'[key] :
          /\ p \in passed[key] /\ p \in [at : Nat, start : Nat, nth : Nat]
          /\ p.start <= p.at /\ p.at < p.start + Window(key) /\ p.at <= clock' /\ clock' - p.at < Window(key)
    BY <1>1, <1>2, <2>1, <2>2 DEF RateHolds
  <2>6. \A start : /\ Cardinality({p \in passed'[key] : p.start = start}) <= Cardinality(InBucket(key, start))
                   /\ Cardinality({p \in passed'[key] : p.start = start}) \in Nat
                   /\ Cardinality(InBucket(key, start)) \in Nat
    <3>. SUFFICES ASSUME NEW start
         PROVE  /\ Cardinality({p \in passed'[key] : p.start = start}) <= Cardinality(InBucket(key, start))
                /\ Cardinality({p \in passed'[key] : p.start = start}) \in Nat
                /\ Cardinality(InBucket(key, start)) \in Nat
      OBVIOUS
    <3>1. {p \in passed'[key] : p.start = start} \subseteq InBucket(key, start)
      BY <2>5 DEF InBucket
    <3>2. IsFiniteSet(InBucket(key, start))
      BY <2>1, FS_Subset DEF InBucket, RateHolds
    <3>. QED
      BY <3>1, <3>2, FS_Subset, FS_CardinalityType
  <2>7. \A start : Cardinality({p \in passed'[key] : p.start = start}) <= Limit(key)
    <3>1. \A start : Cardinality(InBucket(key, start)) <= Limit(key)
      BY <2>1 DEF RateHolds
    <3>. HIDE DEF InBucket
    <3>. QED
      BY <2>6, <3>1, Policies
  <2>8. CASE Runs(buckets, key)'
    <3>1. Runs(buckets, key) /\ buckets'.of[key] = buckets.of[key]
          /\ buckets.of[key] \in [count : Nat, start : Nat]
      BY <1>1, <1>2, <2>8, Policies DEF Runs, InWindow, MapOK, Window
    <3>2. /\ \A p \in passed'[key] : \/ p.start = buckets.of[key].start
                                      \/ p.start + Window(key) <= buckets.of[key].start
          /\ Cardinality(InBucket(key, buckets.of[key].start)) <= buckets.of[key].count
      BY <2>1, <2>5, <3>1 DEF RateHolds
    <3>3. Cardinality({p \in passed'[key] : p.start = buckets.of[key].start}) <= buckets.of[key].count
      BY <2>6, <3>1, <3>2
    <3>. QED
      BY <1>2, <2>1, <2>3, <2>4, <2>5, <2>7, <2>8, <3>1, <3>2, <3>3 DEF RateHolds, InBucket
  <2>9. CASE ~Runs(buckets, key)'
    <3>1. \A p \in passed'[key] : p.start + Window(key) <= clock'
      <4>1. CASE Runs(buckets, key)
        <5>1. /\ buckets.of[key].start \in Nat /\ clock' - buckets.of[key].start >= Window(key)
          BY <1>1, <1>2, <2>3, <2>9, <4>1, Policies DEF Runs, InWindow, MapOK
        <5>2. \A p \in passed'[key] : p.start \in Nat /\ (\/ p.start = buckets.of[key].start
                                      \/ p.start + Window(key) <= buckets.of[key].start)
          BY <2>1, <2>5, <4>1 DEF RateHolds
        <5>. QED
          BY <1>1, <1>2, <5>1, <5>2, Policies
      <4>2. CASE ~Runs(buckets, key)
        BY <1>1, <1>2, <2>1, <2>5, <4>2, Policies DEF RateHolds
      <4>. QED
        BY <4>1, <4>2
    <3>. QED
      BY <1>2, <2>1, <2>3, <2>4, <2>5, <2>7, <2>9, <3>1 DEF RateHolds, InBucket
  <2>. QED
    BY <2>8, <2>9
<1>. QED
  BY <1>1, <1>2, <1>3, <1>4, <1>5 DEF LimiterInvariant

LEMMA LimiterStep ==
  ASSUME LimiterInvariant, LimiterNext
  PROVE  LimiterInvariant'
<1>1. CASE Attempt
  <2>1. PICK scope \in Scopes, address \in Addresses :
          LET ip == <<scope, address>>
              first == GetBucket(buckets, ip)
          IN \/ Consume(scope, {ip}, {Bucket(buckets, ip)}, first)
             \/ \E email \in Emails :
                  LET second == <<scope, email>>
                  IN Consume(scope, {ip, second}, {Bucket(buckets, ip), Bucket(first, second)},
                             GetBucket(first, second))
    BY <1>1 DEF Attempt
  <2> DEFINE ip == <<scope, address>>
             first == GetBucket(buckets, ip)
  <2>2. ip \in Keys /\ ip[1] = scope
    BY DEF Keys
  <2>3. CASE Consume(scope, {ip}, {Bucket(buckets, ip)}, first)
    <3>1. Got({ip}, {Bucket(buckets, ip)}, first)
      BY <2>2, GetsOne
    <3>. HIDE DEF first, ip
    <3>. QED
      BY <2>2, <2>3, <3>1, ConsumeHolds
  <2>4. ASSUME NEW email \in Emails,
               Consume(scope, {ip, <<scope, email>>}, {Bucket(buckets, ip), Bucket(first, <<scope, email>>)},
                       GetBucket(first, <<scope, email>>))
        PROVE  LimiterInvariant'
    <3> DEFINE second == <<scope, email>>
               map == GetBucket(first, second)
               got == {Bucket(buckets, ip), Bucket(first, second)}
    <3>1. second \in Keys /\ second[1] = scope
      BY DEF Keys
    <3>2. Got({ip, second}, got, map)
      BY <2>2, <3>1, GetsTwo
    <3>3. Consume(scope, {ip, second}, got, map)
      BY <2>4
    <3>4. \A key \in {ip, second} : key[1] = scope
      BY <2>2, <3>1
    <3>. HIDE DEF map, got, second, ip
    <3>. QED
      BY <3>2, <3>3, <3>4, ConsumeHolds
  <2>. QED
    BY <2>1, <2>3, <2>4
<1>2. CASE TimePasses
  BY <1>2, TimeHolds
<1>. QED
  BY <1>1, <1>2 DEF LimiterNext

LEMMA LimiterStarts ==
  ASSUME InitLimiter
  PROVE  LimiterInvariant
<1>1. MapOK(buckets)
  BY FS_EmptySet DEF InitLimiter, MapOK
<1>2. \A key \in Keys : passed[key] = {}
  BY DEF InitLimiter
<1>3. ASSUME NEW key \in Keys PROVE RateHolds(key)
  <2>1. \A start : Cardinality(InBucket(key, start)) = 0
    <3>1. \A start : InBucket(key, start) = {}
      BY <1>2 DEF InBucket
    <3>. QED
      BY <3>1, FS_EmptySet
  <2>2. ~Runs(buckets, key)
    BY DEF InitLimiter, Runs
  <2>. QED
    BY <1>2, <2>1, <2>2, FS_EmptySet, Policies DEF RateHolds
<1>. QED
  BY <1>1, <1>3 DEF LimiterInvariant, InitLimiter

\* Of three buckets in one window's length, two would overlap: all that passed did so in two.
LEMMA TwiceTheLimit ==
  ASSUME clock \in Nat, NEW key \in Keys, RateHolds(key)
  PROVE  Cardinality(passed[key]) <= 2 * Limit(key)
<1>1. CASE passed[key] = {}
  BY <1>1, FS_EmptySet, Policies
<1>2. CASE passed[key] # {}
  <2>1. PICK a \in passed[key] : TRUE
    BY <1>2
  <2>2. PICK b \in passed[key] : \A c \in passed[key] : c.start = a.start \/ c.start = b.start
    <3>1. CASE \A c \in passed[key] : c.start = a.start
      BY <2>1, <3>1
    <3>2. ASSUME NEW b \in passed[key], b.start # a.start,
                 NEW c \in passed[key], c.start # a.start, c.start # b.start
          PROVE  FALSE
      <4>1. \A p \in {a, b, c} : /\ p.at \in Nat /\ p.start \in Nat /\ p.at < p.start + Window(key) /\ p.start <= p.at
                                 /\ p.at <= clock /\ clock - p.at < Window(key)
        BY <2>1, <3>2 DEF RateHolds
      <4>2. /\ a.start + Window(key) <= b.start \/ b.start + Window(key) <= a.start
            /\ a.start + Window(key) <= c.start \/ c.start + Window(key) <= a.start
            /\ b.start + Window(key) <= c.start \/ c.start + Window(key) <= b.start
        BY <2>1, <3>2 DEF RateHolds
      <4>. QED
        BY <4>1, <4>2, Policies
    <3>. QED
      BY <3>1, <3>2
  <2> DEFINE A == InBucket(key, a.start)
             B == InBucket(key, b.start)
  <2>3. passed[key] = A \cup B
    BY <2>2 DEF InBucket
  <2>4. IsFiniteSet(A) /\ IsFiniteSet(B)
    BY FS_Subset DEF InBucket, RateHolds
  <2>5. Cardinality(A) <= Limit(key) /\ Cardinality(B) <= Limit(key)
    BY DEF RateHolds
  <2>. HIDE DEF A, B
  <2>6. /\ Cardinality(A \cup B) = Cardinality(A) + Cardinality(B) - Cardinality(A \cap B)
        /\ IsFiniteSet(A \cap B)
    BY <2>4, FS_Union, FS_Intersection
  <2>7. Cardinality(A) \in Nat /\ Cardinality(B) \in Nat /\ Cardinality(A \cap B) \in Nat
    BY <2>4, <2>6, FS_CardinalityType
  <2>. QED
    BY <2>3, <2>5, <2>6, <2>7, Policies
<1>. QED
  BY <1>1, <1>2

LEMMA RateFollows ==
  ASSUME LimiterInvariant
  PROVE  RateIsBounded
BY TwiceTheLimit DEF LimiterInvariant, RateIsBounded

LEMMA LimiterStays ==
  ASSUME LimiterInvariant, UNCHANGED limiterVars
  PROVE  LimiterInvariant'
  BY DEF LimiterInvariant, limiterVars, MapOK, RateHolds, InBucket, Runs, InWindow, Window, Limit

\* Twice the limit of a key pass in any window's length at most, for any addresses,
\* emails, limits and windows, whatever a map of any size that is not full drops.
THEOREM RateIsKept == ApiSpec => []RateIsBounded
<1>1. InitApi => LimiterInvariant
  BY LimiterStarts DEF InitApi
<1>2. LimiterInvariant /\ [NextApi]_apiVars => LimiterInvariant'
  <2>1. [NextApi]_apiVars => LimiterNext \/ UNCHANGED limiterVars
    BY DEF NextApi, AnyRequests, OneBrowser, RateLimit, apiVars
  <2>. QED
    BY <2>1, LimiterStep, LimiterStays
<1>3. LimiterInvariant => RateIsBounded
  BY RateFollows
<1>. QED
  BY <1>1, <1>2, <1>3, PTL DEF ApiSpec
================================================================================
