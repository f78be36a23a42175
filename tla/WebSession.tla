------------------------------ MODULE WebSession ------------------------------
(***************************************************************************)
(* A browser of the user beside AuthSession: the refresh cookie, which the *)
(* browser keeps and AuthController sets and clears, and the module        *)
(* authClient of the page that is open, which keeps the access token in    *)
(* memory and exchanges the cookie for one at most once in each page load. *)
(* A link inside the account pages leaves the module as it is, every other *)
(* one loads the page anew; the calls of the page before go on at the API. *)
(***************************************************************************)
EXTENDS AuthSession

CONSTANT MaxLoads    \* bound on page loads

ASSUME LoadsAssumption == MaxLoads \in Nat

VARIABLES cookie,    \* the cookie of the browser
          tab,       \* the module state of authClient, and the forms
          calls,     \* what each request was sent for
          awaited,   \* the requests the page that is open waits for
          left,      \* page loads so far
          lost       \* history: the answer to an exchange never reached the cookie

browserVars == <<cookie, tab, calls, awaited, left, lost>>

NoCookie == [session |-> NoToken, token |-> NoToken]
FormStatuses == {"idle", "loading", "error", "success"}
NewTab == [access |-> NoToken, refreshAttempted |-> FALSE, refreshing |-> FALSE,
           login |-> "idle", logout |-> "idle", change |-> "idle"]
NoCall == [by |-> "none", limited |-> FALSE]

InitBrowser == /\ cookie = NoCookie /\ tab = NewTab /\ left = 0
               /\ calls = [r \in Requests |-> NoCall] /\ awaited = {} /\ lost = FALSE

-------------------------------------------------------------------------------
(* Requests of the page. *)

\* The handler is not reached, or ends before it reads anything: the rate limit, a
\* body or password that is wrong, no cookie, no access token.
TurnedAway(r, outcome) ==
  /\ requests[r].pc = "idle"
  /\ Become(r, [idle EXCEPT !.pc = "answer", !.outcome = outcome])
  /\ UNCHANGED <<password, sessions, delivered, history>>

Send(r, by, limited, newTab) ==
  /\ calls' = [calls EXCEPT ![r] = [by |-> by, limited |-> limited]]
  /\ awaited' = awaited \cup {r}
  /\ tab' = newTab
  /\ UNCHANGED <<cookie, left, lost>>

\* A request that comes with the cookie: with none it is refused at once.
WithCookie(r, kind, pc, refusal) ==
  \/ cookie = NoCookie /\ TurnedAway(r, refusal)
  \/ cookie # NoCookie /\ Start(r, kind, cookie.session, cookie.token,
                                IsActive(cookie.session), pc, refusal)

\* Faulty variant: neither the exchange under way nor an earlier one counts.
RefreshDueWithoutToken == tab.access = NoToken

\* refreshAccessToken sends a request: no token, no promise, no attempt before.
RefreshDue == tab.access = NoToken /\ ~tab.refreshing /\ ~tab.refreshAttempted

\* useInitializeAuthSession of some component of the page.
RefreshAccessToken(r) ==
  /\ RefreshDue
  /\ \/ WithCookie(r, "refresh", "rotate", "refused") /\ Send(r, "refresh", FALSE,
            [tab EXCEPT !.refreshAttempted = TRUE, !.refreshing = TRUE])
     \/ TurnedAway(r, "refused") /\ Send(r, "refresh", TRUE,
            [tab EXCEPT !.refreshAttempted = TRUE, !.refreshing = TRUE])

\* The sign-in form; the password is right or wrong.
Login(r) ==
  /\ tab.login \notin {"loading", "success"}
  /\ StartLogin(r) \/ TurnedAway(r, "refused")
  /\ Send(r, "login", FALSE, [tab EXCEPT !.login = "loading"])

\* "Sign out", shown while there is a token.
SignOut(r) ==
  /\ tab.access # NoToken /\ tab.logout # "loading"
  /\ WithCookie(r, "logout", "revoke", "ok")
  /\ Send(r, "logout", FALSE, [tab EXCEPT !.logout = "loading"])

\* The password form, with the token if there is one; its password may be wrong.
SubmitChange(r) ==
  /\ tab.change \notin {"loading", "success"}
  /\ \/ /\ password < MaxChanges
        /\ \E d \in delivered :
             /\ d.token = tab.access
             /\ Start(r, "changePassword", d.session, d.token, IsActive(d.session), "change", "refused")
     \/ TurnedAway(r, "refused")
  /\ Send(r, "change", FALSE, [tab EXCEPT !.change = "loading"])

\* A link between the account pages: the components are new, the module is not.
FollowLink ==
  /\ {tab.login, tab.change} \cap {"error", "success"} # {}
  /\ tab' = [tab EXCEPT !.login = IF @ = "loading" THEN @ ELSE "idle",
                        !.change = IF @ = "loading" THEN @ ELSE "idle"]
  /\ UNCHANGED <<vars, cookie, calls, awaited, left, lost>>

\* Any other link, or a reload.
LoadPage ==
  /\ left < MaxLoads
  /\ left' = left + 1
  /\ tab' = NewTab
  /\ lost' = (lost \/ tab.refreshing)
  /\ awaited' = {}
  /\ UNCHANGED <<vars, cookie, calls>>

-------------------------------------------------------------------------------
(* Answers. *)

\* setRefreshCookie and clearRefreshCookie of AuthController; the guard of the rate
\* limit throws before refresh can clear the cookie.
CookieAfter(r, ok) ==
  CASE calls[r].by \in {"login", "refresh"} /\ ok -> [session |-> requests[r].session, token |-> r]
    [] calls[r].by = "refresh" /\ ~ok /\ ~calls[r].limited -> NoCookie
    [] calls[r].by \in {"logout", "change"} /\ ok -> NoCookie
    [] OTHER -> cookie

\* postAuth, postLogout, patchPassword and the end of refreshAccessToken: setAccessToken
\* and clearAccessToken, and what the form shows.
TabAfter(r, ok) ==
  CASE calls[r].by = "refresh" -> [tab EXCEPT !.refreshing = FALSE, !.access = IF ok THEN r ELSE @]
    [] calls[r].by = "login" -> [tab EXCEPT !.login = IF ok THEN "success" ELSE "error",
                                            !.access = IF ok THEN r ELSE @,
                                            !.refreshAttempted = @ \/ ok]
    [] calls[r].by = "logout" -> [tab EXCEPT !.logout = IF ok THEN "idle" ELSE "error",
                                             !.access = IF ok THEN NoToken ELSE @]
    [] OTHER -> [tab EXCEPT !.change = IF ok THEN "success" ELSE "error",
                            !.access = IF ok THEN NoToken ELSE @]

\* The page sees the answer, or that its request failed; or it is another page.
Reaches(r, ok) == /\ tab' = IF r \in awaited THEN TabAfter(r, ok) ELSE tab
                  /\ awaited' = awaited \ {r}
                  /\ UNCHANGED <<calls, left>>

\* The whole answer, or the headers alone: the cookie counts and the body does not.
AnswerArrives(r) ==
  LET ok == requests[r].outcome = "ok"
  IN /\ Answer(r)
     /\ cookie' = CookieAfter(r, ok)
     /\ Reaches(r, ok) \/ Reaches(r, FALSE)
     /\ UNCHANGED lost

\* A database call fails and is answered, which logout hides; or the answer is lost.
RequestFails(r) ==
  LET hidden == requests[r].kind = "logout"
  IN /\ Fail(r)
     /\ \/ /\ requests[r].pc # "answer"
           /\ cookie' = CookieAfter(r, hidden)
           /\ Reaches(r, hidden)
           /\ UNCHANGED lost
        \/ /\ Reaches(r, FALSE)
           /\ lost' = (lost \/ requests[r].kind = "refresh")
           /\ UNCHANGED cookie

HandlerStep(r) == \/ CreateSession(r) \/ Rotate(r) \/ RereadAfterRotation(r) \/ RevokeReuse(r)
                  \/ Logout(r) \/ ChangePassword(r)

BrowserNext ==
  \/ FollowLink \/ LoadPage
  \/ \E r \in Requests : \/ RefreshAccessToken(r) \/ Login(r) \/ SignOut(r) \/ SubmitChange(r)
                         \/ AnswerArrives(r) \/ RequestFails(r)
                         \/ HandlerStep(r) /\ UNCHANGED browserVars

-------------------------------------------------------------------------------

\* The single flight of the client keeps its own refreshes from being taken for the
\* reuse of a token, which ends the session: many components ask for a token at
\* once, answers come in any order with those of sign-ins and sign-outs, and yet a
\* cookie that was exchanged is sent again only after the answer to an exchange
\* was lost, or its page was left.
RefreshIsNotReuse ==
  ~lost => \A r \in Requests : calls[r].by = "refresh" => requests[r].pc # "revokeReuse"
===============================================================================
