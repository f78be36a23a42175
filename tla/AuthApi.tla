-------------------------------- MODULE AuthApi --------------------------------
(***************************************************************************)
(* The API of the sessions and what stands before it: any requests of the  *)
(* user's clients, the requests of one browser, or the rate limit of one   *)
(* process.  The guard decides on its own state and only its verdict goes  *)
(* on, which the other two take as any; so each is followed by itself.     *)
(***************************************************************************)
EXTENDS WebSession, RateLimiter

VARIABLE followed

apiVars == <<followed, vars, browserVars, limiterVars>>

InitApi == /\ followed \in {"requests", "browser", "limiter"}
           /\ Init /\ InitBrowser /\ InitLimiter

AnyRequests == followed = "requests" /\ Next /\ UNCHANGED <<followed, browserVars, limiterVars>>
OneBrowser == followed = "browser" /\ BrowserNext /\ UNCHANGED <<followed, limiterVars>>
RateLimit == followed = "limiter" /\ LimiterNext /\ UNCHANGED <<followed, vars, browserVars>>

NextApi == AnyRequests \/ OneBrowser \/ RateLimit

ApiSpec == InitApi /\ [][NextApi]_apiVars
================================================================================
