------------------------------- MODULE GuestReview -------------------------------
(***************************************************************************)
(* GuestReviewService.review: a guest's unit of quota is taken by one      *)
(* script in Redis, over the shared client, and then Luna is asked.        *)
(* Beside the guests, runs of ReviewProcessingService ask Luna with an     *)
(* abort signal.  All guests have the same identity.                       *)
(***************************************************************************)
EXTENDS Integers, FiniteSets, AiReview

CONSTANTS Guests,    \* the callers that are guests
          Visits,    \* the sets of callers that may come together
          Limit,     \* guestQuickLimit
          LastDay    \* bound on midnights

ASSUME GuestsAssumption == /\ Guests \subseteq Callers /\ Visits \subseteq SUBSET Callers
                           /\ IsFiniteSet(Guests) /\ Limit \in Nat /\ LastDay \in Nat

VARIABLES socket, connecting, commands,   \* the Redis client
          secret,    \* GUEST_IDENTITY_SECRET is usable
          guest,     \* [Guests -> GuestStates]
          used,      \* the counter in Redis of each day, 0 if it is absent
          today,
          present    \* the callers of this behaviour

vars == <<asks, configured, socket, connecting, commands, secret, guest, used, today, present>>
setup == <<configured, secret, present>>
redisVars == <<socket, connecting, commands>>

Redis == INSTANCE RedisClient WITH Callers <- Guests

Days == 0..LastDay
Replies == {"none", "200", "409", "429", "429 Retry-After", "502", "503", "504"}
GuestStates == [at    : {"new", "reserving", "asking", "answered"},
                day   : Days,                                \* utcDay of the request
                grant : {"none", "onTime", "late", "refused"}, \* what the script said, and when
                reply : Replies]

\* deriveGuestIdentity and utcDayFor.
NewGuest == [at |-> "new", day |-> 0, grant |-> "none", reply |-> "none"]

\* resolveGuestIdentityConfig.
Init == /\ InitAsks
        /\ Redis!InitClient
        /\ secret \in BOOLEAN
        /\ guest = [g \in Guests |-> NewGuest]
        /\ used = [d \in Days |-> 0]
        /\ today = 0
        /\ present \in Visits

Granted(g) == guest[g].grant \in {"onTime", "late"}

\* mapGuestReviewError for what the AI service threw.
StatusOf(outcome) ==
  CASE outcome = "ANSWER"                           -> "200"
    [] outcome = "RATE_LIMITED"                     -> "429"
    [] outcome = "TIMEOUT"                          -> "504"
    [] outcome \in {"UNAVAILABLE", "CONFIGURATION"} -> "503"
    [] outcome = "CANCELLED"                        -> "409"
    [] OTHER                                        -> "502"

Reply(g, reply) == guest' = [guest EXCEPT ![g].at = "answered", ![g].reply = reply]

\* The request arrives: the identity, the day, the script is sent.
Reserve(g) ==
  /\ g \in present
  /\ guest[g].at = "new"
  /\ IF secret
     THEN /\ guest' = [guest EXCEPT ![g].at = "reserving", ![g].day = today]
          /\ Redis!Eval(g)
     ELSE /\ Reply(g, "503")
          /\ UNCHANGED redisVars
  /\ UNCHANGED <<asks, setup, used, today>>

\* Faulty variant: the script compares after counting.
AllowsOneMore(d) == used[d] <= Limit

\* RESERVE_QUOTA_SCRIPT: the comparison with the limit.
Allows(d) == used[d] < Limit

\* RESERVE_QUOTA_SCRIPT runs, possibly after its caller gave up or after midnight.
ReserveScript(g) ==
  LET d == guest[g].day
  IN /\ Redis!Executes(g)
     /\ IF Allows(d)
        THEN /\ used' = [used EXCEPT ![d] = @ + 1]
             /\ guest' = [guest EXCEPT ![g].grant = IF d = today THEN "onTime" ELSE "late"]
        ELSE /\ guest' = [guest EXCEPT ![g].grant = "refused"]
             /\ UNCHANGED used
     /\ UNCHANGED <<asks, setup, today>>

\* reserveQuota throws.
ReserveFailed(g) ==
  /\ guest[g].at = "reserving"
  /\ Redis!Unavailable(g)
  /\ Reply(g, "503")
  /\ UNCHANGED <<asks, setup, redisVars, used, today>>

\* reserveQuota returns: refused, or Luna is asked.
Reserved(g) ==
  /\ guest[g].at = "reserving"
  /\ commands[g] = "replied"
  /\ IF guest[g].grant = "refused"
     THEN Reply(g, "429 Retry-After") /\ UNCHANGED asks
     ELSE guest' = [guest EXCEPT ![g].at = "asking"] /\ Ask(g)
  /\ UNCHANGED <<setup, redisVars, used, today>>

\* The controller answers with the review or with the error it is mapped to.
Respond(g) ==
  /\ guest[g].at = "asking"
  /\ asks[g].phase = "done"
  /\ Reply(g, StatusOf(asks[g].outcome))
  /\ UNCHANGED <<asks, setup, redisVars, used, today>>

\* The loops of the AI service; only processing runs have a signal.
Luna ==
  /\ \/ \E c \in Callers : AskStep(c)
     \/ \E c \in present \ Guests : Ask(c) \/ Abort(c)
  /\ UNCHANGED <<setup, redisVars, guest, used, today>>

\* The connection and the replies of Redis.
RedisStep ==
  /\ \/ Redis!Connection
     \/ \E g \in Guests : Redis!Replies(g) \/ Redis!CommandDeadline(g)
  /\ UNCHANGED <<asks, setup, guest, used, today>>

\* getUtcDayTtlSeconds: the key of a day lasts until its midnight or a little longer.
CounterExpires(d) ==
  /\ d < today /\ used[d] > 0
  /\ used' = [used EXCEPT ![d] = 0]
  /\ UNCHANGED <<asks, setup, redisVars, guest, today>>

Midnight ==
  /\ today < LastDay
  /\ today' = today + 1
  /\ UNCHANGED <<asks, setup, redisVars, guest, used>>

Next ==
  \/ \E g \in Guests : \/ Reserve(g) \/ ReserveScript(g) \/ ReserveFailed(g)
                       \/ Reserved(g) \/ Respond(g)
  \/ Luna
  \/ RedisStep
  \/ \E d \in Days : CounterExpires(d)
  \/ Midnight

Spec == Init /\ [][Next]_vars

\* Every await of a request has a deadline; Redis and Luna need do nothing.
FairSpec ==
  /\ Spec
  /\ \A c \in Callers : AskFairness(c)
  /\ \A g \in Guests : /\ WF_vars(Reserve(g)) /\ WF_vars(ReserveFailed(g))
                       /\ WF_vars(Reserved(g)) /\ WF_vars(Respond(g))
                       /\ WF_vars(RedisStep /\ Redis!CommandDeadline(g))
  /\ WF_vars(RedisStep /\ Redis!ConnectDeadline)

--------------------------------------------------------------------------------
TypeOK ==
  /\ TypeOfAsks
  /\ Redis!TypeOfClient
  /\ secret \in BOOLEAN
  /\ guest \in [Guests -> GuestStates]
  /\ used \in [Days -> Nat]
  /\ today \in Days
  /\ present \in Visits

\* Of the requests that took their unit before midnight of their day, no more
\* than the limit were granted, whichever replies were lost and whichever scripts
\* ran after their caller had given up (RESERVE_QUOTA_SCRIPT is one transaction).
GuestsWithinLimit ==
  \A d \in Days :
    Cardinality({g \in Guests : guest[g].day = d /\ guest[g].grant = "onTime"}) <= Limit

\* Luna is asked for a guest only after a unit was taken for this very request;
\* a request that is told to come back later took none.  The converse does not
\* hold: a lost reply, or Luna failing, costs the guest a unit.
NoAskWithoutUnit ==
  \A g \in Guests :
    /\ asks[g].calls > 0 => Granted(g)
    /\ guest[g].reply = "429 Retry-After" => guest[g].grant = "refused"
    /\ guest[g].reply = "200" => Granted(g) /\ asks[g].outcome = "ANSWER"

\* Every guest is answered, though Redis may hang, reconnect or drop replies and
\* Luna may never answer: the deadlines of the connection, of the command and of
\* each exchange see to it.
EveryGuestAnswered == \A g \in Guests : guest[g].at = "reserving" ~> guest[g].at = "answered"
================================================================================
