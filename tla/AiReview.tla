-------------------------------- MODULE AiReview --------------------------------
(***************************************************************************)
(* AiReviewService.review around LunaOpenAiProvider.review: a loop that    *)
(* asks once more when the answer fails validation, around a loop that     *)
(* retries failed HTTP exchanges, around one exchange with a deadline and  *)
(* the caller's abort signal.                                              *)
(*                                                                         *)
(* An answer is what it is worth to the code: a result that passes         *)
(* parseReviewResult, one that does not, or a body that cannot be used.    *)
(* Prompts, usage figures and the content of results are left out.         *)
(***************************************************************************)
EXTENDS Integers

CONSTANTS Callers,             \* calls of AiReviewService.review
          MaxResultRetries,    \* AI_MAX_RESULT_RETRIES
          MaxProviderRetries   \* AI_MAX_PROVIDER_RETRIES

ASSUME RetriesAssumption == MaxResultRetries \in Nat /\ MaxProviderRetries \in Nat

VARIABLES asks,        \* [Callers -> Asks]: the two loops of each call
          configured   \* the provider has an API key

Failures == {"AUTHENTICATION", "BAD_REQUEST", "CANCELLED", "CONFIGURATION",
             "INCOMPLETE_RESPONSE", "MALFORMED_RESPONSE", "PROVIDER_REFUSAL",
             "RATE_LIMITED", "TIMEOUT", "UNAVAILABLE"}
Outcomes == Failures \union {"NONE", "ANSWER", "INVALID_RESULT"}

Error(code, retryable) == [code |-> code, retryable |-> retryable]

Asks == [phase    : {"idle", "exchange", "sleep", "done"},
         repair   : 0..MaxResultRetries,     \* attempt of the service
         attempt  : 0..MaxProviderRetries,   \* attempt of the provider
         timedOut : BOOLEAN,                 \* the deadline of the exchange fired
         aborted  : BOOLEAN,                 \* the caller's signal
         calls    : Nat,                     \* history: exchanges started
         outcome  : Outcomes]

NoAsk == [phase |-> "idle", repair |-> 0, attempt |-> 0, timedOut |-> FALSE,
          aborted |-> FALSE, calls |-> 0, outcome |-> "NONE"]

--------------------------------------------------------------------------------
(* What the provider makes of the other side's response.                   *)

\* errorForHttpStatus.
HttpError(status) ==
  CASE status \in {401, 403}                   -> Error("AUTHENTICATION", FALSE)
    [] status = 408                            -> Error("TIMEOUT", TRUE)
    [] status = 429                            -> Error("RATE_LIMITED", TRUE)
    [] status \in {409, 425} \/ status >= 500  -> Error("UNAVAILABLE", TRUE)
    [] OTHER                                   -> Error("BAD_REQUEST", FALSE)

\* readBoundedResponseBody: a body that is too large or breaks off is final.
BodyReadError == Error("MALFORMED_RESPONSE", FALSE)

\* parseJsonBody, extractStructuredOutput and parseOutputText.
BodyError(body) ==
  CASE body \in {"tooLarge", "brokenOff"} -> BodyReadError
    [] body = "incomplete"                -> Error("INCOMPLETE_RESPONSE", TRUE)
    [] body = "refusal"                   -> Error("PROVIDER_REFUSAL", FALSE)
    [] body \in {"notJson", "noOutput"}   -> Error("MALFORMED_RESPONSE", TRUE)

Usable == {"valid", "invalid"}
Bodies == Usable \union {"tooLarge", "brokenOff", "incomplete", "refusal", "notJson", "noOutput"}
Statuses == {200, 400, 401, 408, 409, 429, 500}

\* How an exchange can end on the wire: fetch rejects, or there is a response.
FetchRejects == [status |-> 0, body |-> "none"]
Responses == {FetchRejects}
               \union [status : Statuses \ {200}, body : {"none"}]
               \union [status : {200}, body : Bodies]

ExchangeError(response) ==
  CASE response = FetchRejects  -> Error("UNAVAILABLE", TRUE)
    [] response.status = 200    -> BodyError(response.body)
    [] OTHER                    -> HttpError(response.status)

\* Faulty variant: what the aborted body read reported hides the deadline.
CaughtNoDeadline(a, response) ==
  IF a.aborted THEN Error("CANCELLED", FALSE) ELSE ExchangeError(response)

\* The catch block of requestOnce: the deadline goes before the caller's abort.
Caught(a, response) ==
  CASE a.timedOut -> Error("TIMEOUT", TRUE)
    [] ~a.timedOut /\ a.aborted -> Error("CANCELLED", FALSE)
    [] OTHER -> ExchangeError(response)

--------------------------------------------------------------------------------
(* The loops, as functions on the state of a call.                         *)

End(a, outcome) == [a EXCEPT !.phase = "done", !.outcome = outcome]

\* requestOnce up to the fetch.
StartExchange(a) ==
  IF a.aborted
  THEN End(a, "CANCELLED")
  ELSE [a EXCEPT !.phase = "exchange", !.timedOut = FALSE, !.calls = @ + 1]

\* One round of the service's loop: it asks the provider.
StartRound(a, repair) ==
  CASE a.aborted      -> End(a, "CANCELLED")
    [] ~a.aborted /\ ~configured -> End(a, "CONFIGURATION")
    [] OTHER          -> StartExchange([a EXCEPT !.repair = repair, !.attempt = 0])

\* The catch block of the provider's loop.
AfterError(a, e) ==
  CASE ~e.retryable \/ a.attempt = MaxProviderRetries -> End(a, e.code)
    [] e.retryable /\ a.attempt < MaxProviderRetries /\ a.aborted -> End(a, "CANCELLED")
    [] OTHER -> [a EXCEPT !.phase = "sleep"]

\* Faulty variant: the service takes a result although it was cancelled.
AfterAnswerAnyway(a, body) ==
  CASE body = "valid"                -> End(a, "ANSWER")
    [] body = "invalid" /\ a.repair = MaxResultRetries -> End(a, "INVALID_RESULT")
    [] OTHER                         -> StartRound(a, a.repair + 1)

\* The service after the provider has answered.
AfterAnswer(a, body) ==
  CASE a.aborted                                     -> End(a, "CANCELLED")
    [] ~a.aborted /\ body = "valid"                  -> End(a, "ANSWER")
    [] ~a.aborted /\ body = "invalid" /\ a.repair = MaxResultRetries
                                                     -> End(a, "INVALID_RESULT")
    [] OTHER                                         -> StartRound(a, a.repair + 1)

--------------------------------------------------------------------------------
(* Steps of the call c.  A module that composes them says who may call.    *)

InitAsks == /\ asks = [c \in Callers |-> NoAsk]
            /\ configured \in BOOLEAN

Become(c, a) == asks' = [asks EXCEPT ![c] = a]

\* AiReviewService.review is called.
Ask(c) ==
  /\ asks[c].phase = "idle"
  /\ Become(c, StartRound(asks[c], 0))

\* The exchange ends.  It may still deliver a response after it was aborted.
Responds(c, response) ==
  /\ asks[c].phase = "exchange"
  /\ IF response.status = 200 /\ response.body \in Usable
     THEN Become(c, AfterAnswer(asks[c], response.body))
     ELSE Become(c, AfterError(asks[c], Caught(asks[c], response)))

\* The timeout of the exchange aborts it.
Deadline(c) ==
  /\ asks[c].phase = "exchange"
  /\ ~asks[c].timedOut
  /\ Become(c, [asks[c] EXCEPT !.timedOut = TRUE])

\* sleepWithCancellation resolves: the next attempt.
Wakes(c) ==
  /\ asks[c].phase = "sleep"
  /\ Become(c, StartExchange([asks[c] EXCEPT !.attempt = @ + 1]))

\* The caller aborts its signal; a pause rejects at once.
Abort(c) ==
  /\ asks[c].phase # "done"
  /\ ~asks[c].aborted
  /\ LET a == [asks[c] EXCEPT !.aborted = TRUE]
     IN Become(c, IF a.phase = "sleep" THEN End(a, "CANCELLED") ELSE a)

\* What an aborted exchange does if nothing else happens: fetch rejects.
Gives(c) == (asks[c].timedOut \/ asks[c].aborted) /\ Responds(c, FetchRejects)

AskStep(c) ==
  \/ \E response \in Responses : Responds(c, response)
  \/ Deadline(c)
  \/ Wakes(c)

AskFairness(c) == WF_asks(Deadline(c)) /\ WF_asks(Gives(c)) /\ WF_asks(Wakes(c))

--------------------------------------------------------------------------------
(* Properties of a call, whoever makes it.                                 *)

TypeOfAsks == /\ asks \in [Callers -> Asks]
              /\ configured \in BOOLEAN

\* The two loops multiply: a call asks Luna at most (repairs + 1) times
\* (retries + 1) times, whatever answers, deadlines and aborts come (the loop
\* bounds in AiReviewService.review and LunaOpenAiProvider.review).
CallsBounded ==
  \A c \in Callers : asks[c].calls <= (MaxResultRetries + 1) * (MaxProviderRetries + 1)

\* A call that was aborted before it ended reports the abort, whatever the
\* exchange still delivered: no answer, and no other error.  The one exception is
\* a deadline that fired as well, in the last attempt (the checks of
\* signal.aborted in both loops, and their order in requestOnce).
AbortIsReported ==
  \A c \in Callers :
    asks[c].aborted => \/ asks[c].outcome \in {"NONE", "CANCELLED"}
                       \/ asks[c].outcome = "TIMEOUT" /\ asks[c].attempt = MaxProviderRetries

\* A timeout, rate limit, incomplete answer or outage reaches the caller only
\* after every attempt was made: what the abort of the deadline does to fetch
\* and to the body read is never taken for a final error.
RetriedBeforeGivingUp ==
  \A c \in Callers :
    /\ asks[c].outcome \in {"TIMEOUT", "RATE_LIMITED", "INCOMPLETE_RESPONSE", "UNAVAILABLE"}
         => asks[c].attempt = MaxProviderRetries
    /\ asks[c].timedOut /\ asks[c].phase = "done"
         => asks[c].outcome \in {"TIMEOUT", "CANCELLED", "ANSWER", "INVALID_RESULT"}
================================================================================
