--------------------------- MODULE GuestReview_proofs ---------------------------
(***************************************************************************)
(* The calls of the AI service and the quota of the guests, for any number *)
(* of callers, retries, days and any limit.                                *)
(***************************************************************************)
EXTENDS GuestReview, FiniteSetTheorems, TLAPS

\* Exchanges that the rounds before this one may have made.
Rounds(repair) == repair * (MaxProviderRetries + 1)

\* What a call has done so far fits the counters of its two loops.
Counted(a) ==
  /\ a \in Asks
  /\ a.phase = "idle" => a.calls = 0 /\ a.repair = 0 /\ a.attempt = 0 /\ ~a.timedOut
  /\ a.phase # "idle" => a.calls <= Rounds(a.repair) + a.attempt + 1
  /\ a.phase = "sleep" => a.attempt < MaxProviderRetries
  /\ a.phase \in {"exchange", "sleep"} => configured

\* What a call reports fits how it ended.
Reported(a) ==
  /\ a.phase # "done" => a.outcome = "NONE"
  /\ a.aborted => \/ a.outcome \in {"NONE", "CANCELLED"}
                  \/ a.outcome = "TIMEOUT" /\ a.attempt = MaxProviderRetries
  /\ a.outcome \in {"TIMEOUT", "RATE_LIMITED", "INCOMPLETE_RESPONSE", "UNAVAILABLE"}
       => a.attempt = MaxProviderRetries
  /\ a.timedOut /\ a.phase = "done"
       => a.outcome \in {"TIMEOUT", "CANCELLED", "ANSWER", "INVALID_RESULT"}

CallInvariant(a) == Counted(a) /\ Reported(a)

AsksInvariant == /\ configured \in BOOLEAN
                 /\ asks \in [Callers -> Asks]
                 /\ \A c \in Callers : CallInvariant(asks[c])

\* The multiplication, for provers that only add.
LEMMA RoundsGrow ==
  /\ Rounds(0) = 0
  /\ \A repair \in Nat : /\ Rounds(repair) \in Nat
                         /\ Rounds(repair + 1) = Rounds(repair) + MaxProviderRetries + 1
  /\ \A repair \in 0..MaxResultRetries : Rounds(repair) <= Rounds(MaxResultRetries)
  <1>1. MaxProviderRetries \in Nat /\ MaxResultRetries \in Nat
    BY RetriesAssumption
  <1>2. \A k \in Nat : \A repair \in Nat : repair * k \in Nat /\ (repair + 1) * k = repair * k + k
    BY SMT
  <1>3. \A k \in Nat : \A m \in Nat : \A repair \in 0..m : repair * k <= m * k
    BY SMT
  <1> QED
    BY <1>1, <1>2, <1>3 DEF Rounds

-------------------------------------------------------------------------------
(* One call. *)

Shared(a, b) == b.repair = a.repair /\ b.attempt = a.attempt /\ b.aborted = a.aborted

\* What the updates of a call leave alone.
LEMMA EndFields ==
  ASSUME NEW a \in Asks, NEW outcome \in Outcomes
  PROVE  LET b == End(a, outcome)
         IN /\ b \in Asks /\ Shared(a, b)
            /\ b.phase = "done" /\ b.outcome = outcome
            /\ b.calls = a.calls /\ b.timedOut = a.timedOut
  BY DEF End, Asks, Shared

\* The start of an exchange counts one call and clears the deadline.
LEMMA ExchangeFields ==
  ASSUME NEW a \in Asks
  PROVE  LET b == [a EXCEPT !.phase = "exchange", !.timedOut = FALSE, !.calls = @ + 1]
         IN /\ b \in Asks /\ Shared(a, b)
            /\ b.phase = "exchange" /\ b.outcome = a.outcome
            /\ b.calls = a.calls + 1 /\ b.timedOut = FALSE
  <1>1. a.calls \in Nat
    BY DEF Asks
  <1>2. a.calls + 1 \in Nat
    BY <1>1
  <1> QED
    BY <1>2 DEF Asks, Shared

\* A pause before the next attempt changes the phase alone.
LEMMA SleepFields ==
  ASSUME NEW a \in Asks
  PROVE  LET b == [a EXCEPT !.phase = "sleep"]
         IN /\ b \in Asks /\ Shared(a, b)
            /\ b.phase = "sleep" /\ b.outcome = a.outcome
            /\ b.calls = a.calls /\ b.timedOut = a.timedOut
  BY DEF Asks, Shared

\* A new round of the service counts its attempts from zero.
LEMMA RoundFields ==
  ASSUME NEW a \in Asks, NEW repair \in 0..MaxResultRetries
  PROVE  LET b == [a EXCEPT !.repair = repair, !.attempt = 0]
         IN /\ b \in Asks /\ b.repair = repair /\ b.attempt = 0
            /\ b.aborted = a.aborted /\ b.phase = a.phase /\ b.outcome = a.outcome
            /\ b.calls = a.calls /\ b.timedOut = a.timedOut
  <1>1. 0 \in 0..MaxProviderRetries
    BY RetriesAssumption
  <1> QED
    BY <1>1 DEF Asks

\* The counters of a call are numbers within their bounds.
LEMMA CountsAreNumbers ==
  ASSUME NEW a \in Asks
  PROVE  /\ a.calls \in Nat /\ a.repair \in 0..MaxResultRetries
         /\ a.attempt \in 0..MaxProviderRetries
         /\ Rounds(a.repair) \in Nat
  <1>1. a.calls \in Nat /\ a.repair \in 0..MaxResultRetries /\ a.attempt \in 0..MaxProviderRetries
    BY DEF Asks
  <1> QED
    BY <1>1, RoundsGrow, RetriesAssumption

\* A call ends with an outcome that fits it.
LEMMA EndKeeps ==
  ASSUME NEW a \in Asks, a.calls <= Rounds(a.repair) + a.attempt + 1,
         NEW outcome \in Outcomes,
         a.aborted => \/ outcome = "CANCELLED"
                      \/ outcome = "TIMEOUT" /\ a.attempt = MaxProviderRetries,
         outcome \in {"TIMEOUT", "RATE_LIMITED", "INCOMPLETE_RESPONSE", "UNAVAILABLE"}
           => a.attempt = MaxProviderRetries,
         a.timedOut => outcome \in {"TIMEOUT", "CANCELLED", "ANSWER", "INVALID_RESULT"}
  PROVE  CallInvariant(End(a, outcome))
  <1> DEFINE b == End(a, outcome)
  <1>1. /\ b \in Asks /\ Shared(a, b) /\ b.phase = "done" /\ b.outcome = outcome
        /\ b.calls = a.calls /\ b.timedOut = a.timedOut
    BY EndFields
  <1> HIDE DEF b
  <1>2. Counted(b)
    BY <1>1 DEF Counted, Shared
  <1>3. Reported(b)
    BY <1>1 DEF Reported, Shared
  <1> QED
    BY <1>2, <1>3 DEF CallInvariant, b

\* The first exchange of a round, or the next one after a pause.
LEMMA StartExchangeKeeps ==
  ASSUME NEW a \in Asks, a.calls <= Rounds(a.repair) + a.attempt, configured,
         a.outcome = "NONE"
  PROVE  CallInvariant(StartExchange(a))
  <1>0. a.calls <= Rounds(a.repair) + a.attempt + 1 /\ a.calls + 1 <= Rounds(a.repair) + a.attempt + 1
    BY CountsAreNumbers
  <1>1. CASE a.aborted
    <2>1. StartExchange(a) = End(a, "CANCELLED")
      BY <1>1 DEF StartExchange
    <2>2. "CANCELLED" \in Outcomes
      BY DEF Outcomes, Failures
    <2> QED
      BY <1>0, <2>1, <2>2, EndKeeps
  <1>2. CASE ~a.aborted
    <2> DEFINE b == [a EXCEPT !.phase = "exchange", !.timedOut = FALSE, !.calls = @ + 1]
    <2>1. /\ b \in Asks /\ Shared(a, b) /\ b.phase = "exchange" /\ b.outcome = a.outcome
          /\ b.calls = a.calls + 1 /\ b.timedOut = FALSE
      BY ExchangeFields
    <2>2. StartExchange(a) = b
      BY <1>2 DEF StartExchange
    <2> HIDE DEF b
    <2>3. Counted(b)
      BY <1>0, <2>1 DEF Counted, Shared
    <2>4. Reported(b)
      BY <1>2, <2>1 DEF Reported, Shared
    <2> QED
      BY <2>2, <2>3, <2>4 DEF CallInvariant
  <1> QED
    BY <1>1, <1>2

\* A round of AiReviewService.review begins, or ends the call.
LEMMA StartRoundKeeps ==
  ASSUME NEW a \in Asks, NEW repair \in 0..MaxResultRetries, a.outcome = "NONE", ~a.timedOut \/ configured,
         a.calls <= Rounds(repair), a.calls <= Rounds(a.repair) + a.attempt + 1
  PROVE  CallInvariant(StartRound(a, repair))
  <1>1. CASE a.aborted
    <2>1. StartRound(a, repair) = End(a, "CANCELLED")
      BY <1>1 DEF StartRound
    <2>2. "CANCELLED" \in Outcomes
      BY DEF Outcomes, Failures
    <2> QED
      BY <2>1, <2>2, EndKeeps
  <1>2. CASE ~a.aborted /\ ~configured
    <2>1. StartRound(a, repair) = End(a, "CONFIGURATION")
      BY <1>2 DEF StartRound
    <2>2. "CONFIGURATION" \in Outcomes
      BY DEF Outcomes, Failures
    <2> QED
      BY <1>2, <2>1, <2>2, EndKeeps
  <1>3. CASE ~a.aborted /\ configured
    <2> DEFINE b == [a EXCEPT !.repair = repair, !.attempt = 0]
    <2>1. /\ b \in Asks /\ b.repair = repair /\ b.attempt = 0
          /\ b.calls = a.calls /\ b.outcome = "NONE"
      BY RoundFields
    <2>2. StartRound(a, repair) = StartExchange(b)
      BY <1>3 DEF StartRound
    <2> HIDE DEF b
    <2>3. b.calls <= Rounds(b.repair) + b.attempt
      BY <2>1, CountsAreNumbers
    <2> QED
      BY <1>3, <2>1, <2>2, <2>3, StartExchangeKeeps
  <1> QED
    BY <1>1, <1>2, <1>3

\* An error of the provider is retried, or ends the call.
LEMMA AfterErrorKeeps ==
  ASSUME NEW a \in Asks, CallInvariant(a), a.phase = "exchange",
         NEW e, e.code \in Failures,
         ~e.retryable => e.code \notin {"TIMEOUT", "RATE_LIMITED", "INCOMPLETE_RESPONSE", "UNAVAILABLE"},
         a.timedOut => e.code = "TIMEOUT",
         a.aborted /\ ~a.timedOut => e.code = "CANCELLED" /\ ~e.retryable
  PROVE  CallInvariant(AfterError(a, e))
  <1>0. /\ a.calls <= Rounds(a.repair) + a.attempt + 1 /\ configured
        /\ a.outcome = "NONE" /\ e.code \in Outcomes /\ "CANCELLED" \in Outcomes
    BY DEF CallInvariant, Counted, Reported, Outcomes, Failures
  <1>1. a.attempt # MaxProviderRetries => a.attempt < MaxProviderRetries
    BY CountsAreNumbers, RetriesAssumption
  <1>2. CASE ~e.retryable \/ a.attempt = MaxProviderRetries
    <2>1. AfterError(a, e) = End(a, e.code)
      <3>1. ~(a.attempt = MaxProviderRetries /\ a.attempt < MaxProviderRetries)
        BY CountsAreNumbers, RetriesAssumption
      <3> QED
        BY <1>2, <3>1 DEF AfterError
    <2>2. a.aborted => e.code = "CANCELLED" \/ (e.code = "TIMEOUT" /\ a.attempt = MaxProviderRetries)
      BY <1>2
    <2> QED
      BY <1>0, <1>2, <2>1, <2>2, EndKeeps
  <1>3. CASE e.retryable /\ a.attempt # MaxProviderRetries /\ a.aborted
    <2>1. AfterError(a, e) = End(a, "CANCELLED")
      BY <1>1, <1>3 DEF AfterError
    <2> QED
      BY <1>0, <1>3, <2>1, EndKeeps
  <1>4. CASE e.retryable /\ a.attempt # MaxProviderRetries /\ ~a.aborted
    <2> DEFINE b == [a EXCEPT !.phase = "sleep"]
    <2>1. AfterError(a, e) = b
      BY <1>4 DEF AfterError
    <2>2. /\ b \in Asks /\ Shared(a, b) /\ b.phase = "sleep" /\ b.outcome = a.outcome
          /\ b.calls = a.calls /\ b.timedOut = a.timedOut
      BY SleepFields
    <2> HIDE DEF b
    <2>3. Counted(b)
      BY <1>0, <1>1, <1>4, <2>2 DEF Counted, Shared
    <2>4. Reported(b)
      BY <1>0, <1>4, <2>2 DEF Reported, Shared
    <2> QED
      BY <2>1, <2>3, <2>4 DEF CallInvariant
  <1> QED
    BY <1>2, <1>3, <1>4

\* An answer is returned, sent back for repair, or ends the call.
LEMMA AfterAnswerKeeps ==
  ASSUME NEW a \in Asks, CallInvariant(a), a.phase = "exchange", NEW body \in Usable
  PROVE  CallInvariant(AfterAnswer(a, body))
  <1>0. /\ a.calls <= Rounds(a.repair) + a.attempt + 1 /\ configured /\ a.outcome = "NONE"
        /\ {"CANCELLED", "ANSWER", "INVALID_RESULT"} \subseteq Outcomes
    BY DEF CallInvariant, Counted, Reported, Outcomes, Failures
  <1>1. CASE a.aborted
    <2>1. AfterAnswer(a, body) = End(a, "CANCELLED")
      BY <1>1 DEF AfterAnswer
    <2> QED
      BY <1>0, <2>1, EndKeeps
  <1>2. CASE ~a.aborted /\ body = "valid"
    <2>1. AfterAnswer(a, body) = End(a, "ANSWER")
      BY <1>2 DEF AfterAnswer
    <2> QED
      BY <1>0, <1>2, <2>1, EndKeeps
  <1>3. CASE ~a.aborted /\ body = "invalid" /\ a.repair = MaxResultRetries
    <2>1. AfterAnswer(a, body) = End(a, "INVALID_RESULT")
      BY <1>3 DEF AfterAnswer
    <2> QED
      BY <1>0, <1>3, <2>1, EndKeeps
  <1>4. CASE ~a.aborted /\ body = "invalid" /\ a.repair # MaxResultRetries
    <2>1. AfterAnswer(a, body) = StartRound(a, a.repair + 1)
      BY <1>4 DEF AfterAnswer
    <2>2. a.repair + 1 \in 0..MaxResultRetries
      BY <1>4, CountsAreNumbers, RetriesAssumption
    <2>3. a.calls <= Rounds(a.repair + 1)
      <3>1. Rounds(a.repair + 1) = Rounds(a.repair) + MaxProviderRetries + 1
        BY RoundsGrow, CountsAreNumbers, RetriesAssumption
      <3> QED
        BY <1>0, <3>1, CountsAreNumbers, RetriesAssumption
    <2> QED
      BY <1>0, <2>1, <2>2, <2>3, StartRoundKeeps
  <1> QED
    BY <1>1, <1>2, <1>3, <1>4 DEF Usable

\* An error that is final is none of those that are worth a retry.
LEMMA ErrorsListed ==
  ASSUME NEW response \in Responses, ~(response.status = 200 /\ response.body \in Usable)
  PROVE  LET e == ExchangeError(response)
         IN /\ e.code \in Failures
            /\ ~e.retryable => e.code \notin {"TIMEOUT", "RATE_LIMITED", "INCOMPLETE_RESPONSE", "UNAVAILABLE"}
  <1>1. CASE response = FetchRejects
    <2>1. response.status # 200
      BY <1>1 DEF FetchRejects
    <2>2. ExchangeError(response) = Error("UNAVAILABLE", TRUE)
      BY <1>1, <2>1 DEF ExchangeError
    <2> QED
      BY <2>2 DEF Error, Failures
  <1>2. CASE response.status = 200 /\ response.body \in Bodies \ Usable
    <2>1. response # FetchRejects
      BY <1>2 DEF FetchRejects
    <2>2. ExchangeError(response) = BodyError(response.body)
      BY <1>2, <2>1 DEF ExchangeError
    <2> DEFINE body == response.body
    <2>3. body \in {"tooLarge", "brokenOff", "incomplete", "refusal", "notJson", "noOutput"}
      BY <1>2 DEF Bodies, Usable
    <2> HIDE DEF body
    <2>4. LET e == BodyError(body)
          IN /\ e.code \in Failures
             /\ ~e.retryable => e.code \notin {"TIMEOUT", "RATE_LIMITED", "INCOMPLETE_RESPONSE", "UNAVAILABLE"}
      BY <2>3 DEF BodyError, BodyReadError, Error, Failures
    <2> QED
      BY <2>2, <2>4 DEF body
  <1>3. CASE response.status \in Statuses \ {200}
    <2>1. response # FetchRejects /\ response.status # 200
      BY <1>3 DEF FetchRejects, Statuses
    <2>2. ExchangeError(response) = HttpError(response.status)
      BY <2>1 DEF ExchangeError
    <2> DEFINE status == response.status
    <2>3. status \in {400, 401, 408, 409, 429, 500}
      BY <1>3 DEF Statuses
    <2> HIDE DEF status
    <2>4. LET e == HttpError(status)
          IN /\ e.code \in Failures
             /\ ~e.retryable => e.code \notin {"TIMEOUT", "RATE_LIMITED", "INCOMPLETE_RESPONSE", "UNAVAILABLE"}
      BY <2>3 DEF HttpError, Error, Failures
    <2> QED
      BY <2>2, <2>4 DEF status
  <1> QED
    BY <1>1, <1>2, <1>3 DEF Responses, Usable

\* The error made of a response is final, or its code is one worth a retry.
LEMMA CaughtFits ==
  ASSUME NEW a \in Asks, NEW response \in Responses,
         ~(response.status = 200 /\ response.body \in Usable)
  PROVE  LET e == Caught(a, response)
         IN /\ e.code \in Failures
            /\ ~e.retryable => e.code \notin {"TIMEOUT", "RATE_LIMITED", "INCOMPLETE_RESPONSE", "UNAVAILABLE"}
            /\ a.timedOut => e.code = "TIMEOUT"
            /\ a.aborted /\ ~a.timedOut => e.code = "CANCELLED" /\ ~e.retryable
  <1>1. CASE a.timedOut
    <2>1. Caught(a, response) = Error("TIMEOUT", TRUE)
      BY <1>1 DEF Caught
    <2> QED
      BY <1>1, <2>1 DEF Error, Failures
  <1>2. CASE ~a.timedOut /\ a.aborted
    <2>1. Caught(a, response) = Error("CANCELLED", FALSE)
      BY <1>2 DEF Caught
    <2> QED
      BY <1>2, <2>1 DEF Error, Failures
  <1>3. CASE ~a.timedOut /\ ~a.aborted
    <2>1. Caught(a, response) = ExchangeError(response)
      BY <1>3 DEF Caught
    <2> QED
      BY <1>3, <2>1, ErrorsListed
  <1> QED
    BY <1>1, <1>2, <1>3

\* Any step of a call, of whichever caller.
LEMMA AskKeeps ==
  ASSUME AsksInvariant, NEW c \in Callers, Ask(c) \/ AskStep(c) \/ Abort(c)
  PROVE  /\ \E b \in Asks : asks' = [asks EXCEPT ![c] = b] /\ CallInvariant(b)
         /\ asks[c].phase # "done"
  <1> DEFINE a == asks[c]
  <1>0. a \in Asks /\ CallInvariant(a) /\ configured \in BOOLEAN
    BY DEF AsksInvariant
  <1>1. CASE Ask(c)
    <2>1. a.phase = "idle" /\ asks' = [asks EXCEPT ![c] = StartRound(a, 0)]
      BY <1>1 DEF Ask, Become
    <2> HIDE DEF a
    <2>2. /\ a.outcome = "NONE" /\ ~a.timedOut /\ a.calls = 0 /\ a.repair = 0 /\ a.attempt = 0
      BY <1>0, <2>1 DEF CallInvariant, Counted, Reported
    <2>3. 0 \in 0..MaxResultRetries /\ a.calls <= Rounds(0) /\ a.calls <= Rounds(a.repair) + a.attempt + 1
      BY <2>2, RoundsGrow, RetriesAssumption
    <2>4. CallInvariant(StartRound(a, 0))
      BY <1>0, <2>2, <2>3, StartRoundKeeps
    <2> QED
      BY <2>1, <2>4 DEF CallInvariant, Counted, a
  <1>2. ASSUME NEW response \in Responses, Responds(c, response)
        PROVE  a.phase = "exchange" /\ \E b : asks' = [asks EXCEPT ![c] = b] /\ CallInvariant(b)
    <2>1. a.phase = "exchange"
      BY <1>2 DEF Responds
    <2>2. CASE response.status = 200 /\ response.body \in Usable
      <3>1. asks' = [asks EXCEPT ![c] = AfterAnswer(a, response.body)]
        BY <1>2, <2>2 DEF Responds, Become
      <3> HIDE DEF a
      <3>2. CallInvariant(AfterAnswer(a, response.body))
        BY <1>0, <2>1, <2>2, AfterAnswerKeeps
      <3> QED
        BY <2>1, <3>1, <3>2
    <2>3. CASE ~(response.status = 200 /\ response.body \in Usable)
      <3>1. asks' = [asks EXCEPT ![c] = AfterError(a, Caught(a, response))]
        BY <1>2, <2>3 DEF Responds, Become
      <3> HIDE DEF a
      <3>2. CallInvariant(AfterError(a, Caught(a, response)))
        BY <1>0, <2>1, <2>3, AfterErrorKeeps, CaughtFits
      <3> QED
        BY <2>1, <3>1, <3>2
    <2> QED
      BY <2>2, <2>3
  <1>3. CASE Deadline(c)
    <2> DEFINE b == [a EXCEPT !.timedOut = TRUE]
    <2>1. a.phase = "exchange" /\ asks' = [asks EXCEPT ![c] = b]
      BY <1>3 DEF Deadline, Become
    <2> HIDE DEF a
    <2>2. /\ b \in Asks /\ Shared(a, b) /\ b.phase = a.phase /\ b.outcome = a.outcome /\ b.calls = a.calls
      BY <1>0 DEF Asks, Shared
    <2> HIDE DEF b
    <2>3. Counted(b)
      BY <1>0, <2>1, <2>2 DEF CallInvariant, Counted, Shared
    <2>4. Reported(b)
      BY <1>0, <2>1, <2>2 DEF CallInvariant, Reported, Shared
    <2> QED
      BY <2>1, <2>3, <2>4 DEF CallInvariant, Counted, a
  <1>4. CASE Wakes(c)
    <2> DEFINE b == [a EXCEPT !.attempt = @ + 1]
    <2>1. a.phase = "sleep" /\ asks' = [asks EXCEPT ![c] = StartExchange(b)]
      BY <1>4 DEF Wakes, Become
    <2> HIDE DEF a
    <2>2. /\ a.attempt < MaxProviderRetries /\ a.outcome = "NONE" /\ configured
          /\ a.calls <= Rounds(a.repair) + a.attempt + 1
      BY <1>0, <2>1 DEF CallInvariant, Counted, Reported
    <2>3. a.attempt + 1 \in 0..MaxProviderRetries
      BY <1>0, <2>2, CountsAreNumbers, RetriesAssumption
    <2>4. /\ b \in Asks /\ b.repair = a.repair /\ b.attempt = a.attempt + 1
          /\ b.calls = a.calls /\ b.outcome = "NONE"
      BY <1>0, <2>2, <2>3 DEF Asks
    <2> HIDE DEF b
    <2>5. b.calls <= Rounds(b.repair) + b.attempt
      BY <1>0, <2>2, <2>4, CountsAreNumbers
    <2>6. CallInvariant(StartExchange(b))
      BY <2>2, <2>4, <2>5, StartExchangeKeeps
    <2> QED
      BY <2>1, <2>6 DEF CallInvariant, Counted, a
  <1>5. CASE Abort(c)
    <2> DEFINE b == [a EXCEPT !.aborted = TRUE]
    <2>1. a.phase # "done" /\ asks' = [asks EXCEPT ![c] = IF b.phase = "sleep" THEN End(b, "CANCELLED") ELSE b]
      BY <1>5 DEF Abort, Become
    <2> HIDE DEF a
    <2>2. /\ b \in Asks /\ b.repair = a.repair /\ b.attempt = a.attempt /\ b.phase = a.phase
          /\ b.outcome = a.outcome /\ b.calls = a.calls /\ b.timedOut = a.timedOut
      BY <1>0 DEF Asks
    <2> HIDE DEF b
    <2>3. Counted(b)
      BY <1>0, <2>2 DEF CallInvariant, Counted
    <2>4. b.outcome = "NONE" /\ b.phase # "done"
      BY <1>0, <2>1, <2>2 DEF CallInvariant, Reported
    <2>5. CASE b.phase = "sleep"
      <3>1. b.calls <= Rounds(b.repair) + b.attempt + 1 /\ "CANCELLED" \in Outcomes
        BY <2>3, <2>5 DEF Counted, Outcomes, Failures
      <3>2. CallInvariant(End(b, "CANCELLED"))
        BY <2>2, <3>1, EndKeeps
      <3> QED
        BY <2>1, <2>5, <3>2 DEF CallInvariant, Counted, a
    <2>6. CASE b.phase # "sleep"
      <3>1. Reported(b)
        BY <2>4 DEF Reported
      <3> QED
        BY <2>1, <2>3, <2>6, <3>1 DEF CallInvariant, Counted, a
    <2> QED
      BY <2>5, <2>6
  <1> QED
    BY <1>1, <1>2, <1>3, <1>4, <1>5 DEF AskStep, Ask, Deadline, Wakes, Abort, CallInvariant, Counted

-------------------------------------------------------------------------------
(* The guests. *)

\* What a guest has, what the script said and what the client made of the script.
GuestFits(g) ==
  /\ guest[g].at = "new" => commands[g] = "none"
  /\ commands[g] \in {"none", "waiting", "sent", "abandoned"} => guest[g].grant = "none"
  /\ commands[g] \in {"executed", "replied"} => guest[g].grant # "none"
  /\ asks[g].phase # "idle" => /\ Granted(g) /\ commands[g] = "replied"
                               /\ guest[g].at \in {"asking", "answered"}
  /\ guest[g].reply = "429 Retry-After" => guest[g].grant = "refused" /\ commands[g] = "replied"
  /\ guest[g].reply = "200" => asks[g].phase = "done" /\ asks[g].outcome = "ANSWER"

GuestTypes ==
  /\ Redis!TypeOfClient
  /\ secret \in BOOLEAN
  /\ guest \in [Guests -> GuestStates]
  /\ used \in [Days -> Nat]
  /\ today \in Days
  /\ present \in Visits

GuestInvariant == GuestTypes /\ \A g \in Guests : GuestFits(g)

\* One guest's state becomes the one described, and no other's.
GuestMove(g, at, day, grant, reply) ==
  /\ guest' \in [Guests -> GuestStates]
  /\ guest'[g].at = at /\ guest'[g].day = day /\ guest'[g].grant = grant /\ guest'[g].reply = reply
  /\ \A k \in Guests \ {g} : guest'[k] = guest[k]

\* The response of the controller moves its own guest to answered.
LEMMA ReplyMoves ==
  ASSUME GuestTypes, NEW g \in Guests, NEW reply \in Replies, Reply(g, reply)
  PROVE  GuestMove(g, "answered", guest[g].day, guest[g].grant, reply)
  BY DEF GuestTypes, Reply, GuestMove, GuestStates

\* A guest whose unit was granted asks Luna.
LEMMA AskingMoves ==
  ASSUME GuestTypes, NEW g \in Guests, guest' = [guest EXCEPT ![g].at = "asking"]
  PROVE  GuestMove(g, "asking", guest[g].day, guest[g].grant, guest[g].reply)
  BY DEF GuestTypes, GuestMove, GuestStates

\* The day of a reservation is the day it is issued.
LEMMA ReservingMoves ==
  ASSUME GuestTypes, NEW g \in Guests,
         guest' = [guest EXCEPT ![g].at = "reserving", ![g].day = today]
  PROVE  GuestMove(g, "reserving", today, guest[g].grant, guest[g].reply)
  BY DEF GuestTypes, GuestMove, GuestStates

\* The script decides once about a guest.
LEMMA GrantMoves ==
  ASSUME GuestTypes, NEW g \in Guests, NEW grant \in {"onTime", "late", "refused"},
         guest' = [guest EXCEPT ![g].grant = grant]
  PROVE  GuestMove(g, guest[g].at, guest[g].day, grant, guest[g].reply)
  BY DEF GuestTypes, GuestMove, GuestStates

\* The controller maps every failure to a status, and an answer alone to 200.
LEMMA StatusIsReply ==
  ASSUME NEW outcome
  PROVE  StatusOf(outcome) \in Replies \ {"429 Retry-After"} /\ (StatusOf(outcome) = "200" => outcome = "ANSWER")
  BY DEF StatusOf, Replies

\* What a step of the shared client does to the command of a guest.
CommandKept(g) ==
  /\ commands'[g] \in {"none", "waiting", "sent", "abandoned"}
       => commands[g] \in {"none", "waiting", "sent", "abandoned"}
  /\ commands'[g] \in {"executed", "replied"} => commands[g] \in {"executed", "replied"}
  /\ commands[g] = "replied" => commands'[g] = "replied"
  /\ commands[g] = "none" => commands'[g] = "none"

\* No step of the client makes a command executed or takes that back.
LEMMA RedisKeeps ==
  ASSUME Redis!TypeOfClient, RedisStep
  PROVE  Redis!TypeOfClient' /\ \A g \in Guests : CommandKept(g)
  <1> DEFINE Kept == Redis!TypeOfClient' /\ \A g \in Guests : CommandKept(g)
  <1> USE DEF Redis!TypeOfClient, Redis!Progress, Redis!Sockets, CommandKept
  <1>1. CASE Redis!SocketReady
    BY <1>1 DEF Redis!SocketReady
  <1>2. CASE Redis!SocketCloses
    BY <1>2 DEF Redis!SocketCloses
  <1>3. CASE Redis!ConnectSettles
    BY <1>3 DEF Redis!ConnectSettles, Redis!Settle, Redis!Waiters
  <1>4. CASE Redis!ConnectDeadline
    BY <1>4 DEF Redis!ConnectDeadline, Redis!Settle, Redis!Waiters
  <1>5. ASSUME NEW g \in Guests, Redis!Replies(g) PROVE Kept
    BY <1>5 DEF Redis!Replies
  <1>6. ASSUME NEW g \in Guests, Redis!CommandDeadline(g) PROVE Kept
    BY <1>6 DEF Redis!CommandDeadline
  <1> QED
    BY <1>1, <1>2, <1>3, <1>4, <1>5, <1>6 DEF RedisStep, Redis!Connection

\* A guest's command is issued once.
LEMMA EvalKeeps ==
  ASSUME Redis!TypeOfClient, NEW g \in Guests, Redis!Eval(g)
  PROVE  /\ Redis!TypeOfClient' /\ commands[g] = "none"
         /\ commands'[g] \in {"waiting", "sent", "failed"}
         /\ \A k \in Guests \ {g} : commands'[k] = commands[k]
  BY DEF Redis!TypeOfClient, Redis!Progress, Redis!Sockets, Redis!Eval, Redis!GetReadyClient

\* A command is executed only after it was sent.
LEMMA ExecutesKeeps ==
  ASSUME Redis!TypeOfClient, NEW g \in Guests, Redis!Executes(g)
  PROVE  /\ Redis!TypeOfClient' /\ commands[g] \in {"sent", "abandoned"}
         /\ commands'[g] \in {"executed", "failed"}
         /\ \A k \in Guests \ {g} : commands'[k] = commands[k]
  BY DEF Redis!TypeOfClient, Redis!Progress, Redis!Sockets, Redis!Executes

\* A step that leaves the rest of a guest alone.
LEMMA FitsStays ==
  ASSUME NEW k \in Guests, GuestFits(k), guest'[k] = guest[k],
         commands'[k] = commands[k], asks'[k] = asks[k]
  PROVE  GuestFits(k)'
  <1>1. Granted(k)' <=> Granted(k)
    BY DEF Granted
  <1>2. /\ asks'[k].phase = asks[k].phase /\ asks'[k].outcome = asks[k].outcome
        /\ guest'[k].at = guest[k].at /\ guest'[k].grant = guest[k].grant
        /\ guest'[k].reply = guest[k].reply
    OBVIOUS
  <1> QED
    BY <1>1, <1>2 DEF GuestFits

\* The same for a guest and a step of the AI service or of the client.
LEMMA FitsAsked ==
  ASSUME AsksInvariant, NEW c \in Callers, Ask(c) \/ AskStep(c) \/ Abort(c),
         NEW k \in Guests, GuestFits(k), guest' = guest, commands' = commands,
         c # k \/ asks[k].phase # "idle"
  PROVE  GuestFits(k)'
  <1>1. PICK b \in Asks : asks' = [asks EXCEPT ![c] = b]
    BY AskKeeps
  <1>2. asks[c].phase # "done" /\ k \in Callers
    BY AskKeeps, GuestsAssumption
  <1>3. CASE c # k
    <2>1. asks'[k] = asks[k]
      BY <1>1, <1>2, <1>3 DEF AsksInvariant
    <2> QED
      BY <2>1, FitsStays
  <1>4. CASE c = k
    BY <1>2, <1>4 DEF GuestFits, Granted
  <1> QED
    BY <1>3, <1>4

\* A guest stays consistent when only its command progresses.
LEMMA FitsCommand ==
  ASSUME NEW k \in Guests, GuestFits(k), guest' = guest, asks' = asks, CommandKept(k)
  PROVE  GuestFits(k)'
  <1>1. Granted(k)' <=> Granted(k)
    BY DEF Granted
  <1>2. CASE asks[k].phase # "idle"
    BY <1>1, <1>2 DEF GuestFits, CommandKept
  <1>3. CASE asks[k].phase = "idle"
    BY <1>3 DEF GuestFits, CommandKept
  <1> QED
    BY <1>2, <1>3

\* No step of the specification changes the setup, and each keeps what is known of calls.
LEMMA AsksStep ==
  ASSUME AsksInvariant, GuestInvariant, Next
  PROVE  AsksInvariant'
  <1>0. configured' = configured
    BY DEF Next, Reserve, ReserveScript, ReserveFailed, Reserved, Respond, Luna, RedisStep,
           CounterExpires, Midnight, setup
  <1>1. \/ asks' = asks
        \/ \E c \in Callers : Ask(c) \/ AskStep(c) \/ Abort(c)
    <2>1. Guests \subseteq Callers /\ present \subseteq Callers
      BY GuestsAssumption DEF GuestInvariant, GuestTypes
    <2>2. CASE Luna
      BY <2>1, <2>2 DEF Luna
    <2>3. CASE RedisStep \/ Midnight \/ \E d \in Days : CounterExpires(d)
      BY <2>3 DEF RedisStep, Midnight, CounterExpires
    <2>4. ASSUME NEW g \in Guests,
                 Reserve(g) \/ ReserveScript(g) \/ ReserveFailed(g) \/ Reserved(g) \/ Respond(g)
          PROVE  asks' = asks \/ \E c \in Callers : Ask(c)
      BY <2>1, <2>4 DEF Reserve, ReserveScript, ReserveFailed, Reserved, Respond
    <2> QED
      BY <2>2, <2>3, <2>4 DEF Next
  <1>2. CASE asks' = asks
    BY <1>0, <1>2 DEF AsksInvariant, CallInvariant, Counted, Reported
  <1>3. ASSUME NEW c \in Callers, Ask(c) \/ AskStep(c) \/ Abort(c)
        PROVE  AsksInvariant'
    <2>1. PICK b \in Asks : asks' = [asks EXCEPT ![c] = b] /\ CallInvariant(b)
      BY <1>3, AskKeeps
    <2>2. asks' \in [Callers -> Asks] /\ \A k \in Callers : asks'[k] = IF k = c THEN b ELSE asks[k]
      BY <2>1 DEF AsksInvariant
    <2>3. \A k \in Callers : CallInvariant(asks'[k])
      BY <2>1, <2>2 DEF AsksInvariant
    <2> QED
      BY <1>0, <2>2, <2>3 DEF AsksInvariant, CallInvariant, Counted, Reported
  <1> QED
    BY <1>1, <1>2, <1>3

\* One step of the specification on what the guests have.
LEMMA GuestStep ==
  ASSUME AsksInvariant, GuestInvariant, Next
  PROVE  GuestInvariant'
  <1>0. /\ GuestTypes /\ Guests \subseteq Callers
        /\ \A g \in Guests : GuestFits(g)
    BY GuestsAssumption DEF GuestInvariant
  <1>1. ASSUME NEW g \in Guests, Reserve(g) PROVE GuestInvariant'
    <2>1. CASE secret
      <3>1. GuestMove(g, "reserving", today, guest[g].grant, guest[g].reply)
        BY <1>0, <1>1, <2>1, ReservingMoves DEF Reserve
      <3>2. guest[g].at = "new" /\ Redis!Eval(g) /\ asks' = asks
        BY <1>1, <2>1 DEF Reserve
      <3>3. /\ Redis!TypeOfClient' /\ commands[g] = "none" /\ commands'[g] \in {"waiting", "sent", "failed"}
            /\ \A k \in Guests \ {g} : commands'[k] = commands[k]
        BY <1>0, <3>2, EvalKeeps DEF GuestTypes
      <3>4. GuestTypes'
        BY <1>0, <1>1, <3>1, <3>3 DEF GuestTypes, GuestMove, Reserve, setup
      <3>5. GuestFits(g)'
        BY <1>0, <3>1, <3>2, <3>3 DEF GuestFits, Granted, GuestMove
      <3>6. \A k \in Guests \ {g} : GuestFits(k)'
        BY <1>0, <3>1, <3>2, <3>3, FitsStays DEF GuestMove
      <3> QED
        BY <3>4, <3>5, <3>6 DEF GuestInvariant
    <2>2. CASE ~secret
      <3>1. GuestMove(g, "answered", guest[g].day, guest[g].grant, "503")
        BY <1>0, <1>1, <2>2, ReplyMoves DEF Reserve, Replies
      <3>2. commands' = commands /\ asks' = asks
        BY <1>1, <2>2 DEF Reserve, redisVars
      <3>3. GuestTypes'
        BY <1>0, <1>1, <2>2, <3>1 DEF GuestTypes, GuestMove, Reserve, setup, redisVars, Redis!TypeOfClient
      <3>4. GuestFits(g)'
        BY <1>0, <1>1, <3>1, <3>2 DEF GuestFits, Granted, GuestMove, Reserve
      <3>5. \A k \in Guests \ {g} : GuestFits(k)'
        BY <1>0, <3>1, <3>2, FitsStays DEF GuestMove
      <3> QED
        BY <3>3, <3>4, <3>5 DEF GuestInvariant
    <2> QED
      BY <2>1, <2>2
  <1>2. ASSUME NEW g \in Guests, ReserveScript(g) PROVE GuestInvariant'
    <2>1. PICK grant \in {"onTime", "late", "refused"} : guest' = [guest EXCEPT ![g].grant = grant]
      BY <1>2 DEF ReserveScript
    <2>2. GuestMove(g, guest[g].at, guest[g].day, grant, guest[g].reply)
      BY <1>0, <2>1, GrantMoves
    <2>3. /\ Redis!TypeOfClient' /\ commands[g] \in {"sent", "abandoned"}
          /\ commands'[g] \in {"executed", "failed"}
          /\ \A k \in Guests \ {g} : commands'[k] = commands[k]
      BY <1>0, <1>2, ExecutesKeeps DEF GuestTypes, ReserveScript
    <2>4. asks' = asks /\ secret' = secret /\ present' = present /\ today' = today
      BY <1>2 DEF ReserveScript, setup
    <2>5. used' \in [Days -> Nat]
      <3>1. guest[g].day \in Days
        BY <1>0 DEF GuestTypes, GuestStates
      <3>2. used[guest[g].day] + 1 \in Nat
        BY <1>0, <3>1 DEF GuestTypes
      <3> QED
        BY <1>0, <1>2, <3>2 DEF ReserveScript, GuestTypes
    <2>6. GuestTypes'
      BY <1>0, <2>2, <2>3, <2>4, <2>5 DEF GuestTypes, GuestMove
    <2>7. GuestFits(g)'
      <3>1. /\ guest'[g].at = guest[g].at /\ guest'[g].reply = guest[g].reply
            /\ guest'[g].grant # "none" /\ asks' = asks
        BY <2>1, <2>2, <2>4 DEF GuestMove
      <3>2. GuestFits(g) /\ commands[g] \notin {"none", "replied"}
        BY <1>0, <2>3
      <3>3. asks[g].phase = "idle" /\ guest[g].at # "new"
            /\ guest[g].reply \notin {"429 Retry-After", "200"}
        BY <3>2 DEF GuestFits
      <3> QED
        BY <2>3, <3>1, <3>3 DEF GuestFits
    <2>8. \A k \in Guests \ {g} : GuestFits(k)'
      BY <1>0, <2>2, <2>3, <2>4, FitsStays DEF GuestMove
    <2> QED
      BY <2>6, <2>7, <2>8 DEF GuestInvariant
  <1>3. ASSUME NEW g \in Guests, ReserveFailed(g) PROVE GuestInvariant'
    <2>1. GuestMove(g, "answered", guest[g].day, guest[g].grant, "503")
      BY <1>0, <1>3, ReplyMoves DEF ReserveFailed, Replies
    <2>2. /\ commands' = commands /\ asks' = asks
          /\ guest[g].at = "reserving" /\ commands[g] \in {"failed", "abandoned"}
      BY <1>3 DEF ReserveFailed, redisVars, Redis!Unavailable
    <2>3. GuestTypes'
      BY <1>0, <1>3, <2>1 DEF GuestTypes, GuestMove, ReserveFailed, setup, redisVars, Redis!TypeOfClient
    <2>4. GuestFits(g)'
      BY <1>0, <2>1, <2>2 DEF GuestFits, Granted, GuestMove
    <2>5. \A k \in Guests \ {g} : GuestFits(k)'
      BY <1>0, <2>1, <2>2, FitsStays DEF GuestMove
    <2> QED
      BY <2>3, <2>4, <2>5 DEF GuestInvariant
  <1>4. ASSUME NEW g \in Guests, Reserved(g) PROVE GuestInvariant'
    <2>1. commands' = commands /\ guest[g].at = "reserving" /\ commands[g] = "replied"
      BY <1>4 DEF Reserved, redisVars
    <2>2. CASE guest[g].grant = "refused"
      <3>1. GuestMove(g, "answered", guest[g].day, guest[g].grant, "429 Retry-After") /\ asks' = asks
        BY <1>0, <1>4, <2>2, ReplyMoves DEF Reserved, Replies
      <3>2. GuestTypes'
        BY <1>0, <1>4, <3>1 DEF GuestTypes, GuestMove, Reserved, setup, redisVars, Redis!TypeOfClient
      <3>3. GuestFits(g)'
        BY <1>0, <2>1, <2>2, <3>1 DEF GuestFits, Granted, GuestMove
      <3>4. \A k \in Guests \ {g} : GuestFits(k)'
        BY <1>0, <2>1, <3>1, FitsStays DEF GuestMove
      <3> QED
        BY <3>2, <3>3, <3>4 DEF GuestInvariant
    <2>3. CASE guest[g].grant # "refused"
      <3>1. GuestMove(g, "asking", guest[g].day, guest[g].grant, guest[g].reply) /\ Ask(g)
        BY <1>0, <1>4, <2>3, AskingMoves DEF Reserved
      <3>2. GuestTypes'
        BY <1>0, <1>4, <3>1 DEF GuestTypes, GuestMove, Reserved, setup, redisVars, Redis!TypeOfClient
      <3>3. g \in Callers
        BY <1>0
      <3>4. PICK b \in Asks : asks' = [asks EXCEPT ![g] = b]
        BY <3>1, <3>3, AskKeeps
      <3>5. \A k \in Guests \ {g} : asks'[k] = asks[k]
        BY <1>0, <3>4 DEF AsksInvariant
      <3>6. guest[g].grant \in {"onTime", "late"} /\ guest[g].reply # "429 Retry-After" /\ guest[g].reply # "200"
        <4>1. guest[g].grant \in {"none", "onTime", "late", "refused"}
          BY <1>0 DEF GuestTypes, GuestStates
        <4>2. asks[g].phase = "idle"
          BY <3>1 DEF Ask
        <4> QED
          BY <1>0, <2>1, <2>3, <4>1, <4>2 DEF GuestFits
      <3>7. GuestFits(g)'
        BY <2>1, <3>1, <3>6 DEF GuestFits, Granted, GuestMove
      <3>8. \A k \in Guests \ {g} : GuestFits(k)'
        BY <1>0, <2>1, <3>1, <3>5, FitsStays DEF GuestMove
      <3> QED
        BY <3>2, <3>7, <3>8 DEF GuestInvariant
    <2> QED
      BY <2>2, <2>3
  <1>5. ASSUME NEW g \in Guests, Respond(g) PROVE GuestInvariant'
    <2> DEFINE reply == StatusOf(asks[g].outcome)
    <2>1. reply \in Replies \ {"429 Retry-After"} /\ (reply = "200" => asks[g].outcome = "ANSWER")
      BY StatusIsReply
    <2>2. /\ Reply(g, reply) /\ commands' = commands /\ asks' = asks /\ asks[g].phase = "done"
      BY <1>5 DEF Respond, redisVars
    <2> HIDE DEF reply
    <2>3. GuestMove(g, "answered", guest[g].day, guest[g].grant, reply)
      BY <1>0, <2>1, <2>2, ReplyMoves
    <2>4. GuestTypes'
      BY <1>0, <1>5, <2>3 DEF GuestTypes, GuestMove, Respond, setup, redisVars, Redis!TypeOfClient
    <2>5. GuestFits(g)'
      BY <1>0, <2>1, <2>2, <2>3 DEF GuestFits, Granted, GuestMove
    <2>6. \A k \in Guests \ {g} : GuestFits(k)'
      BY <1>0, <2>2, <2>3, FitsStays DEF GuestMove
    <2> QED
      BY <2>4, <2>5, <2>6 DEF GuestInvariant
  <1>6. CASE Luna
    <2>1. GuestTypes'
      BY <1>0, <1>6 DEF GuestTypes, Luna, setup, redisVars, Redis!TypeOfClient
    <2>2. guest' = guest /\ commands' = commands /\ present \subseteq Callers
      BY <1>0, <1>6, GuestsAssumption DEF Luna, redisVars, GuestTypes
    <2>3. PICK c \in Callers : Ask(c) \/ AskStep(c) \/ Abort(c)
      BY <1>6, <2>2 DEF Luna
    <2>4. \/ \E k \in Callers : AskStep(k)
          \/ \E k \in present \ Guests : Ask(k) \/ Abort(k)
      BY <1>6 DEF Luna
    <2>5. ASSUME NEW k \in Guests, NEW l \in Callers, AskStep(l) PROVE GuestFits(k)'
      <3>1. asks[l].phase # "idle"
        BY <2>5 DEF AskStep, Responds, Deadline, Wakes
      <3> QED
        BY <1>0, <2>2, <2>5, <3>1, FitsAsked
    <2>6. ASSUME NEW k \in Guests, NEW l \in present \ Guests, Ask(l) \/ Abort(l) PROVE GuestFits(k)'
      BY <1>0, <2>2, <2>6, FitsAsked
    <2> QED
      BY <2>1, <2>4, <2>5, <2>6 DEF GuestInvariant
  <1>7. CASE RedisStep
    <2>1. Redis!TypeOfClient' /\ \A g \in Guests : CommandKept(g)
      BY <1>0, <1>7, RedisKeeps DEF GuestTypes
    <2>2. guest' = guest /\ asks' = asks
      BY <1>7 DEF RedisStep
    <2>3. GuestTypes'
      BY <1>0, <1>7, <2>1 DEF GuestTypes, RedisStep, setup
    <2> QED
      BY <1>0, <2>1, <2>2, <2>3, FitsCommand DEF GuestInvariant
  <1>8. ASSUME NEW d \in Days, CounterExpires(d) PROVE GuestInvariant'
    <2>1. GuestTypes'
      BY <1>0, <1>8 DEF GuestTypes, CounterExpires, setup, redisVars, Redis!TypeOfClient
    <2> QED
      BY <1>0, <1>8, <2>1, FitsStays DEF GuestInvariant, CounterExpires, redisVars
  <1>9. CASE Midnight
    <2>1. today + 1 \in Days
      BY <1>0, <1>9, GuestsAssumption DEF GuestTypes, Midnight, Days
    <2>2. GuestTypes'
      BY <1>0, <1>9, <2>1 DEF GuestTypes, Midnight, setup, redisVars, Redis!TypeOfClient
    <2> QED
      BY <1>0, <1>9, <2>2, FitsStays DEF GuestInvariant, Midnight, redisVars
  <1> QED
    BY <1>1, <1>2, <1>3, <1>4, <1>5, <1>6, <1>7, <1>8, <1>9 DEF Next

-------------------------------------------------------------------------------
(* The quota. *)

\* The guests that took a unit of day d before its midnight.
OnTime(d) == {g \in Guests : guest[g].day = d /\ guest[g].grant = "onTime"}

\* The counter of today accounts for them; those of earlier days may be gone.
QuotaInvariant ==
  /\ \A d \in Days : Cardinality(OnTime(d)) <= Limit
  /\ Cardinality(OnTime(today)) <= used[today]
  /\ \A g \in Guests : guest[g].grant = "onTime" => guest[g].day <= today

\* Days are counted from zero.
LEMMA DaysAreNumbers == Days \subseteq Nat /\ 0 \in Days
  BY GuestsAssumption DEF Days

\* The guests counted on time can be counted.
LEMMA OnTimeCounts ==
  ASSUME NEW d
  PROVE  IsFiniteSet(OnTime(d)) /\ Cardinality(OnTime(d)) \in Nat
  <1>1. OnTime(d) \subseteq Guests /\ IsFiniteSet(Guests)
    BY GuestsAssumption DEF OnTime
  <1> QED
    BY <1>1, FS_Subset, FS_CardinalityType

\* A step that grants nothing on time and takes nothing from today's counter.
LEMMA QuotaStays ==
  ASSUME QuotaInvariant, today \in Days, used \in [Days -> Nat], today' = today, used'[today] = used[today],
         \A g \in Guests :
           /\ guest'[g].grant = "onTime" <=> guest[g].grant = "onTime"
           /\ guest[g].grant = "onTime" => guest'[g].day = guest[g].day
  PROVE  QuotaInvariant'
  <1>1. ASSUME NEW d PROVE OnTime(d)' = OnTime(d)
    <2>1. \A g \in Guests : (guest'[g].day = d /\ guest'[g].grant = "onTime")
                              <=> (guest[g].day = d /\ guest[g].grant = "onTime")
      OBVIOUS
    <2> QED
      BY <2>1 DEF OnTime
  <1>2. OnTime(today)' = OnTime(today)
    BY <1>1 DEF OnTime
  <1>3. \A d \in Days : Cardinality(OnTime(d)') <= Limit
    BY <1>1 DEF QuotaInvariant
  <1>4. Cardinality(OnTime(today)') <= used'[today]
    BY <1>2 DEF QuotaInvariant
  <1>5. \A g \in Guests : guest'[g].grant = "onTime" => guest'[g].day <= today
    BY DEF QuotaInvariant
  <1> QED
    BY <1>3, <1>4, <1>5 DEF QuotaInvariant, Days

\* Every step keeps what the counters say of the guests counted on time.
LEMMA QuotaStep ==
  ASSUME GuestInvariant, QuotaInvariant, Next
  PROVE  QuotaInvariant'
  <1>0. /\ today \in Days /\ used \in [Days -> Nat] /\ guest \in [Guests -> GuestStates]
        /\ \A g \in Guests : GuestFits(g)
    BY DEF GuestInvariant, GuestTypes
  <1>1. ASSUME NEW g \in Guests, Reserve(g) PROVE QuotaInvariant'
    <2>1. guest[g].grant = "none"
      BY <1>0, <1>1 DEF Reserve, GuestFits
    <2>2. /\ guest'[g].grant = "none" /\ \A k \in Guests \ {g} : guest'[k] = guest[k]
          /\ today' = today /\ used' = used
      BY <1>0, <1>1, <2>1 DEF Reserve, Reply, GuestStates
    <2> QED
      BY <1>0, <2>1, <2>2, QuotaStays
  <1>2. ASSUME NEW g \in Guests, ReserveScript(g) PROVE QuotaInvariant'
    <2> DEFINE d == guest[g].day
    <2>1. /\ d \in Days /\ today' = today
      BY <1>0, <1>2 DEF ReserveScript, GuestStates
    <2>2. guest[g].grant = "none"
      BY <1>0, <1>2 DEF ReserveScript, Redis!Executes, GuestFits
    <2>3. CASE d = today /\ Allows(d)
      <3>1. /\ used' = [used EXCEPT ![today] = @ + 1] /\ used[today] < Limit
            /\ guest' = [guest EXCEPT ![g].grant = "onTime"]
        BY <1>2, <2>3 DEF ReserveScript, Allows
      <3>2. /\ guest'[g].grant = "onTime" /\ guest'[g].day = today
            /\ \A k \in Guests \ {g} : guest'[k] = guest[k]
        BY <1>0, <2>3, <3>1 DEF GuestStates
      <3>3. OnTime(today)' = OnTime(today) \cup {g} /\ g \notin OnTime(today)
        BY <2>1, <2>2, <3>2 DEF OnTime
      <3>4. \A e : e # today => OnTime(e)' = OnTime(e)
        BY <2>3, <3>2, <2>2 DEF OnTime
      <3>5. Cardinality(OnTime(today)') = Cardinality(OnTime(today)) + 1
        BY <3>3, OnTimeCounts, FS_AddElement
      <3>6. used[today] \in Nat /\ used'[today] = used[today] + 1 /\ Cardinality(OnTime(today)) <= used[today]
        BY <1>0, <3>1 DEF QuotaInvariant
      <3>7. Cardinality(OnTime(today)') <= Limit /\ Cardinality(OnTime(today)') <= used'[today]
        BY <3>1, <3>5, <3>6, OnTimeCounts, GuestsAssumption
      <3>8. ASSUME NEW e \in Days PROVE Cardinality(OnTime(e)') <= Limit
        <4>1. CASE e = today
          <5>1. OnTime(e)' = OnTime(today)'
            BY <2>1, <4>1 DEF OnTime
          <5> QED
            BY <3>7, <5>1
        <4>2. CASE e # today
          BY <3>4, <4>2 DEF QuotaInvariant
        <4> QED
          BY <4>1, <4>2
      <3>9. \A k \in Guests : guest'[k].grant = "onTime" => guest'[k].day <= today
        BY <1>0, <3>2, DaysAreNumbers DEF QuotaInvariant
      <3> QED
        BY <2>1, <3>7, <3>8, <3>9 DEF QuotaInvariant, Days
    <2>4. CASE ~(d = today /\ Allows(d))
      <3>1. PICK grant \in {"late", "refused"} : guest' = [guest EXCEPT ![g].grant = grant]
        BY <1>2, <2>4 DEF ReserveScript
      <3>2. /\ guest'[g].grant = grant /\ \A k \in Guests \ {g} : guest'[k] = guest[k]
        BY <1>0, <3>1 DEF GuestStates
      <3>3. used'[today] = used[today]
        BY <1>0, <1>2, <2>1, <2>4 DEF ReserveScript
      <3> QED
        BY <1>0, <2>1, <2>2, <3>2, <3>3, QuotaStays
    <2> QED
      BY <2>3, <2>4
  <1>3. ASSUME NEW g \in Guests, ReserveFailed(g) \/ Reserved(g) \/ Respond(g) PROVE QuotaInvariant'
    <2>1. today' = today /\ used' = used
      BY <1>3 DEF ReserveFailed, Reserved, Respond
    <2>2. \/ \E reply : Reply(g, reply)
          \/ guest' = [guest EXCEPT ![g].at = "asking"]
      BY <1>3 DEF ReserveFailed, Reserved, Respond
    <2>3. \A k \in Guests : guest'[k].grant = guest[k].grant /\ guest'[k].day = guest[k].day
      BY <1>0, <2>2 DEF Reply, GuestStates
    <2> QED
      BY <1>0, <2>1, <2>3, QuotaStays
  <1>4. CASE Luna \/ RedisStep
    BY <1>0, <1>4, QuotaStays DEF Luna, RedisStep
  <1>5. ASSUME NEW d \in Days, CounterExpires(d) PROVE QuotaInvariant'
    <2>1. d # today /\ today' = today /\ guest' = guest /\ used' = [used EXCEPT ![d] = 0]
      BY <1>0, <1>5, DaysAreNumbers DEF CounterExpires
    <2>2. used'[today] = used[today]
      BY <1>0, <2>1
    <2> QED
      BY <1>0, <2>1, <2>2, QuotaStays
  <1>6. CASE Midnight
    <2>1. today' = today + 1 /\ today + 1 \in Days /\ used' = used /\ guest' = guest
      BY <1>0, <1>6, GuestsAssumption DEF Midnight, Days
    <2>2. \A d : OnTime(d)' = OnTime(d)
      BY <2>1 DEF OnTime
    <2>3. OnTime(today + 1) = {}
      <3>1. \A g \in Guests : guest[g].grant = "onTime" => guest[g].day # today + 1
        BY <1>0, DaysAreNumbers DEF QuotaInvariant
      <3> QED
        BY <3>1 DEF OnTime
    <2>4. Cardinality(OnTime(today + 1)) <= used[today + 1]
      BY <1>0, <2>1, <2>3, FS_EmptySet
    <2>5. OnTime(today)' = OnTime(today + 1)
      BY <2>1 DEF OnTime
    <2>6. \A g \in Guests : guest[g].grant = "onTime" => guest[g].day <= today + 1
      <3>1. \A g \in Guests : guest[g].day \in Nat
        BY <1>0, DaysAreNumbers DEF GuestStates
      <3> QED
        BY <1>0, <3>1, DaysAreNumbers DEF QuotaInvariant
    <2> QED
      BY <2>1, <2>2, <2>4, <2>5, <2>6 DEF QuotaInvariant, Days
  <1> QED
    BY <1>1, <1>2, <1>3, <1>4, <1>5, <1>6 DEF Next

-------------------------------------------------------------------------------
(* The theorems. *)

Invariant == AsksInvariant /\ GuestInvariant /\ QuotaInvariant

\* No call was made and no unit taken at first.
LEMMA Initially == Init => Invariant
  <1> SUFFICES ASSUME Init PROVE Invariant
    OBVIOUS
  <1>1. AsksInvariant
    <2>1. 0 \in 0..MaxResultRetries /\ 0 \in 0..MaxProviderRetries /\ "NONE" \in Outcomes /\ 0 \in Nat
      BY RetriesAssumption DEF Outcomes
    <2>2. NoAsk \in Asks
      BY <2>1 DEF NoAsk, Asks
    <2>3. Counted(NoAsk)
      BY <2>2 DEF Counted, NoAsk
    <2>4. Reported(NoAsk)
      BY DEF Reported, NoAsk
    <2> QED
      BY <2>2, <2>3, <2>4 DEF Init, InitAsks, AsksInvariant, CallInvariant
  <1>2. GuestTypes
    <2>1. NewGuest \in GuestStates
      BY DaysAreNumbers DEF NewGuest, GuestStates, Replies
    <2> QED
      BY <2>1, DaysAreNumbers DEF Init, GuestTypes, Redis!InitClient, Redis!TypeOfClient,
                                  Redis!Sockets, Redis!Progress
  <1>3. ASSUME NEW g \in Guests PROVE GuestFits(g)
    <2>1. guest[g] = NewGuest /\ commands[g] = "none" /\ asks[g] = NoAsk
      BY GuestsAssumption DEF Init, InitAsks, Redis!InitClient
    <2> QED
      BY <2>1 DEF GuestFits, NewGuest, NoAsk
  <1>4. QuotaInvariant
    <2>1. \A g \in Guests : guest[g].grant = "none"
      BY DEF Init, NewGuest
    <2>2. \A d : OnTime(d) = {}
      BY <2>1 DEF OnTime
    <2>3. used[today] = 0
      BY DaysAreNumbers DEF Init
    <2> QED
      BY <2>1, <2>2, <2>3, FS_EmptySet, GuestsAssumption DEF QuotaInvariant
  <1> QED
    BY <1>1, <1>2, <1>3, <1>4 DEF Invariant, GuestInvariant

\* Every step keeps the three parts of the invariant.
LEMMA StepKeeps == Invariant /\ [Next]_vars => Invariant'
  <1> SUFFICES ASSUME Invariant, [Next]_vars PROVE Invariant'
    OBVIOUS
  <1>1. CASE Next
    BY <1>1, AsksStep, GuestStep, QuotaStep DEF Invariant
  <1>2. CASE UNCHANGED vars
    <2>1. AsksInvariant'
      BY <1>2 DEF vars, Invariant, AsksInvariant, CallInvariant, Counted, Reported
    <2>2. GuestTypes'
      BY <1>2 DEF vars, Invariant, GuestInvariant, GuestTypes, Redis!TypeOfClient
    <2>3. \A g \in Guests : GuestFits(g)'
      BY <1>2, FitsStays DEF vars, Invariant, GuestInvariant
    <2>4. QuotaInvariant'
      BY <1>2, QuotaStays DEF vars, Invariant, GuestInvariant, GuestTypes
    <2> QED
      BY <2>1, <2>2, <2>3, <2>4 DEF Invariant, GuestInvariant
  <1> QED
    BY <1>1, <1>2

\* The invariant, from which each theorem below follows.
LEMMA InvariantHolds == Spec => []Invariant
  BY Initially, StepKeeps, PTL DEF Spec

\* Types of the calls, of the shared Redis client and of the guests.
THEOREM TypesHold == Spec => []TypeOK
  <1>1. Invariant => TypeOK
    BY DEF Invariant, AsksInvariant, GuestInvariant, GuestTypes, TypeOK, TypeOfAsks
  <1> QED
    BY <1>1, InvariantHolds, PTL

\* No day's limit is passed by guests that were counted before its midnight, for
\* any number of guests and days (RESERVE_QUOTA_SCRIPT).
THEOREM LimitHolds == Spec => []GuestsWithinLimit
  <1>1. Invariant => GuestsWithinLimit
    BY DEF Invariant, QuotaInvariant, OnTime, GuestsWithinLimit
  <1> QED
    BY <1>1, InvariantHolds, PTL

\* Luna is asked for guests whose unit was taken only, and the answers tell the truth
\* about the unit (GuestReviewService.review).
THEOREM UnitIsTaken == Spec => []NoAskWithoutUnit
  <1>1. Invariant => NoAskWithoutUnit
    <2> SUFFICES ASSUME Invariant, NEW g \in Guests
                 PROVE  /\ asks[g].calls > 0 => Granted(g)
                        /\ guest[g].reply = "429 Retry-After" => guest[g].grant = "refused"
                        /\ guest[g].reply = "200" => Granted(g) /\ asks[g].outcome = "ANSWER"
      BY DEF NoAskWithoutUnit
    <2>1. GuestFits(g) /\ Counted(asks[g])
      BY GuestsAssumption DEF Invariant, GuestInvariant, AsksInvariant, CallInvariant
    <2>2. asks[g].phase = "idle" => asks[g].calls = 0
      BY <2>1 DEF Counted
    <2>3. asks[g].phase = "idle" => ~(asks[g].calls > 0)
      BY <2>2
    <2> QED
      BY <2>1, <2>3 DEF GuestFits
  <1> QED
    BY <1>1, InvariantHolds, PTL

\* The two loops together make at most (repairs + 1) times (retries + 1) exchanges, for
\* any number of repairs and retries.
THEOREM CallsAreBounded == Spec => []CallsBounded
  <1>1. Invariant => CallsBounded
    <2> SUFFICES ASSUME Invariant, NEW c \in Callers
                 PROVE  asks[c].calls <= (MaxResultRetries + 1) * (MaxProviderRetries + 1)
      BY DEF CallsBounded
    <2> DEFINE a == asks[c]
    <2>1. Counted(a) /\ a \in Asks
      BY DEF Invariant, AsksInvariant, CallInvariant
    <2> HIDE DEF a
    <2>2. /\ Rounds(a.repair) <= Rounds(MaxResultRetries) /\ Rounds(MaxResultRetries) \in Nat
          /\ Rounds(MaxResultRetries + 1) = Rounds(MaxResultRetries) + MaxProviderRetries + 1
      BY <2>1, CountsAreNumbers, RoundsGrow, RetriesAssumption
    <2>3. a.calls <= Rounds(a.repair) + a.attempt + 1
      <3>1. CASE a.phase = "idle"
        <4>1. a.calls = 0
          BY <2>1, <3>1 DEF Counted
        <4> QED
          BY <2>1, <4>1, CountsAreNumbers
      <3>2. CASE a.phase # "idle"
        BY <2>1, <3>2 DEF Counted
      <3> QED
        BY <3>1, <3>2
    <2>4. a.calls <= Rounds(MaxResultRetries + 1)
      BY <2>1, <2>2, <2>3, CountsAreNumbers, RetriesAssumption
    <2> QED
      BY <2>4 DEF Rounds, a
  <1> QED
    BY <1>1, InvariantHolds, PTL

\* A caller that aborted is told so, or of the deadline of the last attempt, for any
\* number of attempts (AiReviewService.review, LunaOpenAiProvider.review).
THEOREM AbortReported == Spec => []AbortIsReported
  <1>1. Invariant => AbortIsReported
    BY DEF Invariant, AsksInvariant, CallInvariant, Reported, AbortIsReported
  <1> QED
    BY <1>1, InvariantHolds, PTL

\* Errors worth a retry are reported after the last attempt only, for any number of
\* attempts (LunaOpenAiProvider.review, requestOnce).
THEOREM RetriesAreMade == Spec => []RetriedBeforeGivingUp
  <1>1. Invariant => RetriedBeforeGivingUp
    BY DEF Invariant, AsksInvariant, CallInvariant, Reported, RetriedBeforeGivingUp
  <1> QED
    BY <1>1, InvariantHolds, PTL
=================================================================================
