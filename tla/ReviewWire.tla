------------------------------- MODULE ReviewWire -------------------------------
(***************************************************************************)
(* What crosses the wire for a review, on both sides: what the form of the *)
(* web client submits, what the API admits, stores and answers, and what   *)
(* the validators of the web client make of those answers.  Texts and      *)
(* numbers are abstracted to the classes the checks tell apart; an object  *)
(* is the set of its optional keys.                                        *)
(***************************************************************************)
EXTENDS Integers, FiniteSets

\* "padded": within its length, with white space around it.
Texts == {"absent", "plain", "padded", "blank", "long"}
DraftFields == [source : Texts, title : Texts, context : Texts]

ReviewStatuses == {"PENDING", "PROCESSING", "COMPLETED", "FAILED", "CANCELLED"}
Terminal == {"COMPLETED", "FAILED", "CANCELLED"}

NonBlank(text) == text \in {"plain", "padded"}     \* isBoundedNonBlankString, Matches(/\S/u)
Trimmed(text) == text = "plain"                    \* isBoundedString
Optional(object) == {key \in {"title", "context"} : object[key] # "absent"}

--------------------------------------------------------------------------------
(* From the form to the stored review. *)

\* validateReviewField, validateReviewDraft: an empty optional field is absent.
FormAccepts(draft) ==
  /\ NonBlank(draft.source)
  /\ \A field \in Optional(draft) : NonBlank(draft[field])

\* CreateReviewDto and the canonicalisation of QuotaAdmissionHttpService: nothing is trimmed.
ApiAdmits(body) ==
  /\ NonBlank(body.source)
  /\ \A field \in Optional(body) : NonBlank(body[field])

--------------------------------------------------------------------------------
(* Summaries and lists.   *)

\* isReviewAdmissionResponse.
ReadsSummary(review) == \A key \in Optional(review) : NonBlank(review[key])

\* isItem of the history page: three sets of keys, trimmed texts.
ReadsItem(review) ==
  /\ Optional(review) \in {{}, {"title"}, {"title", "context"}}
  /\ \A key \in Optional(review) : Trimmed(review[key])

\* ReviewService.list, toUsageHistoryResponse and createHistoryMeta agree on this.
PagesOf(total, limit) == IF total = 0 THEN 0 ELSE (total - 1) \div limit + 1
ListMeta(page, limit, total) ==
  [page |-> page, limit |-> limit, total |-> total, totalPages |-> PagesOf(total, limit),
   hasNext |-> page < PagesOf(total, limit),
   hasPrevious |-> page > 1 /\ PagesOf(total, limit) > 0]

\* The rows of a page, newest first: skip and take.
PageOf(rows, page, limit) ==
  {r \in rows : Cardinality({s \in rows : s > r}) \in (page - 1) * limit .. page * limit - 1}

\* isMeta of both clients.
ReadsMeta(meta, maxLimit) ==
  /\ meta.page > 0 /\ meta.limit \in 1..maxLimit
  /\ meta.total >= 0 /\ meta.totalPages >= 0

--------------------------------------------------------------------------------
(* The answers to process and result. *)

\* Outcomes of a run; a provider failure is named by its code.
ProcessOutcomes == {"COMPLETED", "ALREADY_COMPLETED", "ALREADY_PROCESSING", "CANCELLED",
                    "CLAIM_CONFLICT", "LOCK_UNAVAILABLE", "INTERNAL", "RATE_LIMITED",
                    "TIMEOUT", "UNAVAILABLE", "INVALID_RESPONSE"}

\* toReviewProcessingResponse and mapReviewProcessingError.
ProcessStatus(outcome) ==
  CASE outcome \in {"COMPLETED", "ALREADY_COMPLETED", "ALREADY_PROCESSING"} -> 200
    [] outcome \in {"CANCELLED", "CLAIM_CONFLICT"}     -> 409
    [] outcome \in {"LOCK_UNAVAILABLE", "UNAVAILABLE"} -> 503
    [] outcome = "RATE_LIMITED"                        -> 429
    [] outcome = "TIMEOUT"                             -> 504
    [] outcome = "INTERNAL"                            -> 500
    [] OTHER                                           -> 502

ResultAvailable(outcome) == outcome \in {"COMPLETED", "ALREADY_COMPLETED"}

\* isReviewProcessResponse.
ReadsProcess(outcome, resultAvailable) ==
  \/ outcome \in {"COMPLETED", "ALREADY_COMPLETED"} /\ resultAvailable
  \/ outcome = "ALREADY_PROCESSING" /\ ~resultAvailable

\* The usage of an execution; the cached tokens are an optional key of it.
Usages == {"none", "counted"}

\* toPersistedAiUsageRecord: the keys that are stored and answered as they are.
UsageKeys ==
  {"inputTokens", "outputTokens", "totalTokens", "estimatedCostMicros", "pricingVersion"}

\* isReviewUsage: the keys the client allows.
ReadsUsage(usage) ==
  \/ usage = "none"
  \/ UsageKeys \subseteq {"inputTokens", "outputTokens", "totalTokens", "cachedInputTokens"}

\* A text of reviewResultSchema: trimmed, then bounded from both sides.
SchemaKeeps(text) == IF text = "padded" THEN "plain" ELSE text
SchemaAccepts(text) == SchemaKeeps(text) = "plain"

\* isReviewFinding, isReviewEducation, isReviewResult.
ReadsText(text) == NonBlank(text)

\* isReviewResultResponse: its usage, and the texts of a result that was stored.
ReadsResult(execution) ==
  /\ ReadsUsage(execution.usage)
  /\ \A text \in Texts : SchemaAccepts(text) => ReadsText(SchemaKeeps(text))

--------------------------------------------------------------------------------
(* Lifecycle events. *)

EventTypes == {"snapshot", "completed", "failed", "cancelled", "heartbeat"}

\* toEvent of the record a transition to this status appends (eventTypeForStatus).
EventOf(status) ==
  [type |-> CASE status = "COMPLETED" -> "completed"
              [] status = "FAILED"    -> "failed"
              [] status = "CANCELLED" -> "cancelled"
              [] OTHER                -> "snapshot",
   status |-> status, resultAvailable |-> status = "COMPLETED"]

\* toResetSnapshot and toHeartbeat.
ResetOf(status) == [EventOf(status) EXCEPT !.type = "snapshot"]
HeartbeatOf(status) == [EventOf(status) EXCEPT !.type = "heartbeat"]

\* parseSseFrame and isReviewLifecycleEvent.
ReadsEvent(event) ==
  \/ event.type = "snapshot"
  \/ event.type = "completed" /\ event.status = "COMPLETED" /\ event.resultAvailable
  \/ event.type = "failed" /\ event.status = "FAILED" /\ ~event.resultAvailable
  \/ event.type = "cancelled" /\ event.status = "CANCELLED" /\ ~event.resultAvailable
  \/ event.type = "heartbeat" /\ event.status \notin Terminal

\* isTerminalEvent.
EndsStream(event) == ReadsEvent(event) /\ event.status \in Terminal
================================================================================
