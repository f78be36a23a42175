# RepoMentor: TLA+ models, checks and proofs

RepoMentor lets a user submit a source file, has an AI provider ("Luna") review it, and shows the
result. The API is a NestJS application (`src/apps/api`) over PostgreSQL (Prisma) and Redis; the web
client is a Next.js application (`src/apps/web`); `src/packages/contracts` holds the types they share.

This directory holds models of the parts whose correctness depends on the order in which several
actors act: API instances, Redis, the database, the AI provider, timers and users. Every definition is
translated from the source; `PROJECT.json` ("map") names the lines each one stands for. Paths below are
relative to `src/apps/api/src/modules/` unless they start with `src/`.

## 1. The system

| Component | State | Operations | What makes it hard | What makes it correct |
|---|---|---|---|---|
| Review repository (`review/prisma-review.repository.ts`) | rows of `reviews`, `review_events`, `review_results` | create, transition, finalize, fence, soft delete, event and result reads | several instances issue conditional updates that may be late | the event log is a complete legal history; one result, exactly for COMPLETED |
| Review processing (`review/processing/`) | one run per review and instance, its claimed generation, its flags `aborted` and `lost`, the lease fence | process, cancel, retry, delete | aborts, lease loss, late terminal writes, failed fences, crashes | the persisted answer belongs to the claimant; no orphaned claim; answers stay true |
| Lock and keepalive (`redis/redis.lock.ts`, `ReviewLockKeepalive`) | the lock key with its TTL, two timers | acquire, renew, release | timeouts, late replies, late callbacks | holding means owning; loss is noticed; the lock is always freed |
| Quota admission (`usage/`, `redis/redis.admission.ts`) | `quota_admissions` rows, Redis day counter and admission markers | create intent, reserve, finalize, compensate | a crash or a lost reply between Redis and the database, concurrent requests with one key, midnight | one review per key, no unit of quota counted twice, no review without a unit |
| Guest quota (`guest/`, `redis/redis.quota.ts`) | Redis day counter per guest | reserve, review | the counter is never compensated; scripts run late; midnight | the limit is not exceeded; every guest is answered |
| Review event stream (`review/review-events.service.ts`, `redis/redis.stream.ts`) | cursor, lease of the stream, polling timer | resolve initial delivery, poll, heartbeat, finish | writes racing the poll, pruned sequences, the session ending | every event is delivered once and in order, or the client is told to reset |
| Sessions (`auth/`) | users, sessions with a refresh token hash, password hash | login, refresh, logout, logout everywhere, change password | two refreshes with one token, refresh racing logout or a password change | a revoked session never issues tokens; one rotation per token |
| Rate limiter (`auth/auth-rate-limiter.ts`) | a bounded map of windows in one process | consume, trim | windows have seams; a full map drops entries; one request counts for two keys | what passes in any window's length is bounded |
| AI review (`ai/`) | attempts, deadline, abort signals | review with repair and retry | the timeout races an answer and the caller's abort; two loops in each other | bounded attempts; an abort is reported as one |
| Redis client (`redis/redis.client.ts`) | the shared connection promise | connect, command with deadline | the deadline gives up what goes on; late replies | a command settles by its deadline |
| Web review workspace (`features/review`) | the form, the view, `requestVersion`, the active stream and cancellation | submit, check, reset, leave | up to five awaits per start, each may be overtaken; polls after a stream after a call | only the newest start shows; what is abandoned is cancelled; starts end |
| Web history page (`features/history`) | filters, page, selection, dialog | read, filter, page, select, delete | reads, a deletion and other tabs change the same list | what is deleted stays gone; the selection is on the screen |
| Usage pages and read model (`features/usage`, `usage/prisma-usage.repository.ts`) | the transport, the answers shown; the ledger | three reads; the summary's seven queries | the transport changes under a read; the queries run at different moments | figures are of the source that is named; a cost is of all rows |
| Web session client (`features/auth`) | access token in memory, cookie, one promise | sign in, refresh once, sign out, change password | single flight; page loads; lost answers | its own refreshes are not taken for reuse |
| Audit log, health, configuration, shared contracts | none that several actors change | - | - | - |

The components interact in three ways. *Calls*: the controller calls the coordinator, the coordinator
the processing service, that one the repository, the lock and the AI service. *Shared state*: instances
share only PostgreSQL rows and Redis keys; every cross-instance guarantee is a conditional `UPDATE`, a
unique index or a Lua script. *Callbacks*: the keepalive calls the lease fence and aborts the provider
call when the lease is lost; a user's cancel aborts the run of the same instance. The web client and the
API share *formats*: each checks what the other sends with lists of keys of its own.

### Behaviours that are hard to test

- Writes that arrive late: a run whose lease is gone still has a terminal write under way; a refresh, a
  logout and a password change hold what they read before an await.
- Two stores and no common transaction: Redis counts a unit of quota, PostgreSQL records it.
- Timers against each other: the renewal, the watchdog, the command deadline and the TTL in Redis; the
  lifetime of a stream, its polls and its lease.
- Replies that are lost after the command took effect: locks, leases, reservations, rotated tokens.
- Answers that arrive for an earlier question: a start that was overtaken, a page that was left, a
  transport that changed.
- A process that stops between two calls. Nothing is recovered at start; only conditional writes, unique
  indices, expiring keys and later requests keep the state sound.

## 2. Modules

| Module | Models | State | Actions |
|---|---|---|---|
| `ReviewRepository` | `review/prisma-review.repository.ts` for one review | `review`, `events`, `results`: the three tables | one operator per write; its `Can...` operator is the `WHERE` clause |
| `ReviewProcessing` (extends the former) | `ReviewProcessingService.process`, `ReviewRunCoordinator`, the lock scripts, the user's cancel, retry and delete | `run[i]` (the handler of instance *i*: program counter, token, generation, `aborted`, `lost`, `fence`), `lock`, `calls` (database calls issued and not yet executed), `lateSets` | one action per await of the handler; `CallApplied`, `CallMatchesNoRow`, `CallFails` are the database; `LeaseExpires`, `Crash` the environment |
| `ReviewAttempts` | what the two promise together | attempts with worker and verdict | `Begin`, `End`, `Withdraw`, `Requeue`, `Delete` |
| `LockKeepalive` | `ReviewLockKeepalive` against the TTL, in discrete time | ages of the cycle and of the command, what is left of the key | the two timers, the reply, the deadline, `Tick` |
| `QuotaAdmission` | `QuotaAdmissionHttpService.admit`, the Prisma admission repository and finalizer, `RESERVE_QUOTA_ADMISSION_SCRIPT` | `request[r]`, `rows`, `reviews`, `used` and `marker` in Redis | one action per database call and script, two for the finalizer |
| `AdmissionLedger` | what admission promises | what became of each key, what each request was told | `Grant`, `Refuse` and the answers |
| `ReviewEventStream` | `ReviewEventStreamService.stream` with `redis/redis.stream.ts` | `log`, and per stream the handler's variables by their names in the code (`delivered` is `deliveredSequence`, `finished`, `poll`) and the frames written | one action per await; timers; `Disconnect`, `Revoke`, `Delete`, `LifecycleStep` |
| `AuthSession` | `AuthService` login, refresh, logout, logoutAll, changePassword and `PrismaAuthRepository` | `password`, `sessions`, `requests` | one action per database call; `Answer` and `Fail` |
| `WebSession` (extends the former) | `authClient.ts`, the forms, the cookie of `AuthController`, page loads | `cookie`, `tab` (the module state), `calls`, `awaited` | `RefreshAccessToken`, `Login`, `SignOut`, `SubmitChange`, links and loads, and answers that arrive whole, in part or not at all |
| `RateLimiter` | `AuthRateLimiter` | `clock`, `buckets` (the bucket of each key, and which key was inserted before which) | `Attempt` (one request, for one or two keys), `TimePasses` |
| `AuthApi` | the three together | `followed` | one of: any requests, one browser, the limiter. The guard decides on its own state and its verdict is any verdict for the others, so a product would only multiply states |
| `RedisClient` | `RedisClientAdapter` with one command per caller | `socket`, `connecting`, `commands` | connect, settle, the two deadlines, execution (also late), the reply |
| `AiReview` | `AiReviewService.review` around `LunaOpenAiProvider` | `asks[c]` | `Ask`, `Responds`, `Deadline`, `Wakes`, `Abort`; the loops are functions on the state of a call |
| `GuestReview` (extends `AiReview`, instantiates `RedisClient`) | the guest controller and service, `RESERVE_QUOTA_SCRIPT` | `guest[g]`, `used`, `today` | reserve, the script, the answers, midnight, expiry |
| `ReviewWire` | the validators of both sides, as predicates on what they tell apart | none | none |
| `WebReview` (extends `ReviewWire`) | `useReviewWorkspace`, `ReviewWorkspace`, `reviewApi.ts`, `reviewPolling.ts` | `form`, `view`, `refs`, `runs` (each call of `startReview`), `server` | one action per await of a run, the user's actions, what the API does to each review |
| `WebHistory` (extends `ReviewWire`) | `HistoryWorkspace`, `reviewHistoryApi.ts`, the list and bulk deletion of the repository | `list`, `panel`, `selectedIds`, `dialog`, `reads`, `deletion`, `stored` | every handler; a read is a count and a page of rows at different moments |
| `WebUsage` | the three usage pages, `usageApi.ts`, the usage repository and read model | `screen`, `source`, `loads`, `ledger` | `SourceChanges`, the reads, each query of a summary |
| `WebPages` | the pages; an ordinary link between them loads the page anew | `page` | the actions of the page that is open |

`MC...` modules add symmetry sets and values for TLC, `..._proofs` modules the theorems. Operators under
a comment "Faulty variant" are used by no specification: each is a plausible mistake in the definition
that follows it, and putting it in place of that definition must make a property fail
(`PROJECT.json`, "mutants").

### Conventions

- An action is what happens between two awaits: within one process the event loop interleaves nothing
  there. A database call that matters while it is under way is issued in one step and executed in a
  later one, even after its run has gone.
- Tokens, leases, answers and admissions are named by the run or request that made them, for the random
  identifiers of the code. Hashes are what they are the hash of.
- Owner checks (`userId`) are left out: every model has one user or one review.
- `budget`, `Max...` and `LastDay` are bounds of the instances TLC explores. The theorems hold for every
  value of them.

### What the abstractions leave out

- *Review processing*: prompts and the content of answers; an AI call ends in an answer, a retryable or
  a final error. `fail()` may report FAILED although the row belongs to a later generation; the
  properties speak of answers, which are never wrong.
- *Quota*: one user and one mode, since counters and keys are per user and mode. A crash is a request
  that takes no further step. PostgreSQL runs at READ COMMITTED, its default, so the finalizer reads in
  one step and writes in another. The compensation script is called by no code and COMPENSATED is never
  reached; `findForOwner` never answers null after an insert; a replay of a deleted review ends in
  UNAVAILABLE as in the code.
- *Stream*: the log is a sequence that only grows (that is what `EventLogReplaysLifecycle` shows), so
  `isContiguous` and the check for pruned events have nothing to find. Heartbeats are not timed but
  bounded (`MaxHeartbeats` stands for lifetime / interval, 8 in the code). The lease of development
  without Redis is left out. A read and the code after it are one step.
- *Guests and AI*: guests share one identity, the only case in which they meet; a response is what the
  classification of the provider makes of it; usage figures are left out.
- *Web client*: rendering, export, formatting and the content of results. A body or a text is what the
  two validators tell apart (blank, padded, absent). The API beside a page is the state of the rows it
  reads, changed by other actors at any time; a request fails at any time.
- *Rate limiter*: keys are pairs of a scope and an address or an email, for hashes of them.
- *Sessions*: an expired refresh token is refused before anything is read, so the EXPIRED branch of
  `refresh` is never taken; no code changes the status of a user; registration is one insert under a
  unique email.

## 3. Runs

Every passing run finishes within three minutes on two workers. "Deadlock" is not checked where the
system may really stop: all requests answered, all bounds spent.

| Run | Question | Instance | Why it is enough |
|---|---|---|---|
| `review_safety` | Do answers stay true, are claims and leases never lost, can an overtaken run change anything, when one thing of each kind fails? | 2 instances, 2 runs, and either one of each fault and one user call, or two user calls and a crash (`SafetyBudgets`) | cancel, retry and a second claim is the shortest overtaking; one fault of each kind reaches every error path of `process` |
| `review_liveness` | Does every run end and every claim settle? | 2 instances, 2 runs, one user call and a crash | a failed write is the exception the properties name |
| `lock_keepalive` | Does a run that believes it holds the lock own it? | lease of 18, deadlines 3, lag 1 | the lengths meet `LeaseIsLongEnough` with nothing to spare by more than one tick |
| `quota_admission` | One review per key, every unit counted once, ledger implemented | 3 requests, 2 keys, 2 bodies, limit 1, one midnight, one failure of each store | two requests with one key and one with another meet at a limit of 1 |
| `quota_conflict` | violation: is an identical replay ever told CONFLICT? | 2 requests, one key | see findings |
| `stream` | Once, in order, nothing missed; every stream finishes | 1 stream, any cursor, log up to 4, replay bound 2 (64 in the code), a heartbeat, time in ticks | the bound is exceeded, met and not reached; the log grows at every await |
| `stream_lease` | One stream at a time | 2 streams, time in ticks | a late release or an expired lease needs two |
| `stream_left_open` | violation | 1 stream | see findings |
| `auth_sessions` | Sessions, tokens and passwords for any requests; the refreshes of a browser; the rate limit | 4 requests, one change, 2 page loads; 1 address, 2 emails, 3 buckets, limits 2 and 1 | login, refresh, and two that race suffice for every mutant; three keys of one scope and a fourth overfill the map |
| `guest_reviews` | The limit, the retries, the answers | 2 guests of one identity, or a processing run with an abort; limit 1, one retry in each loop, one midnight | the second guest is the one the limit refuses; both loops reach their last attempt |
| `web_pages` | The properties of the three kinds of page | 2 starts, 2 checks; 3 rows on pages of 2, 3 reads; 2 reviews in the ledger, 3 reads | the second start overtakes the first at each await; a last page with one row; two price lists |
| `result_unread` | violation | 1 start | see findings |

### Fairness

Weak fairness only, and never of a user, a crash or a fault.

- `ReviewProcessing`: a live process takes its next step (every await has a deadline: the provider's
  timeout, the command deadline), the database executes what was issued, the watchdog notices a lost
  lease (this is `LossIsNoticed` of `LockKeepalive`), Redis expires a key that nobody renews.
- `LockKeepalive`: time passes, due callbacks run, `withDeadline` rejects. Redis need not answer.
- `ReviewEventStream`: time passes, timers fire, reads answer or fail. Redis, the lifecycle and the
  client need do nothing.
- `GuestReview`: every await of a request has a deadline (connection, command, exchange), and pauses
  end. Redis and Luna need do nothing.
- `WebPages`: a request of a run is answered or fails, and the timer of a poll fires. What a stream
  brings is not promised; `RunsSettle` excepts a stream that stays open for ever, which the client has no
  deadline for.

### Findings

Disagreements between the code and what a document, comment or test of the repository says; each is the
violation of one property, and the counterexample is the schedule.

- `IdenticalReplayNeverConflicts`: two identical requests that race may end in 201 and 409, where the
  README promises 200 for the second.
- `EveryResponseEnds`: a failed read, or a deleted review, finishes a stream without ending its response.
- `CompletedResultIsShown`: the API answers a result with the usage as it is stored, with
  `estimatedCostMicros` and `pricingVersion`; the client allows neither key and shows an error for every
  completed review that has usage.

Noticed and not made a run, since no document says otherwise: the shortest lock TTL that
`usage/usage.config.ts:35` accepts (1 s) does not satisfy `LeaseIsLongEnough` (the default of 10 s does);
INDETERMINATE and RECONCILE_REQUIRED admissions are never resolved; the units of a day that are first
counted after midnight are not covered by its limit; a crash after the claim leaves a review PROCESSING
until its user cancels it; a heartbeat may carry the id of an event not delivered yet; `logout` answers
success when its database call failed; a login that verified a password just before it was changed
creates its session afterwards. A terminal write issued before the loss of the lease may be executed
before the fence: the answer is still the claimant's (`AnswerIsOfItsClaimant`). The lifetime timer may end
a response while a poll awaits a read.

In the web client: "Check for result" (`useReviewWorkspace.ts:197`) starts a new review and cancels the
one that is running, where `DESIGN.md:89` of the web application has it look for a result; a review
whose create call was under way when its page was left, or whose answer was lost, is never cancelled,
and after the polls are exhausted "Cancel run" sends nothing; deleting several rows of the last page
leaves an empty page; the notice of a deletion is erased by the reload that follows it; an item with a
context and no title, or with padded ones, makes the page of the history unreadable; after a result the
form may be edited, and the lines of the findings are then shown in a text that was not reviewed
(`ReviewWorkspace.tsx:563`); the usage history keeps its page and filters when the transport changes,
and one paint shows the old figures under the new source. A page that is reloaded, or opened twice,
while a refresh is under way sends the exchanged cookie again, and the session is revoked; a refresh
answered after a sign-in overwrites its token, and a refused one clears its cookie; a failed database
call of a refresh clears the cookie of a session that is active; an access token that expired is not
refreshed before the next page load. A request that the rate limit refuses for one key starts the window
of its other key.

## 4. Proofs

TLAPS proves the theorems below for every value of the constants that satisfies the named assumptions.

| Theorem | Of | Assumptions on constants |
|---|---|---|
| `KeepaliveHoldsTheLease` (`LockKeepalive_proofs`) | a run whose keepalive reported no loss owns the key | `TimesAssumption`, `LeaseIsLongEnough` |
| `RepositoryStepKeepsInvariant` (`ReviewRepository_proofs`) | any write, with any arguments, keeps types, event log and result | `LimitsAssumption` |
| `TypesHold`, `EventLogHolds`, `ResultHolds`, `AnswerHolds`, `ClaimantSettles` (`ReviewProcessing_proofs`) | type correctness and the safety of the durable review | `LimitsAssumption`, `BoundsAssumption`, `AnswersAssumption` |
| `AnswersStayTrue`, `NoClaimIsLeft`, `LeaseIsNotStolen` (the same) | what runs report, the claims they leave, the lease they work under | the same |
| `AttemptsAreImplemented` (the same) | the refinement of `ReviewAttempts` | the same |
| `TypesHold`, `AgreementHolds`, `ReuseRefused`, `ImplementsTheLedger` (`QuotaAdmission_proofs`) | admission and its refinement of `AdmissionLedger` | `BoundsAssumption`, `NoRowAssumption` |
| `UnitsAreCounted`, `LimitHolds` (the same) | the counter in Redis against the rows | the same and `RequestsAssumption` |
| `StreamsExclude` (`ReviewEventStream_proofs`) | at most one stream is served | `LengthsAssumption`, `LeaseOutlivesStream` |
| `TypesHold`, `DeliveredInOrder`, `ResumeIsComplete` (the same) | what a stream writes | the same |
| `TypeCorrect`, `ExchangedOnce`, `RefusalEnds`, `AnswersWork`, `LogoutEnds`, `ChangeEndsSessions`, `ChangesAreOrdered`, `RevokedStays` (`AuthSession_proofs`) | every property of `AuthSession`, for its own `Spec` | `RequestsAssumption` |
| `SingleFlightIsSafe`, `SessionsHoldInTheApi`, `RateIsKept` (the same) | the browser, the sessions beside it and the rate limit, for `ApiSpec`, which the run checks | `RequestsAssumption`, `PoliciesAssumption` |
| `TypesHold`, `LimitHolds`, `UnitIsTaken`, `CallsAreBounded`, `AbortReported`, `RetriesAreMade` (`GuestReview_proofs`) | the limit of the guests, the loops around Luna and what they report | `RetriesAssumption`, `GuestsAssumption` |
| `ResultIsOfLastDraft`, `AbandonedAreCancelled` (`WebPages_proofs`) | the workspace | `WorkspaceAssumption` |
| `OnlyShownAreSelected`, `DeletedAreNotShown` (the same) | the history page | `HistoryAssumption` |
| `FiguresAreOfTheSource`, `CostCoversAllRows` (the same) | the usage pages | `UsageAssumption` |

The arguments, by their inductive invariants:

- `LeaseInvariant` relates the ages of the cycle and of the command under way to what is left of the TTL.
  `HeldMeansOwned` alone is not inductive: it says nothing of how long the key will last. 
- `RepositoryInvariant` needs nothing of its callers, so it is proved for arbitrary arguments, and
  `ReviewProcessing` inherits it step by step. `ClaimInvariant` adds that claims are made once per
  generation, that the generation of a handler or of a call under way is one its run claimed, and that
  no claim is ahead of the row; with the `WHERE` clause on the generation this makes every late write
  harmless.
- `SettlementInvariant` follows a run from its claim to its report. None of the three properties it
  carries is inductive: a report is made many steps after the call that makes it true, so the invariant
  says what is known at each program counter of the handler (`RunFits`): before the claim the run has
  none (`Unclaimed`); at the release, and where a terminal write found no row, its claim is `Settled`;
  with the reply of a fence its answer can no longer appear (`Closed`). `ClaimsOnce` says that a claim
  under way has its run waiting for it; without it a late claim could follow the report. `TokensAreFresh`
  keeps the runs apart. A crash or a failed write puts the run among `faulted`, which the conclusions
  about claims except.
- `AttemptInvariant` says that the events and the claims tell one attempt per generation. The refinement
  mapping computes worker and verdict of each attempt from them (`AttemptsIn`); it is shown for each
  write what it makes of that function, and that every other step is a stutter.
- `AdmissionInvariant` is `TypeOK`, `ReviewIffAdmitted` and `Sound`: what each handler remembers of the
  row between two calls is still implied by the row's status. `RowStep` and `ReviewStep` classify the
  steps; each class maps to a step of the ledger or to a stutter.
- `UnitInvariant` explains why the counter is right although a script may run late and twice.
  `NamesAgree`: whatever admission a request works on was proposed under its key for its day.
  `UnitsAgree`: the counter of a day is the number of markers of that day, and today's admissions counted
  on time still have theirs; after midnight counters and markers go together, which is why the limit is
  stated of those counted on time. `ReservedWasCharged`: what a row, or a request about to write it, calls
  RESERVED has been counted.
- `StreamInvariant` accounts for time: what is left of the lease and the age of a stream sum up to the
  lease's length (`GrantedOwns`, `RunningOwns`), and a release is only under way for a stream that has
  finished (`CommandFitsPhase`). `PollsWhenOpen` keeps closed streams closed.
- `DeliveryInvariant` adds what was written: the frames bring the client from where it resumed to
  `delivered` in order (`InOrder`) and without a gap (`Covers`), and what the initial delivery resolved
  while the lease is being acquired is still the next to be written (`InitialFits`), although the log grows.
- `SessionInvariant`: requests not answered yet have issued no token and no session (`FreshTokens`,
  without which an exchange could repeat a token), the current token was not exchanged
  (`CurrentNotExchanged`), what is known of a request is true before it is delivered too (`OutcomesTrue`,
  `DeliveredTrue`) and password changes differ in what they verified (`ChangesDiffer`). `SessionStep`
  says that a step keeps, creates, exchanges or revokes; each part of the invariant is preserved by each.
- `ApiInvariant` puts the browser beside the sessions. `BrowserInvariant` says, as long as no answer to an
  exchange was lost, that one exchange at most is under way (`SingleFlight`) and that the cookie is the
  current token of its session, or the one the exchange under way has replaced (`CookieIsCurrent`).
  `CookieGiven` says that a cookie was the answer of a request, which makes a call of the browser a
  request that `SessionInvariant` allows.
- `LimiterInvariant` places what passed in the last window's length in the bucket it was counted in
  (`RateHolds`): buckets of one key do not overlap, each has let through its limit at most, and the one
  that runs no more than its count. Three buckets do not fit into one window's length
  (`TwiceTheLimit`). That `trim` keeps the buckets that run is counted on the map (`TrimKeeps`): a map
  with no more than `MaxBuckets` keys has fewer than `MaxBuckets` after each of them.
- `WorkspaceInvariant`: the starts have increasing versions (`StartsAreOrdered`), and the one that is
  current is the newest, owns the draft, the result and the cancellation (`CurrentIsNewest`).
  `HistoryInvariant`: a read that is current waits with the list in loading, and has read no row whose
  deletion was answered (`LiveReadIsFresh`); what was answered was deleted before (`DeletionsHold`).
  `UsageInvariant`: a current read under way is of the present source.
- `Invariant` of `GuestReview_proofs` has three parts. `CallInvariant` holds of the state of each call:
  what it has exchanged fits the counters of its two loops (`Counted`), and what it reports fits how it
  ended (`Reported`); since the loops are functions on that state, it is proved of `StartRound`,
  `AfterError` and `AfterAnswer` first. `GuestInvariant` ties the decision of the script to the progress
  of the command, and the call to a command that was replied to. `QuotaInvariant` says that today's
  counter is no less than the guests counted on time; counters of days before may have expired, which is
  why `GuestsWithinLimit` alone is not inductive.

Type invariants, `LeaseInvariant`, `RevokedForGood`, `CallsBounded`, `NoAskWithoutUnit` and the like are
proved and not among the properties of the runs: the runs are spent on what an instance can refute.

Every safety property, action property and refinement of the passing runs is proved. Only model-checked:
liveness (`EveryRunEnds`, `ClaimSettles`, `LossIsNoticed`, `EveryStreamFinishes`, `EveryGuestAnswered`,
`RunsSettle`), since liveness under fairness and ENABLED are out of the prover's reach; and what the
recursive folds and functions of the models compute (the loops of `AiReview` as a whole, the pages of
`WebHistory`), of which the proofs use only what one step says. The violations are schedules and have
nothing to prove. `ApiSpec` and `WebSpec` follow one of their parts at a time, so `SessionsHoldInTheApi`
and `RateIsKept` do not speak of interactions between the guard and the handlers: there are none in the
code beyond the verdict.

## 5. Not modelled

The audit log (one best-effort insert that nothing reads back), health, configuration, the shared
contracts, rendering and export: no state that several actors change. In the modelled parts: the
cryptography of tokens and hashes, prompts and the content of answers, logging, the in-memory twins of
the repositories that serve development and tests, the local stream lease without Redis.

## 6. Plan

Done, in the order of what a mistake would cost: `ReviewRepository`, `ReviewProcessing`,
`ReviewAttempts`, `LockKeepalive`; `QuotaAdmission`, `AdmissionLedger`; `ReviewEventStream`;
`AuthSession`; `GuestReview` with `AiReview` and `RedisClient`; the web pages; `WebSession`,
`RateLimiter` and their composition `AuthApi`.

Next: the in-memory twins of the repositories as implementations of the same operators, and the client
of the event stream composed with `ReviewEventStream` (a reconnect with the id of a heartbeat).

Theorems next: what is behind the liveness properties and can be said of single steps: that a run that
has not ended, or a stream that has not finished, has a step whose guard holds, and that the steps of a
run, of the loops of `AiReview` and of the polls of a start decrease a measure; action properties of the
web pages (a page never goes back to an earlier answer).
