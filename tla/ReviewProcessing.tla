--------------------------- MODULE ReviewProcessing ---------------------------
(***************************************************************************)
(* Processing runs of one review by several API instances.                 *)
(*                                                                         *)
(* A run (ReviewProcessingService.process) reads the review, takes the     *)
(* Redis lease of the review, claims the durable row, asks the AI provider *)
(* for an answer and writes a terminal state; a keepalive renews the lease *)
(* and, when it is lost, fences the claimed generation.  Within one        *)
(* instance ReviewRunCoordinator keeps at most one run per review, so run  *)
(* is a function from instances to the run they have.  Users cancel, retry *)
(* and delete the review through any instance.                             *)
(*                                                                         *)
(* A database call is issued in one step and executed by the database in a *)
(* later one: calls holds those issued and not yet executed.  They outlive *)
(* the run that issued them, which is how a delayed terminal write of an   *)
(* abandoned or crashed run meets the claims of later runs.  The reply is  *)
(* delivered with the execution: until a run has its reply it does nothing *)
(* else that another process can see, and the only things that can reach   *)
(* it meanwhile are its two flags, aborted and lost, which it reads when   *)
(* the reply arrives.                                                      *)
(*                                                                         *)
(* Every run has a token, as every lock acquisition does; the answer that  *)
(* a run obtains from the AI provider is named by the token too.           *)
(***************************************************************************)
EXTENDS ReviewRepository, FiniteSets

CONSTANTS Instances, \* API processes
          MaxRuns,   \* bound on the runs started
          Budgets    \* bounds: how many user requests, crashes, failed database
                     \* calls and failed lock commands a behaviour may see

Tokens == 1 .. MaxRuns
NoToken == 0

BudgetKinds == {"user", "crash", "db", "redis"}

ASSUME BoundsAssumption ==
  /\ MaxRuns \in Nat
  /\ Budgets \subseteq [BudgetKinds -> Nat]
ASSUME AnswersAssumption == Answers = Tokens

VARIABLES run,       \* the run of each instance, idleRun when it has none
          lock,      \* the token stored under the Redis lock key, or NoToken
          lateSets,  \* tokens of SET commands that timed out and may still execute
          calls,     \* database calls issued and not yet executed
          lastToken, \* tokens handed out so far
          claims,    \* history: which run claimed which generation
          reported,  \* history: what each run answered its caller
          expired,   \* history: runs whose lease Redis expired
          faulted,   \* history: runs that crashed or lost a database call
          budget     \* user calls, crashes and faults still to come at most

vars == <<review, events, results, run, lock, lateSets, calls, lastToken,
          claims, reported, expired, faulted, budget>>

-------------------------------------------------------------------------------
(* The state of a run. *)

\* From keepalive.start to keepalive.stop.
KeepalivePcs == {"claiming", "claimMissed", "reviewing", "completing", "failing",
                 "completeMissed", "failMissed", "cancelling", "cancelMissed",
                 "awaitFence", "fallback", "fallbackMissed"}

\* Where runFinalizationWithLock or the provider call races the loss of the lease.
RacesLossPcs == {"reviewing", "completing", "failing", "completeMissed", "failMissed"}

Pcs == {"idle", "acquiring", "contended", "releasing"} \cup KeepalivePcs

Outcomes == {"COMPLETED", "FAILED", "CANCELLED", "ALREADY_COMPLETED",
             "ALREADY_PROCESSING", "RETRY_REQUIRED", "STALE_CLAIM",
             "CLAIM_CONFLICT", "FINALIZATION_CONFLICT", "REVIEW_NOT_FOUND",
             "LOCK_UNAVAILABLE", "ERROR"}

idleRun == [ pc |-> "idle", token |-> NoToken, generation |-> 0, aborted |-> FALSE,
             lost |-> FALSE, fence |-> "none", outcome |-> "none" ]

\* The database call a run waits for at each pc.
AwaitedOp == [ claiming |-> "claim", completing |-> "complete", failing |-> "fail",
               cancelling |-> "cancel", fallback |-> "cancel" ]

Call(op, r) == [op |-> op, token |-> r.token, generation |-> r.generation]
userCall(op) == [op |-> op, token |-> NoToken, generation |-> 0]

\* The calls a run issues when its state changes from r to s.  The lease fence
\* (ReviewProcessingLeaseFence) is issued beside whatever the run awaits.
Issued(r, s) ==
  {Call(AwaitedOp[pc], s) : pc \in {s.pc} \cap (DOMAIN AwaitedOp \ {r.pc})}
    \cup {Call("fence", x) : x \in IF r.fence = "none" /\ s.fence = "pending"
                                   THEN {s} ELSE {}}

StepOf(i, s) == /\ run' = [run EXCEPT ![i] = s]
                /\ calls' = calls \cup Issued(run[i], s)

Finish(r, outcome) == [r EXCEPT !.pc = "releasing", !.outcome = outcome]

\* startIfNeeded: the fence starts once the loss and the generation are known.
StartFence(r) ==
  IF r.lost /\ r.generation # 0 /\ r.fence = "none"
  THEN [r EXCEPT !.fence = "pending"] ELSE r

\* Faulty variant: the run answers before its fence has settled.
DivertedAtOnce(r, otherwise) ==
  IF r.lost THEN Finish(r, "CANCELLED")
  ELSE IF r.aborted THEN [r EXCEPT !.pc = "cancelling"]
  ELSE otherwise

\* The three-way test the service repeats after every await: an aborted or
\* fenced-off run turns to cancellation whatever the awaited call brought.
Diverted(r, otherwise) ==
  IF r.lost THEN [r EXCEPT !.pc = "awaitFence"]
  ELSE IF r.aborted THEN [r EXCEPT !.pc = "cancelling"]
  ELSE otherwise

\* What a run makes of the status it re-reads after a call that matched no row.
StatusOutcome(byStatus) ==
  IF review.deleted THEN "REVIEW_NOT_FOUND" ELSE byStatus[review.status]

lockContention ==
  StatusOutcome([ PENDING |-> "CLAIM_CONFLICT", PROCESSING |-> "ALREADY_PROCESSING",
                  COMPLETED |-> "ALREADY_COMPLETED", FAILED |-> "CLAIM_CONFLICT",
                  CANCELLED |-> "CLAIM_CONFLICT" ])

classifyNonClaimed ==
  StatusOutcome([ PENDING |-> "CLAIM_CONFLICT", PROCESSING |-> "ALREADY_PROCESSING",
                  COMPLETED |-> "ALREADY_COMPLETED", FAILED |-> "RETRY_REQUIRED",
                  CANCELLED |-> "RETRY_REQUIRED" ])

\* complete and cancel classify alike; fail reports its own failure for FAILED.
classifyMissed(failed) ==
  StatusOutcome([ PENDING |-> "FINALIZATION_CONFLICT", PROCESSING |-> "STALE_CLAIM",
                  COMPLETED |-> "ALREADY_COMPLETED", FAILED |-> failed,
                  CANCELLED |-> "CANCELLED" ])

-------------------------------------------------------------------------------
Init ==
  /\ create
  /\ run = [i \in Instances |-> idleRun]
  /\ lock = NoToken
  /\ lateSets = {}
  /\ calls = {}
  /\ lastToken = 0
  /\ claims = {}
  /\ reported = [t \in Tokens |-> "none"]
  /\ expired = {}
  /\ faulted = {}
  /\ budget \in Budgets

Spend(kind) == /\ budget[kind] > 0
               /\ budget' = [budget EXCEPT ![kind] = @ - 1]

\* process: the run enters the coordinator's map and finds the review.  A second
\* process request on the same instance joins the run and changes nothing.
StartRun(i) ==
  /\ run[i].pc = "idle"
  /\ lastToken < MaxRuns
  /\ ~review.deleted
  /\ lastToken' = lastToken + 1
  /\ run' = [run EXCEPT ![i] = [idleRun EXCEPT !.pc = "acquiring",
                                               !.token = lastToken + 1]]
  /\ UNCHANGED <<repositoryVars, lock, lateSets, calls, claims, reported,
                 expired, faulted, budget>>

\* SET NX PX answered OK: the keepalive starts and the claim is issued.
AcquireLock(i) ==
  /\ run[i].pc = "acquiring"
  /\ lock = NoToken
  /\ lock' = run[i].token
  /\ StepOf(i, [run[i] EXCEPT !.pc = "claiming"])
  /\ UNCHANGED <<repositoryVars, lateSets, lastToken, claims, reported,
                 expired, faulted, budget>>

AcquireContended(i) ==
  /\ run[i].pc = "acquiring"
  /\ lock # NoToken
  /\ StepOf(i, [run[i] EXCEPT !.pc = "contended"])
  /\ UNCHANGED <<repositoryVars, lock, lateSets, lastToken, claims, reported,
                 expired, faulted, budget>>

\* The run ends without having held the lease: its promise settles and the
\* coordinator forgets it.
EndWithoutLock(i, outcome) ==
  /\ run' = [run EXCEPT ![i] = idleRun]
  /\ reported' = [reported EXCEPT ![run[i].token] = outcome]
  /\ UNCHANGED <<repositoryVars, lock, calls, lastToken, claims, expired, faulted>>

ReadContended(i) ==
  /\ run[i].pc = "contended"
  /\ EndWithoutLock(i, lockContention)
  /\ UNCHANGED <<lateSets, budget>>

\* The SET failed or timed out.  Nobody recalls a timed-out command: Redis may
\* still execute it, and then the lease stands until its TTL runs out.
AcquireUnavailable(i) ==
  /\ run[i].pc = "acquiring"
  /\ Spend("redis")
  /\ lateSets' = lateSets \cup {run[i].token}
  /\ EndWithoutLock(i, "LOCK_UNAVAILABLE")

LateSetExecutes(t) ==
  /\ t \in lateSets
  /\ lock = NoToken
  /\ lock' = t
  /\ lateSets' = lateSets \ {t}
  /\ UNCHANGED <<repositoryVars, run, calls, lastToken, claims, reported,
                 expired, faulted, budget>>

\* The PX timeout of the lock key.  It can strike a run that is alive: its event
\* loop may be stalled, its renewals lost.
LeaseExpires ==
  /\ lock # NoToken
  /\ lock' = NoToken
  /\ expired' = expired \cup {lock}
  /\ UNCHANGED <<repositoryVars, run, lateSets, calls, lastToken, claims,
                 reported, faulted, budget>>

\* ReviewLockKeepalive.lose: a renewal was refused, failed or late.  A late or
\* failed renewal says nothing of the key in Redis, so any run may lose.
LoseLease(i) ==
  /\ run[i].pc \in KeepalivePcs
  /\ ~run[i].lost
  /\ StepOf(i, StartFence([run[i] EXCEPT !.lost = TRUE]))
  /\ UNCHANGED <<repositoryVars, lock, lateSets, lastToken, claims, reported,
                 expired, faulted, budget>>

-------------------------------------------------------------------------------
(* Between the claim and the terminal write. *)

Running(i, s) ==
  /\ StepOf(i, s)
  /\ UNCHANGED <<repositoryVars, lock, lateSets, lastToken, claims, reported,
                 expired, faulted, budget>>

ReadClaimMissed(i) ==
  /\ run[i].pc = "claimMissed"
  /\ LET outcome == classifyNonClaimed
         thrown == outcome \in {"CLAIM_CONFLICT", "REVIEW_NOT_FOUND"}
     IN  Running(i, Finish(run[i],
           IF ~thrown /\ run[i].lost /\ ~run[i].aborted THEN "LOCK_UNAVAILABLE"
                                                        ELSE outcome))

AiAnswers(i) ==
  /\ run[i].pc = "reviewing"
  /\ Running(i, Diverted(run[i], [run[i] EXCEPT !.pc = "completing"]))

AiFails(i) ==
  /\ run[i].pc = "reviewing"
  /\ Running(i, Diverted(run[i], [run[i] EXCEPT !.pc = "failing"]))

\* The provider reports a cancellation of its own accord.
AiCancels(i) ==
  /\ run[i].pc = "reviewing"
  /\ Running(i, Diverted(run[i], [run[i] EXCEPT !.pc = "cancelling"]))

\* The loss wins the race; the provider call or the terminal write it raced is
\* abandoned, not recalled.
LossWakes(i) ==
  /\ run[i].pc \in RacesLossPcs
  /\ run[i].lost
  /\ Running(i, [run[i] EXCEPT !.pc = "awaitFence"])

ReadCompleteMissed(i) ==
  /\ run[i].pc = "completeMissed"
  /\ Running(i, Diverted(run[i], Finish(run[i], classifyMissed("RETRY_REQUIRED"))))

ReadFailMissed(i) ==
  /\ run[i].pc = "failMissed"
  /\ Running(i, Diverted(run[i], Finish(run[i], classifyMissed("FAILED"))))

ReadCancelMissed(i) ==
  /\ run[i].pc = "cancelMissed"
  /\ Running(i, Finish(run[i], classifyMissed("RETRY_REQUIRED")))

\* Faulty variant: without the cancellation that follows a failed fence.
AwaitFenceOnly(i) ==
  /\ run[i].pc = "awaitFence"
  /\ run[i].fence \in {"cancelled", "missed", "failed"}
  /\ Running(i, Finish(run[i], IF run[i].fence = "cancelled" THEN "CANCELLED"
                                                            ELSE "LOCK_UNAVAILABLE"))

\* cancelAfterLeaseLoss: a fence that cancelled the review settles the run, any
\* other outcome of the fence is followed by a cancellation of the run's own.
AwaitFence(i) ==
  /\ run[i].pc = "awaitFence"
  /\ \/ /\ run[i].fence = "cancelled"
        /\ Running(i, Finish(run[i], "CANCELLED"))
     \/ /\ run[i].fence \in {"missed", "failed"}
        /\ Running(i, [run[i] EXCEPT !.pc = "fallback"])

\* The error of a rejected fence is rethrown when the fallback did cancel.
FallbackOutcome(r, outcome) ==
  IF r.fence = "failed" /\ outcome = "CANCELLED" THEN "ERROR" ELSE outcome

ReadFallbackMissed(i) ==
  /\ run[i].pc = "fallbackMissed"
  /\ Running(i, Finish(run[i],
       FallbackOutcome(run[i], classifyMissed("RETRY_REQUIRED"))))

\* Faulty variant: DEL without the comparison of the token.
ReleaseAnyLock(i) ==
  /\ run[i].pc = "releasing"
  /\ lock' = NoToken
  /\ run' = [run EXCEPT ![i] = idleRun]
  /\ reported' = [reported EXCEPT ![run[i].token] = run[i].outcome]
  /\ UNCHANGED <<repositoryVars, lateSets, calls, lastToken, claims, expired,
                 faulted, budget>>

\* The finally block: the keepalive has stopped, the compare-and-delete script
\* runs, and the coordinator forgets the run.
ReleaseLock(i) ==
  /\ run[i].pc = "releasing"
  /\ lock' = IF lock = run[i].token THEN NoToken ELSE lock
  /\ run' = [run EXCEPT ![i] = idleRun]
  /\ reported' = [reported EXCEPT ![run[i].token] = run[i].outcome]
  /\ UNCHANGED <<repositoryVars, lateSets, calls, lastToken, claims, expired,
                 faulted, budget>>

\* releaseLockBestEffort swallows a Redis failure; the TTL is the fallback.
ReleaseUnavailable(i) ==
  /\ run[i].pc = "releasing"
  /\ Spend("redis")
  /\ EndWithoutLock(i, run[i].outcome)
  /\ UNCHANGED lateSets

-------------------------------------------------------------------------------
(* The database executes a call. *)

Applies(c) ==
  CASE c.op = "claim" -> CanTransition({"PENDING"}, "PROCESSING", AnyGeneration)
    [] c.op \in {"complete", "fence"} -> CanLeaveProcessing(c.generation)
    [] c.op = "fail" -> CanTransition({"PROCESSING"}, "FAILED", {c.generation})
    [] c.op = "cancel" -> CanTransition({"PROCESSING"}, "CANCELLED", {c.generation})
    [] c.op = "userCancel" -> CanTransition(allowedSourceStatuses("CANCELLED"),
                                            "CANCELLED", AnyGeneration)
    [] c.op = "userRetry" -> CanTransition(allowedSourceStatuses("PENDING"),
                                           "PENDING", AnyGeneration)

ClaimWrites(c) ==
  /\ c.op = "claim"
  /\ transitionForUser({"PENDING"}, "PROCESSING", AnyGeneration)
  /\ claims' = claims \cup {[generation |-> review.generation + 1, answer |-> c.token]}

RunWrites(c) ==
  /\ \/ /\ c.op = "complete"
        /\ finalizeForUser(c.generation, c.token)
     \/ /\ c.op = "fence"
        /\ fenceProcessingForUser(c.generation)
     \/ /\ c.op = "fail"
        /\ transitionForUser({"PROCESSING"}, "FAILED", {c.generation})
     \/ /\ c.op = "cancel"
        /\ transitionForUser({"PROCESSING"}, "CANCELLED", {c.generation})
  /\ UNCHANGED claims

UserWrites(c) ==
  /\ \/ /\ c.op = "userCancel"
        /\ transitionForUser(allowedSourceStatuses("CANCELLED"), "CANCELLED",
                             AnyGeneration)
     \/ /\ c.op = "userRetry"
        /\ transitionForUser(allowedSourceStatuses("PENDING"), "PENDING",
                             AnyGeneration)
  /\ UNCHANGED claims

Writes(c) == ClaimWrites(c) \/ RunWrites(c) \/ UserWrites(c)

\* Faulty variant: the fence is not started when the loss preceded the claim.
ClaimReplyUnfenced(r, reply) ==
  CASE reply = "ok" -> [r EXCEPT !.generation = review.generation + 1,
                                 !.pc = IF r.lost THEN "awaitFence" ELSE "reviewing"]
    [] reply = "missed" -> [r EXCEPT !.pc = "claimMissed"]
    [] reply = "error" -> Finish(r, "ERROR")

\* The replies, as the run that waits for them handles them.
ClaimReply(r, reply) ==
  CASE reply = "ok" ->
         LET claimed == StartFence([r EXCEPT !.generation = review.generation + 1])
         IN  [claimed EXCEPT !.pc = IF r.lost THEN "awaitFence" ELSE "reviewing"]
    [] reply = "missed" -> [r EXCEPT !.pc = "claimMissed"]
    [] reply = "error" -> Finish(r, "ERROR")

CompleteReply(r, reply) ==
  CASE reply = "ok" -> Diverted(r, Finish(r, "COMPLETED"))
    [] reply = "missed" -> [r EXCEPT !.pc = "completeMissed"]
    [] reply = "error" -> Diverted(r, Finish(r, "ERROR"))

FailReply(r, reply) ==
  CASE reply = "ok" -> Diverted(r, Finish(r, "FAILED"))
    [] reply = "missed" -> [r EXCEPT !.pc = "failMissed"]
    [] reply = "error" -> Diverted(r, Finish(r, "ERROR"))

CancelReply(r, reply) ==
  CASE reply = "ok" ->
         Finish(r, IF r.pc = "fallback" THEN FallbackOutcome(r, "CANCELLED")
                                        ELSE "CANCELLED")
    [] reply = "missed" ->
         [r EXCEPT !.pc = IF r.pc = "fallback" THEN "fallbackMissed" ELSE "cancelMissed"]
    [] reply = "error" -> Finish(r, "ERROR")

\* Faulty variant: a fence that matched no row never settles.
FenceReplyIfApplied(r, reply) ==
  [r EXCEPT !.fence = CASE reply = "ok" -> "cancelled"
                        [] reply = "missed" -> "pending"
                        [] reply = "error" -> "failed"]

FenceReply(r, reply) ==
  [r EXCEPT !.fence = CASE reply = "ok" -> "cancelled"
                        [] reply = "missed" -> "missed"
                        [] reply = "error" -> "failed"]

Handled(r, op, reply) ==
  CASE op = "claim" -> ClaimReply(r, reply)
    [] op = "complete" -> CompleteReply(r, reply)
    [] op = "fail" -> FailReply(r, reply)
    [] op = "cancel" -> CancelReply(r, reply)
    [] op = "fence" -> FenceReply(r, reply)

\* A run that moved on, or crashed, does not hear the reply.
Hears(r, c) ==
  /\ c.token # NoToken
  /\ r.token = c.token
  /\ \/ c.op = "fence"
     \/ r.pc \in DOMAIN AwaitedOp /\ AwaitedOp[r.pc] = c.op

Deliver(c, reply) ==
  /\ run' = [i \in Instances |-> IF Hears(run[i], c) THEN Handled(run[i], c.op, reply)
                                                     ELSE run[i]]
  /\ calls' = (calls \ {c}) \cup UNION {Issued(run[i], run'[i]) : i \in Instances}

CallApplied(c) ==
  /\ c \in calls
  /\ Writes(c)
  /\ Deliver(c, "ok")
  /\ UNCHANGED <<lock, lateSets, lastToken, reported, expired, faulted, budget>>

CallMatchesNoRow(c) ==
  /\ c \in calls
  /\ ~Applies(c)
  /\ Deliver(c, "missed")
  /\ UNCHANGED <<repositoryVars, lock, lateSets, lastToken, claims, reported,
                 expired, faulted, budget>>

\* The caller gets an error.  The transaction was rolled back, or it committed
\* and its acknowledgement was lost.  A validation error that finalizeForUser
\* raises before its transaction is the first case.
CallFails(c) ==
  /\ c \in calls
  /\ Spend("db")
  /\ \/ Writes(c)
     \/ UNCHANGED <<repositoryVars, claims>>
  /\ Deliver(c, "error")
  /\ faulted' = IF c.op \in {"fence", "userCancel", "userRetry"} THEN faulted
                ELSE faulted \cup {c.token}
  /\ UNCHANGED <<lock, lateSets, lastToken, reported, expired>>

\* findCurrentOrThrow fails after a call that matched no row.
ReadFails(i) ==
  /\ run[i].pc \in {"contended", "claimMissed", "completeMissed", "failMissed",
                    "cancelMissed", "fallbackMissed"}
  /\ Spend("db")
  /\ StepOf(i, IF run[i].pc \in {"completeMissed", "failMissed"}
               THEN Diverted(run[i], Finish(run[i], "ERROR"))
               ELSE Finish(run[i], "ERROR"))
  /\ UNCHANGED <<repositoryVars, lock, lateSets, lastToken, claims, reported,
                 expired, faulted>>

-------------------------------------------------------------------------------
(* Users and crashes. *)

\* POST :id/cancel: abort the run of this instance, if any, then the transition.
UserCancel(i) ==
  /\ Spend("user")
  /\ run' = [run EXCEPT ![i].aborted = (run[i].pc # "idle")]
  /\ calls' = calls \cup {userCall("userCancel")}
  /\ UNCHANGED <<repositoryVars, lock, lateSets, lastToken, claims, reported,
                 expired, faulted>>

\* POST :id/retry: waitForIdle, then the transition.
UserRetry(i) ==
  /\ Spend("user")
  /\ run[i].pc = "idle"
  /\ calls' = calls \cup {userCall("userRetry")}
  /\ UNCHANGED <<repositoryVars, run, lock, lateSets, lastToken, claims, reported,
                 expired, faulted>>

\* DELETE :id, and every bulk deletion that names the review.
UserDelete ==
  /\ Spend("user")
  /\ softDeleteForUser
  /\ UNCHANGED <<run, lock, lateSets, calls, lastToken, claims, reported,
                 expired, faulted>>

\* The process dies.  Its lease stays in Redis, its issued calls stay issued.
Crash(i) ==
  /\ run[i].pc # "idle"
  /\ Spend("crash")
  /\ run' = [run EXCEPT ![i] = idleRun]
  /\ faulted' = faulted \cup {run[i].token}
  /\ UNCHANGED <<repositoryVars, lock, lateSets, calls, lastToken, claims,
                 reported, expired>>

-------------------------------------------------------------------------------
RunStep(i) ==
  \/ AcquireLock(i) \/ AcquireContended(i) \/ ReadContended(i)
  \/ ReadClaimMissed(i)
  \/ AiAnswers(i) \/ AiFails(i) \/ AiCancels(i)
  \/ LossWakes(i)
  \/ ReadCompleteMissed(i) \/ ReadFailMissed(i) \/ ReadCancelMissed(i)
  \/ AwaitFence(i) \/ ReadFallbackMissed(i)
  \/ ReleaseLock(i)

Next ==
  \/ \E i \in Instances :
       \/ StartRun(i) \/ RunStep(i) \/ AcquireUnavailable(i) \/ LoseLease(i)
       \/ ReleaseUnavailable(i) \/ ReadFails(i) \/ UserCancel(i) \/ UserRetry(i) \/ Crash(i)
  \/ \E c \in calls : CallApplied(c) \/ CallMatchesNoRow(c) \/ CallFails(c)
  \/ \E t \in lateSets : LateSetExecutes(t)
  \/ LeaseExpires
  \/ UserDelete

Spec == Init /\ [][Next]_vars

\* What the runtime guarantees: a live process takes its next step (the provider
\* client has a timeout), the database executes what was issued, the watchdog
\* notices a lease that is gone, and Redis expires a lease nobody renews.
HoldsLease(i) == run[i].pc \in KeepalivePcs /\ run[i].token = lock

NoticeLoss(i) == run[i].token # lock /\ LoseLease(i)

ExpireAbandonedLease == (\A i \in Instances : ~HoldsLease(i)) /\ LeaseExpires

Fairness == /\ \A i \in Instances : WF_vars(RunStep(i)) /\ WF_vars(NoticeLoss(i))
            /\ WF_vars(\E c \in calls : CallApplied(c) \/ CallMatchesNoRow(c))
            /\ WF_vars(ExpireAbandonedLease)

FairSpec == Spec /\ Fairness

-------------------------------------------------------------------------------
(* Properties. *)

RunStates == [ pc : Pcs, token : Tokens \cup {NoToken}, generation : Nat,
               aborted : BOOLEAN, lost : BOOLEAN,
               fence : {"none", "pending", "cancelled", "missed", "failed"},
               outcome : Outcomes \cup {"none"} ]
CallStates == [ op : {"claim", "complete", "fail", "cancel", "fence",
                      "userCancel", "userRetry"},
                token : Tokens \cup {NoToken}, generation : Nat ]

\* Type invariant.
TypeOK ==
  /\ RepositoryTypeOK
  /\ run \in [Instances -> RunStates]
  /\ lock \in Tokens \cup {NoToken}
  /\ lateSets \subseteq Tokens
  /\ calls \subseteq CallStates
  /\ lastToken \in Tokens \cup {0}
  /\ claims \subseteq ResultRows
  /\ reported \in [Tokens -> Outcomes \cup {"none"}]
  /\ expired \subseteq Tokens
  /\ faulted \subseteq Tokens
  /\ budget \in [BudgetKinds -> Nat]

Persisted == {r.answer : r \in results}
Claimed(t) == [generation |-> review.generation, answer |-> t] \in claims

\* The persisted answer is the answer of the run that claimed the generation it
\* is stored under: no run that was overtaken by cancel, retry and a new claim,
\* whether it stalled, lost its lease or crashed, gets its answer in.
\* (expectedProcessingGeneration in finalizeForUser.)
AnswerIsOfItsClaimant ==
  /\ results \subseteq claims
  /\ \A c, d \in claims : c.generation = d.generation => c = d

\* What process() tells its caller stays true of the durable review: a caller
\* told COMPLETED has its own answer persisted, one told ALREADY_COMPLETED has
\* somebody's, and one told that its attempt was cancelled, failed or went stale
\* never sees the attempt's answer appear afterwards, although the abandoned
\* terminal write may still be on its way.
StoppedOutcomes == {"CANCELLED", "FAILED", "RETRY_REQUIRED", "STALE_CLAIM",
                    "FINALIZATION_CONFLICT", "CLAIM_CONFLICT",
                    "ALREADY_PROCESSING", "LOCK_UNAVAILABLE"}
ReportsStayTrue ==
  \A t \in Tokens :
    /\ reported[t] = "COMPLETED" => t \in Persisted
    /\ reported[t] = "ALREADY_COMPLETED" => Persisted # {}
    /\ reported[t] \in StoppedOutcomes => t \notin Persisted

\* No claim is orphaned: as long as a live review is PROCESSING, the run that
\* claimed it is still at work, unless that run crashed or one of its database
\* writes failed.  In particular losing the lease, an abort or a lost race
\* never ends a run with its claim left standing.
NoOrphanClaim ==
  \A t \in Tokens \ faulted :
    /\ review.status = "PROCESSING" /\ ~review.deleted
    /\ review.eventSequence < MaxEventSequence
    /\ Claimed(t)
    => \E i \in Instances : run[i].token = t /\ run[i].pc \in KeepalivePcs

\* A run that works under a lease Redis has not expired still has it: neither
\* the release of an earlier run nor a late SET can take it away.
\* (Token comparison in RELEASE_LOCK_SCRIPT, NX in the acquisition.)
LeaseNeverStolen ==
  \A i \in Instances :
    run[i].pc \in KeepalivePcs /\ run[i].token \notin expired => lock = run[i].token

\* Only the user and the run that claimed the current generation ever end its
\* processing; a call of an overtaken run does not, whatever its kind.
OnlyClaimantSettles ==
  [][review.status = "PROCESSING" /\ review'.status # "PROCESSING" =>
       \E c \in calls \ calls' : c.op = "userCancel" \/ Claimed(c.token)]_vars

\* Every process() call is answered, whatever happens to the lease.
EveryRunEnds ==
  \A t \in Tokens : (\E i \in Instances : run[i].token = t)
                     ~> (\A i \in Instances : run[i].token # t)

\* A claimed review does not stay PROCESSING, unless its run crashed or lost a
\* database write; then the user's cancel and retry are the way out.
ClaimSettles ==
  \A t \in Tokens :
    (review.status = "PROCESSING" /\ Claimed(t))
      ~> (review.status # "PROCESSING" \/ review.deleted \/ t \in faulted)

-------------------------------------------------------------------------------
(* The attempts of ReviewAttempts, read off the durable state. *)

VerdictOf(g) ==
  LET begin == CHOOSE e \in events : e.generation = g /\ e.status = "PROCESSING"
      next == {e \in events : e.sequence = begin.sequence + 1}
  IN  IF next = {} THEN "PROCESSING" ELSE (CHOOSE e \in next : TRUE).status

WorkerOf(g) == (CHOOSE c \in claims : c.generation = g).answer

Attempts == INSTANCE ReviewAttempts WITH
  Workers   <- Tokens,
  attempts  <- [g \in 1 .. review.generation |->
                  [worker |-> WorkerOf(g), verdict |-> VerdictOf(g)]],
  queued    <- review.status = "PENDING",
  published <- Persisted,
  deleted   <- review.deleted

\* Whatever leases, crashes and late calls do, the durable review goes through
\* attempts as ReviewAttempts describes them.
ImplementsAttempts == Attempts!AttemptsSpec
===============================================================================
