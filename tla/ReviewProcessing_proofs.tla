------------------------ MODULE ReviewProcessing_proofs ------------------------
(***************************************************************************)
(* Safety of ReviewProcessing for any number of instances, runs, crashes   *)
(* and faults, in three parts: the durable review and the claims on it;    *)
(* what the runs hold and report (SettlementInvariant); and the attempts   *)
(* of ReviewAttempts, which the events and claims tell (AttemptInvariant). *)
(***************************************************************************)
EXTENDS ReviewProcessing, ReviewRepository_proofs, Sequences

RunOps == {"claim", "complete", "fail", "cancel", "fence"}
UserOps == {"userCancel", "userRetry"}

\* The pcs of a run that has claimed a generation.
ClaimedPcs == KeepalivePcs \ {"claiming", "claimMissed"}

\* A run that is at work.
Live(r) == r \in RunStates /\ r.pc # "idle" /\ r.token \in Tokens

\* Whatever a run does or has issued carries the token of a run.
TokensFollowRuns ==
  /\ \A i \in Instances : run[i] = idleRun \/ Live(run[i])
  /\ \A c \in calls : \/ c.op \in RunOps /\ c.token \in Tokens
                      \/ c.op \in UserOps /\ c.token = NoToken

TypeInvariant == TypeOK /\ TokensFollowRuns

\* What a step makes of a run at work, unless it tells it that its claim succeeded.
Successor(r, s) ==
  /\ Live(s)
  /\ s.token = r.token
  /\ s.generation = r.generation
  /\ s.pc \in ClaimedPcs => r.pc \in ClaimedPcs
  /\ r.fence = "none" /\ s.fence = "pending" => r.generation # 0

-------------------------------------------------------------------------------
(* The helpers that change a run. *)

\* A token is a number and never the one that stands for none.
LEMMA TokensAreNumbers == Tokens \subseteq Nat /\ NoToken \notin Tokens /\ NoToken \in Nat
  BY BoundsAssumption DEF Tokens, NoToken

\* The pcs, spelled out.
LEMMA PcsListed ==
  /\ ClaimedPcs = {"reviewing", "completing", "failing", "completeMissed", "failMissed",
                   "cancelling", "cancelMissed", "awaitFence", "fallback", "fallbackMissed"}
  /\ Pcs = {"idle", "acquiring", "contended", "releasing", "claiming", "claimMissed"}
             \cup ClaimedPcs
  /\ RacesLossPcs \subseteq ClaimedPcs
  BY DEF ClaimedPcs, KeepalivePcs, Pcs, RacesLossPcs

\* A run at work finishes.
LEMMA FinishIsSuccessor ==
  ASSUME NEW r, Live(r), NEW outcome \in Outcomes
  PROVE  Successor(r, Finish(r, outcome))
  <1>1. Finish(r, outcome) \in RunStates
    BY PcsListed DEF Live, Finish, RunStates
  <1>2. QED
    BY <1>1, PcsListed DEF Live, Finish, RunStates, Successor

\* A run at work goes to another pc.
LEMMA MoveIsSuccessor ==
  ASSUME NEW r, Live(r), NEW pc \in Pcs \ {"idle"},
         pc \in ClaimedPcs => r.pc \in ClaimedPcs
  PROVE  Successor(r, [r EXCEPT !.pc = pc])
  <1>1. [r EXCEPT !.pc = pc] \in RunStates
    BY DEF Live, RunStates
  <1>2. QED
    BY <1>1 DEF Live, RunStates, Successor

\* A diverted run.
LEMMA DivertedIsSuccessor ==
  ASSUME NEW r, Live(r), r.pc \in ClaimedPcs, NEW s, Successor(r, s)
  PROVE  Successor(r, Diverted(r, s))
  <1>1. {"awaitFence", "cancelling"} \subseteq Pcs \ {"idle"}
    BY PcsListed
  <1>2. QED
    BY <1>1, MoveIsSuccessor DEF Diverted

\* The loss of the lease, with the fence it may start.
LEMMA LossIsSuccessor ==
  ASSUME NEW r, Live(r)
  PROVE  Successor(r, StartFence([r EXCEPT !.lost = TRUE]))
  <1> DEFINE s == [r EXCEPT !.lost = TRUE]
  <1>1. s \in RunStates /\ Live(s) /\ s.token = r.token /\ s.generation = r.generation
        /\ s.pc = r.pc /\ s.fence = r.fence
    BY DEF Live, RunStates
  <1>2. Successor(r, s)
    BY <1>1 DEF Successor, Live, RunStates
  <1> HIDE DEF s
  <1>3. CASE s.lost /\ s.generation # 0 /\ s.fence = "none"
    <2> DEFINE f == [s EXCEPT !.fence = "pending"]
    <2>1. f \in RunStates /\ Live(f) /\ f.token = r.token /\ f.generation = r.generation
          /\ f.pc = r.pc
      BY <1>1 DEF Live, RunStates
    <2>2. Successor(r, f)
      BY <1>1, <1>3, <2>1 DEF Successor
    <2>3. QED
      BY <1>3, <2>2 DEF StartFence, s
  <1>4. CASE ~(s.lost /\ s.generation # 0 /\ s.fence = "none")
    BY <1>2, <1>4 DEF StartFence, s
  <1>5. QED
    BY <1>3, <1>4

\* The calls a step of a run issues carry the run's token and generation.
LEMMA IssuedCalls ==
  ASSUME NEW r, NEW s, NEW c \in Issued(r, s)
  PROVE  /\ c = [op |-> c.op, token |-> s.token, generation |-> s.generation]
         /\ \/ c.op = "fence" /\ r.fence = "none" /\ s.fence = "pending"
            \/ /\ s.pc # r.pc /\ s.pc \in DOMAIN AwaitedOp
               /\ c.op = AwaitedOp[s.pc]
  BY DEF Issued, Call

\* The pcs at which a run awaits a database call, and what it awaits there.
LEMMA AwaitedOps ==
  /\ DOMAIN AwaitedOp = {"claiming", "completing", "failing", "cancelling", "fallback"}
  /\ \A pc \in DOMAIN AwaitedOp : AwaitedOp[pc] \in {"claim", "complete", "fail", "cancel"}
  /\ \A pc \in DOMAIN AwaitedOp : AwaitedOp[pc] = "claim" => pc = "claiming"
  BY DEF AwaitedOp

\* What is issued is typed, and issued by a run that knows its generation unless
\* it is the claim.
LEMMA IssuedTyped ==
  ASSUME NEW r, NEW s, Live(s), NEW c \in Issued(r, s)
  PROVE  /\ c \in CallStates
         /\ c.op \in RunOps /\ c.token = s.token /\ c.generation = s.generation
         /\ c.op = "claim" => s.pc = "claiming"
         /\ c.op \notin {"claim", "fence"} => s.pc \in ClaimedPcs
         /\ c.op = "fence" => r.fence = "none" /\ s.fence = "pending"
  <1>1. c = [op |-> c.op, token |-> s.token, generation |-> s.generation]
    BY IssuedCalls
  <1>2. s.token \in Tokens /\ s.generation \in Nat /\ s.pc \in Pcs
    BY DEF Live, RunStates
  <1>3. c.op \in RunOps /\ (c.op = "claim" => s.pc = "claiming")
        /\ (c.op = "fence" => r.fence = "none" /\ s.fence = "pending")
        /\ (c.op \notin {"claim", "fence"} => s.pc \in ClaimedPcs)
    BY IssuedCalls, AwaitedOps, PcsListed DEF RunOps, AwaitedOp
  <1>4. c \in CallStates
    BY <1>1, <1>2, <1>3 DEF CallStates, RunOps
  <1>5. QED
    BY <1>1, <1>3, <1>4

\* Every classification of a status is an outcome.
LEMMA OutcomesTyped ==
  ASSUME RepositoryTypeOK
  PROVE  /\ lockContention \in Outcomes
         /\ classifyNonClaimed \in Outcomes
         /\ \A failed \in Outcomes : classifyMissed(failed) \in Outcomes
         /\ \A outcome \in Outcomes : \A r : FallbackOutcome(r, outcome) \in Outcomes
  <1>1. review.status \in Statuses
    BY DEF RepositoryTypeOK, ReviewRows
  <1>2. lockContention \in Outcomes
    BY <1>1 DEF lockContention, StatusOutcome, Outcomes, Statuses
  <1>3. classifyNonClaimed \in Outcomes
    BY <1>1 DEF classifyNonClaimed, StatusOutcome, Outcomes, Statuses
  <1>4. \A failed \in Outcomes : classifyMissed(failed) \in Outcomes
    BY <1>1 DEF classifyMissed, StatusOutcome, Outcomes, Statuses
  <1>5. \A outcome \in Outcomes : \A r : FallbackOutcome(r, outcome) \in Outcomes
    BY DEF FallbackOutcome, Outcomes
  <1>6. QED
    BY <1>2, <1>3, <1>4, <1>5

-------------------------------------------------------------------------------
(* The kinds of steps. *)

Replies == {"ok", "missed", "error"}

\* A run at work takes a step of its own.
LocalMove(i) == /\ Live(run[i])
                /\ \E s : Successor(run[i], s) /\ StepOf(i, s)
                /\ UNCHANGED <<repositoryVars, claims>>

\* A run ends, or its process dies.
EndMove(i) == /\ run' = [run EXCEPT ![i] = idleRun]
              /\ UNCHANGED <<calls, repositoryVars, claims>>

\* A run starts.
StartMove(i) ==
  /\ \E t \in Tokens :
       run' = [run EXCEPT ![i] = [idleRun EXCEPT !.pc = "acquiring", !.token = t]]
  /\ UNCHANGED <<calls, repositoryVars, claims>>

\* A user asks for something, or Redis acts on its own.
OutsideMove ==
  /\ \/ run' = run
     \/ \E i \in Instances : run' = [run EXCEPT ![i].aborted = (run[i].pc # "idle")]
  /\ \E op \in UserOps : calls' \in {calls, calls \cup {userCall(op)}}
  /\ \/ UNCHANGED review
     \/ softDeleteForUser
  /\ UNCHANGED <<events, results, claims>>

\* The database executes a call and the run that waits for it handles the reply.
DeliverMove(c) ==
  \E reply \in Replies :
    /\ c \in calls
    /\ Deliver(c, reply)
    /\ Writes(c) \/ UNCHANGED <<repositoryVars, claims>>
    /\ reply = "ok" => Writes(c)

AnyMove == \/ \E i \in Instances : LocalMove(i) \/ EndMove(i) \/ StartMove(i)
           \/ OutsideMove
           \/ \E c \in calls : DeliverMove(c)

\* A step a run takes by itself moves that run on or ends it.
LEMMA LocalSteps ==
  ASSUME TypeInvariant, NEW i \in Instances,
         RunStep(i) \/ LoseLease(i) \/ ReadFails(i)
  PROVE  LocalMove(i) \/ EndMove(i)
  <1> DEFINE r == run[i]
  <1>1. ASSUME r.pc # "idle" PROVE Live(r)
    BY <1>1 DEF TypeInvariant, TokensFollowRuns, idleRun
  <1>2. RepositoryTypeOK
    BY DEF TypeInvariant, TypeOK
  <1>3. {"RETRY_REQUIRED", "LOCK_UNAVAILABLE", "FAILED", "CANCELLED", "ERROR"}
          \subseteq Outcomes
    BY DEF Outcomes
  <1>4. CASE AcquireLock(i)
    <2>1. r.pc = "acquiring"
      BY <1>4 DEF AcquireLock
    <2>2. Successor(r, [r EXCEPT !.pc = "claiming"])
      BY <2>1, <1>1, MoveIsSuccessor, PcsListed
    <2>3. QED
      BY <2>1, <2>2, <1>1, <1>4 DEF AcquireLock, LocalMove
  <1>5. CASE AcquireContended(i)
    <2>1. r.pc = "acquiring"
      BY <1>5 DEF AcquireContended
    <2>2. Successor(r, [r EXCEPT !.pc = "contended"])
      BY <2>1, <1>1, MoveIsSuccessor, PcsListed
    <2>3. QED
      BY <2>1, <2>2, <1>1, <1>5 DEF AcquireContended, LocalMove
  <1>6. CASE ReadContended(i)
    BY <1>6 DEF ReadContended, EndWithoutLock, EndMove
  <1>7. CASE ReadClaimMissed(i)
    <2>1. r.pc = "claimMissed"
      BY <1>7 DEF ReadClaimMissed
    <2>2. PICK outcome \in Outcomes : Running(i, Finish(r, outcome))
      BY <1>7, <1>2, <1>3, OutcomesTyped DEF ReadClaimMissed
    <2>3. QED
      BY <2>1, <2>2, <1>1, FinishIsSuccessor DEF Running, LocalMove
  <1>8. CASE AiAnswers(i) \/ AiFails(i) \/ AiCancels(i)
    <2>1. r.pc = "reviewing" /\ Live(r)
      BY <1>8, <1>1 DEF AiAnswers, AiFails, AiCancels
    <2>2. PICK pc \in {"completing", "failing", "cancelling"} :
            Running(i, Diverted(r, [r EXCEPT !.pc = pc]))
      BY <1>8 DEF AiAnswers, AiFails, AiCancels
    <2>3. Successor(r, [r EXCEPT !.pc = pc])
      BY <2>1, MoveIsSuccessor, PcsListed
    <2>4. Successor(r, Diverted(r, [r EXCEPT !.pc = pc]))
      BY <2>1, <2>3, DivertedIsSuccessor, PcsListed
    <2>5. QED
      BY <2>1, <2>2, <2>4 DEF Running, LocalMove
  <1>9. CASE LossWakes(i)
    <2>1. r.pc \in ClaimedPcs /\ Live(r)
      BY <1>9, <1>1, PcsListed DEF LossWakes
    <2>2. Successor(r, [r EXCEPT !.pc = "awaitFence"])
      BY <2>1, MoveIsSuccessor, PcsListed
    <2>3. QED
      BY <2>1, <2>2, <1>9 DEF LossWakes, Running, LocalMove
  <1>10. CASE ReadCompleteMissed(i) \/ ReadFailMissed(i)
    <2>1. r.pc \in ClaimedPcs /\ Live(r)
      BY <1>10, <1>1, PcsListed DEF ReadCompleteMissed, ReadFailMissed
    <2>2. PICK outcome \in Outcomes : Running(i, Diverted(r, Finish(r, outcome)))
      BY <1>10, <1>2, <1>3, OutcomesTyped DEF ReadCompleteMissed, ReadFailMissed
    <2>3. QED
      BY <2>1, <2>2, FinishIsSuccessor, DivertedIsSuccessor DEF Running, LocalMove
  <1>11. CASE ReadCancelMissed(i) \/ ReadFallbackMissed(i)
    <2>1. Live(r)
      BY <1>11, <1>1 DEF ReadCancelMissed, ReadFallbackMissed
    <2>2. PICK outcome \in Outcomes : Running(i, Finish(r, outcome))
      <3>1. classifyMissed("RETRY_REQUIRED") \in Outcomes
        BY <1>2, <1>3, OutcomesTyped
      <3>2. FallbackOutcome(r, classifyMissed("RETRY_REQUIRED")) \in Outcomes
        BY <3>1, <1>2, OutcomesTyped
      <3>3. CASE ReadCancelMissed(i)
        BY <3>1, <3>3 DEF ReadCancelMissed
      <3>4. CASE ReadFallbackMissed(i)
        BY <3>2, <3>4 DEF ReadFallbackMissed
      <3>5. QED
        BY <1>11, <3>3, <3>4
    <2>3. QED
      BY <2>1, <2>2, FinishIsSuccessor DEF Running, LocalMove
  <1>12. CASE AwaitFence(i)
    <2>1. r.pc = "awaitFence" /\ Live(r)
      BY <1>12, <1>1 DEF AwaitFence
    <2>2. \/ Running(i, Finish(r, "CANCELLED"))
          \/ Running(i, [r EXCEPT !.pc = "fallback"])
      BY <1>12 DEF AwaitFence
    <2>3. Successor(r, Finish(r, "CANCELLED"))
      BY <2>1, <1>3, FinishIsSuccessor
    <2>4. Successor(r, [r EXCEPT !.pc = "fallback"])
      BY <2>1, MoveIsSuccessor, PcsListed
    <2>5. QED
      BY <2>1, <2>2, <2>3, <2>4 DEF Running, LocalMove
  <1>13. CASE ReleaseLock(i)
    BY <1>13 DEF ReleaseLock, EndMove
  <1>14. CASE LoseLease(i)
    <2>1. Live(r)
      BY <1>14, <1>1, PcsListed DEF LoseLease, KeepalivePcs
    <2>2. QED
      BY <2>1, <1>14, LossIsSuccessor DEF LoseLease, LocalMove
  <1>15. CASE ReadFails(i)
    <2>1. Live(r)
      BY <1>15, <1>1 DEF ReadFails
    <2>2. Successor(r, Finish(r, "ERROR"))
      BY <2>1, <1>3, FinishIsSuccessor
    <2>3. CASE r.pc \in {"completeMissed", "failMissed"}
      <3>1. Successor(r, Diverted(r, Finish(r, "ERROR")))
        BY <2>1, <2>2, <2>3, DivertedIsSuccessor, PcsListed
      <3>2. QED
        BY <1>15, <2>1, <2>3, <3>1 DEF ReadFails, LocalMove
    <2>4. CASE r.pc \notin {"completeMissed", "failMissed"}
      BY <1>15, <2>1, <2>2, <2>4 DEF ReadFails, LocalMove
    <2>5. QED
      BY <2>3, <2>4
  <1>16. QED
    BY <1>4, <1>5, <1>6, <1>7, <1>8, <1>9, <1>10, <1>11, <1>12, <1>13, <1>14, <1>15
    DEF RunStep

\* Every step is of one of the kinds.
LEMMA StepsAreMoves == TypeInvariant /\ [Next]_vars => AnyMove
  <1> SUFFICES ASSUME TypeInvariant, [Next]_vars
               PROVE  AnyMove
    OBVIOUS
  <1>1. ASSUME NEW i \in Instances, RunStep(i) \/ LoseLease(i) \/ ReadFails(i)
        PROVE  AnyMove
    BY <1>1, LocalSteps DEF AnyMove
  <1>2. ASSUME NEW i \in Instances, StartRun(i) PROVE AnyMove
    <2>1. lastToken + 1 \in Tokens
      BY <1>2, BoundsAssumption DEF StartRun, TypeInvariant, TypeOK, Tokens
    <2>2. StartMove(i)
      BY <1>2, <2>1 DEF StartRun, StartMove
    <2>3. QED
      BY <2>2 DEF AnyMove
  <1>3. ASSUME NEW i \in Instances,
               AcquireUnavailable(i) \/ ReleaseUnavailable(i) \/ Crash(i)
        PROVE  AnyMove
    <2>1. EndMove(i)
      BY <1>3 DEF AcquireUnavailable, ReleaseUnavailable, Crash, EndWithoutLock, EndMove
    <2>2. QED
      BY <2>1 DEF AnyMove
  <1>4. ASSUME NEW i \in Instances, UserCancel(i) \/ UserRetry(i) PROVE AnyMove
    BY <1>4 DEF UserCancel, UserRetry, OutsideMove, AnyMove, UserOps, repositoryVars
  <1>5. ASSUME NEW c \in calls, CallApplied(c) \/ CallMatchesNoRow(c) \/ CallFails(c)
        PROVE  AnyMove
    <2>1. CASE CallApplied(c)
      BY <2>1 DEF CallApplied, DeliverMove, AnyMove, Replies
    <2>2. CASE CallMatchesNoRow(c)
      BY <2>2 DEF CallMatchesNoRow, DeliverMove, AnyMove, Replies
    <2>3. CASE CallFails(c)
      BY <2>3 DEF CallFails, DeliverMove, AnyMove, Replies
    <2>4. QED
      BY <1>5, <2>1, <2>2, <2>3
  <1>6. ASSUME NEW t \in lateSets, LateSetExecutes(t) PROVE AnyMove
    BY <1>6 DEF LateSetExecutes, OutsideMove, AnyMove, UserOps, repositoryVars
  <1>7. ASSUME LeaseExpires \/ UserDelete \/ UNCHANGED vars PROVE AnyMove
    BY <1>7 DEF LeaseExpires, UserDelete, vars, OutsideMove, AnyMove, UserOps,
                repositoryVars, softDeleteForUser
  <1>8. QED
    BY <1>1, <1>2, <1>3, <1>4, <1>5, <1>6, <1>7 DEF Next

-------------------------------------------------------------------------------
(* The handling of a reply. *)
\* A run learns that its claim succeeded.
Claims(r, s) == /\ Live(s)
                /\ s.token = r.token
                /\ s.generation = review.generation + 1

\* None of the calls issued when r becomes s has the operation that was answered.
IssuesOtherThan(op, r, s) == \A d \in Issued(r, s) : d.op # op

\* Issued calls come from a pc that awaits one, or from a fence that starts.
LEMMA NothingIssued ==
  ASSUME NEW r, NEW s, s.pc \notin DOMAIN AwaitedOp \/ s.pc = r.pc,
         r.fence # "none" \/ s.fence # "pending"
  PROVE  Issued(r, s) = {}
  BY IssuedCalls

\* The reply to a claim: the run learns its generation or moves on, and never
\* claims again.
LEMMA ClaimReplyMoves ==
  ASSUME RepositoryTypeOK, NEW r, Live(r), r.pc = "claiming", NEW reply \in Replies
  PROVE  LET s == ClaimReply(r, reply)
         IN  /\ IF reply = "ok" THEN Claims(r, s) ELSE Successor(r, s)
             /\ IssuesOtherThan("claim", r, s)
  <1>1. review.generation + 1 \in Nat /\ review.generation + 1 # 0
    BY DEF RepositoryTypeOK, ReviewRows
  <1>2. CASE reply = "ok"
    <2> DEFINE pc == IF r.lost THEN "awaitFence" ELSE "reviewing"
               g == [r EXCEPT !.generation = review.generation + 1]
               f == StartFence(g)
               s == [f EXCEPT !.pc = pc]
    <2>1. g \in RunStates /\ g.token = r.token /\ g.generation = review.generation + 1
      BY <1>1 DEF Live, RunStates
    <2>2. f \in RunStates /\ f.token = r.token /\ f.generation = review.generation + 1
      <3>0. f = g \/ f = [g EXCEPT !.fence = "pending"]
        <4> HIDE DEF g
        <4>1. QED
          BY DEF StartFence
      <3>1. [g EXCEPT !.fence = "pending"] \in RunStates
            /\ [g EXCEPT !.fence = "pending"].token = g.token
            /\ [g EXCEPT !.fence = "pending"].generation = g.generation
        <4> HIDE DEF g
        <4>1. QED
          BY <2>1 DEF RunStates
      <3> HIDE DEF g, f
      <3>2. QED
        BY <2>1, <3>0, <3>1
    <2>3. pc \in {"awaitFence", "reviewing"}
      OBVIOUS
    <2> HIDE DEF f, pc
    <2>4. s \in RunStates /\ s.pc = pc /\ s.token = r.token
          /\ s.generation = review.generation + 1
      BY <2>2, <2>3, PcsListed DEF RunStates
    <2>5. Claims(r, s)
      BY <2>3, <2>4 DEF Claims, Live
    <2>6. \A d \in Issued(r, s) : d.op = "fence"
      <3> HIDE DEF s
      <3>1. QED
        BY <2>3, <2>4, IssuedCalls, AwaitedOps
    <2>7. s = ClaimReply(r, reply)
      BY <1>2 DEF ClaimReply, f, pc
    <2>8. QED
      BY <1>2, <2>5, <2>6, <2>7 DEF IssuesOtherThan
  <1>3. CASE reply = "missed"
    <2> DEFINE s == [r EXCEPT !.pc = "claimMissed"]
    <2>1. s = ClaimReply(r, reply)
      BY <1>3 DEF ClaimReply
    <2>2. Successor(r, s)
      BY MoveIsSuccessor, PcsListed
    <2>3. s.pc = "claimMissed" /\ s.fence = r.fence
      BY DEF Live, RunStates
    <2>4. Issued(r, s) = {}
      <3> HIDE DEF s
      <3>1. QED
        BY <2>3, NothingIssued, AwaitedOps
    <2>5. QED
      BY <1>3, <2>1, <2>2, <2>4 DEF IssuesOtherThan
  <1>4. CASE reply = "error"
    <2>1. ClaimReply(r, reply) = Finish(r, "ERROR")
      BY <1>4 DEF ClaimReply
    <2>2. Successor(r, Finish(r, "ERROR"))
      BY FinishIsSuccessor DEF Outcomes
    <2>3. Finish(r, "ERROR").pc = "releasing" /\ Finish(r, "ERROR").fence = r.fence
      BY DEF Finish, Live, RunStates
    <2>4. Issued(r, Finish(r, "ERROR")) = {}
      BY <2>3, NothingIssued, AwaitedOps
    <2>5. QED
      BY <1>4, <2>1, <2>2, <2>4 DEF IssuesOtherThan
  <1>5. QED
    BY <1>2, <1>3, <1>4 DEF Replies

\* A diverted run issues at most its cancellation.
LEMMA DivertedIssues ==
  ASSUME NEW r, Live(r), NEW s, s.pc \notin DOMAIN AwaitedOp, s.fence = r.fence
  PROVE  \A d \in Issued(r, Diverted(r, s)) : d.op = "cancel"
  <1> DEFINE t == Diverted(r, s)
  <1>1. /\ t.fence = r.fence
        /\ t.pc \in DOMAIN AwaitedOp => t.pc = "cancelling"
    BY AwaitedOps DEF Diverted, Live, RunStates
  <1> HIDE DEF t
  <1>2. \A d \in Issued(r, t) : d.op = "cancel"
    BY <1>1, IssuedCalls DEF AwaitedOp
  <1>3. QED
    BY <1>2 DEF t

\* The reply to a completion or failure: the only call that may follow is a
\* cancellation.
LEMMA TerminalReplyMoves ==
  ASSUME NEW r, Live(r), r.pc \in {"completing", "failing"}, NEW reply \in Replies,
         NEW s, \/ r.pc = "completing" /\ s = CompleteReply(r, reply)
                \/ r.pc = "failing" /\ s = FailReply(r, reply)
  PROVE  Successor(r, s) /\ \A d \in Issued(r, s) : d.op = "cancel"
  <1>1. r.pc \in ClaimedPcs
    BY PcsListed
  <1>2. \/ \E outcome \in Outcomes : s = Diverted(r, Finish(r, outcome))
        \/ \E pc \in {"completeMissed", "failMissed"} : s = [r EXCEPT !.pc = pc]
    BY DEF CompleteReply, FailReply, Replies, Outcomes
  <1>3. ASSUME NEW outcome \in Outcomes, s = Diverted(r, Finish(r, outcome))
        PROVE  Successor(r, s) /\ \A d \in Issued(r, s) : d.op = "cancel"
    <2>1. Successor(r, s)
      BY <1>1, <1>3, FinishIsSuccessor, DivertedIsSuccessor
    <2>2. Finish(r, outcome).pc = "releasing" /\ Finish(r, outcome).fence = r.fence
      BY DEF Finish, Live, RunStates
    <2>3. QED
      BY <1>3, <2>1, <2>2, DivertedIssues, AwaitedOps
  <1>4. ASSUME NEW pc \in {"completeMissed", "failMissed"}, s = [r EXCEPT !.pc = pc]
        PROVE  Successor(r, s) /\ \A d \in Issued(r, s) : d.op = "cancel"
    <2>1. Successor(r, s)
      BY <1>1, <1>4, MoveIsSuccessor, PcsListed
    <2>2. s.pc = pc /\ s.fence = r.fence
      BY <1>4 DEF Live, RunStates
    <2>3. Issued(r, s) = {}
      BY <2>2, NothingIssued, AwaitedOps
    <2>4. QED
      BY <2>1, <2>3
  <1>5. QED
    BY <1>2, <1>3, <1>4

\* The reply to a cancellation: no call follows.
LEMMA CancelReplyMoves ==
  ASSUME NEW r, Live(r), r.pc \in {"cancelling", "fallback"}, NEW reply \in Replies
  PROVE  Successor(r, CancelReply(r, reply)) /\ Issued(r, CancelReply(r, reply)) = {}
  <1> DEFINE s == CancelReply(r, reply)
  <1>1. r.pc \in ClaimedPcs
    BY PcsListed
  <1>2. \/ \E outcome \in Outcomes : s = Finish(r, outcome)
        \/ \E pc \in {"cancelMissed", "fallbackMissed"} : s = [r EXCEPT !.pc = pc]
    BY DEF CancelReply, Replies, Outcomes, FallbackOutcome
  <1> HIDE DEF s
  <1>3. ASSUME NEW outcome \in Outcomes, s = Finish(r, outcome)
        PROVE  Successor(r, s) /\ Issued(r, s) = {}
    <2>1. s.pc = "releasing" /\ s.fence = r.fence
      BY <1>3 DEF Finish, Live, RunStates
    <2>2. QED
      BY <1>3, <2>1, FinishIsSuccessor, NothingIssued, AwaitedOps
  <1>4. ASSUME NEW pc \in {"cancelMissed", "fallbackMissed"}, s = [r EXCEPT !.pc = pc]
        PROVE  Successor(r, s) /\ Issued(r, s) = {}
    <2>1. s.pc = pc /\ s.fence = r.fence
      BY <1>4 DEF Live, RunStates
    <2>2. Successor(r, s)
      BY <1>1, <1>4, MoveIsSuccessor, PcsListed
    <2>3. QED
      BY <2>1, <2>2, NothingIssued, AwaitedOps
  <1>5. QED
    BY <1>2, <1>3, <1>4 DEF s

\* The reply to the fence settles the fence and nothing else.
LEMMA FenceReplyMoves ==
  ASSUME NEW r, Live(r), NEW reply \in Replies
  PROVE  Successor(r, FenceReply(r, reply)) /\ Issued(r, FenceReply(r, reply)) = {}
  <1> DEFINE s == FenceReply(r, reply)
  <1>1. PICK fence \in {"cancelled", "missed", "failed"} : s = [r EXCEPT !.fence = fence]
    BY DEF FenceReply, Replies
  <1> HIDE DEF s
  <1>2. s \in RunStates /\ s.pc = r.pc /\ s.token = r.token
        /\ s.generation = r.generation /\ s.fence = fence
    BY <1>1 DEF Live, RunStates
  <1>3. Successor(r, s)
    BY <1>2 DEF Successor, Live
  <1>4. Issued(r, s) = {}
    BY <1>2, NothingIssued
  <1>5. QED
    BY <1>3, <1>4 DEF s

\* Every reply, to the run that hears it.
LEMMA HandledMoves ==
  ASSUME RepositoryTypeOK, NEW r, Live(r), NEW c, c.op \in RunOps, Hears(r, c),
         NEW reply \in Replies
  PROVE  LET s == Handled(r, c.op, reply)
         IN  /\ IF c.op = "claim" /\ reply = "ok" THEN Claims(r, s) ELSE Successor(r, s)
             /\ IssuesOtherThan(c.op, r, s)
  <1>1. CASE c.op = "claim"
    <2>1. r.pc = "claiming"
      BY <1>1, AwaitedOps DEF Hears
    <2>2. Handled(r, c.op, reply) = ClaimReply(r, reply)
      BY <1>1 DEF Handled
    <2>3. QED
      BY <1>1, <2>1, <2>2, ClaimReplyMoves
  <1>2. CASE c.op \in {"complete", "fail"}
    <2>1. \/ r.pc = "completing" /\ c.op = "complete"
          \/ r.pc = "failing" /\ c.op = "fail"
      BY <1>2, AwaitedOps DEF Hears, AwaitedOp
    <2>2. Handled(r, c.op, reply) = IF c.op = "complete" THEN CompleteReply(r, reply)
                                                         ELSE FailReply(r, reply)
      BY <1>2 DEF Handled
    <2>3. QED
      BY <1>2, <2>1, <2>2, TerminalReplyMoves DEF IssuesOtherThan
  <1>3. CASE c.op = "cancel"
    <2>1. r.pc \in {"cancelling", "fallback"}
      BY <1>3, AwaitedOps DEF Hears, AwaitedOp
    <2>2. Handled(r, c.op, reply) = CancelReply(r, reply)
      BY <1>3 DEF Handled
    <2>3. QED
      BY <1>3, <2>1, <2>2, CancelReplyMoves DEF IssuesOtherThan
  <1>4. CASE c.op = "fence"
    <2>1. Handled(r, c.op, reply) = FenceReply(r, reply)
      BY <1>4 DEF Handled
    <2>2. QED
      BY <1>4, <2>1, FenceReplyMoves DEF IssuesOtherThan
  <1>5. QED
    BY <1>1, <1>2, <1>3, <1>4 DEF RunOps

-------------------------------------------------------------------------------
(* Types. *)

\* What a delivery does to each run.
LEMMA DeliveredRuns ==
  ASSUME TypeInvariant, NEW c \in calls, NEW reply \in Replies, Deliver(c, reply),
         NEW i \in Instances
  PROVE  \/ run'[i] = run[i] /\ Issued(run[i], run'[i]) = {}
         \/ /\ c.op \in RunOps /\ Live(run[i]) /\ run[i].token = c.token
            /\ IF c.op = "claim" /\ reply = "ok" THEN Claims(run[i], run'[i])
                                                 ELSE Successor(run[i], run'[i])
            /\ IssuesOtherThan(c.op, run[i], run'[i])
  <1>1. run'[i] = IF Hears(run[i], c) THEN Handled(run[i], c.op, reply) ELSE run[i]
    BY DEF Deliver
  <1>2. CASE ~Hears(run[i], c)
    BY <1>1, <1>2, NothingIssued
  <1>3. CASE Hears(run[i], c)
    <2>1. c.token # NoToken /\ run[i].token = c.token
      BY <1>3 DEF Hears
    <2>2. c.op \in RunOps
      BY <2>1 DEF TypeInvariant, TokensFollowRuns
    <2>3. Live(run[i])
      BY <2>1 DEF TypeInvariant, TokensFollowRuns, idleRun
    <2>4. QED
      BY <1>1, <1>3, <2>1, <2>2, <2>3, HandledMoves DEF TypeInvariant, TypeOK
  <1>4. QED
    BY <1>2, <1>3

\* An instance without a run is typed.
LEMMA IdleRunTyped == idleRun \in RunStates
  BY TokensAreNumbers DEF idleRun, RunStates, Pcs, KeepalivePcs

\* The runs and the calls stay typed.
LEMMA MovesKeepRuns ==
  ASSUME TypeInvariant, AnyMove
  PROVE  /\ run' \in [Instances -> RunStates]
         /\ calls' \subseteq CallStates
         /\ TokensFollowRuns'
  <1> DEFINE Typed(r) == r \in RunStates /\ (r = idleRun \/ Live(r))
             TypedCall(c) == /\ c \in CallStates
                             /\ \/ c.op \in RunOps /\ c.token \in Tokens
                                \/ c.op \in UserOps /\ c.token = NoToken
  <1>1. /\ run \in [Instances -> RunStates]
        /\ \A i \in Instances : Typed(run[i])
        /\ \A c \in calls : TypedCall(c)
    BY DEF TypeInvariant, TypeOK, TokensFollowRuns
  <1>2. SUFFICES /\ run' \in [Instances -> RunStates]
                 /\ \A i \in Instances : run'[i] = idleRun \/ Live(run'[i])
                 /\ \A c \in calls' : TypedCall(c)
    BY DEF TokensFollowRuns
  <1>3. ASSUME NEW r, NEW s, Live(s), NEW c \in Issued(r, s)
        PROVE  TypedCall(c)
    BY <1>3, IssuedTyped DEF Live
  <1> HIDE DEF TypedCall
  <1>4. ASSUME NEW i \in Instances, LocalMove(i)
        PROVE  /\ run' \in [Instances -> RunStates]
               /\ \A j \in Instances : run'[j] = idleRun \/ Live(run'[j])
               /\ \A c \in calls' : TypedCall(c)
    <2>1. PICK s : /\ Successor(run[i], s)
                   /\ run' = [run EXCEPT ![i] = s]
                   /\ calls' = calls \cup Issued(run[i], s)
      BY <1>4 DEF LocalMove, StepOf
    <2>2. Live(s) /\ s \in RunStates
      BY <2>1 DEF Successor, Live
    <2>3. QED
      BY <1>1, <1>3, <2>1, <2>2
  <1>5. ASSUME NEW i \in Instances, EndMove(i)
        PROVE  /\ run' \in [Instances -> RunStates]
               /\ \A j \in Instances : run'[j] = idleRun \/ Live(run'[j])
               /\ \A c \in calls' : TypedCall(c)
    BY <1>1, <1>5, IdleRunTyped DEF EndMove
  <1>6. ASSUME NEW i \in Instances, StartMove(i)
        PROVE  /\ run' \in [Instances -> RunStates]
               /\ \A j \in Instances : run'[j] = idleRun \/ Live(run'[j])
               /\ \A c \in calls' : TypedCall(c)
    <2>1. PICK t \in Tokens :
            run' = [run EXCEPT ![i] = [idleRun EXCEPT !.pc = "acquiring", !.token = t]]
      BY <1>6 DEF StartMove
    <2> DEFINE s == [idleRun EXCEPT !.pc = "acquiring", !.token = t]
    <2>2. s \in RunStates /\ s.pc = "acquiring" /\ s.token = t
      BY IdleRunTyped, PcsListed DEF RunStates, idleRun
    <2>3. Live(s)
      BY <2>2 DEF Live
    <2> HIDE DEF s
    <2>4. run' = [run EXCEPT ![i] = s]
      BY <2>1 DEF s
    <2>5. QED
      BY <1>1, <1>6, <2>2, <2>3, <2>4 DEF StartMove
  <1>7. ASSUME OutsideMove
        PROVE  /\ run' \in [Instances -> RunStates]
               /\ \A j \in Instances : run'[j] = idleRun \/ Live(run'[j])
               /\ \A c \in calls' : TypedCall(c)
    <2>1. \A op \in UserOps : TypedCall(userCall(op))
      BY TokensAreNumbers DEF TypedCall, userCall, UserOps, CallStates
    <2>2. \A c \in calls' : TypedCall(c)
      BY <1>1, <1>7, <2>1 DEF OutsideMove
    <2>3. ASSUME NEW i \in Instances,
                 run' = [run EXCEPT ![i].aborted = (run[i].pc # "idle")]
          PROVE  /\ run' \in [Instances -> RunStates]
                 /\ \A j \in Instances : run'[j] = idleRun \/ Live(run'[j])
      <3>1. PICK flag \in BOOLEAN : /\ run' = [run EXCEPT ![i].aborted = flag]
                                    /\ run[i].pc = "idle" => flag = FALSE
        BY <2>3
      <3> DEFINE s == [run[i] EXCEPT !.aborted = flag]
      <3>2. run' = [run EXCEPT ![i] = s]
        BY <1>1, <3>1
      <3>3. s \in RunStates /\ (s = idleRun \/ Live(s))
        <4>1. CASE run[i] = idleRun
          <5>1. run[i].pc = "idle" /\ run[i].aborted = FALSE
            BY <4>1 DEF idleRun
          <5>2. flag = FALSE
            BY <5>1, <3>1
          <5>3. s = run[i]
            BY <1>1, <5>1, <5>2 DEF RunStates
          <5>4. QED
            BY <4>1, <5>3, IdleRunTyped
        <4>2. CASE Live(run[i])
          BY <3>1, <4>2 DEF Live, RunStates
        <4>3. QED
          BY <1>1, <4>1, <4>2
      <3> HIDE DEF s
      <3>4. QED
        BY <1>1, <3>2, <3>3
    <2>4. CASE run' = run
      BY <1>1, <2>2, <2>4
    <2>5. QED
      BY <1>7, <2>2, <2>3, <2>4 DEF OutsideMove
  <1>8. ASSUME NEW c \in calls, DeliverMove(c)
        PROVE  /\ run' \in [Instances -> RunStates]
               /\ \A j \in Instances : run'[j] = idleRun \/ Live(run'[j])
               /\ \A d \in calls' : TypedCall(d)
    <2>1. PICK reply \in Replies : Deliver(c, reply)
      BY <1>8 DEF DeliverMove
    <2>2. ASSUME NEW i \in Instances
          PROVE  \/ run'[i] = run[i] /\ Issued(run[i], run'[i]) = {}
                 \/ Live(run'[i])
      BY <2>1, DeliveredRuns DEF Claims, Successor
    <2>3. \A i \in Instances : Typed(run'[i])
      BY <1>1, <2>2 DEF Live
    <2>4. run' \in [Instances -> RunStates]
      <3>1. run' = [i \in Instances |-> run'[i]]
        BY <2>1 DEF Deliver
      <3>2. QED
        BY <2>3, <3>1
    <2>5. \A d \in calls' : TypedCall(d)
      <3>1. \A i \in Instances : \A d \in Issued(run[i], run'[i]) : TypedCall(d)
        BY <2>2, <1>3
      <3>2. calls' = (calls \ {c}) \cup UNION {Issued(run[i], run'[i]) : i \in Instances}
        BY <2>1 DEF Deliver
      <3>3. QED
        BY <1>1, <3>1, <3>2
    <2>6. QED
      BY <2>3, <2>4, <2>5
  <1>9. QED
    BY <1>4, <1>5, <1>6, <1>7, <1>8 DEF AnyMove

\* Every step of the system is a step of the repository, or leaves it alone.
LEMMA WritesAreRepositorySteps ==
  ASSUME TypeInvariant, NEW c \in calls, Writes(c)
  PROVE  RepositoryStep
  <1>1. c.generation \in Nat
    BY DEF TypeInvariant, TypeOK, CallStates
  <1>2. c.op = "complete" => c.token \in Answers
    BY AnswersAssumption DEF TypeInvariant, TokensFollowRuns, RunOps, UserOps
  <1>3. /\ {"PENDING"} \subseteq allowedSourceStatuses("PROCESSING")
        /\ {"PROCESSING"} \subseteq allowedSourceStatuses("FAILED")
        /\ {"PROCESSING"} \subseteq allowedSourceStatuses("CANCELLED")
    BY DEF allowedSourceStatuses, ALLOWED_TRANSITIONS, Statuses
  <1>4. {"PENDING", "PROCESSING", "FAILED", "CANCELLED"} \subseteq Statuses
    BY DEF Statuses
  <1>5. AnyGeneration \in SUBSET Nat /\ {c.generation} \in SUBSET Nat
    BY <1>1 DEF AnyGeneration
  <1>6. CASE ClaimWrites(c)
    BY <1>6, <1>3, <1>4, <1>5 DEF ClaimWrites, RepositoryStep
  <1>7. CASE RunWrites(c)
    <2>1. CASE finalizeForUser(c.generation, c.token) /\ c.op = "complete"
      BY <2>1, <1>1, <1>2 DEF RepositoryStep
    <2>2. CASE fenceProcessingForUser(c.generation)
      BY <2>2, <1>1 DEF RepositoryStep
    <2>3. CASE transitionForUser({"PROCESSING"}, "FAILED", {c.generation})
      BY <2>3, <1>3, <1>4, <1>5 DEF RepositoryStep
    <2>4. CASE transitionForUser({"PROCESSING"}, "CANCELLED", {c.generation})
      BY <2>4, <1>3, <1>4, <1>5 DEF RepositoryStep
    <2>5. QED
      BY <1>7, <2>1, <2>2, <2>3, <2>4 DEF RunWrites
  <1>8. CASE UserWrites(c)
    BY <1>8, <1>4, <1>5 DEF UserWrites, RepositoryStep
  <1>9. QED
    BY <1>6, <1>7, <1>8 DEF Writes

\* What any move does to the durable rows is a step of the repository.
LEMMA MovesAreRepositorySteps ==
  TypeInvariant /\ AnyMove => [RepositoryStep]_repositoryVars
  <1> SUFFICES ASSUME TypeInvariant, AnyMove
               PROVE  [RepositoryStep]_repositoryVars
    OBVIOUS
  <1>1. ASSUME NEW i \in Instances, LocalMove(i) \/ EndMove(i) \/ StartMove(i)
        PROVE  UNCHANGED repositoryVars
    BY <1>1 DEF LocalMove, EndMove, StartMove
  <1>2. CASE OutsideMove
    BY <1>2 DEF OutsideMove, RepositoryStep, repositoryVars
  <1>3. ASSUME NEW c \in calls, DeliverMove(c)
        PROVE  [RepositoryStep]_repositoryVars
    BY <1>3, WritesAreRepositorySteps DEF DeliverMove
  <1>4. QED
    BY <1>1, <1>2, <1>3 DEF AnyMove

\* The lock, the claims and the histories stay typed.
Bookkeeping == /\ lock \in Tokens \cup {NoToken}
               /\ lateSets \subseteq Tokens
               /\ lastToken \in Tokens \cup {0}
               /\ claims \subseteq ResultRows
               /\ reported \in [Tokens -> Outcomes \cup {"none"}]
               /\ expired \subseteq Tokens
               /\ faulted \subseteq Tokens
               /\ budget \in [BudgetKinds -> Nat]

\* Spending leaves the budget a record of counters.
LEMMA SpendTyped ==
  ASSUME Bookkeeping, NEW kind \in BudgetKinds, Spend(kind)
  PROVE  budget' \in [BudgetKinds -> Nat]
  BY DEF Bookkeeping, Spend

\* The history of claims pairs generations with answers.
LEMMA ClaimsTyped ==
  ASSUME TypeInvariant, NEW c \in calls, Writes(c) \/ UNCHANGED claims
  PROVE  claims' \subseteq ResultRows
  <1>1. claims \subseteq ResultRows
    BY DEF TypeInvariant, TypeOK
  <1>2. CASE ClaimWrites(c)
    <2>1. c.token \in Answers
      BY <1>2, AnswersAssumption
      DEF ClaimWrites, TypeInvariant, TokensFollowRuns, RunOps, UserOps
    <2>2. review.generation + 1 \in Nat
      BY DEF TypeInvariant, TypeOK, RepositoryTypeOK, ReviewRows
    <2>3. QED
      BY <1>1, <1>2, <2>1, <2>2 DEF ClaimWrites, ResultRows
  <1>3. CASE UNCHANGED claims
    BY <1>1, <1>3
  <1>4. QED
    BY <1>2, <1>3 DEF Writes, RunWrites, UserWrites

\* Budgets, tokens, histories and the lock keep their types.
LEMMA StepsKeepBookkeeping == TypeInvariant /\ [Next]_vars => Bookkeeping'
  <1> SUFFICES ASSUME TypeInvariant, [Next]_vars
               PROVE  Bookkeeping'
    OBVIOUS
  <1>1. Bookkeeping
    BY DEF TypeInvariant, TypeOK, Bookkeeping
  <1>2. ASSUME NEW i \in Instances, run[i].pc # "idle"
        PROVE  run[i].token \in Tokens /\ run[i].outcome \in Outcomes \cup {"none"}
    BY <1>2 DEF TypeInvariant, TokensFollowRuns, idleRun, Live, RunStates
  <1>3. ASSUME NEW i \in Instances,
               \/ AcquireContended(i) \/ ReadClaimMissed(i) \/ AiAnswers(i) \/ AiFails(i)
               \/ AiCancels(i) \/ LossWakes(i) \/ ReadCompleteMissed(i)
               \/ ReadFailMissed(i) \/ ReadCancelMissed(i) \/ AwaitFence(i)
               \/ ReadFallbackMissed(i) \/ LoseLease(i)
        PROVE  UNCHANGED <<lock, lateSets, lastToken, claims, reported, expired,
                           faulted, budget>>
    BY <1>3 DEF AcquireContended, ReadClaimMissed, AiAnswers, AiFails, AiCancels,
                LossWakes, ReadCompleteMissed, ReadFailMissed, ReadCancelMissed,
                AwaitFence, ReadFallbackMissed, LoseLease, Running
  <1>4. ASSUME NEW i \in Instances, AcquireLock(i) PROVE Bookkeeping'
    BY <1>1, <1>2, <1>4 DEF AcquireLock, Bookkeeping
  <1>5. ASSUME NEW i \in Instances, ReadContended(i) PROVE Bookkeeping'
    BY <1>1, <1>5, OutcomesTyped
    DEF ReadContended, EndWithoutLock, Bookkeeping, TypeInvariant, TypeOK
  <1>6. ASSUME NEW i \in Instances, AcquireUnavailable(i) PROVE Bookkeeping'
    <2>1. budget' \in [BudgetKinds -> Nat]
      BY <1>1, <1>6, SpendTyped DEF AcquireUnavailable, BudgetKinds
    <2>2. "LOCK_UNAVAILABLE" \in Outcomes
      BY DEF Outcomes
    <2>3. QED
      BY <1>1, <1>2, <1>6, <2>1, <2>2
      DEF AcquireUnavailable, EndWithoutLock, Bookkeeping
  <1>7. ASSUME NEW i \in Instances, ReleaseLock(i) PROVE Bookkeeping'
    BY <1>1, <1>2, <1>7 DEF ReleaseLock, Bookkeeping
  <1>8. ASSUME NEW i \in Instances, ReleaseUnavailable(i) PROVE Bookkeeping'
    <2>1. budget' \in [BudgetKinds -> Nat]
      BY <1>1, <1>8, SpendTyped DEF ReleaseUnavailable, BudgetKinds
    <2>2. QED
      BY <1>1, <1>2, <1>8, <2>1 DEF ReleaseUnavailable, EndWithoutLock, Bookkeeping
  <1>9. ASSUME NEW i \in Instances, ReadFails(i) PROVE Bookkeeping'
    <2>1. budget' \in [BudgetKinds -> Nat]
      BY <1>1, <1>9, SpendTyped DEF ReadFails, BudgetKinds
    <2>2. QED
      BY <1>1, <1>9, <2>1 DEF ReadFails, Bookkeeping
  <1>10. ASSUME NEW i \in Instances, UserCancel(i) \/ UserRetry(i) PROVE Bookkeeping'
    <2>1. budget' \in [BudgetKinds -> Nat]
      BY <1>1, <1>10, SpendTyped DEF UserCancel, UserRetry, BudgetKinds
    <2>2. QED
      BY <1>1, <1>10, <2>1 DEF UserCancel, UserRetry, Bookkeeping
  <1>11. ASSUME UserDelete PROVE Bookkeeping'
    <2>1. budget' \in [BudgetKinds -> Nat]
      BY <1>1, <1>11, SpendTyped DEF UserDelete, BudgetKinds
    <2>2. QED
      BY <1>1, <1>11, <2>1 DEF UserDelete, Bookkeeping
  <1>12. ASSUME NEW i \in Instances, Crash(i) PROVE Bookkeeping'
    <2>1. budget' \in [BudgetKinds -> Nat]
      BY <1>1, <1>12, SpendTyped DEF Crash, BudgetKinds
    <2>2. QED
      BY <1>1, <1>2, <1>12, <2>1 DEF Crash, Bookkeeping
  <1>13. ASSUME NEW i \in Instances, StartRun(i) PROVE Bookkeeping'
    <2>1. lastToken + 1 \in Tokens
      BY <1>1, <1>13, BoundsAssumption DEF StartRun, Bookkeeping, Tokens
    <2>2. QED
      BY <1>1, <1>13, <2>1 DEF StartRun, Bookkeeping
  <1>14. ASSUME NEW c \in calls, CallApplied(c) \/ CallMatchesNoRow(c)
         PROVE  Bookkeeping'
    <2>1. claims' \subseteq ResultRows
      BY <1>14, ClaimsTyped DEF CallApplied, CallMatchesNoRow
    <2>2. QED
      BY <1>1, <1>14, <2>1 DEF CallApplied, CallMatchesNoRow, Bookkeeping
  <1>15. ASSUME NEW c \in calls, CallFails(c) PROVE Bookkeeping'
    <2>1. claims' \subseteq ResultRows
      BY <1>15, ClaimsTyped DEF CallFails
    <2>2. budget' \in [BudgetKinds -> Nat]
      BY <1>1, <1>15, SpendTyped DEF CallFails, BudgetKinds
    <2>3. c.op \notin {"fence", "userCancel", "userRetry"} => c.token \in Tokens
      BY DEF TypeInvariant, TokensFollowRuns, UserOps
    <2>4. faulted' \subseteq Tokens
      BY <1>1, <1>15, <2>3 DEF CallFails, Bookkeeping
    <2>5. QED
      BY <1>1, <1>15, <2>1, <2>2, <2>4 DEF CallFails, Bookkeeping
  <1>16. ASSUME NEW t \in lateSets, LateSetExecutes(t) PROVE Bookkeeping'
    BY <1>1, <1>16 DEF LateSetExecutes, Bookkeeping
  <1>17. ASSUME LeaseExpires PROVE Bookkeeping'
    BY <1>1, <1>17 DEF LeaseExpires, Bookkeeping
  <1>18. ASSUME UNCHANGED <<lock, lateSets, lastToken, claims, reported, expired,
                            faulted, budget>>
         PROVE  Bookkeeping'
    BY <1>1, <1>18 DEF Bookkeeping
  <1>19. CASE UNCHANGED vars
    BY <1>18, <1>19 DEF vars
  <1>20. QED
    BY <1>3, <1>4, <1>5, <1>6, <1>7, <1>8, <1>9, <1>10, <1>11, <1>12, <1>13, <1>14,
       <1>15, <1>16, <1>17, <1>18, <1>19 DEF Next, RunStep

\* The invariant of the durable record, kept whatever the runs do.
DurableInvariant == TypeInvariant /\ RepositoryInvariant

\* A new review, no run and no call: types and the repository's invariant hold.
LEMMA InitEstablishesDurableInvariant == Init => DurableInvariant
  <1> SUFFICES ASSUME Init PROVE DurableInvariant
    OBVIOUS
  <1>1. RepositoryInvariant
    BY CreateEstablishesRepositoryInvariant DEF Init
  <1>2. Bookkeeping
    BY TokensAreNumbers, BoundsAssumption DEF Init, Bookkeeping
  <1>3. run \in [Instances -> RunStates] /\ calls \subseteq CallStates
    BY IdleRunTyped DEF Init
  <1>4. TokensFollowRuns
    BY DEF Init, TokensFollowRuns
  <1>5. QED
    BY <1>1, <1>2, <1>3, <1>4
    DEF DurableInvariant, TypeInvariant, TypeOK, Bookkeeping, RepositoryInvariant

\* Each step keeps the types, and the repository's invariant by its theorem.
LEMMA StepKeepsDurableInvariant == DurableInvariant /\ [Next]_vars => DurableInvariant'
  <1> SUFFICES ASSUME DurableInvariant, [Next]_vars
               PROVE  DurableInvariant'
    OBVIOUS
  <1>1. TypeInvariant /\ RepositoryInvariant /\ AnyMove
    BY StepsAreMoves DEF DurableInvariant
  <1>2. RepositoryInvariant'
    BY <1>1, MovesAreRepositorySteps, RepositoryStepKeepsInvariant
  <1>3. Bookkeeping'
    BY <1>1, StepsKeepBookkeeping
  <1>4. /\ run' \in [Instances -> RunStates]
        /\ calls' \subseteq CallStates
        /\ TokensFollowRuns'
    BY <1>1, MovesKeepRuns
  <1>5. QED
    BY <1>2, <1>3, <1>4
    DEF DurableInvariant, TypeInvariant, TypeOK, Bookkeeping, RepositoryInvariant

\* Types and the repository's invariant hold throughout.
LEMMA DurableInvariantHolds == Spec => []DurableInvariant
  BY InitEstablishesDurableInvariant, StepKeepsDurableInvariant, PTL DEF Spec

\* Every variable keeps its type, for any number of instances, runs and faults.
THEOREM TypesHold == Spec => []TypeOK
  <1>1. DurableInvariant => TypeOK
    BY DEF DurableInvariant, TypeInvariant
  <1>2. QED
    BY <1>1, DurableInvariantHolds, PTL

\* The event log replays the lifecycle of the review, whatever the runs do.
THEOREM EventLogHolds == Spec => []EventLogReplaysLifecycle
  <1>1. DurableInvariant => EventLogReplaysLifecycle
    BY DEF DurableInvariant, RepositoryInvariant
  <1>2. QED
    BY <1>1, DurableInvariantHolds, PTL

\* A result exists exactly when the review is completed, and only one ever does.
THEOREM ResultHolds == Spec => []ResultIffCompleted
  <1>1. DurableInvariant => ResultIffCompleted
    BY DEF DurableInvariant, RepositoryInvariant
  <1>2. QED
    BY <1>1, DurableInvariantHolds, PTL

-------------------------------------------------------------------------------
(* Who may write what: the generation a run works under is the one it claimed. *)

Claimant(x) == [generation |-> x.generation, answer |-> x.token]

\* What AnswerIsOfItsClaimant rests on: a generation is claimed once and never in
\* the future, and a run, like every write it has issued, carries a generation
\* that it claimed itself.
ClaimInvariant ==
  /\ \A c \in claims : c.generation \leq review.generation
  /\ \A c, d \in claims : c.generation = d.generation => c = d
  /\ results \subseteq claims
  /\ \A i \in Instances : /\ run[i].generation # 0 => Claimant(run[i]) \in claims
                          /\ run[i].pc \in ClaimedPcs => run[i].generation # 0
  /\ \A c \in calls : c.op \in RunOps \ {"claim"} => Claimant(c) \in claims

\* The effects of a write on what the claim invariant speaks of.
LEMMA WriteEffects ==
  ASSUME TypeInvariant, NEW c \in calls, Writes(c)
  PROVE  \/ /\ c.op = "claim"
            /\ claims' = claims \cup {[generation |-> review.generation + 1,
                                       answer |-> c.token]}
            /\ review'.generation = review.generation + 1
            /\ results' = results
            /\ review.status # "PROCESSING"
         \/ /\ c.op = "complete"
            /\ claims' = claims /\ review'.generation = review.generation
            /\ results' = results \cup {Claimant(c)}
            /\ c.generation = review.generation
         \/ /\ c.op \in {"fail", "cancel", "fence"}
            /\ claims' = claims /\ review'.generation = review.generation
            /\ results' = results
            /\ c.generation = review.generation
         \/ /\ c.op \in UserOps
            /\ claims' = claims /\ review'.generation = review.generation
            /\ results' = results
            /\ c.op = "userRetry" => review.status # "PROCESSING"
  <1>1. review \in ReviewRows
    BY DEF TypeInvariant, TypeOK, RepositoryTypeOK
  <1>2. ASSUME NEW to \in Statuses, Advance(to)
        PROVE  review'.generation = IF to = "PROCESSING" THEN review.generation + 1
                                                         ELSE review.generation
    BY <1>1, <1>2 DEF Advance, ReviewRows
  <1>3. {"PROCESSING", "COMPLETED", "FAILED", "CANCELLED", "PENDING"} \subseteq Statuses
    BY DEF Statuses
  <1>4. CASE ClaimWrites(c)
    BY <1>2, <1>3, <1>4 DEF ClaimWrites, transitionForUser, CanTransition
  <1>5. CASE RunWrites(c)
    BY <1>2, <1>3, <1>5
    DEF RunWrites, finalizeForUser, fenceProcessingForUser, transitionForUser,
        CanLeaveProcessing, CanTransition, Claimant
  <1>6. CASE UserWrites(c)
    <2>1. "PROCESSING" \notin allowedSourceStatuses("PENDING")
      BY DEF allowedSourceStatuses, ALLOWED_TRANSITIONS
    <2>2. QED
      BY <1>2, <1>3, <1>6, <2>1 DEF UserWrites, transitionForUser, CanTransition, UserOps
  <1>7. QED
    BY <1>4, <1>5, <1>6 DEF Writes

\* At the start nothing is claimed and no run is past its claim.
LEMMA InitEstablishesClaimInvariant == Init => ClaimInvariant
  BY PcsListed DEF Init, create, ClaimInvariant, idleRun

\* Calls a run issues are its own.
LEMMA IssuedAreClaimed ==
  ASSUME NEW r, NEW s, Live(s), NEW cs,
         s.generation # 0 => Claimant(s) \in cs,
         s.pc \in ClaimedPcs => s.generation # 0,
         r.fence = "none" /\ s.fence = "pending" => s.generation # 0,
         NEW c \in Issued(r, s), c.op # "claim"
  PROVE  Claimant(c) \in cs
  <1>1. c.token = s.token /\ c.generation = s.generation
    BY IssuedTyped
  <1>2. s.generation # 0
    BY IssuedTyped
  <1>3. QED
    BY <1>1, <1>2 DEF Claimant

\* A run and its calls keep the generation they claimed, whatever is delivered
\* late and in whatever order.
LEMMA MovesKeepClaimInvariant ==
  ASSUME TypeInvariant, ClaimInvariant, AnyMove
  PROVE  ClaimInvariant'
  <1> DEFINE RunOK(r, cs) == /\ r.generation # 0 => Claimant(r) \in cs
                             /\ r.pc \in ClaimedPcs => r.generation # 0
             CallOK(c, cs) == c.op \in RunOps \ {"claim"} => Claimant(c) \in cs
  <1>1. /\ \A c \in claims : c.generation \leq review.generation
        /\ \A c, d \in claims : c.generation = d.generation => c = d
        /\ results \subseteq claims
        /\ \A i \in Instances : RunOK(run[i], claims)
        /\ \A c \in calls : CallOK(c, claims)
    BY DEF ClaimInvariant
  <1>2. run \in [Instances -> RunStates] /\ review.generation \in Nat
        /\ \A c \in claims : c.generation \in Nat
    BY DEF TypeInvariant, TypeOK, RepositoryTypeOK, ReviewRows, ResultRows
  <1>3. ASSUME NEW r, NEW s, Successor(r, s), NEW cs, RunOK(r, cs)
        PROVE  /\ RunOK(s, cs)
               /\ \A c \in Issued(r, s) : CallOK(c, cs)
    <2>1. RunOK(s, cs)
      BY <1>3 DEF Successor, Claimant
    <2>2. QED
      BY <1>3, <2>1, IssuedAreClaimed DEF Successor
  <1>4. ASSUME NEW i \in Instances, LocalMove(i) PROVE ClaimInvariant'
    <2>1. PICK s : /\ Successor(run[i], s)
                   /\ run' = [run EXCEPT ![i] = s]
                   /\ calls' = calls \cup Issued(run[i], s)
      BY <1>4 DEF LocalMove, StepOf
    <2>2. RunOK(s, claims) /\ \A c \in Issued(run[i], s) : CallOK(c, claims)
      BY <1>1, <1>3, <2>1
    <2> HIDE DEF RunOK, CallOK
    <2>3. \A j \in Instances : RunOK(run'[j], claims)
      BY <1>1, <1>2, <2>1, <2>2
    <2>4. \A c \in calls' : CallOK(c, claims)
      BY <1>1, <2>1, <2>2
    <2>5. UNCHANGED <<review, results, claims>>
      BY <1>4 DEF LocalMove, repositoryVars
    <2>6. QED
      BY <1>1, <2>3, <2>4, <2>5 DEF ClaimInvariant, RunOK, CallOK
  <1>5. ASSUME NEW i \in Instances, EndMove(i) \/ StartMove(i) PROVE ClaimInvariant'
    <2>1. UNCHANGED <<review, results, claims, calls>>
      BY <1>5 DEF EndMove, StartMove, repositoryVars
    <2>2. PICK s : /\ run' = [run EXCEPT ![i] = s]
                   /\ s.generation = 0 /\ s.pc \in {"idle", "acquiring"}
      <3>1. idleRun.generation = 0 /\ idleRun.pc = "idle"
        BY DEF idleRun
      <3>2. CASE EndMove(i)
        BY <3>1, <3>2 DEF EndMove
      <3>3. ASSUME NEW t, NEW s, s = [idleRun EXCEPT !.pc = "acquiring", !.token = t]
            PROVE  s.generation = 0 /\ s.pc = "acquiring"
        BY <3>3 DEF idleRun
      <3>4. CASE StartMove(i)
        <4>1. PICK t \in Tokens :
                run' = [run EXCEPT ![i] = [idleRun EXCEPT !.pc = "acquiring", !.token = t]]
          BY <3>4 DEF StartMove
        <4>2. QED
          BY <4>1, <3>3
      <3>5. QED
        BY <1>5, <3>2, <3>4
    <2>3. RunOK(s, claims)
      BY <2>2, PcsListed
    <2> HIDE DEF RunOK, CallOK
    <2>4. \A j \in Instances : RunOK(run'[j], claims)
      BY <1>1, <1>2, <2>2, <2>3
    <2>5. QED
      BY <1>1, <2>1, <2>4 DEF ClaimInvariant, RunOK, CallOK
  <1>6. CASE OutsideMove
    <2>1. review'.generation = review.generation /\ UNCHANGED <<results, claims>>
      BY <1>6 DEF OutsideMove, softDeleteForUser, TypeInvariant, TypeOK,
                  RepositoryTypeOK, ReviewRows
    <2>2. \A i \in Instances : /\ run'[i].generation = run[i].generation
                               /\ run'[i].token = run[i].token
                               /\ run'[i].pc = run[i].pc
      BY <1>2, <1>6 DEF OutsideMove, RunStates
    <2>3. \A i \in Instances : RunOK(run'[i], claims)
      BY <1>1, <2>2 DEF Claimant
    <2>4. \A op \in UserOps : CallOK(userCall(op), claims)
      BY DEF userCall, UserOps, RunOps
    <2>5. \A c \in calls' : CallOK(c, claims)
      BY <1>1, <1>6, <2>4 DEF OutsideMove
    <2>6. QED
      BY <1>1, <2>1, <2>3, <2>5 DEF ClaimInvariant
  <1>7. ASSUME NEW c \in calls, DeliverMove(c) PROVE ClaimInvariant'
    <2>1. PICK reply \in Replies : /\ Deliver(c, reply)
                                   /\ Writes(c) \/ UNCHANGED <<repositoryVars, claims>>
                                   /\ reply = "ok" => Writes(c)
      BY <1>7 DEF DeliverMove
    <2>2. /\ claims \subseteq claims'
          /\ \A d \in claims' : d.generation \leq review'.generation
          /\ \A d, e \in claims' : d.generation = e.generation => d = e
          /\ results' \subseteq claims'
      <3>1. CASE UNCHANGED <<repositoryVars, claims>>
        BY <1>1, <3>1 DEF repositoryVars
      <3>2. CASE Writes(c) /\ c.op = "claim"
        <4> DEFINE new == [generation |-> review.generation + 1, answer |-> c.token]
        <4>1. /\ claims' = claims \cup {new} /\ results' = results
              /\ review'.generation = review.generation + 1
          BY <3>2, WriteEffects DEF UserOps
        <4>2. new.generation = review.generation + 1
          OBVIOUS
        <4> HIDE DEF new
        <4>3. \A d \in claims : d.generation # new.generation
          BY <1>1, <1>2, <4>2
        <4>4. \A d \in claims' : d.generation \leq review'.generation
          BY <1>1, <1>2, <4>1, <4>2
        <4>5. QED
          BY <1>1, <4>1, <4>3, <4>4
      <3>3. CASE Writes(c) /\ c.op # "claim"
        <4>1. claims' = claims /\ review'.generation = review.generation
          BY <3>3, WriteEffects
        <4>2. results' \subseteq claims
          BY <1>1, <3>3, WriteEffects DEF RunOps
        <4>3. QED
          BY <1>1, <4>1, <4>2
      <3>4. QED
        BY <2>1, <3>1, <3>2, <3>3
    <2>3. ASSUME NEW i \in Instances
          PROVE  /\ RunOK(run'[i], claims')
                 /\ \A d \in Issued(run[i], run'[i]) : CallOK(d, claims')
      <3>1. RunOK(run[i], claims')
        BY <1>1, <2>2
      <3>2. CASE run'[i] = run[i] /\ Issued(run[i], run'[i]) = {}
        BY <3>1, <3>2
      <3>3. CASE Successor(run[i], run'[i])
        BY <1>3, <3>1, <3>3
      <3>4. CASE c.op = "claim" /\ reply = "ok" /\ Claims(run[i], run'[i])
                 /\ run[i].token = c.token
        <4>1. Claimant(run'[i]) \in claims'
          <5>1. claims' = claims \cup {[generation |-> review.generation + 1,
                                        answer |-> c.token]}
            BY <2>1, <3>4, WriteEffects DEF UserOps
          <5>2. QED
            BY <5>1, <3>4 DEF Claims, Claimant
        <4>2. run'[i].generation # 0
          BY <1>2, <3>4 DEF Claims
        <4>3. Live(run'[i])
          BY <3>4 DEF Claims
        <4>4. \A d \in Issued(run[i], run'[i]) : CallOK(d, claims')
          BY <4>1, <4>2, <4>3, IssuedAreClaimed
        <4>5. QED
          BY <4>1, <4>2, <4>4
      <3>5. QED
        BY <2>1, <3>2, <3>3, <3>4, DeliveredRuns
    <2>4. \A d \in calls : CallOK(d, claims')
      BY <1>1, <2>2
    <2> HIDE DEF RunOK, CallOK
    <2>5. \A d \in calls' : CallOK(d, claims')
      <3>1. calls' = (calls \ {c}) \cup UNION {Issued(run[i], run'[i]) : i \in Instances}
        BY <2>1 DEF Deliver
      <3>2. QED
        BY <2>3, <2>4, <3>1
    <2>6. QED
      BY <2>2, <2>3, <2>5 DEF ClaimInvariant, RunOK, CallOK
  <1>8. QED
    BY <1>4, <1>5, <1>6, <1>7 DEF AnyMove

ProcessingInvariant == DurableInvariant /\ ClaimInvariant

\* The types, the repository's invariant and the claims' hold throughout.
LEMMA ProcessingInvariantHolds == Spec => []ProcessingInvariant
  <1>1. Init => ProcessingInvariant
    BY InitEstablishesDurableInvariant, InitEstablishesClaimInvariant
    DEF ProcessingInvariant
  <1>2. ProcessingInvariant /\ [Next]_vars => ProcessingInvariant'
    <2> SUFFICES ASSUME ProcessingInvariant, [Next]_vars
                 PROVE  ProcessingInvariant'
      OBVIOUS
    <2>1. TypeInvariant /\ ClaimInvariant /\ AnyMove
      BY StepsAreMoves DEF ProcessingInvariant, DurableInvariant
    <2>2. QED
      BY <2>1, StepKeepsDurableInvariant, MovesKeepClaimInvariant
      DEF ProcessingInvariant
  <1>3. QED
    BY <1>1, <1>2, PTL DEF Spec

\* The persisted answer is the answer of the run that claimed the generation it is
\* stored under, however many runs, late writes and crashes there are.
THEOREM AnswerHolds == Spec => []AnswerIsOfItsClaimant
  <1>1. ProcessingInvariant => AnswerIsOfItsClaimant
    BY DEF ProcessingInvariant, ClaimInvariant, AnswerIsOfItsClaimant
  <1>2. QED
    BY <1>1, ProcessingInvariantHolds, PTL

\* Only the user and the claimant of the current generation end its processing.
THEOREM ClaimantSettles == Spec => OnlyClaimantSettles
  <1> DEFINE Settles ==
        review.status = "PROCESSING" /\ review'.status # "PROCESSING" =>
          \E c \in calls \ calls' : c.op = "userCancel" \/ Claimed(c.token)
  <1>1. ProcessingInvariant /\ [Next]_vars => [Settles]_vars
    <2> SUFFICES ASSUME ProcessingInvariant, [Next]_vars,
                        review.status = "PROCESSING", review'.status # "PROCESSING"
                 PROVE  \E c \in calls \ calls' : c.op = "userCancel" \/ Claimed(c.token)
      OBVIOUS
    <2>1. TypeInvariant /\ ClaimInvariant /\ AnyMove
      BY StepsAreMoves DEF ProcessingInvariant, DurableInvariant
    <2>2. \A i \in Instances : ~(LocalMove(i) \/ EndMove(i) \/ StartMove(i))
      BY DEF LocalMove, EndMove, StartMove, repositoryVars
    <2>3. ~OutsideMove
      BY <2>1 DEF OutsideMove, softDeleteForUser, TypeInvariant, TypeOK,
                  RepositoryTypeOK, ReviewRows
    <2>4. PICK c \in calls : DeliverMove(c)
      BY <2>1, <2>2, <2>3 DEF AnyMove
    <2>5. PICK reply \in Replies : Deliver(c, reply) /\ Writes(c)
      <3>1. review' # review
        OBVIOUS
      <3>2. QED
        BY <2>4, <3>1 DEF DeliverMove, repositoryVars
    <2>6. c.op = "userCancel" \/ Claimed(c.token)
      <3>1. CASE c.op \in UserOps
        BY <2>1, <2>5, <3>1, WriteEffects DEF UserOps
      <3>2. CASE c.op \notin UserOps
        <4>1. c.op \in {"complete", "fail", "cancel", "fence"}
              /\ c.generation = review.generation
          BY <2>1, <2>5, <3>2, WriteEffects
        <4>2. QED
          BY <2>1, <4>1 DEF ClaimInvariant, Claimant, Claimed, RunOps
      <3>3. QED
        BY <3>1, <3>2
    <2>7. c \notin calls'
      <3>1. ASSUME NEW i \in Instances PROVE c \notin Issued(run[i], run'[i])
        <4>1. Issued(run[i], run'[i]) = {} \/ IssuesOtherThan(c.op, run[i], run'[i])
          BY <2>1, <2>5, DeliveredRuns
        <4>2. QED
          BY <4>1 DEF IssuesOtherThan
      <3>2. calls' = (calls \ {c}) \cup UNION {Issued(run[i], run'[i]) : i \in Instances}
        BY <2>5 DEF Deliver
      <3>3. QED
        BY <3>1, <3>2
    <2>8. QED
      BY <2>6, <2>7
  <1>2. QED
    BY <1>1, ProcessingInvariantHolds, PTL DEF Spec, OnlyClaimantSettles

-------------------------------------------------------------------------------
(* What a run leaves behind. *)

\* No write that is pinned to generation g matches the review any more.
Settled(g) == \/ review.deleted
              \/ review.status # "PROCESSING"
              \/ review.generation # g
              \/ review.eventSequence >= MaxEventSequence

Unclaimed(t) == \A c \in claims : c.answer # t

ClaimsSettled(t) == \A c \in claims : c.answer = t => Settled(c.generation)

\* The answer of run t is not stored and will not be.
Closed(t) == t \notin Persisted /\ ClaimsSettled(t)

OutcomeHolds(t, outcome) ==
  /\ outcome = "COMPLETED" => t \in Persisted
  /\ outcome = "ALREADY_COMPLETED" => Persisted # {}
  /\ outcome \in StoppedOutcomes => Closed(t)

MissedPcs == {"completeMissed", "failMissed", "cancelMissed", "fallbackMissed"}

\* What a run at work knows of the claims.
RunFits(r) ==
  /\ r.pc \in {"acquiring", "contended", "claiming", "claimMissed"} =>
       Unclaimed(r.token) /\ r.fence = "none" /\ r.generation = 0
  /\ r.pc # "releasing" => r.outcome = "none"
  /\ r.pc \in MissedPcs => ClaimsSettled(r.token)
  /\ r.pc = "releasing" /\ r.token \notin faulted => ClaimsSettled(r.token)
  /\ r.fence = "cancelled" => Closed(r.token)
  /\ OutcomeHolds(r.token, r.outcome)

\* Tokens are handed out once.
TokensAreFresh ==
  /\ \A i \in Instances : run[i].pc # "idle" => run[i].token <= lastToken
  /\ \A i, j \in Instances : run[i].pc # "idle" /\ run[i].token = run[j].token => i = j
  /\ \A c \in calls : c.token <= lastToken
  /\ \A c \in claims : c.answer <= lastToken
  /\ \A t \in Tokens : reported[t] # "none" => t <= lastToken

\* A run claims at most once; while its claim is under way the run waits for it.
ClaimsOnce ==
  /\ \A c, d \in claims : c.answer = d.answer => c = d
  /\ \A c \in calls : c.op = "claim" =>
       /\ c.generation = 0
       /\ Unclaimed(c.token)
       /\ \A i \in Instances : run[i].token = c.token => run[i].pc = "claiming"
       /\ c.token \notin faulted => \E i \in Instances : run[i].token = c.token
       /\ reported[c.token] = "none"

\* What was claimed is settled or still being worked on.
ClaimsWorkedOn ==
  \A t \in Tokens \ faulted :
    \/ ClaimsSettled(t)
    \/ \E i \in Instances : run[i].token = t /\ run[i].pc \in KeepalivePcs

ReportsHold ==
  \A t \in Tokens :
    /\ OutcomeHolds(t, reported[t])
    /\ reported[t] # "none" => \A i \in Instances : run[i].token # t

SettlementInvariant ==
  /\ TokensAreFresh
  /\ ClaimsOnce
  /\ \A i \in Instances : RunFits(run[i])
  /\ ClaimsWorkedOn
  /\ ReportsHold

-------------------------------------------------------------------------------
(* How runs change. *)

\* A run that goes to another pc.
LEMMA MovedRun ==
  ASSUME NEW r, Live(r), NEW pc \in Pcs \ {"idle"}, NEW s, s = [r EXCEPT !.pc = pc]
  PROVE  /\ Live(s) /\ s.pc = pc /\ s.token = r.token /\ s.fence = r.fence
         /\ s.outcome = r.outcome /\ s.generation = r.generation
  BY DEF Live, RunStates

\* A run that finishes.
LEMMA FinishedRun ==
  ASSUME NEW r, Live(r), NEW outcome \in Outcomes, NEW s, s = Finish(r, outcome)
  PROVE  /\ Live(s) /\ s.pc = "releasing" /\ s.token = r.token /\ s.fence = r.fence
         /\ s.outcome = outcome
  BY PcsListed DEF Live, RunStates, Finish

\* A diverted run goes to cancellation.
LEMMA DivertedRun ==
  ASSUME NEW r, NEW s
  PROVE  \/ Diverted(r, s) = s
         \/ \E pc \in {"awaitFence", "cancelling"} : Diverted(r, s) = [r EXCEPT !.pc = pc]
  BY DEF Diverted

\* A run that loses its lease may start its fence.
LEMMA LostRun ==
  ASSUME NEW r, Live(r), NEW s, s = StartFence([r EXCEPT !.lost = TRUE])
  PROVE  /\ Live(s) /\ s.pc = r.pc /\ s.token = r.token /\ s.outcome = r.outcome
         /\ s.generation = r.generation
         /\ s.fence = r.fence \/ (s.fence = "pending" /\ r.generation # 0)
  <1> DEFINE l == [r EXCEPT !.lost = TRUE]
  <1>1. /\ Live(l) /\ l.pc = r.pc /\ l.token = r.token /\ l.outcome = r.outcome
        /\ l.fence = r.fence /\ l.generation = r.generation
    BY DEF Live, RunStates
  <1> HIDE DEF l
  <1>2. s = l \/ (s = [l EXCEPT !.fence = "pending"] /\ l.generation # 0)
    BY DEF StartFence, l
  <1>3. CASE s = [l EXCEPT !.fence = "pending"] /\ l.generation # 0
    <2>1. /\ Live(s) /\ s.pc = l.pc /\ s.token = l.token /\ s.outcome = l.outcome
          /\ s.fence = "pending" /\ s.generation = l.generation
      BY <1>1, <1>3 DEF Live, RunStates
    <2>2. QED
      BY <1>1, <1>3, <2>1
  <1>4. QED
    BY <1>1, <1>2, <1>3

\* What the replies make of the run that hears them.
ClaimAnswered(r, reply, s) ==
  \/ /\ reply = "ok"
     /\ s.pc \in {"awaitFence", "reviewing"} /\ s.outcome = r.outcome
     /\ s.fence = r.fence \/ s.fence = "pending"
  \/ /\ reply = "missed"
     /\ s.pc = "claimMissed" /\ s.outcome = r.outcome /\ s.fence = r.fence
     /\ s.generation = r.generation
  \/ /\ reply = "error"
     /\ s.pc = "releasing" /\ s.outcome = "ERROR" /\ s.fence = r.fence

WriteAnswered(r, op, reply, s) ==
  /\ s.fence = r.fence
  /\ \/ s.pc \in {"awaitFence", "cancelling"} /\ s.outcome = r.outcome
     \/ reply = "missed" /\ s.pc \in MissedPcs /\ s.outcome = r.outcome
     \/ reply = "error" /\ s.pc = "releasing" /\ s.outcome = "ERROR"
     \/ /\ reply = "ok" /\ s.pc = "releasing"
        /\ s.outcome \in CASE op = "complete" -> {"COMPLETED"}
                           [] op = "fail" -> {"FAILED"}
                           [] op = "cancel" -> {"CANCELLED", "ERROR"}

FenceAnswered(r, reply, s) ==
  /\ s.pc = r.pc /\ s.outcome = r.outcome
  /\ s.fence \in {"cancelled", "missed", "failed"}
  /\ s.fence = "cancelled" => reply = "ok"

Answered(r, op, reply, s) ==
  /\ Live(s) /\ s.token = r.token
  /\ op = "claim" => ClaimAnswered(r, reply, s)
  /\ op \in {"complete", "fail", "cancel"} => WriteAnswered(r, op, reply, s)
  /\ op = "fence" => FenceAnswered(r, reply, s)

\* The claim is answered.
LEMMA ClaimIsAnswered ==
  ASSUME RepositoryTypeOK, NEW r, Live(r), r.pc = "claiming", NEW reply \in Replies,
         NEW s, s = ClaimReply(r, reply)
  PROVE  Answered(r, "claim", reply, s)
  <1>1. CASE reply = "ok"
    <2> DEFINE g == [r EXCEPT !.generation = review.generation + 1]
               f == StartFence(g)
    <2>1. review.generation + 1 \in Nat
      BY DEF RepositoryTypeOK, ReviewRows
    <2>2. Live(g) /\ g.token = r.token /\ g.outcome = r.outcome /\ g.fence = r.fence
      BY <2>1 DEF Live, RunStates
    <2> HIDE DEF g
    <2>3. f = g \/ f = [g EXCEPT !.fence = "pending"]
      BY DEF StartFence
    <2>4. /\ Live(f) /\ f.token = r.token /\ f.outcome = r.outcome
          /\ f.fence = r.fence \/ f.fence = "pending"
      <3> HIDE DEF f
      <3>1. QED
        BY <2>2, <2>3 DEF Live, RunStates
    <2>5. PICK pc \in {"awaitFence", "reviewing"} : s = [f EXCEPT !.pc = pc]
      BY <1>1 DEF ClaimReply, g
    <2> HIDE DEF f
    <2>6. /\ Live(s) /\ s.pc = pc /\ s.token = f.token /\ s.fence = f.fence
          /\ s.outcome = f.outcome
      BY <2>4, <2>5, MovedRun, PcsListed
    <2>7. QED
      BY <1>1, <2>4, <2>6 DEF Answered, ClaimAnswered
  <1>2. CASE reply = "missed"
    <2>1. s = [r EXCEPT !.pc = "claimMissed"] /\ "claimMissed" \in Pcs \ {"idle"}
      BY <1>2, PcsListed DEF ClaimReply
    <2>2. QED
      BY <1>2, <2>1, MovedRun DEF Answered, ClaimAnswered
  <1>3. CASE reply = "error"
    <2>1. s = Finish(r, "ERROR") /\ "ERROR" \in Outcomes
      BY <1>3 DEF ClaimReply, Outcomes
    <2>2. QED
      BY <1>3, <2>1, FinishedRun DEF Answered, ClaimAnswered
  <1>4. QED
    BY <1>1, <1>2, <1>3 DEF Replies

\* A terminal write or a cancellation is answered.
LEMMA WriteIsAnswered ==
  ASSUME NEW r, Live(r), NEW reply \in Replies, NEW s, NEW op,
         \/ op = "complete" /\ s = CompleteReply(r, reply)
         \/ op = "fail" /\ s = FailReply(r, reply)
         \/ op = "cancel" /\ s = CancelReply(r, reply)
  PROVE  Answered(r, op, reply, s)
  <1>1. {"awaitFence", "cancelling"} \cup MissedPcs \subseteq Pcs \ {"idle"}
    BY PcsListed DEF MissedPcs
  <1>2. {"COMPLETED", "FAILED", "CANCELLED", "ERROR"} \subseteq Outcomes
    BY DEF Outcomes
  <1> DEFINE Ends(outcome) ==
        \/ reply = "error" /\ outcome = "ERROR"
        \/ /\ reply = "ok"
           /\ outcome \in CASE op = "complete" -> {"COMPLETED"}
                            [] op = "fail" -> {"FAILED"}
                            [] op = "cancel" -> {"CANCELLED", "ERROR"}
  <1>3. \/ reply = "missed" /\ \E pc \in MissedPcs : s = [r EXCEPT !.pc = pc]
        \/ \E outcome \in {"COMPLETED", "FAILED", "CANCELLED", "ERROR"} :
             /\ Ends(outcome)
             /\ s \in {Finish(r, outcome), Diverted(r, Finish(r, outcome))}
    BY DEF CompleteReply, FailReply, CancelReply, Replies, MissedPcs, FallbackOutcome
  <1>4. CASE reply = "missed" /\ \E pc \in MissedPcs : s = [r EXCEPT !.pc = pc]
    BY <1>1, <1>4, MovedRun DEF Answered, WriteAnswered
  <1>5. ASSUME NEW outcome \in {"COMPLETED", "FAILED", "CANCELLED", "ERROR"}, Ends(outcome),
               s = Finish(r, outcome)
        PROVE  Answered(r, op, reply, s)
    <2>1. /\ Live(s) /\ s.pc = "releasing" /\ s.token = r.token /\ s.fence = r.fence
          /\ s.outcome = outcome
      <3>1. outcome \in Outcomes
        BY <1>2
      <3>2. QED
        BY <1>5, <3>1, FinishedRun
    <2>2. QED
      BY <1>5, <2>1 DEF Answered, WriteAnswered
  <1>6. ASSUME NEW pc \in {"awaitFence", "cancelling"}, s = [r EXCEPT !.pc = pc]
        PROVE  Answered(r, op, reply, s)
    BY <1>1, <1>6, MovedRun DEF Answered, WriteAnswered
  <1>7. QED
    BY <1>3, <1>4, <1>5, <1>6, DivertedRun

\* Every reply is answered to the run that hears it.
LEMMA HandledIsAnswered ==
  ASSUME RepositoryTypeOK, NEW r, Live(r), NEW c, c.op \in RunOps, Hears(r, c),
         NEW reply \in Replies, NEW s, s = Handled(r, c.op, reply)
  PROVE  /\ Answered(r, c.op, reply, s)
         /\ c.op = "claim" => r.pc = "claiming"
         /\ c.op \in {"complete", "fail", "cancel"} => r.pc \in ClaimedPcs
  <1>1. /\ c.op = "claim" => r.pc = "claiming"
        /\ c.op \in {"complete", "fail", "cancel"} => r.pc \in ClaimedPcs
    BY AwaitedOps, PcsListed DEF Hears, AwaitedOp
  <1>2. CASE c.op = "claim"
    <2>1. s = ClaimReply(r, reply)
      BY <1>2 DEF Handled
    <2>2. QED
      BY <1>1, <1>2, <2>1, ClaimIsAnswered
  <1>3. CASE c.op \in {"complete", "fail", "cancel"}
    <2>1. \/ c.op = "complete" /\ s = CompleteReply(r, reply)
          \/ c.op = "fail" /\ s = FailReply(r, reply)
          \/ c.op = "cancel" /\ s = CancelReply(r, reply)
      BY <1>3 DEF Handled
    <2>2. QED
      BY <1>1, <1>3, <2>1, WriteIsAnswered
  <1>4. CASE c.op = "fence"
    <2>1. PICK fence \in {"cancelled", "missed", "failed"} :
            s = [r EXCEPT !.fence = fence] /\ (fence = "cancelled" => reply = "ok")
      BY <1>4 DEF Handled, FenceReply, Replies
    <2>2. /\ Live(s) /\ s.pc = r.pc /\ s.token = r.token /\ s.outcome = r.outcome
          /\ s.fence = fence
      BY <2>1 DEF Live, RunStates
    <2>3. QED
      BY <1>1, <1>4, <2>1, <2>2 DEF Answered, FenceAnswered
  <1>5. QED
    BY <1>2, <1>3, <1>4 DEF RunOps

-------------------------------------------------------------------------------
(* What a step leaves settled. *)

\* The row as the arithmetic needs it.
LEMMA ReviewNumbers ==
  ASSUME TypeInvariant
  PROVE  /\ review.generation \in Nat /\ review.eventSequence \in Nat
         /\ review.status \in Statuses /\ review.deleted \in BOOLEAN
         /\ MaxEventSequence \in Nat /\ MaxGeneration \in Nat
  BY LimitsAssumption DEF TypeInvariant, TypeOK, RepositoryTypeOK, ReviewRows

\* The effects of a write on the row, as far as Settled speaks of it.
LEMMA WriteRows ==
  ASSUME TypeInvariant, NEW c \in calls, Writes(c)
  PROVE  /\ ~review.deleted
         /\ review'.deleted = review.deleted
         /\ review'.eventSequence = review.eventSequence + 1
         /\ c.op = "claim" => review'.status = "PROCESSING"
         /\ c.op # "claim" => review'.status # "PROCESSING"
         /\ c.op \in {"complete", "fail", "cancel", "fence"} => ~Settled(c.generation)
         /\ c.op = "complete" => review'.status = "COMPLETED"
  <1>1. review \in ReviewRows
    BY DEF TypeInvariant, TypeOK, RepositoryTypeOK
  <1>2. ASSUME NEW to \in Statuses, Advance(to)
        PROVE  /\ review'.deleted = review.deleted /\ review'.status = to
               /\ review'.eventSequence = review.eventSequence + 1
    BY <1>1, <1>2 DEF Advance, ReviewRows
  <1>3. {"PROCESSING", "COMPLETED", "FAILED", "CANCELLED", "PENDING"} \subseteq Statuses
    BY DEF Statuses
  <1>4. review.eventSequence < MaxEventSequence => ~(review.eventSequence >= MaxEventSequence)
    BY ReviewNumbers
  <1>5. CASE ClaimWrites(c)
    BY <1>2, <1>3, <1>5 DEF ClaimWrites, transitionForUser, CanTransition
  <1>6. CASE RunWrites(c)
    BY <1>2, <1>3, <1>4, <1>6
    DEF RunWrites, finalizeForUser, fenceProcessingForUser, transitionForUser,
        CanLeaveProcessing, CanTransition, Settled
  <1>7. CASE UserWrites(c)
    BY <1>2, <1>3, <1>7 DEF UserWrites, transitionForUser, CanTransition
  <1>8. QED
    BY <1>5, <1>6, <1>7 DEF Writes

\* What is settled stays settled: the generation, the deletion and the event
\* sequence only grow, and a generation is processed once.
LEMMA SettledForGood ==
  ASSUME TypeInvariant, NEW g \in Nat, g <= review.generation, Settled(g),
         (\E c \in calls : Writes(c)) \/ softDeleteForUser \/ UNCHANGED review
  PROVE  Settled(g)'
  <1>1. review \in ReviewRows
    BY DEF TypeInvariant, TypeOK, RepositoryTypeOK
  <1>2. CASE UNCHANGED review
    BY <1>2 DEF Settled
  <1>3. CASE softDeleteForUser
    BY <1>1, <1>3 DEF softDeleteForUser, Settled, ReviewRows
  <1>4. ASSUME NEW c \in calls, Writes(c) PROVE Settled(g)'
    <2>1. CASE c.op = "claim"
      <3>1. review'.generation = review.generation + 1
        BY <1>4, <2>1, WriteEffects DEF UserOps
      <3>2. review'.generation # g
        BY <3>1, ReviewNumbers
      <3>3. QED
        BY <3>2 DEF Settled
    <2>2. CASE c.op # "claim"
      BY <1>4, <2>2, WriteRows DEF Settled
    <2>3. QED
      BY <2>1, <2>2
  <1>5. QED
    BY <1>2, <1>3, <1>4

\* Without a claim of its own, what run t claimed stays settled.
LEMMA ClaimsSettledForGood ==
  ASSUME TypeInvariant, ClaimInvariant, NEW t, ClaimsSettled(t),
         (\E c \in calls : Writes(c)) \/ softDeleteForUser \/ UNCHANGED review,
         \A c \in claims' : c.answer = t => c \in claims
  PROVE  ClaimsSettled(t)'
  <1>1. \A c \in claims : c.generation \in Nat /\ c.generation <= review.generation
    BY DEF ClaimInvariant, TypeInvariant, TypeOK, ResultRows
  <1>2. SUFFICES ASSUME NEW c \in claims', c.answer = t PROVE Settled(c.generation)'
    BY DEF ClaimsSettled
  <1>3. c \in claims /\ Settled(c.generation)
    BY <1>2 DEF ClaimsSettled
  <1>4. PICK g \in Nat : g = c.generation /\ g <= review.generation /\ Settled(g)
    BY <1>1, <1>3
  <1>5. Settled(g)'
    BY <1>4, SettledForGood
  <1>6. QED
    BY <1>4, <1>5

\* Answers are stored by their claimants while their claim is not settled.
LEMMA StoredByClaimant ==
  ASSUME TypeInvariant, ClaimInvariant, NEW c \in calls, Writes(c)
  PROVE  /\ Persisted \subseteq Persisted'
         /\ c.op # "complete" => Persisted' = Persisted
         /\ c.op = "complete" => /\ c.token \in Persisted'
                                 /\ Persisted' = Persisted \cup {c.token}
                                 /\ ~ClaimsSettled(c.token)
  <1>1. CASE c.op # "complete"
    <2>1. results' = results
      BY <1>1, WriteEffects
    <2>2. QED
      BY <1>1, <2>1 DEF Persisted
  <1>2. CASE c.op = "complete"
    <2>1. results' = results \cup {Claimant(c)}
      BY <1>2, WriteEffects DEF UserOps
    <2>2. Claimant(c).answer = c.token /\ Claimant(c).generation = c.generation
      BY DEF Claimant
    <2>3. Claimant(c) \in claims
      BY <1>2 DEF ClaimInvariant, RunOps
    <2>4. ~Settled(c.generation)
      BY <1>2, WriteRows
    <2>5. ~ClaimsSettled(c.token)
      BY <2>2, <2>3, <2>4 DEF ClaimsSettled
    <2>6. Persisted' = Persisted \cup {c.token}
      BY <2>1, <2>2 DEF Persisted
    <2>7. QED
      BY <1>2, <2>5, <2>6
  <1>3. QED
    BY <1>1, <1>2

\* A closed run stays closed, and outcomes stay true.
LEMMA OutcomesStayTrue ==
  ASSUME TypeInvariant, ClaimInvariant, NEW t, NEW outcome,
         \/ \E c \in calls : Writes(c)
         \/ softDeleteForUser /\ UNCHANGED claims
         \/ UNCHANGED <<repositoryVars, claims>>,
         \A c \in claims' : c.answer = t => c \in claims
  PROVE  /\ Closed(t) => Closed(t)'
         /\ OutcomeHolds(t, outcome) => OutcomeHolds(t, outcome)'
         /\ Persisted \subseteq Persisted'
  <1>1. \/ \E c \in calls : Writes(c)
        \/ softDeleteForUser
        \/ UNCHANGED review
    BY DEF repositoryVars
  <1>2. ClaimsSettled(t) => ClaimsSettled(t)'
    BY <1>1, ClaimsSettledForGood
  <1>3. Persisted \subseteq Persisted' /\ (Closed(t) => t \notin Persisted')
    <2>1. CASE softDeleteForUser \/ UNCHANGED repositoryVars
      BY <2>1 DEF softDeleteForUser, repositoryVars, Persisted, Closed
    <2>2. ASSUME NEW c \in calls, Writes(c)
          PROVE  Persisted \subseteq Persisted' /\ (Closed(t) => t \notin Persisted')
      BY <2>2, StoredByClaimant DEF Closed
    <2>3. QED
      BY <2>1, <2>2
  <1>4. Closed(t) => Closed(t)'
    BY <1>2, <1>3 DEF Closed
  <1>5. QED
    BY <1>3, <1>4 DEF OutcomeHolds

\* A write that finds no row finds it settled.
LEMMA MissesSettle ==
  ASSUME TypeInvariant, ClaimInvariant, ClaimsOnce,
         NEW c \in calls, c.op \in {"complete", "fail", "cancel"}, ~Applies(c)
  PROVE  ClaimsSettled(c.token)
  <1>1. Settled(c.generation)
    <2>1. ~CanLeaveProcessing(c.generation) => Settled(c.generation)
      BY ReviewNumbers DEF CanLeaveProcessing, Settled
    <2>2. ~CanTransition({"PROCESSING"}, "FAILED", {c.generation}) => Settled(c.generation)
      BY ReviewNumbers DEF CanTransition, Settled
    <2>3. ~CanTransition({"PROCESSING"}, "CANCELLED", {c.generation}) => Settled(c.generation)
      BY ReviewNumbers DEF CanTransition, Settled
    <2>4. QED
      BY <2>1, <2>2, <2>3 DEF Applies
  <1>2. Claimant(c) \in claims /\ Claimant(c).answer = c.token
        /\ Claimant(c).generation = c.generation
    BY DEF ClaimInvariant, RunOps, Claimant
  <1>3. QED
    BY <1>1, <1>2 DEF ClaimsOnce, ClaimsSettled

\* A review that is read in another status than COMPLETED has no result.
LEMMA StatusTells ==
  ASSUME RepositoryInvariant
  PROVE  /\ review.status = "COMPLETED" <=> Persisted # {}
         /\ review.status = "PROCESSING" => results = {}
  BY DEF RepositoryInvariant, ResultIffCompleted, Persisted

\* A run that never claimed has nothing stored.
LEMMA UnclaimedIsClosed ==
  ASSUME ClaimInvariant, NEW t, Unclaimed(t)
  PROVE  Closed(t) /\ ClaimsSettled(t)
  BY DEF ClaimInvariant, Unclaimed, Closed, ClaimsSettled, Persisted

\* What a run concludes from the status it reads is so.
LEMMA ReadOutcomesHold ==
  ASSUME RepositoryInvariant, NEW t, ClaimsSettled(t)
  PROVE  /\ OutcomeHolds(t, lockContention)
         /\ OutcomeHolds(t, classifyNonClaimed)
         /\ OutcomeHolds(t, classifyMissed("RETRY_REQUIRED"))
         /\ OutcomeHolds(t, classifyMissed("FAILED"))
         /\ OutcomeHolds(t, "ERROR") /\ OutcomeHolds(t, "none")
  <1> DEFINE Read(outcome) == \/ outcome \in {"REVIEW_NOT_FOUND", "ERROR", "none"}
                              \/ outcome = "ALREADY_COMPLETED" /\ review.status = "COMPLETED"
                              \/ /\ outcome \notin {"COMPLETED", "ALREADY_COMPLETED"}
                                 /\ review.status # "COMPLETED"
  <1>1. ASSUME NEW outcome, Read(outcome) PROVE OutcomeHolds(t, outcome)
    BY <1>1, StatusTells DEF OutcomeHolds, StoppedOutcomes, Closed
  <1>2. review.status \in Statuses
    BY DEF RepositoryInvariant, RepositoryTypeOK, ReviewRows
  <1>3. Read(lockContention)
    BY <1>2 DEF lockContention, StatusOutcome, Statuses
  <1>4. Read(classifyNonClaimed)
    BY <1>2 DEF classifyNonClaimed, StatusOutcome, Statuses
  <1>5. Read(classifyMissed("RETRY_REQUIRED")) /\ Read(classifyMissed("FAILED"))
    BY <1>2 DEF classifyMissed, StatusOutcome, Statuses
  <1>6. Read("ERROR") /\ Read("none")
    OBVIOUS
  <1> HIDE DEF Read
  <1>7. QED
    BY <1>1, <1>3, <1>4, <1>5, <1>6

-------------------------------------------------------------------------------
(* The steps a run takes by itself. *)

\* What a run makes of itself between the replies.
Fits(r, s) ==
  /\ Live(s) /\ s.token = r.token /\ RunFits(s)
  /\ s.pc = "claiming" <=> r.pc = "claiming"
  /\ s.pc \in KeepalivePcs => r.pc \in KeepalivePcs
  /\ r.pc \in KeepalivePcs => s.pc \in KeepalivePcs \cup {"releasing"}

\* A run under way goes on to a pc that asks nothing of what was claimed.
LEMMA MoveFits ==
  ASSUME NEW r, Live(r), RunFits(r), r.pc \in ClaimedPcs, NEW pc \in ClaimedPcs \ MissedPcs,
         NEW s, s = [r EXCEPT !.pc = pc]
  PROVE  Fits(r, s)
  <1>1. pc \in Pcs \ {"idle"} /\ pc \in KeepalivePcs /\ r.pc \in KeepalivePcs
    BY PcsListed DEF ClaimedPcs
  <1>2. /\ Live(s) /\ s.pc = pc /\ s.token = r.token /\ s.fence = r.fence
        /\ s.outcome = r.outcome
    BY <1>1, MovedRun
  <1>3. s.pc \notin {"acquiring", "contended", "claiming", "claimMissed", "releasing"}
        /\ s.pc \notin MissedPcs /\ r.pc \notin {"releasing", "claiming"}
    BY <1>2, PcsListed
  <1>4. RunFits(s)
    BY <1>2, <1>3 DEF RunFits
  <1>5. QED
    BY <1>1, <1>2, <1>3, <1>4 DEF Fits

\* A run under way finishes.
LEMMA FinishFits ==
  ASSUME NEW r, Live(r), RunFits(r), r.pc \notin {"claiming"},
         NEW outcome \in Outcomes, OutcomeHolds(r.token, outcome), ClaimsSettled(r.token),
         NEW s, s = Finish(r, outcome)
  PROVE  Fits(r, s)
  <1>1. /\ Live(s) /\ s.pc = "releasing" /\ s.token = r.token /\ s.fence = r.fence
        /\ s.outcome = outcome
    BY FinishedRun
  <1>2. RunFits(s)
    BY <1>1 DEF RunFits, MissedPcs
  <1>3. s.pc \notin KeepalivePcs
    BY <1>1 DEF KeepalivePcs
  <1>4. QED
    BY <1>1, <1>2, <1>3 DEF Fits

\* Where a step of a run itself stays within what fits.
FittingMove(i) ==
  /\ Live(run[i])
  /\ \E s : Fits(run[i], s) /\ StepOf(i, s)
  /\ UNCHANGED <<repositoryVars, claims, reported, faulted, lastToken, lock, expired>>

\* The steps between the claim's reply and the release.
LEMMA LocalStepsFit ==
  ASSUME TypeInvariant, RepositoryInvariant, ClaimInvariant, NEW i \in Instances, RunFits(run[i]),
         \/ RunStep(i) /\ ~(AcquireLock(i) \/ ReadContended(i) \/ ReleaseLock(i))
         \/ LoseLease(i) \/ ReadFails(i)
  PROVE  FittingMove(i)
  <1> DEFINE r == run[i]
             t == run[i].token
  <1>1. ASSUME r.pc # "idle" PROVE Live(r)
    BY <1>1 DEF TypeInvariant, TokensFollowRuns, idleRun
  <1>2. {"RETRY_REQUIRED", "LOCK_UNAVAILABLE", "FAILED", "CANCELLED", "ERROR"}
          \subseteq Outcomes
    BY DEF Outcomes
  <1>3. RepositoryTypeOK
    BY DEF TypeInvariant, TypeOK
  <1>4. ASSUME NEW s, Live(r), Fits(r, s), Running(i, s)
        PROVE  FittingMove(i)
    BY <1>4 DEF Running, FittingMove
  <1>5. ASSUME NEW outcome \in Outcomes, Live(r), r.pc # "claiming",
               OutcomeHolds(t, outcome), ClaimsSettled(t)
        PROVE  Fits(r, Finish(r, outcome))
    BY <1>5, FinishFits
  <1>6. ASSUME NEW pc \in ClaimedPcs \ MissedPcs, Live(r), r.pc \in ClaimedPcs
        PROVE  Fits(r, [r EXCEPT !.pc = pc])
    BY <1>6, MoveFits
  <1>7. {"awaitFence", "cancelling", "completing", "failing", "fallback"}
          \subseteq ClaimedPcs \ MissedPcs
    BY PcsListed DEF MissedPcs
  <1>8. ASSUME NEW s, Live(r), r.pc \in ClaimedPcs, Fits(r, s)
        PROVE  Fits(r, Diverted(r, s))
    BY <1>6, <1>7, <1>8, DivertedRun
  <1>9. CASE AcquireContended(i)
    <2>1. r.pc = "acquiring" /\ Live(r)
      BY <1>1, <1>9 DEF AcquireContended
    <2>2. PICK s : s = [r EXCEPT !.pc = "contended"]
      OBVIOUS
    <2>3. /\ Live(s) /\ s.pc = "contended" /\ s.token = r.token /\ s.fence = r.fence
          /\ s.outcome = r.outcome /\ s.generation = r.generation
      BY <2>1, <2>2, MovedRun, PcsListed
    <2>4. RunFits(s)
      BY <2>1, <2>3 DEF RunFits, MissedPcs
    <2>5. Fits(r, s)
      BY <2>1, <2>3, <2>4 DEF Fits, KeepalivePcs
    <2>6. QED
      BY <1>9, <2>1, <2>2, <2>5 DEF AcquireContended, FittingMove
  <1>10. CASE ReadClaimMissed(i)
    <2>1. r.pc = "claimMissed" /\ Live(r)
      BY <1>1, <1>10 DEF ReadClaimMissed
    <2>2. Closed(t) /\ ClaimsSettled(t)
      BY <2>1, UnclaimedIsClosed DEF RunFits
    <2>3. OutcomeHolds(t, classifyNonClaimed) /\ classifyNonClaimed \in Outcomes
      BY <1>3, <2>2, ReadOutcomesHold, OutcomesTyped
    <2>4. OutcomeHolds(t, "LOCK_UNAVAILABLE") /\ "LOCK_UNAVAILABLE" \in Outcomes
      BY <1>2, <2>2 DEF OutcomeHolds
    <2>5. PICK outcome \in {classifyNonClaimed, "LOCK_UNAVAILABLE"} :
            Running(i, Finish(r, outcome))
      BY <1>10 DEF ReadClaimMissed
    <2>6. QED
      BY <1>4, <1>5, <2>1, <2>2, <2>3, <2>4, <2>5
  <1>11. CASE AiAnswers(i) \/ AiFails(i) \/ AiCancels(i)
    <2>1. r.pc = "reviewing" /\ Live(r) /\ r.pc \in ClaimedPcs
      BY <1>1, <1>11, PcsListed DEF AiAnswers, AiFails, AiCancels
    <2>2. PICK pc \in {"completing", "failing", "cancelling"} :
            Running(i, Diverted(r, [r EXCEPT !.pc = pc]))
      BY <1>11 DEF AiAnswers, AiFails, AiCancels
    <2>3. Fits(r, [r EXCEPT !.pc = pc])
      BY <1>6, <1>7, <2>1
    <2>4. QED
      BY <1>4, <1>8, <2>1, <2>2, <2>3
  <1>12. CASE LossWakes(i)
    <2>1. Live(r) /\ r.pc \in ClaimedPcs
      BY <1>1, <1>12, PcsListed DEF LossWakes
    <2>2. QED
      BY <1>4, <1>6, <1>7, <1>12, <2>1 DEF LossWakes
  <1>13. CASE ReadCompleteMissed(i) \/ ReadFailMissed(i)
    <2>1. r.pc \in MissedPcs /\ Live(r) /\ r.pc \in ClaimedPcs /\ r.pc # "claiming"
      BY <1>1, <1>13, PcsListed DEF ReadCompleteMissed, ReadFailMissed, MissedPcs
    <2>2. ClaimsSettled(t)
      BY <2>1 DEF RunFits
    <2>3. PICK outcome \in Outcomes : /\ Running(i, Diverted(r, Finish(r, outcome)))
                                      /\ OutcomeHolds(t, outcome)
      BY <1>2, <1>3, <1>13, <2>2, ReadOutcomesHold, OutcomesTyped
      DEF ReadCompleteMissed, ReadFailMissed
    <2>4. QED
      BY <1>4, <1>5, <1>8, <2>1, <2>2, <2>3
  <1>14. CASE ReadCancelMissed(i) \/ ReadFallbackMissed(i)
    <2>1. r.pc \in MissedPcs /\ Live(r) /\ r.pc # "claiming"
      BY <1>1, <1>14 DEF ReadCancelMissed, ReadFallbackMissed, MissedPcs
    <2>2. ClaimsSettled(t)
      BY <2>1 DEF RunFits
    <2>3. PICK read \in Outcomes : read = classifyMissed("RETRY_REQUIRED") /\ OutcomeHolds(t, read)
      BY <1>2, <1>3, <2>2, ReadOutcomesHold, OutcomesTyped
    <2>4. PICK outcome \in {read, "ERROR"} : Running(i, Finish(r, outcome))
      BY <1>14, <2>3 DEF ReadCancelMissed, ReadFallbackMissed, FallbackOutcome
    <2>5. outcome \in Outcomes /\ OutcomeHolds(t, outcome)
      BY <1>2, <2>2, <2>3, <2>4, ReadOutcomesHold
    <2>6. QED
      BY <1>4, <1>5, <2>1, <2>2, <2>4, <2>5
  <1>15. CASE AwaitFence(i)
    <2>1. r.pc = "awaitFence" /\ Live(r) /\ r.pc \in ClaimedPcs
      BY <1>1, <1>15, PcsListed DEF AwaitFence
    <2>2. CASE r.fence = "cancelled" /\ Running(i, Finish(r, "CANCELLED"))
      <3>1. ClaimsSettled(t) /\ OutcomeHolds(t, "CANCELLED") /\ "CANCELLED" \in Outcomes
        BY <1>2, <2>2 DEF RunFits, Closed, OutcomeHolds
      <3>2. QED
        BY <1>4, <1>5, <2>1, <2>2, <3>1
    <2>3. CASE Running(i, [r EXCEPT !.pc = "fallback"])
      BY <1>4, <1>6, <1>7, <2>1, <2>3
    <2>4. QED
      BY <1>15, <2>2, <2>3 DEF AwaitFence
  <1>16. CASE LoseLease(i)
    <2>1. r.pc \in KeepalivePcs /\ Live(r)
      BY <1>1, <1>16 DEF LoseLease, KeepalivePcs
    <2>2. PICK s : s = StartFence([r EXCEPT !.lost = TRUE])
      OBVIOUS
    <2>3. /\ Live(s) /\ s.pc = r.pc /\ s.token = r.token /\ s.outcome = r.outcome
          /\ s.generation = r.generation
          /\ s.fence = r.fence \/ (s.fence = "pending" /\ r.generation # 0)
      BY <2>1, <2>2, LostRun
    <2>4. RunFits(s)
      BY <2>3 DEF RunFits
    <2>5. Fits(r, s)
      BY <2>1, <2>3, <2>4 DEF Fits
    <2>6. QED
      BY <1>16, <2>1, <2>2, <2>5 DEF LoseLease, FittingMove
  <1>17. CASE ReadFails(i)
    <2>1. /\ r.pc \in {"contended", "claimMissed"} \cup MissedPcs /\ Live(r)
          /\ r.pc # "claiming"
      BY <1>1, <1>17 DEF ReadFails, MissedPcs
    <2>2. ClaimsSettled(t)
      BY <2>1, UnclaimedIsClosed DEF RunFits
    <2>3. Fits(r, Finish(r, "ERROR"))
      BY <1>2, <1>5, <2>1, <2>2, ReadOutcomesHold
    <2>4. r.pc \in {"completeMissed", "failMissed"} => Fits(r, Diverted(r, Finish(r, "ERROR")))
      BY <1>8, <2>1, <2>3, PcsListed
    <2>5. QED
      BY <1>17, <2>1, <2>3, <2>4 DEF ReadFails, FittingMove
  <1>18. QED
    BY <1>9, <1>10, <1>11, <1>12, <1>13, <1>14, <1>15, <1>16, <1>17 DEF RunStep

\* The settlement speaks of the claims, the row and the results.
LEMMA SameClaims ==
  ASSUME UNCHANGED <<repositoryVars, claims>>
  PROVE  /\ \A t : /\ Unclaimed(t)' <=> Unclaimed(t)
                   /\ ClaimsSettled(t)' <=> ClaimsSettled(t)
                   /\ \A outcome : OutcomeHolds(t, outcome)' <=> OutcomeHolds(t, outcome)
         /\ faulted \subseteq faulted' => \A r : RunFits(r) => RunFits(r)'
  <1>1. UNCHANGED <<review, results, claims>>
    BY DEF repositoryVars
  <1>2. \A t : Unclaimed(t)' <=> Unclaimed(t)
    BY <1>1 DEF Unclaimed
  <1>3. \A t : ClaimsSettled(t)' <=> ClaimsSettled(t)
    BY <1>1 DEF ClaimsSettled, Settled
  <1>4. Persisted' = Persisted
    BY <1>1 DEF Persisted
  <1>5. \A t : Closed(t)' <=> Closed(t)
    BY <1>3, <1>4 DEF Closed
  <1>6. \A t : \A outcome : OutcomeHolds(t, outcome)' <=> OutcomeHolds(t, outcome)
    BY <1>4, <1>5 DEF OutcomeHolds
  <1>7. faulted \subseteq faulted' => \A r : RunFits(r) => RunFits(r)'
    BY <1>2, <1>3, <1>5, <1>6 DEF RunFits
  <1>8. QED
    BY <1>2, <1>3, <1>6, <1>7

\* Claims are issued on the way to claiming only, and calls carry the run's token.
LEMMA NoClaimIssued ==
  ASSUME NEW r, NEW s, Live(s), NEW d \in Issued(r, s)
  PROVE  d.token = s.token /\ (d.op = "claim" => s.pc = "claiming" /\ r.pc # "claiming")
  BY IssuedTyped, IssuedCalls, AwaitedOps

\* The runs of a state, as the cases below look at them.
LEMMA RunsListed ==
  ASSUME TypeInvariant
  PROVE  /\ run \in [Instances -> RunStates]
         /\ \A i \in Instances : run[i] = idleRun \/ Live(run[i])
         /\ \A i \in Instances : run[i].pc # "idle" => Live(run[i])
         /\ \A i \in Instances : run[i].token # NoToken => Live(run[i])
         /\ \A i \in Instances : run[i].token \in Tokens => run[i].pc # "idle"
         /\ \A r : Live(r) => r.pc # "idle" /\ r.token \in Tokens /\ r.token \in Nat
         /\ idleRun.pc = "idle" /\ idleRun.token = NoToken
         /\ Tokens \subseteq Nat /\ NoToken \notin Tokens
         /\ lastToken \in Nat
  <1>1. /\ run \in [Instances -> RunStates]
        /\ \A i \in Instances : run[i] = idleRun \/ Live(run[i])
        /\ lastToken \in Tokens \cup {0}
    BY DEF TypeInvariant, TypeOK, TokensFollowRuns
  <1>2. idleRun.pc = "idle" /\ idleRun.token = NoToken
    BY DEF idleRun
  <1>3. \A r : Live(r) => r.pc # "idle" /\ r.token \in Tokens /\ r.token \in Nat
    BY TokensAreNumbers DEF Live
  <1>4. QED
    BY <1>1, <1>2, <1>3, TokensAreNumbers

\* What the invariant says of the runs other than the one that moves.
LEMMA FittingMoveSettles ==
  ASSUME TypeInvariant, SettlementInvariant, NEW i \in Instances, FittingMove(i)
  PROVE  SettlementInvariant'
  <1>1. PICK s : /\ Fits(run[i], s)
                 /\ run' = [run EXCEPT ![i] = s]
                 /\ calls' = calls \cup Issued(run[i], s)
    BY DEF FittingMove, StepOf
  <1>2. UNCHANGED <<repositoryVars, claims, reported, faulted, lastToken>>
    BY DEF FittingMove
  <1>3. /\ run'[i] = s /\ Live(s) /\ Live(run[i]) /\ s.token = run[i].token /\ RunFits(s)
        /\ s.pc = "claiming" <=> run[i].pc = "claiming"
        /\ run[i].pc \in KeepalivePcs => s.pc \in KeepalivePcs \cup {"releasing"}
        /\ \A j \in Instances \ {i} : run'[j] = run[j]
    BY <1>1, RunsListed DEF Fits, FittingMove
  <1>4. \A j \in Instances : /\ run'[j].token = run[j].token
                             /\ run'[j].pc = "claiming" <=> run[j].pc = "claiming"
                             /\ run'[j].pc = "idle" <=> run[j].pc = "idle"
    BY <1>3 DEF Live
  <1>5. \A c \in calls' : \/ c \in calls
                          \/ c.op # "claim" /\ c.token = run[i].token
    BY <1>1, <1>3, NoClaimIssued
  <1>6. run[i].token <= lastToken
    BY <1>3 DEF SettlementInvariant, TokensAreFresh, Live
  <1>7. TokensAreFresh'
    BY <1>2, <1>4, <1>5, <1>6 DEF SettlementInvariant, TokensAreFresh
  <1>8. ClaimsOnce'
    <2>1. \A t : Unclaimed(t)' <=> Unclaimed(t)
      BY <1>2, SameClaims
    <2>2. QED
      BY <1>2, <1>4, <1>5, <2>1 DEF SettlementInvariant, ClaimsOnce
  <1>9. ASSUME NEW j \in Instances PROVE RunFits(run[j])'
    <2>1. PICK x : x = run'[j] /\ RunFits(x)
      BY <1>3 DEF SettlementInvariant
    <2>2. RunFits(x)'
      BY <1>2, <2>1, SameClaims
    <2>3. QED
      BY <2>1, <2>2
  <1>10. ClaimsWorkedOn'
    <2>1. SUFFICES ASSUME NEW t \in Tokens \ faulted', ~ClaimsSettled(t)'
                   PROVE  \E j \in Instances : run'[j].token = t /\ run'[j].pc \in KeepalivePcs
      BY DEF ClaimsWorkedOn
    <2>2. t \notin faulted /\ ~ClaimsSettled(t)
      BY <1>2, <2>1, SameClaims
    <2>3. PICK j \in Instances : run[j].token = t /\ run[j].pc \in KeepalivePcs
      BY <2>2 DEF SettlementInvariant, ClaimsWorkedOn
    <2>4. CASE j = i
      <3>1. s.pc \in KeepalivePcs
        BY <1>3, <2>2, <2>3, <2>4 DEF RunFits
      <3>2. QED
        BY <1>3, <2>3, <2>4, <3>1
    <2>5. CASE j # i
      BY <1>3, <2>3, <2>5
    <2>6. QED
      BY <2>4, <2>5
  <1>11. ReportsHold'
    <2>1. \A t : \A outcome : OutcomeHolds(t, outcome)' <=> OutcomeHolds(t, outcome)
      BY <1>2, SameClaims
    <2>2. QED
      BY <1>2, <1>4, <2>1 DEF SettlementInvariant, ReportsHold
  <1>12. QED
    BY <1>7, <1>8, <1>9, <1>10, <1>11 DEF SettlementInvariant

\* The claim is issued when the lease is there: no run has used its token before.
LEMMA AcquireLockSettles ==
  ASSUME TypeInvariant, SettlementInvariant, NEW i \in Instances, AcquireLock(i)
  PROVE  SettlementInvariant'
  <1>1. run[i].pc = "acquiring" /\ Live(run[i])
    BY RunsListed DEF AcquireLock
  <1>2. UNCHANGED <<repositoryVars, claims, reported, faulted, lastToken>>
    BY DEF AcquireLock
  <1>3. PICK s : /\ s = [run[i] EXCEPT !.pc = "claiming"]
                 /\ run' = [run EXCEPT ![i] = s]
                 /\ calls' = calls \cup Issued(run[i], s)
    BY DEF AcquireLock, StepOf
  <1>4. /\ Live(s) /\ s.pc = "claiming" /\ s.token = run[i].token /\ s.fence = run[i].fence
        /\ s.outcome = run[i].outcome /\ s.generation = run[i].generation
    BY <1>1, <1>3, MovedRun, PcsListed
  <1>5. run[i].fence = "none" /\ run[i].generation = 0 /\ run[i].outcome = "none"
        /\ Unclaimed(run[i].token) /\ run[i].token <= lastToken
    BY <1>1 DEF SettlementInvariant, RunFits, TokensAreFresh
  <1>6. /\ run'[i] = s /\ \A j \in Instances \ {i} : run'[j] = run[j]
        /\ \A j \in Instances : run'[j].token = run[j].token
        /\ \A j \in Instances : run'[j].pc = "idle" <=> run[j].pc = "idle"
    BY <1>1, <1>3, <1>4, RunsListed
  <1>7. \A j \in Instances : run[j].token = run[i].token => j = i
    BY <1>1 DEF SettlementInvariant, TokensAreFresh
  <1>8. \A c \in calls' : \/ c \in calls
                          \/ c.token = run[i].token /\ c.generation = 0
    <2>1. ASSUME NEW c \in Issued(run[i], s)
          PROVE  c.token = run[i].token /\ c.generation = 0
      <3>1. c.token = s.token /\ c.generation = s.generation
        BY <1>4, IssuedTyped
      <3>2. QED
        BY <1>4, <1>5, <3>1
    <2>2. QED
      BY <1>3, <2>1
  <1>9. TokensAreFresh'
    BY <1>2, <1>5, <1>6, <1>8 DEF SettlementInvariant, TokensAreFresh
  <1>10. ClaimsOnce'
    <2>1. \A t : Unclaimed(t)' <=> Unclaimed(t)
      BY <1>2, SameClaims
    <2>2. ASSUME NEW c \in calls', c.op = "claim", c \in calls
          PROVE  c.token # run[i].token
      BY <1>1, <2>2 DEF SettlementInvariant, ClaimsOnce
    <2>3. ASSUME NEW c \in calls', c.op = "claim"
          PROVE  /\ c.generation = 0 /\ Unclaimed(c.token)'
                 /\ \A j \in Instances : run'[j].token = c.token => run'[j].pc = "claiming"
                 /\ c.token \notin faulted' => \E j \in Instances : run'[j].token = c.token
                 /\ reported'[c.token] = "none"
      <3>1. CASE c \in calls
        <4>1. /\ c.generation = 0 /\ Unclaimed(c.token) /\ c.token # run[i].token
              /\ \A j \in Instances : run[j].token = c.token => run[j].pc = "claiming"
              /\ c.token \notin faulted => \E j \in Instances : run[j].token = c.token
              /\ reported[c.token] = "none"
          BY <2>2, <2>3, <3>1 DEF SettlementInvariant, ClaimsOnce
        <4>2. \A j \in Instances : run'[j].token = c.token => run'[j] = run[j]
          BY <1>6, <4>1
        <4>3. QED
          BY <1>2, <1>6, <2>1, <4>1, <4>2
      <3>2. CASE c.token = run[i].token /\ c.generation = 0
        <4>1. run[i].token \in Tokens
          BY <1>1, RunsListed
        <4>2. reported[run[i].token] = "none"
          BY <4>1 DEF SettlementInvariant, ReportsHold
        <4>3. QED
          BY <1>2, <1>4, <1>5, <1>6, <1>7, <2>1, <3>2, <4>2
      <3>3. QED
        BY <1>8, <3>1, <3>2
    <2>4. UNCHANGED claims
      BY <1>2
    <2>5. QED
      BY <2>3, <2>4 DEF SettlementInvariant, ClaimsOnce
  <1>11. ASSUME NEW j \in Instances PROVE RunFits(run[j])'
    <2>1. RunFits(s)
      BY <1>1, <1>4, <1>5 DEF SettlementInvariant, RunFits, MissedPcs
    <2>2. PICK x : x = run'[j] /\ RunFits(x)
      BY <1>6, <2>1 DEF SettlementInvariant
    <2>3. RunFits(x)'
      BY <1>2, <2>2, SameClaims
    <2>4. QED
      BY <2>2, <2>3
  <1>12. ClaimsWorkedOn'
    <2>1. ASSUME NEW t \in Tokens \ faulted',
                 NEW j \in Instances, run[j].token = t, run[j].pc \in KeepalivePcs
          PROVE  run'[j].token = t /\ run'[j].pc \in KeepalivePcs
      BY <1>4, <1>6, <2>1 DEF KeepalivePcs
    <2>2. \A t : ClaimsSettled(t)' <=> ClaimsSettled(t)
      BY <1>2, SameClaims
    <2>3. QED
      BY <1>2, <2>1, <2>2 DEF SettlementInvariant, ClaimsWorkedOn
  <1>13. ReportsHold'
    <2>1. \A t : \A outcome : OutcomeHolds(t, outcome)' <=> OutcomeHolds(t, outcome)
      BY <1>2, SameClaims
    <2>2. QED
      BY <1>2, <1>6, <2>1 DEF SettlementInvariant, ReportsHold
  <1>14. QED
    BY <1>9, <1>10, <1>11, <1>12, <1>13 DEF SettlementInvariant

\* A run that is not there has nothing to answer for.
LEMMA IdleFits == RunFits(idleRun)
  BY DEF RunFits, idleRun, MissedPcs, OutcomeHolds, StoppedOutcomes

\* A run ends with an answer that holds, or it crashes.
EndingMove(i) ==
  /\ Live(run[i])
  /\ run' = [run EXCEPT ![i] = idleRun]
  /\ \/ /\ run[i].pc \in {"acquiring", "contended", "releasing"}
        /\ \E outcome \in Outcomes \cup {"none"} :
             /\ OutcomeHolds(run[i].token, outcome)
             /\ reported' = [reported EXCEPT ![run[i].token] = outcome]
        /\ UNCHANGED faulted
     \/ faulted' = faulted \cup {run[i].token} /\ UNCHANGED reported
  /\ UNCHANGED <<repositoryVars, calls, claims, lastToken>>

\* The steps that end a run.
LEMMA EndsFit ==
  ASSUME TypeInvariant, RepositoryInvariant, ClaimInvariant, NEW i \in Instances, RunFits(run[i]),
         ReadContended(i) \/ AcquireUnavailable(i) \/ ReleaseLock(i)
           \/ ReleaseUnavailable(i) \/ Crash(i)
  PROVE  EndingMove(i)
  <1> DEFINE r == run[i]
             t == run[i].token
  <1>1. Live(r)
    BY RunsListed DEF ReadContended, AcquireUnavailable, ReleaseLock, ReleaseUnavailable, Crash
  <1>2. CASE ReadContended(i)
    <2>1. Closed(t) /\ ClaimsSettled(t)
      BY <1>2, UnclaimedIsClosed DEF ReadContended, RunFits
    <2>2. OutcomeHolds(t, lockContention) /\ lockContention \in Outcomes
      BY <2>1, ReadOutcomesHold, OutcomesTyped DEF TypeInvariant, TypeOK
    <2>3. QED
      BY <1>1, <1>2, <2>2 DEF ReadContended, EndWithoutLock, EndingMove
  <1>3. CASE AcquireUnavailable(i)
    <2>1. Closed(t)
      BY <1>3, UnclaimedIsClosed DEF AcquireUnavailable, RunFits
    <2>2. OutcomeHolds(t, "LOCK_UNAVAILABLE") /\ "LOCK_UNAVAILABLE" \in Outcomes
      BY <2>1 DEF OutcomeHolds, Outcomes
    <2>3. QED
      BY <1>1, <1>3, <2>2 DEF AcquireUnavailable, EndWithoutLock, EndingMove
  <1>4. CASE ReleaseLock(i) \/ ReleaseUnavailable(i)
    <2>1. r.pc = "releasing" /\ OutcomeHolds(t, r.outcome)
      BY <1>4 DEF ReleaseLock, ReleaseUnavailable, RunFits
    <2>2. r.outcome \in Outcomes \cup {"none"}
      BY <1>1 DEF Live, RunStates
    <2>3. QED
      BY <1>1, <1>4, <2>1, <2>2 DEF ReleaseLock, ReleaseUnavailable, EndWithoutLock, EndingMove
  <1>5. CASE Crash(i)
    BY <1>1, <1>5 DEF Crash, EndingMove
  <1>6. QED
    BY <1>2, <1>3, <1>4, <1>5

\* Nobody works for the claims of a run that has ended with an answer.
LEMMA EndingMoveSettles ==
  ASSUME TypeInvariant, ClaimInvariant, SettlementInvariant, NEW i \in Instances, EndingMove(i)
  PROVE  SettlementInvariant'
  <1> DEFINE t == run[i].token
  <1>1. /\ Live(run[i]) /\ run'[i] = idleRun
        /\ \A j \in Instances \ {i} : run'[j] = run[j]
        /\ UNCHANGED <<repositoryVars, calls, claims, lastToken>>
        /\ faulted \subseteq faulted'
    BY RunsListed DEF EndingMove
  <1>2. /\ t \in Tokens /\ t <= lastToken
        /\ \A j \in Instances \ {i} : run[j].token # t
        /\ \A j \in Instances : run'[j].token # t
        /\ reported[t] = "none"
    <2>1. t \in Tokens /\ t <= lastToken /\ \A j \in Instances \ {i} : run[j].token # t
      BY <1>1, RunsListed DEF SettlementInvariant, TokensAreFresh
    <2>2. \A j \in Instances : run'[j].token # t
      BY <1>1, <2>1, RunsListed
    <2>3. reported[t] = "none"
      BY <2>1 DEF SettlementInvariant, ReportsHold
    <2>4. QED
      BY <2>1, <2>2, <2>3
  <1>3. \A j \in Instances : /\ run'[j] = idleRun \/ run'[j] = run[j]
                             /\ run'[j].token = run[j].token \/ run'[j].token = NoToken
                             /\ run'[j].pc = run[j].pc \/ run'[j].pc = "idle"
    BY <1>1, RunsListed
  <1>4. /\ \A x \in Tokens \ {t} : reported'[x] = reported[x]
        /\ OutcomeHolds(t, reported'[t])
    <2>1. reported \in [Tokens -> Outcomes \cup {"none"}]
      BY DEF TypeInvariant, TypeOK
    <2>2. OutcomeHolds(t, "none")
      BY DEF OutcomeHolds, StoppedOutcomes
    <2>3. QED
      BY <1>2, <2>1, <2>2 DEF EndingMove
  <1>5. /\ \A x : /\ Unclaimed(x)' <=> Unclaimed(x)
                  /\ ClaimsSettled(x)' <=> ClaimsSettled(x)
                  /\ \A outcome : OutcomeHolds(x, outcome)' <=> OutcomeHolds(x, outcome)
        /\ \A r : RunFits(r) => RunFits(r)'
    BY <1>1, SameClaims
  <1>6. TokensAreFresh'
    <2>1. \A j, k \in Instances : run'[j].pc # "idle" /\ run'[j].token = run'[k].token => j = k
      <3>1. SUFFICES ASSUME NEW j \in Instances, NEW k \in Instances,
                            run'[j].pc # "idle", run'[j].token = run'[k].token
                     PROVE  j = k
        OBVIOUS
      <3>2. run'[j] = run[j]
        BY <1>3, <3>1, RunsListed
      <3>3. run[j].token # NoToken
        BY <3>1, <3>2, RunsListed
      <3>4. run[k].token = run[j].token
        BY <1>3, <3>1, <3>2, <3>3
      <3>5. QED
        BY <3>1, <3>2, <3>4 DEF SettlementInvariant, TokensAreFresh
    <2>2. \A j \in Instances : run'[j].pc # "idle" => run'[j] = run[j]
      BY <1>3, RunsListed
    <2>3. \A x \in Tokens : reported'[x] # "none" => x <= lastToken
      BY <1>2, <1>4 DEF SettlementInvariant, TokensAreFresh
    <2>4. UNCHANGED <<calls, claims, lastToken>>
      BY <1>1
    <2>5. QED
      BY <2>1, <2>2, <2>3, <2>4 DEF SettlementInvariant, TokensAreFresh
  <1>7. ClaimsOnce'
    <2>1. UNCHANGED <<calls, claims>>
      BY <1>1
    <2>2. ASSUME NEW c \in calls, c.op = "claim"
          PROVE  /\ c.generation = 0 /\ Unclaimed(c.token)'
                 /\ \A j \in Instances : run'[j].token = c.token => run'[j].pc = "claiming"
                 /\ c.token \notin faulted' => \E j \in Instances : run'[j].token = c.token
                 /\ reported'[c.token] = "none"
      <3>1. c.token \in Tokens
        BY <2>2 DEF TypeInvariant, TokensFollowRuns, UserOps
      <3>2. /\ c.generation = 0 /\ Unclaimed(c.token)
            /\ \A j \in Instances : run[j].token = c.token => run[j].pc = "claiming"
            /\ c.token \notin faulted => \E j \in Instances : run[j].token = c.token
            /\ reported[c.token] = "none"
        BY <2>2 DEF SettlementInvariant, ClaimsOnce
      <3>3. \A j \in Instances : run'[j].token = c.token => run'[j] = run[j]
        BY <1>3, <3>1, RunsListed
      <3>4. CASE c.token = t
        <4>1. faulted' = faulted \cup {t} /\ UNCHANGED reported
          BY <3>2, <3>4 DEF EndingMove
        <4>2. QED
          BY <1>5, <3>2, <3>3, <3>4, <4>1
      <3>5. CASE c.token # t
        <4>1. \A j \in Instances : run[j].token = c.token => run'[j] = run[j]
          BY <1>1, <3>5
        <4>2. c.token \notin faulted' => \E j \in Instances : run'[j].token = c.token
          BY <1>1, <3>2, <4>1
        <4>3. QED
          BY <1>4, <1>5, <3>1, <3>2, <3>3, <3>5, <4>2
      <3>6. QED
        BY <3>4, <3>5
    <2>3. QED
      BY <2>1, <2>2 DEF SettlementInvariant, ClaimsOnce
  <1>8. ASSUME NEW j \in Instances PROVE RunFits(run[j])'
    <2>1. PICK x : x = run'[j] /\ RunFits(x)
      BY <1>3, IdleFits DEF SettlementInvariant
    <2>2. RunFits(x)'
      BY <1>5, <2>1
    <2>3. QED
      BY <2>1, <2>2
  <1>9. ClaimsWorkedOn'
    <2>1. SUFFICES ASSUME NEW x \in Tokens \ faulted', ~ClaimsSettled(x)
                   PROVE  \E j \in Instances : run'[j].token = x /\ run'[j].pc \in KeepalivePcs
      BY <1>5 DEF ClaimsWorkedOn
    <2>2. PICK j \in Instances : run[j].token = x /\ run[j].pc \in KeepalivePcs
      BY <1>1, <2>1 DEF SettlementInvariant, ClaimsWorkedOn
    <2>3. j # i
      BY <2>1, <2>2 DEF EndingMove, KeepalivePcs
    <2>4. QED
      BY <1>1, <2>2, <2>3
  <1>10. ReportsHold'
    <2>1. ASSUME NEW x \in Tokens
          PROVE  /\ OutcomeHolds(x, reported'[x])
                 /\ reported'[x] # "none" => \A j \in Instances : run'[j].token # x
      <3>1. CASE x = t
        BY <1>2, <1>4, <3>1
      <3>2. CASE x # t
        <4>1. OutcomeHolds(x, reported[x]) /\ reported'[x] = reported[x]
              /\ (reported[x] # "none" => \A j \in Instances : run[j].token # x)
          BY <1>4, <3>2 DEF SettlementInvariant, ReportsHold
        <4>2. QED
          BY <1>3, <4>1, RunsListed
      <3>3. QED
        BY <3>1, <3>2
    <2>2. QED
      BY <1>5, <2>1 DEF ReportsHold
  <1>11. QED
    BY <1>6, <1>7, <1>8, <1>9, <1>10 DEF SettlementInvariant

\* A run starts with a token of its own.
LEMMA StartRunSettles ==
  ASSUME TypeInvariant, SettlementInvariant, NEW i \in Instances, StartRun(i)
  PROVE  SettlementInvariant'
  <1> DEFINE t == lastToken + 1
  <1>1. PICK s : /\ s = [idleRun EXCEPT !.pc = "acquiring", !.token = lastToken + 1]
                 /\ run' = [run EXCEPT ![i] = s]
    BY DEF StartRun
  <1>2. /\ s.pc = "acquiring" /\ s.token = t /\ s.fence = "none" /\ s.outcome = "none"
        /\ s.generation = 0
    BY <1>1 DEF idleRun
  <1>3. /\ run[i].pc = "idle" /\ run[i].token = NoToken /\ run'[i] = s
        /\ \A j \in Instances \ {i} : run'[j] = run[j]
        /\ UNCHANGED <<repositoryVars, calls, claims, reported, faulted>>
        /\ lastToken' = t
    BY <1>1, RunsListed DEF StartRun
  <1>4. t \in Tokens /\ lastToken \in Nat /\ ~(t <= lastToken)
    BY BoundsAssumption, RunsListed DEF StartRun, Tokens
  <1>5. /\ Unclaimed(t) /\ reported[t] = "none"
        /\ \A c \in calls : c.token # t
        /\ \A j \in Instances : run[j].token # t
    <2>1. \A j \in Instances : run[j].token # t
      BY <1>4, RunsListed DEF SettlementInvariant, TokensAreFresh
    <2>2. QED
      BY <1>4, <2>1 DEF SettlementInvariant, TokensAreFresh, Unclaimed
  <1>6. /\ \A x : /\ Unclaimed(x)' <=> Unclaimed(x)
                  /\ ClaimsSettled(x)' <=> ClaimsSettled(x)
                  /\ \A outcome : OutcomeHolds(x, outcome)' <=> OutcomeHolds(x, outcome)
        /\ \A r : RunFits(r) => RunFits(r)'
    BY <1>3, SameClaims
  <1>7. TokensAreFresh'
    <2>1. \A x \in Nat : x <= lastToken => x <= t
      BY <1>4
    <2>2. \A j \in Instances : run'[j].pc # "idle" => run'[j].token <= t
      BY <1>2, <1>3, <1>4, <2>1, RunsListed DEF SettlementInvariant, TokensAreFresh
    <2>3. \A j, k \in Instances : run'[j].pc # "idle" /\ run'[j].token = run'[k].token => j = k
      BY <1>2, <1>3, <1>5 DEF SettlementInvariant, TokensAreFresh
    <2>4. /\ \A c \in calls : c.token \in Nat /\ c.token <= lastToken
          /\ \A c \in claims : c.answer \in Nat /\ c.answer <= lastToken
      BY AnswersAssumption, TokensAreNumbers
      DEF SettlementInvariant, TokensAreFresh, TypeInvariant, TypeOK, ResultRows, CallStates
    <2>5. \A x \in Tokens : reported[x] # "none" => x <= t
      BY <2>1, TokensAreNumbers DEF SettlementInvariant, TokensAreFresh
    <2>6. QED
      BY <1>3, <2>1, <2>2, <2>3, <2>4, <2>5 DEF TokensAreFresh
  <1>8. ClaimsOnce'
    <2>1. ASSUME NEW c \in calls, c.op = "claim"
          PROVE  /\ c.generation = 0 /\ Unclaimed(c.token)'
                 /\ \A j \in Instances : run'[j].token = c.token => run'[j].pc = "claiming"
                 /\ c.token \notin faulted => \E j \in Instances : run'[j].token = c.token
                 /\ reported[c.token] = "none"
      <3>1. c.token \in Tokens /\ c.token # t
        BY <1>5, <2>1 DEF TypeInvariant, TokensFollowRuns, UserOps
      <3>2. \A j \in Instances : \/ run'[j] = run[j]
                                 \/ run'[j].token # c.token /\ run[j].token # c.token
        BY <1>2, <1>3, <3>1, RunsListed
      <3>3. QED
        BY <1>6, <2>1, <3>2 DEF SettlementInvariant, ClaimsOnce
    <2>2. QED
      BY <1>3, <2>1 DEF SettlementInvariant, ClaimsOnce
  <1>9. ASSUME NEW j \in Instances PROVE RunFits(run[j])'
    <2>1. RunFits(s)
      BY <1>2, <1>5 DEF RunFits, MissedPcs, OutcomeHolds, StoppedOutcomes
    <2>2. PICK x : x = run'[j] /\ RunFits(x)
      BY <1>3, <2>1 DEF SettlementInvariant
    <2>3. RunFits(x)'
      BY <1>6, <2>2
    <2>4. QED
      BY <2>2, <2>3
  <1>10. ClaimsWorkedOn'
    <2>1. \A j \in Instances : run[j].pc \in KeepalivePcs => run'[j] = run[j]
      BY <1>3 DEF KeepalivePcs
    <2>2. QED
      BY <1>3, <1>6, <2>1 DEF SettlementInvariant, ClaimsWorkedOn
  <1>11. ReportsHold'
    <2>1. \A x \in Tokens : reported[x] # "none" => \A j \in Instances : run'[j].token # x
      BY <1>2, <1>3, <1>5 DEF SettlementInvariant, ReportsHold
    <2>2. QED
      BY <1>3, <1>6, <2>1 DEF SettlementInvariant, ReportsHold
  <1>12. QED
    BY <1>7, <1>8, <1>9, <1>10, <1>11 DEF SettlementInvariant

\* The steps of users, of Redis and of no one.
OutsideStep ==
  \/ \E i \in Instances : UserCancel(i) \/ UserRetry(i)
  \/ UserDelete \/ LeaseExpires \/ UNCHANGED vars
  \/ \E t \in lateSets : LateSetExecutes(t)

\* Such a step leaves the runs what they are, but for the flag of an abort.
LEMMA OutsideStepEffects ==
  ASSUME TypeInvariant, OutsideStep
  PROVE  /\ \A j \in Instances : /\ run'[j].pc = run[j].pc /\ run'[j].token = run[j].token
                                 /\ run'[j].fence = run[j].fence
                                 /\ run'[j].generation = run[j].generation
                                 /\ run'[j].outcome = run[j].outcome
         /\ \A c \in calls' : c \in calls \/ (c.token = NoToken /\ c.op \in UserOps)
         /\ UNCHANGED <<claims, reported, faulted, lastToken>>
         /\ softDeleteForUser \/ UNCHANGED repositoryVars
  <1>1. run \in [Instances -> RunStates]
    BY RunsListed
  <1>2. \A op \in UserOps : userCall(op).token = NoToken /\ userCall(op).op \in UserOps
    BY DEF userCall
  <1>3. ASSUME NEW i \in Instances, UserCancel(i)
        PROVE  \A j \in Instances : /\ run'[j].pc = run[j].pc /\ run'[j].token = run[j].token
                                    /\ run'[j].fence = run[j].fence
                                    /\ run'[j].generation = run[j].generation
                                    /\ run'[j].outcome = run[j].outcome
    BY <1>1, <1>3 DEF UserCancel, RunStates
  <1>4. ASSUME NEW i \in Instances, UserCancel(i) PROVE calls' = calls \cup {userCall("userCancel")}
    BY <1>4 DEF UserCancel
  <1>5. ASSUME NEW i \in Instances, UserCancel(i)
        PROVE  UNCHANGED <<claims, reported, faulted, lastToken, repositoryVars>>
    BY <1>5 DEF UserCancel
  <1>6. ASSUME NEW i \in Instances, UserRetry(i)
        PROVE  /\ calls' = calls \cup {userCall("userRetry")}
               /\ UNCHANGED <<run, claims, reported, faulted, lastToken, repositoryVars>>
    BY <1>6 DEF UserRetry
  <1>7. CASE UserDelete
    BY <1>7 DEF UserDelete
  <1>8. CASE LeaseExpires \/ \E t \in lateSets : LateSetExecutes(t)
    BY <1>8 DEF LeaseExpires, LateSetExecutes
  <1>9. CASE UNCHANGED vars
    BY <1>9 DEF vars, repositoryVars
  <1>10. QED
    BY <1>2, <1>3, <1>4, <1>5, <1>6, <1>7, <1>8, <1>9 DEF OutsideStep, UserOps

\* Nothing a user does makes an answer untrue.
LEMMA OutsideStepSettles ==
  ASSUME TypeInvariant, ClaimInvariant, SettlementInvariant, OutsideStep
  PROVE  SettlementInvariant'
  <1>1. /\ \A j \in Instances : /\ run'[j].pc = run[j].pc /\ run'[j].token = run[j].token
                                /\ run'[j].fence = run[j].fence
                                /\ run'[j].generation = run[j].generation
                                /\ run'[j].outcome = run[j].outcome
        /\ \A c \in calls' : c \in calls \/ (c.token = NoToken /\ c.op \in UserOps)
        /\ UNCHANGED <<claims, reported, faulted, lastToken>>
        /\ softDeleteForUser \/ UNCHANGED repositoryVars
    BY OutsideStepEffects
  <1>2. ASSUME NEW t
        PROVE  /\ Unclaimed(t) => Unclaimed(t)'
               /\ ClaimsSettled(t) => ClaimsSettled(t)'
               /\ Closed(t) => Closed(t)'
    <2>1. \A c \in claims' : c.answer = t => c \in claims
      BY <1>1
    <2>2. \/ softDeleteForUser /\ UNCHANGED claims
          \/ UNCHANGED <<repositoryVars, claims>>
      BY <1>1
    <2>3. softDeleteForUser \/ UNCHANGED review
      BY <1>1 DEF repositoryVars
    <2>4. Closed(t) => Closed(t)'
      BY <2>1, <2>2, OutcomesStayTrue
    <2>5. ClaimsSettled(t) => ClaimsSettled(t)'
      BY <2>1, <2>3, ClaimsSettledForGood
    <2>6. Unclaimed(t) => Unclaimed(t)'
      BY <1>1 DEF Unclaimed
    <2>7. QED
      BY <2>4, <2>5, <2>6
  <1>3. ASSUME NEW t, NEW outcome, OutcomeHolds(t, outcome)
        PROVE  OutcomeHolds(t, outcome)'
    <2>1. Persisted' = Persisted
      BY <1>1 DEF softDeleteForUser, repositoryVars, Persisted
    <2>2. QED
      BY <1>2, <1>3, <2>1 DEF OutcomeHolds
  <1>4. TokensAreFresh'
    <2>1. NoToken <= lastToken
      BY RunsListed DEF NoToken
    <2>2. QED
      BY <1>1, <2>1 DEF SettlementInvariant, TokensAreFresh
  <1>5. ClaimsOnce'
    <2>1. \A c \in calls' : c.op = "claim" => c \in calls
      BY <1>1 DEF UserOps
    <2>2. QED
      BY <1>1, <1>2, <2>1 DEF SettlementInvariant, ClaimsOnce
  <1>6. ASSUME NEW j \in Instances PROVE RunFits(run[j])'
    <2>1. RunFits(run[j])
      BY DEF SettlementInvariant
    <2>2. PICK x : x = run'[j]
      OBVIOUS
    <2>3. /\ x.pc = run[j].pc /\ x.token = run[j].token /\ x.fence = run[j].fence
          /\ x.generation = run[j].generation /\ x.outcome = run[j].outcome
      BY <1>1, <2>2
    <2>4. RunFits(x)
      BY <2>1, <2>3 DEF RunFits
    <2>5. RunFits(x)'
      BY <1>1, <1>2, <1>3, <2>4 DEF RunFits
    <2>6. QED
      BY <2>2, <2>5
  <1>7. ClaimsWorkedOn'
    BY <1>1, <1>2 DEF SettlementInvariant, ClaimsWorkedOn
  <1>8. ReportsHold'
    BY <1>1, <1>3 DEF SettlementInvariant, ReportsHold
  <1>9. QED
    BY <1>4, <1>5, <1>6, <1>7, <1>8 DEF SettlementInvariant

-------------------------------------------------------------------------------
(* The database answers. *)

\* A call is executed and answered.
DeliveryStep(c, reply) ==
  /\ c \in calls /\ reply \in Replies
  /\ Deliver(c, reply)
  /\ Writes(c) \/ UNCHANGED <<repositoryVars, claims>>
  /\ reply = "ok" => Writes(c)
  /\ reply = "missed" => ~Applies(c) /\ UNCHANGED <<repositoryVars, claims>>
  /\ faulted' = IF reply = "error" /\ c.op \notin {"fence"} \cup UserOps
                THEN faulted \cup {c.token} ELSE faulted
  /\ UNCHANGED <<reported, lastToken>>

\* A run that waits for the call learns of it.
Heard(c, reply, r, s) ==
  /\ c.op \in RunOps /\ Live(r) /\ r.token = c.token
  /\ Answered(r, c.op, reply, s)
  /\ c.op = "claim" => r.pc = "claiming"
  /\ c.op \in {"complete", "fail", "cancel"} => r.pc \in ClaimedPcs

\* The three ways in which a call ends are deliveries.
LEMMA CallsAreDelivered ==
  ASSUME TypeInvariant, NEW c \in calls,
         CallApplied(c) \/ CallMatchesNoRow(c) \/ CallFails(c)
  PROVE  \E reply \in Replies : DeliveryStep(c, reply)
  <1>1. {"ok", "missed", "error"} = Replies
    BY DEF Replies
  <1>2. CASE CallApplied(c)
    BY <1>1, <1>2 DEF CallApplied, DeliveryStep
  <1>3. CASE CallMatchesNoRow(c)
    BY <1>1, <1>3 DEF CallMatchesNoRow, DeliveryStep
  <1>4. CASE CallFails(c)
    BY <1>1, <1>4 DEF CallFails, DeliveryStep, UserOps
  <1>5. QED
    BY <1>2, <1>3, <1>4

\* A run hears of its call or goes on as it was.
LEMMA DeliveredAnswers ==
  ASSUME TypeInvariant, NEW c, NEW reply, DeliveryStep(c, reply), NEW i \in Instances
  PROVE  \/ run'[i] = run[i] /\ ~Hears(run[i], c)
         \/ Heard(c, reply, run[i], run'[i])
  <1>1. run'[i] = IF Hears(run[i], c) THEN Handled(run[i], c.op, reply) ELSE run[i]
    BY DEF DeliveryStep, Deliver
  <1>2. CASE ~Hears(run[i], c)
    BY <1>1, <1>2
  <1>3. CASE Hears(run[i], c)
    <2>1. c.token # NoToken /\ run[i].token = c.token
      BY <1>3 DEF Hears
    <2>2. c.op \in RunOps /\ Live(run[i])
      BY <2>1, RunsListed DEF DeliveryStep, TypeInvariant, TokensFollowRuns
    <2>3. RepositoryTypeOK /\ reply \in Replies
      BY DEF TypeInvariant, TypeOK, DeliveryStep
    <2>4. PICK s : s = Handled(run[i], c.op, reply)
      OBVIOUS
    <2>5. /\ Answered(run[i], c.op, reply, s)
          /\ c.op = "claim" => run[i].pc = "claiming"
          /\ c.op \in {"complete", "fail", "cancel"} => run[i].pc \in ClaimedPcs
      BY <1>3, <2>2, <2>3, <2>4, HandledIsAnswered
    <2>6. QED
      BY <1>1, <1>3, <2>1, <2>2, <2>4, <2>5 DEF Heard
  <1>4. QED
    BY <1>2, <1>3

\* Where a delivery leaves a run.
LEMMA HeardRun ==
  ASSUME NEW c, NEW reply, NEW r, NEW s, Heard(c, reply, r, s)
  PROVE  /\ Live(s) /\ s.token = r.token
         /\ s.pc = "claiming" => r.pc = "claiming"
         /\ r.pc \in KeepalivePcs => s.pc \in KeepalivePcs \cup {"releasing"}
         /\ s.pc \in KeepalivePcs => r.pc \in KeepalivePcs
  <1>1. Live(s) /\ s.token = r.token
    BY DEF Heard, Answered
  <1>2. {"claiming", "awaitFence", "reviewing", "claimMissed", "cancelling"}
          \cup MissedPcs \cup ClaimedPcs \subseteq KeepalivePcs
    BY DEF MissedPcs, KeepalivePcs, ClaimedPcs
  <1>3. CASE c.op = "claim"
    BY <1>1, <1>2, <1>3 DEF Heard, Answered, ClaimAnswered
  <1>4. CASE c.op \in {"complete", "fail", "cancel"}
    BY <1>1, <1>2, <1>4 DEF Heard, Answered, WriteAnswered, MissedPcs
  <1>5. CASE c.op = "fence"
    BY <1>1, <1>5 DEF Heard, Answered, FenceAnswered
  <1>6. QED
    BY <1>3, <1>4, <1>5 DEF Heard, RunOps

\* Runs and calls after a delivery.
LEMMA DeliveredRunsAndCalls ==
  ASSUME TypeInvariant, NEW c, NEW reply, DeliveryStep(c, reply)
  PROVE  /\ \A j \in Instances :
              /\ run'[j].token = run[j].token
              /\ run'[j].pc = "idle" <=> run[j].pc = "idle"
              /\ run'[j].pc = "claiming" => run[j].pc = "claiming"
              /\ run[j].pc \in KeepalivePcs => run'[j].pc \in KeepalivePcs \cup {"releasing"}
              /\ run'[j].pc \in KeepalivePcs => run[j].pc \in KeepalivePcs
         /\ \A d \in calls' :
              \/ d \in calls \ {c}
              \/ d.op # "claim" /\ \E j \in Instances : Live(run[j]) /\ d.token = run[j].token
  <1>1. ASSUME NEW j \in Instances
        PROVE  /\ run'[j].token = run[j].token
               /\ run'[j].pc = "idle" <=> run[j].pc = "idle"
               /\ run'[j].pc = "claiming" => run[j].pc = "claiming"
               /\ run[j].pc \in KeepalivePcs => run'[j].pc \in KeepalivePcs \cup {"releasing"}
               /\ run'[j].pc \in KeepalivePcs => run[j].pc \in KeepalivePcs
    <2>1. CASE run'[j] = run[j]
      BY <2>1
    <2>2. CASE Heard(c, reply, run[j], run'[j])
      <3>1. Live(run[j])
        BY <2>2 DEF Heard
      <3>2. PICK s : s = run'[j] /\ Heard(c, reply, run[j], s)
        BY <2>2
      <3>3. /\ Live(s) /\ s.token = run[j].token
            /\ s.pc = "claiming" => run[j].pc = "claiming"
            /\ run[j].pc \in KeepalivePcs => s.pc \in KeepalivePcs \cup {"releasing"}
            /\ s.pc \in KeepalivePcs => run[j].pc \in KeepalivePcs
        BY <3>2, HeardRun
      <3>4. QED
        BY <3>1, <3>2, <3>3 DEF Live
    <2>3. QED
      BY <2>1, <2>2, DeliveredAnswers
  <1>2. ASSUME NEW j \in Instances, NEW d \in Issued(run[j], run'[j])
        PROVE  d.op # "claim" /\ Live(run[j]) /\ d.token = run[j].token
    <2>1. run'[j] # run[j]
      BY <1>2, NothingIssued
    <2>2. Heard(c, reply, run[j], run'[j])
      BY <2>1, DeliveredAnswers
    <2>3. Live(run[j]) /\ Live(run'[j]) /\ run'[j].token = run[j].token
      BY <2>2, HeardRun DEF Heard
    <2>4. d.token = run'[j].token
          /\ (d.op = "claim" => run'[j].pc = "claiming" /\ run[j].pc # "claiming")
      BY <2>3, NoClaimIssued
    <2>5. QED
      BY <1>1, <2>3, <2>4
  <1>3. calls' = (calls \ {c}) \cup UNION {Issued(run[j], run'[j]) : j \in Instances}
    BY DEF DeliveryStep, Deliver
  <1>4. ASSUME NEW d \in calls', d \notin calls \ {c}
        PROVE  d.op # "claim" /\ \E j \in Instances : Live(run[j]) /\ d.token = run[j].token
    <2>1. PICK j \in Instances : d \in Issued(run[j], run'[j])
      BY <1>3, <1>4
    <2>2. QED
      BY <1>2, <2>1
  <1>5. QED
    BY <1>1, <1>4

\* Claims after a delivery: only the claim that was answered may be new.
LEMMA DeliveredClaims ==
  ASSUME TypeInvariant, ClaimInvariant, NEW c, NEW reply, DeliveryStep(c, reply)
  PROVE  /\ c.op # "claim" => UNCHANGED claims
         /\ \/ UNCHANGED claims
            \/ claims' = claims \cup {[generation |-> review.generation + 1, answer |-> c.token]}
         /\ \A t : c.op # "claim" \/ t # c.token =>
              /\ Unclaimed(t) => Unclaimed(t)'
              /\ ClaimsSettled(t) => ClaimsSettled(t)'
              /\ Closed(t) => Closed(t)'
              /\ \A outcome : OutcomeHolds(t, outcome) => OutcomeHolds(t, outcome)'
  <1>1. c \in calls /\ (Writes(c) \/ UNCHANGED <<repositoryVars, claims>>)
    BY DEF DeliveryStep
  <1>2. /\ c.op # "claim" => UNCHANGED claims
        /\ \/ UNCHANGED claims
           \/ claims' = claims \cup {[generation |-> review.generation + 1, answer |-> c.token]}
    BY <1>1, WriteEffects
  <1>3. ASSUME NEW t, c.op # "claim" \/ t # c.token
        PROVE  /\ Unclaimed(t) => Unclaimed(t)'
               /\ ClaimsSettled(t) => ClaimsSettled(t)'
               /\ Closed(t) => Closed(t)'
               /\ \A outcome : OutcomeHolds(t, outcome) => OutcomeHolds(t, outcome)'
    <2>1. \A d \in claims' : d.answer = t => d \in claims
      BY <1>2, <1>3
    <2>2. (\E d \in calls : Writes(d)) \/ UNCHANGED <<repositoryVars, claims>>
      BY <1>1
    <2>3. (\E d \in calls : Writes(d)) \/ UNCHANGED review
      BY <2>2 DEF repositoryVars
    <2>4. Unclaimed(t) => Unclaimed(t)'
      BY <2>1 DEF Unclaimed
    <2>5. ClaimsSettled(t) => ClaimsSettled(t)'
      BY <2>1, <2>3, ClaimsSettledForGood
    <2>6. ASSUME NEW outcome
          PROVE  /\ Closed(t) => Closed(t)'
                 /\ OutcomeHolds(t, outcome) => OutcomeHolds(t, outcome)'
      BY <2>1, <2>2, OutcomesStayTrue
    <2>7. QED
      BY <2>4, <2>5, <2>6
  <1>4. QED
    BY <1>2, <1>3

\* A write of the run's own that succeeds settles what the run claimed.
LEMMA WritesSettle ==
  ASSUME TypeInvariant, RepositoryInvariant, ClaimInvariant, NEW c \in calls, Writes(c),
         c.op \in {"complete", "fail", "cancel", "fence"}
  PROVE  /\ ClaimsSettled(c.token)'
         /\ c.op = "complete" => c.token \in Persisted'
         /\ c.op # "complete" => Closed(c.token)'
  <1>1. ClaimsSettled(c.token)'
    BY WriteRows DEF ClaimsSettled, Settled
  <1>2. c.op = "complete" => c.token \in Persisted'
    BY StoredByClaimant
  <1>3. review.status = "PROCESSING"
    BY WriteRows DEF Settled
  <1>4. Persisted = {}
    BY <1>3, StatusTells DEF Persisted
  <1>5. c.op # "complete" => Persisted' = {}
    BY <1>4, StoredByClaimant
  <1>6. QED
    BY <1>1, <1>2, <1>5 DEF Closed

\* A run that hears a reply knows what it says it knows.
LEMMA HeardRunFits ==
  ASSUME TypeInvariant, RepositoryInvariant, ClaimInvariant, SettlementInvariant,
         NEW c, NEW reply, DeliveryStep(c, reply),
         NEW r, RunFits(r), NEW s, Heard(c, reply, r, s)
  PROVE  RunFits(s)'
  <1> DEFINE t == r.token
  <1>1. s.token = t /\ t = c.token /\ c \in calls /\ reply \in Replies /\ c.op \in RunOps
    BY HeardRun DEF Heard, DeliveryStep
  <1>2. (reply = "error" /\ c.op # "fence") => t \in faulted'
    BY <1>1 DEF DeliveryStep, RunOps, UserOps
  <1>3. faulted \subseteq faulted'
    BY DEF DeliveryStep
  <1>4. c.op # "claim" => /\ ClaimsSettled(t) => ClaimsSettled(t)'
                          /\ Closed(t) => Closed(t)'
                          /\ \A outcome : OutcomeHolds(t, outcome) => OutcomeHolds(t, outcome)'
    BY DeliveredClaims
  <1>5. OutcomeHolds(t, "none")' /\ OutcomeHolds(t, "ERROR")'
    BY DEF OutcomeHolds, StoppedOutcomes
  <1>6. CASE c.op = "claim"
    <2>1. r.pc = "claiming" /\ r.fence = "none" /\ r.generation = 0 /\ r.outcome = "none"
          /\ Unclaimed(t)
      BY <1>6 DEF Heard, RunFits
    <2>2. CASE reply = "ok"
      <3>1. s.pc \in {"awaitFence", "reviewing"} /\ s.outcome = "none"
            /\ s.fence \in {"none", "pending"}
        BY <1>6, <2>1, <2>2 DEF Heard, Answered, ClaimAnswered
      <3>2. QED
        BY <1>1, <1>5, <3>1 DEF RunFits, MissedPcs
    <2>3. CASE reply = "missed"
      <3>1. s.pc = "claimMissed" /\ s.outcome = "none" /\ s.fence = "none" /\ s.generation = 0
        BY <1>6, <2>1, <2>3 DEF Heard, Answered, ClaimAnswered
      <3>2. Unclaimed(t)'
        BY <2>1, <2>3 DEF DeliveryStep, Unclaimed
      <3>3. QED
        BY <1>1, <1>5, <3>1, <3>2 DEF RunFits, MissedPcs
    <2>4. CASE reply = "error"
      <3>1. s.pc = "releasing" /\ s.outcome = "ERROR" /\ s.fence = "none"
        BY <1>6, <2>1, <2>4 DEF Heard, Answered, ClaimAnswered
      <3>2. QED
        BY <1>1, <1>2, <1>5, <1>6, <2>4, <3>1 DEF RunFits, MissedPcs
    <2>5. QED
      BY <1>1, <2>2, <2>3, <2>4 DEF Replies
  <1>7. CASE c.op \in {"complete", "fail", "cancel"}
    <2>1. r.pc \in ClaimedPcs /\ r.outcome = "none" /\ (r.fence = "cancelled" => Closed(t))
          /\ s.fence = r.fence
      BY <1>7, PcsListed DEF Heard, RunFits, Answered, WriteAnswered
    <2>2. s.fence = "cancelled" => Closed(t)'
      BY <1>4, <1>7, <2>1
    <2>3. CASE s.pc \in {"awaitFence", "cancelling"} /\ s.outcome = r.outcome
      BY <1>1, <1>5, <2>1, <2>2, <2>3 DEF RunFits, MissedPcs
    <2>4. CASE reply = "missed" /\ s.pc \in MissedPcs /\ s.outcome = r.outcome
      <3>1. ~Applies(c)
        BY <2>4 DEF DeliveryStep
      <3>2. ClaimsSettled(t)
        BY <1>1, <1>7, <3>1, MissesSettle DEF SettlementInvariant
      <3>3. ClaimsSettled(t)'
        BY <1>4, <1>7, <3>2
      <3>4. QED
        BY <1>1, <1>5, <2>1, <2>2, <2>4, <3>3 DEF RunFits, MissedPcs
    <2>5. CASE reply = "error" /\ s.pc = "releasing" /\ s.outcome = "ERROR"
      BY <1>1, <1>2, <1>5, <1>7, <2>2, <2>5 DEF RunFits, MissedPcs
    <2>6. CASE /\ reply = "ok" /\ s.pc = "releasing"
               /\ s.outcome \in CASE c.op = "complete" -> {"COMPLETED"}
                                  [] c.op = "fail" -> {"FAILED"}
                                  [] c.op = "cancel" -> {"CANCELLED", "ERROR"}
      <3>1. Writes(c)
        BY <2>6 DEF DeliveryStep
      <3>2. /\ ClaimsSettled(t)'
            /\ c.op = "complete" => t \in Persisted'
            /\ c.op # "complete" => Closed(t)'
        BY <1>1, <1>7, <3>1, WritesSettle
      <3>3. OutcomeHolds(t, s.outcome)'
        BY <1>7, <2>6, <3>2 DEF OutcomeHolds, StoppedOutcomes
      <3>4. QED
        BY <1>1, <2>2, <2>6, <3>2, <3>3 DEF RunFits, MissedPcs
    <2>7. QED
      BY <1>7, <2>3, <2>4, <2>5, <2>6 DEF Heard, Answered, WriteAnswered
  <1>8. CASE c.op = "fence"
    <2>1. /\ s.pc = r.pc /\ s.outcome = r.outcome
          /\ s.fence = "cancelled" => reply = "ok"
      BY <1>8 DEF Heard, Answered, FenceAnswered
    <2>2. ~Unclaimed(t)
      <3>1. Claimant(c) \in claims /\ Claimant(c).answer = t
        BY <1>1, <1>8 DEF ClaimInvariant, Claimant, RunOps
      <3>2. QED
        BY <3>1 DEF Unclaimed
    <2>3. r.pc \notin {"acquiring", "contended", "claiming", "claimMissed"}
      BY <2>2 DEF RunFits
    <2>4. s.fence = "cancelled" => Closed(t)'
      <3>1. reply = "ok" => Writes(c)
        BY DEF DeliveryStep
      <3>2. QED
        BY <1>1, <1>8, <2>1, <3>1, WritesSettle
    <2>5. OutcomeHolds(t, r.outcome)'
      BY <1>4, <1>8 DEF RunFits
    <2>6. /\ r.pc \in MissedPcs => ClaimsSettled(t)'
          /\ r.pc = "releasing" /\ t \notin faulted' => ClaimsSettled(t)'
      BY <1>3, <1>4, <1>8 DEF RunFits
    <2>7. r.pc # "releasing" => r.outcome = "none"
      BY DEF RunFits
    <2>8. QED
      BY <1>1, <2>1, <2>3, <2>4, <2>5, <2>6, <2>7 DEF RunFits
  <1>9. QED
    BY <1>1, <1>6, <1>7, <1>8 DEF RunOps

\* What the database executes, whoever issued it and however late, leaves every
\* answer true and every claim settled or worked on.
LEMMA DeliverySettles ==
  ASSUME TypeInvariant, RepositoryInvariant, ClaimInvariant, SettlementInvariant,
         NEW c, NEW reply, DeliveryStep(c, reply)
  PROVE  SettlementInvariant'
  <1>1. /\ c \in calls /\ reply \in Replies /\ faulted \subseteq faulted'
        /\ UNCHANGED <<reported, lastToken>>
        /\ c.op = "claim" => c.token \in Tokens /\ c.generation = 0
    BY DEF DeliveryStep, TypeInvariant, TokensFollowRuns, UserOps, SettlementInvariant, ClaimsOnce
  <1>2. /\ \A j \in Instances :
              /\ run'[j].token = run[j].token
              /\ run'[j].pc = "idle" <=> run[j].pc = "idle"
              /\ run'[j].pc = "claiming" => run[j].pc = "claiming"
              /\ run[j].pc \in KeepalivePcs => run'[j].pc \in KeepalivePcs \cup {"releasing"}
              /\ run'[j].pc \in KeepalivePcs => run[j].pc \in KeepalivePcs
        /\ \A d \in calls' :
              \/ d \in calls \ {c}
              \/ d.op # "claim" /\ \E j \in Instances : Live(run[j]) /\ d.token = run[j].token
    BY DeliveredRunsAndCalls
  <1>3. /\ c.op # "claim" => UNCHANGED claims
        /\ \/ UNCHANGED claims
           \/ claims' = claims \cup {[generation |-> review.generation + 1, answer |-> c.token]}
        /\ \A t : c.op # "claim" \/ t # c.token =>
              /\ Unclaimed(t) => Unclaimed(t)'
              /\ ClaimsSettled(t) => ClaimsSettled(t)'
              /\ Closed(t) => Closed(t)'
              /\ \A outcome : OutcomeHolds(t, outcome) => OutcomeHolds(t, outcome)'
    BY DeliveredClaims
  <1>4. c.op = "claim" =>
          /\ Unclaimed(c.token) /\ reported[c.token] = "none"
          /\ \A i \in Instances : run[i].token = c.token => run[i].pc = "claiming"
          /\ c.token \notin faulted => \E i \in Instances : run[i].token = c.token
    BY <1>1 DEF SettlementInvariant, ClaimsOnce
  <1>5. ASSUME NEW j \in Instances, c.op = "claim", run[j].token = c.token
        PROVE  Heard(c, reply, run[j], run'[j])
    <2>1. Hears(run[j], c)
      BY <1>1, <1>4, <1>5, AwaitedOps, TokensAreNumbers DEF Hears, AwaitedOp
    <2>2. QED
      BY <2>1, DeliveredAnswers
  <1>6. TokensAreFresh'
    <2>1. \A d \in calls' : d.token <= lastToken
      BY <1>2 DEF SettlementInvariant, TokensAreFresh, Live
    <2>2. \A d \in claims' : d.answer <= lastToken
      BY <1>1, <1>3 DEF SettlementInvariant, TokensAreFresh
    <2>3. QED
      BY <1>1, <1>2, <2>1, <2>2 DEF SettlementInvariant, TokensAreFresh
  <1>7. ClaimsOnce'
    <2>1. \A d, e \in claims' : d.answer = e.answer => d = e
      BY <1>3, <1>4 DEF SettlementInvariant, ClaimsOnce, Unclaimed
    <2>2. ASSUME NEW d \in calls', d.op = "claim"
          PROVE  /\ d.generation = 0 /\ Unclaimed(d.token)'
                 /\ \A i \in Instances : run'[i].token = d.token => run'[i].pc = "claiming"
                 /\ d.token \notin faulted' => \E i \in Instances : run'[i].token = d.token
                 /\ reported'[d.token] = "none"
      <3>1. d \in calls \ {c}
        BY <1>2, <2>2
      <3>2. /\ d.generation = 0 /\ Unclaimed(d.token) /\ reported[d.token] = "none"
            /\ \A i \in Instances : run[i].token = d.token => run[i].pc = "claiming"
            /\ d.token \notin faulted => \E i \in Instances : run[i].token = d.token
        BY <2>2, <3>1 DEF SettlementInvariant, ClaimsOnce
      <3>3. c.op # "claim" \/ d.token # c.token
        <4>1. c \in CallStates /\ d \in CallStates
          BY <1>1, <3>1 DEF TypeInvariant, TypeOK
        <4>2. QED
          BY <1>1, <2>2, <3>1, <3>2, <4>1 DEF CallStates
      <3>4. ASSUME NEW i \in Instances, run'[i].token = d.token
            PROVE  run'[i].pc = "claiming"
        <4>1. run[i].token = d.token /\ run[i].pc = "claiming"
          BY <1>2, <3>2, <3>4
        <4>2. CASE run'[i] = run[i]
          BY <4>1, <4>2
        <4>3. CASE Heard(c, reply, run[i], run'[i])
          <5>1. run[i].token = c.token /\ c.op \in RunOps
            BY <4>3 DEF Heard
          <5>2. c.op = "fence"
            BY <3>3, <4>1, <4>3, <5>1, PcsListed DEF Heard, RunOps
          <5>3. QED
            BY <4>1, <4>3, <5>2 DEF Heard, Answered, FenceAnswered
        <4>4. QED
          BY <4>2, <4>3, DeliveredAnswers
      <3>5. d.token \notin faulted' => \E i \in Instances : run'[i].token = d.token
        BY <1>1, <1>2, <3>2
      <3>6. Unclaimed(d.token)'
        BY <1>3, <3>2, <3>3
      <3>7. QED
        BY <1>1, <3>2, <3>4, <3>5, <3>6
    <2>3. QED
      BY <2>1, <2>2 DEF ClaimsOnce
  <1>8. ASSUME NEW j \in Instances PROVE RunFits(run[j])'
    <2>1. PICK s : s = run'[j]
      OBVIOUS
    <2>2. RunFits(run[j])
      BY DEF SettlementInvariant
    <2>3. CASE Heard(c, reply, run[j], s)
      <3>1. RunFits(s)'
        BY <2>2, <2>3, HeardRunFits
      <3>2. QED
        BY <2>1, <3>1
    <2>4. CASE run'[j] = run[j] /\ ~Heard(c, reply, run[j], s)
      <3>1. c.op # "claim" \/ run[j].token # c.token
        BY <1>5, <2>1, <2>4
      <3>2. /\ Unclaimed(s.token) => Unclaimed(s.token)'
            /\ ClaimsSettled(s.token) => ClaimsSettled(s.token)'
            /\ Closed(s.token) => Closed(s.token)'
            /\ \A outcome : OutcomeHolds(s.token, outcome) => OutcomeHolds(s.token, outcome)'
        BY <1>3, <2>1, <2>4, <3>1
      <3>3. RunFits(s)
        BY <2>1, <2>2, <2>4
      <3>4. RunFits(s)'
        BY <1>1, <3>2, <3>3 DEF RunFits
      <3>5. QED
        BY <2>1, <3>4
    <2>5. QED
      BY <2>1, <2>3, <2>4, DeliveredAnswers
  <1>9. ClaimsWorkedOn'
    <2>1. SUFFICES ASSUME NEW t \in Tokens \ faulted', ~ClaimsSettled(t)'
                   PROVE  \E j \in Instances : run'[j].token = t /\ run'[j].pc \in KeepalivePcs
      BY DEF ClaimsWorkedOn
    <2>2. t \notin faulted
      BY <1>1, <2>1
    <2>3. PICK j \in Instances : run[j].token = t /\ run[j].pc \in KeepalivePcs
      <3>1. CASE c.op = "claim" /\ t = c.token
        BY <1>4, <2>2, <3>1 DEF KeepalivePcs
      <3>2. CASE c.op # "claim" \/ t # c.token
        BY <1>3, <2>1, <2>2, <3>2 DEF SettlementInvariant, ClaimsWorkedOn
      <3>3. QED
        BY <3>1, <3>2
    <2>4. run'[j].pc # "releasing"
      <3>1. PICK s : s = run'[j] /\ s.token = t
        BY <1>2, <2>3
      <3>2. RunFits(s)'
        BY <1>8, <3>1
      <3>3. QED
        BY <2>1, <3>1, <3>2 DEF RunFits
    <2>5. QED
      BY <1>2, <2>3, <2>4
  <1>10. ReportsHold'
    <2>1. ASSUME NEW t \in Tokens
          PROVE  /\ OutcomeHolds(t, reported[t])'
                 /\ reported'[t] # "none" => \A j \in Instances : run'[j].token # t
      <3>1. OutcomeHolds(t, reported[t])
            /\ (reported[t] # "none" => \A j \in Instances : run[j].token # t)
        BY DEF SettlementInvariant, ReportsHold
      <3>2. PICK outcome : outcome = reported[t] /\ outcome = reported'[t]
        BY <1>1
      <3>3. CASE c.op = "claim" /\ t = c.token
        <4>1. outcome = "none"
          BY <1>4, <3>2, <3>3
        <4>2. OutcomeHolds(t, outcome)'
          BY <4>1 DEF OutcomeHolds, StoppedOutcomes
        <4>3. QED
          BY <1>2, <3>1, <3>2, <4>2
      <3>4. CASE c.op # "claim" \/ t # c.token
        <4>1. OutcomeHolds(t, outcome)'
          BY <1>3, <3>1, <3>2, <3>4
        <4>2. QED
          BY <1>2, <3>1, <3>2, <4>1
      <3>5. QED
        BY <3>3, <3>4
    <2>2. QED
      BY <2>1 DEF ReportsHold
  <1>11. QED
    BY <1>6, <1>7, <1>8, <1>9, <1>10 DEF SettlementInvariant

-------------------------------------------------------------------------------
(* What process() answers. *)

\* The steps, sorted by what they leave settled.
LEMMA StepsAreSorted ==
  ASSUME [Next]_vars
  PROVE  \/ OutsideStep
         \/ \E c \in calls : CallApplied(c) \/ CallMatchesNoRow(c) \/ CallFails(c)
         \/ \E i \in Instances :
              \/ StartRun(i) \/ AcquireLock(i)
              \/ ReadContended(i) \/ AcquireUnavailable(i) \/ ReleaseLock(i)
              \/ ReleaseUnavailable(i) \/ Crash(i)
              \/ RunStep(i) /\ ~(AcquireLock(i) \/ ReadContended(i) \/ ReleaseLock(i))
              \/ LoseLease(i) \/ ReadFails(i)
  BY DEF Next, OutsideStep

\* At the start nothing is claimed, answered or under way.
LEMMA InitEstablishesSettlement == Init => SettlementInvariant
  <1> SUFFICES ASSUME Init PROVE SettlementInvariant
    OBVIOUS
  <1>1. /\ run = [i \in Instances |-> idleRun] /\ claims = {} /\ calls = {}
        /\ reported = [t \in Tokens |-> "none"]
    BY DEF Init
  <1>2. \A i \in Instances : run[i].pc = "idle"
    BY <1>1 DEF idleRun
  <1>3. TokensAreFresh
    BY <1>1, <1>2 DEF TokensAreFresh
  <1>4. ClaimsOnce
    BY <1>1 DEF ClaimsOnce
  <1>5. \A i \in Instances : RunFits(run[i])
    BY <1>1, IdleFits
  <1>6. ClaimsWorkedOn
    BY <1>1 DEF ClaimsWorkedOn, ClaimsSettled
  <1>7. ReportsHold
    BY <1>1 DEF ReportsHold, OutcomeHolds, StoppedOutcomes
  <1>8. QED
    BY <1>3, <1>4, <1>5, <1>6, <1>7 DEF SettlementInvariant

\* Every step keeps the answers true and the claims settled or worked on.
LEMMA StepSettles ==
  ASSUME ProcessingInvariant, SettlementInvariant, [Next]_vars
  PROVE  SettlementInvariant'
  <1>1. TypeInvariant /\ RepositoryInvariant /\ ClaimInvariant
        /\ \A i \in Instances : RunFits(run[i])
    BY DEF ProcessingInvariant, DurableInvariant, SettlementInvariant
  <1>2. CASE OutsideStep
    BY <1>1, <1>2, OutsideStepSettles
  <1>3. ASSUME NEW c \in calls, CallApplied(c) \/ CallMatchesNoRow(c) \/ CallFails(c)
        PROVE  SettlementInvariant'
    BY <1>1, <1>3, CallsAreDelivered, DeliverySettles
  <1>4. ASSUME NEW i \in Instances, StartRun(i) PROVE SettlementInvariant'
    BY <1>1, <1>4, StartRunSettles
  <1>5. ASSUME NEW i \in Instances, AcquireLock(i) PROVE SettlementInvariant'
    BY <1>1, <1>5, AcquireLockSettles
  <1>6. ASSUME NEW i \in Instances,
               ReadContended(i) \/ AcquireUnavailable(i) \/ ReleaseLock(i)
                 \/ ReleaseUnavailable(i) \/ Crash(i)
        PROVE  SettlementInvariant'
    <2>1. EndingMove(i)
      BY <1>1, <1>6, EndsFit
    <2>2. QED
      BY <1>1, <2>1, EndingMoveSettles
  <1>7. ASSUME NEW i \in Instances,
               \/ RunStep(i) /\ ~(AcquireLock(i) \/ ReadContended(i) \/ ReleaseLock(i))
               \/ LoseLease(i) \/ ReadFails(i)
        PROVE  SettlementInvariant'
    <2>1. FittingMove(i)
      BY <1>1, <1>7, LocalStepsFit
    <2>2. QED
      BY <1>1, <2>1, FittingMoveSettles
  <1>8. QED
    BY <1>2, <1>3, <1>4, <1>5, <1>6, <1>7, StepsAreSorted

\* A lease changes hands through its holder or through its expiry only.
LEMMA StepKeepsLeases ==
  ASSUME ProcessingInvariant, SettlementInvariant, LeaseNeverStolen, [Next]_vars
  PROVE  LeaseNeverStolen'
  <1>1. TypeInvariant /\ RepositoryInvariant /\ ClaimInvariant
        /\ \A i \in Instances : RunFits(run[i])
    BY DEF ProcessingInvariant, DurableInvariant, SettlementInvariant
  <1>2. ASSUME \A j \in Instances : run'[j].pc \in KeepalivePcs =>
                 /\ run[j].pc \in KeepalivePcs /\ run'[j].token = run[j].token
                 /\ lock = run[j].token => lock' = lock \/ lock \in expired',
               expired \subseteq expired'
        PROVE  LeaseNeverStolen'
    BY <1>2 DEF LeaseNeverStolen
  <1>3. CASE OutsideStep
    <2>1. \A j \in Instances : run'[j].pc = run[j].pc /\ run'[j].token = run[j].token
      BY <1>1, <1>3, OutsideStepEffects
    <2>2. \A j \in Instances : run[j].pc \in KeepalivePcs => run[j].token # NoToken
      BY <1>1, RunsListed DEF KeepalivePcs
    <2>3. expired \subseteq expired'
          /\ (lock' = lock \/ lock = NoToken \/ lock \in expired')
      BY <1>3 DEF OutsideStep, UserCancel, UserRetry, UserDelete, LeaseExpires, vars,
                  LateSetExecutes
    <2>4. QED
      BY <1>2, <2>1, <2>2, <2>3
  <1>4. ASSUME NEW c \in calls, CallApplied(c) \/ CallMatchesNoRow(c) \/ CallFails(c)
        PROVE  LeaseNeverStolen'
    <2>1. PICK reply \in Replies : DeliveryStep(c, reply)
      BY <1>1, <1>4, CallsAreDelivered
    <2>2. UNCHANGED <<lock, expired>>
      BY <1>4 DEF CallApplied, CallMatchesNoRow, CallFails
    <2>3. QED
      BY <1>1, <1>2, <2>1, <2>2, DeliveredRunsAndCalls
  <1>5. ASSUME NEW i \in Instances, StartRun(i) PROVE LeaseNeverStolen'
    <2>1. /\ run'[i].pc = "acquiring" /\ \A j \in Instances \ {i} : run'[j] = run[j]
          /\ UNCHANGED <<lock, expired>>
      BY <1>1, <1>5, RunsListed DEF StartRun, idleRun
    <2>2. QED
      BY <1>2, <2>1 DEF KeepalivePcs
  <1>6. ASSUME NEW i \in Instances, AcquireLock(i) PROVE LeaseNeverStolen'
    <2>1. PICK s : s = [run[i] EXCEPT !.pc = "claiming"] /\ run' = [run EXCEPT ![i] = s]
      BY <1>6 DEF AcquireLock, StepOf
    <2>2. s.token = run[i].token
      <3>1. Live(run[i])
        BY <1>1, <1>6, RunsListed DEF AcquireLock
      <3>2. QED
        BY <2>1, <3>1, MovedRun, PcsListed
    <2>3. /\ run'[i].token = run[i].token /\ \A j \in Instances \ {i} : run'[j] = run[j]
          /\ lock' = run[i].token /\ lock = NoToken /\ UNCHANGED expired
      BY <1>1, <1>6, <2>1, <2>2, RunsListed DEF AcquireLock
    <2>4. \A j \in Instances : run[j].pc \in KeepalivePcs => run[j].token # NoToken
      BY <1>1, RunsListed DEF KeepalivePcs
    <2>5. QED
      BY <2>3, <2>4 DEF LeaseNeverStolen
  <1>7. ASSUME NEW i \in Instances,
               ReadContended(i) \/ AcquireUnavailable(i) \/ ReleaseLock(i)
                 \/ ReleaseUnavailable(i) \/ Crash(i)
        PROVE  LeaseNeverStolen'
    <2>1. EndingMove(i)
      BY <1>1, <1>7, EndsFit
    <2>2. /\ run'[i].pc = "idle" /\ \A j \in Instances \ {i} : run'[j] = run[j]
          /\ Live(run[i])
      BY <1>1, <2>1, RunsListed DEF EndingMove
    <2>3. \A j \in Instances \ {i} : run[j].token # run[i].token
      BY <2>2 DEF SettlementInvariant, TokensAreFresh, Live
    <2>4. UNCHANGED expired /\ (lock' = lock \/ lock = run[i].token)
      BY <1>7 DEF ReadContended, AcquireUnavailable, ReleaseLock, ReleaseUnavailable, Crash,
                  EndWithoutLock
    <2>5. QED
      BY <1>2, <2>2, <2>3, <2>4 DEF KeepalivePcs
  <1>8. ASSUME NEW i \in Instances,
               \/ RunStep(i) /\ ~(AcquireLock(i) \/ ReadContended(i) \/ ReleaseLock(i))
               \/ LoseLease(i) \/ ReadFails(i)
        PROVE  LeaseNeverStolen'
    <2>1. FittingMove(i)
      BY <1>1, <1>8, LocalStepsFit
    <2>2. PICK s : Fits(run[i], s) /\ run' = [run EXCEPT ![i] = s]
      BY <2>1 DEF FittingMove, StepOf
    <2>3. /\ s.token = run[i].token /\ (s.pc \in KeepalivePcs => run[i].pc \in KeepalivePcs)
          /\ run'[i] = s /\ \A j \in Instances \ {i} : run'[j] = run[j]
      BY <1>1, <2>2, RunsListed DEF Fits
    <2>4. UNCHANGED <<lock, expired>>
      BY <2>1 DEF FittingMove
    <2>5. QED
      BY <1>2, <2>3, <2>4
  <1>9. QED
    BY <1>3, <1>4, <1>5, <1>6, <1>7, <1>8, StepsAreSorted

\* The settlement and the leases hold throughout.
LEMMA SettlementHolds == Spec => [](ProcessingInvariant /\ SettlementInvariant /\ LeaseNeverStolen)
  <1>1. Init => SettlementInvariant
    BY InitEstablishesSettlement
  <1>2. Init => LeaseNeverStolen
    BY DEF Init, LeaseNeverStolen, idleRun, KeepalivePcs
  <1>3. ProcessingInvariant /\ SettlementInvariant /\ [Next]_vars => SettlementInvariant'
    BY StepSettles
  <1>4. ProcessingInvariant /\ SettlementInvariant /\ LeaseNeverStolen /\ [Next]_vars
          => LeaseNeverStolen'
    BY StepKeepsLeases
  <1>5. QED
    BY <1>1, <1>2, <1>3, <1>4, ProcessingInvariantHolds, PTL DEF Spec

\* What process() tells its caller stays true of the durable review, for any number
\* of instances, runs, late writes, crashes and faults.
THEOREM AnswersStayTrue == Spec => []ReportsStayTrue
  <1>1. SettlementInvariant => ReportsStayTrue
    BY DEF SettlementInvariant, ReportsHold, ReportsStayTrue, OutcomeHolds, Closed
  <1>2. QED
    BY <1>1, SettlementHolds, PTL

\* A claimed review is never left behind by a run that neither crashed nor lost a
\* database write.
THEOREM NoClaimIsLeft == Spec => []NoOrphanClaim
  <1>1. ProcessingInvariant /\ SettlementInvariant => NoOrphanClaim
    <2> SUFFICES ASSUME ProcessingInvariant, SettlementInvariant,
                        NEW t \in Tokens \ faulted,
                        review.status = "PROCESSING", ~review.deleted,
                        review.eventSequence < MaxEventSequence, Claimed(t)
                 PROVE  \E i \in Instances : run[i].token = t /\ run[i].pc \in KeepalivePcs
      BY DEF NoOrphanClaim
    <2>1. ~(review.eventSequence >= MaxEventSequence)
      BY ReviewNumbers DEF ProcessingInvariant, DurableInvariant
    <2>2. ~Settled(review.generation)
      BY <2>1 DEF Settled
    <2>3. ~ClaimsSettled(t)
      BY <2>2 DEF Claimed, ClaimsSettled
    <2>4. QED
      BY <2>3 DEF SettlementInvariant, ClaimsWorkedOn
  <1>2. QED
    BY <1>1, SettlementHolds, PTL

\* A lease that Redis has not expired is never taken from a run that works under it.
THEOREM LeaseIsNotStolen == Spec => []LeaseNeverStolen
  BY SettlementHolds, PTL

-------------------------------------------------------------------------------
(* The attempts, as the log and the claims record them. *)

Begins(e, g) == e.generation = g /\ e.status = "PROCESSING"

\* VerdictOf and WorkerOf, of a log and of claims at hand.
VerdictIn(log, g) ==
  LET begin == CHOOSE e \in log : e.generation = g /\ e.status = "PROCESSING"
      next == {e \in log : e.sequence = begin.sequence + 1}
  IN  IF next = {} THEN "PROCESSING" ELSE (CHOOSE e \in next : TRUE).status

WorkerIn(cs, g) == (CHOOSE c \in cs : c.generation = g).answer

AttemptsIn(n, log, cs) ==
  [g \in 1 .. n |-> [worker |-> WorkerIn(cs, g), verdict |-> VerdictIn(log, g)]]

\* Every generation up to the current one was begun once, by one event and one
\* claim; an event COMPLETED is the last one and follows the begin of its generation.
AttemptInvariant ==
  /\ \A g \in 1 .. review.generation : \E e \in events : Begins(e, g)
  /\ \A e \in events : e.status = "PROCESSING" => e.generation \in 1 .. review.generation
  /\ \A e, f \in events :
       e.status = "PROCESSING" /\ Begins(f, e.generation) => e = f
  /\ \A g \in 1 .. review.generation : \E c \in claims : c.generation = g
  /\ \A e \in events : e.status = "COMPLETED" => review.status = "COMPLETED"
  /\ review.status = "COMPLETED" =>
       \E e \in events : Begins(e, review.generation) /\ e.sequence + 1 = review.eventSequence

\* The verdict on a generation is the status of the event after its begin.
LEMMA VerdictRead ==
  ASSUME NEW log, NEW g, NEW b \in log, Begins(b, g),
         \A e \in log : Begins(e, g) => e = b,
         \A e, f \in log : e.sequence = f.sequence => e = f
  PROVE  /\ \A f \in log : f.sequence = b.sequence + 1 => VerdictIn(log, g) = f.status
         /\ (\A f \in log : f.sequence # b.sequence + 1) => VerdictIn(log, g) = "PROCESSING"
  <1> DEFINE begin == CHOOSE e \in log : e.generation = g /\ e.status = "PROCESSING"
             after(e) == {f \in log : f.sequence = e.sequence + 1}
             next == after(b)
  <1>1. begin = b
    BY DEF Begins
  <1>2. VerdictIn(log, g)
          = IF after(begin) = {} THEN "PROCESSING" ELSE (CHOOSE f \in after(begin) : TRUE).status
    BY Zenon DEF VerdictIn
  <1> HIDE DEF begin, after
  <1>3. VerdictIn(log, g) = IF next = {} THEN "PROCESSING" ELSE (CHOOSE f \in next : TRUE).status
    BY <1>1, <1>2
  <1> USE DEF after
  <1>4. ASSUME NEW f \in log, f.sequence = b.sequence + 1
        PROVE  VerdictIn(log, g) = f.status
    <2>1. f \in next /\ \A e \in next : e = f
      BY <1>4
    <2> HIDE DEF next
    <2>2. (CHOOSE e \in next : TRUE) = f
      BY <2>1
    <2>3. QED
      BY <1>3, <2>1, <2>2
  <1>5. ASSUME \A f \in log : f.sequence # b.sequence + 1
        PROVE  VerdictIn(log, g) = "PROCESSING"
    BY <1>3, <1>5
  <1>6. QED
    BY <1>4, <1>5

\* The worker of a generation is the run that claimed it.
LEMMA WorkerRead ==
  ASSUME NEW cs, NEW c \in cs, \A d \in cs : d.generation = c.generation => d = c
  PROVE  WorkerIn(cs, c.generation) = c.answer
  BY DEF WorkerIn

\* A new event that does not follow the begin of a generation leaves its verdict.
LEMMA VerdictStays ==
  ASSUME NEW log, NEW g, NEW b \in log, Begins(b, g),
         \A e \in log : Begins(e, g) => e = b,
         \A e, f \in log : e.sequence = f.sequence => e = f,
         NEW new, ~Begins(new, g), new.sequence # b.sequence + 1,
         \A e \in log : e.sequence # new.sequence
  PROVE  VerdictIn(log \cup {new}, g) = VerdictIn(log, g)
  <1> DEFINE longer == log \cup {new}
  <1>1. /\ b \in longer /\ \A e \in longer : Begins(e, g) => e = b
        /\ \A e, f \in longer : e.sequence = f.sequence => e = f
    OBVIOUS
  <1>2. CASE \E f \in log : f.sequence = b.sequence + 1
    <2>1. PICK f \in log : f.sequence = b.sequence + 1
      BY <1>2
    <2>2. VerdictIn(log, g) = f.status
      BY <2>1, VerdictRead
    <2>3. f \in longer
      OBVIOUS
    <2> HIDE DEF longer
    <2>4. VerdictIn(longer, g) = f.status
      BY <1>1, <2>1, <2>3, VerdictRead
    <2>5. QED
      BY <2>2, <2>4 DEF longer
  <1>3. CASE \A f \in log : f.sequence # b.sequence + 1
    <2>1. VerdictIn(log, g) = "PROCESSING"
      BY <1>3, VerdictRead
    <2>2. \A f \in longer : f.sequence # b.sequence + 1
      BY <1>3
    <2> HIDE DEF longer
    <2>3. VerdictIn(longer, g) = "PROCESSING"
      BY <1>1, <2>2, VerdictRead
    <2>4. QED
      BY <2>1, <2>3 DEF longer
  <1>4. QED
    BY <1>2, <1>3

\* A new claim of another generation leaves the worker.
LEMMA WorkerStays ==
  ASSUME NEW cs, NEW c \in cs, NEW new, new.generation # c.generation,
         \A d \in cs : d.generation = c.generation => d = c
  PROVE  WorkerIn(cs \cup {new}, c.generation) = WorkerIn(cs, c.generation)
  <1> DEFINE more == cs \cup {new}
  <1>1. c \in more /\ \A d \in more : d.generation = c.generation => d = c
    OBVIOUS
  <1> HIDE DEF more
  <1>2. WorkerIn(more, c.generation) = c.answer
    BY <1>1, WorkerRead
  <1>3. QED
    BY <1>2, WorkerRead DEF more

\* The writes, by what they do to the status.
Written(c, to) ==
  /\ Advance(to) /\ ~review.deleted
  /\ \/ /\ to = "PROCESSING" /\ review.status = "PENDING" /\ c.token \in Tokens
        /\ claims' = claims \cup {[generation |-> review.generation + 1, answer |-> c.token]}
        /\ UNCHANGED results
     \/ /\ to = "COMPLETED" /\ review.status = "PROCESSING"
        /\ Claimant(c) \in claims /\ c.generation = review.generation
        /\ results' = results \cup {Claimant(c)}
        /\ UNCHANGED claims
     \/ /\ to \in {"FAILED", "CANCELLED"} /\ review.status = "PROCESSING"
        /\ UNCHANGED <<claims, results>>
     \/ /\ to = "CANCELLED" /\ review.status = "PENDING"
        /\ UNCHANGED <<claims, results>>
     \/ /\ to = "PENDING" /\ review.status \in {"FAILED", "CANCELLED"}
        /\ UNCHANGED <<claims, results>>

\* Every write is one of them.
LEMMA WritesAreWritten ==
  ASSUME TypeInvariant, ClaimInvariant, NEW c \in calls, Writes(c)
  PROVE  \E to \in Statuses : Written(c, to)
  <1>1. {"PROCESSING", "COMPLETED", "FAILED", "CANCELLED", "PENDING"} \subseteq Statuses
    BY DEF Statuses
  <1>2. CASE ClaimWrites(c)
    <2>1. c.token \in Tokens
      BY <1>2 DEF ClaimWrites, TypeInvariant, TokensFollowRuns, UserOps
    <2>2. Written(c, "PROCESSING")
      BY <1>2, <2>1 DEF ClaimWrites, transitionForUser, CanTransition, Written
    <2>3. QED
      BY <1>1, <2>2
  <1>3. CASE RunWrites(c)
    <2>1. CASE c.op = "complete" /\ finalizeForUser(c.generation, c.token)
      <3>1. Claimant(c) \in claims
        BY <2>1 DEF ClaimInvariant, RunOps
      <3>2. Written(c, "COMPLETED")
        BY <1>3, <2>1, <3>1 DEF RunWrites, finalizeForUser, CanLeaveProcessing, Written, Claimant
      <3>3. QED
        BY <1>1, <3>2
    <2>2. CASE c.op # "complete"
      <3>1. Written(c, "FAILED") \/ Written(c, "CANCELLED")
        BY <1>3, <2>2 DEF RunWrites, fenceProcessingForUser, transitionForUser,
                          CanLeaveProcessing, CanTransition, Written
      <3>2. QED
        BY <1>1, <3>1
    <2>3. QED
      BY <1>3, <2>1, <2>2 DEF RunWrites
  <1>4. CASE UserWrites(c)
    <2>1. /\ allowedSourceStatuses("CANCELLED") \subseteq {"PENDING", "PROCESSING"}
          /\ allowedSourceStatuses("PENDING") \subseteq {"FAILED", "CANCELLED"}
      BY DEF allowedSourceStatuses, ALLOWED_TRANSITIONS, Statuses
    <2>2. Written(c, "CANCELLED") \/ Written(c, "PENDING")
      BY <1>4, <2>1 DEF UserWrites, transitionForUser, CanTransition, Written
    <2>3. QED
      BY <1>1, <2>2
  <1>5. QED
    BY <1>2, <1>3, <1>4 DEF Writes

\* The event a write appends.
Appended(to, new) ==
  /\ new \in EventRows
  /\ events' = events \cup {new}
  /\ new.status = to /\ new.sequence = review.eventSequence + 1
  /\ new.generation = review'.generation
  /\ review'.status = to
  /\ review'.eventSequence = review.eventSequence + 1
  /\ review'.deleted = review.deleted
  /\ review'.generation = IF to = "PROCESSING" THEN review.generation + 1 ELSE review.generation
  /\ \A e \in events : e.sequence \in Nat /\ e.sequence <= review.eventSequence

\* Every transition appends its event.
LEMMA AdvanceAppends ==
  ASSUME TypeInvariant, RepositoryInvariant, NEW to \in Statuses, Advance(to)
  PROVE  \E new : Appended(to, new)
  <1> DEFINE generation == IF to = "PROCESSING" THEN review.generation + 1 ELSE review.generation
             available == to = "COMPLETED"
  <1>1. review \in ReviewRows /\ events \subseteq EventRows
    BY DEF TypeInvariant, TypeOK, RepositoryTypeOK
  <1>2. generation \in Nat /\ review.eventSequence + 1 \in Nat /\ available \in BOOLEAN
    BY ReviewNumbers
  <1>3. PICK new : new = [ sequence |-> review.eventSequence + 1, generation |-> generation,
                           status |-> to, resultAvailable |-> available ]
    OBVIOUS
  <1>4. /\ review' = [review EXCEPT !.status = to, !.generation = generation,
                                    !.eventSequence = review.eventSequence + 1]
        /\ events' = events \cup {new}
    BY <1>3 DEF Advance
  <1> HIDE DEF generation, available
  <1>5. /\ review'.status = to /\ review'.generation = generation
        /\ review'.eventSequence = review.eventSequence + 1
        /\ review'.deleted = review.deleted
    BY <1>1, <1>4 DEF ReviewRows
  <1>6. /\ new \in EventRows /\ new.status = to /\ new.sequence = review.eventSequence + 1
        /\ new.generation = generation
    BY <1>2, <1>3 DEF EventRows
  <1>7. \A e \in events : e.sequence \in Nat /\ e.sequence <= review.eventSequence
    BY <1>1, ReviewNumbers DEF RepositoryInvariant, EventLogReplaysLifecycle, EventRows
  <1>8. generation = IF to = "PROCESSING" THEN review.generation + 1 ELSE review.generation
    BY DEF generation
  <1>9. QED
    BY <1>4, <1>5, <1>6, <1>7, <1>8 DEF Appended

\* Every generation has its begin, and only a review that is PROCESSING ends with one.
LEMMA BeginOf ==
  ASSUME TypeInvariant, RepositoryInvariant, AttemptInvariant, NEW g \in 1 .. review.generation
  PROVE  \E b \in events : /\ Begins(b, g) /\ \A e \in events : Begins(e, g) => e = b
                           /\ b.sequence \in 1 .. review.eventSequence
                           /\ b.sequence = review.eventSequence =>
                                review.status = "PROCESSING" /\ review.generation = g
  <1>1. PICK b \in events : Begins(b, g)
    BY DEF AttemptInvariant
  <1>2. \A e \in events : Begins(e, g) => e = b
    BY <1>1 DEF AttemptInvariant, Begins
  <1>3. b.sequence \in 1 .. review.eventSequence
    BY DEF RepositoryInvariant, EventLogReplaysLifecycle
  <1>4. b.sequence = review.eventSequence => review.status = "PROCESSING" /\ review.generation = g
    BY <1>1 DEF RepositoryInvariant, EventLogReplaysLifecycle, Begins
  <1>5. QED
    BY <1>1, <1>2, <1>3, <1>4

\* The last event of a review that is PROCESSING begins its generation.
LEMMA LastBegins ==
  ASSUME TypeInvariant, RepositoryInvariant, AttemptInvariant, review.status = "PROCESSING"
  PROVE  /\ review.generation \in 1 .. review.generation
         /\ \E b \in events : Begins(b, review.generation) /\ b.sequence = review.eventSequence
  <1>1. PICK b \in events : /\ b.sequence = review.eventSequence /\ b.status = "PROCESSING"
                            /\ b.generation = review.generation
    BY DEF RepositoryInvariant, EventLogReplaysLifecycle
  <1>2. QED
    BY <1>1 DEF AttemptInvariant, Begins

\* The verdict on the current generation follows the status of the review.
LEMMA CurrentVerdict ==
  ASSUME TypeInvariant, RepositoryInvariant, AttemptInvariant
  PROVE  LET n == review.generation
         IN  /\ review.status = "PROCESSING" => n # 0 /\ VerdictIn(events, n) = "PROCESSING"
             /\ review.status \notin {"PROCESSING", "COMPLETED"} /\ n # 0 =>
                  VerdictIn(events, n) \notin {"PROCESSING", "COMPLETED"}
  <1> DEFINE n == review.generation
  <1>1. n \in Nat /\ review.eventSequence \in Nat
    BY ReviewNumbers
  <1>2. /\ \A e, f \in events : e.sequence = f.sequence => e = f
        /\ {e.sequence : e \in events} = 1 .. review.eventSequence
    BY DEF RepositoryInvariant, EventLogReplaysLifecycle
  <1>3. CASE review.status = "PROCESSING"
    <2>1. n \in 1 .. n
      BY <1>3, LastBegins
    <2>2. PICK b \in events : Begins(b, n) /\ b.sequence = review.eventSequence
      BY <1>3, LastBegins
    <2>3. \A e \in events : Begins(e, n) => e = b
      BY <2>2 DEF AttemptInvariant, Begins
    <2>4. \A f \in events : f.sequence \in 1 .. review.eventSequence
      BY <1>2
    <2>5. \A f \in events : f.sequence # b.sequence + 1
      BY <1>1, <2>2, <2>4
    <2>6. VerdictIn(events, n) = "PROCESSING"
      BY <1>2, <2>2, <2>3, <2>5, VerdictRead
    <2>7. QED
      BY <1>1, <1>3, <2>1, <2>6
  <1>4. CASE review.status \notin {"PROCESSING", "COMPLETED"} /\ n # 0
    <2>1. n \in 1 .. n
      BY <1>1, <1>4
    <2>2. PICK b \in events : /\ Begins(b, n) /\ \A e \in events : Begins(e, n) => e = b
                              /\ b.sequence \in 1 .. review.eventSequence
                              /\ b.sequence # review.eventSequence
      BY <1>4, <2>1, BeginOf
    <2>3. b.sequence + 1 \in 1 .. review.eventSequence
      BY <1>1, <2>2
    <2>4. PICK f \in events : f.sequence = b.sequence + 1
      BY <1>2, <2>3
    <2>5. VerdictIn(events, n) = f.status
      BY <1>2, <2>2, <2>4, VerdictRead
    <2>6. f.status \in ALLOWED_TRANSITIONS["PROCESSING"]
      BY <2>2, <2>4 DEF RepositoryInvariant, EventLogReplaysLifecycle, Begins
    <2>7. f.status # "PROCESSING"
      BY <2>6 DEF ALLOWED_TRANSITIONS
    <2>8. f.status # "COMPLETED"
      BY <1>4 DEF AttemptInvariant
    <2>9. QED
      BY <1>4, <2>5, <2>7, <2>8
  <1>5. QED
    BY <1>3, <1>4

\* The first event begins nothing.
LEMMA InitEstablishesAttempts == Init => AttemptInvariant
  <1> SUFFICES ASSUME Init PROVE AttemptInvariant
    OBVIOUS
  <1>1. /\ review.generation = 0 /\ review.status = "PENDING"
        /\ \A e \in events : e.status = "PENDING"
    BY DEF Init, create
  <1>2. 1 .. 0 = {}
    OBVIOUS
  <1>3. QED
    BY <1>1, <1>2 DEF AttemptInvariant

\* Every step records its attempt.
LEMMA StepKeepsAttempts ==
  ASSUME ProcessingInvariant, AttemptInvariant, [Next]_vars
  PROVE  AttemptInvariant'
  <1>1. TypeInvariant /\ RepositoryInvariant /\ ClaimInvariant
    BY DEF ProcessingInvariant, DurableInvariant
  <1>2. CASE UNCHANGED <<repositoryVars, claims>>
    BY <1>2 DEF AttemptInvariant, repositoryVars
  <1>3. CASE softDeleteForUser /\ UNCHANGED claims
    <2>1. /\ review'.status = review.status /\ review'.generation = review.generation
          /\ review'.eventSequence = review.eventSequence
          /\ UNCHANGED <<events, claims>>
      BY <1>1, <1>3 DEF softDeleteForUser, TypeInvariant, TypeOK, RepositoryTypeOK, ReviewRows
    <2>2. QED
      BY <2>1 DEF AttemptInvariant
  <1>4. ASSUME NEW c \in calls, Writes(c) PROVE AttemptInvariant'
    <2>1. PICK to \in Statuses : Written(c, to)
      BY <1>1, <1>4, WritesAreWritten
    <2>2. PICK new : Appended(to, new)
      BY <1>1, <2>1, AdvanceAppends DEF Written
    <2>3. /\ review.generation \in Nat /\ review.eventSequence \in Nat
          /\ \A e \in events : e.generation \in Nat
      BY <1>1, ReviewNumbers DEF TypeInvariant, TypeOK, RepositoryTypeOK, EventRows
    <2>4. review.status # "COMPLETED"
      BY <2>1 DEF Written
    <2>5. /\ events' = events \cup {new} /\ new.status = to /\ review'.status = to
          /\ new.generation = review'.generation
          /\ review'.generation = IF to = "PROCESSING" THEN review.generation + 1
                                                       ELSE review.generation
          /\ review'.eventSequence = review.eventSequence + 1
      BY <2>2 DEF Appended
    <2>6. ASSUME NEW g \in 1 .. review'.generation
          PROVE  g \in 1 .. review.generation \/ (to = "PROCESSING" /\ g = review'.generation)
      BY <2>3, <2>5, <2>6
    <2>7. \A g \in 1 .. review'.generation : \E e \in events' : Begins(e, g)
      BY <2>5, <2>6 DEF AttemptInvariant, Begins
    <2>8. \A e \in events' : e.status = "PROCESSING" => e.generation \in 1 .. review'.generation
      <3>1. \A e \in events : e.status = "PROCESSING" => e.generation \in 1 .. review'.generation
        BY <2>3, <2>5 DEF AttemptInvariant
      <3>2. to = "PROCESSING" => review'.generation \in 1 .. review'.generation
        BY <2>3, <2>5
      <3>3. QED
        BY <2>5, <3>1, <3>2
    <2>9. \A e, f \in events' : e.status = "PROCESSING" /\ Begins(f, e.generation) => e = f
      <3>1. \A e \in events : e.status = "PROCESSING" /\ to = "PROCESSING" =>
                               e.generation # new.generation
        BY <2>3, <2>5 DEF AttemptInvariant
      <3>2. QED
        BY <2>5, <3>1 DEF AttemptInvariant, Begins
    <2>10. \A g \in 1 .. review'.generation : \E d \in claims' : d.generation = g
      <3>1. claims \subseteq claims'
        BY <2>1 DEF Written
      <3>2. to = "PROCESSING" => \E d \in claims' : d.generation = review'.generation
        <4>1. PICK x : x = [generation |-> review.generation + 1, answer |-> c.token]
          OBVIOUS
        <4>2. x.generation = review.generation + 1
          BY <4>1
        <4>3. to = "PROCESSING" => x \in claims'
          BY <2>1, <4>1 DEF Written
        <4>4. QED
          BY <2>5, <4>2, <4>3
      <3>3. QED
        BY <2>6, <3>1, <3>2 DEF AttemptInvariant
    <2>11. \A e \in events' : e.status = "COMPLETED" => review'.status = "COMPLETED"
      BY <2>4, <2>5 DEF AttemptInvariant
    <2>12. review'.status = "COMPLETED" =>
             \E e \in events' : Begins(e, review'.generation)
                               /\ e.sequence + 1 = review'.eventSequence
      <3>1. SUFFICES ASSUME to = "COMPLETED"
                     PROVE  \E e \in events : Begins(e, review.generation)
                                             /\ e.sequence = review.eventSequence
        BY <2>5
      <3>2. review.status = "PROCESSING"
        BY <2>1, <3>1 DEF Written
      <3>3. QED
        BY <1>1, <3>2, LastBegins
    <2>13. QED
      BY <2>7, <2>8, <2>9, <2>10, <2>11, <2>12 DEF AttemptInvariant
  <1>5. AnyMove
    BY <1>1, StepsAreMoves
  <1>6. \/ UNCHANGED <<repositoryVars, claims>>
        \/ softDeleteForUser /\ UNCHANGED claims
        \/ \E c \in calls : Writes(c)
    BY <1>5 DEF AnyMove, LocalMove, EndMove, StartMove, OutsideMove, DeliverMove, repositoryVars,
                softDeleteForUser
  <1>7. QED
    BY <1>2, <1>3, <1>4, <1>6

\* What a write makes of the attempts.
LEMMA WriteMakesAttempts ==
  ASSUME ProcessingInvariant, AttemptInvariant, NEW c, NEW to \in Statuses, Written(c, to),
         NEW new, Appended(to, new), NEW g \in 1 .. review.generation
  PROVE  /\ WorkerIn(claims', g) = WorkerIn(claims, g)
         /\ VerdictIn(events', g) = IF review.status = "PROCESSING" /\ g = review.generation
                                    THEN to ELSE VerdictIn(events, g)
  <1>1. TypeInvariant /\ RepositoryInvariant /\ ClaimInvariant
    BY DEF ProcessingInvariant, DurableInvariant
  <1>2. review.generation \in Nat /\ review.eventSequence \in Nat /\ g \in Nat
    BY <1>1, ReviewNumbers
  <1>3. WorkerIn(claims', g) = WorkerIn(claims, g)
    <2>1. PICK d \in claims : d.generation = g
      BY DEF AttemptInvariant
    <2>2. \A e \in claims : e.generation = d.generation => e = d
      BY <1>1 DEF ClaimInvariant
    <2>3. CASE claims' = claims
      BY <2>3
    <2>4. CASE claims' = claims \cup {[generation |-> review.generation + 1, answer |-> c.token]}
      <3>1. PICK x : x = [generation |-> review.generation + 1, answer |-> c.token]
        OBVIOUS
      <3>2. x.generation # d.generation
        BY <1>2, <2>1, <3>1
      <3>3. QED
        BY <2>1, <2>2, <2>4, <3>1, <3>2, WorkerStays
    <2>5. QED
      BY <2>3, <2>4 DEF Written
  <1>4. PICK b \in events : /\ Begins(b, g) /\ \A e \in events : Begins(e, g) => e = b
                            /\ b.sequence \in 1 .. review.eventSequence
                            /\ b.sequence = review.eventSequence =>
                                 review.status = "PROCESSING" /\ review.generation = g
    BY <1>1, BeginOf
  <1>5. \A e, f \in events : e.sequence = f.sequence => e = f
    BY <1>1 DEF RepositoryInvariant, EventLogReplaysLifecycle
  <1>6. /\ events' = events \cup {new} /\ new.sequence = review.eventSequence + 1
        /\ new.status = to
        /\ to = "PROCESSING" => new.generation = review.generation + 1
        /\ \A e \in events : e.sequence # new.sequence
    BY <1>2 DEF Appended
  <1>7. ~Begins(new, g)
    BY <1>2, <1>6 DEF Begins
  <1>8. CASE review.status = "PROCESSING" /\ g = review.generation
    <2>1. b.sequence = review.eventSequence
      BY <1>1, <1>4, <1>8, LastBegins
    <2>2. PICK longer : longer = events \cup {new}
      OBVIOUS
    <2>3. /\ b \in longer /\ new \in longer /\ \A e \in longer : Begins(e, g) => e = b
          /\ \A e, f \in longer : e.sequence = f.sequence => e = f
      BY <1>4, <1>5, <1>6, <1>7, <2>2
    <2>4. VerdictIn(longer, g) = to
      BY <1>4, <1>6, <2>1, <2>3, VerdictRead
    <2>5. QED
      BY <1>3, <1>6, <1>8, <2>2, <2>4
  <1>9. CASE ~(review.status = "PROCESSING" /\ g = review.generation)
    <2>1. new.sequence # b.sequence + 1
      BY <1>2, <1>4, <1>6, <1>9
    <2>2. VerdictIn(events \cup {new}, g) = VerdictIn(events, g)
      BY <1>4, <1>5, <1>6, <1>7, <2>1, VerdictStays
    <2>3. QED
      BY <1>3, <1>6, <1>9, <2>2
  <1>10. QED
    BY <1>8, <1>9

\* The invariant of the attempts holds throughout.
LEMMA AttemptsHold == Spec => [](ProcessingInvariant /\ AttemptInvariant)
  <1>1. Init => AttemptInvariant
    BY InitEstablishesAttempts
  <1>2. ProcessingInvariant /\ AttemptInvariant /\ [Next]_vars => AttemptInvariant'
    BY StepKeepsAttempts
  <1>3. QED
    BY <1>1, <1>2, ProcessingInvariantHolds, PTL DEF Spec

-------------------------------------------------------------------------------
(* The refinement. *)

\* The attempts before a step and after it.
AttemptsNow == AttemptsIn(review.generation, events, claims)

\* The mapping of ReviewProcessing is the reading of the log and the claims.
LEMMA MappingReads ==
  /\ Attempts!attemptVars = <<AttemptsNow, review.status = "PENDING", Persisted, review.deleted>>
  /\ Attempts!attemptVars' = <<AttemptsNow', review'.status = "PENDING", Persisted', review'.deleted>>
  BY DEF Attempts!attemptVars, AttemptsNow, AttemptsIn, WorkerOf, WorkerIn, VerdictOf, VerdictIn

\* The actions of ReviewAttempts, in terms of that reading.
LEMMA ActionsRead ==
  /\ \A w : Attempts!Begin(w) <=>
       /\ review.status = "PENDING" /\ ~review.deleted
       /\ AttemptsNow' = Append(AttemptsNow, [worker |-> w, verdict |-> "PROCESSING"])
       /\ (review.status = "PENDING")' = FALSE
       /\ Persisted' = Persisted /\ review'.deleted = review.deleted
  /\ \A v : Attempts!End(v) <=>
       /\ AttemptsNow # <<>> /\ AttemptsNow[Len(AttemptsNow)].verdict = "PROCESSING"
       /\ ~review.deleted
       /\ AttemptsNow' = [AttemptsNow EXCEPT ![Len(AttemptsNow)].verdict = v]
       /\ Persisted' = IF v = "COMPLETED"
                       THEN Persisted \cup {AttemptsNow[Len(AttemptsNow)].worker} ELSE Persisted
       /\ (review'.status = "PENDING") = (review.status = "PENDING")
       /\ review'.deleted = review.deleted
  /\ Attempts!Withdraw <=>
       /\ review.status = "PENDING" /\ ~review.deleted
       /\ (review.status = "PENDING")' = FALSE
       /\ AttemptsNow' = AttemptsNow /\ Persisted' = Persisted /\ review'.deleted = review.deleted
  /\ Attempts!Requeue <=>
       /\ review.status # "PENDING" /\ ~review.deleted
       /\ AttemptsNow # <<>> =>
            AttemptsNow[Len(AttemptsNow)].verdict \notin {"PROCESSING", "COMPLETED"}
       /\ (review.status = "PENDING")' = TRUE
       /\ AttemptsNow' = AttemptsNow /\ Persisted' = Persisted /\ review'.deleted = review.deleted
  /\ Attempts!Delete <=>
       /\ ~review.deleted /\ review'.deleted = TRUE
       /\ AttemptsNow' = AttemptsNow /\ Persisted' = Persisted
       /\ (review'.status = "PENDING") = (review.status = "PENDING")
  BY DEF Attempts!Begin, Attempts!End, Attempts!Withdraw, Attempts!Requeue, Attempts!Delete,
         Attempts!LastVerdict, AttemptsNow, AttemptsIn, WorkerOf, WorkerIn, VerdictOf, VerdictIn

\* The attempts are a sequence, one attempt for each generation.
LEMMA AttemptsAreListed ==
  ASSUME NEW n \in Nat, NEW log, NEW cs, NEW as, as = AttemptsIn(n, log, cs)
  PROVE  /\ Len(as) = n /\ DOMAIN as = 1 .. n
         /\ n = 0 <=> as = <<>>
         /\ \A g \in 1 .. n : as[g] = [worker |-> WorkerIn(cs, g), verdict |-> VerdictIn(log, g)]
         /\ \A a : Append(as, a) = [g \in 1 .. n + 1 |-> IF g = n + 1 THEN a ELSE as[g]]
  BY DEF AttemptsIn

\* A write is a step of its attempt.
LEMMA WriteIsAttemptStep ==
  ASSUME ProcessingInvariant, AttemptInvariant, NEW c, NEW to \in Statuses, Written(c, to)
  PROVE  Attempts!AttemptsNext
  <1> DEFINE n == review.generation
  <1>1. TypeInvariant /\ RepositoryInvariant /\ ClaimInvariant
    BY DEF ProcessingInvariant, DurableInvariant
  <1>2. PICK new : Appended(to, new)
    BY <1>1, AdvanceAppends DEF Written
  <1>3. n \in Nat /\ review'.generation \in Nat
    BY <1>1, <1>2, ReviewNumbers DEF Appended
  <1>4. PICK as : as = AttemptsNow /\ as = AttemptsIn(n, events, claims)
    BY DEF AttemptsNow
  <1>5. PICK bs : bs = AttemptsNow' /\ bs = AttemptsIn(review'.generation, events', claims')
    BY DEF AttemptsNow
  <1>6. /\ Len(as) = n /\ DOMAIN as = 1 .. n /\ (n = 0 <=> as = <<>>)
        /\ \A g \in 1 .. n : as[g] = [worker |-> WorkerIn(claims, g), verdict |-> VerdictIn(events, g)]
        /\ \A a : Append(as, a) = [g \in 1 .. n + 1 |-> IF g = n + 1 THEN a ELSE as[g]]
    BY <1>3, <1>4, AttemptsAreListed
  <1>7. bs = [g \in 1 .. review'.generation |->
                [worker |-> WorkerIn(claims', g), verdict |-> VerdictIn(events', g)]]
    BY <1>5 DEF AttemptsIn
  <1>8. \A g \in 1 .. n :
          /\ WorkerIn(claims', g) = WorkerIn(claims, g)
          /\ VerdictIn(events', g) = IF review.status = "PROCESSING" /\ g = n
                                     THEN to ELSE VerdictIn(events, g)
    BY <1>2, WriteMakesAttempts
  <1>9. /\ ~review.deleted /\ review'.deleted = review.deleted /\ review'.status = to
        /\ review'.generation = IF to = "PROCESSING" THEN n + 1 ELSE n
        /\ events' = events \cup {new} /\ new.status = to
        /\ new.sequence = review.eventSequence + 1 /\ new.generation = review'.generation
    BY <1>2 DEF Appended, Written
  <1>10. CASE to = "PROCESSING"
    <2>1. /\ review.status = "PENDING" /\ c.token \in Tokens /\ UNCHANGED results
          /\ claims' = claims \cup {[generation |-> n + 1, answer |-> c.token]}
      BY <1>10 DEF Written
    <2>2. WorkerIn(claims', n + 1) = c.token
      <3>1. PICK x : x = [generation |-> n + 1, answer |-> c.token]
        OBVIOUS
      <3>2. x.generation = n + 1 /\ x.answer = c.token /\ x \in claims'
        BY <2>1, <3>1
      <3>3. \A d \in claims : d.generation # n + 1
        BY <1>1, <1>3 DEF ClaimInvariant
      <3>4. \A d \in claims' : d.generation = x.generation => d = x
        BY <2>1, <3>1, <3>2, <3>3
      <3>5. PICK cs : cs = claims'
        OBVIOUS
      <3>6. WorkerIn(cs, x.generation) = x.answer
        BY <3>2, <3>4, <3>5, WorkerRead
      <3>7. QED
        BY <3>2, <3>5, <3>6
    <2>3. VerdictIn(events', n + 1) = "PROCESSING"
      <3>1. PICK log : log = events' /\ new \in log /\ Begins(new, n + 1)
        BY <1>9, <1>10 DEF Begins
      <3>2. \A e \in log : Begins(e, n + 1) => e = new
        BY <1>3, <1>9, <3>1 DEF AttemptInvariant, Begins
      <3>3. \A e \in events : e.sequence \in Nat /\ e.sequence <= review.eventSequence
        BY <1>2 DEF Appended
      <3>4. /\ \A e, f \in log : e.sequence = f.sequence => e = f
            /\ \A f \in log : f.sequence # new.sequence + 1
        <4>1. review.eventSequence \in Nat
          BY <1>1, ReviewNumbers
        <4>2. \A e, f \in events : e.sequence = f.sequence => e = f
          BY <1>1 DEF RepositoryInvariant, EventLogReplaysLifecycle
        <4>3. QED
          BY <1>9, <3>1, <3>3, <4>1, <4>2
      <3>5. VerdictIn(log, n + 1) = "PROCESSING"
        BY <3>1, <3>2, <3>4, VerdictRead
      <3>6. QED
        BY <3>1, <3>5
    <2>4. bs = Append(as, [worker |-> c.token, verdict |-> "PROCESSING"])
      <3>1. PICK a : a = [worker |-> c.token, verdict |-> "PROCESSING"]
        OBVIOUS
      <3>2. /\ bs = [g \in 1 .. n + 1 |-> bs[g]]
            /\ \A g \in 1 .. n + 1 :
                 bs[g] = [worker |-> WorkerIn(claims', g), verdict |-> VerdictIn(events', g)]
        BY <1>7, <1>9, <1>10
      <3>3. ASSUME NEW g \in 1 .. n + 1
            PROVE  bs[g] = IF g = n + 1 THEN a ELSE as[g]
        <4>1. CASE g = n + 1
          BY <2>2, <2>3, <3>1, <3>2, <4>1
        <4>2. CASE g # n + 1
          <5>1. g \in 1 .. n
            BY <1>3, <4>2
          <5>2. QED
            <6>1. as[g] = [worker |-> WorkerIn(claims, g), verdict |-> VerdictIn(events, g)]
              BY <1>6, <5>1
            <6>2. bs[g] = [worker |-> WorkerIn(claims', g), verdict |-> VerdictIn(events', g)]
              BY <3>2
            <6>3. /\ WorkerIn(claims', g) = WorkerIn(claims, g)
                  /\ VerdictIn(events', g) = VerdictIn(events, g)
              BY <1>8, <2>1, <5>1
            <6>4. bs[g] = as[g]
              BY <6>1, <6>2, <6>3
            <6>5. QED
              BY <4>2, <6>4
        <4>3. QED
          BY <4>1, <4>2
      <3>4. bs = [g \in 1 .. n + 1 |-> IF g = n + 1 THEN a ELSE as[g]]
        BY <3>2, <3>3
      <3>5. QED
        BY <1>6, <3>1, <3>4
    <2>5. (review.status = "PENDING")' = FALSE /\ Persisted' = Persisted
      BY <1>9, <1>10, <2>1 DEF Persisted
    <2>6. Attempts!Begin(c.token)
      BY <1>4, <1>5, <1>9, <2>1, <2>4, <2>5, ActionsRead
    <2>7. QED
      BY <2>1, <2>6 DEF Attempts!AttemptsNext
  <1>11. CASE review.status = "PROCESSING" /\ to # "PROCESSING"
    <2>1. n \in 1 .. n /\ VerdictIn(events, n) = "PROCESSING"
      BY <1>1, <1>11, CurrentVerdict, LastBegins
    <2>2. /\ as # <<>> /\ as[Len(as)].verdict = "PROCESSING"
          /\ as[Len(as)].worker = WorkerIn(claims, n)
      <3>1. n # 0 /\ Len(as) = n
        BY <1>3, <1>6, <2>1
      <3>2. as[n] = [worker |-> WorkerIn(claims, n), verdict |-> VerdictIn(events, n)]
        BY <1>6, <2>1
      <3>3. as[n].verdict = "PROCESSING" /\ as[n].worker = WorkerIn(claims, n)
        BY <2>1, <3>2
      <3>4. as # <<>>
        BY <1>6, <3>1
      <3>5. QED
        BY <3>1, <3>3, <3>4
    <2>3. bs = [as EXCEPT ![Len(as)].verdict = to]
      <3>1. \A g \in 1 .. n : bs[g] = IF g = n THEN [as[g] EXCEPT !.verdict = to] ELSE as[g]
        <4>1. SUFFICES ASSUME NEW g \in 1 .. n
                       PROVE  bs[g] = IF g = n THEN [as[g] EXCEPT !.verdict = to] ELSE as[g]
          OBVIOUS
        <4>2. bs[g] = [worker |-> WorkerIn(claims', g), verdict |-> VerdictIn(events', g)]
          BY <1>7, <1>9, <1>11
        <4>3. as[g] = [worker |-> WorkerIn(claims, g), verdict |-> VerdictIn(events, g)]
          BY <1>6
        <4>4. [as[g] EXCEPT !.verdict = to] = [worker |-> WorkerIn(claims, g), verdict |-> to]
          BY <4>3
        <4>5. /\ WorkerIn(claims', g) = WorkerIn(claims, g)
              /\ VerdictIn(events', g) = IF g = n THEN to ELSE VerdictIn(events, g)
          BY <1>8, <1>11
        <4>6. QED
          BY <4>2, <4>3, <4>4, <4>5
      <3>2. bs = [g \in 1 .. n |-> bs[g]]
        BY <1>7, <1>9, <1>11
      <3>3. [as EXCEPT ![n].verdict = to]
              = [g \in 1 .. n |-> IF g = n THEN [as[g] EXCEPT !.verdict = to] ELSE as[g]]
        BY <1>6, <2>1
      <3>4. bs = [g \in 1 .. n |-> IF g = n THEN [as[g] EXCEPT !.verdict = to] ELSE as[g]]
        BY <3>1, <3>2, Zenon
      <3>5. Len(as) = n
        BY <1>6
      <3>6. QED
        BY <3>3, <3>4, <3>5, Zenon
    <2>4. Persisted' = IF to = "COMPLETED" THEN Persisted \cup {as[Len(as)].worker} ELSE Persisted
      <3>1. CASE to = "COMPLETED"
        <4>1. /\ Claimant(c) \in claims /\ Claimant(c).generation = n
              /\ results' = results \cup {Claimant(c)}
          BY <1>11, <3>1 DEF Written, Claimant
        <4>2. PICK x \in claims : x = Claimant(c) /\ x.generation = n
          BY <4>1
        <4>3. WorkerIn(claims, x.generation) = x.answer
          BY <1>1, WorkerRead DEF ClaimInvariant
        <4>4. Persisted' = Persisted \cup {x.answer}
          BY <4>1, <4>2 DEF Persisted
        <4>5. QED
          BY <2>2, <3>1, <4>2, <4>3, <4>4
      <3>2. CASE to # "COMPLETED"
        BY <1>11, <3>2 DEF Written, Persisted
      <3>3. QED
        BY <3>1, <3>2
    <2>5. to # "PENDING" /\ to \in {"COMPLETED", "FAILED", "CANCELLED"}
      BY <1>11 DEF Written
    <2>6. Attempts!End(to)
      BY <1>4, <1>5, <1>9, <1>11, <2>2, <2>3, <2>4, <2>5, ActionsRead
    <2>7. QED
      BY <2>5, <2>6 DEF Attempts!AttemptsNext, Attempts!Verdicts
  <1>12. CASE review.status # "PROCESSING" /\ to # "PROCESSING"
    <2>1. bs = as
      BY <1>4, <1>7, <1>8, <1>9, <1>12 DEF AttemptsIn
    <2>2. \/ to = "CANCELLED" /\ review.status = "PENDING"
          \/ to = "PENDING" /\ review.status \in {"FAILED", "CANCELLED"}
      BY <1>12 DEF Written
    <2>3. Persisted' = Persisted
      BY <1>12, <2>2 DEF Written, Persisted
    <2>4. CASE to = "CANCELLED" /\ review.status = "PENDING"
      <3>1. Attempts!Withdraw
        BY <1>4, <1>5, <1>9, <2>1, <2>3, <2>4, ActionsRead
      <3>2. QED
        BY <3>1 DEF Attempts!AttemptsNext
    <2>5. CASE to = "PENDING" /\ review.status \in {"FAILED", "CANCELLED"}
      <3>1. as # <<>> => as[Len(as)].verdict \notin {"PROCESSING", "COMPLETED"}
        <4>1. n # 0 => VerdictIn(events, n) \notin {"PROCESSING", "COMPLETED"}
          BY <1>1, <2>5, CurrentVerdict
        <4>2. n # 0 => n \in 1 .. n
          BY <1>3
        <4>3. QED
          <5>1. SUFFICES ASSUME n # 0 PROVE as[n].verdict \notin {"PROCESSING", "COMPLETED"}
            BY <1>6
          <5>2. as[n] = [worker |-> WorkerIn(claims, n), verdict |-> VerdictIn(events, n)]
            BY <1>6, <4>2, <5>1
          <5>3. QED
            BY <4>1, <5>1, <5>2
      <3>2. Attempts!Requeue
        BY <1>4, <1>5, <1>9, <2>1, <2>3, <2>5, <3>1, ActionsRead
      <3>3. QED
        BY <3>2 DEF Attempts!AttemptsNext
    <2>6. QED
      BY <2>2, <2>4, <2>5
  <1>13. QED
    BY <1>10, <1>11, <1>12

\* Every step is a step of the attempts or none.
LEMMA StepIsAttemptStep ==
  ASSUME ProcessingInvariant, AttemptInvariant, [Next]_vars
  PROVE  [Attempts!AttemptsNext]_(Attempts!attemptVars)
  <1>1. TypeInvariant /\ RepositoryInvariant /\ ClaimInvariant /\ AnyMove
    BY StepsAreMoves DEF ProcessingInvariant, DurableInvariant
  <1>2. CASE UNCHANGED <<repositoryVars, claims>>
    <2>1. /\ AttemptsNow' = AttemptsNow /\ Persisted' = Persisted
          /\ review'.deleted = review.deleted /\ review'.status = review.status
      BY <1>2 DEF repositoryVars, AttemptsNow, Persisted
    <2>2. UNCHANGED Attempts!attemptVars
      BY <2>1, MappingReads
    <2>3. QED
      BY <2>2
  <1>3. CASE softDeleteForUser /\ UNCHANGED claims
    <2>1. /\ ~review.deleted /\ review'.deleted = TRUE /\ review'.status = review.status
          /\ review'.generation = review.generation /\ UNCHANGED <<events, claims, results>>
      BY <1>1, <1>3 DEF softDeleteForUser, TypeInvariant, TypeOK, RepositoryTypeOK, ReviewRows
    <2>2. AttemptsNow' = AttemptsNow /\ Persisted' = Persisted
      BY <2>1 DEF AttemptsNow, Persisted
    <2>3. Attempts!Delete
      BY <2>1, <2>2, ActionsRead
    <2>4. QED
      BY <2>3 DEF Attempts!AttemptsNext
  <1>4. ASSUME NEW c \in calls, Writes(c) PROVE Attempts!AttemptsNext
    BY <1>1, <1>4, WritesAreWritten, WriteIsAttemptStep
  <1>5. \/ UNCHANGED <<repositoryVars, claims>>
        \/ softDeleteForUser /\ UNCHANGED claims
        \/ \E c \in calls : Writes(c)
    BY <1>1 DEF AnyMove, LocalMove, EndMove, StartMove, OutsideMove, DeliverMove, repositoryVars,
                softDeleteForUser
  <1>6. QED
    BY <1>2, <1>3, <1>4, <1>5

\* A new review has no attempts and waits for the first.
LEMMA InitIsAttemptsInit == Init => Attempts!AttemptsInit
  <1> SUFFICES ASSUME Init PROVE Attempts!AttemptsInit
    OBVIOUS
  <1>1. /\ review.generation = 0 /\ review.status = "PENDING" /\ ~review.deleted /\ results = {}
    BY DEF Init, create
  <1>2. AttemptsNow = <<>>
    BY <1>1, AttemptsAreListed DEF AttemptsNow
  <1>3. QED
    BY <1>1, <1>2
    DEF Attempts!AttemptsInit, Persisted, AttemptsNow, AttemptsIn, WorkerOf, WorkerIn, VerdictOf,
        VerdictIn

\* Whatever leases, crashes and late calls do, the durable review goes through its
\* attempts as ReviewAttempts describes them.
THEOREM AttemptsAreImplemented == Spec => ImplementsAttempts
  <1>1. Init => Attempts!AttemptsInit
    BY InitIsAttemptsInit
  <1>2. ProcessingInvariant /\ AttemptInvariant /\ [Next]_vars
          => [Attempts!AttemptsNext]_(Attempts!attemptVars)
    BY StepIsAttemptStep
  <1>3. QED
    BY <1>1, <1>2, AttemptsHold, PTL DEF Spec, ImplementsAttempts, Attempts!AttemptsSpec
===============================================================================
