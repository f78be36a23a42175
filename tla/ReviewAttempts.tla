---------------------------- MODULE ReviewAttempts ----------------------------
(***************************************************************************)
(* What the review component promises, without saying how.  A review is    *)
(* worked on in numbered attempts.  One attempt runs at a time, a new one  *)
(* begins only from the queue, an attempt ends once and for good, and the  *)
(* answer that is published is the answer of the worker whose attempt      *)
(* completed.  Nothing happens to a deleted review.                        *)
(*                                                                         *)
(* There is no lease, no keepalive, no generation and no database call     *)
(* here.  ReviewProcessing implements this module.                         *)
(***************************************************************************)
EXTENDS Naturals, Sequences

CONSTANTS Workers

VARIABLES attempts,   \* the attempts so far, each with its worker and verdict
          queued,     \* the review waits for its next attempt
          published,  \* the workers whose answer is readable
          deleted

attemptVars == <<attempts, queued, published, deleted>>

Verdicts == {"PROCESSING", "COMPLETED", "FAILED", "CANCELLED"}

LastVerdict == IF attempts = <<>> THEN "none" ELSE attempts[Len(attempts)].verdict

AttemptsInit == /\ attempts = <<>>
                /\ queued = TRUE
                /\ published = {}
                /\ deleted = FALSE

Begin(w) == /\ queued /\ ~deleted
            /\ attempts' = Append(attempts, [worker |-> w, verdict |-> "PROCESSING"])
            /\ queued' = FALSE
            /\ UNCHANGED <<published, deleted>>

\* A running attempt gets its verdict; completing publishes its worker's answer.
End(verdict) ==
  /\ LastVerdict = "PROCESSING" /\ ~deleted
  /\ attempts' = [attempts EXCEPT ![Len(attempts)].verdict = verdict]
  /\ published' = IF verdict = "COMPLETED"
                  THEN published \cup {attempts[Len(attempts)].worker} ELSE published
  /\ UNCHANGED <<queued, deleted>>

Withdraw == /\ queued /\ ~deleted
            /\ queued' = FALSE
            /\ UNCHANGED <<attempts, published, deleted>>

Requeue == /\ ~queued /\ ~deleted
           /\ LastVerdict \notin {"PROCESSING", "COMPLETED"}
           /\ queued' = TRUE
           /\ UNCHANGED <<attempts, published, deleted>>

Delete == /\ ~deleted
          /\ deleted' = TRUE
          /\ UNCHANGED <<attempts, queued, published>>

AttemptsNext == \/ \E w \in Workers : Begin(w)
                \/ \E v \in Verdicts \ {"PROCESSING"} : End(v)
                \/ Withdraw \/ Requeue \/ Delete

AttemptsSpec == AttemptsInit /\ [][AttemptsNext]_attemptVars
===============================================================================
