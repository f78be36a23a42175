--------------------------- MODULE ReviewRepository ---------------------------
(***************************************************************************)
(* The durable record of one review, as PrismaReviewRepository keeps it:   *)
(* the row of table reviews, its rows of review_events and its row of      *)
(* review_results.  Every write is one database transaction built around a *)
(* conditional UPDATE, hence one atomic action here.  The operators Can... *)
(* are the WHERE clauses; a call whose clause matches no row changes       *)
(* nothing and answers null.                                               *)
(*                                                                         *)
(* One review is enough: every statement names a single review id and no   *)
(* invariant relates two reviews.  Owner checks (userId) are always true   *)
(* for the owner and are left out.                                         *)
(***************************************************************************)
EXTENDS Naturals

CONSTANTS MaxGeneration,     \* REVIEW_MAX_PROCESSING_GENERATION
          MaxEventSequence,  \* REVIEW_MAX_EVENT_SEQUENCE
          Answers            \* the AI executions that may be persisted

\* The limits are counters of the schema: the first event already has sequence 1.
ASSUME LimitsAssumption == /\ MaxGeneration \in Nat
                           /\ MaxEventSequence \in Nat \ {0}

VARIABLES review,   \* the row of reviews
          events,   \* the rows of review_events
          results   \* the rows of review_results

repositoryVars == <<review, events, results>>

Statuses == {"PENDING", "PROCESSING", "COMPLETED", "FAILED", "CANCELLED"}

ALLOWED_TRANSITIONS ==
  [ PENDING    |-> {"PROCESSING", "CANCELLED"},
    PROCESSING |-> {"COMPLETED", "FAILED", "CANCELLED"},
    COMPLETED  |-> {},
    FAILED     |-> {"PENDING"},
    CANCELLED  |-> {"PENDING"} ]

\* Faulty variant: any status but the target may be left, COMPLETED too.
anyOtherStatus(to) == Statuses \ {to}

allowedSourceStatuses(to) == {s \in Statuses : to \in ALLOWED_TRANSITIONS[s]}

\* A call that does not pin expectedProcessingGeneration accepts every one.
AnyGeneration == Nat

-------------------------------------------------------------------------------

\* create: the row and its SNAPSHOT event, in one transaction.
create ==
  /\ review = [ status |-> "PENDING", generation |-> 0,
                eventSequence |-> 1, deleted |-> FALSE ]
  /\ events = {[ sequence |-> 1, generation |-> 0,
                 status |-> "PENDING", resultAvailable |-> FALSE ]}
  /\ results = {}

\* The part every transition shares: the new status, the next event sequence
\* and the event row with the values just written.  A claim counts the generation.
Advance(to) ==
  LET next == review.eventSequence + 1
      generation == IF to = "PROCESSING" THEN review.generation + 1
                                         ELSE review.generation
  IN  /\ review' = [review EXCEPT !.status = to,
                                  !.generation = generation,
                                  !.eventSequence = next]
      /\ events' = events \cup
           {[ sequence |-> next, generation |-> generation,
              status |-> to, resultAvailable |-> (to = "COMPLETED") ]}

\* Faulty variant: the pinned generation is not compared.
CanTransitionAnyGeneration(from, to, generations) ==
  /\ to # "COMPLETED"
  /\ ~review.deleted
  /\ review.status \in from
  /\ to = "PROCESSING" => review.generation < MaxGeneration
  /\ review.eventSequence < MaxEventSequence

CanTransition(from, to, generations) ==
  /\ to # "COMPLETED"
  /\ ~review.deleted
  /\ review.status \in from
  /\ review.generation \in generations
  /\ to = "PROCESSING" => review.generation < MaxGeneration
  /\ review.eventSequence < MaxEventSequence

transitionForUser(from, to, generations) ==
  /\ CanTransition(from, to, generations)
  /\ Advance(to)
  /\ UNCHANGED results

\* Faulty variant: the claimed generation is not compared.
CanLeaveAnyGeneration(generation) ==
  /\ ~review.deleted
  /\ review.status = "PROCESSING"
  /\ review.eventSequence < MaxEventSequence

\* Faulty variant: deletedAt is not compared.
CanLeaveWhenDeleted(generation) ==
  /\ review.status = "PROCESSING"
  /\ review.generation = generation
  /\ review.eventSequence < MaxEventSequence

\* The WHERE clause of finalizeForUser and of fenceProcessingForUser.
CanLeaveProcessing(generation) ==
  /\ ~review.deleted
  /\ review.status = "PROCESSING"
  /\ review.generation = generation
  /\ review.eventSequence < MaxEventSequence

\* review_results.review_id is unique: a second row would abort the transaction.
\* The row does not record its generation; it is kept here for the properties.
finalizeForUser(generation, answer) ==
  /\ CanLeaveProcessing(generation)
  /\ results = {}
  /\ Advance("COMPLETED")
  /\ results' = results \cup {[generation |-> review.generation, answer |-> answer]}

\* Faulty variant: the fence forgets its event row.
fenceWithoutEvent(generation) ==
  /\ CanLeaveProcessing(generation)
  /\ review' = [review EXCEPT !.status = "CANCELLED", !.eventSequence = @ + 1]
  /\ UNCHANGED <<events, results>>

fenceProcessingForUser(generation) ==
  /\ CanLeaveProcessing(generation)
  /\ Advance("CANCELLED")
  /\ UNCHANGED results

softDeleteForUser ==
  /\ ~review.deleted
  /\ review' = [review EXCEPT !.deleted = TRUE]
  /\ UNCHANGED <<events, results>>

-------------------------------------------------------------------------------

ReviewRows == [ status : Statuses, generation : Nat,
                eventSequence : Nat, deleted : BOOLEAN ]
EventRows == [ sequence : Nat, generation : Nat,
               status : Statuses, resultAvailable : BOOLEAN ]
ResultRows == [ generation : Nat, answer : Answers ]

\* Type invariant of the three tables.
RepositoryTypeOK == /\ review \in ReviewRows
                    /\ events \subseteq EventRows
                    /\ results \subseteq ResultRows

\* The event log is a complete and legal history of the row: the sequences are
\* exactly 1..eventSequence with one row each, the last event is the row's own
\* state, and each event follows from the one before it by a transition of
\* review.policy.ts that advances the generation exactly when it claims.
\* (PrismaReviewRepository: every write path has to bump eventSequence and
\* insert the matching event in the same transaction.)
EventLogReplaysLifecycle ==
  /\ {e.sequence : e \in events} = 1 .. review.eventSequence
  /\ \A e, f \in events : e.sequence = f.sequence => e = f
  /\ \E e \in events : /\ e.sequence = review.eventSequence
                       /\ e.status = review.status
                       /\ e.generation = review.generation
  /\ \A e, f \in events :
       f.sequence = e.sequence + 1 =>
         /\ f.status \in ALLOWED_TRANSITIONS[e.status]
         /\ f.generation = IF f.status = "PROCESSING" THEN e.generation + 1
                                                      ELSE e.generation

\* A result row exists exactly when the review is COMPLETED, it is the only
\* one, and it was written under the generation the review still has.  The
\* unique constraint on review_id therefore never aborts a finalization.
ResultIffCompleted ==
  /\ review.status = "COMPLETED" <=> results # {}
  /\ \A r, s \in results : r = s
  /\ \A r \in results : r.generation = review.generation
===============================================================================
