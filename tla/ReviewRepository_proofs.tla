------------------------ MODULE ReviewRepository_proofs ------------------------
(* What the transactions of the repository preserve, whoever calls them. *)
EXTENDS ReviewRepository, TLAPS

\* Every call the services make: transitions along review.policy.ts, the
\* finalization, the fence and the deletion.
RepositoryStep ==
  \/ \E to \in Statuses :
       \E from \in SUBSET allowedSourceStatuses(to), generations \in SUBSET Nat :
         transitionForUser(from, to, generations)
  \/ \E generation \in Nat, answer \in Answers : finalizeForUser(generation, answer)
  \/ \E generation \in Nat : fenceProcessingForUser(generation)
  \/ softDeleteForUser

RepositoryInvariant == /\ RepositoryTypeOK
                       /\ EventLogReplaysLifecycle
                       /\ ResultIffCompleted

\* A source status allowed for a target reaches that target in the table.
LEMMA AllowedSources ==
  ASSUME NEW to \in Statuses, NEW s \in allowedSourceStatuses(to)
  PROVE  s \in Statuses /\ to \in ALLOWED_TRANSITIONS[s]
  BY DEF allowedSourceStatuses

\* A new review satisfies the invariant.
LEMMA CreateEstablishesRepositoryInvariant == create => RepositoryInvariant
  <1> SUFFICES ASSUME create PROVE RepositoryInvariant
    OBVIOUS
  <1>1. RepositoryTypeOK
    BY DEF create, RepositoryTypeOK, ReviewRows, EventRows, ResultRows, Statuses
  <1>2. EventLogReplaysLifecycle
    BY DEF create, EventLogReplaysLifecycle
  <1>3. ResultIffCompleted
    BY DEF create, ResultIffCompleted
  <1>4. QED
    BY <1>1, <1>2, <1>3 DEF RepositoryInvariant

\* Advance keeps the types.
LEMMA AdvanceKeepsRows ==
  ASSUME RepositoryTypeOK, NEW to \in Statuses, Advance(to)
  PROVE  review' \in ReviewRows /\ events' \subseteq EventRows
  <1> DEFINE next == review.eventSequence + 1
             generation == IF to = "PROCESSING" THEN review.generation + 1
                                                ELSE review.generation
             available == to = "COMPLETED"
             event == [ sequence |-> next, generation |-> generation,
                        status |-> to, resultAvailable |-> available ]
  <1>1. next \in Nat /\ generation \in Nat
    BY DEF RepositoryTypeOK, ReviewRows
  <1>2. available \in BOOLEAN
    OBVIOUS
  <1>3. /\ review' = [review EXCEPT !.status = to, !.generation = generation,
                                    !.eventSequence = next]
        /\ events' = events \cup {event}
    BY DEF Advance
  <1> HIDE DEF next, generation, available
  <1>4. review' \in ReviewRows
    BY <1>1, <1>3 DEF RepositoryTypeOK, ReviewRows
  <1>5. event \in EventRows
    BY <1>1, <1>2 DEF EventRows
  <1>6. QED
    BY <1>3, <1>4, <1>5 DEF RepositoryTypeOK

\* An allowed transition, made with Advance, extends the log by a legal event.
LEMMA AdvanceExtendsTheLog ==
  ASSUME RepositoryTypeOK, EventLogReplaysLifecycle,
         NEW to \in ALLOWED_TRANSITIONS[review.status], Advance(to)
  PROVE  EventLogReplaysLifecycle'
  <1> DEFINE next == review.eventSequence + 1
             generation == IF to = "PROCESSING" THEN review.generation + 1
                                                ELSE review.generation
             event == [ sequence |-> next, generation |-> generation,
                        status |-> to, resultAvailable |-> (to = "COMPLETED") ]
  <1>1. /\ review.eventSequence \in Nat /\ review.generation \in Nat
        /\ \A e \in events : e.sequence \in Nat /\ e.generation \in Nat
    BY DEF RepositoryTypeOK, ReviewRows, EventRows
  <1>2. /\ review'.eventSequence = next
        /\ review'.generation = generation
        /\ review'.status = to
        /\ events' = events \cup {event}
    BY DEF RepositoryTypeOK, ReviewRows, Advance
  <1>3. \A e \in events : e.sequence \in 1 .. review.eventSequence
    BY DEF EventLogReplaysLifecycle
  <1>4. \A e \in events : e.sequence < next
    BY <1>1, <1>3
  <1>5. {e.sequence : e \in events'} = 1 .. review'.eventSequence
    <2>1. {e.sequence : e \in events'} = {e.sequence : e \in events} \cup {next}
      <3>1. event.sequence = next
        OBVIOUS
      <3> HIDE DEF event, next
      <3>2. QED
        BY <3>1, <1>2
    <2>2. {e.sequence : e \in events} = 1 .. review.eventSequence
      BY DEF EventLogReplaysLifecycle
    <2>3. (1 .. review.eventSequence) \cup {next} = 1 .. next
      BY <1>1
    <2>4. QED
      BY <1>2, <2>1, <2>2, <2>3
  <1>6. \A e, f \in events' : e.sequence = f.sequence => e = f
    <2>1. event.sequence = next
      OBVIOUS
    <2>2. ASSUME NEW e \in events', NEW f \in events', e.sequence = f.sequence
          PROVE  e = f
      <3> HIDE DEF event
      <3>1. CASE e \in events /\ f \in events
        BY <2>2, <3>1 DEF EventLogReplaysLifecycle
      <3>2. CASE e = event /\ f \in events
        BY <2>1, <2>2, <3>2, <1>1, <1>4
      <3>3. CASE e \in events /\ f = event
        BY <2>1, <2>2, <3>3, <1>1, <1>4
      <3>4. QED
        BY <1>2, <3>1, <3>2, <3>3
    <2>3. QED
      BY <2>2
  <1>7. \E e \in events' : /\ e.sequence = review'.eventSequence
                           /\ e.status = review'.status
                           /\ e.generation = review'.generation
    <2>1. event \in events'
      BY <1>2
    <2>2. event.sequence = next /\ event.status = to /\ event.generation = generation
      OBVIOUS
    <2> HIDE DEF event, next, generation
    <2>3. QED
      BY <1>2, <2>1, <2>2
  <1>8. ASSUME NEW e \in events', NEW f \in events', f.sequence = e.sequence + 1
        PROVE  /\ f.status \in ALLOWED_TRANSITIONS[e.status]
               /\ f.generation = IF f.status = "PROCESSING" THEN e.generation + 1
                                                            ELSE e.generation
    <2>1. CASE e \in events /\ f \in events
      BY <2>1, <1>8 DEF EventLogReplaysLifecycle
    <2>2. CASE e = event
      <3>1. f.sequence = next + 1 /\ next \in Nat
        BY <2>2, <1>8, <1>1
      <3>2. f \in events \/ f = event
        BY <1>2
      <3>3. f.sequence < next \/ f.sequence = next
        BY <3>2, <1>4
      <3>4. QED
        BY <3>1, <3>3
    <2>3. CASE e \in events /\ f = event
      <3>1. e.sequence = review.eventSequence
        BY <2>3, <1>8, <1>1
      <3>2. e.status = review.status /\ e.generation = review.generation
        BY <3>1, <2>3 DEF EventLogReplaysLifecycle
      <3>3. QED
        BY <3>2, <2>3
    <2>4. QED
      BY <1>2, <2>1, <2>2, <2>3
  <1>9. QED
    BY <1>5, <1>6, <1>7, <1>8 DEF EventLogReplaysLifecycle

\* A transition of transitionForUser keeps the repository invariant.
LEMMA TransitionKeepsRepositoryInvariant ==
  ASSUME RepositoryInvariant, NEW to \in Statuses,
         NEW from \in SUBSET allowedSourceStatuses(to), NEW generations,
         transitionForUser(from, to, generations)
  PROVE  RepositoryInvariant'
  <1>1. /\ to # "COMPLETED"
        /\ review.status \in Statuses
        /\ to \in ALLOWED_TRANSITIONS[review.status]
        /\ Advance(to)
        /\ results' = results
    BY AllowedSources DEF transitionForUser, CanTransition
  <1>2. RepositoryTypeOK'
    BY <1>1, AdvanceKeepsRows DEF RepositoryInvariant, RepositoryTypeOK
  <1>3. EventLogReplaysLifecycle'
    BY <1>1, AdvanceExtendsTheLog DEF RepositoryInvariant
  <1>4. review.status # "COMPLETED"
    BY <1>1 DEF ALLOWED_TRANSITIONS
  <1>5. results = {}
    BY <1>4 DEF RepositoryInvariant, ResultIffCompleted
  <1>6. review'.status = to
    BY <1>1 DEF Advance, RepositoryInvariant, RepositoryTypeOK, ReviewRows
  <1>7. ResultIffCompleted'
    BY <1>1, <1>5, <1>6 DEF ResultIffCompleted
  <1>8. QED
    BY <1>2, <1>3, <1>7 DEF RepositoryInvariant

\* finalizeForUser publishes the only result and completes the review.
LEMMA FinalizeKeepsRepositoryInvariant ==
  ASSUME RepositoryInvariant, NEW generation, NEW answer \in Answers,
         finalizeForUser(generation, answer)
  PROVE  RepositoryInvariant'
  <1>1. /\ review.status = "PROCESSING" /\ results = {}
        /\ Advance("COMPLETED")
        /\ results' = {[generation |-> review.generation, answer |-> answer]}
    BY DEF finalizeForUser, CanLeaveProcessing
  <1>2. "COMPLETED" \in Statuses /\ "COMPLETED" \in ALLOWED_TRANSITIONS[review.status]
    BY <1>1 DEF Statuses, ALLOWED_TRANSITIONS
  <1>3. review'.status = "COMPLETED" /\ review'.generation = review.generation
    BY <1>1 DEF Advance, RepositoryInvariant, RepositoryTypeOK, ReviewRows
  <1>4. RepositoryTypeOK'
    BY <1>1, <1>2, AdvanceKeepsRows
    DEF RepositoryInvariant, RepositoryTypeOK, ResultRows, ReviewRows
  <1>5. EventLogReplaysLifecycle'
    BY <1>1, <1>2, AdvanceExtendsTheLog DEF RepositoryInvariant
  <1>6. ResultIffCompleted'
    BY <1>1, <1>3 DEF ResultIffCompleted
  <1>7. QED
    BY <1>4, <1>5, <1>6 DEF RepositoryInvariant

\* The fence is a transition to CANCELLED.
LEMMA FenceKeepsRepositoryInvariant ==
  ASSUME RepositoryInvariant, NEW generation, fenceProcessingForUser(generation)
  PROVE  RepositoryInvariant'
  <1>1. /\ review.status = "PROCESSING"
        /\ Advance("CANCELLED")
        /\ results' = results
    BY DEF fenceProcessingForUser, CanLeaveProcessing
  <1>2. "CANCELLED" \in Statuses /\ "CANCELLED" \in ALLOWED_TRANSITIONS[review.status]
    BY <1>1 DEF Statuses, ALLOWED_TRANSITIONS
  <1>3. review'.status = "CANCELLED"
    BY <1>1 DEF Advance, RepositoryInvariant, RepositoryTypeOK, ReviewRows
  <1>4. RepositoryTypeOK'
    BY <1>1, <1>2, AdvanceKeepsRows DEF RepositoryInvariant, RepositoryTypeOK
  <1>5. EventLogReplaysLifecycle'
    BY <1>1, <1>2, AdvanceExtendsTheLog DEF RepositoryInvariant
  <1>6. ResultIffCompleted'
    BY <1>1, <1>3 DEF ResultIffCompleted, RepositoryInvariant
  <1>7. QED
    BY <1>4, <1>5, <1>6 DEF RepositoryInvariant

\* Deletion touches the deletion mark only.
LEMMA DeletionKeepsRepositoryInvariant ==
  RepositoryInvariant /\ softDeleteForUser => RepositoryInvariant'
  <1> SUFFICES ASSUME RepositoryInvariant, softDeleteForUser
               PROVE  RepositoryInvariant'
    OBVIOUS
  <1>1. /\ review'.status = review.status
        /\ review'.generation = review.generation
        /\ review'.eventSequence = review.eventSequence
        /\ review' \in ReviewRows
        /\ UNCHANGED <<events, results>>
    BY DEF softDeleteForUser, RepositoryInvariant, RepositoryTypeOK, ReviewRows
  <1>2. QED
    BY <1>1 DEF RepositoryInvariant, RepositoryTypeOK, EventLogReplaysLifecycle,
                ResultIffCompleted

\* No caller can break the log or the results, in whatever order it calls.
THEOREM RepositoryStepKeepsInvariant ==
  RepositoryInvariant /\ [RepositoryStep]_repositoryVars => RepositoryInvariant'
  <1> SUFFICES ASSUME RepositoryInvariant, [RepositoryStep]_repositoryVars
               PROVE  RepositoryInvariant'
    OBVIOUS
  <1>1. CASE RepositoryStep
    BY <1>1, TransitionKeepsRepositoryInvariant, FinalizeKeepsRepositoryInvariant,
       FenceKeepsRepositoryInvariant, DeletionKeepsRepositoryInvariant
    DEF RepositoryStep
  <1>2. CASE UNCHANGED repositoryVars
    BY <1>2 DEF repositoryVars, RepositoryInvariant, RepositoryTypeOK,
                EventLogReplaysLifecycle, ResultIffCompleted
  <1>3. QED
    BY <1>1, <1>2
===============================================================================
