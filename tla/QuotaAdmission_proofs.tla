------------------------- MODULE QuotaAdmission_proofs -------------------------
(***************************************************************************)
(* Quota admission for any number of requests, keys, days and failures:    *)
(* its types, the agreement of reviews and admissions, the refusal of      *)
(* reused keys, the implementation of AdmissionLedger, and the counting of *)
(* units within the quota.                                                 *)
(*                                                                         *)
(* Two arguments.  RowStep and Sound: a row is only ever created, or moved *)
(* from a status that is neither ADMITTED nor DENIED, it becomes ADMITTED  *)
(* exactly when its review is created, and a request past the recognition  *)
(* of its row has a row with its own fingerprint.  UnitInvariant: requests *)
(* and rows name admissions of their own key and day, each admission is    *)
(* counted while it has a marker, and nothing is reserved uncounted.       *)
(***************************************************************************)
EXTENDS QuotaAdmission, FiniteSetTheorems, TLAPS

\* Where a request has recognised a row under its key as its own.
RowPcs == {"rereading", "reserving", "persisting", "persistMissed",
           "finalizing", "admitting", "replaying"}

\* What is known of a request x whose key has this row.
Sound(x, row) ==
  /\ x.pc \in RowPcs \/ x.outcome \in {"CREATED", "REPLAYED", "RATE_LIMITED"}
       => row # NoRow /\ row.fingerprint = x.fingerprint
  /\ x.pc \in {"persisting", "persistMissed"} => x.target \in {"RESERVED", "DENIED"}
  /\ x.pc \in {"marking", "markMissed", "markingOther"}
       => x.target \in {"INDETERMINATE", "RECONCILE_REQUIRED"}
  /\ x.pc # "done" <=> x.outcome = "none"

AdmissionInvariant ==
  /\ TypeOK
  /\ ReviewIffAdmitted
  /\ \A r \in Requests : Sound(request[r], Row(r))

\* What a step may make of a row.
RowStep(old, new) ==
  \/ new = old
  \/ old = NoRow /\ new \in RowType /\ new.status = "PENDING"
  \/ /\ old # NoRow /\ old.status \notin {"ADMITTED", "DENIED"}
     /\ new \in RowType /\ new.fingerprint = old.fingerprint

\* The review of a key is created in the step that makes its row ADMITTED.
ReviewStep(k) ==
  \/ reviews'[k] = reviews[k] /\ (rows'[k] = rows[k] \/ rows'[k].status # "ADMITTED")
  \/ reviews[k] = "live" /\ reviews'[k] = "deleted" /\ rows'[k] = rows[k]
  \/ /\ reviews[k] = "none" /\ reviews'[k] = "live"
     /\ rows[k] # NoRow /\ rows[k].status = "RESERVED"
     /\ rows'[k] \in RowType /\ rows'[k].status = "ADMITTED"

\* What every step does to rows and reviews.
DurableStep ==
  /\ rows' \in [Keys -> RowType \cup {NoRow}]
  /\ reviews' \in [Keys -> {"none", "live", "deleted"}]
  /\ \A k \in Keys : RowStep(rows[k], rows'[k]) /\ ReviewStep(k)

\* A step of request r leaves the other keys alone.
OnlyKey(r) == \A k \in Keys \ {request[r].key} : rows'[k] = rows[k] /\ reviews'[k] = reviews[k]

IsDenied(row) == row # NoRow /\ row.status = "DENIED"

\* A step neither grants nor refuses a key.
SameStanding(k) == /\ reviews'[k] = "none" <=> reviews[k] = "none"
                   /\ IsDenied(rows'[k]) <=> IsDenied(rows[k])

\* Statuses a transition may aim at, besides the finalizer's ADMITTED.
Targets == {"RESERVED", "DENIED", "INDETERMINATE", "RECONCILE_REQUIRED"}

-------------------------------------------------------------------------------
(* Rows and reviews. *)

\* No transition leaves ADMITTED or DENIED.
LEMMA SettledIsFinal ==
  ASSUME NEW to \in Targets
  PROVE  Sources(to) \cap {"ADMITTED", "DENIED"} = {}
  BY DEF Targets, Sources

\* transitionForOwner makes a legal step of one row.
LEMMA TransitionIsDurable ==
  ASSUME TypeOK, NEW r \in Requests, NEW to \in Targets,
         rows' = Transition(r, to), reviews' = reviews
  PROVE  /\ DurableStep
         /\ OnlyKey(r)
         /\ Applies(r, to) => /\ rows'[request[r].key] # NoRow
                               /\ rows'[request[r].key].status = to
         /\ ~Applies(r, to) => rows' = rows
         /\ to # "DENIED" => SameStanding(request[r].key)
  <1> DEFINE key == request[r].key
  <1>1. key \in Keys /\ rows \in [Keys -> RowType \cup {NoRow}]
    BY DEF TypeOK, RequestType
  <1>2. CASE Applies(r, to)
    <2>1. rows' = [rows EXCEPT ![key].status = to]
      BY <1>2 DEF Transition, SetStatus
    <2>2. rows[key] # NoRow /\ rows[key].status \notin {"ADMITTED", "DENIED"}
      BY <1>2, SettledIsFinal DEF Applies, HasRow, Row
    <2>3. rows[key] \in RowType
      BY <1>1, <2>2
    <2>4. [rows[key] EXCEPT !.status = to] \in RowType
      BY <2>3 DEF RowType, Targets, AdmissionStatuses
    <2>5. rows'[key] = [rows[key] EXCEPT !.status = to]
          /\ \A k \in Keys \ {key} : rows'[k] = rows[k]
      BY <1>1, <2>1
    <2>6. rows'[key].status = to /\ rows'[key].fingerprint = rows[key].fingerprint
      BY <2>3, <2>5 DEF RowType
    <2>7. rows' \in [Keys -> RowType \cup {NoRow}]
      BY <1>1, <2>1, <2>4
    <2>8. ASSUME NEW k \in Keys PROVE RowStep(rows[k], rows'[k]) /\ ReviewStep(k)
      <3>1. CASE k = key
        BY <3>1, <2>2, <2>4, <2>5, <2>6 DEF RowStep, ReviewStep, Targets
      <3>2. CASE k # key
        BY <3>2, <2>5 DEF RowStep, ReviewStep
      <3>3. QED
        BY <3>1, <3>2
    <2>9. OnlyKey(r) /\ rows'[key] # NoRow
      BY <2>4, <2>5, NoRowAssumption DEF OnlyKey
    <2>10. to # "DENIED" => SameStanding(key)
      BY <2>2, <2>6 DEF SameStanding, IsDenied
    <2>11. QED
      BY <1>2, <2>6, <2>7, <2>8, <2>9, <2>10 DEF DurableStep, TypeOK
  <1>3. CASE ~Applies(r, to)
    BY <1>1, <1>3 DEF Transition, DurableStep, TypeOK, RowStep, ReviewStep, OnlyKey,
                      SameStanding
  <1>4. QED
    BY <1>2, <1>3

\* createOrGet adds a PENDING row under a key that has none.
LEMMA CreationIsDurable ==
  ASSUME TypeOK, NEW r \in Requests, Row(r) = NoRow, rows' = Created(r), reviews' = reviews
  PROVE  /\ DurableStep
         /\ OnlyKey(r)
         /\ rows'[request[r].key] # NoRow
         /\ rows'[request[r].key].fingerprint = request[r].fingerprint
         /\ SameStanding(request[r].key)
  <1> DEFINE key == request[r].key
             row == [ id |-> r, fingerprint |-> request[r].fingerprint,
                      day |-> request[r].day, status |-> "PENDING" ]
  <1>1. key \in Keys /\ rows \in [Keys -> RowType \cup {NoRow}]
    BY DEF TypeOK, RequestType
  <1>2. row \in RowType
    BY DEF TypeOK, RequestType, RowType, AdmissionStatuses
  <1>3. row # NoRow
    BY <1>2, NoRowAssumption
  <1>4. rows'[key] = row /\ \A k \in Keys \ {key} : rows'[k] = rows[k]
    BY <1>1 DEF Created
  <1>5. rows' \in [Keys -> RowType \cup {NoRow}]
    BY <1>1, <1>2 DEF Created
  <1>6. rows[key] = NoRow
    BY DEF Row
  <1>7. ASSUME NEW k \in Keys PROVE RowStep(rows[k], rows'[k]) /\ ReviewStep(k)
    BY <1>2, <1>4, <1>6 DEF RowStep, ReviewStep
  <1>8. OnlyKey(r) /\ SameStanding(key)
    BY <1>4, <1>6 DEF OnlyKey, SameStanding, IsDenied
  <1>9. QED
    BY <1>3, <1>4, <1>5, <1>7, <1>8 DEF DurableStep, TypeOK

\* The finalizer creates the review and admits the row together.
LEMMA AdmissionIsDurable ==
  ASSUME AdmissionInvariant, NEW r \in Requests, At(r, "admitting"), CanAdmit(r),
         AdmitEffect(r)
  PROVE  /\ DurableStep
         /\ reviews[request[r].key] = "none" /\ reviews'[request[r].key] = "live"
         /\ rows[request[r].key].status = "RESERVED"
         /\ rows'[request[r].key] # NoRow
         /\ rows'[request[r].key].status = "ADMITTED"
         /\ rows'[request[r].key].fingerprint = rows[request[r].key].fingerprint
         /\ OnlyKey(r)
  <1> DEFINE key == request[r].key
  <1>1. key \in Keys /\ rows \in [Keys -> RowType \cup {NoRow}]
        /\ reviews \in [Keys -> {"none", "live", "deleted"}]
    BY DEF AdmissionInvariant, TypeOK, RequestType
  <1>2. rows[key] # NoRow
    BY DEF AdmissionInvariant, Sound, RowPcs, At, Row
  <1>3. rows[key] \in RowType
    BY <1>1, <1>2
  <1>4. rows[key].status = "RESERVED" /\ reviews[key] = "none"
    BY DEF CanAdmit, Row
  <1>5. rows' = [rows EXCEPT ![key].status = "ADMITTED"]
        /\ reviews' = [reviews EXCEPT ![key] = "live"]
    BY <1>4 DEF AdmitEffect, SetStatus, Row
  <1>6. [rows[key] EXCEPT !.status = "ADMITTED"] \in RowType
    BY <1>3 DEF RowType, AdmissionStatuses
  <1>7. rows'[key] = [rows[key] EXCEPT !.status = "ADMITTED"]
        /\ \A k \in Keys \ {key} : rows'[k] = rows[k] /\ reviews'[k] = reviews[k]
    BY <1>1, <1>5
  <1>8. rows'[key].status = "ADMITTED" /\ rows'[key].fingerprint = rows[key].fingerprint
    BY <1>3, <1>7 DEF RowType
  <1>9. rows' \in [Keys -> RowType \cup {NoRow}]
        /\ reviews' \in [Keys -> {"none", "live", "deleted"}]
    BY <1>1, <1>5, <1>6
  <1>10. rows'[key] \in RowType /\ rows'[key] # NoRow
    BY <1>6, <1>7, NoRowAssumption
  <1>11. reviews'[key] = "live"
    BY <1>1, <1>5
  <1>12. ASSUME NEW k \in Keys PROVE RowStep(rows[k], rows'[k]) /\ ReviewStep(k)
    <2>1. CASE k = key
      BY <2>1, <1>2, <1>4, <1>8, <1>10, <1>11 DEF RowStep, ReviewStep
    <2>2. CASE k # key
      BY <2>2, <1>7 DEF RowStep, ReviewStep
    <2>3. QED
      BY <2>1, <2>2
  <1>13. QED
    BY <1>4, <1>7, <1>8, <1>9, <1>10, <1>11, <1>12 DEF DurableStep, OnlyKey

\* Nothing written.
LEMMA NothingIsDurable ==
  ASSUME TypeOK, UNCHANGED dbVars, NEW r \in Requests
  PROVE  DurableStep /\ OnlyKey(r) /\ SameStanding(request[r].key)
  BY DEF TypeOK, dbVars, DurableStep, RowStep, ReviewStep, OnlyKey, SameStanding

-------------------------------------------------------------------------------
(* What a step of a request is, as far as the theorems care. *)

\* The answer given, if any, says what became of the key.
Told(r, x) ==
  LET k == request[r].key
  IN  \/ x.outcome = "none" /\ x.pc # "done"
      \/ x.outcome \in {"CONFLICT", "UNAVAILABLE"} /\ SameStanding(k)
      \/ x.outcome = "CREATED" /\ reviews[k] = "none" /\ reviews'[k] = "live"
      \/ x.outcome = "REPLAYED" /\ reviews[k] # "none" /\ SameStanding(k)
      \/ x.outcome = "RATE_LIMITED" /\ IsDenied(rows'[k]) /\ reviews'[k] = reviews[k]

\* x is a later state of request r.
Later(r, x) == /\ request[r].pc # "done"
               /\ x \in RequestType
               /\ x.key = request[r].key /\ x.fingerprint = request[r].fingerprint

RequestMove(r) ==
  /\ DurableStep /\ OnlyKey(r)
  /\ \E x \in RequestType :
       /\ request' = [request EXCEPT ![r] = x]
       /\ Later(r, x)
       /\ Sound(x, rows'[request[r].key])
       /\ Told(r, x)

\* A row step keeps what is known of a request.
LEMMA SoundKept ==
  ASSUME NEW x, NEW row, NEW new, Sound(x, row), RowStep(row, new)
  PROVE  Sound(x, new)
  BY NoRowAssumption DEF Sound, RowStep

\* A request before its answer that only waits for something else.
LEMMA GotoIsLater ==
  ASSUME NEW r \in Requests, TypeOK, request[r].pc # "done", NEW pc \in Pcs
  PROVE  Later(r, Goto(request[r], pc)) /\ Goto(request[r], pc).pc = pc
         /\ Goto(request[r], pc).outcome = request[r].outcome
         /\ Goto(request[r], pc).target = request[r].target
  <1>1. request[r] \in RequestType
    BY DEF TypeOK
  <1>2. QED
    BY <1>1 DEF Later, Goto, RequestType

\* A request that gets its answer.
LEMMA DoneIsLater ==
  ASSUME NEW r \in Requests, TypeOK, request[r].pc # "done", NEW outcome \in Outcomes
  PROVE  Later(r, Done(request[r], outcome)) /\ Done(request[r], outcome).pc = "done"
         /\ Done(request[r], outcome).outcome = outcome
  <1>1. request[r] \in RequestType
    BY DEF TypeOK
  <1>2. QED
    BY <1>1 DEF Later, Done, RequestType, Pcs

\* A request that turns to marking its admission.
LEMMA MarkSafeIsLater ==
  ASSUME NEW r \in Requests, TypeOK, request[r].pc # "done",
         NEW to \in {"INDETERMINATE", "RECONCILE_REQUIRED"}
  PROVE  /\ Later(r, MarkSafe(request[r], to))
         /\ MarkSafe(request[r], to).pc = "marking"
         /\ MarkSafe(request[r], to).target = to
         /\ MarkSafe(request[r], to).outcome = request[r].outcome
  <1>1. request[r] \in RequestType
    BY DEF TypeOK
  <1>2. QED
    BY <1>1 DEF Later, MarkSafe, RequestType, Pcs, DbPcs

\* A step that writes nothing: only what the answer says is left to show.
LEMMA QuietMove ==
  ASSUME AdmissionInvariant, NEW r \in Requests, UNCHANGED dbVars,
         NEW x, Later(r, x), request' = [request EXCEPT ![r] = x],
         Sound(x, Row(r)),
         x.outcome = "none" => x.pc # "done",
         x.outcome # "CREATED",
         x.outcome = "REPLAYED" => reviews[request[r].key] # "none",
         x.outcome = "RATE_LIMITED" => IsDenied(Row(r))
  PROVE  RequestMove(r)
  <1>1. DurableStep /\ OnlyKey(r) /\ SameStanding(request[r].key)
    BY NothingIsDurable DEF AdmissionInvariant
  <1>2. rows'[request[r].key] = Row(r) /\ reviews'[request[r].key] = reviews[request[r].key]
    BY DEF dbVars, Row
  <1>3. x.outcome \in Outcomes \cup {"none"}
    BY DEF Later, RequestType
  <1>4. Told(r, x)
    BY <1>1, <1>2, <1>3 DEF Told, Outcomes
  <1>5. QED
    BY <1>1, <1>2, <1>4 DEF RequestMove, Later

\* A request without an answer yet.
LEMMA Waiting ==
  ASSUME AdmissionInvariant, NEW r \in Requests, request[r].pc # "done"
  PROVE  /\ TypeOK
         /\ request[r] \in RequestType /\ request[r].outcome = "none"
         /\ Sound(request[r], Row(r))
         /\ Row(r) # NoRow => Row(r) \in RowType
         /\ request[r].pc \in RowPcs =>
              Row(r) # NoRow /\ Row(r).fingerprint = request[r].fingerprint
  <1>1. TypeOK /\ Sound(request[r], Row(r))
    BY DEF AdmissionInvariant
  <1>2. request[r] \in RequestType
    BY <1>1 DEF TypeOK
  <1>3. Row(r) \in RowType \cup {NoRow}
    BY <1>1, <1>2 DEF TypeOK, Row, RequestType
  <1>4. QED
    BY <1>1, <1>2, <1>3 DEF Sound

-------------------------------------------------------------------------------
(* The steps of a request that write nothing. *)

\* A request begins.
LEMMA ArriveMoves ==
  ASSUME AdmissionInvariant, NEW r \in Requests, Arrive(r)
  PROVE  RequestMove(r)
  <1> DEFINE x == [request[r] EXCEPT !.pc = "finding", !.day = day]
  <1>1. request[r].pc = "idle"
    BY DEF Arrive, At
  <1>2. TypeOK /\ request[r] \in RequestType /\ request[r].outcome = "none"
        /\ day \in Days
    BY <1>1, Waiting DEF TypeOK
  <1>3. Later(r, x) /\ x.pc = "finding" /\ x.outcome = "none"
    BY <1>1, <1>2 DEF Later, RequestType, Pcs, DbPcs
  <1>4. request' = [request EXCEPT ![r] = x]
    BY <1>2 DEF Arrive, TypeOK
  <1>5. Sound(x, Row(r))
    BY <1>3 DEF Sound, RowPcs
  <1>6. UNCHANGED dbVars
    BY DEF Arrive, dbVars
  <1> HIDE DEF x
  <1>7. QED
    BY <1>3, <1>4, <1>5, <1>6, QuietMove

\* A row found under the key is the request's, or refuses it.
LEMMA RecogniseMoves ==
  ASSUME AdmissionInvariant, NEW r \in Requests, request[r].pc \in {"finding", "inserting"},
         Row(r) # NoRow, UNCHANGED dbVars,
         Continue(r, Recognise(r, Row(r)))
  PROVE  RequestMove(r)
  <1> DEFINE x == Recognise(r, Row(r))
  <1>1. TypeOK /\ request[r] \in RequestType /\ request[r].outcome = "none"
        /\ Row(r) \in RowType
    BY Waiting
  <1>2. request' = [request EXCEPT ![r] = x]
    BY DEF Continue
  <1>3. CASE SameRequest(r, Row(r))
    <2>1. x = [request[r] EXCEPT !.pc = "rereading", !.admission = Row(r).id]
      BY <1>3 DEF Recognise
    <2>2. Row(r).id \in Requests
      BY <1>1 DEF RowType
    <2>3. Later(r, x) /\ x.pc = "rereading" /\ x.outcome = "none"
          /\ x.fingerprint = Row(r).fingerprint
      BY <1>1, <1>3, <2>1, <2>2 DEF Later, RequestType, Pcs, DbPcs, SameRequest
    <2> HIDE DEF x
    <2>4. Sound(x, Row(r))
      BY <2>3 DEF Sound, RowPcs
    <2>5. QED
      BY <1>2, <2>3, <2>4, QuietMove
  <1>4. CASE ~SameRequest(r, Row(r))
    <2>1. x = Done(request[r], "CONFLICT")
      BY <1>4 DEF Recognise
    <2>2. Later(r, x) /\ x.pc = "done" /\ x.outcome = "CONFLICT"
      BY <1>1, <2>1, DoneIsLater DEF Outcomes
    <2> HIDE DEF x
    <2>3. Sound(x, Row(r))
      BY <2>2 DEF Sound, RowPcs
    <2>4. QED
      BY <1>2, <2>2, <2>3, QuietMove
  <1>5. QED
    BY <1>3, <1>4

\* A request that goes on to wait somewhere else, with the row it had.
LEMMA GotoMoves ==
  ASSUME AdmissionInvariant, NEW r \in Requests, NEW pc \in Pcs \ {"done"},
         request[r].pc # "done", UNCHANGED dbVars,
         Continue(r, Goto(request[r], pc)),
         pc \in RowPcs => request[r].pc \in RowPcs,
         pc \in {"persisting", "persistMissed"} => request[r].pc = "persisting",
         pc \in {"marking", "markMissed", "markingOther"} =>
           request[r].pc \in {"marking", "markMissed"}
  PROVE  RequestMove(r)
  <1> DEFINE x == Goto(request[r], pc)
  <1>1. TypeOK /\ request[r].outcome = "none" /\ Sound(request[r], Row(r))
    BY Waiting
  <1>2. /\ Later(r, x) /\ x.pc = pc /\ x.outcome = "none" /\ x.target = request[r].target
        /\ x.fingerprint = request[r].fingerprint
    BY <1>1, GotoIsLater DEF Later
  <1>3. request' = [request EXCEPT ![r] = x]
    BY DEF Continue
  <1> HIDE DEF x
  <1>4. Sound(x, Row(r))
    BY <1>1, <1>2 DEF Sound
  <1>5. QED
    BY <1>2, <1>3, <1>4, QuietMove

\* A request that is answered, and the answer is true of its row.
LEMMA DoneMoves ==
  ASSUME AdmissionInvariant, NEW r \in Requests, NEW outcome \in Outcomes \ {"CREATED"},
         request[r].pc # "done", UNCHANGED dbVars,
         Continue(r, Done(request[r], outcome)),
         outcome \in {"REPLAYED", "RATE_LIMITED"} => request[r].pc \in RowPcs,
         outcome = "REPLAYED" => reviews[request[r].key] # "none",
         outcome = "RATE_LIMITED" => IsDenied(Row(r))
  PROVE  RequestMove(r)
  <1> DEFINE x == Done(request[r], outcome)
  <1>1. TypeOK /\ Sound(request[r], Row(r))
    BY Waiting
  <1>2. /\ Later(r, x) /\ x.pc = "done" /\ x.outcome = outcome
        /\ x.fingerprint = request[r].fingerprint
    BY <1>1, DoneIsLater DEF Later
  <1>3. request' = [request EXCEPT ![r] = x]
    BY DEF Continue
  <1> HIDE DEF x
  <1>4. Sound(x, Row(r))
    BY <1>1, <1>2 DEF Sound, RowPcs, Outcomes
  <1>5. QED
    BY <1>2, <1>3, <1>4, QuietMove DEF Outcomes

\* A request that turns to marking its admission.
LEMMA MarkSafeMoves ==
  ASSUME AdmissionInvariant, NEW r \in Requests, UNCHANGED dbVars,
         NEW to \in {"INDETERMINATE", "RECONCILE_REQUIRED"},
         request[r].pc # "done", Continue(r, MarkSafe(request[r], to))
  PROVE  RequestMove(r)
  <1> DEFINE x == MarkSafe(request[r], to)
  <1>1. TypeOK /\ request[r].outcome = "none"
    BY Waiting
  <1>2. Later(r, x) /\ x.pc = "marking" /\ x.outcome = "none" /\ x.target = to
    BY <1>1, MarkSafeIsLater
  <1>3. request' = [request EXCEPT ![r] = x]
    BY DEF Continue
  <1> HIDE DEF x
  <1>4. Sound(x, Row(r))
    BY <1>2 DEF Sound, RowPcs
  <1>5. QED
    BY <1>2, <1>3, <1>4, QuietMove

\* Dispatch on the status read, from the row of the request.
LEMMA RereadMoves ==
  ASSUME AdmissionInvariant, NEW r \in Requests, Reread(r)
  PROVE  RequestMove(r)
  <1>1. /\ request[r].pc = "rereading" /\ UNCHANGED dbVars
        /\ Continue(r, Dispatch(request[r], Row(r).status))
    BY DEF Reread, At, dbVars
  <1>2. Row(r) # NoRow /\ Row(r).status \in AdmissionStatuses
    BY <1>1, Waiting DEF RowPcs, RowType
  <1>3. {"reserving", "finalizing"} \subseteq Pcs \ {"done"}
        /\ {"RATE_LIMITED", "UNAVAILABLE"} \subseteq Outcomes \ {"CREATED"}
        /\ "rereading" \in RowPcs
    BY DEF Pcs, DbPcs, Outcomes, RowPcs
  <1>4. CASE Row(r).status = "PENDING"
    <2>1. Continue(r, Goto(request[r], "reserving"))
      BY <1>1, <1>4 DEF Dispatch
    <2>2. QED
      BY <1>1, <1>3, <2>1, GotoMoves
  <1>5. CASE Row(r).status = "DENIED"
    <2>1. Continue(r, Done(request[r], "RATE_LIMITED")) /\ IsDenied(Row(r))
      BY <1>1, <1>2, <1>5 DEF Dispatch, IsDenied
    <2>2. QED
      BY <1>1, <1>3, <2>1, DoneMoves
  <1>6. CASE Row(r).status \in {"INDETERMINATE", "RECONCILE_REQUIRED"}
    <2>1. Continue(r, Done(request[r], "UNAVAILABLE"))
      BY <1>1, <1>6 DEF Dispatch
    <2>2. QED
      BY <1>1, <1>3, <2>1, DoneMoves
  <1>7. CASE Row(r).status \in {"RESERVED", "ADMITTED"}
    <2>1. Continue(r, Goto(request[r], "finalizing"))
      BY <1>1, <1>7 DEF Dispatch
    <2>2. QED
      BY <1>1, <1>3, <2>1, GotoMoves
  <1>8. QED
    BY <1>2, <1>4, <1>5, <1>6, <1>7 DEF AdmissionStatuses

\* The reservation is answered: its outcome is the status to persist.
LEMMA ReserveMoves ==
  ASSUME AdmissionInvariant, NEW r \in Requests, Reserve(r)
  PROVE  RequestMove(r)
  <1> DEFINE outcome == ReservationOutcome(request[r].admission, request[r].day)
             x == [request[r] EXCEPT !.pc = "persisting", !.target = outcome]
  <1>1. request[r].pc = "reserving" /\ UNCHANGED dbVars /\ request' = [request EXCEPT ![r] = x]
    BY DEF Reserve, At, dbVars, Continue
  <1>2. TypeOK /\ request[r] \in RequestType /\ request[r].outcome = "none"
        /\ Row(r) # NoRow /\ Row(r).fingerprint = request[r].fingerprint
    BY <1>1, Waiting DEF RowPcs
  <1>3. request[r].admission \in Requests
    BY <1>2 DEF RequestType
  <1>4. outcome \in {"RESERVED", "DENIED"}
    BY <1>2, <1>3 DEF TypeOK, ReservationOutcome, Marked
  <1> HIDE DEF outcome
  <1>5. /\ Later(r, x) /\ x.pc = "persisting" /\ x.outcome = "none" /\ x.target = outcome
        /\ x.fingerprint = request[r].fingerprint
    BY <1>1, <1>2, <1>4 DEF Later, RequestType, Pcs, DbPcs
  <1> HIDE DEF x
  <1>6. Sound(x, Row(r))
    BY <1>2, <1>4, <1>5 DEF Sound
  <1>7. QED
    BY <1>1, <1>5, <1>6, QuietMove

\* The finalizer reads the admission.
LEMMA FinalizeReadMoves ==
  ASSUME AdmissionInvariant, NEW r \in Requests, FinalizeRead(r)
  PROVE  RequestMove(r)
  <1>1. request[r].pc = "finalizing" /\ UNCHANGED dbVars
    BY DEF FinalizeRead, At, dbVars
  <1>2. \/ Continue(r, Done(request[r], "CONFLICT"))
        \/ Continue(r, Goto(request[r], "replaying"))
        \/ Continue(r, Goto(request[r], "admitting"))
    BY DEF FinalizeRead
  <1>3. "CONFLICT" \in Outcomes \ {"CREATED"} /\ "finalizing" \in RowPcs
        /\ {"replaying", "admitting"} \subseteq Pcs \ {"done"}
    BY DEF Outcomes, RowPcs, Pcs, DbPcs
  <1>4. QED
    BY <1>1, <1>2, <1>3, DoneMoves, GotoMoves

\* An admitted row is replayed from its review.
LEMMA ReplayMoves ==
  ASSUME AdmissionInvariant, NEW r \in Requests, Replay(r)
  PROVE  RequestMove(r)
  <1>1. request[r].pc = "replaying" /\ UNCHANGED dbVars
    BY DEF Replay, At, dbVars
  <1>2. \/ reviews[request[r].key] = "live" /\ Continue(r, Done(request[r], "REPLAYED"))
        \/ Continue(r, MarkSafe(request[r], "RECONCILE_REQUIRED"))
    BY DEF Replay
  <1>3. "REPLAYED" \in Outcomes \ {"CREATED"} /\ "replaying" \in RowPcs
    BY DEF Outcomes, RowPcs
  <1>4. QED
    BY <1>1, <1>2, <1>3, DoneMoves, MarkSafeMoves

\* readAfterTransitionRace.
LEMMA ReadPersistMissedMoves ==
  ASSUME AdmissionInvariant, NEW r \in Requests, ReadPersistMissed(r)
  PROVE  RequestMove(r)
  <1>1. request[r].pc = "persistMissed" /\ UNCHANGED dbVars
    BY DEF ReadPersistMissed, At, dbVars
  <1>2. request[r].target \in {"RESERVED", "DENIED"} /\ Row(r) # NoRow
    BY <1>1, Waiting DEF Sound, RowPcs
  <1>3. \/ Continue(r, Goto(request[r], "finalizing"))
        \/ IsDenied(Row(r)) /\ Continue(r, Done(request[r], "RATE_LIMITED"))
        \/ Continue(r, MarkSafe(request[r], "RECONCILE_REQUIRED"))
    BY <1>2 DEF ReadPersistMissed, Reserved, Settled, IsDenied
  <1>4. "RATE_LIMITED" \in Outcomes \ {"CREATED"} /\ "persistMissed" \in RowPcs
        /\ "finalizing" \in Pcs \ {"done"}
    BY DEF Outcomes, RowPcs, Pcs, DbPcs
  <1>5. QED
    BY <1>1, <1>3, <1>4, DoneMoves, MarkSafeMoves, GotoMoves

\* The steps that only read or wait.
LEMMA ReadingMoves ==
  ASSUME AdmissionInvariant, NEW r \in Requests,
         Find(r) \/ ReserveFails(r) \/ ReadMarkMissed(r)
  PROVE  RequestMove(r)
  <1>1. UNCHANGED dbVars
    BY DEF Find, ReserveFails, ReadMarkMissed, dbVars
  <1>2. {"inserting", "markingOther"} \subseteq Pcs \ {"done"}
        /\ "inserting" \notin RowPcs /\ "markingOther" \notin RowPcs
        /\ "UNAVAILABLE" \in Outcomes \ {"CREATED"}
    BY DEF Pcs, DbPcs, RowPcs, Outcomes
  <1>3. CASE Find(r)
    <2>1. request[r].pc = "finding"
      BY <1>3 DEF Find, At
    <2>2. CASE Row(r) = NoRow
      <3>1. Continue(r, Goto(request[r], "inserting"))
        BY <1>3, <2>2 DEF Find
      <3>2. QED
        BY <1>1, <1>2, <2>1, <3>1, GotoMoves
    <2>3. CASE Row(r) # NoRow
      <3>1. Continue(r, Recognise(r, Row(r)))
        BY <1>3, <2>3 DEF Find
      <3>2. QED
        BY <1>1, <2>1, <2>3, <3>1, RecogniseMoves
    <2>4. QED
      BY <2>2, <2>3
  <1>4. CASE ReserveFails(r)
    <2>1. request[r].pc # "done" /\ Continue(r, MarkSafe(request[r], "INDETERMINATE"))
      BY <1>4 DEF ReserveFails, At
    <2>2. QED
      BY <1>1, <2>1, MarkSafeMoves
  <1>5. CASE ReadMarkMissed(r)
    <2>1. request[r].pc = "markMissed"
      BY <1>5 DEF ReadMarkMissed, At
    <2>2. \/ Continue(r, Done(request[r], "UNAVAILABLE"))
          \/ Continue(r, Goto(request[r], "markingOther"))
      BY <1>5 DEF ReadMarkMissed
    <2>3. QED
      BY <1>1, <1>2, <2>1, <2>2, DoneMoves, GotoMoves
  <1>6. QED
    BY <1>3, <1>4, <1>5

-------------------------------------------------------------------------------
(* The steps of a request that write. *)

\* A new row makes the request its owner.
LEMMA CreatedMoves ==
  ASSUME AdmissionInvariant, NEW r \in Requests, request[r].pc = "inserting",
         Row(r) = NoRow, rows' = Created(r), reviews' = reviews,
         NEW x, Later(r, x), x.outcome = "none", x.pc \in {"reserving", "marking"},
         x.pc = "marking" => x.target = "RECONCILE_REQUIRED",
         Continue(r, x)
  PROVE  RequestMove(r)
  <1>1. /\ DurableStep /\ OnlyKey(r)
        /\ rows'[request[r].key] # NoRow
        /\ rows'[request[r].key].fingerprint = request[r].fingerprint
    BY CreationIsDurable DEF AdmissionInvariant
  <1>2. Sound(x, rows'[request[r].key])
    BY <1>1 DEF Sound, Later
  <1>3. QED
    BY <1>1, <1>2 DEF RequestMove, Later, Told, Continue

\* createOrGet inserts, or takes the row that won.
LEMMA InsertMoves ==
  ASSUME AdmissionInvariant, NEW r \in Requests, Insert(r)
  PROVE  RequestMove(r)
  <1>1. request[r].pc = "inserting" /\ reviews' = reviews
    BY DEF Insert, At
  <1>2. CASE Row(r) = NoRow
    <2>1. rows' = Created(r) /\ Continue(r, Goto(request[r], "reserving"))
      BY <1>2 DEF Insert, Dispatch
    <2>2. "reserving" \in Pcs
      BY DEF Pcs
    <2>3. Later(r, Goto(request[r], "reserving"))
          /\ Goto(request[r], "reserving").pc = "reserving"
          /\ Goto(request[r], "reserving").outcome = "none"
      BY <1>1, <2>2, Waiting, GotoIsLater
    <2>4. QED
      BY <1>1, <1>2, <2>1, <2>3, CreatedMoves
  <1>3. CASE Row(r) # NoRow
    <2>1. UNCHANGED dbVars /\ Continue(r, Recognise(r, Row(r)))
      BY <1>1, <1>3 DEF Insert, dbVars
    <2>2. QED
      BY <1>1, <1>3, <2>1, RecogniseMoves
  <1>4. QED
    BY <1>2, <1>3

\* A status is persisted or marked; an answer that follows is true of it.
LEMMA TransitionMoves ==
  ASSUME AdmissionInvariant, NEW r \in Requests, request[r].pc # "done",
         NEW to \in Targets, rows' = Transition(r, to), reviews' = reviews,
         NEW x, Later(r, x), Sound(x, Row(r)), Continue(r, x),
         \/ x.outcome = "none" /\ x.pc # "done"
         \/ x.outcome = "UNAVAILABLE" /\ to # "DENIED"
         \/ x.outcome = "RATE_LIMITED" /\ to = "DENIED" /\ Applies(r, to)
  PROVE  RequestMove(r)
  <1>1. /\ DurableStep /\ OnlyKey(r)
        /\ Applies(r, to) => /\ rows'[request[r].key] # NoRow
                              /\ rows'[request[r].key].status = to
        /\ to # "DENIED" => SameStanding(request[r].key)
    BY TransitionIsDurable DEF AdmissionInvariant
  <1>2. request[r].key \in Keys
    BY DEF AdmissionInvariant, TypeOK, RequestType
  <1>3. Sound(x, rows'[request[r].key])
    BY <1>1, <1>2, SoundKept DEF DurableStep, Row
  <1>4. Told(r, x)
    BY <1>1 DEF Told, IsDenied
  <1>5. QED
    BY <1>1, <1>3, <1>4 DEF RequestMove, Later, Continue

\* persistKnownReservation.
LEMMA PersistMoves ==
  ASSUME AdmissionInvariant, NEW r \in Requests, Persist(r)
  PROVE  RequestMove(r)
  <1> DEFINE to == request[r].target
  <1>1. request[r].pc = "persisting" /\ reviews' = reviews /\ rows' = Transition(r, to)
    BY DEF Persist, At
  <1>2. /\ to \in {"RESERVED", "DENIED"} /\ TypeOK /\ request[r].outcome = "none"
        /\ Row(r) # NoRow /\ Row(r).fingerprint = request[r].fingerprint
    BY <1>1, Waiting DEF Sound, RowPcs
  <1>3. to \in Targets /\ {"finalizing", "persistMissed"} \subseteq Pcs
        /\ "RATE_LIMITED" \in Outcomes
    BY <1>2 DEF Targets, Pcs, DbPcs, Outcomes
  <1>4. CASE Applies(r, to) /\ to = "DENIED"
    <2> DEFINE x == Done(request[r], "RATE_LIMITED")
    <2>1. Continue(r, x)
      BY <1>4 DEF Persist, Reserved
    <2>2. Later(r, x) /\ x.pc = "done" /\ x.outcome = "RATE_LIMITED"
      BY <1>1, <1>2, <1>3, DoneIsLater
    <2> HIDE DEF x
    <2>3. Sound(x, Row(r))
      BY <1>2, <2>2 DEF Sound, Later
    <2>4. QED
      BY <1>1, <1>3, <1>4, <2>1, <2>2, <2>3, TransitionMoves
  <1>5. CASE ~(Applies(r, to) /\ to = "DENIED")
    <2>1. PICK pc \in {"finalizing", "persistMissed"} : Continue(r, Goto(request[r], pc))
      BY <1>5 DEF Persist, Reserved
    <2> DEFINE x == Goto(request[r], pc)
    <2>2. Later(r, x) /\ x.pc = pc /\ x.outcome = "none" /\ x.target = to
      BY <1>1, <1>2, <1>3, <2>1, GotoIsLater
    <2> HIDE DEF x
    <2>3. Sound(x, Row(r))
      BY <1>2, <2>1, <2>2 DEF Sound, Later
    <2>4. Continue(r, x)
      BY <2>1 DEF x
    <2>5. QED
      BY <1>1, <1>3, <2>1, <2>2, <2>3, <2>4, TransitionMoves
  <1>6. QED
    BY <1>4, <1>5

\* markSafeStatus.
LEMMA MarkMoves ==
  ASSUME AdmissionInvariant, NEW r \in Requests, Mark(r) \/ MarkOther(r)
  PROVE  RequestMove(r)
  <1>1. request[r].pc \in {"marking", "markingOther"} /\ reviews' = reviews
    BY DEF Mark, MarkOther, At
  <1>2. TypeOK /\ request[r].target \in {"INDETERMINATE", "RECONCILE_REQUIRED"}
    BY <1>1, Waiting DEF Sound
  <1>3. PICK to \in {"INDETERMINATE", "RECONCILE_REQUIRED"} : rows' = Transition(r, to)
    BY <1>2 DEF Mark, MarkOther, OtherMark
  <1>4. to \in Targets /\ to # "DENIED"
    BY <1>3 DEF Targets
  <1>5. "UNAVAILABLE" \in Outcomes /\ "markMissed" \in Pcs
    BY DEF Outcomes, Pcs, DbPcs
  <1>6. CASE Continue(r, Done(request[r], "UNAVAILABLE"))
    <2> DEFINE x == Done(request[r], "UNAVAILABLE")
    <2>1. Later(r, x) /\ x.pc = "done" /\ x.outcome = "UNAVAILABLE"
      BY <1>1, <1>2, <1>5, DoneIsLater
    <2>2. Continue(r, x)
      BY <1>6
    <2> HIDE DEF x
    <2>3. Sound(x, Row(r))
      BY <2>1 DEF Sound, RowPcs
    <2>4. QED
      BY <1>1, <1>3, <1>4, <2>1, <2>2, <2>3, TransitionMoves
  <1>7. CASE Continue(r, Goto(request[r], "markMissed"))
    <2> DEFINE x == Goto(request[r], "markMissed")
    <2>1. Later(r, x) /\ x.pc = "markMissed" /\ x.outcome = "none"
          /\ x.target = request[r].target
      BY <1>1, <1>2, <1>5, Waiting, GotoIsLater
    <2>2. Continue(r, x)
      BY <1>7
    <2> HIDE DEF x
    <2>3. Sound(x, Row(r))
      BY <1>2, <2>1 DEF Sound, RowPcs
    <2>4. QED
      BY <1>1, <1>3, <1>4, <2>1, <2>2, <2>3, TransitionMoves
  <1>8. QED
    BY <1>6, <1>7 DEF Mark, MarkOther

\* The finalizer's writes, told to the request or not.
LEMMA AdmittedMoves ==
  ASSUME AdmissionInvariant, NEW r \in Requests, At(r, "admitting"), CanAdmit(r),
         AdmitEffect(r), NEW x, Later(r, x), Continue(r, x),
         \/ x.outcome = "CREATED" /\ x.pc = "done"
         \/ x.outcome = "none" /\ x.pc = "marking" /\ x.target = "RECONCILE_REQUIRED"
  PROVE  RequestMove(r)
  <1>1. /\ DurableStep /\ OnlyKey(r)
        /\ reviews[request[r].key] = "none" /\ reviews'[request[r].key] = "live"
        /\ rows'[request[r].key] # NoRow
        /\ rows'[request[r].key].fingerprint = Row(r).fingerprint
    BY AdmissionIsDurable DEF Row
  <1>2. Row(r).fingerprint = request[r].fingerprint
    BY Waiting DEF At, RowPcs
  <1>3. Sound(x, rows'[request[r].key])
    BY <1>1, <1>2 DEF Sound, Later
  <1>4. Told(r, x)
    BY <1>1 DEF Told
  <1>5. QED
    BY <1>1, <1>3, <1>4 DEF RequestMove, Later, Continue

\* The finalizer's writes, or a conflict.
LEMMA AdmitMoves ==
  ASSUME AdmissionInvariant, NEW r \in Requests, Admit(r)
  PROVE  RequestMove(r)
  <1>1. request[r].pc = "admitting" /\ At(r, "admitting")
    BY DEF Admit, At
  <1>2. {"CREATED", "CONFLICT"} \subseteq Outcomes
    BY DEF Outcomes
  <1>3. CASE CanAdmit(r)
    <2>1. AdmitEffect(r) /\ Continue(r, Done(request[r], "CREATED"))
      BY <1>3 DEF Admit
    <2>2. /\ Later(r, Done(request[r], "CREATED")) /\ Done(request[r], "CREATED").pc = "done"
          /\ Done(request[r], "CREATED").outcome = "CREATED"
      BY <1>1, <1>2, Waiting, DoneIsLater
    <2>3. QED
      BY <1>1, <1>3, <2>1, <2>2, AdmittedMoves
  <1>4. CASE ~CanAdmit(r)
    <2>1. UNCHANGED dbVars /\ Continue(r, Done(request[r], "CONFLICT"))
      BY <1>4 DEF Admit
    <2>2. QED
      BY <1>1, <1>2, <2>1, DoneMoves
  <1>5. QED
    BY <1>3, <1>4

\* A failed call, executed or not.
LEMMA DbErrorMoves ==
  ASSUME AdmissionInvariant, NEW r \in Requests, DbError(r)
  PROVE  RequestMove(r)
  <1> DEFINE x == AfterDbError(request[r])
  <1>1. request[r].pc \in DbPcs /\ request[r].pc # "done" /\ Continue(r, x)
    BY DEF DbError, DbPcs
  <1>2. /\ TypeOK /\ request[r].outcome = "none" /\ Sound(request[r], Row(r))
        /\ request[r].pc \in RowPcs =>
             Row(r) # NoRow /\ Row(r).fingerprint = request[r].fingerprint
    BY <1>1, Waiting
  <1>3. /\ {"persistMissed", "markingOther"} \subseteq Pcs \ {"done"}
        /\ "UNAVAILABLE" \in Outcomes \ {"CREATED"}
        /\ "markingOther" \notin RowPcs /\ "persisting" \in RowPcs
    BY DEF Pcs, DbPcs, Outcomes, RowPcs
  <1>4. \/ request[r].pc = "persisting" /\ x = Goto(request[r], "persistMissed")
        \/ /\ request[r].pc \in {"marking", "markMissed"}
           /\ x = Goto(request[r], "markingOther")
        \/ request[r].pc = "markingOther" /\ x = Done(request[r], "UNAVAILABLE")
        \/ /\ request[r].pc \notin {"persisting", "marking", "markMissed", "markingOther"}
           /\ x = MarkSafe(request[r], "RECONCILE_REQUIRED")
    BY DEF AfterDbError
  <1>5. CASE UNCHANGED dbVars
    BY <1>1, <1>3, <1>4, <1>5, GotoMoves, DoneMoves, MarkSafeMoves
  <1>6. CASE ExecutedCall(r)
    <2>1. /\ Later(r, x) /\ x.fingerprint = request[r].fingerprint
          /\ \/ /\ request[r].pc = "persisting" /\ x.pc = "persistMissed"
                /\ x.outcome = "none" /\ x.target = request[r].target
             \/ /\ request[r].pc = "marking" /\ x.pc = "markingOther"
                /\ x.outcome = "none" /\ x.target = request[r].target
             \/ /\ request[r].pc = "markingOther" /\ x.pc = "done"
                /\ x.outcome = "UNAVAILABLE"
             \/ /\ request[r].pc \notin {"persisting", "marking", "markingOther"}
                /\ (request[r].pc = "markMissed" \/
                      /\ x.pc = "marking" /\ x.outcome = "none"
                      /\ x.target = "RECONCILE_REQUIRED")
      BY <1>1, <1>2, <1>3, <1>4, GotoIsLater, DoneIsLater, MarkSafeIsLater DEF Later
    <2> HIDE DEF x
    <2>2. CASE At(r, "inserting") /\ Row(r) = NoRow /\ rows' = Created(r) /\ reviews' = reviews
      BY <1>1, <2>1, <2>2, CreatedMoves DEF At
    <2>3. CASE /\ request[r].pc \in {"persisting", "marking"}
               /\ rows' = Transition(r, request[r].target) /\ reviews' = reviews
      <3>1. request[r].target \in Targets
        BY <1>2, <2>3 DEF Sound, Targets
      <3>2. Sound(x, Row(r))
        BY <1>2, <1>3, <2>1, <2>3 DEF Sound, RowPcs
      <3>3. x.outcome = "none" /\ x.pc # "done"
        BY <2>1, <2>3
      <3>4. QED
        BY <1>1, <2>1, <2>3, <3>1, <3>2, <3>3, TransitionMoves
    <2>4. CASE /\ At(r, "markingOther")
               /\ rows' = Transition(r, OtherMark(request[r].target)) /\ reviews' = reviews
      <3>1. OtherMark(request[r].target) \in Targets \ {"DENIED"}
        BY DEF OtherMark, Targets
      <3>2. x.pc = "done" /\ x.outcome = "UNAVAILABLE"
        BY <2>1, <2>4 DEF At
      <3>3. Sound(x, Row(r))
        BY <3>2 DEF Sound, RowPcs
      <3>4. QED
        BY <1>1, <2>1, <2>4, <3>1, <3>2, <3>3, TransitionMoves
    <2>5. CASE At(r, "admitting") /\ CanAdmit(r) /\ AdmitEffect(r)
      BY <1>1, <2>1, <2>5, AdmittedMoves DEF At
    <2>6. QED
      BY <1>6, <2>2, <2>3, <2>4, <2>5 DEF ExecutedCall
  <1>7. QED
    BY <1>5, <1>6 DEF DbError

\* Every step of a request is such a move.
LEMMA StepMoves ==
  ASSUME AdmissionInvariant, NEW r \in Requests, Step(r)
  PROVE  RequestMove(r)
  BY ArriveMoves, ReadingMoves, InsertMoves, RereadMoves, ReserveMoves, PersistMoves,
     ReadPersistMissedMoves, MarkMoves, FinalizeReadMoves, AdmitMoves, ReplayMoves,
     DbErrorMoves DEF Step

-------------------------------------------------------------------------------
(* The invariant. *)

\* What the types say of the clock, of Redis and of the bookkeeping.
RedisTyped ==
  /\ day \in Days
  /\ used \in [Days -> 0 .. Limit]
  /\ marker \in [Requests -> {"none", "RESERVED", "DENIED"}]
  /\ late \subseteq Requests
  /\ charged \in [Requests -> {"no", "onTime", "late"}]
  /\ budget \in [db : 0 .. MaxDbErrors, redis : 0 .. MaxRedisErrors]

\* The script counts a unit only when one is left.
LEMMA ReservationTyped ==
  ASSUME TypeOK, NEW a \in Requests, NEW d \in Days, RunReservation(a, d)
  PROVE  /\ used' \in [Days -> 0 .. Limit]
         /\ marker' \in [Requests -> {"none", "RESERVED", "DENIED"}]
         /\ charged' \in [Requests -> {"no", "onTime", "late"}]
  <1>1. /\ used \in [Days -> 0 .. Limit]
        /\ marker \in [Requests -> {"none", "RESERVED", "DENIED"}]
        /\ charged \in [Requests -> {"no", "onTime", "late"}]
    BY DEF TypeOK
  <1>2. ReservationOutcome(a, d) \in {"RESERVED", "DENIED"}
    BY <1>1 DEF ReservationOutcome, Marked
  <1>3. marker' \in [Requests -> {"none", "RESERVED", "DENIED"}]
    BY <1>1, <1>2 DEF RunReservation
  <1>4. CASE ~Marked(a) /\ UnitLeft(d)
    <2>1. used[d] + 1 \in 0 .. Limit
      BY <1>1, <1>4, BoundsAssumption DEF UnitLeft
    <2>2. used' = [used EXCEPT ![d] = @ + 1]
          /\ charged' = [charged EXCEPT ![a] =
               IF @ # "no" THEN @ ELSE IF d = day THEN "onTime" ELSE "late"]
      BY <1>4 DEF RunReservation
    <2>3. QED
      BY <1>1, <1>3, <2>1, <2>2
  <1>5. CASE ~(~Marked(a) /\ UnitLeft(d))
    BY <1>1, <1>3, <1>5 DEF RunReservation
  <1>6. QED
    BY <1>4, <1>5

\* Every step keeps the clock, Redis and the bookkeeping typed.
LEMMA RedisStaysTyped == TypeOK /\ [Next]_vars => RedisTyped'
  <1> SUFFICES ASSUME TypeOK, [Next]_vars PROVE RedisTyped'
    OBVIOUS
  <1>1. RedisTyped
    BY DEF TypeOK, RedisTyped
  <1>2. ASSUME NEW r \in Requests
        PROVE  request[r].admission \in Requests /\ request[r].day \in Days
    BY DEF TypeOK, RequestType
  <1>3. ASSUME NEW r \in Requests, Reserve(r) PROVE RedisTyped'
    BY <1>1, <1>2, <1>3, ReservationTyped DEF Reserve, RedisTyped
  <1>4. ASSUME NEW r \in Requests, ReserveFails(r) PROVE RedisTyped'
    <2>1. budget.redis + 1 \in 0 .. MaxRedisErrors
      BY <1>1, <1>4, BoundsAssumption DEF ReserveFails, RedisTyped
    <2>2. QED
      BY <1>1, <1>4, <2>1 DEF ReserveFails, RedisTyped
  <1>5. ASSUME NEW r \in Requests, DbError(r) PROVE RedisTyped'
    <2>1. budget.db + 1 \in 0 .. MaxDbErrors
      BY <1>1, <1>5, BoundsAssumption DEF DbError, RedisTyped
    <2>2. QED
      BY <1>1, <1>5, <2>1 DEF DbError, RedisTyped
  <1>6. ASSUME NEW r \in Requests, LateReservation(r) PROVE RedisTyped'
    BY <1>1, <1>2, <1>6, ReservationTyped DEF LateReservation, RedisTyped
  <1>7. CASE Midnight
    BY <1>1, <1>7, BoundsAssumption DEF Midnight, RedisTyped, Days
  <1>8. ASSUME NEW d \in Days, Expire(d) PROVE RedisTyped'
    BY <1>1, <1>8, BoundsAssumption DEF Expire, RedisTyped
  <1>9. ASSUME UNCHANGED <<day, used, marker, late, charged, budget>> PROVE RedisTyped'
    BY <1>1, <1>9 DEF RedisTyped
  <1>10. ASSUME NEW r \in Requests, Step(r) PROVE RedisTyped'
    BY <1>3, <1>4, <1>5, <1>9, <1>10
    DEF Step, Arrive, Find, Insert, Reread, Persist, ReadPersistMissed, Mark,
        ReadMarkMissed, MarkOther, FinalizeRead, Admit, Replay
  <1>11. ASSUME NEW k \in Keys, Delete(k) PROVE RedisTyped'
    BY <1>9, <1>11 DEF Delete
  <1>12. CASE UNCHANGED vars
    BY <1>9, <1>12 DEF vars
  <1>13. QED
    BY <1>6, <1>7, <1>8, <1>10, <1>11, <1>12 DEF Next

\* The owner deletes a review.
LEMMA DeleteIsDurable ==
  ASSUME TypeOK, NEW k \in Keys, Delete(k)
  PROVE  DurableStep /\ \A j \in Keys : SameStanding(j)
  <1>1. reviews' = [reviews EXCEPT ![k] = "deleted"] /\ rows' = rows /\ reviews[k] = "live"
    BY DEF Delete
  <1>2. reviews \in [Keys -> {"none", "live", "deleted"}]
    BY DEF TypeOK
  <1>3. QED
    BY <1>1, <1>2 DEF DurableStep, RowStep, ReviewStep, SameStanding, TypeOK

\* A durable step keeps reviews and admissions in agreement.
LEMMA DurableStepKeepsAgreement ==
  ASSUME ReviewIffAdmitted, DurableStep
  PROVE  ReviewIffAdmitted'
  <1> SUFFICES ASSUME NEW k \in Keys
               PROVE  reviews'[k] # "none" <=> rows'[k] # NoRow /\ rows'[k].status = "ADMITTED"
    BY DEF ReviewIffAdmitted
  <1>1. reviews[k] # "none" <=> rows[k] # NoRow /\ rows[k].status = "ADMITTED"
    BY DEF ReviewIffAdmitted
  <1>2. RowStep(rows[k], rows'[k]) /\ ReviewStep(k)
    BY DEF DurableStep
  <1>3. QED
    BY <1>1, <1>2, NoRowAssumption DEF RowStep, ReviewStep

\* Durable steps with the requests left alone or one moved on keep the invariant.
LEMMA StepKeepsInvariant == AdmissionInvariant /\ [Next]_vars => AdmissionInvariant'
  <1> SUFFICES ASSUME AdmissionInvariant, [Next]_vars PROVE AdmissionInvariant'
    OBVIOUS
  <1>1. TypeOK /\ ReviewIffAdmitted /\ \A r \in Requests : Sound(request[r], rows[request[r].key])
    BY DEF AdmissionInvariant, Row
  <1>2. \A r \in Requests : request[r] \in RequestType /\ request[r].key \in Keys
    BY <1>1 DEF TypeOK, RequestType
  <1>3. RedisTyped'
    BY <1>1, RedisStaysTyped
  <1>4. ASSUME DurableStep, request' = request PROVE AdmissionInvariant'
    <2>1. TypeOK'
      BY <1>1, <1>3, <1>4 DEF TypeOK, RedisTyped, DurableStep
    <2>2. ReviewIffAdmitted'
      BY <1>1, <1>4, DurableStepKeepsAgreement
    <2>3. ASSUME NEW r \in Requests PROVE Sound(request'[r], rows'[request'[r].key])
      BY <1>1, <1>2, <1>4, SoundKept DEF DurableStep
    <2>4. QED
      BY <2>1, <2>2, <2>3 DEF AdmissionInvariant, Row
  <1>5. ASSUME NEW r \in Requests, RequestMove(r) PROVE AdmissionInvariant'
    <2>1. PICK x \in RequestType : /\ request' = [request EXCEPT ![r] = x]
                                   /\ x.key = request[r].key
                                   /\ Sound(x, rows'[request[r].key])
      BY <1>5 DEF RequestMove, Later
    <2>2. DurableStep
      BY <1>5 DEF RequestMove
    <2>3. TypeOK'
      BY <1>1, <1>3, <2>1, <2>2 DEF TypeOK, RedisTyped, DurableStep
    <2>4. ReviewIffAdmitted'
      BY <1>1, <2>2, DurableStepKeepsAgreement
    <2>5. request \in [Requests -> RequestType]
      BY <1>1 DEF TypeOK
    <2>6. ASSUME NEW q \in Requests PROVE Sound(request'[q], rows'[request'[q].key])
      <3>1. CASE q = r
        BY <2>1, <2>5, <3>1
      <3>2. CASE q # r
        <4>1. request'[q] = request[q]
          BY <2>1, <2>5, <3>2
        <4>2. QED
          BY <1>1, <1>2, <2>2, <4>1, SoundKept DEF DurableStep
      <3>3. QED
        BY <3>1, <3>2
    <2>7. QED
      BY <2>3, <2>4, <2>6 DEF AdmissionInvariant, Row
  <1>6. ASSUME UNCHANGED <<rows, reviews, request>> PROVE AdmissionInvariant'
    <2>1. DurableStep
      BY <1>1, <1>6 DEF TypeOK, DurableStep, RowStep, ReviewStep
    <2>2. QED
      BY <1>4, <1>6, <2>1
  <1>7. ASSUME NEW r \in Requests, Step(r) PROVE AdmissionInvariant'
    BY <1>5, <1>7, StepMoves
  <1>8. ASSUME NEW r \in Requests, LateReservation(r) PROVE AdmissionInvariant'
    BY <1>6, <1>8 DEF LateReservation
  <1>9. ASSUME NEW k \in Keys, Delete(k) PROVE AdmissionInvariant'
    BY <1>1, <1>4, <1>9, DeleteIsDurable DEF Delete
  <1>10. CASE Midnight \/ UNCHANGED vars
    BY <1>6, <1>10 DEF Midnight, vars
  <1>11. ASSUME NEW d \in Days, Expire(d) PROVE AdmissionInvariant'
    BY <1>6, <1>11 DEF Expire
  <1>12. QED
    BY <1>7, <1>8, <1>9, <1>10, <1>11 DEF Next

\* At the start nothing is stored and nobody has been answered.
LEMMA InitEstablishesInvariant == Init => AdmissionInvariant
  <1> SUFFICES ASSUME Init PROVE AdmissionInvariant
    OBVIOUS
  <1>1. PICK key \in [Requests -> Keys], body \in [Requests -> Fingerprints] :
          request = [r \in Requests |->
                      [ pc |-> "idle", key |-> key[r], fingerprint |-> body[r], day |-> 0,
                        admission |-> r, target |-> "none", outcome |-> "none" ]]
    BY DEF Init
  <1>2. 0 \in Days /\ 0 \in 0 .. Limit
    BY BoundsAssumption DEF Days
  <1>3. request \in [Requests -> RequestType]
    BY <1>1, <1>2 DEF RequestType, Pcs
  <1>4. TypeOK
    BY <1>2, <1>3, BoundsAssumption DEF Init, TypeOK
  <1>5. ReviewIffAdmitted
    BY DEF Init, ReviewIffAdmitted
  <1>6. \A r \in Requests : request[r].pc = "idle" /\ request[r].outcome = "none"
    BY <1>1
  <1>7. \A r \in Requests : Sound(request[r], Row(r))
    BY <1>6 DEF Sound, RowPcs
  <1>8. QED
    BY <1>4, <1>5, <1>7 DEF AdmissionInvariant

\* Types, agreement and sound requests hold throughout.
LEMMA InvariantHolds == Spec => []AdmissionInvariant
  BY InitEstablishesInvariant, StepKeepsInvariant, PTL DEF Spec

\* Every variable keeps its type and no day's counter passes the quota, for any
\* number of requests, keys, days and failures.
THEOREM TypesHold == Spec => []TypeOK
  <1>1. AdmissionInvariant => TypeOK
    BY DEF AdmissionInvariant
  <1>2. QED
    BY <1>1, InvariantHolds, PTL

\* Reviews and ADMITTED admissions always agree.
THEOREM AgreementHolds == Spec => []ReviewIffAdmitted
  <1>1. AdmissionInvariant => ReviewIffAdmitted
    BY DEF AdmissionInvariant
  <1>2. QED
    BY <1>1, InvariantHolds, PTL

\* A key reused for another body is refused, whatever else is going on.
THEOREM ReuseRefused == Spec => []ReuseIsRefused
  <1>1. AdmissionInvariant => ReuseIsRefused
    <2> SUFFICES ASSUME AdmissionInvariant, NEW r \in Requests, At(r, "done"),
                        Row(r) # NoRow, Row(r).fingerprint # request[r].fingerprint
                 PROVE  request[r].outcome \in {"CONFLICT", "UNAVAILABLE"}
      BY DEF ReuseIsRefused
    <2>1. Sound(request[r], Row(r)) /\ request[r] \in RequestType
      BY DEF AdmissionInvariant, TypeOK
    <2>2. QED
      BY <2>1 DEF Sound, RequestType, Outcomes, At
  <1>2. QED
    BY <1>1, InvariantHolds, PTL

-------------------------------------------------------------------------------
(* The implementation of AdmissionLedger. *)

\* What the refinement mapping makes of a key.
Standing(review, row) == IF review # "none" THEN "granted"
                         ELSE IF IsDenied(row) THEN "refused" ELSE "open"

ledger == [k \in Keys |-> Standing(reviews[k], rows[k])]
asks == [r \in Requests |-> request[r].key]
answer == [r \in Requests |-> request[r].outcome]

\* The mapping of the module, spelled out with these names.
LEMMA MappedSpec ==
  /\ Ledger!Init <=> /\ ledger = [k \in Keys |-> "open"]
                     /\ asks \in [Requests -> Keys]
                     /\ answer = [r \in Requests |-> "none"]
  /\ UNCHANGED Ledger!vars <=> ledger' = ledger /\ asks' = asks /\ answer' = answer
  /\ \A r \in Requests : \A to, told :
       Ledger!Settle(r, to, told) <=>
         /\ answer[r] = "none"
         /\ ledger[asks[r]] = "open"
         /\ ledger' = [ledger EXCEPT ![asks[r]] = to]
         /\ answer' \in {answer, [answer EXCEPT ![r] = told]}
         /\ UNCHANGED asks
  /\ \A r \in Requests :
       Ledger!Answer(r) <=>
         /\ answer[r] = "none"
         /\ \E told \in Ledger!Answers \ {"CREATED"} :
              /\ told = "REPLAYED" => ledger[asks[r]] = "granted"
              /\ told = "RATE_LIMITED" => ledger[asks[r]] = "refused"
              /\ answer' = [answer EXCEPT ![r] = told]
         /\ UNCHANGED <<ledger, asks>>
  BY DEF Ledger!Init, Ledger!vars, Ledger!Settle, Ledger!Answer, ledger, asks, answer,
         Standing, IsDenied

\* Empty tables map to an open ledger.
LEMMA InitIsLedgerInit == Init => Ledger!Init
  <1> SUFFICES ASSUME Init PROVE Ledger!Init
    OBVIOUS
  <1>1. PICK key \in [Requests -> Keys], body \in [Requests -> Fingerprints] :
          request = [r \in Requests |->
                      [ pc |-> "idle", key |-> key[r], fingerprint |-> body[r], day |-> 0,
                        admission |-> r, target |-> "none", outcome |-> "none" ]]
    BY DEF Init
  <1>2. asks \in [Requests -> Keys] /\ answer = [r \in Requests |-> "none"]
    BY <1>1 DEF asks, answer
  <1>3. ledger = [k \in Keys |-> "open"]
    BY DEF Init, ledger, Standing, IsDenied
  <1>4. QED
    BY <1>2, <1>3, MappedSpec

\* A step that keeps the standing of every key and the requests is a stutter.
LEMMA SameStandingStutters ==
  ASSUME \A k \in Keys : SameStanding(k), request' = request
  PROVE  UNCHANGED Ledger!vars
  <1>1. \A k \in Keys : Standing(reviews'[k], rows'[k]) = Standing(reviews[k], rows[k])
    BY DEF SameStanding, Standing
  <1>2. ledger' = ledger
    BY <1>1 DEF ledger
  <1>3. asks' = asks /\ answer' = answer
    BY DEF asks, answer
  <1>4. QED
    BY <1>2, <1>3, MappedSpec

\* The standing of the key of a request moves from open, or not at all.
LEMMA StandingMoves ==
  ASSUME AdmissionInvariant, NEW k \in Keys, DurableStep
  PROVE  LET old == Standing(reviews[k], rows[k])
             new == Standing(reviews'[k], rows'[k])
         IN  /\ new # old => old = "open"
             /\ reviews[k] = "none" /\ reviews'[k] = "live" => new = "granted" /\ old = "open"
             /\ ~(reviews[k] = "none" /\ reviews'[k] = "live") => new = old \/ new = "refused"
             /\ SameStanding(k) => new = old
  <1>1. RowStep(rows[k], rows'[k]) /\ ReviewStep(k)
    BY DEF DurableStep
  <1>2. reviews[k] # "none" <=> rows[k] # NoRow /\ rows[k].status = "ADMITTED"
    BY DEF AdmissionInvariant, ReviewIffAdmitted
  <1>3. reviews[k] \in {"none", "live", "deleted"}
    BY DEF AdmissionInvariant, TypeOK
  <1>4. QED
    BY <1>1, <1>2, <1>3, NoRowAssumption
    DEF RowStep, ReviewStep, Standing, IsDenied, SameStanding

\* A step of a request settles its key, answers it, does both or neither.
LEMMA RequestMoveIsLedgerStep ==
  ASSUME AdmissionInvariant, NEW r \in Requests, RequestMove(r)
  PROVE  [Ledger!Next]_(Ledger!vars)
  <1> DEFINE k == request[r].key
             old == Standing(reviews[k], rows[k])
             new == Standing(reviews'[k], rows'[k])
  <1>1. PICK x \in RequestType : /\ request' = [request EXCEPT ![r] = x]
                                 /\ Later(r, x)
                                 /\ Sound(x, rows'[k])
                                 /\ Told(r, x)
    BY DEF RequestMove
  <1>2. DurableStep /\ OnlyKey(r) /\ request[r].outcome = "none" /\ request[r].pc # "done"
    BY <1>1, Waiting DEF RequestMove, Later
  <1>3. request \in [Requests -> RequestType] /\ k \in Keys
    BY DEF AdmissionInvariant, TypeOK, RequestType
  <1>4. asks' = asks /\ asks[r] = k /\ answer[r] = "none" /\ ledger[k] = old
    BY <1>1, <1>2, <1>3 DEF asks, answer, ledger, Later
  <1>5. answer' = [answer EXCEPT ![r] = x.outcome]
    BY <1>1, <1>3 DEF answer
  <1>6. ledger' = [ledger EXCEPT ![k] = new]
    <2>1. \A j \in Keys \ {k} : Standing(reviews'[j], rows'[j]) = Standing(reviews[j], rows[j])
      BY <1>2 DEF OnlyKey
    <2>2. QED
      BY <1>3, <2>1 DEF ledger
  <1>7. /\ new # old => old = "open"
        /\ reviews[k] = "none" /\ reviews'[k] = "live" => new = "granted" /\ old = "open"
        /\ ~(reviews[k] = "none" /\ reviews'[k] = "live") => new = old \/ new = "refused"
        /\ SameStanding(k) => new = old
    BY <1>2, <1>3, StandingMoves
  <1>8. new = old => ledger' = ledger
    BY <1>3, <1>4, <1>6 DEF ledger
  <1>9. x.outcome = "none" => answer' = answer
    BY <1>4, <1>5 DEF answer
  <1>10. x.outcome \in Outcomes \cup {"none"} /\ Ledger!Answers = Outcomes
    BY DEF RequestType, Ledger!Answers, Outcomes
  <1> HIDE DEF k, old, new
  <1>11. CASE new = old /\ x.outcome = "none"
    BY <1>4, <1>8, <1>9, <1>11, MappedSpec
  <1>12. CASE new = old /\ x.outcome # "none"
    <2>1. x.outcome # "CREATED"
      BY <1>1, <1>7, <1>12 DEF Told, k
    <2>2. x.outcome = "REPLAYED" => old = "granted"
      BY <1>1 DEF Told, k, old, Standing
    <2>3. x.outcome = "RATE_LIMITED" => old = "refused"
      <3>1. ASSUME x.outcome = "RATE_LIMITED"
            PROVE  IsDenied(rows'[k]) /\ reviews'[k] = reviews[k]
        BY <1>1, <3>1 DEF Told, k
      <3>2. ReviewIffAdmitted'
        BY <1>2, DurableStepKeepsAgreement DEF AdmissionInvariant
      <3>3. IsDenied(rows'[k]) => reviews'[k] = "none"
        BY <1>3, <3>2 DEF ReviewIffAdmitted, IsDenied, k
      <3>4. QED
        BY <1>12, <3>1, <3>3 DEF new, Standing
    <2>4. Ledger!Answer(r)
      BY <1>4, <1>5, <1>8, <1>10, <1>12, <2>1, <2>2, <2>3, MappedSpec
    <2>5. QED
      BY <2>4 DEF Ledger!Next
  <1>13. CASE new # old
    <2>1. old = "open" /\ ledger[asks[r]] = "open"
      BY <1>4, <1>7, <1>13
    <2>2. CASE reviews[k] = "none" /\ reviews'[k] = "live"
      <3>1. x.outcome \in {"none", "CREATED"}
        BY <1>1, <1>7, <1>13, <2>2 DEF Told, k
      <3>2. Ledger!Settle(r, "granted", "CREATED")
        BY <1>4, <1>5, <1>6, <1>7, <1>9, <2>1, <2>2, <3>1, MappedSpec
      <3>3. QED
        BY <3>2 DEF Ledger!Next, Ledger!Grant
    <2>3. CASE ~(reviews[k] = "none" /\ reviews'[k] = "live")
      <3>1. new = "refused"
        BY <1>7, <1>13, <2>3
      <3>2. x.outcome \in {"none", "RATE_LIMITED"}
        BY <1>1, <1>7, <1>13, <2>3 DEF Told, k
      <3>3. Ledger!Settle(r, "refused", "RATE_LIMITED")
        BY <1>4, <1>5, <1>6, <1>9, <2>1, <3>1, <3>2, MappedSpec
      <3>4. QED
        BY <3>3 DEF Ledger!Next, Ledger!Refuse
    <2>4. QED
      BY <2>2, <2>3
  <1>14. QED
    BY <1>11, <1>12, <1>13

\* Admission keeps the promise of AdmissionLedger: each key is settled at most
\* once and for good, only one request is told CREATED, and REPLAYED and
\* RATE_LIMITED are said of keys that were granted or refused.
THEOREM ImplementsTheLedger == Spec => ImplementsLedger
  <1>1. AdmissionInvariant /\ [Next]_vars => [Ledger!Next]_(Ledger!vars)
    <2> SUFFICES ASSUME AdmissionInvariant, [Next]_vars
                 PROVE  [Ledger!Next]_(Ledger!vars)
      OBVIOUS
    <2>1. ASSUME NEW r \in Requests, Step(r) PROVE [Ledger!Next]_(Ledger!vars)
      BY <2>1, StepMoves, RequestMoveIsLedgerStep
    <2>2. ASSUME NEW k \in Keys, Delete(k) PROVE UNCHANGED Ledger!vars
      BY <2>2, DeleteIsDurable, SameStandingStutters DEF AdmissionInvariant, Delete
    <2>3. ASSUME UNCHANGED <<rows, reviews, request>> PROVE UNCHANGED Ledger!vars
      BY <2>3, SameStandingStutters DEF SameStanding
    <2>4. ASSUME NEW r \in Requests, LateReservation(r) PROVE UNCHANGED Ledger!vars
      BY <2>3, <2>4 DEF LateReservation
    <2>5. CASE Midnight \/ UNCHANGED vars
      BY <2>3, <2>5 DEF Midnight, vars
    <2>6. ASSUME NEW d \in Days, Expire(d) PROVE UNCHANGED Ledger!vars
      BY <2>3, <2>6 DEF Expire
    <2>7. QED
      BY <2>1, <2>2, <2>4, <2>5, <2>6 DEF Next
  <1>2. QED
    BY <1>1, InitIsLedgerInit, InvariantHolds, PTL DEF Spec, ImplementsLedger, Ledger!Spec

-------------------------------------------------------------------------------
(* The units of quota. *)

\* The identity of requests, admissions and rows: the admission a request works
\* on was proposed under its key for its day, and so was the row of each key.
NamesAgree ==
  /\ \A r \in Requests :
       LET a == request[r].admission
       IN  /\ request[a].day = request[r].day /\ request[a].key = request[r].key
           /\ request[r].pc # "idle" => request[a].pc # "idle"
           /\ request[r].pc = "idle" => a = r
           /\ request[r].day <= day
  /\ \A k \in Keys : rows[k] # NoRow =>
       LET a == rows[k].id
       IN  request[a].day = rows[k].day /\ request[a].key = k /\ request[a].pc # "idle"

\* The admissions of day d that have a unit, and those counted before its midnight.
Holders(d) == {a \in Requests : request[a].day = d /\ marker[a] = "RESERVED"}
OnTime(d) == {a \in Requests : request[a].day = d /\ charged[a] = "onTime"}

\* Markers and counters agree; today's admissions counted on time still have theirs.
UnitsAgree ==
  /\ \A d \in Days : used[d] = Cardinality(Holders(d)) /\ Cardinality(OnTime(d)) <= Limit
  /\ \A a \in Requests :
       /\ request[a].pc = "idle" => a \notin late /\ marker[a] = "none" /\ charged[a] = "no"
       /\ marker[a] = "RESERVED" => charged[a] # "no"
       /\ charged[a] = "onTime" /\ request[a].day = day => marker[a] = "RESERVED"

\* What is reserved, or about to be, was counted once.
ReservedWasCharged ==
  /\ \A r \in Requests :
       request[r].pc \in {"persisting", "persistMissed"} /\ request[r].target = "RESERVED"
         => charged[request[r].admission] # "no"
  /\ \A k \in Keys :
       rows[k] # NoRow /\ rows[k].status \in {"RESERVED", "ADMITTED"} => charged[rows[k].id] # "no"

UnitInvariant == NamesAgree /\ UnitsAgree /\ ReservedWasCharged

\* A request that goes on with the admission it has.
Onward(x, y) ==
  /\ y.key = x.key /\ y.day = x.day /\ y.admission = x.admission /\ y.pc # "idle"
  /\ y.pc \in {"persisting", "persistMissed"} => x.pc = "persisting" /\ y.target = x.target

\* What a step of request r makes of the row of key k.
RowOnward(r, k) ==
  \/ rows'[k] = rows[k]
  \/ /\ rows[k] # NoRow /\ rows'[k] # NoRow
     /\ rows'[k].id = rows[k].id /\ rows'[k].day = rows[k].day
     /\ rows'[k].status \in {"RESERVED", "ADMITTED"} =>
          \/ rows[k].status = "RESERVED"
          \/ /\ rows[k].id = request[r].admission /\ request[r].pc = "persisting"
             /\ request[r].target = "RESERVED"
  \/ /\ rows[k] = NoRow /\ rows'[k] # NoRow /\ k = request[r].key /\ request[r].pc # "idle"
     /\ rows'[k].id = r /\ rows'[k].day = request[r].day /\ rows'[k].status = "PENDING"

\* A step of request r that leaves Redis alone.
OnwardStep(r) ==
  /\ UNCHANGED <<day, used, marker, charged>>
  /\ late' \subseteq late \cup {r}
  /\ \A k \in Keys : RowOnward(r, k)
  /\ \E y : /\ request' = [request EXCEPT ![r] = y]
            /\ request[r].pc # "idle"
            /\ \/ Onward(request[r], y)
               \/ /\ request[r].pc \in {"finding", "inserting"}
                  /\ Row(r) # NoRow /\ Row(r).day = request[r].day
                  /\ Onward([request[r] EXCEPT !.admission = Row(r).id], y)

\* Where a request goes on.
LEMMA GoesOnward ==
  ASSUME NEW x \in RequestType, x.pc # "idle"
  PROVE  /\ \A pc \in Pcs \ {"idle", "persisting", "persistMissed"} : Onward(x, Goto(x, pc))
         /\ x.pc = "persisting" => Onward(x, Goto(x, "persistMissed"))
         /\ \A outcome : Onward(x, Done(x, outcome))
         /\ \A to : Onward(x, MarkSafe(x, to))
  BY DEF RequestType, Onward, Goto, Done, MarkSafe

\* The same for what is decided by a status, a reservation or a failure.
LEMMA DecidesOnward ==
  ASSUME NEW x \in RequestType, x.pc # "idle"
  PROVE  /\ \A status \in AdmissionStatuses : Onward(x, Dispatch(x, status))
         /\ Onward(x, Reserved(x))
         /\ Onward(x, AfterDbError(x))
  <1>1. {"reserving", "finalizing", "markingOther"} \subseteq Pcs \ {"idle", "persisting", "persistMissed"}
    BY DEF Pcs, DbPcs
  <1>2. ASSUME NEW status \in AdmissionStatuses PROVE Onward(x, Dispatch(x, status))
    BY <1>1, GoesOnward DEF Dispatch, AdmissionStatuses
  <1>3. Onward(x, Reserved(x))
    BY <1>1, GoesOnward DEF Reserved
  <1>4. Onward(x, AfterDbError(x))
    BY <1>1, GoesOnward DEF AfterDbError
  <1>5. QED
    BY <1>2, <1>3, <1>4

\* A transition of the row, or none.
LEMMA TransitionOnward ==
  ASSUME TypeOK, NEW r \in Requests, NEW to \in Targets, rows' = Transition(r, to),
         to = "RESERVED" => request[r].pc = "persisting" /\ request[r].target = "RESERVED"
  PROVE  \A k \in Keys : RowOnward(r, k)
  <1> DEFINE key == request[r].key
  <1>1. key \in Keys /\ rows \in [Keys -> RowType \cup {NoRow}]
    BY DEF TypeOK, RequestType
  <1>2. CASE Applies(r, to)
    <2>1. rows' = [rows EXCEPT ![key].status = to]
      BY <1>2 DEF Transition, SetStatus
    <2>2. rows[key] # NoRow /\ rows[key].id = request[r].admission
      BY <1>2 DEF Applies, HasRow, Row
    <2>3. rows[key] \in RowType
      BY <1>1, <2>2
    <2>4. [rows[key] EXCEPT !.status = to] \in RowType
      BY <2>3 DEF RowType, Targets, AdmissionStatuses
    <2>5. rows'[key] = [rows[key] EXCEPT !.status = to] /\ rows'[key] # NoRow
          /\ \A k \in Keys \ {key} : rows'[k] = rows[k]
      BY <1>1, <2>1, <2>4, NoRowAssumption
    <2>6. /\ rows'[key].status = to /\ rows'[key].id = rows[key].id
          /\ rows'[key].day = rows[key].day
      BY <2>3, <2>5 DEF RowType
    <2>7. RowOnward(r, key)
      BY <2>2, <2>5, <2>6 DEF RowOnward, Targets
    <2>8. QED
      BY <2>5, <2>7 DEF RowOnward
  <1>3. CASE ~Applies(r, to)
    BY <1>3 DEF Transition, RowOnward
  <1>4. QED
    BY <1>2, <1>3

\* A row created under a key that has none.
LEMMA CreationOnward ==
  ASSUME TypeOK, NEW r \in Requests, Row(r) = NoRow, rows' = Created(r), request[r].pc # "idle"
  PROVE  \A k \in Keys : RowOnward(r, k)
  <1> DEFINE key == request[r].key
             row == [ id |-> r, fingerprint |-> request[r].fingerprint,
                      day |-> request[r].day, status |-> "PENDING" ]
  <1>1. key \in Keys /\ rows \in [Keys -> RowType \cup {NoRow}]
    BY DEF TypeOK, RequestType
  <1>2. row \in RowType
    BY DEF TypeOK, RequestType, RowType, AdmissionStatuses
  <1>3. rows'[key] = row /\ \A k \in Keys \ {key} : rows'[k] = rows[k]
    BY <1>1 DEF Created
  <1>4. RowOnward(r, key)
    BY <1>2, <1>3, NoRowAssumption DEF RowOnward, Row
  <1>5. QED
    BY <1>3, <1>4 DEF RowOnward

\* The row the finalizer admits was RESERVED.
LEMMA AdmissionOnward ==
  ASSUME AdmissionInvariant, NEW r \in Requests, At(r, "admitting"), CanAdmit(r), AdmitEffect(r)
  PROVE  \A k \in Keys : RowOnward(r, k)
  <1> DEFINE key == request[r].key
  <1>1. key \in Keys /\ rows \in [Keys -> RowType \cup {NoRow}]
    BY DEF AdmissionInvariant, TypeOK, RequestType
  <1>2. rows[key] # NoRow
    BY DEF AdmissionInvariant, Sound, RowPcs, At, Row
  <1>3. rows[key] \in RowType /\ rows[key].status = "RESERVED"
    BY <1>1, <1>2 DEF CanAdmit, Row
  <1>4. rows' = [rows EXCEPT ![key].status = "ADMITTED"]
    BY <1>3 DEF AdmitEffect, SetStatus, Row
  <1>5. [rows[key] EXCEPT !.status = "ADMITTED"] \in RowType
    BY <1>3 DEF RowType, AdmissionStatuses
  <1>6. rows'[key] = [rows[key] EXCEPT !.status = "ADMITTED"] /\ rows'[key] # NoRow
        /\ \A k \in Keys \ {key} : rows'[k] = rows[k]
    BY <1>1, <1>4, <1>5, NoRowAssumption
  <1>7. rows'[key].id = rows[key].id /\ rows'[key].day = rows[key].day
    BY <1>3, <1>6 DEF RowType
  <1>8. RowOnward(r, key)
    BY <1>2, <1>3, <1>6, <1>7 DEF RowOnward
  <1>9. QED
    BY <1>6, <1>8 DEF RowOnward

\* Steps that leave Redis alone, but for the failed reservation that stays under way.
LEMMA QuietStepsGoOnward ==
  ASSUME AdmissionInvariant, NEW r \in Requests, Step(r), ~Arrive(r), ~Reserve(r)
  PROVE  OnwardStep(r)
  <1> DEFINE x == request[r]
  <1>1. /\ TypeOK /\ x \in RequestType /\ Row(r) \in RowType \cup {NoRow}
        /\ Sound(x, Row(r))
    BY DEF AdmissionInvariant, TypeOK, RequestType, Row
  <1>2. x.pc # "idle" => /\ \A pc \in Pcs \ {"idle", "persisting", "persistMissed"} : Onward(x, Goto(x, pc))
                         /\ x.pc = "persisting" => Onward(x, Goto(x, "persistMissed"))
                         /\ \A outcome : Onward(x, Done(x, outcome))
                         /\ \A to : Onward(x, MarkSafe(x, to))
                         /\ \A status \in AdmissionStatuses : Onward(x, Dispatch(x, status))
                         /\ Onward(x, Reserved(x)) /\ Onward(x, AfterDbError(x))
    BY <1>1, GoesOnward, DecidesOnward
  <1>3. {"reserving", "finalizing", "markingOther", "markMissed", "inserting", "admitting", "replaying"}
          \subseteq Pcs \ {"idle", "persisting", "persistMissed"}
    BY DEF Pcs, DbPcs
  <1>4. ASSUME NEW y, x.pc # "idle", Onward(x, y), request' = [request EXCEPT ![r] = y],
               UNCHANGED <<day, used, marker, charged>>, late' \subseteq late \cup {r},
               \A k \in Keys : RowOnward(r, k)
        PROVE  OnwardStep(r)
    BY <1>4 DEF OnwardStep
  <1>5. ASSUME NEW y, x.pc # "idle", Onward(x, y), request' = [request EXCEPT ![r] = y], rows' = rows,
               UNCHANGED <<day, used, marker, late, charged>>
        PROVE  OnwardStep(r)
    BY <1>4, <1>5 DEF RowOnward
  <1>6. ASSUME x.pc \in {"finding", "inserting"}, Row(r) # NoRow, Continue(r, Recognise(r, Row(r))), rows' = rows,
               UNCHANGED <<day, used, marker, late, charged>>
        PROVE  OnwardStep(r)
    <2>1. CASE SameRequest(r, Row(r))
      <3> DEFINE named == [x EXCEPT !.admission = Row(r).id]
                 y == Recognise(r, Row(r))
      <3>1. y = [x EXCEPT !.pc = "rereading", !.admission = Row(r).id]
        BY <2>1 DEF Recognise
      <3>2. Onward(named, y)
        BY <1>1, <3>1 DEF Onward, RequestType
      <3>3. request' = [request EXCEPT ![r] = y]
        BY <1>6 DEF Continue
      <3>4. Row(r).day = x.day
        BY <2>1 DEF SameRequest
      <3>5. \A k \in Keys : RowOnward(r, k)
        BY <1>6 DEF RowOnward
      <3> HIDE DEF y
      <3>6. QED
        BY <1>6, <3>2, <3>3, <3>4, <3>5 DEF OnwardStep
    <2>2. CASE ~SameRequest(r, Row(r))
      <3>1. Continue(r, Done(x, "CONFLICT"))
        BY <1>6, <2>2 DEF Recognise
      <3>2. QED
        BY <1>2, <1>5, <1>6, <3>1 DEF Continue
    <2>3. QED
      BY <2>1, <2>2
  <1> HIDE DEF x
  <1>7. CASE Find(r)
    <2>1. CASE Row(r) = NoRow
      <3>1. Continue(r, Goto(x, "inserting")) /\ x.pc # "idle"
        BY <1>7, <2>1 DEF Find, At, x
      <3>2. QED
        BY <1>2, <1>3, <1>5, <1>7, <3>1 DEF Find, Continue
    <2>2. CASE Row(r) # NoRow
      BY <1>6, <1>7, <2>2 DEF Find, At, x
    <2>3. QED
      BY <2>1, <2>2
  <1>8. CASE Insert(r)
    <2>1. x.pc = "inserting" /\ UNCHANGED <<day, used, marker, late, charged>>
      BY <1>8 DEF Insert, At, x
    <2>2. CASE Row(r) = NoRow
      <3>1. Continue(r, Dispatch(x, "PENDING")) /\ rows' = Created(r)
        BY <1>8, <2>2 DEF Insert, x
      <3>2. Onward(x, Dispatch(x, "PENDING")) /\ \A k \in Keys : RowOnward(r, k)
        BY <1>1, <1>2, <2>1, <2>2, <3>1, CreationOnward DEF AdmissionStatuses, x
      <3>3. QED
        BY <1>4, <2>1, <3>1, <3>2 DEF Continue
    <2>3. CASE Row(r) # NoRow
      BY <1>6, <1>8, <2>1, <2>3 DEF Insert
    <2>4. QED
      BY <2>2, <2>3
  <1>9. CASE Reread(r)
    <2>1. x.pc = "rereading" /\ Continue(r, Dispatch(x, Row(r).status))
      BY <1>9 DEF Reread, At, x
    <2>2. Row(r).status \in AdmissionStatuses
      BY <1>1, <2>1 DEF Sound, RowPcs, RowType
    <2>3. QED
      BY <1>2, <1>5, <1>9, <2>1, <2>2 DEF Reread, Continue
  <1>10. CASE ReserveFails(r)
    <2>1. x.pc = "reserving" /\ Continue(r, MarkSafe(x, "INDETERMINATE")) /\ rows' = rows
          /\ UNCHANGED <<day, used, marker, charged>> /\ late' = late \cup {r}
      BY <1>10 DEF ReserveFails, At, x
    <2>2. QED
      BY <1>2, <1>4, <2>1 DEF Continue, RowOnward
  <1>11. ASSUME NEW to \in Targets, rows' = Transition(r, to),
                to = "RESERVED" => x.pc = "persisting" /\ x.target = "RESERVED"
         PROVE  \A k \in Keys : RowOnward(r, k)
    BY <1>1, <1>11, TransitionOnward DEF x
  <1>12. /\ x.pc = "persisting" => x.target \in Targets
         /\ x.pc \in {"marking", "markMissed", "markingOther"} =>
              x.target \in Targets \ {"RESERVED"} /\ OtherMark(x.target) \in Targets \ {"RESERVED"}
    BY <1>1 DEF Sound, Targets, OtherMark
  <1>13. CASE Persist(r)
    <2>1. x.pc = "persisting" /\ rows' = Transition(r, x.target) /\ UNCHANGED <<day, used, marker, late, charged>>
      BY <1>13 DEF Persist, At, x
    <2>2. \A k \in Keys : RowOnward(r, k)
      BY <1>11, <1>12, <2>1
    <2>3. PICK y \in {Reserved(x), Goto(x, "persistMissed")} : Continue(r, y)
      BY <1>13 DEF Persist, x
    <2>4. QED
      BY <1>2, <1>4, <2>1, <2>2, <2>3 DEF Continue
  <1>14. CASE ReadPersistMissed(r) \/ FinalizeRead(r) \/ Replay(r) \/ ReadMarkMissed(r)
    <2>1. x.pc # "idle" /\ rows' = rows /\ UNCHANGED <<day, used, marker, late, charged>>
      BY <1>14 DEF ReadPersistMissed, FinalizeRead, Replay, ReadMarkMissed, At, x
    <2>2. PICK y \in {Reserved(x), MarkSafe(x, "RECONCILE_REQUIRED"), Done(x, "CONFLICT"), Goto(x, "replaying"),
                      Goto(x, "admitting"), Done(x, "REPLAYED"), Done(x, "UNAVAILABLE"), Goto(x, "markingOther")} :
               Continue(r, y)
      BY <1>14 DEF ReadPersistMissed, FinalizeRead, Replay, ReadMarkMissed, x
    <2>3. QED
      BY <1>2, <1>3, <1>5, <2>1, <2>2 DEF Continue
  <1>15. CASE Mark(r)
    <2>1. x.pc = "marking" /\ rows' = Transition(r, x.target) /\ UNCHANGED <<day, used, marker, late, charged>>
      BY <1>15 DEF Mark, At, x
    <2>2. \A k \in Keys : RowOnward(r, k)
      BY <1>11, <1>12, <2>1
    <2>3. PICK y \in {Done(x, "UNAVAILABLE"), Goto(x, "markMissed")} : Continue(r, y)
      BY <1>15 DEF Mark, x
    <2>4. QED
      BY <1>2, <1>3, <1>4, <2>1, <2>2, <2>3 DEF Continue
  <1>16. CASE MarkOther(r)
    <2>1. /\ x.pc = "markingOther" /\ rows' = Transition(r, OtherMark(x.target))
          /\ UNCHANGED <<day, used, marker, late, charged>> /\ Continue(r, Done(x, "UNAVAILABLE"))
      BY <1>16 DEF MarkOther, At, x
    <2>2. \A k \in Keys : RowOnward(r, k)
      BY <1>11, <1>12, <2>1
    <2>3. QED
      BY <1>2, <1>4, <2>1, <2>2 DEF Continue
  <1>17. CASE Admit(r)
    <2>1. x.pc = "admitting" /\ UNCHANGED <<day, used, marker, late, charged>>
      BY <1>17 DEF Admit, At, x
    <2>2. \A k \in Keys : RowOnward(r, k)
      BY <1>17, AdmissionOnward DEF Admit, dbVars, RowOnward
    <2>3. PICK y \in {Done(x, "CREATED"), Done(x, "CONFLICT")} : Continue(r, y)
      BY <1>17 DEF Admit, x
    <2>4. QED
      BY <1>2, <1>4, <2>1, <2>2, <2>3 DEF Continue
  <1>18. CASE DbError(r)
    <2>1. /\ x.pc \in DbPcs /\ Continue(r, AfterDbError(x)) /\ UNCHANGED <<day, used, marker, late, charged>>
          /\ UNCHANGED dbVars \/ ExecutedCall(r)
      BY <1>18 DEF DbError, x
    <2>2. x.pc # "idle"
      BY <2>1 DEF DbPcs
    <2>3. ASSUME ExecutedCall(r) PROVE \A k \in Keys : RowOnward(r, k)
      <3>1. CASE Row(r) = NoRow /\ rows' = Created(r)
        BY <1>1, <2>2, <3>1, CreationOnward DEF x
      <3>2. CASE x.pc \in {"persisting", "marking"} /\ rows' = Transition(r, x.target)
        BY <1>11, <1>12, <3>2
      <3>3. CASE x.pc = "markingOther" /\ rows' = Transition(r, OtherMark(x.target))
        BY <1>11, <1>12, <3>3
      <3>4. CASE At(r, "admitting") /\ CanAdmit(r) /\ AdmitEffect(r)
        BY <3>4, AdmissionOnward
      <3>5. QED
        BY <2>3, <3>1, <3>2, <3>3, <3>4 DEF ExecutedCall, At, x
    <2>4. \A k \in Keys : RowOnward(r, k)
      BY <2>1, <2>3 DEF dbVars, RowOnward
    <2>5. QED
      BY <1>2, <1>4, <2>1, <2>2, <2>4 DEF Continue
  <1>19. QED
    BY <1>7, <1>8, <1>9, <1>10, <1>13, <1>14, <1>15, <1>16, <1>17, <1>18 DEF Step

\* A step that gives nobody another admission than the one of its row keeps the names.
LEMMA NamesKept ==
  ASSUME TypeOK, NamesAgree, day' = day, NEW r \in Requests, request[r].pc # "idle",
         NEW y, request' = [request EXCEPT ![r] = y],
         y.key = request[r].key, y.day = request[r].day, y.pc # "idle",
         \/ y.admission = request[r].admission
         \/ Row(r) # NoRow /\ Row(r).day = request[r].day /\ y.admission = Row(r).id,
         \A k \in Keys : RowOnward(r, k)
  PROVE  NamesAgree'
  <1>1. /\ request \in [Requests -> RequestType] /\ rows \in [Keys -> RowType \cup {NoRow}]
        /\ \A q \in Requests : request[q].admission \in Requests /\ request[q].key \in Keys
        /\ \A k \in Keys : rows[k] # NoRow => rows[k].id \in Requests
    BY DEF TypeOK, RequestType, RowType
  <1>2. request'[r] = y /\ \A q \in Requests \ {r} : request'[q] = request[q]
    BY <1>1
  <1>3. \A q \in Requests : /\ request'[q].key = request[q].key /\ request'[q].day = request[q].day
                            /\ request'[q].pc = "idle" <=> request[q].pc = "idle"
    BY <1>2
  <1>4. ASSUME NEW q \in Requests
        PROVE  LET a == request'[q].admission
               IN  /\ request'[a].day = request'[q].day /\ request'[a].key = request'[q].key
                   /\ request'[q].pc # "idle" => request'[a].pc # "idle"
                   /\ request'[q].pc = "idle" => a = q
                   /\ request'[q].day <= day
    <2>1. CASE request'[q].admission = request[q].admission
      BY <1>1, <1>3, <2>1 DEF NamesAgree
    <2>2. CASE q = r /\ Row(r) # NoRow /\ Row(r).day = request[r].day /\ y.admission = Row(r).id
      <3>1. LET a == Row(r).id
            IN  /\ a \in Requests /\ request[a].day = request[r].day /\ request[a].key = request[r].key
                /\ request[a].pc # "idle"
        BY <1>1, <2>2 DEF NamesAgree, Row
      <3>2. QED
        BY <1>2, <1>3, <2>2, <3>1 DEF NamesAgree
    <2>3. QED
      BY <1>2, <2>1, <2>2
  <1>5. ASSUME NEW k \in Keys, rows'[k] # NoRow
        PROVE  LET a == rows'[k].id
               IN  request'[a].day = rows'[k].day /\ request'[a].key = k /\ request'[a].pc # "idle"
    <2>1. CASE rows[k] # NoRow
      <3>1. rows'[k].id = rows[k].id /\ rows'[k].day = rows[k].day
        BY <1>5, <2>1 DEF RowOnward
      <3>2. QED
        BY <1>1, <1>3, <2>1, <3>1 DEF NamesAgree
    <2>2. CASE rows[k] = NoRow
      BY <1>3, <1>5, <2>2 DEF RowOnward
    <2>3. QED
      BY <2>1, <2>2
  <1>6. QED
    BY <1>4, <1>5 DEF NamesAgree

\* Sets of requests can be counted.
LEMMA RequestsCount ==
  ASSUME NEW S \in SUBSET Requests
  PROVE  IsFiniteSet(S) /\ Cardinality(S) \in Nat
  BY RequestsAssumption, FS_Subset, FS_CardinalityType

\* Units are left alone when markers are and nobody's day changes that has one.
LEMMA UnitsKept ==
  ASSUME TypeOK, UnitsAgree, UNCHANGED <<day, used, marker, charged>>,
         \A a \in Requests :
           /\ request[a].pc # "idle" => request'[a].day = request[a].day /\ request'[a].pc # "idle"
           /\ request'[a].pc = "idle" => a \notin late'
  PROVE  UnitsAgree'
  <1>1. \A a \in Requests : request'[a].day = request[a].day \/ (marker[a] = "none" /\ charged[a] = "no")
    BY DEF UnitsAgree
  <1>2. ASSUME NEW d PROVE Holders(d)' = Holders(d) /\ OnTime(d)' = OnTime(d)
    BY <1>1 DEF Holders, OnTime
  <1>3. \A d \in Days : used'[d] = Cardinality(Holders(d)') /\ Cardinality(OnTime(d)') <= Limit
    BY <1>2 DEF UnitsAgree
  <1>4. \A a \in Requests :
          /\ request'[a].pc = "idle" => a \notin late' /\ marker'[a] = "none" /\ charged'[a] = "no"
          /\ marker'[a] = "RESERVED" => charged'[a] # "no"
          /\ charged'[a] = "onTime" /\ request'[a].day = day' => marker'[a] = "RESERVED"
    BY <1>1 DEF UnitsAgree
  <1>5. QED
    BY <1>3, <1>4 DEF UnitsAgree, Days

\* The script counts an admission that has no marker, and a marked one never again.
LEMMA ReservationCounts ==
  ASSUME TypeOK, UnitsAgree, NEW a \in Requests, request[a].pc # "idle", day' = day,
         NEW d \in Days, d = request[a].day, RunReservation(a, d),
         \A q \in Requests : /\ request'[q].day = request[q].day
                             /\ request'[q].pc = "idle" => request[q].pc = "idle" /\ q \notin late'
  PROVE  /\ UnitsAgree'
         /\ \A q \in Requests : charged[q] # "no" => charged'[q] # "no"
         /\ ReservationOutcome(a, d) = "RESERVED" => charged'[a] # "no"
  <1> DEFINE outcome == ReservationOutcome(a, d)
  <1>0. /\ marker \in [Requests -> {"none", "RESERVED", "DENIED"}] /\ used \in [Days -> 0 .. Limit]
        /\ charged \in [Requests -> {"no", "onTime", "late"}] /\ d \in Days /\ day \in Days
        /\ Limit \in Nat
    BY BoundsAssumption DEF TypeOK, RequestType
  <1>1. marker' = [marker EXCEPT ![a] = outcome]
    BY DEF RunReservation
  <1>2. CASE Marked(a) \/ ~UnitLeft(d)
    <2>1. used' = used /\ charged' = charged
      BY <1>2 DEF RunReservation
    <2>2. marker'[a] = "RESERVED" <=> marker[a] = "RESERVED"
      BY <1>0, <1>1, <1>2 DEF ReservationOutcome, Marked
    <2>3. \A q \in Requests : marker'[q] = "RESERVED" <=> marker[q] = "RESERVED"
      BY <1>0, <1>1, <2>2
    <2>4. \A q \in Requests \ {a} : marker'[q] = marker[q]
      BY <1>0, <1>1
    <2>5. ASSUME NEW e PROVE Holders(e)' = Holders(e) /\ OnTime(e)' = OnTime(e)
      BY <2>1, <2>3 DEF Holders, OnTime
    <2>6. \A e \in Days : used'[e] = Cardinality(Holders(e)') /\ Cardinality(OnTime(e)') <= Limit
      BY <2>1, <2>5 DEF UnitsAgree
    <2>7. \A q \in Requests :
            /\ request'[q].pc = "idle" => q \notin late' /\ marker'[q] = "none" /\ charged'[q] = "no"
            /\ marker'[q] = "RESERVED" => charged'[q] # "no"
            /\ charged'[q] = "onTime" /\ request'[q].day = day' => marker'[q] = "RESERVED"
      BY <2>1, <2>3, <2>4 DEF UnitsAgree
    <2>8. outcome = "RESERVED" => charged'[a] # "no"
      BY <1>0, <1>1, <2>7
    <2>9. QED
      BY <2>1, <2>6, <2>7, <2>8 DEF UnitsAgree, Days
  <1>3. CASE ~Marked(a) /\ UnitLeft(d)
    <2>1. /\ used' = [used EXCEPT ![d] = @ + 1] /\ used[d] < Limit /\ outcome = "RESERVED"
          /\ charged' = [charged EXCEPT ![a] =
               IF @ # "no" THEN @ ELSE IF d = day THEN "onTime" ELSE "late"]
          /\ marker[a] = "none"
      BY <1>3 DEF RunReservation, UnitLeft, Marked, ReservationOutcome
    <2>2. /\ marker'[a] = "RESERVED" /\ \A q \in Requests \ {a} : marker'[q] = marker[q]
          /\ \A q \in Requests \ {a} : charged'[q] = charged[q]
          /\ charged'[a] # "no"
          /\ used'[d] = used[d] + 1 /\ \A e \in Days \ {d} : used'[e] = used[e]
      BY <1>0, <1>1, <2>1
    <2>3. /\ charged'[a] = "onTime" <=> charged[a] = "onTime" \/ (charged[a] = "no" /\ d = day)
      BY <1>0, <2>1
    <2>4. /\ a \notin Holders(d) /\ Holders(d)' = Holders(d) \cup {a}
          /\ \A e \in Days \ {d} : Holders(e)' = Holders(e)
      BY <2>1, <2>2 DEF Holders
    <2>5. Cardinality(Holders(d)') = used'[d]
      <3>1. Holders(d) \subseteq Requests
        BY DEF Holders
      <3>2. Cardinality(Holders(d)) = used[d]
        BY <1>0 DEF UnitsAgree
      <3>3. QED
        BY <2>2, <2>4, <3>1, <3>2, RequestsCount, FS_AddElement
    <2>6. ASSUME NEW e \in Days PROVE used'[e] = Cardinality(Holders(e)')
      <3>1. CASE e = d
        BY <2>5, <3>1
      <3>2. CASE e # d
        BY <2>2, <2>4, <3>2 DEF UnitsAgree
      <3>3. QED
        BY <3>1, <3>2
    <2>7. ASSUME NEW e \in Days PROVE Cardinality(OnTime(e)') <= Limit
      <3>1. CASE e = d /\ d = day /\ charged[a] = "no"
        <4>1. OnTime(day) \subseteq Holders(day) /\ Holders(day) \subseteq Requests /\ OnTime(day) \subseteq Requests
          BY DEF UnitsAgree, OnTime, Holders
        <4>2. Cardinality(OnTime(day)) <= used[day]
          BY <1>0, <4>1, RequestsCount, FS_Subset DEF UnitsAgree
        <4>3. OnTime(e)' = OnTime(day) \cup {a} /\ a \notin OnTime(day)
          BY <2>2, <2>3, <3>1 DEF OnTime
        <4>4. Cardinality(OnTime(e)') = Cardinality(OnTime(day)) + 1
          BY <4>1, <4>3, RequestsCount, FS_AddElement
        <4>5. Cardinality(OnTime(day)) \in Nat /\ used[day] \in Nat /\ used[day] < Limit
          BY <1>0, <2>1, <3>1, <4>1, RequestsCount
        <4>6. QED
          BY <1>0, <4>2, <4>4, <4>5
      <3>2. CASE ~(e = d /\ d = day /\ charged[a] = "no")
        <4>1. OnTime(e)' = OnTime(e)
          BY <2>2, <2>3, <3>2 DEF OnTime
        <4>2. QED
          BY <4>1 DEF UnitsAgree
      <3>3. QED
        BY <3>1, <3>2
    <2>8. \A q \in Requests :
            /\ request'[q].pc = "idle" => q \notin late' /\ marker'[q] = "none" /\ charged'[q] = "no"
            /\ marker'[q] = "RESERVED" => charged'[q] # "no"
            /\ charged'[q] = "onTime" /\ request'[q].day = day' => marker'[q] = "RESERVED"
      BY <2>2 DEF UnitsAgree
    <2>9. QED
      BY <2>2, <2>6, <2>7, <2>8 DEF UnitsAgree, Days
  <1>4. QED
    BY <1>2, <1>3

\* The keys of a day that is over expire together.
LEMMA ExpiryKeepsUnits ==
  ASSUME TypeOK, UnitsAgree, NEW d \in Days, Expire(d)
  PROVE  UnitsAgree'
  <1>1. /\ d < day /\ used' = [used EXCEPT ![d] = 0] /\ UNCHANGED <<day, request, late, charged>>
        /\ marker' = [a \in Requests |-> IF request[a].day = d THEN "none" ELSE marker[a]]
    BY DEF Expire, IsOver
  <1>2. used \in [Days -> 0 .. Limit] /\ day \in Days /\ Days \subseteq Nat
    BY BoundsAssumption DEF TypeOK, Days
  <1>3. \A a \in Requests : marker'[a] = IF request[a].day = d THEN "none" ELSE marker[a]
    BY <1>1
  <1>4. Holders(d)' = {} /\ \A e \in Days \ {d} : Holders(e)' = Holders(e)
    BY <1>1, <1>3 DEF Holders
  <1>5. ASSUME NEW e \in Days PROVE used'[e] = Cardinality(Holders(e)')
    <2>1. CASE e = d
      BY <1>1, <1>2, <1>4, <2>1, FS_EmptySet
    <2>2. CASE e # d
      BY <1>1, <1>2, <1>4, <2>2 DEF UnitsAgree
    <2>3. QED
      BY <2>1, <2>2
  <1>6. \A e : OnTime(e)' = OnTime(e)
    BY <1>1 DEF OnTime
  <1>7. \A e \in Days : Cardinality(OnTime(e)') <= Limit
    BY <1>6 DEF UnitsAgree
  <1>8. \A a \in Requests :
          /\ request'[a].pc = "idle" => a \notin late' /\ marker'[a] = "none" /\ charged'[a] = "no"
          /\ marker'[a] = "RESERVED" => charged'[a] # "no"
          /\ charged'[a] = "onTime" /\ request'[a].day = day' => marker'[a] = "RESERVED"
    BY <1>1, <1>2, <1>3 DEF UnitsAgree
  <1>9. QED
    BY <1>5, <1>7, <1>8 DEF UnitsAgree, Days

\* A new day starts with no admissions counted.
LEMMA MidnightKeepsUnits ==
  ASSUME TypeOK, NamesAgree, UnitsAgree, Midnight
  PROVE  NamesAgree' /\ UnitsAgree'
  <1>1. day' = day + 1 /\ UNCHANGED <<request, rows, used, marker, late, charged>>
    BY DEF Midnight
  <1>2. day \in Nat /\ \A a \in Requests : request[a].day \in Nat /\ request[a].day <= day
    BY BoundsAssumption DEF TypeOK, RequestType, Days, NamesAgree
  <1>3. \A a \in Requests : request[a].day <= day + 1 /\ request[a].day # day + 1
    BY <1>2
  <1>4. NamesAgree'
    BY <1>1, <1>3 DEF NamesAgree
  <1>5. \A e : Holders(e)' = Holders(e) /\ OnTime(e)' = OnTime(e)
    BY <1>1 DEF Holders, OnTime
  <1>6. \A e \in Days : used'[e] = Cardinality(Holders(e)') /\ Cardinality(OnTime(e)') <= Limit
    BY <1>1, <1>5 DEF UnitsAgree
  <1>7. \A a \in Requests :
          /\ request'[a].pc = "idle" => a \notin late' /\ marker'[a] = "none" /\ charged'[a] = "no"
          /\ marker'[a] = "RESERVED" => charged'[a] # "no"
          /\ charged'[a] = "onTime" /\ request'[a].day = day' => marker'[a] = "RESERVED"
    BY <1>1, <1>3 DEF UnitsAgree
  <1>8. QED
    BY <1>4, <1>6, <1>7 DEF UnitsAgree, Days

\* A request that arrives is nobody's admission yet.
LEMMA ArrivalKeepsUnits ==
  ASSUME TypeOK, UnitInvariant, NEW r \in Requests, Arrive(r)
  PROVE  UnitInvariant'
  <1> DEFINE y == [request[r] EXCEPT !.pc = "finding", !.day = day]
  <1>1. /\ request \in [Requests -> RequestType] /\ rows \in [Keys -> RowType \cup {NoRow}]
        /\ \A q \in Requests : request[q].admission \in Requests /\ request[q].key \in Keys
        /\ \A k \in Keys : rows[k] # NoRow => rows[k].id \in Requests
        /\ day \in Nat
    BY BoundsAssumption DEF TypeOK, RequestType, RowType, Days
  <1>2. /\ request[r].pc = "idle" /\ request' = [request EXCEPT ![r] = y]
        /\ UNCHANGED <<day, rows, used, marker, late, charged>>
    BY <1>1 DEF Arrive, At
  <1>3. /\ y.pc = "finding" /\ y.day = day /\ y.key = request[r].key
        /\ y.admission = request[r].admission
    BY <1>1 DEF RequestType
  <1> HIDE DEF y
  <1>4. request'[r] = y /\ \A q \in Requests \ {r} : request'[q] = request[q]
    BY <1>1, <1>2
  <1>5. request[r].admission = r /\ \A q \in Requests \ {r} : request[q].admission # r
    BY <1>2 DEF UnitInvariant, NamesAgree
  <1>6. ASSUME NEW q \in Requests
        PROVE  LET a == request'[q].admission
               IN  /\ request'[a].day = request'[q].day /\ request'[a].key = request'[q].key
                   /\ request'[q].pc # "idle" => request'[a].pc # "idle"
                   /\ request'[q].pc = "idle" => a = q
                   /\ request'[q].day <= day
    <2>1. CASE q = r
      BY <1>1, <1>3, <1>4, <1>5, <2>1
    <2>2. CASE q # r
      BY <1>1, <1>4, <1>5, <2>2 DEF UnitInvariant, NamesAgree
    <2>3. QED
      BY <2>1, <2>2
  <1>7. \A k \in Keys : rows[k] # NoRow =>
          LET a == rows[k].id
          IN  request'[a].day = rows[k].day /\ request'[a].key = k /\ request'[a].pc # "idle"
    BY <1>1, <1>2, <1>4 DEF UnitInvariant, NamesAgree
  <1>8. NamesAgree'
    BY <1>2, <1>6, <1>7 DEF NamesAgree
  <1>9. UnitsAgree'
    BY <1>2, <1>3, <1>4, UnitsKept DEF UnitInvariant, UnitsAgree
  <1>10. ReservedWasCharged'
    BY <1>2, <1>3, <1>4 DEF UnitInvariant, ReservedWasCharged
  <1>11. QED
    BY <1>8, <1>9, <1>10 DEF UnitInvariant

\* Any other step of a request that leaves Redis alone.
LEMMA OnwardKeepsUnits ==
  ASSUME TypeOK, UnitInvariant, NEW r \in Requests, OnwardStep(r)
  PROVE  UnitInvariant'
  <1> DEFINE named == [request[r] EXCEPT !.admission = Row(r).id]
  <1>1. PICK y : /\ request' = [request EXCEPT ![r] = y]
                 /\ \/ Onward(request[r], y)
                    \/ /\ request[r].pc \in {"finding", "inserting"}
                       /\ Row(r) # NoRow /\ Row(r).day = request[r].day /\ Onward(named, y)
    BY DEF OnwardStep
  <1>2. /\ request \in [Requests -> RequestType] /\ rows \in [Keys -> RowType \cup {NoRow}]
        /\ request[r] \in RequestType /\ request[r].pc # "idle"
        /\ UNCHANGED <<day, used, marker, charged>> /\ late' \subseteq late \cup {r}
        /\ \A k \in Keys : RowOnward(r, k)
    BY DEF TypeOK, OnwardStep
  <1>3. /\ named.key = request[r].key /\ named.day = request[r].day /\ named.pc = request[r].pc
        /\ named.admission = Row(r).id
    BY <1>2 DEF RequestType
  <1> HIDE DEF named
  <1>4. /\ y.key = request[r].key /\ y.day = request[r].day /\ y.pc # "idle"
        /\ \/ y.admission = request[r].admission
           \/ Row(r) # NoRow /\ Row(r).day = request[r].day /\ y.admission = Row(r).id
        /\ y.pc \in {"persisting", "persistMissed"} =>
             request[r].pc = "persisting" /\ y.target = request[r].target /\ y.admission = request[r].admission
    BY <1>1, <1>3 DEF Onward
  <1>5. request'[r] = y /\ \A q \in Requests \ {r} : request'[q] = request[q]
    BY <1>1, <1>2
  <1>6. NamesAgree'
    BY <1>1, <1>2, <1>4, NamesKept DEF UnitInvariant
  <1>7. UnitsAgree'
    BY <1>2, <1>4, <1>5, UnitsKept DEF UnitInvariant, UnitsAgree
  <1>8. \A q \in Requests :
          request'[q].pc \in {"persisting", "persistMissed"} /\ request'[q].target = "RESERVED"
            => charged[request'[q].admission] # "no"
    BY <1>4, <1>5 DEF UnitInvariant, ReservedWasCharged
  <1>9. ASSUME NEW k \in Keys, rows'[k] # NoRow, rows'[k].status \in {"RESERVED", "ADMITTED"}
        PROVE  charged[rows'[k].id] # "no"
    BY <1>2, <1>9 DEF UnitInvariant, ReservedWasCharged, RowOnward
  <1>10. ReservedWasCharged'
    BY <1>2, <1>8, <1>9 DEF ReservedWasCharged
  <1>11. QED
    BY <1>6, <1>7, <1>10 DEF UnitInvariant

\* The reservation of a request, in time or late.
LEMMA ReservationKeepsUnits ==
  ASSUME TypeOK, UnitInvariant, NEW r \in Requests, Reserve(r) \/ LateReservation(r)
  PROVE  UnitInvariant'
  <1> DEFINE a == request[r].admission
             d == request[r].day
             y == [request[r] EXCEPT !.pc = "persisting", !.target = ReservationOutcome(a, d)]
  <1>1. /\ request \in [Requests -> RequestType] /\ request[r] \in RequestType
        /\ a \in Requests /\ d \in Days
        /\ RunReservation(a, d) /\ UNCHANGED <<day, rows>> /\ late' \subseteq late
    BY DEF TypeOK, RequestType, Reserve, LateReservation
  <1>2. request[r].pc # "idle" /\ request[a].day = d /\ request[a].pc # "idle"
    BY DEF Reserve, LateReservation, At, UnitInvariant, NamesAgree, UnitsAgree
  <1>3. /\ y.pc = "persisting" /\ y.key = request[r].key /\ y.day = d /\ y.admission = a
        /\ y.target = ReservationOutcome(a, d)
    BY <1>1 DEF RequestType
  <1>4. request' \in {request, [request EXCEPT ![r] = y]}
    BY DEF Reserve, LateReservation, Continue
  <1> HIDE DEF a, d, y
  <1>5. request'[r] \in {request[r], y} /\ \A q \in Requests \ {r} : request'[q] = request[q]
    BY <1>1, <1>4
  <1>6. \A q \in Requests : /\ request'[q].day = request[q].day
                            /\ request'[q].pc = "idle" => request[q].pc = "idle" /\ q \notin late'
    BY <1>1, <1>2, <1>3, <1>5 DEF UnitInvariant, UnitsAgree, d
  <1>7. /\ UnitsAgree'
        /\ \A q \in Requests : charged[q] # "no" => charged'[q] # "no"
        /\ ReservationOutcome(a, d) = "RESERVED" => charged'[a] # "no"
    <2>1. PICK b \in Requests, e \in Days : b = a /\ e = d
      BY <1>1
    <2>2. /\ e = request[b].day /\ request[b].pc # "idle" /\ day' = day /\ UnitsAgree
          /\ RunReservation(b, e)
      BY <1>1, <1>2, <2>1 DEF UnitInvariant, RunReservation, ReservationOutcome, Marked, UnitLeft
    <2>3. /\ UnitsAgree'
          /\ \A q \in Requests : charged[q] # "no" => charged'[q] # "no"
          /\ ReservationOutcome(b, e) = "RESERVED" => charged'[b] # "no"
      BY <1>1, <1>2, <1>6, <2>2, ReservationCounts
    <2>4. QED
      BY <2>1, <2>3
  <1>8. NamesAgree'
    <2>1. CASE request' = request
      BY <1>1, <2>1 DEF UnitInvariant, NamesAgree
    <2>2. CASE request' = [request EXCEPT ![r] = y]
      BY <1>1, <1>2, <1>3, <2>2, NamesKept DEF UnitInvariant, RowOnward, a, d
    <2>3. QED
      BY <1>4, <2>1, <2>2
  <1>9. ASSUME NEW q \in Requests, request'[q].pc \in {"persisting", "persistMissed"},
               request'[q].target = "RESERVED"
        PROVE  charged'[request'[q].admission] # "no"
    <2>1. request[q].admission \in Requests
      BY <1>1 DEF RequestType
    <2>2. QED
      BY <1>3, <1>5, <1>7, <1>9, <2>1 DEF UnitInvariant, ReservedWasCharged
  <1>10. ASSUME NEW k \in Keys, rows'[k] # NoRow, rows'[k].status \in {"RESERVED", "ADMITTED"}
         PROVE  charged'[rows'[k].id] # "no"
    <2>1. rows[k].id \in Requests
      BY <1>1, <1>10 DEF TypeOK, RowType
    <2>2. QED
      BY <1>1, <1>7, <1>10, <2>1 DEF UnitInvariant, ReservedWasCharged
  <1>11. ReservedWasCharged'
    BY <1>9, <1>10 DEF ReservedWasCharged
  <1>12. QED
    BY <1>7, <1>8, <1>11 DEF UnitInvariant

\* Every step keeps the names, the counters and what rests on them.
LEMMA StepKeepsUnits == AdmissionInvariant /\ UnitInvariant /\ [Next]_vars => UnitInvariant'
  <1> SUFFICES ASSUME AdmissionInvariant, UnitInvariant, [Next]_vars PROVE UnitInvariant'
    OBVIOUS
  <1>1. TypeOK
    BY DEF AdmissionInvariant
  <1>2. ASSUME NEW r \in Requests, Step(r) PROVE UnitInvariant'
    <2>1. CASE Arrive(r)
      BY <1>1, <2>1, ArrivalKeepsUnits
    <2>2. CASE Reserve(r)
      BY <1>1, <2>2, ReservationKeepsUnits
    <2>3. CASE ~Arrive(r) /\ ~Reserve(r)
      BY <1>1, <1>2, <2>3, QuietStepsGoOnward, OnwardKeepsUnits
    <2>4. QED
      BY <2>1, <2>2, <2>3
  <1>3. ASSUME NEW r \in Requests, LateReservation(r) PROVE UnitInvariant'
    BY <1>1, <1>3, ReservationKeepsUnits
  <1>4. ASSUME UNCHANGED <<day, request, rows, used, marker, late, charged>> PROVE UnitInvariant'
    <2>1. NamesAgree' /\ ReservedWasCharged'
      BY <1>4 DEF UnitInvariant, NamesAgree, ReservedWasCharged
    <2>2. UnitsAgree'
      BY <1>1, <1>4, UnitsKept DEF UnitInvariant, UnitsAgree
    <2>3. QED
      BY <2>1, <2>2 DEF UnitInvariant
  <1>5. ASSUME NEW k \in Keys, Delete(k) PROVE UnitInvariant'
    BY <1>4, <1>5 DEF Delete
  <1>6. CASE UNCHANGED vars
    BY <1>4, <1>6 DEF vars
  <1>7. CASE Midnight
    BY <1>1, <1>7, MidnightKeepsUnits DEF UnitInvariant, Midnight, ReservedWasCharged
  <1>8. ASSUME NEW d \in Days, Expire(d) PROVE UnitInvariant'
    BY <1>1, <1>8, ExpiryKeepsUnits DEF UnitInvariant, Expire, NamesAgree, ReservedWasCharged
  <1>9. QED
    BY <1>2, <1>3, <1>5, <1>6, <1>7, <1>8 DEF Next

\* Before the first request nothing is counted.
LEMMA InitEstablishesUnits == Init => UnitInvariant
  <1> SUFFICES ASSUME Init PROVE UnitInvariant
    OBVIOUS
  <1>1. PICK key \in [Requests -> Keys], body \in [Requests -> Fingerprints] :
          request = [r \in Requests |->
                      [ pc |-> "idle", key |-> key[r], fingerprint |-> body[r], day |-> 0,
                        admission |-> r, target |-> "none", outcome |-> "none" ]]
    BY DEF Init
  <1>2. \A r \in Requests : /\ request[r].pc = "idle" /\ request[r].day = 0
                            /\ request[r].admission = r
    BY <1>1
  <1>3. NamesAgree /\ ReservedWasCharged
    BY <1>2 DEF Init, NamesAgree, ReservedWasCharged
  <1>4. \A d : Holders(d) = {} /\ OnTime(d) = {}
    BY DEF Init, Holders, OnTime
  <1>5. UnitsAgree
    <2>1. \A d \in Days : used[d] = 0
      BY DEF Init
    <2>2. Cardinality({}) = 0 /\ 0 <= Limit
      BY FS_EmptySet, BoundsAssumption
    <2>3. \A d \in Days : used[d] = Cardinality(Holders(d)) /\ Cardinality(OnTime(d)) <= Limit
      BY <1>4, <2>1, <2>2
    <2>4. \A a \in Requests : a \notin late /\ marker[a] = "none" /\ charged[a] = "no"
      BY DEF Init
    <2>5. QED
      BY <2>3, <2>4 DEF UnitsAgree
  <1>6. QED
    BY <1>3, <1>5 DEF UnitInvariant

\* Units, names and rows agree throughout.
LEMMA UnitInvariantHolds == Spec => [](AdmissionInvariant /\ UnitInvariant)
  <1>1. Init => AdmissionInvariant /\ UnitInvariant
    BY InitEstablishesInvariant, InitEstablishesUnits
  <1>2. AdmissionInvariant /\ UnitInvariant /\ [Next]_vars => (AdmissionInvariant /\ UnitInvariant)'
    BY StepKeepsInvariant, StepKeepsUnits
  <1>3. QED
    BY <1>1, <1>2, PTL DEF Spec

\* The counter of every day is the number of its reserved admissions, for any number
\* of requests, retries, late scripts and days (RESERVE_QUOTA_ADMISSION_SCRIPT).
THEOREM UnitsAreCounted == Spec => []UnitsCountedOnce
  <1>1. UnitInvariant => UnitsCountedOnce
    BY DEF UnitInvariant, UnitsAgree, Holders, UnitsCountedOnce
  <1>2. QED
    BY <1>1, UnitInvariantHolds, PTL

\* No day admits more than its quota, whatever the quota: rows name different
\* admissions, and those counted on time are no more than the counter allowed.
THEOREM LimitHolds == Spec => []AdmittedWithinLimit
  <1>1. AdmissionInvariant /\ UnitInvariant => AdmittedWithinLimit
    <2> SUFFICES ASSUME AdmissionInvariant, UnitInvariant, NEW d \in Days
                 PROVE  Cardinality({k \in Keys : /\ rows[k] # NoRow /\ rows[k].day = d
                                                  /\ rows[k].status \in {"RESERVED", "ADMITTED"}
                                                  /\ charged[rows[k].id] # "late"}) <= Limit
      BY DEF AdmittedWithinLimit
    <2> DEFINE Within == {k \in Keys : /\ rows[k] # NoRow /\ rows[k].day = d
                                       /\ rows[k].status \in {"RESERVED", "ADMITTED"}
                                       /\ charged[rows[k].id] # "late"}
               id == [k \in Within |-> rows[k].id]
    <2>1. ASSUME NEW k \in Within PROVE id[k] \in OnTime(d) /\ request[id[k]].key = k
      <3>1. rows[k] # NoRow /\ rows[k] \in RowType
        BY DEF AdmissionInvariant, TypeOK
      <3>2. rows[k].id \in Requests /\ charged[rows[k].id] \in {"no", "onTime", "late"}
        BY <3>1 DEF AdmissionInvariant, TypeOK, RowType
      <3>3. QED
        BY <3>1, <3>2 DEF UnitInvariant, NamesAgree, ReservedWasCharged, OnTime
    <2>2. OnTime(d) \subseteq Requests
      BY DEF OnTime
    <2> HIDE DEF id
    <2>3. id \in Injection(Within, OnTime(d))
      <3>1. id \in [Within -> OnTime(d)] /\ DOMAIN id = Within
        BY <2>1 DEF id
      <3>2. \A j, k \in Within : id[j] = id[k] => j = k
        BY <2>1
      <3>3. QED
        BY <3>1, <3>2 DEF Injection, IsInjective
    <2>4. IsFiniteSet(OnTime(d)) /\ Cardinality(OnTime(d)) \in Nat /\ Cardinality(OnTime(d)) <= Limit
      BY <2>2, RequestsCount DEF UnitInvariant, UnitsAgree
    <2>5. IsFiniteSet(Within) /\ Cardinality(Within) <= Cardinality(OnTime(d))
      BY <2>3, <2>4, FS_Injection
    <2>6. Cardinality(Within) \in Nat
      BY <2>5, FS_CardinalityType
    <2>7. QED
      BY <2>4, <2>5, <2>6, BoundsAssumption
  <1>2. QED
    BY <1>1, UnitInvariantHolds, PTL
===============================================================================
