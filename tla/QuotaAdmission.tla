---------------------------- MODULE QuotaAdmission ----------------------------
(***************************************************************************)
(* Admission of new reviews (QuotaAdmissionHttpService.admit): a request   *)
(* with an idempotency key records an intent in quota_admissions, reserves *)
(* a unit of the user's daily quota with one Redis script, persists what   *)
(* Redis said, and has the finalizer create the review and mark the intent *)
(* ADMITTED in one transaction.                                            *)
(*                                                                         *)
(* Requests run concurrently and several may carry one key.  Each database *)
(* call and the script is one step, the finalizer's transaction two: what  *)
(* it reads, and the writes that depend on it (READ COMMITTED, the         *)
(* database's default, lets another transaction commit in between).        *)
(* A request whose process crashes is one that takes no further step.      *)
(*                                                                         *)
(* One user and one review mode: the quota is counted per user and mode,   *)
(* keys belong to a user, and the mode is part of the fingerprint.  An     *)
(* admission is named by the request that proposed its id.  The script     *)
(* that gives a unit back is never called by the service.                  *)
(***************************************************************************)
EXTENDS Naturals, FiniteSets

CONSTANTS Keys,         \* idempotency keys
          Fingerprints, \* fingerprints of request bodies
          Requests,     \* HTTP requests; also the admission ids they propose
          NoRow,        \* stands for an absent row
          Limit,        \* the daily quota
          LastDay,      \* bound on the UTC days that pass
          MaxDbErrors,  \* bound on failed database calls
          MaxRedisErrors\* bound on failed reservations

Days == 0 .. LastDay

ASSUME BoundsAssumption == /\ Limit \in Nat /\ LastDay \in Nat
                           /\ MaxDbErrors \in Nat /\ MaxRedisErrors \in Nat
ASSUME RequestsAssumption == IsFiniteSet(Requests)

VARIABLES day,      \* the current UTC day
          request,  \* the progress of each request
          rows,     \* quota_admissions: the row of each key, or NoRow
          reviews,  \* the review of each key: none, live or deleted
          used,     \* Redis: the counter of each day
          marker,   \* Redis: the marker of each admission
          late,     \* requests whose failed reservation may still execute
          charged,  \* history: when Redis first counted each admission
          budget    \* errors spent so far

vars == <<day, request, rows, reviews, used, marker, late, charged, budget>>

-------------------------------------------------------------------------------
(* Rows and their legal transitions. *)

AdmissionStatuses == {"PENDING", "RESERVED", "ADMITTED", "DENIED",
                      "INDETERMINATE", "RECONCILE_REQUIRED"}

RowType == [ id : Requests, fingerprint : Fingerprints, day : Days,
             status : AdmissionStatuses ]

ASSUME NoRowAssumption == NoRow \notin RowType

\* Faulty variant: a denied intent may be reserved by a later attempt.
SourcesAfterDenial(to) ==
  CASE to = "DENIED" -> {"PENDING", "RECONCILE_REQUIRED"}
    [] to = "INDETERMINATE" -> {"PENDING", "RESERVED"}
    [] to = "RECONCILE_REQUIRED" -> {"PENDING", "INDETERMINATE", "RESERVED"}
    [] to = "RESERVED" -> {"PENDING", "INDETERMINATE", "RECONCILE_REQUIRED", "DENIED"}

\* QUOTA_ADMISSION_TRANSITIONS: the statuses a transition to each may start from.
Sources(to) ==
  CASE to = "DENIED" -> {"PENDING", "RECONCILE_REQUIRED"}
    [] to = "INDETERMINATE" -> {"PENDING", "RESERVED"}
    [] to = "RECONCILE_REQUIRED" -> {"PENDING", "INDETERMINATE", "RESERVED"}
    [] to = "RESERVED" -> {"PENDING", "INDETERMINATE", "RECONCILE_REQUIRED"}

Row(r) == rows[request[r].key]

\* The row with the id the request works on: its own candidate may not exist.
HasRow(r) == Row(r) # NoRow /\ Row(r).id = request[r].admission

\* Faulty variant: a stored intent is recognised by its key alone.
SameKeyAndDay(r, row) == row.day = request[r].day

\* The checks of createOrGet and createIntent on a row found under the key.
SameRequest(r, row) == /\ row.fingerprint = request[r].fingerprint
                       /\ row.day = request[r].day

\* The WHERE clause of transitionForOwner.
Applies(r, to) == HasRow(r) /\ Row(r).status \in Sources(to)

SetStatus(r, to) == [rows EXCEPT ![request[r].key].status = to]

Transition(r, to) == IF Applies(r, to) THEN SetStatus(r, to) ELSE rows

Created(r) == [rows EXCEPT ![request[r].key] =
                 [ id |-> r, fingerprint |-> request[r].fingerprint,
                   day |-> request[r].day, status |-> "PENDING" ]]

-------------------------------------------------------------------------------
(* The progress of a request. *)

\* What POST /reviews answers: 201, 200, 429, 409 and 503.
Outcomes == {"CREATED", "REPLAYED", "RATE_LIMITED", "CONFLICT", "UNAVAILABLE"}

\* Where a request waits for the database.
DbPcs == {"finding", "inserting", "rereading", "persisting", "persistMissed",
          "marking", "markMissed", "markingOther", "finalizing", "admitting",
          "replaying"}

Pcs == {"idle", "reserving", "done"} \cup DbPcs

Goto(x, pc) == [x EXCEPT !.pc = pc]
Done(x, outcome) == [x EXCEPT !.pc = "done", !.outcome = outcome]

\* markSafeStatus with its preferred status; the caller then answers 503.
MarkSafe(x, preferred) == [x EXCEPT !.pc = "marking", !.target = preferred]

OtherMark(preferred) ==
  IF preferred = "INDETERMINATE" THEN "RECONCILE_REQUIRED" ELSE "INDETERMINATE"

Recognise(r, row) ==
  IF SameRequest(r, row)
  THEN [request[r] EXCEPT !.pc = "rereading", !.admission = row.id]
  ELSE Done(request[r], "CONFLICT")

\* What admit does with the status of the admission.
Dispatch(x, status) ==
  CASE status = "PENDING" -> Goto(x, "reserving")
    [] status = "DENIED" -> Done(x, "RATE_LIMITED")
    [] status \in {"INDETERMINATE", "RECONCILE_REQUIRED"} -> Done(x, "UNAVAILABLE")
    [] status \in {"RESERVED", "ADMITTED"} -> Goto(x, "finalizing")

\* What the request does once the outcome of its reservation is on record.
Reserved(x) == IF x.target = "DENIED" THEN Done(x, "RATE_LIMITED")
                                      ELSE Goto(x, "finalizing")

\* readAfterTransitionRace: a concurrent request may have written the same.
Settled(target) == IF target = "RESERVED" THEN {"RESERVED", "ADMITTED"} ELSE {target}

\* Where a failed database call leaves the request.
AfterDbError(x) ==
  CASE x.pc = "persisting" -> Goto(x, "persistMissed")
    [] x.pc \in {"marking", "markMissed"} -> Goto(x, "markingOther")
    [] x.pc = "markingOther" -> Done(x, "UNAVAILABLE")
    [] OTHER -> MarkSafe(x, "RECONCILE_REQUIRED")

Continue(r, x) == request' = [request EXCEPT ![r] = x]
At(r, pc) == request[r].pc = pc

redisVars == <<used, marker, charged>>
dbVars == <<rows, reviews>>

-------------------------------------------------------------------------------
(* The reservation script and the keys of a day. *)

\* Faulty variant: the script does not look for a marker of the admission.
NeverMarked(a) == FALSE

Marked(a) == marker[a] # "none"

UnitLeft(d) == used[d] < Limit

\* What the script answers for admission a of day d ...
ReservationOutcome(a, d) ==
  IF Marked(a) THEN marker[a] ELSE IF UnitLeft(d) THEN "RESERVED" ELSE "DENIED"

\* ... and what it changes: a marker makes it a replay, else the outcome is
\* marked and a reserved unit counted.
RunReservation(a, d) ==
  /\ marker' = [marker EXCEPT ![a] = ReservationOutcome(a, d)]
  /\ IF ~Marked(a) /\ UnitLeft(d)
     THEN /\ used' = [used EXCEPT ![d] = @ + 1]
          /\ charged' = [charged EXCEPT ![a] =
                           IF @ # "no" THEN @ ELSE IF d = day THEN "onTime" ELSE "late"]
     ELSE UNCHANGED <<used, charged>>

\* Faulty variant: the keys of a day may expire before it is over.
IsOverEarly(d) == d <= day

\* The expiry is the request's time to midnight, rounded up, added to the time
\* the script runs: never before midnight, later when the script runs late.
IsOver(d) == d < day

\* The counter of a day and its markers share one expiry.  A request proposes an
\* admission of its own day, so the markers of a day are those of its requests.
Expire(d) ==
  /\ IsOver(d)
  /\ used' = [used EXCEPT ![d] = 0]
  /\ marker' = [a \in Requests |-> IF request[a].day = d THEN "none" ELSE marker[a]]
  /\ UNCHANGED <<day, request, rows, reviews, late, charged, budget>>

Midnight ==
  /\ day < LastDay
  /\ day' = day + 1
  /\ UNCHANGED <<request, rows, reviews, used, marker, late, charged, budget>>

\* A reservation whose reply timed out reaches Redis after all.
LateReservation(r) ==
  /\ r \in late
  /\ late' = late \ {r}
  /\ RunReservation(request[r].admission, request[r].day)
  /\ UNCHANGED <<day, request, rows, reviews, budget>>

-------------------------------------------------------------------------------
(* The steps of a request. *)

Arrive(r) ==
  /\ At(r, "idle")
  /\ request' = [request EXCEPT ![r].pc = "finding", ![r].day = day]
  /\ UNCHANGED <<day, rows, reviews, used, marker, late, charged, budget>>

\* createOrGet looks for a row under the key ...
Find(r) ==
  /\ At(r, "finding")
  /\ Continue(r, IF Row(r) = NoRow THEN Goto(request[r], "inserting")
                                   ELSE Recognise(r, Row(r)))
  /\ UNCHANGED <<day, rows, reviews, used, marker, late, charged, budget>>

\* ... and inserts one; when the unique index objects it takes the row that won.
Insert(r) ==
  /\ At(r, "inserting")
  /\ IF Row(r) = NoRow
     THEN /\ rows' = Created(r)
          /\ Continue(r, Dispatch(request[r], "PENDING"))
     ELSE /\ Continue(r, Recognise(r, Row(r)))
          /\ UNCHANGED rows
  /\ UNCHANGED <<day, reviews, used, marker, late, charged, budget>>

Reread(r) ==
  /\ At(r, "rereading")
  /\ Continue(r, Dispatch(request[r], Row(r).status))
  /\ UNCHANGED <<day, rows, reviews, used, marker, late, charged, budget>>

Reserve(r) ==
  LET a == request[r].admission  d == request[r].day
  IN  /\ At(r, "reserving")
      /\ RunReservation(a, d)
      /\ Continue(r, [request[r] EXCEPT !.pc = "persisting",
                                        !.target = ReservationOutcome(a, d)])
      /\ UNCHANGED <<day, rows, reviews, late, budget>>

\* The reply is lost or late; the command may or may not run.
ReserveFails(r) ==
  /\ At(r, "reserving")
  /\ budget.redis < MaxRedisErrors
  /\ budget' = [budget EXCEPT !.redis = @ + 1]
  /\ late' = late \cup {r}
  /\ Continue(r, MarkSafe(request[r], "INDETERMINATE"))
  /\ UNCHANGED <<day, rows, reviews, used, marker, charged>>

\* persistKnownReservation
Persist(r) ==
  /\ At(r, "persisting")
  /\ rows' = Transition(r, request[r].target)
  /\ Continue(r, IF Applies(r, request[r].target)
                 THEN Reserved(request[r]) ELSE Goto(request[r], "persistMissed"))
  /\ UNCHANGED <<day, reviews, used, marker, late, charged, budget>>

ReadPersistMissed(r) ==
  /\ At(r, "persistMissed")
  /\ Continue(r, IF Row(r).status \in Settled(request[r].target)
                 THEN Reserved(request[r])
                 ELSE MarkSafe(request[r], "RECONCILE_REQUIRED"))
  /\ UNCHANGED <<day, rows, reviews, used, marker, late, charged, budget>>

\* markSafeStatus: the preferred status, and when that is refused the other one.
Mark(r) ==
  /\ At(r, "marking")
  /\ rows' = Transition(r, request[r].target)
  /\ Continue(r, IF Applies(r, request[r].target)
                 THEN Done(request[r], "UNAVAILABLE") ELSE Goto(request[r], "markMissed"))
  /\ UNCHANGED <<day, reviews, used, marker, late, charged, budget>>

ReadMarkMissed(r) ==
  /\ At(r, "markMissed")
  /\ Continue(r, IF HasRow(r) /\ Row(r).status = request[r].target
                 THEN Done(request[r], "UNAVAILABLE") ELSE Goto(request[r], "markingOther"))
  /\ UNCHANGED <<day, rows, reviews, used, marker, late, charged, budget>>

MarkOther(r) ==
  /\ At(r, "markingOther")
  /\ rows' = Transition(r, OtherMark(request[r].target))
  /\ Continue(r, Done(request[r], "UNAVAILABLE"))
  /\ UNCHANGED <<day, reviews, used, marker, late, charged, budget>>

-------------------------------------------------------------------------------
(* The finalizer's transaction. *)

FinalizeRead(r) ==
  /\ At(r, "finalizing")
  /\ Continue(r, IF Row(r).fingerprint # request[r].fingerprint THEN Done(request[r], "CONFLICT")
                 ELSE CASE Row(r).status = "ADMITTED" -> Goto(request[r], "replaying")
                        [] Row(r).status = "RESERVED" -> Goto(request[r], "admitting")
                        [] OTHER -> Done(request[r], "CONFLICT"))
  /\ UNCHANGED <<day, rows, reviews, used, marker, late, charged, budget>>

\* Faulty variant: the count of the UPDATE to ADMITTED is not looked at.
CanAdmitUncounted(r) == reviews[request[r].key] = "none"

\* The review's id is free and the UPDATE to ADMITTED finds its row.
CanAdmit(r) == reviews[request[r].key] = "none" /\ Row(r).status = "RESERVED"

AdmitEffect(r) ==
  /\ reviews' = [reviews EXCEPT ![request[r].key] = "live"]
  /\ rows' = IF Row(r).status = "RESERVED" THEN SetStatus(r, "ADMITTED") ELSE rows

Admit(r) ==
  /\ At(r, "admitting")
  /\ IF CanAdmit(r)
     THEN AdmitEffect(r) /\ Continue(r, Done(request[r], "CREATED"))
     ELSE UNCHANGED dbVars /\ Continue(r, Done(request[r], "CONFLICT"))
  /\ UNCHANGED <<day, used, marker, late, charged, budget>>

\* An admitted review that its owner deleted is an indeterminate outcome.
Replay(r) ==
  /\ At(r, "replaying")
  /\ Continue(r, IF reviews[request[r].key] = "live" THEN Done(request[r], "REPLAYED")
                 ELSE MarkSafe(request[r], "RECONCILE_REQUIRED"))
  /\ UNCHANGED <<day, rows, reviews, used, marker, late, charged, budget>>

-------------------------------------------------------------------------------
(* Failures of the database, and the owner. *)

\* A call that the database had executed when its reply was lost.
ExecutedCall(r) ==
  \/ /\ At(r, "inserting") /\ Row(r) = NoRow
     /\ rows' = Created(r) /\ UNCHANGED reviews
  \/ /\ request[r].pc \in {"persisting", "marking"}
     /\ rows' = Transition(r, request[r].target) /\ UNCHANGED reviews
  \/ /\ At(r, "markingOther")
     /\ rows' = Transition(r, OtherMark(request[r].target)) /\ UNCHANGED reviews
  \/ /\ At(r, "admitting") /\ CanAdmit(r)
     /\ AdmitEffect(r)

DbError(r) ==
  /\ request[r].pc \in DbPcs
  /\ budget.db < MaxDbErrors
  /\ budget' = [budget EXCEPT !.db = @ + 1]
  /\ Continue(r, AfterDbError(request[r]))
  /\ UNCHANGED dbVars \/ ExecutedCall(r)
  /\ UNCHANGED <<day, used, marker, late, charged>>

Delete(k) ==
  /\ reviews[k] = "live"
  /\ reviews' = [reviews EXCEPT ![k] = "deleted"]
  /\ UNCHANGED <<day, request, rows, used, marker, late, charged, budget>>

-------------------------------------------------------------------------------

Init ==
  /\ day = 0
  /\ \E key \in [Requests -> Keys], body \in [Requests -> Fingerprints] :
       request = [r \in Requests |->
                    [ pc |-> "idle", key |-> key[r], fingerprint |-> body[r], day |-> 0,
                      admission |-> r, target |-> "none", outcome |-> "none" ]]
  /\ rows = [k \in Keys |-> NoRow]
  /\ reviews = [k \in Keys |-> "none"]
  /\ used = [d \in Days |-> 0]
  /\ marker = [a \in Requests |-> "none"]
  /\ late = {}
  /\ charged = [a \in Requests |-> "no"]
  /\ budget = [db |-> 0, redis |-> 0]

Step(r) ==
  \/ Arrive(r) \/ Find(r) \/ Insert(r) \/ Reread(r)
  \/ Reserve(r) \/ ReserveFails(r) \/ Persist(r) \/ ReadPersistMissed(r)
  \/ Mark(r) \/ ReadMarkMissed(r) \/ MarkOther(r)
  \/ FinalizeRead(r) \/ Admit(r) \/ Replay(r)
  \/ DbError(r)

Next ==
  \/ \E r \in Requests : Step(r) \/ LateReservation(r)
  \/ \E k \in Keys : Delete(k)
  \/ Midnight
  \/ \E d \in Days : Expire(d)

Spec == Init /\ [][Next]_vars

-------------------------------------------------------------------------------
(* Properties *)

RequestType == [ pc : Pcs, key : Keys, fingerprint : Fingerprints, day : Days,
                 admission : Requests,
                 target : {"none", "RESERVED", "DENIED", "INDETERMINATE",
                           "RECONCILE_REQUIRED"},
                 outcome : Outcomes \cup {"none"} ]

\* The type invariant; the counters stay within the quota.
TypeOK ==
  /\ day \in Days
  /\ request \in [Requests -> RequestType]
  /\ rows \in [Keys -> RowType \cup {NoRow}]
  /\ reviews \in [Keys -> {"none", "live", "deleted"}]
  /\ used \in [Days -> 0 .. Limit]
  /\ marker \in [Requests -> {"none", "RESERVED", "DENIED"}]
  /\ late \subseteq Requests
  /\ charged \in [Requests -> {"no", "onTime", "late"}]
  /\ budget \in [db : 0 .. MaxDbErrors, redis : 0 .. MaxRedisErrors]

\* The counter of a day counts every reserved admission once, however often the
\* script runs for it: retries, concurrent duplicates and commands that time out
\* and run later (the marker of RESERVE_QUOTA_ADMISSION_SCRIPT).
UnitsCountedOnce ==
  \A d \in Days :
    used[d] = Cardinality({a \in Requests : request[a].day = d /\ marker[a] = "RESERVED"})

\* No more admissions of a day are reserved or admitted than the quota allows,
\* whatever failed in between; excepted are those that Redis first counted after
\* midnight, when the counter of their day may be gone.
AdmittedWithinLimit ==
  \A d \in Days :
    Cardinality({k \in Keys : /\ rows[k] # NoRow
                              /\ rows[k].day = d
                              /\ rows[k].status \in {"RESERVED", "ADMITTED"}
                              /\ charged[rows[k].id] # "late"}) <= Limit

\* A review exists exactly when its admission is ADMITTED, although concurrent
\* requests and their failures move the admission about while the finalizer runs.
ReviewIffAdmitted ==
  \A k \in Keys : reviews[k] # "none" <=> rows[k] # NoRow /\ rows[k].status = "ADMITTED"

\* A request that reuses a key for another body learns nothing of the admission
\* and is given none: it is told CONFLICT, or UNAVAILABLE when a call failed.
ReuseIsRefused ==
  \A r \in Requests :
    At(r, "done") /\ Row(r) # NoRow /\ Row(r).fingerprint # request[r].fingerprint
      => request[r].outcome \in {"CONFLICT", "UNAVAILABLE"}

\* Each key is settled at most once and answers say what became of it: exactly
\* one request is told CREATED, a refused key never gets a review, and REPLAYED
\* and RATE_LIMITED are only said when they are true (AdmissionLedger).
Ledger == INSTANCE AdmissionLedger WITH
  ledger <- [k \in Keys |-> IF reviews[k] # "none" THEN "granted"
                            ELSE IF rows[k] # NoRow /\ rows[k].status = "DENIED"
                            THEN "refused" ELSE "open"],
  asks <- [r \in Requests |-> request[r].key],
  answer <- [r \in Requests |-> request[r].outcome]

ImplementsLedger == Ledger!Spec

\* README.md:147: "A new admission returns 201, an identical owner replay returns
\* 200, a conflicting reuse is 409".  A request that repeats the stored one, body
\* and day, is never told CONFLICT.
IdenticalReplayNeverConflicts ==
  \A r \in Requests :
    At(r, "done") /\ Row(r) # NoRow /\ SameRequest(r, Row(r))
      => request[r].outcome # "CONFLICT"
===============================================================================
