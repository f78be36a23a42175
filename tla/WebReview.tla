------------------------------- MODULE WebReview -------------------------------
(***************************************************************************)
(* The review workspace of the web client: the form of ReviewWorkspace and *)
(* the hook useReviewWorkspace.  A start of the hook is an asynchronous    *)
(* run that creates a review, has it processed, follows its event stream   *)
(* and polls for its result; it looks at requestVersion after each await.  *)
(* The API appears as the state of each run's review.                      *)
(***************************************************************************)
EXTENDS ReviewWire

CONSTANTS MaxStarts,   \* bound on the calls of startReview
          MaxChecks,   \* REVIEW_RESULT_MAX_CHECKS
          Drafts       \* what the form may hold

ASSUME WorkspaceAssumption == /\ MaxStarts \in Nat \ {0} /\ MaxChecks \in Nat \ {0}
                              /\ Drafts \subseteq DraftFields

VARIABLES form,      \* draft of ReviewWorkspace
          view,      \* what the hook returns
          refs,      \* requestVersion, activeReviewCancellation, activeStreamAbort
          runs,      \* the calls of startReview
          server,    \* the review of each run, at the API
          signedIn,  \* useAuthSession has an access token
          mounted

workspaceVars == <<form, view, refs, runs, server, signedIn, mounted>>

Runs == 1..MaxStarts
ViewStatuses == {"idle", "loading", "processing", "success", "empty", "error"}
Phases == {"unused", "starting", "creating", "processing", "waiting", "reading",
           "checking", "sleeping", "done"}
Streams == {"none", "open", "COMPLETED", "stopped", "disconnected"}

\* by: whether the user asked for a review or for a check; got: whether the result endpoint answered the result.
RunStates == [at : Phases, version : Nat, by : {"submit", "check"}, api : BOOLEAN,
              draft : Drafts, stream : Streams, checks : 0..MaxChecks,
              got : {"nothing", "result"}]
ServerStates == [review : ReviewStatuses \cup {"absent"}, cancel : {"no", "sent", "served"},
                 usage : Usages, findings : BOOLEAN]

Idle == [status |-> "idle", result |-> 0, lastDraft |-> 0]
NewServer == [review |-> "absent", cancel |-> "no", usage |-> "none", findings |-> FALSE]

InitWorkspace ==
  /\ form \in Drafts
  /\ view = Idle
  /\ refs = [version |-> 0, cancel |-> 0, stream |-> 0]
  /\ runs = [r \in Runs |-> [at |-> "unused", version |-> 0, by |-> "submit", api |-> FALSE,
                             draft |-> form, stream |-> "none", checks |-> 0, got |-> "nothing"]]
  /\ server = [r \in Runs |-> NewServer]
  /\ signedIn \in BOOLEAN
  /\ mounted = TRUE

--------------------------------------------------------------------------------
(* Shared pieces of the hook. *)

Busy == view.status \in {"loading", "processing"}
Unused == {r \in Runs : runs[r].at = "unused"}
IsCurrent(r) == refs.version = runs[r].version
Goto(r, at) == runs' = [runs EXCEPT ![r].at = at]

\* activeStreamAbort.current.abort(): a stream that is still open is disconnected.
Aborted(s) ==
  [r \in Runs |-> IF r = s /\ runs[r].stream = "open"
                  THEN [runs[r] EXCEPT !.stream = "disconnected"] ELSE runs[r]]

\* requestActiveCancellation: the request goes out, nobody waits for its answer.
RequestCancellation ==
  server' = [r \in Runs |-> IF r = refs.cancel /\ server[r].cancel = "no"
                            THEN [server[r] EXCEPT !.cancel = "sent"] ELSE server[r]]

\* finally: the handles of this run are dropped, its stream is aborted.
End(r, got) ==
  /\ runs' = [runs EXCEPT ![r].at = "done", ![r].got = got,
                          ![r].stream = "none", ![r].checks = 0]
  /\ refs' = [refs EXCEPT !.cancel = IF @ = r THEN 0 ELSE @,
                          !.stream = IF @ = r THEN 0 ELSE @]

\* A return, or a throw, of run r: the view changes if the run is current.
EndWith(r, got, status, result) ==
  /\ End(r, got)
  /\ view' = IF IsCurrent(r)
             THEN [view EXCEPT !.status = status, !.result = result] ELSE view
Still == UNCHANGED <<form, server, signedIn, mounted>>
Throw(r) == EndWith(r, "nothing", "error", view.result)
Fail(r) == Throw(r) /\ Still
Leave(r) == EndWith(r, "nothing", view.status, view.result) /\ Still

\* An await returned: a run that was overtaken ends here.
Go(r, at) == IF IsCurrent(r)
             THEN Goto(r, at) /\ Still /\ UNCHANGED <<view, refs>>
             ELSE Leave(r)

--------------------------------------------------------------------------------
(* The user. *)

\* startReview up to its first await.
StartReview(draft, by) ==
  LET r == Cardinality(Runs \ Unused) + 1
  IN /\ mounted
     /\ r \in Runs
     /\ RequestCancellation
     /\ runs' = [Aborted(refs.stream) EXCEPT
                   ![r].at = "starting", ![r].version = refs.version + 1, ![r].by = by,
                   ![r].api = signedIn, ![r].draft = draft]
     /\ refs' = [version |-> refs.version + 1, cancel |-> 0, stream |-> r]
     /\ view' = [status |-> "loading", result |-> 0, lastDraft |-> r]
     /\ UNCHANGED <<form, signedIn, mounted>>

\* handleSubmit; the button is disabled while the hook is busy.
Submit == /\ ~Busy
          /\ FormAccepts(form)
          /\ StartReview(form, "submit")

\* ReviewStatePanel: "Retry review" after an error, "Check for result" while the
\* review is processing.
OffersRetry == view.status \in {"error", "processing"}

\* retry: the last draft is started again.
Retry == /\ view.lastDraft # 0
         /\ OffersRetry
         /\ StartReview(runs[view.lastDraft].draft,
                        IF view.status = "error" THEN "submit" ELSE "check")

\* The fields of the form: each is disabled while the hook is busy.
Edit(draft) ==
  /\ mounted /\ ~Busy
  /\ form' = draft
  /\ UNCHANGED <<view, refs, runs, server, signedIn, mounted>>

\* What reset and the cleanup of the effect have in common.
Abandon ==
  /\ RequestCancellation
  /\ runs' = Aborted(refs.stream)
  /\ refs' = [version |-> refs.version + 1, cancel |-> 0, stream |-> 0]

\* handleReset: "Cancel run", or "Reset draft".
Reset(initial) ==
  /\ mounted
  /\ view.status # "idle"
  /\ Abandon
  /\ view' = Idle
  /\ form' = IF Busy THEN form ELSE initial
  /\ UNCHANGED <<signedIn, mounted>>

\* The page is left: the cleanup of the effect.
Unmount ==
  /\ mounted
  /\ Abandon
  /\ mounted' = FALSE
  /\ UNCHANGED <<form, view, signedIn>>

\* A sign-in or sign-out changes the transport of the next start.
SessionChanges ==
  /\ mounted
  /\ signedIn' = ~signedIn
  /\ UNCHANGED <<form, view, refs, runs, server, mounted>>

--------------------------------------------------------------------------------
(* A run, from await to await. *)

\* setStatus("processing"), the cancellation, the stream, and process is called.
Process(r) ==
  /\ view' = [view EXCEPT !.status = "processing"]
  /\ refs' = [refs EXCEPT !.cancel = IF runs[r].api THEN r ELSE @]
  /\ runs' = [runs EXCEPT ![r].at = "processing",
                          ![r].stream = IF runs[r].api THEN "open" ELSE "none"]

\* After await Promise.resolve(): only the API transport creates a review.
Create(r) ==
  /\ runs[r].at = "starting"
  /\ IF runs[r].api \/ ~IsCurrent(r) THEN Go(r, "creating") ELSE Process(r) /\ Still

\* Faulty variant: a run that was overtaken goes on unseen.
CreatedUnseen(r) ==
  /\ runs[r].at = "creating"
  /\ \/ /\ ApiAdmits(runs[r].draft)
        /\ server' = [server EXCEPT ![r].review = "PENDING"]
        /\ IF IsCurrent(r) THEN Process(r) ELSE Goto(r, "processing") /\ UNCHANGED <<view, refs>>
        /\ UNCHANGED <<form, signedIn, mounted>>
     \/ Fail(r)

\* POST /reviews is answered: the API admits what it may; the client reads the
\* summary, or the answer is lost. Or the request fails.
Created(r) ==
  /\ runs[r].at = "creating"
  /\ \/ /\ ApiAdmits(runs[r].draft)
        /\ server' = [server EXCEPT ![r].review = "PENDING"]
        /\ \/ /\ ReadsSummary(runs[r].draft)
              /\ IF IsCurrent(r) THEN Process(r) ELSE End(r, "nothing") /\ UNCHANGED view
           \/ Throw(r)
        /\ UNCHANGED <<form, signedIn, mounted>>
     \/ Fail(r)

\* POST /reviews/:id/process is answered.
ProcessOutcome(r) ==
  CASE ~runs[r].api                      -> {"COMPLETED"}
    [] server[r].review = "COMPLETED"    -> {"COMPLETED", "ALREADY_COMPLETED"}
    [] server[r].review = "PROCESSING"   -> {"ALREADY_PROCESSING", "LOCK_UNAVAILABLE"}
    [] server[r].review = "FAILED"       -> {"RATE_LIMITED", "TIMEOUT", "INVALID_RESPONSE", "INTERNAL"}
    [] server[r].review = "PENDING"      -> {"LOCK_UNAVAILABLE"}
    [] OTHER                             -> {"CANCELLED", "CLAIM_CONFLICT"}

Processed(r) ==
  /\ runs[r].at = "processing"
  /\ \/ \E outcome \in ProcessOutcome(r) :
          /\ ProcessStatus(outcome) = 200
          /\ ReadsProcess(outcome, ResultAvailable(outcome))
          /\ Go(r, IF ResultAvailable(outcome) THEN "reading" ELSE "waiting")
     \/ \E outcome \in ProcessOutcome(r) : ProcessStatus(outcome) # 200 /\ Fail(r)
     \/ runs[r].api /\ Fail(r)                         \* the request fails

\* The stream brings the event of the review's status, or breaks.
StreamReads(r) ==
  /\ runs[r].stream = "open"
  /\ \/ /\ server[r].review \in ReviewStatuses
        /\ \E event \in {EventOf(server[r].review), ResetOf(server[r].review),
                          HeartbeatOf(server[r].review)} : EndsStream(event)
        /\ runs' = [runs EXCEPT ![r].stream =
                      IF server[r].review = "COMPLETED" THEN "COMPLETED" ELSE "stopped"]
     \/ runs' = [runs EXCEPT ![r].stream = "disconnected"]
  /\ UNCHANGED <<form, view, refs, server, signedIn, mounted>>

\* streamOutcome is awaited: the result is read, the run fails, or it polls.
\* Only a terminal COMPLETED is not followed by a look at requestVersion.
StreamSettled(r) ==
  /\ runs[r].at = "waiting"
  /\ CASE runs[r].stream = "COMPLETED" ->
            Goto(r, "reading") /\ Still /\ UNCHANGED <<view, refs>>
       [] runs[r].stream = "stopped" -> Fail(r)
       [] runs[r].stream = "disconnected" -> Go(r, "checking")
       [] OTHER -> FALSE

\* Faulty variant: an answer is shown whichever run is current.
ShowAnyway(r) ==
  /\ End(r, "result")
  /\ view' = [view EXCEPT !.status = IF server[r].findings THEN "success" ELSE "empty",
                          !.result = r]

\* setResult and setStatus.
Show(r) == EndWith(r, "result", IF server[r].findings THEN "success" ELSE "empty", r)

\* The result endpoint has the result of a completed review; the demo always has.
HasResult(r) == ~runs[r].api \/ server[r].review = "COMPLETED"
Readable(r) == ReadsResult([usage |-> server[r].usage])

\* The result endpoint answers 200: the client reads the answer, or refuses it.
ResultAnswered(r) ==
  /\ HasResult(r)
  /\ IF Readable(r) THEN Show(r) ELSE EndWith(r, "result", "error", view.result)
  /\ Still

\* GET /reviews/:id/result is answered, after process or the stream told so.
ResultRead(r) == runs[r].at = "reading" /\ (ResultAnswered(r) \/ Fail(r))

\* Faulty variant: the attempts are not counted.
CheckedForEver(r) ==
  /\ runs[r].at = "checking"
  /\ \/ ResultAnswered(r)
     \/ /\ ~HasResult(r) /\ IsCurrent(r) /\ Goto(r, "sleeping")
        /\ Still /\ UNCHANGED <<view, refs>>
     \/ Fail(r)

\* getReviewResultWithPolling: one check is answered with the result, with 409, or fails.
Checked(r) ==
  /\ runs[r].at = "checking"
  /\ \/ ResultAnswered(r)
     \/ /\ ~HasResult(r) /\ runs[r].checks + 1 < MaxChecks /\ IsCurrent(r)
        /\ runs' = [runs EXCEPT ![r].at = "sleeping", ![r].checks = @ + 1]
        /\ Still /\ UNCHANGED <<view, refs>>
     \/ /\ ~HasResult(r) /\ (runs[r].checks + 1 = MaxChecks \/ ~IsCurrent(r))
        /\ EndWith(r, "nothing", "processing", view.result) /\ Still
     \/ Fail(r)

Awake(r) == runs[r].at = "sleeping" /\ Go(r, "checking")

RunStep(r) == \/ Create(r) \/ Created(r) \/ Processed(r) \/ StreamSettled(r)
              \/ ResultRead(r) \/ Checked(r) \/ Awake(r)

--------------------------------------------------------------------------------
(* The API. *)

Review(r, from, status) ==
  /\ server[r].review \in from
  /\ server' = [server EXCEPT ![r].review = status]
  /\ UNCHANGED <<form, view, refs, runs, signedIn, mounted>>

\* The review is claimed, by this run's request or by another client of its owner.
Claimed(r) == Review(r, {"PENDING"}, "PROCESSING")
ProcessingFails(r) == Review(r, {"PROCESSING"}, "FAILED")
Completes(r) ==
  /\ server[r].review = "PROCESSING"
  /\ \E usage \in Usages, findings \in BOOLEAN :
       server' = [server EXCEPT ![r].review = "COMPLETED", ![r].usage = usage,
                                ![r].findings = findings]
  /\ UNCHANGED <<form, view, refs, runs, signedIn, mounted>>

\* POST /reviews/:id/cancel arrives.
CancelServed(r) ==
  /\ server[r].cancel = "sent"
  /\ server' = [server EXCEPT ![r].cancel = "served",
                              ![r].review = IF @ \in {"PENDING", "PROCESSING"}
                                            THEN "CANCELLED" ELSE @]
  /\ UNCHANGED <<form, view, refs, runs, signedIn, mounted>>

WorkspaceNext ==
  \/ Submit \/ Retry \/ Unmount \/ SessionChanges
  \/ \E draft \in Drafts : Edit(draft) \/ Reset(draft)
  \/ \E r \in Runs : \/ RunStep(r) \/ StreamReads(r)
                     \/ Claimed(r) \/ ProcessingFails(r) \/ Completes(r) \/ CancelServed(r)

--------------------------------------------------------------------------------
(* What the user is promised. *)

Newest == Cardinality(Runs \ Unused)

\* The result on the screen is that of the newest start: an answer to an earlier
\* draft, which may arrive at any await after a new start or a reset, is dropped
\* (requestVersion), and no result stays behind when a new run starts.
ResultOfLastDraft ==
  mounted /\ view.result # 0 =>
    view.result = Newest /\ view.lastDraft = Newest /\ IsCurrent(Newest)

\* A review whose processing was asked for and whose run was overtaken, reset or
\* left is cancelled at the API, unless its run was over (requestActiveCancellation).
AbandonedRunsCancelled ==
  \A r \in Runs : (/\ runs[r].api /\ ~IsCurrent(r)
                   /\ runs[r].at \in {"processing", "waiting", "reading", "checking", "sleeping"})
                  => server[r].cancel # "no"

\* Every start comes to an end, except one whose stream stays open for ever while
\* it is current: the checks for a result are bounded, and what is overtaken ends.
RunsSettle ==
  \A r \in Runs : runs[r].at = "starting" ~>
    (runs[r].at = "done" \/ [](IsCurrent(r) /\ runs[r].at = "waiting" /\ runs[r].stream = "open"))

\* A result that the API has answered to the current run is on the screen.
CompletedResultIsShown ==
  \A r \in Runs : runs[r].got = "result" /\ IsCurrent(r) /\ runs[r].at = "done" => view.result = r
================================================================================
