---------------------------- MODULE WebPages_proofs ----------------------------
(***************************************************************************)
(* The pages of the web client for any number of starts, reads, rows,      *)
(* drafts and reviews.  A step of one page leaves the variables of the     *)
(* others alone, so each page has an inductive invariant of its own.       *)
(*                                                                         *)
(* The workspace: runs are numbered and versioned in the order of their    *)
(* starts, so the one that is current is the newest, and it is the one a   *)
(* start, a reset or the end of the page cancels.  Its steps are of three  *)
(* kinds: a run goes on, a run is overtaken, or the runs stand still.      *)
(* The history page: the read that is current has rows of which none was   *)
(* deleted, and while it is under way nothing is selected.  The usage      *)
(* pages: the read that is current is one of the present source.           *)
(***************************************************************************)
EXTENDS WebPages, FiniteSetTheorems, TLAPS

--------------------------------------------------------------------------------
(* The review workspace. *)

\* Where a run has asked for the processing of its review.
AskedFor == {"processing", "waiting", "reading", "checking", "sleeping"}

\* The runs that were started.
Used == Runs \ Unused

\* The shape of the hook's state.
WorkspaceTypes ==
  /\ DOMAIN view = {"status", "result", "lastDraft"}
  /\ DOMAIN refs = {"version", "cancel", "stream"} /\ refs.version \in Nat
  /\ DOMAIN runs = Runs
  /\ \A r \in Runs :
       /\ DOMAIN runs[r] = {"at", "version", "by", "api", "draft", "stream", "checks", "got"}
       /\ runs[r].version \in Nat
  /\ DOMAIN server = Runs
  /\ \A r \in Runs : DOMAIN server[r] = {"review", "cancel", "usage", "findings"}

\* The runs are numbered in the order of their starts, a later start has a later
\* version, and none is later than the present one.
StartsAreOrdered ==
  /\ \E n \in 0..MaxStarts : Used = 1..n
  /\ \A r \in Used : runs[r].version \in 1..refs.version
  /\ \A r, s \in Used : r < s => runs[r].version < runs[s].version

\* The run that is current is the one of the newest draft, whose result the view has,
\* if it has one, and its review is the one that an overtaking start would cancel.
CurrentIsNewest ==
  /\ \A r \in Used : IsCurrent(r) => view.lastDraft = r
  /\ mounted /\ view.result # 0 => view.result \in Used /\ IsCurrent(view.result)
  /\ \A r \in Runs : runs[r].at \in AskedFor /\ runs[r].api /\ IsCurrent(r) => refs.cancel = r

WorkspaceInvariant ==
  /\ WorkspaceTypes
  /\ StartsAreOrdered
  /\ CurrentIsNewest
  /\ AbandonedRunsCancelled

\* Of the runs that were started the current one is the newest.
LEMMA NewestIsCurrent ==
  ASSUME WorkspaceTypes, StartsAreOrdered
  PROVE  /\ Newest \in 0..MaxStarts /\ Used = 1..Newest
         /\ \A r \in Used : IsCurrent(r) => r = Newest
<1>1. PICK n \in 0..MaxStarts : Used = 1..n
  BY DEF StartsAreOrdered
<1>2. n \in Nat /\ Cardinality(1..n) = n
  BY <1>1, FS_Interval, WorkspaceAssumption
<1>3. Newest = n
  BY <1>1, <1>2 DEF Newest, Used
<1>4. ASSUME NEW r \in Used, IsCurrent(r)
      PROVE  r = n
  <2>1. r \in 1..n /\ n \in Used
    BY <1>1, <1>2
  <2>2. r < n => runs[r].version < runs[n].version
    BY <2>1, <1>4 DEF StartsAreOrdered
  <2>3. runs[n].version <= refs.version /\ runs[n].version \in Nat /\ refs.version \in Nat
    BY <2>1 DEF StartsAreOrdered, WorkspaceTypes, Used
  <2>4. runs[r].version = refs.version
    BY <1>4 DEF IsCurrent
  <2>. QED
    BY <1>2, <2>1, <2>2, <2>3, <2>4
<1>. QED
  BY <1>1, <1>3, <1>4

\* So the result on the screen is that of the newest start.
LEMMA ResultIsOfNewest ==
  ASSUME WorkspaceInvariant
  PROVE  ResultOfLastDraft
BY NewestIsCurrent DEF WorkspaceInvariant, CurrentIsNewest, ResultOfLastDraft

--------------------------------------------------------------------------------
(* The three kinds of steps. *)

\* A run goes on: its own record changes, the view if it is current, and the
\* cancellation is its own while it is current and has asked for its review.
RunGoesOn(r) ==
  /\ r \in Used
  /\ DOMAIN runs' = Runs
  /\ \A s \in Runs \ {r} : runs'[s] = runs[s]
  /\ DOMAIN runs'[r] = DOMAIN runs[r]
  /\ runs'[r].at # "unused" /\ runs'[r].version = runs[r].version /\ runs'[r].api = runs[r].api
  /\ DOMAIN refs' = DOMAIN refs /\ refs'.version = refs.version
  /\ DOMAIN view' = DOMAIN view /\ view'.lastDraft = view.lastDraft
  /\ view'.result = view.result \/ (IsCurrent(r) /\ view'.result = r)
  /\ \/ /\ runs'[r].at \in AskedFor => runs[r].at \in AskedFor
        /\ refs'.cancel = refs.cancel
     \/ /\ runs'[r].at = "done"
        /\ refs'.cancel = (IF refs.cancel = r THEN 0 ELSE refs.cancel)
     \/ IsCurrent(r) /\ refs'.cancel = (IF runs[r].api THEN r ELSE refs.cancel)
  /\ DOMAIN server' = Runs
  /\ \A s \in Runs : DOMAIN server'[s] = DOMAIN server[s] /\ server'[s].cancel = server[s].cancel
  /\ mounted' = mounted

\* The runs keep their phases, and no cancellation is taken back.
RunsStandStill ==
  /\ UNCHANGED <<view, refs, mounted>>
  /\ DOMAIN runs' = Runs
  /\ \A s \in Runs : /\ DOMAIN runs'[s] = DOMAIN runs[s] /\ runs'[s].at = runs[s].at
                     /\ runs'[s].version = runs[s].version /\ runs'[s].api = runs[s].api
  /\ DOMAIN server' = Runs
  /\ \A s \in Runs : /\ DOMAIN server'[s] = DOMAIN server[s]
                     /\ server'[s].cancel = "no" => server[s].cancel = "no"

\* What was current is not any more, and is cancelled at the API; runs outside
\* the set started stay as they were.
Overtaken(started) ==
  /\ DOMAIN runs' = Runs
  /\ \A s \in Runs \ started :
       /\ DOMAIN runs'[s] = DOMAIN runs[s] /\ runs'[s].at = runs[s].at
       /\ runs'[s].version = runs[s].version /\ runs'[s].api = runs[s].api
  /\ DOMAIN refs' = {"version", "cancel", "stream"} /\ refs'.version = refs.version + 1
  /\ DOMAIN server' = Runs
  /\ \A s \in Runs : /\ DOMAIN server'[s] = DOMAIN server[s]
                     /\ server'[s].cancel = "no" => server[s].cancel = "no" /\ s # refs.cancel

\* A run that goes on keeps the invariant: what is current stays current, and only the
\* current run moves the result and the cancellation.
LEMMA RunGoesOnKeeps ==
  ASSUME WorkspaceInvariant, NEW r \in Runs, RunGoesOn(r)
  PROVE  WorkspaceInvariant'
<1>0. /\ \A s \in Runs : /\ DOMAIN runs'[s] = DOMAIN runs[s]
                         /\ runs'[s].version = runs[s].version /\ runs'[s].api = runs[s].api
                         /\ runs'[s].at = "unused" <=> runs[s].at = "unused"
      /\ refs'.version = refs.version
  BY DEF RunGoesOn, Used, Unused
<1>1. WorkspaceTypes'
  BY <1>0 DEF RunGoesOn, WorkspaceInvariant, WorkspaceTypes, Runs
<1>2. Used' = Used
  BY <1>0 DEF Used, Unused, Runs
<1>3. \A s \in Runs : IsCurrent(s)' <=> IsCurrent(s)
  BY <1>0 DEF IsCurrent
<1>4. StartsAreOrdered'
  BY <1>0, <1>2 DEF WorkspaceInvariant, StartsAreOrdered, Used
<1>5. /\ \A s \in Used : IsCurrent(s) => s = Newest
      /\ Used \subseteq Runs
  BY NewestIsCurrent DEF WorkspaceInvariant, Used
<1>6. (\A s \in Used : IsCurrent(s) => view.lastDraft = s)'
  BY <1>2, <1>3, <1>5 DEF RunGoesOn, WorkspaceInvariant, CurrentIsNewest
<1>7. (mounted /\ view.result # 0 => view.result \in Used /\ IsCurrent(view.result))'
  <2>. SUFFICES ASSUME mounted', view'.result # 0
                PROVE  view'.result \in Used' /\ IsCurrent(view.result)'
    OBVIOUS
  <2>1. view'.result \in Used /\ IsCurrent(view'.result)
    BY DEF RunGoesOn, WorkspaceInvariant, CurrentIsNewest, IsCurrent
  <2>. QED
    BY <1>0, <1>2, <1>5, <2>1 DEF IsCurrent
<1>8. ASSUME NEW s \in Runs, runs'[s].at \in AskedFor, runs'[s].api, IsCurrent(s)
      PROVE  refs'.cancel = s
  <2>1. s \in Used /\ s = Newest /\ runs[s].api
    BY <1>0, <1>5, <1>8 DEF Used, Unused, AskedFor
  <2>2. CASE s = r
    BY <1>8, <2>1, <2>2 DEF RunGoesOn, WorkspaceInvariant, CurrentIsNewest, AskedFor
  <2>3. CASE s # r
    <3>1. ~IsCurrent(r) /\ runs[s].at \in AskedFor
      BY <1>5, <1>8, <2>1, <2>3 DEF RunGoesOn
    <3>2. refs.cancel = s
      BY <1>8, <2>1, <3>1 DEF WorkspaceInvariant, CurrentIsNewest
    <3>. QED
      BY <2>3, <3>1, <3>2 DEF RunGoesOn
  <2>. QED
    BY <2>2, <2>3
<1>9. CurrentIsNewest'
  BY <1>3, <1>6, <1>7, <1>8 DEF CurrentIsNewest
<1>10. ASSUME NEW s \in Runs, runs'[s].api, ~IsCurrent(s), runs'[s].at \in AskedFor
       PROVE  server'[s].cancel # "no"
  <2>1. runs[s].at \in AskedFor /\ runs[s].api
    BY <1>0, <1>10 DEF RunGoesOn, AskedFor
  <2>2. server[s].cancel # "no"
    BY <1>10, <2>1 DEF WorkspaceInvariant, AbandonedRunsCancelled, AskedFor
  <2>. QED
    BY <2>2 DEF RunGoesOn
<1>11. AbandonedRunsCancelled'
  BY <1>3, <1>10 DEF AbandonedRunsCancelled, AskedFor
<1>. QED
  BY <1>1, <1>4, <1>9, <1>11 DEF WorkspaceInvariant

\* So do the steps in which no run goes on.
LEMMA StandingStillKeeps ==
  ASSUME WorkspaceInvariant, RunsStandStill
  PROVE  WorkspaceInvariant'
<1>1. WorkspaceTypes'
  BY DEF RunsStandStill, WorkspaceInvariant, WorkspaceTypes, Runs
<1>2. Used' = Used /\ Used \subseteq Runs
  BY DEF RunsStandStill, Used, Unused, Runs
<1>3. \A s \in Runs : IsCurrent(s)' <=> IsCurrent(s)
  BY DEF RunsStandStill, IsCurrent
<1>4. StartsAreOrdered'
  BY <1>2 DEF RunsStandStill, WorkspaceInvariant, StartsAreOrdered
<1>5. (mounted /\ view.result # 0 => view.result \in Used /\ IsCurrent(view.result))'
  BY <1>2 DEF RunsStandStill, WorkspaceInvariant, CurrentIsNewest, IsCurrent
<1>6. CurrentIsNewest'
  BY <1>2, <1>3, <1>5 DEF RunsStandStill, WorkspaceInvariant, CurrentIsNewest
<1>7. AbandonedRunsCancelled'
  BY <1>3 DEF RunsStandStill, WorkspaceInvariant, AbandonedRunsCancelled
<1>. QED
  BY <1>1, <1>4, <1>6, <1>7 DEF WorkspaceInvariant

\* Nobody who had asked for a review is left without a cancellation.
LEMMA OvertakenAreCancelled ==
  ASSUME WorkspaceInvariant, NEW started, Overtaken(started)
  PROVE  \A s \in Runs \ started :
           /\ s \in Used => ~IsCurrent(s)'
           /\ runs'[s].api /\ runs'[s].at \in AskedFor => server'[s].cancel # "no"
<1>. TAKE s \in Runs \ started
<1>1. s \in Used => ~IsCurrent(s)'
  BY DEF Overtaken, WorkspaceInvariant, WorkspaceTypes, StartsAreOrdered, Used, IsCurrent
<1>2. ASSUME runs'[s].api, runs'[s].at \in AskedFor
      PROVE  server'[s].cancel # "no"
  <2>1. runs[s].api /\ runs[s].at \in AskedFor /\ s \in Runs
    BY <1>2 DEF Overtaken
  <2>2. server'[s].cancel = "no" => server[s].cancel = "no" /\ s # refs.cancel
    BY DEF Overtaken
  <2>3. IsCurrent(s) => refs.cancel = s
    BY <2>1 DEF WorkspaceInvariant, CurrentIsNewest
  <2>4. ~IsCurrent(s) => server[s].cancel # "no"
    BY <2>1 DEF WorkspaceInvariant, AbandonedRunsCancelled, AskedFor
  <2>. QED
    BY <2>2, <2>3, <2>4
<1>. QED
  BY <1>1, <1>2

\* A reset, or the end of the page.
LEMMA AbandonKeeps ==
  ASSUME WorkspaceInvariant, Overtaken({}), DOMAIN view' = DOMAIN view,
         mounted' => view'.result = 0
  PROVE  WorkspaceInvariant'
<1>1. WorkspaceTypes'
  BY DEF Overtaken, WorkspaceInvariant, WorkspaceTypes, Runs
<1>2. Used' = Used /\ Used \subseteq Runs
  BY DEF Overtaken, Used, Unused, Runs
<1>3. StartsAreOrdered'
  BY <1>2 DEF Overtaken, WorkspaceInvariant, WorkspaceTypes, StartsAreOrdered
<1>4. \A s \in Runs : runs'[s].at \in AskedFor => s \in Used
  BY DEF Overtaken, Used, Unused, AskedFor
<1>5. CurrentIsNewest'
  BY <1>2, <1>4, OvertakenAreCancelled DEF CurrentIsNewest
<1>6. AbandonedRunsCancelled'
  BY OvertakenAreCancelled DEF AbandonedRunsCancelled, AskedFor
<1>. QED
  BY <1>1, <1>3, <1>5, <1>6 DEF WorkspaceInvariant

\* The start of the next run.
StartsNext(r) ==
  /\ r \in Runs /\ r = Newest + 1
  /\ Overtaken({r})
  /\ DOMAIN runs'[r] = DOMAIN runs[r]
  /\ runs'[r].at = "starting" /\ runs'[r].version = refs.version + 1
  /\ DOMAIN view' = DOMAIN view /\ view'.result = 0 /\ view'.lastDraft = r

\* And the start of the next run, which is the newest from then on.
LEMMA StartKeeps ==
  ASSUME WorkspaceInvariant, NEW r, StartsNext(r)
  PROVE  WorkspaceInvariant'
<1>1. WorkspaceTypes'
  BY DEF StartsNext, Overtaken, WorkspaceInvariant, WorkspaceTypes, Runs
<1>2. Newest \in 0..MaxStarts /\ Used = 1..Newest /\ r = Newest + 1 /\ r \in 1..MaxStarts
  BY NewestIsCurrent DEF WorkspaceInvariant, StartsNext, Runs
<1>3. Used' = Used \cup {r} /\ Used \subseteq Runs
  <2>1. \A s \in Runs \ {r} : runs'[s].at = runs[s].at
    BY DEF StartsNext, Overtaken
  <2>2. runs'[r].at # "unused" /\ r \in Runs
    BY DEF StartsNext
  <2>. QED
    BY <2>1, <2>2 DEF Used, Unused, Runs
<1>4. Used' = 1..r
  BY <1>2, <1>3
<1>5. r \notin Used /\ \A s \in Used : s < r /\ runs'[s].version = runs[s].version
  BY <1>2, <1>3 DEF StartsNext, Overtaken
<1>6. /\ refs'.version = refs.version + 1 /\ runs'[r].version = refs.version + 1
      /\ refs.version \in Nat
  BY DEF StartsNext, Overtaken, WorkspaceInvariant, WorkspaceTypes
<1>7. StartsAreOrdered'
  <2>1. (\E n \in 0..MaxStarts : Used = 1..n)'
    BY <1>2, <1>4
  <2>2. (\A s \in Used : runs[s].version \in 1..refs.version)'
    BY <1>3, <1>5, <1>6 DEF WorkspaceInvariant, StartsAreOrdered
  <2>3. (\A s, t \in Used : s < t => runs[s].version < runs[t].version)'
    <3>. SUFFICES ASSUME NEW s \in Used', NEW t \in Used', s < t
                  PROVE  runs'[s].version < runs'[t].version
      OBVIOUS
    <3>1. CASE t = r
      <4>1. s \in Used /\ runs[s].version \in 1..refs.version
        BY <1>2, <1>3, <3>1 DEF WorkspaceInvariant, StartsAreOrdered
      <4>. QED
        BY <1>5, <1>6, <3>1, <4>1
    <3>2. CASE t # r
      <4>1. t \in Used /\ s \in Used
        BY <1>2, <1>4, <3>2
      <4>. QED
        BY <1>5, <4>1 DEF WorkspaceInvariant, StartsAreOrdered
    <3>. QED
      BY <3>1, <3>2
  <2>. QED
    BY <2>1, <2>2, <2>3 DEF StartsAreOrdered
<1>8. Overtaken({r}) /\ \A s \in Runs : runs'[s].at \in AskedFor => s \in Used
  BY <1>3 DEF StartsNext, Overtaken, Used, Unused, AskedFor
<1>9. CurrentIsNewest'
  <2>1. view'.result = 0 /\ view'.lastDraft = r
    BY DEF StartsNext
  <2>. QED
    BY <1>3, <1>5, <1>8, <2>1, OvertakenAreCancelled DEF CurrentIsNewest
<1>10. AbandonedRunsCancelled'
  BY <1>5, <1>8, OvertakenAreCancelled DEF AbandonedRunsCancelled, AskedFor
<1>. QED
  BY <1>1, <1>7, <1>9, <1>10 DEF WorkspaceInvariant

--------------------------------------------------------------------------------
(* The steps are of these kinds. *)

\* What the API makes of its reviews without serving or losing a cancellation.
KeepsCancellations ==
  /\ DOMAIN server' = Runs
  /\ \A s \in Runs : DOMAIN server'[s] = DOMAIN server[s] /\ server'[s].cancel = server[s].cancel

\* A run that ends, with the view changed if it is current.
LEMMA EndGoesOn ==
  ASSUME WorkspaceInvariant, NEW r \in Runs, runs[r].at # "unused", NEW got, End(r, got),
         \/ view' = view
         \/ IsCurrent(r) /\ \E status : \E result \in {view.result, r} :
              view' = [view EXCEPT !.status = status, !.result = result],
         KeepsCancellations, mounted' = mounted
  PROVE  RunGoesOn(r)
<1>1. WorkspaceTypes
  BY DEF WorkspaceInvariant
<1>2. r \in Used
  BY DEF Used, Unused
<1>3. /\ DOMAIN runs' = Runs /\ \A s \in Runs \ {r} : runs'[s] = runs[s]
      /\ DOMAIN runs'[r] = DOMAIN runs[r] /\ runs'[r].at = "done"
      /\ runs'[r].version = runs[r].version /\ runs'[r].api = runs[r].api
  <2>1. /\ DOMAIN runs = Runs
        /\ DOMAIN runs[r] = {"at", "version", "by", "api", "draft", "stream", "checks", "got"}
    BY <1>1 DEF WorkspaceTypes
  <2>2. runs' = [runs EXCEPT ![r] = [runs[r] EXCEPT !.at = "done", !.got = got,
                                                    !.stream = "none", !.checks = 0]]
    BY <2>1 DEF End
  <2>. QED
    BY <2>1, <2>2
<1>4. /\ DOMAIN refs' = DOMAIN refs /\ refs'.version = refs.version
      /\ refs'.cancel = (IF refs.cancel = r THEN 0 ELSE refs.cancel)
  BY <1>1 DEF End, WorkspaceTypes
<1>5. /\ DOMAIN view' = DOMAIN view /\ view'.lastDraft = view.lastDraft
      /\ view'.result = view.result \/ (IsCurrent(r) /\ view'.result = r)
  BY <1>1 DEF WorkspaceTypes
<1>. QED
  BY <1>2, <1>3, <1>4, <1>5 DEF RunGoesOn, KeepsCancellations

\* The same, with the new view spelled out.
LEMMA EndWithGoesOn ==
  ASSUME WorkspaceInvariant, NEW r \in Runs, runs[r].at # "unused", NEW got, NEW status,
         NEW result \in {view.result, r}, EndWith(r, got, status, result),
         KeepsCancellations, mounted' = mounted
  PROVE  RunGoesOn(r)
<1>1. End(r, got)
  BY DEF EndWith
<1>2. \/ view' = view
      \/ IsCurrent(r) /\ view' = [view EXCEPT !.status = status, !.result = result]
  BY DEF EndWith
<1>. QED
  BY <1>1, <1>2, EndGoesOn

\* A step that leaves the API alone.
LEMMA StillKeepsCancellations ==
  ASSUME WorkspaceInvariant, Still
  PROVE  KeepsCancellations /\ mounted' = mounted
BY DEF WorkspaceInvariant, WorkspaceTypes, Still, KeepsCancellations, Runs

\* A run that fails ends.
LEMMA FailGoesOn ==
  ASSUME WorkspaceInvariant, NEW r \in Runs, runs[r].at # "unused", Fail(r)
  PROVE  RunGoesOn(r)
BY EndWithGoesOn, StillKeepsCancellations DEF Fail, Throw

\* A run that goes to its next await, before or after it has asked for its review.
LEMMA GotoGoesOn ==
  ASSUME WorkspaceInvariant, NEW r \in Runs, runs[r].at # "unused", NEW at, at # "unused",
         at \in AskedFor => runs[r].at \in AskedFor,
         Goto(r, at), UNCHANGED <<view, refs>>, Still
  PROVE  RunGoesOn(r)
<1>1. WorkspaceTypes
  BY DEF WorkspaceInvariant
<1>2. r \in Used
  BY DEF Used, Unused
<1>3. /\ DOMAIN runs' = Runs /\ \A s \in Runs \ {r} : runs'[s] = runs[s]
      /\ DOMAIN runs'[r] = DOMAIN runs[r] /\ runs'[r].at = at
      /\ runs'[r].version = runs[r].version /\ runs'[r].api = runs[r].api
  BY <1>1 DEF Goto, WorkspaceTypes
<1>. QED
  BY <1>2, <1>3, StillKeepsCancellations DEF RunGoesOn, KeepsCancellations

\* A run looks at requestVersion after an await, and ends if it was overtaken.
LEMMA GoGoesOn ==
  ASSUME WorkspaceInvariant, NEW r \in Runs, runs[r].at # "unused", NEW at, at # "unused",
         at \in AskedFor => runs[r].at \in AskedFor,
         Go(r, at)
  PROVE  RunGoesOn(r)
<1>1. CASE IsCurrent(r)
  BY <1>1, GotoGoesOn DEF Go
<1>2. CASE ~IsCurrent(r)
  BY <1>2, EndWithGoesOn, StillKeepsCancellations DEF Go, Leave
<1>. QED
  BY <1>1, <1>2

\* A current run asks for the processing of its review.
LEMMA ProcessGoesOn ==
  ASSUME WorkspaceInvariant, NEW r \in Runs, runs[r].at # "unused", IsCurrent(r), Process(r),
         KeepsCancellations, mounted' = mounted
  PROVE  RunGoesOn(r)
<1>1. WorkspaceTypes
  BY DEF WorkspaceInvariant
<1>2. r \in Used
  BY DEF Used, Unused
<1>3. /\ DOMAIN runs' = Runs /\ \A s \in Runs \ {r} : runs'[s] = runs[s]
      /\ DOMAIN runs'[r] = DOMAIN runs[r] /\ runs'[r].at = "processing"
      /\ runs'[r].version = runs[r].version /\ runs'[r].api = runs[r].api
  BY <1>1 DEF Process, WorkspaceTypes
<1>4. /\ DOMAIN refs' = DOMAIN refs /\ refs'.version = refs.version
      /\ refs'.cancel = (IF runs[r].api THEN r ELSE refs.cancel)
  BY <1>1 DEF Process, WorkspaceTypes
<1>5. /\ DOMAIN view' = DOMAIN view /\ view'.lastDraft = view.lastDraft
      /\ view'.result = view.result
  BY <1>1 DEF Process, WorkspaceTypes
<1>. QED
  BY <1>2, <1>3, <1>4, <1>5 DEF RunGoesOn, KeepsCancellations

\* A run whose result was answered ends with it.
LEMMA AnswerGoesOn ==
  ASSUME WorkspaceInvariant, NEW r \in Runs, runs[r].at # "unused", ResultAnswered(r)
  PROVE  RunGoesOn(r)
BY EndWithGoesOn, StillKeepsCancellations DEF ResultAnswered, Show

\* POST /reviews is answered: the run asks for its review, or ends.
LEMMA CreatedGoesOn ==
  ASSUME WorkspaceInvariant, NEW r \in Runs, Created(r)
  PROVE  RunGoesOn(r)
<1>1. runs[r].at # "unused"
  BY DEF Created
<1>2. CASE Fail(r)
  BY <1>1, <1>2, FailGoesOn
<1>3. CASE server' = [server EXCEPT ![r].review = "PENDING"] /\ UNCHANGED mounted
  <2>1. KeepsCancellations /\ mounted' = mounted
    BY <1>3 DEF WorkspaceInvariant, WorkspaceTypes, KeepsCancellations
  <2>2. CASE IsCurrent(r) /\ Process(r)
    BY <1>1, <2>1, <2>2, ProcessGoesOn
  <2>3. CASE End(r, "nothing") /\ UNCHANGED view
    BY <1>1, <2>1, <2>3, EndGoesOn
  <2>4. CASE Throw(r)
    BY <1>1, <2>1, <2>4, EndWithGoesOn DEF Throw
  <2>5. Fail(r) \/ Throw(r) \/ (IsCurrent(r) /\ Process(r)) \/ (End(r, "nothing") /\ UNCHANGED view)
    BY DEF Created
  <2>. QED
    BY <1>1, <2>2, <2>3, <2>4, <2>5, FailGoesOn
<1>. QED
  BY <1>2, <1>3 DEF Created

\* A check for the result ends the run, or it sleeps until the next.
LEMMA CheckedGoesOn ==
  ASSUME WorkspaceInvariant, NEW r \in Runs, Checked(r)
  PROVE  RunGoesOn(r)
<1>1. runs[r].at # "unused" /\ runs[r].at \in AskedFor
  BY DEF Checked, AskedFor
<1>2. CASE ResultAnswered(r)
  BY <1>1, <1>2, AnswerGoesOn
<1>3. CASE /\ runs' = [runs EXCEPT ![r].at = "sleeping", ![r].checks = @ + 1]
           /\ Still /\ UNCHANGED <<view, refs>>
  <2>1. /\ DOMAIN runs' = Runs /\ \A s \in Runs \ {r} : runs'[s] = runs[s]
        /\ DOMAIN runs'[r] = DOMAIN runs[r] /\ runs'[r].at = "sleeping"
        /\ runs'[r].version = runs[r].version /\ runs'[r].api = runs[r].api
    BY <1>3 DEF WorkspaceInvariant, WorkspaceTypes
  <2>2. r \in Used
    BY <1>1 DEF Used, Unused
  <2>. QED
    BY <1>1, <1>3, <2>1, <2>2, StillKeepsCancellations DEF RunGoesOn, KeepsCancellations
<1>4. CASE EndWith(r, "nothing", "processing", view.result) /\ Still
  BY <1>1, <1>4, EndWithGoesOn, StillKeepsCancellations
<1>5. CASE Fail(r)
  BY <1>1, <1>5, FailGoesOn
<1>. QED
  BY <1>2, <1>3, <1>4, <1>5 DEF Checked

\* A step of a run.
LEMMA RunStepGoesOn ==
  ASSUME WorkspaceInvariant, NEW r \in Runs, RunStep(r)
  PROVE  RunGoesOn(r)
<1>1. CASE Create(r)
  <2>1. runs[r].at # "unused"
    BY <1>1 DEF Create
  <2>2. CASE runs[r].api \/ ~IsCurrent(r)
    BY <1>1, <2>1, <2>2, GoGoesOn DEF Create, AskedFor
  <2>3. CASE ~runs[r].api /\ IsCurrent(r)
    BY <1>1, <2>1, <2>3, ProcessGoesOn, StillKeepsCancellations DEF Create
  <2>. QED
    BY <2>2, <2>3 DEF WorkspaceInvariant, WorkspaceTypes
<1>2. CASE Created(r)
  BY <1>2, CreatedGoesOn
<1>3. CASE Processed(r)
  <2>1. runs[r].at # "unused" /\ runs[r].at \in AskedFor
    BY <1>3 DEF Processed, AskedFor
  <2>2. Fail(r) \/ Go(r, "reading") \/ Go(r, "waiting")
    BY <1>3 DEF Processed
  <2>. QED
    BY <2>1, <2>2, GoGoesOn, FailGoesOn
<1>4. CASE StreamSettled(r)
  <2>1. runs[r].at # "unused" /\ runs[r].at \in AskedFor
    BY <1>4 DEF StreamSettled, AskedFor
  <2>2. \/ Goto(r, "reading") /\ Still /\ UNCHANGED <<view, refs>>
        \/ Fail(r) \/ Go(r, "checking")
    BY <1>4 DEF StreamSettled
  <2>. QED
    BY <2>1, <2>2, GoGoesOn, GotoGoesOn, FailGoesOn
<1>5. CASE ResultRead(r)
  BY <1>5, AnswerGoesOn, FailGoesOn DEF ResultRead
<1>6. CASE Checked(r)
  BY <1>6, CheckedGoesOn
<1>7. CASE Awake(r)
  BY <1>7, GoGoesOn DEF Awake, AskedFor
<1>. QED
  BY <1>1, <1>2, <1>3, <1>4, <1>5, <1>6, <1>7 DEF RunStep

\* What a request for the active cancellation does to the reviews.
LEMMA RequestCancels ==
  ASSUME WorkspaceInvariant, RequestCancellation
  PROVE  /\ DOMAIN server' = Runs
         /\ \A s \in Runs : /\ DOMAIN server'[s] = DOMAIN server[s]
                            /\ server'[s].cancel = "no" => server[s].cancel = "no" /\ s # refs.cancel
<1>1. DOMAIN server' = Runs
  BY DEF RequestCancellation
<1>2. ASSUME NEW s \in Runs
      PROVE  /\ DOMAIN server'[s] = DOMAIN server[s]
             /\ server'[s].cancel = "no" => server[s].cancel = "no" /\ s # refs.cancel
  <2>1. CASE s = refs.cancel /\ server[s].cancel = "no"
    <3>1. server'[s] = [server[s] EXCEPT !.cancel = "sent"]
      BY <2>1 DEF RequestCancellation
    <3>2. DOMAIN server'[s] = DOMAIN server[s] /\ server'[s].cancel = "sent"
      BY <3>1 DEF WorkspaceInvariant, WorkspaceTypes
    <3>. QED
      BY <3>2
  <2>2. CASE ~(s = refs.cancel /\ server[s].cancel = "no")
    BY <2>2 DEF RequestCancellation
  <2>. QED
    BY <2>1, <2>2
<1>. QED
  BY <1>1, <1>2

\* A stream that is aborted leaves the rest of its run alone.
LEMMA AbortedKeepsRuns ==
  ASSUME WorkspaceInvariant, NEW stream
  PROVE  /\ DOMAIN Aborted(stream) = Runs
         /\ \A s \in Runs :
              /\ DOMAIN Aborted(stream)[s] = DOMAIN runs[s] /\ Aborted(stream)[s].at = runs[s].at
              /\ Aborted(stream)[s].version = runs[s].version /\ Aborted(stream)[s].api = runs[s].api
  BY DEF Aborted, WorkspaceInvariant, WorkspaceTypes

\* A call of startReview is the start of the next run.
LEMMA StartReviewStarts ==
  ASSUME WorkspaceInvariant, NEW draft, NEW by, StartReview(draft, by)
  PROVE  StartsNext(Newest + 1)
<1> DEFINE r == Newest + 1
<1>1. /\ mounted /\ r \in Runs /\ RequestCancellation
      /\ runs' = [Aborted(refs.stream) EXCEPT
                    ![r].at = "starting", ![r].version = refs.version + 1, ![r].by = by,
                    ![r].api = signedIn, ![r].draft = draft]
      /\ refs' = [version |-> refs.version + 1, cancel |-> 0, stream |-> r]
      /\ view' = [status |-> "loading", result |-> 0, lastDraft |-> r]
  BY DEF StartReview, Newest
<1>. HIDE DEF r
<1>2. /\ DOMAIN runs' = Runs
      /\ \A s \in Runs \ {r} : runs'[s] = Aborted(refs.stream)[s]
      /\ DOMAIN runs'[r] = DOMAIN runs[r]
      /\ runs'[r].at = "starting" /\ runs'[r].version = refs.version + 1
  BY <1>1, AbortedKeepsRuns DEF WorkspaceInvariant, WorkspaceTypes
<1>3. Overtaken({r})
  <2>1. \A s \in Runs \ {r} :
          /\ DOMAIN runs'[s] = DOMAIN runs[s] /\ runs'[s].at = runs[s].at
          /\ runs'[s].version = runs[s].version /\ runs'[s].api = runs[s].api
    BY <1>2, AbortedKeepsRuns
  <2>2. DOMAIN refs' = {"version", "cancel", "stream"} /\ refs'.version = refs.version + 1
    BY <1>1
  <2>3. /\ DOMAIN server' = Runs
        /\ \A s \in Runs : /\ DOMAIN server'[s] = DOMAIN server[s]
                           /\ server'[s].cancel = "no" => server[s].cancel = "no" /\ s # refs.cancel
    BY <1>1, RequestCancels
  <2>. QED
    BY <1>2, <2>1, <2>2, <2>3 DEF Overtaken
<1>4. DOMAIN view' = DOMAIN view /\ view'.result = 0 /\ view'.lastDraft = r
  BY <1>1 DEF WorkspaceInvariant, WorkspaceTypes
<1>5. StartsNext(r)
  BY <1>1, <1>2, <1>3, <1>4 DEF StartsNext, r
<1>. QED
  BY <1>5 DEF r

\* A reset, and the end of the page, overtake whatever is current.
LEMMA AbandonOvertakes ==
  ASSUME WorkspaceInvariant, Abandon
  PROVE  Overtaken({})
<1>1. /\ DOMAIN refs' = {"version", "cancel", "stream"} /\ refs'.version = refs.version + 1
  BY DEF Abandon
<1>2. /\ RequestCancellation /\ runs' = Aborted(refs.stream)
  BY DEF Abandon
<1>. QED
  BY <1>1, <1>2, AbortedKeepsRuns, RequestCancels DEF Overtaken

\* Every step of the workspace keeps the invariant.
LEMMA WorkspaceNextKeepsWorkspace ==
  ASSUME WorkspaceInvariant, WorkspaceNext
  PROVE  WorkspaceInvariant'
<1>1. CASE Submit \/ Retry
  BY <1>1, StartReviewStarts, StartKeeps DEF Submit, Retry
<1>2. CASE Unmount
  <2>1. Overtaken({}) /\ view' = view /\ mounted' = FALSE
    BY <1>2, AbandonOvertakes DEF Unmount
  <2>. QED
    BY <2>1, AbandonKeeps
<1>3. ASSUME NEW draft, Reset(draft)
      PROVE  WorkspaceInvariant'
  <2>1. Overtaken({}) /\ view' = Idle
    BY <1>3, AbandonOvertakes DEF Reset
  <2>2. DOMAIN view' = DOMAIN view /\ view'.result = 0
    BY <2>1 DEF Idle, WorkspaceInvariant, WorkspaceTypes
  <2>. QED
    BY <2>1, <2>2, AbandonKeeps
<1>4. ASSUME UNCHANGED <<view, refs, runs, server, mounted>>
      PROVE  WorkspaceInvariant'
  <2>1. RunsStandStill
    BY <1>4 DEF RunsStandStill, WorkspaceInvariant, WorkspaceTypes
  <2>. QED
    BY <2>1, StandingStillKeeps
<1>5. CASE SessionChanges \/ \E draft \in Drafts : Edit(draft)
  BY <1>4, <1>5 DEF SessionChanges, Edit
<1>6. ASSUME NEW r \in Runs, RunStep(r)
      PROVE  WorkspaceInvariant'
  BY <1>6, RunStepGoesOn, RunGoesOnKeeps
<1>7. ASSUME NEW r \in Runs, StreamReads(r)
      PROVE  WorkspaceInvariant'
  <2>1. /\ UNCHANGED <<view, refs, mounted, server>>
        /\ DOMAIN runs' = Runs
        /\ \A s \in Runs : /\ DOMAIN runs'[s] = DOMAIN runs[s] /\ runs'[s].at = runs[s].at
                           /\ runs'[s].version = runs[s].version /\ runs'[s].api = runs[s].api
    BY <1>7 DEF StreamReads, WorkspaceInvariant, WorkspaceTypes
  <2>2. RunsStandStill
    BY <2>1 DEF RunsStandStill, WorkspaceInvariant, WorkspaceTypes
  <2>. QED
    BY <2>2, StandingStillKeeps
<1>8. ASSUME NEW r \in Runs, Claimed(r) \/ ProcessingFails(r) \/ Completes(r) \/ CancelServed(r)
      PROVE  WorkspaceInvariant'
  <2>1. UNCHANGED <<view, refs, mounted, runs>>
    BY <1>8 DEF Claimed, ProcessingFails, Completes, CancelServed, Review
  <2>2. /\ DOMAIN server' = Runs
        /\ \A s \in Runs : /\ DOMAIN server'[s] = DOMAIN server[s]
                           /\ server'[s].cancel = "no" => server[s].cancel = "no"
    <3>1. CASE Claimed(r)
      BY <3>1 DEF Claimed, Review, WorkspaceInvariant, WorkspaceTypes
    <3>2. CASE ProcessingFails(r)
      BY <3>2 DEF ProcessingFails, Review, WorkspaceInvariant, WorkspaceTypes
    <3>3. CASE Completes(r)
      BY <3>3 DEF Completes, WorkspaceInvariant, WorkspaceTypes
    <3>4. CASE CancelServed(r)
      BY <3>4 DEF CancelServed, WorkspaceInvariant, WorkspaceTypes
    <3>. QED
      BY <1>8, <3>1, <3>2, <3>3, <3>4
  <2>3. RunsStandStill
    BY <2>1, <2>2 DEF RunsStandStill, WorkspaceInvariant, WorkspaceTypes
  <2>. QED
    BY <2>3, StandingStillKeeps
<1>. QED
  BY <1>1, <1>2, <1>3, <1>5, <1>6, <1>7, <1>8 DEF WorkspaceNext

\* The workspace starts without a run.
LEMMA WorkspaceStarts == InitWorkspace => WorkspaceInvariant
<1>. SUFFICES ASSUME InitWorkspace PROVE WorkspaceInvariant
  OBVIOUS
<1>1. WorkspaceTypes
  BY DEF InitWorkspace, Idle, NewServer, WorkspaceTypes
<1>2. Used = {} /\ \A r \in Runs : runs[r].at = "unused"
  BY DEF InitWorkspace, Used, Unused
<1>3. StartsAreOrdered
  <2>1. 0 \in 0..MaxStarts /\ 1..0 = {}
    BY WorkspaceAssumption
  <2>. QED
    BY <1>2, <2>1 DEF StartsAreOrdered
<1>4. CurrentIsNewest
  BY <1>2 DEF InitWorkspace, Idle, CurrentIsNewest, AskedFor
<1>5. AbandonedRunsCancelled
  BY <1>2 DEF AbandonedRunsCancelled
<1>. QED
  BY <1>1, <1>3, <1>4, <1>5 DEF WorkspaceInvariant

\* The workspace keeps its invariant while it is open, and nothing changes it when it is not.
LEMMA WorkspaceIsKept == WebSpec => []WorkspaceInvariant
<1>1. InitPages => WorkspaceInvariant
  BY WorkspaceStarts DEF InitPages
<1>2. WorkspaceInvariant /\ [NextPages]_webVars => WorkspaceInvariant'
  <2>. SUFFICES ASSUME WorkspaceInvariant, [NextPages]_webVars PROVE WorkspaceInvariant'
    OBVIOUS
  <2>1. CASE WorkspacePage
    BY <2>1, WorkspaceNextKeepsWorkspace DEF WorkspacePage
  <2>2. CASE UNCHANGED workspaceVars
    <3>1. RunsStandStill
      BY <2>2 DEF workspaceVars, RunsStandStill, WorkspaceInvariant, WorkspaceTypes
    <3>. QED
      BY <3>1, StandingStillKeeps
  <2>3. NextPages => WorkspacePage \/ UNCHANGED workspaceVars
    BY DEF NextPages, HistoryRoute, UsageRoute
  <2>4. UNCHANGED webVars => UNCHANGED workspaceVars
    BY DEF webVars
  <2>. QED
    BY <2>1, <2>2, <2>3, <2>4
<1>. QED
  BY <1>1, <1>2, PTL DEF WebSpec

\* The result on the screen is that of the newest start, whatever answers arrive late.
THEOREM ResultIsOfLastDraft == WebSpec => []ResultOfLastDraft
<1>1. WorkspaceInvariant => ResultOfLastDraft
  BY ResultIsOfNewest
<1>. QED
  BY <1>1, WorkspaceIsKept, PTL

\* Every run that asked for its review and was overtaken, reset or left has had its
\* cancellation sent.
THEOREM AbandonedAreCancelled == WebSpec => []AbandonedRunsCancelled
<1>1. WorkspaceInvariant => AbandonedRunsCancelled
  BY DEF WorkspaceInvariant
<1>. QED
  BY <1>1, WorkspaceIsKept, PTL

--------------------------------------------------------------------------------
(* The history page. *)

\* The shape of the list, the reads and the reviews.
HistoryTypes ==
  /\ DOMAIN list = {"status", "items", "meta"}
  /\ list.items \subseteq Rows /\ selectedIds \subseteq Rows
  /\ token \in {"none", "t"} /\ live \in 0..MaxReads
  /\ DOMAIN reads = Reads
  /\ \A i \in Reads : /\ DOMAIN reads[i] = {"at", "filters", "page", "total", "items"}
                      /\ reads[i].items \subseteq Rows \cup {-1}
  /\ DOMAIN stored = Rows /\ \A r \in Rows : DOMAIN stored[r] = {"state", "body"}

\* A read that is current and under way: the page waits for it, and no review whose
\* deletion was answered is among the rows it has read.
LiveReadIsFresh ==
  /\ token = "none" => live = 0
  /\ live # 0 /\ reads[live].at = "sent" =>
       list.status = "loading" /\ reads[live].items \cap gone = {}

\* Before the refresh has brought a token nothing was read, selected or deleted.
NothingBeforeSignIn ==
  (\A i \in Reads : reads[i].at = "unused") =>
    token = "none" /\ selectedIds = {} /\ gone = {} /\ deletion.at = "none"

\* What a served deletion, and every answered one, was for is deleted at the API.
DeletionsHold ==
  /\ DOMAIN deletion = {"at", "ids", "size", "page"}
  /\ deletion.ids \subseteq Rows /\ gone \subseteq Rows
  /\ deletion.at = "served" => \A r \in deletion.ids : stored[r].state = "deleted"
  /\ \A r \in gone : stored[r].state = "deleted"

HistoryInvariant ==
  /\ HistoryTypes
  /\ LiveReadIsFresh
  /\ NothingBeforeSignIn
  /\ DeletionsHold
  /\ SelectionIsOnScreen
  /\ DeletedStayGone

\* What the effect does with a token, and without one.
LEMMA EffectReads ==
  ASSUME HistoryTypes, NEW filters, NEW toPage, NEW newToken, Effect(filters, toPage, newToken)
  PROVE  /\ newToken = "none" => live' = 0 /\ UNCHANGED <<list, reads>>
         /\ newToken # "none" =>
              /\ live' \in Reads
              /\ list'.status = "loading" /\ list'.items = list.items
              /\ reads'[live'].at = "sent" /\ reads'[live'].items = {-1}
              /\ DOMAIN list' = {"status", "items", "meta"}
              /\ DOMAIN reads' = Reads
              /\ \A i \in Reads : /\ DOMAIN reads'[i] = {"at", "filters", "page", "total", "items"}
                                  /\ reads'[i].items \subseteq Rows \cup {-1}
<1>1. CASE newToken = "none"
  BY <1>1 DEF Effect
<1>2. CASE newToken # "none"
  <2>1. /\ list' = [list EXCEPT !.status = "loading"]
        /\ \E i \in Reads :
             /\ reads' = [reads EXCEPT ![i] = [NoRead EXCEPT !.at = "sent", !.filters = filters,
                                                             !.page = toPage]]
             /\ live' = i
    BY <1>2 DEF Effect
  <2>2. /\ list'.status = "loading" /\ list'.items = list.items
        /\ DOMAIN list' = {"status", "items", "meta"}
    BY <2>1 DEF HistoryTypes
  <2>3. /\ live' \in Reads
        /\ reads' = [reads EXCEPT ![live'] = [NoRead EXCEPT !.at = "sent", !.filters = filters,
                                                            !.page = toPage]]
    BY <2>1
  <2>4. /\ reads'[live'].at = "sent" /\ reads'[live'].items = {-1}
        /\ DOMAIN reads'[live'] = {"at", "filters", "page", "total", "items"}
    BY <2>3 DEF NoRead, HistoryTypes
  <2>5. DOMAIN reads' = Reads /\ \A i \in Reads \ {live'} : reads'[i] = reads[i]
    BY <2>3 DEF HistoryTypes
  <2>6. \A i \in Reads : /\ DOMAIN reads'[i] = {"at", "filters", "page", "total", "items"}
                         /\ reads'[i].items \subseteq Rows \cup {-1}
    BY <2>4, <2>5 DEF HistoryTypes
  <2>. QED
    BY <1>2, <2>2, <2>3, <2>4, <2>5, <2>6
<1>. QED
  BY <1>1, <1>2

\* A step in which the effect runs keeps the invariant when nothing stays selected on a
\* page that is read anew, and what it adds to the answered deletions is deleted.
LEMMA EffectKeepsHistory ==
  ASSUME HistoryInvariant, NEW filters, NEW toPage, Effect(filters, toPage, token'),
         token' \in {"none", "t"},
         selectedIds' \subseteq Rows,
         token' # "none" => selectedIds' = {},
         DeletionsHold', UNCHANGED stored,
         token' = "none" => \E i \in Reads : reads[i].at # "unused"
  PROVE  HistoryInvariant'
<1>1. HistoryTypes
  BY DEF HistoryInvariant
<1>2. CASE token' = "none"
  <2>1. live' = 0 /\ UNCHANGED <<list, reads>>
    BY <1>1, <1>2, EffectReads
  <2>2. HistoryTypes'
    BY <1>1, <2>1, HistoryAssumption DEF HistoryTypes, Reads
  <2>3. LiveReadIsFresh' /\ NothingBeforeSignIn'
    BY <1>2, <2>1 DEF LiveReadIsFresh, NothingBeforeSignIn, Reads
  <2>. QED
    BY <1>2, <2>2, <2>3 DEF HistoryInvariant, SelectionIsOnScreen, DeletedStayGone
<1>3. CASE token' # "none"
  <2>1. /\ live' \in Reads
        /\ list'.status = "loading" /\ list'.items = list.items
        /\ reads'[live'].at = "sent" /\ reads'[live'].items = {-1}
        /\ DOMAIN list' = {"status", "items", "meta"}
        /\ DOMAIN reads' = Reads
        /\ \A i \in Reads : /\ DOMAIN reads'[i] = {"at", "filters", "page", "total", "items"}
                            /\ reads'[i].items \subseteq Rows \cup {-1}
    BY <1>1, <1>3, EffectReads
  <2>2. HistoryTypes'
    BY <1>1, <2>1, HistoryAssumption DEF HistoryTypes, Reads
  <2>3. LiveReadIsFresh'
    <3>1. -1 \notin gone'
      BY HistoryAssumption DEF DeletionsHold
    <3>. QED
      BY <1>3, <2>1, <3>1 DEF LiveReadIsFresh
  <2>4. NothingBeforeSignIn'
    BY <2>1 DEF NothingBeforeSignIn, Reads
  <2>. QED
    BY <1>3, <2>1, <2>2, <2>3, <2>4 DEF HistoryInvariant, SelectionIsOnScreen, DeletedStayGone
<1>. QED
  BY <1>2, <1>3

\* So does a step that leaves the list and the reads alone, selects what is on the
\* screen and changes the deletion as the API does.
LEMMA StillPageKeepsHistory ==
  ASSUME HistoryInvariant, UNCHANGED <<list, token, reads, live, gone>>,
         selectedIds' = selectedIds
           \/ (token # "none" /\ list.status = "success" /\ selectedIds' \subseteq list.items),
         deletion'.at = "none" \/ \E i \in Reads : reads[i].at # "unused",
         DeletionsHold',
         DOMAIN stored' = Rows, \A r \in Rows : DOMAIN stored'[r] = {"state", "body"}
  PROVE  HistoryInvariant'
<1>1. HistoryTypes'
  BY DEF HistoryInvariant, HistoryTypes, Reads
<1>2. LiveReadIsFresh'
  BY DEF HistoryInvariant, LiveReadIsFresh
<1>3. NothingBeforeSignIn'
  BY DEF HistoryInvariant, NothingBeforeSignIn, Reads
<1>4. SelectionIsOnScreen' /\ DeletedStayGone'
  BY DEF HistoryInvariant, SelectionIsOnScreen, DeletedStayGone
<1>. QED
  BY <1>1, <1>2, <1>3, <1>4 DEF HistoryInvariant

\* Where there is a token, a read was started.
LEMMA TokenMeansRead ==
  ASSUME HistoryInvariant, token # "none" \/ deletion.at # "none"
  PROVE  \E i \in Reads : reads[i].at # "unused"
BY DEF HistoryInvariant, NothingBeforeSignIn

\* Another page is asked for.
LEMMA GoToKeepsHistory ==
  ASSUME HistoryInvariant, NEW draft, NEW filters, NEW toPage, GoTo(draft, filters, toPage),
         token # "none"
  PROVE  HistoryInvariant'
<1>1. /\ Effect(filters, toPage, token') /\ token' = token /\ selectedIds' = {}
      /\ UNCHANGED <<deletion, stored, gone>>
  BY DEF GoTo
<1>2. DeletionsHold' /\ token' \in {"none", "t"}
  BY <1>1 DEF HistoryInvariant, HistoryTypes, DeletionsHold
<1>. QED
  BY <1>1, <1>2, EffectKeepsHistory

\* A read is answered, and its answer is shown or refused, or is not current.
LEMMA SettledKeepsHistory ==
  ASSUME HistoryInvariant, NEW i \in Reads, Settled(i)
  PROVE  HistoryInvariant'
<1>1. /\ reads[i].at = "sent"
      /\ UNCHANGED <<token, live, deletion, stored, gone>>
      /\ DOMAIN reads' = Reads
      /\ reads'[i].at = "done" /\ reads'[i].items = {}
      /\ \A j \in Reads \ {i} : reads'[j] = reads[j]
      /\ DOMAIN reads'[i] = {"at", "filters", "page", "total", "items"}
  BY DEF Settled, HistoryInvariant, HistoryTypes
<1>2. NothingBeforeSignIn' /\ DeletionsHold'
  BY <1>1 DEF HistoryInvariant, NothingBeforeSignIn, DeletionsHold, Reads
<1>3. \A j \in Reads : /\ DOMAIN reads'[j] = {"at", "filters", "page", "total", "items"}
                       /\ reads'[j].items \subseteq Rows \cup {-1}
  BY <1>1 DEF HistoryInvariant, HistoryTypes
<1>4. CASE live # i
  <2>1. UNCHANGED <<list, selectedIds>>
    BY <1>4 DEF Settled
  <2>2. HistoryTypes'
    BY <1>1, <1>3, <2>1 DEF HistoryInvariant, HistoryTypes, Reads
  <2>3. LiveReadIsFresh'
    BY <1>1, <1>4, <2>1 DEF HistoryInvariant, LiveReadIsFresh, HistoryTypes, Reads
  <2>. QED
    BY <1>1, <1>2, <2>1, <2>2, <2>3 DEF HistoryInvariant, SelectionIsOnScreen, DeletedStayGone
<1>5. CASE live = i
  <2>1. /\ list.status = "loading" /\ reads[i].items \cap gone = {} /\ token # "none"
        /\ selectedIds = {}
    <3>1. live # 0
      BY <1>5 DEF Reads
    <3>. QED
      BY <1>1, <1>5, <3>1 DEF HistoryInvariant, LiveReadIsFresh, SelectionIsOnScreen
  <2>2. LiveReadIsFresh'
    BY <1>1, <1>5, <2>1 DEF HistoryInvariant, LiveReadIsFresh
  <2>3. selectedIds' = {}
    BY <1>5, <2>1 DEF Settled
  <2>4. CASE ReadsList(reads[i]) /\ list' = [status |-> "success", items |-> reads[i].items,
                         meta |-> ListMeta(reads[i].page, PageLimit, reads[i].total)]
    <3>1. /\ DOMAIN list' = {"status", "items", "meta"} /\ list'.status = "success"
          /\ list'.items = reads[i].items
      BY <2>4
    <3>2. reads[i].items \subseteq Rows
      BY <2>4 DEF ReadsList, HistoryInvariant, HistoryTypes
    <3>3. HistoryTypes'
      BY <1>1, <1>3, <2>3, <3>1, <3>2 DEF HistoryInvariant, HistoryTypes, Reads
    <3>. QED
      BY <1>1, <1>2, <2>1, <2>2, <2>3, <3>1, <3>3
         DEF HistoryInvariant, SelectionIsOnScreen, DeletedStayGone
  <2>5. CASE list' = [NoData EXCEPT !.status = "error"]
    <3>1. /\ DOMAIN list' = {"status", "items", "meta"} /\ list'.status = "error"
          /\ list'.items = {}
      BY <2>5 DEF NoData
    <3>2. HistoryTypes'
      BY <1>1, <1>3, <2>3, <3>1 DEF HistoryInvariant, HistoryTypes, Reads
    <3>. QED
      BY <1>1, <1>2, <2>2, <2>3, <3>1, <3>2
         DEF HistoryInvariant, SelectionIsOnScreen, DeletedStayGone
  <2>. QED
    BY <1>5, <2>4, <2>5 DEF Settled
<1>. QED
  BY <1>4, <1>5

\* The rows of a page are rows that match.
LEMMA PageHasKeptRows ==
  ASSUME NEW filters, NEW toPage, HistoryInvariant
  PROVE  /\ PageOf(Matching(filters), toPage, PageLimit) \subseteq Rows
         /\ PageOf(Matching(filters), toPage, PageLimit) \cap gone = {}
<1>1. PageOf(Matching(filters), toPage, PageLimit) \subseteq Matching(filters)
  BY DEF PageOf
<1>2. Matching(filters) \subseteq Rows /\ Matching(filters) \cap gone = {}
  BY DEF Matching, HistoryInvariant, DeletionsHold
<1>. QED
  BY <1>1, <1>2

\* A query of a read is answered.
LEMMA QueriesKeepHistory ==
  ASSUME HistoryInvariant, NEW i \in Reads, Counted(i) \/ RowsRead(i)
  PROVE  HistoryInvariant'
<1>1. /\ UNCHANGED <<list, selectedIds, token, live, deletion, stored, gone>>
      /\ DOMAIN reads' = Reads
      /\ \A j \in Reads : /\ DOMAIN reads'[j] = {"at", "filters", "page", "total", "items"}
                          /\ reads'[j].at = reads[j].at
                          /\ \/ reads'[j].items = reads[j].items
                             \/ reads'[j].items \subseteq Rows /\ reads'[j].items \cap gone = {}
  BY PageHasKeptRows DEF Counted, RowsRead, HistoryInvariant, HistoryTypes
<1>2. HistoryTypes'
  BY <1>1 DEF HistoryInvariant, HistoryTypes, Reads
<1>3. LiveReadIsFresh'
  BY <1>1 DEF HistoryInvariant, LiveReadIsFresh, HistoryTypes, Reads
<1>4. NothingBeforeSignIn' /\ DeletionsHold'
  BY <1>1 DEF HistoryInvariant, NothingBeforeSignIn, DeletionsHold, Reads
<1>. QED
  BY <1>1, <1>2, <1>3, <1>4 DEF HistoryInvariant, SelectionIsOnScreen, DeletedStayGone

\* Every step of the history page keeps the invariant.
LEMMA HistoryNextKeepsHistory ==
  ASSUME HistoryInvariant, HistoryNext
  PROVE  HistoryInvariant'
<1>1. ASSUME NEW draft \in Filters, SetDraft(draft)
      PROVE  HistoryInvariant'
  <2>1. UNCHANGED <<list, selectedIds, token, reads, live, deletion, stored, gone>>
    BY <1>1 DEF SetDraft
  <2>. QED
    BY <2>1 DEF HistoryInvariant, HistoryTypes, LiveReadIsFresh, NothingBeforeSignIn, DeletionsHold,
                SelectionIsOnScreen, DeletedStayGone, Reads
<1>2. CASE ApplyFilters \/ ClearFilters \/ GoPrevious \/ GoNext
  BY <1>2, GoToKeepsHistory DEF ApplyFilters, ClearFilters, GoPrevious, GoNext, InTable, InPanel
<1>3. CASE RetryRead
  <2>1. /\ Effect(panel.filters, panel.page, token') /\ token' = token /\ token # "none"
        /\ list.status = "error" /\ UNCHANGED <<selectedIds, deletion, stored, gone>>
    BY <1>3 DEF RetryRead
  <2>2. selectedIds' = {} /\ DeletionsHold' /\ token' \in {"none", "t"}
    BY <2>1 DEF HistoryInvariant, HistoryTypes, SelectionIsOnScreen, DeletionsHold
  <2>. QED
    BY <2>1, <2>2, EffectKeepsHistory
<1>4. ASSUME NEW ids, Select(ids), ids \subseteq list.items \cup selectedIds
      PROVE  HistoryInvariant'
  <2>1. /\ UNCHANGED <<list, token, reads, live, deletion, stored, gone>>
        /\ token # "none" /\ list.status = "success" /\ selectedIds' = ids
    BY <1>4 DEF Select, InTable, InPanel
  <2>2. selectedIds' \subseteq list.items
    BY <1>4, <2>1 DEF HistoryInvariant, SelectionIsOnScreen
  <2>3. DeletionsHold'
    BY <2>1 DEF HistoryInvariant, DeletionsHold
  <2>. QED
    BY <2>1, <2>2, <2>3, TokenMeansRead, StillPageKeepsHistory DEF HistoryInvariant, HistoryTypes
<1>5. ASSUME NEW r \in Rows, UpdateSelection(r)
      PROVE  HistoryInvariant'
  BY <1>4, <1>5 DEF UpdateSelection
<1>6. CASE SelectAll
  <2>1. (IF list.items \subseteq selectedIds THEN selectedIds \ list.items
         ELSE selectedIds \cup list.items) \subseteq list.items \cup selectedIds
    OBVIOUS
  <2>. QED
    BY <1>4, <1>6, <2>1 DEF SelectAll
<1>7. ASSUME NEW r \in Rows, OtherDeletes(r)
      PROVE  HistoryInvariant'
  <2>1. /\ UNCHANGED <<list, selectedIds, token, reads, live, deletion, gone>>
        /\ DOMAIN stored' = Rows
        /\ \A s \in Rows : /\ DOMAIN stored'[s] = {"state", "body"}
                           /\ stored[s].state = "deleted" => stored'[s].state = "deleted"
    BY <1>7 DEF OtherDeletes, HistoryInvariant, HistoryTypes
  <2>2. DeletionsHold'
    BY <2>1 DEF HistoryInvariant, DeletionsHold
  <2>3. deletion'.at = "none" \/ \E i \in Reads : reads[i].at # "unused"
    BY <2>1, TokenMeansRead
  <2>. QED
    BY <2>1, <2>2, <2>3, StillPageKeepsHistory
<1>8. ASSUME NEW status, Dialog(status)
      PROVE  HistoryInvariant'
  <2>1. UNCHANGED <<list, selectedIds, token, reads, live, deletion, stored, gone>>
    BY <1>8 DEF Dialog
  <2>. QED
    BY <2>1 DEF HistoryInvariant, HistoryTypes, LiveReadIsFresh, NothingBeforeSignIn, DeletionsHold,
                SelectionIsOnScreen, DeletedStayGone, Reads
<1>9. CASE OpenDeleteConfirmation \/ KeepRecords
  BY <1>8, <1>9 DEF OpenDeleteConfirmation, KeepRecords
<1>10. CASE ConfirmDelete
  <2>1. CASE selectedIds = {}
    BY <1>8, <1>10, <2>1 DEF ConfirmDelete
  <2>2. CASE selectedIds # {}
    <3>1. /\ UNCHANGED <<list, selectedIds, token, reads, live, stored, gone>> /\ token # "none"
          /\ DOMAIN deletion' = {"at", "ids", "size", "page"}
          /\ deletion'.at = "sent" /\ deletion'.ids = selectedIds
      BY <1>10, <2>2 DEF ConfirmDelete
    <3>2. DeletionsHold'
      BY <3>1 DEF HistoryInvariant, HistoryTypes, DeletionsHold
    <3>. QED
      BY <3>1, <3>2, TokenMeansRead, StillPageKeepsHistory DEF HistoryInvariant, HistoryTypes
  <2>. QED
    BY <2>1, <2>2
<1>11. CASE DeletionServed
  <2>1. /\ UNCHANGED <<list, selectedIds, token, reads, live, gone>> /\ deletion.at = "sent"
        /\ DOMAIN deletion' = {"at", "ids", "size", "page"} /\ deletion'.ids = deletion.ids
        /\ DOMAIN stored' = Rows
    BY <1>11 DEF DeletionServed, HistoryInvariant, DeletionsHold
  <2>2. \A s \in Rows : /\ DOMAIN stored'[s] = {"state", "body"}
                        /\ stored[s].state = "deleted" => stored'[s].state = "deleted"
                        /\ s \in deletion.ids => stored'[s].state = "deleted"
    BY <1>11 DEF DeletionServed, HistoryInvariant, HistoryTypes
  <2>3. DeletionsHold'
    BY <2>1, <2>2 DEF HistoryInvariant, DeletionsHold
  <2>. QED
    BY <2>1, <2>2, <2>3, TokenMeansRead, StillPageKeepsHistory
<1>12. CASE Deleted
  <2>1. /\ Effect(panel.filters, panel'.page, token') /\ token' = token /\ deletion.at = "served"
        /\ deletion' = NoDeletion /\ selectedIds' = {} /\ gone' = gone \cup deletion.ids
        /\ UNCHANGED stored
    BY <1>12 DEF Deleted
  <2>2. DeletionsHold' /\ token' \in {"none", "t"}
    BY <2>1 DEF HistoryInvariant, HistoryTypes, DeletionsHold, NoDeletion
  <2>3. \E i \in Reads : reads[i].at # "unused"
    BY <2>1, TokenMeansRead
  <2>. QED
    BY <2>1, <2>2, <2>3, EffectKeepsHistory
<1>13. CASE DeletionFails
  <2>1. /\ UNCHANGED <<list, selectedIds, token, reads, live, stored, gone>>
        /\ deletion' = NoDeletion
    BY <1>13 DEF DeletionFails
  <2>2. DeletionsHold' /\ deletion'.at = "none"
    BY <2>1 DEF HistoryInvariant, DeletionsHold, NoDeletion
  <2>. QED
    BY <2>1, <2>2, StillPageKeepsHistory DEF HistoryInvariant, HistoryTypes
<1>14. CASE SignedIn
  <2>1. /\ Effect(panel.filters, panel.page, token') /\ token' = "t"
        /\ selectedIds' = selectedIds /\ selectedIds = {}
        /\ UNCHANGED <<deletion, stored, gone>>
    BY <1>14 DEF SignedIn, HistoryInvariant, NothingBeforeSignIn
  <2>2. DeletionsHold'
    BY <2>1 DEF HistoryInvariant, DeletionsHold
  <2>. QED
    BY <2>1, <2>2, EffectKeepsHistory
<1>15. CASE Logout
  <2>1. /\ Effect(panel.filters, panel.page, token') /\ token' = "none" /\ token = "t"
        /\ UNCHANGED <<selectedIds, deletion, stored, gone>>
    BY <1>15 DEF Logout
  <2>2. DeletionsHold' /\ selectedIds' \subseteq Rows
    BY <2>1 DEF HistoryInvariant, HistoryTypes, DeletionsHold
  <2>3. \E i \in Reads : reads[i].at # "unused"
    BY <2>1, TokenMeansRead
  <2>. QED
    BY <2>1, <2>2, <2>3, EffectKeepsHistory
<1>16. ASSUME NEW i \in Reads, Counted(i) \/ RowsRead(i) \/ Settled(i)
       PROVE  HistoryInvariant'
  BY <1>16, QueriesKeepHistory, SettledKeepsHistory
<1>. QED
  BY <1>1, <1>2, <1>3, <1>5, <1>6, <1>7, <1>9, <1>10, <1>11, <1>12, <1>13, <1>14, <1>15, <1>16
     DEF HistoryNext

\* The history page starts empty and signed out.
LEMMA HistoryStarts == InitHistory => HistoryInvariant
<1>. SUFFICES ASSUME InitHistory PROVE HistoryInvariant
  OBVIOUS
<1>1. /\ DOMAIN list = {"status", "items", "meta"} /\ list.items = {} /\ list.status = "loading"
      /\ selectedIds = {} /\ token = "none" /\ live = 0 /\ gone = {}
  BY DEF InitHistory, NoData
<1>2. /\ DOMAIN reads = Reads
      /\ \A i \in Reads : /\ DOMAIN reads[i] = {"at", "filters", "page", "total", "items"}
                          /\ reads[i].items = {-1}
  BY DEF InitHistory, NoRead
<1>3. DOMAIN stored = Rows /\ \A r \in Rows : DOMAIN stored[r] = {"state", "body"}
  BY DEF InitHistory
<1>4. /\ DOMAIN deletion = {"at", "ids", "size", "page"} /\ deletion.ids = {} /\ deletion.at = "none"
  BY DEF InitHistory, NoDeletion
<1>5. HistoryTypes
  BY <1>1, <1>2, <1>3, HistoryAssumption DEF HistoryTypes
<1>. QED
  BY <1>1, <1>4, <1>5 DEF HistoryInvariant, LiveReadIsFresh, NothingBeforeSignIn, DeletionsHold,
                          SelectionIsOnScreen, DeletedStayGone

\* The history page keeps its invariant while it is open, and nothing changes it when it is not.
LEMMA HistoryIsKept == WebSpec => []HistoryInvariant
<1>1. InitPages => HistoryInvariant
  BY HistoryStarts DEF InitPages
<1>2. HistoryInvariant /\ [NextPages]_webVars => HistoryInvariant'
  <2>. SUFFICES ASSUME HistoryInvariant, [NextPages]_webVars PROVE HistoryInvariant'
    OBVIOUS
  <2>1. CASE HistoryRoute
    BY <2>1, HistoryNextKeepsHistory DEF HistoryRoute
  <2>2. CASE UNCHANGED historyVars
    BY <2>2 DEF historyVars, HistoryInvariant, HistoryTypes, LiveReadIsFresh, NothingBeforeSignIn,
                DeletionsHold, SelectionIsOnScreen, DeletedStayGone, Reads
  <2>3. NextPages => HistoryRoute \/ UNCHANGED historyVars
    BY DEF NextPages, WorkspacePage, UsageRoute
  <2>4. UNCHANGED webVars => UNCHANGED historyVars
    BY DEF webVars
  <2>. QED
    BY <2>1, <2>2, <2>3, <2>4
<1>. QED
  BY <1>1, <1>2, PTL DEF WebSpec

\* "Delete selected" never reaches a review that the owner does not see in the list.
THEOREM OnlyShownAreSelected == WebSpec => []SelectionIsOnScreen
<1>1. HistoryInvariant => SelectionIsOnScreen
  BY DEF HistoryInvariant
<1>. QED
  BY <1>1, HistoryIsKept, PTL

\* No list, and no read under way, brings back a review whose deletion was answered.
THEOREM DeletedAreNotShown == WebSpec => []DeletedStayGone
<1>1. HistoryInvariant => DeletedStayGone
  BY DEF HistoryInvariant
<1>. QED
  BY <1>1, HistoryIsKept, PTL

--------------------------------------------------------------------------------
(* The usage pages. *)

\* A read of the usage page that is under way and current reads the present source.
UsageInvariant ==
  /\ DOMAIN screen = {"kind", "page", "size", "shown"}
  /\ DOMAIN loads = Loads
  /\ \A i \in Loads : DOMAIN loads[i] = {"at", "source", "page", "seen"}
  /\ liveLoad \in Loads
  /\ loads[liveLoad].at = "sent" => loads[liveLoad].source = source
  /\ FiguresOfTheSource
  /\ CostIsOfAllRows

\* The usage rows of the user are finitely many, and so are their versions.
LEMMA VersionsAreFinite ==
  ASSUME NEW rows
  PROVE  IsFiniteSet(VersionsOf(rows))
<1> DEFINE price == [r \in UsageRows(rows) |-> rows[r].version]
<1>1. IsFiniteSet(UsageRows(rows))
  <2>1. UsageRows(rows) \in SUBSET Reviews
    BY DEF UsageRows, Completed
  <2>. QED
    BY <2>1, FS_Subset, UsageAssumption
<1>2. price \in Surjection(UsageRows(rows), VersionsOf(rows))
  <2>1. price \in [UsageRows(rows) -> VersionsOf(rows)]
    BY DEF VersionsOf
  <2>2. \A v \in VersionsOf(rows) : \E r \in UsageRows(rows) : price[r] = v
    BY DEF VersionsOf
  <2>. QED
    BY <2>1, <2>2 DEF Surjection
<1>. HIDE DEF price
<1>. QED
  BY <1>1, <1>2, FS_Surjection

\* A cost that is told has the version of every usage row that was read.
LEMMA CostHasOneVersion ==
  ASSUME NEW rows, CostAggregate(rows).status = "AVAILABLE"
  PROVE  /\ CostAggregate(rows).micros = Cardinality(UsageRows(rows))
         /\ \A r \in UsageRows(rows) : CostAggregate(rows).versions = {rows[r].version}
<1> DEFINE status == CASE VersionsOf(rows) \subseteq {"none"} -> "UNAVAILABLE"
                       [] VersionsOf(rows) # {"none"} /\ Cardinality(VersionsOf(rows)) = 1 -> "AVAILABLE"
                       [] OTHER -> "MIXED"
<1>0. /\ CostAggregate(rows).status = status
      /\ CostAggregate(rows).micros = IF status = "AVAILABLE" THEN Cardinality(UsageRows(rows)) ELSE -1
      /\ CostAggregate(rows).versions = IF status = "AVAILABLE" THEN VersionsOf(rows) ELSE {}
  BY DEF CostAggregate
<1>1. /\ Cardinality(VersionsOf(rows)) = 1
      /\ CostAggregate(rows).micros = Cardinality(UsageRows(rows))
      /\ CostAggregate(rows).versions = VersionsOf(rows)
  BY <1>0
<1>2. PICK version : VersionsOf(rows) = {version}
  BY <1>1, VersionsAreFinite, FS_Singleton
<1>3. \A r \in UsageRows(rows) : rows[r].version = version
  BY <1>2 DEF VersionsOf
<1>. QED
  BY <1>1, <1>2, <1>3

\* So the cost of every summary is that of all its rows.
LEMMA SummaryTellsAllRows ==
  ASSUME NEW seen, Summary(seen).cost.status = "AVAILABLE"
  PROVE  /\ Summary(seen).cost.micros = Cardinality(DOMAIN Summary(seen).costVersions)
         /\ \A r \in DOMAIN Summary(seen).costVersions :
              Summary(seen).cost.versions = {Summary(seen).costVersions[r]}
<1>1. /\ Summary(seen).cost = CostAggregate(seen["cost"])
      /\ Summary(seen).costVersions = [r \in UsageRows(seen["cost"]) |-> seen["cost"][r].version]
  BY DEF Summary
<1>2. DOMAIN Summary(seen).costVersions = UsageRows(seen["cost"])
  BY <1>1
<1>3. \A r \in UsageRows(seen["cost"]) : Summary(seen).costVersions[r] = seen["cost"][r].version
  BY <1>1
<1>4. CostAggregate(seen["cost"]).status = "AVAILABLE"
  BY <1>1
<1>. QED
  BY <1>1, <1>2, <1>3, <1>4, CostHasOneVersion

\* What a read shows names its source, and its summary, if any, is one of the API.
LEMMA AnswerIsTrue ==
  ASSUME NEW load
  PROVE  /\ Answer(load).source = load.source
         /\ \A summary \in Answer(load).summary :
              summary.cost.status = "AVAILABLE" =>
                /\ summary.cost.micros = Cardinality(DOMAIN summary.costVersions)
                /\ \A r \in DOMAIN summary.costVersions :
                     summary.cost.versions = {summary.costVersions[r]}
<1> DEFINE seen == [q \in Queries |-> CHOOSE rows \in load.seen[q] : TRUE]
<1>1. Answer(load).source = load.source
  BY DEF Answer
<1>2. Answer(load).summary \subseteq {Summary(seen)}
  BY DEF Answer
<1>. HIDE DEF seen
<1>. QED
  BY <1>1, <1>2, SummaryTellsAllRows

\* A read that starts is one of the present source, and nothing is shown meanwhile.
LEMMA LoadKeepsUsage ==
  ASSUME UsageInvariant, NEW toPage, NEW toSource, NEW size, Load(toPage, toSource, size),
         source' = toSource
  PROVE  UsageInvariant'
<1>1. /\ liveLoad' \in Loads /\ liveLoad' = liveLoad + 1
  BY UsageAssumption DEF UsageInvariant, Load, Loads
<1>2. /\ DOMAIN screen' = {"kind", "page", "size", "shown"}
      /\ screen'.shown = Loading
  BY DEF UsageInvariant, Load
<1>3. /\ DOMAIN loads' = Loads
      /\ \A i \in Loads : DOMAIN loads'[i] = {"at", "source", "page", "seen"}
      /\ loads'[liveLoad'].source = toSource
  BY <1>1 DEF UsageInvariant, Load, NoLoad
<1>4. FiguresOfTheSource' /\ CostIsOfAllRows'
  BY <1>2 DEF FiguresOfTheSource, CostIsOfAllRows, Loading
<1>. QED
  BY <1>1, <1>2, <1>3, <1>4 DEF UsageInvariant, Loads

\* A read that has ended is not under way.
LEMMA FinishKeepsLoads ==
  ASSUME UsageInvariant, NEW i \in Loads, Finish(i), UNCHANGED <<source, liveLoad>>
  PROVE  /\ DOMAIN loads' = Loads
         /\ \A j \in Loads : DOMAIN loads'[j] = {"at", "source", "page", "seen"}
         /\ loads'[liveLoad].at = "sent" => loads'[liveLoad].source = source
  BY DEF UsageInvariant, Finish, NoLoad

\* Every step of the usage page keeps the invariant.
LEMMA UsageNextKeepsUsage ==
  ASSUME UsageInvariant, UsageNext
  PROVE  UsageInvariant'
<1>1. CASE SourceChanges
  BY <1>1, LoadKeepsUsage DEF SourceChanges
<1>2. CASE RetryUsage
  BY <1>2, LoadKeepsUsage DEF RetryUsage
<1>3. CASE TurnPage
  BY <1>3, LoadKeepsUsage DEF TurnPage, Turn
<1>4. ASSUME NEW size \in 0..FixtureSize, FilterUsage(size)
      PROVE  UsageInvariant'
  <2>1. CASE screen.page = 1
    <3>1. /\ DOMAIN screen' = DOMAIN screen /\ screen'.shown = screen.shown
          /\ UNCHANGED <<loads, liveLoad, source>>
      BY <1>4, <2>1 DEF FilterUsage, UsageInvariant
    <3>. QED
      BY <3>1 DEF UsageInvariant, FiguresOfTheSource, CostIsOfAllRows, Loads
  <2>2. CASE screen.page # 1
    BY <1>4, <2>2, LoadKeepsUsage DEF FilterUsage
  <2>. QED
    BY <2>1, <2>2
<1>5. ASSUME NEW i \in Loads, LoadSettles(i)
      PROVE  UsageInvariant'
  <2>1. Finish(i) /\ UNCHANGED <<source, liveLoad>> /\ ShowUsage(i) /\ loads[i].at = "sent"
    BY <1>5 DEF LoadSettles, Answered
  <2>2. CASE i = liveLoad
    <3>1. /\ DOMAIN screen' = {"kind", "page", "size", "shown"}
          /\ screen'.shown = Answer(loads[i])
      BY <2>1, <2>2 DEF ShowUsage, UsageInvariant
    <3>2. screen'.shown.source = source'
      BY <2>1, <2>2, <3>1, AnswerIsTrue DEF UsageInvariant
    <3>3. FiguresOfTheSource' /\ CostIsOfAllRows'
      BY <3>1, <3>2, AnswerIsTrue DEF FiguresOfTheSource, CostIsOfAllRows
    <3>. QED
      BY <2>1, <3>1, <3>3, FinishKeepsLoads DEF UsageInvariant, Loads
  <2>3. CASE i # liveLoad
    <3>1. UNCHANGED screen
      BY <2>1, <2>3 DEF ShowUsage
    <3>. QED
      BY <2>1, <3>1, FinishKeepsLoads DEF UsageInvariant, FiguresOfTheSource, CostIsOfAllRows, Loads
  <2>. QED
    BY <2>2, <2>3
<1>6. ASSUME NEW i \in Loads, LoadFails(i)
      PROVE  UsageInvariant'
  <2>1. Finish(i) /\ UNCHANGED <<source, liveLoad>>
    BY <1>6 DEF LoadFails
  <2>2. /\ DOMAIN screen' = {"kind", "page", "size", "shown"}
        /\ screen'.shown = screen.shown \/ (screen'.shown.status = "error" /\ screen'.shown.summary = {})
    BY <1>6 DEF LoadFails, UsageInvariant, Loading
  <2>3. FiguresOfTheSource' /\ CostIsOfAllRows'
    BY <2>1, <2>2 DEF UsageInvariant, FiguresOfTheSource, CostIsOfAllRows
  <2>. QED
    BY <2>1, <2>2, <2>3, FinishKeepsLoads DEF UsageInvariant, Loads
<1>7. ASSUME NEW i \in Loads, NEW q \in Queries, QueryRuns(i, q)
      PROVE  UsageInvariant'
  <2>1. /\ UNCHANGED <<screen, source, liveLoad>>
        /\ DOMAIN loads' = Loads
        /\ \A j \in Loads : /\ DOMAIN loads'[j] = DOMAIN loads[j]
                            /\ loads'[j].at = loads[j].at /\ loads'[j].source = loads[j].source
    BY <1>7 DEF QueryRuns, UsageInvariant
  <2>. QED
    BY <2>1 DEF UsageInvariant, FiguresOfTheSource, CostIsOfAllRows, Loads
<1>8. ASSUME NEW r \in Reviews, LedgerChanges(r)
      PROVE  UsageInvariant'
  BY <1>8 DEF LedgerChanges, UsageInvariant, FiguresOfTheSource, CostIsOfAllRows, Loads
<1>. QED
  BY <1>1, <1>2, <1>3, <1>4, <1>5, <1>6, <1>7, <1>8 DEF UsageNext

\* The usage page starts with its one read, of the demo.
LEMMA UsageStarts == InitUsage => UsageInvariant
<1>. SUFFICES ASSUME InitUsage PROVE UsageInvariant
  OBVIOUS
<1>1. /\ DOMAIN screen = {"kind", "page", "size", "shown"} /\ screen.shown = Loading
  BY DEF InitUsage
<1>2. liveLoad \in Loads /\ liveLoad = 1
  BY UsageAssumption DEF InitUsage, Loads
<1>3. /\ DOMAIN loads = Loads
      /\ \A i \in Loads : DOMAIN loads[i] = {"at", "source", "page", "seen"}
      /\ loads[liveLoad].source = source
  BY <1>2 DEF InitUsage, NoLoad
<1>4. FiguresOfTheSource /\ CostIsOfAllRows
  BY <1>1 DEF FiguresOfTheSource, CostIsOfAllRows, Loading
<1>. QED
  BY <1>1, <1>2, <1>3, <1>4 DEF UsageInvariant

\* The usage page keeps its invariant while it is open, and nothing changes it when it is not.
LEMMA UsageIsKept == WebSpec => []UsageInvariant
<1>1. InitPages => UsageInvariant
  BY UsageStarts DEF InitPages
<1>2. UsageInvariant /\ [NextPages]_webVars => UsageInvariant'
  <2>. SUFFICES ASSUME UsageInvariant, [NextPages]_webVars PROVE UsageInvariant'
    OBVIOUS
  <2>1. CASE UsageRoute
    BY <2>1, UsageNextKeepsUsage DEF UsageRoute
  <2>2. CASE UNCHANGED usageVars
    BY <2>2 DEF usageVars, UsageInvariant, FiguresOfTheSource, CostIsOfAllRows, Loads
  <2>3. NextPages => UsageRoute \/ UNCHANGED usageVars
    BY DEF NextPages, WorkspacePage, HistoryRoute
  <2>4. UNCHANGED webVars => UNCHANGED usageVars
    BY DEF webVars
  <2>. QED
    BY <2>1, <2>2, <2>3, <2>4
<1>. QED
  BY <1>1, <1>2, PTL DEF WebSpec

\* A usage page that shows figures shows those of the transport it has: the demo's
\* answer never appears under a token, nor the API's without one.
THEOREM FiguresAreOfTheSource == WebSpec => []FiguresOfTheSource
<1>1. UsageInvariant => FiguresOfTheSource
  BY DEF UsageInvariant
<1>. QED
  BY <1>1, UsageIsKept, PTL

\* A cost that is shown covers every usage row behind it, at one version of the prices.
THEOREM CostCoversAllRows == WebSpec => []CostIsOfAllRows
<1>1. UsageInvariant => CostIsOfAllRows
  BY DEF UsageInvariant
<1>. QED
  BY <1>1, UsageIsKept, PTL
================================================================================
