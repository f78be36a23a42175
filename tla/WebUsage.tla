------------------------------- MODULE WebUsage -------------------------------
(***************************************************************************)
(* The usage pages of the web client (dashboard, usage, usage history) and *)
(* the read model behind them.  A page reads its resources together, from  *)
(* the demo until a token arrives and from the API then; the API answers   *)
(* the summary from several queries that run at different moments, while   *)
(* reviews complete and are deleted.                                       *)
(***************************************************************************)
EXTENDS ReviewWire, FiniteSetsExt

CONSTANTS Reviews,       \* reviews of the user
          UsageLimit,    \* pageLimit of the usage history
          MaxLoads,      \* bound on the reads a page starts
          FixtureSize,   \* length of the demo history
          PageKinds,     \* the pages under check
          DailyLimit     \* USAGE_QUOTA_CONFIG, of one mode

ASSUME UsageAssumption == /\ IsFiniteSet(Reviews) /\ UsageLimit \in Nat \ {0}
                          /\ MaxLoads \in Nat \ {0} /\ FixtureSize \in Nat /\ DailyLimit \in Nat
                          /\ Reviews \subseteq Nat
                          /\ PageKinds \subseteq {"dashboard", "overview", "history"}

VARIABLES screen,     \* which page, its page number and its UsageResourceState
          source,     \* the transport of useUsageTransport
          loads,      \* the reads: one call for each resource
          liveLoad,   \* the read whose isCurrent holds
          ledger      \* the reviews and their usage rows, at the API

usageVars == <<screen, source, loads, liveLoad, ledger>>

Resources == {"summary", "history", "quota"}

\* What useUsageDashboard, useUsageOverview and useUsageHistory ask for.
ResourcesOf(kind) == CASE kind = "dashboard" -> Resources
                       [] kind = "overview"  -> {"summary", "quota"}
                       [] OTHER              -> {"history"}

\* The usage row of a completed review: it may be missing; its cost has the version
\* of the prices, or none when no prices were configured.
Versions == {"missing", "none", "v1", "v2"}
LedgerRows == [review : {"open", "deleted"}, version : {"none"}]
                \cup [review : {"completed"}, version : Versions]

--------------------------------------------------------------------------------
(* The read model of the API. *)

Owned(rows) == {r \in Reviews : rows[r].review # "deleted"}
Completed(rows) == {r \in Reviews : rows[r].review = "completed"}
UsageRows(rows) == {r \in Completed(rows) : rows[r].version # "missing"}
VersionsOf(rows) == {rows[r].version : r \in UsageRows(rows)}

\* Faulty variant: rows without a cost are left out of account.
CostOfKnown(rows) ==
  LET versions == VersionsOf(rows) \ {"none"}
  IN [status |-> CASE versions = {} -> "UNAVAILABLE" [] Cardinality(versions) = 1 -> "AVAILABLE"
                   [] OTHER -> "MIXED",
      micros |-> IF Cardinality(versions) = 1 THEN Cardinality(UsageRows(rows)) ELSE -1,
      versions |-> IF Cardinality(versions) = 1 THEN versions ELSE {}]

\* mapCostAggregate, of the rows its query returned; a row costs 1 micro. A cost
\* of several versions, or of some of the rows, is not told.
CostAggregate(rows) ==
  LET versions == VersionsOf(rows)
      status == CASE versions \subseteq {"none"} -> "UNAVAILABLE"
                  [] versions # {"none"} /\ Cardinality(versions) = 1 -> "AVAILABLE"
                  [] OTHER -> "MIXED"
  IN [status |-> status,
      micros |-> IF status = "AVAILABLE" THEN Cardinality(UsageRows(rows)) ELSE -1,
      versions |-> IF status = "AVAILABLE" THEN versions ELSE {}]

\* The queries told apart: the counts of reviews, the rows (of the page, or their
\* token sums) and the costs; seen[q] is the state at the moment of query q.
Queries == {"counts", "rows", "cost"}
QueriesOf(kind) == IF kind = "history" THEN {"counts", "rows"} ELSE Queries

\* getSummaryForUser and toUsageSummary.
Summary(seen) ==
  [total |-> Cardinality(Owned(seen["counts"])),
   byStatus |-> [completed |-> Cardinality(Completed(seen["counts"])),
                 open |-> Cardinality(Owned(seen["counts"]) \ Completed(seen["counts"]))],
   inputTokens |-> Cardinality(UsageRows(seen["rows"])),
   outputTokens |-> Cardinality(UsageRows(seen["rows"])),
   totalTokens |-> 2 * Cardinality(UsageRows(seen["rows"])),
   cost |-> CostAggregate(seen["cost"]),
   costVersions |-> [r \in UsageRows(seen["cost"]) |-> seen["cost"][r].version]]

\* listHistoryForUser and toUsageHistoryResponse: the count and the rows of a page.
\* toUsageHistoryItem: tokens with a usage row, a cost with a version.
UsageItem(row) ==
  [tokens |-> row.version # "missing" /\ row.review = "completed",
   cost |-> row.version \notin {"missing", "none"}]
HistoryPage(seen, page) ==
  [items |-> {<<r, UsageItem(seen["rows"][r])>> : r \in PageOf(Owned(seen["rows"]), page, UsageLimit)},
   meta |-> ListMeta(page, UsageLimit, Cardinality(Owned(seen["counts"])))]

\* countReviewsForUserOnUtcDay and toUsageQuota: deleted reviews count too.
QuotaOf(used) == [limit |-> DailyLimit, used |-> used, remaining |-> Max({0, DailyLimit - used})]

--------------------------------------------------------------------------------
(* The validators of the client. *)

\* isUsageSummaryData.
ReadsUsageSummary(summary) ==
  /\ summary.totalTokens = summary.inputTokens + summary.outputTokens
  /\ IF summary.cost.status = "AVAILABLE"
     THEN summary.cost.micros >= 0 /\ summary.cost.versions # {}
     ELSE summary.cost.micros = -1 /\ summary.cost.versions = {}

\* isUsageHistoryItem, isUsageHistoryData; isUsageQuotaMode, isUsageQuotaData.
ReadsUsageHistory(history) ==
  /\ \A item \in history.items : item[2].cost => item[2].tokens
  /\ ReadsMeta(history.meta, 50)
ReadsQuota(quota) == quota.remaining = Max({0, quota.limit - quota.used})

\* createHistoryPage of the demo, filterUsageHistory with createHistoryMeta: all in order.
FixturePage(page, size) ==
  [items |-> {<<r>> : r \in PageOf(1..size, page, UsageLimit)},
   meta |-> ListMeta(page, UsageLimit, size)]

ClampPage(page, totalPages) == IF totalPages = 0 THEN 1 ELSE Min({Max({page, 1}), totalPages})

--------------------------------------------------------------------------------
(* The pages. *)

Loads == 1..MaxLoads
NothingSeen == [q \in Queries |-> {}]
NoLoad == [at |-> "unused", source |-> "demo", page |-> 1, seen |-> NothingSeen]
Loading == [status |-> "loading", summary |-> {}, history |-> {}, source |-> "demo"]

InitUsage ==
  /\ screen \in {[kind |-> kind, page |-> 1, size |-> FixtureSize, shown |-> Loading] :
                   kind \in PageKinds}
  /\ source = "demo"
  /\ loads = [i \in Loads |-> IF i = 1 THEN [NoLoad EXCEPT !.at = "sent"] ELSE NoLoad]
  /\ liveLoad = 1
  /\ ledger \in [Reviews -> {row \in LedgerRows : row.review # "deleted"}]

\* The effect: loading, and the read is sent.
Load(page, newSource, size) ==
  /\ liveLoad < MaxLoads
  /\ liveLoad' = liveLoad + 1
  /\ loads' = [loads EXCEPT ![liveLoad + 1] = [NoLoad EXCEPT !.at = "sent", !.source = newSource,
                                                             !.page = page]]
  /\ screen' = [screen EXCEPT !.page = page, !.size = size, !.shown = Loading]

\* The token arrives, or is removed: another transport.
SourceChanges ==
  /\ source' \in {"demo", "api"} \ {source}
  /\ Load(screen.page, source', screen.size)
  /\ UNCHANGED ledger

RetryUsage == /\ screen.shown.status = "error"
              /\ Load(screen.page, source, screen.size)
              /\ UNCHANGED <<source, ledger>>

\* What UsageHistory makes of its state: the fixture is filtered and cut in the page.
Visible == IF source = "demo" THEN FixturePage(screen.page, screen.size)
           ELSE CHOOSE page \in screen.shown.history : TRUE
OnHistory == screen.kind = "history" /\ screen.shown.status = "success"
Turn(page) == Load(ClampPage(page, Visible.meta.totalPages), source, screen.size)

\* handlePrevious, handleNext; without rows there are no buttons.
TurnPage ==
  /\ OnHistory /\ Visible.items # {}
  /\ \/ Visible.meta.hasPrevious /\ Turn(screen.page - 1)
     \/ Visible.meta.hasNext /\ Turn(screen.page + 1)
  /\ UNCHANGED <<source, ledger>>

\* handleFilterChange, clearFilters: page 1, which is read again if it was another.
FilterUsage(size) ==
  /\ OnHistory /\ source = "demo" /\ size # screen.size
  /\ IF screen.page = 1
     THEN screen' = [screen EXCEPT !.size = size] /\ UNCHANGED <<loads, liveLoad>>
     ELSE Load(1, source, size)
  /\ UNCHANGED <<source, ledger>>

\* A query of the API is answered; the demo answers from constants.
QueryRuns(i, q) ==
  /\ loads[i].at = "sent" /\ loads[i].source = "api" /\ loads[i].seen[q] = {}
  /\ q \in QueriesOf(screen.kind)
  /\ loads' = [loads EXCEPT ![i].seen[q] = {ledger}]
  /\ UNCHANGED <<screen, source, liveLoad, ledger>>

\* What the read shows when all its calls are answered.
Answer(load) ==
  LET seen == [q \in Queries |-> CHOOSE rows \in load.seen[q] : TRUE]
      wanted == ResourcesOf(screen.kind)
      api == load.source = "api"
  IN [status |-> "success", source |-> load.source,
      summary |-> IF api /\ "summary" \in wanted THEN {Summary(seen)} ELSE {},
      history |-> IF "history" \notin wanted THEN {}
                  ELSE {IF api THEN HistoryPage(seen, load.page) ELSE FixturePage(load.page, FixtureSize)}]

Answered(i) == /\ loads[i].at = "sent"
               /\ loads[i].source = "api" => \A q \in QueriesOf(screen.kind) : loads[i].seen[q] # {}
Finish(i) == loads' = [loads EXCEPT ![i] = [NoLoad EXCEPT !.at = "done"]]

\* Faulty variant: whichever read is answered last is shown.
ShowUsageAnyway(i) == screen' = [screen EXCEPT !.shown = Answer(loads[i])]

\* then(): an answer that is not current changes nothing.
ShowUsage(i) == IF i = liveLoad THEN screen' = [screen EXCEPT !.shown = Answer(loads[i])]
                                ELSE UNCHANGED screen

LoadSettles(i) ==
  /\ Answered(i)
  /\ loads[i].source = "api" =>
       /\ \A summary \in Answer(loads[i]).summary : ReadsUsageSummary(summary)
       /\ \A history \in Answer(loads[i]).history : ReadsUsageHistory(history)
       /\ ReadsQuota(QuotaOf(Cardinality(Reviews)))
  /\ ShowUsage(i)
  /\ Finish(i)
  /\ UNCHANGED <<source, liveLoad, ledger>>

\* catch(): a call fails, or its answer is refused.
LoadFails(i) ==
  /\ loads[i].at = "sent" /\ loads[i].source = "api"
  /\ screen' = IF i = liveLoad THEN [screen EXCEPT !.shown = [Loading EXCEPT !.status = "error"]]
               ELSE screen
  /\ Finish(i)
  /\ UNCHANGED <<source, liveLoad, ledger>>

\* A review completes with its usage row, or is deleted.
LedgerChanges(r) ==
  /\ \/ /\ ledger[r].review = "open"
        /\ \E version \in Versions :
             ledger' = [ledger EXCEPT ![r] = [review |-> "completed", version |-> version]]
     \/ /\ ledger[r].review # "deleted"
        /\ ledger' = [ledger EXCEPT ![r] = [review |-> "deleted", version |-> "none"]]
  /\ UNCHANGED <<screen, source, loads, liveLoad>>

UsageNext ==
  \/ SourceChanges \/ RetryUsage \/ TurnPage
  \/ \E size \in 0..FixtureSize : FilterUsage(size)
  \/ \E i \in Loads : \/ LoadSettles(i) \/ LoadFails(i)
                      \/ \E q \in Queries : QueryRuns(i, q)
  \/ \E r \in Reviews : LedgerChanges(r)

--------------------------------------------------------------------------------
(* What the user is told. *)

\* A page that says its figures come from the API shows figures of the API, and
\* the other way round: the demo's answer, which takes its 100 ms, is not shown
\* once a token has changed the transport (useUsageTransport, isCurrent).
FiguresOfTheSource == screen.shown.status = "success" => screen.shown.source = source

\* A cost is shown only when every usage row behind it was priced, and all with the
\* version that is shown: the user never reads as the cost of the reviews what some
\* of them cost, or a sum over two price lists.
CostIsOfAllRows ==
  \A summary \in screen.shown.summary :
    summary.cost.status = "AVAILABLE" =>
      /\ summary.cost.micros = Cardinality(DOMAIN summary.costVersions)
      /\ \A r \in DOMAIN summary.costVersions : summary.cost.versions = {summary.costVersions[r]}
================================================================================
