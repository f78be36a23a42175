------------------------------ MODULE WebHistory ------------------------------
(***************************************************************************)
(* The review history page (HistoryWorkspace): an effect reads one page of *)
(* the owner's reviews whenever the token, the filters, the page or        *)
(* requestVersion change, rows are selected and deleted behind a dialog.   *)
(* The API counts the matching reviews and reads the rows of the page in   *)
(* two queries, at two moments.                                            *)
(***************************************************************************)
EXTENDS ReviewWire

CONSTANTS Rows,        \* reviews of the owner, newest last
          PageLimit,   \* pageLimit
          MaxReads,    \* bound on the reads the page starts
          Titled,      \* the reviews a title filter matches
          Bodies       \* titles and contexts the API has admitted

ASSUME HistoryAssumption ==
  /\ Rows \subseteq Nat /\ Titled \subseteq Rows
  /\ PageLimit \in Nat \ {0} /\ MaxReads \in Nat \ {0}
  /\ \A body \in Bodies : body \in DraftFields /\ ApiAdmits(body)

VARIABLES panel,       \* the filter form, the filters applied and the page
          list,        \* data, readStatus and the request it answers
          selectedIds,
          dialog,      \* deleteStatus
          token,       \* of useAuthSession: "none" before the refresh and after a logout
          reads,       \* the calls of list()
          live,        \* the read whose isCurrent holds, 0: none
          deletion,    \* the call of deleteMany()
          stored,      \* the reviews, at the API
          gone         \* the reviews whose deletion was answered

historyVars == <<panel, list, selectedIds, dialog, token, reads, live, deletion, stored, gone>>

Filters == {"all", "title", "badLanguage"}
Reads == 1..MaxReads
NoRead == [at |-> "unused", filters |-> "all", page |-> 1, total |-> -1, items |-> {-1}]
NoDeletion == [at |-> "none", ids |-> {}, size |-> 0, page |-> 1]
NoData == [status |-> "loading", items |-> {}, meta |-> ListMeta(1, PageLimit, 0)]

InitHistory ==
  /\ panel = [draft |-> "all", filters |-> "all", page |-> 1]
  /\ list = NoData
  /\ selectedIds = {}
  /\ dialog = "idle"
  /\ token = "none"
  /\ reads = [i \in Reads |-> NoRead]
  /\ live = 0
  /\ deletion = NoDeletion
  /\ stored \in [Rows -> {[state |-> "kept", body |-> body] : body \in Bodies}]
  /\ gone = {}

--------------------------------------------------------------------------------
(* The API: owned rows that are not deleted, filtered, newest first. *)

Matching(filters) == {r \in Rows : stored[r].state = "kept"
                                   /\ (filters = "all" \/ r \in Titled)}

--------------------------------------------------------------------------------
(* The effect. *)

\* It runs when what it depends on has changed: the read under way is not current
\* any more; without a token nothing else happens.
Effect(filters, page, newToken) ==
  IF newToken = "none"
  THEN live' = 0 /\ UNCHANGED <<list, reads>>
  ELSE /\ \E i \in Reads :
            /\ reads[i].at = "unused" /\ \A j \in 1..i - 1 : reads[j].at # "unused"
            /\ reads' = [reads EXCEPT ![i] = [NoRead EXCEPT !.at = "sent", !.filters = filters,
                                                            !.page = page]]
            /\ live' = i
       /\ list' = [list EXCEPT !.status = "loading"]

\* The two queries of listForUser.
Counted(i) ==
  /\ reads[i].at = "sent" /\ reads[i].total = -1
  /\ reads' = [reads EXCEPT ![i].total = Cardinality(Matching(reads[i].filters))]
  /\ UNCHANGED <<panel, list, selectedIds, dialog, token, live, deletion, stored, gone>>
RowsRead(i) ==
  /\ reads[i].at = "sent" /\ -1 \in reads[i].items
  /\ reads' = [reads EXCEPT ![i].items = PageOf(Matching(reads[i].filters), reads[i].page, PageLimit)]
  /\ UNCHANGED <<panel, list, selectedIds, dialog, token, live, deletion, stored, gone>>

\* isData of an answer.
ReadsList(read) ==
  /\ read.total # -1 /\ -1 \notin read.items
  /\ \A r \in read.items : ReadsItem(stored[r].body)
  /\ ReadsMeta(ListMeta(read.page, PageLimit, read.total), 50)

\* then() and catch(): an answer that is not current changes nothing.
Settled(i) ==
  /\ reads[i].at = "sent"
  /\ reads' = [reads EXCEPT ![i].at = "done", ![i].total = 0, ![i].items = {}]
  /\ IF live # i
     THEN UNCHANGED <<list, selectedIds>>
     ELSE \/ /\ ReadsList(reads[i])
             /\ list' = [status |-> "success", items |-> reads[i].items,
                         meta |-> ListMeta(reads[i].page, PageLimit, reads[i].total)]
             /\ selectedIds' = {}
          \/ /\ list' = [NoData EXCEPT !.status = "error"]
             /\ UNCHANGED selectedIds
  /\ UNCHANGED <<panel, dialog, token, live, deletion, stored, gone>>

--------------------------------------------------------------------------------
(* The user. *)

IsBusy == list.status = "loading" \/ dialog = "working"
InPanel == token # "none" /\ ~IsBusy
InTable == InPanel /\ list.status = "success" /\ list.items # {}

\* Faulty variant: the selection is kept.
GoToSelected(draft, filters, page) ==
  /\ panel' = [draft |-> draft, filters |-> filters, page |-> page]
  /\ Effect(filters, page, token)
  /\ UNCHANGED <<selectedIds, dialog, token, deletion, stored, gone>>

\* applyFilters, clearFilters, goPrevious, goNext: another page is asked for.
GoTo(draft, filters, page) ==
  /\ panel' = [draft |-> draft, filters |-> filters, page |-> page]
  /\ selectedIds' = {}
  /\ Effect(filters, page, token)
  /\ UNCHANGED <<dialog, token, deletion, stored, gone>>

SetDraft(draft) ==
  /\ InPanel
  /\ panel' = [panel EXCEPT !.draft = draft]
  /\ UNCHANGED <<list, selectedIds, dialog, token, reads, live, deletion, stored, gone>>

\* An invalid language is only reported.
ApplyFilters == InPanel /\ panel.draft # "badLanguage" /\ GoTo(panel.draft, panel.draft, 1)
ClearFilters == InPanel /\ GoTo("all", "all", 1)
GoPrevious == InTable /\ list.meta.page > 1 /\ GoTo(panel.draft, panel.filters, panel.page - 1)
GoNext == /\ InTable /\ list.meta.page < list.meta.totalPages
          /\ GoTo(panel.draft, panel.filters, panel.page + 1)

\* "Retry read": requestVersion + 1.
RetryRead ==
  /\ token # "none" /\ list.status = "error"
  /\ Effect(panel.filters, panel.page, token)
  /\ UNCHANGED <<panel, selectedIds, dialog, token, deletion, stored, gone>>

\* updateSelection, selectAll.
Select(ids) ==
  /\ InTable
  /\ selectedIds' = ids
  /\ UNCHANGED <<panel, list, dialog, token, reads, live, deletion, stored, gone>>
UpdateSelection(r) == r \in list.items /\ Select((selectedIds \ {r}) \cup ({r} \ selectedIds))
SelectAll == Select(IF list.items \subseteq selectedIds THEN selectedIds \ list.items
                                                        ELSE selectedIds \cup list.items)

\* openDeleteConfirmation, and "Keep records".
Dialog(status) ==
  /\ dialog' = status
  /\ UNCHANGED <<panel, list, selectedIds, token, reads, live, deletion, stored, gone>>
OpenDeleteConfirmation == InTable /\ selectedIds # {} /\ Dialog("confirming")
KeepRecords == token # "none" /\ dialog \in {"confirming", "error"} /\ Dialog("idle")

\* confirmDelete up to its await: what it needs after it is of this moment.
ConfirmDelete ==
  /\ token # "none" /\ dialog \in {"confirming", "error"}
  /\ IF selectedIds = {}
     THEN Dialog("idle")
     ELSE /\ dialog' = "working"
          /\ deletion' = [at |-> "sent", ids |-> selectedIds,
                          size |-> Cardinality(list.items), page |-> panel.page]
          /\ UNCHANGED <<panel, list, selectedIds, token, reads, live, stored, gone>>

\* softDeleteManyForUser: the rows that are still there.
DeletionServed ==
  /\ deletion.at = "sent"
  /\ deletion' = [deletion EXCEPT !.at = "served"]
  /\ stored' = [r \in Rows |-> IF r \in deletion.ids
                               THEN [stored[r] EXCEPT !.state = "deleted"] ELSE stored[r]]
  /\ UNCHANGED <<panel, list, selectedIds, dialog, token, reads, live, gone>>

\* Faulty variant: the list is left as it is.
DeletedNoReload ==
  /\ deletion.at = "served"
  /\ deletion' = NoDeletion
  /\ dialog' = "idle" /\ selectedIds' = {} /\ gone' = gone \cup deletion.ids
  /\ UNCHANGED <<panel, list, token, reads, live, stored>>

\* The deletion is answered: the page is read again, or the one before it.
Deleted ==
  /\ deletion.at = "served"
  /\ deletion' = NoDeletion
  /\ dialog' = "idle" /\ selectedIds' = {} /\ gone' = gone \cup deletion.ids
  /\ panel' = [panel EXCEPT !.page = IF deletion.size = 1 /\ deletion.page > 1 THEN @ - 1 ELSE @]
  /\ Effect(panel.filters, panel'.page, token)
  /\ UNCHANGED <<token, stored>>

\* The answer is lost, or the request is.
DeletionFails ==
  /\ deletion.at \in {"sent", "served"}
  /\ deletion' = NoDeletion
  /\ dialog' = "error"
  /\ UNCHANGED <<panel, list, selectedIds, token, reads, live, stored, gone>>

\* The refresh of the page load brings a token once; a logout removes it.
SignedIn == /\ token = "none" /\ \A i \in Reads : reads[i].at = "unused"
            /\ token' = "t"
            /\ Effect(panel.filters, panel.page, "t")
            /\ UNCHANGED <<panel, selectedIds, dialog, deletion, stored, gone>>
Logout == /\ token = "t"
          /\ token' = "none"
          /\ Effect(panel.filters, panel.page, "none")
          /\ UNCHANGED <<panel, selectedIds, dialog, deletion, stored, gone>>

\* Another client of the owner deletes a review.
OtherDeletes(r) ==
  /\ stored[r].state = "kept"
  /\ stored' = [stored EXCEPT ![r].state = "deleted"]
  /\ UNCHANGED <<panel, list, selectedIds, dialog, token, reads, live, deletion, gone>>

HistoryNext ==
  \/ \E draft \in Filters : SetDraft(draft)
  \/ ApplyFilters \/ ClearFilters \/ GoPrevious \/ GoNext \/ RetryRead
  \/ \E r \in Rows : UpdateSelection(r) \/ OtherDeletes(r)
  \/ SelectAll \/ OpenDeleteConfirmation \/ KeepRecords
  \/ ConfirmDelete \/ DeletionServed \/ Deleted \/ DeletionFails
  \/ SignedIn \/ Logout
  \/ \E i \in Reads : Counted(i) \/ RowsRead(i) \/ Settled(i)

--------------------------------------------------------------------------------
(* What the owner sees. *)

\* The rows that "Delete selected" would delete are on the screen: no change of
\* the filters, the page or the list leaves a selected row behind that the
\* owner does not see any more (HistoryWorkspace).
SelectionIsOnScreen ==
  token # "none" /\ selectedIds # {} => /\ list.status = "success"
                                       /\ selectedIds \subseteq list.items

\* Once the API has answered that reviews were removed, the page does not show
\* them: neither the list it had nor a read that was under way brings them back.
DeletedStayGone ==
  token # "none" /\ list.status = "success" => list.items \cap gone = {}
================================================================================
