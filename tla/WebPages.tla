------------------------------- MODULE WebPages -------------------------------
(***************************************************************************)
(* The pages of the web client.  A link between them is an ordinary one:   *)
(* the browser loads the page anew and the state of the one before is      *)
(* gone, so each page is a system of its own that runs beside the API.     *)
(***************************************************************************)
EXTENDS WebReview, WebHistory, WebUsage

VARIABLE page    \* the page that is open

webVars == <<page, workspaceVars, historyVars, usageVars>>

InitPages == /\ page \in {"workspace", "history", "usage"}
             /\ InitWorkspace /\ InitHistory /\ InitUsage
             \* A page that is not open has one initial state.
             /\ page # "workspace" => form = (CHOOSE draft \in Drafts : TRUE) /\ signedIn
             /\ page # "history" => stored = [r \in Rows |-> [state |-> "kept", body |-> CHOOSE body \in Bodies : TRUE]]
             /\ page # "usage" => /\ screen.kind = "history"
                                /\ ledger = [r \in Reviews |-> CHOOSE row \in LedgerRows : row.review = "open"]

WorkspacePage == page = "workspace" /\ WorkspaceNext /\ UNCHANGED <<page, historyVars, usageVars>>
HistoryRoute == page = "history" /\ HistoryNext /\ UNCHANGED <<page, workspaceVars, usageVars>>
UsageRoute == page = "usage" /\ UsageNext /\ UNCHANGED <<page, workspaceVars, historyVars>>

NextPages == WorkspacePage \/ HistoryRoute \/ UsageRoute

\* A request is answered or fails, and a timer fires; what an event stream brings,
\* and what the user does, is not promised.
RunsGoOn == \A r \in Runs : WF_workspaceVars(RunStep(r))

WebSpec == InitPages /\ [][NextPages]_webVars /\ RunsGoOn
================================================================================
