---------------------------- MODULE AdmissionLedger ----------------------------
(***************************************************************************)
(* What quota admission promises the clients of POST /reviews: for one     *)
(* user, each idempotency key is settled at most once and for good, either *)
(* granted (its review exists) or refused (the day's quota is used up).    *)
(* The request that is told CREATED is the one whose step granted the key, *)
(* so no two requests are; REPLAYED is said of granted keys only and       *)
(* RATE_LIMITED of refused ones only.  CONFLICT and UNAVAILABLE promise    *)
(* nothing about the key.                                                  *)
(***************************************************************************)
CONSTANTS Keys, Requests

VARIABLES ledger,  \* what became of each key
          asks,    \* the key each request names
          answer   \* what each request was told

vars == <<ledger, asks, answer>>

Answers == {"CREATED", "REPLAYED", "RATE_LIMITED", "CONFLICT", "UNAVAILABLE"}

Init == /\ ledger = [k \in Keys |-> "open"]
        /\ asks \in [Requests -> Keys]
        /\ answer = [r \in Requests |-> "none"]

\* A key is settled, and the request that did it may get word of it.
Settle(r, to, told) ==
  /\ answer[r] = "none"
  /\ ledger[asks[r]] = "open"
  /\ ledger' = [ledger EXCEPT ![asks[r]] = to]
  /\ answer' \in {answer, [answer EXCEPT ![r] = told]}
  /\ UNCHANGED asks

Grant(r) == Settle(r, "granted", "CREATED")
Refuse(r) == Settle(r, "refused", "RATE_LIMITED")

Answer(r) ==
  /\ answer[r] = "none"
  /\ \E told \in Answers \ {"CREATED"} :
       /\ told = "REPLAYED" => ledger[asks[r]] = "granted"
       /\ told = "RATE_LIMITED" => ledger[asks[r]] = "refused"
       /\ answer' = [answer EXCEPT ![r] = told]
  /\ UNCHANGED <<ledger, asks>>

Next == \E r \in Requests : Grant(r) \/ Refuse(r) \/ Answer(r)

Spec == Init /\ [][Next]_vars
===============================================================================
