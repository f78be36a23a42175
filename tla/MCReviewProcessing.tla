-------------------------- MODULE MCReviewProcessing --------------------------
(* ReviewProcessing on small instances. *)
EXTENDS ReviewProcessing, TLC

MCAnswers == Tokens

\* Either one of each fault, or two user requests and a crash: cancel and retry
\* let a second run overtake the first.
OneOfEach == [user |-> 1, crash |-> 1, db |-> 1, redis |-> 1]
TwoRequests == [user |-> 2, crash |-> 1, db |-> 0, redis |-> 0]
SafetyBudgets == {OneOfEach, TwoRequests}

\* Database faults leave a claim to the user, see ClaimSettles.
LiveBudgets == {[user |-> 1, crash |-> 1, db |-> 0, redis |-> 1]}

\* The instances are interchangeable.
InstanceSymmetry == Permutations(Instances)
===============================================================================
