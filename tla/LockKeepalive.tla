----------------------------- MODULE LockKeepalive -----------------------------
(***************************************************************************)
(* ReviewLockKeepalive against the TTL of the Redis lock key, in time.     *)
(*                                                                         *)
(* The lease lasts three units of Third.  A cycle starts when the reply to *)
(* the acquisition or to a renewal arrives; the renewal timer is due one   *)
(* Third later, the watchdog two Thirds later.  Redis counts the TTL from  *)
(* the moment it executes a command, which is earlier than the reply.      *)
(* A command waits up to ConnectTimeout for a connection; once sent it is  *)
(* given up after CommandTimeout.  The event loop may run any callback up  *)
(* to Lag late.                                                            *)
(*                                                                         *)
(* Time is relative (ages and a remaining TTL), so that the state space is *)
(* finite without a bound on the length of a run.                          *)
(***************************************************************************)
EXTENDS Naturals

CONSTANTS Third,           \* lockTtlMs / 3
          ConnectTimeout,  \* REDIS_CONNECT_TIMEOUT_MS
          CommandTimeout,  \* REDIS_COMMAND_TIMEOUT_MS
          Lag              \* the longest delay of a due callback

ASSUME TimesAssumption == /\ Third \in Nat /\ Lag \in Nat
                          /\ ConnectTimeout \in Nat /\ CommandTimeout \in Nat

\* A command timeout and two late callbacks fit into a third of the lease.  The
\* default lease of 10 s and timeout of 1 s leave 1.1 s for a late callback; the
\* shortest lease usage.config.ts accepts, 1 s, does not satisfy it.
ASSUME LeaseIsLongEnough == CommandTimeout + 2 * Lag < Third

VARIABLES phase,         \* acquiring, held, lost or stopped
          cycleAge,      \* time since scheduleCycle was called
          renewalArmed,  \* the renewal timer of this cycle is pending
          request,       \* the command under way
          requestAge,    \* time since it began to connect, or since it was sent
          ttl,           \* what is left of the key in Redis, 0 if it is absent
          forgotten      \* history: Redis lost the key before its TTL ran out

vars == <<phase, cycleAge, renewalArmed, request, requestAge, ttl, forgotten>>

Lease == 3 * Third
RenewalDeadline == Third
WatchdogDeadline == 2 * Third

Requests == {"none", "connecting", "sent", "accepted", "refused"}
InFlight == request # "none"
Waiting == phase \in {"acquiring", "held"}

RequestTimeout == IF request = "connecting" THEN ConnectTimeout ELSE CommandTimeout

\* process: SET NX PX is about to be sent.
Init == /\ phase = "acquiring"
        /\ cycleAge = 0
        /\ renewalArmed = FALSE
        /\ request = "connecting"
        /\ requestAge = 0
        /\ ttl = 0
        /\ forgotten = FALSE

\* getReadyClient has a connection: the command is sent and its deadline starts.
Connected ==
  /\ Waiting
  /\ request = "connecting"
  /\ request' = "sent"
  /\ requestAge' = 0
  /\ UNCHANGED <<phase, cycleAge, renewalArmed, ttl, forgotten>>

\* Redis executes the command: SET NX sets the key, the renewal script extends
\* it if the token is still there.  It may do so after the caller gave up.
RedisExecutes ==
  /\ request = "sent"
  /\ IF phase = "acquiring" \/ ttl > 0
     THEN request' = "accepted" /\ ttl' = Lease
     ELSE request' = "refused" /\ ttl' = ttl
  /\ UNCHANGED <<phase, cycleAge, renewalArmed, requestAge, forgotten>>

\* Failover, eviction or a flush drops the key.
RedisForgets ==
  /\ ttl > 0
  /\ ttl' = 0
  /\ forgotten' = TRUE
  /\ UNCHANGED <<phase, cycleAge, renewalArmed, request, requestAge>>

\* scheduleCycle: both timers count from now.
scheduleCycle ==
  /\ cycleAge' = 0
  /\ renewalArmed' = TRUE
  /\ request' = "none"
  /\ requestAge' = 0

lose == /\ phase' = "lost"
        /\ renewalArmed' = FALSE
        /\ UNCHANGED <<cycleAge, requestAge, ttl, forgotten>>

AcquireReply ==
  /\ phase = "acquiring"
  /\ request = "accepted"
  /\ phase' = "held"
  /\ scheduleCycle
  /\ UNCHANGED <<ttl, forgotten>>

\* PROCESSING_LOCK_UNAVAILABLE: the run never starts.
AcquireFails ==
  /\ phase = "acquiring"
  /\ phase' = "stopped"
  /\ UNCHANGED <<cycleAge, renewalArmed, request, requestAge, ttl, forgotten>>

RenewalTimer ==
  /\ phase = "held"
  /\ renewalArmed
  /\ cycleAge >= RenewalDeadline
  /\ IF cycleAge >= WatchdogDeadline \/ InFlight
     THEN lose /\ UNCHANGED request
     ELSE /\ request' = "connecting"
          /\ requestAge' = 0
          /\ renewalArmed' = FALSE
          /\ UNCHANGED <<phase, cycleAge, ttl, forgotten>>

\* Faulty variant: what the script answered is not looked at.
RenewalReplyUnread ==
  /\ phase = "held"
  /\ request \in {"accepted", "refused"}
  /\ IF cycleAge >= WatchdogDeadline
     THEN lose /\ request' = "none"
     ELSE scheduleCycle /\ UNCHANGED <<phase, ttl, forgotten>>

\* The reply of the renewal: false, or true but too late, loses the lease.
RenewalReply ==
  /\ phase = "held"
  /\ request \in {"accepted", "refused"}
  /\ IF request = "refused" \/ cycleAge >= WatchdogDeadline
     THEN lose /\ request' = "none"
     ELSE scheduleCycle /\ UNCHANGED <<phase, ttl, forgotten>>

\* Faulty variant: a failed renewal starts the next cycle.
RenewalFailureIgnored ==
  /\ phase = "held"
  /\ InFlight
  /\ scheduleCycle
  /\ UNCHANGED <<phase, ttl, forgotten>>

\* There is no connection, the command failed, or its deadline passed whether or
\* not Redis executed it.
RenewalFails ==
  /\ phase = "held"
  /\ InFlight
  /\ lose
  /\ UNCHANGED request

WatchdogTimer ==
  /\ phase = "held"
  /\ cycleAge >= WatchdogDeadline
  /\ lose
  /\ UNCHANGED request

\* The run has settled.
stop ==
  /\ phase \in {"held", "lost"}
  /\ phase' = "stopped"
  /\ renewalArmed' = FALSE
  /\ UNCHANGED <<cycleAge, request, requestAge, ttl, forgotten>>

\* Time passes, but never past the latest moment of a due callback.
Tick ==
  /\ phase = "held" => cycleAge < WatchdogDeadline + Lag
  /\ renewalArmed => cycleAge < RenewalDeadline + Lag
  /\ Waiting /\ InFlight => requestAge < RequestTimeout + Lag
  /\ cycleAge' = IF phase = "held" THEN cycleAge + 1 ELSE cycleAge
  /\ requestAge' = IF Waiting /\ InFlight THEN requestAge + 1 ELSE requestAge
  /\ ttl' = IF ttl > 0 THEN ttl - 1 ELSE 0
  /\ UNCHANGED <<phase, renewalArmed, request, forgotten>>

Next == \/ Connected \/ RedisExecutes \/ RedisForgets
        \/ AcquireReply \/ AcquireFails
        \/ RenewalTimer \/ RenewalReply \/ RenewalFails \/ WatchdogTimer
        \/ stop \/ Tick

Spec == Init /\ [][Next]_vars

\* withDeadline gives a command up, answered or not.
CommandDeadline == /\ requestAge >= RequestTimeout
                   /\ AcquireFails \/ RenewalFails

\* Time goes on and due callbacks run; nothing forces Redis to answer.
FairSpec == /\ Spec
            /\ WF_vars(Tick)
            /\ WF_vars(RenewalTimer) /\ WF_vars(RenewalReply)
            /\ WF_vars(WatchdogTimer) /\ WF_vars(CommandDeadline)

-------------------------------------------------------------------------------
\* Type invariant.
TypeOK == /\ phase \in {"acquiring", "held", "lost", "stopped"}
          /\ cycleAge \in Nat
          /\ renewalArmed \in BOOLEAN
          /\ request \in Requests
          /\ requestAge \in Nat
          /\ ttl \in Nat
          /\ forgotten \in BOOLEAN

\* A run that has not been told otherwise owns the key: the watchdog strikes
\* before Redis expires the lease, for every reply delay and every lateness of
\* the callbacks, so two runs never both believe they hold the lease of a review.
HeldMeansOwned == phase = "held" /\ ~forgotten => ttl > 0

\* A key that is gone is noticed: whatever Redis answers or does not answer, the
\* run stops believing in the lease.
LossIsNoticed == (phase = "held" /\ ttl = 0) ~> phase # "held"

\* The strengthening that makes HeldMeansOwned inductive: what is left of the
\* lease, against the age of the cycle and of the command that renewed it.
LeaseInvariant ==
  /\ TypeOK
  /\ phase = "held" => cycleAge <= WatchdogDeadline + Lag
  /\ Waiting /\ request \in {"sent", "accepted", "refused"} => requestAge <= CommandTimeout + Lag
  /\ Waiting /\ request = "accepted" /\ ~forgotten => ttl + requestAge >= Lease
  /\ phase = "held" /\ ~forgotten => ttl + cycleAge + CommandTimeout + Lag >= Lease
  /\ phase = "acquiring" => request \in {"connecting", "sent", "accepted"}
===============================================================================
