------------------------- MODULE LockKeepalive_proofs -------------------------
(* HeldMeansOwned for every lease, command timeout and lag that LeaseIsLongEnough *)
(* admits.                                                                       *)
EXTENDS LockKeepalive, TLAPS

\* A run that has not acquired anything holds nothing.
LEMMA InitEstablishesLeaseInvariant == Init => LeaseInvariant
  <1> SUFFICES ASSUME Init PROVE LeaseInvariant
    OBVIOUS
  <1>1. TypeOK
    BY DEF Init, TypeOK, Requests
  <1>2. requestAge <= CommandTimeout + Lag
    BY TimesAssumption DEF Init
  <1>3. phase = "acquiring" /\ request = "connecting"
    BY DEF Init
  <1>4. QED
    BY <1>1, <1>2, <1>3 DEF LeaseInvariant

\* The deadlines the keepalive keeps are ahead of the expiry in Redis.
LEMMA LeaseInvariantImpliesOwned == LeaseInvariant => HeldMeansOwned
  BY TimesAssumption, LeaseIsLongEnough
  DEF LeaseInvariant, TypeOK, HeldMeansOwned, Lease, WatchdogDeadline

\* Nothing is claimed of a run that has noticed the loss.
LEMMA LosingKeepsLeaseInvariant ==
  LeaseInvariant /\ lose /\ request' \in Requests => LeaseInvariant'
  BY DEF LeaseInvariant, TypeOK, lose, Waiting

\* Each step keeps the deadlines ahead: the timers run out before the TTL does.
LEMMA StepKeepsLeaseInvariant == LeaseInvariant /\ [Next]_vars => LeaseInvariant'
  <1> SUFFICES ASSUME LeaseInvariant, [Next]_vars
               PROVE  LeaseInvariant'
    OBVIOUS
  <1>0. request \in Requests /\ "none" \in Requests
    BY DEF LeaseInvariant, TypeOK, Requests
  <1>5. CASE RenewalTimer
    <2>1. CASE lose /\ UNCHANGED request
      BY <2>1, <1>0, LosingKeepsLeaseInvariant
    <2>2. CASE ~(lose /\ UNCHANGED request)
      <3>1. /\ phase = "held" /\ phase' = "held" /\ renewalArmed' = FALSE
            /\ request' = "connecting" /\ requestAge' = 0
            /\ UNCHANGED <<cycleAge, ttl, forgotten>>
        BY <1>5, <2>2 DEF RenewalTimer
      <3>2. TypeOK'
        BY <3>1 DEF LeaseInvariant, TypeOK, Requests
      <3>3. QED
        BY <3>1, <3>2, TimesAssumption
        DEF LeaseInvariant, Lease, WatchdogDeadline, Waiting, InFlight
    <2>3. QED
      BY <2>1, <2>2
  <1>6. CASE RenewalReply
    <2>1. CASE lose /\ request' = "none"
      BY <2>1, <1>0, LosingKeepsLeaseInvariant
    <2>2. CASE ~(lose /\ request' = "none")
      <3>1. /\ phase = "held" /\ phase' = "held" /\ renewalArmed' = TRUE
            /\ request = "accepted" /\ request' = "none"
            /\ cycleAge' = 0 /\ requestAge' = 0
            /\ UNCHANGED <<ttl, forgotten>>
        BY <1>6, <2>2 DEF RenewalReply, scheduleCycle
      <3>2. TypeOK'
        BY <3>1 DEF LeaseInvariant, TypeOK, Requests
      <3>3. forgotten \/ (ttl + requestAge >= Lease /\ requestAge <= CommandTimeout + Lag)
        BY <3>1 DEF LeaseInvariant, TypeOK, Waiting, InFlight
      <3>4. QED
        BY <3>1, <3>2, <3>3, TimesAssumption
        DEF LeaseInvariant, TypeOK, Lease, WatchdogDeadline, Waiting, InFlight
    <2>3. QED
      BY <2>1, <2>2
  <1> USE TimesAssumption, LeaseIsLongEnough
      DEF LeaseInvariant, TypeOK, Requests, Waiting, InFlight, Lease,
          RenewalDeadline, WatchdogDeadline
  <1>1. CASE RedisExecutes
    BY <1>1 DEF RedisExecutes
  <1>2. CASE RedisForgets
    BY <1>2 DEF RedisForgets
  <1>3. CASE AcquireReply
    BY <1>3 DEF AcquireReply, scheduleCycle
  <1>4. CASE AcquireFails
    BY <1>4 DEF AcquireFails
  <1>7. CASE RenewalFails
    BY <1>7 DEF RenewalFails, lose
  <1>8. CASE WatchdogTimer
    BY <1>8 DEF WatchdogTimer, lose
  <1>9. CASE stop
    BY <1>9 DEF stop
  <1>10. CASE Tick
    <2>1. /\ UNCHANGED <<phase, renewalArmed, request, forgotten>>
          /\ cycleAge' = IF phase = "held" THEN cycleAge + 1 ELSE cycleAge
          /\ requestAge' = IF Waiting /\ InFlight THEN requestAge + 1 ELSE requestAge
          /\ ttl' = IF ttl > 0 THEN ttl - 1 ELSE 0
          /\ phase = "held" => cycleAge < WatchdogDeadline + Lag
          /\ Waiting /\ InFlight => requestAge < RequestTimeout + Lag
      BY <1>10 DEF Tick
    <2>2. TypeOK'
      BY <2>1
    <2>3. phase = "held" => cycleAge' <= WatchdogDeadline + Lag
      BY <2>1
    <2>4. Waiting /\ request \in {"sent", "accepted", "refused"}
            => requestAge' <= CommandTimeout + Lag
      BY <2>1 DEF RequestTimeout
    <2>5. Waiting /\ request = "accepted" /\ ~forgotten
            => ttl' + requestAge' >= Lease
      <3>1. SUFFICES ASSUME Waiting, request = "accepted", ~forgotten
                     PROVE  ttl' + requestAge' >= Lease
        OBVIOUS
      <3>2. requestAge' = requestAge + 1 /\ ttl + requestAge >= Lease
            /\ requestAge \in Nat /\ ttl \in Nat
        BY <3>1, <2>1
      <3>3. ttl > 0
        BY <3>1, <3>2, <2>4
      <3>4. ttl' = ttl - 1
        BY <3>3, <2>1
      <3>5. QED
        BY <3>2, <3>4
    <2>6. phase = "held" /\ ~forgotten
            => ttl' + cycleAge' + CommandTimeout + Lag >= Lease
      BY <2>1
    <2>7. QED
      BY <2>1, <2>2, <2>3, <2>4, <2>5, <2>6
  <1>11. CASE Connected
    BY <1>11 DEF Connected
  <1>12. CASE UNCHANGED vars
    BY <1>12 DEF vars
  <1>13. QED
    BY <1>1, <1>2, <1>3, <1>4, <1>5, <1>6, <1>7, <1>8, <1>9, <1>10, <1>11, <1>12 DEF Next

\* As long as the keepalive has not reported the loss, and Redis itself does not
\* drop the key, the lease of the run has not expired in Redis.
THEOREM KeepaliveHoldsTheLease == Spec => []HeldMeansOwned
  <1>1. Spec => []LeaseInvariant
    BY InitEstablishesLeaseInvariant, StepKeepsLeaseInvariant, PTL DEF Spec
  <1>2. QED
    BY <1>1, LeaseInvariantImpliesOwned, PTL
===============================================================================
