----------------------- MODULE ReviewEventStream_proofs -----------------------
(***************************************************************************)
(* At most one stream of a review is served, for any number of streams and *)
(* instances and any lengths of time that satisfy LeaseOutlivesStream.     *)
(* And what each one delivers: every event once, in order and without a    *)
(* gap, for any length of the history and any limit on the replay.         *)
(***************************************************************************)
EXTENDS ReviewEventStream, TLAPS

\* The variables the argument needs to know the types of.
LeaseTypes ==
  /\ phase \in [Streams -> Phases]
  /\ finished \in [Streams -> BOOLEAN]
  /\ command \in [Streams -> {"none", "sent", "granted", "taken", "release"}]
  /\ age \in [Streams -> Nat]
  /\ ttl \in Nat
  /\ lease \in Streams \cup {NoStream}

\* A stream that waits for the reply to its granted command owns the lease, and
\* what is left of it accounts for the time the reply has taken so far.
GrantedOwns(s) ==
  phase[s] = "lease" /\ command[s] = "granted" =>
    /\ lease = s
    /\ LeaseTtl <= ttl + age[s]

\* A stream that is served still owns it: the slowest reply, the lifetime and a
\* late timer fit into it.
RunningOwns(s) ==
  phase[s] = "streaming" /\ ~finished[s] =>
    /\ lease = s
    /\ age[s] <= Lifetime + Lag
    /\ LeaseTtl <= ttl + age[s] + CommandTimeout + Lag

\* A release is under way only for a stream that has finished, and no command
\* before the lease is asked for.
CommandFitsPhase(s) ==
  /\ command[s] = "release" => phase[s] = "streaming" /\ finished[s]
  /\ phase[s] \in {"idle", "session", "review", "replay"} =>
       command[s] = "none" /\ ~finished[s]
  /\ phase[s] = "lease" => age[s] <= CommandTimeout + Lag /\ ~finished[s]

StreamInvariant ==
  /\ LeaseTypes
  /\ \A s \in Streams : GrantedOwns(s) /\ RunningOwns(s) /\ CommandFitsPhase(s)

\* Polls belong to streams that were opened, and no stream is closed again.
PollsWhenOpen ==
  /\ poll \in [Streams -> {"none", "armed", "session", "list", "reset", "latest"}]
  /\ phase \in [Streams -> Phases]
  /\ \A s \in Streams : poll[s] # "none" => phase[s] = "streaming"

\* The times as the arithmetic needs them.
LEMMA Times == /\ Lifetime \in Nat /\ Margin \in Nat /\ CommandTimeout \in Nat /\ Lag \in Nat
               /\ LeaseTtl = Lifetime + Margin
               /\ LeaseTtl \in Nat
               /\ CommandTimeout + 2 * Lag < Margin
               /\ NoStream \notin Streams
  BY LengthsAssumption, LeaseOutlivesStream, SMT DEF LeaseTtl

\* No stream waits for the lease and none is served.
LEMMA Initially == Init => StreamInvariant
  <1> SUFFICES ASSUME Init PROVE StreamInvariant
    OBVIOUS
  <1>1. LeaseTypes
    <2>1. phase = [s \in Streams |-> "idle"] /\ finished = [s \in Streams |-> FALSE]
          /\ command = [s \in Streams |-> "none"] /\ age = [s \in Streams |-> 0]
          /\ ttl = 0 /\ lease = NoStream
      BY DEF Init
    <2>2. QED
      BY <2>1 DEF LeaseTypes, Phases
  <1>2. ASSUME NEW s \in Streams
        PROVE  phase[s] = "idle" /\ command[s] = "none" /\ ~finished[s]
    BY DEF Init
  <1>3. QED
    BY <1>1, <1>2 DEF StreamInvariant, GrantedOwns, RunningOwns, CommandFitsPhase

\* A step of one stream that leaves the lease alone keeps the invariant if it
\* keeps what the invariant says of that stream.
LEMMA OwnStep ==
  ASSUME StreamInvariant,
         NEW s \in Streams, NEW p \in Phases, NEW f \in BOOLEAN, NEW a \in Nat,
         NEW c \in {"none", "sent", "granted", "taken", "release"},
         phase' = [phase EXCEPT ![s] = p],
         finished' = [finished EXCEPT ![s] = f],
         command' = [command EXCEPT ![s] = c],
         age' = [age EXCEPT ![s] = a],
         UNCHANGED <<lease, ttl>>,
         (GrantedOwns(s) /\ RunningOwns(s) /\ CommandFitsPhase(s))'
  PROVE  StreamInvariant'
  <1>1. LeaseTypes'
    BY DEF StreamInvariant, LeaseTypes
  <1>2. ASSUME NEW t \in Streams, t # s
        PROVE  (GrantedOwns(t) /\ RunningOwns(t) /\ CommandFitsPhase(t))'
    <2>1. /\ phase'[t] = phase[t] /\ finished'[t] = finished[t]
          /\ command'[t] = command[t] /\ age'[t] = age[t]
      BY <1>2 DEF StreamInvariant, LeaseTypes
    <2>2. GrantedOwns(t) /\ RunningOwns(t) /\ CommandFitsPhase(t)
      BY DEF StreamInvariant
    <2>3. QED
      BY <2>1, <2>2 DEF GrantedOwns, RunningOwns, CommandFitsPhase
  <1>3. QED
    BY <1>1, <1>2 DEF StreamInvariant

\* finish at most sets the flag and sends the release.
LEMMA FinishStep ==
  ASSUME StreamInvariant, NEW s \in Streams, NEW end \in BOOLEAN,
         phase[s] = "streaming", finish(s, end),
         UNCHANGED <<phase, age, lease, ttl>>
  PROVE  StreamInvariant'
  <1>1. CASE finished[s]
    <2>1. UNCHANGED <<phase, age, lease, ttl, finished, command>>
      BY <1>1 DEF finish
    <2>2. QED
      BY <2>1 DEF StreamInvariant, LeaseTypes, GrantedOwns, RunningOwns, CommandFitsPhase
  <1>2. CASE ~finished[s]
    <2>1. /\ finished' = [finished EXCEPT ![s] = TRUE]
          /\ command' = [command EXCEPT ![s] = "release"]
          /\ phase' = [phase EXCEPT ![s] = "streaming"]
          /\ age' = [age EXCEPT ![s] = age[s]]
      BY <1>2 DEF finish, StreamInvariant, LeaseTypes
    <2>2. (GrantedOwns(s) /\ RunningOwns(s) /\ CommandFitsPhase(s))'
      BY <2>1 DEF GrantedOwns, RunningOwns, CommandFitsPhase, StreamInvariant, LeaseTypes
    <2>3. age[s] \in Nat /\ "streaming" \in Phases
      BY DEF StreamInvariant, LeaseTypes, Phases
    <2>4. QED
      BY <2>1, <2>2, <2>3, OwnStep
  <1>3. QED
    BY <1>1, <1>2

\* Nothing the invariant is about changes.
LEMMA IdleStep ==
  StreamInvariant /\ UNCHANGED <<phase, finished, command, age, lease, ttl>> => StreamInvariant'
  BY DEF StreamInvariant, LeaseTypes, GrantedOwns, RunningOwns, CommandFitsPhase

-------------------------------------------------------------------------------

\* No poll before a stream.
LEMMA PollsInitially == Init => PollsWhenOpen
  BY DEF Init, PollsWhenOpen, Phases

\* Only a stream that is open arms the timer or goes on polling.
LEMMA PollsStep == PollsWhenOpen /\ [Next]_vars => PollsWhenOpen'
  <1> SUFFICES ASSUME PollsWhenOpen, [Next]_vars PROVE PollsWhenOpen'
    OBVIOUS
  <1> DEFINE States == {"none", "armed", "session", "list", "reset", "latest"}
  <1>1. CASE UNCHANGED <<poll, phase>>
    BY <1>1 DEF PollsWhenOpen
  \* The handler before the stream is open.
  <1>2. ASSUME NEW s \in Streams, NEW from \in Phases \ {"streaming"}, NEW to \in Phases,
               Proceed(s, from, to)
        PROVE  PollsWhenOpen'
    BY <1>2 DEF Proceed, PollsWhenOpen
  <1>3. ASSUME NEW s \in Streams, NEW state \in States,
               phase[s] = "streaming", phase' = phase,
               poll' = [poll EXCEPT ![s] = state]
        PROVE  PollsWhenOpen'
    BY <1>3 DEF PollsWhenOpen
  <1>4. CASE UNCHANGED vars
    BY <1>1, <1>4 DEF vars
  <1>5. CASE LifecycleStep \/ Delete \/ Tick
    BY <1>1, <1>5 DEF LifecycleStep, Delete, Tick
  <1>6. ASSUME NEW s \in Streams,
               \/ Connect(s) \/ CheckSession(s) \/ ReadLatest(s) \/ ResolveInitialDelivery(s)
               \/ LeaseTaken(s) \/ LeaseUnavailable(s) \/ HandlerFails(s)
        PROVE  PollsWhenOpen'
    <2>1. \E from \in {"idle", "session", "review", "replay", "lease"},
             to \in {"session", "review", "replay", "lease", "refused"} : Proceed(s, from, to)
      BY <1>6 DEF Connect, CheckSession, ReadLatest, ResolveInitialDelivery,
         LeaseTaken, LeaseUnavailable, HandlerFails
    <2>2. QED
      BY <2>1, <1>2 DEF Phases
  <1>7. ASSUME NEW s \in Streams,
               \/ ExecuteAcquire(s) \/ ExecuteRelease(s) \/ CommandLost(s) \/ Revoke(s)
        PROVE  PollsWhenOpen'
    BY <1>1, <1>7 DEF ExecuteAcquire, ExecuteRelease, CommandLost, Revoke
  <1>8. ASSUME NEW s \in Streams, Open(s)
        PROVE  PollsWhenOpen'
    <2>1. phase' = [phase EXCEPT ![s] = "streaming"] /\ "streaming" \in Phases
      BY <1>8 DEF Open, Phases
    <2>2. poll' = poll \/ poll' = [poll EXCEPT ![s] = "armed"]
      BY <1>8 DEF Open
    <2>3. QED
      BY <2>1, <2>2 DEF PollsWhenOpen
  <1>9. ASSUME NEW s \in Streams, Disconnect(s)
        PROVE  PollsWhenOpen'
    <2>1. \/ UNCHANGED <<poll, phase>>
          \/ /\ phase[s] = "streaming" /\ phase' = phase
             /\ poll' = [poll EXCEPT ![s] = IF @ = "armed" THEN "none" ELSE @]
      BY <1>9 DEF Disconnect
    <2>2. QED
      BY <2>1, <1>1, <1>3 DEF PollsWhenOpen
  <1>10. ASSUME NEW s \in Streams, LifetimeTimer(s)
         PROVE  PollsWhenOpen'
    BY <1>10, <1>3 DEF LifetimeTimer, Running, PollsWhenOpen
  <1>11. ASSUME NEW s \in Streams, Poll(s) \/ PollFails(s)
         PROVE  PollsWhenOpen'
    <2>1. poll[s] # "none" /\ phase' = phase
      BY <1>11 DEF Poll, PollFails, PollTimer, PollSession, PollList, PollReset,
         PollLatest, PollUnchanged
    <2>2. \E state \in States : poll' = [poll EXCEPT ![s] = state]
      BY <1>11 DEF Poll, PollFails, PollTimer, PollSession, PollList, PollReset,
         PollLatest, Deliver, GiveUp, StopPolling, Reschedule
    <2>3. QED
      BY <2>1, <2>2, <1>3 DEF PollsWhenOpen
  <1>12. QED
    BY <1>4, <1>5, <1>6, <1>7, <1>8, <1>9, <1>10, <1>11 DEF Next, Handle

\* PollsWhenOpen is an invariant, so that the main step may use it.
LEMMA PollsHold == Spec => []PollsWhenOpen
  BY PollsInitially, PollsStep, PTL DEF Spec

-------------------------------------------------------------------------------

\* The handler before the lease is asked for, and its refusals.
LEMMA HandlerStep ==
  ASSUME StreamInvariant, NEW s \in Streams,
         \/ Connect(s) \/ CheckSession(s) \/ ReadLatest(s) \/ ResolveInitialDelivery(s)
         \/ LeaseTaken(s) \/ LeaseUnavailable(s) \/ HandlerFails(s)
  PROVE  StreamInvariant'
  <1>1. ASSUME NEW from \in {"idle", "session", "review", "replay"},
               NEW to \in {"session", "review", "replay", "refused"},
               Proceed(s, from, to), UNCHANGED <<command, age>>
        PROVE  StreamInvariant'
    <2>1. /\ phase' = [phase EXCEPT ![s] = to]
          /\ finished' = [finished EXCEPT ![s] = finished[s]]
          /\ command' = [command EXCEPT ![s] = command[s]]
          /\ age' = [age EXCEPT ![s] = age[s]]
          /\ UNCHANGED <<lease, ttl>>
      BY <1>1 DEF Proceed, StreamInvariant, LeaseTypes
    <2>2. command[s] = "none" /\ finished[s] = FALSE /\ age[s] \in Nat
      BY <1>1 DEF StreamInvariant, LeaseTypes, CommandFitsPhase, Proceed
    <2>3. (GrantedOwns(s) /\ RunningOwns(s) /\ CommandFitsPhase(s))'
      BY <1>1, <2>1, <2>2 DEF StreamInvariant, LeaseTypes, GrantedOwns, RunningOwns, CommandFitsPhase
    <2>4. to \in Phases /\ finished[s] \in BOOLEAN
      BY <2>2 DEF Phases
    <2>5. QED
      BY <2>1, <2>2, <2>3, <2>4, OwnStep
  <1>2. CASE ResolveInitialDelivery(s)
    <2>1. /\ phase' = [phase EXCEPT ![s] = "lease"]
          /\ finished' = [finished EXCEPT ![s] = FALSE]
          /\ command' = [command EXCEPT ![s] = "sent"]
          /\ age' = [age EXCEPT ![s] = 0]
          /\ UNCHANGED <<lease, ttl>>
      BY <1>2 DEF ResolveInitialDelivery, Proceed, StreamInvariant, LeaseTypes, CommandFitsPhase
    <2>2. (GrantedOwns(s) /\ RunningOwns(s) /\ CommandFitsPhase(s))'
      BY <2>1, Times DEF StreamInvariant, LeaseTypes, GrantedOwns, RunningOwns, CommandFitsPhase
    <2>3. QED
      BY <2>1, <2>2, OwnStep DEF Phases
  <1>3. CASE LeaseTaken(s) \/ LeaseUnavailable(s)
    <2>1. /\ phase[s] = "lease"
          /\ phase' = [phase EXCEPT ![s] = "refused"]
          /\ finished' = [finished EXCEPT ![s] = finished[s]]
          /\ command' = [command EXCEPT ![s] = command[s]]
          /\ age' = [age EXCEPT ![s] = age[s]]
          /\ UNCHANGED <<lease, ttl>>
      BY <1>3 DEF LeaseTaken, LeaseUnavailable, Proceed, StreamInvariant, LeaseTypes
    <2>2. command[s] # "release" /\ command[s] \in {"none", "sent", "granted", "taken", "release"}
          /\ age[s] \in Nat /\ finished[s] \in BOOLEAN
      BY <2>1 DEF StreamInvariant, LeaseTypes, CommandFitsPhase
    <2>3. (GrantedOwns(s) /\ RunningOwns(s) /\ CommandFitsPhase(s))'
      BY <2>1, <2>2 DEF StreamInvariant, LeaseTypes, GrantedOwns, RunningOwns, CommandFitsPhase
    <2>4. QED
      BY <2>1, <2>2, <2>3, OwnStep DEF Phases
  <1>4. CASE Connect(s)
    BY <1>4, <1>1 DEF Connect
  <1>5. CASE CheckSession(s)
    BY <1>5, <1>1 DEF CheckSession
  <1>6. CASE ReadLatest(s)
    BY <1>6, <1>1 DEF ReadLatest
  <1>7. CASE HandlerFails(s)
    BY <1>7, <1>1 DEF HandlerFails
  <1>8. QED
    BY <1>2, <1>3, <1>4, <1>5, <1>6, <1>7

\* Redis grants the lease only when no stream owns it, and a script frees it
\* only for its own stream, which has finished.
LEMMA RedisStep ==
  ASSUME StreamInvariant, NEW s \in Streams,
         ExecuteAcquire(s) \/ ExecuteRelease(s) \/ CommandLost(s)
  PROVE  StreamInvariant'
  <1>1. UNCHANGED <<phase, finished, age>>
    BY DEF ExecuteAcquire, ExecuteRelease, CommandLost
  <1>2. CASE CommandLost(s) \/ (ExecuteAcquire(s) /\ lease # NoStream)
    <2>1. PICK c \in {"none", "taken"} : command' = [command EXCEPT ![s] = c]
      BY <1>2 DEF CommandLost, ExecuteAcquire
    <2>2. /\ phase' = [phase EXCEPT ![s] = phase[s]]
          /\ finished' = [finished EXCEPT ![s] = finished[s]]
          /\ age' = [age EXCEPT ![s] = age[s]]
          /\ UNCHANGED <<lease, ttl>>
      BY <1>1, <1>2 DEF CommandLost, ExecuteAcquire, StreamInvariant, LeaseTypes
    <2>3. command[s] # "none" /\ age[s] \in Nat
      BY <1>2 DEF CommandLost, ExecuteAcquire, StreamInvariant, LeaseTypes
    <2>4. (GrantedOwns(s) /\ RunningOwns(s) /\ CommandFitsPhase(s))'
      BY <2>1, <2>2, <2>3 DEF StreamInvariant, LeaseTypes, GrantedOwns, RunningOwns, CommandFitsPhase
    <2>5. QED
      BY <2>1, <2>2, <2>3, <2>4, OwnStep DEF StreamInvariant, LeaseTypes
  <1>3. CASE ExecuteAcquire(s) /\ lease = NoStream
    <2>1. lease' = s /\ ttl' = LeaseTtl /\ command' = [command EXCEPT ![s] = "granted"]
          /\ command[s] = "sent"
      BY <1>3 DEF ExecuteAcquire
    <2>2. LeaseTypes'
      BY <1>1, <2>1, Times DEF StreamInvariant, LeaseTypes
    <2>3. ASSUME NEW t \in Streams
          PROVE  (GrantedOwns(t) /\ RunningOwns(t) /\ CommandFitsPhase(t))'
      <3>1. ~(phase[t] = "streaming" /\ ~finished[t])
            /\ ~(phase[t] = "lease" /\ command[t] = "granted")
        BY <1>3, Times DEF StreamInvariant, GrantedOwns, RunningOwns
      <3>2. command'[t] = IF t = s THEN "granted" ELSE command[t]
        BY <2>1 DEF StreamInvariant, LeaseTypes
      <3>3. QED
        BY <1>1, <2>1, <3>1, <3>2, Times
        DEF StreamInvariant, LeaseTypes, GrantedOwns, RunningOwns, CommandFitsPhase
    <2>4. QED
      BY <2>2, <2>3 DEF StreamInvariant
  <1>4. CASE ExecuteRelease(s)
    <2>1. command[s] = "release" /\ command' = [command EXCEPT ![s] = "none"]
          /\ phase[s] = "streaming" /\ finished[s]
          /\ lease' = (IF lease = s THEN NoStream ELSE lease)
          /\ ttl' = (IF lease = s THEN 0 ELSE ttl)
      BY <1>4 DEF ExecuteRelease, Frees, StreamInvariant, CommandFitsPhase
    <2>2. LeaseTypes'
      BY <1>1, <2>1 DEF StreamInvariant, LeaseTypes
    <2>3. ASSUME NEW t \in Streams
          PROVE  (GrantedOwns(t) /\ RunningOwns(t) /\ CommandFitsPhase(t))'
      <3>1. command'[t] = IF t = s THEN "none" ELSE command[t]
        BY <2>1 DEF StreamInvariant, LeaseTypes
      <3>2. GrantedOwns(t) /\ RunningOwns(t) /\ CommandFitsPhase(t)
        BY DEF StreamInvariant
      <3>3. QED
        BY <1>1, <2>1, <3>1, <3>2 DEF GrantedOwns, RunningOwns, CommandFitsPhase
    <2>4. QED
      BY <2>2, <2>3 DEF StreamInvariant
  <1>5. QED
    BY <1>2, <1>3, <1>4

\* The stream opens within the reply's deadline, its lifetime starts from zero.
LEMMA OpenStep ==
  ASSUME StreamInvariant, NEW s \in Streams, Open(s)
  PROVE  StreamInvariant'
  <1>1. /\ phase[s] = "lease" /\ command[s] = "granted" /\ ~finished[s]
        /\ lease = s /\ age[s] <= CommandTimeout + Lag /\ LeaseTtl <= ttl + age[s]
        /\ age[s] \in Nat /\ ttl \in Nat
    BY DEF Open, StreamInvariant, LeaseTypes, GrantedOwns, CommandFitsPhase
  <1>2. /\ phase' = [phase EXCEPT ![s] = "streaming"]
        /\ age' = [age EXCEPT ![s] = 0]
        /\ UNCHANGED <<lease, ttl>>
    BY DEF Open
  <1>3. \/ /\ finished' = [finished EXCEPT ![s] = TRUE]
           /\ command' = [command EXCEPT ![s] = "release"]
        \/ /\ finished' = [finished EXCEPT ![s] = FALSE]
           /\ command' = [command EXCEPT ![s] = "none"]
    BY <1>1 DEF Open, finish, StreamInvariant, LeaseTypes
  <1>4. (GrantedOwns(s) /\ RunningOwns(s) /\ CommandFitsPhase(s))'
    BY <1>1, <1>2, <1>3, Times
    DEF StreamInvariant, LeaseTypes, GrantedOwns, RunningOwns, CommandFitsPhase
  <1>5. QED
    BY <1>2, <1>3, <1>4, OwnStep DEF Phases

\* A tick takes from the lease what it adds to the ages.
LEMMA TickStep ==
  ASSUME StreamInvariant, Tick
  PROVE  StreamInvariant'
  <1> DEFINE Ages(s) == s \in Waiting \cup Running
  <1>1. /\ UNCHANGED <<phase, finished, command>>
        /\ age' = [s \in Streams |-> IF Ages(s) THEN age[s] + 1 ELSE age[s]]
        /\ ttl' = IF ttl > 0 THEN ttl - 1 ELSE 0
        /\ lease' = IF ttl <= 1 THEN NoStream ELSE lease
    BY DEF Tick, LeaseExpires
  <1>2. LeaseTypes'
    BY <1>1 DEF StreamInvariant, LeaseTypes
  <1>3. ASSUME NEW s \in Streams
        PROVE  (GrantedOwns(s) /\ RunningOwns(s) /\ CommandFitsPhase(s))'
    <2>1. age[s] \in Nat /\ ttl \in Nat /\ age'[s] = IF Ages(s) THEN age[s] + 1 ELSE age[s]
      BY <1>1 DEF StreamInvariant, LeaseTypes
    <2>2. GrantedOwns(s) /\ RunningOwns(s) /\ CommandFitsPhase(s)
      BY DEF StreamInvariant
    <2>3. CASE phase[s] = "lease"
      <3>1. age[s] < CommandTimeout + Lag /\ age'[s] = age[s] + 1
        BY <2>1, <2>3 DEF Tick, Waiting
      <3>2. QED
        BY <1>1, <2>1, <2>2, <2>3, <3>1, Times DEF GrantedOwns, RunningOwns, CommandFitsPhase
    <2>4. CASE phase[s] = "streaming" /\ ~finished[s]
      <3>1. age[s] < Lifetime + Lag /\ age'[s] = age[s] + 1
        BY <2>1, <2>4 DEF Tick, Running
      <3>2. QED
        BY <1>1, <2>1, <2>2, <2>4, <3>1, Times DEF GrantedOwns, RunningOwns, CommandFitsPhase
    <2>5. CASE phase[s] # "lease" /\ ~(phase[s] = "streaming" /\ ~finished[s])
      BY <1>1, <2>2, <2>5 DEF GrantedOwns, RunningOwns, CommandFitsPhase
    <2>6. QED
      BY <2>3, <2>4, <2>5
  <1>4. QED
    BY <1>2, <1>3 DEF StreamInvariant

\* The steps above cover Next; all others leave the variables of the argument alone.
LEMMA StreamStep == StreamInvariant /\ PollsWhenOpen /\ [Next]_vars => StreamInvariant'
  <1> SUFFICES ASSUME StreamInvariant, PollsWhenOpen, [Next]_vars PROVE StreamInvariant'
    OBVIOUS
  <1>1. CASE UNCHANGED vars \/ LifecycleStep \/ Delete
    BY <1>1, IdleStep DEF vars, redis, LifecycleStep, Delete
  <1>2. CASE Tick
    BY <1>2, TickStep
  <1>3. ASSUME NEW s \in Streams, Connect(s) \/ Handle(s) \/ HandlerFails(s)
        PROVE  StreamInvariant'
    BY <1>3, HandlerStep, OpenStep DEF Handle
  <1>4. ASSUME NEW s \in Streams, ExecuteAcquire(s) \/ ExecuteRelease(s) \/ CommandLost(s)
        PROVE  StreamInvariant'
    BY <1>4, RedisStep
  <1>5. ASSUME NEW s \in Streams, LifetimeTimer(s) \/ Disconnect(s) \/ Revoke(s)
        PROVE  StreamInvariant'
    <2>1. UNCHANGED <<phase, age, lease, ttl>>
      BY <1>5 DEF LifetimeTimer, Disconnect, Revoke, redis
    <2>2. \/ UNCHANGED <<finished, command>>
          \/ phase[s] = "streaming" /\ \E end \in BOOLEAN : finish(s, end)
      BY <1>5 DEF LifetimeTimer, Running, Disconnect, Revoke, redis
    <2>3. QED
      BY <2>1, <2>2, FinishStep, IdleStep
  <1>6. ASSUME NEW s \in Streams, Poll(s) \/ PollFails(s)
        PROVE  StreamInvariant'
    <2>1. UNCHANGED <<phase, age, lease, ttl>> /\ phase[s] = "streaming"
      BY <1>6 DEF Poll, PollFails, PollTimer, PollSession, PollList, PollReset,
         PollLatest, PollUnchanged, PollsWhenOpen
    <2>2. UNCHANGED <<finished, command>> \/ \E end \in BOOLEAN : finish(s, end)
      BY <1>6 DEF Poll, PollFails, PollTimer, PollSession, PollList, PollReset,
         PollLatest, Deliver, GiveUp
    <2>3. QED
      BY <2>1, <2>2, FinishStep, IdleStep
  <1>7. QED
    BY <1>1, <1>2, <1>3, <1>4, <1>5, <1>6 DEF Next

\* Two streams that are served would own the same lease.
LEMMA OwnersAreAlone == StreamInvariant => OneStreamAtATime
  BY DEF StreamInvariant, RunningOwns, OneStreamAtATime, Running

\* Whatever replies are late or lost, releases delayed and leases expired: two
\* streams of one review are never served at once.  It rests on the 5 s by which
\* acquireLease lets the lease outlive the lifetime (LeaseOutlivesStream) and on
\* the token the release script compares.
THEOREM StreamsExclude == Spec => []OneStreamAtATime
  <1>1. Spec => []StreamInvariant
    BY Initially, StreamStep, PollsHold, PTL DEF Spec
  <1>2. QED
    BY <1>1, OwnersAreAlone, PTL

-------------------------------------------------------------------------------
(* What is delivered. *)

IsSolid(f) == f.kind \in {"event", "reset"}

\* Frames F that take a client from position R to position D.
InOrder(F, R) ==
  \A i, j \in DOMAIN F :
    /\ F[i].kind = "event" => F[i].id > R
    /\ i < j /\ IsSolid(F[i]) /\ IsSolid(F[j]) => F[i].id < F[j].id

Covers(F, D, R) ==
  \A n \in 1 .. D : \/ n <= R
                    \/ \E i \in DOMAIN F : F[i].kind = "event" /\ F[i].id = n
                    \/ \E i \in DOMAIN F : F[i].kind = "reset" /\ F[i].id >= n

Delivery(F, D, R) ==
  /\ R <= D
  /\ InOrder(F, R)
  /\ Covers(F, D, R)
  /\ \A i \in DOMAIN F : IsSolid(F[i]) => F[i].id <= D

\* Frames W bring the next events after D up to n, or a reset to n.
IsNext(W, D, n) ==
  \/ Len(W) = n - D /\ \A i \in DOMAIN W : W[i].kind = "event" /\ W[i].id = D + i
  \/ Len(W) = 1 /\ W[1].kind = "reset" /\ W[1].id = n

\* The initial delivery resolved for a stream.
InitialFits(s) ==
  \/ initial[s] = <<>> /\ cursor[s].sequence = latest[s]
  \/ /\ initial[s] # <<>> /\ LastDelivered(s) > ResumedAt(s)
     /\ LastDelivered(s) \in 1 .. Len(log)
     /\ IsNext(initial[s], ResumedAt(s), LastDelivered(s))

DeliveryFits(s) ==
  /\ phase[s] # "streaming" => frames[s] = <<>>
  /\ phase[s] = "streaming" => Delivery(frames[s], delivered[s], ResumedAt(s))
  /\ phase[s] = "lease" => InitialFits(s)
  /\ phase[s] \in {"replay", "lease", "streaming"} => latest[s] >= 1
  /\ poll[s] = "reset" => delivered[s] < Len(log)

DeliveryInvariant ==
  /\ TypeOK
  /\ \A s \in Streams : DeliveryFits(s)

\* The frames with ids up to n.
FramesUpTo(n) == [kind : {"event", "reset", "heartbeat"}, id : 1 .. n, status : Statuses]

\* What a frame is known by.
LEMMA FrameTypes ==
  ASSUME NEW n \in Nat, NEW f \in FramesUpTo(n)
  PROVE  f.kind \in {"event", "reset", "heartbeat"} /\ f.id \in 1 .. n
  BY DEF FramesUpTo

\* Frames stay frames when the log grows.
LEMMA FramesGrow ==
  ASSUME NEW m \in Nat, NEW n \in Nat, m <= n, NEW F \in Seq(FramesUpTo(m))
  PROVE  F \in Seq(FramesUpTo(n))
  <1>1. ASSUME NEW f \in FramesUpTo(m) PROVE f \in FramesUpTo(n)
    BY DEF FramesUpTo
  <1>2. Len(F) \in Nat /\ F \in [1 .. Len(F) -> FramesUpTo(m)]
    OBVIOUS
  <1>3. F \in [1 .. Len(F) -> FramesUpTo(n)]
    BY <1>1, <1>2
  <1>4. QED
    BY <1>2, <1>3

\* What is written is put behind what was written before.
LEMMA Concatenation ==
  ASSUME NEW S, NEW F \in Seq(S), NEW W \in Seq(S)
  PROVE  /\ F \o W \in Seq(S)
         /\ Len(F \o W) = Len(F) + Len(W)
         /\ DOMAIN (F \o W) = 1 .. Len(F) + Len(W)
         /\ \A i \in 1 .. Len(F) + Len(W) :
              (F \o W)[i] = IF i <= Len(F) THEN F[i] ELSE W[i - Len(F)]
  OBVIOUS

\* The next events, or a reset, go on from where the delivery was.
LEMMA NextIsAhead ==
  ASSUME NEW k \in Nat, NEW W \in Seq(FramesUpTo(k)), NEW D \in Nat, NEW n \in Nat,
         D < n, IsNext(W, D, n)
  PROVE  /\ \A i \in DOMAIN W : IsSolid(W[i]) /\ W[i].id \in D + 1 .. n
         /\ \A i, j \in DOMAIN W : i < j => W[i].id < W[j].id
         /\ \A m \in D + 1 .. n : \E i \in DOMAIN W : \/ W[i].kind = "event" /\ W[i].id = m
                                                      \/ W[i].kind = "reset" /\ W[i].id >= m
  <1>1. Len(W) \in Nat /\ DOMAIN W = 1 .. Len(W)
    OBVIOUS
  <1>2. CASE Len(W) = n - D /\ \A i \in DOMAIN W : W[i].kind = "event" /\ W[i].id = D + i
    <2>1. \A m \in D + 1 .. n : m - D \in DOMAIN W /\ W[m - D].kind = "event" /\ W[m - D].id = m
      BY <1>1, <1>2
    <2>2. QED
      BY <1>1, <1>2, <2>1 DEF IsSolid
  <1>3. CASE Len(W) = 1 /\ W[1].kind = "reset" /\ W[1].id = n
    BY <1>1, <1>3 DEF IsSolid
  <1>4. QED
    BY <1>2, <1>3 DEF IsNext

\* Writing them moves the delivery on.
LEMMA DeliverNext ==
  ASSUME NEW k \in Nat, NEW F \in Seq(FramesUpTo(k)), NEW W \in Seq(FramesUpTo(k)),
         NEW D \in Nat, NEW n \in Nat, NEW R \in Nat,
         Delivery(F, D, R), D < n, IsNext(W, D, n)
  PROVE  Delivery(F \o W, n, R)
  <1> DEFINE G == F \o W
  <1>1. /\ DOMAIN G = 1 .. Len(F) + Len(W) /\ DOMAIN F = 1 .. Len(F) /\ DOMAIN W = 1 .. Len(W)
        /\ Len(F) \in Nat /\ Len(W) \in Nat
        /\ \A i \in DOMAIN F : i \in DOMAIN G /\ G[i] = F[i]
        /\ \A i \in DOMAIN W : Len(F) + i \in DOMAIN G /\ G[Len(F) + i] = W[i]
    BY Concatenation
  <1>2. ASSUME NEW i \in DOMAIN G
        PROVE  \/ i \in DOMAIN F /\ G[i] = F[i]
               \/ i > Len(F) /\ i - Len(F) \in DOMAIN W /\ G[i] = W[i - Len(F)]
    BY Concatenation, <1>1
  <1>3. \A i \in DOMAIN F : F[i].id \in Nat
    BY <1>1, FrameTypes
  <1>4. \A i \in DOMAIN W : W[i].id \in Nat /\ W[i].id > D /\ W[i].id <= n /\ IsSolid(W[i])
    BY <1>1, FrameTypes, NextIsAhead
  <1>5. /\ R <= D /\ InOrder(F, R) /\ Covers(F, D, R)
        /\ \A i \in DOMAIN F : IsSolid(F[i]) => F[i].id <= D
    BY DEF Delivery
  <1>6. InOrder(G, R)
    <2>1. ASSUME NEW i \in DOMAIN G, G[i].kind = "event" PROVE G[i].id > R
      BY <1>2, <1>3, <1>4, <1>5, <2>1 DEF InOrder
    <2>2. ASSUME NEW i \in DOMAIN G, NEW j \in DOMAIN G, i < j, IsSolid(G[i]), IsSolid(G[j])
          PROVE  G[i].id < G[j].id
      <3>1. CASE i \in DOMAIN F /\ j \in DOMAIN F
        BY <1>1, <1>5, <2>2, <3>1 DEF InOrder
      <3>2. CASE i \in DOMAIN F /\ j \notin DOMAIN F
        <4>1. G[i] = F[i] /\ F[i].id <= D /\ F[i].id \in Nat
          BY <1>1, <1>3, <1>5, <2>2, <3>2
        <4>2. j - Len(F) \in DOMAIN W /\ G[j] = W[j - Len(F)]
          BY <1>2, <3>2
        <4>3. QED
          BY <4>1, <4>2, <1>4
      <3>3. CASE i \notin DOMAIN F
        <4>1. i > Len(F) /\ i - Len(F) \in DOMAIN W /\ G[i] = W[i - Len(F)]
          BY <1>2, <3>3
        <4>2. j - Len(F) \in DOMAIN W /\ G[j] = W[j - Len(F)] /\ i - Len(F) < j - Len(F)
          BY <1>1, <1>2, <2>2, <4>1
        <4>3. QED
          BY <4>1, <4>2, NextIsAhead
      <3>4. QED
        BY <3>1, <3>2, <3>3
    <2>3. QED
      BY <2>1, <2>2 DEF InOrder
  <1>7. Covers(G, n, R)
    <2>1. SUFFICES ASSUME NEW m \in 1 .. n, m > R
          PROVE  \E i \in DOMAIN G : \/ G[i].kind = "event" /\ G[i].id = m
                                     \/ G[i].kind = "reset" /\ G[i].id >= m
      BY DEF Covers
    <2>2. CASE m <= D
      <3>1. m \in 1 .. D /\ ~(m <= R)
        BY <2>1, <2>2
      <3>2. PICK i \in DOMAIN F : \/ F[i].kind = "event" /\ F[i].id = m
                                  \/ F[i].kind = "reset" /\ F[i].id >= m
        BY <1>5, <3>1 DEF Covers
      <3>3. QED
        BY <1>1, <3>2
    <2>3. CASE m > D
      <3>1. m \in D + 1 .. n
        BY <2>3
      <3>2. PICK i \in DOMAIN W : \/ W[i].kind = "event" /\ W[i].id = m
                                  \/ W[i].kind = "reset" /\ W[i].id >= m
        BY NextIsAhead, <3>1
      <3>3. QED
        BY <1>1, <3>2
    <2>4. QED
      BY <2>2, <2>3
  <1>8. \A i \in DOMAIN G : IsSolid(G[i]) => G[i].id <= n
    BY <1>2, <1>3, <1>4, <1>5
  <1>9. QED
    BY <1>5, <1>6, <1>7, <1>8 DEF Delivery

\* A heartbeat delivers nothing.
LEMMA DeliverHeartbeat ==
  ASSUME NEW k \in Nat, NEW F \in Seq(FramesUpTo(k)), NEW h \in FramesUpTo(k),
         h.kind = "heartbeat", NEW D \in Nat, NEW R \in Nat, Delivery(F, D, R)
  PROVE  Delivery(F \o <<h>>, D, R)
  <1> DEFINE G == F \o <<h>>
  <1>1. /\ DOMAIN G = 1 .. Len(F) + 1 /\ DOMAIN F = 1 .. Len(F) /\ Len(F) \in Nat
        /\ \A i \in DOMAIN F : i \in DOMAIN G /\ G[i] = F[i]
        /\ G[Len(F) + 1] = h
    <2>1. <<h>> \in Seq(FramesUpTo(k)) /\ Len(<<h>>) = 1 /\ <<h>>[1] = h
      OBVIOUS
    <2>2. QED
      BY <2>1, Concatenation
  <1>2. \A i \in DOMAIN G : IsSolid(G[i]) => i \in DOMAIN F /\ G[i] = F[i]
    BY <1>1 DEF IsSolid
  <1>3. \A i \in DOMAIN G : G[i].kind = "event" => i \in DOMAIN F /\ G[i] = F[i]
    BY <1>1
  <1>4. InOrder(G, R)
    BY <1>2, <1>3 DEF Delivery, InOrder
  <1>5. Covers(G, D, R)
    BY <1>1 DEF Delivery, Covers
  <1>6. QED
    BY <1>2, <1>4, <1>5 DEF Delivery

\* Before the first frame nothing is owed.
LEMMA DeliverNothing ==
  ASSUME NEW R \in Nat
  PROVE  Delivery(<<>>, R, R)
  BY DEF Delivery, InOrder, Covers

-------------------------------------------------------------------------------
(* The streams. *)

\* The lengths as the arithmetic needs them.
LEMMA StreamTypes ==
  ASSUME TypeOK
  PROVE  /\ Len(log) \in Nat /\ Len(log) >= 1
         /\ DOMAIN log = 1 .. Len(log) /\ \A n \in 1 .. Len(log) : log[n] \in Statuses
         /\ Frames = FramesUpTo(Len(log))
         /\ \A s \in Streams :
              /\ cursor[s] \in Cursors /\ cursor[s].sequence \in Nat
              /\ latest[s] \in 0 .. Len(log) /\ delivered[s] \in 0 .. Len(log)
              /\ initial[s] \in Seq(Frames) /\ frames[s] \in Seq(Frames)
              /\ ResumedAt(s) \in Nat
  <1>1. log \in Seq(Statuses) /\ Len(log) \in 1 .. MaxSequence
    BY DEF TypeOK
  <1>2. Frames = FramesUpTo(Len(log))
    BY DEF Frames, FramesUpTo
  <1>3. ASSUME NEW s \in Streams
        PROVE  /\ cursor[s] \in Cursors
               /\ latest[s] \in 0 .. Len(log) /\ delivered[s] \in 0 .. Len(log)
               /\ initial[s] \in Seq(Frames) /\ frames[s] \in Seq(Frames)
    BY DEF TypeOK
  <1>4. \A c \in Cursors : c.sequence \in Nat
    BY LengthsAssumption DEF Cursors
  <1>5. \A s \in Streams : cursor[s].sequence \in Nat /\ ResumedAt(s) \in Nat
    BY <1>3, <1>4 DEF ResumedAt
  <1>6. QED
    BY <1>1, <1>2, <1>3, <1>5

\* Every row of the history makes a frame.
LEMMA FramesOfRows ==
  ASSUME TypeOK, NEW n \in 1 .. Len(log), NEW kind \in {"event", "reset", "heartbeat"}
  PROVE  /\ Frame(kind, n) \in Frames
         /\ Frame(kind, n).kind = kind /\ Frame(kind, n).id = n
  BY StreamTypes DEF Frame, Frames

\* A replay brings the next events.
LEMMA EventsAreNext ==
  ASSUME TypeOK, NEW from \in Nat, NEW to \in 1 .. Len(log), from < to
  PROVE  /\ Events(from, to) \in Seq(Frames) /\ Len(Events(from, to)) = to - from
         /\ Events(from, to) # <<>> /\ Events(from, to)[to - from].id = to
         /\ IsNext(Events(from, to), from, to)
  <1> DEFINE W == Events(from, to)
  <1>1. to \in Nat /\ to - from \in Nat \ {0} /\ Len(log) \in Nat
    BY StreamTypes
  <1>2. ASSUME NEW i \in 1 .. to - from
        PROVE  W[i] = Frame("event", from + i) /\ W[i] \in Frames
               /\ W[i].kind = "event" /\ W[i].id = from + i
    <2>1. from + i \in 1 .. Len(log) /\ W[i] = Frame("event", from + i)
      BY <1>1 DEF Events
    <2>2. QED
      BY <2>1, FramesOfRows
  <1>3. W = [i \in 1 .. to - from |-> W[i]]
    BY DEF Events
  <1>4. W \in Seq(Frames) /\ Len(W) = to - from /\ DOMAIN W = 1 .. to - from
    BY <1>1, <1>2, <1>3
  <1>5. QED
    BY <1>1, <1>2, <1>4 DEF IsNext

\* So does a reset.
LEMMA ResetIsNext ==
  ASSUME TypeOK, NEW D \in Nat, NEW n \in 1 .. Len(log)
  PROVE  /\ Reset(n) \in Seq(Frames) /\ Len(Reset(n)) = 1
         /\ Reset(n) # <<>> /\ Reset(n)[1].id = n
         /\ IsNext(Reset(n), D, n)
  BY FramesOfRows DEF Reset, IsNext

\* What is resolved for a stream fits the position it goes on from.
LEMMA ResolvedFits ==
  ASSUME TypeOK, NEW s \in Streams, latest[s] >= 1
  PROVE  /\ InitialDelivery(s) \in Seq(Frames)
         /\ \/ InitialDelivery(s) = <<>> /\ cursor[s].sequence = latest[s]
            \/ \E n \in 1 .. Len(log) :
                 /\ n > ResumedAt(s)
                 /\ InitialDelivery(s) # <<>>
                 /\ InitialDelivery(s)[Len(InitialDelivery(s))].id = n
                 /\ IsNext(InitialDelivery(s), ResumedAt(s), n)
  <1> DEFINE W == InitialDelivery(s)
             R == ResumedAt(s)
             q == cursor[s].sequence
  <1>1. q \in Nat /\ R \in Nat /\ latest[s] \in 1 .. Len(log) /\ Len(log) \in Nat
    BY StreamTypes
  <1>2. cursor[s].kind = "INVALID" => q = 0
    <2>1. cursor[s] \in Cursors
      BY StreamTypes
    <2>2. \A c \in Cursors : c.kind = "INVALID" => c.sequence = 0
      BY DEF Cursors
    <2>3. QED
      BY <2>1, <2>2
  <1>3. CASE W = Reset(latest[s]) /\ q # latest[s]
    <2>1. R < latest[s]
      BY <1>1, <1>3 DEF ResumedAt
    <2>2. QED
      BY <1>1, <1>3, <2>1, ResetIsNext
  <1>4. CASE W = <<>> /\ q = latest[s]
    BY <1>4
  <1>5. CASE W = Events(q, Len(log)) /\ q < latest[s]
    <2>1. R = q /\ q < Len(log) /\ Len(log) \in 1 .. Len(log)
      BY <1>1, <1>5 DEF ResumedAt
    <2>2. QED
      <3>1. /\ Events(q, Len(log)) \in Seq(Frames) /\ Events(q, Len(log)) # <<>>
            /\ Len(Events(q, Len(log))) = Len(log) - q
            /\ Events(q, Len(log))[Len(log) - q].id = Len(log)
            /\ IsNext(Events(q, Len(log)), q, Len(log))
        BY <1>1, <2>1, EventsAreNext
      <3>2. /\ W \in Seq(Frames) /\ W # <<>> /\ W[Len(W)].id = Len(log)
            /\ IsNext(W, R, Len(log))
        BY <1>5, <2>1, <3>1
      <3>3. QED
        BY <2>1, <3>2
  <1>6. \/ W = Reset(latest[s]) /\ q # latest[s]
        \/ W = <<>> /\ q = latest[s]
        \/ W = Events(q, Len(log)) /\ q < latest[s]
    BY <1>1, <1>2 DEF InitialDelivery, Start
  <1>7. QED
    BY <1>3, <1>4, <1>5, <1>6

\* The types of what finish sets.
LEMMA FinishTypes ==
  ASSUME TypeOK, NEW s \in Streams, NEW end \in BOOLEAN,
         finish(s, end) \/ UNCHANGED <<finished, ended, command>>
  PROVE  /\ finished' \in [Streams -> BOOLEAN]
         /\ ended' \in [Streams -> BOOLEAN]
         /\ command' \in [Streams -> {"none", "sent", "granted", "taken", "release"}]
  <1>1. /\ finished \in [Streams -> BOOLEAN] /\ ended \in [Streams -> BOOLEAN]
        /\ gone \in [Streams -> BOOLEAN]
        /\ command \in [Streams -> {"none", "sent", "granted", "taken", "release"}]
    BY DEF TypeOK
  <1>2. CASE UNCHANGED <<finished, ended, command>>
    BY <1>1, <1>2
  <1>3. CASE /\ finished' = [finished EXCEPT ![s] = TRUE]
             /\ ended' = [ended EXCEPT ![s] = end /\ ~gone[s]]
             /\ command' = [command EXCEPT ![s] = "release"]
    <2>1. (end /\ ~gone[s]) \in BOOLEAN
      OBVIOUS
    <2>2. QED
      BY <1>1, <1>3, <2>1
  <1>4. QED
    BY <1>2, <1>3 DEF finish

\* A stream keeps what fits it while its own part does not change; the log may grow.
LEMMA FitsElsewhere ==
  ASSUME TypeOK, NEW t \in Streams, DeliveryFits(t),
         Len(log') \in Nat, Len(log) <= Len(log'),
         phase'[t] = phase[t], cursor'[t] = cursor[t], latest'[t] = latest[t],
         initial'[t] = initial[t], delivered'[t] = delivered[t], frames'[t] = frames[t],
         poll'[t] = "reset" => poll[t] = "reset"
  PROVE  DeliveryFits(t)'
  <1>1. ResumedAt(t)' = ResumedAt(t) /\ LastDelivered(t)' = LastDelivered(t)
    BY DEF ResumedAt, LastDelivered
  <1>2. InitialFits(t) => InitialFits(t)'
    BY <1>1, StreamTypes DEF InitialFits
  <1>3. delivered[t] < Len(log) => delivered'[t] < Len(log')
    BY StreamTypes
  <1>4. QED
    BY <1>1, <1>2, <1>3 DEF DeliveryFits

\* A poll writes the next events, or a reset.
LEMMA DeliverStep ==
  ASSUME DeliveryInvariant, NEW s \in Streams, phase[s] = "streaming",
         NEW W \in Seq(Frames), NEW n \in 1 .. Len(log), delivered[s] < n,
         IsNext(W, delivered[s], n), Deliver(s, W, n), PollUnchanged
  PROVE  DeliveryInvariant'
  <1>1. UNCHANGED <<log, deleted, revoked, phase, cursor, latest, initial, gone, lease, ttl, age>>
    BY DEF PollUnchanged, database, replay
  <1>2. /\ frames' = [frames EXCEPT ![s] = frames[s] \o W]
        /\ delivered' = [delivered EXCEPT ![s] = n]
        /\ \E state \in {"none", "armed"} : poll' = [poll EXCEPT ![s] = state]
    BY DEF Deliver, write, StopPolling, Reschedule
  <1>3. finish(s, TRUE) \/ UNCHANGED <<finished, ended, command>>
    BY DEF Deliver
  <1>4. TypeOK
    BY DEF DeliveryInvariant
  <1>5. frames[s] \o W \in Seq(Frames)
    BY <1>4, StreamTypes, Concatenation
  <1>6. TypeOK'
    <2>1. Frames' = Frames
      BY <1>1 DEF Frames
    <2>2. frames' \in [Streams -> Seq(Frames)]
      BY <1>2, <1>4, <1>5 DEF TypeOK
    <2>3. delivered' \in [Streams -> 0 .. Len(log)]
      BY <1>2, <1>4, StreamTypes DEF TypeOK
    <2>4. poll' \in [Streams -> {"none", "armed", "session", "list", "reset", "latest"}]
      BY <1>2, <1>4 DEF TypeOK
    <2>5. QED
      BY <1>1, <1>3, <1>4, <2>1, <2>2, <2>3, <2>4, FinishTypes DEF TypeOK
  <1>7. DeliveryFits(s)'
    <2>1. /\ frames'[s] = frames[s] \o W /\ delivered'[s] = n /\ phase'[s] = "streaming"
          /\ poll'[s] # "reset" /\ latest'[s] = latest[s] /\ cursor'[s] = cursor[s]
      BY <1>1, <1>2, <1>4 DEF TypeOK
    <2>2. Delivery(frames[s], delivered[s], ResumedAt(s)) /\ latest[s] >= 1
      BY DEF DeliveryInvariant, DeliveryFits
    <2>3. Delivery(frames[s] \o W, n, ResumedAt(s))
      BY <1>4, <2>2, StreamTypes, DeliverNext
    <2>4. ResumedAt(s)' = ResumedAt(s)
      BY <2>1 DEF ResumedAt
    <2>5. QED
      BY <2>1, <2>2, <2>3, <2>4 DEF DeliveryFits
  <1>8. ASSUME NEW t \in Streams, t # s
        PROVE  DeliveryFits(t)'
    <2>1. /\ phase'[t] = phase[t] /\ cursor'[t] = cursor[t] /\ latest'[t] = latest[t]
          /\ initial'[t] = initial[t] /\ delivered'[t] = delivered[t]
          /\ frames'[t] = frames[t] /\ poll'[t] = poll[t]
      BY <1>1, <1>2, <1>4, <1>8 DEF TypeOK
    <2>2. Len(log') \in Nat /\ Len(log) <= Len(log') /\ DeliveryFits(t)
      BY <1>1, <1>4, StreamTypes DEF DeliveryInvariant
    <2>3. QED
      BY <1>4, <2>1, <2>2, FitsElsewhere
  <1>9. QED
    BY <1>6, <1>7, <1>8 DEF DeliveryInvariant

\* A step that writes nothing and changes the part of no stream but its poll.
LEMMA QuietStep ==
  ASSUME DeliveryInvariant, TypeOK', log' = log,
         UNCHANGED <<phase, cursor, latest, initial, delivered, frames>>,
         \A t \in Streams : poll'[t] = "reset" => poll[t] = "reset" \/ delivered[t] < Len(log)
  PROVE  DeliveryInvariant'
  <1>1. ASSUME NEW t \in Streams
        PROVE  DeliveryFits(t)'
    <2>1. ResumedAt(t)' = ResumedAt(t) /\ LastDelivered(t)' = LastDelivered(t)
      BY DEF ResumedAt, LastDelivered
    <2>2. InitialFits(t) => InitialFits(t)'
      BY <2>1 DEF InitialFits
    <2>3. DeliveryFits(t)
      BY DEF DeliveryInvariant
    <2>4. QED
      BY <2>1, <2>2, <2>3 DEF DeliveryFits
  <1>2. QED
    BY <1>1 DEF DeliveryInvariant

\* Nothing has been read or written.
LEMMA NothingDelivered == Init => DeliveryInvariant
  <1> SUFFICES ASSUME Init PROVE DeliveryInvariant
    OBVIOUS
  <1>1. log \in Seq(Statuses) /\ Len(log) \in 1 .. MaxSequence
    BY LengthsAssumption DEF Init, Statuses
  <1>2. <<>> \in Seq(Frames) /\ Absent \in Cursors
    BY DEF Absent, Cursors
  <1>3. LeaseTtl \in Nat
    BY Times
  <1>4. TypeOK
    <2>1. /\ phase = [s \in Streams |-> "idle"] /\ cursor = [s \in Streams |-> Absent]
          /\ initial = [s \in Streams |-> <<>>] /\ frames = [s \in Streams |-> <<>>]
          /\ latest = [s \in Streams |-> 0] /\ delivered = [s \in Streams |-> 0]
          /\ 0 \in 0 .. Len(log)
      BY <1>1 DEF Init
    <2>2. /\ deleted \in BOOLEAN /\ revoked \subseteq Streams
          /\ poll \in [Streams -> {"none", "armed", "session", "list", "reset", "latest"}]
          /\ finished \in [Streams -> BOOLEAN] /\ ended \in [Streams -> BOOLEAN]
          /\ gone \in [Streams -> BOOLEAN]
          /\ command \in [Streams -> {"none", "sent", "granted", "taken", "release"}]
          /\ age \in [Streams -> Nat]
      BY DEF Init
    <2>3. /\ phase \in [Streams -> Phases] /\ cursor \in [Streams -> Cursors]
          /\ initial \in [Streams -> Seq(Frames)] /\ frames \in [Streams -> Seq(Frames)]
          /\ latest \in [Streams -> 0 .. Len(log)] /\ delivered \in [Streams -> 0 .. Len(log)]
      BY <2>1, <1>2 DEF Phases
    <2>4. lease \in Streams \cup {NoStream} /\ ttl \in 0 .. LeaseTtl
      <3>1. lease = NoStream /\ ttl = 0
        BY DEF Init
      <3>2. QED
        BY <1>3, <3>1
    <2>5. QED
      BY <1>1, <2>2, <2>3, <2>4 DEF TypeOK
  <1>5. ASSUME NEW s \in Streams PROVE DeliveryFits(s)
    BY DEF Init, DeliveryFits
  <1>6. QED
    BY <1>4, <1>5 DEF DeliveryInvariant

\* The lifecycle goes on: positions are kept, and so are frames.
LEMMA LogGrows ==
  ASSUME DeliveryInvariant, LifecycleStep
  PROVE  DeliveryInvariant'
  <1>1. TypeOK
    BY DEF DeliveryInvariant
  <1>2. /\ Len(log) \in Nat /\ Len(log) >= 1 /\ log \in Seq(Statuses)
        /\ Len(log) < MaxSequence /\ MaxSequence \in Nat
    BY <1>1, StreamTypes, LengthsAssumption DEF LifecycleStep, TypeOK
  <1>3. PICK status \in Successors[log[Len(log)]] : log' = Append(log, status)
    BY DEF LifecycleStep
  <1>4. status \in Statuses
    <2>1. log[Len(log)] \in Statuses
      BY <1>2
    <2>2. \A x \in Statuses : Successors[x] \subseteq Statuses
      BY DEF Successors, Statuses
    <2>3. QED
      BY <2>1, <2>2
  <1>5. log' \in Seq(Statuses) /\ Len(log') = Len(log) + 1
    BY <1>2, <1>3, <1>4
  <1>6. UNCHANGED <<deleted, revoked, phase, cursor, latest, initial, delivered, poll,
                    finished, ended, gone, frames, lease, ttl, command, age>>
    BY DEF LifecycleStep, replay, redis
  <1>7. ASSUME NEW F \in Seq(Frames) PROVE F \in Seq(Frames')
    <2>1. Frames = FramesUpTo(Len(log)) /\ Frames' = FramesUpTo(Len(log'))
      BY DEF Frames, FramesUpTo
    <2>2. QED
      BY <2>1, <1>2, <1>5, <1>7, FramesGrow
  <1>8. TypeOK'
    <2>1. /\ initial' \in [Streams -> Seq(Frames)'] /\ frames' \in [Streams -> Seq(Frames)']
      BY <1>1, <1>6, <1>7 DEF TypeOK
    <2>2. latest' \in [Streams -> 0 .. Len(log')] /\ delivered' \in [Streams -> 0 .. Len(log')]
      BY <1>1, <1>2, <1>5, <1>6 DEF TypeOK
    <2>3. Len(log') \in 1 .. MaxSequence
      BY <1>2, <1>5
    <2>4. QED
      BY <1>1, <1>5, <1>6, <2>1, <2>2, <2>3 DEF TypeOK
  <1>9. ASSUME NEW s \in Streams PROVE DeliveryFits(s)'
    <2>1. DeliveryFits(s) /\ Len(log') \in Nat /\ Len(log) <= Len(log')
      BY <1>2, <1>5 DEF DeliveryInvariant
    <2>2. QED
      BY <1>1, <1>6, <2>1, FitsElsewhere
  <1>10. QED
    BY <1>8, <1>9 DEF DeliveryInvariant

\* Deletions, revocations, Redis, timers and failures write nothing.
LEMMA NothingWritten ==
  ASSUME DeliveryInvariant, NEW s \in Streams,
         \/ Delete \/ Tick \/ Revoke(s)
         \/ ExecuteAcquire(s) \/ ExecuteRelease(s) \/ CommandLost(s)
         \/ LifetimeTimer(s) \/ Disconnect(s)
         \/ PollTimer(s) \/ PollSession(s) \/ PollFails(s)
  PROVE  DeliveryInvariant'
  <1>1. TypeOK
    BY DEF DeliveryInvariant
  <1>2. UNCHANGED <<log, phase, cursor, latest, initial, delivered, frames>>
    BY DEF Delete, Tick, Revoke, ExecuteAcquire, ExecuteRelease, CommandLost, LifetimeTimer,
       Disconnect, PollTimer, PollSession, PollFails, GiveUp, PollUnchanged, database, replay
  <1>3. Frames' = Frames
    BY <1>2 DEF Frames
  <1>4. /\ LeaseTtl \in Nat /\ ttl \in 0 .. LeaseTtl /\ lease \in Streams \cup {NoStream}
        /\ age \in [Streams -> Nat]
        /\ command \in [Streams -> {"none", "sent", "granted", "taken", "release"}]
        /\ poll \in [Streams -> {"none", "armed", "session", "list", "reset", "latest"}]
    BY <1>1, Times DEF TypeOK
  <1>5. ttl' \in 0 .. LeaseTtl /\ lease' \in Streams \cup {NoStream}
    <2>1. CASE Tick
      <3>1. (ttl' = IF ttl > 0 THEN ttl - 1 ELSE 0) /\ lease' \in {lease, NoStream}
        BY <2>1 DEF Tick
      <3>2. QED
        BY <1>4, <3>1
    <2>2. CASE ExecuteAcquire(s) \/ ExecuteRelease(s)
      <3>1. lease' \in {lease, s, NoStream} /\ ttl' \in {ttl, LeaseTtl, 0}
        BY <2>2 DEF ExecuteAcquire, ExecuteRelease
      <3>2. QED
        BY <1>4, <3>1
    <2>3. CASE UNCHANGED <<lease, ttl>>
      BY <1>4, <2>3
    <2>4. QED
      BY <2>1, <2>2, <2>3 DEF Delete, Revoke, CommandLost, LifetimeTimer, Disconnect,
         PollTimer, PollSession, PollFails, PollUnchanged, redis
  <1>6. age' \in [Streams -> Nat]
    <2>1. CASE Tick
      BY <1>4, <2>1 DEF Tick
    <2>2. CASE age' = age
      BY <1>4, <2>2
    <2>3. QED
      BY <2>1, <2>2 DEF Delete, Revoke, ExecuteAcquire, ExecuteRelease, CommandLost,
         LifetimeTimer, Disconnect, PollTimer, PollSession, PollFails, PollUnchanged, redis
  <1>7. \/ poll' = poll
        \/ \E state \in {"none", "session", "list"} : poll' = [poll EXCEPT ![s] = state]
    <2>1. CASE LifetimeTimer(s) \/ Disconnect(s)
      <3>1. \/ poll' = poll
            \/ poll' = [poll EXCEPT ![s] = IF poll[s] = "armed" THEN "none" ELSE poll[s]]
        BY <2>1 DEF LifetimeTimer, Disconnect
      <3>2. poll = [poll EXCEPT ![s] = poll[s]]
        BY <1>4
      <3>3. QED
        BY <3>1, <3>2
    <2>2. CASE PollTimer(s) \/ PollSession(s) \/ PollFails(s)
      BY <2>2 DEF PollTimer, PollSession, PollFails, GiveUp, StopPolling
    <2>3. CASE Delete \/ Tick \/ Revoke(s) \/ ExecuteAcquire(s) \/ ExecuteRelease(s) \/ CommandLost(s)
      BY <2>3 DEF Delete, Tick, Revoke, ExecuteAcquire, ExecuteRelease, CommandLost
    <2>4. QED
      BY <2>1, <2>2, <2>3
  <1>8. \/ \E end \in BOOLEAN : finish(s, end)
        \/ UNCHANGED <<finished, ended, command>>
        \/ /\ UNCHANGED <<finished, ended>>
           /\ command' \in [Streams -> {"none", "sent", "granted", "taken", "release"}]
    BY <1>4 DEF Delete, Tick, Revoke, ExecuteAcquire, ExecuteRelease, CommandLost, LifetimeTimer,
       Disconnect, PollTimer, PollSession, PollFails, GiveUp, redis
  <1>9. /\ finished' \in [Streams -> BOOLEAN] /\ ended' \in [Streams -> BOOLEAN]
        /\ command' \in [Streams -> {"none", "sent", "granted", "taken", "release"}]
    BY <1>1, <1>8, FinishTypes DEF TypeOK
  <1>10. deleted' \in BOOLEAN /\ revoked' \subseteq Streams /\ gone' \in [Streams -> BOOLEAN]
    BY <1>1 DEF TypeOK, Delete, Tick, Revoke, ExecuteAcquire, ExecuteRelease, CommandLost,
       LifetimeTimer, Disconnect, PollTimer, PollSession, PollFails, PollUnchanged, database
  <1>11. poll' \in [Streams -> {"none", "armed", "session", "list", "reset", "latest"}]
         /\ \A t \in Streams : poll'[t] = "reset" => poll[t] = "reset"
    BY <1>4, <1>7
  <1>12. TypeOK'
    BY <1>1, <1>2, <1>3, <1>5, <1>6, <1>9, <1>10, <1>11 DEF TypeOK
  <1>13. QED
    BY <1>2, <1>11, <1>12, QuietStep

\* The handler of one stream goes on; nothing is written.
LEMMA ProceedFits ==
  ASSUME DeliveryInvariant, NEW s \in Streams,
         NEW from \in Phases \ {"streaming"}, NEW to \in Phases \ {"streaming"},
         Proceed(s, from, to), TypeOK',
         \A t \in Streams \ {s} :
           cursor'[t] = cursor[t] /\ latest'[t] = latest[t] /\ initial'[t] = initial[t],
         to = "lease" => InitialFits(s)',
         to \in {"replay", "lease"} => latest'[s] >= 1
  PROVE  DeliveryInvariant'
  <1>1. TypeOK
    BY DEF DeliveryInvariant
  <1>2. /\ phase[s] = from /\ phase' = [phase EXCEPT ![s] = to]
        /\ UNCHANGED <<log, delivered, poll, frames>>
    BY DEF Proceed, database
  <1>3. Len(log') \in Nat /\ Len(log) <= Len(log')
    BY <1>1, <1>2, StreamTypes
  <1>4. ASSUME NEW t \in Streams \ {s} PROVE DeliveryFits(t)'
    <2>1. phase'[t] = phase[t] /\ delivered'[t] = delivered[t] /\ frames'[t] = frames[t]
          /\ poll'[t] = poll[t]
      BY <1>1, <1>2 DEF TypeOK
    <2>2. DeliveryFits(t)
      BY DEF DeliveryInvariant
    <2>3. QED
      BY <1>1, <1>3, <2>1, <2>2, FitsElsewhere
  <1>5. DeliveryFits(s)'
    <2>1. phase'[s] = to /\ frames'[s] = frames[s] /\ delivered'[s] = delivered[s]
          /\ poll'[s] = poll[s] /\ Len(log') = Len(log)
      BY <1>1, <1>2 DEF TypeOK
    <2>2. frames[s] = <<>> /\ (poll[s] = "reset" => delivered[s] < Len(log))
      BY <1>2 DEF DeliveryInvariant, DeliveryFits
    <2>3. QED
      BY <2>1, <2>2 DEF DeliveryFits
  <1>6. QED
    BY <1>4, <1>5 DEF DeliveryInvariant

\* The handler up to the lease.
LEMMA HandlerFits ==
  ASSUME DeliveryInvariant, NEW s \in Streams,
         \/ Connect(s) \/ CheckSession(s) \/ ReadLatest(s) \/ ResolveInitialDelivery(s)
         \/ LeaseTaken(s) \/ LeaseUnavailable(s) \/ HandlerFails(s)
  PROVE  DeliveryInvariant'
  <1>1. TypeOK
    BY DEF DeliveryInvariant
  <1>2. ASSUME NEW from \in Phases, NEW to \in Phases, Proceed(s, from, to),
               cursor' \in [Streams -> Cursors],
               latest' \in [Streams -> 0 .. Len(log)],
               initial' \in [Streams -> Seq(Frames)],
               command' \in [Streams -> {"none", "sent", "granted", "taken", "release"}],
               age' \in [Streams -> Nat]
        PROVE  TypeOK'
    <2>1. /\ UNCHANGED <<log, deleted, revoked, delivered, poll, finished, ended, gone,
                         frames, lease, ttl>>
          /\ phase' = [phase EXCEPT ![s] = to]
      BY <1>2 DEF Proceed, database
    <2>2. Frames' = Frames
      BY <2>1 DEF Frames
    <2>3. phase' \in [Streams -> Phases]
      BY <1>1, <2>1 DEF TypeOK
    <2>4. QED
      BY <1>1, <1>2, <2>1, <2>2, <2>3 DEF TypeOK
  <1>3. /\ cursor \in [Streams -> Cursors] /\ latest \in [Streams -> 0 .. Len(log)]
        /\ initial \in [Streams -> Seq(Frames)]
        /\ command \in [Streams -> {"none", "sent", "granted", "taken", "release"}]
        /\ age \in [Streams -> Nat]
    BY <1>1 DEF TypeOK
  \* Nothing changes but the phase.
  <1>4. ASSUME NEW from \in {"session", "review", "replay", "lease"},
               NEW to \in {"review", "refused"},
               Proceed(s, from, to), UNCHANGED <<replay, command, age>>
        PROVE  DeliveryInvariant'
    <2>1. UNCHANGED <<cursor, latest, initial, command, age>>
      BY <1>4 DEF replay
    <2>2. from \in Phases \ {"streaming"} /\ to \in Phases \ {"streaming"}
          /\ to \notin {"replay", "lease"}
      BY DEF Phases
    <2>3. TypeOK'
      BY <1>2, <1>3, <1>4, <2>1, <2>2
    <2>4. QED
      BY <1>4, <2>1, <2>2, <2>3, ProceedFits
  <1>5. CASE Connect(s)
    <2>1. PICK c \in Cursors : cursor' = [cursor EXCEPT ![s] = c]
      BY <1>5 DEF Connect
    <2>2. Proceed(s, "idle", "session") /\ UNCHANGED <<latest, initial, command, age>>
      BY <1>5 DEF Connect
    <2>3. "idle" \in Phases \ {"streaming"} /\ "session" \in Phases \ {"streaming"}
      BY DEF Phases
    <2>4. cursor' \in [Streams -> Cursors] /\ \A t \in Streams \ {s} : cursor'[t] = cursor[t]
      BY <1>3, <2>1
    <2>5. TypeOK'
      BY <1>2, <1>3, <2>2, <2>3, <2>4
    <2>6. QED
      BY <2>2, <2>3, <2>4, <2>5, ProceedFits
  <1>6. CASE ReadLatest(s)
    <2>1. PICK n \in {0, Len(log)} :
            /\ latest' = [latest EXCEPT ![s] = n]
            /\ Proceed(s, "review", IF deleted THEN "refused" ELSE "replay")
            /\ ~deleted => n = Len(log)
      BY <1>6 DEF ReadLatest
    <2>2. UNCHANGED <<cursor, initial, command, age>>
      BY <1>6 DEF ReadLatest
    <2>3. PICK to \in {"refused", "replay"} : /\ to = (IF deleted THEN "refused" ELSE "replay")
                                             /\ Proceed(s, "review", to)
      BY <2>1
    <2>4. "review" \in Phases \ {"streaming"} /\ to \in Phases \ {"streaming"} /\ to # "lease"
      BY DEF Phases
    <2>5. n \in 0 .. Len(log) /\ (to = "replay" => n >= 1)
      <3>1. Len(log) \in Nat /\ Len(log) >= 1
        BY <1>1, StreamTypes
      <3>2. n \in {0, Len(log)} /\ (to = "replay" => n = Len(log))
        BY <2>1, <2>3
      <3>3. QED
        BY <3>1, <3>2
    <2>6. /\ latest' \in [Streams -> 0 .. Len(log)] /\ latest'[s] = n
          /\ \A t \in Streams \ {s} : latest'[t] = latest[t]
      BY <1>3, <2>1, <2>5
    <2>7. TypeOK'
      BY <1>2, <1>3, <2>2, <2>3, <2>4, <2>6
    <2>8. QED
      BY <2>2, <2>3, <2>4, <2>5, <2>6, <2>7, ProceedFits
  <1>7. CASE ResolveInitialDelivery(s)
    <2>1. /\ Proceed(s, "replay", "lease")
          /\ initial' = [initial EXCEPT ![s] = InitialDelivery(s)]
          /\ command' = [command EXCEPT ![s] = "sent"]
          /\ age' = [age EXCEPT ![s] = 0]
          /\ UNCHANGED <<cursor, latest>>
      BY <1>7 DEF ResolveInitialDelivery
    <2>2. phase[s] = "replay" /\ log' = log /\ latest[s] >= 1
      BY <2>1 DEF Proceed, database, DeliveryInvariant, DeliveryFits
    <2>3. PICK W \in Seq(Frames) :
            /\ W = InitialDelivery(s)
            /\ \/ W = <<>> /\ cursor[s].sequence = latest[s]
               \/ \E n \in 1 .. Len(log) : /\ n > ResumedAt(s)
                                           /\ W # <<>> /\ W[Len(W)].id = n
                                           /\ IsNext(W, ResumedAt(s), n)
      BY <1>1, <2>2, ResolvedFits
    <2>4. initial' = [initial EXCEPT ![s] = W]
      BY <2>1, <2>3
    <2>5. /\ initial' \in [Streams -> Seq(Frames)] /\ initial'[s] = W
          /\ \A t \in Streams \ {s} : initial'[t] = initial[t]
      BY <1>3, <2>4
    <2>6. "replay" \in Phases \ {"streaming"} /\ "lease" \in Phases \ {"streaming"}
      BY DEF Phases
    <2>7. /\ command' \in [Streams -> {"none", "sent", "granted", "taken", "release"}]
          /\ age' \in [Streams -> Nat]
      BY <1>3, <2>1
    <2>8. TypeOK'
      BY <1>2, <1>3, <2>1, <2>5, <2>6, <2>7
    <2>9. InitialFits(s)'
      <3>1. ResumedAt(s)' = ResumedAt(s) /\ latest'[s] = latest[s] /\ cursor'[s] = cursor[s]
            /\ Len(log') = Len(log)
        BY <2>1, <2>2 DEF ResumedAt
      <3>2. W # <<>> => LastDelivered(s)' = W[Len(W)].id
        BY <2>5 DEF LastDelivered
      <3>3. QED
        BY <2>3, <2>5, <3>1, <3>2 DEF InitialFits
    <2>10. QED
      BY <2>1, <2>2, <2>5, <2>6, <2>8, <2>9, ProceedFits
  <1>8. CASE CheckSession(s)
    BY <1>4, <1>8 DEF CheckSession
  <1>9. CASE LeaseTaken(s) \/ LeaseUnavailable(s) \/ HandlerFails(s)
    BY <1>4, <1>9 DEF LeaseTaken, LeaseUnavailable, HandlerFails
  <1>10. QED
    BY <1>5, <1>6, <1>7, <1>8, <1>9

\* The stream opens: the initial delivery is written in one go.
LEMMA OpenFits ==
  ASSUME DeliveryInvariant, PollsWhenOpen, NEW s \in Streams, Open(s)
  PROVE  DeliveryInvariant'
  <1> DEFINE W == initial[s]
             R == ResumedAt(s)
             D == LastDelivered(s)
  <1>1. TypeOK
    BY DEF DeliveryInvariant
  <1>2. /\ phase[s] = "lease" /\ phase' = [phase EXCEPT ![s] = "streaming"]
        /\ delivered' = [delivered EXCEPT ![s] = D]
        /\ frames' = [frames EXCEPT ![s] = frames[s] \o W]
        /\ age' = [age EXCEPT ![s] = 0]
        /\ UNCHANGED <<log, deleted, revoked, cursor, latest, initial, gone, lease, ttl>>
    BY DEF Open, write, database, replay
  <1>3. poll' = poll \/ poll' = [poll EXCEPT ![s] = "armed"]
    BY DEF Open
  <1>4. \/ finish(s, TRUE)
        \/ UNCHANGED <<finished, ended>> /\ command' = [command EXCEPT ![s] = "none"]
    BY DEF Open
  <1>5. DeliveryFits(s)
    BY DEF DeliveryInvariant
  <1>6. frames[s] = <<>> /\ InitialFits(s) /\ latest[s] >= 1
        /\ (poll[s] = "reset" => delivered[s] < Len(log))
    BY <1>2, <1>5 DEF DeliveryFits
  <1>7. W \in Seq(Frames) /\ frames[s] \o W = W
    BY <1>1, <1>6, StreamTypes
  <1>8. D \in 0 .. Len(log) /\ Delivery(W, D, R)
    <2>1. CASE W = <<>> /\ cursor[s].sequence = latest[s]
      <3>1. D = R /\ D = latest[s]
        BY <1>1, <2>1, StreamTypes DEF LastDelivered, ResumedAt
      <3>2. QED
        BY <1>1, <2>1, <3>1, StreamTypes, DeliverNothing
    <2>2. CASE W # <<>> /\ D > R /\ D \in 1 .. Len(log) /\ IsNext(W, R, D)
      <3>1. R \in Nat /\ Len(log) \in Nat /\ Frames = FramesUpTo(Len(log))
        BY <1>1, StreamTypes
      <3>2. D \in Nat /\ R < D /\ <<>> \in Seq(FramesUpTo(Len(log)))
        BY <2>2, <3>1
      <3>3. Delivery(<<>> \o W, D, R)
        BY <1>7, <2>2, <3>1, <3>2, DeliverNothing, DeliverNext
      <3>4. <<>> \o W = W
        BY <1>7
      <3>5. QED
        BY <2>2, <3>1, <3>2, <3>3, <3>4
    <2>3. QED
      BY <1>6, <2>1, <2>2 DEF InitialFits
  <1>9. TypeOK'
    <2>1. Frames' = Frames
      BY <1>2 DEF Frames
    <2>2. frames' \in [Streams -> Seq(Frames)]
      BY <1>1, <1>2, <1>7 DEF TypeOK
    <2>3. delivered' \in [Streams -> 0 .. Len(log)]
      BY <1>1, <1>2, <1>8 DEF TypeOK
    <2>4. poll' \in [Streams -> {"none", "armed", "session", "list", "reset", "latest"}]
      BY <1>1, <1>3 DEF TypeOK
    <2>5. phase' \in [Streams -> Phases] /\ age' \in [Streams -> Nat]
      BY <1>1, <1>2 DEF TypeOK, Phases
    <2>6. /\ finished' \in [Streams -> BOOLEAN] /\ ended' \in [Streams -> BOOLEAN]
          /\ command' \in [Streams -> {"none", "sent", "granted", "taken", "release"}]
      <3>1. CASE finish(s, TRUE)
        BY <1>1, <3>1, FinishTypes
      <3>2. CASE UNCHANGED <<finished, ended>> /\ command' = [command EXCEPT ![s] = "none"]
        BY <1>1, <3>2 DEF TypeOK
      <3>3. QED
        BY <1>4, <3>1, <3>2
    <2>7. QED
      BY <1>1, <1>2, <2>1, <2>2, <2>3, <2>4, <2>5, <2>6 DEF TypeOK
  <1>10. DeliveryFits(s)'
    <2>1. /\ phase'[s] = "streaming" /\ frames'[s] = W /\ delivered'[s] = D
          /\ latest'[s] = latest[s] /\ cursor'[s] = cursor[s]
      BY <1>1, <1>2, <1>7 DEF TypeOK
    <2>2. poll'[s] = "reset" => delivered'[s] < Len(log')
      <3>1. poll[s] = "none"
        BY <1>1, <1>2 DEF PollsWhenOpen
      <3>2. QED
        BY <1>1, <1>3, <3>1 DEF TypeOK
    <2>3. ResumedAt(s)' = R
      BY <2>1 DEF ResumedAt
    <2>4. QED
      BY <1>6, <1>8, <2>1, <2>2, <2>3 DEF DeliveryFits
  <1>11. ASSUME NEW t \in Streams, t # s
         PROVE  DeliveryFits(t)'
    <2>1. /\ phase'[t] = phase[t] /\ cursor'[t] = cursor[t] /\ latest'[t] = latest[t]
          /\ initial'[t] = initial[t] /\ delivered'[t] = delivered[t]
          /\ frames'[t] = frames[t] /\ poll'[t] = poll[t]
      BY <1>1, <1>2, <1>3, <1>11 DEF TypeOK
    <2>2. Len(log') \in Nat /\ Len(log) <= Len(log') /\ DeliveryFits(t)
      BY <1>1, <1>2, StreamTypes DEF DeliveryInvariant
    <2>3. QED
      BY <1>1, <2>1, <2>2, FitsElsewhere
  <1>12. QED
    BY <1>9, <1>10, <1>11 DEF DeliveryInvariant

\* The first poll state is the timer's: a list that cannot be replayed leads to a
\* reset only when there are events to skip.
LEMMA PollListFits ==
  ASSUME DeliveryInvariant, PollsWhenOpen, NEW s \in Streams, PollList(s)
  PROVE  DeliveryInvariant'
  <1>1. TypeOK /\ phase[s] = "streaming"
    BY DEF DeliveryInvariant, PollsWhenOpen, PollList
  <1>2. Len(log) \in Nat /\ delivered[s] \in 0 .. Len(log)
    BY <1>1, StreamTypes
  <1>3. CASE NoNews(s) \/ TooMany(delivered[s])
    <2>1. /\ poll' = [poll EXCEPT ![s] = IF NoNews(s) THEN "latest" ELSE "reset"]
          /\ UNCHANGED <<delivered, finished, ended, frames, command>>
          /\ UNCHANGED <<log, deleted, revoked, phase, cursor, latest, initial, gone, lease, ttl, age>>
      BY <1>3 DEF PollList, PollUnchanged, database, replay
    <2>2. PICK state \in {"latest", "reset"} :
            /\ poll' = [poll EXCEPT ![s] = state]
            /\ state = "reset" => ~NoNews(s)
      BY <2>1
    <2>3. poll' \in [Streams -> {"none", "armed", "session", "list", "reset", "latest"}]
          /\ \A t \in Streams : poll'[t] = "reset" => poll[t] = "reset" \/ (t = s /\ ~NoNews(s))
      <3>1. poll \in [Streams -> {"none", "armed", "session", "list", "reset", "latest"}]
        BY <1>1 DEF TypeOK
      <3>2. \A t \in Streams : poll'[t] = IF t = s THEN state ELSE poll[t]
        BY <2>2, <3>1
      <3>3. QED
        BY <2>2, <3>1, <3>2
    <2>4. Frames' = Frames
      BY <2>1 DEF Frames
    <2>5. TypeOK'
      BY <1>1, <2>1, <2>3, <2>4 DEF TypeOK
    <2>6. ~NoNews(s) => delivered[s] < Len(log)
      BY <1>2 DEF NoNews
    <2>7. QED
      BY <2>1, <2>3, <2>5, <2>6, QuietStep
  <1>4. CASE ~(NoNews(s) \/ TooMany(delivered[s]))
    <2>1. PICK n \in 1 .. Len(log) : /\ IsLastOfPoll(s, n)
                                     /\ Deliver(s, Events(delivered[s], n), n)
      BY <1>4 DEF PollList
    <2>2. delivered[s] \in Nat /\ delivered[s] < n
      BY <1>2, <2>1 DEF IsLastOfPoll
    <2>3. PICK W \in Seq(Frames) : W = Events(delivered[s], n) /\ IsNext(W, delivered[s], n)
      BY <1>1, <2>2, EventsAreNext
    <2>4. Deliver(s, W, n) /\ PollUnchanged
      BY <2>1, <2>3 DEF PollList
    <2>5. QED
      BY <1>1, <2>2, <2>3, <2>4, DeliverStep
  <1>5. QED
    BY <1>3, <1>4

\* A reset of a poll goes ahead of what was delivered.
LEMMA PollResetFits ==
  ASSUME DeliveryInvariant, PollsWhenOpen, NEW s \in Streams, PollReset(s)
  PROVE  DeliveryInvariant'
  <1>1. TypeOK /\ phase[s] = "streaming" /\ poll[s] = "reset" /\ delivered[s] < Len(log)
    BY DEF DeliveryInvariant, DeliveryFits, PollsWhenOpen, PollReset
  <1>2. CASE deleted
    <2>1. PollFails(s)
      BY <1>1, <1>2 DEF PollReset, PollFails
    <2>2. QED
      BY <2>1, NothingWritten
  <1>3. CASE ~deleted
    <2>1. Len(log) \in 1 .. Len(log) /\ delivered[s] \in Nat
      BY <1>1, StreamTypes
    <2>2. PICK n \in 1 .. Len(log) : n = Len(log)
      BY <2>1
    <2>3. PICK W \in Seq(Frames) : W = Reset(n) /\ IsNext(W, delivered[s], n)
      BY <1>1, <2>1, ResetIsNext
    <2>4. Deliver(s, W, n) /\ PollUnchanged /\ delivered[s] < n
      BY <1>1, <1>3, <2>2, <2>3 DEF PollReset
    <2>5. QED
      BY <1>1, <2>3, <2>4, DeliverStep
  <1>4. QED
    BY <1>2, <1>3

\* A poll that finds nothing may write a heartbeat, which delivers nothing.
LEMMA PollLatestFits ==
  ASSUME DeliveryInvariant, PollsWhenOpen, NEW s \in Streams, PollLatest(s)
  PROVE  DeliveryInvariant'
  <1>1. TypeOK /\ phase[s] = "streaming" /\ poll[s] = "latest"
    BY DEF DeliveryInvariant, PollsWhenOpen, PollLatest
  <1>2. UNCHANGED <<log, deleted, revoked, phase, cursor, latest, initial, gone, lease, ttl, age>>
    BY DEF PollLatest, PollUnchanged, database, replay
  <1>3. Frames' = Frames
    BY <1>2 DEF Frames
  <1>4. PICK state \in {"none", "armed"} : poll' = [poll EXCEPT ![s] = state]
    BY DEF PollLatest, GiveUp, StopPolling, Reschedule
  <1>5. /\ poll' \in [Streams -> {"none", "armed", "session", "list", "reset", "latest"}]
        /\ poll'[s] = state
        /\ \A t \in Streams \ {s} : poll'[t] = poll[t]
    BY <1>1, <1>4 DEF TypeOK
  <1>6. /\ finished' \in [Streams -> BOOLEAN] /\ ended' \in [Streams -> BOOLEAN]
        /\ command' \in [Streams -> {"none", "sent", "granted", "taken", "release"}]
    <2>1. (\E end \in BOOLEAN : finish(s, end)) \/ UNCHANGED <<finished, ended, command>>
      BY DEF PollLatest, GiveUp
    <2>2. QED
      BY <1>1, <2>1, FinishTypes
  <1>7. CASE UNCHANGED <<delivered, frames>>
    <2>1. TypeOK'
      BY <1>1, <1>2, <1>3, <1>5, <1>6, <1>7 DEF TypeOK
    <2>2. QED
      BY <1>2, <1>5, <1>7, <2>1, QuietStep
  <1>8. CASE /\ write(s, <<Frame("heartbeat", Len(log))>>)
             /\ delivered' = [delivered EXCEPT ![s] = DeliveredAfterHeartbeat(s)]
    <2>1. PICK h \in Frames : h = Frame("heartbeat", Len(log)) /\ h.kind = "heartbeat"
      <3>1. Len(log) \in 1 .. Len(log)
        BY <1>1, StreamTypes
      <3>2. QED
        BY <1>1, <3>1, FramesOfRows
    <2>2. /\ Len(log) \in Nat /\ Frames = FramesUpTo(Len(log)) /\ frames[s] \in Seq(Frames)
          /\ delivered[s] \in Nat /\ ResumedAt(s) \in Nat
      BY <1>1, StreamTypes
    <2>3. delivered' = delivered /\ frames' = [frames EXCEPT ![s] = frames[s] \o <<h>>]
      BY <1>1, <1>8, <2>1 DEF write, DeliveredAfterHeartbeat, TypeOK
    <2>4. frames[s] \o <<h>> \in Seq(Frames)
      BY <2>1, <2>2
    <2>5. frames' \in [Streams -> Seq(Frames)] /\ frames'[s] = frames[s] \o <<h>>
          /\ \A t \in Streams \ {s} : frames'[t] = frames[t]
      BY <1>1, <2>3, <2>4 DEF TypeOK
    <2>6. TypeOK'
      BY <1>1, <1>2, <1>3, <1>5, <1>6, <2>3, <2>5 DEF TypeOK
    <2>7. DeliveryFits(s)'
      <3>1. Delivery(frames[s], delivered[s], ResumedAt(s)) /\ latest[s] >= 1
        BY <1>1 DEF DeliveryInvariant, DeliveryFits
      <3>2. Delivery(frames[s] \o <<h>>, delivered[s], ResumedAt(s))
        BY <2>1, <2>2, <3>1, DeliverHeartbeat
      <3>3. ResumedAt(s)' = ResumedAt(s)
        BY <1>2 DEF ResumedAt
      <3>4. QED
        BY <1>1, <1>2, <1>5, <2>3, <2>5, <3>1, <3>2, <3>3 DEF DeliveryFits
    <2>8. ASSUME NEW t \in Streams \ {s} PROVE DeliveryFits(t)'
      <3>1. DeliveryFits(t) /\ Len(log') \in Nat /\ Len(log) <= Len(log')
        BY <1>2, <2>2 DEF DeliveryInvariant
      <3>2. QED
        BY <1>1, <1>2, <1>5, <2>3, <2>5, <3>1, FitsElsewhere
    <2>9. QED
      BY <2>6, <2>7, <2>8 DEF DeliveryInvariant
  <1>9. QED
    BY <1>7, <1>8 DEF PollLatest, GiveUp

\* The steps above cover Next.
LEMMA DeliveryStep == DeliveryInvariant /\ PollsWhenOpen /\ [Next]_vars => DeliveryInvariant'
  <1> SUFFICES ASSUME DeliveryInvariant, PollsWhenOpen, [Next]_vars PROVE DeliveryInvariant'
    OBVIOUS
  <1>1. CASE UNCHANGED vars
    <2>1. UNCHANGED <<log, deleted, revoked, phase, cursor, latest, initial, delivered, poll,
                      finished, ended, gone, frames, lease, ttl, command, age>>
      BY <1>1 DEF vars, database, replay, redis
    <2>2. TypeOK'
      BY <2>1 DEF DeliveryInvariant, TypeOK, Frames
    <2>3. QED
      BY <2>1, <2>2, QuietStep
  <1>2. CASE LifecycleStep
    BY <1>2, LogGrows
  <1>3. CASE Delete \/ Tick
    <2>1. CASE Streams = {}
      <3>1. /\ UNCHANGED <<log, revoked, phase, cursor, latest, initial, delivered, poll,
                           finished, ended, gone, frames, command>>
            /\ deleted' \in {deleted, TRUE} /\ lease' \in {lease, NoStream}
        BY <1>3 DEF Delete, Tick, database, replay, redis
      <3>2. ttl' \in 0 .. LeaseTtl /\ age' \in [Streams -> Nat]
        <4>1. ttl \in 0 .. LeaseTtl /\ LeaseTtl \in Nat /\ age \in [Streams -> Nat]
          BY Times DEF DeliveryInvariant, TypeOK
        <4>2. CASE Delete
          BY <4>1, <4>2 DEF Delete, redis
        <4>3. CASE Tick
          <5>1. ttl' = IF ttl > 0 THEN ttl - 1 ELSE 0
            BY <4>3 DEF Tick
          <5>2. age' \in [Streams -> Nat]
            BY <4>1, <4>3 DEF Tick
          <5>3. QED
            BY <4>1, <5>1, <5>2
        <4>4. QED
          BY <1>3, <4>2, <4>3
      <3>3. TypeOK'
        BY <3>1, <3>2 DEF DeliveryInvariant, TypeOK, Frames
      <3>4. QED
        BY <2>1, <3>3 DEF DeliveryInvariant
    <2>2. CASE Streams # {}
      BY <1>3, <2>2, NothingWritten
    <2>3. QED
      BY <2>1, <2>2
  <1>4. ASSUME NEW s \in Streams, Connect(s) \/ Handle(s) \/ HandlerFails(s)
        PROVE  DeliveryInvariant'
    BY <1>4, HandlerFits, OpenFits DEF Handle
  <1>5. ASSUME NEW s \in Streams,
               \/ ExecuteAcquire(s) \/ ExecuteRelease(s) \/ CommandLost(s)
               \/ LifetimeTimer(s) \/ Disconnect(s) \/ Revoke(s)
        PROVE  DeliveryInvariant'
    BY <1>5, NothingWritten
  <1>6. ASSUME NEW s \in Streams, Poll(s) \/ PollFails(s)
        PROVE  DeliveryInvariant'
    BY <1>6, NothingWritten, PollListFits, PollResetFits, PollLatestFits DEF Poll
  <1>7. QED
    BY <1>1, <1>2, <1>3, <1>4, <1>5, <1>6 DEF Next

\* What is delivered fits the position of every stream.
LEMMA DeliveriesHold == Spec => []DeliveryInvariant
  BY NothingDelivered, DeliveryStep, PollsHold, PTL DEF Spec

-------------------------------------------------------------------------------

\* The ids are positions in the history: deliveredSequence and the frames never
\* run ahead of it, whatever Last-Event-ID the client sent.
THEOREM TypesHold == Spec => []TypeOK
  <1>1. DeliveryInvariant => TypeOK
    BY DEF DeliveryInvariant
  <1>2. QED
    BY <1>1, DeliveriesHold, PTL

\* Before a stream is open its response is empty; after that its frames are in order.
LEMMA FramesAreDelivered ==
  ASSUME DeliveryInvariant, NEW s \in Streams
  PROVE  /\ InOrder(frames[s], ResumedAt(s))
         /\ frames[s] # <<>> => Delivery(frames[s], delivered[s], ResumedAt(s))
  <1>1. DeliveryFits(s)
    BY DEF DeliveryInvariant
  <1>2. CASE phase[s] # "streaming"
    BY <1>1, <1>2 DEF DeliveryFits, InOrder
  <1>3. CASE phase[s] = "streaming"
    BY <1>1, <1>3 DEF DeliveryFits, Delivery
  <1>4. QED
    BY <1>2, <1>3

\* No event is sent twice or out of order, across the seam between the replay
\* and the polls, in any interleaving with the lifecycle and for any cursor,
\* replay limit and number of streams: deliveredSequence, which the next list
\* starts after, is the last id written, except for heartbeats.
THEOREM DeliveredInOrder == Spec => []OnceInOrder
  <1>1. DeliveryInvariant => OnceInOrder
    <2> SUFFICES ASSUME DeliveryInvariant, NEW s \in Streams
                 PROVE  \A i, j \in DOMAIN frames[s] :
                          /\ IsEvent(s, i) => frames[s][i].id > ResumedAt(s)
                          /\ (i < j /\ (IsEvent(s, i) \/ IsReset(s, i))
                                    /\ (IsEvent(s, j) \/ IsReset(s, j)))
                               => frames[s][i].id < frames[s][j].id
      BY DEF OnceInOrder
    <2>1. InOrder(frames[s], ResumedAt(s))
      BY FramesAreDelivered
    <2>2. QED
      BY <2>1 DEF InOrder, IsSolid, IsEvent, IsReset
  <1>2. QED
    BY <1>1, DeliveriesHold, PTL

\* A client that reconnects with the id of the last frame it got misses nothing:
\* every earlier event was sent to it or is covered by a reset.  The invariant
\* says more: that holds up to deliveredSequence at every moment.
THEOREM ResumeIsComplete == Spec => []ResumeMissesNothing
  <1>1. DeliveryInvariant => ResumeMissesNothing
    <2> SUFFICES ASSUME DeliveryInvariant, NEW s \in Streams, frames[s] # <<>>,
                        frames[s][Len(frames[s])].kind # "heartbeat",
                        NEW n \in 1 .. frames[s][Len(frames[s])].id
                 PROVE  Received(s, n)
      BY DEF ResumeMissesNothing
    <2> DEFINE F == frames[s]
               last == F[Len(F)]
    <2>1. /\ TypeOK /\ F \in Seq(FramesUpTo(Len(log))) /\ Len(log) \in Nat
          /\ delivered[s] \in Nat
      BY StreamTypes DEF DeliveryInvariant
    <2>2. Len(F) \in DOMAIN F /\ last \in FramesUpTo(Len(log))
      BY <2>1
    <2>3. IsSolid(last) /\ last.id \in Nat
      BY <2>1, <2>2, FrameTypes DEF IsSolid
    <2>4. Delivery(F, delivered[s], ResumedAt(s))
      BY FramesAreDelivered
    <2>5. last.id <= delivered[s]
      BY <2>2, <2>3, <2>4 DEF Delivery
    <2>6. n \in 1 .. delivered[s]
      BY <2>1, <2>3, <2>5
    <2>7. Covers(F, delivered[s], ResumedAt(s))
      BY <2>4 DEF Delivery
    <2>8. QED
      BY <2>6, <2>7 DEF Covers, Received, IsEvent, IsReset
  <1>2. QED
    BY <1>1, DeliveriesHold, PTL
===============================================================================
