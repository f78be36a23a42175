--------------------------- MODULE ReviewEventStream ---------------------------
(***************************************************************************)
(* The server-sent events of one review: ReviewEventStreamService.stream   *)
(* with the lease in Redis that admits one stream at a time, against a     *)
(* lifecycle that goes on, a session that may be revoked, clients that     *)
(* disconnect and reads that fail.                                         *)
(*                                                                         *)
(* ReviewRepository shows that review_events holds the sequences 1..n of a *)
(* legal history and only grows.  It is a sequence of statuses here, so    *)
(* the checks isContiguous and cursor.sequence < first.sequence - 1, which *)
(* guard against a history with holes, have nothing to find and are left   *)
(* out.  Time counts in ticks: ages of requests and streams, and what is   *)
(* left of the lease.                                                      *)
(***************************************************************************)
EXTENDS Integers, Sequences, FiniteSets

CONSTANTS Streams,         \* requests GET /reviews/:id/events
          NoStream,        \* the lease is free
          MaxSequence,     \* REVIEW_MAX_EVENT_SEQUENCE
          MaxReplay,       \* REVIEW_EVENT_STREAM_MAX_REPLAY
          MaxHeartbeats,   \* maxLifetimeMs / heartbeatIntervalMs
          Lifetime,        \* maxLifetimeMs
          Margin,          \* the 5 s the lease outlives the stream
          CommandTimeout,  \* REDIS_COMMAND_TIMEOUT_MS
          Lag              \* the longest delay of a due callback

ASSUME LengthsAssumption == /\ MaxSequence \in Nat \ {0} /\ MaxReplay \in Nat \ {0}
                            /\ MaxHeartbeats \in Nat
                            /\ Lifetime \in Nat /\ Margin \in Nat
                            /\ CommandTimeout \in Nat /\ Lag \in Nat
                            /\ NoStream \notin Streams

\* The 5 s beyond the lifetime cover a slow reply (1 s) and two late callbacks.
ASSUME LeaseOutlivesStream == CommandTimeout + 2 * Lag < Margin

VARIABLES log,       \* the statuses of review_events, in sequence
          deleted,   \* reviews.deleted_at is set
          revoked,   \* the streams whose session is not active any more
          phase,     \* where the handler of a stream is
          cursor,    \* the Last-Event-ID it was given, parsed
          latest,    \* the sequence of the event read as the latest
          initial,   \* the frames of the initial delivery
          delivered, \* deliveredSequence
          poll,      \* the poll timer or the poll under way
          finished,  \* the flag of that name
          ended,     \* response.end was called
          gone,      \* the client has disconnected
          frames,    \* what was written to the response
          lease,     \* the stream whose token is in Redis
          ttl,       \* what is left of the lease
          command,   \* the command a stream has under way in Redis
          age        \* ticks since the command was sent, or since the stream opened

database == <<log, deleted, revoked>>
replay == <<cursor, latest, initial>>
redis == <<lease, ttl, command>>
vars == <<database, phase, replay, delivered, poll, finished, ended, gone,
          frames, redis, age>>

Statuses == {"PENDING", "PROCESSING", "COMPLETED", "FAILED", "CANCELLED"}
TERMINAL_STATUSES == {"COMPLETED", "FAILED", "CANCELLED"}

\* What review.policy.ts lets follow a status.
Successors == [ PENDING    |-> {"PROCESSING", "CANCELLED"},
                PROCESSING |-> {"COMPLETED", "FAILED", "CANCELLED"},
                COMPLETED  |-> {},
                FAILED     |-> {"PENDING"},
                CANCELLED  |-> {"PENDING"} ]

isTerminal(n) == log[n] \in TERMINAL_STATUSES

\* parseCursor: the header is missing, unreadable, or a sequence.
Cursors == [kind : {"ABSENT", "INVALID"}, sequence : {0}]
             \cup [kind : {"VALID"}, sequence : 1 .. MaxSequence + 1]
Absent == [kind |-> "ABSENT", sequence |-> 0]

Frame(kind, n) == [kind |-> kind, id |-> n, status |-> log[n]]
Events(from, to) == [i \in 1 .. to - from |-> Frame("event", from + i)]
Reset(n) == <<Frame("reset", n)>>

\* listEventsForUser reads one row more than may be replayed.
TooMany(from) == Len(log) - from > MaxReplay

\* Faulty variant: the lease lasts as long as the stream.
LeaseTtlWithoutMargin == Lifetime

LeaseTtl == Lifetime + Margin

Running == {s \in Streams : phase[s] = "streaming" /\ ~finished[s]}

-------------------------------------------------------------------------------

Init ==
  /\ log = <<"PENDING">>
  /\ deleted = FALSE
  /\ revoked = {}
  /\ phase = [s \in Streams |-> "idle"]
  /\ cursor = [s \in Streams |-> Absent]
  /\ latest = [s \in Streams |-> 0]
  /\ initial = [s \in Streams |-> <<>>]
  /\ delivered = [s \in Streams |-> 0]
  /\ poll = [s \in Streams |-> "none"]
  /\ finished = [s \in Streams |-> FALSE]
  /\ ended = [s \in Streams |-> FALSE]
  /\ gone = [s \in Streams |-> FALSE]
  /\ frames = [s \in Streams |-> <<>>]
  /\ lease = NoStream
  /\ ttl = 0
  /\ command = [s \in Streams |-> "none"]
  /\ age = [s \in Streams |-> 0]

\* What goes on elsewhere: the lifecycle, a deletion, a revoked session.
LifecycleStep ==
  /\ ~deleted
  /\ Len(log) < MaxSequence
  /\ \E status \in Successors[log[Len(log)]] : log' = Append(log, status)
  /\ UNCHANGED <<deleted, revoked, phase, replay, delivered, poll, finished,
                 ended, gone, frames, redis, age>>

Delete == /\ ~deleted
          /\ deleted' = TRUE
          /\ UNCHANGED <<log, revoked, phase, replay, delivered, poll, finished,
                         ended, gone, frames, redis, age>>

Revoke(s) == /\ s \notin revoked
             /\ revoked' = revoked \cup {s}
             /\ UNCHANGED <<log, deleted, phase, replay, delivered, poll,
                            finished, ended, gone, frames, redis, age>>

-------------------------------------------------------------------------------

\* The handler up to the lease.  A refusal is an HTTP error; nothing is held.
Proceed(s, from, to) == /\ phase[s] = from
                        /\ phase' = [phase EXCEPT ![s] = to]
                        /\ UNCHANGED <<database, delivered, poll, finished,
                                       ended, gone, frames, lease, ttl>>

Connect(s) ==
  /\ \E c \in Cursors : cursor' = [cursor EXCEPT ![s] = c]
  /\ Proceed(s, "idle", "session")
  /\ UNCHANGED <<latest, initial, command, age>>

\* isSessionActive answers false for an inactive session and when a read fails.
isSessionActive(s, answer) == answer => s \notin revoked

CheckSession(s) ==
  /\ \E active \in BOOLEAN :
       /\ isSessionActive(s, active)
       /\ Proceed(s, "session", IF active THEN "review" ELSE "refused")
  /\ UNCHANGED <<replay, command, age>>

\* findByIdForUser and latestEventForUser: 404 or 503 if the review is gone.
ReadLatest(s) ==
  /\ Proceed(s, "review", IF deleted THEN "refused" ELSE "replay")
  /\ latest' = [latest EXCEPT ![s] = IF deleted THEN 0 ELSE Len(log)]
  /\ UNCHANGED <<cursor, initial, command, age>>

\* Faulty variant: the event with the id of the cursor is replayed again.
InclusiveStart(s) == IF cursor[s].kind = "VALID" THEN cursor[s].sequence - 1 ELSE 0

Start(s) == cursor[s].sequence

\* resolveInitialDelivery: nothing, the events after the cursor, or a reset.
InitialDelivery(s) ==
  LET from == Start(s)
  IN  IF \/ cursor[s].kind = "INVALID"
         \/ cursor[s].sequence > latest[s]
      THEN Reset(latest[s])
      ELSE IF cursor[s].sequence = latest[s] THEN <<>>
      ELSE IF deleted \/ TooMany(from) THEN Reset(latest[s])
      ELSE Events(from, Len(log))

\* The lease command is sent as soon as the delivery is resolved.
ResolveInitialDelivery(s) ==
  /\ Proceed(s, "replay", "lease")
  /\ initial' = [initial EXCEPT ![s] = InitialDelivery(s)]
  /\ command' = [command EXCEPT ![s] = "sent"]
  /\ age' = [age EXCEPT ![s] = 0]
  /\ UNCHANGED <<cursor, latest>>

\* A read fails: the exception filter answers.
HandlerFails(s) == /\ \E from \in {"review", "replay"} : Proceed(s, from, "refused")
                   /\ UNCHANGED <<replay, command, age>>

-------------------------------------------------------------------------------

\* SET NX PX, and the script that releases: Redis executes them at any time
\* after they were sent, also when nobody waits for the reply any more.
ExecuteAcquire(s) ==
  /\ command[s] = "sent"
  /\ IF lease = NoStream
     THEN /\ lease' = s
          /\ ttl' = LeaseTtl
          /\ command' = [command EXCEPT ![s] = "granted"]
     ELSE /\ command' = [command EXCEPT ![s] = "taken"]
          /\ UNCHANGED <<lease, ttl>>
  /\ UNCHANGED <<database, phase, replay, delivered, poll, finished, ended,
                 gone, frames, age>>

\* The script compares the token.
Frees(s) == lease = s

ExecuteRelease(s) ==
  /\ command[s] = "release"
  /\ command' = [command EXCEPT ![s] = "none"]
  /\ lease' = IF Frees(s) THEN NoStream ELSE lease
  /\ ttl' = IF Frees(s) THEN 0 ELSE ttl
  /\ UNCHANGED <<database, phase, replay, delivered, poll, finished, ended,
                 gone, frames, age>>

\* The command never reaches Redis.  releaseLease ignores the error.
CommandLost(s) ==
  /\ command[s] \in {"sent", "release"}
  /\ command' = [command EXCEPT ![s] = "none"]
  /\ UNCHANGED <<database, phase, replay, delivered, poll, finished, ended,
                 gone, frames, lease, ttl, age>>

\* 409: another stream holds the lease.
LeaseTaken(s) == /\ Proceed(s, "lease", "refused")
                 /\ command[s] = "taken"
                 /\ UNCHANGED <<replay, command, age>>

\* 503: the command failed or its deadline passed, whether or not it is executed.
LeaseUnavailable(s) == /\ Proceed(s, "lease", "refused")
                       /\ UNCHANGED <<replay, command, age>>

-------------------------------------------------------------------------------

\* finish(endResponse), at most once: timers and listeners are removed and the
\* release of the lease is sent.  A poll that is under way goes on.
finish(s, endResponse) ==
  IF finished[s]
  THEN UNCHANGED <<finished, ended, command>>
  ELSE /\ finished' = [finished EXCEPT ![s] = TRUE]
       /\ ended' = [ended EXCEPT ![s] = endResponse /\ ~gone[s]]
       /\ command' = [command EXCEPT ![s] = "release"]

write(s, written) == frames' = [frames EXCEPT ![s] = @ \o written]

LastDelivered(s) == IF initial[s] = <<>> THEN cursor[s].sequence
                    ELSE initial[s][Len(initial[s])].id

\* The lease is granted: listeners and timers are set and the initial frames
\* written without a pause.  The decision to end looks at the latest event that
\* was read first, not at the last one written.
Open(s) ==
  /\ phase[s] = "lease"
  /\ command[s] = "granted"
  /\ phase' = [phase EXCEPT ![s] = "streaming"]
  /\ delivered' = [delivered EXCEPT ![s] = LastDelivered(s)]
  /\ write(s, initial[s])
  /\ age' = [age EXCEPT ![s] = 0]
  /\ IF isTerminal(latest[s])
     THEN finish(s, TRUE) /\ UNCHANGED poll
     ELSE /\ poll' = [poll EXCEPT ![s] = "armed"]
          /\ command' = [command EXCEPT ![s] = "none"]
          /\ UNCHANGED <<finished, ended>>
  /\ UNCHANGED <<database, replay, gone, lease, ttl>>

\* The client goes away.  Before the stream is open nobody listens.
Disconnect(s) ==
  /\ phase[s] \notin {"idle", "refused"}
  /\ ~gone[s] /\ ~ended[s]
  /\ gone' = [gone EXCEPT ![s] = TRUE]
  /\ IF phase[s] = "streaming"
     THEN /\ finish(s, FALSE)
          /\ poll' = [poll EXCEPT ![s] = IF @ = "armed" THEN "none" ELSE @]
     ELSE UNCHANGED <<finished, ended, command, poll>>
  /\ UNCHANGED <<database, phase, replay, delivered, frames, lease, ttl, age>>

\* Faulty variant: the lifetime counts from the last write, here: never ends.
LifetimeIsExtended(s) == FALSE

LifetimeIsOver(s) == age[s] >= Lifetime

LifetimeTimer(s) ==
  /\ s \in Running
  /\ LifetimeIsOver(s)
  /\ finish(s, TRUE)
  /\ poll' = [poll EXCEPT ![s] = IF @ = "armed" THEN "none" ELSE @]
  /\ UNCHANGED <<database, phase, replay, delivered, gone, frames, lease, ttl, age>>

-------------------------------------------------------------------------------

\* One poll.  A read and what its answer leads to are one step: whatever happens
\* between the two changes neither the rows that were read nor what is written.
PollUnchanged == UNCHANGED <<database, phase, replay, gone, lease, ttl, age>>

Reschedule(s) == poll' = [poll EXCEPT ![s] = IF finished[s] THEN "none" ELSE "armed"]
StopPolling(s) == poll' = [poll EXCEPT ![s] = "none"]

PollTimer(s) ==
  /\ poll[s] = "armed"
  /\ poll' = [poll EXCEPT ![s] = "session"]
  /\ UNCHANGED <<delivered, finished, ended, frames, command>>
  /\ PollUnchanged

PollSession(s) ==
  /\ poll[s] = "session"
  /\ \E active \in BOOLEAN :
       /\ isSessionActive(s, active)
       /\ IF active
          THEN /\ poll' = [poll EXCEPT ![s] = "list"]
               /\ UNCHANGED <<finished, ended, command>>
          ELSE StopPolling(s) /\ finish(s, TRUE)
  /\ UNCHANGED <<delivered, frames>>
  /\ PollUnchanged

\* What was read leads to a frame; a terminal one ends the stream.
Deliver(s, written, n) ==
  /\ write(s, written)
  /\ delivered' = [delivered EXCEPT ![s] = n]
  /\ IF isTerminal(n) THEN StopPolling(s) /\ finish(s, TRUE)
     ELSE Reschedule(s) /\ UNCHANGED <<finished, ended, command>>

\* The last event a poll writes: it stops at the first terminal one.
IsLastOfPoll(s, n) ==
  /\ n \in delivered[s] + 1 .. Len(log)
  /\ \A m \in delivered[s] + 1 .. n - 1 : ~isTerminal(m)
  /\ isTerminal(n) \/ n = Len(log)

NoNews(s) == deleted \/ Len(log) <= delivered[s]

PollList(s) ==
  /\ poll[s] = "list"
  /\ IF NoNews(s) \/ TooMany(delivered[s])
     THEN /\ poll' = [poll EXCEPT ![s] = IF NoNews(s) THEN "latest" ELSE "reset"]
          /\ UNCHANGED <<delivered, finished, ended, frames, command>>
     ELSE \E n \in 1 .. Len(log) :
            /\ IsLastOfPoll(s, n)
            /\ Deliver(s, Events(delivered[s], n), n)
  /\ PollUnchanged

\* The review was deleted, or a read failed: the response is left open.
GiveUp(s) == /\ StopPolling(s)
             /\ finish(s, FALSE)
             /\ UNCHANGED <<delivered, frames>>

PollReset(s) ==
  /\ poll[s] = "reset"
  /\ IF deleted THEN GiveUp(s) ELSE Deliver(s, Reset(Len(log)), Len(log))
  /\ PollUnchanged

\* Faulty variant: a heartbeat counts as the delivery of its event.
HeartbeatDelivers(s) == Len(log)

DeliveredAfterHeartbeat(s) == delivered[s]

\* heartbeatIntervalMs has passed since the last one: a lifetime has room for so
\* many.  When exactly is left open.
MayHeartbeat(s) ==
  Cardinality({i \in DOMAIN frames[s] : frames[s][i].kind = "heartbeat"}) < MaxHeartbeats

\* The latest event may be newer than the empty list just read: a terminal one
\* ends the stream without its event, another is announced by a heartbeat first.
PollLatest(s) ==
  /\ poll[s] = "latest"
  /\ \/ deleted /\ GiveUp(s)
     \/ /\ ~deleted
        /\ isTerminal(Len(log))
        /\ StopPolling(s)
        /\ finish(s, TRUE)
        /\ UNCHANGED <<delivered, frames>>
     \/ /\ ~deleted
        /\ ~isTerminal(Len(log))
        /\ Reschedule(s)
        /\ \/ UNCHANGED <<delivered, frames>>
           \/ /\ MayHeartbeat(s)
              /\ write(s, <<Frame("heartbeat", Len(log))>>)
              /\ delivered' = [delivered EXCEPT ![s] = DeliveredAfterHeartbeat(s)]
        /\ UNCHANGED <<finished, ended, command>>
  /\ PollUnchanged

PollFails(s) == /\ poll[s] \in {"list", "reset", "latest"}
                /\ GiveUp(s)
                /\ PollUnchanged

-------------------------------------------------------------------------------

LeaseExpires == ttl <= 1

Waiting == {s \in Streams : phase[s] = "lease"}

\* A tick passes.  Deadlines and lifetimes are over at most Lag late.
Tick ==
  /\ \A s \in Waiting : age[s] < CommandTimeout + Lag
  /\ \A s \in Running : age[s] < Lifetime + Lag
  /\ age' = [s \in Streams |-> IF s \in Waiting \cup Running THEN age[s] + 1 ELSE age[s]]
  /\ ttl' = IF ttl > 0 THEN ttl - 1 ELSE 0
  /\ lease' = IF LeaseExpires THEN NoStream ELSE lease
  /\ UNCHANGED <<database, phase, replay, delivered, poll, finished, ended,
                 gone, frames, command>>

Handle(s) == \/ CheckSession(s) \/ ReadLatest(s) \/ ResolveInitialDelivery(s)
             \/ LeaseTaken(s) \/ LeaseUnavailable(s) \/ Open(s)

Poll(s) == PollTimer(s) \/ PollSession(s) \/ PollList(s) \/ PollReset(s) \/ PollLatest(s)

Next ==
  \/ LifecycleStep \/ Delete \/ Tick
  \/ \E s \in Streams :
       \/ Connect(s) \/ Handle(s) \/ HandlerFails(s)
       \/ ExecuteAcquire(s) \/ ExecuteRelease(s) \/ CommandLost(s)
       \/ LifetimeTimer(s) \/ Poll(s) \/ PollFails(s)
       \/ Disconnect(s) \/ Revoke(s)

Spec == Init /\ [][Next]_vars

\* Time passes, due callbacks run and reads answer or fail.  Nothing is assumed
\* of Redis, the lifecycle or the client.
FairSpec ==
  /\ Spec
  /\ WF_vars(Tick)
  /\ \A s \in Streams : WF_vars(Handle(s)) /\ WF_vars(Poll(s)) /\ WF_vars(LifetimeTimer(s))

-------------------------------------------------------------------------------

Phases == {"idle", "session", "review", "replay", "lease", "streaming", "refused"}
Frames == [kind : {"event", "reset", "heartbeat"}, id : 1 .. Len(log), status : Statuses]

\* Type invariant.  In particular deliveredSequence and the frame ids never run
\* ahead of the events there are, whatever cursor the client sent.
TypeOK ==
  /\ log \in Seq(Statuses) /\ Len(log) \in 1 .. MaxSequence
  /\ deleted \in BOOLEAN
  /\ revoked \subseteq Streams
  /\ phase \in [Streams -> Phases]
  /\ cursor \in [Streams -> Cursors]
  /\ latest \in [Streams -> 0 .. Len(log)]
  /\ initial \in [Streams -> Seq(Frames)]
  /\ delivered \in [Streams -> 0 .. Len(log)]
  /\ poll \in [Streams -> {"none", "armed", "session", "list", "reset", "latest"}]
  /\ finished \in [Streams -> BOOLEAN]
  /\ ended \in [Streams -> BOOLEAN]
  /\ gone \in [Streams -> BOOLEAN]
  /\ frames \in [Streams -> Seq(Frames)]
  /\ lease \in Streams \cup {NoStream}
  /\ ttl \in 0 .. LeaseTtl
  /\ command \in [Streams -> {"none", "sent", "granted", "taken", "release"}]
  /\ age \in [Streams -> Nat]

\* Instances share only the key in Redis, replies and releases may be late and
\* the key expires: still at most one stream of the review is served.
OneStreamAtATime == \A s, t \in Running : s = t

\* The cursor the stream goes on from; a reset replaces an unknown one.
ResumedAt(s) == IF cursor[s].sequence <= latest[s] THEN cursor[s].sequence ELSE 0

IsEvent(s, i) == i \in DOMAIN frames[s] /\ frames[s][i].kind = "event"
IsReset(s, i) == i \in DOMAIN frames[s] /\ frames[s][i].kind = "reset"

\* Replay is exclusive and nothing is delivered twice: every event lies after
\* the cursor and after every event or reset that was written before it, across
\* the seam between the initial delivery and the polls.
OnceInOrder ==
  \A s \in Streams : \A i, j \in DOMAIN frames[s] :
    /\ IsEvent(s, i) => frames[s][i].id > ResumedAt(s)
    /\ (i < j /\ (IsEvent(s, i) \/ IsReset(s, i)) /\ (IsEvent(s, j) \/ IsReset(s, j)))
         => frames[s][i].id < frames[s][j].id

Received(s, n) ==
  \/ n <= ResumedAt(s)
  \/ \E i \in DOMAIN frames[s] : IsEvent(s, i) /\ frames[s][i].id = n
  \/ \E i \in DOMAIN frames[s] : IsReset(s, i) /\ frames[s][i].id >= n

\* A client that comes back with the id of its last frame has received every
\* event up to it, or a reset in its place.  The one exception is a last frame
\* that is a heartbeat: it may carry the id of an event not delivered yet.
ResumeMissesNothing ==
  \A s \in Streams : frames[s] # <<>> =>
    LET last == frames[s][Len(frames[s])]
    IN  last.kind # "heartbeat" => \A n \in 1 .. last.id : Received(s, n)

\* The lifetime is bounded: every stream comes to finish, whatever fails.
EveryStreamFinishes == \A s \in Streams : phase[s] = "streaming" ~> finished[s]

\* "bounded heartbeat/lifetime": the response of every stream is ended, unless
\* the client left.  (The code: finish(false) in the poll leaves it open.)
EveryResponseEnds == \A s \in Streams : phase[s] = "streaming" ~> ended[s] \/ gone[s]
===============================================================================
