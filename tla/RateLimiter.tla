------------------------------ MODULE RateLimiter ------------------------------
(***************************************************************************)
(* AuthRateLimiter: fixed windows that start with the first request of a   *)
(* key, in a map of bounded size that keeps the order of insertion.  A     *)
(* request counts for its address and, unless it is a refresh, for the     *)
(* email in its body.  The map is the bucket of each of its keys, and      *)
(* which key was inserted before which.                                    *)
(***************************************************************************)
EXTENDS Integers, FiniteSets

CONSTANTS Addresses, Emails,
          Limits, Windows,   \* AUTH_RATE_LIMIT_POLICIES, by scope
          TrimAge,           \* 15 minutes
          MaxBuckets,        \* MAX_AUTH_RATE_LIMIT_BUCKETS
          LastTime           \* bound on the clock

Scopes == DOMAIN Limits

ASSUME PoliciesAssumption ==
  /\ Scopes \subseteq {"register", "login", "refresh"} /\ DOMAIN Windows = Scopes
  /\ \A scope \in Scopes : Limits[scope] \in Nat \ {0} /\ Windows[scope] \in 1..TrimAge
  /\ TrimAge \in Nat /\ MaxBuckets \in Nat \ {0} /\ LastTime \in Nat

VARIABLES clock, buckets,
          passed,    \* history: the requests of a key that passed in the last window's length
          evicted    \* history: a bucket in its window was dropped from a full map

limiterVars == <<clock, buckets, passed, evicted>>

Keys == Scopes \X (Addresses \cup Emails)
Window(key) == Windows[key[1]]
Limit(key) == Limits[key[1]]

InitLimiter == /\ clock = 0 /\ evicted = FALSE
               /\ buckets = [of |-> [key \in {} |-> {}], before |-> {}]
               /\ passed = [key \in Keys |-> {}]

InWindow(key, bucket) == clock - bucket.start < Window(key)
Runs(map, key) == key \in DOMAIN map.of /\ InWindow(key, map.of[key])

Restricted(map, keys) == [of |-> [key \in keys |-> map.of[key]],
                          before |-> map.before \cap (keys \X keys)]

\* The keys that fewer than MaxBuckets others follow.
Last(map, keys) ==
  {key \in keys : Cardinality({k \in keys : <<key, k>> \in map.before}) < MaxBuckets}

\* Faulty variant: buckets go when the shortest window is over.
TrimAtOnce(map) ==
  Restricted(map, Last(map, {key \in DOMAIN map.of : clock - map.of[key].start < 1}))

\* trim: what is old, then the oldest insertions as long as there are too many.
Trim(map) ==
  Restricted(map, Last(map, {key \in DOMAIN map.of : clock - map.of[key].start < TrimAge}))

\* An entry that is set again keeps its place in the map.
Put(map, key, bucket) ==
  [of |-> [k \in DOMAIN map.of \cup {key} |-> IF k = key THEN bucket ELSE map.of[k]],
   before |-> IF key \in DOMAIN map.of THEN map.before
              ELSE map.before \cup ((DOMAIN map.of) \X {key})]

\* getBucket: the bucket it returns, and the map it leaves.
Bucket(map, key) == IF Runs(map, key) THEN map.of[key] ELSE [count |-> 0, start |-> clock]
GetBucket(map, key) ==
  IF Runs(map, key) THEN map
  ELSE Put(IF Cardinality(DOMAIN map.of) >= MaxBuckets THEN Trim(map) ELSE map,
           key, Bucket(map, key))

\* bucket.count += 1, which a bucket that trim has just taken out of the map does not keep.
CountIn(map, keys) ==
  [of |-> [key \in DOMAIN map.of |-> IF key \in keys THEN [map.of[key] EXCEPT !.count = @ + 1]
                                                     ELSE map.of[key]],
   before |-> map.before]

\* The map would have to be larger to have the keys as well.
Overfull(keys) == Cardinality(DOMAIN buckets.of \cup keys) > MaxBuckets

\* The bucket of a key, which matters after this request, is the one it was.
Stays(key, map, next) == key \in DOMAIN next.of /\ map.of[key] = Bucket(buckets, key)
Matter(keys) == keys \cup {key \in DOMAIN buckets.of : Runs(buckets, key)}

\* A request of a key now; the requests of one moment are numbered.
Pass(key, start) ==
  [at |-> clock, start |-> start, nth |-> Cardinality({p \in passed[key] : p.at = clock})]

\* consume, from the buckets it got and the map it got them from: a request that is
\* refused counts nowhere.
Consume(scope, keys, got, map) ==
  LET blocked == \E bucket \in got : bucket.count >= Limits[scope]
      next == IF blocked THEN map ELSE Trim(CountIn(map, keys))
  IN /\ buckets' = next
     /\ evicted' = (evicted \/ (Overfull(keys) /\ \E key \in Matter(keys) : ~Stays(key, map, next)))
     /\ passed' = IF blocked \/ evicted' THEN passed
                  ELSE [key \in Keys |->
                          IF key \in keys
                          THEN passed[key] \cup {Pass(key, Bucket(buckets, key).start)}
                          ELSE passed[key]]
     /\ UNCHANGED clock

\* AuthRateLimitGuard.canActivate: by address, or by address and email.
Attempt ==
  \E scope \in Scopes, address \in Addresses :
    LET ip == <<scope, address>>
        first == GetBucket(buckets, ip)
    IN \/ Consume(scope, {ip}, {Bucket(buckets, ip)}, first)
       \/ /\ scope # "refresh"
          /\ \E email \in Emails :
               LET second == <<scope, email>>
               IN Consume(scope, {ip, second}, {Bucket(buckets, ip), Bucket(first, second)},
                          GetBucket(first, second))

TimePasses ==
  /\ clock < LastTime /\ clock' = clock + 1
  /\ passed' = [key \in Keys |-> {p \in passed[key] : clock' - p.at < Window(key)}]
  /\ UNCHANGED <<buckets, evicted>>

LimiterNext == Attempt \/ TimePasses

--------------------------------------------------------------------------------

\* However requests fall on the seams of the fixed windows, which a request that is
\* refused for its other key starts too, and whatever other keys are trimmed, at most
\* twice the limit of one key pass in any window's length, unless the full map has
\* dropped a bucket whose window was running.
RateIsBounded ==
  ~evicted => \A key \in Keys : Cardinality(passed[key]) <= 2 * Limit(key)
================================================================================
