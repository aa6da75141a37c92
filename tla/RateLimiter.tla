----------------------------- MODULE RateLimiter ----------------------------
(***************************************************************************)
(* The in-memory fixed-window rate limiter                                  *)
(* (server/internal/adapters/memory/rate_limiter.go).                       *)
(*                                                                         *)
(* A bucket counts the calls one key made on one action in one window.  The *)
(* map of buckets is bounded: at the bound, a call first drops the expired  *)
(* buckets (prune), then arbitrary ones (evict, in Go's random map order).  *)
(* The mutex makes a whole call one step.  The map lives in the process, so *)
(* a restart empties it.                                                    *)
(***************************************************************************)
EXTENDS Naturals, FiniteSets

CONSTANTS Actions,            \* every action name Allow is called with
          Keys,               \* "user:<id>" and "ip:<address>"
          limits,             \* [limited action -> [Max, Window]]
          maxTrackedBuckets,  \* bound on the bucket map
          MaxClock,           \* model bound: the clock stops there
          MaxCount,           \* model bound: calls counted by one bucket
          MaxGrants,          \* model bound: calls granted in one window
          Restarts            \* whether the process may restart

\* config.go refuses a limit below one; main.go's windows are whole seconds.
ASSUME RateLimiterAssumption ==
  /\ DOMAIN limits \subseteq Actions
  /\ \A a \in DOMAIN limits :
        limits[a].Max \in Nat \ {0} /\ limits[a].Window \in Nat \ {0}
  /\ maxTrackedBuckets \in Nat \ {0}
  /\ MaxClock \in Nat
  /\ Restarts \in BOOLEAN

VARIABLES clock,    \* seconds since the zero time
          counts,   \* the map of buckets; 0 stands for an absent entry
          granted,  \* history: calls granted to a bucket, over all its lives
          losses,   \* history: times a bucket was lost before its window ended
          reply     \* the answer to the latest call on a limited action

vars == <<clock, counts, granted, losses, reply>>

Buckets == [action: DOMAIN limits, key: Keys, windowStart: 0..MaxClock]

TypeOK == /\ clock \in 0..MaxClock
          /\ counts \in [Buckets -> Nat]
          /\ granted \in [Buckets -> Nat]
          /\ losses \in [Buckets -> Nat]
          /\ reply \in (Buckets \X BOOLEAN) \cup {<<>>}

Init == /\ clock = 0
        /\ counts = [b \in Buckets |-> 0]
        /\ granted = [b \in Buckets |-> 0]
        /\ losses = [b \in Buckets |-> 0]
        /\ reply = <<>>
-----------------------------------------------------------------------------
\* now.Truncate(limit.Window): the start of the window the clock is in.
BucketOf(action, key) ==
  [action |-> action, key |-> key,
   windowStart |-> clock - (clock % limits[action].Window)]

Tracked == {b \in Buckets : counts[b] > 0}

\* Mutant of Expired: prune drops a bucket in the last second of its window.
ExpiredOneSecondEarly(b) == b.windowStart + limits[b.action].Window <= clock + 1

Expired(b) == b.windowStart + limits[b.action].Window <= clock

\* What prune keeps.
Pruned == {b \in Tracked : ~Expired(b)}

\* What evict may leave of the buckets in kept: it deletes in map order, and
\* stops as soon as there is room for one more.
Evictions(kept) ==
  {rest \in SUBSET kept : Cardinality(kept \ rest) =
     IF Cardinality(kept) < maxTrackedBuckets
     THEN 0 ELSE Cardinality(kept) - maxTrackedBuckets + 1}

\* Mutant of Survivors: the bound is on the buckets that have not expired.
SurvivorsIgnoreExpired ==
  IF Cardinality(Pruned) >= maxTrackedBuckets THEN Evictions(Pruned) ELSE {Tracked}

\* The buckets that may survive the room-making at the start of a call.
Survivors ==
  IF Cardinality(Tracked) >= maxTrackedBuckets THEN Evictions(Pruned) ELSE {Tracked}

\* Mutants of Admits: it refuses the last call of the quota; it grants one more.
AdmitsOneLess(b, count) == count < limits[b.action].Max
AdmitsOneMore(b, count) == count <= limits[b.action].Max + 1

\* r.counts[bucket] <= limit.Max
Admits(b, count) == count <= limits[b.action].Max

\* A call on a limited action, from the lock to the unlock.
Allow(action, key) ==
  LET b == BucketOf(action, key)
  IN  /\ action \in DOMAIN limits
      /\ counts[b] < MaxCount /\ granted[b] < MaxGrants
      /\ \E rest \in Survivors :
           /\ counts' = [c \in Buckets |-> (IF c \in rest THEN counts[c] ELSE 0)
                                           + (IF c = b THEN 1 ELSE 0)]
           /\ losses' = [c \in Buckets |-> losses[c] +
                           (IF c \in Pruned \ rest THEN 1 ELSE 0)]
      /\ reply' = <<b, Admits(b, counts'[b])>>
      /\ granted' = IF Admits(b, counts'[b])
                    THEN [granted EXCEPT ![b] = @ + 1] ELSE granted
      /\ UNCHANGED clock

\* A call on an action without a limit is allowed and touches nothing.
AllowUnlimited(action) == action \notin DOMAIN limits /\ UNCHANGED vars

Tick == /\ clock < MaxClock
        /\ clock' = clock + 1
        /\ UNCHANGED <<counts, granted, losses, reply>>

\* Mutant of Restart: the constructor makes no map.
RestartWithNilMap == /\ Restarts
                     /\ counts' = <<>>
                     /\ UNCHANGED <<clock, granted, losses, reply>>

\* The process restarts: NewRateLimiter makes an empty map.
Restart == /\ Restarts
           /\ counts' = [b \in Buckets |-> 0]
           /\ losses' = [b \in Buckets |-> losses[b] + (IF b \in Pruned THEN 1 ELSE 0)]
           /\ UNCHANGED <<clock, granted, reply>>

Next == \/ \E action \in Actions :
             \/ \E key \in Keys : Allow(action, key)
             \/ AllowUnlimited(action)
        \/ Tick
        \/ Restart

Spec == Init /\ [][Next]_vars
-----------------------------------------------------------------------------
\* The flood test's bound: the map never holds more than maxTrackedBuckets.
TrackedBounded == Cardinality(Tracked) <= maxTrackedBuckets

\* The true bound on what a window grants: Max calls for every life of the
\* bucket.  A bucket that is never evicted and meets no restart grants Max.
GrantsWithinQuota ==
  \A b \in Buckets : granted[b] <= limits[b.action].Max * (losses[b] + 1)

\* A refusal is never premature: the window has granted at least Max calls,
\* whatever was pruned, evicted or lost in the meantime.
RefusedOnlyWhenSpent ==
  reply # <<>> => (~reply[2] => granted[reply[1]] >= limits[reply[1].action].Max)

\* "per-user event-creation limits" (README.md): a window grants a key at most
\* Max calls.  Eviction breaks it: the flood of other keys, or the key's own
\* call at the bound, drops its bucket and with it the count.
PerWindowLimit == \A b \in Buckets : granted[b] <= limits[b.action].Max

\* The limiter is an exact fixed-window quota, but for the running windows that a
\* call at the bound or a restart forgets: prune forgets none of them, and evict
\* no more than it must.
Quota == INSTANCE FixedWindowQuota WITH
  Capacity <- maxTrackedBuckets,
  spent <- [b \in Buckets |->
              IF Expired(b) THEN 0
              ELSE IF counts[b] <= limits[b.action].Max THEN counts[b]
              ELSE limits[b.action].Max]

ImplementsQuota == Quota!Spec
=============================================================================
