-------------------------- MODULE RateLimiterProofs -------------------------
(***************************************************************************)
(* Proofs about RateLimiter for every set of actions, keys and limits.      *)
(*                                                                         *)
(* No bound on granted is inductive without the count beside it.  For a     *)
(* bucket that has not expired, granted lies between min(count, Max) and    *)
(* that plus Max for every earlier loss (CountsExplainGrants); once it has  *)
(* expired its count may be pruned, and only the bound by lives remains.    *)
(***************************************************************************)
EXTENDS RateLimiter, FiniteSetTheorems, TLAPS

Max(b) == limits[b.action].Max
Spent(b) == IF counts[b] < Max(b) THEN counts[b] ELSE Max(b)

CountsExplainGrants ==
  \A b \in Buckets :
    ~Expired(b) => /\ Spent(b) <= granted[b]
                   /\ granted[b] <= Max(b) * losses[b] + Spent(b)

IInv == TypeOK /\ CountsExplainGrants /\ GrantsWithinQuota /\ RefusedOnlyWhenSpent

LEMMA LimitsPositive ==
  ASSUME NEW b \in Buckets
  PROVE  /\ Max(b) \in Nat \ {0}
         /\ limits[b.action].Window \in Nat \ {0}
  BY RateLimiterAssumption DEF Buckets, Max

\* BucketOf names the window the clock is in: it has begun and has not ended.
LEMMA BucketOfIsCurrent ==
  ASSUME TypeOK, NEW action \in DOMAIN limits, NEW key \in Keys
  PROVE  BucketOf(action, key) \in Buckets /\ ~Expired(BucketOf(action, key))
<1> DEFINE w == limits[action].Window
           start == clock - (clock % w)
<1>1. w \in Nat \ {0} /\ clock \in Nat /\ clock <= MaxClock /\ MaxClock \in Nat
  BY RateLimiterAssumption DEF TypeOK
<1>2. clock % w \in 0..(w - 1)
  BY <1>1
<1>3. clock % w <= clock
  BY <1>1
<1>4. start \in 0..MaxClock /\ start + w > clock
  <2> HIDE DEF w
  <2> QED BY <1>1, <1>2, <1>3
<1> QED BY <1>1, <1>4 DEF BucketOf, Buckets, Expired

\* What a call leaves of the map is part of what was there.
LEMMA SurvivorsAreTracked ==
  ASSUME NEW rest \in Survivors
  PROVE  /\ rest \subseteq Tracked
         /\ \A b \in Tracked \ rest : Expired(b) \/ b \in Pruned \ rest
  BY DEF Survivors, Evictions, Pruned

\* A quota for one more life: the only arithmetic that is not linear.
LEMMA OneMoreLife ==
  ASSUME NEW max \in Nat, NEW lost \in Nat
  PROVE  /\ max * (lost + 1) = max * lost + max
         /\ max * lost \in Nat
  OBVIOUS

LEMMA InitIInv == Init => IInv
<1> SUFFICES ASSUME Init PROVE IInv
  OBVIOUS
<1>1. TypeOK
  BY RateLimiterAssumption DEF Init, TypeOK
<1>2. ASSUME NEW b \in Buckets
      PROVE  Spent(b) = 0 /\ Max(b) * losses[b] = 0 /\ Max(b) \in Nat
  BY LimitsPositive DEF Init, Spent
<1>3. CountsExplainGrants
  BY <1>2 DEF CountsExplainGrants, Init
<1>4. GrantsWithinQuota
  BY <1>2 DEF GrantsWithinQuota, Init, Max
<1> QED BY <1>1, <1>3, <1>4 DEF IInv, RefusedOnlyWhenSpent, Init

\* The first and second half of a call: what room-making leaves of a bucket,
\* and what counting adds to the caller's.
LEMMA AllowKeepsIInv ==
  ASSUME IInv, NEW action \in Actions, NEW key \in Keys, Allow(action, key)
  PROVE  IInv'
<1>0. /\ TypeOK /\ action \in DOMAIN limits
      /\ BucketOf(action, key) \in Buckets
      /\ ~Expired(BucketOf(action, key))
  BY BucketOfIsCurrent DEF IInv, Allow
<1>1. PICK b \in Buckets : b = BucketOf(action, key) /\ ~Expired(b)
  BY <1>0
<1>2. PICK rest \in Survivors :
        /\ counts' = [c \in Buckets |-> (IF c \in rest THEN counts[c] ELSE 0)
                                        + (IF c = b THEN 1 ELSE 0)]
        /\ losses' = [c \in Buckets |-> losses[c] +
                        (IF c \in Pruned \ rest THEN 1 ELSE 0)]
  BY <1>1 DEF Allow
<1>3. /\ reply' = <<b, Admits(b, counts'[b])>>
      /\ granted' = IF Admits(b, counts'[b])
                    THEN [granted EXCEPT ![b] = @ + 1] ELSE granted
      /\ clock' = clock
  BY <1>1 DEF Allow
<1>4. TypeOK'
  <2>1. clock' \in 0..MaxClock /\ granted' \in [Buckets -> Nat]
    BY <1>0, <1>3 DEF TypeOK
  <2>2. counts' \in [Buckets -> Nat] /\ losses' \in [Buckets -> Nat]
    BY <1>0, <1>2 DEF TypeOK
  <2>3. Admits(b, counts'[b]) \in BOOLEAN
    BY DEF Admits
  <2>4. reply' \in Buckets \X BOOLEAN
    BY <1>3, <2>3
  <2> QED BY <2>1, <2>2, <2>4 DEF TypeOK
<1>5. ASSUME NEW c \in Buckets
      PROVE  /\ ~Expired(c)' => Spent(c)' <= granted'[c]
             /\ ~Expired(c)' => granted'[c] <= Max(c) * losses'[c] + Spent(c)'
             /\ granted'[c] <= Max(c) * (losses'[c] + 1)
             /\ granted'[c] >= granted[c]
  <2>1. /\ Max(c) \in Nat \ {0} /\ Max(c)' = Max(c)
        /\ losses[c] \in Nat /\ counts[c] \in Nat /\ granted[c] \in Nat
        /\ Expired(c)' = Expired(c)
    BY LimitsPositive, <1>0, <1>3 DEF TypeOK, Max, Expired
  <2>2. /\ Max(c) * losses[c] \in Nat
        /\ Max(c) * (losses[c] + 1) = Max(c) * losses[c] + Max(c)
        /\ Max(c) * (losses[c] + 2) = Max(c) * losses[c] + Max(c) + Max(c)
    BY <2>1, OneMoreLife
  <2>3. /\ ~Expired(c) => /\ Spent(c) <= granted[c]
                          /\ granted[c] <= Max(c) * losses[c] + Spent(c)
        /\ granted[c] <= Max(c) * losses[c] + Max(c)
    BY <2>2 DEF IInv, CountsExplainGrants, GrantsWithinQuota, Max
  <2>4. \/ counts[c] = 0
        \/ c \in rest /\ c \notin Pruned \ rest
        \/ c \notin rest /\ Expired(c)
        \/ c \notin rest /\ c \in Pruned \ rest
    BY <2>1, SurvivorsAreTracked DEF Tracked
  <2>5. CASE c = b
    <3>1. ~Expired(c) /\ ~Expired(c)'
      BY <1>1, <2>1, <2>5
    <3>2. granted'[c] = IF Admits(c, counts'[c]) THEN granted[c] + 1 ELSE granted[c]
      BY <1>0, <1>3, <2>5 DEF TypeOK
    <3>3. \/ counts'[c] = counts[c] + 1 /\ losses'[c] = losses[c]
          \/ counts'[c] = 1 /\ losses'[c] = losses[c] + 1
      BY <1>2, <2>1, <2>4, <2>5, <3>1 DEF Pruned, Tracked
    <3>4. Spent(c)' = IF counts'[c] < Max(c) THEN counts'[c] ELSE Max(c)
      BY <2>1 DEF Spent
    <3>5. Admits(c, counts'[c]) <=> counts'[c] <= Max(c)
      BY DEF Admits, Max
    <3>6. CASE counts'[c] = counts[c] + 1 /\ losses'[c] = losses[c]
      BY <2>1, <2>2, <2>3, <3>1, <3>2, <3>4, <3>5, <3>6 DEF Spent
    <3>7. CASE counts'[c] = 1 /\ losses'[c] = losses[c] + 1
      BY <2>1, <2>2, <2>3, <3>1, <3>2, <3>4, <3>5, <3>7 DEF Spent
    <3> QED BY <3>3, <3>6, <3>7
  <2>6. CASE c # b
    <3>1. granted'[c] = granted[c]
      BY <1>0, <1>3, <2>6 DEF TypeOK
    <3>2. \/ counts'[c] = counts[c] /\ losses'[c] = losses[c]
          \/ Expired(c) /\ losses'[c] = losses[c]
          \/ counts'[c] = 0 /\ losses'[c] = losses[c] + 1
      BY <1>2, <2>1, <2>4, <2>6 DEF Pruned, Tracked
    <3>3. Spent(c)' = IF counts'[c] < Max(c) THEN counts'[c] ELSE Max(c)
      BY <2>1 DEF Spent
    <3> QED BY <2>1, <2>2, <2>3, <3>1, <3>2, <3>3 DEF Spent
  <2> QED BY <2>5, <2>6
<1>6. CountsExplainGrants' /\ GrantsWithinQuota'
  BY <1>5 DEF CountsExplainGrants, GrantsWithinQuota, Max, Buckets
<1>7. RefusedOnlyWhenSpent'
  <2>1. Max(b) \in Nat \ {0} /\ counts'[b] \in Nat /\ granted'[b] \in Nat
    BY <1>1, <1>4, LimitsPositive DEF TypeOK
  <2>2. Spent(b)' <= granted'[b]
    BY <1>1, <1>3, <1>5 DEF Expired
  <2>3. ~Admits(b, counts'[b]) => granted'[b] >= Max(b)
    BY <2>1, <2>2 DEF Admits, Spent, Max
  <2> QED BY <1>3, <2>3 DEF RefusedOnlyWhenSpent, Max
<1> QED BY <1>4, <1>6, <1>7 DEF IInv

LEMMA RestartKeepsIInv == ASSUME IInv, Restart PROVE IInv'
<1>1. TypeOK /\ clock' = clock /\ granted' = granted /\ reply' = reply
  BY DEF IInv, Restart
<1>2. TypeOK'
  BY <1>1 DEF Restart, TypeOK
<1>3. ASSUME NEW c \in Buckets
      PROVE  /\ ~Expired(c)' => Spent(c)' <= granted'[c]
             /\ ~Expired(c)' => granted'[c] <= Max(c) * losses'[c] + Spent(c)'
             /\ granted'[c] <= Max(c) * (losses'[c] + 1)
  <2>1. /\ Max(c) \in Nat \ {0} /\ Max(c)' = Max(c)
        /\ losses[c] \in Nat /\ counts[c] \in Nat /\ granted[c] \in Nat
        /\ Expired(c)' = Expired(c)
    BY LimitsPositive, <1>1 DEF TypeOK, Max, Expired
  <2>2. /\ Max(c) * losses[c] \in Nat
        /\ Max(c) * (losses[c] + 1) = Max(c) * losses[c] + Max(c)
        /\ Max(c) * (losses[c] + 2) = Max(c) * losses[c] + Max(c) + Max(c)
    BY <2>1, OneMoreLife
  <2>3. /\ ~Expired(c) => /\ Spent(c) <= granted[c]
                          /\ granted[c] <= Max(c) * losses[c] + Spent(c)
        /\ granted[c] <= Max(c) * losses[c] + Max(c)
    BY <2>2 DEF IInv, CountsExplainGrants, GrantsWithinQuota, Max
  <2>4. /\ Spent(c)' = 0
        /\ losses'[c] = losses[c] + (IF c \in Pruned THEN 1 ELSE 0)
    BY <2>1 DEF Restart, Spent
  <2>5. c \in Pruned \/ counts[c] = 0 \/ Expired(c)
    BY <2>1 DEF Pruned, Tracked
  <2>6. CASE c \in Pruned
    BY <1>1, <2>1, <2>2, <2>3, <2>4, <2>6 DEF Spent
  <2>7. CASE c \notin Pruned
    BY <1>1, <2>1, <2>2, <2>3, <2>4, <2>5, <2>7 DEF Spent
  <2> QED BY <2>6, <2>7
<1>4. CountsExplainGrants' /\ GrantsWithinQuota'
  BY <1>3 DEF CountsExplainGrants, GrantsWithinQuota, Max, Buckets
<1>5. RefusedOnlyWhenSpent'
  BY <1>1 DEF IInv, RefusedOnlyWhenSpent
<1> QED BY <1>2, <1>4, <1>5 DEF IInv

LEMMA TickKeepsIInv == ASSUME IInv, Tick PROVE IInv'
<1>1. TypeOK /\ UNCHANGED <<counts, granted, losses, reply>>
  BY DEF IInv, Tick
<1>2. TypeOK'
  BY <1>1, RateLimiterAssumption DEF Tick, TypeOK
<1>3. ASSUME NEW c \in Buckets, ~Expired(c)'
      PROVE  ~Expired(c) /\ Spent(c)' = Spent(c)
  <2>1. /\ c.windowStart \in Nat /\ limits[c.action].Window \in Nat
        /\ clock \in Nat /\ clock' = clock + 1
    BY <1>1, LimitsPositive DEF Buckets, Tick, TypeOK
  <2> QED BY <1>1, <1>3, <2>1 DEF Expired, Spent, Max
<1>4. CountsExplainGrants'
  BY <1>1, <1>3 DEF IInv, CountsExplainGrants, Max, Buckets
<1>5. GrantsWithinQuota' /\ RefusedOnlyWhenSpent'
  BY <1>1 DEF IInv, GrantsWithinQuota, RefusedOnlyWhenSpent, Buckets
<1> QED BY <1>2, <1>4, <1>5 DEF IInv

LEMMA StutterKeepsIInv == ASSUME IInv, UNCHANGED vars PROVE IInv'
<1>1. /\ clock' = clock /\ counts' = counts /\ granted' = granted
      /\ losses' = losses /\ reply' = reply
  BY DEF vars
<1>2. TypeOK' /\ GrantsWithinQuota' /\ RefusedOnlyWhenSpent'
  BY <1>1 DEF IInv, TypeOK, GrantsWithinQuota, RefusedOnlyWhenSpent, Buckets
<1>3. CountsExplainGrants'
  BY <1>1 DEF IInv, CountsExplainGrants, Expired, Spent, Max, Buckets
<1> QED BY <1>2, <1>3 DEF IInv

LEMMA NextKeepsIInv == IInv /\ [Next]_vars => IInv'
<1> SUFFICES ASSUME IInv, [Next]_vars PROVE IInv'
  OBVIOUS
<1>1. ASSUME NEW action \in Actions, NEW key \in Keys, Allow(action, key)
      PROVE  IInv'
  BY <1>1, AllowKeepsIInv
<1>2. ASSUME NEW action \in Actions, AllowUnlimited(action) PROVE IInv'
  BY <1>2, StutterKeepsIInv DEF AllowUnlimited
<1>3. CASE Tick
  BY <1>3, TickKeepsIInv
<1>4. CASE Restart
  BY <1>4, RestartKeepsIInv
<1>5. CASE UNCHANGED vars
  BY <1>5, StutterKeepsIInv
<1> QED BY <1>1, <1>2, <1>3, <1>4, <1>5 DEF Next

\* Every reachable state is well typed, whatever the limits, keys and clock.
THEOREM TypeCorrect == Spec => []TypeOK
<1>1. Spec => []IInv
  BY InitIInv, NextKeepsIInv, PTL DEF Spec
<1>2. IInv => TypeOK
  BY DEF IInv
<1> QED BY <1>1, <1>2, PTL

\* Allow grants a window at most Max calls for each life of its bucket, so at
\* most Max when it is never evicted and no restart loses it.
THEOREM QuotaByLives == Spec => []GrantsWithinQuota
<1>1. Spec => []IInv
  BY InitIInv, NextKeepsIInv, PTL DEF Spec
<1>2. IInv => GrantsWithinQuota
  BY DEF IInv
<1> QED BY <1>1, <1>2, PTL

\* Allow refuses a call only after the window has granted Max calls.
THEOREM NeverRefusedEarly == Spec => []RefusedOnlyWhenSpent
<1>1. Spec => []IInv
  BY InitIInv, NextKeepsIInv, PTL DEF Spec
<1>2. IInv => RefusedOnlyWhenSpent
  BY DEF IInv
<1> QED BY <1>1, <1>2, PTL
-----------------------------------------------------------------------------
(***************************************************************************)
(* The map's bound.  It needs the room-making arithmetic of evict only: a   *)
(* call leaves at most maxTrackedBuckets - 1 buckets and adds at most one.  *)
(***************************************************************************)
BInv == TypeOK /\ IsFiniteSet(Tracked) /\ TrackedBounded

LEMMA RoomForOneMore ==
  ASSUME IsFiniteSet(Tracked), TrackedBounded, NEW rest \in Survivors
  PROVE  IsFiniteSet(rest) /\ Cardinality(rest) < maxTrackedBuckets
<1>1. maxTrackedBuckets \in Nat \ {0} /\ Cardinality(Tracked) \in Nat
  BY RateLimiterAssumption, FS_CardinalityType
<1>2. CASE Cardinality(Tracked) < maxTrackedBuckets
  BY <1>1, <1>2 DEF Survivors
<1>3. CASE Cardinality(Tracked) >= maxTrackedBuckets
  <2>1. rest \subseteq Pruned /\ Pruned \subseteq Tracked
    BY <1>1, <1>3 DEF Survivors, Evictions, Pruned
  <2>2. IsFiniteSet(Pruned) /\ IsFiniteSet(rest) /\ IsFiniteSet(Pruned \ rest)
    BY <2>1, FS_Subset
  <2>3. /\ Cardinality(Pruned) \in Nat /\ Cardinality(rest) \in Nat
        /\ Cardinality(Pruned \ rest) \in Nat
    BY <2>2, FS_CardinalityType
  <2>4. Cardinality(Pruned) = Cardinality(rest) + Cardinality(Pruned \ rest)
    <3>1. /\ Pruned \cap rest = rest
          /\ Cardinality(Pruned \ rest)
               = Cardinality(Pruned) - Cardinality(Pruned \cap rest)
      BY <2>1, <2>2, FS_Difference
    <3> QED BY <2>3, <3>1
  <2>5. Cardinality(Pruned \ rest) =
          IF Cardinality(Pruned) < maxTrackedBuckets
          THEN 0 ELSE Cardinality(Pruned) - maxTrackedBuckets + 1
    BY <1>1, <1>3 DEF Survivors, Evictions
  <2> QED BY <1>1, <2>2, <2>3, <2>4, <2>5
<1> QED BY <1>1, <1>2, <1>3

LEMMA AllowKeepsBound ==
  ASSUME BInv, NEW action \in Actions, NEW key \in Keys, Allow(action, key)
  PROVE  IsFiniteSet(Tracked)' /\ TrackedBounded'
<1>1. PICK rest \in Survivors :
        counts' = [c \in Buckets |-> (IF c \in rest THEN counts[c] ELSE 0)
                     + (IF c = BucketOf(action, key) THEN 1 ELSE 0)]
  BY DEF Allow
<1> DEFINE grown == rest \cup {BucketOf(action, key)}
<1>2. IsFiniteSet(rest) /\ Cardinality(rest) < maxTrackedBuckets
  BY RoomForOneMore DEF BInv
<1>3. IsFiniteSet(grown) /\ Cardinality(grown) <= maxTrackedBuckets
  <2>1. IsFiniteSet(grown) /\ (Cardinality(grown) = Cardinality(rest)
                               \/ Cardinality(grown) = Cardinality(rest) + 1)
    BY <1>2, FS_AddElement
  <2> QED BY <1>2, <2>1, FS_CardinalityType, RateLimiterAssumption
<1>4. Tracked' \subseteq grown
  BY <1>1 DEF Tracked, Buckets
<1> HIDE DEF grown
<1>5. IsFiniteSet(Tracked') /\ Cardinality(Tracked') <= Cardinality(grown)
  BY <1>3, <1>4, FS_Subset
<1> QED
  BY <1>3, <1>5, FS_CardinalityType, RateLimiterAssumption DEF TrackedBounded

LEMMA BInvariant == Spec => []BInv
<1>1. Init => IsFiniteSet(Tracked) /\ TrackedBounded
  <2> SUFFICES ASSUME Init PROVE IsFiniteSet(Tracked) /\ TrackedBounded
    OBVIOUS
  <2>1. Tracked = {}
    BY DEF Init, Tracked
  <2> QED BY <2>1, FS_EmptySet, RateLimiterAssumption DEF TrackedBounded
<1>2. BInv /\ [Next]_vars => IsFiniteSet(Tracked)' /\ TrackedBounded'
  <2> SUFFICES ASSUME BInv, [Next]_vars
               PROVE  IsFiniteSet(Tracked)' /\ TrackedBounded'
    OBVIOUS
  <2>1. ASSUME NEW action \in Actions, NEW key \in Keys, Allow(action, key)
        PROVE  IsFiniteSet(Tracked)' /\ TrackedBounded'
    BY <2>1, AllowKeepsBound
  <2>2. ASSUME counts' = counts PROVE IsFiniteSet(Tracked)' /\ TrackedBounded'
    BY <2>2 DEF BInv, Tracked, TrackedBounded, Buckets
  <2>3. CASE Restart
    <3>1. Tracked' = {}
      BY <2>3 DEF Restart, Tracked, Buckets
    <3> QED BY <3>1, FS_EmptySet, RateLimiterAssumption DEF TrackedBounded
  <2> QED BY <2>1, <2>2, <2>3 DEF Next, AllowUnlimited, Tick, vars
<1> QED BY <1>1, <1>2, TypeCorrect, PTL DEF Spec, BInv

\* The bucket map never holds more than maxTrackedBuckets entries: memory is
\* bounded whatever the flood of keys (rate_limiter_test.go floods it).
THEOREM MapBounded == Spec => []TrackedBounded
<1>1. BInv => TrackedBounded
  BY DEF BInv
<1> QED BY <1>1, BInvariant, PTL
-----------------------------------------------------------------------------
(***************************************************************************)
(* RateLimiter implements FixedWindowQuota.  A running window of the quota  *)
(* is a bucket that has been counted and has not expired, so what prune     *)
(* drops is nothing the quota remembers, and what evict drops is what the   *)
(* quota may forget.  Calls beyond Max are counted, but spend nothing.      *)
(***************************************************************************)
spent == [b \in Buckets |->
            IF Expired(b) THEN 0
            ELSE IF counts[b] <= limits[b.action].Max THEN counts[b]
            ELSE limits[b.action].Max]

LEMMA SpentIs ==
  ASSUME TypeOK
  PROVE  /\ Quota!Slots = Buckets /\ Quota!Running = Pruned
         /\ \A b \in Buckets : spent[b] = IF Expired(b) THEN 0 ELSE Spent(b)
<1>1. Quota!Slots = Buckets
  BY DEF Quota!Slots, Buckets
<1>2. ASSUME NEW b \in Buckets PROVE spent[b] = IF Expired(b) THEN 0 ELSE Spent(b)
  BY LimitsPositive DEF spent, Spent, Max, TypeOK
<1>3. ASSUME NEW b \in Buckets PROVE spent[b] > 0 <=> b \in Pruned
  BY <1>2, LimitsPositive DEF Pruned, Tracked, Spent, TypeOK
<1>4. Quota!Running = {b \in Buckets : spent[b] > 0}
  BY <1>1 DEF Quota!Running, spent
<1>5. Pruned \subseteq Buckets
  BY DEF Pruned, Tracked
<1> HIDE DEF spent
<1> QED BY <1>1, <1>2, <1>3, <1>4, <1>5

\* now.Truncate rounds down to a whole number of windows.
LEMMA SlotIs ==
  ASSUME TypeOK, NEW action \in DOMAIN limits, NEW key
  PROVE  Quota!Slot(action, key) = BucketOf(action, key)
<1>1. limits[action].Window \in Nat \ {0} /\ clock \in Nat
  BY RateLimiterAssumption DEF TypeOK
<1>2. ASSUME NEW w \in Nat \ {0}, NEW t \in Nat PROVE (t \div w) * w = t - (t % w)
  OBVIOUS
<1>3. (clock \div limits[action].Window) * limits[action].Window
        = clock - (clock % limits[action].Window)
  BY <1>1, <1>2
<1> QED BY <1>3 DEF Quota!Slot, BucketOf

LEMMA CardinalityIs ==
  ASSUME NEW S
  PROVE  Quota!Cardinality(S) = Cardinality(S)
  BY DEF Quota!Cardinality, Cardinality, Quota!IsFiniteSet, IsFiniteSet

\* Evict forgets no running window before there are maxTrackedBuckets of them, and
\* then as many as make room for one.
LEMMA SurvivorsAreRemembered ==
  ASSUME BInv, NEW rest \in Survivors
  PROVE  rest \cap Pruned \in Quota!Remembered
<1> DEFINE left == rest \cap Pruned
<1>1. /\ Pruned \subseteq Tracked /\ IsFiniteSet(Tracked) /\ IsFiniteSet(Pruned)
      /\ Cardinality(Pruned) \in Nat /\ Cardinality(Tracked) \in Nat
      /\ Cardinality(Pruned) <= Cardinality(Tracked) /\ maxTrackedBuckets \in Nat \ {0}
  BY FS_Subset, FS_CardinalityType, RateLimiterAssumption DEF BInv, Pruned
<1>2. IF Cardinality(Pruned) < maxTrackedBuckets
      THEN left = Pruned ELSE Cardinality(left) + 1 = maxTrackedBuckets
  <2>1. CASE Cardinality(Tracked) < maxTrackedBuckets
    BY <1>1, <2>1 DEF Survivors
  <2>2. CASE Cardinality(Tracked) >= maxTrackedBuckets
    <3>1. /\ rest \subseteq Pruned /\ left = rest /\ IsFiniteSet(rest)
          /\ IsFiniteSet(Pruned \ rest) /\ Cardinality(rest) \in Nat
      BY <1>1, <2>2, FS_Subset, FS_CardinalityType DEF Survivors, Evictions
    <3>2. Cardinality(Pruned \ rest) = IF Cardinality(Pruned) < maxTrackedBuckets
            THEN 0 ELSE Cardinality(Pruned) - maxTrackedBuckets + 1
      BY <1>1, <2>2 DEF Survivors, Evictions
    <3>3. Cardinality(Pruned \ rest) = Cardinality(Pruned) - Cardinality(rest)
      <4>1. Pruned \cap rest = rest
        BY <3>1
      <4> QED BY <1>1, <4>1, FS_Difference
    <3>4. CASE Cardinality(Pruned) < maxTrackedBuckets
      <4>1. Pruned \ rest = {}
        BY <3>1, <3>2, <3>4, FS_EmptySet
      <4> QED BY <3>1, <3>4, <4>1
    <3>5. CASE ~(Cardinality(Pruned) < maxTrackedBuckets)
      <4>1. Cardinality(rest) + 1 = maxTrackedBuckets
        BY <1>1, <3>1, <3>2, <3>3, <3>5
      <4>2. Cardinality(left) = Cardinality(rest)
        BY <3>1
      <4> HIDE DEF left
      <4> QED BY <3>5, <4>1, <4>2
    <3> QED BY <3>4, <3>5
  <2> QED BY <1>1, <2>1, <2>2
<1>3. Quota!Running = Pruned
  BY SpentIs DEF BInv
<1> HIDE DEF left
<1>4. left \in SUBSET Pruned
  BY DEF left
<1>5. Quota!Remembered = {x \in SUBSET Pruned :
        IF Cardinality(Pruned) < maxTrackedBuckets
        THEN x = Pruned ELSE Cardinality(x) + 1 = maxTrackedBuckets}
  BY <1>3, CardinalityIs DEF Quota!Remembered
<1> QED BY <1>2, <1>4, <1>5 DEF left

Kept(left) == [c \in Buckets |-> IF c \in left THEN spent[c] ELSE 0]

\* A call in numbers: what it leaves of each bucket, and its own.
LEMMA AllowCounts ==
  ASSUME BInv, NEW action \in Actions, NEW key \in Keys, Allow(action, key),
         NEW b, b = BucketOf(action, key)
  PROVE  \E left \in Quota!Remembered :
           \/ /\ Kept(left)[b] < Max(b) /\ reply' = <<b, TRUE>>
              /\ spent' = [Kept(left) EXCEPT ![b] = @ + 1]
           \/ /\ Kept(left)[b] = Max(b) /\ reply' = <<b, FALSE>>
              /\ spent' = Kept(left)
<1>1. TypeOK /\ b \in Buckets /\ ~Expired(b) /\ clock' = clock
  BY BucketOfIsCurrent DEF BInv, Allow
<1>2. PICK rest \in Survivors :
        counts' = [c \in Buckets |-> (IF c \in rest THEN counts[c] ELSE 0)
                                      + (IF c = b THEN 1 ELSE 0)]
  BY DEF Allow
<1>3. reply' = <<b, Admits(b, counts'[b])>>
  BY DEF Allow
<1> DEFINE left == rest \cap Pruned
           kept == Kept(left)
<1>4. rest \subseteq Tracked /\ left \in Quota!Remembered
  BY SurvivorsAreTracked, SurvivorsAreRemembered
<1>5. ASSUME NEW c \in Buckets
      PROVE  /\ Max(c) \in Nat \ {0} /\ counts[c] \in Nat
             /\ kept[c] = IF Expired(c) \/ c \notin rest THEN 0 ELSE Spent(c)
             /\ spent'[c] = IF Expired(c) THEN 0
                            ELSE IF counts'[c] <= Max(c) THEN counts'[c] ELSE Max(c)
  <2>1. Max(c) \in Nat \ {0} /\ counts[c] \in Nat
    BY <1>1, LimitsPositive DEF TypeOK
  <2>2. kept[c] = IF Expired(c) \/ c \notin rest THEN 0 ELSE Spent(c)
    <3>1. spent[c] = IF Expired(c) THEN 0 ELSE Spent(c)
      BY <1>1, SpentIs
    <3> HIDE DEF spent
    <3> QED BY <1>4, <3>1 DEF Pruned, Kept
  <2>3. Expired(c)' = Expired(c)
    BY <1>1 DEF Expired
  <2> QED BY <2>1, <2>2, <2>3 DEF spent, Max
<1>6. DOMAIN spent' = Buckets /\ spent' = [c \in Buckets |-> spent'[c]]
  BY DEF spent, Buckets
<1> HIDE DEF spent, left, kept
<1>7. ASSUME NEW c \in Buckets, c # b PROVE spent'[c] = kept[c]
  BY <1>2, <1>5, <1>7 DEF Spent
<1>8. Admits(b, counts'[b]) <=> counts'[b] <= Max(b)
  BY DEF Admits, Max
<1>9. counts'[b] = (IF b \in rest THEN counts[b] ELSE 0) + 1
  BY <1>1, <1>2
<1>10. /\ Max(b) \in Nat \ {0} /\ counts[b] \in Nat
       /\ kept[b] = IF b \in rest THEN Spent(b) ELSE 0
       /\ spent'[b] = IF counts'[b] <= Max(b) THEN counts'[b] ELSE Max(b)
  BY <1>1, <1>5
<1>11. DOMAIN kept = Buckets /\ kept = [c \in Buckets |-> kept[c]]
  BY DEF kept, Kept
<1>12. CASE counts'[b] <= Max(b)
  <2>1. kept[b] < Max(b) /\ spent'[b] = kept[b] + 1
    BY <1>9, <1>10, <1>12 DEF Spent
  <2>2. spent' = [kept EXCEPT ![b] = @ + 1]
    BY <1>6, <1>7, <1>11, <2>1
  <2> QED BY <1>3, <1>4, <1>8, <1>12, <2>1, <2>2 DEF kept
<1>13. CASE ~(counts'[b] <= Max(b))
  <2>1. kept[b] = Max(b) /\ spent'[b] = kept[b]
    BY <1>9, <1>10, <1>13 DEF Spent
  <2>2. spent' = kept
    BY <1>6, <1>7, <1>11, <2>1
  <2>3. reply' = <<b, FALSE>>
    <3>1. Admits(b, counts'[b]) \in BOOLEAN
      BY DEF Admits
    <3> QED BY <1>3, <1>8, <1>13, <3>1
  <2> QED BY <1>4, <2>1, <2>2, <2>3 DEF kept
<1> QED BY <1>12, <1>13

LEMMA AllowMaps ==
  ASSUME BInv, NEW action \in Actions, NEW key \in Keys, Allow(action, key)
  PROVE  Quota!Next
<1> DEFINE b == BucketOf(action, key)
<1>1. TypeOK /\ action \in DOMAIN limits /\ b = Quota!Slot(action, key) /\ clock' = clock
      /\ Quota!Slots = Buckets /\ b \in Buckets
  BY SlotIs, SpentIs, BucketOfIsCurrent DEF BInv, Allow
<1>2. PICK left \in Quota!Remembered :
        \/ /\ Quota!Kept(left)[b] < limits[b.action].Max /\ reply' = <<b, TRUE>>
           /\ spent' = [Quota!Kept(left) EXCEPT ![b] = @ + 1]
        \/ /\ Quota!Kept(left)[b] = limits[b.action].Max /\ reply' = <<b, FALSE>>
           /\ spent' = Quota!Kept(left)
  <2>1. \A left : Quota!Kept(left) = Kept(left)
    BY <1>1 DEF Quota!Kept, Kept, spent
  <2>2. Max(b) = limits[b.action].Max
    BY DEF Max
  <2> QED BY <2>1, <2>2, AllowCounts
<1>3. Quota!Grant(Quota!Slot(action, key)) \/ Quota!Refuse(Quota!Slot(action, key))
  <2> HIDE DEF b
  <2> QED
    BY <1>1, <1>2 DEF Quota!Grant, Quota!Refuse, Quota!Spend, Quota!Overdraw, spent
<1> QED BY <1>1, <1>3 DEF Quota!Next

LEMMA TickAndRestartMap ==
  ASSUME TypeOK
  PROVE  /\ Tick => Quota!Tick
         /\ Restart => Quota!Restart
<1>1. Quota!Slots = Buckets
  BY SpentIs
<1>2. ASSUME Tick PROVE Quota!Tick
  <2>1. clock \in Nat /\ clock' = clock + 1 /\ UNCHANGED <<counts, reply>>
    BY <1>2, RateLimiterAssumption DEF Tick, TypeOK
  <2>2. ASSUME NEW b \in Buckets
        PROVE  /\ Expired(b)' <=> b.windowStart + limits[b.action].Window <= clock + 1
               /\ Expired(b) => Expired(b)'
    BY <2>1, LimitsPositive, RateLimiterAssumption DEF Expired, Buckets
  <2>3. spent' = [b \in Buckets |-> IF b.windowStart + limits[b.action].Window <= clock + 1
                                    THEN 0 ELSE spent[b]]
    BY <2>1, <2>2 DEF spent, Buckets
  <2> QED BY <1>1, <2>1, <2>3 DEF Quota!Tick, spent
<1>3. ASSUME Restart PROVE Quota!Restart
  <2>1. counts' = [b \in Buckets |-> 0] /\ UNCHANGED <<clock, reply>>
    BY <1>3 DEF Restart
  <2>2. spent' = [b \in Buckets |-> 0]
    <3>1. ASSUME NEW b \in Buckets PROVE 0 <= limits[b.action].Max
      BY LimitsPositive DEF Max
    <3> QED BY <2>1, <3>1 DEF spent, Buckets
  <2> QED BY <1>1, <2>1, <2>2 DEF Quota!Restart, spent
<1> QED BY <1>2, <1>3

\* Allow is an exact fixed-window quota with a bounded memory that a restart empties:
\* the map, prune and evict do not show in any answer, but for what evict forgets.
THEOREM QuotaImplemented == Spec => ImplementsQuota
<1>1. Init => Quota!Init
  <2>1. ASSUME Init PROVE spent = [b \in Buckets |-> 0] /\ Quota!Slots = Buckets
    <3>1. ASSUME NEW b \in Buckets PROVE 0 <= limits[b.action].Max
      BY LimitsPositive DEF Max
    <3> QED BY <2>1, <3>1 DEF Init, spent, Buckets, Quota!Slots
  <2> QED BY <2>1 DEF Init, Quota!Init, spent
<1>2. BInv /\ [Next]_vars => [Quota!Next]_<<clock, spent, reply>>
  <2> SUFFICES ASSUME BInv, [Next]_vars
               PROVE  Quota!Next \/ UNCHANGED <<clock, spent, reply>>
    OBVIOUS
  <2>1. ASSUME UNCHANGED vars PROVE UNCHANGED <<clock, spent, reply>>
    BY <2>1 DEF vars, spent, Expired, Buckets
  <2> QED
    BY <2>1, AllowMaps, TickAndRestartMap DEF BInv, Next, AllowUnlimited, Quota!Next
<1> QED
  BY <1>1, <1>2, BInvariant, PTL DEF Spec, ImplementsQuota, Quota!Spec, spent
-----------------------------------------------------------------------------
(***************************************************************************)
(* When the limit per window is exact.  PerWindowLimit is violated by what  *)
(* evict and a restart forget, and by nothing else: as long as fewer than   *)
(* maxTrackedBuckets windows run at a time (Roomy) and the process does not *)
(* restart, no bucket is lost.  Expired buckets do not count, although they *)
(* may fill the map: prune goes first.                                      *)
(***************************************************************************)
Roomy == Cardinality(Pruned) < maxTrackedBuckets

NothingLost == \A b \in Buckets : losses[b] = 0

LEMMA RoomyLosesNothing ==
  ASSUME BInv, NothingLost, Roomy, [Next]_vars, [~Restart]_vars
  PROVE  NothingLost'
<1>1. ASSUME losses' = losses PROVE NothingLost'
  BY <1>1 DEF NothingLost, Buckets
<1>2. ASSUME NEW action \in Actions, NEW key \in Keys, Allow(action, key)
      PROVE  NothingLost'
  <2>1. PICK rest \in Survivors :
          losses' = [c \in Buckets |-> losses[c] + (IF c \in Pruned \ rest THEN 1 ELSE 0)]
    BY <1>2 DEF Allow
  <2>2. IsFiniteSet(Pruned) /\ IsFiniteSet(Pruned \ rest)
    <3>1. Pruned \subseteq Tracked /\ Pruned \ rest \subseteq Pruned
      BY DEF Pruned
    <3> QED BY <3>1, FS_Subset DEF BInv
  <2>3. Pruned \ rest = {}
    <3>1. CASE Cardinality(Tracked) >= maxTrackedBuckets
      <4>1. Cardinality(Pruned \ rest) = 0
        BY <3>1 DEF Survivors, Evictions, Roomy
      <4> QED BY <2>2, <4>1, FS_EmptySet
    <3>2. CASE ~(Cardinality(Tracked) >= maxTrackedBuckets)
      BY <3>2 DEF Survivors, Pruned
    <3> QED BY <3>1, <3>2
  <2>4. \A c \in Buckets : losses'[c] = 0
    BY <2>1, <2>3 DEF NothingLost
  <2> QED BY <2>4 DEF NothingLost, Buckets
<1> QED BY <1>1, <1>2 DEF Next, AllowUnlimited, Tick, vars

\* While fewer than maxTrackedBuckets windows run at a time and the process does not
\* restart, Allow grants a key at most Max calls of an action in a window.
THEOREM ExactWhileRoomy == Spec /\ []Roomy /\ [][~Restart]_vars => []PerWindowLimit
<1>1. Init => NothingLost
  BY DEF Init, NothingLost
<1>2. BInv /\ NothingLost /\ Roomy /\ [Next]_vars /\ [~Restart]_vars => NothingLost'
  BY RoomyLosesNothing
<1>3. TypeOK /\ GrantsWithinQuota /\ NothingLost => PerWindowLimit
  <2> SUFFICES ASSUME TypeOK, GrantsWithinQuota, NothingLost, NEW b \in Buckets
               PROVE  granted[b] <= limits[b.action].Max
    BY DEF PerWindowLimit
  <2>1. limits[b.action].Max * (0 + 1) = limits[b.action].Max
    BY LimitsPositive DEF Max
  <2>2. granted[b] <= limits[b.action].Max * (0 + 1)
    BY DEF GrantsWithinQuota, NothingLost
  <2> QED BY <2>1, <2>2
<1> QED BY <1>1, <1>2, <1>3, BInvariant, TypeCorrect, QuotaByLives, PTL DEF Spec

\* A counted bucket is of the window its key is in, or of one that is over: the clock
\* leaves a window and the bucket expires in the same second.
OneRunningWindow ==
  \A b \in Tracked : Expired(b) \/ b = BucketOf(b.action, b.key)

LEMMA Division ==
  ASSUME NEW w \in Nat \ {0}, NEW t \in Nat
  PROVE  t \div w \in Nat /\ (t \div w) * w = t - (t % w) /\ t % w \in 0..(w - 1)
  OBVIOUS

LEMMA WindowsDoNotOverlap ==
  ASSUME NEW w \in Nat \ {0}, NEW t \in Nat, (t - (t % w)) + w > t + 1
  PROVE  (t + 1) - ((t + 1) % w) = t - (t % w)
<1> DEFINE q == t \div w
           r == (t + 1) \div w
<1>1. /\ q \in Nat /\ q * w = t - (t % w) /\ t % w \in 0..(w - 1)
      /\ r \in Nat /\ r * w = (t + 1) - ((t + 1) % w) /\ (t + 1) % w \in 0..(w - 1)
  BY Division, t + 1 \in Nat
<1> HIDE DEF q, r
<1>2. \A i, j \in Nat : i < j => i * w + w <= j * w
  <2> SUFFICES ASSUME NEW i \in Nat, NEW j \in Nat, i < j PROVE i * w + w <= j * w
    OBVIOUS
  <2>1. PICK d \in Nat : j = i + 1 + d
    <3>1. j - i - 1 \in Nat /\ j = i + 1 + (j - i - 1)
      OBVIOUS
    <3> QED BY <3>1
  <2>2. j * w = i * w + w + d * w /\ d * w \in Nat /\ i * w \in Nat
    BY <2>1
  <2> QED BY <2>2
<1>3. q * w \in Nat /\ r * w \in Nat /\ t % w \in Nat /\ (t + 1) % w \in Nat
  BY <1>1
<1>4. ~(q < r)
  BY <1>1, <1>2, <1>3
<1>5. ~(r < q)
  BY <1>1, <1>2, <1>3
<1>6. q = r
  BY <1>1, <1>4, <1>5
<1> QED BY <1>1, <1>6

LEMMA OneWindowRuns == Spec => []OneRunningWindow
<1>1. Init => OneRunningWindow
  BY DEF Init, OneRunningWindow, Tracked
<1>2. TypeOK /\ OneRunningWindow /\ [Next]_vars => OneRunningWindow'
  <2> SUFFICES ASSUME TypeOK, OneRunningWindow, [Next]_vars, NEW c \in Tracked'
               PROVE  Expired(c)' \/ c = BucketOf(c.action, c.key)'
    BY DEF OneRunningWindow
  <2>1. c \in Buckets
    BY DEF Tracked, Buckets
  <2>2. ASSUME clock' = clock, c \in Tracked
        PROVE  Expired(c)' \/ c = BucketOf(c.action, c.key)'
    BY <2>2 DEF OneRunningWindow, Expired, BucketOf
  <2>3. ASSUME NEW action \in Actions, NEW key \in Keys, Allow(action, key)
        PROVE  Expired(c)' \/ c = BucketOf(c.action, c.key)'
    <3>1. PICK rest \in Survivors :
            counts' = [d \in Buckets |-> (IF d \in rest THEN counts[d] ELSE 0)
                         + (IF d = BucketOf(action, key) THEN 1 ELSE 0)]
      BY <2>3 DEF Allow
    <3>2. clock' = clock
      BY <2>3 DEF Allow
    <3>3. c \in rest \/ c = BucketOf(action, key)
      BY <2>1, <3>1 DEF Tracked
    <3>4. CASE c \in rest
      BY <2>2, <3>2, <3>4, SurvivorsAreTracked
    <3>5. CASE c = BucketOf(action, key)
      BY <3>2, <3>5 DEF BucketOf
    <3> QED BY <3>3, <3>4, <3>5
  <2>4. CASE Tick
    <3>1. clock' = clock + 1 /\ clock \in Nat /\ c \in Tracked
      BY <2>4, RateLimiterAssumption DEF Tick, TypeOK, Tracked, Buckets
    <3>2. CASE Expired(c)
      <4>1. c.windowStart \in Nat /\ limits[c.action].Window \in Nat
        BY <2>1, LimitsPositive, RateLimiterAssumption DEF Buckets
      <4> QED BY <3>1, <3>2, <4>1 DEF Expired
    <3>3. CASE ~Expired(c) /\ ~Expired(c)'
      <4>1. c = BucketOf(c.action, c.key)
        BY <3>1, <3>3 DEF OneRunningWindow
      <4>2. PICK w \in Nat \ {0} : w = limits[c.action].Window
        BY <2>1, LimitsPositive
      <4>3. c.windowStart = clock - (clock % w)
        BY <4>1, <4>2 DEF BucketOf
      <4>4. c.windowStart \in Nat
        BY <2>1, RateLimiterAssumption DEF Buckets
      <4>5. c.windowStart + w > clock + 1
        BY <3>1, <3>3, <4>2, <4>4 DEF Expired
      <4>6. (clock + 1) - ((clock + 1) % w) = clock - (clock % w)
        BY <3>1, <4>3, <4>5, WindowsDoNotOverlap
      <4> QED BY <3>1, <4>1, <4>2, <4>6 DEF BucketOf
    <3> QED BY <3>2, <3>3
  <2>5. CASE Restart
    BY <2>5 DEF Restart, Tracked, Buckets
  <2>6. CASE UNCHANGED vars
    BY <2>2, <2>6 DEF vars, Tracked, Buckets
  <2>7. ASSUME NEW action \in Actions, AllowUnlimited(action) PROVE UNCHANGED vars
    BY <2>7 DEF AllowUnlimited
  <2> QED BY <2>3, <2>4, <2>5, <2>6, <2>7 DEF Next
<1> QED BY <1>1, <1>2, TypeCorrect, PTL DEF Spec

\* What an operator can count on: while the process lives, the limits are exact if
\* there are fewer pairs of a limited action and a key than entries of the map.
THEOREM ExactForFewKeys ==
  ASSUME IsFiniteSet((DOMAIN limits) \X Keys),
         Cardinality((DOMAIN limits) \X Keys) < maxTrackedBuckets,
         Restarts = FALSE
  PROVE  Spec => []PerWindowLimit
<1> DEFINE Pairs == (DOMAIN limits) \X Keys
<1>1. OneRunningWindow => Roomy
  <2> SUFFICES ASSUME OneRunningWindow PROVE Roomy
    OBVIOUS
  <2>1. PICK f : f = [b \in Pruned |-> <<b.action, b.key>>]
    OBVIOUS
  <2>2. f \in [Pruned -> Pairs]
    BY <2>1 DEF Pruned, Tracked, Buckets
  <2>3. ASSUME NEW b \in Pruned, NEW c \in Pruned, f[b] = f[c] PROVE b = c
    <3>1. b.action = c.action /\ b.key = c.key
      BY <2>1, <2>3
    <3>2. b = BucketOf(b.action, b.key) /\ c = BucketOf(c.action, c.key)
      BY DEF OneRunningWindow, Pruned
    <3> QED BY <3>1, <3>2 DEF BucketOf
  <2>4. f \in Injection(Pruned, Pairs)
    BY <2>2, <2>3 DEF Injection, IsInjective
  <2>5. IsFiniteSet(Pruned) /\ Cardinality(Pruned) <= Cardinality(Pairs)
    BY <2>4, FS_Injection
  <2> QED BY <2>5, FS_CardinalityType, RateLimiterAssumption DEF Roomy
<1>2. ~Restart
  BY DEF Restart
<1>3. [Next]_vars => [~Restart]_vars
  BY <1>2
<1> QED BY <1>1, <1>3, OneWindowRuns, ExactWhileRoomy, PTL DEF Spec
=============================================================================
