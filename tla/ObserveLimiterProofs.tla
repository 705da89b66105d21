------------------------ MODULE ObserveLimiterProofs ------------------------
(***************************************************************************)
(* ObserveLimiter for every number of sessions, sources, tokens and ticks: *)
(* its type invariant, the bound on both maps, that a refusal charges      *)
(* nobody, the invariant of its buckets, and, when calls carry the current *)
(* time, that it implements AnswerBudget and what any stretch as long as a *)
(* window can hold.                                                        *)
(***************************************************************************)
EXTENDS ObserveLimiterRefinement, ObserveLimiterAudit, ScopeLemmas, FiniteSetTheorems, TLAPS

(* A window number is a natural number. *)
LEMMA WindowType ==
  ASSUME NEW t \in Nat, NEW width \in Nat \ {0}
  PROVE  t \div width \in Nat
OBVIOUS

(* Charging, refreshing and making a bucket yields a bucket. *)
LEMMA BucketOpsType ==
  ASSUME NEW t \in Nat, NEW width \in Nat \ {0}, NEW capacity \in Nat
  PROVE  /\ NewBucket(capacity, t, width) \in Bucket
         /\ \A b \in Bucket : Spend(b, capacity, t, width) \in Bucket
         /\ \A b \in Bucket : Touch(b, t) \in Bucket
<1>1. t \div width \in Nat
  BY WindowType
<1>2. NewBucket(capacity, t, width) \in Bucket
  BY <1>1 DEF NewBucket, Bucket
<1>3. ASSUME NEW b \in Bucket
      PROVE  Spend(b, capacity, t, width) \in Bucket
  <2>1. b.tokens \in Nat
    BY <1>3 DEF Bucket
  <2> DEFINE held == IF t \div width # b.window THEN capacity ELSE b.tokens
  <2>2. held \in Nat
    BY <2>1
  <2>3. (IF held > 0 THEN held - 1 ELSE 0) \in Nat
    BY <2>2
  <2> QED
    BY <1>1, <2>3 DEF Spend, Bucket
<1>4. ASSUME NEW b \in Bucket
      PROVE  Touch(b, t) \in Bucket
  BY <1>4 DEF Touch, Bucket
<1> QED
  BY <1>2, <1>3, <1>4

(* What bucket_for returns: a typed map that tracks the key, with the      *)
(* buckets of all others it still tracks as they were.                     *)
LEMMA BucketForType ==
  ASSUME NEW keys, NEW key \in keys, NEW t \in Nat,
         NEW map, Buckets(keys, map),
         NEW found \in BucketFor(map, key, t)
  PROVE  /\ Buckets(keys, found)
         /\ key \in DOMAIN found
         /\ \A k \in DOMAIN map \intersect DOMAIN found : found[k] = map[k]
<1>1. NewBucket(Capacity, t, SessionWindow) \in Bucket
  BY BucketOpsType, LimiterAssumption
<1>2. CASE key \in DOMAIN map
  BY <1>2 DEF BucketFor, Buckets
<1>3. CASE key \notin DOMAIN map
  <2>1. PICK kept \in SUBSET DOMAIN map : found = With(map, kept, key, t)
    BY <1>3 DEF BucketFor, LeastRecentlySeen
  <2>2. DOMAIN found = kept \union {key}
    BY <2>1 DEF With
  <2>3. \A k \in DOMAIN found : found[k] \in Bucket
    BY <1>1, <2>1, <2>2 DEF With, Buckets
  <2>4. found \in [DOMAIN found -> Bucket]
    BY <2>1, <2>2, <2>3 DEF With
  <2>5. DOMAIN found \subseteq keys
    BY <2>2 DEF Buckets
  <2>6. \A k \in DOMAIN map \intersect DOMAIN found : found[k] = map[k]
    BY <1>3, <2>1, <2>2 DEF With
  <2> QED
    BY <2>2, <2>4, <2>5, <2>6 DEF Buckets
<1> QED
  BY <1>2, <1>3

(* bucket_for never tracks more than MAX_TRACKED_SOURCES. *)
Tracks(map) == /\ IsFiniteSet(DOMAIN map)
               /\ Cardinality(DOMAIN map) <= MaxTracked

LEMMA BucketForBounded ==
  ASSUME NEW key, NEW t, NEW map, Tracks(map),
         NEW found \in BucketFor(map, key, t)
  PROVE  Tracks(found)
<1> DEFINE D == DOMAIN map
<1>1. IsFiniteSet(D) /\ Cardinality(D) \in Nat
  BY FS_CardinalityType DEF Tracks
<1>2. CASE key \in D
  BY <1>2 DEF BucketFor
<1>3. CASE key \notin D /\ Cardinality(D) >= MaxTracked
  <2>1. PICK victim \in D : found = With(map, D \ {victim}, key, t)
    BY <1>3 DEF BucketFor, LeastRecentlySeen
  <2>2. DOMAIN found = (D \ {victim}) \union {key}
    BY <2>1 DEF With
  <2>3. /\ IsFiniteSet(D \ {victim})
        /\ Cardinality(D \ {victim}) = Cardinality(D) - 1
    BY <1>1, FS_RemoveElement
  <2>4. /\ IsFiniteSet(DOMAIN found)
        /\ Cardinality(DOMAIN found) = Cardinality(D \ {victim}) + 1
    BY <1>3, <2>2, <2>3, FS_AddElement
  <2> QED
    BY <1>1, <2>3, <2>4, LimiterAssumption DEF Tracks
<1>4. CASE key \notin D /\ ~(Cardinality(D) >= MaxTracked)
  <2>1. found = With(map, D, key, t)
    BY <1>4 DEF BucketFor
  <2>2. DOMAIN found = D \union {key}
    BY <2>1 DEF With
  <2>3. /\ IsFiniteSet(DOMAIN found)
        /\ Cardinality(DOMAIN found) = Cardinality(D) + 1
    BY <1>1, <1>4, <2>2, FS_AddElement
  <2> QED
    BY <1>1, <1>4, <2>3, LimiterAssumption DEF Tracks
<1> QED
  BY <1>2, <1>3, <1>4

(* A call's clock reading is a time. *)
LEMMA CallTimeType ==
  ASSUME now \in Nat, NEW t \in CallTimes
  PROVE  t \in Nat
BY DEF CallTimes

(* Replacing the bucket of a tracked key. *)
LEMMA ReplaceBucket ==
  ASSUME NEW keys, NEW map, Buckets(keys, map),
         NEW key \in DOMAIN map, NEW b \in Bucket
  PROVE  /\ Buckets(keys, [map EXCEPT ![key] = b])
         /\ DOMAIN [map EXCEPT ![key] = b] = DOMAIN map
BY DEF Buckets

-----------------------------------------------------------------------------
(* The inductive invariant: MapsBounded speaks of cardinalities, so that   *)
(* the maps stay finite is carried along.                                  *)
MapsTracked == Tracks(perSession) /\ Tracks(perSource)

Inv == TypeOK /\ MapsTracked

LEMMA InitInv == Init => Inv
<1> SUFFICES ASSUME Init PROVE Inv
  OBVIOUS
<1>1. DOMAIN Untracked = {} /\ Untracked \in [{} -> Bucket]
  BY DEF Untracked
<1>2. NewBucket(GlobalCapacity, 0, GlobalWindow) \in Bucket
  BY BucketOpsType, LimiterAssumption
<1>3. TypeOK
  <2>1. \A keys : Buckets(keys, Untracked)
    BY <1>1 DEF Buckets
  <2>2. now \in Nat
    BY LimiterAssumption DEF Init
  <2> QED
    BY <1>2, <2>1, <2>2 DEF Init, TypeOK
<1>4. Tracks(Untracked)
  BY <1>1, FS_EmptySet, LimiterAssumption DEF Tracks
<1> QED
  BY <1>3, <1>4 DEF Init, Inv, MapsTracked

(* The two maps after a call, whichever of its four outcomes it has. *)
LEMMA AllowInv ==
  ASSUME Inv, NEW s \in Sessions, NEW h \in Hosts, NEW t \in Nat, Allow(s, h, t)
  PROVE  Inv'
<1> USE LimiterAssumption
<1>1. /\ now \in Nat /\ global \in Bucket
      /\ Buckets(Sessions, perSession) /\ Tracks(perSession)
      /\ Buckets(Hosts, perSource) /\ Tracks(perSource)
  BY DEF Inv, TypeOK, MapsTracked
<1>2. ASSUME NEW sessions \in BucketFor(perSession, s, t)
      PROVE  /\ Buckets(Sessions, sessions) /\ Tracks(sessions)
             /\ s \in DOMAIN sessions /\ sessions[s] \in Bucket
  <2>1. Buckets(Sessions, sessions) /\ s \in DOMAIN sessions
    BY <1>1, BucketForType
  <2>2. Tracks(sessions)
    BY <1>1, BucketForBounded
  <2> QED
    BY <2>1, <2>2 DEF Buckets
<1>3. ASSUME NEW hosts \in BucketFor(perSource, h, t)
      PROVE  /\ Buckets(Hosts, hosts) /\ Tracks(hosts)
             /\ h \in DOMAIN hosts /\ hosts[h] \in Bucket
  <2>1. Buckets(Hosts, hosts) /\ h \in DOMAIN hosts
    BY <1>1, BucketForType
  <2>2. Tracks(hosts)
    BY <1>1, BucketForBounded
  <2> QED
    BY <2>1, <2>2 DEF Buckets
<1>4. CASE RefusedBySession(s, h, t)
  <2>1. PICK sessions \in BucketFor(perSession, s, t) :
          /\ perSession' = [sessions EXCEPT ![s] = Touch(sessions[s], t)]
          /\ answered' = FALSE
          /\ UNCHANGED << now, perSource, global >>
    BY <1>4 DEF RefusedBySession
  <2>2. Touch(sessions[s], t) \in Bucket
    BY <1>2, BucketOpsType
  <2>3. Buckets(Sessions, perSession') /\ DOMAIN perSession' = DOMAIN sessions
    BY <1>2, <2>1, <2>2, ReplaceBucket
  <2> QED
    BY <1>1, <1>2, <2>1, <2>3 DEF Inv, TypeOK, MapsTracked, Tracks
<1>5. CASE RefusedBySource(s, h, t)
  <2>1. PICK sessions \in BucketFor(perSession, s, t), hosts \in BucketFor(perSource, h, t) :
          /\ perSession' = sessions
          /\ perSource' = [hosts EXCEPT ![h] = Touch(hosts[h], t)]
          /\ answered' = FALSE
          /\ UNCHANGED << now, global >>
    BY <1>5 DEF RefusedBySource
  <2>2. Touch(hosts[h], t) \in Bucket
    BY <1>3, BucketOpsType
  <2>3. Buckets(Hosts, perSource') /\ DOMAIN perSource' = DOMAIN hosts
    BY <1>3, <2>1, <2>2, ReplaceBucket
  <2> QED
    BY <1>1, <1>2, <1>3, <2>1, <2>3 DEF Inv, TypeOK, MapsTracked, Tracks
<1>6. CASE RefusedByGlobal(s, h, t)
  <2>1. PICK sessions \in BucketFor(perSession, s, t), hosts \in BucketFor(perSource, h, t) :
          /\ perSession' = sessions
          /\ perSource' = hosts
          /\ answered' = FALSE
          /\ UNCHANGED << now, global >>
    BY <1>6 DEF RefusedByGlobal
  <2> QED
    BY <1>1, <1>2, <1>3, <2>1 DEF Inv, TypeOK, MapsTracked
<1>7. CASE Answered(s, h, t)
  <2>1. PICK sessions \in BucketFor(perSession, s, t), hosts \in BucketFor(perSource, h, t) :
          /\ perSession' = [sessions EXCEPT
                              ![s] = Spend(sessions[s], Capacity, t, SessionWindow)]
          /\ perSource' = [hosts EXCEPT
                             ![h] = Spend(hosts[h], Capacity, t, SessionWindow)]
          /\ global' = Spend(global, GlobalCapacity, t, GlobalWindow)
          /\ answered' = TRUE
          /\ now' = now
    BY <1>7 DEF Answered
  <2>2. /\ Spend(sessions[s], Capacity, t, SessionWindow) \in Bucket
        /\ Spend(hosts[h], Capacity, t, SessionWindow) \in Bucket
        /\ Spend(global, GlobalCapacity, t, GlobalWindow) \in Bucket
    BY <1>1, <1>2, <1>3, BucketOpsType
  <2>3. Buckets(Sessions, perSession') /\ DOMAIN perSession' = DOMAIN sessions
    BY <1>2, <2>1, <2>2, ReplaceBucket
  <2>4. Buckets(Hosts, perSource') /\ DOMAIN perSource' = DOMAIN hosts
    BY <1>3, <2>1, <2>2, ReplaceBucket
  <2> QED
    BY <1>1, <1>2, <1>3, <2>1, <2>2, <2>3, <2>4 DEF Inv, TypeOK, MapsTracked, Tracks
<1> QED
  BY <1>4, <1>5, <1>6, <1>7 DEF Allow

LEMMA NextInv == Inv /\ [Next]_vars => Inv'
<1> SUFFICES ASSUME Inv, [Next]_vars PROVE Inv'
  OBVIOUS
<1>1. CASE Tick
  BY <1>1 DEF Tick, Inv, TypeOK, MapsTracked
<1>2. ASSUME NEW s \in Sessions, NEW a \in Sources, NEW t \in CallTimes,
             Allow(s, FoldIp(a), t)
      PROVE  Inv'
  <2>1. FoldIp(a) \in Hosts
    BY DEF Hosts
  <2>2. t \in Nat
    BY CallTimeType DEF Inv, TypeOK
  <2> QED
    BY <1>2, <2>1, <2>2, AllowInv
<1>3. CASE UNCHANGED vars
  BY <1>3 DEF vars, Inv, TypeOK, MapsTracked
<1> QED
  BY <1>1, <1>2, <1>3 DEF Next

LEMMA InvHolds == Spec => []Inv
BY InitInv, NextInv, PTL DEF Spec

(* ObserveLimiter's maps hold buckets of known callers, whatever is asked  *)
(* of it.                                                                  *)
THEOREM LimiterTypeCorrect == Spec => []TypeOK
<1>1. Inv => TypeOK
  BY DEF Inv
<1> QED
  BY <1>1, InvHolds, PTL

(* The maps of ObserveLimiter hold at most MAX_TRACKED_SOURCES entries     *)
(* each, for every number of callers and every order of clock readings.    *)
THEOREM LimiterMapsBounded == Spec => []MapsBounded
<1>1. Inv => MapsBounded
  BY DEF Inv, MapsTracked, Tracks, MapsBounded
<1> QED
  BY <1>1, InvHolds, PTL

-----------------------------------------------------------------------------
(* A bucket that only bucket_for and touch may have changed has the same   *)
(* tokens of the same window.                                              *)
LEMMA TouchKeeps ==
  ASSUME NEW b \in Bucket, NEW t
  PROVE  Touch(b, t).tokens = b.tokens /\ Touch(b, t).window = b.window
BY DEF Touch, Bucket

SameTokens(map, next) ==
  \A k \in DOMAIN map \intersect DOMAIN next :
    next[k].window = map[k].window /\ next[k].tokens = map[k].tokens

LEMMA TouchedMapKeeps ==
  ASSUME NEW keys, NEW key \in keys, NEW t \in Nat,
         NEW map, Buckets(keys, map), NEW found \in BucketFor(map, key, t)
  PROVE  /\ SameTokens(map, found)
         /\ SameTokens(map, [found EXCEPT ![key] = Touch(found[key], t)])
<1>1. /\ Buckets(keys, found) /\ key \in DOMAIN found
      /\ \A k \in DOMAIN map \intersect DOMAIN found : found[k] = map[k]
  BY BucketForType
<1>2. found[key] \in Bucket
  BY <1>1 DEF Buckets
<1>3. /\ Touch(found[key], t).tokens = found[key].tokens
      /\ Touch(found[key], t).window = found[key].window
  BY <1>2, TouchKeeps
<1> QED
  BY <1>1, <1>3 DEF SameTokens, Buckets

(* No refusal of ObserveLimiter takes a token or moves a window, of the    *)
(* caller, of anybody else or of the node, whichever budget refused it.    *)
THEOREM LimiterRefusalSpendsNothing == Spec => RefusalSpendsNothing
<1> DEFINE Kept == /\ global' = global
                   /\ SameTokens(perSession, perSession')
                   /\ SameTokens(perSource, perSource')
<1>1. ASSUME Inv, NEW s \in Sessions, NEW h \in Hosts, NEW t \in Nat,
             Allow(s, h, t), ~answered'
      PROVE  Kept
  <2>1. Buckets(Sessions, perSession) /\ Buckets(Hosts, perSource)
    BY <1>1 DEF Inv, TypeOK
  <2>2. ASSUME NEW sessions \in BucketFor(perSession, s, t)
        PROVE  /\ SameTokens(perSession, sessions)
               /\ SameTokens(perSession,
                             [sessions EXCEPT ![s] = Touch(sessions[s], t)])
    BY <1>1, <2>1, TouchedMapKeeps
  <2>3. ASSUME NEW hosts \in BucketFor(perSource, h, t)
        PROVE  /\ SameTokens(perSource, hosts)
               /\ SameTokens(perSource, [hosts EXCEPT ![h] = Touch(hosts[h], t)])
    BY <1>1, <2>1, TouchedMapKeeps
  <2>4. CASE RefusedBySession(s, h, t)
    BY <2>2, <2>4 DEF RefusedBySession, SameTokens
  <2>5. CASE RefusedBySource(s, h, t)
    BY <2>2, <2>3, <2>5 DEF RefusedBySource
  <2>6. CASE RefusedByGlobal(s, h, t)
    BY <2>2, <2>3, <2>6 DEF RefusedByGlobal
  <2>7. CASE Answered(s, h, t)
    BY <1>1, <2>7 DEF Answered
  <2> QED
    BY <1>1, <2>4, <2>5, <2>6, <2>7 DEF Allow
<1>2. ASSUME Inv, [Next]_vars, ~answered'
      PROVE  Kept
  <2>1. CASE Tick \/ UNCHANGED vars
    BY <2>1 DEF Tick, vars, SameTokens
  <2>2. ASSUME NEW s \in Sessions, NEW a \in Sources, NEW t \in CallTimes,
               Allow(s, FoldIp(a), t)
        PROVE  Kept
    <3>1. FoldIp(a) \in Hosts
      BY DEF Hosts
    <3>2. t \in Nat
      BY <1>2, CallTimeType DEF Inv, TypeOK
    <3> QED
      BY <1>1, <1>2, <2>2, <3>1, <3>2
  <2> QED
    BY <1>2, <2>1, <2>2 DEF Next
<1>3. Inv /\ [Next]_vars =>
        [ ~answered' =>
            /\ global' = global
            /\ \A s \in DOMAIN perSession \intersect DOMAIN perSession' :
                 /\ perSession'[s].window = perSession[s].window
                 /\ perSession'[s].tokens = perSession[s].tokens
            /\ \A h \in DOMAIN perSource \intersect DOMAIN perSource' :
                 /\ perSource'[h].window = perSource[h].window
                 /\ perSource'[h].tokens = perSource[h].tokens ]_vars
  BY <1>2 DEF SameTokens
<1> QED
  BY <1>3, InvHolds, PTL DEF Spec, RefusalSpendsNothing

-----------------------------------------------------------------------------
(* The refinement.  Windows only go forward. *)
LEMMA WindowMonotone ==
  ASSUME NEW t \in Nat, NEW u \in Nat, t <= u, NEW width \in Nat \ {0}
  PROVE  t \div width <= u \div width
OBVIOUS

LEMMA CallsCarryTheTime ==
  ASSUME ExactTime, now \in Nat, NEW t \in CallTimes
  PROVE  t = now
BY DEF ExactTime, CallTimes

-----------------------------------------------------------------------------
(* What the operations of a bucket do to the use it stands for.            *)
LEMMA BucketUse ==
  ASSUME now \in Nat, NEW width \in Nat \ {0},
         NEW capacity \in Nat \ {0},
         NEW b \in Bucket, Sound(b, capacity, width)
  PROVE  /\ UsedOf(b, capacity, width) \in Nat
         /\ Peek(b, now, width) <=> UsedOf(b, capacity, width) < capacity
         /\ Peek(b, now, width) =>
              UsedOf(Spend(b, capacity, now, width), capacity, width)
                = UsedOf(b, capacity, width) + 1
         /\ UsedOf(Touch(b, now), capacity, width) = UsedOf(b, capacity, width)
         /\ Sound(Spend(b, capacity, now, width), capacity, width)
         /\ Sound(Touch(b, now), capacity, width)
<1>1. now \div width \in Nat
  BY WindowType
<1>2. b.tokens \in Nat /\ b.window \in Nat /\ b.tokens <= capacity
  BY DEF Bucket, Sound
<1>3. UsedOf(b, capacity, width) \in Nat
  BY <1>2 DEF UsedOf
<1>4. Peek(b, now, width) <=> UsedOf(b, capacity, width) < capacity
  BY <1>1, <1>2 DEF Peek, UsedOf
<1> DEFINE held == IF now \div width # b.window THEN capacity ELSE b.tokens
           spent == Spend(b, capacity, now, width)
<1>5. /\ spent.window = now \div width
      /\ spent.tokens = IF held > 0 THEN held - 1 ELSE 0
  BY DEF Spend
<1>6. ASSUME Peek(b, now, width)
      PROVE  UsedOf(spent, capacity, width) = UsedOf(b, capacity, width) + 1
  BY <1>1, <1>2, <1>5, <1>6 DEF Peek, UsedOf
<1>7. Sound(spent, capacity, width)
  BY <1>1, <1>2, <1>5 DEF Sound
<1>8. /\ Touch(b, now).tokens = b.tokens
      /\ Touch(b, now).window = b.window
  BY TouchKeeps
<1>9. /\ UsedOf(Touch(b, now), capacity, width) = UsedOf(b, capacity, width)
      /\ Sound(Touch(b, now), capacity, width)
  BY <1>8 DEF UsedOf, Sound
<1> QED
  BY <1>3, <1>4, <1>6, <1>7, <1>9

LEMMA NewBucketUse ==
  ASSUME now \in Nat, NEW width \in Nat \ {0}, NEW capacity \in Nat
  PROVE  /\ UsedOf(NewBucket(capacity, now, width), capacity, width) = 0
         /\ Sound(NewBucket(capacity, now, width), capacity, width)
<1>1. now \div width \in Nat
  BY WindowType
<1> QED
  BY <1>1 DEF NewBucket, UsedOf, Sound

AllSound(map) == \A k \in DOMAIN map : Sound(map[k], Capacity, SessionWindow)

(* bucket_for gives the key a sound bucket that stands for the same use.   *)
LEMMA BucketForUse ==
  ASSUME now \in Nat, NEW keys, NEW key \in keys,
         NEW map, Buckets(keys, map), AllSound(map),
         NEW found \in BucketFor(map, key, now)
  PROVE  /\ AllSound(found)
         /\ UsedOf(found[key], Capacity, SessionWindow) = Used(map, keys)[key]
<1> USE LimiterAssumption
<1>1. /\ UsedOf(NewBucket(Capacity, now, SessionWindow), Capacity, SessionWindow) = 0
      /\ Sound(NewBucket(Capacity, now, SessionWindow), Capacity, SessionWindow)
  BY NewBucketUse
<1>2. CASE key \in DOMAIN map
  BY <1>2 DEF BucketFor, Used
<1>3. CASE key \notin DOMAIN map
  <2>1. PICK kept \in SUBSET DOMAIN map : found = With(map, kept, key, now)
    BY <1>3 DEF BucketFor, LeastRecentlySeen
  <2>2. found[key] = NewBucket(Capacity, now, SessionWindow)
    BY <2>1 DEF With
  <2>3. AllSound(found)
    BY <1>1, <2>1 DEF With, AllSound
  <2> QED
    BY <1>1, <1>3, <2>2, <2>3 DEF Used
<1> QED
  BY <1>2, <1>3

Forgotten(map, found) == DOMAIN map \ DOMAIN found

(* Whom bucket_for forgets: at most one caller, never the one that asks,   *)
(* and nobody where all can be tracked.                                    *)
LEMMA BucketForForgets ==
  ASSUME NEW keys, IsFiniteSet(keys), NEW key \in keys, NEW t,
         NEW map, Buckets(keys, map), Tracks(map),
         NEW found \in BucketFor(map, key, t)
  PROVE  LET lost == Forgotten(map, found) IN
         /\ lost \in SUBSET (keys \ {key})
         /\ \A j, k \in lost : j = k
         /\ lost # {} => Cardinality(keys) > MaxTracked
         /\ DOMAIN found = (DOMAIN map \ lost) \union {key}
<1> DEFINE D == DOMAIN map
           lost == Forgotten(map, found)
<1> USE DEF Forgotten
<1>1. D \subseteq keys /\ IsFiniteSet(D)
  BY DEF Buckets, Tracks
<1>2. CASE key \in D
  BY <1>1, <1>2 DEF BucketFor
<1>3. CASE key \notin D /\ Cardinality(D) >= MaxTracked
  <2>1. PICK victim \in D : found = With(map, D \ {victim}, key, t)
    BY <1>3 DEF BucketFor, LeastRecentlySeen
  <2>2. DOMAIN found = (D \ {victim}) \union {key}
    BY <2>1 DEF With
  <2>3. lost = {victim}
    BY <1>3, <2>2
  <2>4. /\ Cardinality(D \union {key}) = Cardinality(D) + 1
        /\ Cardinality(D) \in Nat
    BY <1>1, <1>3, FS_AddElement, FS_CardinalityType
  <2>5. /\ Cardinality(D \union {key}) <= Cardinality(keys)
        /\ Cardinality(keys) \in Nat
    BY <1>1, FS_Subset, FS_CardinalityType
  <2>6. Cardinality(keys) > MaxTracked
    BY <1>3, <2>4, <2>5, LimiterAssumption
  <2> QED
    BY <1>1, <1>3, <2>2, <2>3, <2>6
<1>4. CASE key \notin D /\ ~(Cardinality(D) >= MaxTracked)
  <2>1. found = With(map, D, key, t)
    BY <1>4 DEF BucketFor
  <2>2. DOMAIN found = D \union {key}
    BY <2>1 DEF With
  <2> QED
    BY <1>1, <2>2
<1> QED
  BY <1>2, <1>3, <1>4

-----------------------------------------------------------------------------
(* One call, as seen from the use of one kind of caller: amount is charged *)
(* to the key, if its bucket in the map next stands for that much more.    *)
LEMMA Charging ==
  ASSUME now \in Nat,
         NEW keys, IsFiniteSet(keys), NEW key \in keys,
         NEW map, Buckets(keys, map), Tracks(map), AllSound(map),
         NEW found \in BucketFor(map, key, now),
         NEW b, NEW amount, NEW next, next = [found EXCEPT ![key] = b],
         UsedOf(b, Capacity, SessionWindow)
           = UsedOf(found[key], Capacity, SessionWindow) + amount
  PROVE  Promise!Charged(Used(map, keys), keys, key, amount, Used(next, keys))
<1> DEFINE lost == Forgotten(map, found)
           used == Used(map, keys)
<1>1. /\ lost \in SUBSET (keys \ {key})
      /\ \A j, k \in lost : j = k
      /\ lost # {} => Cardinality(keys) > MaxTracked
      /\ DOMAIN found = (DOMAIN map \ lost) \union {key}
  BY BucketForForgets
<1>2. /\ Buckets(keys, found) /\ key \in DOMAIN found
      /\ \A k \in DOMAIN map \intersect DOMAIN found : found[k] = map[k]
  BY BucketForType
<1>3. UsedOf(found[key], Capacity, SessionWindow) = used[key]
  BY BucketForUse
<1>4. DOMAIN next = DOMAIN found /\ next[key] = b
      /\ \A k \in DOMAIN found \ {key} : next[k] = found[k]
  BY <1>2 DEF Buckets
<1>5. ASSUME NEW k \in keys
      PROVE  Used(next, keys)[k] = IF k \in lost THEN 0
                                   ELSE IF k = key THEN used[k] + amount
                                   ELSE used[k]
  <2>1. CASE k \in lost
    BY <1>1, <1>4, <2>1 DEF Used, Forgotten
  <2>2. CASE k = key
    BY <1>1, <1>2, <1>3, <1>4, <2>2 DEF Used
  <2>3. CASE k \notin lost /\ k # key
    BY <1>1, <1>2, <1>4, <2>3 DEF Used
  <2> QED
    BY <2>1, <2>2, <2>3
<1>6. Used(next, keys) = [k \in keys |-> IF k \in lost THEN 0
                                         ELSE IF k = key THEN used[k] + amount
                                         ELSE used[k]]
  BY <1>5 DEF Used
<1>7. Promise!Cardinality(keys) = Cardinality(keys)
  BY DEF Promise!Cardinality, Cardinality
<1> QED
  BY <1>1, <1>6, <1>7 DEF Promise!Charged

(* The buckets of next are sound if the one replaced is. *)
LEMMA ReplaceSound ==
  ASSUME NEW keys, NEW found, Buckets(keys, found), AllSound(found),
         NEW key \in DOMAIN found, NEW b, Sound(b, Capacity, SessionWindow)
  PROVE  AllSound([found EXCEPT ![key] = b])
BY DEF AllSound, Buckets

LEMMA HostsFinite == IsFiniteSet(Hosts)
<1> DEFINE f == [a \in Sources |-> FoldIp(a)]
<1>1. f \in Surjection(Sources, Hosts)
  BY DEF Surjection, Hosts
<1> QED
  BY <1>1, FS_Surjection, LimiterAssumption

-----------------------------------------------------------------------------
StrongInv == Inv /\ BucketsSound

LEMMA InitPromise == Init => StrongInv /\ Promise!Init
<1> SUFFICES ASSUME Init PROVE StrongInv /\ Promise!Init
  OBVIOUS
<1> USE LimiterAssumption
<1>1. Inv
  BY InitInv
<1>2. now \in Nat
  BY <1>1 DEF Inv, TypeOK
<1>3. DOMAIN perSession = {} /\ DOMAIN perSource = {}
  BY DEF Init, Untracked
<1>4. /\ global.tokens = GlobalCapacity
      /\ global.window = 0 \div GlobalWindow
  BY DEF Init, NewBucket
<1>5. 0 \div GlobalWindow = 0 /\ now \div GlobalWindow \in Nat
  BY <1>2, WindowType
<1>6. Sound(global, GlobalCapacity, GlobalWindow)
  BY <1>4, <1>5 DEF Sound
<1>7. BucketsSound
  BY <1>3, <1>6 DEF BucketsSound
<1>8. UsedOf(global, GlobalCapacity, GlobalWindow) = 0
  BY <1>4 DEF UsedOf
<1>9. /\ Used(perSession, Sessions) = [s \in Sessions |-> 0]
      /\ Used(perSource, Hosts) = [h \in Hosts |-> 0]
  BY <1>3 DEF Used
<1> QED
  BY <1>1, <1>2, <1>7, <1>8, <1>9 DEF StrongInv, Promise!Init, Init

(* A tick leaves a bucket in its window or in one that is over.            *)
LEMMA TickWindow ==
  ASSUME now \in Nat, now' = now + 1, NEW width \in Nat \ {0},
         NEW capacity, NEW b \in Bucket, Sound(b, capacity, width)
  PROVE  /\ Sound(b, capacity, width)'
         /\ now' \div width # now \div width => b.window # now' \div width
<1>1. /\ now \div width \in Nat /\ now' \div width \in Nat
      /\ now \div width <= now' \div width
  BY WindowType, WindowMonotone
<1>2. b.window \in Nat /\ b.window <= now \div width /\ b.tokens <= capacity
  BY DEF Bucket, Sound
<1> QED
  BY <1>1, <1>2 DEF Sound

LEMMA TickPromise == StrongInv /\ Tick => BucketsSound' /\ Promise!Tick
<1> SUFFICES ASSUME StrongInv, Tick PROVE BucketsSound' /\ Promise!Tick
  OBVIOUS
<1> USE LimiterAssumption
<1>1. /\ now \in Nat /\ global \in Bucket /\ now' = now + 1
      /\ UNCHANGED << perSession, perSource, global, answered >>
      /\ Buckets(Sessions, perSession) /\ Buckets(Hosts, perSource)
  BY DEF StrongInv, Inv, TypeOK, Tick
<1>2. /\ AllSound(perSession) /\ AllSound(perSource)
      /\ Sound(global, GlobalCapacity, GlobalWindow)
  BY DEF StrongInv, BucketsSound, AllSound
<1>3. ASSUME NEW keys, NEW map, Buckets(keys, map), AllSound(map), NEW k \in DOMAIN map
      PROVE  /\ Sound(map[k], Capacity, SessionWindow)'
             /\ now' \div SessionWindow # now \div SessionWindow =>
                  map[k].window # now' \div SessionWindow
  <2>1. map[k] \in Bucket /\ Sound(map[k], Capacity, SessionWindow)
    BY <1>3 DEF Buckets, AllSound
  <2> QED
    BY <1>1, <2>1, TickWindow
<1>4. /\ Sound(global, GlobalCapacity, GlobalWindow)'
      /\ now' \div GlobalWindow # now \div GlobalWindow =>
           global.window # now' \div GlobalWindow
  <2>1. ASSUME NEW b, b = global
        PROVE  /\ Sound(b, GlobalCapacity, GlobalWindow)'
               /\ now' \div GlobalWindow # now \div GlobalWindow =>
                    b.window # now' \div GlobalWindow
    BY <1>1, <1>2, <2>1, TickWindow
  <2> QED
    BY <1>1, <2>1 DEF Sound
<1>5. BucketsSound'
  <2>1. \A s \in DOMAIN perSession : Sound(perSession[s], Capacity, SessionWindow)'
    BY <1>1, <1>2, <1>3 DEF Sound
  <2>2. \A h \in DOMAIN perSource : Sound(perSource[h], Capacity, SessionWindow)'
    BY <1>1, <1>2, <1>3 DEF Sound
  <2> QED
    BY <1>1, <1>4, <2>1, <2>2 DEF BucketsSound
<1>6. UsedOf(global, GlobalCapacity, GlobalWindow)'
        = IF now' \div GlobalWindow = now \div GlobalWindow
          THEN UsedOf(global, GlobalCapacity, GlobalWindow) ELSE 0
  BY <1>1, <1>4 DEF UsedOf
<1>7. Used(perSession, Sessions)'
        = IF now' \div SessionWindow = now \div SessionWindow
          THEN Used(perSession, Sessions) ELSE [s \in Sessions |-> 0]
  <2>1. \A k \in DOMAIN perSession :
          now' \div SessionWindow # now \div SessionWindow =>
            perSession[k].window # now' \div SessionWindow
    BY <1>1, <1>2, <1>3
  <2> QED
    BY <1>1, <2>1 DEF Used, UsedOf
<1>8. Used(perSource, Hosts)'
        = IF now' \div SessionWindow = now \div SessionWindow
          THEN Used(perSource, Hosts) ELSE [h \in Hosts |-> 0]
  <2>1. \A k \in DOMAIN perSource :
          now' \div SessionWindow # now \div SessionWindow =>
            perSource[k].window # now' \div SessionWindow
    BY <1>1, <1>2, <1>3
  <2> QED
    BY <1>1, <2>1 DEF Used, UsedOf
<1> QED
  BY <1>1, <1>5, <1>6, <1>7, <1>8 DEF Promise!Tick, Promise!SameWindow

(* A caller that is not charged and nobody forgotten: nothing changes.     *)
LEMMA ChargingNothing ==
  ASSUME now \in Nat, NEW keys, IsFiniteSet(keys), NEW key \in keys,
         NEW map, Buckets(keys, map), AllSound(map)
  PROVE  Promise!Charged(Used(map, keys), keys, key, 0, Used(map, keys))
<1> USE LimiterAssumption
<1> DEFINE used == Used(map, keys)
<1>1. ASSUME NEW k \in keys
      PROVE  used[k] \in Nat
  <2>1. CASE k \in DOMAIN map
    <3>1. map[k] \in Bucket /\ Sound(map[k], Capacity, SessionWindow)
      BY <2>1 DEF Buckets, AllSound
    <3> QED
      BY <2>1, <3>1 DEF Used, UsedOf, Bucket, Sound
  <2>2. CASE k \notin DOMAIN map
    BY <2>2 DEF Used
  <2> QED
    BY <2>1, <2>2
<1>2. used = [k \in keys |-> IF k = key THEN used[k] + 0 ELSE used[k]]
  BY <1>1 DEF Used
<1> HIDE DEF used
<1>3. used = [k \in keys |-> IF k \in {} THEN 0
                             ELSE IF k = key THEN used[k] + 0 ELSE used[k]]
  BY <1>2
<1>4. /\ {} \in SUBSET (keys \ {key})
      /\ \A j, k \in {} : j = k
      /\ {} # {} => Promise!Cardinality(keys) > MaxTracked
  OBVIOUS
<1>5. Promise!Charged(used, keys, key, 0, used)
  BY <1>3, <1>4 DEF Promise!Charged
<1> QED
  BY <1>5 DEF used

(* A call of allow() is Ask of the promise, whichever outcome it has.      *)
LEMMA AllowPromise ==
  ASSUME ExactTime, StrongInv, NEW s \in Sessions, NEW h \in Hosts, Allow(s, h, now)
  PROVE  BucketsSound' /\ Promise!Ask(s, h)
<1> USE LimiterAssumption DEF ExactTime
<1> DEFINE byNow == Used(perSession, Sessions)
           fromNow == Used(perSource, Hosts)
           inAllNow == UsedOf(global, GlobalCapacity, GlobalWindow)
<1>1. /\ now \in Nat /\ global \in Bucket
      /\ Buckets(Sessions, perSession) /\ Buckets(Hosts, perSource)
      /\ Tracks(perSession) /\ Tracks(perSource)
      /\ AllSound(perSession) /\ AllSound(perSource)
      /\ Sound(global, GlobalCapacity, GlobalWindow)
  BY DEF StrongInv, Inv, TypeOK, MapsTracked, BucketsSound, AllSound
<1>2. IsFiniteSet(Sessions) /\ IsFiniteSet(Hosts)
  BY HostsFinite
<1>3. ASSUME NEW keys, IsFiniteSet(keys), NEW key \in keys, NEW map,
             Buckets(keys, map), Tracks(map), AllSound(map),
             NEW found \in BucketFor(map, key, now)
      PROVE  LET used    == Used(map, keys)
                 touched == [found EXCEPT ![key] = Touch(found[key], now)]
                 spent   == [found EXCEPT
                              ![key] = Spend(found[key], Capacity, now, SessionWindow)]
             IN  /\ Peek(found[key], now, SessionWindow) <=> used[key] < Capacity
                 /\ AllSound(found) /\ AllSound(touched) /\ AllSound(spent)
                 /\ Promise!Charged(used, keys, key, 0, Used(found, keys))
                 /\ Promise!Charged(used, keys, key, 0, Used(touched, keys))
                 /\ Peek(found[key], now, SessionWindow) =>
                      Promise!Charged(used, keys, key, 1, Used(spent, keys))
  <2> DEFINE b == found[key]
             used == Used(map, keys)
             touched == [found EXCEPT ![key] = Touch(b, now)]
             spent == [found EXCEPT ![key] = Spend(b, Capacity, now, SessionWindow)]
  <2>1. Buckets(keys, found) /\ key \in DOMAIN found
    BY <1>1, <1>3, BucketForType
  <2>2. AllSound(found) /\ UsedOf(b, Capacity, SessionWindow) = used[key]
    BY <1>1, <1>3, BucketForUse
  <2>3. b \in Bucket /\ Sound(b, Capacity, SessionWindow)
    BY <2>1, <2>2 DEF Buckets, AllSound
  <2>4. /\ UsedOf(b, Capacity, SessionWindow) \in Nat
        /\ Peek(b, now, SessionWindow) <=> UsedOf(b, Capacity, SessionWindow) < Capacity
        /\ Peek(b, now, SessionWindow) =>
             UsedOf(Spend(b, Capacity, now, SessionWindow), Capacity, SessionWindow)
               = UsedOf(b, Capacity, SessionWindow) + 1
        /\ UsedOf(Touch(b, now), Capacity, SessionWindow)
             = UsedOf(b, Capacity, SessionWindow)
        /\ Sound(Spend(b, Capacity, now, SessionWindow), Capacity, SessionWindow)
        /\ Sound(Touch(b, now), Capacity, SessionWindow)
    BY <1>1, <2>3, BucketUse
  <2>5. AllSound(touched) /\ AllSound(spent)
    BY <2>1, <2>2, <2>4, ReplaceSound
  <2>6. Promise!Charged(used, keys, key, 0, Used(touched, keys))
    BY <1>1, <1>3, <2>4, Charging
  <2>7. Promise!Charged(used, keys, key, 0, Used(found, keys))
    <3>1. found = [found EXCEPT ![key] = b]
      BY <2>1 DEF Buckets
    <3> QED
      BY <1>1, <1>3, <2>4, <3>1, Charging
  <2>8. ASSUME Peek(b, now, SessionWindow)
        PROVE  Promise!Charged(used, keys, key, 1, Used(spent, keys))
    BY <1>1, <1>3, <2>4, <2>8, Charging
  <2> QED
    BY <2>2, <2>4, <2>5, <2>6, <2>7, <2>8
<1>4. ASSUME NEW found \in BucketFor(perSession, s, now)
      PROVE  LET touched == [found EXCEPT ![s] = Touch(found[s], now)]
                 spent   == [found EXCEPT
                              ![s] = Spend(found[s], Capacity, now, SessionWindow)]
             IN  /\ Peek(found[s], now, SessionWindow) <=> byNow[s] < Capacity
                 /\ AllSound(found) /\ AllSound(touched) /\ AllSound(spent)
                 /\ Promise!Charged(byNow, Sessions, s, 0, Used(found, Sessions))
                 /\ Promise!Charged(byNow, Sessions, s, 0, Used(touched, Sessions))
                 /\ Peek(found[s], now, SessionWindow) =>
                      Promise!Charged(byNow, Sessions, s, 1, Used(spent, Sessions))
  BY <1>1, <1>2, <1>3
<1>5. ASSUME NEW found \in BucketFor(perSource, h, now)
      PROVE  LET touched == [found EXCEPT ![h] = Touch(found[h], now)]
                 spent   == [found EXCEPT
                              ![h] = Spend(found[h], Capacity, now, SessionWindow)]
             IN  /\ Peek(found[h], now, SessionWindow) <=> fromNow[h] < Capacity
                 /\ AllSound(found) /\ AllSound(touched) /\ AllSound(spent)
                 /\ Promise!Charged(fromNow, Hosts, h, 0, Used(found, Hosts))
                 /\ Promise!Charged(fromNow, Hosts, h, 0, Used(touched, Hosts))
                 /\ Peek(found[h], now, SessionWindow) =>
                      Promise!Charged(fromNow, Hosts, h, 1, Used(spent, Hosts))
  BY <1>1, <1>2, <1>3
<1>6. LET spent == Spend(global, GlobalCapacity, now, GlobalWindow)
      IN  /\ inAllNow \in Nat
          /\ Peek(global, now, GlobalWindow) <=> inAllNow < GlobalCapacity
          /\ Peek(global, now, GlobalWindow) =>
               UsedOf(spent, GlobalCapacity, GlobalWindow) = inAllNow + 1
          /\ Sound(spent, GlobalCapacity, GlobalWindow)
  BY <1>1, BucketUse
(* It is enough to look at what is used by the buckets at the same time.   *)
<1>7. ASSUME now' = now,
             AllSound(perSession'), AllSound(perSource'),
             Sound(global', GlobalCapacity, GlobalWindow)
      PROVE  /\ BucketsSound'
             /\ Used(perSession, Sessions)' = Used(perSession', Sessions)
             /\ Used(perSource, Hosts)' = Used(perSource', Hosts)
             /\ UsedOf(global, GlobalCapacity, GlobalWindow)'
                  = UsedOf(global', GlobalCapacity, GlobalWindow)
  <2>1. BucketsSound'
    BY <1>7 DEF BucketsSound, AllSound, Sound
  <2> QED
    BY <1>7, <2>1 DEF Used, UsedOf
<1> HIDE DEF byNow, fromNow, inAllNow
<1>8. Promise!HaveRoom(s, h) <=> /\ byNow[s] < Capacity
                                /\ fromNow[h] < Capacity
                                /\ inAllNow < GlobalCapacity
  BY DEF Promise!HaveRoom, byNow, fromNow, inAllNow
<1>9. inAllNow = UsedOf(global, GlobalCapacity, GlobalWindow) /\ inAllNow + 0 = inAllNow
  BY <1>6 DEF inAllNow
<1>refused. ASSUME now' = now, global' = global, answered' = FALSE,
                   ~Promise!HaveRoom(s, h),
                   AllSound(perSession'), AllSound(perSource'),
                   Promise!Charged(byNow, Sessions, s, 0, Used(perSession', Sessions)),
                   Promise!Charged(fromNow, Hosts, h, 0, Used(perSource', Hosts))
            PROVE  BucketsSound' /\ Promise!Ask(s, h)
  <2>1. UsedOf(global', GlobalCapacity, GlobalWindow) = inAllNow + 0
    BY <1>9, <1>refused
  <2>2. Sound(global', GlobalCapacity, GlobalWindow)
    BY <1>1, <1>refused
  <2>3. answered' = Promise!HaveRoom(s, h)
    BY <1>refused DEF Promise!HaveRoom
  <2>4. (IF Promise!HaveRoom(s, h) THEN 1 ELSE 0) = 0
    BY <1>refused
  <2>5. /\ BucketsSound'
        /\ Used(perSession, Sessions)' = Used(perSession', Sessions)
        /\ Used(perSource, Hosts)' = Used(perSource', Hosts)
        /\ UsedOf(global, GlobalCapacity, GlobalWindow)'
             = UsedOf(global', GlobalCapacity, GlobalWindow)
    BY <1>7, <1>refused, <2>2
  <2>6. Promise!Ask(s, h)
    BY <1>refused, <2>1, <2>3, <2>4, <2>5 DEF Promise!Ask, byNow, fromNow, inAllNow
  <2> QED
    BY <2>5, <2>6
<1>10. CASE RefusedBySession(s, h, now)
  <2>1. PICK sessions \in BucketFor(perSession, s, now) :
          /\ ~Peek(sessions[s], now, SessionWindow)
          /\ perSession' = [sessions EXCEPT ![s] = Touch(sessions[s], now)]
          /\ answered' = FALSE
          /\ UNCHANGED << now, perSource, global >>
    BY <1>10 DEF RefusedBySession
  <2>2. ~Promise!HaveRoom(s, h)
    BY <1>4, <1>8, <2>1
  <2>3. Promise!Charged(fromNow, Hosts, h, 0, Used(perSource, Hosts))
    BY <1>1, <1>2, ChargingNothing DEF fromNow
  <2>4. AllSound(perSource') /\ AllSound(perSession')
    BY <1>1, <1>4, <2>1
  <2>5. /\ Promise!Charged(byNow, Sessions, s, 0, Used(perSession', Sessions))
        /\ Promise!Charged(fromNow, Hosts, h, 0, Used(perSource', Hosts))
    BY <1>4, <2>1, <2>3
  <2> QED
    BY <1>refused, <2>1, <2>2, <2>4, <2>5
<1>11. CASE RefusedBySource(s, h, now)
  <2>1. PICK sessions \in BucketFor(perSession, s, now),
             hosts \in BucketFor(perSource, h, now) :
          /\ ~Peek(hosts[h], now, SessionWindow)
          /\ perSession' = sessions
          /\ perSource' = [hosts EXCEPT ![h] = Touch(hosts[h], now)]
          /\ answered' = FALSE
          /\ UNCHANGED << now, global >>
    BY <1>11 DEF RefusedBySource
  <2>2. ~Promise!HaveRoom(s, h)
    BY <1>5, <1>8, <2>1
  <2> QED
    BY <1>4, <1>5, <1>refused, <2>1, <2>2
<1>12. CASE RefusedByGlobal(s, h, now)
  <2>1. PICK sessions \in BucketFor(perSession, s, now),
             hosts \in BucketFor(perSource, h, now) :
          /\ ~Peek(global, now, GlobalWindow)
          /\ perSession' = sessions
          /\ perSource' = hosts
          /\ answered' = FALSE
          /\ UNCHANGED << now, global >>
    BY <1>12 DEF RefusedByGlobal
  <2>2. ~Promise!HaveRoom(s, h)
    BY <1>6, <1>8, <2>1
  <2> QED
    BY <1>4, <1>5, <1>refused, <2>1, <2>2
<1>13. CASE Answered(s, h, now)
  <2>1. PICK sessions \in BucketFor(perSession, s, now),
             hosts \in BucketFor(perSource, h, now) :
          /\ Peek(sessions[s], now, SessionWindow)
          /\ Peek(hosts[h], now, SessionWindow)
          /\ Peek(global, now, GlobalWindow)
          /\ perSession' = [sessions EXCEPT
                              ![s] = Spend(sessions[s], Capacity, now, SessionWindow)]
          /\ perSource' = [hosts EXCEPT
                             ![h] = Spend(hosts[h], Capacity, now, SessionWindow)]
          /\ global' = Spend(global, GlobalCapacity, now, GlobalWindow)
          /\ answered' = TRUE
          /\ now' = now
    BY <1>13 DEF Answered
  <2>2. Promise!HaveRoom(s, h)
    BY <1>4, <1>5, <1>6, <1>8, <2>1
  <2>3. AllSound(perSession') /\ AllSound(perSource')
    BY <1>4, <1>5, <2>1
  <2>4. /\ Promise!Charged(byNow, Sessions, s, 1, Used(perSession', Sessions))
        /\ Promise!Charged(fromNow, Hosts, h, 1, Used(perSource', Hosts))
    BY <1>4, <1>5, <2>1
  <2>5. /\ Sound(global', GlobalCapacity, GlobalWindow)
        /\ UsedOf(global', GlobalCapacity, GlobalWindow) = inAllNow + 1
    BY <1>6, <2>1
  <2>6. answered' = Promise!HaveRoom(s, h)
    BY <1>8, <2>1, <2>2
  <2>7. (IF Promise!HaveRoom(s, h) THEN 1 ELSE 0) = 1
    BY <2>2
  <2> QED
    BY <1>7, <2>1, <2>3, <2>4, <2>5, <2>6, <2>7
       DEF Promise!Ask, byNow, fromNow, inAllNow
<1> QED
  BY <1>10, <1>11, <1>12, <1>13 DEF Allow

(* What a call leaves is sound, however late its clock reading is. *)
LEMMA OpsSound ==
  ASSUME now \in Nat, NEW t \in Nat, t <= now, NEW width \in Nat \ {0},
         NEW capacity \in Nat
  PROVE  /\ Sound(NewBucket(capacity, t, width), capacity, width)
         /\ \A b \in Bucket : Sound(b, capacity, width) =>
              /\ Sound(Spend(b, capacity, t, width), capacity, width)
              /\ Sound(Touch(b, t), capacity, width)
<1>1. t \div width \in Nat /\ now \div width \in Nat /\ t \div width <= now \div width
  BY WindowType, WindowMonotone
<1>2. Sound(NewBucket(capacity, t, width), capacity, width)
  BY <1>1 DEF Sound, NewBucket
<1>3. ASSUME NEW b \in Bucket, Sound(b, capacity, width)
      PROVE  Sound(Spend(b, capacity, t, width), capacity, width)
  <2> DEFINE held == IF t \div width # b.window THEN capacity ELSE b.tokens
  <2>1. b.tokens \in Nat /\ b.tokens <= capacity
    BY <1>3 DEF Bucket, Sound
  <2>2. held \in Nat /\ held <= capacity
    BY <2>1
  <2>3. (IF held > 0 THEN held - 1 ELSE 0) <= capacity
    BY <2>2
  <2> QED
    BY <1>1, <2>3 DEF Spend, Sound
<1>4. ASSUME NEW b \in Bucket, Sound(b, capacity, width)
      PROVE  Sound(Touch(b, t), capacity, width)
  BY <1>4 DEF Touch, Sound, Bucket
<1> QED
  BY <1>2, <1>3, <1>4

LEMMA BucketForSound ==
  ASSUME now \in Nat, NEW t \in Nat, t <= now, NEW key,
         NEW map, AllSound(map), NEW found \in BucketFor(map, key, t)
  PROVE  AllSound(found)
<1>1. Sound(NewBucket(Capacity, t, SessionWindow), Capacity, SessionWindow)
  BY OpsSound, LimiterAssumption
<1>2. CASE key \in DOMAIN map
  BY <1>2 DEF BucketFor
<1>3. CASE key \notin DOMAIN map
  <2>1. PICK kept \in SUBSET DOMAIN map : found = With(map, kept, key, t)
    BY <1>3 DEF BucketFor, LeastRecentlySeen
  <2> QED
    BY <1>1, <2>1 DEF With, AllSound
<1> QED
  BY <1>2, <1>3

LEMMA AllowSound ==
  ASSUME StrongInv, NEW s \in Sessions, NEW h \in Hosts, NEW t \in CallTimes,
         Allow(s, h, t)
  PROVE  BucketsSound'
<1> USE LimiterAssumption
<1>1. /\ now \in Nat /\ t \in Nat /\ t <= now /\ global \in Bucket
      /\ Buckets(Sessions, perSession) /\ Buckets(Hosts, perSource)
      /\ AllSound(perSession) /\ AllSound(perSource)
      /\ Sound(global, GlobalCapacity, GlobalWindow)
  BY DEF StrongInv, Inv, TypeOK, BucketsSound, AllSound, CallTimes
<1>2. ASSUME NEW keys, NEW key \in keys, NEW map, Buckets(keys, map), AllSound(map),
             NEW found \in BucketFor(map, key, t)
      PROVE  /\ AllSound(found)
             /\ AllSound([found EXCEPT ![key] = Touch(found[key], t)])
             /\ AllSound([found EXCEPT
                            ![key] = Spend(found[key], Capacity, t, SessionWindow)])
  <2>1. Buckets(keys, found) /\ key \in DOMAIN found
    BY <1>1, <1>2, BucketForType
  <2>2. AllSound(found)
    BY <1>1, <1>2, BucketForSound
  <2>3. found[key] \in Bucket /\ Sound(found[key], Capacity, SessionWindow)
    BY <2>1, <2>2 DEF Buckets, AllSound
  <2>4. /\ Sound(Touch(found[key], t), Capacity, SessionWindow)
        /\ Sound(Spend(found[key], Capacity, t, SessionWindow), Capacity, SessionWindow)
    BY <1>1, <2>3, OpsSound
  <2> QED
    BY <2>1, <2>2, <2>4, ReplaceSound
<1>3. now' = now
  BY DEF Allow, RefusedBySession, RefusedBySource, RefusedByGlobal, Answered
<1>4. ASSUME NEW found \in BucketFor(perSession, s, t)
      PROVE  /\ AllSound(found)
             /\ AllSound([found EXCEPT ![s] = Touch(found[s], t)])
             /\ AllSound([found EXCEPT ![s] = Spend(found[s], Capacity, t, SessionWindow)])
  BY <1>1, <1>2
<1>5. ASSUME NEW found \in BucketFor(perSource, h, t)
      PROVE  /\ AllSound(found)
             /\ AllSound([found EXCEPT ![h] = Touch(found[h], t)])
             /\ AllSound([found EXCEPT ![h] = Spend(found[h], Capacity, t, SessionWindow)])
  BY <1>1, <1>2
<1>6. AllSound(perSession') /\ AllSound(perSource')
  <2>1. CASE RefusedBySession(s, h, t)
    BY <1>1, <1>4, <2>1 DEF RefusedBySession
  <2>2. CASE RefusedBySource(s, h, t)
    BY <1>4, <1>5, <2>2 DEF RefusedBySource
  <2>3. CASE RefusedByGlobal(s, h, t)
    BY <1>4, <1>5, <2>3 DEF RefusedByGlobal
  <2>4. CASE Answered(s, h, t)
    BY <1>4, <1>5, <2>4 DEF Answered
  <2> QED
    BY <2>1, <2>2, <2>3, <2>4 DEF Allow
<1>7. Sound(global', GlobalCapacity, GlobalWindow)
  <2>1. Sound(Spend(global, GlobalCapacity, t, GlobalWindow), GlobalCapacity, GlobalWindow)
    BY <1>1, OpsSound
  <2> QED
    BY <1>1, <2>1 DEF Allow, RefusedBySession, RefusedBySource, RefusedByGlobal, Answered
<1> QED
  BY <1>3, <1>6, <1>7 DEF BucketsSound, AllSound, Sound

LEMMA NextSound == StrongInv /\ [Next]_vars => StrongInv'
<1> SUFFICES ASSUME StrongInv, [Next]_vars PROVE StrongInv'
  OBVIOUS
<1>1. Inv'
  BY NextInv DEF StrongInv
<1>2. CASE Tick
  BY <1>1, <1>2, TickPromise DEF StrongInv
<1>3. ASSUME NEW s \in Sessions, NEW a \in Sources, NEW t \in CallTimes,
             Allow(s, FoldIp(a), t)
      PROVE  BucketsSound'
  BY <1>3, AllowSound DEF Hosts
<1>4. CASE UNCHANGED vars
  BY <1>1, <1>4 DEF vars, StrongInv, BucketsSound, Sound
<1> QED
  BY <1>1, <1>2, <1>3, <1>4 DEF Next, StrongInv

LEMMA StrongInvHolds == Spec => []StrongInv
BY InitPromise, NextSound, PTL DEF Spec

(* No bucket of ObserveLimiter ever holds more than its capacity or is     *)
(* ahead of the clock, whatever the capacities and however late the calls' *)
(* clock readings are; and its maps are typed and bounded.                 *)
THEOREM LimiterInvariant == Spec => []LimiterInv
<1>1. StrongInv => LimiterInv
  BY DEF StrongInv, LimiterInv, Inv, MapsTracked, Tracks, MapsBounded
<1> QED
  BY <1>1, StrongInvHolds, PTL

LEMMA NextPromise ==
  ASSUME ExactTime
  PROVE  StrongInv /\ [Next]_vars => [Promise!Next]_Promise!vars
<1> SUFFICES ASSUME StrongInv, [Next]_vars
             PROVE  [Promise!Next]_Promise!vars
  OBVIOUS
<1>1. CASE Tick
  BY <1>1, TickPromise DEF Promise!Next
<1>2. ASSUME NEW s \in Sessions, NEW a \in Sources, NEW t \in CallTimes,
             Allow(s, FoldIp(a), t)
      PROVE  Promise!Next
  <2>1. FoldIp(a) \in Hosts
    BY DEF Hosts
  <2>2. t = now
    BY CallsCarryTheTime DEF StrongInv, Inv, TypeOK
  <2>3. Promise!Ask(s, FoldIp(a))
    BY <1>2, <2>1, <2>2, AllowPromise
  <2> QED
    BY <2>1, <2>3 DEF Promise!Next
<1>3. CASE UNCHANGED vars
  BY <1>3 DEF vars, Promise!vars, Used, UsedOf
<1> QED
  BY <1>1, <1>2, <1>3 DEF Next

(* ObserveLimiter implements AnswerBudget: for every number of callers and *)
(* every capacity above zero, when calls carry the current time, a call is *)
(* answered exactly when session, source and node have room in the current *)
(* window, and all three are charged for it and for nothing else.          *)
THEOREM LimiterKeepsPromise ==
  ASSUME ExactTime
  PROVE  Spec => KeepsPromise
<1>1. Init => Promise!Init
  BY InitPromise
<1>2. StrongInv /\ [Next]_vars => [Promise!Next]_Promise!vars
  BY NextPromise
<1> QED
  BY <1>1, <1>2, StrongInvHolds, PTL DEF Spec, KeepsPromise, Promise!Spec

-----------------------------------------------------------------------------
(* What any stretch as long as a window can hold.  A log is a sequence of  *)
(* answers; l and m are two, of which m repeats l at the places at hand.   *)

Timed(l, places) == \A i \in places : l[i].at \in Nat
Repeats(m, l, places) == \A i \in places : m[i] = l[i]

LEMMA FiniteWindow ==
  ASSUME NEW l, NEW A, IsFiniteSet(A), NEW w, NEW width
  PROVE  /\ IsFiniteSet(InWindow(l, A, w, width))
         /\ Cardinality(InWindow(l, A, w, width)) \in Nat
<1>1. InWindow(l, A, w, width) \subseteq A
  BY DEF InWindow
<1> QED
  BY <1>1, FS_Subset, FS_CardinalityType

(* A window without an answer counts none, any other what the account says. *)
LEMMA WindowWithin ==
  ASSUME NEW l, NEW A, NEW b, NEW capacity \in Nat, NEW width,
         Accounted(l, A, b, capacity, width), NEW w
  PROVE  Cardinality(InWindow(l, A, w, width)) <= capacity
<1>1. CASE InWindow(l, A, w, width) = {}
  BY <1>1, FS_EmptySet
<1>2. CASE InWindow(l, A, w, width) # {}
  <2>1. PICK i \in A : l[i].at \div width = w
    BY <1>2 DEF InWindow
  <2> QED
    BY <2>1 DEF Accounted
<1> QED
  BY <1>1, <1>2

(* A stretch as long as a window lies in the window it begins in and the   *)
(* next one.                                                               *)
LEMMA StretchMeetsTwo ==
  ASSUME NEW t \in Nat, NEW u \in Nat, NEW width \in Nat \ {0}, t <= u, u < t + width
  PROVE  u \div width \in {t \div width, t \div width + 1}
<1> PICK p, q, r, s : /\ p = t \div width /\ q = u \div width
                      /\ r = t % width /\ s = u % width
  OBVIOUS
<1>1. /\ p \in Nat /\ q \in Nat /\ r \in Nat /\ s \in Nat /\ r < width /\ s < width
      /\ t = width * p + r /\ u = width * q + s
  BY Division
<1>2. p <= q
  BY WindowMonotone
<1>3. ~(p + 2 <= q)
  <2> SUFFICES ASSUME p + 2 <= q PROVE FALSE
    OBVIOUS
  <2>1. p + 1 \in Nat /\ p + 1 < q
    BY <1>1
  <2>2. width * (p + 1) + width <= width * q
    BY <1>1, <2>1, Precedes
  <2>3. width * (p + 1) = width * p + width
    BY <1>1
  <2> PICK x, y, z : x = width * p /\ y = width * q /\ z = width * (p + 1)
    OBVIOUS
  <2>4. x \in Nat /\ y \in Nat /\ z = x + width /\ z + width <= y /\ t = x + r /\ u = y + s
    BY <1>1, <2>2, <2>3
  <2> QED
    BY ONLY <1>1, <2>4, u < t + width, t \in Nat, u \in Nat, width \in Nat
<1> QED
  BY <1>1, <1>2, <1>3

LEMMA AccountTwice ==
  ASSUME NEW A, IsFiniteSet(A), Timed(log, A), NEW b, NEW capacity \in Nat,
         NEW width \in Nat \ {0}, Accounted(log, A, b, capacity, width), NEW t \in Nat
  PROVE  Cardinality(During(A, t, width)) <= 2 * capacity
<1> DEFINE P == InWindow(log, A, t \div width, width)
           Q == InWindow(log, A, t \div width + 1, width)
           D == During(A, t, width)
<1>1. /\ IsFiniteSet(P) /\ Cardinality(P) \in Nat /\ Cardinality(P) <= capacity
      /\ IsFiniteSet(Q) /\ Cardinality(Q) \in Nat /\ Cardinality(Q) <= capacity
  BY FiniteWindow, WindowWithin
<1>2. D \subseteq P \union Q
  <2> SUFFICES ASSUME NEW i \in D PROVE i \in P \union Q
    OBVIOUS
  <2>1. i \in A /\ log[i].at \in Nat /\ t <= log[i].at /\ log[i].at < t + width
    BY DEF During, Timed
  <2>2. log[i].at \div width \in {t \div width, t \div width + 1}
    BY <2>1, StretchMeetsTwo
  <2> QED
    BY <2>1, <2>2 DEF InWindow
<1> HIDE DEF P, Q, D
<1>3. IsFiniteSet(P \union Q) /\ Cardinality(P \union Q) <= Cardinality(P) + Cardinality(Q)
  <2>1. /\ IsFiniteSet(P \union Q) /\ IsFiniteSet(P \intersect Q)
        /\ Cardinality(P \union Q)
             = Cardinality(P) + Cardinality(Q) - Cardinality(P \intersect Q)
    BY <1>1, FS_Union, FS_Intersection
  <2>2. Cardinality(P \intersect Q) \in Nat /\ Cardinality(P \union Q) \in Nat
    BY <2>1, FS_CardinalityType
  <2> QED
    BY <1>1, <2>1, <2>2
<1>4. Cardinality(D) <= Cardinality(P \union Q)
  BY <1>2, <1>3, FS_Subset
<1>5. Cardinality(D) \in Nat /\ Cardinality(P \union Q) \in Nat
  BY <1>2, <1>3, FS_Subset, FS_CardinalityType
<1> QED
  BY <1>1, <1>3, <1>4, <1>5 DEF D

-----------------------------------------------------------------------------
(* Accounts stay right: of a bucket that is kept or only touched, of a new *)
(* one, and of one that is charged for one answer more.                    *)
LEMMA AccountKept ==
  ASSUME NEW l, NEW m, NEW A, Repeats(m, l, A), NEW b, NEW c,
         c.tokens = b.tokens, c.window = b.window,
         NEW capacity, NEW width, Accounted(l, A, b, capacity, width)
  PROVE  Accounted(m, A, c, capacity, width)
<1>1. \A w : InWindow(m, A, w, width) = InWindow(l, A, w, width)
  BY DEF InWindow, Repeats
<1>2. \A i \in A : m[i].at = l[i].at
  BY DEF Repeats
<1> QED
  BY <1>1, <1>2 DEF Accounted

LEMMA AccountOpened ==
  ASSUME NEW l, NEW capacity \in Nat, NEW t \in Nat, NEW width \in Nat \ {0}
  PROVE  Accounted(l, {}, NewBucket(capacity, t, width), capacity, width)
<1>1. \A w : InWindow(l, {}, w, width) = {}
  BY DEF InWindow
<1>2. NewBucket(capacity, t, width).tokens = capacity
  BY DEF NewBucket
<1> QED
  BY <1>1, <1>2, FS_EmptySet DEF Accounted

LEMMA AccountCharged ==
  ASSUME NEW l, NEW m, NEW A, IsFiniteSet(A), Timed(l, A), Repeats(m, l, A),
         NEW n, n \notin A, NEW t \in Nat, m[n].at = t,
         NEW capacity \in Nat \ {0}, NEW width \in Nat \ {0},
         NEW b \in Bucket, b.window <= t \div width, Peek(b, t, width),
         Accounted(l, A, b, capacity, width)
  PROVE  Accounted(m, A \union {n}, Spend(b, capacity, t, width), capacity, width)
<1> DEFINE now_ == t \div width
           B == A \union {n}
           c == Spend(b, capacity, t, width)
           old(w) == InWindow(l, A, w, width)
<1>1. b.tokens \in Nat /\ b.window \in Nat /\ now_ \in Nat
  BY WindowType DEF Bucket
<1>2. \A w : IsFiniteSet(old(w)) /\ Cardinality(old(w)) \in Nat /\ Cardinality(old(w)) <= capacity
  BY FiniteWindow, WindowWithin
<1>3. \A w : InWindow(m, B, w, width) = IF w = now_ THEN old(w) \union {n} ELSE old(w)
  BY DEF InWindow, Repeats
<1>4. n \notin old(now_)
  BY DEF InWindow
<1>5. c.window = now_ /\ c.tokens = (IF now_ # b.window THEN capacity ELSE b.tokens) - 1
  BY <1>1 DEF Spend, Peek
<1>6. now_ # b.window => old(now_) = {}
  <2> SUFFICES ASSUME now_ # b.window, NEW i \in A, l[i].at \div width = now_ PROVE FALSE
    BY DEF InWindow
  <2>1. now_ <= b.window
    BY DEF Accounted
  <2> QED
    BY <1>1, <2>1
<1>7. \A i \in A : /\ l[i].at \div width \in Nat /\ l[i].at \div width <= b.window
                   /\ m[i].at = l[i].at
  BY WindowType DEF Accounted, Timed, Repeats
<1>8. Cardinality(old(b.window)) + b.tokens <= capacity
  BY DEF Accounted
<1> HIDE DEF now_, c, old
<1>9. Cardinality(old(now_) \union {n}) = Cardinality(old(now_)) + 1
  BY <1>2, <1>4, FS_AddElement
<1> DEFINE before == Cardinality(old(now_))
           after  == Cardinality(InWindow(m, B, now_, width))
<1>0. before \in Nat /\ after = before + 1 /\ capacity \in Nat
  <2>1. InWindow(m, B, now_, width) = old(now_) \union {n}
    BY <1>3
  <2> QED
    BY <1>2, <1>9, <2>1
<1>10. after + c.tokens <= capacity
  <2>1. CASE now_ # b.window
    <3>1. before = 0
      BY <1>6, <2>1, FS_EmptySet
    <3> HIDE DEF before, after
    <3> QED
      BY <1>0, <1>5, <2>1, <3>1
  <2>2. CASE now_ = b.window
    <3>1. before + b.tokens <= capacity
      BY <1>8, <2>2
    <3> HIDE DEF before, after
    <3> QED
      BY <1>0, <1>1, <1>5, <2>2, <3>1
  <2> QED
    BY <2>1, <2>2
<1>11. c.tokens \in Nat
  BY <1>1, <1>5 DEF Peek, now_
<1>12. Cardinality(InWindow(m, B, now_, width)) <= capacity
  <2>1. after <= capacity
    <3> HIDE DEF before, after
    <3> QED
      BY <1>0, <1>10, <1>11
  <2> QED
    BY <2>1
<1>13. \A w : Cardinality(InWindow(m, B, w, width)) <= capacity
  BY <1>2, <1>3, <1>12
<1>14. \A i \in B : m[i].at \div width <= now_
  <2>1. m[n].at \div width = now_
    BY DEF now_
  <2>2. b.window <= now_
    BY DEF now_
  <2> QED
    BY <1>1, <1>7, <2>1, <2>2
<1> QED
  BY <1>5, <1>10, <1>13, <1>14 DEF Accounted, c

-----------------------------------------------------------------------------
(* The accounts of all callers of one kind, where there is room for all.   *)

Room(keys) == IsFiniteSet(keys) /\ Cardinality(keys) <= MaxTracked

LEMMA AccountsFound ==
  ASSUME NEW keys, Room(keys), NEW key \in keys, NEW t \in Nat,
         NEW map, Buckets(keys, map), Tracks(map), NEW found \in BucketFor(map, key, t),
         NEW l, NEW G, DOMAIN G = keys, AllAccounted(l, G, map)
  PROVE  AllAccounted(l, G, found)
<1>1. DOMAIN found = DOMAIN map \union {key}
  <2> DEFINE lost == Forgotten(map, found)
  <2>1. /\ lost # {} => Cardinality(keys) > MaxTracked
        /\ DOMAIN found = (DOMAIN map \ lost) \union {key}
    BY BucketForForgets DEF Room
  <2>2. Cardinality(keys) \in Nat /\ MaxTracked \in Nat
    BY FS_CardinalityType, LimiterAssumption DEF Room
  <2>3. lost = {}
    BY <2>1, <2>2 DEF Room
  <2> HIDE DEF lost
  <2> QED
    BY <2>1, <2>3
<1>2. \A k \in DOMAIN map : found[k] = map[k]
  BY <1>1, BucketForType
<1>3. ASSUME key \notin DOMAIN map
      PROVE  found[key] = NewBucket(Capacity, t, SessionWindow)
  <2>1. PICK kept \in SUBSET DOMAIN map : found = With(map, kept, key, t)
    BY <1>3 DEF BucketFor, LeastRecentlySeen
  <2> QED
    BY <2>1 DEF With
<1>4. Accounted(l, {}, NewBucket(Capacity, t, SessionWindow), Capacity, SessionWindow)
  BY AccountOpened, LimiterAssumption
<1>5. ASSUME NEW k \in keys
      PROVE  IF k \in DOMAIN found
             THEN Accounted(l, G[k], found[k], Capacity, SessionWindow)
             ELSE G[k] = {}
  <2>1. CASE k \in DOMAIN map
    BY <1>1, <1>2, <2>1 DEF AllAccounted
  <2>2. CASE k \notin DOMAIN map
    <3>1. G[k] = {}
      BY <2>2 DEF AllAccounted
    <3> QED
      BY <1>1, <1>3, <1>4, <2>2, <3>1
  <2> QED
    BY <2>1, <2>2
<1> QED
  BY <1>5 DEF AllAccounted

LEMMA AccountsKept ==
  ASSUME NEW l, NEW G, NEW found, NEW next, DOMAIN next = DOMAIN found,
         \A k \in DOMAIN found : /\ next[k].tokens = found[k].tokens
                                 /\ next[k].window = found[k].window,
         AllAccounted(l, G, found)
  PROVE  AllAccounted(l, G, next)
<1>1. ASSUME NEW k \in DOMAIN G, k \in DOMAIN found
      PROVE  Accounted(l, G[k], next[k], Capacity, SessionWindow)
  <2>1. Accounted(l, G[k], found[k], Capacity, SessionWindow)
    BY <1>1 DEF AllAccounted
  <2>2. Repeats(l, l, G[k])
    BY DEF Repeats
  <2>3. next[k].tokens = found[k].tokens /\ next[k].window = found[k].window
    BY <1>1
  <2> QED
    BY <2>1, <2>2, <2>3, AccountKept
<1> QED
  BY <1>1 DEF AllAccounted

(* What a call that charges nobody may leave of a map. *)
Looked(map, next, key, t) ==
  \/ next = map
  \/ \E found \in BucketFor(map, key, t) :
       next = found \/ next = [found EXCEPT ![key] = Touch(found[key], t)]

LEMMA AccountsLooked ==
  ASSUME NEW keys, Room(keys), NEW key \in keys, NEW t \in Nat,
         NEW map, Buckets(keys, map), Tracks(map), NEW next, Looked(map, next, key, t),
         NEW l, NEW G, DOMAIN G = keys, AllAccounted(l, G, map)
  PROVE  AllAccounted(l, G, next)
<1>1. ASSUME NEW found \in BucketFor(map, key, t)
      PROVE  /\ AllAccounted(l, G, found)
             /\ AllAccounted(l, G, [found EXCEPT ![key] = Touch(found[key], t)])
  <2> DEFINE touched == [found EXCEPT ![key] = Touch(found[key], t)]
  <2>1. AllAccounted(l, G, found)
    BY <1>1, AccountsFound
  <2>2. Buckets(keys, found) /\ key \in DOMAIN found
    BY <1>1, BucketForType
  <2>3. found[key] \in Bucket
    BY <2>2 DEF Buckets
  <2>4. /\ Touch(found[key], t).tokens = found[key].tokens
        /\ Touch(found[key], t).window = found[key].window
    BY <2>3, TouchKeeps
  <2>5. /\ DOMAIN touched = DOMAIN found
        /\ \A k \in DOMAIN found : /\ touched[k].tokens = found[k].tokens
                                   /\ touched[k].window = found[k].window
    BY <2>2, <2>4
  <2> HIDE DEF touched
  <2>6. AllAccounted(l, G, touched)
    BY <2>1, <2>5, AccountsKept
  <2> QED
    BY <2>1, <2>6 DEF touched
<1> QED
  BY <1>1 DEF Looked

(* From l to m, key was answered once more, at place n. *)
Grown(l, m, n, keys, key, G, H) ==
  \A k \in keys : /\ IsFiniteSet(G[k]) /\ Timed(l, G[k]) /\ Repeats(m, l, G[k])
                  /\ n \notin G[k]
                  /\ H[k] = IF k = key THEN G[k] \union {n} ELSE G[k]

LEMMA AccountsCharged ==
  ASSUME NEW keys, Room(keys), NEW key \in keys, NEW t \in Nat,
         NEW map, Buckets(keys, map), Tracks(map), NEW found \in BucketFor(map, key, t),
         AllSound(found), now = t, Peek(found[key], t, SessionWindow), Capacity > 0,
         NEW l, NEW m, NEW n, m[n].at = t, NEW G, NEW H, DOMAIN G = keys, DOMAIN H = keys,
         Grown(l, m, n, keys, key, G, H),
         AllAccounted(l, G, map)
  PROVE  AllAccounted(m, H, [found EXCEPT ![key] = Spend(found[key], Capacity, t, SessionWindow)])
<1> DEFINE b == Spend(found[key], Capacity, t, SessionWindow)
           next == [found EXCEPT ![key] = b]
<1>1. AllAccounted(l, G, found)
  BY AccountsFound
<1>2. Buckets(keys, found) /\ key \in DOMAIN found
  BY BucketForType
<1>3. found[key] \in Bucket /\ found[key].window <= t \div SessionWindow
  BY <1>2 DEF Buckets, AllSound, Sound
<1>4. Capacity \in Nat \ {0} /\ SessionWindow \in Nat \ {0}
  BY LimiterAssumption
<1>5. Accounted(m, H[key], b, Capacity, SessionWindow)
  <2>1. Accounted(l, G[key], found[key], Capacity, SessionWindow)
    BY <1>1, <1>2 DEF AllAccounted
  <2>2. /\ IsFiniteSet(G[key]) /\ Timed(l, G[key]) /\ Repeats(m, l, G[key])
        /\ n \notin G[key] /\ H[key] = G[key] \union {n}
    BY DEF Grown
  <2> QED
    BY <1>3, <1>4, <2>1, <2>2, AccountCharged
<1> HIDE DEF b
<1>6. DOMAIN next = DOMAIN found /\ next[key] = b /\ \A k \in DOMAIN found \ {key} : next[k] = found[k]
  BY <1>2
<1> HIDE DEF next
<1>7. ASSUME NEW k \in keys
      PROVE  IF k \in DOMAIN next
             THEN Accounted(m, H[k], next[k], Capacity, SessionWindow)
             ELSE H[k] = {}
  <2>1. CASE k = key
    BY <1>2, <1>5, <1>6, <2>1
  <2>2. CASE k # key /\ k \in DOMAIN found
    <3>1. Accounted(l, G[k], found[k], Capacity, SessionWindow)
      BY <1>1, <2>2 DEF AllAccounted
    <3>2. Repeats(m, l, G[k]) /\ H[k] = G[k] /\ next[k] = found[k]
      BY <1>6, <2>2 DEF Grown
    <3>3. Accounted(m, G[k], found[k], Capacity, SessionWindow)
      BY <3>1, <3>2, AccountKept
    <3> QED
      BY <1>6, <2>2, <3>2, <3>3
  <2>3. CASE k # key /\ k \notin DOMAIN found
    BY <1>1, <1>6, <2>3 DEF AllAccounted, Grown
  <2> QED
    BY <2>1, <2>2, <2>3
<1> QED
  BY <1>7 DEF AllAccounted, next, b

-----------------------------------------------------------------------------
(* The audited limiter: its log, and the invariant.                        *)
LogTyped == log \in Seq([to : Sessions, from : Hosts, at : Nat])

AuditInv == StrongInv /\ LogTyped /\ LogAccounted

LEMMA LogPlaces ==
  ASSUME LogTyped
  PROVE  /\ IsFiniteSet(DOMAIN log) /\ Timed(log, DOMAIN log)
         /\ \A A \in SUBSET DOMAIN log : IsFiniteSet(A) /\ Timed(log, A)
<1>1. Len(log) \in Nat /\ DOMAIN log = 1..Len(log)
  BY DEF LogTyped
<1>2. IsFiniteSet(1..Len(log))
  BY <1>1, FS_Interval
<1>3. Timed(log, DOMAIN log)
  <2> DEFINE T == [to : Sessions, from : Hosts, at : Nat]
  <2>1. log \in Seq(T)
    BY DEF LogTyped
  <2>2. \A e \in T : e.at \in Nat
    OBVIOUS
  <2> HIDE DEF T
  <2>3. \A i \in 1..Len(log) : log[i] \in T
    BY <2>1
  <2> QED
    BY <1>1, <2>2, <2>3 DEF Timed
<1> QED
  BY <1>1, <1>2, <1>3, FS_Subset DEF Timed

(* One more answer at the end of the log. *)
LEMMA LogGrows ==
  ASSUME LogTyped, NEW s \in Sessions, NEW h \in Hosts, NEW t \in Nat,
         log' = Append(log, [to |-> s, from |-> h, at |-> t])
  PROVE  LET n == Len(log) + 1 IN
         /\ LogTyped' /\ n \notin DOMAIN log /\ DOMAIN log' = DOMAIN log \union {n}
         /\ Repeats(log', log, DOMAIN log)
         /\ log'[n].to = s /\ log'[n].from = h /\ log'[n].at = t
<1> DEFINE n == Len(log) + 1
           e == [to |-> s, from |-> h, at |-> t]
           T == [to : Sessions, from : Hosts, at : Nat]
<1>1. log \in Seq(T) /\ e \in T
  BY DEF LogTyped
<1>2. e.to = s /\ e.from = h /\ e.at = t
  OBVIOUS
<1> HIDE DEF e, T
<1>3. /\ log' \in Seq(T) /\ Len(log) \in Nat /\ Len(log') = n
      /\ \A i \in 1..Len(log) : log'[i] = log[i]
      /\ log'[n] = e
  BY <1>1 DEF e
<1>4. DOMAIN log = 1..Len(log) /\ DOMAIN log' = 1..n
  BY <1>1, <1>3
<1>5. n \notin DOMAIN log /\ DOMAIN log' = DOMAIN log \union {n}
  BY <1>3, <1>4
<1>6. LogTyped'
  BY <1>3 DEF LogTyped, T
<1>7. Repeats(log', log, DOMAIN log)
  BY <1>3, <1>4 DEF Repeats
<1> QED
  BY <1>2, <1>3, <1>5, <1>6, <1>7

ToSession == [s \in Sessions |-> AnswersTo(s)]
FromHost  == [h \in Hosts |-> AnswersFrom(h)]

(* A step after which nobody was answered. *)
LEMMA UnansweredAccounted ==
  ASSUME AuditInv, NEW s \in Sessions, NEW h \in Hosts, NEW t \in Nat, log' = log,
         Looked(perSession, perSession', s, t), Looked(perSource, perSource', h, t),
         global' = global
  PROVE  LogTyped' /\ LogAccounted'
<1>1. LogTyped'
  BY DEF AuditInv, LogTyped
<1>2. /\ Buckets(Sessions, perSession) /\ Tracks(perSession)
      /\ Buckets(Hosts, perSource) /\ Tracks(perSource)
  BY DEF AuditInv, StrongInv, Inv, TypeOK, MapsTracked
<1>3. ToSession' = ToSession /\ FromHost' = FromHost
  BY DEF ToSession, FromHost, AnswersTo, AnswersFrom
<1>4. ASSUME Cardinality(Sessions) <= MaxTracked
      PROVE  AllAccounted(log', ToSession', perSession')
  <2>1. Room(Sessions) /\ AllAccounted(log, ToSession, perSession) /\ DOMAIN ToSession = Sessions
    BY <1>4, LimiterAssumption DEF Room, AuditInv, LogAccounted, ToSession
  <2>2. AllAccounted(log, ToSession, perSession')
    BY <1>2, <2>1, AccountsLooked
  <2> QED
    BY <1>3, <2>2
<1>5. ASSUME Cardinality(Hosts) <= MaxTracked
      PROVE  AllAccounted(log', FromHost', perSource')
  <2>1. Room(Hosts) /\ AllAccounted(log, FromHost, perSource) /\ DOMAIN FromHost = Hosts
    BY <1>5, HostsFinite DEF Room, AuditInv, LogAccounted, FromHost
  <2>2. AllAccounted(log, FromHost, perSource')
    BY <1>2, <2>1, AccountsLooked
  <2> QED
    BY <1>3, <2>2
<1>6. Accounted(log', DOMAIN log', global', GlobalCapacity, GlobalWindow)
  BY DEF AuditInv, LogAccounted
<1> QED
  BY <1>1, <1>4, <1>5, <1>6 DEF LogAccounted, ToSession, FromHost

(* A step in which s is answered at h. *)
LEMMA AnsweredAccounted ==
  ASSUME ExactTime, AuditInv, NEW s \in Sessions, NEW h \in Hosts, Answered(s, h, now),
         log' = Append(log, [to |-> s, from |-> h, at |-> now])
  PROVE  LogTyped' /\ LogAccounted'
<1> DEFINE n == Len(log) + 1
<1>1. /\ now \in Nat /\ global \in Bucket /\ Sound(global, GlobalCapacity, GlobalWindow)
      /\ Buckets(Sessions, perSession) /\ Tracks(perSession) /\ AllSound(perSession)
      /\ Buckets(Hosts, perSource) /\ Tracks(perSource) /\ AllSound(perSource)
  BY DEF AuditInv, StrongInv, Inv, TypeOK, MapsTracked, BucketsSound, AllSound
<1>2. /\ LogTyped' /\ n \notin DOMAIN log /\ DOMAIN log' = DOMAIN log \union {n}
      /\ Repeats(log', log, DOMAIN log)
      /\ log'[n].to = s /\ log'[n].from = h /\ log'[n].at = now
  BY <1>1, LogGrows DEF AuditInv
<1>3. /\ IsFiniteSet(DOMAIN log) /\ Timed(log, DOMAIN log)
      /\ \A A \in SUBSET DOMAIN log : IsFiniteSet(A) /\ Timed(log, A)
  BY LogPlaces DEF AuditInv
<1>4. \A A \in SUBSET DOMAIN log : Repeats(log', log, A)
  BY <1>2 DEF Repeats
<1>5. Capacity > 0 /\ GlobalCapacity \in Nat \ {0} /\ GlobalWindow \in Nat \ {0}
  BY LimiterAssumption DEF ExactTime
<1> HIDE DEF n
<1>6. \A i \in DOMAIN log : log'[i] = log[i]
  BY <1>2 DEF Repeats
<1>7. PICK sessions \in BucketFor(perSession, s, now), hosts \in BucketFor(perSource, h, now) :
        /\ Peek(sessions[s], now, SessionWindow) /\ Peek(hosts[h], now, SessionWindow)
        /\ Peek(global, now, GlobalWindow)
        /\ perSession' = [sessions EXCEPT ![s] = Spend(sessions[s], Capacity, now, SessionWindow)]
        /\ perSource' = [hosts EXCEPT ![h] = Spend(hosts[h], Capacity, now, SessionWindow)]
        /\ global' = Spend(global, GlobalCapacity, now, GlobalWindow)
  BY DEF Answered
<1>8. ASSUME Cardinality(Sessions) <= MaxTracked
      PROVE  AllAccounted(log', ToSession', perSession')
  <2>1. Room(Sessions) /\ AllAccounted(log, ToSession, perSession) /\ DOMAIN ToSession = Sessions
        /\ DOMAIN ToSession' = Sessions
    BY <1>8, LimiterAssumption DEF Room, AuditInv, LogAccounted, ToSession
  <2>2. ASSUME NEW k \in Sessions
        PROVE  /\ IsFiniteSet(ToSession[k]) /\ Timed(log, ToSession[k]) /\ Repeats(log', log, ToSession[k])
               /\ n \notin ToSession[k] /\ ToSession'[k] = IF k = s THEN ToSession[k] \union {n} ELSE ToSession[k]
    <3>1. /\ ToSession[k] = { i \in DOMAIN log : log[i].to = k }
          /\ ToSession'[k] = { i \in DOMAIN log' : log'[i].to = k }
      BY DEF ToSession, AnswersTo
    <3>2. ToSession[k] \in SUBSET DOMAIN log
      BY <3>1
    <3>3. ToSession'[k] = IF k = s THEN ToSession[k] \union {n} ELSE ToSession[k]
      BY <1>2, <1>6, <3>1
    <3> QED
      BY <1>2, <1>3, <1>4, <3>2, <3>3
  <2>3. AllSound(sessions)
    BY <1>1, BucketForSound
  <2> DEFINE m == log'
             G == ToSession
             H == ToSession'
  <2>4. /\ m[n].at = now /\ DOMAIN G = Sessions /\ DOMAIN H = Sessions
        /\ AllAccounted(log, G, perSession)
    BY <1>2, <2>1
  <2>5. Grown(log, m, n, Sessions, s, G, H)
    BY <2>2 DEF Grown
  <2> HIDE DEF m, G, H
  <2>6. AllAccounted(m, H, [sessions EXCEPT ![s] = Spend(sessions[s], Capacity, now, SessionWindow)])
    BY <1>1, <1>5, <1>7, <2>1, <2>3, <2>4, <2>5, AccountsCharged
  <2> QED
    BY <1>7, <2>6 DEF m, H
<1>9. ASSUME Cardinality(Hosts) <= MaxTracked
      PROVE  AllAccounted(log', FromHost', perSource')
  <2>1. Room(Hosts) /\ AllAccounted(log, FromHost, perSource) /\ DOMAIN FromHost = Hosts
        /\ DOMAIN FromHost' = Hosts
    BY <1>9, HostsFinite DEF Room, AuditInv, LogAccounted, FromHost, Hosts
  <2>2. ASSUME NEW k \in Hosts
        PROVE  /\ IsFiniteSet(FromHost[k]) /\ Timed(log, FromHost[k]) /\ Repeats(log', log, FromHost[k])
               /\ n \notin FromHost[k]
               /\ FromHost'[k] = IF k = h THEN FromHost[k] \union {n} ELSE FromHost[k]
    <3>1. /\ FromHost[k] = { i \in DOMAIN log : log[i].from = k }
          /\ FromHost'[k] = { i \in DOMAIN log' : log'[i].from = k }
      BY DEF FromHost, AnswersFrom, Hosts
    <3>2. FromHost[k] \in SUBSET DOMAIN log
      BY <3>1
    <3>3. FromHost'[k] = IF k = h THEN FromHost[k] \union {n} ELSE FromHost[k]
      BY <1>2, <1>6, <3>1
    <3> QED
      BY <1>2, <1>3, <1>4, <3>2, <3>3
  <2>3. AllSound(hosts)
    BY <1>1, BucketForSound
  <2> DEFINE m == log'
             G == FromHost
             H == FromHost'
  <2>4. /\ m[n].at = now /\ DOMAIN G = Hosts /\ DOMAIN H = Hosts
        /\ AllAccounted(log, G, perSource)
    BY <1>2, <2>1
  <2>5. Grown(log, m, n, Hosts, h, G, H)
    BY <2>2 DEF Grown
  <2> HIDE DEF m, G, H
  <2>6. AllAccounted(m, H, [hosts EXCEPT ![h] = Spend(hosts[h], Capacity, now, SessionWindow)])
    BY <1>1, <1>5, <1>7, <2>1, <2>3, <2>4, <2>5, AccountsCharged
  <2> QED
    BY <1>7, <2>6 DEF m, H
<1>10. Accounted(log', DOMAIN log', global', GlobalCapacity, GlobalWindow)
  <2>1. Accounted(log, DOMAIN log, global, GlobalCapacity, GlobalWindow)
    BY DEF AuditInv, LogAccounted
  <2>2. global.window <= now \div GlobalWindow
    BY <1>1 DEF Sound
  <2> DEFINE m == log'
             A == DOMAIN log
  <2>3. /\ IsFiniteSet(A) /\ Timed(log, A) /\ Repeats(m, log, A) /\ n \notin A
        /\ m[n].at = now /\ Accounted(log, A, global, GlobalCapacity, GlobalWindow)
        /\ DOMAIN log' = A \union {n}
    BY <1>2, <1>3, <2>1
  <2> HIDE DEF m, A
  <2>4. Accounted(m, A \union {n}, Spend(global, GlobalCapacity, now, GlobalWindow),
                  GlobalCapacity, GlobalWindow)
    BY <1>1, <1>5, <1>7, <2>2, <2>3, AccountCharged
  <2> QED
    BY <1>7, <2>3, <2>4 DEF m
<1> QED
  BY <1>2, <1>8, <1>9, <1>10 DEF LogAccounted, ToSession, FromHost

LEMMA AuditStep ==
  ASSUME ExactTime, AuditInv, [AuditNext]_auditVars
  PROVE  [Next]_vars /\ LogTyped' /\ LogAccounted'
<1>1. now \in Nat
  BY DEF AuditInv, StrongInv, Inv, TypeOK
<1>2. ASSUME UNCHANGED << perSession, perSource, global, log >>
      PROVE  LogTyped' /\ LogAccounted'
  <2>1. LogTyped'
    BY <1>2 DEF AuditInv, LogTyped
  <2>2. \A k : AnswersTo(k)' = AnswersTo(k) /\ AnswersFrom(k)' = AnswersFrom(k)
    BY <1>2 DEF AnswersTo, AnswersFrom
  <2> QED
    BY <1>2, <2>1, <2>2 DEF AuditInv, LogAccounted, Hosts
<1>3. CASE Tick /\ UNCHANGED log
  BY <1>2, <1>3 DEF Tick, Next
<1>4. CASE UNCHANGED auditVars
  BY <1>2, <1>4 DEF auditVars, vars
<1>5. ASSUME NEW s \in Sessions, NEW a \in Sources, NEW t \in CallTimes,
             AuditAsk(s, FoldIp(a), t)
      PROVE  [Next]_vars /\ LogTyped' /\ LogAccounted'
  <2> DEFINE h == FoldIp(a)
  <2>1. h \in Hosts /\ t = now
    BY <1>1, CallsCarryTheTime DEF Hosts
  <2> HIDE DEF h
  <2>2. Next
    BY <1>5 DEF AuditAsk, Next
  <2>3. /\ Allow(s, h, now)
        /\ log' = IF answered' THEN Append(log, [to |-> s, from |-> h, at |-> now]) ELSE log
    BY <1>5, <2>1 DEF AuditAsk, h
  <2>4. CASE Answered(s, h, now)
    BY <2>1, <2>2, <2>3, <2>4, AnsweredAccounted DEF Answered
  <2>5. CASE RefusedBySession(s, h, now)
    <3>1. /\ Looked(perSession, perSession', s, now) /\ Looked(perSource, perSource', h, now)
          /\ global' = global /\ ~answered'
      BY <2>5 DEF RefusedBySession, Looked
    <3> QED
      BY <1>1, <2>1, <2>2, <2>3, <3>1, UnansweredAccounted
  <2>6. CASE RefusedBySource(s, h, now)
    <3>1. /\ Looked(perSession, perSession', s, now) /\ Looked(perSource, perSource', h, now)
          /\ global' = global /\ ~answered'
      BY <2>6 DEF RefusedBySource, Looked
    <3> QED
      BY <1>1, <2>1, <2>2, <2>3, <3>1, UnansweredAccounted
  <2>7. CASE RefusedByGlobal(s, h, now)
    <3>1. /\ Looked(perSession, perSession', s, now) /\ Looked(perSource, perSource', h, now)
          /\ global' = global /\ ~answered'
      BY <2>7 DEF RefusedByGlobal, Looked
    <3> QED
      BY <1>1, <2>1, <2>2, <2>3, <3>1, UnansweredAccounted
  <2> QED
    BY <2>3, <2>4, <2>5, <2>6, <2>7 DEF Allow
<1> QED
  BY <1>3, <1>4, <1>5 DEF AuditNext

LEMMA AuditStart == AuditInit => AuditInv
<1> SUFFICES ASSUME AuditInit PROVE AuditInv
  OBVIOUS
<1>1. StrongInv
  BY InitPromise DEF AuditInit
<1>2. log = << >> /\ DOMAIN log = {} /\ LogTyped
  BY DEF AuditInit, LogTyped
<1>3. \A k : AnswersTo(k) = {} /\ AnswersFrom(k) = {}
  BY <1>2 DEF AnswersTo, AnswersFrom
<1>4. DOMAIN perSession = {} /\ DOMAIN perSource = {}
  BY DEF AuditInit, Init, Untracked
<1>5. Accounted(log, DOMAIN log, global, GlobalCapacity, GlobalWindow)
  BY <1>2, AccountOpened, LimiterAssumption DEF AuditInit, Init
<1>6. LogAccounted
  BY <1>3, <1>4, <1>5 DEF LogAccounted, AllAccounted
<1> QED
  BY <1>1, <1>2, <1>6 DEF AuditInv

LEMMA AuditInvHolds ==
  ASSUME ExactTime
  PROVE  AuditSpec => []AuditInv
<1>1. ASSUME AuditInv, [AuditNext]_auditVars PROVE AuditInv'
  <2>1. [Next]_vars /\ LogTyped' /\ LogAccounted'
    BY <1>1, AuditStep
  <2>2. StrongInv'
    BY <1>1, <2>1, NextSound DEF AuditInv
  <2> QED
    BY <2>1, <2>2 DEF AuditInv
<1> QED
  BY <1>1, AuditStart, PTL DEF AuditSpec

(* The log and the buckets agree, whatever is asked and by whomever.       *)
THEOREM LimiterLogAccounted ==
  ASSUME ExactTime
  PROVE  AuditSpec => []LogAccounted
<1>1. AuditInv => LogAccounted
  BY DEF AuditInv
<1> QED
  BY <1>1, AuditInvHolds, PTL

(* In no stretch as long as a window, wherever it begins, is a session or  *)
(* a host that can be tracked answered more than twice its budget, or the  *)
(* node as a whole more than twice the shared one.                         *)
THEOREM LimiterRollingTwice ==
  ASSUME ExactTime
  PROVE  AuditSpec => []RollingTwice
<1>1. ASSUME AuditInv, NEW t \in 0..MaxTime
      PROVE  /\ Cardinality(Sessions) <= MaxTracked =>
                  \A s \in Sessions :
                    Cardinality(During(AnswersTo(s), t, SessionWindow)) <= 2 * Capacity
             /\ Cardinality(Hosts) <= MaxTracked =>
                  \A h \in Hosts :
                    Cardinality(During(AnswersFrom(h), t, SessionWindow)) <= 2 * Capacity
             /\ Cardinality(During(DOMAIN log, t, GlobalWindow)) <= 2 * GlobalCapacity
  <2> USE LimiterAssumption
  <2>1. /\ IsFiniteSet(DOMAIN log) /\ Timed(log, DOMAIN log)
        /\ \A A \in SUBSET DOMAIN log : IsFiniteSet(A) /\ Timed(log, A)
    BY <1>1, LogPlaces DEF AuditInv
  <2>2. ASSUME NEW G, NEW buckets, AllAccounted(log, G, buckets), NEW k \in DOMAIN G,
               G[k] \in SUBSET DOMAIN log
        PROVE  Cardinality(During(G[k], t, SessionWindow)) <= 2 * Capacity
    <3>1. CASE k \in DOMAIN buckets
      <4>1. Accounted(log, G[k], buckets[k], Capacity, SessionWindow)
        BY <2>2, <3>1 DEF AllAccounted
      <4> QED
        BY <2>1, <2>2, <4>1, AccountTwice
    <3>2. CASE k \notin DOMAIN buckets
      <4>1. During(G[k], t, SessionWindow) = {}
        BY <2>2, <3>2 DEF AllAccounted, During
      <4> QED
        BY <4>1, FS_EmptySet
    <3> QED
      BY <3>1, <3>2
  <2>3. ASSUME Cardinality(Sessions) <= MaxTracked, NEW s \in Sessions
        PROVE  Cardinality(During(AnswersTo(s), t, SessionWindow)) <= 2 * Capacity
    <3>1. AllAccounted(log, ToSession, perSession)
      BY <1>1, <2>3 DEF AuditInv, LogAccounted, ToSession
    <3>2. s \in DOMAIN ToSession /\ ToSession[s] = AnswersTo(s) /\ AnswersTo(s) \in SUBSET DOMAIN log
      BY DEF ToSession, AnswersTo
    <3> HIDE DEF ToSession
    <3> QED
      BY <2>2, <3>1, <3>2
  <2>4. ASSUME Cardinality(Hosts) <= MaxTracked, NEW h \in Hosts
        PROVE  Cardinality(During(AnswersFrom(h), t, SessionWindow)) <= 2 * Capacity
    <3>1. AllAccounted(log, FromHost, perSource)
      BY <1>1, <2>4 DEF AuditInv, LogAccounted, FromHost
    <3>2. h \in DOMAIN FromHost /\ FromHost[h] = AnswersFrom(h) /\ AnswersFrom(h) \in SUBSET DOMAIN log
      BY DEF FromHost, AnswersFrom
    <3> QED
      BY <2>2, <3>1, <3>2
  <2>5. Cardinality(During(DOMAIN log, t, GlobalWindow)) <= 2 * GlobalCapacity
    <3>1. Accounted(log, DOMAIN log, global, GlobalCapacity, GlobalWindow)
      BY <1>1 DEF AuditInv, LogAccounted
    <3> QED
      BY <2>1, <3>1, AccountTwice
  <2> QED
    BY <2>3, <2>4, <2>5
<1>2. AuditInv => RollingTwice
  BY <1>1 DEF RollingTwice
<1> QED
  BY <1>2, AuditInvHolds, PTL
=============================================================================
