--------------------------- MODULE ObserveLimiter ---------------------------
(***************************************************************************)
(* ObserveLimiter of src/src/observe.rs: the abuse bounds on answering     *)
(* dig.getObservedAddress.  A call of allow() is one action with one of    *)
(* four outcomes; the HashMaps are partial functions from a session id or  *)
(* a folded source address to its token bucket.                            *)
(*                                                                         *)
(* Time is the caller's: every call carries a now_ms.  Callers read the    *)
(* clock before they take the limiter's lock, so a call may carry a time   *)
(* up to Lag behind the latest one; Lag = 0 is a caller that reads it      *)
(* under the lock.                                                         *)
(***************************************************************************)
EXTENDS Scope, FiniteSets

CONSTANTS
  Sessions,       \* authenticated peer ids
  Sources,        \* transport source addresses, in any IPv6 spelling
  Capacity,       \* per_session_and_source_per_minute
  GlobalCapacity, \* global_per_second
  MaxTracked,     \* MAX_TRACKED_SOURCES
  SessionWindow,  \* SESSION_SOURCE_WINDOW_MS, in ticks
  GlobalWindow,   \* GLOBAL_WINDOW_MS, in ticks
  Lag,            \* how far a call's now_ms may be behind the clock
  MaxTime         \* bound on the clock

ASSUME LimiterAssumption ==
  /\ IsFiniteSet(Sessions) /\ IsFiniteSet(Sources)
  /\ Sources \subseteq IpAddr
  /\ Capacity \in Nat /\ GlobalCapacity \in Nat
  /\ MaxTracked \in Nat \ {0}
  /\ SessionWindow \in Nat \ {0} /\ GlobalWindow \in Nat \ {0}
  /\ Lag \in Nat /\ MaxTime \in Nat

VARIABLES
  now,         \* the clock
  perSession,  \* session -> bucket, partial
  perSource,   \* folded source -> bucket, partial
  global,      \* the shared bucket
  answered     \* what the last allow() returned

vars == << now, perSession, perSource, global, answered >>

Hosts == { FoldIp(a) : a \in Sources }

Bucket == [tokens : Nat, window : Nat, lastSeen : Nat]

-----------------------------------------------------------------------------
(* TokenBucket.  capacity and the window's width are passed on every call. *)

NewBucket(capacity, t, width) ==
  [tokens |-> capacity, window |-> t \div width, lastSeen |-> t]

Peek(bucket, t, width) == t \div width # bucket.window \/ bucket.tokens > 0

(* A mutant of Spend: refills without moving to the new window. *)
SpendStaleWindow(bucket, capacity, t, width) ==
  LET held == IF t \div width # bucket.window THEN capacity ELSE bucket.tokens
  IN [tokens   |-> IF held > 0 THEN held - 1 ELSE 0,
      window   |-> bucket.window,
      lastSeen |-> t]

Spend(bucket, capacity, t, width) ==
  LET held == IF t \div width # bucket.window THEN capacity ELSE bucket.tokens
  IN [tokens   |-> IF held > 0 THEN held - 1 ELSE 0,
      window   |-> t \div width,
      lastSeen |-> t]

Touch(bucket, t) == [bucket EXCEPT !.lastSeen = t]

(* min_by_key over a HashMap: any of the entries seen least recently. *)
LeastRecentlySeen(buckets) ==
  { k \in DOMAIN buckets :
      \A j \in DOMAIN buckets : buckets[k].lastSeen <= buckets[j].lastSeen }

With(buckets, kept, key, t) ==
  [k \in kept \union {key} |->
     IF k = key THEN NewBucket(Capacity, t, SessionWindow) ELSE buckets[k]]

(* A mutant of BucketFor: makes room one insertion late. *)
BucketForLate(buckets, key, t) ==
  IF key \in DOMAIN buckets THEN { buckets }
  ELSE IF Cardinality(DOMAIN buckets) > MaxTracked
       THEN { With(buckets, DOMAIN buckets \ {victim}, key, t) :
                victim \in LeastRecentlySeen(buckets) }
       ELSE { With(buckets, DOMAIN buckets, key, t) }

(* bucket_for: the maps it may leave behind. *)
BucketFor(buckets, key, t) ==
  IF key \in DOMAIN buckets THEN { buckets }
  ELSE IF Cardinality(DOMAIN buckets) >= MaxTracked
       THEN { With(buckets, DOMAIN buckets \ {victim}, key, t) :
                victim \in LeastRecentlySeen(buckets) }
       ELSE { With(buckets, DOMAIN buckets, key, t) }

-----------------------------------------------------------------------------
Untracked == [k \in {} |-> NewBucket(Capacity, 0, SessionWindow)]

Init == /\ now \in 0..MaxTime
        /\ perSession = Untracked
        /\ perSource  = Untracked
        /\ global     = NewBucket(GlobalCapacity, 0, GlobalWindow)
        /\ answered   = FALSE

(* The four ways through allow(session, source, t), host = fold_ip(source). *)

(* A mutant of RefusedBySession: a throttled session is not touched. *)
RefusedBySessionUntouched(s, h, t) ==
  \E sessions \in BucketFor(perSession, s, t) :
     /\ ~Peek(sessions[s], t, SessionWindow)
     /\ perSession' = sessions
     /\ answered' = FALSE
     /\ UNCHANGED << now, perSource, global >>

RefusedBySession(s, h, t) ==
  \E sessions \in BucketFor(perSession, s, t) :
     /\ ~Peek(sessions[s], t, SessionWindow)
     /\ perSession' = [sessions EXCEPT ![s] = Touch(@, t)]
     /\ answered' = FALSE
     /\ UNCHANGED << now, perSource, global >>

RefusedBySource(s, h, t) ==
  \E sessions \in BucketFor(perSession, s, t), hosts \in BucketFor(perSource, h, t) :
     /\ Peek(sessions[s], t, SessionWindow)
     /\ ~Peek(hosts[h], t, SessionWindow)
     /\ perSession' = sessions
     /\ perSource' = [hosts EXCEPT ![h] = Touch(@, t)]
     /\ answered' = FALSE
     /\ UNCHANGED << now, global >>

(* A mutant of RefusedByGlobal: the narrower budgets are charged before    *)
(* the shared one is looked at.                                            *)
RefusedByGlobalCharging(s, h, t) ==
  \E sessions \in BucketFor(perSession, s, t), hosts \in BucketFor(perSource, h, t) :
     /\ Peek(sessions[s], t, SessionWindow)
     /\ Peek(hosts[h], t, SessionWindow)
     /\ ~Peek(global, t, GlobalWindow)
     /\ perSession' = [sessions EXCEPT ![s] = Spend(@, Capacity, t, SessionWindow)]
     /\ perSource' = [hosts EXCEPT ![h] = Spend(@, Capacity, t, SessionWindow)]
     /\ answered' = FALSE
     /\ UNCHANGED << now, global >>

RefusedByGlobal(s, h, t) ==
  \E sessions \in BucketFor(perSession, s, t), hosts \in BucketFor(perSource, h, t) :
     /\ Peek(sessions[s], t, SessionWindow)
     /\ Peek(hosts[h], t, SessionWindow)
     /\ ~Peek(global, t, GlobalWindow)
     /\ perSession' = sessions
     /\ perSource' = hosts
     /\ answered' = FALSE
     /\ UNCHANGED << now, global >>

Answered(s, h, t) ==
  \E sessions \in BucketFor(perSession, s, t), hosts \in BucketFor(perSource, h, t) :
     /\ Peek(sessions[s], t, SessionWindow)
     /\ Peek(hosts[h], t, SessionWindow)
     /\ Peek(global, t, GlobalWindow)
     /\ perSession' = [sessions EXCEPT ![s] = Spend(@, Capacity, t, SessionWindow)]
     /\ perSource' = [hosts EXCEPT ![h] = Spend(@, Capacity, t, SessionWindow)]
     /\ global' = Spend(global, GlobalCapacity, t, GlobalWindow)
     /\ answered' = TRUE
     /\ now' = now

Allow(s, h, t) == \/ RefusedBySession(s, h, t)
                  \/ RefusedBySource(s, h, t)
                  \/ RefusedByGlobal(s, h, t)
                  \/ Answered(s, h, t)

CallTimes == { t \in 0..now : now - t <= Lag }

Tick == /\ now < MaxTime
        /\ now' = now + 1
        /\ UNCHANGED << perSession, perSource, global, answered >>

Next == \/ Tick
        \/ \E s \in Sessions, a \in Sources, t \in CallTimes : Allow(s, FoldIp(a), t)

Spec == Init /\ [][Next]_vars

-----------------------------------------------------------------------------
(* Type invariant: partial maps from callers to buckets, times not ahead   *)
(* of the clock.                                                           *)
Buckets(keys, map) ==
  /\ DOMAIN map \subseteq keys
  /\ map \in [DOMAIN map -> Bucket]

TypeOK == /\ now \in Nat
          /\ Buckets(Sessions, perSession)
          /\ Buckets(Hosts, perSource)
          /\ global \in Bucket
          /\ answered \in BOOLEAN

(* However many distinct callers ask, and in whatever order their clock    *)
(* readings arrive, neither map holds more than MAX_TRACKED_SOURCES: the   *)
(* bound bucket_for keeps although a refused request is tracked too.       *)
MapsBounded == /\ Cardinality(DOMAIN perSession) <= MaxTracked
               /\ Cardinality(DOMAIN perSource) <= MaxTracked

(* A refused call costs nobody an answer: for every caller tracked before  *)
(* and after, and for the node as a whole, the tokens and the window they *)
(* belong to are what they were, also when the call's clock reading lags.  *)
RefusalSpendsNothing ==
  [][ ~answered' =>
        /\ global' = global
        /\ \A s \in DOMAIN perSession \intersect DOMAIN perSession' :
             /\ perSession'[s].window = perSession[s].window
             /\ perSession'[s].tokens = perSession[s].tokens
        /\ \A h \in DOMAIN perSource \intersect DOMAIN perSource' :
             /\ perSource'[h].window = perSource[h].window
             /\ perSource'[h].tokens = perSource[h].tokens ]_vars

(* "A 0 capacity in either argument denies every request in that           *)
(* dimension" (observe.rs:219).                                            *)
ZeroCapacityDenies == (Capacity = 0 \/ GlobalCapacity = 0) => ~answered
=============================================================================
