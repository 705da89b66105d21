---------------------- MODULE ObserveLimiterRefinement ----------------------
(***************************************************************************)
(* ObserveLimiter keeps the promise of AnswerBudget when every call        *)
(* carries the current time and no capacity is zero.  What a caller has    *)
(* used is what is missing from its bucket, if it has one and the bucket   *)
(* belongs to the current window: a bucket is refilled by the call that    *)
(* finds it stale, the promise is renewed when the window begins.          *)
(***************************************************************************)
EXTENDS ObserveLimiter

(* What the promise asks of the constants. *)
ExactTime == Lag = 0 /\ Capacity > 0 /\ GlobalCapacity > 0

UsedOf(bucket, capacity, width) ==
  IF bucket.window = now \div width THEN capacity - bucket.tokens ELSE 0

Used(buckets, keys) ==
  [k \in keys |-> IF k \in DOMAIN buckets
                  THEN UsedOf(buckets[k], Capacity, SessionWindow) ELSE 0]

Promise == INSTANCE AnswerBudget WITH
  usedBy    <- Used(perSession, Sessions),
  usedFrom  <- Used(perSource, Hosts),
  usedInAll <- UsedOf(global, GlobalCapacity, GlobalWindow)

(* ObserveLimiter answers exactly when session, source and node all have   *)
(* room in the current window, charges each of them once, and forgets a    *)
(* caller's use early only where the callers outnumber MAX_TRACKED_SOURCES. *)
KeepsPromise == Promise!Spec

(* The strengthening the refinement rests on: no bucket holds more than    *)
(* its capacity or belongs to a window that has not begun.                 *)
Sound(bucket, capacity, width) == /\ bucket.tokens <= capacity
                                  /\ bucket.window <= now \div width

BucketsSound ==
  /\ \A s \in DOMAIN perSession : Sound(perSession[s], Capacity, SessionWindow)
  /\ \A h \in DOMAIN perSource : Sound(perSource[h], Capacity, SessionWindow)
  /\ Sound(global, GlobalCapacity, GlobalWindow)

LimiterInv == TypeOK /\ MapsBounded /\ BucketsSound
=============================================================================
