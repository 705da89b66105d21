------------------------ MODULE PeerObservationProofs ------------------------
(***************************************************************************)
(* PeerObservation for any links, sessions, budgets and lag.  The composed *)
(* responder takes only steps of the limiter, so that what is proved of    *)
(* ObserveLimiter holds in it; a peer is told its own address only; and a  *)
(* throttled session is forgotten only for a crowd.                        *)
(*                                                                         *)
(* The last rests on Recorded: a tracked session's last_seen_ms is no      *)
(* later than its latest call and, up to the lag, no earlier than its last *)
(* call that counts as being seen.                                         *)
(***************************************************************************)
EXTENDS PeerObservation, ObserveLimiterProofs, ScopeLemmas

(* A call to the limiter is one of the calls ObserveLimiter models. *)
LEMMA LimitedAllows ==
  ASSUME NEW link \in Links, NEW t \in CallTimes, Limited(link, t)
  PROVE  /\ link.session \in Sessions
         /\ FoldIp(link.meta.remote.ip) \in Hosts
         /\ Allow(link.session, FoldIp(link.meta.remote.ip), t)
BY LinksAssumption DEF Limited, Hosts

LEMMA ResponderStep == [RNext]_allVars => [Next]_vars
<1> SUFFICES ASSUME [RNext]_allVars PROVE [Next]_vars
  OBVIOUS
<1>1. CASE Tick /\ UNCHANGED responder
  BY <1>1 DEF Next
<1>2. ASSUME NEW link \in Links, DeclineUnlimited(link) PROVE UNCHANGED vars
  BY <1>2 DEF DeclineUnlimited
<1>3. ASSUME NEW link \in Links, NEW t \in CallTimes, Limited(link, t) PROVE Next
  BY <1>3, LinksAssumption DEF Limited, Next
<1>4. CASE UNCHANGED allVars
  BY <1>4 DEF allVars
<1> QED
  BY <1>1, <1>2, <1>3, <1>4 DEF RNext

(* The responder of a node is an ObserveLimiter: its maps are bounded and  *)
(* its refusals charge nobody, also of calls it declines for their link.   *)
THEOREM ResponderLimits == RSpec => Spec /\ []MapsBounded /\ RefusalSpendsNothing
<1>1. RInit => Init
  BY DEF RInit
<1>2. RSpec => Spec
  BY <1>1, ResponderStep, PTL DEF RSpec, Spec
<1> QED
  BY <1>2, LimiterMapsBounded, LimiterRefusalSpendsNothing, PTL

LEMMA ResponderInv == RSpec => []Inv
<1>1. RInit => Init
  BY DEF RInit
<1> QED
  BY <1>1, ResponderStep, InitInv, NextInv, PTL DEF RSpec

-----------------------------------------------------------------------------
(* What observe() tells of a link is the address of the peer's traffic.    *)
LEMMA ObservedIsOwn ==
  ASSUME NEW link \in Links, Observe(link.meta).kind = "Told"
  PROVE  /\ Observe(link.meta).addr = FoldAddr(link.actual)
         /\ IsUsableReflexiveAddr(Observe(link.meta).addr)
         /\ Observe(link.meta).addr.ip = FoldIp(link.meta.remote.ip)
<1> DEFINE remote == link.meta.remote
<1>1. /\ link.meta.direction = "Inbound" /\ link.meta.path = "Direct"
      /\ ScopeOf(remote) # NeverDialable
      /\ Observe(link.meta) = Told(FoldAddr(remote))
  BY DEF Observe, Declined
<1>2. remote \in SocketAddr
  BY LinksAssumption DEF SessionMeta
<1>3. remote.ip \in IpAddr
  BY <1>2 DEF SocketAddr
<1>4. FoldAddr(remote).ip = FoldIp(remote.ip) /\ FoldAddr(remote).port = remote.port
  BY <1>2 DEF SocketAddr, FoldAddr
<1>5. ScopeOfIp(FoldIp(remote.ip)) = ScopeOfIp(remote.ip)
  BY <1>3, FoldIpIdempotent DEF ScopeOfIp
<1>6. IsUsableReflexiveAddr(FoldAddr(remote))
  BY <1>1, <1>4, <1>5 DEF IsUsableReflexiveAddr, ScopeOf
<1>7. FoldAddr(remote) = FoldAddr(link.actual)
  BY <1>1, LinksAssumption
<1> QED
  BY <1>1, <1>4, <1>6, <1>7 DEF Told

(* A call that is answered tracks its session and its source. *)
LEMMA AnsweredTracks ==
  ASSUME Inv, NEW s \in Sessions, NEW h \in Hosts, NEW t \in Nat,
         Allow(s, h, t), answered'
  PROVE  s \in DOMAIN perSession' /\ h \in DOMAIN perSource'
<1>1. Answered(s, h, t)
  BY DEF Allow, RefusedBySession, RefusedBySource, RefusedByGlobal
<1>2. PICK sessions \in BucketFor(perSession, s, t), hosts \in BucketFor(perSource, h, t) :
        /\ perSession' = [sessions EXCEPT
                            ![s] = Spend(sessions[s], Capacity, t, SessionWindow)]
        /\ perSource' = [hosts EXCEPT
                           ![h] = Spend(hosts[h], Capacity, t, SessionWindow)]
  BY <1>1 DEF Answered
<1>3. Buckets(Sessions, perSession) /\ Buckets(Hosts, perSource)
  BY DEF Inv, TypeOK
<1>4. s \in DOMAIN sessions /\ h \in DOMAIN hosts
  BY <1>3, BucketForType
<1> QED
  BY <1>2, <1>4

(* observe.rs:91-105: a peer is told the address its own traffic has, and  *)
(* the host it is told of is the host that was charged; for every set of   *)
(* links and both orders of asking observe() and the limiter.              *)
THEOREM ResponderToldIsOwnAddress == RSpec => []ToldIsOwnAddress
<1>1. RInit => ToldIsOwnAddress
  BY DEF RInit, ToldIsOwnAddress
<1>2. Inv /\ ToldIsOwnAddress /\ [RNext]_allVars => ToldIsOwnAddress'
  <2> SUFFICES ASSUME Inv, ToldIsOwnAddress, [RNext]_allVars PROVE ToldIsOwnAddress'
    OBVIOUS
  <2>1. CASE (Tick /\ UNCHANGED responder) \/ UNCHANGED allVars
    BY <2>1 DEF Tick, responder, allVars, vars, ToldIsOwnAddress
  <2>2. ASSUME NEW link \in Links, DeclineUnlimited(link) PROVE ToldIsOwnAddress'
    BY <2>2 DEF DeclineUnlimited, Reply, ToldIsOwnAddress
  <2>3. ASSUME NEW link \in Links, NEW t \in CallTimes, Limited(link, t)
        PROVE  ToldIsOwnAddress'
    <3> DEFINE s == link.session
               h == FoldIp(link.meta.remote.ip)
               answer == IF answered' THEN Observe(link.meta) ELSE Declined("RateLimited")
    <3>1. s \in Sessions /\ h \in Hosts /\ Allow(s, h, t) /\ t \in Nat
      BY <2>3, LimitedAllows, CallTimeType DEF Inv, TypeOK
    <3>2. Reply(link, answer)
      BY <2>3 DEF Limited
    <3>3. CASE answer.kind # "Told"
      BY <3>2, <3>3 DEF Reply, ToldIsOwnAddress
    <3>4. CASE answer.kind = "Told"
      <4>1. answered' /\ answer = Observe(link.meta)
        BY <3>4 DEF Declined
      <4>2. s \in DOMAIN perSession' /\ h \in DOMAIN perSource'
        BY <3>1, <4>1, AnsweredTracks
      <4>3. told' = { [link |-> link, addr |-> Observe(link.meta).addr] }
        BY <3>2, <3>4, <4>1 DEF Reply
      <4>4. /\ Observe(link.meta).addr = FoldAddr(link.actual)
            /\ IsUsableReflexiveAddr(Observe(link.meta).addr)
            /\ Observe(link.meta).addr.ip = h
        BY <3>4, <4>1, ObservedIsOwn
      <4> QED
        BY <4>2, <4>3, <4>4 DEF ToldIsOwnAddress
    <3> QED
      BY <3>3, <3>4
  <2> QED
    BY <2>1, <2>2, <2>3 DEF RNext
<1> QED
  BY <1>1, <1>2, ResponderInv, PTL DEF RSpec

-----------------------------------------------------------------------------
(* The eviction order.                                                     *)

(* What bucket_for keeps: all entries, or all but one seen least recently  *)
(* where there is no room for another.                                     *)
LEMMA BucketForKeeps ==
  ASSUME NEW map, NEW key, NEW t, NEW found \in BucketFor(map, key, t)
  PROVE  \/ key \in DOMAIN map /\ found = map
         \/ /\ key \notin DOMAIN map
            /\ \E kept \in SUBSET DOMAIN map :
                 /\ found = With(map, kept, key, t)
                 /\ \/ kept = DOMAIN map
                    \/ /\ Cardinality(DOMAIN map) >= MaxTracked
                       /\ \E victim \in LeastRecentlySeen(map) :
                            kept = DOMAIN map \ {victim}
BY DEF BucketFor, LeastRecentlySeen

(* What a call does to the sessions' map: bucket_for's part, and the       *)
(* caller's bucket, which is refreshed or left as bucket_for had it.       *)
LEMMA SessionsAfter ==
  ASSUME Inv, NEW s \in Sessions, NEW h \in Hosts, NEW t \in Nat, Allow(s, h, t)
  PROVE  \E sessions \in BucketFor(perSession, s, t) :
           /\ DOMAIN perSession' = DOMAIN sessions
           /\ \A k \in DOMAIN sessions \ {s} : perSession'[k] = sessions[k]
           /\ \/ perSession'[s].lastSeen = t
              \/ /\ perSession' = sessions
                 /\ ~answered' /\ Peek(sessions[s], t, SessionWindow)
<1>1. \A sessions \in BucketFor(perSession, s, t) :
        s \in DOMAIN sessions /\ sessions[s] \in Bucket
  <2> SUFFICES ASSUME NEW sessions \in BucketFor(perSession, s, t)
               PROVE  s \in DOMAIN sessions /\ sessions[s] \in Bucket
    OBVIOUS
  <2>1. Buckets(Sessions, sessions) /\ s \in DOMAIN sessions
    BY BucketForType DEF Inv, TypeOK
  <2> QED
    BY <2>1 DEF Buckets
<1>2. CASE RefusedBySession(s, h, t)
  <2>1. PICK sessions \in BucketFor(perSession, s, t) :
          perSession' = [sessions EXCEPT ![s] = Touch(sessions[s], t)]
    BY <1>2 DEF RefusedBySession
  <2>2. Touch(sessions[s], t).lastSeen = t
    BY <1>1 DEF Touch, Bucket
  <2> QED
    BY <1>1, <2>1, <2>2
<1>3. CASE Answered(s, h, t)
  <2>1. PICK sessions \in BucketFor(perSession, s, t) :
          perSession' = [sessions EXCEPT
                           ![s] = Spend(sessions[s], Capacity, t, SessionWindow)]
    BY <1>3 DEF Answered
  <2>2. Spend(sessions[s], Capacity, t, SessionWindow).lastSeen = t
    BY DEF Spend
  <2> QED
    BY <1>1, <2>1, <2>2
<1>4. CASE RefusedBySource(s, h, t)
  BY <1>4 DEF RefusedBySource
<1>5. CASE RefusedByGlobal(s, h, t)
  BY <1>5 DEF RefusedByGlobal
<1> QED
  BY <1>2, <1>3, <1>4, <1>5 DEF Allow

-----------------------------------------------------------------------------
HistoryType == /\ asked \in [Sessions -> Int] /\ seen \in [Sessions -> Int]
               /\ \A s \in Sessions : seen[s] <= now

Recorded == \A s \in DOMAIN perSession :
              /\ perSession[s].lastSeen <= asked[s]
              /\ seen[s] - Lag <= perSession[s].lastSeen

(* The sessions other than s that called since s was seen.                 *)
Crowd(s) == { r \in Sessions \ {s} : asked[r] # Never /\ asked[r] >= seen[s] - Lag }

CrowdInv == HistoryType /\ Recorded /\ CrowdedOutOnly

(* The histories after a call. *)
LEMMA HistoryAfter ==
  ASSUME Inv, CrowdInv, NEW link \in Links, NEW t \in CallTimes, Limited(link, t)
  PROVE  LET s == link.session
         IN /\ HistoryType'
            /\ \A r \in Sessions : asked'[r] >= asked[r]
            /\ \A r \in Sessions \ {s} : asked'[r] = asked[r] /\ seen'[r] = seen[r]
            /\ asked'[s] >= t /\ asked'[s] \in Int
            /\ \/ seen'[s] = t
               \/ seen'[s] = seen[s]
            /\ ~answered' /\ Peek(perSession'[s], t, SessionWindow) => seen'[s] = seen[s]
            /\ now' = now /\ t \in Nat /\ t <= now /\ now - t <= Lag
<1> DEFINE s == link.session
<1>1. s \in Sessions /\ t \in Nat /\ t <= now /\ now - t <= Lag /\ now \in Nat
  BY LinksAssumption DEF CallTimes, Inv, TypeOK
<1>2. now' = now
  BY LimitedAllows DEF Allow, RefusedBySession, RefusedBySource, RefusedByGlobal, Answered
<1> DEFINE latest == IF t > asked[s] THEN t ELSE asked[s]
           last   == IF answered' \/ ~Peek(perSession'[s], t, SessionWindow)
                     THEN t ELSE seen[s]
<1>3. asked' = [asked EXCEPT ![s] = latest] /\ seen' = [seen EXCEPT ![s] = last]
  BY DEF Limited
<1>4. asked[s] \in Int /\ seen[s] \in Int /\ seen[s] <= now
  BY <1>1 DEF CrowdInv, HistoryType
<1>5. latest \in Int /\ latest >= t /\ latest >= asked[s]
  BY <1>1, <1>4
<1>6. last \in Int /\ last <= now /\ last \in {t, seen[s]}
  BY <1>1, <1>4
<1> HIDE DEF latest, s
<1>7. asked'[s] = latest /\ seen'[s] = last
  BY <1>1, <1>3 DEF CrowdInv, HistoryType
<1>8. HistoryType'
  BY <1>1, <1>2, <1>3, <1>5, <1>6 DEF CrowdInv, HistoryType
<1>9. \A r \in Sessions : asked'[r] >= asked[r]
  BY <1>3, <1>5 DEF CrowdInv, HistoryType
<1>10. \A r \in Sessions \ {s} : asked'[r] = asked[r] /\ seen'[r] = seen[r]
  BY <1>3 DEF CrowdInv, HistoryType
<1>11. ~answered' /\ Peek(perSession'[s], t, SessionWindow) => last = seen[s]
  OBVIOUS
<1> HIDE DEF last
<1> QED
  BY <1>1, <1>2, <1>5, <1>6, <1>7, <1>8, <1>9, <1>10, <1>11 DEF s

LEMMA RecordedAfter ==
  ASSUME Inv, CrowdInv, NEW link \in Links, NEW t \in CallTimes, Limited(link, t)
  PROVE  Recorded'
<1> DEFINE s == link.session
           h == FoldIp(link.meta.remote.ip)
<1>1. s \in Sessions /\ h \in Hosts /\ Allow(s, h, t) /\ t \in Nat /\ now \in Nat
  BY LimitedAllows, CallTimeType DEF Inv, TypeOK
<1>2. PICK sessions \in BucketFor(perSession, s, t) :
        /\ DOMAIN perSession' = DOMAIN sessions
        /\ \A k \in DOMAIN sessions \ {s} : perSession'[k] = sessions[k]
        /\ \/ perSession'[s].lastSeen = t
           \/ /\ perSession' = sessions
              /\ ~answered' /\ Peek(sessions[s], t, SessionWindow)
  BY <1>1, SessionsAfter
<1>3. /\ \A k \in DOMAIN sessions \ {s} : k \in DOMAIN perSession /\ sessions[k] = perSession[k]
      /\ s \in DOMAIN perSession => sessions[s] = perSession[s]
      /\ s \notin DOMAIN perSession => sessions[s].lastSeen = t
      /\ DOMAIN sessions \subseteq Sessions
  <2> HIDE DEF s, h
  <2>1. \/ sessions = perSession
        \/ /\ s \notin DOMAIN perSession
           /\ \E kept \in SUBSET DOMAIN perSession : sessions = With(perSession, kept, s, t)
    BY BucketForKeeps
  <2>2. DOMAIN perSession \subseteq Sessions
    BY DEF Inv, TypeOK, Buckets
  <2>3. CASE sessions = perSession
    <3>1. s \in DOMAIN sessions
      BY <1>1, <1>2, BucketForType DEF Inv, TypeOK
    <3> QED
      BY <2>2, <2>3, <3>1
  <2>4. ASSUME s \notin DOMAIN perSession, NEW kept \in SUBSET DOMAIN perSession,
               sessions = With(perSession, kept, s, t)
        PROVE  <1>3
    <3>1. /\ DOMAIN sessions = kept \union {s}
          /\ \A k \in kept \ {s} : sessions[k] = perSession[k]
          /\ sessions[s] = NewBucket(Capacity, t, SessionWindow)
      BY <2>4 DEF With
    <3>2. sessions[s].lastSeen = t
      BY <3>1 DEF NewBucket
    <3> QED
      BY <1>1, <2>2, <2>4, <3>1, <3>2
  <2> QED
    BY <2>1, <2>3, <2>4
<1>4. /\ asked \in [Sessions -> Int] /\ seen \in [Sessions -> Int]
      /\ \A r \in Sessions : seen[r] <= now
      /\ \A k \in DOMAIN perSession : /\ perSession[k].lastSeen \in Nat
                                      /\ perSession[k].lastSeen <= asked[k]
                                      /\ seen[k] - Lag <= perSession[k].lastSeen
  BY DEF CrowdInv, HistoryType, Recorded, Inv, TypeOK, Buckets, Bucket
<1>5. Lag \in Nat
  BY LimiterAssumption
<1>6. /\ \A r \in Sessions : asked'[r] >= asked[r]
      /\ \A r \in Sessions \ {s} : asked'[r] = asked[r] /\ seen'[r] = seen[r]
      /\ asked'[s] >= t /\ asked'[s] \in Int
      /\ seen'[s] = t \/ seen'[s] = seen[s]
      /\ ~answered' /\ Peek(perSession'[s], t, SessionWindow) => seen'[s] = seen[s]
      /\ t <= now /\ now - t <= Lag
  BY HistoryAfter
<1> HIDE DEF s, h
<1>7. ASSUME NEW k \in DOMAIN perSession'
      PROVE  /\ perSession'[k].lastSeen <= asked'[k]
             /\ seen'[k] - Lag <= perSession'[k].lastSeen
  <2>1. CASE k # s
    <3>1. /\ perSession'[k] = perSession[k] /\ k \in DOMAIN perSession /\ k \in Sessions
          /\ asked'[k] = asked[k] /\ seen'[k] = seen[k]
      BY <1>2, <1>3, <1>6, <1>7, <2>1
    <3> QED
      BY <1>4, <3>1
  <2>2. CASE k = s /\ perSession'[s].lastSeen = t
    <3>1. seen[s] \in Int /\ seen[s] <= now
      BY <1>1, <1>4
    <3>2. seen'[s] - Lag <= t
      BY <1>1, <1>5, <1>6, <3>1
    <3> QED
      BY <1>6, <2>2, <3>2
  <2>3. CASE k = s /\ perSession' = sessions /\ s \in DOMAIN perSession
             /\ ~answered' /\ Peek(sessions[s], t, SessionWindow)
    <3>1. perSession'[s] = perSession[s] /\ seen'[s] = seen[s]
      BY <1>3, <1>6, <2>3
    <3>2. asked[s] \in Int /\ asked'[s] >= asked[s]
      BY <1>1, <1>4, <1>6
    <3> QED
      BY <1>4, <1>6, <2>3, <3>1, <3>2
  <2>4. CASE k = s /\ perSession' = sessions /\ s \notin DOMAIN perSession
    BY <1>3, <2>2, <2>4
  <2> QED
    BY <1>2, <2>1, <2>2, <2>3, <2>4
<1> QED
  BY <1>7 DEF Recorded

(* Whoever is forgotten was seen no later than all that stay, so they all  *)
(* have called since, and so has the caller that takes the place.          *)
LEMMA CrowdedAfter ==
  ASSUME Inv, CrowdInv, NEW link \in Links, NEW t \in CallTimes, Limited(link, t)
  PROVE  CrowdedOutOnly'
<1> DEFINE s == link.session
           h == FoldIp(link.meta.remote.ip)
           D == DOMAIN perSession
<1>1. s \in Sessions /\ h \in Hosts /\ Allow(s, h, t) /\ t \in Nat /\ now \in Nat
  BY LimitedAllows, CallTimeType DEF Inv, TypeOK
<1>2. PICK sessions \in BucketFor(perSession, s, t) :
        DOMAIN perSession' = DOMAIN sessions
  BY <1>1, SessionsAfter
<1>3. /\ asked \in [Sessions -> Int] /\ seen \in [Sessions -> Int]
      /\ \A r \in Sessions : seen[r] <= now
      /\ D \subseteq Sessions /\ IsFiniteSet(D)
      /\ \A k \in D : /\ perSession[k].lastSeen \in Nat
                      /\ perSession[k].lastSeen <= asked[k]
                      /\ seen[k] - Lag <= perSession[k].lastSeen
  BY DEF CrowdInv, HistoryType, Recorded, Inv, TypeOK, MapsTracked, Tracks, Buckets, Bucket
<1>4. /\ \A r \in Sessions : asked'[r] >= asked[r] /\ asked'[r] \in Int
      /\ \A r \in Sessions \ {s} : asked'[r] = asked[r] /\ seen'[r] = seen[r]
      /\ asked'[s] >= t
      /\ t <= now /\ now - t <= Lag
  BY HistoryAfter DEF HistoryType
<1>5. Lag \in Nat /\ MaxTracked \in Nat
  BY LimiterAssumption
<1> HIDE DEF s, h
<1>6. s \in DOMAIN sessions
  BY <1>1, <1>2, BucketForType DEF Inv, TypeOK
<1>7. ASSUME NEW u \in Sessions, seen'[u] # Never, u \notin DOMAIN perSession'
      PROVE  Cardinality(Crowd(u)') >= MaxTracked
  <2>1. u # s /\ seen'[u] = seen[u]
    BY <1>2, <1>4, <1>6, <1>7
  <2>2. /\ IsFiniteSet(Crowd(u)) /\ Cardinality(Crowd(u)) \in Nat
        /\ IsFiniteSet(Crowd(u)') /\ Cardinality(Crowd(u)') \in Nat
    <3>1. Crowd(u) \subseteq Sessions /\ Crowd(u)' \subseteq Sessions
      BY DEF Crowd
    <3> QED
      BY <3>1, LimiterAssumption, FS_Subset, FS_CardinalityType
  <2>3. CASE u \notin D
    <3>1. Cardinality(Crowd(u)) >= MaxTracked
      BY <1>7, <2>1, <2>3 DEF CrowdInv, CrowdedOutOnly, Crowd
    <3>2. Crowd(u) \subseteq Crowd(u)'
      <4> SUFFICES ASSUME NEW r \in Crowd(u) PROVE r \in Crowd(u)'
        OBVIOUS
      <4>1. /\ r \in Sessions /\ r # u /\ asked[r] # Never
            /\ asked[r] >= seen[u] - Lag /\ asked[r] \in Int /\ seen[u] \in Int
        BY <1>3 DEF Crowd
      <4>2. r # s => asked'[r] = asked[r]
        BY <1>4, <4>1
      <4>3. r = s => asked'[r] \in Nat /\ asked'[r] >= asked[r]
        BY <1>1, <1>4, <4>1
      <4>4. asked'[r] # Never /\ asked'[r] >= seen[u] - Lag
        BY <1>5, <4>1, <4>2, <4>3 DEF Never
      <4> QED
        BY <2>1, <4>1, <4>4 DEF Crowd
    <3> QED
      BY <1>5, <2>2, <3>1, <3>2, FS_Subset
  <2>4. CASE u \in D
    <3>1. /\ s \notin D /\ Cardinality(D) >= MaxTracked
          /\ u \in LeastRecentlySeen(perSession)
      <4>1. \/ sessions = perSession
            \/ /\ s \notin D
               /\ \E kept \in SUBSET D :
                    /\ sessions = With(perSession, kept, s, t)
                    /\ \/ kept = D
                       \/ /\ Cardinality(D) >= MaxTracked
                          /\ \E victim \in LeastRecentlySeen(perSession) : kept = D \ {victim}
        BY BucketForKeeps
      <4>2. u \notin DOMAIN sessions
        BY <1>2, <1>7
      <4> QED
        BY <2>4, <4>1, <4>2 DEF With
    <3> DEFINE R == (D \ {u}) \union {s}
    <3>2. Cardinality(R) = Cardinality(D) /\ IsFiniteSet(R) /\ Cardinality(R) \in Nat
      <4>1. /\ IsFiniteSet(D \ {u}) /\ Cardinality(D \ {u}) = Cardinality(D) - 1
            /\ Cardinality(D) \in Nat
        BY <1>3, <2>4, FS_RemoveElement, FS_CardinalityType
      <4>2. IsFiniteSet(R) /\ Cardinality(R) = Cardinality(D \ {u}) + 1
        BY <3>1, <4>1, FS_AddElement
      <4> QED
        BY <4>1, <4>2
    <3>3. R \subseteq Crowd(u)'
      <4> SUFFICES ASSUME NEW r \in R PROVE r \in Crowd(u)'
        OBVIOUS
      <4>1. r \in Sessions /\ r # u
        BY <1>1, <1>3, <2>1
      <4>2. asked'[r] \in Nat /\ asked'[r] >= seen[u] - Lag
        <5>1. CASE r = s
          <6>1. seen[u] \in Int /\ seen[u] <= now
            BY <1>3
          <6> QED
            BY <1>1, <1>4, <1>5, <4>1, <5>1, <6>1
        <5>2. CASE r \in D /\ r # s
          <6>1. perSession[u].lastSeen <= perSession[r].lastSeen
            BY <3>1, <5>2 DEF LeastRecentlySeen
          <6>2. asked'[r] = asked[r] /\ asked[r] \in Int /\ seen[u] \in Int
            BY <1>3, <1>4, <4>1, <5>2
          <6>3. /\ perSession[r].lastSeen \in Nat /\ perSession[r].lastSeen <= asked[r]
                /\ perSession[u].lastSeen \in Nat
                /\ seen[u] - Lag <= perSession[u].lastSeen
            BY <1>3, <2>4, <5>2
          <6> QED
            BY <1>5, <6>1, <6>2, <6>3
        <5> QED
          BY <5>1, <5>2
      <4>3. asked'[r] # Never
        BY <4>2 DEF Never
      <4> QED
        BY <2>1, <4>1, <4>2, <4>3 DEF Crowd
    <3> QED
      BY <1>5, <2>2, <3>1, <3>2, <3>3, FS_Subset, FS_CardinalityType, <1>3
  <2> QED
    BY <2>3, <2>4
<1> QED
  BY <1>7 DEF CrowdedOutOnly, Crowd

(* "an actively-asking (even if throttled) session isn't the one evicted   *)
(* first" (observe.rs:250-251), for any sessions, bound and lag: whoever   *)
(* was answered or throttled is forgotten only after MAX_TRACKED_SOURCES   *)
(* others have called.                                                     *)
THEOREM ResponderCrowdedOutOnly == RSpec => []CrowdedOutOnly
<1>1. RInit => CrowdInv
  <2> SUFFICES ASSUME RInit PROVE CrowdInv
    OBVIOUS
  <2>1. DOMAIN perSession = {}
    BY DEF RInit, Init, Untracked
  <2>2. now \in Nat
    BY LimiterAssumption DEF RInit, Init
  <2> QED
    BY <2>1, <2>2 DEF RInit, CrowdInv, HistoryType, Recorded, CrowdedOutOnly, Never
<1>2. Inv /\ CrowdInv /\ [RNext]_allVars => CrowdInv'
  <2> SUFFICES ASSUME Inv, CrowdInv, [RNext]_allVars PROVE CrowdInv'
    OBVIOUS
  <2>1. ASSUME UNCHANGED << perSession, asked, seen >>, now' \in {now, now + 1}
        PROVE  CrowdInv'
    <3>1. now \in Nat /\ now' \in Nat /\ now' >= now
      BY <2>1 DEF Inv, TypeOK
    <3>2. HistoryType'
      BY <2>1, <3>1 DEF CrowdInv, HistoryType
    <3> QED
      BY <2>1, <3>2 DEF CrowdInv, Recorded, CrowdedOutOnly
  <2>2. CASE (Tick /\ UNCHANGED responder) \/ UNCHANGED allVars
    BY <2>1, <2>2 DEF Tick, responder, allVars, vars
  <2>3. ASSUME NEW link \in Links, DeclineUnlimited(link) PROVE CrowdInv'
    BY <2>1, <2>3 DEF DeclineUnlimited, vars
  <2>4. ASSUME NEW link \in Links, NEW t \in CallTimes, Limited(link, t)
        PROVE  CrowdInv'
    BY <2>4, HistoryAfter, RecordedAfter, CrowdedAfter DEF CrowdInv
  <2> QED
    BY <2>2, <2>3, <2>4 DEF RNext
<1>3. CrowdInv => CrowdedOutOnly
  BY DEF CrowdInv
<1> QED
  BY <1>1, <1>2, <1>3, ResponderInv, PTL DEF RSpec
=============================================================================
