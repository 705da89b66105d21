---------------------------- MODULE ScopeLemmas ----------------------------
(***************************************************************************)
(* What fold_ip does to any address: the facts about Scope, and those of   *)
(* arithmetic, that proofs of other modules rest on.                       *)
(***************************************************************************)
EXTENDS Scope, TLAPS

(* The range of an octet and of a segment. *)
LEMMA OctetRange == \A x : x \in Octet <=> x \in Nat /\ x <= 255
<1>1. MaxOctet \in Nat
  BY DEF MaxOctet
<1>2. \A x : x \in Octet <=> x \in Nat /\ x <= MaxOctet
  BY <1>1 DEF Octet
<1> QED
  BY <1>2 DEF MaxOctet

LEMMA SegmentRange == \A x : x \in Segment <=> x \in Nat /\ x <= 65535
<1>1. MaxSegment \in Nat
  BY DEF MaxSegment
<1>2. \A x : x \in Segment <=> x \in Nat /\ x <= MaxSegment
  BY <1>1 DEF Segment
<1> QED
  BY <1>2 DEF MaxSegment

(* Division with remainder, and that it is unique. *)
LEMMA Division ==
  ASSUME NEW a \in Nat, NEW b \in Nat \ {0}
  PROVE  /\ a \div b \in Nat /\ a % b \in 0..(b - 1)
         /\ a = b * (a \div b) + (a % b)
OBVIOUS

LEMMA DivisionUnique ==
  ASSUME NEW a \in Nat, NEW b \in Nat \ {0}, NEW q \in Nat, NEW r \in Nat, r < b,
         a = b * q + r
  PROVE  a \div b = q /\ a % b = r
OBVIOUS

LEMMA Precedes ==
  ASSUME NEW p \in Nat, NEW q \in Nat, p < q, NEW b \in Nat
  PROVE  b * p + b <= b * q
OBVIOUS

(* What comes before the successor is the number itself, across the wrap of *)
(* a counter too.                                                          *)
LEMMA PreviousResidue ==
  ASSUME NEW q \in Nat, NEW W \in Nat \ {0}
  PROVE  (((q + 1) % W) + W - 1) % W = q % W
<1> DEFINE d == q \div W
           r == q % W
<1>1. W \in Nat \ {0}
  OBVIOUS
<1>2. d \in Nat /\ r \in 0..(W - 1) /\ q = W * d + r
  BY <1>1, Division
<1> HIDE DEF d, r
<1>3. CASE r + 1 < W
  <2>1. q + 1 = W * d + (r + 1) /\ r + 1 \in 0..(W - 1)
    BY <1>1, <1>2, <1>3
  <2>2. (q + 1) % W = r + 1
    BY <1>1, <1>2, <2>1, DivisionUnique
  <2>3. r + W = W * 1 + r /\ 1 \in Nat /\ r + W \in Nat
    BY <1>1, <1>2
  <2>4. (r + W) % W = r
    BY ONLY <1>1, <1>2, <2>3, DivisionUnique
  <2>5. (r + 1) + W - 1 = r + W
    BY <1>1, <1>2
  <2> QED
    BY <2>2, <2>4, <2>5 DEF r
<1>4. CASE r + 1 = W
  <2>1. q + 1 = W * (d + 1) + 0 /\ 0 \in 0..(W - 1) /\ d + 1 \in Nat
    BY <1>1, <1>2, <1>4
  <2>2. (q + 1) % W = 0
    BY ONLY <1>1, <1>2, <2>1, DivisionUnique
  <2>3. W - 1 = W * 0 + (W - 1) /\ 0 \in Nat /\ W - 1 \in 0..(W - 1) /\ W - 1 \in Nat
    BY <1>1
  <2>4. (W - 1) % W = W - 1
    BY ONLY <1>1, <2>3, DivisionUnique
  <2>5. 0 + W - 1 = W - 1
    BY <1>1
  <2>6. W - 1 = r
    BY <1>1, <1>2, <1>4
  <2> QED
    BY <2>2, <2>4, <2>5, <2>6 DEF r
<1> QED
  BY <1>1, <1>2, <1>3, <1>4

(* Numbers less than b apart and with one residue are the same. *)
LEMMA SameResidue ==
  ASSUME NEW p \in Nat, NEW d \in Nat, NEW b \in Nat \ {0}, d < b, p % b = (p + d) % b
  PROVE  d = 0
<1> PICK x, y, r : x = p \div b /\ y = (p + d) \div b /\ r = p % b
  OBVIOUS
<1>1. /\ x \in Nat /\ y \in Nat /\ r \in Nat
      /\ p = b * x + r /\ p + d = b * y + r
  <2>1. x \in Nat /\ r \in Nat /\ p = b * x + r
    BY Division
  <2>2. p + d \in Nat
    OBVIOUS
  <2>3. y \in Nat /\ p + d = b * y + r
    BY <2>2, Division
  <2> QED
    BY <2>1, <2>3
<1>2. CASE x < y
  <2>1. b * x + b <= b * y /\ b * x \in Nat /\ b * y \in Nat
    BY <1>1, <1>2, Precedes
  <2> QED
    BY <1>1, <2>1
<1>3. CASE y < x
  <2>1. b * y + b <= b * x /\ b * x \in Nat /\ b * y \in Nat
    BY <1>1, <1>3, Precedes
  <2> QED
    BY <1>1, <2>1
<1>4. CASE x = y
  BY <1>1, <1>4
<1> QED
  BY <1>1, <1>2, <1>3, <1>4

(* An address has one family. *)
LEMMA FamiliesDisjoint == V4 \intersect V6 = {}
<1> SUFFICES ASSUME NEW v \in V4, v \in V6 PROVE FALSE
  OBVIOUS
<1>1. DOMAIN v = 1..4 /\ DOMAIN v = 1..8
  BY DEF V4, V6
<1>2. 5 \in 1..8 /\ 5 \notin 1..4
  OBVIOUS
<1> QED
  BY <1>1, <1>2

LEMMA FoldV4 == ASSUME NEW v \in V4 PROVE FoldIp(v) = v
BY FamiliesDisjoint DEF FoldIp

LEMMA OctetsOf ==
  ASSUME NEW v \in V4
  PROVE  /\ v[1] \in Octet /\ v[2] \in Octet /\ v[3] \in Octet /\ v[4] \in Octet
         /\ v = << v[1], v[2], v[3], v[4] >>
BY DEF V4

LEMMA SegmentsOf ==
  ASSUME NEW w \in V6
  PROVE  w[7] \in Segment /\ w[8] \in Segment
BY DEF V6

-----------------------------------------------------------------------------
(* Two octets make a segment and come back from it, and a segment is two.  *)
LEMMA SegmentOfOctets ==
  ASSUME NEW x \in Octet, NEW y \in Octet, NEW m, m = x * 256 + y
  PROVE  m \in Segment /\ m \div 256 = x /\ m % 256 = y
<1>1. x \in Nat /\ x <= 255 /\ y \in Nat /\ y <= 255
  BY OctetRange
<1>2. m \in Nat /\ m <= 65535
  BY <1>1, SMTT(30)
<1>3. m \div 256 = x
  BY <1>1, SMTT(30)
<1>4. m % 256 = y
  BY <1>1, SMTT(30)
<1> QED
  BY <1>2, <1>3, <1>4, SegmentRange

LEMMA OctetsOfSegment ==
  ASSUME NEW m \in Segment
  PROVE  m \div 256 \in Octet /\ m % 256 \in Octet
<1>1. m \in Nat /\ m <= 65535
  BY SegmentRange
<1>2. /\ m \div 256 \in Nat /\ m \div 256 <= 255
      /\ m % 256 \in Nat /\ m % 256 <= 255
  BY <1>1
<1> QED
  BY <1>2, OctetRange

(* fold_ip undoes both embeddings. *)
LEMMA FoldEmbedded ==
  ASSUME NEW v \in V4, NEW sixth \in {0, 65535}
  PROVE  FoldIp(<< 0, 0, 0, 0, 0, sixth, v[1] * 256 + v[2], v[3] * 256 + v[4] >>) = v
<1> DEFINE m == v[1] * 256 + v[2]
           n == v[3] * 256 + v[4]
           w == << 0, 0, 0, 0, 0, sixth, m, n >>
<1>1. /\ v[1] \in Octet /\ v[2] \in Octet /\ v[3] \in Octet /\ v[4] \in Octet
      /\ v = << v[1], v[2], v[3], v[4] >>
  BY OctetsOf
<1>2. /\ m \in Segment /\ m \div 256 = v[1] /\ m % 256 = v[2]
      /\ n \in Segment /\ n \div 256 = v[3] /\ n % 256 = v[4]
  BY <1>1, SegmentOfOctets
<1> HIDE DEF m, n
<1>3. 0 \in Segment /\ sixth \in Segment
  BY SegmentRange
<1>4. w \in V6
  BY <1>2, <1>3 DEF V6
<1>5. EmbedsV4(w)
  BY DEF EmbedsV4
<1>6. EmbeddedV4(w) = v
  BY <1>1, <1>2 DEF EmbeddedV4
<1>7. FoldIp(w) = v
  BY <1>4, <1>5, <1>6 DEF FoldIp
<1> QED
  BY <1>7 DEF m, n

LEMMA FoldEmbeddings ==
  ASSUME NEW v \in V4
  PROVE  /\ FoldIp(MappedV6(v)) = v /\ FoldIp(CompatV6(v)) = v
         /\ MappedV6(v) \in V6 /\ CompatV6(v) \in V6
<1>1. FoldIp(MappedV6(v)) = v /\ FoldIp(CompatV6(v)) = v
  BY FoldEmbedded DEF MappedV6, CompatV6
<1> DEFINE m == v[1] * 256 + v[2]
           n == v[3] * 256 + v[4]
<1>2. /\ v[1] \in Octet /\ v[2] \in Octet /\ v[3] \in Octet /\ v[4] \in Octet
  BY OctetsOf
<1>3. m \in Segment /\ n \in Segment
  BY <1>2, SegmentOfOctets
<1> HIDE DEF m, n
<1>4. 0 \in Segment /\ 65535 \in Segment
  BY SegmentRange
<1>5. << 0, 0, 0, 0, 0, 65535, m, n >> \in V6 /\ << 0, 0, 0, 0, 0, 0, m, n >> \in V6
  BY <1>3, <1>4 DEF V6
<1> QED
  BY <1>1, <1>5 DEF MappedV6, CompatV6, m, n

(* What an IPv6 address can embed is an IPv4 address. *)
LEMMA EmbeddedType ==
  ASSUME NEW ip \in V6
  PROVE  EmbeddedV4(ip) \in V4
<1>1. ip[7] \in Segment /\ ip[8] \in Segment
  BY SegmentsOf
<1>2. /\ ip[7] \div 256 \in Octet /\ ip[7] % 256 \in Octet
      /\ ip[8] \div 256 \in Octet /\ ip[8] % 256 \in Octet
  BY <1>1, OctetsOfSegment
<1>3. ASSUME NEW a \in Octet, NEW b \in Octet, NEW c \in Octet, NEW d \in Octet
      PROVE  << a, b, c, d >> \in V4
  BY DEF V4
<1> QED
  BY <1>2, <1>3 DEF EmbeddedV4

(* Folding is done once: a folded address is an address and stays as it is. *)
THEOREM FoldIpIdempotent ==
  ASSUME NEW ip \in IpAddr
  PROVE  FoldIp(ip) \in IpAddr /\ FoldIp(FoldIp(ip)) = FoldIp(ip)
<1>1. CASE ip \in V6 /\ EmbedsV4(ip)
  <2>1. EmbeddedV4(ip) \in V4
    BY <1>1, EmbeddedType
  <2> QED
    BY <1>1, <2>1, FoldV4 DEF FoldIp, IpAddr
<1>2. CASE ~(ip \in V6 /\ EmbedsV4(ip))
  BY <1>2 DEF FoldIp
<1> QED
  BY <1>1, <1>2
=============================================================================
