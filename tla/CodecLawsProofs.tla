--------------------------- MODULE CodecLawsProofs ---------------------------
(***************************************************************************)
(* The properties of MCScope and CodecLaws for every address, message,     *)
(* nonce, secret and time, where the run takes samples.  The address table *)
(* first: its properties hold in every state, that is, of every value of   *)
(* addr.                                                                   *)
(***************************************************************************)
EXTENDS CodecLaws, CodecLemmas, FiniteSetTheorems

(* A prefix lies in an interval of the table. *)
In(p, lo, hi) == lo <= p /\ p <= hi

(* Of each table, the intervals one by one. *)
LEMMA NeverIntervals ==
  ASSUME NEW v, NEW p, p = Prefix24(v)
  PROVE  InTableNeverV4(v) <=>
        \/ In(p, From(0, 0, 0), From(0, 255, 255))
        \/ In(p, From(127, 0, 0), From(127, 255, 255))
        \/ In(p, From(169, 254, 0), From(169, 254, 255))
        \/ In(p, From(192, 0, 0), From(192, 0, 0))
        \/ In(p, From(192, 0, 2), From(192, 0, 2))
        \/ In(p, From(198, 51, 100), From(198, 51, 100))
        \/ In(p, From(203, 0, 113), From(203, 0, 113))
        \/ In(p, From(192, 88, 99), From(192, 88, 99))
        \/ In(p, From(198, 18, 0), From(198, 19, 255))
        \/ In(p, From(224, 0, 0), From(239, 255, 255))
        \/ In(p, From(240, 0, 0), From(255, 255, 255))
BY DEF InTableNeverV4, In

LEMMA PrivateIntervals ==
  ASSUME NEW v, NEW p, p = Prefix24(v)
  PROVE  InTablePrivateV4(v) <=>
        \/ In(p, From(10, 0, 0), From(10, 255, 255))
        \/ In(p, From(172, 16, 0), From(172, 31, 255))
        \/ In(p, From(192, 168, 0), From(192, 168, 255))
        \/ In(p, From(100, 64, 0), From(100, 127, 255))
BY DEF InTablePrivateV4, In

(* The masks of the code as intervals. *)
LEMMA Masks ==
  ASSUME NEW b \in Octet
  PROVE  /\ b \div 2 = 9 <=> 18 <= b /\ b <= 19
         /\ b \div 16 = 1 <=> 16 <= b /\ b <= 31
BY OctetRange

LEMMA NeverMatches ==
  ASSUME NEW v \in V4
  PROVE  IsNeverV4(v) <=> InTableNeverV4(v)
<1>1. PICK a \in Octet, b \in Octet, c \in Octet : v[1] = a /\ v[2] = b /\ v[3] = c
  BY OctetsOf
<1>o. /\ a \in Nat /\ a <= 255
      /\ b \in Nat /\ b <= 255
      /\ c \in Nat /\ c <= 255
  BY OctetRange
<1> DEFINE p == From(a, b, c)
<1>2. p = Prefix24(v)
  BY <1>1 DEF Prefix24, From
<1>3. InTableNeverV4(v) <=>
        \/ In(p, From(0, 0, 0), From(0, 255, 255))
        \/ In(p, From(127, 0, 0), From(127, 255, 255))
        \/ In(p, From(169, 254, 0), From(169, 254, 255))
        \/ In(p, From(192, 0, 0), From(192, 0, 0))
        \/ In(p, From(192, 0, 2), From(192, 0, 2))
        \/ In(p, From(198, 51, 100), From(198, 51, 100))
        \/ In(p, From(203, 0, 113), From(203, 0, 113))
        \/ In(p, From(192, 88, 99), From(192, 88, 99))
        \/ In(p, From(198, 18, 0), From(198, 19, 255))
        \/ In(p, From(224, 0, 0), From(239, 255, 255))
        \/ In(p, From(240, 0, 0), From(255, 255, 255))
  BY <1>2, NeverIntervals
<1>4. In(p, From(0, 0, 0), From(0, 255, 255)) <=> a = 0
  BY <1>o DEF In, From
<1>5. In(p, From(127, 0, 0), From(127, 255, 255)) <=> a = 127
  BY <1>o DEF In, From
<1>6. In(p, From(224, 0, 0), From(239, 255, 255)) <=> a \in 224..239
  BY <1>o DEF In, From
<1>7. In(p, From(240, 0, 0), From(255, 255, 255)) <=> a >= 240
  BY <1>o DEF In, From
<1>8. In(p, From(169, 254, 0), From(169, 254, 255)) <=> a = 169 /\ b = 254
  BY <1>o DEF In, From
<1>9. In(p, From(198, 18, 0), From(198, 19, 255)) <=> a = 198 /\ b \div 2 = 9
  BY <1>o, Masks DEF In, From
<1>10. /\ In(p, From(192, 0, 0), From(192, 0, 0)) <=> a = 192 /\ b = 0 /\ c = 0
       /\ In(p, From(192, 0, 2), From(192, 0, 2)) <=> a = 192 /\ b = 0 /\ c = 2
       /\ In(p, From(198, 51, 100), From(198, 51, 100)) <=> a = 198 /\ b = 51 /\ c = 100
       /\ In(p, From(203, 0, 113), From(203, 0, 113)) <=> a = 203 /\ b = 0 /\ c = 113
       /\ In(p, From(192, 88, 99), From(192, 88, 99)) <=> a = 192 /\ b = 88 /\ c = 99
  BY <1>o DEF In, From
<1> HIDE DEF p
<1>11. IsNeverV4(v) <=>
         \/ a = 0 \/ a = 127 \/ (a = 169 /\ b = 254) \/ a \in 224..239 \/ a >= 240
         \/ (a = 192 /\ b = 0 /\ c = 2) \/ (a = 198 /\ b = 51 /\ c = 100)
         \/ (a = 203 /\ b = 0 /\ c = 113) \/ (a = 192 /\ b = 0 /\ c = 0)
         \/ (a = 192 /\ b = 88 /\ c = 99) \/ (a = 198 /\ b \div 2 = 9)
  BY <1>1 DEF IsNeverV4, IsDocumentationV4
<1> QED
  BY <1>3, <1>4, <1>5, <1>6, <1>7, <1>8, <1>9, <1>10, <1>11

LEMMA PrivateMatches ==
  ASSUME NEW v \in V4
  PROVE  IsPrivateV4(v) <=> InTablePrivateV4(v)
<1>1. PICK a \in Octet, b \in Octet, c \in Octet : v[1] = a /\ v[2] = b /\ v[3] = c
  BY OctetsOf
<1>o. /\ a \in Nat /\ a <= 255
      /\ b \in Nat /\ b <= 255
      /\ c \in Nat /\ c <= 255
  BY OctetRange
<1> DEFINE p == From(a, b, c)
<1>2. p = Prefix24(v)
  BY <1>1 DEF Prefix24, From
<1>3. InTablePrivateV4(v) <=>
        \/ In(p, From(10, 0, 0), From(10, 255, 255))
        \/ In(p, From(172, 16, 0), From(172, 31, 255))
        \/ In(p, From(192, 168, 0), From(192, 168, 255))
        \/ In(p, From(100, 64, 0), From(100, 127, 255))
  BY <1>2, PrivateIntervals
<1>4. In(p, From(10, 0, 0), From(10, 255, 255)) <=> a = 10
  BY <1>o DEF In, From
<1>5. In(p, From(172, 16, 0), From(172, 31, 255)) <=> a = 172 /\ b \div 16 = 1
  BY <1>o, Masks DEF In, From
<1>6. In(p, From(192, 168, 0), From(192, 168, 255)) <=> a = 192 /\ b = 168
  BY <1>o DEF In, From
<1>7. In(p, From(100, 64, 0), From(100, 127, 255)) <=> a = 100 /\ b >= 64 /\ b < 128
  BY <1>o DEF In, From
<1> HIDE DEF p
<1>8. IsPrivateV4(v) <=>
        \/ a = 10 \/ (a = 172 /\ b \div 16 = 1) \/ (a = 192 /\ b = 168)
        \/ (a = 100 /\ b >= 64 /\ b < 128)
  BY <1>1 DEF IsPrivateV4
<1> QED
  BY <1>3, <1>4, <1>5, <1>6, <1>7, <1>8

(* Every IPv4 address has the scope of the table in SPEC.md 5.3.           *)
THEOREM ScopeMatchesTable == MatchesTable
<1> SUFFICES ASSUME addr \in V4
             PROVE  ScopeOfIp(addr) = TableScopeV4(addr)
  BY DEF MatchesTable
<1>1. ScopeOfIp(addr) = ScopeOfV4(addr)
  BY FoldV4 DEF ScopeOfIp
<1>2. ScopeOfV4(addr) = TableScopeV4(addr)
  BY NeverMatches, PrivateMatches DEF ScopeOfV4, TableScopeV4
<1> QED
  BY <1>1, <1>2

-----------------------------------------------------------------------------
(* No spelling of an IPv4 address changes its scope.                       *)
THEOREM ScopeSeesThroughEmbedding == EmbeddingIsTransparent
<1> SUFFICES ASSUME addr \in V4
             PROVE  /\ ScopeOfIp(MappedV6(addr)) = ScopeOfIp(addr)
                    /\ ScopeOfIp(CompatV6(addr)) = ScopeOfIp(addr)
  BY DEF EmbeddingIsTransparent
<1>1. FoldIp(MappedV6(addr)) = addr /\ FoldIp(CompatV6(addr)) = addr
  BY FoldEmbeddings
<1>2. FoldIp(addr) = addr
  BY FoldV4
<1> QED
  BY <1>1, <1>2 DEF ScopeOfIp

-----------------------------------------------------------------------------
(* The masks of the code as intervals of the first segment. *)
LEMMA SegmentMasks ==
  ASSUME NEW x \in Segment
  PROVE  /\ x \div 256 = 255 <=> x >= 65280
         /\ x \div 64 = 1018 <=> 65152 <= x /\ x <= 65215
         /\ x \div 512 = 126 <=> 64512 <= x /\ x <= 65023
<1>1. x \in Nat /\ x <= 65535
  BY SegmentRange
<1> QED
  BY <1>1

(* Every native IPv6 address has the scope of the table in SPEC.md 5.3.    *)
THEOREM NativeScopeMatchesTable == NativeMatchesTable
<1> SUFFICES ASSUME addr \in V6, FoldIp(addr) \in V6
             PROVE  NativeMatchesTable
  BY DEF NativeMatchesTable
<1>1. ~EmbedsV4(addr)
  BY EmbeddedType, FamiliesDisjoint DEF FoldIp
<1>2. ScopeOfIp(addr) = ScopeOfV6(addr)
  BY <1>1, FamiliesDisjoint DEF ScopeOfIp, FoldIp
<1>3. /\ ~(\A i \in 1..8 : addr[i] = 0)
      /\ ~((\A i \in 1..7 : addr[i] = 0) /\ addr[8] = 1)
  BY <1>1 DEF EmbedsV4
<1>4. PICK x \in Segment : x = addr[1]
  BY DEF V6
<1>5. x \in Nat /\ x <= 65535
  BY SegmentRange
<1>6. /\ addr[1] \div 256 = 255 <=> addr[1] >= 65280
      /\ addr[1] \div 64 = 1018 <=> 65152 <= addr[1] /\ addr[1] <= 65215
      /\ addr[1] \div 512 = 126 <=> 64512 <= addr[1] /\ addr[1] <= 65023
  BY <1>4, <1>5, SegmentMasks
<1>7. (\A i \in 2..4 : addr[i] = 0) <=> addr[2] = 0 /\ addr[3] = 0 /\ addr[4] = 0
  OBVIOUS
<1>8. IsNeverV6(addr) <=>
        \/ 65152 <= addr[1] /\ addr[1] <= 65215
        \/ addr[1] >= 65280
        \/ addr[1] = 8193 /\ addr[2] = 3512
        \/ addr[1] = 8193 /\ addr[2] = 2 /\ addr[3] = 0
        \/ addr[1] = 256 /\ addr[2] = 0 /\ addr[3] = 0 /\ addr[4] = 0
  BY <1>3, <1>6, <1>7 DEF IsNeverV6
<1>9. IsPrivateV6(addr) <=> 64512 <= addr[1] /\ addr[1] <= 65023
  BY <1>6 DEF IsPrivateV6
<1> QED
  BY <1>2, <1>8, <1>9 DEF ScopeOfV6, NativeMatchesTable

-----------------------------------------------------------------------------
(* base64url.  Three octets make a word of 24 bits, read as four numbers   *)
(* of six bits; a word that is not full ends in zeros, which are neither   *)
(* written nor missed.                                                     *)

OfOctets(x, y, z)     == x * 65536 + y * 256 + z
OfSextets(e, f, c, d) == e * 262144 + f * 4096 + c * 64 + d
Bits24(n) == n \in Nat /\ n < 16777216

Word(octets, g) == OfOctets(OctetAt(octets, 3 * g + 1), OctetAt(octets, 3 * g + 2),
                            OctetAt(octets, 3 * g + 3))

Sextet(n, k) == CASE k = 0 -> (n \div 262144) % 64
                  [] k = 1 -> (n \div 4096) % 64
                  [] k = 2 -> (n \div 64) % 64
                  [] k = 3 -> n % 64

LEMMA OctetAtType ==
  ASSUME NEW octets \in Seq(Octet), NEW i \in Nat \ {0}
  PROVE  OctetAt(octets, i) \in Nat /\ OctetAt(octets, i) <= 255
<1>1. CASE i <= Len(octets)
  <2>1. octets[i] \in Octet
    BY <1>1
  <2> QED
    BY <1>1, <2>1, OctetRange DEF OctetAt
<1>2. CASE ~(i <= Len(octets))
  BY <1>2 DEF OctetAt
<1> QED
  BY <1>1, <1>2

LEMMA SextetsOf ==
  ASSUME NEW e \in Nat, e <= 63, NEW f \in Nat, f <= 63, NEW c \in Nat, c <= 63,
         NEW d \in Nat, d <= 63, NEW n, n = OfSextets(e, f, c, d)
  PROVE  Sextet(n, 0) = e /\ Sextet(n, 1) = f /\ Sextet(n, 2) = c /\ Sextet(n, 3) = d
<1>1. n \in Nat /\ n = e * 262144 + f * 4096 + c * 64 + d
  BY SMT DEF OfSextets
<1>2. n \div 262144 = e
  <2>1. PICK r \in Nat : r = f * 4096 + c * 64 + d
    OBVIOUS
  <2>2. r < 262144 /\ n = 262144 * e + r
    BY <1>1, <2>1, SMT
  <2> QED
    BY <1>1, <2>2, DivisionUnique, SMT
<1>3. n \div 4096 = 64 * e + f
  <2>1. PICK r \in Nat : r = c * 64 + d
    OBVIOUS
  <2>2. r < 4096 /\ n = 4096 * (64 * e + f) + r
    BY <1>1, <2>1, SMT
  <2> QED
    BY <1>1, <2>2, DivisionUnique, SMT
<1>4. n \div 64 = 4096 * e + 64 * f + c /\ n % 64 = d
  <2>1. n = 64 * (4096 * e + 64 * f + c) + d /\ d \in Nat /\ d < 64
    BY <1>1, SMT
  <2> QED
    BY <1>1, <2>1, DivisionUnique, SMT
<1>5. e % 64 = e
  OBVIOUS
<1>6. (64 * e + f) % 64 = f
  OBVIOUS
<1>7. (4096 * e + 64 * f + c) % 64 = c
  <2>1. 4096 * e + 64 * f + c = 64 * (64 * e + f) + c /\ c \in Nat /\ c < 64
    OBVIOUS
  <2> QED
    BY <2>1, DivisionUnique, SMT
<1> QED
  BY <1>2, <1>3, <1>4, <1>5, <1>6, <1>7, SMT DEF Sextet

(* A word of 24 bits is its four sextets. *)
LEMMA Sextets ==
  ASSUME NEW n, Bits24(n)
  PROVE  /\ \A k \in 0..3 : Sextet(n, k) \in Nat /\ Sextet(n, k) <= 63
         /\ n = OfSextets(Sextet(n, 0), Sextet(n, 1), Sextet(n, 2), Sextet(n, 3))
<1>0. n \in Nat
  BY DEF Bits24
<1>1. PICK a \in Nat, d \in Nat : d <= 63 /\ n = 64 * a + d
  <2>1. n \div 64 \in Nat /\ n % 64 \in Nat /\ n % 64 <= 63 /\ n = 64 * (n \div 64) + (n % 64)
    BY <1>0
  <2> QED
    BY <2>1
<1>2. PICK b \in Nat, c \in Nat : c <= 63 /\ a = 64 * b + c
  <2>1. a \div 64 \in Nat /\ a % 64 \in Nat /\ a % 64 <= 63 /\ a = 64 * (a \div 64) + (a % 64)
    OBVIOUS
  <2> QED
    BY <2>1
<1>3. PICK e \in Nat, f \in Nat : f <= 63 /\ b = 64 * e + f
  <2>1. b \div 64 \in Nat /\ b % 64 \in Nat /\ b % 64 <= 63 /\ b = 64 * (b \div 64) + (b % 64)
    OBVIOUS
  <2> QED
    BY <2>1
<1>4. n = OfSextets(e, f, c, d)
  BY <1>1, <1>2, <1>3, SMT DEF OfSextets
<1>5. e <= 63
  BY <1>4, SMT DEF OfSextets, Bits24
<1>6. Sextet(n, 0) = e /\ Sextet(n, 1) = f /\ Sextet(n, 2) = c /\ Sextet(n, 3) = d
  BY <1>1, <1>2, <1>3, <1>4, <1>5, SextetsOf
<1>7. \A k \in 0..3 : k = 0 \/ k = 1 \/ k = 2 \/ k = 3
  OBVIOUS
<1>8. \A k \in 0..3 : Sextet(n, k) \in Nat /\ Sextet(n, k) <= 63
  BY <1>1, <1>2, <1>3, <1>5, <1>6, <1>7
<1> QED
  BY <1>4, <1>6, <1>8

(* Three octets are read back from their word. *)
LEMMA WordOctets ==
  ASSUME NEW x \in Nat, x <= 255, NEW y \in Nat, y <= 255, NEW z \in Nat, z <= 255,
         NEW n, n = OfOctets(x, y, z)
  PROVE  /\ Bits24(n)
         /\ (n \div 65536) % 256 = x /\ (n \div 256) % 256 = y /\ n % 256 = z
<1>1. n \in Nat /\ n = x * 65536 + y * 256 + z
  BY SMT DEF OfOctets
<1>2. Bits24(n)
  BY <1>1, SMT DEF Bits24
<1>3. n \div 256 = x * 256 + y /\ n % 256 = z
  <2>1. n = 256 * (x * 256 + y) + z
    BY <1>1, SMT
  <2> QED
    BY <1>1, <2>1, DivisionUnique, SMT
<1>4. n \div 65536 = x
  <2>1. PICK r \in Nat : r = y * 256 + z
    OBVIOUS
  <2>2. r < 65536 /\ n = 65536 * x + r
    BY <1>1, <2>1, SMT
  <2> QED
    BY <1>1, <2>2, DivisionUnique, SMT
<1>5. (x * 256 + y) % 256 = y /\ x % 256 = x
  OBVIOUS
<1> QED
  BY <1>2, <1>3, <1>4, <1>5, SMT

LEMMA WordType ==
  ASSUME NEW octets \in Seq(Octet), NEW g \in Nat
  PROVE  /\ Bits24(Word(octets, g))
         /\ (Word(octets, g) \div 65536) % 256 = OctetAt(octets, 3 * g + 1)
         /\ (Word(octets, g) \div 256) % 256 = OctetAt(octets, 3 * g + 2)
         /\ Word(octets, g) % 256 = OctetAt(octets, 3 * g + 3)
<1>1. /\ 3 * g + 1 \in Nat \ {0} /\ 3 * g + 2 \in Nat \ {0} /\ 3 * g + 3 \in Nat \ {0}
  OBVIOUS
<1>2. PICK x \in Nat, y \in Nat, z \in Nat :
        /\ x = OctetAt(octets, 3 * g + 1) /\ x <= 255
        /\ y = OctetAt(octets, 3 * g + 2) /\ y <= 255
        /\ z = OctetAt(octets, 3 * g + 3) /\ z <= 255
  BY <1>1, OctetAtType
<1>3. Word(octets, g) = OfOctets(x, y, z)
  BY <1>2 DEF Word
<1> QED
  BY <1>2, <1>3, WordOctets

(* What encode writes. *)
LEMMA EncodeShape ==
  ASSUME NEW octets \in Seq(Octet)
  PROVE  LET text == Base64UrlEncode(octets)
             m    == (4 * Len(octets) + 2) \div 3
         IN /\ m \in Nat /\ Len(text) = m /\ DOMAIN text = 1..m
            /\ \A i \in 1..m : text[i] = Sextet(Word(octets, (i - 1) \div 4), (i - 1) % 4)
            /\ \A i \in 1..m : text[i] \in Nat /\ text[i] <= 63
<1> DEFINE m == (4 * Len(octets) + 2) \div 3
           chunk(i) == 3 * ((i - 1) \div 4)
           n(i) == OctetAt(octets, chunk(i) + 1) * 65536 + OctetAt(octets, chunk(i) + 2) * 256
                                                 + OctetAt(octets, chunk(i) + 3)
           cell(i) == (n(i) \div << 262144, 4096, 64, 1 >>[((i - 1) % 4) + 1]) % 64
           text == Base64UrlEncode(octets)
<1>1. m \in Nat
  OBVIOUS
<1>2. text = [i \in 1..m |-> cell(i)]
  BY DEF Base64UrlEncode
<1>3. ASSUME NEW i \in 1..m
      PROVE  /\ cell(i) = Sextet(Word(octets, (i - 1) \div 4), (i - 1) % 4)
             /\ cell(i) \in Nat /\ cell(i) <= 63
  <2>1. PICK g \in Nat, k \in 0..3 : g = (i - 1) \div 4 /\ k = (i - 1) % 4
    BY <1>1
  <2>2. n(i) = Word(octets, g)
    BY <2>1 DEF Word, OfOctets
  <2>3. Bits24(n(i)) /\ n(i) \in Nat
    BY <2>2, WordType DEF Bits24
  <2> HIDE DEF n
  <2>4. cell(i) = (n(i) \div << 262144, 4096, 64, 1 >>[k + 1]) % 64
    BY <2>1
  <2>5. cell(i) = Sextet(n(i), k)
    <3>1. CASE k = 0
      BY <2>4, <3>1 DEF Sextet
    <3>2. CASE k = 1
      BY <2>4, <3>2 DEF Sextet
    <3>3. CASE k = 2
      BY <2>4, <3>3 DEF Sextet
    <3>4. CASE k = 3
      BY <2>3, <2>4, <3>4 DEF Sextet
    <3> QED
      BY <3>1, <3>2, <3>3, <3>4
  <2> HIDE DEF cell
  <2> QED
    BY <2>1, <2>2, <2>3, <2>5, Sextets
<1> HIDE DEF m, cell, text
<1>4. \A i \in 1..m : text[i] = cell(i)
  BY <1>2
<1>5. Len(text) = m
  BY <1>1, <1>2, <1>3
<1>6. DOMAIN text = 1..m
  BY <1>2
<1> QED
  BY <1>1, <1>3, <1>4, <1>5, <1>6 DEF m, text

(* The lengths: the octets are neither more nor fewer than before. *)
LEMMA Lengths ==
  ASSUME NEW n \in Nat, NEW m, m = (4 * n + 2) \div 3
  PROVE  /\ m \in Nat /\ m % 4 # 1 /\ (3 * m) \div 4 = n
<1>1. PICK q \in Nat, r \in 0..2 : n = 3 * q + r
  <2>1. n = 3 * (n \div 3) + (n % 3) /\ n \div 3 \in Nat /\ n % 3 \in 0..2
    OBVIOUS
  <2> QED
    BY <2>1
<1>2. CASE r = 0
  <2>1. m = 4 * q
    BY <1>1, <1>2
  <2> QED
    BY <1>1, <1>2, <2>1
<1>3. CASE r = 1
  <2>1. m = 4 * q + 2
    BY <1>1, <1>3
  <2> QED
    BY <1>1, <1>3, <2>1
<1>4. CASE r = 2
  <2>1. m = 4 * q + 3
    BY <1>1, <1>4
  <2> QED
    BY <1>1, <1>4, <2>1
<1> QED
  BY <1>2, <1>3, <1>4

(* A group that has an octet has two characters, and one more for each     *)
(* octet more.                                                             *)
LEMMA GroupLengths ==
  ASSUME NEW n \in Nat, NEW m, m = (4 * n + 2) \div 3, NEW g \in Nat
  PROVE  /\ 3 * g + 1 <= n => 4 * g + 2 <= m
         /\ 3 * g + 2 <= n => 4 * g + 3 <= m
         /\ 3 * g + 3 <= n => 4 * g + 4 <= m
<1>1. m \in Nat /\ 3 * m <= 4 * n + 2 /\ 4 * n + 2 <= 3 * m + 2
  OBVIOUS
<1> QED
  BY ONLY <1>1, n \in Nat, g \in Nat

(* The sextets of a word, those that are not written included. *)
LEMMA EncodedSextets ==
  ASSUME NEW octets \in Seq(Octet), NEW g \in Nat, 3 * g + 1 <= Len(octets),
         NEW k \in 0..3
  PROVE  OctetAt(Base64UrlEncode(octets), 4 * g + k + 1) = Sextet(Word(octets, g), k)
<1> DEFINE text == Base64UrlEncode(octets)
           m == (4 * Len(octets) + 2) \div 3
           w == Word(octets, g)
<1>1. /\ m \in Nat /\ Len(text) = m
      /\ \A i \in 1..m : text[i] = Sextet(Word(octets, (i - 1) \div 4), (i - 1) % 4)
  BY EncodeShape
<1>2. Len(octets) \in Nat
  OBVIOUS
<1>3. /\ 4 * g + 2 <= m
      /\ 3 * g + 2 <= Len(octets) => 4 * g + 3 <= m
      /\ 3 * g + 3 <= Len(octets) => 4 * g + 4 <= m
  BY <1>2, GroupLengths
<1> HIDE DEF text, m
<1>4. CASE 4 * g + k + 1 <= m
  <2>1. PICK i \in Nat : i = 4 * g + k + 1
    OBVIOUS
  <2>2. i \in 1..m /\ (i - 1) \div 4 = g /\ (i - 1) % 4 = k
    <3>1. i \in 1..m
      BY <1>1, <1>4, <2>1
    <3>2. i - 1 \in Nat /\ i - 1 = 4 * g + k /\ k \in Nat /\ k < 4
      BY <2>1
    <3> QED
      BY <3>1, <3>2, DivisionUnique
  <2>3. text[i] = Sextet(Word(octets, g), k)
    <3>1. text[i] = Sextet(Word(octets, (i - 1) \div 4), (i - 1) % 4)
      BY <1>1, <2>2
    <3> QED
      BY <2>2, <3>1
  <2> QED
    BY <1>1, <2>1, <2>2, <2>3 DEF OctetAt, text
<1>5. CASE ~(4 * g + k + 1 <= m)
  <2>1. OctetAt(text, 4 * g + k + 1) = 0
    BY <1>1, <1>5 DEF OctetAt
  <2>2. k \in {2, 3}
    BY <1>1, <1>3, <1>5
  <2>3. PICK x \in Nat, y \in Nat :
          x = OctetAt(octets, 3 * g + 1) /\ y = OctetAt(octets, 3 * g + 2)
    <3>1. 3 * g + 1 \in Nat \ {0} /\ 3 * g + 2 \in Nat \ {0}
      OBVIOUS
    <3> QED
      BY <3>1, OctetAtType
  <2>4. ~(3 * g + 3 <= Len(octets))
    BY <1>1, <1>3, <1>5
  <2>5. OctetAt(octets, 3 * g + 3) = 0
    BY <2>4 DEF OctetAt
  <2>6. w = x * 65536 + y * 256
    BY <2>3, <2>5, SMT DEF Word, OfOctets
  <2>7. CASE k = 2
    <3>1. ~(3 * g + 2 <= Len(octets))
      BY <1>1, <1>3, <1>5, <2>7
    <3>2. y = 0
      BY <2>3, <3>1 DEF OctetAt
    <3>3. w = x * 65536
      BY <2>6, <3>2, SMT
    <3> HIDE DEF w
    <3>4. (w \div 64) % 64 = 0
      <4>1. w \div 64 = x * 1024
        BY <3>3, SMT
      <4>2. (x * 1024) % 64 = 0
        OBVIOUS
      <4> QED
        BY <4>1, <4>2
    <3>5. Sextet(w, k) = 0
      BY <2>7, <3>4 DEF Sextet
    <3> QED
      BY <2>1, <3>5 DEF w, text
  <2>8. CASE k = 3
    <3> HIDE DEF w
    <3>1. w % 64 = 0
      BY <2>6, SMT
    <3>2. Sextet(w, k) = 0
      BY <2>8, <3>1 DEF Sextet
    <3> QED
      BY <2>1, <3>2 DEF w, text
  <2> QED
    BY <2>2, <2>7, <2>8
<1> QED
  BY <1>4, <1>5

(* Decoding undoes encoding, for any octets: no character of the text is   *)
(* out of the alphabet, its length is one decode takes, and no bit moves.  *)
THEOREM Base64RoundTrip ==
  ASSUME NEW octets \in Seq(Octet)
  PROVE  Base64UrlDecode(Base64UrlEncode(octets)) = Okay(octets)
<1> DEFINE text == Base64UrlEncode(octets)
           m == (4 * Len(octets) + 2) \div 3
           group(j) == 4 * ((j - 1) \div 3)
           n(j) == OctetAt(text, group(j) + 1) * 262144 + OctetAt(text, group(j) + 2) * 4096
                   + OctetAt(text, group(j) + 3) * 64 + OctetAt(text, group(j) + 4)
           cell(j) == (n(j) \div << 65536, 256, 1 >>[((j - 1) % 3) + 1]) % 256
<1>1. /\ m \in Nat /\ Len(text) = m /\ DOMAIN text = 1..m
      /\ \A i \in 1..m : text[i] \in Nat /\ text[i] <= 63
  BY EncodeShape
<1>2. Len(octets) \in Nat
  OBVIOUS
<1>3. m % 4 # 1 /\ (3 * m) \div 4 = Len(octets)
  BY <1>2, Lengths
<1> HIDE DEF m, text
<1>4. ~((\E i \in DOMAIN text : text[i] > 63) \/ Len(text) % 4 = 1)
  BY <1>1, <1>3
<1>5. Base64UrlDecode(text) = Okay([j \in 1..((3 * Len(text)) \div 4) |-> cell(j)])
  BY <1>4 DEF Base64UrlDecode
<1>6. ASSUME NEW j \in 1..Len(octets) PROVE cell(j) = octets[j]
  <2>1. PICK g \in Nat, l \in 0..2 : j = 3 * g + l + 1 /\ g = (j - 1) \div 3 /\ l = (j - 1) % 3
    <3>1. j - 1 \in Nat
      BY <1>2
    <3>2. j - 1 = 3 * ((j - 1) \div 3) + ((j - 1) % 3)
          /\ (j - 1) \div 3 \in Nat /\ (j - 1) % 3 \in 0..2
      BY <3>1
    <3> QED
      BY <3>1, <3>2
  <2>2. 3 * g + 1 <= Len(octets)
    BY <1>2, <2>1
  <2>3. /\ OctetAt(text, 4 * g + 1) = Sextet(Word(octets, g), 0)
        /\ OctetAt(text, 4 * g + 2) = Sextet(Word(octets, g), 1)
        /\ OctetAt(text, 4 * g + 3) = Sextet(Word(octets, g), 2)
        /\ OctetAt(text, 4 * g + 4) = Sextet(Word(octets, g), 3)
    <3>1. \A k \in 0..3 : OctetAt(text, 4 * g + k + 1) = Sextet(Word(octets, g), k)
      BY <2>2, EncodedSextets, Zenon DEF text
    <3>2. /\ OctetAt(text, 4 * g + 0 + 1) = Sextet(Word(octets, g), 0)
          /\ OctetAt(text, 4 * g + 1 + 1) = Sextet(Word(octets, g), 1)
          /\ OctetAt(text, 4 * g + 2 + 1) = Sextet(Word(octets, g), 2)
          /\ OctetAt(text, 4 * g + 3 + 1) = Sextet(Word(octets, g), 3)
      BY <3>1
    <3>3. /\ 4 * g + 0 + 1 = 4 * g + 1 /\ 4 * g + 1 + 1 = 4 * g + 2
          /\ 4 * g + 2 + 1 = 4 * g + 3 /\ 4 * g + 3 + 1 = 4 * g + 4
      OBVIOUS
    <3> QED
      BY <3>2, <3>3
  <2>4. PICK w \in Nat : w = Word(octets, g) /\ Bits24(w)
    <3>1. Bits24(Word(octets, g))
      BY WordType
    <3>2. Word(octets, g) \in Nat
      BY <3>1, SMT DEF Bits24
    <3> QED
      BY <3>1, <3>2
  <2>5. n(j) = w
    <3>1. w = OfSextets(Sextet(w, 0), Sextet(w, 1), Sextet(w, 2), Sextet(w, 3))
      BY <2>4, Sextets
    <3>2. group(j) = 4 * g
      BY <2>1
    <3>3. n(j) = OfSextets(OctetAt(text, 4 * g + 1), OctetAt(text, 4 * g + 2),
                           OctetAt(text, 4 * g + 3), OctetAt(text, 4 * g + 4))
      BY <3>2, SMT DEF OfSextets
    <3> QED
      BY <2>3, <2>4, <3>1, <3>3
  <2> HIDE DEF n
  <2> DEFINE unit == << 65536, 256, 1 >>[l + 1]
  <2>6. cell(j) = (w \div unit) % 256
    BY <2>1, <2>5
  <2>7. /\ (w \div 65536) % 256 = OctetAt(octets, 3 * g + 1)
        /\ (w \div 256) % 256 = OctetAt(octets, 3 * g + 2)
        /\ w % 256 = OctetAt(octets, 3 * g + 3)
    BY <2>4, WordType
  <2> HIDE DEF cell
  <2>8. cell(j) = OctetAt(octets, j)
    <3>1. CASE l = 0
      <4>1. unit = 65536
        BY <3>1, SMT
      <4> HIDE DEF unit
      <4>2. cell(j) = OctetAt(octets, 3 * g + 1)
        BY ONLY <2>6, <2>7, <4>1
      <4> QED
        BY <2>1, <3>1, <4>2
    <3>2. CASE l = 1
      <4>1. unit = 256
        BY <3>2, SMT
      <4> HIDE DEF unit
      <4>2. cell(j) = OctetAt(octets, 3 * g + 2)
        BY ONLY <2>6, <2>7, <4>1
      <4> QED
        BY <2>1, <3>2, <4>2
    <3>3. CASE l = 2
      <4>1. unit = 1 /\ w \div 1 = w
        BY <2>4, <3>3, SMT
      <4> HIDE DEF unit
      <4>2. cell(j) = OctetAt(octets, 3 * g + 3)
        BY ONLY <2>6, <2>7, <4>1
      <4> QED
        BY <2>1, <3>3, <4>2
    <3> QED
      BY <3>1, <3>2, <3>3
  <2> QED
    BY <1>2, <2>8 DEF OctetAt
<1> HIDE DEF cell
<1>7. [j \in 1..((3 * Len(text)) \div 4) |-> cell(j)] = octets
  BY <1>1, <1>3, <1>6
<1> QED
  BY <1>5, <1>7 DEF text

-----------------------------------------------------------------------------
(* What stays the same while messages are composed and damaged: the state  *)
(* holds an address and a message with one of the two transaction ids.     *)

MsgFields == {"type", "len", "cookie", "txid", "attrs", "size"}

LawsInv == /\ addr \in IpAddr
           /\ DOMAIN msg = MsgFields /\ msg.txid \in Txids

LEMMA MessageFields ==
  ASSUME NEW type, NEW txid, NEW attrs
  PROVE  /\ DOMAIN Message(type, txid, attrs) = MsgFields
         /\ Message(type, txid, attrs).txid = txid
BY DEF Message, MsgFields

LEMMA SamplesType ==
  ASSUME Init
  PROVE  addr \in IpAddr
<1>1. ASSUME NEW v \in SampleV4
      PROVE  v \in V4
  <2>1. PICK a \in Firsts, b \in Seconds, c \in Thirds, d \in Lasts : v = << a, b, c, d >>
    BY DEF SampleV4
  <2>2. a \in Octet /\ b \in Octet /\ c \in Octet /\ d \in Octet
    BY LawsAssumption, OctetRange DEF Lasts
  <2> QED
    BY <2>1, <2>2 DEF V4
<1>2. ASSUME NEW v \in SampleV6
      PROVE  v \in V6
  <2>1. PICK h \in NativeHeads, i \in {0, 1, 2, 3, 3511, 3512, 3513},
             j \in {0, 1}, k \in {0, 1}, l \in {0, 1, 2} : v = << h, i, j, k, 0, 0, 0, l >>
    BY DEF SampleV6
  <2>2. h \in Segment /\ i \in Segment /\ j \in Segment /\ k \in Segment /\ l \in Segment
        /\ 0 \in Segment
    BY LawsAssumption, SegmentRange
  <2> QED
    BY <2>1, <2>2 DEF V6
<1>3. \A v \in SampleV4 : MappedV6(v) \in V6 /\ CompatV6(v) \in V6
  BY <1>1, FoldEmbeddings
<1> QED
  BY <1>1, <1>2, <1>3 DEF Init, IpAddr

LEMMA LawsInvHolds == LawsSpec => []LawsInv
<1>1. LawsInit => LawsInv
  <2>1. CASE Init /\ msg = EncodeBindingRequest(Mine)
    BY <2>1, SamplesType, MessageFields DEF LawsInv, EncodeBindingRequest, Txids
  <2>2. CASE addr = Home /\ msg \in { Message(type, Mine, << >>) : type \in Types }
    BY <2>2, LawsAssumption, MessageFields DEF LawsInv, Txids
  <2> QED
    BY <2>1, <2>2 DEF LawsInit
<1>2. LawsInv /\ [LawsNext]_<< addr, msg, plain >> => LawsInv'
  <2> SUFFICES ASSUME LawsInv, [LawsNext]_<< addr, msg, plain >> PROVE LawsInv'
    OBVIOUS
  <2>1. CASE Respell
    BY <2>1, FoldIpIdempotent DEF LawsInv, Respell, Fold
  <2>2. CASE Compose
    <3>1. PICK a \in Menu(msg.type) :
            msg' = Message(msg.type, Mine, WriteAttr(msg.attrs, a.type, a.len, a.value))
      BY <2>2 DEF Compose, With
    <3>2. DOMAIN msg' = MsgFields /\ msg'.txid = Mine
      BY <3>1, MessageFields
    <3> QED
      BY <2>2, <3>2 DEF LawsInv, Compose, Txids
  <2>3. CASE Damage
    <3>1. \/ Overstate \/ Redeclare \/ Cut \/ Mislabel
      BY <2>3 DEF Damage
    <3>2. DOMAIN msg' = MsgFields /\ msg'.txid \in Txids
      <4>1. CASE Overstate
        <5>1. PICK excess \in {1, 5} :
                msg' = [msg EXCEPT !.attrs[Len(msg.attrs)].len =
                          msg.len - msg.attrs[Len(msg.attrs)].at - 4 + excess]
          BY <4>1 DEF Overstate
        <5>2. DOMAIN msg' = DOMAIN msg /\ msg'.txid = msg.txid
          BY <5>1 DEF LawsInv, MsgFields
        <5> QED
          BY <5>2 DEF LawsInv
      <4>2. CASE Redeclare
        BY <4>2 DEF LawsInv, Redeclare, MsgFields
      <4>3. CASE Cut
        BY <4>3 DEF LawsInv, Cut, MsgFields
      <4>4. CASE Mislabel
        BY <4>4 DEF LawsInv, Mislabel, MsgFields, Txids
      <4> QED
        BY <3>1, <4>1, <4>2, <4>3, <4>4
    <3>3. addr' = addr
      BY <2>3 DEF Damage
    <3> QED
      BY <3>2, <3>3 DEF LawsInv, Txids
  <2>4. CASE UNCHANGED << addr, msg, plain >>
    BY <2>4 DEF LawsInv, Txids
  <2> QED
    BY <2>1, <2>2, <2>3, <2>4 DEF LawsNext
<1> QED
  BY <1>1, <1>2, PTL DEF LawsSpec

LEMMA SourceType ==
  ASSUME addr \in IpAddr
  PROVE  Source \in SocketAddr
BY SegmentRange DEF Source, SourcePort, SocketAddr, Port, Segment

(* The round trip of an address through encode_binding_success and the     *)
(* parser, in every reachable state.                                       *)
THEOREM LawsAddressSurvivesWire == LawsSpec => []AddressSurvivesWire
<1>1. LawsInv => AddressSurvivesWire
  BY SourceType, LawsAssumption, AddressRoundTrip DEF LawsInv, AddressSurvivesWire, Txids
<1> QED
  BY <1>1, LawsInvHolds, PTL

-----------------------------------------------------------------------------
(* A datagram that holds less than its header declares, whatever else is   *)
(* in it, gives no parser anything.                                        *)
THEOREM LawsCutDatagramsRejected == CutDatagramsRejected
<1> SUFFICES ASSUME Incomplete(msg)
             PROVE  /\ ~ParseBindingResponse(msg, msg.txid).ok
                    /\ ~ParseBindingRequest(msg).ok
                    /\ ~ParseChallenge(msg, msg.txid).ok
                    /\ ~ClassifyRequest(msg).ok
  BY DEF CutDatagramsRejected
<1>1. \A e : ~Err(e).ok
  BY DEF Err
<1>2. ~ParseBindingResponse(msg, msg.txid).ok
  BY <1>1 DEF ParseBindingResponse
<1>3. ~ParseBindingRequest(msg).ok
  BY <1>1 DEF ParseBindingRequest
<1>4. ~ParseChallenge(msg, msg.txid).ok
  BY <1>1 DEF ParseChallenge
<1>5. ~ClassifyRequest(msg).ok
  BY <1>3 DEF ClassifyRequest
<1> QED
  BY <1>2, <1>3, <1>4, <1>5

-----------------------------------------------------------------------------
(* A signature that verifies is for this transaction, nonce and key: the   *)
(* signing message holds all three.                                        *)
AsSigned(v) == \E spki, nonce, signature :
                 v = [kind |-> "signed", spki |-> spki, nonce |-> nonce,
                      signature |-> signature]

LEMMA ClassifiedSigned ==
  ASSUME NEW m, ClassifyRequest(m).ok, ClassifyRequest(m).value.kind = "signed"
  PROVE  AsSigned(ClassifyRequest(m).value)
<1>1. \A e : ~Err(e).ok
  BY DEF Err
<1>2. \A x : Okay(x).value = x
  BY DEF Okay
<1>3. ClassifyRequest(m) = ClassifyAttrs(m)
  BY DEF ClassifyRequest
<1>4. ClassifyAttrs(m) # Err("Malformed")
  BY <1>1, <1>3
<1>5. [kind |-> "bare"].kind # "signed"
  OBVIOUS
<1>6. \A spki : [kind |-> "identity", spki |-> spki].kind # "signed"
  OBVIOUS
<1>7. \/ ClassifyAttrs(m) = Err("Malformed")
      \/ ClassifyAttrs(m) = Okay([kind |-> "bare"])
      \/ \E spki : ClassifyAttrs(m) = Okay([kind |-> "identity", spki |-> spki])
      \/ \E spki, nonce, signature :
           ClassifyAttrs(m) = Okay([kind |-> "signed", spki |-> spki, nonce |-> nonce,
                                    signature |-> signature])
  <2> DEFINE value(type) == m.attrs[FirstOf(ReachedOf(m, type))].value
             dig == { type \in {ATTR_DIG_IDENTITY, ATTR_NONCE, ATTR_DIG_SIGNATURE} :
                        ReachedOf(m, type) # {} }
             bare == Okay([kind |-> "bare"])
             identity == Okay([kind |-> "identity", spki |-> value(ATTR_DIG_IDENTITY).spki])
             signed == Okay([kind |-> "signed", spki |-> value(ATTR_DIG_IDENTITY).spki,
                             nonce |-> value(ATTR_NONCE),
                             signature |-> value(ATTR_DIG_SIGNATURE).signature])
  <2>1. ClassifyAttrs(m) =
          CASE MalformedAttrs(m) -> Err("Malformed")
            [] ~MalformedAttrs(m) /\ dig = {} -> bare
            [] ~MalformedAttrs(m) /\ dig = {ATTR_DIG_IDENTITY} -> identity
            [] ~MalformedAttrs(m) /\ Cardinality(dig) = 3 -> signed
            [] OTHER -> Err("Malformed")
    BY DEF ClassifyAttrs
  <2> HIDE DEF dig, bare, identity, signed
  <2>2. ClassifyAttrs(m) \in {Err("Malformed"), bare, identity, signed}
    BY <2>1
  <2> QED
    BY <2>2 DEF bare, identity, signed
<1>8. CASE ClassifyAttrs(m) = Okay([kind |-> "bare"])
  <2>1. ClassifyRequest(m).value = [kind |-> "bare"]
    BY <1>2, <1>3, <1>8
  <2> QED
    BY <1>5, <2>1
<1>9. ASSUME NEW spki, ClassifyAttrs(m) = Okay([kind |-> "identity", spki |-> spki])
      PROVE  FALSE
  <2>1. ClassifyRequest(m).value = [kind |-> "identity", spki |-> spki]
    BY <1>2, <1>3, <1>9
  <2> QED
    BY <1>6, <2>1
<1>10. ASSUME NEW spki, NEW nonce, NEW signature,
              ClassifyAttrs(m) = Okay([kind |-> "signed", spki |-> spki, nonce |-> nonce,
                                       signature |-> signature])
       PROVE  AsSigned(ClassifyRequest(m).value)
  <2>1. ClassifyRequest(m).value = [kind |-> "signed", spki |-> spki, nonce |-> nonce,
                                    signature |-> signature]
    BY <1>2, <1>3, <1>10
  <2> QED
    BY <2>1 DEF AsSigned
<1> QED
  BY <1>4, <1>7, <1>8, <1>9, <1>10

LEMMA Verified ==
  ASSUME NEW txid, NEW kind, VerifySignedRequest(txid, kind).ok
  PROVE  /\ kind.kind = "signed"
         /\ kind.signature.over = SigningMessage(txid, kind.nonce, kind.spki)
<1>1. \A e : ~Err(e).ok
  BY DEF Err
<1> QED
  BY <1>1 DEF VerifySignedRequest

THEOREM LawsSignatureIsForThisRequest == SignatureIsForThisRequest
<1> DEFINE c == ClassifyRequest(msg)
<1> SUFFICES ASSUME c.ok, VerifySignedRequest(msg.txid, c.value).ok,
                    NEW id \in Txids, NEW text \in Texts, NEW key \in Keys,
                    VerifySignedRequest(id, [c.value EXCEPT !.nonce = text, !.spki = Spki(key)]).ok
             PROVE  id = msg.txid /\ text = c.value.nonce /\ Spki(key) = c.value.spki
  BY DEF SignatureIsForThisRequest
<1>1. /\ c.value.kind = "signed"
      /\ c.value.signature.over = SigningMessage(msg.txid, c.value.nonce, c.value.spki)
  BY Verified
<1>2. PICK spki, nonce, signature :
        c.value = [kind |-> "signed", spki |-> spki, nonce |-> nonce, signature |-> signature]
  BY <1>1, ClassifiedSigned DEF AsSigned
<1> DEFINE d == [c.value EXCEPT !.nonce = text, !.spki = Spki(key)]
<1>3. d = [kind |-> "signed", spki |-> Spki(key), nonce |-> text, signature |-> signature]
  <2>1. ASSUME NEW v, NEW x, v = [kind |-> "signed", spki |-> spki, nonce |-> nonce,
                                  signature |-> signature]
        PROVE  [v EXCEPT !.nonce = text, !.spki = x]
                 = [kind |-> "signed", spki |-> x, nonce |-> text, signature |-> signature]
    <3>1. [v EXCEPT !.nonce = text] = [kind |-> "signed", spki |-> spki, nonce |-> text,
                                       signature |-> signature]
      BY <2>1
    <3>2. ASSUME NEW u, u = [kind |-> "signed", spki |-> spki, nonce |-> text,
                             signature |-> signature]
          PROVE  [u EXCEPT !.spki = x] = [kind |-> "signed", spki |-> x, nonce |-> text,
                                          signature |-> signature]
      BY <3>2
    <3> QED
      BY <3>1, <3>2
  <2> QED
    BY <1>2, <2>1
<1>4. d.signature.over = SigningMessage(id, d.nonce, d.spki)
  BY Verified
<1>5. SigningMessage(msg.txid, nonce, spki) = SigningMessage(id, text, Spki(key))
  BY <1>1, <1>2, <1>3, <1>4
<1>6. msg.txid = id /\ nonce = text /\ spki = Spki(key)
  BY <1>5 DEF SigningMessage
<1> QED
  BY <1>2, <1>6

-----------------------------------------------------------------------------
(* The text of a nonce: four octets of bucket and the tag, in base64url.   *)

BucketOctets(b) == << b \div 16777216, (b \div 65536) % 256, (b \div 256) % 256, b % 256 >>

OfBucketOctets(o) == o[1] * 16777216 + o[2] * 65536 + o[3] * 256 + o[4]

(* The last octet of a number. *)
LEMMA OctetOff ==
  ASSUME NEW n \in Nat
  PROVE  \E p, d \in Nat : d <= 255 /\ n = 256 * p + d
<1>1. /\ n \div 256 \in Nat /\ n % 256 \in Nat /\ n % 256 <= 255
      /\ n = 256 * (n \div 256) + (n % 256)
  OBVIOUS
<1> QED
  BY <1>1

(* A bucket number is read back from its octets. *)
LEMMA BucketRead ==
  ASSUME NEW b, FourOctets(b)
  PROVE  /\ \A i \in 1..4 : BucketOctets(b)[i] \in Octet
         /\ OfBucketOctets(BucketOctets(b)) = b
<1>0. b \in Nat
  BY SMT DEF FourOctets, MaxOctet
<1>1. PICK p \in Nat, d \in Nat : d <= 255 /\ b = 256 * p + d
  BY <1>0, OctetOff
<1>2. PICK q \in Nat, c \in Nat : c <= 255 /\ p = 256 * q + c
  BY OctetOff
<1>3. PICK r \in Nat, e \in Nat : e <= 255 /\ q = 256 * r + e
  <2>1. q \div 256 \in Nat /\ q % 256 \in Nat /\ q % 256 <= 255 /\ q = 256 * (q \div 256) + (q % 256)
    OBVIOUS
  <2> QED
    BY <2>1
<1>4. b \div 256 = p /\ b % 256 = d
  BY <1>0, <1>1, DivisionUnique, SMT
<1>5. b \div 65536 = q
  <2>1. PICK s \in Nat : s = 256 * c + d
    OBVIOUS
  <2>2. s < 65536 /\ b = 65536 * q + s
    BY <1>1, <1>2, <2>1, SMT
  <2> QED
    BY <1>0, <2>2, DivisionUnique, SMT
<1>6. b \div 16777216 = r
  <2>1. PICK s \in Nat : s = 65536 * e + 256 * c + d
    OBVIOUS
  <2>2. s < 16777216 /\ b = 16777216 * r + s
    BY <1>1, <1>2, <1>3, <2>1, SMT
  <2> QED
    BY <1>0, <2>2, DivisionUnique, SMT
<1>7. p % 256 = c /\ q % 256 = e
  BY <1>2, <1>3, DivisionUnique, SMT
<1>8. r <= 255
  BY <1>6, SMT DEF FourOctets, MaxOctet
<1>9. BucketOctets(b) = << r, e, c, d >>
  BY <1>4, <1>5, <1>6, <1>7, SMT DEF BucketOctets
<1>10. r \in Octet /\ e \in Octet /\ c \in Octet /\ d \in Octet
  BY <1>1, <1>2, <1>3, <1>8, OctetRange
<1>11. OfBucketOctets(<< r, e, c, d >>) = b
  BY <1>1, <1>2, <1>3, SMT DEF OfBucketOctets
<1>12. \A i \in 1..4 : << r, e, c, d >>[i] \in Octet
  BY <1>10
<1> QED
  BY <1>9, <1>11, <1>12, Zenon

LEMMA Joined ==
  ASSUME NEW head \in [1..4 -> Octet], NEW tag \in [1..16 -> Octet]
  PROVE  /\ head \o tag \in Seq(Octet) /\ Len(head \o tag) = 20
         /\ \A i \in 1..4 : (head \o tag)[i] = head[i]
         /\ SubSeq(head \o tag, 5, 20) = tag
<1>1. /\ head \in Seq(Octet) /\ Len(head) = 4
      /\ tag \in Seq(Octet) /\ Len(tag) = 16
  <2>1. PICK n \in Nat, k \in Nat : n = 4 /\ k = 16
    OBVIOUS
  <2>2. head \in [1..n -> Octet] /\ tag \in [1..k -> Octet]
    BY <2>1
  <2>3. head \in Seq(Octet) /\ Len(head) = n
    BY ONLY <2>2, n \in Nat, LengthOf
  <2>4. tag \in Seq(Octet) /\ Len(tag) = k
    BY ONLY <2>2, k \in Nat, LengthOf
  <2> QED
    BY <2>1, <2>3, <2>4
<1> DEFINE s == head \o tag
           t == SubSeq(s, 5, 20)
<1>2. /\ s \in Seq(Octet) /\ Len(s) = 20
      /\ \A i \in 1..20 : s[i] = IF i <= 4 THEN head[i] ELSE tag[i - 4]
  <2>1. /\ s \in Seq(Octet) /\ Len(s) = Len(head) + Len(tag)
        /\ \A i \in 1..(Len(head) + Len(tag)) :
             s[i] = IF i <= Len(head) THEN head[i] ELSE tag[i - Len(head)]
    BY <1>1, ConcatProperties
  <2>2. Len(head) + Len(tag) = 20
    BY <1>1
  <2> QED
    BY <1>1, <2>1, <2>2
<1> HIDE DEF s
<1>3. \A i \in 5..20 : s[i] \in Octet
  BY <1>2
<1>4. /\ t \in Seq(Octet) /\ Len(t) = 16
      /\ \A i \in 1..16 : t[i] = s[5 + i - 1]
  BY <1>3, SubSeqProperties
<1> HIDE DEF t
<1>5. \A i \in 1..16 : t[i] = tag[i]
  <2> SUFFICES ASSUME NEW i \in 1..16 PROVE t[i] = tag[i]
    OBVIOUS
  <2>1. 5 + i - 1 \in 1..20 /\ ~(5 + i - 1 <= 4) /\ (5 + i - 1) - 4 = i
    OBVIOUS
  <2> QED
    BY <1>2, <1>4, <2>1
<1>6. t = tag
  <2>1. t = [i \in 1..16 |-> t[i]]
    BY <1>4
  <2>2. tag = [i \in 1..16 |-> tag[i]]
    OBVIOUS
  <2> QED
    BY <1>5, <2>1, <2>2, Zenon
<1>7. \A i \in 1..4 : s[i] = head[i]
  BY <1>2
<1> QED
  BY <1>2, <1>6, <1>7 DEF s, t

(* A nonce issued and checked, octet by octet: the tag and the bucket come *)
(* out of the text, so that the text is worth what the nonce is worth to   *)
(* the one who holds the secret, and nothing to anyone else.               *)
THEOREM NonceTextIsRead ==
  ASSUME NEW secret, NEW bucket, FourOctets(bucket), NEW source,
         Tag(secret, bucket, source) \in [1..16 -> Octet], NEW other, NEW seen
  PROVE  LET text == NonceText([secret |-> secret, bucket |-> bucket, source |-> source])
         IN /\ Len(text) \in Nat
            /\ ReadNonce(other, text, seen) =
                 IF Tag(other, bucket, FoldAddr(seen)) = Tag(secret, bucket, source)
                 THEN [secret |-> other, bucket |-> bucket, source |-> FoldAddr(seen)]
                 ELSE NotANonce
<1> DEFINE tag == Tag(secret, bucket, source)
           octets == BucketOctets(bucket) \o tag
           text == NonceText([secret |-> secret, bucket |-> bucket, source |-> source])
<1>1. BucketOctets(bucket) \in [1..4 -> Octet]
  <2>1. \A i \in 1..4 : BucketOctets(bucket)[i] \in Octet
    BY BucketRead
  <2>2. BucketOctets(bucket) = [i \in 1..4 |-> BucketOctets(bucket)[i]]
    BY SMT DEF BucketOctets
  <2> QED
    BY <2>1, <2>2, Zenon
<1>2. /\ octets \in Seq(Octet) /\ Len(octets) = 20
      /\ \A i \in 1..4 : octets[i] = BucketOctets(bucket)[i]
      /\ SubSeq(octets, 5, 20) = tag
  BY <1>1, Joined
<1>3. text = Base64UrlEncode(octets)
  BY SMT DEF NonceText, BucketOctets
<1> HIDE DEF octets, text
<1>4. Len(text) \in Nat
  BY <1>2, <1>3, EncodeShape
<1>5. Base64UrlDecode(text) = Okay(octets)
  BY <1>2, <1>3, Base64RoundTrip
<1>6. OfBucketOctets(octets) = bucket
  <2>1. OfBucketOctets(BucketOctets(bucket)) = bucket
    BY BucketRead
  <2>2. OfBucketOctets(octets) = OfBucketOctets(BucketOctets(bucket))
    BY <1>2, SMT DEF OfBucketOctets
  <2> QED
    BY <2>1, <2>2
<1>7. Base64UrlDecode(text).ok /\ Base64UrlDecode(text).value = octets
  BY <1>5 DEF Okay
<1>8. ReadNonce(other, text, seen) =
        IF tag = Tag(other, bucket, FoldAddr(seen))
        THEN [secret |-> other, bucket |-> bucket, source |-> FoldAddr(seen)]
        ELSE NotANonce
  <2> HIDE DEF tag
  <2> DEFINE decoded == Base64UrlDecode(text)
  <2>1. ReadNonce(other, text, seen) =
          IF /\ decoded.ok
             /\ Len(decoded.value) = NONCE_LEN
             /\ SubSeq(decoded.value, 5, NONCE_LEN)
                  = Tag(other, OfBucketOctets(decoded.value), FoldAddr(seen))
          THEN [secret |-> other, bucket |-> OfBucketOctets(decoded.value),
                source |-> FoldAddr(seen)]
          ELSE NotANonce
    BY SMT DEF ReadNonce, OfBucketOctets
  <2> QED
    BY <1>2, <1>6, <1>7, <2>1 DEF NONCE_LEN
<1> QED
  BY <1>4, <1>8 DEF text

-----------------------------------------------------------------------------
(* Messages of one and of three attributes, as this crate's encoders write *)
(* them: a parser meets each attribute where it was written, whole.        *)

Header(m, type, txid) ==
  /\ m.type = type /\ m.txid = txid /\ m.size \in Nat /\ m.size >= 20
  /\ HeaderFault(m, type) = "none" /\ ~Incomplete(m)

Holds(m, i, type, len, value) ==
  /\ m.attrs[i].type = type /\ m.attrs[i].len = len /\ m.attrs[i].value = value
  /\ ~Overruns(m, i)

Written(type, at, len, value) == [type |-> type, at |-> at, len |-> len, value |-> value]

LEMMA HeaderOf ==
  ASSUME NEW type, NEW txid, NEW attrs, AreaLen(attrs) \in Nat
  PROVE  LET m == Message(type, txid, attrs)
         IN Header(m, type, txid) /\ m.attrs = attrs /\ m.len = AreaLen(attrs)
<1> DEFINE m == Message(type, txid, attrs)
<1>1. /\ m.type = type /\ m.txid = txid /\ m.attrs = attrs /\ m.cookie = MAGIC_COOKIE
      /\ m.len = AreaLen(attrs) /\ m.size = 20 + AreaLen(attrs)
  BY DEF Message
<1> HIDE DEF m
<1>2. m.size \in Nat /\ m.size >= 20 /\ ~Incomplete(m)
  BY <1>1 DEF Incomplete
<1>3. HeaderFault(m, type) = "none"
  BY <1>1, <1>2 DEF HeaderFault
<1> QED
  BY <1>1, <1>2, <1>3 DEF Header, m

LEMMA OneWritten ==
  ASSUME NEW type, NEW txid, NEW t1, NEW l1 \in Nat, NEW v1, NEW m,
         m = Message(type, txid, WriteAttr(<< >>, t1, l1, v1))
  PROVE  Header(m, type, txid) /\ Reached(m) = {1} /\ Holds(m, 1, t1, l1, v1)
<1> DEFINE a == Written(t1, 0, l1, v1)
           attrs == << a >>
<1>1. Padding(l1) \in Nat
  BY PaddingType
<1>2. WriteAttr(<< >>, t1, l1, v1) = attrs
  BY DEF WriteAttr, AreaLen, Written
<1>3. a.type = t1 /\ a.at = 0 /\ a.len = l1 /\ a.value = v1
  BY DEF Written
<1> HIDE DEF a
<1>4. attrs # << >> /\ Len(attrs) = 1 /\ DOMAIN attrs = {1} /\ attrs[1] = a
  OBVIOUS
<1> HIDE DEF attrs
<1>5. AreaLen(attrs) = 4 + l1 + Padding(l1)
  BY <1>1, <1>3, <1>4 DEF AreaLen
<1>6. AreaLen(attrs) \in Nat
  BY <1>1, <1>5
<1>7. Header(m, type, txid) /\ m.attrs = attrs /\ m.len = AreaLen(attrs)
  BY <1>2, <1>6, HeaderOf
<1>8. Reached(m) = {1}
  BY <1>1, <1>3, <1>4, <1>5, <1>7 DEF Reached
<1>9. Holds(m, 1, t1, l1, v1)
  BY <1>1, <1>3, <1>4, <1>5, <1>7 DEF Holds, Overruns
<1> QED
  BY <1>7, <1>8, <1>9

LEMMA ThreeWritten ==
  ASSUME NEW type, NEW txid, NEW t1, NEW l1 \in Nat, NEW v1, NEW t2, NEW l2 \in Nat, NEW v2,
         NEW t3, NEW l3 \in Nat, NEW v3, NEW m,
         m = Message(type, txid,
               WriteAttr(WriteAttr(WriteAttr(<< >>, t1, l1, v1), t2, l2, v2), t3, l3, v3))
  PROVE  /\ Header(m, type, txid) /\ Reached(m) = {1, 2, 3}
         /\ Holds(m, 1, t1, l1, v1) /\ Holds(m, 2, t2, l2, v2) /\ Holds(m, 3, t3, l3, v3)
<1>1. PICK p1 \in Nat, p2 \in Nat, p3 \in Nat :
        p1 = Padding(l1) /\ p2 = Padding(l2) /\ p3 = Padding(l3)
  BY PaddingType
<1> DEFINE at2 == 4 + l1 + p1
           at3 == at2 + 4 + l2 + p2
           a == Written(t1, 0, l1, v1)
           b == Written(t2, at2, l2, v2)
           c == Written(t3, at3, l3, v3)
           attrs == << a, b, c >>
<1>2. /\ a.type = t1 /\ a.at = 0 /\ a.len = l1 /\ a.value = v1
      /\ b.type = t2 /\ b.at = at2 /\ b.len = l2 /\ b.value = v2
      /\ c.type = t3 /\ c.at = at3 /\ c.len = l3 /\ c.value = v3
  BY DEF Written
<1>3. WriteAttr(<< >>, t1, l1, v1) = << a >>
  BY DEF WriteAttr, AreaLen, Written
<1>4. WriteAttr(<< a >>, t2, l2, v2) = << a, b >>
  <2>1. AreaLen(<< a >>) = at2
    <3> HIDE DEF a
    <3> QED
      BY <1>1, <1>2 DEF AreaLen
  <2>2. WriteAttr(<< a >>, t2, l2, v2) = Append(<< a >>, b)
    BY <2>1, Zenon DEF WriteAttr, Written
  <2> HIDE DEF a, b
  <2> QED
    BY <2>2
<1>5. WriteAttr(<< a, b >>, t3, l3, v3) = attrs
  <2>1. AreaLen(<< a, b >>) = at3
    <3> HIDE DEF a, b
    <3> QED
      BY <1>1, <1>2 DEF AreaLen
  <2>2. WriteAttr(<< a, b >>, t3, l3, v3) = Append(<< a, b >>, c)
    BY <2>1, Zenon DEF WriteAttr, Written
  <2> HIDE DEF a, b, c
  <2> QED
    BY <2>2
<1>6. at2 \in Nat /\ at3 \in Nat /\ 4 <= at2 /\ at2 + 4 <= at3
  OBVIOUS
<1> HIDE DEF a, b, c
<1>7. /\ attrs # << >> /\ Len(attrs) = 3 /\ DOMAIN attrs = 1..3
      /\ attrs[1] = a /\ attrs[2] = b /\ attrs[3] = c
  OBVIOUS
<1> HIDE DEF attrs
<1>8. AreaLen(attrs) = at3 + 4 + l3 + p3
  BY <1>1, <1>2, <1>7 DEF AreaLen
<1>9. AreaLen(attrs) \in Nat
  BY <1>8, <1>6
<1>10. Header(m, type, txid) /\ m.attrs = attrs /\ m.len = AreaLen(attrs)
  BY <1>3, <1>4, <1>5, <1>9, HeaderOf
<1>11. After(a) = at2 /\ After(b) = at3
  BY <1>1, <1>2 DEF After
<1> HIDE DEF at2, at3
<1>12. /\ a.at + 4 <= m.len /\ b.at + 4 <= m.len /\ c.at + 4 <= m.len
  BY <1>2, <1>6, <1>8, <1>10
<1>13. Reached(m) = {1, 2, 3}
  <2>1. ASSUME NEW j \in 1..3
        PROVE  /\ m.attrs[j].at + 4 <= m.len
               /\ j > 1 => m.attrs[j].at = After(m.attrs[j - 1])
    BY <1>2, <1>7, <1>10, <1>11, <1>12
  <2>2. DOMAIN m.attrs = 1..3
    BY <1>7, <1>10
  <2>3. \A i \in 1..3 : \A j \in 1..i : j \in 1..3
    OBVIOUS
  <2>4. Reached(m) = 1..3
    BY <2>1, <2>2, <2>3 DEF Reached
  <2> QED
    BY <2>4
<1>14. /\ Holds(m, 1, t1, l1, v1) /\ Holds(m, 2, t2, l2, v2) /\ Holds(m, 3, t3, l3, v3)
  <2>0. /\ l1 \in Nat /\ l2 \in Nat /\ l3 \in Nat
        /\ p1 \in Nat /\ p2 \in Nat /\ p3 \in Nat
    OBVIOUS
  <2>1. ~Overruns(m, 1) /\ ~Overruns(m, 2) /\ ~Overruns(m, 3)
    <3>1. at2 = 4 + l1 + p1 /\ at3 = at2 + 4 + l2 + p2
      BY DEF at2, at3
    <3>2. m.len = at3 + 4 + l3 + p3
      BY <1>8, <1>10
    <3>3. m.attrs[1].at = 0 /\ m.attrs[1].len = l1
      BY <1>2, <1>7, <1>10
    <3>4. m.attrs[2].at = at2 /\ m.attrs[2].len = l2
      BY <1>2, <1>7, <1>10
    <3>5. m.attrs[3].at = at3 /\ m.attrs[3].len = l3
      BY <1>2, <1>7, <1>10
    <3>6. ~Overruns(m, 1)
      BY ONLY <1>6, <2>0, <3>1, <3>2, <3>3 DEF Overruns
    <3>7. ~Overruns(m, 2)
      BY ONLY <1>6, <2>0, <3>1, <3>2, <3>4 DEF Overruns
    <3>8. ~Overruns(m, 3)
      BY ONLY <1>6, <2>0, <3>1, <3>2, <3>5 DEF Overruns
    <3> QED
      BY <3>6, <3>7, <3>8
  <2> QED
    BY <1>2, <1>7, <1>10, <2>1 DEF Holds
<1> QED
  BY <1>10, <1>13, <1>14

(* A parser's choice among one position. *)
LEMMA OnlyPosition ==
  ASSUME NEW i \in Int
  PROVE  FirstOf({i}) = i /\ LastOf({i}) = i
BY DEF FirstOf, LastOf

-----------------------------------------------------------------------------
(* A reply is read as it was meant.  A refusal carries its code alone; a   *)
(* challenge the code, the realm and the nonce.                            *)
LEMMA AttributeKinds ==
  /\ ATTR_ERROR_CODE # ATTR_REALM /\ ATTR_ERROR_CODE # ATTR_NONCE /\ ATTR_REALM # ATTR_NONCE
  /\ ATTR_DIG_IDENTITY # ATTR_NONCE /\ ATTR_DIG_IDENTITY # ATTR_DIG_SIGNATURE
  /\ ATTR_NONCE # ATTR_DIG_SIGNATURE
  /\ BINDING_ERROR # BINDING_SUCCESS
  /\ REALM # NotUtf8
BY DEF ATTR_ERROR_CODE, ATTR_REALM, ATTR_NONCE, ATTR_DIG_IDENTITY, ATTR_DIG_SIGNATURE,
       BINDING_ERROR, BINDING_SUCCESS, REALM, NotUtf8

LEMMA ReasonLenType == \A code : ReasonLen(code) \in Nat
BY DEF ReasonLen

LEMMA RefusalRead ==
  ASSUME NEW txid, NEW code
  PROVE  ReadReply(EncodeChallenge(txid, code, None), txid)
           = Okay([code |-> code, realm |-> None, nonce |-> None])
<1> DEFINE m == EncodeChallenge(txid, code, None)
           len == 4 + ReasonLen(code)
           whole(type) == { i \in ReachedOf(m, type) : ~Overruns(m, i) }
           last(positions) == IF positions = {} THEN None
                              ELSE Some(m.attrs[LastOf(positions)].value)
           coded == { i \in whole(ATTR_ERROR_CODE) : m.attrs[i].len >= 4 }
           realms == { i \in whole(ATTR_REALM) : m.attrs[i].value # NotUtf8 }
<1>1. m = Message(BINDING_ERROR, txid, WriteAttr(<< >>, ATTR_ERROR_CODE, len, code))
  BY DEF EncodeChallenge
<1>2. len \in Nat /\ len >= 4
  BY ReasonLenType
<1> HIDE DEF m, len
<1>3. Header(m, BINDING_ERROR, txid) /\ Reached(m) = {1} /\ Holds(m, 1, ATTR_ERROR_CODE, len, code)
  BY <1>1, <1>2, OneWritten
<1>4. whole(ATTR_ERROR_CODE) = {1} /\ whole(ATTR_REALM) = {} /\ whole(ATTR_NONCE) = {}
  BY <1>3, AttributeKinds DEF ReachedOf, Holds
<1>5. ChallengeIn(m) = [code  |-> IF last(coded) = None THEN 0 ELSE last(coded)[1],
                        realm |-> last(realms), nonce |-> last(whole(ATTR_NONCE))]
  BY DEF ChallengeIn
<1>6. coded = {1} /\ realms = {}
  BY <1>2, <1>3, <1>4 DEF Holds
<1>7. last(coded) = Some(code) /\ last(realms) = None /\ last(whole(ATTR_NONCE)) = None
  <2> HIDE DEF coded, realms, whole
  <2>1. coded # {} /\ LastOf(coded) = 1 /\ m.attrs[1].value = code
    <3>1. LastOf({1}) = 1
      BY OnlyPosition
    <3> QED
      BY <1>3, <1>6, <3>1 DEF Holds
  <2> QED
    BY <1>4, <1>6, <2>1
<1> HIDE DEF last, coded, realms, whole
<1>8. Some(code) # None /\ Some(code)[1] = code
  BY DEF Some, None
<1>9. ChallengeIn(m) = [code |-> code, realm |-> None, nonce |-> None]
  BY <1>5, <1>7, <1>8
<1>10. ParseChallenge(m, txid) = Okay(ChallengeIn(m))
  BY <1>3 DEF ParseChallenge, Header
<1>11. ReadReply(m, txid) = ParseChallenge(m, txid)
  <2>1. m.size >= 2 /\ ~(m.size < 2) /\ m.type = BINDING_ERROR /\ m.type # BINDING_SUCCESS
    BY <1>3, AttributeKinds DEF Header
  <2> QED
    BY <2>1 DEF ReadReply
<1> QED
  BY <1>9, <1>10, <1>11 DEF m

LEMMA ChallengeRead ==
  ASSUME NEW txid, NEW code, NEW text, Len(text) \in Nat
  PROVE  ReadReply(EncodeChallenge(txid, code, Some(text)), txid)
           = Okay([code |-> code, realm |-> Some(REALM), nonce |-> Some(text)])
<1> DEFINE m == EncodeChallenge(txid, code, Some(text))
           len == 4 + ReasonLen(code)
           whole(type) == { i \in ReachedOf(m, type) : ~Overruns(m, i) }
           last(positions) == IF positions = {} THEN None
                              ELSE Some(m.attrs[LastOf(positions)].value)
           coded == { i \in whole(ATTR_ERROR_CODE) : m.attrs[i].len >= 4 }
           realms == { i \in whole(ATTR_REALM) : m.attrs[i].value # NotUtf8 }
<1>0. Some(text) # None /\ Some(text)[1] = text
  BY DEF Some, None
<1>1. m = Message(BINDING_ERROR, txid,
            WriteAttr(WriteAttr(WriteAttr(<< >>, ATTR_ERROR_CODE, len, code),
                                ATTR_REALM, 8, REALM),
                      ATTR_NONCE, Len(text), text))
  BY <1>0 DEF EncodeChallenge, WriteNonce
<1>2. len \in Nat /\ len >= 4
  BY ReasonLenType
<1> HIDE DEF m, len
<1>3. /\ Header(m, BINDING_ERROR, txid) /\ Reached(m) = {1, 2, 3}
      /\ Holds(m, 1, ATTR_ERROR_CODE, len, code)
      /\ Holds(m, 2, ATTR_REALM, 8, REALM)
      /\ Holds(m, 3, ATTR_NONCE, Len(text), text)
  <2> DEFINE size == Len(text)
  <2>1. 8 \in Nat /\ size \in Nat
    OBVIOUS
  <2>2. m = Message(BINDING_ERROR, txid,
              WriteAttr(WriteAttr(WriteAttr(<< >>, ATTR_ERROR_CODE, len, code),
                                  ATTR_REALM, 8, REALM),
                        ATTR_NONCE, size, text))
    BY <1>1
  <2> HIDE DEF size
  <2>3. /\ Header(m, BINDING_ERROR, txid) /\ Reached(m) = {1, 2, 3}
        /\ Holds(m, 1, ATTR_ERROR_CODE, len, code)
        /\ Holds(m, 2, ATTR_REALM, 8, REALM)
        /\ Holds(m, 3, ATTR_NONCE, size, text)
    BY <1>2, <2>1, <2>2, ThreeWritten
  <2> QED
    BY <2>3 DEF size
<1>4. whole(ATTR_ERROR_CODE) = {1} /\ whole(ATTR_REALM) = {2} /\ whole(ATTR_NONCE) = {3}
  BY <1>3, AttributeKinds DEF ReachedOf, Holds
<1>5. ChallengeIn(m) = [code  |-> IF last(coded) = None THEN 0 ELSE last(coded)[1],
                        realm |-> last(realms), nonce |-> last(whole(ATTR_NONCE))]
  BY DEF ChallengeIn
<1>6. coded = {1} /\ realms = {2}
  BY <1>2, <1>3, <1>4, AttributeKinds DEF Holds
<1>7. last(coded) = Some(code) /\ last(realms) = Some(REALM)
      /\ last(whole(ATTR_NONCE)) = Some(text)
  <2> HIDE DEF coded, realms, whole
  <2>1. coded # {} /\ LastOf(coded) = 1 /\ m.attrs[1].value = code
    <3>1. LastOf({1}) = 1
      BY OnlyPosition
    <3> QED
      BY <1>3, <1>6, <3>1 DEF Holds
  <2>2. realms # {} /\ LastOf(realms) = 2 /\ m.attrs[2].value = REALM
    <3>1. LastOf({2}) = 2
      BY OnlyPosition
    <3> QED
      BY <1>3, <1>6, <3>1 DEF Holds
  <2>3. whole(ATTR_NONCE) # {} /\ LastOf(whole(ATTR_NONCE)) = 3 /\ m.attrs[3].value = text
    <3>1. LastOf({3}) = 3
      BY OnlyPosition
    <3> QED
      BY <1>3, <1>4, <3>1 DEF Holds
  <2> QED
    BY <2>1, <2>2, <2>3
<1> HIDE DEF last, coded, realms, whole
<1>8. Some(code) # None /\ Some(code)[1] = code
  BY DEF Some, None
<1>9. ChallengeIn(m) = [code |-> code, realm |-> Some(REALM), nonce |-> Some(text)]
  BY <1>5, <1>7, <1>8
<1>10. ParseChallenge(m, txid) = Okay(ChallengeIn(m))
  BY <1>3 DEF ParseChallenge, Header
<1>11. ReadReply(m, txid) = ParseChallenge(m, txid)
  <2>1. m.size >= 2 /\ ~(m.size < 2) /\ m.type = BINDING_ERROR /\ m.type # BINDING_SUCCESS
    BY <1>3, AttributeKinds DEF Header
  <2> QED
    BY <2>1 DEF ReadReply
<1> QED
  BY <1>9, <1>10, <1>11 DEF m

LEMMA SuccessRead ==
  ASSUME NEW txid \in TransactionId, NEW reflexive \in SocketAddr
  PROVE  ReadReply(EncodeBindingSuccess(txid, reflexive), txid) = Okay(FoldAddr(reflexive))
<1> DEFINE value == XorMapped(FoldAddr(reflexive), txid)
           m == EncodeBindingSuccess(txid, reflexive)
<1>1. Len(value) \in Nat
  BY FoldAddrType, XorRoundTrip DEF Width
<1>2. m = Message(BINDING_SUCCESS, txid,
                  WriteAttr(<< >>, ATTR_XOR_MAPPED_ADDRESS, Len(value), value))
  BY DEF EncodeBindingSuccess
<1> HIDE DEF value, m
<1>3. Header(m, BINDING_SUCCESS, txid)
  <2>1. PICK len \in Nat : len = Len(value)
    BY <1>1
  <2>2. m = Message(BINDING_SUCCESS, txid,
                    WriteAttr(<< >>, ATTR_XOR_MAPPED_ADDRESS, len, value))
    BY <1>2, <2>1
  <2> QED
    BY <2>2, OneWritten
<1>4. ReadReply(m, txid) = ParseBindingResponse(m, txid)
  <2>1. m.size >= 2 /\ ~(m.size < 2) /\ m.type = BINDING_SUCCESS /\ m.type # BINDING_ERROR
    BY <1>3, AttributeKinds DEF Header
  <2> QED
    BY <2>1 DEF ReadReply
<1> QED
  BY <1>4, AddressRoundTrip DEF m

-----------------------------------------------------------------------------
(* What a server can decide of a datagram. *)
Decisions == {AnswerIt, Challenge(ERR_UNAUTHENTICATED), Challenge(ERR_STALE_NONCE),
              Refuse(ERR_UNAUTHENTICATED), Refuse(ERR_BAD_REQUEST), [act |-> "Ignore"]}

LEMMA DecisionsMade ==
  ASSUME NEW mode \in {"Advisory", "Required"}, NEW secret, NEW m, NEW source, NEW t
  PROVE  Decided(mode, secret, m, source, t) \in Decisions
<1>1. ASSUME NEW kind, NEW nonce, NEW verified
      PROVE  Decide(mode, kind, nonce, verified) \in Decisions
  BY DEF Decide, Decisions
<1>2. ASSUME NEW request
      PROVE  Decision(mode, secret, request, source, t) \in Decisions
  BY <1>1 DEF Decision
<1>3. Refuse(ERR_BAD_REQUEST) \in Decisions /\ [act |-> "Ignore"] \in Decisions
  BY DEF Decisions
<1> QED
  BY <1>2, <1>3 DEF Decided

(* The nonces issued in a state of the laws, to the address at hand. *)
LEMMA OwnNonceRead ==
  ASSUME addr \in Callers \union {Home}, NEW secret \in Secrets, NEW t \in Nat
  PROVE  LET text == NonceText(Issue(secret, Source, t))
         IN /\ Len(text) \in Nat
            /\ ReadNonce(secret, text, Source) = Issue(secret, Source, t)
            /\ \A other \in Secrets \ {secret} : ReadNonce(other, text, Source) = NotANonce
<1> DEFINE bucket == BucketAt(t)
           folded == [ip |-> FoldIp(addr), port |-> SourcePort]
           text == NonceText(Issue(secret, Source, t))
<1>1. FoldAddr(Source) = folded
  BY DEF Source, FoldAddr
<1>2. bucket \in 0..(BucketWrap - 1)
  <2>1. t \div BucketTicks \in Nat
    BY CredentialAssumption
  <2> QED
    BY <2>1, CredentialAssumption DEF BucketAt
<1>3. Issue(secret, Source, t) = [secret |-> secret, bucket |-> bucket, source |-> folded]
  BY <1>1 DEF Issue
<1> HIDE DEF bucket, folded
<1>4. FourOctets(bucket)
  <2>1. bucket \in Nat /\ BucketWrap - 1 \in Nat /\ bucket <= BucketWrap - 1
    BY <1>2, CredentialAssumption
  <2>2. FourOctets(BucketWrap - 1)
    BY TagAssumption, Zenon
  <2> QED
    BY <2>1, <2>2, SMT DEF FourOctets, MaxOctet
<1>5. /\ Tag(secret, bucket, folded) \in [1..16 -> Octet]
      /\ \A other \in Secrets \ {secret} : Tag(other, bucket, folded) # Tag(secret, bucket, folded)
  BY <1>2, TagAssumption, Zenon DEF folded
<1>6. ASSUME NEW other
      PROVE  /\ Len(text) \in Nat
             /\ ReadNonce(other, text, Source) =
                  IF Tag(other, bucket, folded) = Tag(secret, bucket, folded)
                  THEN [secret |-> other, bucket |-> bucket, source |-> folded]
                  ELSE NotANonce
  <2> DEFINE issued == [secret |-> secret, bucket |-> bucket, source |-> folded]
  <2>1. text = NonceText(issued)
    BY <1>3, Zenon
  <2>2. /\ Len(NonceText(issued)) \in Nat
        /\ ReadNonce(other, NonceText(issued), Source) =
             IF Tag(other, bucket, FoldAddr(Source)) = Tag(secret, bucket, folded)
             THEN [secret |-> other, bucket |-> bucket, source |-> FoldAddr(Source)]
             ELSE NotANonce
    BY <1>4, <1>5, NonceTextIsRead
  <2> QED
    BY <1>1, <2>1, <2>2, Zenon
<1> HIDE DEF text
<1> QED
  BY <1>3, <1>5, <1>6 DEF text

(* Whatever datagram a server replies to, the signed client reads from the *)
(* reply what the server decided, in every reachable state.                *)
THEOREM LawsReplyReadsAsDecided == LawsSpec => []ReplyReadsAsDecided
<1>1. ASSUME LawsInv, addr = Home, NEW mode \in {"Advisory", "Required"},
             NEW secret \in Secrets, NEW t \in Times
      PROVE  LET d == Decided(mode, secret, msg, Source, t)
                 read == ReadReply(Reply(d, secret, msg.txid, Source, t), msg.txid)
             IN CASE d.act = "Answer" -> read = Okay(FoldAddr(Source))
                  [] d.act = "Challenge" ->
                       /\ read.ok /\ read.value.code = d.code
                       /\ read.value.realm = Some(REALM)
                       /\ ReadNonce(secret, read.value.nonce[1], Source)
                            = Issue(secret, Source, t)
                  [] d.act = "Refuse" ->
                       read = Okay([code |-> d.code, realm |-> None, nonce |-> None])
                  [] d.act = "Ignore" -> TRUE
  <2> DEFINE d == Decided(mode, secret, msg, Source, t)
             txid == msg.txid
             text == NonceText(Issue(secret, Source, t))
             read == ReadReply(Reply(d, secret, txid, Source, t), txid)
  <2>1. txid \in TransactionId /\ Source \in SocketAddr /\ t \in Nat
    BY <1>1, LawsAssumption, SourceType DEF LawsInv, Txids
  <2>2. d \in Decisions
    BY DecisionsMade
  <2>3. Len(text) \in Nat /\ ReadNonce(secret, text, Source) = Issue(secret, Source, t)
    BY <1>1, <2>1, OwnNonceRead, Zenon
  <2> HIDE DEF d, txid, text
  <2>4. CASE d = AnswerIt
    <3>1. d.act = "Answer"
      BY <2>4 DEF AnswerIt
    <3>2. read = Okay(FoldAddr(Source))
      BY <2>1, <3>1, SuccessRead DEF Reply
    <3> QED
      BY <3>1, <3>2 DEF d, txid
  <2>5. ASSUME NEW code, d = Challenge(code)
        PROVE  d.act = "Challenge" /\ d.code = code /\ read.ok /\ read.value.code = code
               /\ read.value.realm = Some(REALM) /\ read.value.nonce[1] = text
    <3>1. d.act = "Challenge" /\ d.code = code
      BY <2>5 DEF Challenge
    <3>2. Reply(d, secret, txid, Source, t) = EncodeChallenge(txid, code, Some(text))
      BY <3>1 DEF Reply, text
    <3>3. read = Okay([code |-> code, realm |-> Some(REALM), nonce |-> Some(text)])
      BY <2>3, <3>2, ChallengeRead
    <3> HIDE DEF read
    <3> QED
      BY <3>1, <3>3 DEF Okay, Some
  <2>6. ASSUME NEW code, d = Refuse(code)
        PROVE  /\ d.act = "Refuse" /\ d.code = code
               /\ read = Okay([code |-> code, realm |-> None, nonce |-> None])
    <3>1. d.act = "Refuse" /\ d.code = code
      BY <2>6 DEF Refuse
    <3>2. Reply(d, secret, txid, Source, t) = EncodeChallenge(txid, code, None)
      BY <3>1 DEF Reply
    <3> QED
      BY <3>1, <3>2, RefusalRead
  <2> HIDE DEF read
  <2>7. CASE d = [act |-> "Ignore"]
    BY <2>7 DEF d
  <2>8. CASE \E code : d = Challenge(code)
    <3> PICK code : d = Challenge(code)
      BY <2>8
    <3>1. /\ d.act = "Challenge" /\ read.ok /\ read.value.code = d.code
          /\ read.value.realm = Some(REALM)
          /\ ReadNonce(secret, read.value.nonce[1], Source) = Issue(secret, Source, t)
      BY <2>3, <2>5
    <3> QED
      BY <3>1 DEF d, read, txid
  <2>9. CASE \E code : d = Refuse(code)
    <3> PICK code : d = Refuse(code)
      BY <2>9
    <3>1. /\ d.act = "Refuse"
          /\ read = Okay([code |-> d.code, realm |-> None, nonce |-> None])
      BY <2>6
    <3> QED
      BY <3>1 DEF d, read, txid
  <2> QED
    BY <2>2, <2>4, <2>7, <2>8, <2>9 DEF Decisions
<1>2. LawsInv => ReplyReadsAsDecided
  BY <1>1, Zenon DEF ReplyReadsAsDecided
<1> QED
  BY <1>2, LawsInvHolds, PTL

-----------------------------------------------------------------------------
(* Buckets of later times, across the wrap of the u32 too.                 *)
LEMMA LaterBuckets ==
  ASSUME NEW t \in Nat
  PROVE  /\ t + BucketTicks \in Nat /\ t + 2 * BucketTicks \in Nat
         /\ (BucketAt(t + BucketTicks) + BucketWrap - 1) % BucketWrap = BucketAt(t)
         /\ BucketAt(t + 2 * BucketTicks) # BucketAt(t)
         /\ (BucketAt(t + 2 * BucketTicks) + BucketWrap - 1) % BucketWrap # BucketAt(t)
<1> DEFINE B == BucketTicks
           W == BucketWrap
<1> PICK q, r : q = t \div B /\ r = t % B
  OBVIOUS
<1>1. /\ B \in Nat \ {0} /\ W \in Nat \ {0} /\ 2 < W
      /\ q \in Nat /\ r \in Nat /\ r < B /\ t = B * q + r
  BY CredentialAssumption, Division
<1>2. BucketAt(t) = q % W
  BY DEF BucketAt
<1>3. (t + B) \div B = q + 1 /\ (t + 2 * B) \div B = q + 2
  <2>1. t + B \in Nat /\ t + 2 * B \in Nat /\ q + 1 \in Nat /\ q + 2 \in Nat
    BY <1>1
  <2>2. t + B = B * (q + 1) + r /\ t + 2 * B = B * (q + 2) + r
    BY <1>1
  <2> QED
    BY <1>1, <2>1, <2>2, DivisionUnique
<1>4. BucketAt(t + B) = (q + 1) % W /\ BucketAt(t + 2 * B) = (q + 2) % W
  BY <1>3 DEF BucketAt
<1>5. (((q + 1) % W) + W - 1) % W = q % W
  BY <1>1, PreviousResidue
<1>6. (((q + 2) % W) + W - 1) % W = (q + 1) % W
  <2>1. q + 1 \in Nat /\ (q + 1) + 1 = q + 2
    BY <1>1
  <2>2. ((((q + 1) + 1) % W) + W - 1) % W = (q + 1) % W
    BY <1>1, <2>1, PreviousResidue
  <2> QED
    BY <2>1, <2>2
<1>7. (q + 1) % W # q % W /\ (q + 2) % W # q % W
  BY <1>1, SameResidue
<1> QED
  BY <1>1, <1>2, <1>4, <1>5, <1>6, <1>7

(* The requests of a client with a good key, as a server classifies them.  *)
LEMMA Classified ==
  ASSUME NEW m, NEW txid, Header(m, BINDING_REQUEST, txid)
  PROVE  ClassifyRequest(m) = ClassifyAttrs(m)
BY DEF Header, ClassifyRequest, ParseBindingRequest, Okay

LEMMA GoodIdentity ==
  ASSUME NEW m, NEW i, NEW key,
         Holds(m, i, ATTR_DIG_IDENTITY, 92, [version |-> CREDENTIAL_VERSION, spki |-> Spki(key)])
  PROVE  WellShaped(m.attrs[i]) /\ ~Overruns(m, i) /\ m.attrs[i].value.spki = Spki(key)
<1>1. m.attrs[i].value.version = CREDENTIAL_VERSION /\ m.attrs[i].value.spki = Spki(key)
  BY DEF Holds
<1>2. IsValidSpkiDer(Spki(key))
  BY DEF IsValidSpkiDer, Spki
<1> QED
  BY <1>1, <1>2, AttributeKinds DEF Holds, WellShaped, P256_SPKI_LEN

LEMMA IdentityClassified ==
  ASSUME NEW txid, NEW key
  PROVE  ClassifyRequest(EncodeIdentityRequest(txid, Spki(key)))
           = Okay([kind |-> "identity", spki |-> Spki(key)])
<1> DEFINE m == EncodeIdentityRequest(txid, Spki(key))
           identity == [version |-> CREDENTIAL_VERSION, spki |-> Spki(key)]
           dig == { type \in {ATTR_DIG_IDENTITY, ATTR_NONCE, ATTR_DIG_SIGNATURE} :
                      ReachedOf(m, type) # {} }
<1>1. m = Message(BINDING_REQUEST, txid, WriteAttr(<< >>, ATTR_DIG_IDENTITY, 92, identity))
  BY DEF EncodeIdentityRequest, WriteIdentity, Spki, P256_SPKI_LEN
<1> HIDE DEF m
<1>2. /\ Header(m, BINDING_REQUEST, txid) /\ Reached(m) = {1}
      /\ Holds(m, 1, ATTR_DIG_IDENTITY, 92, identity)
  <2> HIDE DEF identity
  <2>1. 92 \in Nat
    OBVIOUS
  <2> QED
    BY <1>1, <2>1, OneWritten
<1>3. WellShaped(m.attrs[1]) /\ ~Overruns(m, 1) /\ m.attrs[1].value.spki = Spki(key)
  BY <1>2, GoodIdentity
<1> HIDE DEF identity
<1>4. /\ ReachedOf(m, ATTR_DIG_IDENTITY) = {1} /\ ReachedOf(m, ATTR_NONCE) = {}
      /\ ReachedOf(m, ATTR_DIG_SIGNATURE) = {}
  BY <1>2, AttributeKinds DEF ReachedOf, Holds
<1>5. ~MalformedAttrs(m)
  <2>1. Cardinality(ReachedOf(m, ATTR_DIG_IDENTITY)) = 1 /\ Cardinality(ReachedOf(m, ATTR_NONCE)) = 0
    BY <1>4, FS_Singleton, FS_EmptySet
  <2>2. \A i \in Reached(m) : ~Overruns(m, i) /\ WellShaped(m.attrs[i])
    BY <1>2, <1>3
  <2> QED
    BY <1>4, <2>1, <2>2 DEF MalformedAttrs
<1>6. dig = {ATTR_DIG_IDENTITY}
  BY <1>4, AttributeKinds
<1>7. FirstOf(ReachedOf(m, ATTR_DIG_IDENTITY)) = 1
  BY <1>4, OnlyPosition
<1>8. ClassifyAttrs(m) = Okay([kind |-> "identity", spki |-> Spki(key)])
  <2> DEFINE value(type) == m.attrs[FirstOf(ReachedOf(m, type))].value
             bare == Okay([kind |-> "bare"])
             asked == Okay([kind |-> "identity", spki |-> value(ATTR_DIG_IDENTITY).spki])
             signed == Okay([kind |-> "signed", spki |-> value(ATTR_DIG_IDENTITY).spki,
                             nonce |-> value(ATTR_NONCE),
                             signature |-> value(ATTR_DIG_SIGNATURE).signature])
  <2>1. ClassifyAttrs(m) =
          CASE MalformedAttrs(m) -> Err("Malformed")
            [] ~MalformedAttrs(m) /\ dig = {} -> bare
            [] ~MalformedAttrs(m) /\ dig = {ATTR_DIG_IDENTITY} -> asked
            [] ~MalformedAttrs(m) /\ Cardinality(dig) = 3 -> signed
            [] OTHER -> Err("Malformed")
    BY DEF ClassifyAttrs
  <2>2. dig # {} /\ Cardinality(dig) # 3
    <3>1. Cardinality({ATTR_DIG_IDENTITY}) = 1
      BY FS_Singleton
    <3> HIDE DEF dig
    <3> QED
      BY <1>6, <3>1
  <2>3. asked = Okay([kind |-> "identity", spki |-> Spki(key)])
    BY <1>3, <1>7
  <2> HIDE DEF dig, bare, asked, signed
  <2> QED
    BY <1>5, <1>6, <2>1, <2>2, <2>3
<1> QED
  BY <1>2, <1>8, Classified DEF m

LEMMA ThreeKinds == Cardinality({ATTR_DIG_IDENTITY, ATTR_NONCE, ATTR_DIG_SIGNATURE}) = 3
<1>1. IsFiniteSet({ATTR_DIG_IDENTITY}) /\ Cardinality({ATTR_DIG_IDENTITY}) = 1
  BY FS_Singleton
<1>2. {ATTR_DIG_IDENTITY} \union {ATTR_NONCE} = {ATTR_DIG_IDENTITY, ATTR_NONCE}
  OBVIOUS
<1>3. /\ IsFiniteSet({ATTR_DIG_IDENTITY, ATTR_NONCE})
      /\ Cardinality({ATTR_DIG_IDENTITY, ATTR_NONCE}) = 2
  BY <1>1, <1>2, FS_AddElement, AttributeKinds
<1>4. {ATTR_DIG_IDENTITY, ATTR_NONCE} \union {ATTR_DIG_SIGNATURE}
        = {ATTR_DIG_IDENTITY, ATTR_NONCE, ATTR_DIG_SIGNATURE}
  OBVIOUS
<1>5. ATTR_DIG_SIGNATURE \notin {ATTR_DIG_IDENTITY, ATTR_NONCE}
  BY AttributeKinds
<1> QED
  BY <1>3, <1>4, <1>5, FS_AddElement

SignatureOf(txid, text, key) == Sign(Signer(key), SigningMessage(txid, text, Spki(key)))
SignedKind(txid, text, key) == [kind |-> "signed", spki |-> Spki(key), nonce |-> text,
                                signature |-> SignatureOf(txid, text, key)]

LEMMA SignedClassified ==
  ASSUME NEW txid, NEW text, Len(text) \in Nat, NEW key
  PROVE  LET m == EncodeSignedRequest(txid, text, Signer(key))
         IN m.txid = txid /\ ClassifyRequest(m) = Okay(SignedKind(txid, text, key))
<1> DEFINE m == EncodeSignedRequest(txid, text, Signer(key))
           size == Len(text)
           made == SignatureOf(txid, text, key)
           identity == [version |-> CREDENTIAL_VERSION, spki |-> Spki(key)]
           sealed == [version |-> CREDENTIAL_VERSION, signature |-> made]
           dig == { type \in {ATTR_DIG_IDENTITY, ATTR_NONCE, ATTR_DIG_SIGNATURE} :
                      ReachedOf(m, type) # {} }
<1>1. m = Message(BINDING_REQUEST, txid,
            WriteAttr(WriteAttr(WriteAttr(<< >>, ATTR_DIG_IDENTITY, 92, identity),
                                ATTR_NONCE, size, text),
                      ATTR_DIG_SIGNATURE, 71, sealed))
  <2>1. Signer(key).spki = Spki(key) /\ 1 + Spki(key).len = 92 /\ 1 + made.len = 71
    BY DEF Signer, Spki, SignatureOf, Sign, P256_SPKI_LEN
  <2>2. Sign(Signer(key), SigningMessage(txid, text, Signer(key).spki)) = made
    BY <2>1 DEF SignatureOf
  <2> HIDE DEF made
  <2> QED
    BY <2>1, <2>2 DEF EncodeSignedRequest, WriteIdentity, WriteNonce, WriteSignature
<1>2. size \in Nat /\ 92 \in Nat /\ 71 \in Nat
  OBVIOUS
<1> HIDE DEF m, made, size
<1>3. /\ Header(m, BINDING_REQUEST, txid) /\ Reached(m) = {1, 2, 3}
      /\ Holds(m, 1, ATTR_DIG_IDENTITY, 92, identity)
      /\ Holds(m, 2, ATTR_NONCE, size, text)
      /\ Holds(m, 3, ATTR_DIG_SIGNATURE, 71, sealed)
  <2> HIDE DEF identity, sealed
  <2> QED
    BY <1>1, <1>2, ThreeWritten
<1>4. WellShaped(m.attrs[1]) /\ ~Overruns(m, 1) /\ m.attrs[1].value.spki = Spki(key)
  BY <1>3, GoodIdentity
<1>5. WellShaped(m.attrs[2]) /\ ~Overruns(m, 2) /\ m.attrs[2].value = text
  BY <1>3, AttributeKinds DEF Holds, WellShaped
<1>6. WellShaped(m.attrs[3]) /\ ~Overruns(m, 3) /\ m.attrs[3].value.signature = made
  <2>1. m.attrs[3].value.version = CREDENTIAL_VERSION /\ m.attrs[3].value.signature = made
    BY <1>3 DEF Holds
  <2> HIDE DEF sealed
  <2>2. m.attrs[3].len = 71 /\ m.attrs[3].type = ATTR_DIG_SIGNATURE /\ ~Overruns(m, 3)
    BY <1>3 DEF Holds
  <2>3. IsValidSignatureDerLen(71 - 1)
    BY DEF IsValidSignatureDerLen, MIN_SIGNATURE_ATTR_LEN, MAX_SIGNATURE_LEN
  <2> QED
    BY <2>1, <2>2, <2>3, AttributeKinds DEF WellShaped
<1>7. /\ ReachedOf(m, ATTR_DIG_IDENTITY) = {1} /\ ReachedOf(m, ATTR_NONCE) = {2}
      /\ ReachedOf(m, ATTR_DIG_SIGNATURE) = {3}
  <2> HIDE DEF identity, sealed
  <2> QED
    BY <1>3, AttributeKinds DEF ReachedOf, Holds
<1>8. ~MalformedAttrs(m)
  <2>1. Cardinality(ReachedOf(m, ATTR_DIG_IDENTITY)) = 1 /\ Cardinality(ReachedOf(m, ATTR_NONCE)) = 1
    BY <1>7, FS_Singleton
  <2>2. \A i \in Reached(m) : ~Overruns(m, i) /\ WellShaped(m.attrs[i])
    BY <1>3, <1>4, <1>5, <1>6
  <2>3. ~\E i \in ReachedOf(m, ATTR_DIG_SIGNATURE), j \in Reached(m) : i < j
    BY <1>3, <1>7
  <2> QED
    BY <2>1, <2>2, <2>3 DEF MalformedAttrs
<1>9. dig = {ATTR_DIG_IDENTITY, ATTR_NONCE, ATTR_DIG_SIGNATURE}
  BY <1>7
<1>10. /\ FirstOf(ReachedOf(m, ATTR_DIG_IDENTITY)) = 1
       /\ FirstOf(ReachedOf(m, ATTR_NONCE)) = 2
       /\ FirstOf(ReachedOf(m, ATTR_DIG_SIGNATURE)) = 3
  <2>1. FirstOf({1}) = 1 /\ FirstOf({2}) = 2 /\ FirstOf({3}) = 3
    BY OnlyPosition
  <2> QED
    BY <1>7, <2>1
<1>11. ClassifyAttrs(m) = Okay(SignedKind(txid, text, key))
  <2> DEFINE value(type) == m.attrs[FirstOf(ReachedOf(m, type))].value
             bare == Okay([kind |-> "bare"])
             asked == Okay([kind |-> "identity", spki |-> value(ATTR_DIG_IDENTITY).spki])
             signed == Okay([kind |-> "signed", spki |-> value(ATTR_DIG_IDENTITY).spki,
                             nonce |-> value(ATTR_NONCE),
                             signature |-> value(ATTR_DIG_SIGNATURE).signature])
  <2>1. ClassifyAttrs(m) =
          CASE MalformedAttrs(m) -> Err("Malformed")
            [] ~MalformedAttrs(m) /\ dig = {} -> bare
            [] ~MalformedAttrs(m) /\ dig = {ATTR_DIG_IDENTITY} -> asked
            [] ~MalformedAttrs(m) /\ Cardinality(dig) = 3 -> signed
            [] OTHER -> Err("Malformed")
    BY DEF ClassifyAttrs
  <2>2. dig # {} /\ dig # {ATTR_DIG_IDENTITY} /\ Cardinality(dig) = 3
    BY <1>9, ThreeKinds, AttributeKinds
  <2>3. signed = Okay(SignedKind(txid, text, key))
    BY <1>4, <1>5, <1>6, <1>10 DEF SignedKind, made
  <2> HIDE DEF dig, bare, asked, signed
  <2> QED
    BY <1>8, <2>1, <2>2, <2>3
<1>12. m.txid = txid /\ ClassifyRequest(m) = ClassifyAttrs(m)
  BY <1>3, Classified DEF Header
<1> QED
  BY <1>11, <1>12 DEF m

(* What a server decides of the two requests. *)
LEMMA IdentityDecided ==
  ASSUME NEW mode \in {"Advisory", "Required"}, NEW secret, NEW source, NEW t, NEW txid, NEW key
  PROVE  Decided(mode, secret, EncodeIdentityRequest(txid, Spki(key)), source, t)
           = Challenge(ERR_UNAUTHENTICATED)
<1> DEFINE m == EncodeIdentityRequest(txid, Spki(key))
           c == ClassifyRequest(m)
           request == [kind     |-> c.value.kind,
                       nonce    |-> IF c.value.kind = "signed"
                                    THEN ReadNonce(secret, c.value.nonce, source) ELSE NoNonce,
                       verifies |-> VerifySignedRequest(m.txid, c.value).ok]
<1>1. c.ok /\ c.value.kind = "identity"
  BY IdentityClassified DEF Okay
<1>2. Decided(mode, secret, m, source, t) = Decision(mode, secret, request, source, t)
  BY <1>1 DEF Decided
<1> HIDE DEF c, m
<1>3. request.kind = "identity"
  BY <1>1
<1> HIDE DEF request
<1>4. \A nonce, verified : Decide(mode, "identity", nonce, verified) = Challenge(ERR_UNAUTHENTICATED)
  BY DEF Decide
<1>5. Decision(mode, secret, request, source, t) = Challenge(ERR_UNAUTHENTICATED)
  BY <1>3, <1>4 DEF Decision
<1> QED
  BY <1>2, <1>5 DEF m

Outcome(check) == IF check = "Fresh" THEN AnswerIt
                  ELSE Challenge(IF check = "Stale" THEN ERR_STALE_NONCE ELSE ERR_UNAUTHENTICATED)

LEMMA SignedDecided ==
  ASSUME NEW mode \in {"Advisory", "Required"}, NEW secret, NEW source, NEW t,
         NEW txid, NEW text, Len(text) \in Nat, NEW key
  PROVE  Decided(mode, secret, EncodeSignedRequest(txid, text, Signer(key)), source, t)
           = Outcome(Check(secret, ReadNonce(secret, text, source), source, t))
<1> DEFINE m == EncodeSignedRequest(txid, text, Signer(key))
           c == ClassifyRequest(m)
           nonce == ReadNonce(secret, text, source)
           request == [kind     |-> c.value.kind,
                       nonce    |-> IF c.value.kind = "signed"
                                    THEN ReadNonce(secret, c.value.nonce, source) ELSE NoNonce,
                       verifies |-> VerifySignedRequest(m.txid, c.value).ok]
<1>1. m.txid = txid /\ c.ok /\ c.value = SignedKind(txid, text, key)
  BY SignedClassified DEF Okay
<1>2. Decided(mode, secret, m, source, t) = Decision(mode, secret, request, source, t)
  BY <1>1 DEF Decided
<1> HIDE DEF c, m
<1>3. c.value.kind = "signed" /\ c.value.nonce = text
  BY <1>1 DEF SignedKind
<1>4. VerifySignedRequest(txid, SignedKind(txid, text, key)).ok
  <2> DEFINE kind == SignedKind(txid, text, key)
  <2>1. /\ kind.kind = "signed" /\ kind.spki = Spki(key) /\ kind.nonce = text
        /\ kind.signature = SignatureOf(txid, text, key)
    BY DEF SignedKind
  <2>2. IsValidSpkiDer(Spki(key)) /\ Spki(key).key = key
    BY DEF IsValidSpkiDer, Spki
  <2>3. /\ SignatureOf(txid, text, key).key = key
        /\ SignatureOf(txid, text, key).over = SigningMessage(txid, text, Spki(key))
    BY DEF SignatureOf, Sign, Signer, Spki
  <2> HIDE DEF kind
  <2>4. VerifySignedRequest(txid, kind) = Okay(kind.spki)
    BY <2>1, <2>2, <2>3 DEF VerifySignedRequest
  <2> QED
    BY <2>4 DEF Okay, kind
<1>5. request.kind = "signed" /\ request.nonce = nonce /\ request.verifies
  BY <1>1, <1>3, <1>4
<1> HIDE DEF request, nonce
<1> DEFINE check == Check(secret, nonce, source, t)
<1>6. check \in {"Fresh", "Stale", "Invalid"}
  BY DEF Check
<1>7. Decision(mode, secret, request, source, t) = Decide(mode, "signed", check, check = "Fresh")
  BY <1>5 DEF Decision
<1> HIDE DEF check
<1>8. Decide(mode, "signed", check, check = "Fresh") = Outcome(check)
  BY <1>6 DEF Decide, Outcome
<1> QED
  BY <1>2, <1>7, <1>8 DEF m, nonce, check

(* A node with a good key gets through, in every state in which addr is a  *)
(* caller's: its challenge, read, signed and sent back, octet by octet, is *)
(* answered within the next bucket, stale in the one after, and worth      *)
(* nothing to a server with another secret.                                *)
THEOREM LawsChallengeCanBeMet == ChallengeCanBeMet
<1>1. ASSUME addr \in Callers, NEW mode \in {"Advisory", "Required"},
             NEW secret \in Secrets, NEW t \in Times
      PROVE  LET asked     == EncodeIdentityRequest(Mine, Spki("node"))
                 challenge == Reply(Decided(mode, secret, asked, Source, t), secret, Mine, Source, t)
                 nonce     == ReadReply(challenge, Mine).value.nonce[1]
                 signed    == EncodeSignedRequest(Other, nonce, Signer("node"))
                 Then(other, later) == Decided(mode, other, signed, Source, later)
             IN /\ \A later \in {t, t + BucketTicks} : Then(secret, later) = AnswerIt
                /\ Then(secret, t + 2 * BucketTicks) = Challenge(ERR_STALE_NONCE)
                /\ \A other \in Secrets \ {secret} :
                     Then(other, t) = Challenge(ERR_UNAUTHENTICATED)
  <2> DEFINE asked     == EncodeIdentityRequest(Mine, Spki("node"))
             challenge == Reply(Decided(mode, secret, asked, Source, t), secret, Mine, Source, t)
             nonce     == ReadReply(challenge, Mine).value.nonce[1]
             signed    == EncodeSignedRequest(Other, nonce, Signer("node"))
             Then(other, later) == Decided(mode, other, signed, Source, later)
             text   == NonceText(Issue(secret, Source, t))
             issued == Issue(secret, Source, t)
  <2>1. t \in Nat
    BY LawsAssumption
  <2>2. /\ Len(text) \in Nat /\ ReadNonce(secret, text, Source) = issued
        /\ \A other \in Secrets \ {secret} : ReadNonce(other, text, Source) = NotANonce
    BY <1>1, <2>1, OwnNonceRead, Zenon
  <2> HIDE DEF text
  <2>3. challenge = EncodeChallenge(Mine, ERR_UNAUTHENTICATED, Some(text))
    <3>1. Decided(mode, secret, asked, Source, t) = Challenge(ERR_UNAUTHENTICATED)
      BY IdentityDecided
    <3> QED
      BY <3>1 DEF Reply, Challenge, text
  <2>4. nonce = text
    <3>1. ReadReply(challenge, Mine)
            = Okay([code |-> ERR_UNAUTHENTICATED, realm |-> Some(REALM), nonce |-> Some(text)])
      BY <2>2, <2>3, ChallengeRead
    <3> HIDE DEF challenge
    <3> QED
      BY <3>1 DEF Okay, Some
  <2> HIDE DEF nonce
  <2>5. ASSUME NEW other, NEW later
        PROVE  Then(other, later)
                 = Outcome(Check(other, ReadNonce(other, text, Source), Source, later))
    BY <2>2, <2>4, SignedDecided
  <2> HIDE DEF Then, issued
  <2>6. issued.secret = secret /\ issued.source = FoldAddr(Source) /\ issued.bucket = BucketAt(t)
    BY DEF issued, Issue
  <2>7. /\ Check(secret, issued, Source, t) = "Fresh"
        /\ Check(secret, issued, Source, t + BucketTicks) = "Fresh"
        /\ Check(secret, issued, Source, t + 2 * BucketTicks) = "Stale"
    BY <2>1, <2>6, LaterBuckets DEF Check
  <2>8. \A later \in {t, t + BucketTicks} : Then(secret, later) = AnswerIt
    BY <2>2, <2>5, <2>7 DEF Outcome
  <2>9. Then(secret, t + 2 * BucketTicks) = Challenge(ERR_STALE_NONCE)
    BY <2>2, <2>5, <2>7 DEF Outcome
  <2>10. ASSUME NEW other \in Secrets \ {secret}
         PROVE  Then(other, t) = Challenge(ERR_UNAUTHENTICATED)
    <3>1. ReadNonce(other, text, Source) = NotANonce /\ NotANonce.secret = 0 /\ other # 0
      BY <2>2, TagAssumption DEF NotANonce
    <3>2. Check(other, NotANonce, Source, t) = "Invalid"
      BY <3>1 DEF Check
    <3> QED
      BY <2>5, <3>1, <3>2 DEF Outcome
  <2> QED
    BY <2>8, <2>9, <2>10 DEF Then, signed, nonce, challenge, asked
<1> QED
  BY <1>1, Zenon DEF ChallengeCanBeMet
-----------------------------------------------------------------------------
(* Attributes no parser knows.  What a parser reads of an area is settled  *)
(* by the first, the last and the plurality of the attributes of some      *)
(* kinds, K, that are known.  Two areas are alike if that is the same in   *)
(* both, for every such K.                                                 *)
AttrAt(attrs, i) == Attr(attrs[i].type, attrs[i].len, attrs[i].value)
At(attrs, K)     == { i \in DOMAIN attrs : AttrAt(attrs, i) \in K }
Several(S)       == \E i, j \in S : i # j
KnownOnly(K)     == \A x \in K : ~Unknown(x.type)

Alike(a, b, K) ==
  /\ At(a, K) = {} <=> At(b, K) = {}
  /\ At(a, K) # {} =>
       /\ AttrAt(a, FirstOf(At(a, K))) = AttrAt(b, FirstOf(At(b, K)))
       /\ AttrAt(a, LastOf(At(a, K))) = AttrAt(b, LastOf(At(b, K)))
  /\ Several(At(a, K)) <=> Several(At(b, K))

Agree(a, b) == \A K : KnownOnly(K) => Alike(a, b, K)

LEMMA SeveralExtended ==
  ASSUME NEW n \in Nat, NEW S, S \subseteq 1..n
  PROVE  Several(S \union {n + 1}) <=> S # {}
<1>1. n + 1 \notin S
  OBVIOUS
<1>2. ASSUME S = {} PROVE ~Several(S \union {n + 1})
  BY <1>2 DEF Several
<1>3. ASSUME NEW i \in S PROVE Several(S \union {n + 1})
  <2>1. i # n + 1 /\ i \in S \union {n + 1} /\ n + 1 \in S \union {n + 1}
    BY <1>1
  <2> QED
    BY <2>1 DEF Several
<1> QED
  BY <1>2, <1>3

LEMMA AtWithin ==
  ASSUME NEW attrs, Laid(attrs), NEW K
  PROVE  At(attrs, K) \subseteq 1..Len(attrs) /\ Len(attrs) \in Nat
BY ListFacts DEF At

(* What one more attribute does to the positions of a kind. *)
LEMMA AtWritten ==
  ASSUME NEW attrs, Laid(attrs), NEW type, NEW len \in Nat, NEW value,
         NEW longer, longer = WriteAttr(attrs, type, len, value), NEW K
  PROVE  /\ Attr(type, len, value) \in K => At(longer, K) = At(attrs, K) \union {Len(attrs) + 1}
         /\ Attr(type, len, value) \notin K => At(longer, K) = At(attrs, K)
         /\ \A i \in At(attrs, K) : AttrAt(longer, i) = AttrAt(attrs, i)
         /\ AttrAt(longer, Len(attrs) + 1) = Attr(type, len, value)
<1> PICK n \in Nat : n = Len(attrs)
  BY ListFacts
<1>1. /\ Laid(longer) /\ Len(longer) = n + 1 /\ \A i \in DOMAIN attrs : longer[i] = attrs[i]
      /\ longer[n + 1] = [type |-> type, at |-> AreaLen(attrs), len |-> len, value |-> value]
  BY LaidWritten
<1>2. DOMAIN attrs = 1..n /\ DOMAIN longer = 1..(n + 1)
  BY <1>1, ListFacts
<1>3. /\ AttrAt(longer, n + 1) = Attr(type, len, value)
      /\ \A i \in 1..n : AttrAt(longer, i) = AttrAt(attrs, i)
  BY <1>1, <1>2 DEF AttrAt
<1>4. \A i : i \in 1..(n + 1) <=> i \in 1..n \/ i = n + 1
  OBVIOUS
<1> QED
  BY <1>2, <1>3, <1>4 DEF At

LEMMA AlikeUnknown ==
  ASSUME NEW a, Laid(a), NEW b, NEW K, KnownOnly(K), Alike(a, b, K),
         NEW type, Unknown(type), NEW len \in Nat, NEW value
  PROVE  Alike(WriteAttr(a, type, len, value), b, K)
<1> DEFINE longer == WriteAttr(a, type, len, value)
<1>1. Attr(type, len, value) \notin K
  BY DEF KnownOnly, Attr
<1>2. At(longer, K) = At(a, K) /\ \A i \in At(a, K) : AttrAt(longer, i) = AttrAt(a, i)
  BY <1>1, AtWritten
<1>3. At(a, K) # {} => FirstOf(At(a, K)) \in At(a, K) /\ LastOf(At(a, K)) \in At(a, K)
  BY AtWithin, Ends
<1> HIDE DEF longer
<1> QED
  BY <1>2, <1>3 DEF Alike, longer

LEMMA AlikeKnown ==
  ASSUME NEW a, Laid(a), NEW b, Laid(b), NEW K, Alike(a, b, K),
         NEW type, NEW len \in Nat, NEW value
  PROVE  Alike(WriteAttr(a, type, len, value), WriteAttr(b, type, len, value), K)
<1> DEFINE longer == WriteAttr(a, type, len, value)
           other  == WriteAttr(b, type, len, value)
           x == Attr(type, len, value)
<1>1. /\ x \in K => At(longer, K) = At(a, K) \union {Len(a) + 1}
      /\ x \notin K => At(longer, K) = At(a, K)
      /\ \A i \in At(a, K) : AttrAt(longer, i) = AttrAt(a, i)
      /\ AttrAt(longer, Len(a) + 1) = x
  BY AtWritten
<1>2. /\ x \in K => At(other, K) = At(b, K) \union {Len(b) + 1}
      /\ x \notin K => At(other, K) = At(b, K)
      /\ \A i \in At(b, K) : AttrAt(other, i) = AttrAt(b, i)
      /\ AttrAt(other, Len(b) + 1) = x
  BY AtWritten
<1>3. /\ At(a, K) \subseteq 1..Len(a) /\ Len(a) \in Nat
      /\ At(b, K) \subseteq 1..Len(b) /\ Len(b) \in Nat
  BY AtWithin
<1>4. /\ At(a, K) # {} => FirstOf(At(a, K)) \in At(a, K) /\ LastOf(At(a, K)) \in At(a, K)
      /\ At(b, K) # {} => FirstOf(At(b, K)) \in At(b, K) /\ LastOf(At(b, K)) \in At(b, K)
  BY <1>3, Ends
<1> HIDE DEF longer, other, x
<1>5. CASE x \notin K
  BY <1>1, <1>2, <1>4, <1>5 DEF Alike, longer, other
<1>6. CASE x \in K
  <2>1. /\ FirstOf(At(longer, K)) = IF At(a, K) = {} THEN Len(a) + 1 ELSE FirstOf(At(a, K))
        /\ LastOf(At(longer, K)) = Len(a) + 1
        /\ Several(At(longer, K)) <=> At(a, K) # {}
    BY <1>1, <1>3, <1>6, EndsExtended, SeveralExtended
  <2>2. /\ FirstOf(At(other, K)) = IF At(b, K) = {} THEN Len(b) + 1 ELSE FirstOf(At(b, K))
        /\ LastOf(At(other, K)) = Len(b) + 1
        /\ Several(At(other, K)) <=> At(b, K) # {}
    BY <1>2, <1>3, <1>6, EndsExtended, SeveralExtended
  <2>3. At(longer, K) # {} /\ At(other, K) # {}
    BY <1>1, <1>2, <1>6
  <2>4. AttrAt(longer, LastOf(At(longer, K))) = AttrAt(other, LastOf(At(other, K)))
    BY <1>1, <1>2, <2>1, <2>2
  <2>5. AttrAt(longer, FirstOf(At(longer, K))) = AttrAt(other, FirstOf(At(other, K)))
    <3>1. CASE At(a, K) = {}
      <4>1. At(b, K) = {}
        BY <3>1 DEF Alike
      <4> QED
        BY <1>1, <1>2, <2>1, <2>2, <3>1, <4>1
    <3>2. CASE At(a, K) # {}
      <4>1. At(b, K) # {} /\ AttrAt(a, FirstOf(At(a, K))) = AttrAt(b, FirstOf(At(b, K)))
        BY <3>2 DEF Alike
      <4>2. AttrAt(longer, FirstOf(At(longer, K))) = AttrAt(a, FirstOf(At(a, K)))
        BY <1>1, <1>4, <2>1, <3>2
      <4>3. AttrAt(other, FirstOf(At(other, K))) = AttrAt(b, FirstOf(At(b, K)))
        BY <1>2, <1>4, <2>2, <4>1
      <4> QED
        BY <4>1, <4>2, <4>3
    <3> QED
      BY <3>1, <3>2
  <2>6. At(a, K) = {} <=> At(b, K) = {}
    BY DEF Alike
  <2> QED
    BY <2>1, <2>2, <2>3, <2>4, <2>5, <2>6 DEF Alike, longer, other
<1> QED
  BY <1>5, <1>6

(* Areas that are alike are read alike by the three parsers: as declared,  *)
(* laid out, and of one transaction.                                       *)
Pool(a, b) == { AttrAt(a, i) : i \in DOMAIN a } \union { AttrAt(b, i) : i \in DOMAIN b }

Twins(m, p) ==
  /\ Laid(m.attrs) /\ m.len = AreaLen(m.attrs) /\ Laid(p.attrs) /\ p.len = AreaLen(p.attrs)
  /\ m.txid = p.txid /\ Agree(m.attrs, p.attrs)

LEMMA AttrParts ==
  ASSUME NEW attrs, NEW i
  PROVE  /\ AttrAt(attrs, i).type = attrs[i].type /\ AttrAt(attrs, i).len = attrs[i].len
         /\ AttrAt(attrs, i).value = attrs[i].value
BY DEF AttrAt, Attr

LEMMA PoolMembers ==
  ASSUME NEW m, NEW p, NEW q \in {m, p}, NEW i \in DOMAIN q.attrs
  PROVE  AttrAt(q.attrs, i) \in Pool(m.attrs, p.attrs)
BY DEF Pool

(* The first and the last of a kind, in one twin and in the other. *)
LEMMA TwinEnds ==
  ASSUME NEW m, NEW p, Twins(m, p), NEW K, KnownOnly(K)
  PROVE  /\ At(m.attrs, K) = {} <=> At(p.attrs, K) = {}
         /\ At(m.attrs, K) # {} =>
              /\ m.attrs[FirstOf(At(m.attrs, K))].value = p.attrs[FirstOf(At(p.attrs, K))].value
              /\ m.attrs[LastOf(At(m.attrs, K))].value = p.attrs[LastOf(At(p.attrs, K))].value
         /\ Several(At(m.attrs, K)) <=> Several(At(p.attrs, K))
<1>1. Alike(m.attrs, p.attrs, K)
  BY DEF Twins, Agree
<1> QED
  BY <1>1, AttrParts DEF Alike

LEMMA TwinWalk ==
  ASSUME NEW m, NEW p, Twins(m, p), NEW q \in {m, p}
  PROVE  /\ Reached(q) = DOMAIN q.attrs /\ \A i \in DOMAIN q.attrs : ~Overruns(q, i)
         /\ q.txid = m.txid
BY WholeWalk DEF Twins

(* parse_binding_response. *)
LEMMA TwinMapped ==
  ASSUME NEW m, NEW p, Twins(m, p)
  PROVE  MappedAddressIn(m) = MappedAddressIn(p)
<1> DEFINE pool == Pool(m.attrs, p.attrs)
           X == { x \in pool : x.type = ATTR_XOR_MAPPED_ADDRESS }
           M == { x \in pool : x.type = ATTR_MAPPED_ADDRESS /\ PlainRead(x.value, m.txid).ok }
<1>1. KnownOnly(X) /\ KnownOnly(M)
  BY DEF KnownOnly, Unknown
<1>2. ASSUME NEW q \in {m, p}
      PROVE  MappedAddressIn(q) =
               IF At(q.attrs, X) # {} THEN XorRead(q.attrs[FirstOf(At(q.attrs, X))].value, m.txid)
               ELSE IF At(q.attrs, M) # {}
                    THEN PlainRead(q.attrs[FirstOf(At(q.attrs, M))].value, m.txid)
               ELSE Err("NoMappedAddress")
  <2> DEFINE xored  == { i \in ReachedOf(q, ATTR_XOR_MAPPED_ADDRESS) : ~Overruns(q, i) }
             mapped == { i \in ReachedOf(q, ATTR_MAPPED_ADDRESS) :
                           ~Overruns(q, i) /\ PlainRead(q.attrs[i].value, q.txid).ok }
  <2>1. /\ Reached(q) = DOMAIN q.attrs /\ \A i \in DOMAIN q.attrs : ~Overruns(q, i)
        /\ q.txid = m.txid
    BY TwinWalk
  <2>2. \A i \in DOMAIN q.attrs : AttrAt(q.attrs, i) \in pool
    BY PoolMembers
  <2>3. xored = At(q.attrs, X)
    BY <2>1, <2>2, AttrParts DEF ReachedOf, At
  <2>4. mapped = At(q.attrs, M)
    BY <2>1, <2>2, AttrParts DEF ReachedOf, At
  <2>5. MappedAddressIn(q) =
          IF xored # {} THEN XorRead(q.attrs[FirstOf(xored)].value, q.txid)
          ELSE IF \E i \in Reached(q) : Overruns(q, i) THEN Err("Truncated")
          ELSE IF mapped # {} THEN PlainRead(q.attrs[FirstOf(mapped)].value, q.txid)
          ELSE Err("NoMappedAddress")
    BY DEF MappedAddressIn, XorRead, PlainRead
  <2> HIDE DEF xored, mapped, X, M
  <2> QED
    BY <2>1, <2>3, <2>4, <2>5
<1> HIDE DEF X, M
<1>3. /\ At(m.attrs, X) = {} <=> At(p.attrs, X) = {}
      /\ At(m.attrs, X) # {} =>
           m.attrs[FirstOf(At(m.attrs, X))].value = p.attrs[FirstOf(At(p.attrs, X))].value
  BY <1>1, TwinEnds
<1>4. /\ At(m.attrs, M) = {} <=> At(p.attrs, M) = {}
      /\ At(m.attrs, M) # {} =>
           m.attrs[FirstOf(At(m.attrs, M))].value = p.attrs[FirstOf(At(p.attrs, M))].value
  BY <1>1, TwinEnds
<1> QED
  BY <1>2, <1>3, <1>4

(* parse_challenge. *)
LEMMA TwinChallenge ==
  ASSUME NEW m, NEW p, Twins(m, p)
  PROVE  ChallengeIn(m) = ChallengeIn(p)
<1> DEFINE pool == Pool(m.attrs, p.attrs)
           C == { x \in pool : x.type = ATTR_ERROR_CODE /\ x.len >= 4 }
           R == { x \in pool : x.type = ATTR_REALM /\ x.value # NotUtf8 }
           N == { x \in pool : x.type = ATTR_NONCE }
           Lasting(q, K) == IF At(q.attrs, K) = {} THEN None
                            ELSE Some(q.attrs[LastOf(At(q.attrs, K))].value)
<1>1. KnownOnly(C) /\ KnownOnly(R) /\ KnownOnly(N)
  BY DEF KnownOnly, Unknown
<1>2. ASSUME NEW q \in {m, p}
      PROVE  ChallengeIn(q) =
               [code |-> IF Lasting(q, C) = None THEN 0 ELSE Lasting(q, C)[1],
                realm |-> Lasting(q, R), nonce |-> Lasting(q, N)]
  <2> DEFINE whole(type) == { i \in ReachedOf(q, type) : ~Overruns(q, i) }
             last(positions) == IF positions = {} THEN None
                                ELSE Some(q.attrs[LastOf(positions)].value)
             coded  == { i \in whole(ATTR_ERROR_CODE) : q.attrs[i].len >= 4 }
             realms == { i \in whole(ATTR_REALM) : q.attrs[i].value # NotUtf8 }
             nonces == whole(ATTR_NONCE)
  <2>1. Reached(q) = DOMAIN q.attrs /\ \A i \in DOMAIN q.attrs : ~Overruns(q, i)
    BY TwinWalk
  <2>2. \A i \in DOMAIN q.attrs : AttrAt(q.attrs, i) \in pool
    BY PoolMembers
  <2>3. coded = At(q.attrs, C) /\ realms = At(q.attrs, R) /\ nonces = At(q.attrs, N)
    BY <2>1, <2>2, AttrParts DEF ReachedOf, At
  <2>4. ChallengeIn(q) = [code  |-> IF last(coded) = None THEN 0 ELSE last(coded)[1],
                          realm |-> last(realms), nonce |-> last(nonces)]
    BY DEF ChallengeIn
  <2> HIDE DEF coded, realms, nonces, C, R, N
  <2> QED
    BY <2>3, <2>4
<1>3. ASSUME NEW K, KnownOnly(K)
      PROVE  Lasting(m, K) = Lasting(p, K)
  BY <1>3, TwinEnds
<1> HIDE DEF C, R, N
<1>4. Lasting(m, C) = Lasting(p, C) /\ Lasting(m, R) = Lasting(p, R) /\ Lasting(m, N) = Lasting(p, N)
  BY <1>1, <1>3
<1> HIDE DEF Lasting
<1> QED
  BY <1>2, <1>4

(* classify_attrs: only what follows a signature is not settled by kinds   *)
(* of known attributes.                                                    *)
Followed(attrs) == \E i, j \in DOMAIN attrs : i < j /\ attrs[i].type = ATTR_DIG_SIGNATURE

LEMMA SeveralCounted ==
  ASSUME NEW n \in Nat, NEW S, S \subseteq 1..n
  PROVE  Cardinality(S) > 1 <=> Several(S)
<1>1. IsFiniteSet(S) /\ Cardinality(S) \in Nat
  <2>1. IsFiniteSet(1..n) /\ S \in SUBSET (1..n)
    BY FS_Interval
  <2>2. IsFiniteSet(S)
    BY <2>1, FS_Subset
  <2> QED
    BY <2>2, FS_CardinalityType
<1>2. Cardinality(S) = 0 <=> S = {}
  BY <1>1, FS_EmptySet
<1>3. Cardinality(S) = 1 <=> \E x : S = {x}
  BY <1>1, FS_Singleton
<1>4. Several(S) <=> S # {} /\ ~\E x : S = {x}
  <2>1. ASSUME S # {}, ~Several(S)
        PROVE  \E x : S = {x}
    <3> PICK x \in S : TRUE
      BY <2>1
    <3>1. S = {x}
      BY <2>1 DEF Several
    <3> QED
      BY <3>1
  <2> QED
    BY <2>1 DEF Several
<1>5. Several(S) <=> Cardinality(S) # 0 /\ Cardinality(S) # 1
  BY <1>2, <1>3, <1>4
<1>6. PICK c \in Nat : c = Cardinality(S)
  BY <1>1
<1> QED
  BY <1>5, <1>6

DigTypes == {ATTR_DIG_IDENTITY, ATTR_NONCE, ATTR_DIG_SIGNATURE}

LEMMA TwinMalformed ==
  ASSUME NEW m, NEW p, Twins(m, p), Followed(m.attrs) <=> Followed(p.attrs)
  PROVE  MalformedAttrs(m) <=> MalformedAttrs(p)
<1> DEFINE pool == Pool(m.attrs, p.attrs)
           B == { x \in pool : ~WellShaped(x) }
           I == { x \in pool : x.type = ATTR_DIG_IDENTITY }
           N == { x \in pool : x.type = ATTR_NONCE }
<1>1. KnownOnly(B) /\ KnownOnly(I) /\ KnownOnly(N)
  BY DEF KnownOnly, Unknown, WellShaped
<1>2. ASSUME NEW q \in {m, p}
      PROVE  MalformedAttrs(q) <=> \/ At(q.attrs, B) # {} \/ Followed(q.attrs)
                                   \/ Several(At(q.attrs, I)) \/ Several(At(q.attrs, N))
  <2>1. /\ Reached(q) = DOMAIN q.attrs /\ \A i \in DOMAIN q.attrs : ~Overruns(q, i)
    BY TwinWalk
  <2>2. \A i \in DOMAIN q.attrs : AttrAt(q.attrs, i) \in pool
    BY PoolMembers
  <2>3. \A i \in DOMAIN q.attrs : WellShaped(AttrAt(q.attrs, i)) <=> WellShaped(q.attrs[i])
    BY AttrParts DEF WellShaped
  <2>4. At(q.attrs, B) = { i \in DOMAIN q.attrs : ~WellShaped(q.attrs[i]) }
    BY <2>2, <2>3 DEF At
  <2>5. /\ At(q.attrs, I) = ReachedOf(q, ATTR_DIG_IDENTITY)
        /\ At(q.attrs, N) = ReachedOf(q, ATTR_NONCE)
    BY <2>1, <2>2, AttrParts DEF At, ReachedOf
  <2>6. /\ Cardinality(At(q.attrs, I)) > 1 <=> Several(At(q.attrs, I))
        /\ Cardinality(At(q.attrs, N)) > 1 <=> Several(At(q.attrs, N))
    <3>1. Laid(q.attrs)
      BY DEF Twins
    <3>2. Len(q.attrs) \in Nat /\ \A K : At(q.attrs, K) \subseteq 1..Len(q.attrs)
      BY <3>1, AtWithin
    <3> HIDE DEF I, N
    <3> QED
      BY <3>2, SeveralCounted
  <2>7. (\E i \in ReachedOf(q, ATTR_DIG_SIGNATURE), j \in Reached(q) : i < j) <=> Followed(q.attrs)
    BY <2>1 DEF ReachedOf, Followed
  <2>8. (\E i \in Reached(q) : Overruns(q, i) \/ ~WellShaped(q.attrs[i])) <=> At(q.attrs, B) # {}
    BY <2>1, <2>4
  <2> HIDE DEF B, I, N
  <2>9. (\E type \in {ATTR_DIG_IDENTITY, ATTR_NONCE} : Cardinality(ReachedOf(q, type)) > 1)
          <=> Several(At(q.attrs, I)) \/ Several(At(q.attrs, N))
    BY <2>5, <2>6
  <2> QED
    BY <2>7, <2>8, <2>9 DEF MalformedAttrs
<1> HIDE DEF B, I, N
<1>3. /\ At(m.attrs, B) = {} <=> At(p.attrs, B) = {}
      /\ Several(At(m.attrs, I)) <=> Several(At(p.attrs, I))
      /\ Several(At(m.attrs, N)) <=> Several(At(p.attrs, N))
  BY <1>1, TwinEnds
<1> QED
  BY <1>2, <1>3

LEMMA TwinKinds ==
  ASSUME NEW m, NEW p, Twins(m, p), NEW type \in DigTypes
  PROVE  /\ ReachedOf(m, type) = {} <=> ReachedOf(p, type) = {}
         /\ ReachedOf(m, type) # {} =>
              m.attrs[FirstOf(ReachedOf(m, type))].value = p.attrs[FirstOf(ReachedOf(p, type))].value
<1> DEFINE pool == Pool(m.attrs, p.attrs)
           K == { x \in pool : x.type = type }
<1>1. KnownOnly(K)
  BY DEF KnownOnly, Unknown, DigTypes
<1>2. ASSUME NEW q \in {m, p}
      PROVE  At(q.attrs, K) = ReachedOf(q, type)
  <2>1. Reached(q) = DOMAIN q.attrs
    BY TwinWalk
  <2>2. \A i \in DOMAIN q.attrs : AttrAt(q.attrs, i) \in pool
    BY PoolMembers
  <2> QED
    BY <2>1, <2>2, AttrParts DEF At, ReachedOf
<1>3. At(m.attrs, K) = ReachedOf(m, type) /\ At(p.attrs, K) = ReachedOf(p, type)
  BY <1>2
<1> HIDE DEF K
<1> QED
  BY <1>1, <1>3, TwinEnds

LEMMA TwinClassified ==
  ASSUME NEW m, NEW p, Twins(m, p), Followed(m.attrs) <=> Followed(p.attrs)
  PROVE  ClassifyAttrs(m) = ClassifyAttrs(p)
<1> DEFINE value(q, type) == q.attrs[FirstOf(ReachedOf(q, type))].value
           dig(q) == { type \in DigTypes : ReachedOf(q, type) # {} }
           bare == Okay([kind |-> "bare"])
           asked(q) == Okay([kind |-> "identity", spki |-> value(q, ATTR_DIG_IDENTITY).spki])
           signed(q) == Okay([kind |-> "signed", spki |-> value(q, ATTR_DIG_IDENTITY).spki,
                              nonce |-> value(q, ATTR_NONCE),
                              signature |-> value(q, ATTR_DIG_SIGNATURE).signature])
<1>1. ASSUME NEW q
      PROVE  ClassifyAttrs(q) =
               CASE MalformedAttrs(q) -> Err("Malformed")
                 [] ~MalformedAttrs(q) /\ dig(q) = {} -> bare
                 [] ~MalformedAttrs(q) /\ dig(q) = {ATTR_DIG_IDENTITY} -> asked(q)
                 [] ~MalformedAttrs(q) /\ Cardinality(dig(q)) = 3 -> signed(q)
                 [] OTHER -> Err("Malformed")
  BY DEF ClassifyAttrs, DigTypes
<1>2. dig(m) = dig(p)
  BY TwinKinds
<1>3. MalformedAttrs(m) <=> MalformedAttrs(p)
  BY TwinMalformed
<1>4. \A type \in dig(m) : value(m, type) = value(p, type)
  BY TwinKinds
<1>5. ATTR_DIG_IDENTITY \in dig(m) => asked(m) = asked(p)
  BY <1>4
<1>6. DigTypes \subseteq dig(m) => signed(m) = signed(p)
  BY <1>4 DEF DigTypes
<1>7. Cardinality(dig(m)) = 3 => DigTypes \subseteq dig(m)
  <2> PICK S : S = dig(m)
    OBVIOUS
  <2>1. S \subseteq DigTypes
    OBVIOUS
  <2>2. IsFiniteSet(DigTypes)
    <3>1. IsFiniteSet({ATTR_DIG_IDENTITY})
      BY FS_Singleton
    <3>2. IsFiniteSet({ATTR_DIG_IDENTITY} \union {ATTR_NONCE} \union {ATTR_DIG_SIGNATURE})
      BY <3>1, FS_AddElement
    <3>3. DigTypes = {ATTR_DIG_IDENTITY} \union {ATTR_NONCE} \union {ATTR_DIG_SIGNATURE}
      BY DEF DigTypes
    <3> QED
      BY <3>2, <3>3
  <2>3. Cardinality(DigTypes) = 3
    BY ThreeKinds DEF DigTypes
  <2> HIDE DEF dig
  <2>4. Cardinality(S) = Cardinality(DigTypes) => S = DigTypes
    BY <2>1, <2>2, FS_Subset
  <2> QED
    BY <2>3, <2>4
<1> HIDE DEF dig, asked, signed, bare
<1> QED
  BY <1>1, <1>2, <1>3, <1>5, <1>6, <1>7

(* The message that plain keeps is read like the one it mirrors.  What     *)
(* follows a signature is the same in both as long as nothing unknown does.*)
Mirrors(m, p) ==
  /\ p = Message(m.type, Mine, p.attrs) /\ Laid(p.attrs) /\ Agree(m.attrs, p.attrs)
  /\ NoneAfterSignature(m.attrs) => (Followed(m.attrs) <=> Followed(p.attrs))

IsSigned(attrs) == \E i \in DOMAIN attrs : attrs[i].type = ATTR_DIG_SIGNATURE

LEMMA WithParts ==
  ASSUME NEW m, NEW a
  PROVE  /\ With(m, a).attrs = WriteAttr(m.attrs, a.type, a.len, a.value)
         /\ With(m, a).type = m.type /\ With(m, a).len = AreaLen(With(m, a).attrs)
         /\ With(m, a) = Message(m.type, Mine, With(m, a).attrs)
BY DEF With, Message

(* One more attribute: the old ones keep their places and types. *)
LEMMA Longer ==
  ASSUME NEW attrs, Laid(attrs), NEW type, NEW len \in Nat, NEW value,
         NEW longer, longer = WriteAttr(attrs, type, len, value)
  PROVE  /\ Followed(longer) <=> Followed(attrs) \/ IsSigned(attrs)
         /\ NoneAfterSignature(longer) =>
              NoneAfterSignature(attrs) /\ (Unknown(type) => ~IsSigned(attrs))
<1> PICK n \in Nat : n = Len(attrs)
  BY ListFacts
<1>1. /\ Laid(longer) /\ Len(longer) = n + 1 /\ \A i \in DOMAIN attrs : longer[i] = attrs[i]
      /\ longer[n + 1] = [type |-> type, at |-> AreaLen(attrs), len |-> len, value |-> value]
  BY LaidWritten
<1>2. DOMAIN attrs = 1..n /\ DOMAIN longer = 1..(n + 1)
  BY <1>1, ListFacts
<1>3. \A i : i \in 1..(n + 1) <=> i \in 1..n \/ i = n + 1
  OBVIOUS
<1>4. \A i \in 1..n : ~(n + 1 < i) /\ i < n + 1
  OBVIOUS
<1>5. Followed(longer) <=> Followed(attrs) \/ IsSigned(attrs)
  BY <1>1, <1>2, <1>3, <1>4 DEF Followed, IsSigned
<1>6. ASSUME NoneAfterSignature(longer)
      PROVE  NoneAfterSignature(attrs) /\ (Unknown(type) => ~IsSigned(attrs))
  <2>1. NoneAfterSignature(attrs)
    BY <1>1, <1>2, <1>3, <1>6 DEF NoneAfterSignature
  <2>2. longer[n + 1].type = type
    BY <1>1
  <2>3. ASSUME IsSigned(attrs) PROVE ~Unknown(type)
    <3> PICK i \in 1..n : attrs[i].type = ATTR_DIG_SIGNATURE
      BY <1>2, <2>3 DEF IsSigned
    <3>1. longer[i].type = ATTR_DIG_SIGNATURE /\ i < n + 1
      BY <1>1, <1>2, <1>4
    <3>2. i \in DOMAIN longer /\ n + 1 \in DOMAIN longer
      BY <1>2
    <3> QED
      BY <1>6, <2>2, <3>1, <3>2 DEF NoneAfterSignature
  <2> QED
    BY <2>1, <2>3
<1> QED
  BY <1>5, <1>6

LEMMA AgreeOnSigned ==
  ASSUME NEW a, NEW b, Agree(a, b)
  PROVE  IsSigned(a) <=> IsSigned(b)
<1> DEFINE K == { x \in Pool(a, b) : x.type = ATTR_DIG_SIGNATURE }
<1>1. KnownOnly(K)
  BY DEF KnownOnly, Unknown
<1>2. At(a, K) = {} <=> At(b, K) = {}
  <2> HIDE DEF K
  <2> QED
    BY <1>1 DEF Agree, Alike
<1>3. /\ \A i \in DOMAIN a : AttrAt(a, i) \in Pool(a, b)
      /\ \A i \in DOMAIN b : AttrAt(b, i) \in Pool(a, b)
  BY DEF Pool
<1>4. (IsSigned(a) <=> At(a, K) # {}) /\ (IsSigned(b) <=> At(b, K) # {})
  BY <1>3, AttrParts DEF IsSigned, At
<1> HIDE DEF K
<1> QED
  BY <1>2, <1>4

LEMMA MirrorsNothing ==
  ASSUME NEW type
  PROVE  Mirrors(Message(type, Mine, << >>), Message(type, Mine, << >>))
<1> DEFINE m == Message(type, Mine, << >>)
<1>1. m.attrs = << >> /\ m = Message(m.type, Mine, m.attrs)
  BY DEF Message
<1>2. Agree(<< >>, << >>)
  BY DEF Agree, Alike
<1> HIDE DEF m
<1> QED
  BY <1>1, <1>2, LaidNothing DEF Mirrors, m

LEMMA MirrorsUnknown ==
  ASSUME NEW m, NEW p, Laid(m.attrs), Mirrors(m, p), NEW a, a.len \in Nat, Unknown(a.type)
  PROVE  Mirrors(With(m, a), p)
<1> PICK longer, type, len, value :
      /\ longer = With(m, a).attrs /\ type = a.type /\ len = a.len /\ value = a.value
  OBVIOUS
<1>1. longer = WriteAttr(m.attrs, type, len, value) /\ With(m, a).type = m.type
  BY WithParts
<1>2. Agree(longer, p.attrs)
  <2> SUFFICES ASSUME NEW K, KnownOnly(K) PROVE Alike(longer, p.attrs, K)
    BY DEF Agree
  <2>1. Alike(m.attrs, p.attrs, K)
    BY DEF Mirrors, Agree
  <2> QED
    BY <1>1, <2>1, AlikeUnknown
<1>3. ASSUME NoneAfterSignature(longer)
      PROVE  Followed(longer) <=> Followed(p.attrs)
  <2>1. /\ Followed(longer) <=> Followed(m.attrs) \/ IsSigned(m.attrs)
        /\ NoneAfterSignature(m.attrs) /\ ~IsSigned(m.attrs)
    BY <1>1, <1>3, Longer
  <2> QED
    BY <2>1 DEF Mirrors
<1> QED
  BY <1>1, <1>2, <1>3 DEF Mirrors

LEMMA MirrorsKnown ==
  ASSUME NEW m, NEW p, Laid(m.attrs), Mirrors(m, p), NEW a, a.len \in Nat
  PROVE  Mirrors(With(m, a), With(p, a))
<1> PICK len \in Nat : len = a.len
  OBVIOUS
<1> PICK longer, other, type, value :
      /\ longer = With(m, a).attrs /\ other = With(p, a).attrs
      /\ type = a.type /\ value = a.value
  OBVIOUS
<1>0. Laid(p.attrs) /\ p.type = m.type
  BY DEF Mirrors, Message
<1>1. /\ longer = WriteAttr(m.attrs, type, len, value) /\ With(m, a).type = m.type
      /\ other = WriteAttr(p.attrs, type, len, value)
      /\ With(p, a) = Message(m.type, Mine, other)
  BY <1>0, WithParts
<1>2. Laid(other)
  BY <1>0, <1>1, LaidLonger
<1>3. Agree(longer, other)
  <2> SUFFICES ASSUME NEW K, KnownOnly(K) PROVE Alike(longer, other, K)
    BY DEF Agree
  <2>1. Alike(m.attrs, p.attrs, K)
    BY DEF Mirrors, Agree
  <2> QED
    BY <1>0, <1>1, <2>1, AlikeKnown
<1>4. ASSUME NoneAfterSignature(longer)
      PROVE  Followed(longer) <=> Followed(other)
  <2>1. /\ Followed(longer) <=> Followed(m.attrs) \/ IsSigned(m.attrs)
        /\ NoneAfterSignature(m.attrs)
    BY <1>1, <1>4, Longer
  <2>2. Followed(other) <=> Followed(p.attrs) \/ IsSigned(p.attrs)
    BY <1>0, <1>1, Longer
  <2>3. IsSigned(m.attrs) <=> IsSigned(p.attrs)
    BY AgreeOnSigned DEF Mirrors
  <2> QED
    BY <2>1, <2>2, <2>3 DEF Mirrors
<1> QED
  BY <1>1, <1>2, <1>3, <1>4 DEF Mirrors

(* Whatever attribute is composed has a length, its nonces' too. *)
LEMMA TextLens ==
  ASSUME addr = Home, NEW text \in Texts
  PROVE  Len(text) \in Nat
<1> PICK secret \in Secrets : text = Text(secret)
  BY LawsAssumption DEF Texts, TextA, TextB
<1>1. text = NonceText(Issue(secret, Source, 0))
  BY DEF Text, Source
<1>2. addr \in Callers \union {Home} /\ 0 \in Nat
  OBVIOUS
<1> QED
  BY <1>1, <1>2, OwnNonceRead

LEMMA SignedLens ==
  ASSUME NEW id, NEW text, Len(text) \in Nat, NEW key, NEW a \in Signed(id, text, key)
  PROVE  a.len \in Nat
<1> DEFINE m == EncodeSignedRequest(id, text, Signer(key))
           size == Len(text)
           made == SignatureOf(id, text, key)
           identity == [version |-> CREDENTIAL_VERSION, spki |-> Spki(key)]
           sealed == [version |-> CREDENTIAL_VERSION, signature |-> made]
           one == WriteAttr(<< >>, ATTR_DIG_IDENTITY, 92, identity)
           two == WriteAttr(one, ATTR_NONCE, size, text)
           three == WriteAttr(two, ATTR_DIG_SIGNATURE, 71, sealed)
<1>1. m = Message(BINDING_REQUEST, id, three)
  BY DEF EncodeSignedRequest, WriteIdentity, WriteNonce, WriteSignature, Signer, Spki,
         SignatureOf, Sign, P256_SPKI_LEN
<1> HIDE DEF m, identity, sealed
<1>2. 92 \in Nat /\ 71 \in Nat /\ size \in Nat
  OBVIOUS
<1> HIDE DEF size, one, two, three
<1>3. Laid(one)
  BY <1>2, LaidNothing, LaidLonger DEF one
<1>4. Laid(two)
  BY <1>2, <1>3, LaidLonger DEF two
<1>5. Laid(three)
  BY <1>2, <1>4, LaidLonger DEF three
<1>6. m.attrs = three
  BY <1>1 DEF Message
<1>7. PICK i \in DOMAIN m.attrs : a = Attr(m.attrs[i].type, m.attrs[i].len, m.attrs[i].value)
  BY DEF Signed, AttrsOf, m
<1>8. a.len = m.attrs[i].len
  BY <1>7 DEF Attr
<1> QED
  BY <1>5, <1>6, <1>7, <1>8 DEF Laid

LEMMA MenuLens ==
  ASSUME addr = Home, NEW type, NEW a \in Menu(type)
  PROVE  a.len \in Nat
<1>1. \A t, len, value : Attr(t, len, value).len = len
  BY DEF Attr
<1>2. \A text \in Texts : Len(text) \in Nat
  BY TextLens
<1>3. CASE a \in SomeUnknown
  BY <1>1, <1>3 DEF SomeUnknown
<1>4. CASE a \in RequestAttrs
  <2> DEFINE Nodes == Signed(Mine, TextA, "node") \union Signed(Other, TextA, "node")
                      \union Signed(Mine, TextB, "node") \union Signed(Mine, TextA, "another")
             Bad   == { Attr(ATTR_DIG_IDENTITY, 91, [version |-> 1, spki |-> [Spki("node") EXCEPT !.len = 90]]),
                        Attr(ATTR_DIG_IDENTITY, 92, [version |-> 1, spki |-> [Spki("node") EXCEPT !.p256 = FALSE]]),
                        Attr(ATTR_DIG_SIGNATURE, 0, NotUtf8) }
             Sizes == { Attr(ATTR_DIG_SIGNATURE, 1 + len,
                             [version |-> version,
                              signature |-> [len |-> len, key |-> "node", over |-> None]]) :
                          len \in {7, 72, 73}, version \in {1, 2} }
  <2>1. TextA \in Texts /\ TextB \in Texts
    BY DEF Texts
  <2>2. \A x \in Nodes : x.len \in Nat
    BY <1>2, <2>1, SignedLens
  <2>3. \A x \in Bad : x.len \in Nat
    BY <1>1
  <2>4. \A x \in Sizes : x.len \in Nat
    BY <1>1
  <2>5. RequestAttrs = Nodes \union Bad \union Sizes
    BY DEF RequestAttrs
  <2> HIDE DEF Nodes, Bad, Sizes
  <2> QED
    BY <1>4, <2>2, <2>3, <2>4, <2>5
<1>5. CASE a \in SuccessAttrs
  BY <1>1, <1>5 DEF SuccessAttrs
<1>6. CASE a \in ErrorAttrs
  BY <1>1, <1>2, <1>6 DEF ErrorAttrs
<1> QED
  BY <1>3, <1>4, <1>5, <1>6 DEF Menu

(* An attribute that claims another length than it has: the area is laid   *)
(* out as before but for its end.                                          *)
Claiming(attrs, n, k) == [attrs EXCEPT ![n].len = k]

LEMMA Claimed ==
  ASSUME NEW attrs, Laid(attrs), attrs # << >>, NEW n, n = Len(attrs), NEW k \in Nat
  PROVE  /\ Laid(Claiming(attrs, n, k))
         /\ AreaLen(Claiming(attrs, n, k)) = attrs[n].at + 4 + k + Padding(k)
<1> PICK claimed : claimed = Claiming(attrs, n, k)
  OBVIOUS
<1>1. n \in Nat /\ DOMAIN attrs = 1..n /\ n \in DOMAIN attrs
  BY ListFacts
<1> PICK S : attrs \in Seq(S)
  BY DEF Laid
<1> DEFINE a == [attrs[n] EXCEPT !.len = k]
<1>2. claimed = [attrs EXCEPT ![n] = a]
  BY DEF Claiming
<1>3. DOMAIN a = AttrFields /\ a.at = attrs[n].at /\ a.len = k
  BY <1>1 DEF Laid, AttrFields
<1> HIDE DEF a
<1>4. /\ claimed \in Seq(S \union {a}) /\ Len(claimed) = n /\ DOMAIN claimed = 1..n
      /\ \A i \in 1..n : claimed[i] = IF i = n THEN a ELSE attrs[i]
  <2>1. attrs \in Seq(S \union {a})
    BY SeqMonotonic
  <2>2. a \in S \union {a} /\ n \in 1..Len(attrs)
    BY <1>1
  <2> QED
    BY <1>1, <1>2, <2>1, <2>2, ExceptSeq
<1>5. ASSUME NEW i \in 1..n
      PROVE  /\ DOMAIN claimed[i] = AttrFields /\ claimed[i].at \in Nat /\ claimed[i].len \in Nat
             /\ i > 1 => claimed[i].at = After(claimed[i - 1])
             /\ \A j \in 1..(i - 1) : claimed[j].at + 4 + claimed[j].len <= claimed[i].at
  <2>1. /\ DOMAIN attrs[i] = AttrFields /\ attrs[i].at \in Nat /\ attrs[i].len \in Nat
        /\ i > 1 => attrs[i].at = After(attrs[i - 1])
        /\ \A j \in 1..(i - 1) : attrs[j].at + 4 + attrs[j].len <= attrs[i].at
    BY <1>1 DEF Laid
  <2>2. \A j \in 1..(i - 1) : j \in 1..n /\ j # n
    BY <1>1
  <2>3. \A j \in 1..(i - 1) : claimed[j] = attrs[j]
    BY <1>4, <2>2
  <2>4. i > 1 => i - 1 \in 1..(i - 1)
    BY <1>1
  <2>5. claimed[i].at = attrs[i].at /\ claimed[i].len \in Nat /\ DOMAIN claimed[i] = AttrFields
    BY <1>3, <1>4, <2>1
  <2> QED
    BY <2>1, <2>3, <2>4, <2>5
<1>6. Laid(claimed)
  BY <1>4, <1>5 DEF Laid
<1>7. claimed # << >> /\ claimed[n] = a
  BY <1>1, <1>4
<1> QED
  BY <1>3, <1>4, <1>6, <1>7 DEF AreaLen

(* The inductive invariant: the area is laid out; if it is not as long as  *)
(* it is declared, the header is that of a good message; and as long as    *)
(* nothing is damaged, plain mirrors the message.                          *)
Sound(m) == /\ m.cookie = MAGIC_COOKIE /\ m.txid = Mine /\ m.type \in Types
            /\ m.size \in Nat /\ m.size >= 20

ComposedWith(m, p) ==
  /\ Laid(m.attrs) /\ m.len \in Nat
  /\ Sound(m) \/ m.len = AreaLen(m.attrs)
  /\ Whole(m) => Mirrors(m, p)

Composed == ComposedWith(msg, plain)

LEMMA WholeParts ==
  ASSUME NEW m, Whole(m), Laid(m.attrs)
  PROVE  /\ m.len = AreaLen(m.attrs) /\ m.len \in Nat /\ m.size = 20 + m.len /\ m.txid = Mine
         /\ Sound(m)
<1>1. /\ m.len = AreaLen(m.attrs) /\ m.size = 20 + AreaLen(m.attrs) /\ m.txid = Mine
      /\ m.cookie = MAGIC_COOKIE /\ m.type \in Types
  BY DEF Whole, Message
<1>2. AreaLen(m.attrs) \in Nat
  BY AreaBounds
<1> QED
  BY <1>1, <1>2 DEF Sound

LEMMA MirrorsSame ==
  ASSUME NEW m, NEW p, Mirrors(m, p), NEW other, other.attrs = m.attrs, other.type = m.type
  PROVE  Mirrors(other, p)
BY DEF Mirrors

LEMMA ComposedStart == LawsInit => Composed
<1> SUFFICES ASSUME LawsInit PROVE Composed
  OBVIOUS
<1>1. PICK type : msg = Message(type, Mine, << >>) /\ plain = msg
  BY DEF LawsInit, EncodeBindingRequest
<1>2. msg.attrs = << >> /\ msg.len = AreaLen(<< >>)
  BY <1>1 DEF Message
<1>3. Mirrors(msg, plain)
  BY <1>1, MirrorsNothing
<1> QED
  BY <1>2, <1>3, LaidNothing DEF Composed, ComposedWith

LEMMA ComposedComposes ==
  ASSUME Composed, Compose
  PROVE  Composed'
<1>1. addr = Home /\ Whole(msg)
  BY DEF Compose
<1>2. PICK a \in Menu(msg.type) :
        /\ msg' = With(msg, a)
        /\ plain' = IF Unknown(a.type) THEN plain ELSE With(plain, a)
  BY DEF Compose
<1>3. a.len \in Nat
  BY <1>1, MenuLens
<1>4. Laid(msg.attrs) /\ Mirrors(msg, plain)
  BY <1>1 DEF Composed, ComposedWith
<1>5. Laid(msg'.attrs) /\ msg'.len = AreaLen(msg'.attrs)
  <2>1. /\ msg'.attrs = WriteAttr(msg.attrs, a.type, a.len, a.value)
        /\ msg'.len = AreaLen(msg'.attrs)
    BY <1>2, WithParts
  <2> QED
    BY <1>3, <1>4, <2>1, LaidLonger
<1>6. msg'.len \in Nat
  BY <1>5, AreaBounds
<1>7. Mirrors(msg', plain')
  <2>1. CASE Unknown(a.type)
    <3>1. Mirrors(With(msg, a), plain)
      BY <1>3, <1>4, <2>1, MirrorsUnknown
    <3> QED
      BY <1>2, <2>1, <3>1
  <2>2. CASE ~Unknown(a.type)
    <3>1. Mirrors(With(msg, a), With(plain, a))
      BY <1>3, <1>4, MirrorsKnown
    <3> QED
      BY <1>2, <2>2, <3>1
  <2> QED
    BY <2>1, <2>2
<1>8. ComposedWith(msg', plain')
  BY <1>5, <1>6, <1>7 DEF ComposedWith
<1> QED
  BY <1>8 DEF Composed

Fits(area, at, len) == area \in Nat /\ at \in Nat /\ len \in Nat /\ at + 4 + len <= area
Beyond(area, at, excess, k) ==
  k = area - at - 4 + excess /\ \A pad \in Nat : at + 4 + k + pad # area

LEMMA ExcessRunsPast ==
  ASSUME NEW area, NEW at, NEW len, Fits(area, at, len), NEW excess \in {1, 5}
  PROVE  \E k \in Nat : Beyond(area, at, excess, k)
<1>0. area \in Nat /\ at \in Nat /\ len \in Nat /\ at + 4 + len <= area
  BY DEF Fits
<1>1. area - at - 4 + excess \in Nat
  BY <1>0
<1>2. \A pad \in Nat : at + 4 + (area - at - 4 + excess) + pad # area
  BY <1>0
<1> QED
  BY <1>1, <1>2 DEF Beyond

LEMMA ComposedDamaged ==
  ASSUME LawsInv, Composed, Damage
  PROVE  Composed'
<1>1. Whole(msg) /\ plain' = plain /\ DOMAIN msg = MsgFields
  BY DEF Damage, LawsInv
<1>2. Laid(msg.attrs) /\ Mirrors(msg, plain)
  BY <1>1 DEF Composed, ComposedWith
<1>3. /\ msg.len = AreaLen(msg.attrs) /\ msg.len \in Nat /\ msg.size = 20 + msg.len
      /\ msg.txid = Mine /\ Sound(msg)
  BY <1>1, <1>2, WholeParts
<1>4. CASE Overstate
  <2>1. PICK excess \in {1, 5} :
          msg' = [msg EXCEPT !.attrs[Len(msg.attrs)].len =
                    msg.len - msg.attrs[Len(msg.attrs)].at - 4 + excess]
    BY <1>4 DEF Overstate
  <2> PICK n \in Nat : n = Len(msg.attrs)
    BY <1>2, ListFacts
  <2>2. msg.attrs # << >> /\ n \in DOMAIN msg.attrs
    BY <1>2, <1>4, ListFacts DEF Overstate
  <2>3. msg.attrs[n].at \in Nat /\ msg.attrs[n].len \in Nat
    BY <1>2, <2>2 DEF Laid
  <2> PICK at \in Nat, len \in Nat : at = msg.attrs[n].at /\ len = msg.attrs[n].len
    BY <2>3
  <2>4. at + 4 + len <= msg.len
    BY <1>2, <1>3, <2>2, AreaBounds
  <2> PICK k \in Nat : Beyond(msg.len, at, excess, k)
    <3>1. Fits(msg.len, at, len)
      BY <1>3, <2>4 DEF Fits
    <3>2. \E k \in Nat : Beyond(msg.len, at, excess, k)
      BY <3>1, ExcessRunsPast, Zenon
    <3> QED
      BY <3>2
  <2>5. /\ k = msg.len - msg.attrs[n].at - 4 + excess
        /\ \A pad \in Nat : at + 4 + k + pad # msg.len
    BY DEF Beyond
  <2>6. /\ msg'.attrs = [msg.attrs EXCEPT ![n].len = k] /\ msg'.len = msg.len
        /\ msg'.cookie = msg.cookie /\ msg'.txid = msg.txid /\ msg'.type = msg.type
        /\ msg'.size = msg.size
    BY <1>1, <2>1, <2>5 DEF MsgFields
  <2>7. Laid(msg'.attrs) /\ AreaLen(msg'.attrs) = at + 4 + k + Padding(k)
    <3>1. msg'.attrs = Claiming(msg.attrs, n, k)
      BY <2>6 DEF Claiming
    <3>2. /\ Laid(Claiming(msg.attrs, n, k))
          /\ AreaLen(Claiming(msg.attrs, n, k)) = msg.attrs[n].at + 4 + k + Padding(k)
      BY <1>2, <2>2, Claimed
    <3> QED
      BY <3>1, <3>2
  <2>8. msg'.len # AreaLen(msg'.attrs)
    <3>1. Padding(k) \in Nat
      BY PaddingType
    <3>2. at + 4 + k + Padding(k) # msg.len
      BY <2>5, <3>1, Zenon
    <3> QED
      BY <2>6, <2>7, <3>2, Zenon
  <2>9. ~Whole(msg')
    BY <2>8 DEF Whole, Message
  <2>10. Sound(msg')
    BY <1>3, <2>6 DEF Sound
  <2>11. ComposedWith(msg', plain')
    BY <1>3, <2>6, <2>7, <2>9, <2>10 DEF ComposedWith
  <2> QED
    BY <2>11 DEF Composed
<1>5. CASE Redeclare
  <2>1. /\ msg'.attrs = msg.attrs /\ msg'.type = msg.type /\ msg'.cookie = msg.cookie
        /\ msg'.txid = msg.txid /\ msg'.size = msg.size /\ msg'.len \in Nat
    BY <1>1, <1>3, <1>5 DEF Redeclare, MsgFields
  <2>2. Sound(msg') /\ Mirrors(msg', plain')
    BY <1>1, <1>2, <1>3, <2>1, MirrorsSame DEF Sound
  <2>3. ComposedWith(msg', plain')
    BY <1>2, <2>1, <2>2 DEF ComposedWith
  <2> QED
    BY <2>3 DEF Composed
<1>6. CASE Cut
  <2>1. msg'.attrs = msg.attrs /\ msg'.type = msg.type /\ msg'.len = msg.len
    BY <1>1, <1>6 DEF Cut, MsgFields
  <2>2. Mirrors(msg', plain')
    BY <1>1, <1>2, <2>1, MirrorsSame
  <2>3. ComposedWith(msg', plain')
    BY <1>2, <1>3, <2>1, <2>2 DEF ComposedWith
  <2> QED
    BY <2>3 DEF Composed
<1>7. CASE Mislabel
  <2>1. /\ msg'.attrs = msg.attrs /\ msg'.len = msg.len
        /\ msg'.type = msg.type \/ msg'.type = 2
    BY <1>1, <1>7 DEF Mislabel, MsgFields
  <2>2. 2 \notin Types
    BY DEF Types, BINDING_REQUEST, BINDING_SUCCESS, BINDING_ERROR
  <2>3. Whole(msg') => Mirrors(msg', plain')
    BY <1>1, <1>2, <2>1, <2>2, MirrorsSame DEF Whole
  <2>4. ComposedWith(msg', plain')
    BY <1>2, <1>3, <2>1, <2>3 DEF ComposedWith
  <2> QED
    BY <2>4 DEF Composed
<1> QED
  BY <1>4, <1>5, <1>6, <1>7 DEF Damage

LEMMA ComposedHolds == LawsSpec => []Composed
<1>1. LawsInit => Composed
  BY ComposedStart
<1>2. LawsInv /\ Composed /\ [LawsNext]_<< addr, msg, plain >> => Composed'
  <2> SUFFICES ASSUME LawsInv, Composed, [LawsNext]_<< addr, msg, plain >> PROVE Composed'
    OBVIOUS
  <2>1. CASE Respell
    BY <2>1 DEF Respell, Composed
  <2>2. CASE Compose
    BY <2>2, ComposedComposes
  <2>3. CASE Damage
    BY <2>3, ComposedDamaged
  <2>4. CASE UNCHANGED << addr, msg, plain >>
    BY <2>4 DEF Composed
  <2> QED
    BY <2>1, <2>2, <2>3, <2>4 DEF LawsNext
<1> QED
  BY <1>1, <1>2, LawsInvHolds, PTL DEF LawsSpec

(* What a parser reads of two messages with good headers of one kind and   *)
(* one transaction differs only where their attributes do.                 *)
Readable(m) == m.cookie = MAGIC_COOKIE /\ ~(m.size < 20) /\ ~Incomplete(m)

LEMMA ReadAlike ==
  ASSUME NEW m, Readable(m), NEW p, Readable(p), m.type = p.type, m.txid = p.txid, NEW expected
  PROVE  /\ MappedAddressIn(m) = MappedAddressIn(p) =>
              ParseBindingResponse(m, expected) = ParseBindingResponse(p, expected)
         /\ ChallengeIn(m) = ChallengeIn(p) =>
              ParseChallenge(m, expected) = ParseChallenge(p, expected)
         /\ ClassifyAttrs(m) = ClassifyAttrs(p) => ClassifyRequest(m) = ClassifyRequest(p)
<1>1. \A type : HeaderFault(m, type) = HeaderFault(p, type)
  BY DEF HeaderFault, Readable
<1>2. ~Incomplete(m) /\ ~Incomplete(p)
  BY DEF Readable
<1>3. ASSUME MappedAddressIn(m) = MappedAddressIn(p)
      PROVE  ParseBindingResponse(m, expected) = ParseBindingResponse(p, expected)
  BY <1>1, <1>2, <1>3 DEF ParseBindingResponse
<1>4. ASSUME ChallengeIn(m) = ChallengeIn(p)
      PROVE  ParseChallenge(m, expected) = ParseChallenge(p, expected)
  BY <1>1, <1>2, <1>4 DEF ParseChallenge
<1>5. ParseBindingRequest(m) = ParseBindingRequest(p)
  BY <1>1, <1>2 DEF ParseBindingRequest
<1>6. ASSUME ClassifyAttrs(m) = ClassifyAttrs(p)
      PROVE  ClassifyRequest(m) = ClassifyRequest(p)
  BY <1>5, <1>6 DEF ClassifyRequest
<1> QED
  BY <1>3, <1>4, <1>6

OfMine(m, type, attrs) ==
  /\ Readable(m) /\ m.type = type /\ m.txid = Mine /\ m.attrs = attrs
  /\ m.len = AreaLen(attrs)

LEMMA MessageReadable ==
  ASSUME NEW type, NEW attrs, Laid(attrs)
  PROVE  OfMine(Message(type, Mine, attrs), type, attrs)
<1> PICK m : m = Message(type, Mine, attrs)
  OBVIOUS
<1>1. AreaLen(attrs) \in Nat
  BY AreaBounds
<1>2. /\ m.type = type /\ m.txid = Mine /\ m.attrs = attrs /\ m.cookie = MAGIC_COOKIE
      /\ m.len = AreaLen(attrs) /\ m.size = 20 + AreaLen(attrs)
  BY DEF Message
<1>3. ~(m.size < 20) /\ ~(m.size < 20 + m.len)
  BY <1>1, <1>2
<1> QED
  BY <1>2, <1>3 DEF OfMine, Readable, Incomplete

LEMMA MirrorRead ==
  ASSUME Composed, Whole(msg), NoneAfterSignature(msg.attrs)
  PROVE  /\ ParseBindingResponse(msg, Mine) = ParseBindingResponse(plain, Mine)
         /\ ParseChallenge(msg, Mine) = ParseChallenge(plain, Mine)
         /\ ClassifyRequest(msg) = ClassifyRequest(plain)
<1>1. Laid(msg.attrs) /\ Mirrors(msg, plain)
  BY DEF Composed, ComposedWith
<1>2. /\ plain = Message(msg.type, Mine, plain.attrs) /\ Laid(plain.attrs)
      /\ Agree(msg.attrs, plain.attrs) /\ (Followed(msg.attrs) <=> Followed(plain.attrs))
  BY <1>1 DEF Mirrors
<1>3. msg = Message(msg.type, Mine, msg.attrs)
  BY DEF Whole
<1>4. Readable(msg) /\ msg.txid = Mine /\ msg.len = AreaLen(msg.attrs)
  BY <1>1, <1>3, MessageReadable DEF OfMine
<1>5. /\ Readable(plain) /\ plain.type = msg.type /\ plain.txid = Mine
      /\ plain.len = AreaLen(plain.attrs)
  BY <1>2, MessageReadable DEF OfMine
<1>6. Twins(msg, plain)
  BY <1>1, <1>2, <1>4, <1>5 DEF Twins
<1>7. /\ MappedAddressIn(msg) = MappedAddressIn(plain) /\ ChallengeIn(msg) = ChallengeIn(plain)
      /\ ClassifyAttrs(msg) = ClassifyAttrs(plain)
  BY <1>2, <1>6, TwinMapped, TwinChallenge, TwinClassified
<1> QED
  BY <1>4, <1>5, <1>7, ReadAlike

(* A whole message is read as it would have been without the attributes no *)
(* parser knows, however many, wherever they are and however long, if none *)
(* of them follows a signature: parse_binding_response, parse_challenge    *)
(* and classify_attrs step over them.                                      *)
THEOREM LawsUnknownAttributesIgnored == LawsSpec => []UnknownAttributesIgnored
<1>1. Composed => UnknownAttributesIgnored
  BY MirrorRead DEF UnknownAttributesIgnored
<1> QED
  BY <1>1, ComposedHolds, PTL

(* The message whose last attribute runs past the area, and the message of *)
(* what came before it: a parser meets in the one what it meets in the     *)
(* other, and then the last.                                               *)
Cropped(m, p, n) ==
  /\ Readable(m) /\ Readable(p) /\ p.type = m.type /\ m.txid = Mine /\ p.txid = Mine
  /\ n \in Nat \ {0} /\ n \in Reached(m) /\ Overruns(m, n) /\ Reached(m) = 1..n
  /\ Reached(p) = 1..(n - 1) /\ DOMAIN p.attrs = 1..(n - 1)
  /\ \A i \in 1..(n - 1) : ~Overruns(m, i) /\ ~Overruns(p, i) /\ p.attrs[i] = m.attrs[i]

LEMMA CroppedAt ==
  ASSUME NEW m, Laid(m.attrs), m.len \in Nat, Sound(m) \/ m.len = AreaLen(m.attrs),
         NEW n, n = Len(m.attrs), n \in Reached(m), Overruns(m, n), ~Incomplete(m),
         NEW p, p = Message(m.type, Mine, SubSeq(m.attrs, 1, n - 1))
  PROVE  Cropped(m, p, n) /\ Sound(m)
<1>1. /\ n \in Nat \ {0} /\ Reached(m) = 1..n /\ DOMAIN m.attrs = 1..n
      /\ \A i \in 1..(n - 1) : ~Overruns(m, i)
  BY OverrunWalk
<1>2. n \in DOMAIN m.attrs
  BY <1>1
<1>3. Sound(m)
  <2>1. m.len # AreaLen(m.attrs)
    BY <1>2, WholeWalk
  <2> QED
    BY <2>1
<1>4. Readable(m) /\ m.txid = Mine
  <2>1. ~(m.size < 20)
    BY <1>3 DEF Sound
  <2> QED
    BY <1>3, <2>1 DEF Sound, Readable
<1> PICK front : front = FrontOf(m.attrs)
  OBVIOUS
<1>5. Laid(front) /\ DOMAIN front = 1..(n - 1) /\ \A i \in 1..(n - 1) : front[i] = m.attrs[i]
  <2>1. Len(m.attrs) \in Nat \ {0}
    BY <1>1
  <2> QED
    BY <2>1, LaidFront
<1>6. /\ Readable(p) /\ p.type = m.type /\ p.txid = Mine /\ p.attrs = front
      /\ p.len = AreaLen(front)
  <2>1. p = Message(m.type, Mine, front)
    BY DEF FrontOf
  <2>2. OfMine(Message(m.type, Mine, front), m.type, front)
    BY <1>5, MessageReadable
  <2> QED
    BY <2>1, <2>2 DEF OfMine
<1>7. Reached(p) = DOMAIN p.attrs /\ \A i \in DOMAIN p.attrs : ~Overruns(p, i)
  <2>1. Laid(p.attrs) /\ p.len = AreaLen(p.attrs)
    BY <1>5, <1>6
  <2> QED
    BY <2>1, WholeWalk, Zenon
<1> QED
  BY <1>1, <1>3, <1>4, <1>5, <1>6, <1>7 DEF Cropped

LEMMA CroppedRequest ==
  ASSUME NEW m, NEW p, NEW n, Cropped(m, p, n), m.type = BINDING_REQUEST
  PROVE  ClassifyRequest(m) = Err("Malformed")
<1>1. MalformedAttrs(m)
  <2>1. \E i \in Reached(m) : Overruns(m, i) \/ ~WellShaped(m.attrs[i])
    BY Zenon DEF Cropped
  <2> QED
    BY <2>1, Zenon DEF MalformedAttrs
<1>2. ClassifyAttrs(m) = Err("Malformed")
  BY <1>1, Zenon DEF ClassifyAttrs
<1>3. HeaderFault(m, BINDING_REQUEST) = "none" /\ ~Incomplete(m)
  BY DEF HeaderFault, Cropped, Readable
<1>4. ParseBindingRequest(m).ok
  BY <1>3 DEF ParseBindingRequest, Okay
<1> QED
  BY <1>2, <1>4 DEF ClassifyRequest

LEMMA CroppedKinds ==
  ASSUME NEW m, NEW p, NEW n, Cropped(m, p, n), NEW type
  PROVE  /\ { i \in ReachedOf(m, type) : ~Overruns(m, i) }
              = { i \in 1..(n - 1) : p.attrs[i].type = type }
         /\ { i \in ReachedOf(p, type) : ~Overruns(p, i) }
              = { i \in 1..(n - 1) : p.attrs[i].type = type }
<1>1. \A i : i \in 1..n <=> i \in 1..(n - 1) \/ i = n
  BY DEF Cropped
<1>2. /\ Reached(m) = 1..n /\ Reached(p) = 1..(n - 1) /\ Overruns(m, n)
      /\ \A i \in 1..(n - 1) : ~Overruns(m, i) /\ ~Overruns(p, i) /\ p.attrs[i] = m.attrs[i]
  BY DEF Cropped
<1>3. \A i : i \in ReachedOf(m, type) /\ ~Overruns(m, i)
               <=> i \in 1..(n - 1) /\ p.attrs[i].type = type
  BY <1>1, <1>2 DEF ReachedOf
<1>4. \A i : i \in ReachedOf(p, type) /\ ~Overruns(p, i)
               <=> i \in 1..(n - 1) /\ p.attrs[i].type = type
  BY <1>2 DEF ReachedOf
<1> QED
  BY <1>3, <1>4

LEMMA CroppedChallenge ==
  ASSUME NEW m, NEW p, NEW n, Cropped(m, p, n)
  PROVE  ChallengeIn(m) = ChallengeIn(p)
<1> DEFINE whole(q, type) == { i \in ReachedOf(q, type) : ~Overruns(q, i) }
           last(q, positions) == IF positions = {} THEN None
                                 ELSE Some(q.attrs[LastOf(positions)].value)
           coded(q)  == { i \in whole(q, ATTR_ERROR_CODE) : q.attrs[i].len >= 4 }
           realms(q) == { i \in whole(q, ATTR_REALM) : q.attrs[i].value # NotUtf8 }
           nonces(q) == whole(q, ATTR_NONCE)
<1>1. \A type : whole(m, type) = whole(p, type) /\ whole(p, type) \subseteq 1..(n - 1)
  BY CroppedKinds
<1>2. n - 1 \in Nat /\ \A i \in 1..(n - 1) : p.attrs[i] = m.attrs[i]
  BY DEF Cropped
<1> HIDE DEF whole
<1>3. coded(m) = coded(p) /\ coded(p) \subseteq 1..(n - 1)
  BY <1>1, <1>2
<1>4. realms(m) = realms(p) /\ realms(p) \subseteq 1..(n - 1)
  BY <1>1, <1>2
<1>5. nonces(m) = nonces(p) /\ nonces(p) \subseteq 1..(n - 1)
  BY <1>1
<1>6. ASSUME NEW S, S \subseteq 1..(n - 1)
      PROVE  last(m, S) = last(p, S)
  <2>1. CASE S = {}
    BY <2>1
  <2>2. CASE S # {}
    <3>1. LastOf(S) \in 1..(n - 1)
      BY <1>2, <1>6, <2>2, Ends
    <3> QED
      BY <1>2, <3>1
  <2> QED
    BY <2>1, <2>2
<1>7. ASSUME NEW q
      PROVE  ChallengeIn(q) =
               [code |-> IF last(q, coded(q)) = None THEN 0 ELSE last(q, coded(q))[1],
                realm |-> last(q, realms(q)), nonce |-> last(q, nonces(q))]
  BY DEF ChallengeIn, whole
<1> HIDE DEF coded, realms, nonces
<1>8. /\ last(m, coded(m)) = last(p, coded(p)) /\ last(m, realms(m)) = last(p, realms(p))
      /\ last(m, nonces(m)) = last(p, nonces(p))
  BY <1>3, <1>4, <1>5, <1>6
<1> HIDE DEF last
<1> QED
  BY <1>7, <1>8

LEMMA CroppedMapped ==
  ASSUME NEW m, NEW p, NEW n, Cropped(m, p, n)
  PROVE  MappedAddressIn(m) =
           IF \E i \in 1..(n - 1) : p.attrs[i].type = ATTR_XOR_MAPPED_ADDRESS
           THEN MappedAddressIn(p) ELSE Err("Truncated")
<1> DEFINE xored(q) == { i \in ReachedOf(q, ATTR_XOR_MAPPED_ADDRESS) : ~Overruns(q, i) }
           mapped(q) == { i \in ReachedOf(q, ATTR_MAPPED_ADDRESS) :
                            ~Overruns(q, i) /\ PlainRead(q.attrs[i].value, q.txid).ok }
           X == { i \in 1..(n - 1) : p.attrs[i].type = ATTR_XOR_MAPPED_ADDRESS }
<1>1. xored(m) = X /\ xored(p) = X
  BY CroppedKinds
<1>2. \E i \in Reached(m) : Overruns(m, i)
  BY DEF Cropped
<1>3. ASSUME NEW q
      PROVE  MappedAddressIn(q) =
               IF xored(q) # {} THEN XorRead(q.attrs[FirstOf(xored(q))].value, q.txid)
               ELSE IF \E i \in Reached(q) : Overruns(q, i) THEN Err("Truncated")
               ELSE IF mapped(q) # {} THEN PlainRead(q.attrs[FirstOf(mapped(q))].value, q.txid)
               ELSE Err("NoMappedAddress")
  BY DEF MappedAddressIn, XorRead, PlainRead
<1>4. ASSUME X # {}
      PROVE  m.attrs[FirstOf(X)].value = p.attrs[FirstOf(X)].value
  <2>1. n - 1 \in Nat /\ X \subseteq 1..(n - 1)
    BY DEF Cropped
  <2>2. FirstOf(X) \in 1..(n - 1)
    <3> HIDE DEF X
    <3> QED
      BY <1>4, <2>1, Ends
  <2> QED
    BY <2>2 DEF Cropped
<1>5. m.txid = p.txid
  BY DEF Cropped
<1>6. X # {} <=> \E i \in 1..(n - 1) : p.attrs[i].type = ATTR_XOR_MAPPED_ADDRESS
  OBVIOUS
<1> HIDE DEF xored, mapped, X
<1> QED
  BY <1>1, <1>2, <1>3, <1>4, <1>5, <1>6

LEMMA OverrunRead ==
  ASSUME Composed, Len(msg.attrs) \in Reached(msg), Overruns(msg, Len(msg.attrs)),
         ~Incomplete(msg),
         NEW p, p = Message(msg.type, Mine, SubSeq(msg.attrs, 1, Len(msg.attrs) - 1))
  PROVE  /\ msg.type \in Types
         /\ msg.type = BINDING_REQUEST => ClassifyRequest(msg) = Err("Malformed")
         /\ ParseChallenge(msg, Mine) = ParseChallenge(p, Mine)
         /\ msg.type = BINDING_SUCCESS =>
              ParseBindingResponse(msg, Mine) =
                IF \E i \in DOMAIN p.attrs : p.attrs[i].type = ATTR_XOR_MAPPED_ADDRESS
                THEN ParseBindingResponse(p, Mine) ELSE Err("Truncated")
<1> PICK n : n = Len(msg.attrs)
  OBVIOUS
<1>1. /\ Laid(msg.attrs) /\ msg.len \in Nat
      /\ Sound(msg) \/ msg.len = AreaLen(msg.attrs)
  BY DEF Composed, ComposedWith
<1>2. Cropped(msg, p, n) /\ Sound(msg)
  BY <1>1, CroppedAt
<1>3. /\ Readable(msg) /\ Readable(p) /\ p.type = msg.type /\ p.txid = msg.txid
      /\ msg.txid = Mine /\ DOMAIN p.attrs = 1..(n - 1)
  BY <1>2 DEF Cropped
<1>4. ParseChallenge(msg, Mine) = ParseChallenge(p, Mine)
  BY <1>2, <1>3, CroppedChallenge, ReadAlike
<1>5. ASSUME msg.type = BINDING_REQUEST
      PROVE  ClassifyRequest(msg) = Err("Malformed")
  BY <1>2, <1>5, CroppedRequest
<1>6. ASSUME msg.type = BINDING_SUCCESS
      PROVE  ParseBindingResponse(msg, Mine) =
               IF \E i \in DOMAIN p.attrs : p.attrs[i].type = ATTR_XOR_MAPPED_ADDRESS
               THEN ParseBindingResponse(p, Mine) ELSE Err("Truncated")
  <2>1. CASE \E i \in 1..(n - 1) : p.attrs[i].type = ATTR_XOR_MAPPED_ADDRESS
    <3>1. MappedAddressIn(msg) = MappedAddressIn(p)
      BY <1>2, <2>1, CroppedMapped
    <3> QED
      BY <1>3, <2>1, <3>1, ReadAlike
  <2>2. CASE ~\E i \in 1..(n - 1) : p.attrs[i].type = ATTR_XOR_MAPPED_ADDRESS
    <3>1. MappedAddressIn(msg) = Err("Truncated")
      BY <1>2, <2>2, CroppedMapped
    <3>2. HeaderFault(msg, BINDING_SUCCESS) = "none" /\ ~Incomplete(msg)
      BY <1>3, <1>6 DEF HeaderFault, Readable
    <3>3. ParseBindingResponse(msg, Mine) = Err("Truncated")
      BY <1>3, <3>1, <3>2 DEF ParseBindingResponse
    <3> QED
      BY <1>3, <2>2, <3>3
  <2> QED
    BY <2>1, <2>2
<1>7. msg.type \in Types
  BY <1>2 DEF Sound
<1> QED
  BY <1>4, <1>5, <1>6, <1>7

(* A message whose last attribute claims more than the area still holds:   *)
(* the server calls the request malformed; the signed client keeps of a    *)
(* refusal what came before; and a client keeps of a success an            *)
(* XOR-MAPPED-ADDRESS that came before, and nothing else.                  *)
THEOREM LawsOverrunsHandled == LawsSpec => []OverrunsHandled
<1>1. Composed => OverrunsHandled
  <2> SUFFICES ASSUME Composed, Len(msg.attrs) \in Reached(msg),
                      Overruns(msg, Len(msg.attrs)), ~Incomplete(msg)
               PROVE  OverrunsHandled
    BY DEF OverrunsHandled
  <2> DEFINE front  == SubSeq(msg.attrs, 1, Len(msg.attrs) - 1)
             before == Message(msg.type, Mine, front)
  <2>1. before.attrs = front
    BY DEF Message
  <2> HIDE DEF front
  <2>2. /\ msg.type \in {BINDING_REQUEST, BINDING_SUCCESS, BINDING_ERROR}
        /\ msg.type = BINDING_REQUEST => ClassifyRequest(msg) = Err("Malformed")
        /\ ParseChallenge(msg, Mine) = ParseChallenge(before, Mine)
        /\ msg.type = BINDING_SUCCESS =>
             ParseBindingResponse(msg, Mine) =
               IF \E i \in DOMAIN front : front[i].type = ATTR_XOR_MAPPED_ADDRESS
               THEN ParseBindingResponse(before, Mine) ELSE Err("Truncated")
    BY <2>1, OverrunRead DEF Types, front
  <2>3. /\ BINDING_REQUEST # BINDING_SUCCESS /\ BINDING_REQUEST # BINDING_ERROR
        /\ BINDING_SUCCESS # BINDING_ERROR
    BY DEF BINDING_REQUEST, BINDING_SUCCESS, BINDING_ERROR
  <2> HIDE DEF before
  <2> QED
    BY <2>2, <2>3 DEF OverrunsHandled, front, before
<1> QED
  BY <1>1, ComposedHolds, PTL
=============================================================================
