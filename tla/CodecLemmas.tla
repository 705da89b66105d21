---------------------------- MODULE CodecLemmas ----------------------------
(***************************************************************************)
(* What the codec does with an address, octet by octet, whatever the       *)
(* address and the transaction id: the parser gives back what the encoder  *)
(* was given, folded.                                                      *)
(***************************************************************************)
EXTENDS Codec, ScopeLemmas, SequenceTheorems, WellFoundedInduction

LEMMA KeyOctetType ==
  ASSUME NEW txid \in TransactionId, NEW i \in 3..20
  PROVE  KeyOctet(txid, i) \in Octet
<1>1. \A j \in 1..4 : MAGIC_COOKIE[j] \in Octet
  BY OctetRange DEF MAGIC_COOKIE
<1>2. \A j \in 1..12 : txid[j] \in Octet
  BY DEF TransactionId
<1> QED
  BY <1>1, <1>2 DEF KeyOctet

(* Two octets of a 16-bit number give it back. *)
LEMMA Halves ==
  ASSUME NEW m \in Segment
  PROVE  /\ m \div 256 \in Octet /\ m % 256 \in Octet
         /\ (m \div 256) * 256 + (m % 256) = m
<1>1. m \in Nat
  BY SegmentRange
<1> QED
  BY <1>1, OctetsOfSegment

Width(addr) == IF addr.ip \in V4 THEN 8 ELSE 20

LEMMA PlainOctetType ==
  ASSUME NEW addr \in SocketAddr, NEW i \in 3..Width(addr)
  PROVE  PlainOctet(addr, i) \in Octet
<1>1. addr.port \in Segment /\ addr.ip \in V4 \union V6
  BY DEF SocketAddr, IpAddr, Port, Segment
<1>2. CASE i \in {3, 4}
  BY <1>1, <1>2, Halves DEF PlainOctet
<1>3. CASE i \notin {3, 4} /\ addr.ip \in V4
  <2>1. i - 4 \in 1..4
    BY <1>3 DEF Width
  <2> QED
    BY <1>3, <2>1 DEF PlainOctet, V4
<1>4. CASE i \notin {3, 4} /\ addr.ip \notin V4
  <2>1. i \in 5..20
    BY <1>4 DEF Width
  <2>2. CASE i % 2 = 1
    <3>1. (i - 3) \div 2 \in 1..8
      BY <2>1, <2>2
    <3>2. addr.ip[(i - 3) \div 2] \in Segment
      BY <1>1, <1>4, <3>1 DEF V6
    <3> QED
      BY <1>4, <2>2, <3>2, Halves DEF PlainOctet
  <2>3. CASE i % 2 # 1
    <3>1. (i - 4) \div 2 \in 1..8
      BY <2>1, <2>3
    <3>2. addr.ip[(i - 4) \div 2] \in Segment
      BY <1>1, <1>4, <3>1 DEF V6
    <3> QED
      BY <1>4, <2>3, <3>2, Halves DEF PlainOctet
  <2> QED
    BY <2>2, <2>3
<1> QED
  BY <1>2, <1>3, <1>4

(* A sequence of n octets, whoever made it, has length n. *)
LEMMA LengthOf ==
  ASSUME NEW S, NEW n \in Nat, NEW value \in [1..n -> S]
  PROVE  value \in Seq(S) /\ Len(value) = n
OBVIOUS

(* decode_mapped_address as the parser calls it. *)
XorRead(value, txid)   == DecodeMappedAddress(value, txid, TRUE)
PlainRead(value, txid) == DecodeMappedAddress(value, txid, FALSE)

(* What decode_mapped_address makes of the octets of an address.           *)
LEMMA DecodePlain ==
  ASSUME NEW addr \in SocketAddr, NEW txid, NEW xor \in BOOLEAN,
         NEW value, Len(value) = Width(addr),
         value[2] = IF addr.ip \in V4 THEN FAMILY_IPV4 ELSE FAMILY_IPV6,
         \A i \in 3..Width(addr) :
           (IF xor THEN OctetXor(value[i], KeyOctet(txid, i)) ELSE value[i])
             = PlainOctet(addr, i)
  PROVE  DecodeMappedAddress(value, txid, xor) = Okay(addr)
<1> DEFINE octet(i) == IF xor THEN OctetXor(value[i], KeyOctet(txid, i)) ELSE value[i]
           pair(i)  == octet(i) * 256 + octet(i + 1)
           v4 == << octet(5), octet(6), octet(7), octet(8) >>
           v6 == [s \in 1..8 |-> pair(2 * s + 3)]
<1>1. addr.port \in Segment /\ addr.ip \in V4 \union V6
  BY DEF SocketAddr, IpAddr, Port, Segment
<1>2. addr = [ip |-> addr.ip, port |-> addr.port]
  BY DEF SocketAddr
<1>3. \A i \in 3..Width(addr) : octet(i) = PlainOctet(addr, i)
  OBVIOUS
<1>4. DecodeMappedAddress(value, txid, xor) =
        IF Len(value) < 4 THEN Err("Truncated")
        ELSE IF value[2] = FAMILY_IPV4
             THEN IF Len(value) < 8 THEN Err("Truncated")
                  ELSE Okay([ip |-> v4, port |-> pair(3)])
        ELSE IF value[2] = FAMILY_IPV6
             THEN IF Len(value) < 20 THEN Err("Truncated")
                  ELSE Okay([ip |-> v6, port |-> pair(3)])
        ELSE Err("UnexpectedType")
  BY DEF DecodeMappedAddress
<1> HIDE DEF octet
<1>5. pair(3) = addr.port
  <2>1. octet(3) = addr.port \div 256 /\ octet(4) = addr.port % 256
    BY <1>3 DEF Width, PlainOctet
  <2> QED
    BY <1>1, <2>1, Halves
<1>6. CASE addr.ip \in V4
  <2>1. octet(5) = addr.ip[1] /\ octet(6) = addr.ip[2] /\ octet(7) = addr.ip[3] /\ octet(8) = addr.ip[4]
    BY <1>3, <1>6 DEF Width, PlainOctet
  <2>2. v4 = addr.ip
    BY <1>6, <2>1, OctetsOf
  <2> HIDE DEF v4, v6, pair
  <2> QED
    BY <1>2, <1>4, <1>5, <1>6, <2>2 DEF Width, FAMILY_IPV4
<1>7. CASE addr.ip \notin V4
  <2>1. ASSUME NEW s \in 1..8 PROVE pair(2 * s + 3) = addr.ip[s]
    <3>1. /\ 2 * s + 3 \in 5..20 /\ 2 * s + 4 \in 5..20 /\ (2 * s + 3) + 1 = 2 * s + 4
          /\ (2 * s + 3) % 2 = 1 /\ (2 * s + 4) % 2 # 1
          /\ ((2 * s + 3) - 3) \div 2 = s /\ ((2 * s + 4) - 4) \div 2 = s
      OBVIOUS
    <3>2. octet(2 * s + 3) = addr.ip[s] \div 256
      BY <1>3, <1>7, <3>1 DEF Width, PlainOctet
    <3>3. octet(2 * s + 4) = addr.ip[s] % 256
      BY <1>3, <1>7, <3>1 DEF Width, PlainOctet
    <3>4. addr.ip[s] \in Segment
      BY <1>1, <1>7 DEF V6
    <3> QED
      BY <3>1, <3>2, <3>3, <3>4, Halves
  <2> HIDE DEF pair
  <2>2. v6 = addr.ip
    BY <1>1, <1>7, <2>1 DEF V6
  <2> HIDE DEF v4, v6
  <2> QED
    BY <1>2, <1>4, <1>5, <1>7, <2>2 DEF Width, FAMILY_IPV4, FAMILY_IPV6
<1> QED
  BY <1>6, <1>7

LEMMA XorRoundTrip ==
  ASSUME NEW addr \in SocketAddr, NEW txid \in TransactionId
  PROVE  /\ Len(XorMapped(addr, txid)) = Width(addr)
         /\ XorRead(XorMapped(addr, txid), txid) = Okay(addr)
<1> DEFINE value == XorMapped(addr, txid)
           cell(i) == IF i = 1 THEN 0
                      ELSE IF i = 2 THEN IF addr.ip \in V4 THEN FAMILY_IPV4 ELSE FAMILY_IPV6
                      ELSE OctetXor(PlainOctet(addr, i), KeyOctet(txid, i))
<1>1. Width(addr) \in {8, 20}
  BY DEF Width
<1>2. value = [i \in 1..Width(addr) |-> cell(i)]
  BY DEF XorMapped, Width
<1>3. \A i \in 3..Width(addr) : PlainOctet(addr, i) \in Octet /\ KeyOctet(txid, i) \in Octet
  BY <1>1, PlainOctetType, KeyOctetType
<1>4. Len(value) = Width(addr)
  <2>1. value \in [1..Width(addr) -> { cell(i) : i \in 1..Width(addr) }]
    BY <1>2
  <2> QED
    BY <1>1, <2>1, LengthOf
<1>5. \A i \in 1..Width(addr) : value[i] = cell(i)
  BY <1>2
<1> HIDE DEF value
<1>6. value[2] = IF addr.ip \in V4 THEN FAMILY_IPV4 ELSE FAMILY_IPV6
  BY <1>1, <1>5
<1>7. \A i \in 3..Width(addr) : OctetXor(value[i], KeyOctet(txid, i)) = PlainOctet(addr, i)
  BY <1>1, <1>3, <1>5, OctetXorAssumption
<1>8. XorRead(value, txid) = Okay(addr)
  BY <1>4, <1>6, <1>7, DecodePlain DEF XorRead
<1> QED
  BY <1>4, <1>8 DEF value

(* The parser on a message of one whole attribute: it finds it, and takes  *)
(* it if it is of the kind it looks for.                                   *)
LEMMA OneAttribute ==
  ASSUME NEW txid, txid # AnyTransaction, NEW type, NEW len \in Nat, NEW value, NEW m,
         m = Message(BINDING_SUCCESS, txid, WriteAttr(<< >>, type, len, value))
  PROVE  /\ type = ATTR_XOR_MAPPED_ADDRESS =>
              ParseBindingResponse(m, txid) = XorRead(value, txid)
         /\ \A addr : (type = ATTR_MAPPED_ADDRESS
                        /\ PlainRead(value, txid) = Okay(addr)) =>
                          ParseBindingResponse(m, txid) = Okay(addr)
<1> DEFINE attr  == [type |-> type, at |-> 0, len |-> len, value |-> value]
           attrs == << attr >>
<1>1. Padding(len) \in Nat
  BY DEF Padding
<1>2. WriteAttr(<< >>, type, len, value) = attrs
  BY DEF WriteAttr, AreaLen
<1>3. Len(attrs) = 1 /\ attrs[1] = attr /\ DOMAIN attrs = {1} /\ attrs # << >>
  OBVIOUS
<1> HIDE DEF attrs
<1>4. AreaLen(attrs) = 4 + len + Padding(len)
  BY <1>1, <1>3 DEF AreaLen
<1>5. /\ m.type = BINDING_SUCCESS /\ m.cookie = MAGIC_COOKIE /\ m.txid = txid /\ m.attrs = attrs
      /\ m.len = 4 + len + Padding(len) /\ m.size = 24 + len + Padding(len)
  BY <1>1, <1>2, <1>4 DEF Message
<1>6. m.attrs[1].value = value
  BY <1>3, <1>5
<1>7. ATTR_XOR_MAPPED_ADDRESS # ATTR_MAPPED_ADDRESS
  BY DEF ATTR_XOR_MAPPED_ADDRESS, ATTR_MAPPED_ADDRESS
<1>8. Reached(m) = {1}
  BY <1>1, <1>3, <1>5 DEF Reached
<1>9. ~Overruns(m, 1)
  BY <1>1, <1>3, <1>5 DEF Overruns
<1>10. ParseBindingResponse(m, txid) = MappedAddressIn(m)
  BY <1>1, <1>5 DEF ParseBindingResponse, HeaderFault, Incomplete
<1>11. \A t : ReachedOf(m, t) = IF t = type THEN {1} ELSE {}
  BY <1>3, <1>5, <1>8 DEF ReachedOf
<1>12. FirstOf({1}) = 1
  BY DEF FirstOf
<1>13. CASE type = ATTR_XOR_MAPPED_ADDRESS
  <2>1. { i \in ReachedOf(m, ATTR_XOR_MAPPED_ADDRESS) : ~Overruns(m, i) } = {1}
    BY <1>9, <1>11, <1>13
  <2>2. MappedAddressIn(m) = XorRead(m.attrs[1].value, m.txid)
    BY <2>1, <1>12 DEF MappedAddressIn, XorRead
  <2>3. ParseBindingResponse(m, txid) = XorRead(value, txid)
    BY <1>5, <1>10, <1>6, <2>2
  <2> QED
    BY <1>5, <1>13, <1>7, <2>3
<1>14. ASSUME type = ATTR_MAPPED_ADDRESS,
               NEW addr, PlainRead(value, txid) = Okay(addr)
        PROVE  ParseBindingResponse(m, txid) = Okay(addr)
  <2> DEFINE kept == { i \in ReachedOf(m, ATTR_MAPPED_ADDRESS) :
                         /\ ~Overruns(m, i)
                         /\ PlainRead(m.attrs[i].value, m.txid).ok }
  <2>1. { i \in ReachedOf(m, ATTR_XOR_MAPPED_ADDRESS) : ~Overruns(m, i) } = {}
    BY <1>7, <1>11, <1>14
  <2>2. PlainRead(m.attrs[1].value, m.txid).ok
    <3>1. PlainRead(m.attrs[1].value, m.txid) = Okay(addr)
      BY <1>5, <1>6, <1>14
    <3>2. Okay(addr).ok
      BY DEF Okay
    <3> QED
      BY <3>1, <3>2
  <2>3. kept = {1}
    BY <1>9, <1>11, <1>14, <2>2
  <2>4. MappedAddressIn(m) =
          IF kept # {} THEN PlainRead(m.attrs[FirstOf(kept)].value, m.txid)
          ELSE Err("NoMappedAddress")
    BY <1>8, <1>9, <2>1 DEF MappedAddressIn, PlainRead
  <2> HIDE DEF kept
  <2>5. MappedAddressIn(m) = PlainRead(m.attrs[1].value, m.txid)
    BY <2>3, <2>4, <1>12
  <2> QED
    BY <1>5, <1>6, <1>10, <1>14, <2>5
<1> QED
  BY <1>5, <1>7, <1>13, <1>14

LEMMA FoldAddrType ==
  ASSUME NEW addr \in SocketAddr
  PROVE  FoldAddr(addr) \in SocketAddr /\ FoldAddr(FoldAddr(addr)) = FoldAddr(addr)
<1>1. addr = [ip |-> addr.ip, port |-> addr.port] /\ addr.ip \in IpAddr /\ addr.port \in Port
  BY DEF SocketAddr
<1>2. FoldAddr(addr) = [ip |-> FoldIp(addr.ip), port |-> addr.port]
  BY <1>1 DEF FoldAddr
<1>3. FoldIp(addr.ip) \in IpAddr /\ FoldIp(FoldIp(addr.ip)) = FoldIp(addr.ip)
  BY <1>1, FoldIpIdempotent
<1>4. FoldAddr(addr) \in SocketAddr
  BY <1>1, <1>2, <1>3 DEF SocketAddr
<1>5. ASSUME NEW f, NEW p, NEW b, b = [ip |-> f, port |-> p]
      PROVE  FoldAddr(b) = [ip |-> FoldIp(f), port |-> p]
  BY <1>5 DEF FoldAddr
<1> QED
  BY <1>2, <1>3, <1>4, <1>5

LEMMA TransactionNotAny == ASSUME NEW txid \in TransactionId PROVE txid # AnyTransaction
<1>1. 1 \in DOMAIN txid /\ DOMAIN << >> = 1..0
  BY DEF TransactionId
<1> QED
  BY <1>1 DEF AnyTransaction

(* encode_binding_success and parse_binding_response, for every address in *)
(* every spelling and every transaction id: the parser reads the address   *)
(* the server saw, folded.                                                 *)
THEOREM AddressRoundTrip ==
  ASSUME NEW txid \in TransactionId, NEW reflexive \in SocketAddr
  PROVE  ParseBindingResponse(EncodeBindingSuccess(txid, reflexive), txid)
           = Okay(FoldAddr(reflexive))
<1> DEFINE value == XorMapped(FoldAddr(reflexive), txid)
<1>1. /\ Len(value) = Width(FoldAddr(reflexive))
      /\ XorRead(value, txid) = Okay(FoldAddr(reflexive))
  BY FoldAddrType, XorRoundTrip
<1>2. Len(value) \in Nat
  BY <1>1 DEF Width
<1>3. EncodeBindingSuccess(txid, reflexive) =
        Message(BINDING_SUCCESS, txid, WriteAttr(<< >>, ATTR_XOR_MAPPED_ADDRESS, Len(value), value))
  BY DEF EncodeBindingSuccess
<1> HIDE DEF value
<1>4. txid # AnyTransaction
  BY TransactionNotAny
<1>5. ASSUME NEW m, NEW len \in Nat, NEW octets,
             m = Message(BINDING_SUCCESS, txid,
                         WriteAttr(<< >>, ATTR_XOR_MAPPED_ADDRESS, len, octets))
      PROVE  ParseBindingResponse(m, txid) = XorRead(octets, txid)
  BY <1>4, <1>5, OneAttribute
<1> QED
  BY <1>1, <1>2, <1>3, <1>5

-----------------------------------------------------------------------------
(* Positions.  The well-founded order of the naturals gives every non-empty *)
(* set of positions a first one and, if it is bounded, a last one.          *)
LEMMA LessThan == IsWellFoundedOn({ ss \in Nat \X Nat : ss[1] < ss[2] }, Nat)
BY NatLessThanWellFounded DEF OpToRel

LEMMA Least ==
  ASSUME NEW S, S \subseteq Nat, S # {}
  PROVE  \E i \in S : \A j \in S : i <= j
<1> DEFINE R == { ss \in Nat \X Nat : ss[1] < ss[2] }
<1>1. IsWellFoundedOn(R, Nat)
  BY LessThan
<1>2. \A i, j \in Nat : << j, i >> \in R <=> j < i
  OBVIOUS
<1> HIDE DEF R
<1>3. PICK i \in S : \A j \in S : ~(<< j, i >> \in R)
  BY <1>1, WFMin
<1>4. \A j \in S : ~(j < i)
  BY <1>2, <1>3
<1>5. \A j \in S : i <= j
  BY <1>4
<1> QED
  BY <1>5

LEMMA Greatest ==
  ASSUME NEW n \in Nat, NEW S, S \subseteq 1..n, S # {}
  PROVE  \E i \in S : \A j \in S : j <= i
<1> DEFINE T == { n - i : i \in S }
<1>1. T \subseteq Nat
  <2>1. \A i \in S : n - i \in Nat
    OBVIOUS
  <2> QED
    BY <2>1
<1>0. T # {}
  OBVIOUS
<1>2. PICK t \in T : \A u \in T : t <= u
  <2> HIDE DEF T
  <2> QED
    BY <1>0, <1>1, Least
<1>3. PICK i \in S : t = n - i
  OBVIOUS
<1>4. \A j \in S : n - i <= n - j
  BY <1>2, <1>3
<1>5. \A j \in S : j <= i
  BY <1>4
<1> QED
  BY <1>5

LEMMA Ends ==
  ASSUME NEW n \in Nat, NEW S, S \subseteq 1..n, S # {}
  PROVE  /\ FirstOf(S) \in S /\ \A j \in S : FirstOf(S) <= j
         /\ LastOf(S) \in S /\ \A j \in S : j <= LastOf(S)
<1>1. S \subseteq Nat
  OBVIOUS
<1>2. \E i \in S : \A j \in S : i <= j
  BY <1>1, Least
<1>3. \E i \in S : \A j \in S : j <= i
  BY Greatest
<1> QED
  BY <1>2, <1>3 DEF FirstOf, LastOf

(* With one more position at the end, the first stays the first, if there  *)
(* was one, and the last is the new one.                                   *)
LEMMA EndsExtended ==
  ASSUME NEW n \in Nat, NEW S, S \subseteq 1..n
  PROVE  /\ FirstOf(S \union {n + 1}) = IF S = {} THEN n + 1 ELSE FirstOf(S)
         /\ LastOf(S \union {n + 1}) = n + 1
<1> DEFINE T == S \union {n + 1}
<1>1. S \subseteq Nat /\ T \subseteq 1..(n + 1) /\ T # {} /\ n + 1 \in Nat
  OBVIOUS
<1>2. PICK first \in 1..(n + 1), last \in 1..(n + 1) :
        /\ first = FirstOf(T) /\ first \in T /\ \A j \in T : first <= j
        /\ last = LastOf(T) /\ last \in T /\ \A j \in T : j <= last
  <2> HIDE DEF T
  <2> QED
    BY <1>1, Ends
<1>3. n + 1 <= last
  BY <1>2
<1>4. LastOf(T) = n + 1
  BY <1>2, <1>3
<1>5. CASE S = {}
  BY <1>2, <1>4, <1>5
<1>6. CASE S # {}
  <2>1. PICK old \in S : old = FirstOf(S) /\ \A j \in S : old <= j
    BY <1>6, Ends
  <2>2. first <= old /\ old \in Nat /\ old <= n
    BY <1>1, <1>2
  <2>3. first \in S
    BY <1>2, <2>2
  <2>4. old <= first
    BY <2>1, <2>3
  <2>5. old = first
    BY <2>2, <2>4
  <2> QED
    BY <1>2, <1>4, <1>6, <2>1, <2>5
<1> QED
  BY <1>5, <1>6

-----------------------------------------------------------------------------
(* Attribute areas.  An area is laid out when each attribute is written    *)
(* where the padding of the one before it ends.  How long the last one     *)
(* claims to be does not matter for it.                                    *)
AttrFields == {"type", "at", "len", "value"}

Laid(attrs) ==
  /\ \E S : attrs \in Seq(S)
  /\ \A i \in DOMAIN attrs :
       /\ DOMAIN attrs[i] = AttrFields /\ attrs[i].at \in Nat /\ attrs[i].len \in Nat
       /\ i > 1 => attrs[i].at = After(attrs[i - 1])
       /\ \A j \in 1..(i - 1) : attrs[j].at + 4 + attrs[j].len <= attrs[i].at

LEMMA PaddingType == \A len \in Nat : Padding(len) \in Nat
BY DEF Padding

LEMMA ListFacts ==
  ASSUME NEW attrs, Laid(attrs)
  PROVE  Len(attrs) \in Nat /\ DOMAIN attrs = 1..Len(attrs) /\ (attrs = << >> <=> Len(attrs) = 0)
<1> PICK S : attrs \in Seq(S)
  BY DEF Laid
<1> QED
  OBVIOUS

LEMMA EndsWithin ==
  ASSUME NEW x \in Nat, NEW y \in Nat, NEW at \in Nat, NEW len \in Nat, NEW pad \in Nat,
         x + 4 + y <= at
  PROVE  x + 4 + y <= at + 4 + len + pad
OBVIOUS

(* Every attribute of a laid out area ends within the area. *)
LEMMA AreaBounds ==
  ASSUME NEW attrs, Laid(attrs)
  PROVE  /\ AreaLen(attrs) \in Nat
         /\ attrs # << >> => AreaLen(attrs) = After(attrs[Len(attrs)])
         /\ \A i \in DOMAIN attrs : attrs[i].at + 4 + attrs[i].len <= AreaLen(attrs)
<1>1. Len(attrs) \in Nat /\ DOMAIN attrs = 1..Len(attrs) /\ (attrs = << >> <=> Len(attrs) = 0)
  BY ListFacts
<1>2. CASE attrs = << >>
  BY <1>1, <1>2 DEF AreaLen
<1>3. CASE attrs # << >>
  <2> PICK n \in Nat : n = Len(attrs)
    BY <1>1
  <2>1. n \in DOMAIN attrs
    BY <1>1, <1>3
  <2>2. attrs[n].at \in Nat /\ attrs[n].len \in Nat /\ Padding(attrs[n].len) \in Nat
    BY <2>1, PaddingType DEF Laid
  <2> PICK at \in Nat, len \in Nat, pad \in Nat :
        at = attrs[n].at /\ len = attrs[n].len /\ pad = Padding(len)
    BY <2>2
  <2>3. AreaLen(attrs) = at + 4 + len + pad /\ After(attrs[n]) = at + 4 + len + pad
    BY <1>3 DEF AreaLen, After
  <2>4. ASSUME NEW i \in DOMAIN attrs
        PROVE  attrs[i].at + 4 + attrs[i].len <= AreaLen(attrs)
    <3>1. CASE i = n
      BY <2>3, <3>1
    <3>2. CASE i # n
      <4>1. i \in 1..(n - 1)
        BY <1>1, <3>2
      <4>2. attrs[i].at \in Nat /\ attrs[i].len \in Nat
        BY DEF Laid
      <4> PICK x \in Nat, y \in Nat : x = attrs[i].at /\ y = attrs[i].len
        BY <4>2
      <4>3. x + 4 + y <= at
        BY <2>1, <4>1 DEF Laid
      <4>4. x + 4 + y <= at + 4 + len + pad
        BY <4>3, EndsWithin
      <4> QED
        BY <2>3, <4>4
    <3> QED
      BY <3>1, <3>2
  <2>5. AreaLen(attrs) \in Nat
    BY <2>3
  <2> QED
    BY <2>3, <2>4, <2>5
<1> QED
  BY <1>2, <1>3

(* write_attr keeps an area laid out. *)
LEMMA LaidWritten ==
  ASSUME NEW attrs, Laid(attrs), NEW type, NEW len \in Nat, NEW value,
         NEW longer, longer = WriteAttr(attrs, type, len, value)
  PROVE  /\ Laid(longer) /\ Len(longer) = Len(attrs) + 1
         /\ \A i \in DOMAIN attrs : longer[i] = attrs[i]
         /\ longer[Len(attrs) + 1] =
              [type |-> type, at |-> AreaLen(attrs), len |-> len, value |-> value]
<1> DEFINE a == [type |-> type, at |-> AreaLen(attrs), len |-> len, value |-> value]
<1>1. /\ DOMAIN a = AttrFields /\ a.at = AreaLen(attrs) /\ a.len = len
  BY DEF AttrFields
<1>2. longer = Append(attrs, a)
  BY DEF WriteAttr
<1> HIDE DEF a
<1> PICK S : attrs \in Seq(S)
  BY DEF Laid
<1> PICK n \in Nat : n = Len(attrs)
  OBVIOUS
<1>3. longer \in Seq(S \union {a})
  <2>1. attrs \in Seq(S \union {a})
    BY SeqMonotonic
  <2> QED
    BY <1>2, <2>1
<1>4. /\ Len(longer) = n + 1 /\ DOMAIN longer = 1..(n + 1) /\ DOMAIN attrs = 1..n
      /\ longer[n + 1] = a /\ \A i \in 1..n : longer[i] = attrs[i]
  BY <1>2
<1>5. /\ AreaLen(attrs) \in Nat
      /\ attrs # << >> => AreaLen(attrs) = After(attrs[n])
      /\ \A i \in 1..n : attrs[i].at + 4 + attrs[i].len <= AreaLen(attrs)
  BY <1>4, AreaBounds
<1>6. ASSUME NEW i \in 1..n
      PROVE  /\ DOMAIN longer[i] = AttrFields /\ longer[i].at \in Nat /\ longer[i].len \in Nat
             /\ i > 1 => longer[i].at = After(longer[i - 1])
             /\ \A j \in 1..(i - 1) : longer[j].at + 4 + longer[j].len <= longer[i].at
  <2>1. longer[i] = attrs[i] /\ \A j \in 1..(i - 1) : longer[j] = attrs[j]
    BY <1>4
  <2>2. i > 1 => i - 1 \in 1..(i - 1)
    OBVIOUS
  <2>3. i \in DOMAIN attrs
    BY <1>4
  <2> QED
    BY <2>1, <2>2, <2>3 DEF Laid
<1>7. /\ DOMAIN longer[n + 1] = AttrFields
      /\ longer[n + 1].at \in Nat /\ longer[n + 1].len \in Nat
      /\ n + 1 > 1 => longer[n + 1].at = After(longer[(n + 1) - 1])
      /\ \A j \in 1..((n + 1) - 1) : longer[j].at + 4 + longer[j].len <= longer[n + 1].at
  <2>1. (n + 1) - 1 = n /\ (n + 1 > 1 => attrs # << >> /\ n \in 1..n)
    OBVIOUS
  <2>2. n + 1 > 1 => a.at = After(longer[n])
    BY <1>1, <1>4, <1>5, <2>1
  <2>3. \A j \in 1..n : longer[j].at + 4 + longer[j].len <= a.at
    BY <1>1, <1>4, <1>5
  <2> QED
    BY <1>1, <1>4, <1>5, <2>1, <2>2, <2>3
<1>8. \A i \in DOMAIN longer : i \in 1..n \/ i = n + 1
  BY <1>4
<1>9. Laid(longer)
  BY <1>3, <1>6, <1>7, <1>8 DEF Laid
<1> QED
  BY <1>4, <1>9 DEF a

LEMMA LaidLonger ==
  ASSUME NEW attrs, Laid(attrs), NEW type, NEW len \in Nat, NEW value
  PROVE  Laid(WriteAttr(attrs, type, len, value))
BY LaidWritten

LEMMA LaidNothing == Laid(<< >>) /\ AreaLen(<< >>) = 0
<1>1. << >> \in Seq({}) /\ DOMAIN << >> = {}
  OBVIOUS
<1> QED
  BY <1>1 DEF Laid, AreaLen

(* A parser meets every attribute of an area that is as long as declared,  *)
(* and none of them runs past it.                                          *)
LEMMA WholeWalk ==
  ASSUME NEW m, Laid(m.attrs), m.len = AreaLen(m.attrs)
  PROVE  Reached(m) = DOMAIN m.attrs /\ \A i \in DOMAIN m.attrs : ~Overruns(m, i)
<1> DEFINE attrs == m.attrs
<1>1. Len(attrs) \in Nat /\ DOMAIN attrs = 1..Len(attrs)
  BY ListFacts
<1>2. AreaLen(attrs) \in Nat /\ \A i \in DOMAIN attrs : attrs[i].at + 4 + attrs[i].len <= AreaLen(attrs)
  BY AreaBounds
<1>3. ASSUME NEW i \in DOMAIN attrs
      PROVE  /\ ~Overruns(m, i) /\ attrs[i].at + 4 <= m.len
             /\ i > 1 => attrs[i].at = After(attrs[i - 1])
  <2>1. /\ attrs[i].at \in Nat /\ attrs[i].len \in Nat
        /\ i > 1 => attrs[i].at = After(attrs[i - 1])
    BY DEF Laid
  <2> PICK at \in Nat, len \in Nat : at = attrs[i].at /\ len = attrs[i].len
    BY <2>1
  <2>2. at + 4 + len <= m.len
    BY <1>2
  <2>3. at + 4 <= m.len /\ ~(at + 4 + len > m.len)
    BY <1>2, <2>2
  <2> QED
    BY <2>1, <2>3 DEF Overruns
<1>4. \A i \in DOMAIN attrs : 1..i \subseteq DOMAIN attrs
  BY <1>1
<1> QED
  BY <1>3, <1>4 DEF Reached

LEMMA EndsBefore ==
  ASSUME NEW x \in Nat, NEW y \in Nat, NEW at \in Nat, NEW area \in Nat,
         x + 4 + y <= at, at + 4 <= area
  PROVE  ~(x + 4 + y > area)
OBVIOUS

(* When a parser meets the last attribute it has met all of them, and only *)
(* the last may run past the area.                                         *)
LEMMA OverrunWalk ==
  ASSUME NEW m, Laid(m.attrs), m.len \in Nat, NEW n, n = Len(m.attrs), n \in Reached(m)
  PROVE  /\ n \in Nat \ {0} /\ Reached(m) = 1..n /\ DOMAIN m.attrs = 1..n
         /\ \A i \in 1..(n - 1) : ~Overruns(m, i)
<1> DEFINE attrs == m.attrs
<1>1. n \in Nat /\ DOMAIN attrs = 1..n
  BY ListFacts
<1>2. /\ n \in 1..n
      /\ \A j \in 1..n : attrs[j].at + 4 <= m.len
      /\ \A j \in 1..n : j > 1 => attrs[j].at = After(attrs[j - 1])
  BY <1>1 DEF Reached
<1>3. Reached(m) = 1..n
  <2>1. \A i \in 1..n : 1..i \subseteq 1..n
    BY <1>1
  <2> QED
    BY <1>1, <1>2, <2>1 DEF Reached
<1>4. ASSUME NEW i \in 1..(n - 1)
      PROVE  ~Overruns(m, i)
  <2>1. i \in DOMAIN attrs /\ n \in DOMAIN attrs
    BY <1>1, <1>2
  <2>2. attrs[i].at \in Nat /\ attrs[i].len \in Nat /\ attrs[n].at \in Nat
    BY <2>1 DEF Laid
  <2>3. attrs[i].at + 4 + attrs[i].len <= attrs[n].at
    BY <2>1 DEF Laid
  <2>4. attrs[n].at + 4 <= m.len
    BY <1>2, Zenon
  <2>5. ~(attrs[i].at + 4 + attrs[i].len > m.len)
    BY <2>2, <2>3, <2>4, EndsBefore
  <2> QED
    BY <2>5 DEF Overruns
<1> QED
  BY <1>1, <1>2, <1>3, <1>4

(* An area without its last attribute is laid out too. *)
FrontOf(attrs) == SubSeq(attrs, 1, Len(attrs) - 1)

LEMMA LaidFront ==
  ASSUME NEW attrs, Laid(attrs), Len(attrs) \in Nat \ {0}
  PROVE  /\ Laid(FrontOf(attrs)) /\ DOMAIN FrontOf(attrs) = 1..(Len(attrs) - 1)
         /\ \A i \in 1..(Len(attrs) - 1) : FrontOf(attrs)[i] = attrs[i]
<1> PICK n \in Nat \ {0} : n = Len(attrs)
  OBVIOUS
<1> PICK front : front = FrontOf(attrs)
  OBVIOUS
<1>0. front = SubSeq(attrs, 1, n - 1)
  BY DEF FrontOf
<1> PICK S : attrs \in Seq(S)
  BY DEF Laid
<1>1. front \in Seq(S) /\ DOMAIN front = 1..(n - 1) /\ \A i \in 1..(n - 1) : front[i] = attrs[i]
  BY <1>0
<1>2. \A i \in 1..(n - 1) : i \in DOMAIN attrs /\ \A j \in 1..i : front[j] = attrs[j]
  BY <1>1
<1>3. \A i \in 1..(n - 1) : (i > 1 => i - 1 \in 1..i) /\ \A j \in 1..(i - 1) : j \in 1..i
  OBVIOUS
<1>4. ASSUME NEW i \in DOMAIN front
      PROVE  /\ DOMAIN front[i] = AttrFields /\ front[i].at \in Nat /\ front[i].len \in Nat
             /\ i > 1 => front[i].at = After(front[i - 1])
             /\ \A j \in 1..(i - 1) : front[j].at + 4 + front[j].len <= front[i].at
  <2>1. i \in 1..(n - 1) /\ i \in DOMAIN attrs /\ front[i] = attrs[i]
    BY <1>1, <1>2
  <2>2. i > 1 => front[i - 1] = attrs[i - 1]
    BY <1>2, <1>3, <2>1
  <2>3. \A j \in 1..(i - 1) : front[j] = attrs[j]
    BY <1>2, <1>3, <2>1
  <2> QED
    BY <2>1, <2>2, <2>3 DEF Laid
<1>5. Laid(front)
  BY <1>1, <1>4 DEF Laid
<1> QED
  BY <1>1, <1>5
=============================================================================
