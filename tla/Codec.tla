------------------------------- MODULE Codec -------------------------------
(***************************************************************************)
(* src/src/codec.rs: the Binding message, both directions.                 *)
(*                                                                         *)
(* A datagram is its header fields, how many bytes of it were received     *)
(* (size, which a short buffer makes less than what was sent) and its      *)
(* attributes, each with the offset "at" its sender wrote it at: an area   *)
(* of len bytes, where len is the length the header declares.  A parser    *)
(* steps through the area with an arithmetic of its own and sees the       *)
(* attributes its steps meet.  The value of an address attribute is its    *)
(* octets; OctetXor is the exclusive or of two of them.                    *)
(***************************************************************************)
EXTENDS Scope, Sequences

CONSTANT OctetXor(_, _)   \* exclusive or of octets

ASSUME OctetXorAssumption == \A a, b \in Octet : /\ OctetXor(a, b) \in Octet
                                                 /\ OctetXor(OctetXor(a, b), b) = a

BINDING_REQUEST == 1
BINDING_SUCCESS == 257
ATTR_MAPPED_ADDRESS     == 1
ATTR_XOR_MAPPED_ADDRESS == 32
FAMILY_IPV4 == 1
FAMILY_IPV6 == 2

MAGIC_COOKIE  == << 33, 18, 164, 66 >>
TransactionId == [1..12 -> Octet]
AnyTransaction == << >>   \* an expected_txid of None

Okay(x) == [ok |-> TRUE, value |-> x]
Err(e)  == [ok |-> FALSE, error |-> e]

-----------------------------------------------------------------------------
(* Attribute areas.                                                        *)

Padding(len) == (4 - (len % 4)) % 4

AreaLen(attrs) ==
  IF attrs = << >> THEN 0
  ELSE LET last == attrs[Len(attrs)] IN last.at + 4 + last.len + Padding(last.len)

WriteAttr(attrs, type, len, value) ==
  Append(attrs, [type |-> type, at |-> AreaLen(attrs), len |-> len, value |-> value])

Message(type, txid, attrs) ==
  [type |-> type, len |-> AreaLen(attrs), cookie |-> MAGIC_COOKIE, txid |-> txid,
   attrs |-> attrs, size |-> 20 + AreaLen(attrs)]

(* A mutant of After: values are not padded. *)
AfterUnpadded(attr) == attr.at + 4 + attr.len

(* Where a parser looks for the attribute that follows. *)
After(attr) == attr.at + 4 + attr.len + Padding(attr.len)

(* The attributes whose header a parser reads, by their positions. *)
Reached(msg) ==
  { i \in DOMAIN msg.attrs :
      \A j \in 1..i : /\ msg.attrs[j].at + 4 <= msg.len
                      /\ j > 1 => msg.attrs[j].at = After(msg.attrs[j - 1]) }

Overruns(msg, i) == msg.attrs[i].at + 4 + msg.attrs[i].len > msg.len

ReachedOf(msg, type) == { i \in Reached(msg) : msg.attrs[i].type = type }

FirstOf(positions) == CHOOSE i \in positions : \A j \in positions : i <= j
LastOf(positions)  == CHOOSE i \in positions : \A j \in positions : j <= i

-----------------------------------------------------------------------------
(* The (XOR-)MAPPED-ADDRESS value: reserved, family, port, address, and    *)
(* what XOR combines it with from the port on.                             *)

PlainOctet(addr, i) ==
  IF i = 3 THEN addr.port \div 256
  ELSE IF i = 4 THEN addr.port % 256
  ELSE IF addr.ip \in V4 THEN addr.ip[i - 4]
  ELSE IF i % 2 = 1 THEN addr.ip[(i - 3) \div 2] \div 256
  ELSE addr.ip[(i - 4) \div 2] % 256

KeyOctet(txid, i) ==
  IF i <= 4 THEN MAGIC_COOKIE[i - 2]
  ELSE IF i <= 8 THEN MAGIC_COOKIE[i - 4]
  ELSE txid[i - 8]

XorMapped(addr, txid) ==
  [i \in 1..(IF addr.ip \in V4 THEN 8 ELSE 20) |->
     IF i = 1 THEN 0
     ELSE IF i = 2 THEN IF addr.ip \in V4 THEN FAMILY_IPV4 ELSE FAMILY_IPV6
     ELSE OctetXor(PlainOctet(addr, i), KeyOctet(txid, i))]

DecodeMappedAddress(value, txid, xor) ==
  LET octet(i) == IF xor THEN OctetXor(value[i], KeyOctet(txid, i)) ELSE value[i]
      pair(i)  == octet(i) * 256 + octet(i + 1)
      v4 == << octet(5), octet(6), octet(7), octet(8) >>
      v6 == [s \in 1..8 |-> pair(2 * s + 3)]
  IN IF Len(value) < 4 THEN Err("Truncated")
     ELSE IF value[2] = FAMILY_IPV4
          THEN IF Len(value) < 8 THEN Err("Truncated")
               ELSE Okay([ip |-> v4, port |-> pair(3)])
     ELSE IF value[2] = FAMILY_IPV6
          THEN IF Len(value) < 20 THEN Err("Truncated")
               ELSE Okay([ip |-> v6, port |-> pair(3)])
     ELSE Err("UnexpectedType")

-----------------------------------------------------------------------------
EncodeBindingRequest(txid) == Message(BINDING_REQUEST, txid, << >>)

(* A mutant of EncodeBindingSuccess: the address is not folded first. *)
EncodeBindingSuccessAsSeen(txid, reflexive) ==
  LET value == XorMapped(reflexive, txid)
  IN Message(BINDING_SUCCESS, txid,
             WriteAttr(<< >>, ATTR_XOR_MAPPED_ADDRESS, Len(value), value))

EncodeBindingSuccess(txid, reflexive) ==
  LET value == XorMapped(FoldAddr(reflexive), txid)
  IN Message(BINDING_SUCCESS, txid,
             WriteAttr(<< >>, ATTR_XOR_MAPPED_ADDRESS, Len(value), value))

(* The checks every parser makes first, in their order. *)
HeaderFault(msg, type) ==
  IF msg.size < 20 THEN "Truncated"
  ELSE IF msg.cookie # MAGIC_COOKIE THEN "BadMagicCookie"
  ELSE IF msg.type # type THEN "UnexpectedType"
  ELSE "none"

Incomplete(msg) == msg.size < 20 + msg.len

ParseBindingRequest(msg) ==
  LET fault == HeaderFault(msg, BINDING_REQUEST)
  IN IF fault # "none" THEN Err(fault)
     ELSE IF Incomplete(msg) THEN Err("Truncated")
     ELSE Okay(msg.txid)

(* The walk of parse_binding_response: the first XOR-MAPPED-ADDRESS ends   *)
(* it, an attribute that runs past the area is an error if none came       *)
(* before, and a MAPPED-ADDRESS that decodes is kept in case.              *)
MappedAddressIn(msg) ==
  LET decoded(i, xor) == DecodeMappedAddress(msg.attrs[i].value, msg.txid, xor)
      xored  == { i \in ReachedOf(msg, ATTR_XOR_MAPPED_ADDRESS) : ~Overruns(msg, i) }
      mapped == { i \in ReachedOf(msg, ATTR_MAPPED_ADDRESS) :
                    ~Overruns(msg, i) /\ decoded(i, FALSE).ok }
  IN IF xored # {} THEN decoded(FirstOf(xored), TRUE)
     ELSE IF \E i \in Reached(msg) : Overruns(msg, i) THEN Err("Truncated")
     ELSE IF mapped # {} THEN decoded(FirstOf(mapped), FALSE)
     ELSE Err("NoMappedAddress")

(* Mutants of ParseBindingResponse: the declared length is trusted; the    *)
(* transaction id is not compared.                                         *)
ParseBindingResponseTrusting(msg, expected) ==
  LET fault == HeaderFault(msg, BINDING_SUCCESS)
  IN IF fault # "none" THEN Err(fault)
     ELSE IF expected # AnyTransaction /\ msg.txid # expected
          THEN Err("TransactionIdMismatch")
     ELSE MappedAddressIn(msg)

ParseBindingResponseAnyTxid(msg, expected) ==
  LET fault == HeaderFault(msg, BINDING_SUCCESS)
  IN IF fault # "none" THEN Err(fault)
     ELSE IF Incomplete(msg) THEN Err("Truncated")
     ELSE MappedAddressIn(msg)

ParseBindingResponse(msg, expected) ==
  LET fault == HeaderFault(msg, BINDING_SUCCESS)
  IN IF fault # "none" THEN Err(fault)
     ELSE IF expected # AnyTransaction /\ msg.txid # expected
          THEN Err("TransactionIdMismatch")
     ELSE IF Incomplete(msg) THEN Err("Truncated")
     ELSE MappedAddressIn(msg)
=============================================================================
