------------------------------- MODULE Scope -------------------------------
(***************************************************************************)
(* src/src/scope.rs: the one address table every consumer of the crate     *)
(* asks "could this be a reflexive candidate" and "could a stranger route  *)
(* to it".  An IPv4 address is its four octets and an IPv6 address its     *)
(* eight 16-bit segments, so the two families are disjoint sets and the    *)
(* masks of the code are divisions by powers of two.                       *)
(***************************************************************************)
EXTENDS Integers

MaxOctet   == 255
MaxSegment == 65535
Octet   == 0..MaxOctet
Segment == 0..MaxSegment
Port    == 0..MaxSegment
V4 == [1..4 -> Octet]
V6 == [1..8 -> Segment]
IpAddr     == V4 \union V6
SocketAddr == [ip : IpAddr, port : Port]

NeverDialable == "NeverDialable"
PrivateScope  == "PrivateScope"
GlobalUnicast == "GlobalUnicast"
Scopes == {NeverDialable, PrivateScope, GlobalUnicast}

-----------------------------------------------------------------------------
(* fold_ip: Ipv6Addr::to_ipv4 recognises the mapped form ::ffff:a.b.c.d and *)
(* the deprecated compatible form ::a.b.c.d.                               *)

EmbedsV4(v6) == /\ \A i \in 1..5 : v6[i] = 0
                /\ v6[6] \in {0, 65535}

EmbeddedV4(v6) == << v6[7] \div 256, v6[7] % 256, v6[8] \div 256, v6[8] % 256 >>

(* A mutant of FoldIp: to_canonical, which misses the compatible form. *)
FoldMappedOnly(ip) ==
  IF ip \in V6 /\ EmbedsV4(ip) /\ ip[6] = 65535 THEN EmbeddedV4(ip) ELSE ip

FoldIp(ip) == IF ip \in V6 /\ EmbedsV4(ip) THEN EmbeddedV4(ip) ELSE ip

(* Its callers keep the port. *)
FoldAddr(addr) == [addr EXCEPT !.ip = FoldIp(@)]

-----------------------------------------------------------------------------
(* scope_of_v4: the predicates of std::net::Ipv4Addr are written out.       *)

IsDocumentationV4(v) == \/ v[1] = 192 /\ v[2] = 0  /\ v[3] = 2
                        \/ v[1] = 198 /\ v[2] = 51 /\ v[3] = 100
                        \/ v[1] = 203 /\ v[2] = 0  /\ v[3] = 113

IsNeverV4(v) ==
  \/ v[1] = 0                                   \* this network, unspecified
  \/ v[1] = 127                                 \* loopback
  \/ v[1] = 169 /\ v[2] = 254                   \* link-local
  \/ v[1] \in 224..239                          \* multicast
  \/ v[1] >= 240                                \* class E, broadcast
  \/ IsDocumentationV4(v)
  \/ v[1] = 192 /\ v[2] = 0 /\ v[3] = 0         \* IETF protocol assignments
  \/ v[1] = 192 /\ v[2] = 88 /\ v[3] = 99       \* 6to4 relay anycast
  \/ v[1] = 198 /\ v[2] \div 2 = 9              \* benchmarking: (b & 0xfe) == 18

IsPrivateV4(v) ==
  \/ v[1] = 10
  \/ v[1] = 172 /\ v[2] \div 16 = 1
  \/ v[1] = 192 /\ v[2] = 168
  \/ v[1] = 100 /\ v[2] >= 64 /\ v[2] < 128     \* carrier-grade NAT

(* A mutant of ScopeOfV4: the carrier-grade NAT range read one octet short. *)
ScopeOfV4Off(v) == IF IsNeverV4(v) THEN NeverDialable
                   ELSE IF IsPrivateV4(v) /\ ~(v[1] = 100 /\ v[2] = 127)
                        THEN PrivateScope ELSE GlobalUnicast

ScopeOfV4(v) == IF IsNeverV4(v) THEN NeverDialable
                ELSE IF IsPrivateV4(v) THEN PrivateScope
                ELSE GlobalUnicast

(* A mutant of IsNeverV6: the benchmarking block is read as a /32. *)
IsNeverV6Wide(v) ==
  \/ v[1] \div 256 = 255
  \/ v[1] \div 64 = 1018
  \/ v[1] = 8193 /\ v[2] \in {2, 3512}
  \/ v[1] = 256 /\ \A i \in 2..4 : v[i] = 0

(* scope_of_v6 sees native addresses only: FoldIp has been applied. *)
IsNeverV6(v) ==
  \/ \A i \in 1..8 : v[i] = 0                                  \* unspecified
  \/ (\A i \in 1..7 : v[i] = 0) /\ v[8] = 1                    \* loopback
  \/ v[1] \div 256 = 255                                       \* multicast
  \/ v[1] \div 64 = 1018               \* link-local: & 0xffc0 == 0xfe80
  \/ v[1] = 8193 /\ v[2] = 3512                                \* 2001:db8::/32
  \/ v[1] = 8193 /\ v[2] = 2 /\ v[3] = 0                       \* 2001:2::/48
  \/ v[1] = 256 /\ \A i \in 2..4 : v[i] = 0                    \* 100::/64

IsPrivateV6(v) == v[1] \div 512 = 126  \* unique local: & 0xfe00 == 0xfc00

ScopeOfV6(v) == IF IsNeverV6(v) THEN NeverDialable
                ELSE IF IsPrivateV6(v) THEN PrivateScope
                ELSE GlobalUnicast

ScopeOfIp(ip) == LET folded == FoldIp(ip)
                 IN  IF folded \in V4 THEN ScopeOfV4(folded) ELSE ScopeOfV6(folded)

ScopeOf(addr) == IF addr.port = 0 THEN NeverDialable ELSE ScopeOfIp(addr.ip)

IsUsableReflexiveAddr(addr) == ScopeOf(addr) # NeverDialable
IsGloballyRoutable(addr)    == ScopeOf(addr) = GlobalUnicast

-----------------------------------------------------------------------------
(* The reference the code is compared with: the table of SPEC.md 5.3, each *)
(* range as an interval of 24-bit IPv4 prefixes or of IPv6 leading bits.   *)

Prefix24(v) == v[1] * 65536 + v[2] * 256 + v[3]
From(a, b, c) == a * 65536 + b * 256 + c

InTableNeverV4(v) ==
  \E r \in { << From(0, 0, 0),      From(0, 255, 255)   >>,
             << From(127, 0, 0),    From(127, 255, 255) >>,
             << From(169, 254, 0),  From(169, 254, 255) >>,
             << From(192, 0, 0),    From(192, 0, 0)     >>,
             << From(192, 0, 2),    From(192, 0, 2)     >>,
             << From(198, 51, 100), From(198, 51, 100)  >>,
             << From(203, 0, 113),  From(203, 0, 113)   >>,
             << From(192, 88, 99),  From(192, 88, 99)   >>,
             << From(198, 18, 0),   From(198, 19, 255)  >>,
             << From(224, 0, 0),    From(239, 255, 255) >>,
             << From(240, 0, 0),    From(255, 255, 255) >> } :
    r[1] <= Prefix24(v) /\ Prefix24(v) <= r[2]

InTablePrivateV4(v) ==
  \E r \in { << From(10, 0, 0),     From(10, 255, 255)  >>,
             << From(172, 16, 0),   From(172, 31, 255)  >>,
             << From(192, 168, 0),  From(192, 168, 255) >>,
             << From(100, 64, 0),   From(100, 127, 255) >> } :
    r[1] <= Prefix24(v) /\ Prefix24(v) <= r[2]

TableScopeV4(v) == IF InTableNeverV4(v) THEN NeverDialable
                   ELSE IF InTablePrivateV4(v) THEN PrivateScope
                   ELSE GlobalUnicast

(* The two IPv6 forms an IPv4 address can hide in. *)
MappedV6(v) == << 0, 0, 0, 0, 0, 65535, v[1] * 256 + v[2], v[3] * 256 + v[4] >>
CompatV6(v) == << 0, 0, 0, 0, 0, 0,     v[1] * 256 + v[2], v[3] * 256 + v[4] >>
=============================================================================
