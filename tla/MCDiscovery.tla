---------------------------- MODULE MCDiscovery ----------------------------
(***************************************************************************)
(* Discovery for TLC: a relay, a reporter of a tier this version does not  *)
(* know, and peers in two /16s and one /32, one of them connecting over an *)
(* IPv4-mapped socket.                                                     *)
(***************************************************************************)
EXTENDS Discovery

Relay  == [tier |-> "relay",  at |-> << 1 >>]
Newer  == [tier |-> "other", at |-> << 1 >>]
PeerAt(ip) == [tier |-> "peer", at |-> ip]

PeerA  == PeerAt(<< 9, 1, 0, 1 >>)
PeerAm == PeerAt(MappedV6(<< 9, 1, 0, 3 >>))
PeerB  == PeerAt(<< 9, 2, 0, 1 >>)
PeerC  == PeerAt(<< 10752, 1, 0, 0, 0, 0, 0, 5 >>)

Home  == << 8, 8, 0, 1 >>
Moved == << 8, 8, 0, 2 >>
Home6 == << 10753, 0, 0, 0, 0, 0, 0, 1 >>
Fake  == << 66, 6, 6, 6 >>

Everyone == { Relay, Newer, PeerA, PeerAm, PeerB, PeerC }
(* Nobody lies; or every peer of two provider blocks does; or the relay.   *)
LiarChoices == { {}, { PeerA, PeerAm, PeerC }, { Relay } }
FakeAddrs == { Fake, MappedV6(Fake) }
HomeAddrs == { Home, Moved, Home6 }
=============================================================================
