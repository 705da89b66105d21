-------------------------- MODULE MCPeerObservation --------------------------
(* PeerObservation for TLC: two peers behind one address, one of them over *)
(* a dual-stack listener, a third on the LAN, and links that show nothing: *)
(* one this node dialled, one without a port and one through a relay.      *)
EXTENDS PeerObservation

Addr(ip, port) == [ip |-> ip, port |-> port]
Nat1  == << 9, 0, 0, 1 >>
Lan   == << 10, 0, 0, 5 >>
Relay == << 9, 9, 9, 9 >>

Link(session, direction, path, remote, actual) ==
  [session |-> session, actual |-> actual,
   meta |-> [direction |-> direction, path |-> path, remote |-> remote]]

SomeLinks ==
  { Link(1, "Inbound", "Direct", Addr(MappedV6(Nat1), 7), Addr(Nat1, 7)),
    Link(2, "Inbound", "Direct", Addr(Nat1, 8), Addr(Nat1, 8)),
    Link(2, "Outbound", "Direct", Addr(Nat1, 9444), Addr(Nat1, 8)),
    Link(3, "Inbound", "Direct", Addr(Lan, 9), Addr(Lan, 9)),
    Link(3, "Inbound", "Direct", Addr(Lan, 0), Addr(Lan, 0)),
    Link(3, "Inbound", "Relayed", Addr(Relay, 3478), Addr(Lan, 9)) }

SomeSources == { link.meta.remote.ip : link \in SomeLinks }
=============================================================================
