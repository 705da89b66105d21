----------------------------- MODULE Observation -----------------------------
(***************************************************************************)
(* observe() of src/src/observe.rs: whether, and with what address, a node *)
(* tells a peer where the peer's traffic comes from.                       *)
(***************************************************************************)
EXTENDS Scope

SessionMeta == [direction : {"Inbound", "Outbound"}, path : {"Direct", "Relayed"},
                remote : SocketAddr]

Told(addr)      == [kind |-> "Told", addr |-> addr]
Declined(reason) == [kind |-> "Declined", reason |-> reason]

(* A mutant of Observe: the endpoint of a relay circuit is told. *)
ObserveAnyPath(meta) ==
  IF meta.direction # "Inbound" THEN Declined("Outbound")
  ELSE IF ScopeOf(meta.remote) = NeverDialable THEN Declined("Unusable")
  ELSE Told(FoldAddr(meta.remote))

Observe(meta) ==
  IF meta.direction # "Inbound" THEN Declined("Outbound")
  ELSE IF meta.path # "Direct" THEN Declined("Relayed")
  ELSE IF ScopeOf(meta.remote) = NeverDialable THEN Declined("Unusable")
  ELSE Told(FoldAddr(meta.remote))
=============================================================================
