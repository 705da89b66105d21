----------------------------- MODULE Establish -----------------------------
(***************************************************************************)
(* src/src/establish.rs: how several untrusted readings of the node's own  *)
(* address combine into an address worth advertising, or into nothing.     *)
(*                                                                         *)
(* A source string is its form, what it identifies and its spelling, which *)
(* counts the zeros written before its first number beyond those Display   *)
(* writes; two strings are equal when all three are.  A host is a number   *)
(* in a 1-tuple, so that every id is a tuple of numbers.  A list of        *)
(* readings is the set of its members: the code sorts and removes          *)
(* duplicates before it counts.                                            *)
(***************************************************************************)
EXTENDS Scope, FiniteSets, Sequences

MIN_INDEPENDENT_CLASSES == 2
PEER_ONLY_MIN_CLASSES   == 3

HostForms == {"operator", "relay", "public"}
PeerForms == {"peer:v4", "peer:v6"}

Source  == [form : HostForms \union PeerForms \union {"other"},
            id : Seq(Nat), spelling : Nat]
Reading == [source : Source, addr : SocketAddr]

-----------------------------------------------------------------------------
(* SourceClass: constructors, Display and parse.                           *)

Host(form, id) == [form |-> form, id |-> id]

Peer(ip) ==
  LET folded == FoldIp(ip)
  IN [form |-> IF folded \in V4 THEN "peer:v4" ELSE "peer:v6",
      id   |-> << folded[1], folded[2] >>]

(* A mutant of Display: the groups of an IPv6 peer are not padded. *)
DisplayUnpadded(class) ==
  [form |-> class.form, id |-> class.id,
   spelling |-> IF class.form = "peer:v6" THEN 1 ELSE 0]

Display(class) == [form |-> class.form, id |-> class.id, spelling |-> 0]

Parses(source) == source.form # "other"
Parse(source)  == [form |-> source.form, id |-> source.id]

IsPeer(class) == class.form \in PeerForms

-----------------------------------------------------------------------------
Families == {"ipv4", "ipv6"}
FamilyOf(ip) == IF FoldIp(ip) \in V4 THEN "ipv4" ELSE "ipv6"

(* The readings of one family, folded first; the port is not looked at.    *)
FamilyReadings(readings, family) ==
  { << FoldIp(r.addr.ip), r.source >> :
      r \in { q \in readings : FamilyOf(q.addr.ip) = family } }

Addrs(family)   == { r[1] : r \in family }
Classes(family) == { r[2] : r \in family }

(* A mutant of PeerOnly: what does not parse is no evidence against it. *)
PeerOnlyUnlessParsed(classes) == \A c \in classes : Parses(c) => IsPeer(Parse(c))

PeerOnly(classes) == \A c \in classes : Parses(c) /\ IsPeer(Parse(c))

(* A mutant of EnoughClasses: the peer-only floor is the general one. *)
EnoughClassesFlat(classes) == Cardinality(classes) >= MIN_INDEPENDENT_CLASSES

EnoughClasses(classes) ==
  /\ Cardinality(classes) >= MIN_INDEPENDENT_CLASSES
  /\ PeerOnly(classes) => Cardinality(classes) >= PEER_ONLY_MIN_CLASSES

NoReadings == [kind |-> "NoReadings"]
Disagreement(addrs) == [kind |-> "Disagreement", addrs |-> addrs]
Insufficient(classes) == [kind |-> "Insufficient", classes |-> Cardinality(classes),
                          peerOnly |-> PeerOnly(classes)]
NotGlobal(ip) == [kind |-> "NotGlobal", ip |-> ip, scope |-> ScopeOfIp(ip)]
Establishes(ip, classes) == [kind |-> "Established", ip |-> ip,
                             classes |-> Cardinality(classes)]

(* A mutant of VerdictForFamily: a majority of classes outvotes a dissenter. *)
VerdictByMajority(family) ==
  LET Backers(ip) == { r[2] : r \in { q \in family : q[1] = ip } }
      best == CHOOSE ip \in Addrs(family) :
                \A other \in Addrs(family) :
                  Cardinality(Backers(other)) <= Cardinality(Backers(ip))
  IN IF family = {} THEN NoReadings
     ELSE IF ~EnoughClasses(Backers(best))
          THEN IF Cardinality(Addrs(family)) > 1 THEN Disagreement(Addrs(family))
               ELSE Insufficient(Backers(best))
     ELSE IF ScopeOfIp(best) # GlobalUnicast THEN NotGlobal(best)
     ELSE Establishes(best, Backers(best))

VerdictForFamily(family) ==
  IF family = {} THEN NoReadings
  ELSE IF Cardinality(Addrs(family)) > 1 THEN Disagreement(Addrs(family))
  ELSE LET ip == CHOOSE a \in Addrs(family) : TRUE
       IN IF ~EnoughClasses(Classes(family)) THEN Insufficient(Classes(family))
          ELSE IF ScopeOfIp(ip) # GlobalUnicast THEN NotGlobal(ip)
          ELSE Establishes(ip, Classes(family))

(* A mutant of EstablishFor: addresses are compared with their ports. *)
EstablishForWithPorts(readings, family) ==
  LET seen == { [ip |-> FoldIp(r.addr.ip), port |-> r.addr.port] :
                  r \in { q \in readings : FamilyOf(q.addr.ip) = family } }
  IN IF Cardinality(seen) > 1 THEN Disagreement(seen)
     ELSE VerdictForFamily(FamilyReadings(readings, family))

EstablishFor(readings, family) == VerdictForFamily(FamilyReadings(readings, family))

Established(readings) == [ipv4 |-> EstablishFor(readings, "ipv4"),
                          ipv6 |-> EstablishFor(readings, "ipv6")]
=============================================================================
