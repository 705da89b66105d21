------------------------------ MODULE Discovery ------------------------------
(***************************************************************************)
(* Rounds of address discovery around establish(): the node asks several   *)
(* reporters where its traffic comes from, keeps what they answer, and may *)
(* read the verdict after any answer.  Reporters that tell the truth name  *)
(* the node's egress address of that moment, in either spelling and with   *)
(* whatever port the NAT mapped; liars name anything.  The provider may    *)
(* renumber the node in the middle of a round.                             *)
(*                                                                         *)
(* A timeout, a refusal or a parse error is not a reading (SPEC.md 7.3):   *)
(* a reporter that gives none is one whose action is not taken.            *)
(***************************************************************************)
EXTENDS Establish

CONSTANTS
  Reporters,    \* who is asked: [tier, at], a peer's "at" its transport address
  LiarSets,     \* which of them may turn out to lie together
  Egresses,     \* addresses the node's traffic may leave from
  Lies,         \* addresses a liar may name
  Ports,        \* ports a reading may carry
  MaxReadings   \* bound on the readings of a round

ASSUME DiscoveryAssumption ==
  /\ \A r \in Reporters :
       \/ r.tier = "peer" /\ r.at \in IpAddr
       \/ r.tier \in HostForms \union {"other"} /\ r.at \in Seq(Nat)
  /\ IsFiniteSet(Reporters) /\ LiarSets \subseteq SUBSET Reporters
  /\ Egresses \subseteq IpAddr /\ \A ip \in Egresses : FoldIp(ip) = ip
  /\ Lies \subseteq IpAddr
  /\ Ports \subseteq Port
  /\ MaxReadings \in Nat

VARIABLES
  liars,      \* the reporters that lie, the same all along
  egress,     \* the addresses the node's traffic leaves from now
  egressed,   \* those it left from at any time in this round
  readings    \* what has been reported in this round

vars == << liars, egress, egressed, readings >>

(* The source string the node files a reporter's answer under. *)
LabelOf(r) == IF r.tier = "peer" THEN Display(Peer(r.at))
              ELSE Display(Host(r.tier, r.at))

LiarClasses == { LabelOf(r) : r \in liars }

Spellings(ip) == IF ip \in V4 THEN { ip, MappedV6(ip) } ELSE { ip }

Init == /\ liars \in LiarSets
        /\ egress \in SUBSET Egresses
        /\ egressed = egress
        /\ readings = {}

Report(r, ip, port) ==
  /\ Cardinality(readings) < MaxReadings
  /\ readings' = readings \union
       { [source |-> LabelOf(r), addr |-> [ip |-> ip, port |-> port]] }
  /\ UNCHANGED << liars, egress, egressed >>

HonestReport == \E r \in Reporters \ liars, e \in egress, port \in Ports :
                  \E ip \in Spellings(e) : Report(r, ip, port)

FalseReport == \E r \in liars, ip \in Lies, port \in Ports : Report(r, ip, port)

Renumber == \E moved \in SUBSET Egresses :
              /\ moved # egress
              /\ egress' = moved
              /\ egressed' = egressed \union moved
              /\ UNCHANGED << liars, readings >>

NewRound == /\ readings # {}
            /\ readings' = {}
            /\ egressed' = egress
            /\ UNCHANGED << liars, egress >>

Next == HonestReport \/ FalseReport \/ Renumber \/ NewRound

Spec == Init /\ [][Next]_vars

-----------------------------------------------------------------------------
Verdict(family) == EstablishFor(readings, family)
IsEstablished(family) == Verdict(family).kind = "Established"

(* Type invariant: readings are filed under canonical labels of reporters. *)
TypeOK == /\ liars \in LiarSets
          /\ egress \subseteq Egresses
          /\ egress \subseteq egressed /\ egressed \subseteq Egresses
          /\ \A q \in readings : /\ q.addr \in SocketAddr
                                 /\ q.source \in { LabelOf(r) : r \in Reporters }
                                 /\ q.source.spelling = 0

LiarsTooFew == \/ Cardinality(LiarClasses) < 2
               \/ /\ Cardinality(LiarClasses) < 3
                  /\ \A c \in LiarClasses : c.form \in {"peer:v4", "peer:v6"}

(* An address the node never had in this round is established only by      *)
(* liars in enough independent classes, with no honest answer in that      *)
(* family: below the floors of SPEC.md 7.4, a false address is never       *)
(* established, however often the liars answer, whatever they name and     *)
(* however their peers spell their own addresses.                          *)
NoForgedAddress ==
  LiarsTooFew =>
    \A family \in Families :
      IsEstablished(family) => Verdict(family).ip \in egressed

(* Within a round the verdict only hardens: a dissent is never outvoted,   *)
(* and an established address stays or gives way to a dissent, never to    *)
(* another address.                                                        *)
VerdictHardens ==
  [][ readings \subseteq readings' =>
        \A family \in Families :
          LET before == Verdict(family)
              after  == EstablishFor(readings', family)
          IN /\ before.kind = "Disagreement" => after.kind = "Disagreement"
             /\ before.kind = "Established" =>
                  \/ after.kind = "Disagreement"
                  \/ /\ after.kind = "Established"
                     /\ after.ip = before.ip
                     /\ after.classes >= before.classes ]_vars

PeerLabels == { LabelOf(r) : r \in { q \in Reporters : q.tier = "peer" } }

(* Where nobody lies and the node keeps one address of a family through    *)
(* the round, its reporters agree whatever ports the NAT gave and however  *)
(* the address was spelled, and the address is established as soon as      *)
(* enough classes have answered, if a stranger could route to it: three if *)
(* all of them are peers, two if one is of any other kind, a kind this     *)
(* version does not know included.                                         *)
HonestRoundEstablishes ==
  liars = {} =>
    \A family \in Families, e \in egressed :
      ({ f \in egressed : FamilyOf(f) = family } = {e} /\ ScopeOfIp(e) = GlobalUnicast) =>
        LET answered == { q.source : q \in { q \in readings :
                                               FamilyOf(q.addr.ip) = family } }
            verdict == Verdict(family)
        IN /\ verdict.kind # "Disagreement"
           /\ \/ answered \subseteq PeerLabels /\ Cardinality(answered) < 3
              \/ Cardinality(answered) < 2
              \/ verdict.kind = "Established" /\ verdict.ip = e
=============================================================================
