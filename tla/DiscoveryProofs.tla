-------------------------- MODULE DiscoveryProofs --------------------------
(***************************************************************************)
(* Discovery for every set of reporters, liars, addresses and ports, and   *)
(* rounds of any length: readings are filed under canonical labels, and    *)
(* liars below the floors of SPEC.md 7.4 establish nothing false.          *)
(*                                                                         *)
(* The inductive invariant says of a reading what its reporter makes of    *)
(* it: it stands under a liar's label or names an address the node had in  *)
(* the round.  That an established address is one of the node's follows    *)
(* by counting: if it is not, all labels that back it are liars'.          *)
(***************************************************************************)
EXTENDS Discovery, ScopeLemmas, FiniteSetTheorems

ReadingsHonest ==
  \A q \in readings : q.source \in LiarClasses \/ FoldIp(q.addr.ip) \in egressed

Inv == TypeOK /\ IsFiniteSet(readings) /\ ReadingsHonest

(* What a truthful reporter may write for an address of the node.          *)
LEMMA SpellingsFold ==
  ASSUME NEW e \in IpAddr, FoldIp(e) = e, NEW ip \in Spellings(e)
  PROVE  ip \in IpAddr /\ FoldIp(ip) = e
BY FoldEmbeddings DEF Spellings, IpAddr

LEMMA LabelCanonical == ASSUME NEW r PROVE LabelOf(r).spelling = 0
BY DEF LabelOf, Display

LEMMA InitInv == Init => Inv
BY FS_EmptySet, DiscoveryAssumption DEF Init, Inv, TypeOK, ReadingsHonest

LEMMA ReportInv ==
  ASSUME Inv, NEW r \in Reporters, NEW ip \in IpAddr, NEW port \in Ports,
         r \in liars \/ FoldIp(ip) \in egressed,
         Report(r, ip, port)
  PROVE  Inv'
<1> DEFINE new == [source |-> LabelOf(r), addr |-> [ip |-> ip, port |-> port]]
<1>1. /\ readings' = readings \union {new}
      /\ UNCHANGED << liars, egress, egressed >>
  BY DEF Report
<1>2. IsFiniteSet(readings')
  BY <1>1, FS_AddElement DEF Inv
<1>3. /\ new.addr \in SocketAddr
      /\ new.source \in { LabelOf(p) : p \in Reporters }
      /\ new.source.spelling = 0
  BY LabelCanonical, DiscoveryAssumption DEF SocketAddr
<1>4. new.source \in LiarClasses \/ FoldIp(new.addr.ip) \in egressed
  BY DEF LiarClasses
<1> HIDE DEF new
<1>5. TypeOK'
  BY <1>1, <1>3 DEF Inv, TypeOK
<1>6. ReadingsHonest'
  BY <1>1, <1>4 DEF Inv, ReadingsHonest, LiarClasses
<1> QED
  BY <1>2, <1>5, <1>6 DEF Inv

LEMMA NextInv == Inv /\ [Next]_vars => Inv'
<1> SUFFICES ASSUME Inv, [Next]_vars PROVE Inv'
  OBVIOUS
<1> USE DiscoveryAssumption
<1>1. ASSUME NEW r \in Reporters \ liars, NEW e \in egress, NEW port \in Ports,
             NEW ip \in Spellings(e), Report(r, ip, port)
      PROVE  Inv'
  <2>1. e \in IpAddr /\ FoldIp(e) = e /\ e \in egressed
    BY <1>1 DEF Inv, TypeOK
  <2>2. ip \in IpAddr /\ FoldIp(ip) = e
    BY <2>1, SpellingsFold
  <2> QED
    BY <1>1, <2>1, <2>2, ReportInv
<1>2. ASSUME NEW r \in liars, NEW ip \in Lies, NEW port \in Ports, Report(r, ip, port)
      PROVE  Inv'
  <2>1. r \in Reporters
    BY DEF Inv, TypeOK
  <2> QED
    BY <1>2, <2>1, ReportInv
<1>3. CASE Renumber
  <2>1. PICK moved \in SUBSET Egresses :
          /\ egress' = moved /\ egressed' = egressed \union moved
          /\ UNCHANGED << liars, readings >>
    BY <1>3 DEF Renumber
  <2>2. TypeOK'
    BY <2>1 DEF Inv, TypeOK
  <2>3. ReadingsHonest'
    BY <2>1 DEF Inv, ReadingsHonest, LiarClasses
  <2> QED
    BY <2>1, <2>2, <2>3 DEF Inv
<1>4. CASE NewRound
  BY <1>4, FS_EmptySet DEF NewRound, Inv, TypeOK, ReadingsHonest
<1>5. CASE UNCHANGED vars
  BY <1>5 DEF vars, Inv, TypeOK, ReadingsHonest, LiarClasses
<1> QED
  BY <1>1, <1>2, <1>3, <1>4, <1>5 DEF Next, HonestReport, FalseReport

LEMMA InvHolds == Spec => []Inv
BY InitInv, NextInv, PTL DEF Spec

(* Every reading is filed under the canonical label of a reporter, and the *)
(* addresses of a round are the node's, however long discovery runs.       *)
THEOREM DiscoveryTypeCorrect == Spec => []TypeOK
<1>1. Inv => TypeOK
  BY DEF Inv
<1> QED
  BY <1>1, InvHolds, PTL

-----------------------------------------------------------------------------
(* A function on a finite set has a finite range. *)
LEMMA RangeFinite ==
  ASSUME NEW S, IsFiniteSet(S), NEW f, f = [x \in S |-> f[x]]
  PROVE  IsFiniteSet({ f[x] : x \in S })
<1>1. f \in Surjection(S, { f[x] : x \in S })
  BY DEF Surjection
<1> QED
  BY <1>1, FS_Surjection

LEMMA LiarClassesFinite == Inv => IsFiniteSet(LiarClasses)
<1> SUFFICES ASSUME Inv PROVE IsFiniteSet(LiarClasses)
  OBVIOUS
<1>1. IsFiniteSet(liars)
  <2>1. liars \subseteq Reporters /\ IsFiniteSet(Reporters)
    BY DiscoveryAssumption DEF Inv, TypeOK
  <2> QED
    BY <2>1, FS_Subset
<1> DEFINE f == [r \in liars |-> LabelOf(r)]
<1>2. IsFiniteSet({ f[r] : r \in liars })
  BY <1>1, RangeFinite
<1>3. { f[r] : r \in liars } = LiarClasses
  BY DEF LiarClasses
<1> QED
  BY <1>2, <1>3

OfFamily(family) == { q \in readings : FamilyOf(q.addr.ip) = family }

(* The addresses and classes of a family, by its readings.                 *)
LEMMA FamilyParts ==
  ASSUME NEW family
  PROVE  /\ Addrs(FamilyReadings(readings, family))
              = { FoldIp(q.addr.ip) : q \in OfFamily(family) }
         /\ Classes(FamilyReadings(readings, family))
              = { q.source : q \in OfFamily(family) }
<1> DEFINE R == OfFamily(family)
           pair(q) == << FoldIp(q.addr.ip), q.source >>
           F == { pair(q) : q \in R }
<1>1. FamilyReadings(readings, family) = F
  BY DEF FamilyReadings, OfFamily
<1>2. \A q : pair(q)[1] = FoldIp(q.addr.ip) /\ pair(q)[2] = q.source
  OBVIOUS
<1> HIDE DEF pair, R
<1>3. { r[1] : r \in F } = { FoldIp(q.addr.ip) : q \in R }
  BY <1>2
<1>4. { r[2] : r \in F } = { q.source : q \in R }
  BY <1>2
<1> QED
  BY <1>1, <1>3, <1>4 DEF Addrs, Classes, R

LEMMA AddrsFinite ==
  ASSUME Inv, NEW family
  PROVE  IsFiniteSet(Addrs(FamilyReadings(readings, family)))
<1>1. IsFiniteSet(OfFamily(family))
  BY FS_Subset DEF Inv, OfFamily
<1> DEFINE f == [q \in OfFamily(family) |-> FoldIp(q.addr.ip)]
<1>2. IsFiniteSet({ f[q] : q \in OfFamily(family) })
  BY <1>1, RangeFinite
<1>3. { f[q] : q \in OfFamily(family) } = Addrs(FamilyReadings(readings, family))
  BY FamilyParts
<1> QED
  BY <1>2, <1>3

(* What stands behind an established address: every reading of the family  *)
(* names it, and their classes are enough.                                 *)
LEMMA EstablishedMeans ==
  ASSUME Inv, NEW family, IsEstablished(family)
  PROVE  /\ \A q \in OfFamily(family) : FoldIp(q.addr.ip) = Verdict(family).ip
         /\ EnoughClasses({ q.source : q \in OfFamily(family) })
<1> DEFINE F == FamilyReadings(readings, family)
           A == Addrs(F)
           ip == CHOOSE a \in A : TRUE
<1>1. /\ F # {} /\ ~(Cardinality(A) > 1)
      /\ EnoughClasses(Classes(F))
      /\ Verdict(family) = Establishes(ip, Classes(F))
  BY DEF IsEstablished, Verdict, EstablishFor, VerdictForFamily, NoReadings,
         Disagreement, Insufficient, NotGlobal
<1>2. Verdict(family).ip = ip
  BY <1>1 DEF Establishes
<1>3. IsFiniteSet(A) /\ Cardinality(A) \in Nat /\ A # {}
  BY <1>1, AddrsFinite, FS_CardinalityType DEF Addrs
<1>4. PICK x : A = {x}
  BY <1>1, <1>3, FS_EmptySet, FS_Singleton
<1>5. A = {ip}
  <2> HIDE DEF A
  <2>1. ip \in A
    BY <1>4
  <2> QED
    BY <1>4, <2>1
<1>6. /\ A = { FoldIp(q.addr.ip) : q \in OfFamily(family) }
      /\ Classes(F) = { q.source : q \in OfFamily(family) }
  BY FamilyParts
<1> HIDE DEF A, F, ip
<1>7. \A q \in OfFamily(family) : FoldIp(q.addr.ip) = ip
  BY <1>5, <1>6
<1> QED
  BY <1>1, <1>2, <1>6, <1>7

(* Classes that are all liars' are too few. *)
LEMMA TooFewIsNotEnough ==
  ASSUME Inv, LiarsTooFew, NEW classes \in SUBSET LiarClasses
  PROVE  ~EnoughClasses(classes)
<1>1. /\ IsFiniteSet(LiarClasses) /\ IsFiniteSet(classes)
      /\ Cardinality(classes) <= Cardinality(LiarClasses)
      /\ Cardinality(classes) \in Nat /\ Cardinality(LiarClasses) \in Nat
  BY LiarClassesFinite, FS_Subset, FS_CardinalityType
<1>2. CASE Cardinality(LiarClasses) < 2
  BY <1>1, <1>2 DEF EnoughClasses, MIN_INDEPENDENT_CLASSES
<1>3. CASE /\ Cardinality(LiarClasses) < 3
           /\ \A c \in LiarClasses : c.form \in {"peer:v4", "peer:v6"}
  <2>1. PeerOnly(classes)
    BY <1>3 DEF PeerOnly, Parses, IsPeer, Parse, PeerForms
  <2> QED
    BY <1>1, <1>3, <2>1 DEF EnoughClasses, PEER_ONLY_MIN_CLASSES
<1> QED
  BY <1>2, <1>3 DEF LiarsTooFew

(* Fewer independent liars than the floors of SPEC.md 7.4 ask for never    *)
(* make establish() name an address the node did not have in the round,    *)
(* however often they answer, whatever they say and in whatever spelling,  *)
(* for any set of reporters and a round of any length.                     *)
THEOREM DiscoveryNoForgedAddress == Spec => []NoForgedAddress
<1>1. Inv => NoForgedAddress
  <2> SUFFICES ASSUME Inv, LiarsTooFew, NEW family \in Families, IsEstablished(family),
                      Verdict(family).ip \notin egressed
               PROVE  FALSE
    BY DEF NoForgedAddress
  <2> DEFINE classes == { q.source : q \in OfFamily(family) }
  <2>1. /\ \A q \in OfFamily(family) : FoldIp(q.addr.ip) = Verdict(family).ip
        /\ EnoughClasses(classes)
    BY EstablishedMeans
  <2>2. classes \in SUBSET LiarClasses
    BY <2>1 DEF Inv, ReadingsHonest, OfFamily
  <2> QED
    BY <2>1, <2>2, TooFewIsNotEnough
<1> QED
  BY <1>1, InvHolds, PTL

-----------------------------------------------------------------------------
(* verdict_for_family of a family that only grows. *)
LEMMA MoreClassesAreEnough ==
  ASSUME NEW C, NEW D, C \subseteq D, IsFiniteSet(D), EnoughClasses(C)
  PROVE  EnoughClasses(D) /\ Cardinality(D) >= Cardinality(C)
<1>1. /\ IsFiniteSet(C) /\ Cardinality(C) <= Cardinality(D)
      /\ Cardinality(C) \in Nat /\ Cardinality(D) \in Nat
  BY FS_Subset, FS_CardinalityType
<1>2. PeerOnly(D) => PeerOnly(C)
  BY DEF PeerOnly
<1> QED
  BY <1>1, <1>2 DEF EnoughClasses, MIN_INDEPENDENT_CLASSES, PEER_ONLY_MIN_CLASSES

LEMMA OneAddress ==
  ASSUME NEW F, F # {}, IsFiniteSet(Addrs(F)), ~(Cardinality(Addrs(F)) > 1)
  PROVE  \A a \in Addrs(F) : Addrs(F) = {a} /\ (CHOOSE x \in Addrs(F) : TRUE) = a
<1>1. Addrs(F) # {} /\ Cardinality(Addrs(F)) \in Nat
  BY FS_CardinalityType DEF Addrs
<1>2. \E x : Addrs(F) = {x}
  BY <1>1, FS_EmptySet, FS_Singleton
<1> QED
  BY <1>2

LEMMA VerdictGrows ==
  ASSUME NEW F, NEW G, F \subseteq G, IsFiniteSet(Addrs(G)), IsFiniteSet(Classes(G))
  PROVE  LET before == VerdictForFamily(F)
             after  == VerdictForFamily(G)
         IN /\ before.kind = "Disagreement" => after.kind = "Disagreement"
            /\ before.kind = "Established" =>
                 \/ after.kind = "Disagreement"
                 \/ /\ after.kind = "Established"
                    /\ after.ip = before.ip
                    /\ after.classes >= before.classes
<1> DEFINE before == VerdictForFamily(F)
           after  == VerdictForFamily(G)
<1>1. /\ Addrs(F) \subseteq Addrs(G) /\ Classes(F) \subseteq Classes(G)
      /\ IsFiniteSet(Addrs(F))
      /\ Cardinality(Addrs(F)) <= Cardinality(Addrs(G))
      /\ Cardinality(Addrs(F)) \in Nat /\ Cardinality(Addrs(G)) \in Nat
  <2>1. Addrs(F) \subseteq Addrs(G) /\ Classes(F) \subseteq Classes(G)
    BY DEF Addrs, Classes
  <2> QED
    BY <2>1, FS_Subset, FS_CardinalityType
<1>2. ASSUME F # {}, Cardinality(Addrs(G)) > 1
      PROVE  after.kind = "Disagreement"
  <2>1. G # {}
    BY <1>2
  <2> QED
    BY <1>2, <2>1 DEF VerdictForFamily, Disagreement
<1>3. ASSUME before.kind = "Disagreement"
      PROVE  after.kind = "Disagreement"
  <2>1. F # {} /\ Cardinality(Addrs(F)) > 1
    BY <1>3 DEF VerdictForFamily, NoReadings, Disagreement, Insufficient, NotGlobal,
                Establishes
  <2> QED
    BY <1>1, <1>2, <2>1
<1>4. ASSUME before.kind = "Established", ~(Cardinality(Addrs(G)) > 1)
      PROVE  /\ after.kind = "Established"
             /\ after.ip = before.ip
             /\ after.classes >= before.classes
  <2> DEFINE ip == CHOOSE a \in Addrs(F) : TRUE
  <2>1. /\ F # {} /\ ~(Cardinality(Addrs(F)) > 1)
        /\ EnoughClasses(Classes(F)) /\ ScopeOfIp(ip) = GlobalUnicast
        /\ before = Establishes(ip, Classes(F))
    BY <1>4 DEF VerdictForFamily, NoReadings, Disagreement, Insufficient, NotGlobal,
                Establishes
  <2>2. ip \in Addrs(F)
    BY <2>1 DEF Addrs
  <2> HIDE DEF ip
  <2>3. G # {} /\ ip \in Addrs(G) /\ (CHOOSE a \in Addrs(G) : TRUE) = ip
    BY <1>1, <1>4, <2>1, <2>2, OneAddress
  <2>4. EnoughClasses(Classes(G)) /\ Cardinality(Classes(G)) >= Cardinality(Classes(F))
    BY <1>1, <2>1, MoreClassesAreEnough
  <2>5. after = Establishes(ip, Classes(G))
    BY <1>4, <2>1, <2>3, <2>4 DEF VerdictForFamily
  <2> QED
    BY <2>1, <2>4, <2>5 DEF Establishes
<1>5. before.kind = "Established" => F # {}
  BY DEF VerdictForFamily, NoReadings
<1> QED
  BY <1>2, <1>3, <1>4, <1>5

LEMMA PartsFinite ==
  ASSUME NEW R, IsFiniteSet(R), NEW family
  PROVE  /\ IsFiniteSet(Addrs(FamilyReadings(R, family)))
         /\ IsFiniteSet(Classes(FamilyReadings(R, family)))
<1> DEFINE Q == { q \in R : FamilyOf(q.addr.ip) = family }
           pair(q) == << FoldIp(q.addr.ip), q.source >>
           F == { pair(q) : q \in Q }
           addr == [q \in Q |-> pair(q)[1]]
           class == [q \in Q |-> pair(q)[2]]
<1>1. FamilyReadings(R, family) = F
  BY DEF FamilyReadings
<1>2. IsFiniteSet(Q)
  BY FS_Subset
<1> HIDE DEF pair, Q
<1>3. IsFiniteSet({ addr[q] : q \in Q }) /\ IsFiniteSet({ class[q] : q \in Q })
  BY <1>2, RangeFinite
<1>4. Addrs(F) = { addr[q] : q \in Q } /\ Classes(F) = { class[q] : q \in Q }
  BY DEF Addrs, Classes
<1> QED
  BY <1>1, <1>3, <1>4

(* Within a round no dissent is ever outvoted, and an established address  *)
(* is never replaced by another: for any reporters and any number of       *)
(* readings.                                                               *)
THEOREM DiscoveryVerdictHardens == Spec => VerdictHardens
<1> DEFINE Hardens ==
      readings \subseteq readings' =>
        \A family \in Families :
          LET before == Verdict(family)
              after  == EstablishFor(readings', family)
          IN /\ before.kind = "Disagreement" => after.kind = "Disagreement"
             /\ before.kind = "Established" =>
                  \/ after.kind = "Disagreement"
                  \/ /\ after.kind = "Established"
                     /\ after.ip = before.ip
                     /\ after.classes >= before.classes
<1>1. Inv' => Hardens
  <2> SUFFICES ASSUME Inv', readings \subseteq readings', NEW family \in Families
               PROVE  LET before == Verdict(family)
                          after  == EstablishFor(readings', family)
                      IN /\ before.kind = "Disagreement" => after.kind = "Disagreement"
                         /\ before.kind = "Established" =>
                              \/ after.kind = "Disagreement"
                              \/ /\ after.kind = "Established"
                                 /\ after.ip = before.ip
                                 /\ after.classes >= before.classes
    OBVIOUS
  <2> DEFINE F == FamilyReadings(readings, family)
             G == FamilyReadings(readings', family)
  <2>1. F \subseteq G
    BY DEF FamilyReadings
  <2>2. IsFiniteSet(Addrs(G)) /\ IsFiniteSet(Classes(G))
    BY PartsFinite DEF Inv
  <2> HIDE DEF F, G
  <2>3. LET before == VerdictForFamily(F)
            after  == VerdictForFamily(G)
        IN /\ before.kind = "Disagreement" => after.kind = "Disagreement"
           /\ before.kind = "Established" =>
                \/ after.kind = "Disagreement"
                \/ /\ after.kind = "Established"
                   /\ after.ip = before.ip
                   /\ after.classes >= before.classes
    BY <2>1, <2>2, VerdictGrows
  <2> QED
    BY <2>3 DEF Verdict, EstablishFor, F, G
<1>2. Inv /\ [Next]_vars => [Hardens]_vars
  BY <1>1, NextInv
<1> QED
  BY <1>2, InvHolds, PTL DEF Spec, VerdictHardens

-----------------------------------------------------------------------------
(* A label of the peer tier is a peer's. *)
LEMMA PeerLabel ==
  ASSUME NEW r \in Reporters, LabelOf(r).form \in PeerForms
  PROVE  LabelOf(r) \in PeerLabels
<1>1. r.tier # "peer" => r.tier \in HostForms \union {"other"}
  BY DiscoveryAssumption
<1>2. r.tier # "peer" => LabelOf(r).form = r.tier
  BY DEF LabelOf, Display, Host
<1>3. r.tier = "peer"
  BY <1>1, <1>2 DEF HostForms, PeerForms
<1> QED
  BY <1>3 DEF PeerLabels

(* A round without liars, in which the node keeps one address of a family, *)
(* establishes the address as soon as the floors of SPEC.md 7.4 are met,   *)
(* and meets no disagreement before: for any reporters, of known and of    *)
(* unknown kinds, any ports and spellings, and any number of readings.     *)
THEOREM DiscoveryHonestRound == Spec => []HonestRoundEstablishes
<1>1. Inv => HonestRoundEstablishes
  <2> SUFFICES ASSUME Inv, liars = {}, NEW family \in Families, NEW e \in egressed,
                      { f \in egressed : FamilyOf(f) = family } = {e},
                      ScopeOfIp(e) = GlobalUnicast
               PROVE  LET answered == { q.source : q \in OfFamily(family) }
                          verdict  == Verdict(family)
                      IN /\ verdict.kind # "Disagreement"
                         /\ \/ answered \subseteq PeerLabels /\ Cardinality(answered) < 3
                            \/ Cardinality(answered) < 2
                            \/ verdict.kind = "Established" /\ verdict.ip = e
    BY DEF HonestRoundEstablishes, OfFamily
  <2> DEFINE F == FamilyReadings(readings, family)
             answered == { q.source : q \in OfFamily(family) }
  <2>1. Classes(F) = answered /\ Addrs(F) = { FoldIp(q.addr.ip) : q \in OfFamily(family) }
    BY FamilyParts
  <2>2. \A q \in OfFamily(family) : FoldIp(q.addr.ip) = e
    <3> SUFFICES ASSUME NEW q \in OfFamily(family) PROVE FoldIp(q.addr.ip) = e
      OBVIOUS
    <3>1. q \in readings /\ q.addr.ip \in IpAddr /\ FamilyOf(q.addr.ip) = family
      BY DEF OfFamily, Inv, TypeOK, SocketAddr
    <3>2. FoldIp(q.addr.ip) \in egressed
      BY <3>1 DEF Inv, ReadingsHonest, LiarClasses
    <3>3. FamilyOf(FoldIp(q.addr.ip)) = family
      BY <3>1, FoldIpIdempotent DEF FamilyOf
    <3> QED
      BY <3>2, <3>3
  <2>3. Addrs(F) \subseteq {e} /\ IsFiniteSet(Addrs(F)) /\ Cardinality(Addrs(F)) <= 1
    <3>1. IsFiniteSet({e}) /\ Cardinality({e}) = 1
      BY FS_Singleton
    <3>2. Addrs(F) \subseteq {e}
      BY <2>1, <2>2
    <3> QED
      BY <3>1, <3>2, FS_Subset
  <2>4. IsFiniteSet(answered) /\ Cardinality(answered) \in Nat
        /\ Cardinality(Addrs(F)) \in Nat
    BY <2>1, <2>3, PartsFinite, FS_CardinalityType DEF Inv
  <2>5. F = {} => Cardinality(answered) = 0
    <3>1. F = {} => answered = {}
      BY <2>1 DEF Classes
    <3> QED
      BY <3>1, FS_EmptySet
  <2>6. PeerOnly(answered) => answered \subseteq PeerLabels
    <3> SUFFICES ASSUME PeerOnly(answered), NEW q \in OfFamily(family)
                 PROVE  q.source \in PeerLabels
      OBVIOUS
    <3>1. PICK r \in Reporters : q.source = LabelOf(r)
      BY DEF Inv, TypeOK, OfFamily
    <3>2. q.source.form \in PeerForms
      BY DEF PeerOnly, IsPeer, Parse
    <3> QED
      BY <3>1, <3>2, PeerLabel
  <2>7. F # {} => (CHOOSE a \in Addrs(F) : TRUE) = e
    BY <2>3 DEF Addrs
  <2> HIDE DEF F, answered
  <2>8. CASE F = {}
    BY <2>5, <2>8 DEF Verdict, EstablishFor, VerdictForFamily, NoReadings, F, answered
  <2>9. CASE F # {} /\ ~EnoughClasses(answered)
    <3>1. VerdictForFamily(F) = Insufficient(answered)
      BY <2>1, <2>3, <2>4, <2>9 DEF VerdictForFamily, answered
    <3>2. \/ Cardinality(answered) < 2
          \/ answered \subseteq PeerLabels /\ Cardinality(answered) < 3
      BY <2>4, <2>6, <2>9 DEF EnoughClasses, MIN_INDEPENDENT_CLASSES, PEER_ONLY_MIN_CLASSES
    <3> QED
      BY <3>1, <3>2 DEF Verdict, EstablishFor, F, Insufficient, answered
  <2>10. CASE F # {} /\ EnoughClasses(answered)
    <3>1. VerdictForFamily(F) = Establishes(e, answered)
      <4>1. ~(Cardinality(Addrs(F)) > 1)
        BY <2>3, <2>4
      <4>2. Classes(F) = answered /\ ScopeOfIp(e) = GlobalUnicast
        BY <2>1 DEF answered
      <4> QED
        BY <2>7, <2>10, <4>1, <4>2 DEF VerdictForFamily
    <3> QED
      BY <3>1 DEF Verdict, EstablishFor, F, Establishes
  <2> QED
    BY <2>8, <2>9, <2>10
<1> QED
  BY <1>1, InvHolds, PTL
=============================================================================
