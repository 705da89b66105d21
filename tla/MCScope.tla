------------------------------ MODULE MCScope ------------------------------
(***************************************************************************)
(* The address table on every boundary of every range of SPEC.md 5.3: an   *)
(* address is met in one of its forms and folded.                          *)
(***************************************************************************)
EXTENDS Scope

CONSTANTS Firsts, Seconds, Thirds,   \* octets at and beside the range ends
          NativeHeads                \* the first segment of native addresses

Lasts == {0, 1, 255}
SampleV4 == { << a, b, c, d >> : a \in Firsts, b \in Seconds, c \in Thirds, d \in Lasts }
SampleV6 == { << h, i, j, k, 0, 0, 0, l >> :
                h \in NativeHeads, i \in {0, 1, 2, 3, 3511, 3512, 3513},
                j \in {0, 1}, k \in {0, 1}, l \in {0, 1, 2} }

VARIABLE addr

Init == addr \in SampleV4 \union { MappedV6(v) : v \in SampleV4 }
                          \union { CompatV6(v) : v \in SampleV4 } \union SampleV6
Fold == addr' = FoldIp(addr)
Spec == Init /\ [][Fold]_addr

(* Wherever it is met, an IPv4 address has the scope the table of SPEC.md  *)
(* 5.3 gives it: the disjunction of predicates in scope_of_v4 leaves no    *)
(* gap beside any range and takes no neighbour in.                         *)
MatchesTable == addr \in V4 => ScopeOfIp(addr) = TableScopeV4(addr)

(* No spelling of an IPv4 address changes its scope: what fold_ip is for.  *)
EmbeddingIsTransparent ==
  addr \in V4 => /\ ScopeOfIp(MappedV6(addr)) = ScopeOfIp(addr)
                 /\ ScopeOfIp(CompatV6(addr)) = ScopeOfIp(addr)

(* The native IPv6 table as intervals of its leading segments.             *)
NativeMatchesTable ==
  addr \in V6 /\ FoldIp(addr) \in V6 =>
    ScopeOfIp(addr) =
      IF \/ 65152 <= addr[1] /\ addr[1] <= 65215 \* fe80::/10
         \/ addr[1] >= 65280                     \* ff00::/8
         \/ addr[1] = 8193 /\ addr[2] = 3512     \* 2001:db8::/32
         \/ addr[1] = 8193 /\ addr[2] = 2 /\ addr[3] = 0
         \/ addr[1] = 256 /\ addr[2] = 0 /\ addr[3] = 0 /\ addr[4] = 0
      THEN NeverDialable
      ELSE IF 64512 <= addr[1] /\ addr[1] <= 65023 THEN PrivateScope  \* fc00::/7
      ELSE GlobalUnicast
=============================================================================
