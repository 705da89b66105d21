---------------------------- MODULE AnswerBudget ----------------------------
(***************************************************************************)
(* What the peer-observation responder promises about how often it answers *)
(* (SPEC.md 6.4, the doc comments of src/src/observe.rs), with no buckets, *)
(* no maps and no eviction order: in each clock window a session, a source *)
(* host and the node as a whole are answered at most so often, a request   *)
(* is answered exactly when all three have room, a refusal costs nobody    *)
(* anything, and what was used is forgotten early only when there are more *)
(* callers than the node is willing to remember.                           *)
(***************************************************************************)
EXTENDS Integers, FiniteSets

CONSTANTS Sessions, Hosts,
          Capacity,         \* answers per session, and per host, per window
          GlobalCapacity,   \* answers in all per global window
          MaxTracked,       \* callers of one kind remembered at once
          SessionWindow, GlobalWindow

VARIABLES now, usedBy, usedFrom, usedInAll, answered

vars == << now, usedBy, usedFrom, usedInAll, answered >>

Init == /\ now \in Nat
        /\ usedBy    = [s \in Sessions |-> 0]
        /\ usedFrom  = [h \in Hosts |-> 0]
        /\ usedInAll = 0
        /\ answered  = FALSE

(* One answer charged to key; at most one other caller is forgotten, and   *)
(* none where all of them can be remembered.                               *)
Charged(used, keys, key, amount, usedNext) ==
  \E lost \in SUBSET (keys \ {key}) :
     /\ \A j, k \in lost : j = k
     /\ lost # {} => Cardinality(keys) > MaxTracked
     /\ usedNext = [k \in keys |-> IF k \in lost THEN 0
                                   ELSE IF k = key THEN used[k] + amount
                                   ELSE used[k]]

HaveRoom(s, h) == /\ usedBy[s] < Capacity
                  /\ usedFrom[h] < Capacity
                  /\ usedInAll < GlobalCapacity

Ask(s, h) ==
  LET amount == IF HaveRoom(s, h) THEN 1 ELSE 0
  IN /\ answered' = HaveRoom(s, h)
     /\ Charged(usedBy, Sessions, s, amount, usedBy')
     /\ Charged(usedFrom, Hosts, h, amount, usedFrom')
     /\ usedInAll' = usedInAll + amount
     /\ now' = now

SameWindow(width) == now' \div width = now \div width

Tick == /\ now' = now + 1
        /\ usedBy'    = IF SameWindow(SessionWindow) THEN usedBy
                        ELSE [s \in Sessions |-> 0]
        /\ usedFrom'  = IF SameWindow(SessionWindow) THEN usedFrom
                        ELSE [h \in Hosts |-> 0]
        /\ usedInAll' = IF SameWindow(GlobalWindow) THEN usedInAll ELSE 0
        /\ answered'  = answered

Next == Tick \/ \E s \in Sessions, h \in Hosts : Ask(s, h)

Spec == Init /\ [][Next]_vars
=============================================================================
