--------------------------- MODULE ReflexiveQuery ---------------------------
(***************************************************************************)
(* What a reflexive-address query promises its caller (SPEC.md 4 and 14.9, *)
(* the doc comments of src/src/client.rs and signed_client.rs), with no    *)
(* stages, transaction ids, challenges or network: the client sends from   *)
(* some source addresses, and the query ends once, either with one of      *)
(* those sources, which some stranger could dial, or with nothing.         *)
(***************************************************************************)

CONSTANTS Sources,   \* the addresses servers may see the client at
          Dialable   \* those of them some stranger could dial

VARIABLES asked,   \* source addresses a server saw the client's datagrams from
          result   \* what the query returned: pending, ok or failed

qvars == << asked, result >>

Pending  == [kind |-> "pending"]
Failed   == [kind |-> "failed"]
Found(a) == [kind |-> "ok", addr |-> a]

Init == asked = {} /\ result = Pending

(* A datagram leaves while the query runs. *)
Send == /\ result = Pending
        /\ \E source \in Sources : asked' = asked \union {source}
        /\ result' = result

Answer == /\ result = Pending
          /\ \E source \in asked \intersect Dialable : result' = Found(source)
          /\ asked' = asked

Fail == result = Pending /\ result' = Failed /\ asked' = asked

Next == Send \/ Answer \/ Fail

Spec == Init /\ [][Next]_qvars
=============================================================================
