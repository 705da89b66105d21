--------------------------- MODULE PeerObservation ---------------------------
(***************************************************************************)
(* The peer-observation responder: observe() and ObserveLimiter of         *)
(* src/src/observe.rs as a node puts them together.  The node is outside   *)
(* this crate, which leaves the order to it: it may look at the connection *)
(* first and spend nothing on one it will not answer, or charge every      *)
(* call.                                                                   *)
(*                                                                         *)
(* A link is a session of an authenticated peer: which way it was dialled, *)
(* over what path, its far end, and the address the peer's traffic really  *)
(* has.  Only on an inbound direct link are the last two one.              *)
(***************************************************************************)
EXTENDS ObserveLimiter, Observation

CONSTANT Links   \* [session, meta, actual]

ASSUME LinksAssumption ==
  \A link \in Links :
    /\ link.session \in Sessions /\ link.actual \in SocketAddr
    /\ link.meta \in SessionMeta /\ link.meta.remote.ip \in Sources
    /\ link.meta.direction = "Inbound" /\ link.meta.path = "Direct" =>
         FoldAddr(link.meta.remote) = FoldAddr(link.actual)

VARIABLES
  told,     \* what the last call was told, with its link, if anything
  asked,    \* session -> the latest reading it called the limiter with
  seen      \* session -> the reading of its last call that was answered or
            \* refused for its own budget

responder == << told, asked, seen >>
allVars == << vars, responder >>

Never == -1

RInit == /\ Init
         /\ told  = {}
         /\ asked = [s \in Sessions |-> Never]
         /\ seen  = [s \in Sessions |-> Never]

Reply(link, answer) ==
  told' = IF answer.kind = "Told" THEN { [link |-> link, addr |-> answer.addr] } ELSE {}

Limited(link, t) ==
  LET s == link.session
      h == FoldIp(link.meta.remote.ip)
  IN /\ Allow(s, h, t)
     /\ asked' = [asked EXCEPT ![s] = IF t > @ THEN t ELSE @]
     /\ seen'  = [seen EXCEPT ![s] =
                    IF answered' \/ ~Peek(perSession'[s], t, SessionWindow) THEN t ELSE @]
     /\ Reply(link, IF answered' THEN Observe(link.meta) ELSE Declined("RateLimited"))

DeclineUnlimited(link) ==
  /\ Observe(link.meta).kind = "Declined"
  /\ Reply(link, Observe(link.meta))
  /\ UNCHANGED << vars, asked, seen >>

RNext == \/ Tick /\ UNCHANGED responder
         \/ \E link \in Links :
              \/ DeclineUnlimited(link)
              \/ \E t \in CallTimes : Limited(link, t)

RSpec == RInit /\ [][RNext]_allVars

-----------------------------------------------------------------------------
(* Whatever a peer is told is the address its traffic really has, in its   *)
(* IPv4 form if it has one and not one that nobody can dial: never the     *)
(* endpoint of a relay, nor an address this node chose.  And the told host *)
(* is the one the source budget was charged for, so that no spelling of an *)
(* address has a budget of its own.                                        *)
ToldIsOwnAddress ==
  \A r \in told :
    /\ r.addr = FoldAddr(r.link.actual)
    /\ IsUsableReflexiveAddr(r.addr)
    /\ r.addr.ip \in DOMAIN perSource
    /\ r.link.session \in DOMAIN perSession

(* "an actively-asking (even if throttled) session isn't the one evicted   *)
(* first" (observe.rs:250-251): a session that used up its budget is       *)
(* forgotten, and has a budget again, only when MAX_TRACKED_SOURCES others *)
(* have called since its last call, up to the lag of readings, although a  *)
(* call refused for another reason does not count as being seen.           *)
CrowdedOutOnly ==
  \A s \in Sessions :
    seen[s] # Never /\ s \notin DOMAIN perSession =>
      Cardinality({ r \in Sessions \ {s} :
                      asked[r] # Never /\ asked[r] >= seen[s] - Lag }) >= MaxTracked
=============================================================================
