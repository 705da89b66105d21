----------------------------- MODULE BareClient -----------------------------
(***************************************************************************)
(* src/src/client.rs: query_reflexive_address, several queries at a time   *)
(* over the one listen socket of the node.                                 *)
(*                                                                         *)
(* The socket is a queue of datagrams; whichever query awaits recv_from    *)
(* takes the head, and nobody else gets it.  A datagram of the network may *)
(* be delivered any number of times, in any order or never.  Datagrams are *)
(* those of Codec, read with its parser.  Servers, NAT and time are        *)
(* external: what this client meets.                                       *)
(***************************************************************************)
EXTENDS Codec, FiniteSets

CONSTANTS
  Queries,
  Watched,      \* any one of them
  TxidOf,       \* query -> its transaction id: 96 random bits, so no two alike
  Layouts,      \* the servers, by how they lay out a reply
  Mappings,     \* source addresses the NAT may give the socket
  MaxRebinds,   \* bound on how often it does
  Timeout,      \* the caller's timeout, in ticks
  Stray,        \* datagrams [src, msg] that answer none of the queries
  MaxInbox,     \* bound on the datagrams queued
  MaxTime       \* bound on the clock

ASSUME BareAssumption ==
  /\ Watched \in Queries /\ Layouts \subseteq {"dig", "legacy", "long"}
  /\ TxidOf \in [Queries -> TransactionId]
  /\ \A p, q \in Queries : TxidOf[p] = TxidOf[q] => p = q
  /\ Mappings \subseteq SocketAddr
  /\ Timeout \in Nat \ {0} /\ MaxTime \in Nat
  /\ MaxRebinds \in Nat /\ MaxInbox \in Nat
  /\ \A d \in Stray : /\ DOMAIN d.msg = {"type", "len", "cookie", "txid", "attrs", "size"}
                       /\ \A q \in Queries : d.src \in Layouts => d.msg.txid # TxidOf[q]

VARIABLES
  server,    \* query -> the server it asks
  phase,     \* query -> Idle, Sending, Receiving or Done
  sent,      \* query -> when its send completed
  deadline,
  outcome,   \* query -> what it returned
  requests,  \* datagrams that have left: query, server and source
  network,   \* datagrams on their way to the socket
  inbox,     \* the socket's receive queue
  mapping, rebinds, now

client == << phase, sent, deadline, outcome >>
vars == << server, client, requests, network, inbox, mapping, rebinds, now >>

BUF_LEN == 512

Init == /\ server \in [Queries -> Layouts]
        /\ phase    = [q \in Queries |-> "Idle"]
        /\ sent     = [q \in Queries |-> 0]
        /\ deadline = [q \in Queries |-> 0]
        /\ outcome  = [q \in Queries |-> [kind |-> "Pending"]]
        /\ requests = {} /\ network = Stray /\ inbox = << >>
        /\ mapping \in Mappings /\ rebinds = 0 /\ now = 0

-----------------------------------------------------------------------------
(* The client.                                                             *)

Ok(addr)    == [kind |-> "Ok", addr |-> addr]
Stun(error) == [kind |-> "Stun", error |-> error]

Finish(q, how) == /\ phase'   = [phase EXCEPT ![q] = "Done"]
                  /\ outcome' = [outcome EXCEPT ![q] = how]
                  /\ UNCHANGED << sent, deadline >>

(* send_to is awaited outside the timeout. *)
Start(q) == /\ phase[q] = "Idle"
            /\ phase' = [phase EXCEPT ![q] = "Sending"]
            /\ UNCHANGED << server, sent, deadline, outcome, requests, network, inbox,
                            mapping, rebinds, now >>

SendDone(q) ==
  /\ phase[q] = "Sending"
  /\ phase'    = [phase EXCEPT ![q] = "Receiving"]
  /\ sent'     = [sent EXCEPT ![q] = now]
  /\ deadline' = [deadline EXCEPT ![q] = now + Timeout]
  /\ requests' = requests \union { [query |-> q, from |-> mapping,
                                    msg |-> EncodeBindingRequest(TxidOf[q])] }
  /\ UNCHANGED << server, outcome, network, inbox, mapping, rebinds, now >>

IoError(q) == /\ phase[q] \in {"Sending", "Receiving"}
              /\ Finish(q, Stun("Io"))
              /\ UNCHANGED << server, requests, network, inbox, mapping, rebinds, now >>

(* recv_from is polled before its timer: what is there by the deadline is  *)
(* still taken.                                                            *)
Receiving(q) == phase[q] = "Receiving" /\ now <= deadline[q] /\ inbox # << >>

(* A mutant of Discard: what is discarded starts the timeout afresh. *)
DiscardResetting(q) ==
  /\ Receiving(q) /\ now < deadline[q] /\ Head(inbox).src # server[q]
  /\ inbox' = Tail(inbox)
  /\ deadline' = [deadline EXCEPT ![q] = now + Timeout]
  /\ UNCHANGED << server, phase, sent, outcome, requests, network, mapping, rebinds, now >>

(* Not from the server asked, and gone, whoever else waited for it. *)
Discard(q) ==
  /\ Receiving(q) /\ now < deadline[q] /\ Head(inbox).src # server[q]
  /\ inbox' = Tail(inbox)
  /\ UNCHANGED << server, client, requests, network, mapping, rebinds, now >>

(* recv_from keeps what fits the buffer. *)
Cut(msg) == [msg EXCEPT !.size = IF @ > BUF_LEN THEN BUF_LEN ELSE @]

Judged(read) == IF ~read.ok THEN Stun(read.error)
                ELSE IF ScopeOf(read.value) = NeverDialable THEN Stun("NoMappedAddress")
                ELSE Ok(read.value)

(* Mutants of Accept: any host's datagram is read; any address is taken.   *)
AcceptAnySource(q) ==
  /\ Receiving(q)
  /\ Finish(q, Judged(ParseBindingResponse(Cut(Head(inbox).msg), TxidOf[q])))
  /\ inbox' = Tail(inbox)
  /\ UNCHANGED << server, requests, network, mapping, rebinds, now >>

AcceptUnjudged(q) ==
  /\ Receiving(q) /\ Head(inbox).src = server[q]
  /\ LET read == ParseBindingResponse(Cut(Head(inbox).msg), TxidOf[q])
     IN Finish(q, IF read.ok THEN Ok(read.value) ELSE Stun(read.error))
  /\ inbox' = Tail(inbox)
  /\ UNCHANGED << server, requests, network, mapping, rebinds, now >>

(* The first datagram of the server asked ends the query, whatever it is.  *)
Accept(q) ==
  /\ Receiving(q) /\ Head(inbox).src = server[q]
  /\ Finish(q, Judged(ParseBindingResponse(Cut(Head(inbox).msg), TxidOf[q])))
  /\ inbox' = Tail(inbox)
  /\ UNCHANGED << server, requests, network, mapping, rebinds, now >>

(* A mutant of TimeOut: the clock is looked at when nothing is queued. *)
TimeOutWhenQuiet(q) ==
  /\ phase[q] = "Receiving" /\ now >= deadline[q] /\ inbox = << >>
  /\ Finish(q, Stun("Timeout"))
  /\ UNCHANGED << server, requests, network, inbox, mapping, rebinds, now >>

(* The timer fires, or is found to have run out after a discard. *)
TimeOut(q) ==
  /\ phase[q] = "Receiving" /\ now >= deadline[q]
  /\ Finish(q, Stun("Timeout"))
  /\ \/ inbox' = inbox
     \/ inbox # << >> /\ Head(inbox).src # server[q] /\ inbox' = Tail(inbox)
  /\ UNCHANGED << server, requests, network, mapping, rebinds, now >>

-----------------------------------------------------------------------------
(* The servers: this crate's encoder behind a dual-stack socket; one that  *)
(* says MAPPED-ADDRESS, as its socket saw it; one whose software has a     *)
(* long name.                                                              *)

Seen(addr) == IF addr.ip \in V4 THEN [addr EXCEPT !.ip = MappedV6(@)] ELSE addr

PlainMapped(addr) ==
  [i \in 1..20 |-> CASE i = 1 -> 0 [] i = 2 -> FAMILY_IPV6
                     [] OTHER -> PlainOctet(addr, i)]

Answer(layout, request) ==
  LET txid == request.msg.txid
      seen == Seen(request.from)
      xored == XorMapped(FoldAddr(seen), txid)
  IN CASE layout = "dig"    -> EncodeBindingSuccess(txid, seen)
       [] layout = "legacy" -> Message(BINDING_SUCCESS, txid,
                                 WriteAttr(<< >>, ATTR_MAPPED_ADDRESS, 20, PlainMapped(seen)))
       [] layout = "long"   -> Message(BINDING_SUCCESS, txid,
                                 WriteAttr(WriteAttr(<< >>, ATTR_XOR_MAPPED_ADDRESS,
                                                     Len(xored), xored),
                                           32802, 600, "software"))

(* What comes after the last query has returned is left out. *)
Running == \E q \in Queries : phase[q] # "Done"

Serve == /\ Running
         /\ \E request \in requests :
              LET asked == server[request.query]
              IN network' = network \union { [src |-> asked, msg |-> Answer(asked, request)] }
         /\ UNCHANGED << server, client, requests, inbox, mapping, rebinds, now >>

Deliver == /\ Running /\ Len(inbox) < MaxInbox
           /\ \E d \in network : inbox' = Append(inbox, d)
           /\ UNCHANGED << server, client, requests, network, mapping, rebinds, now >>

Rebind == /\ Running /\ rebinds < MaxRebinds /\ rebinds' = rebinds + 1
          /\ mapping' \in Mappings \ {mapping}
          /\ UNCHANGED << server, client, requests, network, inbox, now >>

(* The timer of a query that receives fires at its deadline; one that      *)
(* sends has none.  While one receives the clock runs beyond its bound.    *)
Tick == /\ Running
        /\ now < MaxTime \/ \E q \in Queries : phase[q] = "Receiving"
        /\ \A q \in Queries : phase[q] = "Receiving" => now < deadline[q]
        /\ now' = now + 1
        /\ UNCHANGED << server, client, requests, network, inbox, mapping, rebinds >>

Step(q) == Start(q) \/ SendDone(q) \/ IoError(q) \/ Discard(q) \/ Accept(q) \/ TimeOut(q)

Next == (\E q \in Queries : Step(q)) \/ Serve \/ Deliver \/ Rebind \/ Tick

Spec == Init /\ [][Next]_vars

(* Time passes and timers fire; nothing is assumed of servers, network or  *)
(* of a send, which may block.                                             *)
FairSpec == Spec /\ WF_vars(Tick) /\ \A q \in Queries : WF_vars(TimeOut(q))

-----------------------------------------------------------------------------
(* What a query returns is about its own datagram: the address, folded, is *)
(* the source that datagram had, whatever the other queries on the socket  *)
(* asked and were answered, and whatever was left over or cut on the way.  *)
AnswerIsOwn ==
  \A q \in Queries : outcome[q].kind = "Ok" =>
    \E r \in requests : r.query = q /\ FoldAddr(r.from) = FoldAddr(outcome[q].addr)

(* A query fails for a foreign transaction id only where another one asks  *)
(* the same server over the same socket, or a datagram of that server was  *)
(* left over: queries to different servers take each other's replies from  *)
(* the queue, and may time out for it, but do not end on them.             *)
MismatchNeedsSharing ==
  \A q \in Queries : outcome[q] = Stun("TransactionIdMismatch") =>
    \/ \E r \in requests : r.query # q /\ server[r.query] = server[q]
    \/ \E d \in Stray : d.src = server[q]

(* However many datagrams are discarded, a query waits no longer than the  *)
(* timeout it was given, counted from when its send completed: not from    *)
(* when it was called.                                                     *)
OneWait ==
  \A q \in Queries : phase[q] = "Receiving" => now - sent[q] <= Timeout

(* A query whose datagram has left returns, whatever arrives. *)
Returns == \A q \in Queries : (phase[q] = "Receiving") ~> (phase[q] = "Done")

SeenSources == { FoldAddr(m) : m \in Mappings }
Asked(q) == { FoldAddr(r.from) : r \in { s \in requests : s.query = q } }
Result(q) == CASE outcome[q].kind = "Pending" -> [kind |-> "pending"]
               [] outcome[q].kind = "Ok" -> [kind |-> "ok", addr |-> FoldAddr(outcome[q].addr)]
               [] OTHER -> [kind |-> "failed"]

Query == INSTANCE ReflexiveQuery WITH
  Sources  <- SeenSources,
  Dialable <- { a \in SeenSources : IsUsableReflexiveAddr(a) },
  asked    <- Asked(Watched),
  result   <- Result(Watched)

(* A query keeps the promise of ReflexiveQuery although it shares its      *)
(* socket with others: it ends once, with a dialable source its own        *)
(* datagram had, or with nothing.                                          *)
KeepsQuery == Query!Spec
=============================================================================
