-------------------------- MODULE BareClientProofs --------------------------
(***************************************************************************)
(* The bare client for any queries, mappings, timeout and stray datagrams. *)
(* Every datagram on its way to the socket is a stray or an answer to a    *)
(* datagram of some query, from which the rest follows: an answer carries  *)
(* the transaction id of the query it is for, and the address, folded, is  *)
(* the source that query's datagram had.                                   *)
(***************************************************************************)
EXTENDS BareClient, CodecLemmas

-----------------------------------------------------------------------------
(* What a query can read.                                                  *)

LEMMA SeenFolds ==
  ASSUME NEW addr \in SocketAddr
  PROVE  /\ Seen(addr) \in SocketAddr /\ Seen(addr).ip \in V6
         /\ FoldAddr(Seen(addr)) = FoldAddr(addr)
<1>1. addr.ip \in IpAddr /\ addr.port \in Port /\ addr = [ip |-> addr.ip, port |-> addr.port]
  BY DEF SocketAddr
<1>2. ASSUME NEW b, NEW i, NEW p, b = [ip |-> i, port |-> p]
      PROVE  FoldAddr(b) = [ip |-> FoldIp(i), port |-> p]
  BY <1>2 DEF FoldAddr
<1>3. CASE addr.ip \in V4
  <2>1. Seen(addr) = [ip |-> MappedV6(addr.ip), port |-> addr.port]
    BY <1>1, <1>3 DEF Seen
  <2>2. MappedV6(addr.ip) \in V6 /\ FoldIp(MappedV6(addr.ip)) = FoldIp(addr.ip)
    BY <1>3, FoldEmbeddings, FoldV4
  <2>3. Seen(addr) \in SocketAddr /\ Seen(addr).ip \in V6
    BY <1>1, <2>1, <2>2 DEF SocketAddr, IpAddr
  <2> QED
    BY <1>1, <1>2, <2>1, <2>2, <2>3
<1>4. CASE addr.ip \notin V4
  BY <1>1, <1>4 DEF Seen, IpAddr
<1> QED
  BY <1>3, <1>4

LEMMA WholeWords == Padding(8) = 0 /\ Padding(20) = 0 /\ Padding(600) = 0
BY DEF Padding

(* An address fits the buffer. *)
LEMMA Uncut ==
  ASSUME NEW txid, NEW type, NEW len \in {8, 20}, NEW value, NEW m,
         m = Message(BINDING_SUCCESS, txid, WriteAttr(<< >>, type, len, value))
  PROVE  Cut(m) = m
<1> DEFINE attrs == << [type |-> type, at |-> 0, len |-> len, value |-> value] >>
<1>1. WriteAttr(<< >>, type, len, value) = attrs
  BY DEF WriteAttr, AreaLen
<1>2. AreaLen(attrs) = 4 + len
  <2>1. Padding(len) = 0
    BY WholeWords
  <2>2. Len(attrs) = 1 /\ attrs # << >>
        /\ attrs[1] = [type |-> type, at |-> 0, len |-> len, value |-> value]
    OBVIOUS
  <2> HIDE DEF attrs
  <2> QED
    BY <2>1, <2>2 DEF AreaLen
<1> HIDE DEF attrs
<1>3. m.size = 24 + len
  BY <1>1, <1>2 DEF Message
<1> QED
  BY <1>3 DEF Cut, Message, BUF_LEN

(* MAPPED-ADDRESS comes through like the other attribute. *)
LEMMA PlainRoundTrip ==
  ASSUME NEW addr \in SocketAddr, addr.ip \in V6, NEW txid
  PROVE  PlainRead(PlainMapped(addr), txid) = Okay(addr)
<1> DEFINE value == PlainMapped(addr)
           cell(i) == CASE i = 1 -> 0 [] i = 2 -> FAMILY_IPV6 [] OTHER -> PlainOctet(addr, i)
<1>1. addr.ip \notin V4 /\ Width(addr) = 20
  BY FamiliesDisjoint DEF Width
<1>2. value = [i \in 1..20 |-> cell(i)]
  BY DEF PlainMapped
<1>3. Len(value) = 20
  <2>1. value \in [1..20 -> { cell(i) : i \in 1..20 }]
    BY <1>2
  <2> QED
    BY <2>1, LengthOf
<1>4. \A i \in 1..20 : value[i] = cell(i)
  BY <1>2
<1> HIDE DEF value
<1>5. value[2] = FAMILY_IPV6
  BY <1>4
<1>6. \A i \in 3..20 : value[i] = PlainOctet(addr, i)
  BY <1>4
<1>7. PlainRead(value, txid) = Okay(addr)
  BY <1>1, <1>3, <1>5, <1>6, DecodePlain DEF PlainRead
<1> QED
  BY <1>7 DEF value

(* What a query reads in the answer to its own datagram: the source of     *)
(* that datagram in some spelling, or that it was cut.                     *)
LEMMA OwnRead ==
  ASSUME NEW q \in Queries, NEW r, r.from \in SocketAddr,
         r.msg = EncodeBindingRequest(TxidOf[q]), NEW layout \in Layouts,
         NEW read, read = ParseBindingResponse(Cut(Answer(layout, r)), TxidOf[q])
  PROVE  \/ \E a \in SocketAddr : read = Okay(a) /\ FoldAddr(a) = FoldAddr(r.from)
         \/ read = Err("Truncated")
<1> DEFINE txid == TxidOf[q]
           seen == Seen(r.from)
<1>1. txid \in TransactionId /\ txid # AnyTransaction
  BY BareAssumption, TransactionNotAny
<1>2. r.msg.txid = txid
  BY DEF EncodeBindingRequest, Message
<1>3. /\ seen \in SocketAddr /\ seen.ip \in V6 /\ FoldAddr(seen) = FoldAddr(r.from)
      /\ FoldAddr(FoldAddr(seen)) = FoldAddr(r.from) /\ FoldAddr(seen) \in SocketAddr
  BY SeenFolds, FoldAddrType
<1> HIDE DEF txid, seen
<1>4. CASE layout = "dig"
  <2> DEFINE value == XorMapped(FoldAddr(seen), txid)
             m == EncodeBindingSuccess(txid, seen)
  <2>1. Answer(layout, r) = m
    BY <1>2, <1>4 DEF Answer, seen
  <2>2. Len(value) \in {8, 20}
    BY <1>1, <1>3, XorRoundTrip DEF Width
  <2>3. m = Message(BINDING_SUCCESS, txid, WriteAttr(<< >>, ATTR_XOR_MAPPED_ADDRESS, Len(value), value))
    BY DEF EncodeBindingSuccess
  <2>4. ParseBindingResponse(m, txid) = Okay(FoldAddr(seen))
    BY <1>1, <1>3, AddressRoundTrip
  <2> HIDE DEF value, m
  <2>5. Cut(m) = m
    BY <2>2, <2>3, Uncut
  <2> QED
    BY <1>3, <2>1, <2>4, <2>5 DEF txid
<1>5. CASE layout = "legacy"
  <2> DEFINE value == PlainMapped(seen)
             m == Message(BINDING_SUCCESS, txid, WriteAttr(<< >>, ATTR_MAPPED_ADDRESS, 20, value))
  <2>1. Answer(layout, r) = m
    BY <1>2, <1>5 DEF Answer, seen
  <2>2. PlainRead(value, txid) = Okay(seen)
    BY <1>3, PlainRoundTrip
  <2> HIDE DEF value
  <2>3. ParseBindingResponse(m, txid) = Okay(seen)
    BY <1>1, <2>2, OneAttribute
  <2>4. Cut(m) = m
    BY Uncut
  <2> HIDE DEF m
  <2> QED
    BY <1>3, <2>1, <2>3, <2>4 DEF txid
<1>6. CASE layout = "long"
  <2> DEFINE value == XorMapped(FoldAddr(seen), txid)
             first == WriteAttr(<< >>, ATTR_XOR_MAPPED_ADDRESS, Len(value), value)
             attrs == WriteAttr(first, 32802, 600, "software")
             m == Message(BINDING_SUCCESS, txid, attrs)
  <2>1. Answer(layout, r) = m
    BY <1>2, <1>6 DEF Answer, seen
  <2>2. Len(value) \in {8, 20}
    BY <1>1, <1>3, XorRoundTrip DEF Width
  <2> HIDE DEF value
  <2>3. AreaLen(first) = 4 + Len(value)
    <3>1. first = << [type |-> ATTR_XOR_MAPPED_ADDRESS, at |-> 0, len |-> Len(value), value |-> value] >>
      BY DEF WriteAttr, AreaLen
    <3>2. Padding(Len(value)) = 0
      BY <2>2, WholeWords
    <3> HIDE DEF first
    <3> QED
      BY <2>2, <3>1, <3>2 DEF AreaLen
  <2>4. AreaLen(attrs) = 608 + Len(value)
    <3>1. attrs = Append(first, [type |-> 32802, at |-> AreaLen(first), len |-> 600, value |-> "software"])
      BY DEF WriteAttr
    <3>2. first = << [type |-> ATTR_XOR_MAPPED_ADDRESS, at |-> 0, len |-> Len(value), value |-> value] >>
      BY DEF WriteAttr, AreaLen
    <3> HIDE DEF attrs
    <3>3. Len(attrs) = 2 /\ attrs # << >>
          /\ attrs[2] = [type |-> 32802, at |-> AreaLen(first), len |-> 600, value |-> "software"]
      BY <3>1, <3>2
    <3>4. Padding(600) = 0
      BY WholeWords
    <3> HIDE DEF first
    <3> QED
      BY <2>2, <2>3, <3>3, <3>4 DEF AreaLen
  <2> HIDE DEF first, attrs
  <2>5. /\ Cut(m).size = 512 /\ Cut(m).len = 608 + Len(value)
        /\ Cut(m).type = BINDING_SUCCESS /\ Cut(m).cookie = MAGIC_COOKIE /\ Cut(m).txid = txid
    BY <2>2, <2>4 DEF Cut, Message, BUF_LEN
  <2>6. ParseBindingResponse(Cut(m), txid) = Err("Truncated")
    BY <2>2, <2>5 DEF ParseBindingResponse, HeaderFault, Incomplete
  <2> QED
    BY <2>1, <2>6 DEF txid
<1> QED
  BY <1>4, <1>5, <1>6, BareAssumption

(* A datagram with another transaction id gives no query an address.       *)
LEMMA ForeignRead ==
  ASSUME NEW txid \in TransactionId, NEW m, m.txid # txid,
         DOMAIN m = {"type", "len", "cookie", "txid", "attrs", "size"}
  PROVE  \E e : ParseBindingResponse(Cut(m), txid) = Err(e)
<1>1. Cut(m).txid = m.txid
  BY DEF Cut
<1>2. txid # AnyTransaction
  BY TransactionNotAny
<1> QED
  BY <1>1, <1>2 DEF ParseBindingResponse

-----------------------------------------------------------------------------
(* The invariant.                                                          *)

Shape == /\ server \in [Queries -> Layouts]
         /\ phase \in [Queries -> {"Idle", "Sending", "Receiving", "Done"}]
         /\ sent \in [Queries -> Nat] /\ deadline \in [Queries -> Nat]
         /\ DOMAIN outcome = Queries /\ outcome = [q \in Queries |-> outcome[q]]
         /\ mapping \in Mappings /\ now \in Nat
         /\ inbox \in Seq(network)

RequestsMine ==
  \A r \in requests : /\ r.query \in Queries /\ r.from \in Mappings
                      /\ r.msg = EncodeBindingRequest(TxidOf[r.query])

AnswerTo(r) == [src |-> server[r.query], msg |-> Answer(server[r.query], r)]

(* Every datagram is a stray or answers one that a query sent. *)
Accounted == \A d \in network : d \in Stray \/ \E r \in requests : d = AnswerTo(r)

InTime == \A q \in Queries : phase[q] = "Receiving" =>
            deadline[q] = sent[q] + Timeout /\ now <= deadline[q]

PendingUntilDone ==
  \A q \in Queries : phase[q] # "Done" => outcome[q] = [kind |-> "Pending"]

(* Two queries at one server, or something of that server left over. *)
Shared(q) == \/ \E r \in requests : r.query # q /\ server[r.query] = server[q]
             \/ \E d \in Stray : d.src = server[q]

Inv == /\ Shape /\ RequestsMine /\ Accounted /\ InTime /\ PendingUntilDone
       /\ AnswerIsOwn /\ MismatchNeedsSharing

LEMMA InitInv == Init => Inv
<1> SUFFICES ASSUME Init PROVE Inv
  OBVIOUS
<1> USE BareAssumption DEF Init
<1>1. Shape
  BY DEF Shape
<1>2. RequestsMine /\ Accounted /\ InTime /\ PendingUntilDone
  BY DEF RequestsMine, Accounted, InTime, PendingUntilDone
<1>3. AnswerIsOwn /\ MismatchNeedsSharing
  BY DEF AnswerIsOwn, MismatchNeedsSharing, Stun
<1> QED
  BY <1>1, <1>2, <1>3 DEF Inv

(* What is received is read as an address the query's datagram had, or     *)
(* fails; for a foreign transaction id only if the server is shared.       *)
LEMMA ReadMeans ==
  ASSUME Inv, NEW q \in Queries, Receiving(q), Head(inbox).src = server[q],
         NEW read, read = ParseBindingResponse(Cut(Head(inbox).msg), TxidOf[q])
  PROVE  \/ \E a \in SocketAddr, r \in requests :
              /\ read = Okay(a) /\ r.query = q /\ FoldAddr(r.from) = FoldAddr(a)
         \/ \E e : read = Err(e) /\ (e = "TransactionIdMismatch" => Shared(q))
<1> DEFINE d == Head(inbox)
<1>1. d \in network /\ d.src \in Layouts
  BY DEF Inv, Shape, Receiving
<1>2. TxidOf[q] \in TransactionId
  BY BareAssumption
<1> HIDE DEF d
<1>3. CASE d \in Stray
  <2>1. /\ d.msg.txid # TxidOf[q]
        /\ DOMAIN d.msg = {"type", "len", "cookie", "txid", "attrs", "size"}
    BY <1>1, <1>3, BareAssumption
  <2>2. \E e : read = Err(e)
    BY <1>2, <2>1, ForeignRead DEF d
  <2>3. Shared(q)
    BY <1>3 DEF Shared, d
  <2> QED
    BY <2>2, <2>3
<1>4. ASSUME NEW r \in requests, d = AnswerTo(r), r.query = q
      PROVE  \/ \E a \in SocketAddr : read = Okay(a) /\ FoldAddr(r.from) = FoldAddr(a)
             \/ read = Err("Truncated")
  <2>1. /\ r.msg = EncodeBindingRequest(TxidOf[q]) /\ r.from \in SocketAddr
        /\ server[q] \in Layouts
    BY <1>4, BareAssumption DEF Inv, RequestsMine, Shape
  <2>2. read = ParseBindingResponse(Cut(Answer(server[q], r)), TxidOf[q])
    BY <1>4 DEF AnswerTo, d
  <2> QED
    BY <2>1, <2>2, OwnRead
<1>5. ASSUME NEW r \in requests, d = AnswerTo(r), r.query # q
      PROVE  \E e : read = Err(e) /\ Shared(q)
  <2>1. /\ r.query \in Queries /\ r.msg.txid = TxidOf[r.query]
        /\ server[r.query] \in {"dig", "legacy", "long"}
    <3>1. r.query \in Queries /\ r.msg = EncodeBindingRequest(TxidOf[r.query])
      BY DEF Inv, RequestsMine
    <3>2. r.msg.txid = TxidOf[r.query]
      BY <3>1 DEF EncodeBindingRequest, Message
    <3>3. server[r.query] \in Layouts
      BY <3>1 DEF Inv, Shape
    <3> QED
      BY <3>1, <3>2, <3>3, BareAssumption
  <2>2. TxidOf[r.query] # TxidOf[q]
    BY <1>5, <2>1, BareAssumption
  <2>3. /\ d.msg.txid = TxidOf[r.query]
        /\ DOMAIN d.msg = {"type", "len", "cookie", "txid", "attrs", "size"}
    BY <1>5, <2>1 DEF AnswerTo, Answer, EncodeBindingSuccess, Message
  <2>4. Shared(q)
    BY <1>5 DEF Shared, AnswerTo, d
  <2> QED
    BY <1>2, <2>2, <2>3, <2>4, ForeignRead DEF d
<1> QED
  BY <1>1, <1>3, <1>4, <1>5 DEF Inv, Accounted

(* A query ends: with an address one of its datagrams had, or with an      *)
(* error, the one about transaction ids only if its server is shared.      *)
LEMMA FinishInv ==
  ASSUME Inv, NEW q \in Queries, NEW how, Finish(q, how),
         UNCHANGED << server, requests, network, mapping, rebinds, now >>,
         inbox' \in Seq(network),
         how.kind = "Ok" => \E r \in requests : r.query = q /\ FoldAddr(r.from) = FoldAddr(how.addr),
         how = Stun("TransactionIdMismatch") => Shared(q)
  PROVE  Inv'
<1>1. /\ phase' = [phase EXCEPT ![q] = "Done"] /\ outcome' = [outcome EXCEPT ![q] = how]
      /\ UNCHANGED << sent, deadline, server, requests, network, mapping, now >>
  BY DEF Finish
<1>2. Shape'
  BY <1>1 DEF Inv, Shape
<1>3. outcome'[q] = how /\ \A p \in Queries \ {q} : outcome'[p] = outcome[p]
  BY <1>1 DEF Inv, Shape
<1>4. phase'[q] = "Done" /\ \A p \in Queries \ {q} : phase'[p] = phase[p]
  BY <1>1 DEF Inv, Shape
<1>5. RequestsMine' /\ Accounted'
  BY <1>1 DEF Inv, RequestsMine, Accounted, AnswerTo
<1>6. InTime'
  BY <1>1, <1>4 DEF Inv, InTime
<1>7. PendingUntilDone'
  BY <1>3, <1>4 DEF Inv, PendingUntilDone
<1>8. AnswerIsOwn'
  BY <1>1, <1>3 DEF Inv, AnswerIsOwn
<1>9. MismatchNeedsSharing'
  BY <1>1, <1>3 DEF Inv, MismatchNeedsSharing, Shared, Stun
<1> QED
  BY <1>2, <1>5, <1>6, <1>7, <1>8, <1>9 DEF Inv

LEMMA AcceptInv == ASSUME Inv, NEW q \in Queries, Accept(q) PROVE Inv'
<1> DEFINE read == ParseBindingResponse(Cut(Head(inbox).msg), TxidOf[q])
<1>1. /\ Receiving(q) /\ Head(inbox).src = server[q] /\ Finish(q, Judged(read))
      /\ UNCHANGED << server, requests, network, mapping, rebinds, now >>
      /\ inbox' = Tail(inbox)
  BY DEF Accept
<1>2. inbox' \in Seq(network)
  BY <1>1 DEF Inv, Shape, Receiving
<1>3. \/ \E a \in SocketAddr, r \in requests :
           /\ read = Okay(a) /\ r.query = q /\ FoldAddr(r.from) = FoldAddr(a)
      \/ \E e : read = Err(e) /\ (e = "TransactionIdMismatch" => Shared(q))
  BY <1>1, ReadMeans
<1> HIDE DEF read
<1>4. CASE \E a \in SocketAddr, r \in requests :
           /\ read = Okay(a) /\ r.query = q /\ FoldAddr(r.from) = FoldAddr(a)
  <2>1. PICK a \in SocketAddr, r \in requests :
           /\ read = Okay(a) /\ r.query = q /\ FoldAddr(r.from) = FoldAddr(a)
    BY <1>4
  <2>2. Judged(read) = Stun("NoMappedAddress") \/ Judged(read) = Ok(a)
    BY <2>1 DEF Judged, Okay
  <2>3. Judged(read).kind = "Ok" => FoldAddr(r.from) = FoldAddr(Judged(read).addr)
    BY <2>1, <2>2 DEF Stun, Ok
  <2>4. Judged(read) # Stun("TransactionIdMismatch")
    BY <2>2 DEF Stun, Ok
  <2> QED
    BY <1>1, <1>2, <2>1, <2>3, <2>4, FinishInv
<1>5. CASE \E e : read = Err(e) /\ (e = "TransactionIdMismatch" => Shared(q))
  <2>1. PICK e : read = Err(e) /\ (e = "TransactionIdMismatch" => Shared(q))
    BY <1>5
  <2>2. Judged(read) = Stun(e)
    BY <2>1 DEF Judged, Err
  <2>3. Judged(read).kind # "Ok"
    BY <2>2 DEF Stun
  <2>4. Judged(read) = Stun("TransactionIdMismatch") => Shared(q)
    BY <2>1, <2>2 DEF Stun
  <2> QED
    BY <1>1, <1>2, <2>3, <2>4, FinishInv
<1> QED
  BY <1>3, <1>4, <1>5

LEMMA EndInv == ASSUME Inv, NEW q \in Queries, IoError(q) \/ TimeOut(q) PROVE Inv'
<1>1. ASSUME NEW e \in {"Io", "Timeout"}, Finish(q, Stun(e)),
             UNCHANGED << server, requests, network, mapping, rebinds, now >>,
             inbox' = inbox \/ (inbox # << >> /\ inbox' = Tail(inbox))
      PROVE  Inv'
  <2>1. inbox' \in Seq(network)
    <3>1. inbox \in Seq(network)
      BY DEF Inv, Shape
    <3>2. CASE inbox' = inbox
      BY <3>1, <3>2
    <3>3. CASE inbox # << >> /\ inbox' = Tail(inbox)
      BY <3>1, <3>3
    <3> QED
      BY <1>1, <3>2, <3>3
  <2>2. Stun(e).kind # "Ok" /\ Stun(e) # Stun("TransactionIdMismatch")
    BY DEF Stun
  <2> QED
    BY <1>1, <2>1, <2>2, FinishInv
<1>2. CASE IoError(q)
  BY <1>1, <1>2 DEF IoError
<1>3. CASE TimeOut(q)
  BY <1>1, <1>3 DEF TimeOut
<1> QED
  BY <1>2, <1>3

LEMMA StartInv == ASSUME Inv, NEW q \in Queries, Start(q) PROVE Inv'
<1>1. /\ phase[q] = "Idle" /\ phase' = [phase EXCEPT ![q] = "Sending"]
      /\ UNCHANGED << server, sent, deadline, outcome, requests, network, inbox,
                      mapping, rebinds, now >>
  BY DEF Start
<1>2. \A p \in Queries : phase'[p] = IF p = q THEN "Sending" ELSE phase[p]
  BY <1>1 DEF Inv, Shape
<1>3. Shape' /\ RequestsMine' /\ Accounted'
  BY <1>1 DEF Inv, Shape, RequestsMine, Accounted, AnswerTo
<1>4. InTime' /\ PendingUntilDone'
  BY <1>1, <1>2 DEF Inv, InTime, PendingUntilDone
<1>5. AnswerIsOwn' /\ MismatchNeedsSharing'
  BY <1>1 DEF Inv, AnswerIsOwn, MismatchNeedsSharing, Stun
<1> QED
  BY <1>3, <1>4, <1>5 DEF Inv

LEMMA SendDoneInv == ASSUME Inv, NEW q \in Queries, SendDone(q) PROVE Inv'
<1> DEFINE new == [query |-> q, from |-> mapping, msg |-> EncodeBindingRequest(TxidOf[q])]
<1>1. /\ phase[q] = "Sending" /\ phase' = [phase EXCEPT ![q] = "Receiving"]
      /\ sent' = [sent EXCEPT ![q] = now] /\ deadline' = [deadline EXCEPT ![q] = now + Timeout]
      /\ requests' = requests \union {new}
      /\ UNCHANGED << server, outcome, network, inbox, mapping, rebinds, now >>
  BY DEF SendDone
<1>2. now \in Nat /\ Timeout \in Nat
  BY BareAssumption DEF Inv, Shape
<1>3. \A p \in Queries :
        /\ phase'[p] = IF p = q THEN "Receiving" ELSE phase[p]
        /\ sent'[p] = IF p = q THEN now ELSE sent[p]
        /\ deadline'[p] = IF p = q THEN now + Timeout ELSE deadline[p]
  BY <1>1 DEF Inv, Shape
<1>4. Shape'
  BY <1>1, <1>2 DEF Inv, Shape
<1>5. RequestsMine'
  BY <1>1 DEF Inv, Shape, RequestsMine
<1> HIDE DEF new
<1>6. Accounted'
  BY <1>1 DEF Inv, Accounted, AnswerTo
<1>7. InTime'
  BY <1>1, <1>2, <1>3 DEF Inv, InTime
<1>8. PendingUntilDone'
  BY <1>1, <1>3 DEF Inv, PendingUntilDone
<1>9. AnswerIsOwn' /\ MismatchNeedsSharing'
  BY <1>1 DEF Inv, AnswerIsOwn, MismatchNeedsSharing, Stun
<1> QED
  BY <1>4, <1>5, <1>6, <1>7, <1>8, <1>9 DEF Inv

(* What surrounds the queries, and a datagram that is discarded. *)
LEMMA SurroundingsInv ==
  ASSUME Inv, Serve \/ Deliver \/ Rebind \/ Tick \/ \E q \in Queries : Discard(q)
  PROVE  Inv'
<1>1. UNCHANGED << server, phase, sent, deadline, outcome, requests >>
  BY DEF Serve, Deliver, Rebind, Tick, Discard, client
<1>2. RequestsMine' /\ PendingUntilDone' /\ AnswerIsOwn' /\ MismatchNeedsSharing'
  BY <1>1 DEF Inv, RequestsMine, PendingUntilDone, AnswerIsOwn, MismatchNeedsSharing, Stun
<1>3. CASE Serve
  <2>1. PICK r \in requests : network' = network \union {AnswerTo(r)}
    BY <1>3 DEF Serve, AnswerTo
  <2>2. UNCHANGED << inbox, mapping, now >>
    BY <1>3 DEF Serve
  <2>3. Accounted'
    BY <1>1, <2>1 DEF Inv, Accounted, AnswerTo
  <2>4. inbox \in Seq(network')
    <3>1. network \subseteq network'
      BY <2>1
    <3> QED
      BY <3>1 DEF Inv, Shape
  <2>5. Shape' /\ InTime'
    BY <1>1, <2>2, <2>4 DEF Inv, Shape, InTime
  <2> QED
    BY <1>2, <2>3, <2>5 DEF Inv
<1>4. CASE Deliver
  <2>1. inbox' \in Seq(network)
    BY <1>4 DEF Deliver, Inv, Shape
  <2>2. UNCHANGED << network, mapping, now >>
    BY <1>4 DEF Deliver
  <2>3. Shape' /\ InTime' /\ Accounted'
    BY <1>1, <2>1, <2>2 DEF Inv, Shape, InTime, Accounted, AnswerTo
  <2> QED
    BY <1>2, <2>3 DEF Inv
<1>5. CASE Rebind
  <2>1. mapping' \in Mappings /\ UNCHANGED << network, inbox, now >>
    BY <1>5 DEF Rebind
  <2>2. Shape' /\ InTime' /\ Accounted'
    BY <1>1, <2>1 DEF Inv, Shape, InTime, Accounted, AnswerTo
  <2> QED
    BY <1>2, <2>2 DEF Inv
<1>6. CASE Tick
  <2>1. /\ now' = now + 1 /\ UNCHANGED << network, inbox, mapping >>
        /\ \A q \in Queries : phase[q] = "Receiving" => now < deadline[q]
    BY <1>6 DEF Tick
  <2>2. Shape' /\ Accounted'
    BY <1>1, <2>1 DEF Inv, Shape, Accounted, AnswerTo
  <2>3. InTime'
    <3>1. now \in Nat /\ \A q \in Queries : deadline[q] \in Nat
      BY DEF Inv, Shape
    <3> QED
      BY <1>1, <2>1, <3>1 DEF Inv, InTime
  <2> QED
    BY <1>2, <2>2, <2>3 DEF Inv
<1>7. ASSUME NEW q \in Queries, Discard(q) PROVE Inv'
  <2>1. inbox' \in Seq(network)
    BY <1>7 DEF Discard, Receiving, Inv, Shape
  <2>2. UNCHANGED << network, mapping, now >>
    BY <1>7 DEF Discard
  <2>3. Shape' /\ InTime' /\ Accounted'
    BY <1>1, <2>1, <2>2 DEF Inv, Shape, InTime, Accounted, AnswerTo
  <2> QED
    BY <1>2, <2>3 DEF Inv
<1> QED
  BY <1>3, <1>4, <1>5, <1>6, <1>7

LEMMA NextInv == Inv /\ [Next]_vars => Inv'
<1> SUFFICES ASSUME Inv, [Next]_vars PROVE Inv'
  OBVIOUS
<1>1. CASE UNCHANGED vars
  BY <1>1 DEF vars, client, Inv, Shape, RequestsMine, Accounted, AnswerTo, InTime,
              PendingUntilDone, AnswerIsOwn, MismatchNeedsSharing, Stun
<1>2. ASSUME NEW q \in Queries, Step(q) PROVE Inv'
  BY <1>2, StartInv, SendDoneInv, EndInv, AcceptInv, SurroundingsInv DEF Step
<1> QED
  BY <1>1, <1>2, SurroundingsInv DEF Next

LEMMA BareInvariant == Spec => []Inv
BY InitInv, NextInv, PTL DEF Spec

(* A query returns the source one of its own datagrams had, however many   *)
(* queries share the socket: for any queries, timeout, mappings and stray  *)
(* datagrams.                                                              *)
THEOREM BareAnswerIsOwn == Spec => []AnswerIsOwn
BY BareInvariant, PTL DEF Inv

(* Only a server that is asked twice over the socket, or has something     *)
(* left over, makes a query fail for a foreign transaction id.             *)
THEOREM BareMismatchNeedsSharing == Spec => []MismatchNeedsSharing
BY BareInvariant, PTL DEF Inv

(* No datagram that is discarded lengthens the wait. *)
THEOREM BareOneWait == Spec => []OneWait
<1>1. Inv => OneWait
  <2> SUFFICES ASSUME Inv, NEW q \in Queries, phase[q] = "Receiving"
               PROVE  now - sent[q] <= Timeout
    BY DEF OneWait
  <2>1. now \in Nat /\ sent[q] \in Nat /\ Timeout \in Nat
    BY BareAssumption DEF Inv, Shape
  <2> QED
    BY <2>1 DEF Inv, InTime
<1> QED
  BY <1>1, BareInvariant, PTL

-----------------------------------------------------------------------------
(* The watched query implements ReflexiveQuery.                            *)

LEMMA Stutters ==
  ASSUME Asked(Watched)' = Asked(Watched), Result(Watched)' = Result(Watched)
  PROVE  [Query!Next]_(Query!qvars)
BY DEF Query!qvars

LEMMA AskedStays == ASSUME requests' = requests PROVE Asked(Watched)' = Asked(Watched)
BY DEF Asked

LEMMA ResultStays ==
  ASSUME outcome'[Watched] = outcome[Watched] PROVE Result(Watched)' = Result(Watched)
BY DEF Result

(* What ends a query maps to Answer or Fail, or is not about it. *)
LEMMA FinishQuery ==
  ASSUME Inv, NEW q \in Queries, phase[q] # "Done", NEW how, Finish(q, how),
         requests' = requests,
         \/ \E a \in SocketAddr : /\ how = Ok(a) /\ IsUsableReflexiveAddr(a)
                                  /\ \E r \in requests : r.query = q /\ FoldAddr(r.from) = FoldAddr(a)
         \/ \E e : how = Stun(e)
  PROVE  [Query!Next]_(Query!qvars)
<1>1. outcome'[q] = how /\ \A p \in Queries \ {q} : outcome'[p] = outcome[p]
  BY DEF Inv, Shape, Finish
<1>2. Asked(Watched)' = Asked(Watched)
  BY AskedStays
<1>3. CASE q # Watched
  BY <1>1, <1>2, <1>3, BareAssumption, ResultStays, Stutters
<1>4. CASE q = Watched
  <2>1. Result(Watched) = Query!Pending
    <3>1. outcome[Watched] = [kind |-> "Pending"]
      BY <1>4 DEF Inv, PendingUntilDone
    <3> QED
      BY <3>1 DEF Result, Query!Pending
  <2>2. CASE \E e : how = Stun(e)
    <3>1. Result(Watched)' = Query!Failed
      BY <1>1, <1>4, <2>2 DEF Result, Stun, Query!Failed
    <3> QED
      BY <1>2, <2>1, <3>1 DEF Query!Next, Query!Fail
  <2>3. ASSUME NEW a \in SocketAddr, how = Ok(a), IsUsableReflexiveAddr(a),
               NEW r \in requests, r.query = q, FoldAddr(r.from) = FoldAddr(a)
        PROVE  [Query!Next]_(Query!qvars)
    <3> DEFINE f == FoldAddr(a)
    <3>1. Result(Watched)' = Query!Found(f)
      BY <1>1, <1>4, <2>3 DEF Result, Ok, Query!Found
    <3>2. f \in Asked(Watched)
      BY <1>4, <2>3 DEF Asked
    <3>3. r.from \in Mappings
      BY DEF Inv, RequestsMine
    <3>4. f \in SeenSources
      BY <2>3, <3>3 DEF SeenSources
    <3>5. IsUsableReflexiveAddr(f)
      <4>1. a = [ip |-> a.ip, port |-> a.port] /\ a.ip \in IpAddr
        BY DEF SocketAddr
      <4>2. f = [ip |-> FoldIp(a.ip), port |-> a.port]
        BY <4>1 DEF FoldAddr
      <4>3. FoldIp(FoldIp(a.ip)) = FoldIp(a.ip)
        BY <4>1, FoldIpIdempotent
      <4>4. ScopeOf(f) = ScopeOf(a)
        BY <4>2, <4>3 DEF ScopeOf, ScopeOfIp
      <4> QED
        BY <2>3, <4>4 DEF IsUsableReflexiveAddr
    <3> HIDE DEF f
    <3>6. f \in Asked(Watched) \intersect { b \in SeenSources : IsUsableReflexiveAddr(b) }
      BY <3>2, <3>4, <3>5
    <3>7. Query!Answer
      BY <1>2, <2>1, <3>1, <3>6 DEF Query!Answer
    <3> QED
      BY <3>7 DEF Query!Next
  <2> QED
    BY <2>2, <2>3
<1> QED
  BY <1>3, <1>4

LEMMA AcceptQuery ==
  ASSUME Inv, NEW q \in Queries, Accept(q) PROVE [Query!Next]_(Query!qvars)
<1> DEFINE read == ParseBindingResponse(Cut(Head(inbox).msg), TxidOf[q])
<1>1. /\ Receiving(q) /\ Head(inbox).src = server[q] /\ Finish(q, Judged(read))
      /\ requests' = requests
  BY DEF Accept
<1>2. phase[q] # "Done"
  BY <1>1 DEF Receiving
<1>3. \/ \E a \in SocketAddr, r \in requests :
           /\ read = Okay(a) /\ r.query = q /\ FoldAddr(r.from) = FoldAddr(a)
      \/ \E e : read = Err(e) /\ (e = "TransactionIdMismatch" => Shared(q))
  BY <1>1, ReadMeans
<1> HIDE DEF read
<1>4. CASE \E a \in SocketAddr, r \in requests :
           /\ read = Okay(a) /\ r.query = q /\ FoldAddr(r.from) = FoldAddr(a)
  <2>1. PICK a \in SocketAddr, r \in requests :
           /\ read = Okay(a) /\ r.query = q /\ FoldAddr(r.from) = FoldAddr(a)
    BY <1>4
  <2>2. \/ Judged(read) = Stun("NoMappedAddress")
        \/ Judged(read) = Ok(a) /\ IsUsableReflexiveAddr(a)
    BY <2>1 DEF Judged, Okay, IsUsableReflexiveAddr
  <2> QED
    BY <1>1, <1>2, <2>1, <2>2, FinishQuery
<1>5. CASE \E e : read = Err(e)
  <2>1. \E e : Judged(read) = Stun(e)
    BY <1>5 DEF Judged, Err
  <2> QED
    BY <1>1, <1>2, <2>1, FinishQuery
<1> QED
  BY <1>3, <1>4, <1>5

LEMMA SendDoneQuery ==
  ASSUME Inv, NEW q \in Queries, SendDone(q) PROVE [Query!Next]_(Query!qvars)
<1> DEFINE new == [query |-> q, from |-> mapping, msg |-> EncodeBindingRequest(TxidOf[q])]
<1>1. requests' = requests \union {new} /\ outcome' = outcome /\ phase[q] = "Sending"
  BY DEF SendDone
<1>2. Result(Watched)' = Result(Watched)
  BY <1>1, ResultStays
<1>3. new.query = q /\ new.from = mapping
  OBVIOUS
<1> HIDE DEF new
<1>4. CASE q # Watched
  <2>1. { s \in requests' : s.query = Watched } = { s \in requests : s.query = Watched }
    BY <1>1, <1>3, <1>4
  <2>2. Asked(Watched)' = Asked(Watched)
    BY <2>1 DEF Asked
  <2> QED
    BY <1>2, <2>2, Stutters
<1>5. CASE q = Watched
  <2>1. { s \in requests' : s.query = Watched } = { s \in requests : s.query = Watched } \union {new}
    BY <1>1, <1>3, <1>5
  <2>2. Asked(Watched)' = Asked(Watched) \union {FoldAddr(mapping)}
    BY <1>3, <2>1 DEF Asked
  <2>3. FoldAddr(mapping) \in SeenSources
    BY DEF Inv, Shape, SeenSources
  <2>4. Result(Watched) = Query!Pending
    <3>1. outcome[Watched] = [kind |-> "Pending"]
      BY <1>1, <1>5 DEF Inv, PendingUntilDone
    <3> QED
      BY <3>1 DEF Result, Query!Pending
  <2>5. Query!Send
    BY <1>2, <2>2, <2>3, <2>4 DEF Query!Send
  <2> QED
    BY <2>5 DEF Query!Next
<1> QED
  BY <1>4, <1>5

LEMMA NextQuery == Inv /\ [Next]_vars => [Query!Next]_(Query!qvars)
<1> SUFFICES ASSUME Inv, [Next]_vars PROVE [Query!Next]_(Query!qvars)
  OBVIOUS
<1>1. ASSUME requests' = requests, outcome' = outcome PROVE [Query!Next]_(Query!qvars)
  BY <1>1, AskedStays, ResultStays, Stutters
<1>2. ASSUME NEW q \in Queries, IoError(q) \/ TimeOut(q) PROVE [Query!Next]_(Query!qvars)
  <2>1. \E e : Finish(q, Stun(e)) /\ requests' = requests /\ phase[q] # "Done"
    BY <1>2 DEF IoError, TimeOut
  <2> QED
    BY <2>1, FinishQuery
<1>3. ASSUME NEW q \in Queries, Step(q) PROVE [Query!Next]_(Query!qvars)
  <2>1. CASE Start(q) \/ Discard(q)
    BY <1>1, <2>1 DEF Start, Discard, client
  <2> QED
    BY <1>2, <1>3, <2>1, SendDoneQuery, AcceptQuery DEF Step
<1>4. CASE UNCHANGED vars \/ Serve \/ Deliver \/ Rebind \/ Tick
  BY <1>1, <1>4 DEF vars, client, Serve, Deliver, Rebind, Tick
<1> QED
  BY <1>3, <1>4 DEF Next

(* A query keeps what ReflexiveQuery promises although it shares its       *)
(* socket, server and network with any number of others.                   *)
THEOREM BareKeepsQuery == Spec => KeepsQuery
<1>1. Init => Query!Init
  <2> SUFFICES ASSUME Init PROVE Query!Init
    OBVIOUS
  <2>1. Asked(Watched) = {} /\ Result(Watched) = [kind |-> "pending"]
    BY BareAssumption DEF Init, Asked, Result
  <2> QED
    BY <2>1 DEF Query!Init, Query!Pending
<1> QED
  BY <1>1, NextQuery, BareInvariant, PTL DEF Spec, KeepsQuery, Query!Spec
=============================================================================
