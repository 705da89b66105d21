------------------------ MODULE SignedExchangeProofs ------------------------
(***************************************************************************)
(* SignedExchange for every deployment: any number of mappings, replicas,  *)
(* upsets, other clients and stray datagrams, any timeout and any skew.    *)
(*                                                                         *)
(* The inductive invariant adds to the type invariant that the transaction *)
(* id counts the datagrams sent and the one being sent (Numbered,          *)
(* RequestsMine), that the deadline is the one computed at the start       *)
(* (InTime), and that an address in a reply to this exchange is the source *)
(* of a request with the same transaction id (SuccessHonest).              *)
(*                                                                         *)
(* Two more invariants rest on it.  Provenance follows every nonce back to *)
(* the server, the source and the time it was issued for, and gives        *)
(* ProvedBeforeAnswer.  SteadyInv counts buckets along an undisturbed path *)
(* and gives NoSpuriousRefusal.                                            *)
(***************************************************************************)
EXTENDS SignedExchange, ScopeLemmas, FiniteSetTheorems

(* How many datagrams have left. *)
Departed == IF Sending THEN txid - 1 ELSE txid

Numbered == /\ stage = "Idle" => Departed = 0
            /\ stage = "Initial" => Departed = 1
            /\ stage = "AfterFirstChallenge" => Departed = 2
            /\ stage = "AfterReSign" => Departed = 3
            /\ Sending => \/ /\ stage = "Idle" /\ sending.next = "Initial"
                             /\ sending.kind = "identity"
                          \/ /\ stage = "Initial" /\ sending.next = "AfterFirstChallenge"
                             /\ sending.kind = "signed"
                          \/ /\ stage = "AfterFirstChallenge" /\ sending.next = "AfterReSign"
                             /\ sending.kind = "signed"

RequestsMine == /\ IsFiniteSet(MyRequests) /\ Cardinality(MyRequests) <= Departed
                /\ \A q \in MyRequests : q.from \in Mappings

InTime == /\ now \in Nat /\ started \in Nat
          /\ Sending \/ Waiting => deadline = started + Timeout
          /\ Waiting => now <= deadline
          /\ Sending => now <= deadline + MaxLate
          /\ outcome.kind \in {"Ok", "Refused"} => now <= started + Timeout

SuccessHonest ==
  \A r \in replies :
    r.type = "success" /\ r.src = "server" /\ r.txid \in 0..3 =>
      \E q \in MyRequests : q.txid = r.txid /\ FoldAddr(q.from) = r.addr

Inv == /\ TypeOK /\ Numbered /\ RequestsMine /\ InTime
       /\ SuccessHonest /\ OutcomeIsAboutLatest

-----------------------------------------------------------------------------
(* Folding an address twice, or after a dual-stack socket mapped it, gives *)
(* what folding it once does.                                              *)
LEMMA SeenFolds ==
  ASSUME NEW addr \in SocketAddr, NEW r
  PROVE  /\ FoldAddr(FoldAddr(addr)) = FoldAddr(addr)
         /\ FoldAddr(Seen(addr, r)) = FoldAddr(addr)
<1>1. addr.ip \in IpAddr /\ addr = [ip |-> addr.ip, port |-> addr.port]
  BY DEF SocketAddr
<1>2. \A i, p : FoldAddr([ip |-> i, port |-> p]) = [ip |-> FoldIp(i), port |-> p]
  BY DEF FoldAddr
<1>3. FoldIp(FoldIp(addr.ip)) = FoldIp(addr.ip)
  BY <1>1, FoldIpIdempotent
<1>4. addr.ip \in V4 => FoldIp(MappedV6(addr.ip)) = FoldIp(addr.ip)
  BY FoldEmbeddings, FoldV4
<1>5. Seen(addr, r) = addr \/ (/\ addr.ip \in V4
                               /\ Seen(addr, r) = [ip |-> MappedV6(addr.ip), port |-> addr.port])
  BY <1>1 DEF Seen
<1>6. FoldAddr(addr) = [ip |-> FoldIp(addr.ip), port |-> addr.port]
  BY <1>1, <1>2
<1>7. FoldAddr(FoldAddr(addr)) = FoldAddr(addr)
  BY <1>2, <1>3, <1>6
<1>8. FoldAddr(Seen(addr, r)) = FoldAddr(addr)
  BY <1>2, <1>4, <1>5, <1>6
<1> QED
  BY <1>7, <1>8

LEMMA InitInv == Init => Inv
<1> SUFFICES ASSUME Init PROVE Inv
  OBVIOUS
<1> USE ExchangeAssumption, FreshTransactionIds DEF Init
<1>1. MyRequests = {}
  BY DEF MyRequests
<1>2. TypeOK
  BY DEF TypeOK, Sending, NoSend
<1>3. Numbered /\ InTime
  BY DEF Numbered, InTime, Waiting, Sending, NoSend, Departed
<1>4. RequestsMine
  BY <1>1, FS_EmptySet DEF RequestsMine, Departed, Sending, NoSend
<1>5. SuccessHonest
  BY DEF SuccessHonest
<1>6. OutcomeIsAboutLatest
  BY DEF OutcomeIsAboutLatest
<1> QED
  BY <1>2, <1>3, <1>4, <1>5, <1>6 DEF Inv

(* A datagram of this exchange is not one of another client's.             *)
LEMMA OneMoreRequest ==
  ASSUME Inv, SendDone
  PROVE  /\ Request.txid = txid /\ txid \in 1..3 /\ Request.from = mapping
         /\ Request.kind = sending.kind /\ Request.nonce = sending.nonce
         /\ MyRequests' = MyRequests \union {Request}
         /\ RequestsMine'
         /\ \A q \in requests' : q.kind \in {"bare", "identity", "signed"}
<1>1. /\ Request.txid = txid /\ Request.from = mapping
      /\ Request.kind = sending.kind /\ Request.nonce = sending.nonce
  BY DEF Request
<1>2. Sending /\ requests' = requests \union {Request} /\ txid' = txid /\ ~Sending'
  BY DEF SendDone, Sending, NoSend
<1>3. txid \in 1..3
  BY <1>2 DEF Inv, Numbered, Departed, TypeOK
<1>4. Request \notin BareRequests
  BY <1>1, <1>3, FreshTransactionIds
<1>5. MyRequests' = MyRequests \union {Request}
  BY <1>2, <1>4 DEF MyRequests
<1>6. IsFiniteSet(MyRequests) /\ Cardinality(MyRequests) \in Nat
  BY FS_CardinalityType DEF Inv, RequestsMine
<1>7. /\ IsFiniteSet(MyRequests')
      /\ Cardinality(MyRequests') <= Cardinality(MyRequests) + 1
      /\ Cardinality(MyRequests') \in Nat
  BY <1>5, <1>6, FS_AddElement, FS_CardinalityType
<1>8. Cardinality(MyRequests) <= txid - 1 /\ Departed' = txid
  BY <1>2 DEF Inv, RequestsMine, Departed
<1>9. RequestsMine'
  BY <1>1, <1>3, <1>5, <1>6, <1>7, <1>8 DEF Inv, RequestsMine, TypeOK
<1>10. \A q \in requests' : q.kind \in {"bare", "identity", "signed"}
  BY <1>1, <1>2 DEF Inv, TypeOK
<1> QED
  BY <1>1, <1>3, <1>5, <1>9, <1>10

(* Nothing but requests being added disturbs what replies say of them.     *)
LEMMA SuccessStaysHonest ==
  ASSUME SuccessHonest, MyRequests \subseteq MyRequests', replies' = replies
  PROVE  SuccessHonest'
BY DEF SuccessHonest

-----------------------------------------------------------------------------
LEMMA StartInv == Inv /\ Start => Inv'
<1> SUFFICES ASSUME Inv, Start PROVE Inv'
  OBVIOUS
<1> USE DEF Start
<1>1. /\ Sending' /\ sending'.kind = "identity" /\ sending'.next = "Initial"
      /\ stage' = "Idle" /\ txid' = 1 /\ Departed' = 0 /\ Departed = 0
  BY DEF ToSend, Sending, Departed, Inv, Numbered
<1>2. MyRequests' = MyRequests
  BY DEF MyRequests
<1>3. outcome' = outcome /\ outcome.kind = "Pending"
  BY DEF Inv, TypeOK
<1>4. TypeOK'
  <2>1. deadline' \in Nat
    BY ExchangeAssumption DEF Inv, InTime
  <2>2. UNCHANGED << mapping, route, secrets, upsets, requests, stage >>
    BY DEF servers
  <2>3. (stage' = "Done") = (outcome'.kind # "Pending")
    BY <1>1, <1>3
  <2> HIDE DEF Start
  <2>4. sending'.kind \in {"identity", "signed"} /\ stage' = "Idle" /\ txid' \in 0..3
    BY <1>1
  <2> QED
    BY <2>1, <2>2, <2>3, <2>4 DEF Inv, TypeOK
<1>5. Numbered'
  BY <1>1 DEF Numbered
<1>6. InTime'
  BY <1>1, <1>3, ExchangeAssumption DEF Inv, InTime, Waiting
<1>7. RequestsMine' /\ SuccessHonest'
  BY <1>1, <1>2, SuccessStaysHonest DEF Inv, RequestsMine
<1>8. OutcomeIsAboutLatest'
  BY <1>3 DEF OutcomeIsAboutLatest
<1> QED
  BY <1>4, <1>5, <1>6, <1>7, <1>8 DEF Inv

LEMMA SendSignedInv ==
  ASSUME Inv, Waiting, NEW nonce, NEW next, SendSigned(nonce, next),
         \/ stage = "Initial" /\ next = "AfterFirstChallenge"
         \/ stage = "AfterFirstChallenge" /\ next = "AfterReSign",
         UNCHANGED << requests, replies, mapping, servers, upsets, now, started >>
  PROVE  Inv'
<1> USE ExchangeAssumption DEF Inv
<1>1. /\ Sending' /\ sending'.kind = "signed" /\ sending'.next = next
      /\ txid' = txid + 1 /\ Departed' = txid /\ Departed = txid
      /\ UNCHANGED << stage, deadline, outcome >>
  BY DEF SendSigned, ToSend, Sending, Departed, Waiting, TypeOK
<1>2. txid \in 1..2 /\ outcome.kind = "Pending"
  BY <1>1 DEF Numbered, Waiting, TypeOK
<1>3. MyRequests' = MyRequests
  BY DEF MyRequests
<1>4. TypeOK'
  BY <1>1, <1>2 DEF TypeOK, servers, Waiting
<1>5. Numbered'
  BY <1>1, <1>2 DEF Numbered
<1>6. InTime'
  BY <1>1, <1>2 DEF InTime, Waiting
<1>7. RequestsMine' /\ SuccessHonest'
  BY <1>1, <1>3, SuccessStaysHonest DEF RequestsMine
<1>8. OutcomeIsAboutLatest'
  BY <1>1, <1>2 DEF OutcomeIsAboutLatest
<1> QED
  BY <1>4, <1>5, <1>6, <1>7, <1>8

LEMMA SendDoneInv == Inv /\ SendDone => Inv'
<1> SUFFICES ASSUME Inv, SendDone PROVE Inv'
  OBVIOUS
<1>1. /\ Sending /\ ~Sending' /\ Departed' = txid /\ txid' = txid
      /\ stage' = IF now < deadline THEN sending.next ELSE "Late"
      /\ UNCHANGED << deadline, outcome, replies, mapping, route, secrets, upsets,
                      now, started >>
  BY DEF SendDone, Sending, NoSend, Departed, servers
<1>2. /\ MyRequests' = MyRequests \union {Request} /\ RequestsMine'
      /\ \A q \in requests' : q.kind \in {"bare", "identity", "signed"}
  BY OneMoreRequest
<1>3. outcome.kind = "Pending"
  BY <1>1 DEF Inv, TypeOK
<1>4. sending.next \in {"Initial", "AfterFirstChallenge", "AfterReSign"}
  BY <1>1 DEF Inv, Numbered
<1>5. TypeOK'
  BY <1>1, <1>2, <1>3, <1>4 DEF Inv, TypeOK
<1>6. Numbered'
  <2>1. \/ sending.next = "Initial" /\ txid = 1
        \/ sending.next = "AfterFirstChallenge" /\ txid = 2
        \/ sending.next = "AfterReSign" /\ txid = 3
    BY <1>1 DEF Inv, Numbered, Departed, TypeOK
  <2> QED
    BY <1>1, <2>1 DEF Numbered
<1>7. InTime'
  BY <1>1, <1>3, <1>4, ExchangeAssumption DEF Inv, InTime, Waiting, TypeOK
<1>8. SuccessHonest'
  BY <1>1, <1>2, SuccessStaysHonest DEF Inv
<1>9. OutcomeIsAboutLatest'
  BY <1>1, <1>3 DEF OutcomeIsAboutLatest
<1> QED
  BY <1>2, <1>5, <1>6, <1>7, <1>8, <1>9 DEF Inv

(* The exchange ends with an outcome that is about the latest datagram.    *)
LEMMA FinishInv ==
  ASSUME Inv, NEW how, Finish(how), how.kind # "Pending",
         how.kind = "Ok" =>
           \E q \in MyRequests : q.txid = txid /\ FoldAddr(q.from) = how.addr,
         how.kind = "Refused" =>
           \E r \in replies : r.type = "error" /\ Genuine(r) /\ r.code = how.code,
         how.kind \in {"Ok", "Refused"} => now <= started + Timeout /\ started' = started,
         UNCHANGED << txid, deadline, requests, replies, mapping, servers, upsets, now >>,
         started' \in Nat
  PROVE  Inv'
<1> USE DEF Inv
<1>1. stage' = "Done" /\ outcome' = how /\ ~Sending'
  BY DEF Finish, Sending, NoSend
<1>2. MyRequests' = MyRequests
  BY DEF MyRequests
<1>3. TypeOK'
  BY <1>1 DEF TypeOK, servers
<1>4. Numbered'
  BY <1>1 DEF Numbered
<1>5. RequestsMine'
  <2>1. Departed \in Int /\ Departed' \in Int /\ Departed <= Departed'
    BY <1>1 DEF Departed, TypeOK
  <2>2. Cardinality(MyRequests) \in Nat
    BY FS_CardinalityType DEF RequestsMine
  <2> QED
    BY <1>2, <2>1, <2>2 DEF RequestsMine
<1>6. InTime'
  BY <1>1 DEF InTime, Waiting
<1>7. SuccessHonest'
  BY <1>2, SuccessStaysHonest
<1>8. OutcomeIsAboutLatest'
  BY <1>1, <1>2 DEF OutcomeIsAboutLatest, Genuine
<1> QED
  BY <1>3, <1>4, <1>5, <1>6, <1>7, <1>8

LEMMA ReceiveSuccessInv == Inv /\ ReceiveSuccess => Inv'
<1> SUFFICES ASSUME Inv, ReceiveSuccess PROVE Inv'
  OBVIOUS
<1>1. PICK reply \in replies :
        /\ reply.type = "success" /\ Genuine(reply)
        /\ Finish(IF IsUsableReflexiveAddr(reply.addr) THEN Ok(reply.addr)
                  ELSE Stun("NoMappedAddress"))
  BY DEF ReceiveSuccess
<1>2. PICK how : how = IF IsUsableReflexiveAddr(reply.addr) THEN Ok(reply.addr)
                       ELSE Stun("NoMappedAddress")
  OBVIOUS
<1>3. Finish(how) /\ how.kind \in {"Ok", "Stun"}
  BY <1>1, <1>2 DEF Ok, Stun
<1>4. \E q \in MyRequests : q.txid = txid /\ FoldAddr(q.from) = reply.addr
  BY <1>1 DEF Inv, SuccessHonest, Genuine, TypeOK
<1>5. how.kind = "Ok" => how.addr = reply.addr
  BY <1>2 DEF Ok, Stun
<1>6. /\ UNCHANGED << txid, deadline, requests, replies, mapping, servers, upsets, now >>
      /\ started' \in Nat /\ started' = started
  BY DEF ReceiveSuccess, Inv, InTime
<1>7. now <= started + Timeout
  BY DEF ReceiveSuccess, Receiving, Inv, InTime
<1> QED
  BY <1>3, <1>4, <1>5, <1>6, <1>7, FinishInv

(* An error is signed again, in the stages that do, or ends the exchange.  *)
LEMMA ErrorInv ==
  ASSUME Inv, Waiting, NEW reply \in replies, reply.type = "error", Genuine(reply),
         NEW next,
         \/ stage = "Initial" /\ next = "AfterFirstChallenge"
         \/ stage = "AfterFirstChallenge" /\ next = "AfterReSign"
         \/ stage = "AfterReSign",
         \/ stage # "AfterReSign" /\ SendSigned(reply.nonce, next)
         \/ Finish(Refused(reply.code)) /\ UNCHANGED << txid, deadline >>,
         UNCHANGED << requests, replies, mapping, servers, upsets, now, started >>
  PROVE  Inv'
<1>1. CASE stage # "AfterReSign" /\ SendSigned(reply.nonce, next)
  BY <1>1, SendSignedInv
<1>2. CASE Finish(Refused(reply.code)) /\ UNCHANGED << txid, deadline >>
  <2>1. PICK how : how = Refused(reply.code)
    OBVIOUS
  <2>2. Finish(how) /\ how.kind = "Refused" /\ how.code = reply.code
    BY <1>2, <2>1 DEF Refused
  <2>3. started' \in Nat /\ now <= started + Timeout
    BY DEF Inv, InTime
  <2> QED
    BY <1>2, <2>2, <2>3, FinishInv
<1> QED
  BY <1>1, <1>2

LEMMA ReceiveErrorInv ==
  Inv /\ (ReceiveFirstChallenge \/ ReceiveStaleNonce \/ ReceiveLastRefusal) => Inv'
<1>1. ASSUME Inv, ReceiveFirstChallenge PROVE Inv'
  <2>1. PICK reply \in replies :
          /\ reply.type = "error" /\ Genuine(reply)
          /\ \/ SendSigned(reply.nonce, "AfterFirstChallenge")
             \/ Finish(Refused(reply.code)) /\ UNCHANGED << txid, deadline >>
    BY <1>1 DEF ReceiveFirstChallenge
  <2> QED
    BY <1>1, <2>1, ErrorInv DEF ReceiveFirstChallenge, Receiving
<1>2. ASSUME Inv, ReceiveStaleNonce PROVE Inv'
  <2>1. PICK reply \in replies :
          /\ reply.type = "error" /\ Genuine(reply)
          /\ \/ SendSigned(reply.nonce, "AfterReSign")
             \/ Finish(Refused(reply.code)) /\ UNCHANGED << txid, deadline >>
    BY <1>2 DEF ReceiveStaleNonce
  <2> QED
    BY <1>2, <2>1, ErrorInv DEF ReceiveStaleNonce, Receiving
<1>3. ASSUME Inv, ReceiveLastRefusal PROVE Inv'
  <2>1. PICK reply \in replies :
          /\ reply.type = "error" /\ Genuine(reply) /\ Finish(Refused(reply.code))
    BY <1>3 DEF ReceiveLastRefusal
  <2>2. UNCHANGED << txid, deadline, requests, replies, mapping, servers, upsets,
                     now, started >>
    BY <1>3 DEF ReceiveLastRefusal
  <2> QED
    BY <1>3, <2>1, <2>2, ErrorInv DEF ReceiveLastRefusal, Receiving
<1> QED
  BY <1>1, <1>2, <1>3

(* The endings that say nothing of a reply.                                *)
LEMMA FailureInv ==
  Inv /\ (StartWithBadKey \/ ReceiveUnusable \/ IoError \/ TimeOut) => Inv'
<1> SUFFICES ASSUME Inv, StartWithBadKey \/ ReceiveUnusable \/ IoError \/ TimeOut
             PROVE Inv'
  OBVIOUS
<1>1. /\ UNCHANGED << txid, deadline, requests, replies, mapping, servers, upsets, now >>
      /\ started' \in Nat
  BY DEF StartWithBadKey, ReceiveUnusable, IoError, TimeOut, Inv, InTime
<1>2. PICK how : Finish(how) /\ how.kind \in {"BadChallenge", "Stun"}
  <2>1. CASE StartWithBadKey
    BY <2>1 DEF StartWithBadKey
  <2>2. CASE ReceiveUnusable
    BY <2>2 DEF ReceiveUnusable, Stun
  <2>3. CASE IoError \/ TimeOut
    BY <2>3 DEF IoError, TimeOut, Stun
  <2> QED
    BY <2>1, <2>2, <2>3
<1> QED
  BY <1>1, <1>2, FinishInv

-----------------------------------------------------------------------------
(* Whichever server answers, and whatever it sees the source as, an        *)
(* address in its reply is the source the request came from.               *)
LEMMA ReplyHonest ==
  ASSUME Inv, NEW request \in requests, NEW reply,
         \/ reply = DigReply(request)
         \/ reply = Success(request.txid, request.from)
         \/ \E code, realm, nonce : reply = Error(request.txid, code, realm, nonce),
         reply.type = "success", reply.txid \in 0..3
  PROVE  \E q \in MyRequests : q.txid = reply.txid /\ FoldAddr(q.from) = reply.addr
<1>1. reply.txid = request.txid
  BY DEF DigReply, Success, Error, Decision, Decide, AnswerIt, Challenge, Refuse
<1>2. request \in MyRequests /\ request.from \in SocketAddr
  BY <1>1, FreshTransactionIds, ExchangeAssumption DEF MyRequests, Inv, RequestsMine
<1>3. \/ reply.addr = FoldAddr(request.from)
      \/ reply.addr = FoldAddr(Seen(request.from, route))
  BY DEF DigReply, Success, Error, Decision, Decide, AnswerIt, Challenge, Refuse
<1> QED
  BY <1>1, <1>2, <1>3, SeenFolds

LEMMA ServeInv == Inv /\ Serve => Inv'
<1> SUFFICES ASSUME Inv, Serve PROVE Inv'
  OBVIOUS
<1>1. PICK request, reply :
        /\ request \in requests
        /\ replies' = replies \union {reply}
        /\ \/ reply = DigReply(request)
           \/ reply = Success(request.txid, request.from)
           \/ \E code, realm, nonce : reply = Error(request.txid, code, realm, nonce)
  BY DEF Serve
<1>2. UNCHANGED << stage, txid, sending, deadline, outcome, requests, mapping, route,
                   secrets, upsets, now, started >>
  BY DEF Serve, client, servers
<1>3. MyRequests' = MyRequests
  BY <1>2 DEF MyRequests
<1>4. SuccessHonest'
  BY <1>1, <1>3, ReplyHonest DEF Inv, SuccessHonest
<1>5. OutcomeIsAboutLatest'
  BY <1>1, <1>2, <1>3 DEF Inv, OutcomeIsAboutLatest, Genuine
<1>6. TypeOK' /\ Numbered' /\ RequestsMine' /\ InTime'
  BY <1>2, <1>3 DEF Inv, TypeOK, Numbered, RequestsMine, InTime, Waiting, Sending, Departed
<1> QED
  BY <1>4, <1>5, <1>6 DEF Inv

(* NAT, balancer, restarts and time leave the client's half alone.         *)
LEMMA SurroundingsInv == Inv /\ (Rebind \/ Rebalance \/ Restart \/ Tick) => Inv'
<1> SUFFICES ASSUME Inv, Rebind \/ Rebalance \/ Restart \/ Tick PROVE Inv'
  OBVIOUS
<1>1. UNCHANGED << stage, txid, sending, deadline, outcome, requests, replies, started >>
  BY DEF Rebind, Rebalance, Restart, Tick, client
<1>2. MyRequests' = MyRequests
  BY <1>1 DEF MyRequests
<1>3. /\ mapping' \in Mappings /\ route' \in Replicas
      /\ upsets' \in 0..MaxUpsets /\ secrets' \in [Replicas -> Int \ {0}]
  <2>1. upsets \in Nat /\ MaxUpsets \in Nat /\ upsets <= MaxUpsets
    BY ExchangeAssumption DEF Inv, TypeOK
  <2>2. CASE Rebind
    BY <2>1, <2>2 DEF Rebind, Upset, servers, Inv, TypeOK
  <2>3. CASE Rebalance
    BY <2>1, <2>3 DEF Rebalance, Upset, Inv, TypeOK
  <2>4. CASE Restart
    BY <2>1, <2>4 DEF Restart, Upset, Inv, TypeOK
  <2>5. CASE Tick
    BY <2>1, <2>5 DEF Tick, servers, Inv, TypeOK
  <2> QED
    BY <2>2, <2>3, <2>4, <2>5
<1>4. InTime'
  <2>1. CASE Tick
    <3>1. outcome.kind = "Pending"
      BY <2>1 DEF Tick, Waiting, Inv, TypeOK
    <3>2. MaxLate \in Nat /\ deadline \in Nat /\ Timeout \in Nat
      BY ExchangeAssumption DEF Inv, TypeOK
    <3> QED
      BY <1>1, <2>1, <3>1, <3>2 DEF Tick, Inv, InTime, Waiting, Sending
  <2>2. CASE now' = now
    BY <1>1, <2>2 DEF Inv, InTime, Waiting, Sending
  <2> QED
    BY <2>1, <2>2 DEF Rebind, Rebalance, Restart
<1>5. TypeOK'
  BY <1>1, <1>3 DEF Inv, TypeOK, Sending
<1>6. Numbered' /\ RequestsMine' /\ SuccessHonest'
  BY <1>1, <1>2 DEF Inv, Numbered, RequestsMine, SuccessHonest, Sending, Departed
<1>7. OutcomeIsAboutLatest'
  BY <1>1, <1>2 DEF Inv, OutcomeIsAboutLatest, Genuine
<1> QED
  BY <1>4, <1>5, <1>6, <1>7 DEF Inv

LEMMA StutterInv == Inv /\ UNCHANGED vars => Inv'
BY DEF vars, client, servers, Inv, TypeOK, Numbered, RequestsMine, InTime, Waiting,
       Sending, Departed, SuccessHonest, OutcomeIsAboutLatest, Genuine, MyRequests

LEMMA NextInv == Inv /\ [Next]_vars => Inv'
<1> SUFFICES ASSUME Inv, [Next]_vars PROVE Inv'
  OBVIOUS
<1>1. CASE Discard \/ UNCHANGED vars
  BY <1>1, StutterInv DEF Discard
<1>2. CASE Start
  BY <1>2, StartInv
<1>3. CASE ReceiveSuccess
  BY <1>3, ReceiveSuccessInv
<1>4. CASE ReceiveFirstChallenge \/ ReceiveStaleNonce \/ ReceiveLastRefusal
  BY <1>4, ReceiveErrorInv
<1>5. CASE StartWithBadKey \/ ReceiveUnusable \/ IoError \/ TimeOut
  BY <1>5, FailureInv
<1>6. CASE Serve
  BY <1>6, ServeInv
<1>7. CASE Rebind \/ Rebalance \/ Restart \/ Tick
  BY <1>7, SurroundingsInv
<1>8. CASE SendDone
  BY <1>8, SendDoneInv
<1> QED
  BY <1>1, <1>2, <1>3, <1>4, <1>5, <1>6, <1>7, <1>8 DEF Next

THEOREM ExchangeInvariant == Spec => []Inv
<1> QED
  BY InitInv, NextInv, PTL DEF Spec

(* The client's stage, transaction id and outcome stay what the code's     *)
(* types allow, and it has an outcome exactly when it is done.             *)
THEOREM ExchangeTypeCorrect == Spec => []TypeOK
<1>1. Inv => TypeOK
  BY DEF Inv
<1> QED
  BY <1>1, ExchangeInvariant, PTL

(* signed_client.rs:79 and 116-119: the address or refusal returned is the *)
(* answer to the datagram sent last, for every deployment and any upsets.  *)
THEOREM ExchangeOutcomeIsAboutLatest == Spec => []OutcomeIsAboutLatest
<1>1. Inv => OutcomeIsAboutLatest
  BY DEF Inv
<1> QED
  BY <1>1, ExchangeInvariant, PTL

(* signed_client.rs:63-64 and 79-95: replies are waited for, and an        *)
(* address or a refusal returned, within the one timeout counted from the  *)
(* call, however long its sends take, and three datagrams leave at most.   *)
THEOREM ExchangeOneDeadline == Spec => []OneDeadline
<1>1. Inv => OneDeadline
  <2> SUFFICES ASSUME Inv PROVE OneDeadline
    OBVIOUS
  <2>1. Waiting \/ outcome.kind \in {"Ok", "Refused"} => now - started <= Timeout
    BY ExchangeAssumption DEF Inv, InTime
  <2>2. Cardinality(MyRequests) <= 3
    <3>1. Cardinality(MyRequests) \in Nat
      BY FS_CardinalityType DEF Inv, RequestsMine
    <3> QED
      BY <3>1 DEF Inv, RequestsMine, TypeOK, Departed
  <2> QED
    BY <2>1, <2>2 DEF OneDeadline
<1> QED
  BY <1>1, ExchangeInvariant, PTL

-----------------------------------------------------------------------------
(* Every step is one of the query's or changes nothing it can see: a       *)
(* datagram leaves (Send), an address is returned (Answer), or the         *)
(* exchange ends without one (Fail).                                       *)

LEMMA QuerySends == Inv /\ SendDone => Query!Send
<1> SUFFICES ASSUME Inv, SendDone PROVE Query!Send
  OBVIOUS
<1>1. MyRequests' = MyRequests \union {Request} /\ Request.from = mapping
  BY OneMoreRequest
<1>2. FoldAddr(mapping) \in SeenSources
  BY DEF SeenSources, Inv, TypeOK
<1>3. Asked' = Asked \union {FoldAddr(mapping)}
  BY <1>1 DEF Asked
<1>4. outcome.kind = "Pending" /\ outcome' = outcome
  BY DEF SendDone, Inv, TypeOK
<1>5. Result = [kind |-> "pending"] /\ Result' = Result
  BY <1>4 DEF Result
<1> QED
  BY <1>2, <1>3, <1>5 DEF Query!Send, Query!Pending

LEMMA QueryFails ==
  ASSUME outcome.kind = "Pending", outcome'.kind \notin {"Pending", "Ok"},
         requests' = requests
  PROVE  Query!Fail
<1>1. Asked' = Asked
  BY DEF Asked, MyRequests
<1>2. Result = [kind |-> "pending"] /\ Result' = [kind |-> "failed"]
  BY DEF Result
<1> QED
  BY <1>1, <1>2 DEF Query!Fail, Query!Pending, Query!Failed

LEMMA QueryAnswers ==
  ASSUME Inv, NEW addr, outcome.kind = "Pending", outcome' = Ok(addr),
         IsUsableReflexiveAddr(addr), requests' = requests,
         \E q \in MyRequests : q.txid = txid /\ FoldAddr(q.from) = addr
  PROVE  Query!Answer
<1>1. Asked' = Asked
  BY DEF Asked, MyRequests
<1>2. addr \in Asked
  BY DEF Asked
<1>3. addr \in SeenSources
  BY DEF SeenSources, Inv, RequestsMine
<1>4. Result = [kind |-> "pending"] /\ Result' = [kind |-> "ok", addr |-> addr]
  BY DEF Result, Ok
<1> QED
  BY <1>1, <1>2, <1>3, <1>4 DEF Query!Answer, Query!Pending, Query!Found

LEMMA QueryStutters ==
  ASSUME requests' = requests, outcome' = outcome
  PROVE  UNCHANGED Query!qvars
BY DEF Query!qvars, Asked, Result, MyRequests

LEMMA NextQuery == Inv /\ [Next]_vars => [Query!Next]_(Query!qvars)
<1> SUFFICES ASSUME Inv, [Next]_vars PROVE [Query!Next]_(Query!qvars)
  OBVIOUS
<1> USE DEF Query!Next
<1>1. CASE SendDone
  BY <1>1, QuerySends
<1>2. CASE ReceiveSuccess
  <2>1. PICK reply \in replies :
          /\ reply.type = "success" /\ Genuine(reply)
          /\ Finish(IF IsUsableReflexiveAddr(reply.addr) THEN Ok(reply.addr)
                    ELSE Stun("NoMappedAddress"))
    BY <1>2 DEF ReceiveSuccess
  <2>2. \E q \in MyRequests : q.txid = txid /\ FoldAddr(q.from) = reply.addr
    BY <2>1 DEF Inv, SuccessHonest, Genuine, TypeOK
  <2>3. outcome.kind = "Pending" /\ requests' = requests
    BY <1>2 DEF ReceiveSuccess, Receiving, Waiting, Inv, TypeOK
  <2>4. CASE IsUsableReflexiveAddr(reply.addr)
    <3>1. outcome' = Ok(reply.addr)
      BY <2>1, <2>4 DEF Finish
    <3> QED
      BY <2>2, <2>3, <2>4, <3>1, QueryAnswers
  <2>5. CASE ~IsUsableReflexiveAddr(reply.addr)
    <3>1. outcome'.kind = "Stun"
      BY <2>1, <2>5 DEF Finish, Stun
    <3> QED
      BY <2>3, <3>1, QueryFails
  <2> QED
    BY <2>4, <2>5
<1>3. CASE ReceiveFirstChallenge \/ ReceiveStaleNonce \/ ReceiveLastRefusal
  <2>1. PICK reply \in replies :
          \/ \E next : SendSigned(reply.nonce, next)
          \/ Waiting /\ Finish(Refused(reply.code))
    BY <1>3 DEF ReceiveFirstChallenge, ReceiveStaleNonce, ReceiveLastRefusal, Receiving
  <2>2. requests' = requests
    BY <1>3 DEF ReceiveFirstChallenge, ReceiveStaleNonce, ReceiveLastRefusal
  <2>3. CASE \E next : SendSigned(reply.nonce, next)
    BY <2>2, <2>3, QueryStutters DEF SendSigned
  <2>4. CASE Waiting /\ Finish(Refused(reply.code))
    <3>1. outcome.kind = "Pending" /\ outcome'.kind = "Refused"
      BY <2>4 DEF Waiting, Finish, Refused, Inv, TypeOK
    <3> QED
      BY <2>2, <3>1, QueryFails
  <2> QED
    BY <2>1, <2>3, <2>4
<1>4. CASE StartWithBadKey \/ ReceiveUnusable \/ IoError \/ TimeOut
  <2>1. stage # "Done" /\ requests' = requests
    BY <1>4 DEF StartWithBadKey, ReceiveUnusable, Receiving, IoError, TimeOut, Waiting,
                Inv, TypeOK
  <2>2. outcome.kind = "Pending"
    BY <2>1 DEF Inv, TypeOK
  <2>3. outcome'.kind \in {"BadChallenge", "Stun"}
    <3>1. CASE StartWithBadKey
      BY <3>1 DEF StartWithBadKey, Finish
    <3>2. CASE ReceiveUnusable
      BY <3>2 DEF ReceiveUnusable, Finish, Stun
    <3>3. CASE IoError \/ TimeOut
      BY <3>3 DEF IoError, TimeOut, Finish, Stun
    <3> QED
      BY <1>4, <3>1, <3>2, <3>3
  <2> QED
    BY <2>1, <2>2, <2>3, QueryFails
<1>5. CASE \/ Start \/ Discard \/ Serve \/ Rebind \/ Rebalance \/ Restart \/ Tick
           \/ UNCHANGED vars
  <2>1. requests' = requests /\ outcome' = outcome
    BY <1>5 DEF Start, Discard, Serve, Rebind, Rebalance, Restart, Tick, vars, client
  <2> QED
    BY <2>1, QueryStutters
<1> QED
  BY <1>1, <1>2, <1>3, <1>4, <1>5 DEF Next

(* The signed exchange implements the query its caller is promised.        *)
THEOREM ExchangeKeepsQuery == Spec => KeepsQuery
<1>1. Init => Query!Init
  <2> SUFFICES ASSUME Init PROVE Query!Init
    OBVIOUS
  <2>1. Asked = {} /\ Result = [kind |-> "pending"]
    BY DEF Init, Asked, MyRequests, Result
  <2> QED
    BY <2>1 DEF Query!Init, Query!Pending
<1> QED
  BY <1>1, NextQuery, ExchangeInvariant, PTL DEF Spec, KeepsQuery, Query!Spec

-----------------------------------------------------------------------------
(* That what the node signs first is a dig-stun challenge: once a signed   *)
(* datagram has left, or the client waits to see how its first fared,      *)
(* there is the challenge it answered; and there is while the first is     *)
(* being sent.  Requests and replies are never taken back, so only the     *)
(* steps that sign and send have to be looked at.                          *)

DigChallenged ==
  \E first \in MyRequests, r \in replies :
    /\ r.type = "error" /\ r.src = "server" /\ r.txid = 1
    /\ r.realm = "dig-stun"
    /\ first.txid = 2 /\ first.nonce = r.nonce

Signed == \E q \in MyRequests : q.kind = "signed"

DigToAnswer == \E r \in replies :
                 /\ r.type = "error" /\ r.src = "server" /\ r.txid = 1
                 /\ r.realm = "dig-stun" /\ sending.nonce = r.nonce

SignedForDig == /\ Signed \/ stage = "AfterFirstChallenge" => DigChallenged
                /\ Sending /\ stage = "Initial" => DigToAnswer

LEMMA ChallengeStays ==
  ASSUME DigChallenged, MyRequests \subseteq MyRequests', replies \subseteq replies'
  PROVE  DigChallenged'
BY DEF DigChallenged

LEMMA NothingSigned ==
  ASSUME SignedForDig, MyRequests' = MyRequests, replies \subseteq replies',
         stage' = "AfterFirstChallenge" => stage = "AfterFirstChallenge",
         stage' = "Initial" => stage = "Initial" /\ sending' = sending
  PROVE  SignedForDig'
<1>1. Signed' \/ stage' = "AfterFirstChallenge" => DigChallenged'
  BY ChallengeStays DEF SignedForDig, Signed
<1>2. Sending' /\ stage' = "Initial" => DigToAnswer'
  BY DEF SignedForDig, DigToAnswer, Sending
<1> QED
  BY <1>1, <1>2 DEF SignedForDig

LEMMA NextSignedForDig == Inv /\ SignedForDig /\ [Next]_vars => SignedForDig'
<1> SUFFICES ASSUME Inv, SignedForDig, [Next]_vars PROVE SignedForDig'
  OBVIOUS
<1>1. CASE ReceiveFirstChallenge
  <2>1. PICK reply \in replies :
          /\ reply.type = "error" /\ Genuine(reply)
          /\ \/ /\ SendSigned(reply.nonce, "AfterFirstChallenge")
                /\ reply.realm = "dig-stun"
             \/ Finish(Refused(reply.code))
    BY <1>1 DEF ReceiveFirstChallenge
  <2>2. /\ replies' = replies /\ MyRequests' = MyRequests
        /\ stage = "Initial" /\ ~Sending /\ txid = 1
    BY <1>1 DEF ReceiveFirstChallenge, Receiving, Waiting, Inv, Numbered, Departed, MyRequests
  <2>3. CASE SendSigned(reply.nonce, "AfterFirstChallenge") /\ reply.realm = "dig-stun"
    <3>1. sending'.nonce = reply.nonce /\ stage' = "Initial"
      BY <2>2, <2>3 DEF SendSigned, ToSend
    <3>2. DigToAnswer'
      BY <2>1, <2>2, <2>3, <3>1 DEF DigToAnswer, Genuine
    <3> QED
      BY <2>2, <3>1, <3>2, ChallengeStays DEF SignedForDig, Signed
  <2>4. CASE Finish(Refused(reply.code))
    BY <2>2, <2>4, NothingSigned DEF Finish
  <2> QED
    BY <2>1, <2>3, <2>4
<1>2. CASE SendDone
  <2>1. /\ MyRequests' = MyRequests \union {Request}
        /\ Request.txid = txid /\ Request.nonce = sending.nonce
        /\ Request.kind = sending.kind
    BY <1>2, OneMoreRequest
  <2>2. /\ Sending /\ ~Sending' /\ replies' = replies
        /\ stage' \in {sending.next, "Late"}
    BY <1>2 DEF SendDone, Sending, NoSend
  <2>3. MyRequests \subseteq MyRequests'
    BY <2>1
  <2>4. CASE stage = "Idle"
    <3>1. sending.kind = "identity" /\ sending.next = "Initial"
      BY <2>2, <2>4 DEF Inv, Numbered
    <3>2. Signed' => Signed
      BY <2>1, <3>1 DEF Signed
    <3> QED
      BY <2>2, <2>3, <3>1, <3>2, ChallengeStays DEF SignedForDig
  <2>5. CASE stage = "Initial"
    <3>1. txid = 2
      BY <2>2, <2>5 DEF Inv, Numbered, Departed, TypeOK
    <3>2. DigChallenged'
      BY <2>1, <2>2, <2>5, <3>1 DEF SignedForDig, DigToAnswer, DigChallenged
    <3> QED
      BY <2>2, <3>2 DEF SignedForDig
  <2>6. CASE stage = "AfterFirstChallenge"
    BY <2>2, <2>3, <2>6, ChallengeStays DEF SignedForDig
  <2> QED
    BY <2>2, <2>4, <2>5, <2>6 DEF Inv, TypeOK
<1>3. CASE ReceiveStaleNonce
  <2>1. /\ MyRequests' = MyRequests /\ replies' = replies
        /\ stage' \in {"AfterFirstChallenge", "Done"} /\ stage = "AfterFirstChallenge"
    BY <1>3 DEF ReceiveStaleNonce, SendSigned, Finish, MyRequests
  <2> QED
    BY <2>1, NothingSigned
<1>4. CASE ReceiveSuccess \/ ReceiveLastRefusal \/ StartWithBadKey \/ ReceiveUnusable
           \/ IoError \/ TimeOut
  <2>1. requests' = requests /\ replies' = replies /\ stage' = "Done"
    BY <1>4 DEF ReceiveSuccess, ReceiveLastRefusal, StartWithBadKey, ReceiveUnusable,
                IoError, TimeOut, Finish
  <2> QED
    BY <2>1, NothingSigned DEF MyRequests
<1>5. CASE Discard \/ Serve \/ Rebind \/ Rebalance \/ Restart \/ Tick \/ UNCHANGED vars
  <2>1. /\ requests' = requests /\ replies \subseteq replies'
        /\ stage' = stage /\ sending' = sending
    BY <1>5 DEF Discard, Serve, Rebind, Rebalance, Restart, Tick, vars, client
  <2> QED
    BY <2>1, NothingSigned DEF MyRequests
<1>6. CASE Start
  <2>1. requests' = requests /\ replies' = replies /\ stage' = "Idle"
    BY <1>6 DEF Start
  <2> QED
    BY <2>1, NothingSigned DEF MyRequests
<1> QED
  BY <1>1, <1>2, <1>3, <1>4, <1>5, <1>6 DEF Next

(* signed_client.rs:125-142: whichever servers answer at the address, what *)
(* the node signs first is the nonce of a challenge of the dig-stun realm. *)
THEOREM ExchangeSignsForDigFirst == Spec => []SignsForDigFirst
<1>1. Init => SignedForDig
  BY DEF Init, SignedForDig, Signed, MyRequests
<1>2. SignedForDig => SignsForDigFirst
  BY DEF SignedForDig, Signed, SignsForDigFirst, DigChallenged
<1> QED
  BY <1>1, <1>2, NextSignedForDig, ExchangeInvariant, PTL DEF Spec

-----------------------------------------------------------------------------
(* Arithmetic of nonce buckets.                                            *)

Bucket(t) == t \div BucketTicks

LEMMA BucketsGrow ==
  ASSUME NEW s \in Nat, NEW t \in Nat, s <= t
  PROVE  Bucket(s) \in Nat /\ Bucket(t) \in Nat /\ Bucket(s) <= Bucket(t)
BY CredentialAssumption DEF Bucket

(* A nonce that has gone stale was issued two whole buckets before, at least. *)
LEMMA StaleIsOld ==
  ASSUME NEW s \in Nat, NEW t \in Nat, s <= t,
         BucketAt(s) \notin { BucketAt(t), (BucketAt(t) + BucketWrap - 1) % BucketWrap }
  PROVE  Bucket(s) + 2 <= Bucket(t)
<1>1. Bucket(s) \in Nat /\ Bucket(t) \in Nat /\ Bucket(s) <= Bucket(t)
  BY BucketsGrow
<1>2. Bucket(s) # Bucket(t)
  BY DEF Bucket, BucketAt
<1>3. Bucket(t) # Bucket(s) + 1
  <2> SUFFICES ASSUME Bucket(t) = Bucket(s) + 1 PROVE FALSE
    OBVIOUS
  <2>1. BucketAt(t) = (Bucket(s) + 1) % BucketWrap /\ BucketAt(s) = Bucket(s) % BucketWrap
    BY DEF Bucket, BucketAt
  <2>2. BucketWrap \in Nat \ {0}
    BY CredentialAssumption
  <2>3. (BucketAt(t) + BucketWrap - 1) % BucketWrap = BucketAt(s)
    BY <1>1, <2>1, <2>2, PreviousResidue
  <2> QED
    BY <2>3
<1> QED
  BY <1>1, <1>2, <1>3

(* From one bucket to the n-th after it more than n - 1 whole buckets pass. *)
LEMMA BucketsApart ==
  ASSUME NEW s \in Nat, NEW t \in Nat, NEW n \in Nat \ {0}, Bucket(s) + n <= Bucket(t)
  PROVE  t - s >= (n - 1) * BucketTicks + 1
<1> DEFINE B == BucketTicks
<1> PICK p, q, x, y : p = Bucket(s) /\ q = Bucket(t) /\ x = s % B /\ y = t % B
  OBVIOUS
<1>1. /\ B \in Nat \ {0} /\ p \in Nat /\ q \in Nat
      /\ x \in Int /\ y \in Int /\ x < B /\ y >= 0
      /\ s = B * p + x /\ t = B * q + y
  BY CredentialAssumption, Division DEF Bucket
<1>2. p + (n - 1) < q /\ p + (n - 1) \in Nat
  BY <1>1
<1>3. B * (p + (n - 1)) + B <= B * q
  BY <1>1, <1>2, Precedes
<1>4. B * (p + (n - 1)) = B * p + (n - 1) * B
  BY <1>1
<1> PICK bp, bq, bn : bp = B * p /\ bq = B * q /\ bn = (n - 1) * B
  OBVIOUS
<1>5. /\ bp \in Int /\ bq \in Int /\ bn \in Int /\ B \in Int
      /\ bp + bn + B <= bq /\ s = bp + x /\ t = bq + y
  BY <1>1, <1>3, <1>4
<1>6. t - s >= bn + 1
  BY ONLY <1>1, <1>5
<1> QED
  BY <1>6

(* A nonce that is still fresh was issued less than two buckets ago, unless *)
(* the u32 bucket number has come round since.                              *)
THEOREM FreshIsRecent ==
  ASSUME NEW s \in Nat, NEW t \in Nat, s <= t, t - s <= (BucketWrap - 1) * BucketTicks,
         BucketAt(s) \in { BucketAt(t), (BucketAt(t) + BucketWrap - 1) % BucketWrap }
  PROVE  t - s < 2 * BucketTicks
<1> DEFINE B == BucketTicks
           W == BucketWrap
<1> PICK p, d, x, y : /\ p = Bucket(s) /\ d = Bucket(t) - Bucket(s)
                      /\ x = s % B /\ y = t % B
  OBVIOUS
<1>1. B \in Nat \ {0} /\ W \in Nat \ {0}
  BY CredentialAssumption
<1>2. p \in Nat /\ d \in Nat /\ Bucket(t) = p + d
  BY BucketsGrow
<1>3. d < W
  <2> SUFFICES ASSUME W <= d PROVE FALSE
    BY <1>1, <1>2
  <2>0. Bucket(s) + W <= Bucket(t)
    BY <1>1, <1>2
  <2>1. t - s >= (W - 1) * B + 1
    BY <1>1, <2>0, BucketsApart
  <2>2. (W - 1) * B \in Int /\ t - s \in Int
    BY <1>1
  <2> QED
    BY <2>1, <2>2
<1>4. d \in {0, 1}
  <2>1. BucketAt(s) = p % W /\ BucketAt(t) = (p + d) % W
    BY <1>2 DEF Bucket, BucketAt
  <2>2. CASE p % W = (p + d) % W
    BY <1>1, <1>2, <1>3, <2>2, SameResidue
  <2>3. CASE p % W = (((p + d) % W) + W - 1) % W /\ d > 0
    <3>1. d - 1 \in Nat /\ p + (d - 1) \in Nat /\ p + d = (p + (d - 1)) + 1
      BY <1>2, <2>3
    <3>2. (((p + d) % W) + W - 1) % W = (p + (d - 1)) % W
      BY <1>1, <3>1, PreviousResidue
    <3>3. d - 1 < W
      BY <1>1, <1>2, <1>3
    <3>4. d - 1 = 0
      BY <1>1, <1>2, <2>3, <3>1, <3>2, <3>3, SameResidue
    <3> QED
      BY <1>2, <3>4
  <2> QED
    BY <1>2, <2>1, <2>2, <2>3
<1>5. /\ x \in Int /\ y \in Int /\ x >= 0 /\ y < B
      /\ s = B * p + x /\ t = B * (p + d) + y
  BY <1>1, <1>2, Division DEF Bucket
<1> PICK bp, bq : bp = B * p /\ bq = B * (p + d)
  OBVIOUS
<1>6. bp \in Int /\ bq \in Int /\ bq <= bp + B
  <2>1. CASE d = 0
    <3>1. p + d = p
      BY <1>2, <2>1
    <3>2. bq = bp
      BY <3>1
    <3>3. bp \in Int /\ B \in Nat
      BY <1>1, <1>2
    <3> QED
      BY <3>2, <3>3
  <2>2. CASE d = 1
    BY <1>1, <1>2, <2>2
  <2> QED
    BY <1>4, <2>1, <2>2
<1>7. s = bp + x /\ t = bq + y
  BY <1>5
<1>8. t - s < 2 * B
  BY ONLY <1>1, <1>5, <1>6, <1>7
<1> QED
  BY <1>8

-----------------------------------------------------------------------------
(* What the server's reply to a request is, row by row of the table.       *)

CheckedNow(request) ==
  Check(secrets[route], request.nonce, Seen(request.from, route), now + Skew[route])
Challenging(request, code) ==
  Error(request.txid, code, "dig-stun",
        Issue(secrets[route], Seen(request.from, route), now + Skew[route]))

LEMMA DigReplyRows ==
  ASSUME NEW request, request.kind \in {"bare", "identity", "signed"}
  PROVE  \/ /\ request.kind = "bare" /\ Mode = "Advisory"
            /\ DigReply(request) = Success(request.txid, Seen(request.from, route))
         \/ /\ request.kind = "bare"
            /\ DigReply(request) = Error(request.txid, ERR_UNAUTHENTICATED, "none", NoNonce)
         \/ /\ request.kind = "identity"
            /\ DigReply(request) = Challenging(request, ERR_UNAUTHENTICATED)
         \/ /\ request.kind = "signed" /\ CheckedNow(request) = "Fresh" /\ request.verifies
            /\ DigReply(request) = Success(request.txid, Seen(request.from, route))
         \/ /\ request.kind = "signed" /\ CheckedNow(request) = "Fresh" /\ ~request.verifies
            /\ DigReply(request) = Challenging(request, ERR_UNAUTHENTICATED)
         \/ /\ request.kind = "signed" /\ CheckedNow(request) = "Stale"
            /\ DigReply(request) = Challenging(request, ERR_STALE_NONCE)
         \/ /\ request.kind = "signed" /\ CheckedNow(request) = "Invalid"
            /\ DigReply(request) = Challenging(request, ERR_UNAUTHENTICATED)
<1> DEFINE D == Decision(Mode, secrets[route], request, Seen(request.from, route),
                         now + Skew[route])
<1>1. DigReply(request) =
        CASE D.act = "Answer"    -> Success(request.txid, Seen(request.from, route))
          [] D.act = "Challenge" -> Challenging(request, D.code)
          [] D.act = "Refuse"    -> Error(request.txid, D.code, "none", NoNonce)
  BY DEF DigReply, Challenging
<1>2. /\ D = AnswerIt =>
           DigReply(request) = Success(request.txid, Seen(request.from, route))
      /\ \A code : D = Challenge(code) => DigReply(request) = Challenging(request, code)
      /\ \A code : D = Refuse(code) =>
           DigReply(request) = Error(request.txid, code, "none", NoNonce)
  BY <1>1 DEF AnswerIt, Challenge, Refuse
<1>3. CASE request.kind = "bare"
  <2>1. (Mode = "Advisory" /\ D = AnswerIt) \/ D = Refuse(ERR_UNAUTHENTICATED)
    BY <1>3, ExchangeAssumption DEF Decision, Decide
  <2> QED
    BY <1>2, <1>3, <2>1
<1>4. CASE request.kind = "identity"
  <2>1. D = Challenge(ERR_UNAUTHENTICATED)
    BY <1>4 DEF Decision, Decide
  <2> QED
    BY <1>2, <1>4, <2>1
<1>5. CASE request.kind = "signed"
  <2>1. CheckedNow(request) \in {"Fresh", "Stale", "Invalid"}
    BY DEF CheckedNow, Check
  <2>2. D = Decide(Mode, "signed", CheckedNow(request),
                   CheckedNow(request) = "Fresh" /\ request.verifies)
    BY <1>5 DEF Decision, CheckedNow
  <2>3. /\ CheckedNow(request) = "Fresh" /\ request.verifies => D = AnswerIt
        /\ CheckedNow(request) = "Fresh" /\ ~request.verifies =>
             D = Challenge(ERR_UNAUTHENTICATED)
        /\ CheckedNow(request) = "Stale" => D = Challenge(ERR_STALE_NONCE)
        /\ CheckedNow(request) = "Invalid" => D = Challenge(ERR_UNAUTHENTICATED)
    BY <2>2 DEF Decide
  <2> QED
    BY <1>2, <1>5, <2>1, <2>3
<1> QED
  BY <1>3, <1>4, <1>5

(* A request with an id of this exchange's is this exchange's.             *)
LEMMA NotOfAnother ==
  ASSUME NEW q \in requests, q.txid \in 0..3
  PROVE  q \in MyRequests
BY FreshTransactionIds DEF MyRequests

(* A nonce is signed: the datagram is made, and its send awaited.          *)
Signs(nonce) == /\ Sending' /\ sending'.kind = "signed" /\ sending'.nonce = nonce
                /\ txid \in 1..2 /\ txid' = txid + 1
                /\ outcome' = outcome

(* An error that is received is signed again or ends the exchange.         *)
LEMMA ErrorReceived ==
  ASSUME Inv, ReceiveFirstChallenge \/ ReceiveStaleNonce \/ ReceiveLastRefusal
  PROVE  /\ ~Sending /\ requests' = requests
         /\ \E reply \in replies :
              /\ reply.type = "error" /\ Genuine(reply)
              /\ \/ Signs(reply.nonce)
                 \/ /\ ~Sending' /\ outcome' = Refused(reply.code)
                    /\ \/ /\ txid = 1
                          /\ ~(/\ reply.code = ERR_UNAUTHENTICATED
                               /\ reply.realm = "dig-stun" /\ reply.nonce # NoNonce)
                       \/ txid = 2 /\ ~(reply.code = ERR_STALE_NONCE /\ reply.nonce # NoNonce)
                       \/ txid = 3
<1>0. /\ ~Sending /\ requests' = requests
      /\ \A nonce, next : SendSigned(nonce, next) /\ txid \in 1..2 => Signs(nonce)
      /\ \A how : Finish(how) => ~Sending' /\ outcome' = how
  BY DEF ReceiveFirstChallenge, ReceiveStaleNonce, ReceiveLastRefusal, Receiving, Waiting,
         SendSigned, Signs, ToSend, Finish, Sending, NoSend
<1>1. CASE ReceiveFirstChallenge
  <2>0. txid = 1
    BY <1>0, <1>1 DEF ReceiveFirstChallenge, Inv, Numbered, Departed
  <2>1. PICK reply \in replies :
         /\ reply.type = "error" /\ Genuine(reply)
         /\ \/ SendSigned(reply.nonce, "AfterFirstChallenge")
            \/ /\ Finish(Refused(reply.code))
               /\ ~(/\ reply.code = ERR_UNAUTHENTICATED
                    /\ reply.realm = "dig-stun" /\ reply.nonce # NoNonce)
    BY <1>1 DEF ReceiveFirstChallenge
  <2> QED
    BY <1>0, <2>0, <2>1
<1>2. CASE ReceiveStaleNonce
  <2>0. txid = 2
    BY <1>0, <1>2 DEF ReceiveStaleNonce, Inv, Numbered, Departed
  <2>1. PICK reply \in replies :
         /\ reply.type = "error" /\ Genuine(reply)
         /\ \/ SendSigned(reply.nonce, "AfterReSign")
            \/ /\ Finish(Refused(reply.code))
               /\ ~(reply.code = ERR_STALE_NONCE /\ reply.nonce # NoNonce)
    BY <1>2 DEF ReceiveStaleNonce
  <2> QED
    BY <1>0, <2>0, <2>1
<1>3. CASE ReceiveLastRefusal
  <2>0. txid = 3
    BY <1>0, <1>3 DEF ReceiveLastRefusal, Inv, Numbered, Departed
  <2>1. PICK reply \in replies :
         /\ reply.type = "error" /\ Genuine(reply)
         /\ Finish(Refused(reply.code))
    BY <1>3 DEF ReceiveLastRefusal
  <2> QED
    BY <1>0, <2>0, <2>1
<1> QED
  BY <1>0, <1>1, <1>2, <1>3

-----------------------------------------------------------------------------
(* Where a nonce comes from.  Every error of this exchange answers one of  *)
(* its requests and was made since it started; its nonce, if it carries a  *)
(* tag, was issued for that request's source by a server that had the      *)
(* secret; and every nonce signed, sent or being sent, is one of an error  *)
(* received.  The clock goes past the deadline only as far as a send takes *)
(* it.  A secret                                                           *)
(* drawn at a restart has one owner.                                       *)

HadSecret(a, v) ==
  \/ v = Secret[a]
  \/ v \in (-upsets)..(-1) /\ \A b \in Replicas : secrets[b] = v => b = a

SecretsKnown == \A a \in Replicas : HadSecret(a, secrets[a])

Elapsed == /\ started <= now /\ now <= started + Timeout + MaxLate
           /\ stage = "Idle" /\ ~Sending => started = now

OurError(r) == r.type = "error" /\ r.src = "server" /\ r.txid \in 0..3

IssuedTo(r, asking) ==
  \E a \in Replicas, v \in Int \ {0} :
    HadSecret(a, v) /\ r.nonce = Issue(v, Seen(asking.from, a), r.at + Skew[a])

ErrorsTraced ==
  \A r \in replies : OurError(r) =>
    /\ r.at \in started..now
    /\ \E asking \in MyRequests :
         asking.txid = r.txid /\ (r.nonce.secret = 0 \/ IssuedTo(r, asking))

Received(nonce) == \E c \in replies : OurError(c) /\ c.nonce = nonce

NoncesTraced ==
  /\ \A q \in MyRequests : q.kind = "signed" => Received(q.nonce)
  /\ Sending /\ sending.kind = "signed" => Received(sending.nonce)

Provenance == SecretsKnown /\ Elapsed /\ ErrorsTraced /\ NoncesTraced

LEMMA InitProvenance == Init => Provenance
<1> SUFFICES ASSUME Init PROVE Provenance
  OBVIOUS
<1>1. SecretsKnown
  BY DEF Init, SecretsKnown, HadSecret
<1>2. Elapsed
  BY ExchangeAssumption DEF Init, Elapsed
<1>3. ErrorsTraced
  BY FreshTransactionIds DEF Init, ErrorsTraced, OurError
<1>4. NoncesTraced
  BY DEF Init, NoncesTraced, MyRequests, Sending, NoSend
<1> QED
  BY <1>1, <1>2, <1>3, <1>4 DEF Provenance

(* Errors stay traced while requests are kept, time only grows and no      *)
(* secret is forgotten.                                                    *)
LEMMA ErrorsStayTraced ==
  ASSUME Inv, ErrorsTraced, MyRequests \subseteq MyRequests', replies' = replies,
         started' = started, now' \in Nat, now <= now',
         \A a \in Replicas : \A v : HadSecret(a, v) => HadSecret(a, v)'
  PROVE  ErrorsTraced'
<1> SUFFICES ASSUME NEW r \in replies, OurError(r)
             PROVE  /\ r.at \in started..now'
                    /\ \E asking \in MyRequests' :
                         asking.txid = r.txid /\ (r.nonce.secret = 0 \/ IssuedTo(r, asking)')
  BY DEF ErrorsTraced, OurError
<1>1. r.at \in started..now'
  BY DEF ErrorsTraced, Inv, InTime
<1>2. PICK asking \in MyRequests :
        asking.txid = r.txid /\ (r.nonce.secret = 0 \/ IssuedTo(r, asking))
  BY DEF ErrorsTraced
<1>3. IssuedTo(r, asking) => IssuedTo(r, asking)'
  BY DEF IssuedTo
<1> QED
  BY <1>1, <1>2, <1>3

LEMMA NoncesStayTraced ==
  ASSUME NoncesTraced, MyRequests' = MyRequests, replies \subseteq replies',
         ~Sending' \/ sending' = sending
  PROVE  NoncesTraced'
BY DEF NoncesTraced, Received, Sending

LEMMA SecretsKept ==
  ASSUME UNCHANGED << secrets, upsets >>
  PROVE  /\ \A a \in Replicas : \A v : HadSecret(a, v) => HadSecret(a, v)'
         /\ SecretsKnown => SecretsKnown'
BY DEF HadSecret, SecretsKnown

(* What Rebind, Rebalance and Restart do to secrets: a restarted replica   *)
(* draws one nobody has or had.                                            *)
LEMMA UpsetKeepsSecrets ==
  ASSUME Inv, SecretsKnown, Rebind \/ Rebalance \/ Restart
  PROVE  /\ \A a \in Replicas : \A v : HadSecret(a, v) => HadSecret(a, v)'
         /\ SecretsKnown'
<1>1. upsets \in Nat /\ upsets' = upsets + 1
  BY ExchangeAssumption DEF Inv, TypeOK, Rebind, Rebalance, Restart, Upset
<1>2. \A v : v \in (-upsets)..(-1) => v \in (-upsets')..(-1) /\ v # -1 - upsets
  BY <1>1
<1>3. CASE secrets' = secrets
  BY <1>2, <1>3 DEF HadSecret, SecretsKnown
<1>4. CASE Restart
  <2>1. PICK r \in Replicas : secrets' = [secrets EXCEPT ![r] = -1 - upsets]
    BY <1>4 DEF Restart
  <2>2. \A b \in Replicas : secrets'[b] = IF b = r THEN -1 - upsets ELSE secrets[b]
    BY <2>1 DEF Inv, TypeOK
  <2>3. \A a \in Replicas : \A v : HadSecret(a, v) => HadSecret(a, v)'
    <3> SUFFICES ASSUME NEW a \in Replicas, NEW v, HadSecret(a, v), v # Secret[a]
                 PROVE  v \in (-upsets')..(-1) /\ \A b \in Replicas : secrets'[b] = v => b = a
      BY DEF HadSecret
    <3> QED
      BY <1>2, <2>2 DEF HadSecret
  <2>4. ASSUME NEW a \in Replicas PROVE HadSecret(a, secrets[a])'
    <3>1. CASE a # r
      BY <2>2, <2>3, <3>1 DEF SecretsKnown
    <3>2. CASE a = r
      <4>1. secrets'[a] = -1 - upsets /\ -1 - upsets \in (-upsets')..(-1)
        BY <1>1, <2>2, <3>2
      <4>2. \A b \in Replicas : secrets'[b] = -1 - upsets => b = a
        <5> SUFFICES ASSUME NEW b \in Replicas, b # a, secrets[b] = -1 - upsets
                     PROVE  FALSE
          BY <2>2, <3>2
        <5>1. HadSecret(b, -1 - upsets)
          BY DEF SecretsKnown
        <5>2. Secret[b] \in Nat \ {0}
          BY ExchangeAssumption
        <5> QED
          BY <1>1, <1>2, <5>1, <5>2 DEF HadSecret
      <4> QED
        BY <4>1, <4>2 DEF HadSecret
    <3> QED
      BY <3>1, <3>2
  <2> QED
    BY <2>3, <2>4 DEF SecretsKnown
<1> QED
  BY <1>3, <1>4 DEF Rebind, Rebalance, servers

(* The errors a server makes are traced.                                   *)
LEMMA ServeTraced ==
  ASSUME Inv, Provenance, Serve
  PROVE  ErrorsTraced'
<1> USE DEF Provenance
<1>1. PICK request, reply :
        /\ request \in requests
        /\ replies' = replies \union {reply}
        /\ \/ Kind[route] = "dig" /\ reply = DigReply(request)
           \/ reply = Success(request.txid, request.from)
           \/ \E e \in ForeignErrors :
                reply = Error(request.txid, e.code, e.realm, e.nonce)
  BY DEF Serve
<1>2. UNCHANGED << requests, secrets, upsets, started, now, stage >>
  BY DEF Serve, servers, client
<1>3. /\ MyRequests' = MyRequests
      /\ \A r, asking : IssuedTo(r, asking) => IssuedTo(r, asking)'
  BY <1>2 DEF MyRequests, IssuedTo, HadSecret
<1>4. ASSUME OurError(reply)
      PROVE  /\ reply.at \in started..now
             /\ \E asking \in MyRequests : /\ asking.txid = reply.txid
                                           /\ reply.nonce.secret = 0 \/ IssuedTo(reply, asking)
  <2>1. reply.type = "error" /\ reply.txid \in 0..3
    BY <1>4 DEF OurError
  <2>2. request.kind \in {"bare", "identity", "signed"}
    BY <1>1 DEF Inv, TypeOK
  <2>3. \/ \E code : Kind[route] = "dig" /\ reply = Challenging(request, code)
        \/ \E code, realm, nonce :
             nonce.secret = 0 /\ reply = Error(request.txid, code, realm, nonce)
    <3>1. NoNonce.secret = 0
      BY DEF NoNonce
    <3>2. CASE reply = DigReply(request) /\ Kind[route] = "dig"
      <4>1. \A addr : Success(request.txid, addr).type # "error"
        BY DEF Success
      <4> QED
        BY <2>1, <2>2, <3>1, <3>2, <4>1, DigReplyRows
    <3>3. CASE reply = Success(request.txid, request.from)
      BY <2>1, <3>3 DEF Success
    <3>4. CASE \E e \in ForeignErrors :
                 reply = Error(request.txid, e.code, e.realm, e.nonce)
      BY <3>4, UnforgeableTags
    <3> QED
      BY <1>1, <3>2, <3>3, <3>4
  <2>4. reply.txid = request.txid /\ reply.at = now
    BY <2>3 DEF Challenging, Error
  <2>5. request \in MyRequests
    BY <1>1, <2>1, <2>4, NotOfAnother
  <2>6. reply.nonce.secret = 0 \/ IssuedTo(reply, request)
    <3>1. CASE \E code : reply = Challenging(request, code)
      <4>1. reply.nonce = Issue(secrets[route], Seen(request.from, route), reply.at + Skew[route])
        BY <2>4, <3>1 DEF Challenging, Error
      <4>2. route \in Replicas /\ secrets[route] \in Int \ {0}
        BY DEF Inv, TypeOK
      <4> QED
        BY <4>1, <4>2 DEF IssuedTo, SecretsKnown
    <3>2. CASE \E code, realm, nonce :
                 nonce.secret = 0 /\ reply = Error(request.txid, code, realm, nonce)
      BY <3>2 DEF Error
    <3> QED
      BY <2>3, <3>1, <3>2
  <2>7. now \in started..now
    BY DEF Inv, InTime, Elapsed
  <2> QED
    BY <2>4, <2>5, <2>6, <2>7
<1>5. ASSUME NEW r \in replies', OurError(r)
      PROVE  /\ r.at \in started..now
             /\ \E asking \in MyRequests : /\ asking.txid = r.txid
                                           /\ r.nonce.secret = 0 \/ IssuedTo(r, asking)
  BY <1>1, <1>4, <1>5 DEF ErrorsTraced
<1> QED
  BY <1>2, <1>3, <1>5 DEF ErrorsTraced, OurError

LEMMA NextProvenance == Inv /\ Inv' /\ Provenance /\ [Next]_vars => Provenance'
<1> SUFFICES ASSUME Inv, Inv', Provenance, [Next]_vars PROVE Provenance'
  OBVIOUS
<1> USE DEF Provenance
<1>0. started \in Nat /\ now \in Nat /\ started' \in Nat /\ now' \in Nat
  BY DEF Inv, InTime
<1>1. CASE Start
  <2>1. /\ Sending' /\ sending'.kind = "identity" /\ MyRequests' = MyRequests
        /\ UNCHANGED << replies, secrets, upsets, now >> /\ started' = started
    BY <1>1 DEF Start, ToSend, Sending, MyRequests, servers, Elapsed
  <2>2. ErrorsTraced'
    BY <1>0, <2>1, SecretsKept, ErrorsStayTraced
  <2>3. NoncesTraced'
    BY <2>1 DEF NoncesTraced, Received, OurError
  <2>4. Elapsed'
    BY <2>1 DEF Elapsed
  <2> QED
    BY <2>1, <2>2, <2>3, <2>4, SecretsKept
<1>2. CASE ReceiveFirstChallenge \/ ReceiveStaleNonce \/ ReceiveLastRefusal
  <2>1. PICK reply \in replies :
          /\ reply.type = "error" /\ Genuine(reply)
          /\ \/ sending'.nonce = reply.nonce
             \/ ~Sending'
    BY <1>2, ErrorReceived DEF Signs
  <2>2. /\ UNCHANGED << requests, replies, secrets, upsets, now, started >>
        /\ MyRequests' = MyRequests
    BY <1>2 DEF ReceiveFirstChallenge, ReceiveStaleNonce, ReceiveLastRefusal, servers,
                MyRequests
  <2>3. OurError(reply)
    BY <2>1 DEF OurError, Genuine, Inv, TypeOK
  <2>4. ErrorsTraced'
    BY <1>0, <2>2, SecretsKept, ErrorsStayTraced
  <2>5. NoncesTraced'
    <3>1. Sending' => Received(sending'.nonce)
      BY <2>1, <2>3 DEF Received
    <3> QED
      BY <2>2, <3>1 DEF NoncesTraced, Received, OurError
  <2>6. Elapsed'
    <3>1. stage' # "Idle"
      BY <1>2 DEF ReceiveFirstChallenge, ReceiveStaleNonce, ReceiveLastRefusal, SendSigned, Finish
    <3> QED
      BY <2>2, <3>1 DEF Elapsed
  <2> QED
    BY <2>2, <2>4, <2>5, <2>6, SecretsKept
<1>7. CASE SendDone
  <2>1. /\ MyRequests' = MyRequests \union {Request}
        /\ Request.kind = sending.kind /\ Request.nonce = sending.nonce
    BY <1>7, OneMoreRequest
  <2>2. /\ UNCHANGED << replies, secrets, upsets, now, started >>
        /\ Sending /\ ~Sending' /\ stage' # "Idle"
    BY <1>7 DEF SendDone, servers, Sending, NoSend, Inv, Numbered
  <2>3. ErrorsTraced'
    BY <1>0, <2>1, <2>2, SecretsKept, ErrorsStayTraced
  <2>4. NoncesTraced'
    BY <2>1, <2>2 DEF NoncesTraced, Received, OurError
  <2>5. Elapsed'
    BY <2>2 DEF Elapsed
  <2> QED
    BY <2>2, <2>3, <2>4, <2>5, SecretsKept
<1>3. CASE \/ ReceiveSuccess \/ StartWithBadKey \/ ReceiveUnusable \/ IoError \/ TimeOut
           \/ Discard \/ UNCHANGED vars
  <2>1. UNCHANGED << requests, replies, secrets, upsets, now >>
    BY <1>3 DEF ReceiveSuccess, StartWithBadKey, ReceiveUnusable, IoError, TimeOut,
                Discard, vars, servers
  <2>2. /\ started' = started
        /\ \/ ~Sending' /\ stage' = "Done"
           \/ sending' = sending /\ stage' = stage
    <3>1. CASE StartWithBadKey
      BY <1>0, <3>1 DEF StartWithBadKey, Finish, Elapsed, Sending, NoSend
    <3>2. CASE ReceiveSuccess \/ ReceiveUnusable \/ IoError \/ TimeOut
      BY <3>2 DEF ReceiveSuccess, ReceiveUnusable, IoError, TimeOut, Finish, Sending, NoSend
    <3>3. CASE Discard \/ UNCHANGED vars
      BY <3>3 DEF Discard, vars, client
    <3> QED
      BY <1>3, <3>1, <3>2, <3>3
  <2>3. MyRequests' = MyRequests
    BY <2>1 DEF MyRequests
  <2>4. ErrorsTraced' /\ NoncesTraced'
    BY <1>0, <2>1, <2>2, <2>3, SecretsKept, ErrorsStayTraced, NoncesStayTraced
  <2>5. Elapsed'
    BY <2>1, <2>2 DEF Elapsed, Sending
  <2> QED
    BY <2>1, <2>4, <2>5, SecretsKept
<1>4. CASE Serve
  <2>1. UNCHANGED << requests, secrets, upsets, now, started, stage, sending >>
        /\ replies \subseteq replies'
    BY <1>4 DEF Serve, servers, client
  <2>2. MyRequests' = MyRequests
    BY <2>1 DEF MyRequests
  <2>3. NoncesTraced'
    BY <2>1, <2>2, NoncesStayTraced
  <2>4. Elapsed'
    BY <2>1 DEF Elapsed, Sending
  <2> QED
    BY <1>4, <2>1, <2>3, <2>4, SecretsKept, ServeTraced
<1>5. CASE Rebind \/ Rebalance \/ Restart
  <2>1. UNCHANGED << requests, replies, now, started, stage, sending >>
    BY <1>5 DEF Rebind, Rebalance, Restart, client
  <2>2. MyRequests' = MyRequests
    BY <2>1 DEF MyRequests
  <2>3. ErrorsTraced'
    BY <1>0, <1>5, <2>1, <2>2, UpsetKeepsSecrets, ErrorsStayTraced
  <2>4. NoncesTraced' /\ Elapsed'
    BY <2>1, <2>2, NoncesStayTraced DEF Elapsed, Sending
  <2> QED
    BY <1>5, <2>3, <2>4, UpsetKeepsSecrets
<1>6. CASE Tick
  <2>1. /\ UNCHANGED << requests, replies, secrets, upsets, started, stage, sending >>
        /\ now' = now + 1 /\ (stage # "Idle" \/ Sending)
    BY <1>6 DEF Tick, client, servers, Waiting
  <2>2. MyRequests' = MyRequests
    BY <2>1 DEF MyRequests
  <2>3. now <= now' /\ now' <= started + Timeout + MaxLate
    BY <1>0, <1>6, ExchangeAssumption DEF Tick, Inv, InTime
  <2>4. ErrorsTraced'
    BY <1>0, <2>1, <2>2, <2>3, SecretsKept, ErrorsStayTraced
  <2>5. NoncesTraced'
    BY <2>1, <2>2, NoncesStayTraced
  <2>6. Elapsed'
    BY <1>0, <2>1, <2>3 DEF Elapsed, Sending
  <2> QED
    BY <2>1, <2>4, <2>5, <2>6, SecretsKept
<1> QED
  BY <1>1, <1>2, <1>3, <1>4, <1>5, <1>6, <1>7 DEF Next

-----------------------------------------------------------------------------
(* What the deployment owes the proof: replicas that share a secret share  *)
(* the time too (from_secret, SPEC.md:885 and 910-911; nothing in the      *)
(* library compares their clocks), and no exchange, the sends it is blocked *)
(* in included, is so long that the u32 bucket number comes round in it.   *)
SharedClocks == \A a, b \in Replicas : Secret[a] = Secret[b] => Skew[a] = Skew[b]
BelowWrap    == Timeout + MaxLate <= (BucketWrap - 1) * BucketTicks

(* A secret that was issued with and is checked with now has one clock.    *)
LEMMA SameClock ==
  ASSUME Inv, SecretsKnown, SharedClocks, NEW a \in Replicas, HadSecret(a, secrets[route])
  PROVE  Skew[a] = Skew[route]
<1>1. route \in Replicas /\ HadSecret(route, secrets[route])
  BY DEF Inv, TypeOK, SecretsKnown
<1>2. CASE a = route
  BY <1>2
<1>3. CASE secrets[route] = Secret[a] /\ secrets[route] = Secret[route]
  BY <1>1, <1>3 DEF SharedClocks
<1>4. CASE a # route /\ ~(secrets[route] = Secret[a] /\ secrets[route] = Secret[route])
  <2>1. secrets[route] \in (-upsets)..(-1)
    BY <1>1, <1>4 DEF HadSecret
  <2>2. Secret[a] \in Nat \ {0} /\ Secret[route] \in Nat \ {0} /\ upsets \in Nat
    BY <1>1, ExchangeAssumption DEF Inv, TypeOK
  <2>3. secrets[route] # Secret[a]
    BY <2>1, <2>2
  <2> QED
    BY <1>1, <1>4, <2>3 DEF HadSecret
<1> QED
  BY <1>2, <1>3, <1>4

LEMMA ServeProved ==
  ASSUME Inv, Provenance, SharedClocks, BelowWrap, Serve,
         Mode = "Required", Kind[route] = "dig",
         NEW r \in replies' \ replies, r.type = "success"
  PROVE  \E q \in requests, c \in replies, asking \in requests :
           /\ q.txid = r.txid /\ q.kind = "signed" /\ q.verifies
           /\ c.type = "error" /\ c.nonce = q.nonce /\ c.txid = asking.txid
           /\ c.nonce.secret = secrets[route]
           /\ FoldAddr(asking.from) = FoldAddr(q.from)
           /\ now - c.at < 2 * BucketTicks
<1> USE DEF Provenance
<1>1. PICK q \in requests : r = DigReply(q)
  BY DEF Serve
<1>2. q.kind \in {"bare", "identity", "signed"}
  BY DEF Inv, TypeOK
<1>3. /\ q.kind = "signed" /\ q.verifies /\ CheckedNow(q) = "Fresh"
      /\ r = Success(q.txid, Seen(q.from, route))
  <2>1. \A code, realm, nonce : Error(q.txid, code, realm, nonce).type = "error"
    BY DEF Error
  <2>2. \A code : Challenging(q, code).type = "error"
    BY <2>1 DEF Challenging
  <2> QED
    BY <1>1, <1>2, <2>1, <2>2, DigReplyRows
<1>4. q.txid = r.txid
  BY <1>3 DEF Success
<1>5. q \in MyRequests
  BY <1>3, FreshTransactionIds DEF MyRequests
<1>6. PICK c \in replies : OurError(c) /\ c.nonce = q.nonce
  BY <1>3, <1>5 DEF NoncesTraced, Received
<1>7. /\ q.nonce.secret = secrets[route]
      /\ q.nonce.source = FoldAddr(Seen(q.from, route))
      /\ q.nonce.bucket \in { BucketAt(now + Skew[route]),
                              (BucketAt(now + Skew[route]) + BucketWrap - 1) % BucketWrap }
  BY <1>3 DEF CheckedNow, Check
<1>8. route \in Replicas /\ secrets[route] \in Int \ {0}
  BY DEF Inv, TypeOK
<1>9. PICK asking \in MyRequests : asking.txid = c.txid /\ IssuedTo(c, asking)
  BY <1>6, <1>7, <1>8 DEF ErrorsTraced
<1>10. PICK a \in Replicas, v \in Int \ {0} :
         HadSecret(a, v) /\ c.nonce = Issue(v, Seen(asking.from, a), c.at + Skew[a])
  BY <1>9 DEF IssuedTo
<1>11. /\ q.nonce.secret = v /\ q.nonce.source = FoldAddr(Seen(asking.from, a))
       /\ q.nonce.bucket = BucketAt(c.at + Skew[a])
  BY <1>6, <1>10 DEF Issue
<1>12. Skew[a] = Skew[route]
  BY <1>7, <1>10, <1>11, SameClock
<1>13. FoldAddr(asking.from) = FoldAddr(q.from)
  <2>1. asking.from \in SocketAddr /\ q.from \in SocketAddr
    BY <1>5, <1>9, ExchangeAssumption DEF Inv, RequestsMine
  <2> QED
    BY <1>7, <1>11, <2>1, SeenFolds
<1>14. now - c.at < 2 * BucketTicks
  <2> DEFINE k == Skew[route]
  <2>1. k \in Nat /\ c.at \in Nat /\ now \in Nat /\ c.at <= now
    BY <1>6, <1>8, ExchangeAssumption DEF ErrorsTraced, Inv, InTime
  <2>2. now - c.at <= Timeout + MaxLate
    BY <1>6, <2>1, ExchangeAssumption DEF ErrorsTraced, Elapsed, Inv, InTime
  <2>3. (BucketWrap - 1) * BucketTicks \in Int /\ 2 * BucketTicks \in Int
    BY CredentialAssumption
  <2> HIDE DEF k
  <2>4. /\ c.at + k \in Nat /\ now + k \in Nat /\ c.at + k <= now + k
        /\ (now + k) - (c.at + k) = now - c.at
    BY <2>1
  <2>5. (now + k) - (c.at + k) <= (BucketWrap - 1) * BucketTicks
    BY <2>1, <2>2, <2>3, <2>4, ExchangeAssumption DEF BelowWrap
  <2>6. BucketAt(c.at + k) \in { BucketAt(now + k),
                                 (BucketAt(now + k) + BucketWrap - 1) % BucketWrap }
    BY <1>7, <1>11, <1>12 DEF k
  <2> QED
    BY <2>4, <2>5, <2>6, FreshIsRecent
<1>15. asking \in requests /\ c.type = "error"
  BY <1>6, <1>9 DEF OurError, MyRequests
<1> QED
  BY <1>3, <1>4, <1>6, <1>7, <1>9, <1>13, <1>14, <1>15

LEMMA ProvenanceInvariant == Spec => []Provenance
<1> QED
  BY InitProvenance, NextProvenance, ExchangeInvariant, PTL DEF Spec

(* nonce.rs:88-117 and decide.rs:57-75: a server that requires the         *)
(* credential answers a source only after that source was sent a nonce     *)
(* under the secret this server has now, less than two buckets before,     *)
(* though it keeps nothing of whom it challenged; for any number of        *)
(* replicas, rebindings, rebalancings and restarts.                        *)
THEOREM ExchangeProvedBeforeAnswer ==
  ASSUME SharedClocks, BelowWrap
  PROVE  Spec => ProvedBeforeAnswer
<1>1. Inv /\ Provenance /\ [Next]_vars =>
        [ Mode = "Required" /\ Kind[route] = "dig" =>
            \A r \in replies' \ replies :
              r.type = "success" =>
                \E q \in requests, c \in replies, asking \in requests :
                  /\ q.txid = r.txid /\ q.kind = "signed" /\ q.verifies
                  /\ c.type = "error" /\ c.nonce = q.nonce /\ c.txid = asking.txid
                  /\ c.nonce.secret = secrets[route]
                  /\ FoldAddr(asking.from) = FoldAddr(q.from)
                  /\ now - c.at < 2 * BucketTicks ]_vars
  <2> SUFFICES ASSUME Inv, Provenance, [Next]_vars,
                      Mode = "Required", Kind[route] = "dig",
                      NEW r \in replies' \ replies, r.type = "success"
               PROVE  \E q \in requests, c \in replies, asking \in requests :
                        /\ q.txid = r.txid /\ q.kind = "signed" /\ q.verifies
                        /\ c.type = "error" /\ c.nonce = q.nonce /\ c.txid = asking.txid
                        /\ c.nonce.secret = secrets[route]
                        /\ FoldAddr(asking.from) = FoldAddr(q.from)
                        /\ now - c.at < 2 * BucketTicks
    OBVIOUS
  <2>1. Serve
    BY DEF Next, vars, client, Start, StartWithBadKey, SendDone, Discard, ReceiveSuccess,
           ReceiveFirstChallenge, ReceiveStaleNonce, ReceiveLastRefusal, ReceiveUnusable,
           IoError, TimeOut, Rebind, Rebalance, Restart, Tick
  <2> QED
    BY <2>1, ServeProved
<1> QED
  BY <1>1, ExchangeInvariant, ProvenanceInvariant, PTL DEF Spec, ProvedBeforeAnswer

-----------------------------------------------------------------------------
(* A steady path: a DIG server asked from one source, and signatures that  *)
(* verify.  Each nonce is what that server issued for that source; a nonce *)
(* refused as stale is two buckets older than the one that replaces it, so *)
(* the answers to datagrams 1, 2 and 3 are 0, 2 and 4 buckets from the     *)
(* start, and only the last of them is a refusal.                          *)

Steady == /\ Kind[route] = "dig" /\ upsets = 0
          /\ \A q \in MyRequests : q.kind = "signed" => q.verifies

Bucketed(t)        == Bucket(t + Skew[route])
IssuedAt(nonce, t) == nonce = Issue(secrets[route], Seen(mapping, route), t + Skew[route])

SteadyRequests ==
  \A q \in MyRequests :
    /\ q.from = mapping /\ q.txid \in 1..3
    /\ q.kind = IF q.txid = 1 THEN "identity" ELSE "signed"
    /\ q.txid > 1 => \E t \in started..now :
         IssuedAt(q.nonce, t) /\ Bucketed(started) + 2 * (q.txid - 2) <= Bucketed(t)

SteadySending ==
  Sending /\ txid > 1 => \E t \in started..now :
    IssuedAt(sending.nonce, t) /\ Bucketed(started) + 2 * (txid - 2) <= Bucketed(t)

SteadyErrors ==
  \A r \in replies : OurError(r) =>
    /\ r.at \in started..now /\ IssuedAt(r.nonce, r.at) /\ r.txid \in 1..3
    /\ r.txid = 1 => r.code = ERR_UNAUTHENTICATED /\ r.realm = "dig-stun"
    /\ r.txid > 1 => r.code = ERR_STALE_NONCE
    /\ Bucketed(started) + 2 * (r.txid - 1) <= Bucketed(r.at)

SteadyOutcome ==
  outcome.kind = "Refused" =>
    outcome.code = ERR_STALE_NONCE /\ now - started >= 3 * BucketTicks + 1

SteadyInv == Steady => SteadyRequests /\ SteadySending /\ SteadyErrors /\ SteadyOutcome

(* Nothing was upset in a step that leaves the path steady, and no request *)
(* was taken back.                                                         *)
LEMMA SteadyBefore ==
  ASSUME Inv, [Next]_vars, Steady'
  PROVE  /\ UNCHANGED << upsets, mapping, route, secrets >>
         /\ MyRequests \subseteq MyRequests' /\ Steady
<1>1. upsets \in Nat /\ upsets' = 0
  BY ExchangeAssumption DEF Inv, TypeOK, Steady
<1>2. ~Rebind /\ ~Rebalance /\ ~Restart
  BY <1>1 DEF Rebind, Rebalance, Restart, Upset
<1>3. /\ UNCHANGED << upsets, mapping, route, secrets >>
      /\ requests \subseteq requests'
  BY <1>2 DEF Next, vars, client, servers, Start, StartWithBadKey, SendDone, Discard, ReceiveSuccess,
              ReceiveFirstChallenge, ReceiveStaleNonce, ReceiveLastRefusal, ReceiveUnusable,
              IoError, TimeOut, Serve, Tick, SendSigned
<1>4. MyRequests \subseteq MyRequests'
  BY <1>3 DEF MyRequests
<1> QED
  BY <1>1, <1>3, <1>4 DEF Steady

(* The path is the same after such a step.                                 *)
LEMMA SamePath ==
  ASSUME UNCHANGED << mapping, route, secrets, started >>
  PROVE  /\ \A nonce, t : IssuedAt(nonce, t)' = IssuedAt(nonce, t)
         /\ \A t : Bucketed(t)' = Bucketed(t)
BY DEF IssuedAt, Bucketed

LEMMA BucketedType ==
  ASSUME Inv, NEW s \in Nat, NEW t \in Nat, s <= t
  PROVE  Bucketed(s) \in Nat /\ Bucketed(t) \in Nat /\ Bucketed(s) <= Bucketed(t)
<1>1. Skew[route] \in Nat
  BY ExchangeAssumption DEF Inv, TypeOK
<1>2. s + Skew[route] \in Nat /\ t + Skew[route] \in Nat /\ s + Skew[route] <= t + Skew[route]
  BY <1>1
<1> QED
  BY <1>2, BucketsGrow DEF Bucketed

LEMMA SteadyStays ==
  ASSUME Inv, UNCHANGED << mapping, route, secrets, started, replies >>,
         MyRequests' = MyRequests, now' \in Nat, now <= now'
  PROVE  /\ SteadyRequests => SteadyRequests'
         /\ SteadyErrors => SteadyErrors'
<1>1. \A t : t \in started..now => t \in started..now'
  BY DEF Inv, InTime
<1>2. SteadyRequests => SteadyRequests'
  <2> SUFFICES ASSUME SteadyRequests, NEW q \in MyRequests
               PROVE  /\ q.from = mapping /\ q.txid \in 1..3
                      /\ q.kind = IF q.txid = 1 THEN "identity" ELSE "signed"
                      /\ q.txid > 1 => \E t \in started..now' :
                           /\ IssuedAt(q.nonce, t)
                           /\ Bucketed(started) + 2 * (q.txid - 2) <= Bucketed(t)
    BY SamePath DEF SteadyRequests
  <2> QED
    BY <1>1 DEF SteadyRequests
<1>3. SteadyErrors => SteadyErrors'
  BY <1>1, SamePath DEF SteadyErrors, OurError
<1> QED
  BY <1>2, <1>3

(* What is being sent keeps to the path, and is what has left then.        *)
LEMMA SendingStays ==
  ASSUME Inv, SteadySending, UNCHANGED << mapping, route, secrets, started, txid >>,
         ~Sending' \/ sending' = sending, now' \in Nat, now <= now'
  PROVE  SteadySending'
<1>1. \A t : t \in started..now => t \in started..now'
  BY DEF Inv, InTime
<1> SUFFICES ASSUME Sending', txid > 1
             PROVE  \E t \in started..now' :
                      /\ IssuedAt(sending.nonce, t)
                      /\ Bucketed(started) + 2 * (txid - 2) <= Bucketed(t)
  BY SamePath DEF SteadySending
<1> QED
  BY <1>1 DEF SteadySending, Sending

LEMMA SteadySends ==
  ASSUME Inv, SteadyRequests, SteadySending, SendDone
  PROVE  SteadyRequests'
<1>1. /\ UNCHANGED << mapping, route, secrets, started, now >>
      /\ Sending
  BY DEF SendDone, servers
<1>2. /\ MyRequests' = MyRequests \union {Request} /\ Request.from = mapping
      /\ Request.txid = txid /\ txid \in 1..3
      /\ Request.kind = sending.kind /\ Request.nonce = sending.nonce
  BY OneMoreRequest
<1>3. sending.kind = IF txid = 1 THEN "identity" ELSE "signed"
  BY <1>1 DEF Inv, Numbered, Departed, TypeOK
<1> SUFFICES ASSUME NEW q \in MyRequests'
             PROVE  /\ q.from = mapping /\ q.txid \in 1..3
                    /\ q.kind = IF q.txid = 1 THEN "identity" ELSE "signed"
                    /\ q.txid > 1 => \E t \in started..now :
                         /\ IssuedAt(q.nonce, t)
                         /\ Bucketed(started) + 2 * (q.txid - 2) <= Bucketed(t)
  BY <1>1, SamePath DEF SteadyRequests
<1>4. CASE q \in MyRequests
  BY <1>4 DEF SteadyRequests
<1>5. CASE q = Request
  BY <1>1, <1>2, <1>3, <1>5 DEF SteadySending
<1> QED
  BY <1>2, <1>4, <1>5

(* What a DIG server refuses on a steady path is what has gone stale.      *)
LEMMA SteadyServe ==
  ASSUME Inv, Elapsed, Steady, SteadyRequests, SteadyErrors, Serve
  PROVE  SteadyErrors'
<1>1. PICK request \in requests : replies' = replies \union { DigReply(request) }
  BY DEF Serve, Steady
<1>2. UNCHANGED << mapping, route, secrets, started, now >>
  BY DEF Serve, servers
<1>3. started \in Nat /\ now \in Nat /\ now \in started..now
  BY DEF Inv, InTime, Elapsed
<1>4. ASSUME OurError(DigReply(request))
      PROVE  \E code :
        /\ DigReply(request) = Challenging(request, code)
        /\ request.from = mapping /\ request.txid \in 1..3
        /\ request.txid = 1 => code = ERR_UNAUTHENTICATED
        /\ request.txid > 1 => code = ERR_STALE_NONCE
        /\ Bucketed(started) + 2 * (request.txid - 1) <= Bucketed(now)
  <2>1. request.kind \in {"bare", "identity", "signed"}
    BY DEF Inv, TypeOK
  <2>2. DigReply(request).txid = request.txid /\ DigReply(request).type = "error"
    BY <1>4, <2>1, DigReplyRows DEF OurError, Success, Error, Challenging
  <2>3. request \in MyRequests
    BY <1>4, <2>2, NotOfAnother DEF OurError
  <2>4. /\ request.from = mapping /\ request.txid \in 1..3
        /\ request.kind = IF request.txid = 1 THEN "identity" ELSE "signed"
    BY <2>3 DEF SteadyRequests
  <2>5. \A addr : Success(request.txid, addr).type = "success"
    BY DEF Success
  <2>6. CASE request.txid = 1
    <3>1. DigReply(request) = Challenging(request, ERR_UNAUTHENTICATED)
      BY <2>1, <2>4, <2>6, DigReplyRows
    <3>2. Bucketed(started) + 2 * (request.txid - 1) <= Bucketed(now)
      <4>1. Bucketed(started) \in Nat /\ Bucketed(now) \in Nat /\ Bucketed(started) <= Bucketed(now)
        BY <1>3, BucketedType
      <4> QED
        BY <2>6, <4>1
    <3> QED
      BY <2>4, <2>6, <3>1, <3>2
  <2>7. CASE request.txid \in 2..3
    <3>1. PICK t \in started..now :
            /\ IssuedAt(request.nonce, t)
            /\ Bucketed(started) + 2 * (request.txid - 2) <= Bucketed(t)
      BY <2>3, <2>7 DEF SteadyRequests
    <3>2. /\ request.nonce.secret = secrets[route]
          /\ request.nonce.source = FoldAddr(Seen(request.from, route))
          /\ request.nonce.bucket = BucketAt(t + Skew[route])
      BY <2>4, <3>1 DEF IssuedAt, Issue
    <3>3. /\ CheckedNow(request) # "Invalid"
          /\ CheckedNow(request) = "Stale" =>
               BucketAt(t + Skew[route]) \notin
                 { BucketAt(now + Skew[route]),
                   (BucketAt(now + Skew[route]) + BucketWrap - 1) % BucketWrap }
      BY <3>2 DEF CheckedNow, Check
    <3>4. request.verifies /\ request.kind = "signed"
      BY <2>3, <2>4, <2>7 DEF Steady
    <3>5. /\ CheckedNow(request) = "Stale"
          /\ DigReply(request) = Challenging(request, ERR_STALE_NONCE)
      BY <2>2, <2>5, <3>3, <3>4, DigReplyRows
    <3>6. Bucketed(t) + 2 <= Bucketed(now)
      <4>1. Skew[route] \in Nat /\ t \in Nat /\ t <= now
        BY <1>3, ExchangeAssumption DEF Inv, TypeOK
      <4>2. /\ t + Skew[route] \in Nat /\ now + Skew[route] \in Nat
            /\ t + Skew[route] <= now + Skew[route]
        BY <1>3, <4>1
      <4> QED
        BY <3>3, <3>5, <4>2, StaleIsOld DEF Bucketed
    <3>7. Bucketed(started) \in Nat /\ Bucketed(t) \in Nat /\ Bucketed(now) \in Nat
      BY <1>3, BucketedType
    <3>8. Bucketed(started) + 2 * (request.txid - 1) <= Bucketed(now)
      BY <2>7, <3>1, <3>6, <3>7
    <3> QED
      BY <2>4, <2>7, <3>5, <3>8
  <2> QED
    BY <2>4, <2>6, <2>7
<1>5. ASSUME NEW r \in replies', OurError(r)
      PROVE  /\ r.at \in started..now /\ IssuedAt(r.nonce, r.at) /\ r.txid \in 1..3
             /\ r.txid = 1 => r.code = ERR_UNAUTHENTICATED /\ r.realm = "dig-stun"
             /\ r.txid > 1 => r.code = ERR_STALE_NONCE
             /\ Bucketed(started) + 2 * (r.txid - 1) <= Bucketed(r.at)
  <2>1. CASE r \in replies
    BY <1>5, <2>1 DEF SteadyErrors
  <2>2. CASE r = DigReply(request)
    <3>1. PICK code :
        /\ r = Challenging(request, code)
        /\ request.from = mapping /\ request.txid \in 1..3
        /\ request.txid = 1 => code = ERR_UNAUTHENTICATED
        /\ request.txid > 1 => code = ERR_STALE_NONCE
        /\ Bucketed(started) + 2 * (request.txid - 1) <= Bucketed(now)
      BY <1>4, <1>5, <2>2
    <3>2. /\ r.txid = request.txid /\ r.at = now /\ r.code = code /\ r.realm = "dig-stun"
          /\ r.nonce = Issue(secrets[route], Seen(mapping, route), now + Skew[route])
      BY <3>1 DEF Challenging, Error
    <3> QED
      BY <1>3, <3>1, <3>2 DEF IssuedAt
  <2> QED
    BY <1>1, <1>5, <2>1, <2>2
<1> QED
  BY <1>2, <1>5, SamePath DEF SteadyErrors, OurError

(* An error received on a steady path is answered, or is the third and a   *)
(* refusal more than three buckets after the start.                        *)
LEMMA SteadyReceive ==
  ASSUME Inv, Elapsed, Steady, SteadyRequests, SteadyErrors, SteadyOutcome,
         ReceiveFirstChallenge \/ ReceiveStaleNonce \/ ReceiveLastRefusal,
         route' = route, secrets' = secrets
  PROVE  SteadyRequests' /\ SteadySending' /\ SteadyErrors' /\ SteadyOutcome'
<1>1. PICK reply \in replies :
        /\ reply.type = "error" /\ Genuine(reply)
        /\ \/ Signs(reply.nonce)
           \/ /\ ~Sending' /\ outcome' = Refused(reply.code)
              /\ \/ /\ txid = 1
                    /\ ~(/\ reply.code = ERR_UNAUTHENTICATED
                         /\ reply.realm = "dig-stun" /\ reply.nonce # NoNonce)
                 \/ txid = 2 /\ ~(reply.code = ERR_STALE_NONCE /\ reply.nonce # NoNonce)
                 \/ txid = 3
  BY ErrorReceived
<1>2. UNCHANGED << replies, mapping, now, started >> /\ MyRequests' = MyRequests
  BY ErrorReceived DEF ReceiveFirstChallenge, ReceiveStaleNonce, ReceiveLastRefusal, MyRequests
<1>3. reply.txid = txid /\ OurError(reply)
  BY <1>1 DEF Genuine, OurError, Inv, TypeOK
<1>4. /\ reply.at \in started..now /\ IssuedAt(reply.nonce, reply.at)
      /\ txid \in 1..3
      /\ txid = 1 => reply.code = ERR_UNAUTHENTICATED /\ reply.realm = "dig-stun"
      /\ txid > 1 => reply.code = ERR_STALE_NONCE
      /\ Bucketed(started) + 2 * (txid - 1) <= Bucketed(reply.at)
  BY <1>3 DEF SteadyErrors
<1>5. SteadyErrors' /\ SteadyRequests'
  <2>1. now \in Nat /\ now' = now
    BY <1>2 DEF Inv, InTime
  <2> QED
    BY <1>2, <2>1, SteadyStays
<1>6. CASE Signs(reply.nonce)
  <2>1. /\ sending'.nonce = reply.nonce /\ txid' - 2 = txid - 1 /\ outcome' = outcome
    BY <1>6 DEF Signs
  <2>2. SteadySending'
    BY <1>2, <1>4, <2>1, SamePath DEF SteadySending
  <2>3. SteadyOutcome'
    BY <1>2, <2>1 DEF SteadyOutcome
  <2> QED
    BY <1>5, <2>2, <2>3
<1>7. CASE /\ ~Sending' /\ outcome' = Refused(reply.code)
           /\ \/ /\ txid = 1
                 /\ ~(/\ reply.code = ERR_UNAUTHENTICATED
                      /\ reply.realm = "dig-stun" /\ reply.nonce # NoNonce)
              \/ txid = 2 /\ ~(reply.code = ERR_STALE_NONCE /\ reply.nonce # NoNonce)
              \/ txid = 3
  <2>1. reply.nonce # NoNonce
    <3>1. reply.nonce.secret = secrets[route] /\ secrets[route] # 0
      BY <1>4 DEF IssuedAt, Issue, Inv, TypeOK
    <3> QED
      BY <3>1 DEF NoNonce
  <2>2. txid = 3 /\ reply.code = ERR_STALE_NONCE
    BY <1>4, <1>7, <2>1
  <2>3. outcome'.code = ERR_STALE_NONCE
    BY <1>7, <2>2 DEF Refused
  <2>4. now - started >= 3 * BucketTicks + 1
    <3> DEFINE k == Skew[route]
    <3>1. /\ k \in Nat /\ started \in Nat /\ now \in Nat /\ reply.at \in Nat
          /\ reply.at <= now
      BY <1>4, ExchangeAssumption DEF Inv, TypeOK, InTime
    <3>2. Bucket(started + k) + 4 <= Bucket(reply.at + k)
      BY <1>4, <2>2 DEF Bucketed
    <3> HIDE DEF k
    <3>3. started + k \in Nat /\ reply.at + k \in Nat /\ 4 \in Nat \ {0}
      BY <3>1
    <3>4. (reply.at + k) - (started + k) >= (4 - 1) * BucketTicks + 1
      BY <3>2, <3>3, BucketsApart
    <3>5. BucketTicks \in Nat
      BY CredentialAssumption
    <3> QED
      BY <3>1, <3>4, <3>5
  <2>5. SteadyOutcome'
    BY <1>2, <2>3, <2>4 DEF SteadyOutcome
  <2>6. SteadySending'
    BY <1>7 DEF SteadySending
  <2> QED
    BY <1>5, <2>5, <2>6
<1> QED
  BY <1>1, <1>6, <1>7

LEMMA NextSteady == Inv /\ Inv' /\ Provenance /\ SteadyInv /\ [Next]_vars => SteadyInv'
<1> SUFFICES ASSUME Inv, Inv', Provenance, SteadyInv, [Next]_vars, Steady'
             PROVE  SteadyRequests' /\ SteadySending' /\ SteadyErrors' /\ SteadyOutcome'
  BY DEF SteadyInv
<1>0. /\ UNCHANGED << upsets, mapping, route, secrets >>
      /\ Steady /\ SteadyRequests /\ SteadySending /\ SteadyErrors /\ SteadyOutcome /\ Elapsed
  BY SteadyBefore DEF SteadyInv, Provenance
<1>1. started \in Nat /\ now \in Nat /\ started' \in Nat /\ now' \in Nat
  BY DEF Inv, InTime
<1>2. CASE Start
  <2>1. /\ UNCHANGED << requests, replies, now, started >> /\ MyRequests' = MyRequests
        /\ txid' = 1 /\ outcome' = outcome /\ outcome.kind = "Pending"
    BY <1>0, <1>2 DEF Start, Elapsed, MyRequests, Inv, TypeOK
  <2>2. SteadyRequests' /\ SteadyErrors'
    BY <1>0, <1>1, <2>1, SteadyStays
  <2> QED
    BY <2>1, <2>2 DEF SteadyOutcome, SteadySending
<1>7. CASE SendDone
  <2>1. /\ UNCHANGED << replies, now, started, outcome, txid >> /\ ~Sending'
    BY <1>7 DEF SendDone, Sending, NoSend
  <2>2. SteadyRequests'
    BY <1>0, <1>7, SteadySends
  <2>3. SteadyErrors'
    BY <1>0, <2>1, SamePath DEF SteadyErrors, OurError
  <2> QED
    BY <1>0, <2>1, <2>2, <2>3 DEF SteadyOutcome, SteadySending
<1>3. CASE ReceiveFirstChallenge \/ ReceiveStaleNonce \/ ReceiveLastRefusal
  BY <1>0, <1>3, SteadyReceive
<1>4. CASE Serve
  <2>1. UNCHANGED << requests, started, now, outcome, txid, sending >>
    BY <1>4 DEF Serve, client
  <2>2. SteadyErrors'
    BY <1>0, <1>4, SteadyServe
  <2>3. SteadyOutcome'
    BY <1>0, <2>1 DEF SteadyOutcome
  <2>4. SteadyRequests'
    <3>1. MyRequests' = MyRequests
      BY <2>1 DEF MyRequests
    <3> QED
      BY <1>0, <2>1, <3>1, SamePath DEF SteadyRequests
  <2>5. SteadySending'
    BY <1>0, <1>1, <2>1, SendingStays
  <2> QED
    BY <2>2, <2>3, <2>4, <2>5
<1>5. CASE \/ ReceiveSuccess \/ StartWithBadKey \/ ReceiveUnusable \/ IoError \/ TimeOut
           \/ Discard \/ Tick \/ UNCHANGED vars
  <2>1. UNCHANGED << requests, replies, txid >> /\ (~Sending' \/ sending' = sending)
    <3>1. CASE ReceiveSuccess \/ StartWithBadKey \/ ReceiveUnusable \/ IoError \/ TimeOut
      <4>1. UNCHANGED << requests, replies, txid >> /\ sending' = NoSend
        BY <3>1 DEF ReceiveSuccess, StartWithBadKey, ReceiveUnusable, IoError, TimeOut,
                    Finish
      <4> QED
        BY <4>1 DEF Sending, NoSend
    <3>2. CASE Discard \/ Tick \/ UNCHANGED vars
      BY <3>2 DEF Discard, Tick, vars, client
    <3> QED
      BY <1>5, <3>1, <3>2
  <2>2. started' = started
    <3>1. CASE StartWithBadKey
      BY <1>0, <3>1 DEF StartWithBadKey, Elapsed
    <3>2. CASE \/ ReceiveSuccess \/ ReceiveUnusable \/ IoError \/ TimeOut
               \/ Discard \/ Tick \/ UNCHANGED vars
      BY <3>2 DEF ReceiveSuccess, ReceiveUnusable, IoError, TimeOut, Discard, Tick, vars
    <3> QED
      BY <1>5, <3>1, <3>2
  <2>3. now' \in {now, now + 1}
    BY <1>5 DEF ReceiveSuccess, StartWithBadKey, ReceiveUnusable, IoError, TimeOut,
                Discard, Tick, vars
  <2>4. now <= now'
    BY <1>1, <2>3
  <2>5. MyRequests' = MyRequests
    BY <2>1 DEF MyRequests
  <2>6. SteadyRequests' /\ SteadyErrors' /\ SteadySending'
    BY <1>0, <1>1, <2>1, <2>2, <2>4, <2>5, SteadyStays, SendingStays
  <2>7. SteadyOutcome'
    <3>1. CASE outcome' = outcome /\ now' = now
      BY <1>0, <2>2, <3>1 DEF SteadyOutcome
    <3>2. CASE Tick
      <4>1. stage # "Done" /\ outcome' = outcome
        BY <3>2 DEF Tick, client, Waiting, Inv, TypeOK
      <4>2. outcome.kind = "Pending"
        BY <4>1 DEF Inv, TypeOK
      <4> QED
        BY <4>1, <4>2 DEF SteadyOutcome
    <3>3. CASE StartWithBadKey \/ IoError \/ TimeOut
      <4>1. outcome'.kind \in {"BadChallenge", "Stun"}
        <5>1. CASE StartWithBadKey
          BY <5>1 DEF StartWithBadKey, Finish
        <5>2. CASE IoError \/ TimeOut
          BY <5>2 DEF IoError, TimeOut, Finish, Stun
        <5> QED
          BY <3>3, <5>1, <5>2
      <4> QED
        BY <4>1 DEF SteadyOutcome
    <3>4. CASE ReceiveUnusable
      BY <3>4 DEF ReceiveUnusable, Finish, Stun, SteadyOutcome
    <3>5. CASE ReceiveSuccess
      <4>1. outcome'.kind \in {"Ok", "Stun"}
        BY <3>5 DEF ReceiveSuccess, Finish, Ok, Stun
      <4> QED
        BY <4>1 DEF SteadyOutcome
    <3>6. CASE Discard \/ UNCHANGED vars
      BY <3>1, <3>6 DEF Discard, vars, client
    <3> QED
      BY <1>5, <3>2, <3>3, <3>4, <3>5, <3>6
  <2> QED
    BY <2>6, <2>7
<1>6. ~Rebind /\ ~Rebalance /\ ~Restart
  BY <1>0 DEF Rebind, Rebalance, Restart, Upset, Inv, TypeOK
<1> QED
  BY <1>2, <1>3, <1>4, <1>5, <1>6, <1>7 DEF Next

(* signed_client.rs:116-157: on a path that keeps its source and its       *)
(* server a node with a good key is refused only after two nonces in a row *)
(* aged out, for every timeout, skew and bucket length, and wherever the   *)
(* bucket number wraps.                                                    *)
THEOREM ExchangeNoSpuriousRefusal == Spec => []NoSpuriousRefusal
<1>1. Init => SteadyInv
  <2> SUFFICES ASSUME Init
               PROVE  SteadyRequests /\ SteadySending /\ SteadyErrors /\ SteadyOutcome
    BY DEF SteadyInv
  <2>1. SteadyRequests
    BY DEF Init, SteadyRequests, MyRequests
  <2>2. SteadyErrors
    BY FreshTransactionIds DEF Init, SteadyErrors, OurError
  <2>3. SteadySending /\ SteadyOutcome
    BY DEF Init, SteadySending, SteadyOutcome
  <2> QED
    BY <2>1, <2>2, <2>3
<1>2. SteadyInv => NoSpuriousRefusal
  BY DEF SteadyInv, Steady, SteadyOutcome, NoSpuriousRefusal
<1> QED
  BY <1>1, <1>2, NextSteady, ExchangeInvariant, ProvenanceInvariant, PTL DEF Spec
=============================================================================
