--------------------------- MODULE SignedExchange ---------------------------
(***************************************************************************)
(* One signed Binding transaction (src/src/credential/signed_client.rs)    *)
(* against the servers it may meet, over UDP through a NAT.                *)
(*                                                                         *)
(* Client: query_reflexive_address_signed, one action per branch of its    *)
(* receive loop and one per send that completes: sends are awaited too,    *)
(* outside the timeout, and may block.  Server: external; the flow of      *)
(* SPEC.md 14.5 over Credential, in several replicas behind one address,   *)
(* or a server that ignores the credential, or one with a realm of its     *)
(* own.  Network: a datagram stays in requests or replies once it is sent  *)
(* and may be delivered any number of times in any order or never, which   *)
(* is loss, duplication, delay and reordering.  Replies are also what else *)
(* reaches the socket, which is the node's listen socket: Noise.           *)
(***************************************************************************)
EXTENDS Credential, FiniteSets

CONSTANTS
  Mappings,     \* source addresses the NAT may give the client's socket
  Replicas,     \* server processes behind the one server address
  DualStack,    \* those whose socket sees an IPv4 source IPv4-mapped
  Skew,         \* replica -> ticks its clock is ahead
  Secret,       \* replica -> its nonce secret at the start
  Kind,         \* replica -> "dig", "plain" or "foreign"
  ForeignErrors,\* what a foreign server may answer: [code, realm, nonce]
  Mode,         \* CredentialMode of the deployment
  Spkis,        \* whether the signer's key is well formed, ...
  Signers,      \* ... and a signature it makes verifies: subsets of BOOLEAN
  Timeout,      \* the caller's timeout, in ticks
  MaxLate,      \* bound on the clock: ticks past the deadline a send may take
  StartTimes,   \* when the exchange may start
  Upsets,       \* which of "rebind", "rebalance", "restart" may happen
  MaxUpsets,    \* bound on how many do
  Noise,        \* datagrams that reach the socket although no server of
                \* this exchange sent them
  BareRequests, \* bare requests of other clients
  MaxCopies     \* bound on the replies to one request

ASSUME ExchangeAssumption ==
  /\ Mappings \subseteq SocketAddr
  /\ DualStack \subseteq Replicas
  /\ Skew \in [Replicas -> Nat] /\ Secret \in [Replicas -> Nat \ {0}]
  /\ Kind \in [Replicas -> {"dig", "plain", "foreign"}]
  /\ Mode \in {"Advisory", "Required"}
  /\ Spkis \subseteq BOOLEAN /\ Signers \subseteq BOOLEAN
  /\ Timeout \in Nat \ {0} /\ MaxLate \in Nat /\ StartTimes \subseteq Nat
  /\ MaxUpsets \in Nat /\ MaxCopies \in Nat

(* A transaction id is 96 random bits, drawn anew for each datagram: what  *)
(* other queries sent or were answered carries none of this exchange's.    *)
ASSUME FreshTransactionIds ==
  /\ \A q \in BareRequests : q.kind = "bare" /\ q.txid \notin 0..3
  /\ \A r \in Noise :
       r.src = "server" /\ r.type \in {"success", "error"} => r.txid \notin 0..3

(* Who does not hold a DIG server's secret cannot make a tag that matches: *)
(* the nonces of a foreign server carry none.                              *)
ASSUME UnforgeableTags == \A e \in ForeignErrors : e.nonce.secret = 0

VARIABLES
  \* the client
  stage,      \* Idle, Initial, AfterFirstChallenge, AfterReSign, Late or Done
  txid,       \* expected_txid: the transaction outstanding
  sending,    \* the datagram whose send is awaited, and the stage after it
  deadline,
  outcome,
  \* the network and the servers
  requests, replies,
  mapping,    \* the NAT mapping of the client's socket
  route,      \* the replica the balancer sends the flow to
  secrets,    \* replica -> secret
  upsets,     \* how many upsets so far
  \* time
  now, started

client  == << stage, txid, sending, deadline, outcome >>
servers == << route, secrets >>
vars == << client, requests, replies, mapping, servers, upsets, now, started >>

NoSend  == [kind |-> "none"]
Sending == sending.kind # "none"

(* In recv_from.  A call that comes back to the loop's top too late is     *)
(* Late, and Idle until its first send completes.                          *)
Waiting == ~Sending /\ stage \in {"Initial", "AfterFirstChallenge", "AfterReSign"}

Init == /\ stage = "Idle" /\ txid = 0 /\ sending = NoSend /\ deadline = 0
        /\ outcome = [kind |-> "Pending"]
        /\ requests = BareRequests /\ replies = Noise
        /\ mapping \in Mappings
        /\ route \in Replicas /\ secrets = Secret
        /\ upsets = 0
        /\ now \in StartTimes /\ started = now

-----------------------------------------------------------------------------
(* The client.                                                             *)

Finish(how) == stage' = "Done" /\ sending' = NoSend /\ outcome' = how

Ok(addr)      == [kind |-> "Ok", addr |-> addr]
Refused(code) == [kind |-> "Refused", code |-> code]
Stun(error)   == [kind |-> "Stun", error |-> error]

(* The signature is made before the send, for the nonce received.          *)
ToSend(kind, nonce, verifies, next) ==
  [kind |-> kind, nonce |-> nonce, verifies |-> verifies, next |-> next]

(* A malformed SPKI ends the exchange before anything is sent. *)
StartWithBadKey == /\ stage = "Idle" /\ ~Sending /\ FALSE \in Spkis
                   /\ Finish([kind |-> "BadChallenge"])
                   /\ started' = now
                   /\ UNCHANGED << txid, deadline, requests, replies, mapping,
                                   servers, upsets, now >>

(* The deadline is computed before the first send is awaited. *)
Start == /\ stage = "Idle" /\ ~Sending /\ TRUE \in Spkis
         /\ txid' = 1
         /\ deadline' = now + Timeout
         /\ sending' = ToSend("identity", NoNonce, FALSE, "Initial")
         /\ started' = now
         /\ UNCHANGED << stage, outcome, requests, replies, mapping, servers,
                         upsets, now >>

(* A mutant of SendSigned: every datagram starts the timeout afresh. *)
SendSignedResetting(nonce, next) ==
  /\ txid' = txid + 1
  /\ \E verifies \in Signers : sending' = ToSend("signed", nonce, verifies, next)
  /\ deadline' = now + Timeout
  /\ UNCHANGED << stage, outcome >>

(* A fresh transaction id on every datagram; the deadline stays.  The      *)
(* stage changes when the send completes.                                  *)
SendSigned(nonce, next) ==
  /\ txid' = txid + 1
  /\ \E verifies \in Signers : sending' = ToSend("signed", nonce, verifies, next)
  /\ UNCHANGED << stage, deadline, outcome >>

(* The datagram leaves with the source the NAT gives it then. *)
Request == [txid |-> txid, kind |-> sending.kind, nonce |-> sending.nonce,
            from |-> mapping, verifies |-> sending.verifies]

(* A mutant of SendDone: the loop goes on although the time is up. *)
SendDoneUnchecked == /\ Sending
                     /\ requests' = requests \union {Request}
                     /\ stage' = sending.next
                     /\ sending' = NoSend
                     /\ UNCHANGED << txid, deadline, outcome, replies, mapping,
                                     servers, upsets, now, started >>

(* Back at the top of the loop the time left is looked at before anything  *)
(* is received.                                                            *)
SendDone == /\ Sending
            /\ requests' = requests \union {Request}
            /\ stage' = IF now < deadline THEN sending.next ELSE "Late"
            /\ sending' = NoSend
            /\ UNCHANGED << txid, deadline, outcome, replies, mapping, servers,
                            upsets, now, started >>

(* Mutants of Genuine: replies to earlier steps, and datagrams of other    *)
(* hosts, are taken too.                                                   *)
GenuineAnyTxid(reply) == reply.src = "server"
GenuineAnySource(reply) == reply.txid = txid

(* Not discarded: from the server asked, for the transaction outstanding.  *)
Genuine(reply) == reply.src = "server" /\ reply.txid = txid

Receiving == Waiting /\ now <= deadline

Discard == /\ Receiving
           /\ \E reply \in replies :
                \/ reply.src # "server"
                \/ reply.type \in {"success", "error"} /\ ~Genuine(reply)
           /\ UNCHANGED vars

ReceiveSuccess ==
  /\ Receiving
  /\ \E reply \in replies :
       /\ reply.type = "success" /\ Genuine(reply)
       /\ Finish(IF IsUsableReflexiveAddr(reply.addr) THEN Ok(reply.addr)
                 ELSE Stun("NoMappedAddress"))
  /\ UNCHANGED << txid, deadline, requests, replies, mapping, servers,
                  upsets, now, started >>

(* A mutant of ReceiveFirstChallenge: any realm will do. *)
ReceiveFirstChallengeAnyRealm ==
  /\ Receiving /\ stage = "Initial"
  /\ \E reply \in replies :
       /\ reply.type = "error" /\ Genuine(reply)
       /\ IF reply.code = ERR_UNAUTHENTICATED /\ reply.nonce # NoNonce
          THEN SendSigned(reply.nonce, "AfterFirstChallenge")
          ELSE /\ Finish(Refused(reply.code))
               /\ UNCHANGED << txid, deadline >>
  /\ UNCHANGED << requests, replies, mapping, servers, upsets, now, started >>

ReceiveFirstChallenge ==
  /\ Receiving /\ stage = "Initial"
  /\ \E reply \in replies :
       /\ reply.type = "error" /\ Genuine(reply)
       /\ IF reply.code = ERR_UNAUTHENTICATED /\ reply.realm = "dig-stun"
             /\ reply.nonce # NoNonce
          THEN SendSigned(reply.nonce, "AfterFirstChallenge")
          ELSE /\ Finish(Refused(reply.code))
               /\ UNCHANGED << txid, deadline >>
  /\ UNCHANGED << requests, replies, mapping, servers, upsets, now, started >>

ReceiveStaleNonce ==
  /\ Receiving /\ stage = "AfterFirstChallenge"
  /\ \E reply \in replies :
       /\ reply.type = "error" /\ Genuine(reply)
       /\ IF reply.code = ERR_STALE_NONCE /\ reply.nonce # NoNonce
          THEN SendSigned(reply.nonce, "AfterReSign")
          ELSE /\ Finish(Refused(reply.code))
               /\ UNCHANGED << txid, deadline >>
  /\ UNCHANGED << requests, replies, mapping, servers, upsets, now, started >>

(* A mutant of ReceiveLastRefusal: a stale nonce is always signed again. *)
ReceiveLastRefusalResigning ==
  /\ Receiving /\ stage = "AfterReSign"
  /\ \E reply \in replies :
       /\ reply.type = "error" /\ Genuine(reply)
       /\ IF reply.code = ERR_STALE_NONCE THEN SendSigned(reply.nonce, "AfterReSign")
          ELSE /\ Finish(Refused(reply.code))
               /\ UNCHANGED << txid, deadline >>
  /\ UNCHANGED << requests, replies, mapping, servers, upsets, now, started >>

ReceiveLastRefusal ==
  /\ Receiving /\ stage = "AfterReSign"
  /\ \E reply \in replies :
       /\ reply.type = "error" /\ Genuine(reply)
       /\ Finish(Refused(reply.code))
  /\ UNCHANGED << txid, deadline, requests, replies, mapping, servers,
                  upsets, now, started >>

(* A datagram from the server's address that is neither a success nor an   *)
(* error, or fails a check made before the transaction id is compared      *)
(* (length, magic cookie), ends the exchange whatever its id; one that     *)
(* fails a later check (its attributes) does if the id is the right one.   *)
ReceiveUnusable ==
  /\ Receiving
  /\ \E reply \in replies :
       /\ reply.src = "server"
       /\ \/ reply.type = "unreadable"
          \/ reply.type = "garbled" /\ Genuine(reply)
       /\ Finish(Stun(reply.type))
  /\ UNCHANGED << txid, deadline, requests, replies, mapping, servers,
                  upsets, now, started >>

(* send_to or recv_from fails. *)
IoError == /\ Sending \/ Waiting
           /\ Finish(Stun("Io"))
           /\ UNCHANGED << txid, deadline, requests, replies, mapping, servers,
                           upsets, now, started >>

(* A mutant of TimeOut: only the first reply is waited for with a timeout. *)
TimeOutFirstOnly ==
  /\ \/ Waiting /\ stage = "Initial" /\ now >= deadline
     \/ stage = "Late"
  /\ Finish(Stun("Timeout"))
  /\ UNCHANGED << txid, deadline, requests, replies, mapping, servers,
                  upsets, now, started >>

TimeOut == /\ \/ Waiting /\ now >= deadline
              \/ stage = "Late"
           /\ Finish(Stun("Timeout"))
           /\ UNCHANGED << txid, deadline, requests, replies, mapping, servers,
                           upsets, now, started >>

-----------------------------------------------------------------------------
(* The servers.                                                            *)

Success(id, addr) == [type |-> "success", src |-> "server", txid |-> id,
                      addr |-> FoldAddr(addr), at |-> now]
Error(id, code, realm, nonce) ==
  [type |-> "error", src |-> "server", txid |-> id, code |-> code,
   realm |-> realm, nonce |-> nonce, at |-> now]

RepliesTo(request) == { r \in replies \ Noise : r.txid = request.txid /\ r.src = "server" }

Seen(addr, replica) ==
  IF replica \in DualStack /\ addr.ip \in V4
  THEN [addr EXCEPT !.ip = MappedV6(@)] ELSE addr

DigReply(request) ==
  LET clock  == now + Skew[route]
      source == Seen(request.from, route)
      d == Decision(Mode, secrets[route], request, source, clock)
  IN CASE d.act = "Answer"    -> Success(request.txid, source)
       [] d.act = "Challenge" -> Error(request.txid, d.code, "dig-stun",
                                       Issue(secrets[route], source, clock))
       [] d.act = "Refuse"    -> Error(request.txid, d.code, "none", NoNonce)

Serve ==
  /\ \E request \in requests :
       /\ Cardinality(RepliesTo(request)) < MaxCopies
       /\ \/ /\ Kind[route] = "dig"
             /\ replies' = replies \union { DigReply(request) }
          \/ /\ Kind[route] = "plain"
             /\ replies' = replies \union { Success(request.txid, request.from) }
          \/ /\ Kind[route] = "foreign"
             /\ \E e \in ForeignErrors :
                  replies' = replies \union
                               { Error(request.txid, e.code, e.realm, e.nonce) }
  /\ UNCHANGED << client, requests, mapping, servers, upsets, now, started >>

-----------------------------------------------------------------------------
(* What may happen around them.                                            *)

Upset(kind) == kind \in Upsets /\ upsets < MaxUpsets /\ upsets' = upsets + 1

Rebind == /\ Upset("rebind")
          /\ mapping' \in Mappings \ {mapping}
          /\ UNCHANGED << client, requests, replies, servers, now, started >>

Rebalance == /\ Upset("rebalance")
             /\ route' \in Replicas \ {route}
             /\ UNCHANGED << client, requests, replies, mapping, secrets, now, started >>

(* A server process comes back with NonceIssuer::new_random: a secret that *)
(* nobody has or had, so a number below zero.                              *)
Restart == /\ Upset("restart")
           /\ \E r \in Replicas : secrets' = [secrets EXCEPT ![r] = -1 - upsets]
           /\ UNCHANGED << client, requests, replies, mapping, route, now, started >>

(* The runtime's timer fires at the deadline: time does not pass it while  *)
(* the client waits for a reply.  A send has no timer.                     *)
Tick == /\ \/ Waiting /\ now < deadline
           \/ Sending /\ now < deadline + MaxLate
        /\ now' = now + 1
        /\ UNCHANGED << client, requests, replies, mapping, servers, upsets, started >>

Next == \/ Start \/ StartWithBadKey \/ SendDone \/ Discard \/ ReceiveSuccess
        \/ ReceiveFirstChallenge \/ ReceiveStaleNonce \/ ReceiveLastRefusal
        \/ ReceiveUnusable \/ IoError \/ TimeOut
        \/ Serve \/ Rebind \/ Rebalance \/ Restart \/ Tick

Spec == Init /\ [][Next]_vars

(* The caller polls the future it was given, time passes, and the timer    *)
(* fires; nothing is assumed of servers or network, nor of a send, which   *)
(* may block.                                                              *)
FairSpec == Spec /\ WF_vars(Start) /\ WF_vars(StartWithBadKey)
                 /\ WF_vars(Tick) /\ WF_vars(TimeOut)

-----------------------------------------------------------------------------
(* Type invariant. *)
TypeOK ==
  /\ stage \in {"Idle", "Initial", "AfterFirstChallenge", "AfterReSign", "Late", "Done"}
  /\ Sending => /\ sending.kind \in {"identity", "signed"}
                /\ stage \in {"Idle", "Initial", "AfterFirstChallenge"}
  /\ txid \in 0..3 /\ deadline \in Nat /\ upsets \in 0..MaxUpsets
  /\ (stage = "Done") = (outcome.kind # "Pending")
  /\ mapping \in Mappings /\ route \in Replicas
  /\ secrets \in [Replicas -> Int \ {0}]
  /\ \A q \in requests : q.kind \in {"bare", "identity", "signed"}

MyRequests == requests \ BareRequests
AllDig == Signers = {TRUE} /\ \A r \in Replicas : Kind[r] = "dig"

(* What the query reports is the answer to the datagram it sent last: the  *)
(* address is the source that datagram had, also when the NAT gave the     *)
(* socket another mapping in between, and a refusal is one the server made *)
(* of it.  No late or repeated reply to an earlier step, no other host on  *)
(* the listen socket and no leftover of an earlier query can decide it.    *)
OutcomeIsAboutLatest ==
  /\ outcome.kind = "Ok" =>
       \E q \in MyRequests : q.txid = txid /\ FoldAddr(q.from) = outcome.addr
  /\ outcome.kind = "Refused" =>
       \E r \in replies : r.type = "error" /\ Genuine(r) /\ r.code = outcome.code

(* A server that requires the credential sends an address only to a source *)
(* that has signed a nonce it was sent, under the secret the server has    *)
(* now, less than two buckets ago: source, issuer and time are bound       *)
(* although the server keeps nothing of the clients it challenged, and     *)
(* what a process before its restart issued proves nothing to it.          *)
ProvedBeforeAnswer ==
  [][ Mode = "Required" /\ Kind[route] = "dig" =>
        \A r \in replies' \ replies :
          r.type = "success" =>
            \E q \in requests, c \in replies, asking \in requests :
              /\ q.txid = r.txid /\ q.kind = "signed" /\ q.verifies
              /\ c.type = "error" /\ c.nonce = q.nonce /\ c.txid = asking.txid
              /\ c.nonce.secret = secrets[route]
              /\ FoldAddr(asking.from) = FoldAddr(q.from)
              /\ now - c.at < 2 * BucketTicks ]_vars

(* The one timeout the caller gave counts from the call, and no reply and  *)
(* no challenge extends it: the client waits for replies no later than     *)
(* that, an address or a refusal it returns came by then, and it sends     *)
(* three datagrams at most.  Its sends are not timed: a call may last      *)
(* longer, and a datagram leave later, by as much as they take.            *)
OneDeadline ==
  /\ Waiting \/ outcome.kind \in {"Ok", "Refused"} => now - started <= Timeout
  /\ Cardinality(MyRequests) <= 3

(* Where the flow keeps its source and its server process, a node with a   *)
(* good key is refused only if two nonces in a row aged out on the way,    *)
(* which takes more than three whole buckets: a shorter timeout never sees *)
(* a refusal.                                                              *)
NoSpuriousRefusal ==
  (/\ Kind[route] = "dig" /\ upsets = 0 /\ outcome.kind = "Refused"
   /\ \A q \in MyRequests : q.kind = "signed" => q.verifies) =>
    outcome.code = ERR_STALE_NONCE /\ now - started >= 3 * BucketTicks + 1

(* The first nonce the node signs is that of a challenge that named the    *)
(* dig-stun realm, whichever other servers answer at that address and in   *)
(* whatever order.  (The realm of a 438 to the signed request is not       *)
(* looked at: the second nonce may be any server's at the address.)        *)
SignsForDigFirst ==
  \A q \in MyRequests : q.kind = "signed" =>
    \E first \in MyRequests, r \in replies :
      /\ r.type = "error" /\ r.src = "server" /\ r.txid = 1
      /\ r.realm = "dig-stun"
      /\ first.txid = 2 /\ first.nonce = r.nonce

(* The call returns, whatever the servers and the network do, unless it is *)
(* blocked in a send for good: replies that are discarded cannot keep it   *)
(* waiting past the deadline.                                              *)
Returns == <>(stage = "Done") \/ <>[]Sending

(* The exchange as its caller sees it. *)
SeenSources == { FoldAddr(m) : m \in Mappings }
Asked  == { FoldAddr(q.from) : q \in MyRequests }
Result == CASE outcome.kind = "Pending" -> [kind |-> "pending"]
            [] outcome.kind = "Ok"      -> [kind |-> "ok", addr |-> outcome.addr]
            [] OTHER                    -> [kind |-> "failed"]

Query == INSTANCE ReflexiveQuery WITH
  Sources  <- SeenSources,
  Dialable <- { a \in SeenSources : IsUsableReflexiveAddr(a) },
  asked    <- Asked,
  result   <- Result

(* The exchange is a reflexive query: it ends once, with a source the      *)
(* client's own datagrams had and a stranger could dial, or with nothing.  *)
KeepsQuery == Query!Spec

(* "a re-balanced flow costs the client one 401 re-challenge (14.5 retries *)
(* once), never a failure" (SPEC.md:913-914).                              *)
RebalanceNeverFails ==
  (AllDig /\ Upsets = {"rebalance"} /\ MaxUpsets = 1) =>
    outcome.kind # "Refused"

(* "Any datagram not from server, or whose transaction id does not match   *)
(* the one currently outstanding, is discarded and the wait continues"     *)
(* (signed_client.rs:65-67): an unusable datagram that ends the exchange   *)
(* carried the outstanding transaction id.                                 *)
OtherTransactionsDiscarded ==
  (outcome.kind = "Stun" /\ outcome.error = "unreadable") =>
    \E r \in replies : r.type = "unreadable" /\ r.txid = txid
=============================================================================
