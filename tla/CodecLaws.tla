------------------------------ MODULE CodecLaws ------------------------------
(***************************************************************************)
(* What the encoders and parsers of src/src/codec.rs and                   *)
(* src/src/credential/ owe each other, over addresses (those of MCScope)   *)
(* and over messages that are composed attribute by attribute and then     *)
(* damaged in one place.                                                   *)
(***************************************************************************)
EXTENDS MCScope, CredentialCodec, FiniteSetsExt

CONSTANTS
  Mine, Other,   \* two transaction ids
  Home,          \* the address of the node messages are composed for
  Callers,       \* the addresses a whole exchange is made from
  MaxAttrs,      \* bound on the attributes of a composed message
  Secrets,       \* of nonce issuers
  Times          \* clock readings of servers

VARIABLES
  msg,     \* the message being composed, and what becomes of it
  plain    \* history: the same message composed without the attributes no parser knows

ASSUME LawsAssumption ==
  /\ Mine \in TransactionId /\ Other \in TransactionId
  /\ Home \in IpAddr /\ Callers \subseteq IpAddr
  /\ Firsts \union Seconds \union Thirds \subseteq Octet
  /\ NativeHeads \subseteq Segment
  /\ Times \subseteq Nat
  /\ Min(Secrets) \in Secrets /\ Max(Secrets) \in Secrets

SourcePort == 4242
Source == [ip |-> addr, port |-> SourcePort]

(* The HMAC: a tag is 16 octets, and two secrets make different ones.  A   *)
(* bucket number is four octets.                                           *)
FourOctets(b) == b \in Nat /\ b \div 16777216 <= MaxOctet
ASSUME TagAssumption ==
  /\ FourOctets(BucketWrap - 1) /\ 0 \notin Secrets
  /\ \A ip \in Callers \union {Home}, bucket \in 0..(BucketWrap - 1), secret \in Secrets :
       LET source == [ip |-> FoldIp(ip), port |-> SourcePort]
       IN /\ Tag(secret, bucket, source) \in [1..16 -> Octet]
          /\ \A other \in Secrets \ {secret} :
               Tag(other, bucket, source) # Tag(secret, bucket, source)

Txids  == {Mine, Other}

Spki(key)   == [len |-> P256_SPKI_LEN, p256 |-> TRUE, key |-> key]
Signer(key) == [spki |-> Spki(key), signatureLen |-> 70]
Keys  == {"node", "another"}
Text(secret) == NonceText(Issue(secret, [ip |-> Home, port |-> SourcePort], 0))
TextA == Text(Min(Secrets))
TextB == Text(Max(Secrets))
Texts == {TextA, TextB}

Attr(type, len, value) == [type |-> type, len |-> len, value |-> value]
AttrsOf(m) == { Attr(m.attrs[i].type, m.attrs[i].len, m.attrs[i].value) : i \in DOMAIN m.attrs }

Unknown(type) == type \notin {ATTR_MAPPED_ADDRESS, ATTR_XOR_MAPPED_ADDRESS, ATTR_ERROR_CODE,
                              ATTR_REALM, ATTR_NONCE, ATTR_DIG_IDENTITY, ATTR_DIG_SIGNATURE}
SOFTWARE == 32802
SomeUnknown == { Attr(SOFTWARE, len, "dig") : len \in {0, 3} }

(* The attributes messages of a type are composed of: what this crate's    *)
(* encoders write, for two nodes, nonces and transactions, and values that *)
(* fail a check.                                                           *)
Signed(id, text, key) == AttrsOf(EncodeSignedRequest(id, text, Signer(key)))
RequestAttrs ==
  Signed(Mine, TextA, "node") \union Signed(Other, TextA, "node")
  \union Signed(Mine, TextB, "node") \union Signed(Mine, TextA, "another")
  \union { Attr(ATTR_DIG_IDENTITY, 91, [version |-> 1, spki |-> [Spki("node") EXCEPT !.len = 90]]),
           Attr(ATTR_DIG_IDENTITY, 92, [version |-> 1, spki |-> [Spki("node") EXCEPT !.p256 = FALSE]]),
           Attr(ATTR_DIG_SIGNATURE, 0, NotUtf8) }
  \union { Attr(ATTR_DIG_SIGNATURE, 1 + len,
                [version |-> version, signature |-> [len |-> len, key |-> "node", over |-> None]]) :
             len \in {7, 72, 73}, version \in {1, 2} }

SuccessAttrs ==
  { Attr(ATTR_XOR_MAPPED_ADDRESS, 8, XorMapped([ip |-> Home, port |-> 1], Mine)),
    Attr(ATTR_XOR_MAPPED_ADDRESS, 20, XorMapped([ip |-> << 8193, 0, 0, 0, 0, 0, 0, 1 >>, port |-> 2], Mine)),
    Attr(ATTR_XOR_MAPPED_ADDRESS, 4, << 0, FAMILY_IPV4, 1, 1 >>),
    Attr(ATTR_MAPPED_ADDRESS, 8, << 0, FAMILY_IPV4, 0, 3, 9, 9, 9, 9 >>),
    Attr(ATTR_MAPPED_ADDRESS, 3, << 0, FAMILY_IPV4, 0 >>),
    Attr(ATTR_MAPPED_ADDRESS, 8, << 0, 3, 0, 3, 9, 9, 9, 9 >>) }

ErrorAttrs ==
  { Attr(ATTR_ERROR_CODE, 19, 401), Attr(ATTR_ERROR_CODE, 3, 500),
    Attr(ATTR_REALM, 8, REALM), Attr(ATTR_REALM, 2, NotUtf8) }
  \union { Attr(ATTR_NONCE, Len(text), text) : text \in Texts }

Menu(type) ==
  SomeUnknown \union (CASE type = BINDING_REQUEST -> RequestAttrs
                        [] type = BINDING_SUCCESS -> SuccessAttrs
                        [] OTHER -> ErrorAttrs)

Types == {BINDING_REQUEST, BINDING_SUCCESS, BINDING_ERROR}
Whole(m) == m = Message(m.type, Mine, m.attrs) /\ m.type \in Types

-----------------------------------------------------------------------------
LawsInit ==
  /\ \/ Init /\ msg = EncodeBindingRequest(Mine)
     \/ addr = Home /\ msg \in { Message(type, Mine, << >>) : type \in Types }
  /\ plain = msg

Respell == Fold /\ UNCHANGED << msg, plain >>

With(m, a) == Message(m.type, Mine, WriteAttr(m.attrs, a.type, a.len, a.value))

Compose == /\ addr = Home /\ Whole(msg) /\ Len(msg.attrs) < MaxAttrs
           /\ \E a \in Menu(msg.type) :
                /\ msg' = With(msg, a)
                /\ plain' = IF Unknown(a.type) THEN plain ELSE With(plain, a)
           /\ UNCHANGED addr

(* One damage to a whole message: its last attribute claims more than the  *)
(* area holds; the area is declared shorter or longer than it is; the      *)
(* datagram is cut, or goes on; the header is of another kind.             *)
Overstate == /\ msg.attrs # << >>
             /\ \E excess \in {1, 5} :
                  msg' = [msg EXCEPT !.attrs[Len(msg.attrs)].len =
                            msg.len - msg.attrs[Len(msg.attrs)].at - 4 + excess]

Redeclare == \E len \in { msg.len - 4, msg.len - 1, msg.len + 4 } :
               len >= 0 /\ msg' = [msg EXCEPT !.len = len]

Cut == \E size \in {0, 1, 19, 20, msg.size - 1, msg.size + 4} :
         size # msg.size /\ msg' = [msg EXCEPT !.size = size]

Mislabel == \/ msg' = [msg EXCEPT !.cookie = << 0, 0, 0, 0 >>]
            \/ msg' = [msg EXCEPT !.txid = Other]
            \/ msg' = [msg EXCEPT !.type = 2]

Damage == /\ addr = Home /\ Whole(msg) /\ Len(msg.attrs) < MaxAttrs
          /\ Overstate \/ Redeclare \/ Cut \/ Mislabel
          /\ UNCHANGED << addr, plain >>

LawsNext == Respell \/ Compose \/ Damage

LawsSpec == LawsInit /\ [][LawsNext]_<< addr, msg, plain >>

-----------------------------------------------------------------------------
(* The round-trip law of encode_binding_success: whatever the address and  *)
(* the transaction id, and in whichever spelling the server's socket saw   *)
(* it, the parser returns the address folded, so that an IPv4 caller never *)
(* gets a 16-byte answer.                                                  *)
AddressSurvivesWire ==
  \A txid \in Txids :
    ParseBindingResponse(EncodeBindingSuccess(txid, Source), txid) = Okay(FoldAddr(Source))

(* A datagram that holds less than its header declares is not read by any  *)
(* parser, whatever attributes it still has: a reply cut at the clients'   *)
(* 512-byte buffer gives no address and no challenge.                      *)
CutDatagramsRejected ==
  Incomplete(msg) => /\ ~ParseBindingResponse(msg, msg.txid).ok
                     /\ ~ParseBindingRequest(msg).ok
                     /\ ~ParseChallenge(msg, msg.txid).ok
                     /\ ~ClassifyRequest(msg).ok

(* Attributes a parser does not know, of any length, before, between and   *)
(* after those it does, change nothing of what it reads, but for one after *)
(* the signature, which nothing may follow: a whole message reads as it    *)
(* would have without them.                                                *)
NoneAfterSignature(attrs) ==
  \A i, j \in DOMAIN attrs :
    i < j /\ attrs[i].type = ATTR_DIG_SIGNATURE => ~Unknown(attrs[j].type)

UnknownAttributesIgnored ==
  Whole(msg) /\ NoneAfterSignature(msg.attrs) =>
    /\ ParseBindingResponse(msg, Mine) = ParseBindingResponse(plain, Mine)
    /\ ParseChallenge(msg, Mine) = ParseChallenge(plain, Mine)
    /\ ClassifyRequest(msg) = ClassifyRequest(plain)

(* An attribute that runs past the area is for no parser an attribute, but *)
(* each takes it in its own way: the request is malformed; a refusal keeps *)
(* what came before it; a success keeps an XOR-MAPPED-ADDRESS that came    *)
(* before it and not a MAPPED-ADDRESS.                                     *)
OverrunsHandled ==
  (/\ Len(msg.attrs) \in Reached(msg) /\ Overruns(msg, Len(msg.attrs))
   /\ ~Incomplete(msg)) =>
    LET front  == SubSeq(msg.attrs, 1, Len(msg.attrs) - 1)
        before == Message(msg.type, Mine, front)
    IN CASE msg.type = BINDING_REQUEST -> ClassifyRequest(msg) = Err("Malformed")
         [] msg.type = BINDING_ERROR   -> ParseChallenge(msg, Mine) = ParseChallenge(before, Mine)
         [] msg.type = BINDING_SUCCESS ->
              ParseBindingResponse(msg, Mine) =
                IF \E i \in DOMAIN front : front[i].type = ATTR_XOR_MAPPED_ADDRESS
                THEN ParseBindingResponse(before, Mine) ELSE Err("Truncated")

(* A signature that verifies does so for the transaction, the nonce and    *)
(* the key of this very request: put beside attributes of another request, *)
(* or under another header, it is one that does not verify.                *)
SignatureIsForThisRequest ==
  LET c == ClassifyRequest(msg)
  IN (c.ok /\ VerifySignedRequest(msg.txid, c.value).ok) =>
       \A id \in Txids, text \in Texts, key \in Keys :
         VerifySignedRequest(id, [c.value EXCEPT !.nonce = text, !.spki = Spki(key)]).ok =>
           id = msg.txid /\ text = c.value.nonce /\ Spki(key) = c.value.spki

(* Whatever datagram a server replies to, the signed client reads from the *)
(* reply what the server decided: an address only where it answered, a     *)
(* realm and a nonce only where it challenged, and the code it chose.      *)
ReplyReadsAsDecided ==
  addr = Home => \A mode \in {"Advisory", "Required"}, secret \in Secrets, t \in Times :
    LET d == Decided(mode, secret, msg, Source, t)
        read == ReadReply(Reply(d, secret, msg.txid, Source, t), msg.txid)
    IN CASE d.act = "Answer" -> read = Okay(FoldAddr(Source))
         [] d.act = "Challenge" ->
              /\ read.ok /\ read.value.code = d.code
              /\ read.value.realm = Some(REALM)
              /\ ReadNonce(secret, read.value.nonce[1], Source) = Issue(secret, Source, t)
         [] d.act = "Refuse" -> read = Okay([code |-> d.code, realm |-> None, nonce |-> None])
         [] d.act = "Ignore" -> TRUE

(* From any source address, in either mode and at any time, a node with a  *)
(* good key gets through: the challenge it is sent, read, signed and sent  *)
(* back, octet by octet, is answered with its address within the next      *)
(* bucket, is stale in the one after, and is worth nothing to a server     *)
(* with another secret.                                                    *)
ChallengeCanBeMet ==
  addr \in Callers => \A mode \in {"Advisory", "Required"}, secret \in Secrets, t \in Times :
    LET asked     == EncodeIdentityRequest(Mine, Spki("node"))
        challenge == Reply(Decided(mode, secret, asked, Source, t), secret, Mine, Source, t)
        nonce     == ReadReply(challenge, Mine).value.nonce[1]
        signed    == EncodeSignedRequest(Other, nonce, Signer("node"))
        Then(other, later) == Decided(mode, other, signed, Source, later)
    IN /\ \A later \in {t, t + BucketTicks} : Then(secret, later) = AnswerIt
       /\ Then(secret, t + 2 * BucketTicks) = Challenge(ERR_STALE_NONCE)
       /\ \A other \in Secrets \ {secret} : Then(other, t) = Challenge(ERR_UNAUTHENTICATED)
=============================================================================
