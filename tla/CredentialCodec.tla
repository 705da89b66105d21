--------------------------- MODULE CredentialCodec ---------------------------
(***************************************************************************)
(* src/src/credential/{wire,request,response,signature}.rs: how a server   *)
(* classifies a request and spells its reply, how a client spells its      *)
(* requests and reads a reply, and the text and octets of a nonce.         *)
(*                                                                         *)
(* Values are what the parsers tell apart.  A key is its length, whether   *)
(* it has the P-256 prefix and point marker, and which key it is; a        *)
(* signature is its length, the key that made it and the message it is     *)
(* over.  base64url text is a sequence of character values, and any other  *)
(* character is 64.  An absent value is << >>, a present one << value >>.  *)
(***************************************************************************)
EXTENDS Codec, Credential, FiniteSets

CONSTANT Tag(_, _, _)   \* secret, bucket, source: the first 16 octets of the HMAC

ATTR_DIG_IDENTITY  == 53600
ATTR_DIG_SIGNATURE == 53601
ATTR_ERROR_CODE    == 9
ATTR_REALM         == 20
ATTR_NONCE         == 21
BINDING_ERROR      == 273
REALM              == "dig-stun"
CREDENTIAL_VERSION == 1
P256_SPKI_LEN          == 91
MAX_SIGNATURE_LEN      == 72
MIN_SIGNATURE_ATTR_LEN == 9
ERR_BAD_REQUEST == 400
NONCE_LEN == 20

NotUtf8 == "not UTF-8"
None    == << >>
Some(x) == << x >>

-----------------------------------------------------------------------------
(* base64url.                                                              *)

OctetAt(octets, i) == IF i <= Len(octets) THEN octets[i] ELSE 0

Base64UrlEncode(octets) ==
  [i \in 1..((4 * Len(octets) + 2) \div 3) |->
     LET chunk == 3 * ((i - 1) \div 4)
         n == OctetAt(octets, chunk + 1) * 65536 + OctetAt(octets, chunk + 2) * 256
                                                 + OctetAt(octets, chunk + 3)
     IN (n \div << 262144, 4096, 64, 1 >>[((i - 1) % 4) + 1]) % 64]

Base64UrlDecode(text) ==
  IF (\E i \in DOMAIN text : text[i] > 63) \/ Len(text) % 4 = 1 THEN Err("Undecodable")
  ELSE Okay([j \in 1..((3 * Len(text)) \div 4) |->
         LET group == 4 * ((j - 1) \div 3)
             n == OctetAt(text, group + 1) * 262144 + OctetAt(text, group + 2) * 4096
                  + OctetAt(text, group + 3) * 64 + OctetAt(text, group + 4)
         IN (n \div << 65536, 256, 1 >>[((j - 1) % 3) + 1]) % 256])

(* A nonce of Credential as it travels: bucket_be(4) and the tag.          *)
NonceText(nonce) ==
  Base64UrlEncode(<< nonce.bucket \div 16777216, (nonce.bucket \div 65536) % 256,
                     (nonce.bucket \div 256) % 256, nonce.bucket % 256 >>
                  \o Tag(nonce.secret, nonce.bucket, nonce.source))

(* What check makes of the text: the nonce this issuer gave this source in *)
(* the bucket the text names, if the tag is the one recomputed for it.     *)
ReadNonce(secret, text, source) ==
  LET decoded == Base64UrlDecode(text)
      octets  == decoded.value
      bucket  == octets[1] * 16777216 + octets[2] * 65536 + octets[3] * 256 + octets[4]
  IN IF /\ decoded.ok
        /\ Len(octets) = NONCE_LEN
        /\ SubSeq(octets, 5, NONCE_LEN) = Tag(secret, bucket, FoldAddr(source))
     THEN [secret |-> secret, bucket |-> bucket, source |-> FoldAddr(source)]
     ELSE NotANonce

-----------------------------------------------------------------------------
(* Keys and signatures.                                                    *)

IsValidSpkiDer(spki) == spki.len = P256_SPKI_LEN /\ spki.p256

IsValidSignatureDerLen(len) == len + 1 \in MIN_SIGNATURE_ATTR_LEN..(1 + MAX_SIGNATURE_LEN)

(* A mutant of SigningMessage: the transaction id is not signed. *)
SigningMessageAnyTxid(txid, nonce, spki) == [nonce |-> nonce, spki |-> spki]

SigningMessage(txid, nonce, spki) ==
  [tag |-> "dig:stun:v1", txid |-> txid, nonce |-> nonce, spki |-> spki]

Sign(signer, message) == [len |-> signer.signatureLen, key |-> signer.spki.key,
                          over |-> message]

VerifySignedRequest(txid, kind) ==
  IF kind.kind # "signed" \/ ~IsValidSpkiDer(kind.spki) THEN Err("Malformed")
  ELSE IF /\ kind.signature.key = kind.spki.key
          /\ kind.signature.over = SigningMessage(txid, kind.nonce, kind.spki)
       THEN Okay(kind.spki)
       ELSE Err("BadSignature")

-----------------------------------------------------------------------------
(* Requests.                                                               *)

WriteIdentity(attrs, version, spki) ==
  WriteAttr(attrs, ATTR_DIG_IDENTITY, 1 + spki.len, [version |-> version, spki |-> spki])
WriteNonce(attrs, text) == WriteAttr(attrs, ATTR_NONCE, Len(text), text)
WriteSignature(attrs, version, signature) ==
  WriteAttr(attrs, ATTR_DIG_SIGNATURE, 1 + signature.len,
            [version |-> version, signature |-> signature])

EncodeIdentityRequest(txid, spki) ==
  Message(BINDING_REQUEST, txid, WriteIdentity(<< >>, CREDENTIAL_VERSION, spki))

(* A mutant of EncodeSignedRequest: what is signed is the decoded nonce. *)
EncodeSignedRequestDecoding(txid, nonce, signer) ==
  LET signature == Sign(signer, SigningMessage(txid, Base64UrlDecode(nonce).value, signer.spki))
      identity  == WriteIdentity(<< >>, CREDENTIAL_VERSION, signer.spki)
  IN Message(BINDING_REQUEST, txid,
             WriteSignature(WriteNonce(identity, nonce), CREDENTIAL_VERSION, signature))

EncodeSignedRequest(txid, nonce, signer) ==
  LET signature == Sign(signer, SigningMessage(txid, nonce, signer.spki))
      identity  == WriteIdentity(<< >>, CREDENTIAL_VERSION, signer.spki)
  IN Message(BINDING_REQUEST, txid,
             WriteSignature(WriteNonce(identity, nonce), CREDENTIAL_VERSION, signature))

WellShaped(attr) ==
  CASE attr.type = ATTR_DIG_IDENTITY ->
         /\ attr.len = 1 + P256_SPKI_LEN
         /\ attr.value.version = CREDENTIAL_VERSION
         /\ IsValidSpkiDer(attr.value.spki)
    [] attr.type = ATTR_DIG_SIGNATURE ->
         /\ attr.len # 0
         /\ attr.value.version = CREDENTIAL_VERSION
         /\ IsValidSignatureDerLen(attr.len - 1)
    [] OTHER -> TRUE

(* A mutant of MalformedAttrs: an attribute that runs past the area is      *)
(* passed over.                                                            *)
MalformedAttrsLenient(msg) ==
  \/ \E i \in Reached(msg) : ~Overruns(msg, i) /\ ~WellShaped(msg.attrs[i])
  \/ \E i \in ReachedOf(msg, ATTR_DIG_SIGNATURE), j \in Reached(msg) : i < j
  \/ \E type \in {ATTR_DIG_IDENTITY, ATTR_NONCE} : Cardinality(ReachedOf(msg, type)) > 1

(* What makes classify_attrs give up on the way. *)
MalformedAttrs(msg) ==
  \/ \E i \in Reached(msg) : Overruns(msg, i) \/ ~WellShaped(msg.attrs[i])
  \/ \E i \in ReachedOf(msg, ATTR_DIG_SIGNATURE), j \in Reached(msg) : i < j
  \/ \E type \in {ATTR_DIG_IDENTITY, ATTR_NONCE} : Cardinality(ReachedOf(msg, type)) > 1

ClassifyAttrs(msg) ==
  LET has(type)   == ReachedOf(msg, type) # {}
      value(type) == msg.attrs[FirstOf(ReachedOf(msg, type))].value
      dig == { type \in {ATTR_DIG_IDENTITY, ATTR_NONCE, ATTR_DIG_SIGNATURE} : has(type) }
  IN CASE MalformedAttrs(msg) -> Err("Malformed")
       [] ~MalformedAttrs(msg) /\ dig = {} -> Okay([kind |-> "bare"])
       [] ~MalformedAttrs(msg) /\ dig = {ATTR_DIG_IDENTITY} ->
            Okay([kind |-> "identity", spki |-> value(ATTR_DIG_IDENTITY).spki])
       [] ~MalformedAttrs(msg) /\ Cardinality(dig) = 3 ->
            Okay([kind |-> "signed", spki |-> value(ATTR_DIG_IDENTITY).spki,
                  nonce |-> value(ATTR_NONCE),
                  signature |-> value(ATTR_DIG_SIGNATURE).signature])
       [] OTHER -> Err("Malformed")

ClassifyRequest(msg) ==
  LET request == ParseBindingRequest(msg)
  IN IF request.ok THEN ClassifyAttrs(msg) ELSE request

-----------------------------------------------------------------------------
(* Replies.                                                                *)

ReasonLen(code) == IF code = ERR_UNAUTHENTICATED THEN 15 ELSE 11

(* A mutant of EncodeChallenge: a refusal carries the realm as well. *)
EncodeChallengeAlwaysRealm(txid, code, nonce) ==
  LET refusal == WriteAttr(<< >>, ATTR_ERROR_CODE, 4 + ReasonLen(code), code)
      realm   == WriteAttr(refusal, ATTR_REALM, 8, REALM)
  IN Message(BINDING_ERROR, txid,
             IF nonce = None THEN realm ELSE WriteNonce(realm, nonce[1]))

EncodeChallenge(txid, code, nonce) ==
  LET refusal == WriteAttr(<< >>, ATTR_ERROR_CODE, 4 + ReasonLen(code), code)
      realm   == WriteAttr(refusal, ATTR_REALM, 8, REALM)
  IN Message(BINDING_ERROR, txid,
             IF nonce = None THEN refusal ELSE WriteNonce(realm, nonce[1]))

(* The last of each attribute wins; one that runs past the area ends the   *)
(* walk and leaves what came before.                                       *)
ChallengeIn(msg) ==
  LET whole(type) == { i \in ReachedOf(msg, type) : ~Overruns(msg, i) }
      last(positions) == IF positions = {} THEN None
                         ELSE Some(msg.attrs[LastOf(positions)].value)
      code == last({ i \in whole(ATTR_ERROR_CODE) : msg.attrs[i].len >= 4 })
  IN [code  |-> IF code = None THEN 0 ELSE code[1],
      realm |-> last({ i \in whole(ATTR_REALM) : msg.attrs[i].value # NotUtf8 }),
      nonce |-> last(whole(ATTR_NONCE))]

ParseChallenge(msg, expected) ==
  LET fault == HeaderFault(msg, BINDING_ERROR)
  IN IF fault # "none" THEN Err(fault)
     ELSE IF msg.txid # expected THEN Err("TransactionIdMismatch")
     ELSE IF Incomplete(msg) THEN Err("Truncated")
     ELSE Okay(ChallengeIn(msg))

(* What the signed client's loop makes of a datagram of its server.        *)
ReadReply(msg, expected) ==
  CASE msg.size < 2 -> Err("Truncated")
    [] msg.size >= 2 /\ msg.type = BINDING_SUCCESS -> ParseBindingResponse(msg, expected)
    [] msg.size >= 2 /\ msg.type = BINDING_ERROR   -> ParseChallenge(msg, expected)
    [] OTHER -> Err("UnexpectedType")

(* A server that follows SPEC.md 14.5: what it decides of a datagram, and  *)
(* the reply, if there is one.                                             *)
Decided(mode, secret, msg, source, t) ==
  LET c == ClassifyRequest(msg)
      request == [kind     |-> c.value.kind,
                  nonce    |-> IF c.value.kind = "signed"
                               THEN ReadNonce(secret, c.value.nonce, source) ELSE NoNonce,
                  verifies |-> VerifySignedRequest(msg.txid, c.value).ok]
  IN IF c.ok THEN Decision(mode, secret, request, source, t)
     ELSE IF c.error = "Malformed" THEN Refuse(ERR_BAD_REQUEST)
     ELSE [act |-> "Ignore"]

Reply(decision, secret, txid, source, t) ==
  CASE decision.act = "Answer"    -> EncodeBindingSuccess(txid, source)
    [] decision.act = "Challenge" ->
         EncodeChallenge(txid, decision.code, Some(NonceText(Issue(secret, source, t))))
    [] decision.act = "Refuse"    -> EncodeChallenge(txid, decision.code, None)
=============================================================================
