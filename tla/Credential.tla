----------------------------- MODULE Credential -----------------------------
(***************************************************************************)
(* The server's half of the credential: the nonce of                       *)
(* src/src/credential/nonce.rs, the decision table of decide.rs and the    *)
(* order SPEC.md 14.5 has a server evaluate them in.                       *)
(*                                                                         *)
(* An HMAC tag is the secret and the message it was made from: a tag       *)
(* matches exactly when both do.  A signature is whether it verifies over  *)
(* the transaction id, the nonce and the key of the request that carries   *)
(* it.  Bytes that do not decode to a nonce are NotANonce.                 *)
(***************************************************************************)
EXTENDS Scope

CONSTANTS BucketTicks,   \* NONCE_BUCKET_SECS, in ticks
          BucketWrap     \* buckets are counted in a u32: 2^32

ASSUME CredentialAssumption == /\ BucketTicks \in Nat \ {0}
                               /\ BucketWrap \in Nat /\ BucketWrap > 2

ERR_UNAUTHENTICATED == 401
ERR_STALE_NONCE     == 438

-----------------------------------------------------------------------------
BucketAt(t) == (t \div BucketTicks) % BucketWrap

NoNonce   == [secret |-> 0]
NotANonce == [secret |-> 0, undecodable |-> TRUE]

Issue(secret, source, t) ==
  [secret |-> secret, bucket |-> BucketAt(t), source |-> FoldAddr(source)]

(* Mutants of Check: a nonce of any secret passes; the tag does not cover  *)
(* the source; the bucket before the current one is stale already.         *)
CheckAnySecret(secret, nonce, source, t) ==
  IF nonce.secret = 0 \/ nonce.source # FoldAddr(source) THEN "Invalid"
  ELSE IF nonce.bucket \in { BucketAt(t), (BucketAt(t) + BucketWrap - 1) % BucketWrap }
       THEN "Fresh" ELSE "Stale"

CheckAnySource(secret, nonce, source, t) ==
  IF nonce.secret # secret THEN "Invalid"
  ELSE IF nonce.bucket \in { BucketAt(t), (BucketAt(t) + BucketWrap - 1) % BucketWrap }
       THEN "Fresh" ELSE "Stale"

CheckCurrentOnly(secret, nonce, source, t) ==
  IF nonce.secret # secret \/ nonce.source # FoldAddr(source) THEN "Invalid"
  ELSE IF nonce.bucket = BucketAt(t) THEN "Fresh" ELSE "Stale"

(* check: the tag for the nonce's own bucket first, then the bucket's age; *)
(* the previous bucket is now_bucket.wrapping_sub(1).                      *)
Check(secret, nonce, source, t) ==
  IF nonce.secret # secret \/ nonce.source # FoldAddr(source) THEN "Invalid"
  ELSE IF nonce.bucket \in { BucketAt(t), (BucketAt(t) + BucketWrap - 1) % BucketWrap }
       THEN "Fresh" ELSE "Stale"

-----------------------------------------------------------------------------
AnswerIt        == [act |-> "Answer"]
Challenge(code) == [act |-> "Challenge", code |-> code]
Refuse(code)    == [act |-> "Refuse", code |-> code]

(* decide, rows 1 to 7. *)
Decide(mode, kind, nonce, verified) ==
  CASE kind = "bare" /\ mode = "Advisory" -> AnswerIt
    [] kind = "bare" /\ mode = "Required" -> Refuse(ERR_UNAUTHENTICATED)
    [] kind = "identity" -> Challenge(ERR_UNAUTHENTICATED)
    [] kind = "signed" /\ nonce = "Fresh" ->
         IF verified THEN AnswerIt ELSE Challenge(ERR_UNAUTHENTICATED)
    [] kind = "signed" /\ nonce = "Stale" -> Challenge(ERR_STALE_NONCE)
    [] OTHER -> Challenge(ERR_UNAUTHENTICATED)

(* The flow a server is to follow (SPEC.md 14.5, reference_server_decide   *)
(* in tests/credential.rs): the nonce is looked at for a signed request    *)
(* only, and the signature for a fresh nonce only.                         *)
Decision(mode, secret, request, source, t) ==
  LET nonce == IF request.kind = "signed"
               THEN Check(secret, request.nonce, source, t) ELSE "none"
  IN Decide(mode, request.kind, nonce, nonce = "Fresh" /\ request.verifies)
=============================================================================
