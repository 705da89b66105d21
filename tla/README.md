# dig-stun in TLA+

TLA+ modules, TLC runs and TLAPS proofs kept beside `dig-stun`, the crate with
which DIG nodes learn the address strangers see them at. Paths below are those
of the repository (`src/src/...` is the crate's source, `src/SPEC.md` its
specification).

## 1. The system

`dig-stun` is a library. A node that wants to know its own reflexive address

1. sends STUN Binding requests to operator, relay and public servers
   (`client.rs`; `credential/signed_client.rs` where the server wants the
   node's identity),
2. asks peers over authenticated connections (`observe.rs` is the answering
   side),
3. files every answer as a `Reading` under the class of its source and lets
   `establish()` decide which address, if any, may be advertised
   (`establish.rs`),
4. judges every address, wherever it came from, by one table (`scope.rs`).

A server uses `credential/nonce.rs` and `credential/decide.rs` to answer signed
requests without keeping anything of the clients it challenged.

| component | source | state | operations | met by | correct when |
|---|---|---|---|---|---|
| Address scope table | `scope.rs` | none | `fold_ip`, `scope_of_ip`, `scope_of`, two predicates | called by every other component | no range has a gap or a stray neighbour; no spelling of an address changes its scope |
| Observation limiter | `observe.rs` | two bounded maps of token buckets, one shared bucket | `allow` | called under a lock, with a clock reading of the caller's | budgets per window hold; a refusal costs nothing; the maps stay bounded |
| Observation decision | `observe.rs` | none | `observe` | judges by the scope table; the node asks it and the limiter, in an order of its own | a peer is told only the address its own traffic has, and charged under it |
| Agreement | `establish.rs` | none (the consumer keeps the readings) | `SourceClass` constructors, `parse`, `Display`; `establish` | consumer | a lying minority of classes establishes nothing false; a dissent is never outvoted; honest answers agree |
| Nonce issuer | `credential/nonce.rs` | a secret | `issue`, `check` | server | a nonce is bound to source, issuer and time |
| Decision table | `credential/decide.rs` | none | `decide` | server | Required answers nobody without proof |
| Signed client | `credential/signed_client.rs` | stage, transaction id, deadline | one async query | shares the node's listen socket with everything else it receives | waits no longer than its timeout, however long a send takes; the result is the server's answer to the last datagram; what it signs first is a DIG server's |
| Bare client | `client.rs` | transaction id, deadline | one async query | the same socket, and any other query on it | returns in time; the result is the source of its own datagram |
| Codecs | `codec.rs`, `credential/{request,response,wire}.rs` | none | encoders and parsers of STUN messages | clients and servers | parsers accept what encoders write, and no more |
| Signatures | `credential/signature.rs` | none | `verify_signed_request` | server | ECDSA over transaction id and nonce |

What is hard to test here: two windows meeting in one stretch of time; a
crowd of callers at the map's bound; clock readings that arrive out of order;
readings that straddle a renumbering; datagrams lost, repeated, late and
reordered, on a socket that is not the query's own, so that queries take each
other's replies from its queue; a NAT rebinding, a
rebalanced flow or a server restart between challenge and signed request; the
nonce bucket's wrap-around; ends of address ranges; attribute walks that four
parsers each make in their own way, over messages that are cut, overrun or
padded. `PROJECT.json` lists each
hazard at its line.

## 2. The modules

    Scope --+--> ObserveLimiter --+--> ObserveLimiterRefinement -- implements --> AnswerBudget
            |                     +--> ObserveLimiterAudit
            +--> Observation -----+--> PeerObservation (with ObserveLimiter)
            +--> Establish --> Discovery
            +--> Codec --+--> BareClient ------ implements --> ReflexiveQuery
            |            +--> CredentialCodec --> CodecLaws
            +--> Credential --+--^
                              +--> SignedExchange -- implements --> ReflexiveQuery

* **Scope** is `scope.rs` with the real widths: an IPv4 address is a 4-tuple of
  octets, an IPv6 address an 8-tuple of segments, a mask is a division. It also
  holds the table of SPEC.md 5.3, as intervals, to compare with.
* **ObserveLimiter** is `ObserveLimiter`: a `HashMap` is a partial function,
  `allow()` is one action with its four outcomes (refused by the session's, the
  source's or the shared budget, or answered), `min_by_key` over a `HashMap` is
  a choice among the least recently seen. The clock is a variable; a call
  carries a time up to `Lag` behind it, since callers read the clock before
  they have the lock. Window widths are constants in ticks.
* **AnswerBudget** is what the limiter promises: per window, per session, per
  host and for the node, so many answers; a refusal is free; forgetting needs a
  crowd. **ObserveLimiterRefinement** maps buckets to what they stand for: used
  is what is missing from the bucket if its window is the current one, and
  nothing otherwise.
* **ObserveLimiterAudit** adds a log of the answers (to whom, where and when),
  for properties of rates.
* **Observation** is `observe()`. **PeerObservation** puts it and the limiter
  together as a node does; the crate leaves the order to the node, so a call
  that `observe()` declines may or may not be charged. A link records, besides
  what the node knows of it, the address its peer really has.
* **Establish** is `establish.rs`: `SourceClass`, the folding and splitting of
  readings, `verdict_for_family`. Readings are a set because the code sorts and
  deduplicates before it counts. A source string is a form, an id and how many
  zeros it has that `Display` would not write.
* **Discovery** (the environment is external) is rounds of discovery around it:
  truthful and lying reporters, spellings, ports, a reporter of a tier
  `SourceClass::parse` does not know, a node that is renumbered in the middle of a
  round. Not answering is not acting.
* **Codec** is `codec.rs`. A message is its header fields, the number of its
  bytes that were received, and its attributes, each at the offset its sender
  wrote it at. A parser steps through the area by its own arithmetic
  (`After`) and sees the attributes its steps meet (`Reached`), so a wrong step
  is visible. Address values are octets, XORed octet by octet.
* **CredentialCodec** is `credential/{wire,request,response,signature}.rs` and
  the text of nonces: base64url, classification, encoders and parser of
  challenges, the signing message. `Decided` and `Reply` are a server that puts
  it together with `Credential`.
* **CodecLaws** composes messages attribute by attribute, damages them in one
  place (an attribute that overruns, an area declared shorter or longer, a cut
  datagram, another header) and states what encoders and parsers owe each other.
  `plain` is a history variable: the same message composed without the
  attributes no parser knows, to compare with what the parsers make of `msg`.
  What is unknown may not follow a signature, which `classify_attrs` wants last;
  `UnknownAttributesIgnored` excepts that.
* **BareClient** is `query_reflexive_address` over `Codec`'s datagrams and one
  socket: a queue whose head goes to whichever query receives. Sending is a
  phase of its own, which may last (the send is awaited outside the timeout).
  Servers lay out replies in three ways: as this crate does, as a legacy
  `MAPPED-ADDRESS` in the spelling of a dual-stack socket, and longer than the
  client's 512-byte buffer.
* **Credential** is the nonce (an HMAC tag is its key and message) with the
  wrapping bucket number, `decide`, and the order SPEC.md 14.5 evaluates them
  in.
* **SignedExchange** is `query_reflexive_address_signed`, one action per branch
  of the receive loop and one per send that completes, against servers of three
  kinds (DIG; one that ignores the credential; one with its own realm), a
  network, a NAT and time. As in BareClient sending is a phase of its own
  (`sending`): the deadline is computed before the first send is awaited, no timer
  runs out on a send, the datagram leaves with the source the NAT gives it then,
  and a call that comes back to the loop's top too late receives nothing more
  (stage `Late`).
  `requests` and `replies` only grow and anything in them may be delivered again:
  that is loss, duplication, delay and reordering at once. `Noise` is what else
  reaches the socket.
* **ReflexiveQuery** is what a query promises: it ends once, with a source its
  own datagrams had and a stranger could dial, or with nothing. Both clients
  implement it.
* **MC*** modules give constants for TLC. The modules `*Proofs` hold the
  theorems about the module they are named after (`ObserveLimiterProofs` about
  its refinement and its audit too, `CodecLawsProofs` about the table as well).
  **ScopeLemmas** (folding, division) and **CodecLemmas** (an address written
  and read, attribute areas laid out and walked) hold what several of them cite.

## 3. The runs

| run | question | bounds, and why they are enough |
|---|---|---|
| `codec` | is the table the one SPEC.md 5.3 gives, and do encoders and parsers agree? | both ends of every range and their neighbours, in three spellings, each through the wire under two transaction ids; messages of up to 4 attributes (a signed request and one more), from values the encoders write for two nodes, nonces and transactions and values that fail a check, one damage each; whole exchanges from callers of both families, two secrets, either mode, on the last bucket before the wrap |
| `limiter_refines` | do the buckets keep the promise? | 3 sessions over 2 tracked (eviction), one host in three spellings and another, capacity 2, session window 4 of 6 ticks with global windows of 2: every order of two windows beginning |
| `observation` | what does a responder tell whom, and whom does it forget? | 6 links of 3 sessions over 2 tracked: two peers behind one address, in two spellings, one on the LAN, one dialled, one through a relay, one without a port; readings one tick late over a session boundary (3) and a global one (2) |
| `limiter_rolling` | what do fixed windows guarantee of any stretch, of a session, a host and the node? and do log and buckets agree (`LogAccounted`, from which it is proved)? | two session windows of 3 ticks and three global ones of 2, so that a stretch straddles boundaries of either and of both; 2 sessions and 2 hosts, all of which can be tracked, capacities of 2 |
| `limiter_rolling_minute` | is it the documented rolling minute? | violated, see 6 |
| `limiter_zero` | does a zero budget deny everything? | violated, see 6 |
| `discovery_rounds` | can a minority lie, do honest rounds succeed, is a verdict stable? | 6 reporters in 5 classes (two peers share a block, one source is of an unknown tier), three choices of liars (none, the relay, all peers of two blocks), 3 readings a round (the peer-only floor, the higher of the two), two addresses of one family and one of the other, two ports, so that readings of one address differ in port |
| `bare_client` | whose answer does a query on a shared socket return, and when does it fail for another's? | 2 queries, each to any of three servers, a queue of 2, one rebinding between a dialable and a loopback mapping, a leftover of an earlier query and a stranger's datagram, timeout of 2 ticks |
| `exchange_upsets` | is the outcome about the last datagram, whatever happens between? | 2 replicas (one dual-stack), one of rebind, rebalance and restart at any point, 2 replies to a datagram, a timeout of 4 ticks with buckets of 2, sends that may end a tick after it (`MaxLate`), starting on the last tick before the bucket number wraps; a nonce of the process before the restart meets the new one |
| `exchange_steady` | when may a steady path fail, whom does it sign for, how long does it wait, does the call return? | one replica of each kind behind one address and one rebalancing; a timeout of 7 ticks: three buckets and one tick, the least in which a second 438, and so a refusal, can happen; sends that may end a tick after it |
| `exchange_rebalance` | is a rebalanced flow never a failure? | violated, see 6 |
| `exchange_other_protocol` | is a datagram of another transaction always discarded? | violated, see 6 |

`CHECK_DEADLOCK FALSE` stands where the system may stop: where every query has
returned. In `bare_client` the clock stands still once nobody receives
(`MaxTime = 0`): what happens between the queries does not depend on it, and
one that receives runs it on to its deadline. Servers there reply again to any
datagram, and whatever they sent stays deliverable.

**Fairness.** Safety properties assume none. `exchange_steady` checks `Returns`
under weak fairness of `Start` and `StartWithBadKey` (the caller polls the
future), `Tick` (time passes) and `TimeOut` (the runtime's timer wakes the task
at the deadline); `bare_client` under weak fairness of `Tick` and of each
query's `TimeOut`. `Tick` does not pass the deadline of a query that receives,
which is the timer firing on time; it does while a send blocks, by `MaxLate` at
most, which bounds the clock and not the send. Nothing is assumed of servers,
network or sends, which may block for ever: the bare query's `Returns` begins
where the send has completed, the exchange's excepts a call that stays in a send
from some time on. Receiving is never fair: replies that are discarded may come for
ever, and only the deadline ends the wait.

## 4. What is proved

TLAPS checks these for every value of the constants.

* *Scope.* `ScopeMatchesTable`, `NativeScopeMatchesTable`: the code's predicates
  and the table agree on all addresses, not on samples. Each interval of 24-bit
  prefixes is reduced to a condition on the octets it fixes.
  `ScopeSeesThroughEmbedding`: `fold_ip` undoes both embeddings (`FoldEmbedded`),
  so the scope is that of the IPv4 address. `FoldIpIdempotent`.
* *Limiter.* `LimiterTypeCorrect`, `LimiterMapsBounded`,
  `LimiterRefusalSpendsNothing`, from `LimiterAssumption` only (finite callers,
  positive bound and widths), for any lag. The invariant is `TypeOK` with the
  maps finite and bounded: `MapsBounded` by itself is not inductive, since the
  cardinality of a set says nothing unless the set is finite. `BucketForType`
  and `BucketForBounded` are what `bucket_for` returns.
* *Limiter implements AnswerBudget.* `LimiterInvariant`, for any lag: no bucket
  holds more than its capacity or belongs to a window that has not begun
  (`BucketsSound`). `LimiterKeepsPromise` rests on it; without the second half a
  tick into that window would bring a use back. Its hypothesis is `ExactTime`:
  calls carry the current time and no capacity is zero (with either dropped it
  is false, see 6 for zero). `BucketUse` says what each bucket
  operation does to the use the bucket stands for, `TickWindow` that a tick
  into a new window makes every bucket stand for none, `BucketForForgets` that
  only a crowd is forgotten; `Charging` puts them together for one map.
* *Rates.* `LimiterRollingTwice`, with `ExactTime`. A stretch as long as a window
  lies in two of them (`StretchMeetsTwo`), so it is enough that no window holds
  more answers than the budget. That is not inductive. `LogAccounted` is, with
  `LimiterInvariant`: it adds that in a bucket's own window answers and tokens
  left make up no more than the budget, that no answer is of a later window,
  and that a caller without a bucket was never answered
  (`LimiterLogAccounted`). The last is where eviction would break it, and why
  sessions and hosts must fit the maps; the shared bucket is never evicted.
* *Responder.* From `LinksAssumption` (only an inbound direct link shows its
  peer): `ResponderLimits`, every step of the responder is a step of the
  limiter, so what is proved of the limiter holds of it;
  `ResponderToldIsOwnAddress`; and `ResponderCrowdedOutOnly`. The last needs a
  history: a call refused by the source or shared budget does not refresh its
  session, so the order of eviction is not that of asking. The strengthening
  relates each tracked bucket's `last_seen_ms` to the readings its session and
  the others called with.
* *Discovery.* `DiscoveryTypeCorrect`, `DiscoveryNoForgedAddress`,
  `DiscoveryVerdictHardens` and `DiscoveryHonestRound`, from
  `DiscoveryAssumption`. The invariant `ReadingsHonest` says of every reading
  that it stands under a liar's label or names an address the node had in the
  round. If an established address is not the node's, all classes behind it are
  liars' (`EstablishedMeans`), and those are too few (`TooFewIsNotEnough`).
  Where nobody lies, the readings of a family all fold to the one address.
* *Codec.* `AddressRoundTrip`: SPEC.md 2.7's law for every address, port and
  transaction id, from `OctetXorAssumption` alone (XOR twice with a key gives
  the octet back). `DecodePlain` reassembles ports and segments from octets,
  `OneAttribute` is the walk over a message of one attribute.
  `LawsAddressSurvivesWire` is the law as `CodecLaws` states it.
* *Datagrams cut, signatures moved.* `LawsCutDatagramsRejected` and
  `LawsSignatureIsForThisRequest` hold of any message whatever, reachable or
  not: every parser makes the length check before it walks, and the signing
  message holds transaction id, nonce and key.
* *Walks over any area.* `LawsUnknownAttributesIgnored` and `LawsOverrunsHandled`,
  for messages of any number of attributes. Both rest on `Laid`: each attribute
  is where the padding of the one before it ends, and none reaches into a later
  one. `write_attr` keeps it (`LaidWritten`), whatever the last attribute claims to
  be (`Claimed`), and a parser meets all of an area that is as long as declared
  (`WholeWalk`), or all when it meets the last (`OverrunWalk`). Two areas `Agree` if
  of every set of known attributes (type, length, value) they hold none or some
  alike, the same first and last, and more than one alike: that is all the
  parsers ask of an area but what follows a signature (`TwinMapped`,
  `TwinChallenge`, `TwinClassified`). The inductive invariant is `Composed`: the
  area is laid out; where its declared length is not its own, the header is that
  of a good message; and while nothing is damaged, `plain` agrees with `msg`
  (`ComposedHolds`). Each set is preserved by itself; `Agree` is over all of them
  because those a parser asks about (the addresses that decode, the attributes
  that are not well shaped) depend on the message. TLC cannot enumerate these
  sets, so the run checks the two properties and not `Composed`. First and last
  are least and greatest numbers: the one use of induction, by way of the
  library's well-foundedness of `<` (`Least`, `Greatest`, `Ends`). `LawsAssumption`
  says that there are secrets, so that the nonces composed are texts of nonces.
* *Nonces on the wire.* `Base64RoundTrip`: decoding undoes encoding, for octets
  of any number. No induction is needed, because text and octets are functions
  of a position: three octets are a word of 24 bits, four characters its
  sextets (`Sextets`, `WordOctets`), and `Lengths` is the arithmetic of the
  partial group at the end. `NonceTextIsRead` adds that the bucket number
  comes back from its four octets, so the text is worth what `check` makes of
  the nonce.
* *A server and a client, octet by octet.* `LawsReplyReadsAsDecided` and
  `LawsChallengeCanBeMet`, from `LawsAssumption` and `TagAssumption` (a tag is 16
  octets, and two secrets make different ones). Whatever datagram comes,
  `decide` yields an answer, a refusal or a challenge (`DecisionsMade`), and each
  is a message of one or three attributes that the walk meets where they were
  written (`OneWritten`, `ThreeWritten`). In the other direction
  `IdentityClassified` and `SignedClassified` are what the server reads of the
  client's two requests. `LaterBuckets` says what a nonce is worth one and two
  buckets on, across the wrap too.
* *Bare client.* `BareAnswerIsOwn`, `BareMismatchNeedsSharing`, `BareOneWait` and
  `BareKeepsQuery` (it implements `ReflexiveQuery`), from `BareAssumption`, for
  any number of queries, mappings, stray datagrams and any delivery. The
  invariant (`Accounted`) says of every datagram under way or queued that it is
  stray or an answer to a request that was sent; `OwnRead` is what a query reads
  of an answer to its own request in each layout, cut at the buffer or not,
  and `ForeignRead` that it reads nothing but a mismatch or an error from any
  other of its server. The round trip of the codec is what makes the address
  read the request's source.
* *Signed exchange.* `ExchangeTypeCorrect`, `ExchangeOneDeadline`,
  `ExchangeOutcomeIsAboutLatest`, `ExchangeSignsForDigFirst` and
  `ExchangeKeepsQuery` (it implements `ReflexiveQuery`), for any mappings,
  replicas, skews, upsets, timeout, signers and stray datagrams, from
  `ExchangeAssumption` and `FreshTransactionIds` (ids are 96 random bits: no other
  query's datagram carries one of this exchange's). The strengthening: the
  transaction id counts the datagrams sent and the one being sent (`Numbered`,
  `RequestsMine`), the deadline is the one computed at the start, and only a send
  takes the clock past it (`InTime`), and an address in a reply
  is the source of a request with that transaction id (`SuccessHonest`); without
  the last, a success that is already under way when the client moves on could
  name anything. `SeenFolds` is where `fold_ip` comes in: what a dual-stack
  server saw folds to the source that was sent from.
* *What a nonce proves.* `ExchangeProvedBeforeAnswer`. Servers keep nothing, so
  the invariant (`Provenance`) follows what they gave away: every error of the
  exchange carries the time it was made, and its nonce was issued for the
  source of the request it answers, by a server that had the secret; every
  nonce signed is one received, also while its send is still awaited; a secret drawn at a restart has one owner.
  The nonce an answer rests on is under the secret the answering server
  has now, so what the process before a restart issued is worth nothing to it.
  `FreshIsRecent` is the arithmetic: a nonce that `check` calls fresh is less than
  two buckets old unless the bucket number came round. `UnforgeableTags`
  (who holds no DIG server's secret makes no tag that matches) is assumed in
  `SignedExchange`; the theorem's hypotheses are `SharedClocks`, replicas that share
  a secret share the time, and `BelowWrap`, an exchange, the sends it is blocked in
  included, shorter than one turn of the bucket number (for the u32 and real
  buckets, millennia). Nothing in the
  library ensures the first: a replica two buckets ahead calls stale what another
  has just issued, and one that is a bucket behind finds fresh what is older
  than two. Both hold of the run.
* *No spurious refusal.* `ExchangeNoSpuriousRefusal`, with neither hypothesis.
  `SteadyInv` counts buckets, along the datagrams sent and the one being sent: a nonce refused as stale is two buckets older than
  the one that replaces it, so the answers to datagrams 1, 2 and 3 are at least
  0, 2 and 4 buckets from the start, and only the last is a refusal.

Only model-checked: the two `Returns`, which are liveness under fairness and out
of the prover's reach. `MatchesTable`, `EmbeddingIsTransparent` and
`NativeMatchesTable` are proved of every address. A theorem about `CodecLaws` written `LawsSpec => []P` is about
every choice of the sample constants; those without a specification hold of any
value of its variables.

## 5. What is abstracted, and what is not modelled

* A datagram that leaves does so when its send completes; a send that fails is
  `IoError` and leaves nothing. The clients' own computation takes no time.
* The limiter's budgets per window are stated for calls that carry the current
  time (`Lag = 0`, `ExactTime`). A late reading refills a bucket as a new window
  does, so with late readings they do not hold; no text of the crate says they
  should. The responder's run has late readings, for what must hold in spite of
  them: refusals are free, and only a crowd is forgotten.
* `SignedExchange` keeps its replies as records: `unreadable` (fails a check made
  before the transaction id is compared) or `garbled` (one made after).
  `CodecLaws` is where bytes become such replies: `ReplyReadsAsDecided` and
  `ChallengeCanBeMet` tie the records to the wire.
* HMAC and ECDSA are perfect: a tag stands for its key and message, a signature
  for its key and message; `Tag` and `OctetXor` are constants, and the runs give
  them functions that tell apart what they are applied to. Transaction ids are
  distinct by assumption.
* In `CodecLaws` a key is a length, a well-formedness flag and a name, and a
  reason phrase its length. Attribute values are what a parser tells apart.
* Wall-clock time is in ticks; widths and the u32 of the bucket number are
  constants, with the real order among them.
* Not modelled: the random source (`transaction_id.rs`, `new_random`; only the
  freshness of what it gives), `constant_time_eq`'s timing (only its result),
  DER and curve arithmetic, error texts, `lib.rs`, tests and CI files.

## 6. Where code and documentation disagree

1. `limiter_zero`: `TokenBucket::peek` is true whenever the window has changed,
   so a budget of zero still answers once in every later window;
   `observe.rs:219-220` says a zero denies every request.
2. `limiter_rolling_minute`: windows are fixed, so a session gets twice its
   budget within a minute across a boundary; `observe.rs:108-109` says per rolling
   minute. `RollingTwice` is what does hold.
3. `exchange_rebalance`: after the first challenge a 401 is final, so a flow
   rebalanced to a replica with its own secret ends as `Refused`;
   `SPEC.md:913-914` says a rebalanced flow costs one re-challenge, never a failure.
4. `exchange_other_protocol`: a datagram from the server's address of another
   message type, or with a bad cookie, ends the exchange before its transaction
   id is looked at; `signed_client.rs:65-67` says it is discarded.

Also met, and not given a run:

* `signed_client.rs:63-64` has at most three datagrams sent, "all within the ONE
  `timeout`". Sends are awaited outside `tokio::time::timeout`, so one that blocks
  leaves after the deadline, and the call ends later than that or not at all;
  `OneDeadline` and `Returns` say what does hold: no reply is waited for or taken
  after it.
* The realm of a 438 to a signed request is not looked at, so the second nonce
  signed may be that of a server of another realm at the same address.
  `SPEC.md:1095-1099` asks it of the 401 only; `SignsForDigFirst` is about that.
* `credential/request.rs:27` and `:154` speak of `DIG-IDENTITY`, `NONCE`,
  `DIG-SIGNATURE` "in that order"; `classify_attrs` only wants the signature last
  and takes `NONCE` before `DIG-IDENTITY`.
* `SPEC.md:673-675` has a nonce with any flipped byte invalid. The last character
  of 20 encoded bytes carries two spare bits that `base64url_decode` ignores, so
  four texts stand for each nonce.
* `credential/request.rs:155` gives a signed request at most 228 bytes; the nonce
  is echoed at whatever length the server chose.
* `SPEC.md:863` has the 40-byte malformed reply answer at least 116 bytes; an
  empty `DIG-SIGNATURE` makes a malformed request of 24.

## 7. What is left

Every part of the crate that keeps state or decides is modelled. What would
extend the project: the signed client on a socket shared with bare queries (the
two models composed), and `SourceClass::parse` on strings `Display` never writes
beyond unknown tiers. Every safety property of the passing runs is proved; the
two liveness properties are not, see the end of 4.
