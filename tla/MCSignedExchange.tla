-------------------------- MODULE MCSignedExchange --------------------------
(* SignedExchange for TLC.                                                 *)
EXTENDS SignedExchange

Home  == << 8, 8, 0, 1 >>
OneMapping  == { [ip |-> Home, port |-> 1] }
TwoMappings == { [ip |-> Home, port |-> 1], [ip |-> Home, port |-> 2] }
WithLoopback == { [ip |-> Home, port |-> 1], [ip |-> << 127, 0, 0, 1 >>, port |-> 1] }

NoSkew    == [r \in Replicas |-> 0]
OneSecret == [r \in Replicas |-> 1]
OwnSecret == [r \in Replicas |-> r]

DigOnly   == [r \in Replicas |-> "dig"]
OneOfEach == [r \in Replicas |-> CASE r = 1 -> "foreign" [] r = 2 -> "plain" [] r = 3 -> "dig"]

Nobody == {}

(* A bare request of another client, and what else reaches the socket: the *)
(* late answer to the node's previous query, and another host's datagram   *)
(* that happens to look like an answer.                                    *)
OtherClient == { [txid |-> 100, kind |-> "bare", nonce |-> NoNonce,
                  from |-> [ip |-> << 9, 9, 9, 9 >>, port |-> 1], verifies |-> FALSE] }
Leftover == { [type |-> "success", src |-> "server", txid |-> 99,
               addr |-> [ip |-> Home, port |-> 7]],
              [type |-> "success", src |-> "elsewhere", txid |-> 1,
               addr |-> [ip |-> << 9, 9, 9, 9 >>, port |-> 7]] }
(* A datagram of another protocol from the server's own address.           *)
OtherProtocol == { [type |-> "unreadable", src |-> "server", txid |-> 99] }
Garbled == { [type |-> "garbled", src |-> "server", txid |-> 1],
             [type |-> "unreadable", src |-> "server", txid |-> 1] }

Foreign == { [code |-> 401, realm |-> "example.org", nonce |-> NotANonce],
             [code |-> 401, realm |-> "none", nonce |-> NoNonce],
             [code |-> 438, realm |-> "example.org", nonce |-> NotANonce],
             [code |-> 500, realm |-> "none", nonce |-> NoNonce] }

Stray == Leftover \union Garbled
=============================================================================
