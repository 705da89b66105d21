---------------------------- MODULE MCBareClient ----------------------------
(* BareClient for TLC: two queries.                                        *)
EXTENDS BareClient

Nibbles == [a \in 0..15, b \in 0..15 |->
             LET Bit(n, k) == (n \div k) % 2
                 Odd(k) == (Bit(a, k) + Bit(b, k)) % 2
             IN Odd(1) + 2 * Odd(2) + 4 * Odd(4) + 8 * Odd(8)]
XorOctets(a, b) == 16 * Nibbles[a \div 16, b \div 16] + Nibbles[a % 16, b % 16]

Txid(n) == << n, 0, 0, 0, 0, 0, 0, 0, 0, 0, 0, 255 >>
Txids == [q \in Queries |-> Txid(q)]

SomeMappings == { [ip |-> << 8, 8, 0, 1 >>, port |-> 4242],
                  [ip |-> << 127, 0, 0, 1 >>, port |-> 4243] }

(* The late answer to an earlier query; another host's datagram that looks *)
(* like an answer to this one.                                             *)
SomeStray ==
  { [src |-> "dig", msg |-> EncodeBindingSuccess(Txid(99), [ip |-> << 8, 8, 0, 2 >>, port |-> 1])],
    [src |-> "elsewhere", msg |-> EncodeBindingSuccess(Txid(1), [ip |-> << 9, 9, 9, 9 >>, port |-> 1])] }
=============================================================================
