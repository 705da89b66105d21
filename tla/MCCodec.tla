------------------------------- MODULE MCCodec -------------------------------
(* CodecLaws for TLC.                                                      *)
EXTENDS CodecLaws, Bitwise

XorTable == [a \in 0..15, b \in 0..15 |-> a ^^ b]
XorOctets(a, b) == 16 * XorTable[a \div 16, b \div 16] + XorTable[a % 16, b % 16]

TxidA == << 0, 1, 2, 3, 4, 5, 6, 7, 8, 9, 10, 11 >>
TxidB == << 255, 254, 33, 18, 164, 66, 128, 127, 0, 85, 170, 1 >>
HomeIp == << 9, 16, 0, 1 >>

Spelled(v) == { MappedV6(v), CompatV6(v) }
SomeCallers == Spelled(HomeIp) \union Spelled(<< 255, 0, 255, 1 >>)
               \union { << 255, 0, 255, 1 >>, << 8193, 3512, 0, 0, 0, 0, 0, 1 >>, << 65535, 1, 0, 1, 0, 0, 0, 2 >> }

(* Stands for the HMAC: it tells apart what it is applied to here.         *)
TagOctets(secret, bucket, source) ==
  LET ip == source.ip
      Hi(n) == (n \div 256) % 256
  IN << secret, Hi(bucket), bucket % 256, Hi(source.port), source.port % 256 >>
     \o IF Len(ip) = 4 THEN << 1 >> \o ip \o << 0, 0, 0, 0, 0, 0 >>
        ELSE << 2, Hi(ip[1]), ip[1] % 256, Hi(ip[2]), ip[2] % 256, ip[3] % 256,
                ip[4] % 256, Hi(ip[7]), ip[7] % 256, Hi(ip[8]), ip[8] % 256 >>
=============================================================================
