-------------------------- MODULE MCObserveLimiter --------------------------
(* ObserveLimiter for TLC: sessions behind three hosts.                    *)
EXTENDS ObserveLimiter

ThreeHosts == { << 9, 0, 0, h >> : h \in 1..3 }
=============================================================================
