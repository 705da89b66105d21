--------------------- MODULE MCObserveLimiterRefinement ---------------------
(* ObserveLimiterRefinement for TLC: the constants of MCObserveLimiter.    *)
EXTENDS ObserveLimiterRefinement

ASSUME ExactTime

Host1 == << 9, 0, 0, 1 >>
Host2 == << 9, 0, 0, 2 >>
SpelledTwice == { Host1, MappedV6(Host1), Host2 }
=============================================================================
