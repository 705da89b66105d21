----------------------- MODULE MCObserveLimiterAudit -----------------------
(* ObserveLimiterAudit for TLC.                                            *)
EXTENDS ObserveLimiterAudit

Host1 == << 9, 0, 0, 1 >>
Host2 == << 9, 0, 0, 2 >>
OneHost  == { Host1 }
TwoHosts == { Host1, Host2 }
=============================================================================
