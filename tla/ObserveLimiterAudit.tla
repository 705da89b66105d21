------------------------- MODULE ObserveLimiterAudit -------------------------
(***************************************************************************)
(* ObserveLimiter watched from outside: who was answered when, as a        *)
(* history variable.  The properties compare what the doc comments of      *)
(* src/src/observe.rs say of rates with what the buckets do.               *)
(***************************************************************************)
EXTENDS ObserveLimiter, Sequences

VARIABLE log   \* the answers given, in order: to whom, where and when

auditVars == << vars, log >>

AuditInit == /\ Init
             /\ log = << >>

AuditAsk(s, h, t) ==
  /\ Allow(s, h, t)
  /\ log' = IF answered' THEN Append(log, [to |-> s, from |-> h, at |-> t]) ELSE log

AuditNext == \/ Tick /\ UNCHANGED log
             \/ \E s \in Sessions, a \in Sources, t \in CallTimes :
                  AuditAsk(s, FoldIp(a), t)

AuditSpec == AuditInit /\ [][AuditNext]_auditVars

-----------------------------------------------------------------------------
(* Answers, by their places in the log. *)
AnswersTo(s)   == { i \in DOMAIN log : log[i].to = s }
AnswersFrom(h) == { i \in DOMAIN log : log[i].from = h }

During(answers, t, width) == { i \in answers : t <= log[i].at /\ log[i].at < t + width }

(* What the fixed windows do guarantee of any stretch of a window's width: *)
(* it meets two windows, so a session or a host that is never evicted gets *)
(* at most twice its budget, and so does the node as a whole whoever is    *)
(* evicted.                                                                *)
RollingTwice ==
  \A t \in 0..MaxTime :
    /\ Cardinality(Sessions) <= MaxTracked =>
         \A s \in Sessions :
           Cardinality(During(AnswersTo(s), t, SessionWindow)) <= 2 * Capacity
    /\ Cardinality(Hosts) <= MaxTracked =>
         \A h \in Hosts :
           Cardinality(During(AnswersFrom(h), t, SessionWindow)) <= 2 * Capacity
    /\ Cardinality(During(DOMAIN log, t, GlobalWindow)) <= 2 * GlobalCapacity

(* "how many dig.getObservedAddress answers one authenticated session may  *)
(* receive per rolling minute" (observe.rs:108-109).                       *)
RollingBudget ==
  Cardinality(Sessions) <= MaxTracked =>
    \A t \in 0..MaxTime, s \in Sessions :
      Cardinality(During(AnswersTo(s), t, SessionWindow)) <= Capacity

(* What RollingTwice rests on: in no window did anyone get more than the   *)
(* budget, no answer is of a window later than the bucket's, and in the    *)
(* bucket's own window answers and tokens left make up no more than the    *)
(* budget.  A caller without a bucket was never answered.                  *)
InWindow(l, answers, w, width) == { i \in answers : l[i].at \div width = w }

Accounted(l, answers, bucket, capacity, width) ==
  /\ \A i \in answers :
       /\ l[i].at \div width <= bucket.window
       /\ Cardinality(InWindow(l, answers, l[i].at \div width, width)) <= capacity
  /\ Cardinality(InWindow(l, answers, bucket.window, width)) + bucket.tokens <= capacity

AllAccounted(l, answersOf, buckets) ==
  \A k \in DOMAIN answersOf :
    IF k \in DOMAIN buckets
    THEN Accounted(l, answersOf[k], buckets[k], Capacity, SessionWindow)
    ELSE answersOf[k] = {}

LogAccounted ==
  /\ Cardinality(Sessions) <= MaxTracked =>
       AllAccounted(log, [s \in Sessions |-> AnswersTo(s)], perSession)
  /\ Cardinality(Hosts) <= MaxTracked =>
       AllAccounted(log, [h \in Hosts |-> AnswersFrom(h)], perSource)
  /\ Accounted(log, DOMAIN log, global, GlobalCapacity, GlobalWindow)
=============================================================================
