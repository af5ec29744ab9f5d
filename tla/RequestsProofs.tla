--------------------------- MODULE RequestsProofs ---------------------------
(***************************************************************************)
(* Proofs about what requests do besides writing: retry loops behind a     *)
(* shared circuit breaker, for any number of calls, attempts and any       *)
(* threshold; the loops of the rule engine, for any definition and batch;  *)
(* and walks through a list that changes, of any length.                   *)
(***************************************************************************)
EXTENDS ServiceRequests, Integers, FiniteSetTheorems, WellFoundedInduction, TLAPS
-----------------------------------------------------------------------------
(* Outbound clients                                                        *)

(* What the record of a call says about itself under policy p.             *)
CallSound(x, p) ==
    /\ x.pc = "new" => x.requests = "none"
    /\ x.requests # "none" /\ x.pc = "ready" => x.attempt > 1
    /\ x.attempt > 1 => x.repeatable \/ x.keyed
    /\ x.pc = "wait" => (x.repeatable \/ x.keyed) /\ x.attempt < p.attempts
    /\ x.requests = "many" => x.repeatable \/ x.keyed
    /\ p.transport = "grpc" /\ x.requests # "none" => x.keySent = x.keyed
    /\ x.pc # "done" => x.open = 0 /\ x.handed = FALSE
    /\ x.open = (IF x.handed THEN 1 ELSE 0)

(* The breaker b counts at least the streak s while it is closed; a call   *)
(* of an earlier generation does not count.                                *)
BreakerSound(p, f, b, s) ==
    /\ ~p.breaking => b.state = "closed" /\ s = 0
    /\ b.state = "closed" => s <= b.failures /\ b.failures < p.threshold
    /\ b.state # "closed" => s = 0
    /\ b.state = "open" => \A c \in Calls : f[c].counts = FALSE

ClientInv ==
    /\ ClientTypeOK
    /\ \A c \in Calls : CallSound(call[c], policy)
    /\ BreakerSound(policy, call, breaker, streak)

(* A call that begins.                                                     *)
LEMMA FreshSound ==
    ASSUME NEW x \in Fresh, NEW p
    PROVE  x \in Call /\ CallSound(x, p)
<1>1. /\ x.pc = "new" /\ x.attempt = 1 /\ x.requests = "none"
      /\ x.open = 0 /\ x.handed = FALSE
  BY DEF Fresh
<1>2. CallSound(x, p)
  BY <1>1 DEF CallSound
<1>3. 1 \in 1..MaxAttempts /\ 0 \in 0..MaxAttempts
  BY ClientAssumption
<1>4. Fresh \subseteq Call
  BY <1>3 DEF Fresh, Call
<1>5. QED
  BY <1>2, <1>4

LEMMA ClientInit == Init => ClientInv
<1> SUFFICES ASSUME Init PROVE ClientInv
  OBVIOUS
<1>1. ASSUME NEW c \in Calls PROVE call[c] \in Call /\ CallSound(call[c], policy) /\ call[c] \in Fresh
  BY FreshSound DEF Init
<1>2. policy \in Policy /\ policy.threshold \in 1..MaxThreshold
  BY DEF Init, Policy
<1>3. call \in [Calls -> Call]
  BY <1>1 DEF Init
<1>4. QED
  BY <1>1, <1>2, <1>3, ClientAssumption DEF Init, ClientInv, ClientTypeOK, Breaker, BreakerSound

(* A call by itself: its record changes, and the breaker takes no notice,  *)
(* but for a probe that comes or goes.                                     *)
LEMMA CallStep ==
    ASSUME ClientInv, NEW c \in Calls, NEW e \in Call, CallSound(e, policy),
           policy' = policy, call' = [call EXCEPT ![c] = e],
           breaker' = breaker \/ \E n \in 0..1 : breaker' = [breaker EXCEPT !.probes = n],
           streak' = streak, breaker.state = "open" => e.counts = FALSE
    PROVE  ClientInv'
<1>1. call' \in [Calls -> Call] /\ \A x \in Calls : call'[x] = IF x = c THEN e ELSE call[x]
  BY DEF ClientInv, ClientTypeOK
<1>2. \A x \in Calls : CallSound(call'[x], policy')
  BY <1>1 DEF ClientInv
<1>3. /\ breaker' \in Breaker
      /\ breaker'.state = breaker.state /\ breaker'.failures = breaker.failures
  BY DEF ClientInv, ClientTypeOK, Breaker
<1>4. BreakerSound(policy', call', breaker', streak')
  BY <1>1, <1>3 DEF ClientInv, BreakerSound
<1>5. QED
  BY <1>1, <1>2, <1>3, <1>4 DEF ClientInv, ClientTypeOK

(* Taking counts away from every call leaves the rest of each alone.       *)
LEMMA Uncounted ==
    ASSUME NEW x \in Call, NEW p, CallSound(x, p)
    PROVE  LET e == [x EXCEPT !.counts = FALSE]
           IN  e \in Call /\ CallSound(e, p) /\ e.counts = FALSE
<1> DEFINE e == [x EXCEPT !.counts = FALSE]
<1>1. e \in Call /\ e.counts = FALSE
  BY DEF Call
<1>2. /\ e.pc = x.pc /\ e.repeatable = x.repeatable /\ e.keyed = x.keyed
      /\ e.attempt = x.attempt /\ e.requests = x.requests /\ e.keySent = x.keySent
      /\ e.open = x.open /\ e.handed = x.handed
  BY DEF Call
<1> HIDE DEF e
<1>3. CallSound(e, p)
  BY <1>2 DEF CallSound
<1>4. QED
  BY <1>1, <1>3 DEF e

(* A new generation of the breaker.                                        *)
LEMMA GenerationStep ==
    ASSUME ClientInv, policy.breaking = TRUE, NEW calls \in [Calls -> Call],
           \A c \in Calls : CallSound(calls[c], policy),
           NEW state \in {"closed", "open", "half"}, NewGeneration(calls, state),
           policy' = policy, streak' = 0
    PROVE  ClientInv'
<1>1. \A c \in Calls : /\ call'[c] \in Call /\ CallSound(call'[c], policy)
                       /\ call'[c].counts = FALSE
  BY Uncounted DEF NewGeneration
<1>2. call' \in [Calls -> Call]
  BY <1>1 DEF NewGeneration
<1>3. breaker' \in Breaker /\ breaker'.state = state /\ breaker'.failures = 0
  BY ClientAssumption DEF NewGeneration, Breaker
<1>4. policy.threshold \in 1..MaxThreshold /\ policy \in Policy
  BY DEF ClientInv, ClientTypeOK, Policy
<1>5. BreakerSound(policy', call', breaker', streak')
  BY <1>1, <1>3, <1>4 DEF BreakerSound
<1>6. streak' \in 0..MaxThreshold
  BY ClientAssumption
<1>7. QED
  BY <1>1, <1>2, <1>3, <1>4, <1>5, <1>6 DEF ClientInv, ClientTypeOK

(* The end of a call: the breaker hears its outcome, if it belongs to the  *)
(* present generation.                                                     *)
LEMMA FinishStep ==
    ASSUME ClientInv, NEW c \in Calls, NEW e \in Call, CallSound(e, policy),
           e.counts = call[c].counts,
           NEW a \in Answers \cup {"unknown"}, Finish(c, e, a), policy' = policy
    PROVE  ClientInv'
<1> DEFINE calls == [call EXCEPT ![c] = e]
<1>1. /\ calls \in [Calls -> Call] /\ call \in [Calls -> Call] /\ policy \in Policy
      /\ \A x \in Calls : CallSound(calls[x], policy)
      /\ breaker \in Breaker /\ streak \in 0..MaxThreshold
      /\ BreakerSound(policy, call, breaker, streak)
  BY DEF ClientInv, ClientTypeOK
<1>2. CASE ~(policy.breaking /\ call[c].counts)
  <2>1. call' = calls /\ UNCHANGED <<breaker, streak>>
    BY <1>2 DEF Finish
  <2>2. breaker.state = "open" => e.counts = FALSE
    BY <1>1, <1>2 DEF BreakerSound, Policy, Call
  <2>3. QED
    BY <2>1, <2>2, CallStep
<1>3. CASE policy.breaking /\ call[c].counts
  <2>1. breaker.state \in {"closed", "half"} /\ policy.breaking = TRUE
    BY <1>1, <1>3 DEF BreakerSound, Breaker, Policy
  <2>2. /\ \/ Outcome(a) = "failure" /\ Failed(calls)
           \/ Outcome(a) = "success" /\ Succeeded(calls)
           \/ Outcome(a) # "failure" /\ Excluded(calls)
        /\ streak' = IF breaker'.state # breaker.state \/ a \in {"ok", "final"} THEN 0
                     ELSE IF a \in {"busy", "lost", "late"} THEN streak + 1 ELSE streak
    BY <1>3 DEF Finish, Outcome
  <2> HIDE DEF calls
  <2>3. ASSUME NEW state \in {"closed", "open"}, NewGeneration(calls, state),
               state # breaker.state
        PROVE  ClientInv'
    <3>1. streak' = 0
      BY <2>2, <2>3 DEF NewGeneration
    <3>2. QED
      BY <1>1, <2>1, <2>3, <3>1, GenerationStep
  <2>4. /\ policy.threshold \in 1..MaxThreshold /\ breaker.failures \in 0..MaxThreshold
        /\ breaker.state = "closed" => streak <= breaker.failures /\ breaker.failures < policy.threshold
        /\ breaker.state # "closed" => streak = 0
    BY <1>1 DEF Policy, Breaker, BreakerSound
  <2>5. ASSUME NEW b \in Breaker, breaker' = b, b.state = breaker.state, call' = calls,
               streak' \in Nat,
               b.state = "closed" => streak' <= b.failures /\ b.failures < policy.threshold,
               b.state # "closed" => streak' = 0
        PROVE  ClientInv'
    <3>1. streak' \in 0..MaxThreshold
      BY <2>4, <2>5, ClientAssumption DEF Breaker
    <3>2. BreakerSound(policy', call', breaker', streak')
      BY <1>1, <2>1, <2>5 DEF BreakerSound
    <3>3. QED
      BY <1>1, <2>5, <3>1, <3>2 DEF ClientInv, ClientTypeOK
  <2>6. CASE Outcome(a) = "failure" /\ Failed(calls)
    <3>1. CASE breaker.state = "half" \/ breaker.failures + 1 >= policy.threshold
      BY <2>1, <2>3, <2>6, <3>1 DEF Failed
    <3>2. CASE ~(breaker.state = "half" \/ breaker.failures + 1 >= policy.threshold)
      <4> DEFINE b == [breaker EXCEPT !.failures = breaker.failures + 1]
      <4>1. breaker' = b /\ call' = calls
        BY <2>6, <3>2 DEF Failed, Same
      <4>2. b \in Breaker /\ b.state = breaker.state /\ b.failures = breaker.failures + 1
        BY <1>1, <2>4, <3>2, ClientAssumption DEF Breaker
      <4> HIDE DEF b
      <4>3. a \in {"busy", "lost", "late"}
        BY <2>6 DEF Outcome
      <4>4. streak' = streak + 1
        BY <2>2, <4>1, <4>2, <4>3
      <4>5. QED
        BY <1>1, <2>1, <2>4, <2>5, <3>2, <4>1, <4>2, <4>4
    <3>3. QED
      BY <3>1, <3>2
  <2>7. CASE Outcome(a) = "success" /\ Succeeded(calls)
    <3>1. CASE breaker.state = "half"
      BY <2>3, <2>7, <3>1 DEF Succeeded
    <3>2. CASE breaker.state # "half"
      <4> DEFINE b == [breaker EXCEPT !.failures = 0]
      <4>1. breaker' = b /\ call' = calls
        BY <2>7, <3>2 DEF Succeeded, Same
      <4>2. b \in Breaker /\ b.state = breaker.state /\ b.failures = 0
        BY <1>1, ClientAssumption DEF Breaker
      <4> HIDE DEF b
      <4>3. a \in {"ok", "final"}
        BY <2>7 DEF Outcome, Answers
      <4>4. streak' = 0
        BY <2>2, <4>3
      <4>5. QED
        BY <2>4, <2>5, <4>1, <4>2, <4>4
    <3>3. QED
      BY <3>1, <3>2
  <2>8. CASE Outcome(a) # "failure" /\ Excluded(calls)
    <3>1. a \notin {"busy", "lost", "late"}
      BY <2>8 DEF Outcome
    <3>2. /\ breaker' \in Breaker /\ breaker'.state = breaker.state
          /\ breaker'.failures = breaker.failures /\ call' = calls
      BY <1>1, <2>8 DEF Excluded, Breaker
    <3>3. streak' \in {0, streak}
      BY <2>2, <3>1, <3>2
    <3>4. QED
      BY <1>1, <2>4, <2>5, <3>2, <3>3
  <2>9. QED
    BY <2>2, <2>6, <2>7, <2>8
<1>4. QED
  BY <1>2, <1>3

(* Attempts(c) is more than one only for what may be repeated.             *)
LEMMA AttemptsBound ==
    ASSUME ClientInv, NEW c \in Calls
    PROVE  /\ Attempts(c) \in 1..policy.attempts /\ policy.attempts \in 1..MaxAttempts
           /\ Attempts(c) > 1 => call[c].repeatable \/ call[c].keyed
<1>1. policy.attempts \in 1..MaxAttempts
  BY DEF ClientInv, ClientTypeOK, Policy
<1>2. QED
  BY <1>1, ClientAssumption DEF Attempts

(* A call that waits for its backoff, after an answer or none.             *)
LEMMA AgainStep ==
    ASSUME ClientInv, NEW c \in Calls, NEW a, call[c].pc \in {"ready", "sent"},
           Again(c, a), policy' = policy
    PROVE  ClientInv'
<1> DEFINE e == [call[c] EXCEPT !.pc = "wait"]
<1>1. call[c] \in Call /\ CallSound(call[c], policy) /\ BreakerSound(policy, call, breaker, streak)
  BY DEF ClientInv, ClientTypeOK
<1>2. e \in Call
  BY <1>1 DEF Call
<1>3. /\ e.pc = "wait" /\ e.repeatable = call[c].repeatable /\ e.keyed = call[c].keyed
      /\ e.attempt = call[c].attempt /\ e.requests = call[c].requests
      /\ e.keySent = call[c].keySent /\ e.open = call[c].open /\ e.handed = call[c].handed
      /\ e.counts = call[c].counts
  BY <1>1 DEF Call
<1>4. call' = [call EXCEPT ![c] = e] /\ UNCHANGED <<breaker, streak>>
  BY DEF Again
<1> HIDE DEF e
<1>5. call[c].attempt < Attempts(c) /\ call[c].attempt \in 1..MaxAttempts
  BY <1>1 DEF Again, Call
<1>6. (e.repeatable \/ e.keyed) /\ e.attempt < policy.attempts
  BY <1>3, <1>5, AttemptsBound
<1>7. CallSound(e, policy)
  BY <1>1, <1>3, <1>6 DEF CallSound
<1>8. breaker.state = "open" => e.counts = FALSE
  BY <1>1, <1>3 DEF BreakerSound
<1>9. QED
  BY <1>2, <1>4, <1>7, <1>8, CallStep

(* The end of the retry loop: with a response, or without one.             *)
LEMMA ReturnStep ==
    ASSUME ClientInv, NEW c \in Calls, NEW a \in Answers,
           call[c].pc \in {"ready", "sent"}, Return(c, a), policy' = policy
    PROVE  ClientInv'
<1> DEFINE e == [call[c] EXCEPT !.pc = "done", !.handed = HasBody(a),
                                !.open = IF HasBody(a) THEN @ + 1 ELSE @]
<1>1. call[c] \in Call /\ CallSound(call[c], policy)
  BY DEF ClientInv, ClientTypeOK
<1>2. call[c].open = 0 /\ HasBody(a) \in BOOLEAN
  BY <1>1 DEF CallSound, HasBody
<1>3. e \in Call
  <2> DEFINE n == IF HasBody(a) THEN call[c].open + 1 ELSE call[c].open
             h == HasBody(a)
  <2>1. n \in 0..MaxAttempts /\ h \in BOOLEAN
    BY <1>2, ClientAssumption
  <2>2. e = [call[c] EXCEPT !.pc = "done", !.handed = h, !.open = n]
    OBVIOUS
  <2> HIDE DEF n, h, e
  <2>3. QED
    BY <1>1, <2>1, <2>2 DEF Call
<1>4. /\ e.pc = "done" /\ e.repeatable = call[c].repeatable /\ e.keyed = call[c].keyed
      /\ e.attempt = call[c].attempt /\ e.requests = call[c].requests
      /\ e.keySent = call[c].keySent /\ e.counts = call[c].counts
  BY <1>1 DEF Call
<1>5. e.handed = HasBody(a) /\ e.open = IF HasBody(a) THEN 1 ELSE 0
  BY <1>1, <1>2 DEF Call
<1>6. Finish(c, e, a)
  BY DEF Return
<1> HIDE DEF e
<1>7. CallSound(e, policy)
  BY <1>1, <1>4, <1>5 DEF CallSound
<1>8. QED
  BY <1>3, <1>4, <1>6, <1>7, FinishStep

LEMMA ClientStep == ClientInv /\ [Next]_vars => ClientInv'
<1> SUFFICES ASSUME ClientInv, [Next]_vars PROVE ClientInv'
  OBVIOUS
<1>1. /\ policy \in Policy /\ call \in [Calls -> Call] /\ breaker \in Breaker
      /\ \A c \in Calls : call[c] \in Call /\ CallSound(call[c], policy)
      /\ BreakerSound(policy, call, breaker, streak)
  BY DEF ClientInv, ClientTypeOK
<1>2. CASE UNCHANGED vars
  BY <1>2 DEF vars, ClientInv, ClientTypeOK
<1>3. CASE OpenTimeout
  <2>1. policy.breaking = TRUE
    BY <1>1, <1>3 DEF OpenTimeout, BreakerSound, Policy
  <2>2. QED
    BY <1>1, <1>3, <2>1, GenerationStep DEF OpenTimeout
<1>4. ASSUME NEW c \in Calls, Start(c) PROVE ClientInv'
  <2> DEFINE e == [call[c] EXCEPT !.pc = "ready", !.counts = TRUE]
  <2>1. e \in Call
    BY <1>1 DEF Call
  <2>2. /\ e.pc = "ready" /\ e.repeatable = call[c].repeatable /\ e.keyed = call[c].keyed
        /\ e.attempt = call[c].attempt /\ e.requests = call[c].requests
        /\ e.keySent = call[c].keySent /\ e.open = call[c].open /\ e.handed = call[c].handed
    BY <1>1 DEF Call
  <2>3. call' = [call EXCEPT ![c] = e]
    BY <1>1, <1>4 DEF Start
  <2> HIDE DEF e
  <2>4. call[c].pc = "new"
    BY <1>4 DEF Start
  <2>5. CallSound(e, policy)
    BY <1>1, <2>2, <2>4 DEF CallSound
  <2>6. breaker.state # "open"
    BY <1>1, <1>4 DEF Start, Admits, BreakerSound
  <2>7. /\ policy' = policy /\ streak' = streak
        /\ \E n \in 0..1 : breaker' = [breaker EXCEPT !.probes = n]
    BY <1>4 DEF Start
  <2>8. QED
    BY <2>1, <2>3, <2>5, <2>6, <2>7, CallStep
<1>5. ASSUME NEW c \in Calls, NEW e \in Call, CallSound(e, policy),
             call' = [call EXCEPT ![c] = e], UNCHANGED <<policy, breaker, streak>>,
             e.counts \in {FALSE, call[c].counts}
      PROVE  ClientInv'
  <2>1. breaker.state = "open" => e.counts = FALSE
    BY <1>1, <1>5 DEF BreakerSound
  <2>2. QED
    BY <1>5, <2>1, CallStep
<1>6. ASSUME NEW c \in Calls, Refused(c) PROVE ClientInv'
  <2> DEFINE e == [call[c] EXCEPT !.pc = "done"]
  <2>1. e \in Call
    BY <1>1 DEF Call
  <2>2. /\ e.pc = "done" /\ e.repeatable = call[c].repeatable /\ e.keyed = call[c].keyed
        /\ e.attempt = call[c].attempt /\ e.requests = call[c].requests
        /\ e.keySent = call[c].keySent /\ e.open = call[c].open
        /\ e.handed = call[c].handed /\ e.counts = call[c].counts
    BY <1>1 DEF Call
  <2>3. call' = [call EXCEPT ![c] = e] /\ UNCHANGED <<policy, breaker, streak>>
    BY <1>1, <1>6 DEF Refused
  <2> HIDE DEF e
  <2>4. CallSound(e, policy)
    BY <1>1, <2>2 DEF CallSound
  <2>5. QED
    BY <1>5, <2>1, <2>2, <2>3, <2>4
<1>7. ASSUME NEW c \in Calls, Send(c) PROVE ClientInv'
  <2> DEFINE n == IF call[c].requests = "none" THEN "one" ELSE "many"
             k == KeyOnWire(c)
             e == [call[c] EXCEPT !.pc = "sent", !.keySent = k, !.requests = n]
  <2>1. call' = [call EXCEPT ![c] = e] /\ UNCHANGED <<policy, breaker, streak>>
    BY <1>1, <1>7 DEF Send
  <2>2. n \in {"one", "many"} /\ (n = "many" => call[c].requests # "none") /\ k \in BOOLEAN
    BY <1>1 DEF KeyOnWire, Call
  <2>3. policy.transport = "grpc" => k = call[c].keyed
    BY <1>1 DEF KeyOnWire, Call
  <2> HIDE DEF n, k
  <2>4. e \in Call
    BY <1>1, <2>2 DEF Call
  <2>5. /\ e.pc = "sent" /\ e.repeatable = call[c].repeatable /\ e.keyed = call[c].keyed
        /\ e.attempt = call[c].attempt /\ e.requests = n
        /\ e.keySent = k /\ e.open = call[c].open
        /\ e.handed = call[c].handed /\ e.counts = call[c].counts
    BY <1>1 DEF Call
  <2> HIDE DEF e
  <2>6. call[c].pc = "ready"
    BY <1>7 DEF Send
  <2>7. CallSound(e, policy)
    BY <1>1, <2>2, <2>3, <2>5, <2>6 DEF CallSound
  <2>8. QED
    BY <1>5, <2>1, <2>4, <2>5, <2>7
<1>8. ASSUME NEW c \in Calls, Abandon(c) PROVE ClientInv'
  <2> DEFINE e == [call[c] EXCEPT !.live = FALSE]
  <2>1. e \in Call
    BY <1>1 DEF Call
  <2>2. /\ e.pc = call[c].pc /\ e.repeatable = call[c].repeatable /\ e.keyed = call[c].keyed
        /\ e.attempt = call[c].attempt /\ e.requests = call[c].requests
        /\ e.keySent = call[c].keySent /\ e.open = call[c].open
        /\ e.handed = call[c].handed /\ e.counts = call[c].counts
    BY <1>1 DEF Call
  <2>3. call' = [call EXCEPT ![c] = e] /\ UNCHANGED <<policy, breaker, streak>>
    BY <1>1, <1>8 DEF Abandon
  <2> HIDE DEF e
  <2>4. CallSound(e, policy)
    BY <1>1, <2>2 DEF CallSound
  <2>5. QED
    BY <1>5, <2>1, <2>2, <2>3, <2>4
<1>9. ASSUME NEW c \in Calls, BackoffOver(c) PROVE ClientInv'
  <2> DEFINE n == call[c].attempt + 1
             e == [call[c] EXCEPT !.pc = "ready", !.attempt = n]
  <2>1. call' = [call EXCEPT ![c] = e] /\ UNCHANGED <<policy, breaker, streak>>
    BY <1>1, <1>9 DEF BackoffOver
  <2>2. call[c].pc = "wait" /\ call[c].attempt < policy.attempts /\ policy.attempts \in 1..MaxAttempts
    BY <1>1, <1>9, AttemptsBound DEF BackoffOver, CallSound
  <2>3. n \in 1..MaxAttempts /\ n > 1
    BY <1>1, <2>2, ClientAssumption DEF Call
  <2> HIDE DEF n
  <2>4. e \in Call
    BY <1>1, <2>3 DEF Call
  <2>5. /\ e.pc = "ready" /\ e.repeatable = call[c].repeatable /\ e.keyed = call[c].keyed
        /\ e.attempt = n /\ e.requests = call[c].requests
        /\ e.keySent = call[c].keySent /\ e.open = call[c].open
        /\ e.handed = call[c].handed /\ e.counts = call[c].counts
    BY <1>1 DEF Call
  <2> HIDE DEF e
  <2>6. CallSound(e, policy)
    BY <1>1, <2>2, <2>3, <2>5 DEF CallSound
  <2>7. QED
    BY <1>5, <2>1, <2>4, <2>5, <2>6
<1>10. ASSUME NEW c \in Calls, NEW a \in Answers, Answer(c, a) \/ NotSent(c, a) PROVE ClientInv'
  <2>1. call[c].pc \in {"ready", "sent"} /\ (Again(c, a) \/ Return(c, a)) /\ policy' = policy
    BY <1>10 DEF Answer, NotSent
  <2>2. QED
    BY <2>1, AgainStep, ReturnStep
<1>11. ASSUME NEW c \in Calls, NEW a \in {"cancelled", "late"}, BackoffAbandoned(c, a)
       PROVE  ClientInv'
  <2> DEFINE e == [call[c] EXCEPT !.pc = "done"]
             u == IF policy.transport = "http" THEN a ELSE "unknown"
  <2>1. e \in Call
    BY <1>1 DEF Call
  <2>2. /\ e.pc = "done" /\ e.repeatable = call[c].repeatable /\ e.keyed = call[c].keyed
        /\ e.attempt = call[c].attempt /\ e.requests = call[c].requests
        /\ e.keySent = call[c].keySent /\ e.open = call[c].open
        /\ e.handed = call[c].handed /\ e.counts = call[c].counts
    BY <1>1 DEF Call
  <2>3. Finish(c, e, u) /\ policy' = policy
    BY <1>11 DEF BackoffAbandoned
  <2>4. u \in Answers \cup {"unknown"}
    BY DEF Answers
  <2> HIDE DEF e, u
  <2>5. CallSound(e, policy)
    BY <1>1, <2>2 DEF CallSound
  <2>6. QED
    BY <2>1, <2>2, <2>3, <2>4, <2>5, FinishStep
<1>12. ASSUME NEW c \in Calls, CallAgain(c) PROVE ClientInv'
  <2>1. PICK f \in Fresh : call' = [call EXCEPT ![c] = f]
    BY <1>12 DEF CallAgain
  <2>2. f \in Call /\ CallSound(f, policy) /\ f.counts = FALSE
    BY FreshSound DEF Fresh
  <2>3. QED
    BY <1>5, <1>12, <2>1, <2>2 DEF CallAgain
<1>13. ASSUME NEW c \in Calls, Progress(c) PROVE ClientInv'
  <2>1. {"cancelled", "late"} \subseteq Answers
    BY DEF Answers
  <2>2. QED
    BY <1>7, <1>9, <1>10, <1>11, <1>13, <2>1 DEF Progress
<1>14. QED
  BY <1>2, <1>3, <1>4, <1>6, <1>8, <1>12, <1>13 DEF Next

(* The types hold for any number of calls and bounds of the configuration. *)
THEOREM ClientTypes == Spec => []ClientTypeOK
<1>1. ClientInv => ClientTypeOK
  BY DEF ClientInv
<1>2. QED
  BY <1>1, ClientInit, ClientStep, PTL DEF Spec

(* For any number of calls that share an upstream: what may not be repeated*)
(* is sent once, every body is closed or handed over, and failures in a row*)
(* open the breaker (doWithRetry, breakerInterceptor).                     *)
THEOREM ClientsAreSound == Spec => []ClientSound
<1>1. ClientInv => ClientSound
  <2> SUFFICES ASSUME ClientInv PROVE ClientSound
    OBVIOUS
  <2>1. /\ policy \in Policy /\ breaker \in Breaker /\ streak \in 0..MaxThreshold
        /\ \A c \in Calls : call[c] \in Call /\ CallSound(call[c], policy)
        /\ BreakerSound(policy, call, breaker, streak)
    BY DEF ClientInv, ClientTypeOK
  <2>2. WriteSentOnce
    BY <2>1 DEF WriteSentOnce, CallSound
  <2>3. ResentWithKey
    BY <2>1 DEF ResentWithKey, CallSound, Call
  <2>4. BodiesAccounted
    BY <2>1 DEF BodiesAccounted, CallSound
  <2>5. TripsOnFailures
    BY <2>1, ClientAssumption DEF TripsOnFailures, BreakerSound, Breaker, Policy
  <2>6. QED
    BY <2>2, <2>3, <2>4, <2>5 DEF ClientSound
<1>2. QED
  BY <1>1, ClientInit, ClientStep, PTL DEF Spec
-----------------------------------------------------------------------------
(* The rule engine                                                         *)

(* What the loops have after n turns.                                      *)
ShapeTo(n) == UNION {Engine!ShapeIssues(k) : k \in 1..n}
BadTo(n) == {<<k, def.rules[k].cond>> : k \in {k \in 1..n : def.rules[k].cond # "fine"}}
Upto(n) == [k \in 1..n |-> k]
Said(it, n) == \A j \in 1..n : it.says[j] = "false"

Error == Engine!Verdict \cup {"none"}
Result == [index : Nat, res : [err : Error, matched : Nat]]

Admitted(it) == \A k \in 1..5 : it.checks[k] = "ok"

(* r is the right result for item it, number k of the batch; x: expired.   *)
RightFor(r, it, k, x) ==
    /\ r.index = k - 1 /\ r.res.matched \in 0..Len(it.says)
    /\ \/ r.res = Engine!Alone(it)
       \/ x /\ r.res.err \in {"internal", "unavailable"}

Phases == {"decode", "shape", "compile", "ready", "rejected",
           "batch", "refused", "evaluate", "answered"}

LoopTypes ==
    /\ phase \in Phases /\ def \in Definitions
    /\ phase # "evaluate" => turn \in 0..Engine!N + 1
    /\ phase \in {"decode", "shape", "compile"} => turn \in 1..Engine!N + 1
    /\ issues \subseteq (0..Engine!N) \X Engine!Codes
    /\ program \in Seq(1..Engine!N) /\ item \in 1..MaxItems + 1
    /\ results \in Seq(Result) /\ expired \in BOOLEAN

(* Compiling: issues and program are those of the rules looked at, and     *)
(* nothing is compiled but a definition of the right shape.                *)
CompileSound ==
    /\ phase = "decode" => turn = 1 /\ issues = {}
    /\ phase \in {"decode", "shape"} => program = <<>>
    /\ phase = "shape" => issues = ShapeTo(turn - 1)
    /\ phase \in {"compile", "ready"} =>
          Engine!WholeIssues = {} /\ \A k \in 1..Engine!N : Engine!ShapeIssues(k) = {}
    /\ phase = "compile" =>
          issues = BadTo(turn - 1) /\ (issues = {} => program = Upto(turn - 1))
    /\ phase = "ready" => program = Upto(Engine!N)
    /\ phase = "rejected" => Engine!AllIssuesReported

(* Evaluating: the items before item have their results; an item is looked *)
(* up before its rules, and those before turn said "false" of it.          *)
BatchSound ==
    /\ phase \notin {"evaluate", "answered"} => results = <<>>
    /\ phase \in {"evaluate", "answered"} =>
          /\ Len(batch) \in 1..MaxItems /\ batch \in [1..Len(batch) -> Inputs]
          /\ Len(results) = item - 1
          /\ \A k \in 1..Len(results) : RightFor(results[k], batch[k], k, expired)
    /\ phase = "evaluate" =>
          /\ item \in 1..Len(batch) /\ turn \in 0..Len(batch[item].says) + 1
          /\ turn > 0 => Admitted(batch[item]) /\ Said(batch[item], turn - 1)
          /\ turn > 1 => batch[item].facts = TRUE
    /\ phase = "answered" => item = Len(batch) + 1

EngineInv == LoopTypes /\ CompileSound /\ BatchSound

LEMMA RulesTyped ==
    ASSUME def \in Definitions
    PROVE  /\ def.rules \in Seq(Engine!Rule) /\ def.defaultObj \in BOOLEAN
           /\ Engine!N \in Nat /\ MaxItems \in Nat /\ MaxRules \in Nat
           /\ \A k \in 1..Engine!N :
                 /\ def.rules[k].name \in STRING /\ def.rules[k].obj \in BOOLEAN
                 /\ def.rules[k].cond \in {"fine", "size", "expression", "type", "program"}
<1>1. def \in [rules : Seq(Engine!Rule), defaultObj : BOOLEAN] /\ MaxItems \in Nat /\ MaxRules \in Nat
  BY LoopAssumption DEF Engine!EngineAssumption
<1>2. def.rules \in Seq(Engine!Rule)
  BY <1>1
<1>3. Engine!N \in Nat /\ \A k \in 1..Engine!N : def.rules[k] \in Engine!Rule
  BY <1>2 DEF Engine!N
<1>4. QED
  BY <1>1, <1>2, <1>3 DEF Engine!Rule

LEMMA IssuesTyped ==
    ASSUME def \in Definitions
    PROVE  /\ <<0, "json">> \in (0..Engine!N) \X Engine!Codes
           /\ \A k \in 1..Engine!N : Engine!ShapeIssues(k) \subseteq (0..Engine!N) \X Engine!Codes
           /\ Engine!WholeIssues \subseteq (0..Engine!N) \X Engine!Codes
           /\ \A k \in 1..Engine!N : def.rules[k].cond # "fine" =>
                 <<k, def.rules[k].cond>> \in (0..Engine!N) \X Engine!Codes
<1>1. Engine!N \in Nat /\ 0 \in 0..Engine!N
  BY RulesTyped
<1>2. ASSUME NEW k \in 1..Engine!N
      PROVE  Engine!ShapeIssues(k) \subseteq (0..Engine!N) \X Engine!Codes
  <2>1. k \in 0..Engine!N
    BY <1>1
  <2>2. \A s \in {"required", "duplicate", "size", "result"} :
           <<k, s>> \in (0..Engine!N) \X Engine!Codes
    BY <2>1 DEF Engine!Codes
  <2>3. Engine!ShapeIssues(k) \subseteq
           {<<k, "required">>, <<k, "duplicate">>, <<k, "size">>, <<k, "result">>}
    <3>1. Engine!NameIssue(k) \subseteq {<<k, "required">>, <<k, "duplicate">>}
      BY Zenon DEF Engine!NameIssue
    <3>2. QED
      BY <3>1 DEF Engine!ShapeIssues
  <2>4. QED
    BY <2>2, <2>3
<1>3. Engine!WholeIssues \subseteq (0..Engine!N) \X Engine!Codes
  <2>1. Engine!WholeIssues \subseteq {<<0, "count">>, <<0, "default">>}
    BY DEF Engine!WholeIssues
  <2>2. \A s \in {"count", "default"} : <<0, s>> \in (0..Engine!N) \X Engine!Codes
    BY <1>1 DEF Engine!Codes
  <2>3. QED
    BY <2>1, <2>2
<1>4. ASSUME NEW k \in 1..Engine!N, def.rules[k].cond # "fine"
      PROVE  <<k, def.rules[k].cond>> \in (0..Engine!N) \X Engine!Codes
  <2>1. k \in 0..Engine!N /\ def.rules[k].cond \in Engine!Codes
    BY <1>1, <1>4, RulesTyped DEF Engine!Codes
  <2>2. QED
    BY <2>1
<1>5. <<0, "json">> \in (0..Engine!N) \X Engine!Codes
  BY <1>1 DEF Engine!Codes
<1>6. QED
  BY <1>2, <1>3, <1>4, <1>5

(* One more turn.                                                          *)
LEMMA OneMore ==
    ASSUME NEW n \in Nat
    PROVE  /\ ShapeTo(0) = {} /\ BadTo(0) = {} /\ Upto(0) = <<>>
           /\ ShapeTo(n + 1) = ShapeTo(n) \cup Engine!ShapeIssues(n + 1)
           /\ def.rules[n + 1].cond = "fine" => BadTo(n + 1) = BadTo(n)
           /\ def.rules[n + 1].cond # "fine" =>
                 BadTo(n + 1) = BadTo(n) \cup {<<n + 1, def.rules[n + 1].cond>>}
           /\ Upto(n + 1) = Append(Upto(n), n + 1)
<1>1. 1..n + 1 = (1..n) \cup {n + 1} /\ 1..0 = {}
  OBVIOUS
<1>2. ShapeTo(0) = {} /\ BadTo(0) = {}
  BY <1>1 DEF ShapeTo, BadTo
<1>3. Upto(0) = <<>>
  BY DEF Upto
<1>4. ShapeTo(n + 1) = ShapeTo(n) \cup Engine!ShapeIssues(n + 1)
  BY <1>1, Zenon DEF ShapeTo
<1>5. /\ def.rules[n + 1].cond = "fine" => BadTo(n + 1) = BadTo(n)
      /\ def.rules[n + 1].cond # "fine" =>
            BadTo(n + 1) = BadTo(n) \cup {<<n + 1, def.rules[n + 1].cond>>}
  BY <1>1 DEF BadTo
<1>6. Upto(n + 1) = Append(Upto(n), n + 1)
  BY DEF Upto
<1>7. QED
  BY <1>2, <1>3, <1>4, <1>5, <1>6

(* The definition of a request never changes, and with it what is said of  *)
(* its rules.                                                              *)
LEMMA DefinitionKept ==
    ASSUME def' = def
    PROVE  /\ Engine!N' = Engine!N /\ Engine!WholeIssues' = Engine!WholeIssues
           /\ \A k : Engine!ShapeIssues(k)' = Engine!ShapeIssues(k)
           /\ \A n : ShapeTo(n)' = ShapeTo(n)
           /\ \A n : BadTo(n)' = BadTo(n)
           /\ \A r, it, k, x : RightFor(r, it, k, x)' = RightFor(r, it, k, x)
<1>1. Engine!N' = Engine!N
  BY DEF Engine!N
<1>2. Engine!WholeIssues' = Engine!WholeIssues
  BY <1>1 DEF Engine!WholeIssues
<1>3. \A k : Engine!ShapeIssues(k)' = Engine!ShapeIssues(k)
  BY DEF Engine!ShapeIssues, Engine!NameIssue
<1>4. \A n : ShapeTo(n)' = ShapeTo(n)
  BY <1>3, Zenon DEF ShapeTo
<1>5. \A n : BadTo(n)' = BadTo(n)
  BY Zenon DEF BadTo
<1>6. \A r, it, k, x : RightFor(r, it, k, x)' = RightFor(r, it, k, x)
  BY <1>1 DEF RightFor
<1>7. QED
  BY <1>1, <1>2, <1>3, <1>4, <1>5, <1>6

LEMMA InputsTyped ==
    ASSUME NEW it \in Inputs
    PROVE  /\ it.facts \in BOOLEAN /\ Len(it.says) \in Nat
           /\ \A k \in 1..5 : it.checks[k] \in Engine!Verdict
           /\ \A j \in 1..Len(it.says) : it.says[j] \in {"true", "false", "error", "other"}
<1>1. it \in Engine!Item /\ Outcomes \subseteq {"true", "false", "error", "other"}
  BY LoopAssumption DEF Engine!EngineAssumption
<1>2. it.checks \in [1..5 -> Engine!Verdict] /\ it.facts \in BOOLEAN /\ it.says \in Seq(Outcomes)
  BY <1>1 DEF Engine!Item
<1>3. Len(it.says) \in Nat /\ \A j \in 1..Len(it.says) : it.says[j] \in Outcomes
  BY <1>2
<1>4. QED
  BY <1>1, <1>2, <1>3

(* The least number of a set.                                              *)
LEMMA LeastIs ==
    ASSUME NEW S \in SUBSET Nat, NEW k \in S, \A m \in S : k <= m
    PROVE  Engine!Least(S) = k
<1> DEFINE least == CHOOSE j \in S : \A m \in S : j <= m
<1>1. least \in S /\ \A m \in S : least <= m
  OBVIOUS
<1> HIDE DEF least
<1>2. least <= k /\ k <= least /\ least \in Nat
  BY <1>1
<1>3. least = k
  BY <1>2
<1>4. QED
  BY <1>3 DEF least, Engine!Least

(* The first check that refuses an item decides.                           *)
LEMMA AloneRefused ==
    ASSUME NEW it \in Inputs, NEW k \in 1..5, it.checks[k] # "ok",
           \A j \in 1..k - 1 : it.checks[j] = "ok"
    PROVE  Engine!Alone(it) = Engine!Error(it.checks[k])
<1> DEFINE refused == {m \in 1..5 : it.checks[m] # "ok"}
<1>1. \A m \in 1..5 : m \in 1..k - 1 \/ k <= m
  OBVIOUS
<1>2. k \in refused /\ refused \in SUBSET Nat /\ \A m \in refused : k <= m
  BY <1>1
<1> HIDE DEF refused
<1>3. Engine!Least(refused) = k /\ refused # {}
  BY <1>2, LeastIs
<1>4. QED
  BY <1>3, Zenon DEF Engine!Alone, refused

(* An item that no check refuses: its facts decide, or all its rules.      *)
LEMMA AloneAdmitted ==
    ASSUME NEW it \in Inputs, Admitted(it)
    PROVE  /\ ~it.facts => Engine!Alone(it) = Engine!Error("invalid")
           /\ it.facts = TRUE /\ Said(it, Len(it.says)) => Engine!Alone(it) = Engine!Match(0)
<1> DEFINE refused == {m \in 1..5 : it.checks[m] # "ok"}
           decisive == {j \in 1..Len(it.says) : it.says[j] # "false"}
<1>1. refused = {}
  BY DEF Admitted
<1>2. Said(it, Len(it.says)) => decisive = {}
  BY DEF Said
<1>3. ~it.facts => Engine!Alone(it) = Engine!Error("invalid")
  BY <1>1, Zenon DEF Engine!Alone
<1>4. it.facts = TRUE /\ Said(it, Len(it.says)) => Engine!Alone(it) = Engine!Match(0)
  <2> SUFFICES ASSUME it.facts = TRUE, decisive = {} PROVE Engine!Alone(it) = Engine!Match(0)
    BY <1>2
  <2>1. it.facts
    OBVIOUS
  <2>2. QED
    BY <1>1, <2>1, Zenon DEF Engine!Alone
<1>5. QED
  BY <1>3, <1>4

(* The first rule that does not say "false" decides.                       *)
LEMMA AloneDecided ==
    ASSUME NEW it \in Inputs, Admitted(it), it.facts = TRUE,
           NEW n \in 1..Len(it.says), Said(it, n - 1), it.says[n] # "false"
    PROVE  /\ it.says[n] = "true" => Engine!Alone(it) = Engine!Match(n)
           /\ it.says[n] # "true" => Engine!Alone(it) = Engine!Error("internal")
<1> DEFINE refused == {m \in 1..5 : it.checks[m] # "ok"}
           decisive == {j \in 1..Len(it.says) : it.says[j] # "false"}
<1>1. refused = {} /\ it.facts
  BY DEF Admitted
<1>2. Len(it.says) \in Nat
  BY InputsTyped
<1>3. \A m \in 1..Len(it.says) : m \in 1..n - 1 \/ n <= m
  BY <1>2
<1>4. n \in decisive /\ decisive \in SUBSET Nat /\ \A m \in decisive : n <= m
  BY <1>2, <1>3 DEF Said
<1> HIDE DEF decisive
<1>5. Engine!Least(decisive) = n /\ decisive # {}
  BY <1>4, LeastIs
<1>6. Engine!Alone(it) = IF it.says[n] = "true" THEN Engine!Match(n) ELSE Engine!Error("internal")
  BY <1>1, <1>5, Zenon DEF Engine!Alone, decisive
<1>7. QED
  BY <1>6

LEMMA EngineInit == Engine!Init => EngineInv
<1> SUFFICES ASSUME Engine!Init PROVE EngineInv
  OBVIOUS
<1>1. /\ phase \in {"decode", "batch"} /\ def \in Definitions /\ turn = 1
      /\ issues = {} /\ program = <<>>
      /\ item = 1 /\ expired = FALSE /\ results = <<>>
  BY DEF Engine!Init
<1>2. Engine!N \in Nat /\ MaxItems \in Nat
  BY <1>1, RulesTyped
<1>3. LoopTypes
  <2>1. program \in Seq(1..Engine!N) /\ results \in Seq(Result)
    BY <1>1
  <2>2. turn \in 1..Engine!N + 1 /\ turn \in 0..Engine!N + 1 /\ item \in 1..MaxItems + 1
    BY <1>1, <1>2
  <2>3. QED
    BY <1>1, <2>1, <2>2 DEF LoopTypes, Phases
<1>4. CompileSound
  BY <1>1 DEF CompileSound
<1>5. BatchSound
  BY <1>1 DEF BatchSound
<1>6. QED
  BY <1>3, <1>4, <1>5 DEF EngineInv

(* Before a batch, and after a refusal, there is nothing to say of results.*)
LEMMA NoBatchYet ==
    ASSUME results' = <<>>, phase' \notin {"evaluate", "answered"}
    PROVE  BatchSound'
<1>1. QED
  BY DEF BatchSound

LEMMA DecodeSound == EngineInv /\ Engine!Decode => EngineInv'
<1> SUFFICES ASSUME EngineInv, Engine!Decode PROVE EngineInv'
  OBVIOUS
<1>1. LoopTypes /\ CompileSound /\ BatchSound
  BY DEF EngineInv
<1>2. /\ phase = "decode" /\ def' = def /\ turn' = turn /\ program' = program /\ item' = item
      /\ expired' = expired /\ results' = results
      /\ \/ phase' = "shape" /\ issues' = issues
         \/ phase' = "rejected" /\ issues' = {<<0, "json">>}
  BY DEF Engine!Decode
<1>3. def \in Definitions /\ turn = 1 /\ issues = {} /\ program = <<>> /\ results = <<>>
  BY <1>1, <1>2 DEF LoopTypes, CompileSound, BatchSound
<1>4. LoopTypes'
  <2>1. issues' \subseteq (0..Engine!N) \X Engine!Codes
    BY <1>2, <1>3, IssuesTyped
  <2>2. QED
    BY <1>1, <1>2, <2>1, DefinitionKept DEF LoopTypes, Phases
<1>5. CompileSound'
  <2>1. CASE phase' = "shape"
    <3>1. issues' = ShapeTo(turn - 1)'
      <4>1. turn' - 1 = 0 /\ issues' = {}
        BY <1>2, <1>3, <2>1
      <4>2. QED
        BY <1>2, <4>1, DefinitionKept, OneMore
    <3>2. QED
      BY <1>2, <1>3, <2>1, <3>1 DEF CompileSound
  <2>2. CASE phase' = "rejected"
    <3>1. Engine!AllIssuesReported'
      BY <1>2, <2>2 DEF Engine!AllIssuesReported
    <3>2. QED
      BY <2>2, <3>1 DEF CompileSound
  <2>3. QED
    BY <1>2, <2>1, <2>2
<1>6. BatchSound'
  BY <1>2, <1>3, NoBatchYet
<1>7. QED
  BY <1>4, <1>5, <1>6 DEF EngineInv

LEMMA ShapeSound == EngineInv /\ Engine!validateShape => EngineInv'
<1> SUFFICES ASSUME EngineInv, Engine!validateShape PROVE EngineInv'
  OBVIOUS
<1>1. LoopTypes /\ CompileSound /\ BatchSound
  BY DEF EngineInv
<1>2. /\ phase = "shape" /\ def' = def /\ program' = program /\ item' = item
      /\ expired' = expired /\ results' = results
      /\ IF turn <= Engine!N
         THEN issues' = issues \cup Engine!ShapeIssues(turn) /\ turn' = turn + 1 /\ phase' = phase
         ELSE /\ issues' = issues \cup Engine!WholeIssues
              /\ turn' = 1
              /\ phase' = IF issues' = {} THEN "compile" ELSE "rejected"
  BY DEF Engine!validateShape
<1>3. /\ def \in Definitions /\ turn \in 1..Engine!N + 1 /\ issues = ShapeTo(turn - 1)
      /\ issues \subseteq (0..Engine!N) \X Engine!Codes
      /\ program = <<>> /\ results = <<>> /\ Engine!N \in Nat
  BY <1>1, <1>2, RulesTyped DEF LoopTypes, CompileSound, BatchSound
<1>4. BatchSound'
  BY <1>2, <1>3, NoBatchYet
<1>5. CASE turn <= Engine!N
  <2>1. /\ phase' = "shape" /\ turn' = turn + 1 /\ turn \in 1..Engine!N /\ turn' \in 1..Engine!N + 1
        /\ issues' = issues \cup Engine!ShapeIssues(turn)
    BY <1>2, <1>3, <1>5
  <2>2. LoopTypes'
    <3>1. issues' \subseteq (0..Engine!N) \X Engine!Codes
      BY <1>3, <2>1, IssuesTyped
    <3>2. QED
      BY <1>1, <1>2, <2>1, <3>1, DefinitionKept DEF LoopTypes, Phases
  <2>3. CompileSound'
    <3>1. turn - 1 \in Nat /\ (turn - 1) + 1 = turn /\ turn' - 1 = turn
      BY <2>1
    <3>2. ShapeTo(turn) = ShapeTo(turn - 1) \cup Engine!ShapeIssues(turn)
      <4>1. ShapeTo((turn - 1) + 1) = ShapeTo(turn - 1) \cup Engine!ShapeIssues((turn - 1) + 1)
        BY <3>1, OneMore
      <4>2. QED
        BY <3>1, <4>1
    <3>3. issues' = ShapeTo(turn - 1)'
      BY <1>2, <1>3, <2>1, <3>1, <3>2, DefinitionKept
    <3>4. QED
      BY <1>2, <1>3, <2>1, <3>3 DEF CompileSound
  <2>4. QED
    BY <1>4, <2>2, <2>3 DEF EngineInv
<1>6. CASE turn = Engine!N + 1
  <2>1. /\ turn' = 1 /\ issues' = issues \cup Engine!WholeIssues
        /\ phase' = IF issues' = {} THEN "compile" ELSE "rejected"
    BY <1>2, <1>3, <1>6
  <2>2. LoopTypes'
    <3>1. issues' \subseteq (0..Engine!N) \X Engine!Codes
      BY <1>3, <2>1, IssuesTyped
    <3>2. turn' \in 1..Engine!N + 1
      BY <1>3, <2>1
    <3>3. QED
      BY <1>1, <1>2, <2>1, <3>1, <3>2, DefinitionKept DEF LoopTypes, Phases
  <2>3. issues' = Engine!WholeIssues \cup ShapeTo(Engine!N)
    <3>1. turn - 1 = Engine!N
      BY <1>3, <1>6
    <3>2. QED
      BY <1>3, <2>1, <3>1
  <2>4. CompileSound'
    <3>1. CASE issues' = {}
      <4>1. phase' = "compile"
        BY <2>1, <3>1
      <4>2. Engine!WholeIssues = {} /\ \A k \in 1..Engine!N : Engine!ShapeIssues(k) = {}
        BY <2>3, <3>1, Zenon DEF ShapeTo
      <4>3. BadTo(turn - 1)' = {} /\ Upto(turn' - 1) = <<>>
        <5>1. turn' - 1 = 0
          BY <2>1
        <5>2. QED
          BY <1>2, <5>1, DefinitionKept, OneMore
      <4>4. QED
        BY <1>2, <1>3, <3>1, <4>1, <4>2, <4>3, DefinitionKept DEF CompileSound
    <3>2. CASE issues' # {}
      <4>1. phase' = "rejected"
        BY <2>1, <3>2
      <4>2. Engine!AllIssuesReported'
        <5>1. Engine!WholeIssues' \cup UNION {Engine!ShapeIssues(k)' : k \in 1..Engine!N'}
                = Engine!WholeIssues \cup ShapeTo(Engine!N)
          BY <1>2, DefinitionKept, Zenon DEF ShapeTo
        <5>2. QED
          BY <2>3, <3>2, <5>1 DEF Engine!AllIssuesReported
      <4>3. QED
        BY <4>1, <4>2 DEF CompileSound
    <3>3. QED
      BY <3>1, <3>2
  <2>5. QED
    BY <1>4, <2>2, <2>4 DEF EngineInv
<1>7. QED
  BY <1>3, <1>5, <1>6

LEMMA CompileSteps == EngineInv /\ Engine!CompileRule => EngineInv'
<1> SUFFICES ASSUME EngineInv, Engine!CompileRule PROVE EngineInv'
  OBVIOUS
<1>1. LoopTypes /\ CompileSound /\ BatchSound
  BY DEF EngineInv
<1>2. /\ phase = "compile" /\ def' = def /\ item' = item
      /\ expired' = expired /\ results' = results
      /\ IF turn <= Engine!N
         THEN /\ turn' = turn + 1
              /\ IF def.rules[turn].cond = "fine"
                 THEN program' = Append(program, turn) /\ issues' = issues
                 ELSE issues' = issues \cup {<<turn, def.rules[turn].cond>>} /\ program' = program
              /\ phase' = phase
         ELSE /\ phase' = IF issues = {} THEN "ready" ELSE "rejected"
              /\ issues' = issues /\ program' = program /\ turn' = turn
  BY DEF Engine!CompileRule
<1>3. /\ def \in Definitions /\ turn \in 1..Engine!N + 1 /\ issues = BadTo(turn - 1)
      /\ issues \subseteq (0..Engine!N) \X Engine!Codes
      /\ issues = {} => program = Upto(turn - 1)
      /\ program \in Seq(1..Engine!N) /\ results = <<>> /\ Engine!N \in Nat
      /\ Engine!WholeIssues = {} /\ \A k \in 1..Engine!N : Engine!ShapeIssues(k) = {}
  BY <1>1, <1>2, RulesTyped DEF LoopTypes, CompileSound, BatchSound
<1>4. Engine!WholeIssues' = {} /\ \A k \in 1..Engine!N' : Engine!ShapeIssues(k)' = {}
  BY <1>2, <1>3, DefinitionKept
<1>5. BatchSound'
  <2>1. phase' \notin {"evaluate", "answered"} /\ results' = <<>>
    BY <1>2, <1>3
  <2>2. QED
    BY <2>1, NoBatchYet
<1>6. CASE turn <= Engine!N
  <2>1. phase' = "compile" /\ turn' = turn + 1 /\ turn \in 1..Engine!N /\ turn' \in 1..Engine!N + 1
    BY <1>2, <1>3, <1>6
  <2>2. turn - 1 \in Nat /\ (turn - 1) + 1 = turn /\ turn' - 1 = turn
    BY <2>1
  <2>3. /\ def.rules[turn].cond = "fine" => BadTo(turn) = BadTo(turn - 1)
        /\ def.rules[turn].cond # "fine" =>
              BadTo(turn) = BadTo(turn - 1) \cup {<<turn, def.rules[turn].cond>>}
        /\ Upto(turn) = Append(Upto(turn - 1), turn)
    <3>1. \E n \in Nat : n + 1 = turn /\ n = turn - 1
      BY <2>2
    <3>2. QED
      BY <3>1, OneMore
  <2>4. BadTo(turn - 1)' = BadTo(turn) /\ Upto(turn - 1)' = Upto(turn)
    BY <1>2, <2>2, DefinitionKept
  <2>5. CASE def.rules[turn].cond = "fine"
    <3>1. program' = Append(program, turn) /\ issues' = issues
      BY <1>2, <1>6, <2>5
    <3>2. LoopTypes'
      <4>1. program' \in Seq(1..Engine!N)
        BY <1>3, <2>1, <3>1
      <4>2. QED
        BY <1>1, <1>2, <2>1, <3>1, <4>1, DefinitionKept DEF LoopTypes, Phases
    <3>3. issues' = BadTo(turn - 1)' /\ (issues' = {} => program' = Upto(turn - 1)')
      BY <1>3, <2>3, <2>4, <2>5, <3>1
    <3>4. CompileSound'
      BY <1>4, <2>1, <3>3 DEF CompileSound
    <3>5. QED
      BY <1>5, <3>2, <3>4 DEF EngineInv
  <2>6. CASE def.rules[turn].cond # "fine"
    <3>1. issues' = issues \cup {<<turn, def.rules[turn].cond>>} /\ program' = program
      BY <1>2, <1>6, <2>6
    <3>2. LoopTypes'
      <4>1. issues' \subseteq (0..Engine!N) \X Engine!Codes
        BY <1>3, <2>1, <2>6, <3>1, IssuesTyped
      <4>2. QED
        BY <1>1, <1>2, <2>1, <3>1, <4>1, DefinitionKept DEF LoopTypes, Phases
    <3>3. issues' = BadTo(turn - 1)' /\ issues' # {}
      BY <1>3, <2>3, <2>4, <2>6, <3>1
    <3>4. CompileSound'
      BY <1>4, <2>1, <3>3 DEF CompileSound
    <3>5. QED
      BY <1>5, <3>2, <3>4 DEF EngineInv
  <2>7. QED
    BY <2>5, <2>6
<1>7. CASE turn = Engine!N + 1
  <2>1. /\ phase' = IF issues = {} THEN "ready" ELSE "rejected"
        /\ issues' = issues /\ program' = program /\ turn' = turn /\ turn - 1 = Engine!N
    BY <1>2, <1>3, <1>7
  <2>2. LoopTypes'
    BY <1>1, <1>2, <2>1, DefinitionKept DEF LoopTypes, Phases
  <2>3. CASE issues = {}
    <3>1. phase' = "ready" /\ program' = Upto(Engine!N)'
      <4>1. Upto(Engine!N)' = Upto(Engine!N)
        BY <1>2, DefinitionKept
      <4>2. QED
        BY <1>3, <2>1, <2>3, <4>1
    <3>2. CompileSound'
      BY <1>4, <3>1 DEF CompileSound
    <3>3. QED
      BY <1>5, <2>2, <3>2 DEF EngineInv
  <2>4. CASE issues # {}
    <3>1. phase' = "rejected"
      BY <2>1, <2>4
    <3>2. Engine!AllIssuesReported'
      <4>1. Engine!WholeIssues' \cup UNION {Engine!ShapeIssues(k)' : k \in 1..Engine!N'} = {}
        BY <1>4, Zenon
      <4>2. issues' = BadTo(Engine!N)'
        <5>1. BadTo(Engine!N)' = BadTo(Engine!N)
          BY <1>2, DefinitionKept
        <5>2. QED
          BY <1>3, <2>1, <5>1
      <4>3. issues' = {<<k, def'.rules[k].cond>> : k \in {k \in 1..Engine!N' : def'.rules[k].cond # "fine"}}
        BY <4>2, Zenon DEF BadTo
      <4>4. QED
        BY <4>1, <4>3, Zenon DEF Engine!AllIssuesReported
    <3>3. CompileSound'
      BY <3>1, <3>2 DEF CompileSound
    <3>4. QED
      BY <1>5, <2>2, <3>3 DEF EngineInv
  <2>5. QED
    BY <2>3, <2>4
<1>8. QED
  BY <1>3, <1>6, <1>7

LEMMA BatchStarts == EngineInv /\ Engine!BatchEvaluate => EngineInv'
<1> SUFFICES ASSUME EngineInv, Engine!BatchEvaluate PROVE EngineInv'
  OBVIOUS
<1>1. LoopTypes /\ CompileSound /\ BatchSound
  BY DEF EngineInv
<1>2. /\ phase = "batch" /\ def' = def /\ issues' = issues /\ program' = program
      /\ expired' = expired /\ results' = results /\ item' = 1 /\ turn' = 0
  BY DEF Engine!BatchEvaluate
<1>3. PICK size \in 0..MaxItems + 1 :
         IF size \in 1..MaxItems
         THEN batch' \in [1..size -> Inputs] /\ phase' = "evaluate"
         ELSE batch' = <<>> /\ phase' = "refused"
  BY DEF Engine!BatchEvaluate
<1>4. def \in Definitions /\ results = <<>> /\ Engine!N \in Nat /\ MaxItems \in Nat
  BY <1>1, <1>2, RulesTyped DEF LoopTypes, BatchSound
<1>5. LoopTypes'
  <2>1. turn' \in 0..Engine!N + 1 /\ item' \in 1..MaxItems + 1 /\ phase' \in {"evaluate", "refused"}
    BY <1>2, <1>3, <1>4
  <2>2. QED
    BY <1>1, <1>2, <2>1, DefinitionKept DEF LoopTypes, Phases
<1>6. CompileSound'
  BY <1>3 DEF CompileSound
<1>7. CASE size \in 1..MaxItems
  <2>1. batch' \in [1..size -> Inputs] /\ phase' = "evaluate"
    BY <1>3, <1>7
  <2>2. Len(batch') = size
    BY <1>7, <2>1
  <2>3. batch' \in [1..Len(batch') -> Inputs] /\ Len(batch') \in 1..MaxItems
    BY <1>7, <2>1, <2>2
  <2>4. item' = 1 /\ 1 \in 1..Len(batch') /\ batch'[1] \in Inputs
    BY <1>2, <1>7, <2>1, <2>2
  <2>5. turn' = 0 /\ turn' \in 0..Len(batch'[item'].says) + 1
    BY <1>2, <2>4, InputsTyped
  <2>6. Len(results') = 0 /\ 1..0 = {} /\ Len(results') = item' - 1
    BY <1>2, <1>4
  <2>7. BatchSound'
    BY <2>1, <2>3, <2>4, <2>5, <2>6 DEF BatchSound
  <2>8. QED
    BY <1>5, <1>6, <2>7 DEF EngineInv
<1>8. CASE size \notin 1..MaxItems
  <2>1. phase' = "refused"
    BY <1>3, <1>8
  <2>2. BatchSound'
    BY <1>2, <1>4, <2>1, NoBatchYet
  <2>3. QED
    BY <1>5, <1>6, <2>2 DEF EngineInv
<1>9. QED
  BY <1>7, <1>8

(* What an item under evaluation has.                                      *)
LEMMA AtItem ==
    ASSUME EngineInv, phase = "evaluate"
    PROVE  /\ def \in Definitions /\ Engine!N \in Nat /\ MaxItems \in Nat
           /\ Len(batch) \in 1..MaxItems /\ item \in 1..Len(batch)
           /\ batch \in [1..Len(batch) -> Inputs] /\ batch[item] \in Inputs
           /\ turn \in 0..Len(batch[item].says) + 1
           /\ results \in Seq(Result) /\ Len(results) = item - 1
           /\ \A k \in 1..Len(results) : RightFor(results[k], batch[k], k, expired)
           /\ turn > 0 => Admitted(batch[item]) /\ Said(batch[item], turn - 1)
           /\ turn > 1 => batch[item].facts = TRUE
<1>1. LoopTypes /\ BatchSound
  BY DEF EngineInv
<1>2. def \in Definitions /\ Engine!N \in Nat /\ MaxItems \in Nat /\ results \in Seq(Result)
  BY <1>1, RulesTyped DEF LoopTypes
<1>3. QED
  BY <1>1, <1>2 DEF BatchSound

(* A result appended for the item at hand.                                 *)
LEMMA ConcludeRight ==
    ASSUME EngineInv, phase = "evaluate",
           NEW r \in Result, RightFor(r, batch[item], item, expired),
           def' = def, issues' = issues, program' = program, batch' = batch, expired' = expired,
           results' = Append(results, r), item' = item + 1, turn' = 0,
           phase' = IF item = Len(batch) THEN "answered" ELSE phase
    PROVE  EngineInv'
<1> USE AtItem
<1>1. phase' \in {"evaluate", "answered"}
  OBVIOUS
<1>2. CompileSound'
  BY <1>1 DEF CompileSound
<1>3. LoopTypes'
  <2>1. turn' \in 0..Engine!N + 1 /\ item' \in 1..MaxItems + 1 /\ phase' \in Phases
    BY <1>1 DEF Phases
  <2>2. results' \in Seq(Result)
    OBVIOUS
  <2>3. QED
    BY <1>1, <2>1, <2>2, DefinitionKept DEF EngineInv, LoopTypes
<1>4. BatchSound'
  <2>1. /\ Len(results') = item /\ results'[item] = r
        /\ \A k \in 1..item : k # item => k \in 1..Len(results) /\ results'[k] = results[k]
    OBVIOUS
  <2>2. Len(batch') \in 1..MaxItems /\ batch' \in [1..Len(batch') -> Inputs]
    OBVIOUS
  <2>3. Len(results') = item' - 1
    BY <2>1
  <2>4. \A k \in 1..Len(results') : RightFor(results[k], batch[k], k, expired)'
    <3>1. \A k \in 1..item : RightFor(results'[k], batch[k], k, expired)
      BY <2>1
    <3>2. \A k \in 1..item : RightFor(results[k], batch[k], k, expired)'
      BY <3>1, DefinitionKept
    <3>3. QED
      BY <2>1, <3>2
  <2>5. ~(turn' > 0) /\ ~(turn' > 1)
    OBVIOUS
  <2>6. phase' = "evaluate" => item' \in 1..Len(batch')
    OBVIOUS
  <2>7. phase' = "evaluate" => turn' \in 0..Len(batch'[item'].says) + 1
    <3>1. phase' = "evaluate" => batch'[item'] \in Inputs
      BY <2>2, <2>6
    <3>2. QED
      BY <3>1, InputsTyped
  <2>8. phase' = "answered" => item' = Len(batch') + 1
    OBVIOUS
  <2>9. QED
    BY <1>1, <2>2, <2>3, <2>4, <2>5, <2>6, <2>7, <2>8 DEF BatchSound
<1>5. QED
  BY <1>2, <1>3, <1>4 DEF EngineInv

(* Concluding with what the item is answered alone, or cut short.          *)
LEMMA Concludes ==
    ASSUME EngineInv, phase = "evaluate",
           NEW err \in Error, NEW matched \in 0..Len(batch[item].says),
           \/ [err |-> err, matched |-> matched] = Engine!Alone(batch[item])
           \/ expired /\ err \in {"internal", "unavailable"},
           Engine!Conclude([err |-> err, matched |-> matched]),
           def' = def, issues' = issues, program' = program, batch' = batch, expired' = expired
    PROVE  EngineInv'
<1> DEFINE r == [index |-> item - 1, res |-> [err |-> err, matched |-> matched]]
<1>1. /\ results' = Append(results, r) /\ item' = item + 1 /\ turn' = 0
      /\ phase' = IF item = Len(batch) THEN "answered" ELSE phase
  BY DEF Engine!Conclude
<1>2. r \in Result
  <2>1. item - 1 \in Nat /\ matched \in Nat
    BY AtItem, InputsTyped
  <2>2. QED
    BY <2>1 DEF Result
<1>3. RightFor(r, batch[item], item, expired)
  <2>1. r.index = item - 1 /\ r.res = [err |-> err, matched |-> matched]
    OBVIOUS
  <2> HIDE DEF r
  <2>2. r.res.matched \in 0..Len(batch[item].says) /\ r.res.err = err
    BY <2>1
  <2>3. \/ r.res = Engine!Alone(batch[item])
        \/ expired /\ r.res.err \in {"internal", "unavailable"}
    <3>1. CASE [err |-> err, matched |-> matched] = Engine!Alone(batch[item])
      BY <2>1, <3>1
    <3>2. CASE expired /\ err \in {"internal", "unavailable"}
      BY <2>2, <3>2, Zenon
    <3>3. QED
      BY <3>1, <3>2, Zenon
  <2>4. QED
    BY <2>1, <2>2, <2>3, Zenon DEF RightFor
<1> HIDE DEF r
<1>4. QED
  BY <1>1, <1>2, <1>3, ConcludeRight

(* An error, which matches nothing.                                        *)
LEMMA ConcludesError ==
    ASSUME EngineInv, phase = "evaluate", NEW err \in Error,
           \/ Engine!Error(err) = Engine!Alone(batch[item])
           \/ expired /\ err \in {"internal", "unavailable"},
           Engine!Conclude(Engine!Error(err)),
           def' = def, issues' = issues, program' = program, batch' = batch, expired' = expired
    PROVE  EngineInv'
<1>1. 0 \in 0..Len(batch[item].says)
  BY AtItem, InputsTyped
<1>2. Engine!Conclude([err |-> err, matched |-> 0])
  BY DEF Engine!Error
<1>3. QED
  BY <1>1, <1>2, Concludes DEF Engine!Error

LEMMA LookUpSteps == EngineInv /\ Engine!LookUp => EngineInv'
<1> SUFFICES ASSUME EngineInv, Engine!LookUp PROVE EngineInv'
  OBVIOUS
<1>1. /\ phase = "evaluate" /\ turn = 0 /\ def' = def /\ issues' = issues /\ program' = program
      /\ batch' = batch /\ expired' = expired
  BY DEF Engine!LookUp
<1>2. batch[item] \in Inputs
  BY <1>1, AtItem
<1>3. CASE expired /\ Engine!CutShort
  <2>1. PICK err \in {"internal", "unavailable"} : Engine!Conclude(Engine!Error(err))
    BY <1>3 DEF Engine!CutShort
  <2>2. err \in Error
    BY DEF Error, Engine!Verdict
  <2>3. QED
    BY <1>1, <1>3, <2>1, <2>2, ConcludesError
<1>4. ASSUME NEW k \in 1..5, Engine!Passes(k), batch[item].checks[k] # "ok",
             Engine!Conclude(Engine!Error(batch[item].checks[k]))
      PROVE  EngineInv'
  <2>1. batch[item].checks[k] \in Error
    BY <1>2, InputsTyped DEF Error
  <2>2. Engine!Alone(batch[item]) = Engine!Error(batch[item].checks[k])
    BY <1>2, <1>4, AloneRefused DEF Engine!Passes
  <2>3. QED
    BY <1>1, <1>4, <2>1, <2>2, ConcludesError
<1>5. CASE Engine!Passes(6) /\ turn' = 1 /\ results' = results /\ item' = item /\ phase' = phase
  <2>1. Admitted(batch[item])
    BY <1>5 DEF Engine!Passes, Admitted
  <2>2. Said(batch[item], turn - 1)' /\ Admitted(batch[item])'
    <3>1. Said(batch[item], 0)
      BY DEF Said
    <3>2. turn' - 1 = 0
      BY <1>5
    <3>3. QED
      BY <1>1, <1>5, <2>1, <3>1, <3>2
  <2>3. turn' \in 0..Len(batch[item].says) + 1 /\ ~(turn' > 1)
    BY <1>2, <1>5, InputsTyped
  <2>4. \A k \in 1..Len(results) : RightFor(results[k], batch[k], k, expired)'
    BY <1>1, <1>5, AtItem, DefinitionKept
  <2>5. BatchSound'
    BY <1>1, <1>5, <2>2, <2>3, <2>4, AtItem DEF BatchSound
  <2>6. LoopTypes' /\ CompileSound'
    BY <1>1, <1>5, DefinitionKept DEF EngineInv, LoopTypes, CompileSound
  <2>7. QED
    BY <2>5, <2>6 DEF EngineInv
<1>6. QED
  BY <1>3, <1>4, <1>5 DEF Engine!LookUp

LEMMA EvaluateSteps == EngineInv /\ Engine!Evaluate => EngineInv'
<1> SUFFICES ASSUME EngineInv, Engine!Evaluate PROVE EngineInv'
  OBVIOUS
<1>1. /\ phase = "evaluate" /\ turn > 0 /\ def' = def /\ issues' = issues /\ program' = program
      /\ batch' = batch /\ expired' = expired
  BY DEF Engine!Evaluate
<1> DEFINE it == batch[item]
           rules == Len(it.says)
<1>2. /\ it \in Inputs /\ turn \in 0..rules + 1 /\ it.facts \in BOOLEAN /\ rules \in Nat
      /\ \A j \in 1..rules : it.says[j] \in {"true", "false", "error", "other"}
      /\ Admitted(it) /\ Said(it, turn - 1)
  BY <1>1, AtItem, InputsTyped
<1>3. turn > 1 => it.facts = TRUE
  BY <1>1, AtItem
<1>4. Engine!Facts => it.facts = TRUE
  BY <1>2, <1>3, Zenon DEF Engine!Facts
<1>5. ~Engine!Facts => ~it.facts
  BY Zenon DEF Engine!Facts
<1>6. Engine!Says = it.says
  BY DEF Engine!Says
<1>7. "internal" \in Error /\ "invalid" \in Error /\ "none" \in Error
  BY DEF Error, Engine!Verdict
<1> HIDE DEF it, rules
<1>8. CASE expired /\ Engine!Conclude(Engine!Error("internal"))
  <2>1. PICK err \in Error : err = "internal"
    BY <1>7
  <2>2. QED
    BY <1>1, <1>8, <2>1, ConcludesError
<1>9. CASE ~Engine!Facts /\ Engine!Conclude(Engine!Error("invalid"))
  <2>1. Engine!Alone(it) = Engine!Error("invalid")
    BY <1>2, <1>5, <1>9, AloneAdmitted
  <2>2. PICK err \in Error : err = "invalid"
    BY <1>7
  <2>3. QED
    BY <1>1, <1>9, <2>1, <2>2, ConcludesError DEF it
<1>10. CASE Engine!Facts /\ turn > Len(Engine!Says) /\ Engine!Conclude(Engine!Match(0))
  <2>1. turn - 1 = rules
    BY <1>2, <1>6, <1>10 DEF rules
  <2>2. Engine!Alone(it) = Engine!Match(0)
    BY <1>2, <1>4, <1>10, <2>1, AloneAdmitted DEF rules
  <2>3. PICK err \in Error : err = "none"
    BY <1>7
  <2>4. 0 \in 0..rules
    BY <1>2
  <2>5. QED
    BY <1>1, <1>10, <2>2, <2>3, <2>4, Concludes DEF it, rules, Engine!Match
<1>11. CASE /\ Engine!Facts /\ turn <= Len(Engine!Says) /\ Engine!Says[turn] \in {"error", "other"}
            /\ Engine!Conclude(Engine!Error("internal"))
  <2>1. turn \in 1..rules /\ it.says[turn] \in {"error", "other"}
    BY <1>1, <1>2, <1>6, <1>11 DEF rules
  <2>2. Engine!Alone(it) = Engine!Error("internal")
    BY <1>2, <1>4, <1>11, <2>1, AloneDecided DEF rules
  <2>3. PICK err \in Error : err = "internal"
    BY <1>7
  <2>4. QED
    BY <1>1, <1>11, <2>2, <2>3, ConcludesError DEF it
<1>12. CASE /\ Engine!Facts /\ turn <= Len(Engine!Says) /\ Engine!Says[turn] = "true"
            /\ Engine!Conclude(Engine!Match(turn))
  <2>1. turn \in 1..rules /\ it.says[turn] = "true"
    BY <1>1, <1>2, <1>6, <1>12 DEF rules
  <2>2. Engine!Alone(it) = Engine!Match(turn)
    BY <1>2, <1>4, <1>12, <2>1, AloneDecided DEF rules
  <2>3. PICK err \in Error : err = "none"
    BY <1>7
  <2>4. turn \in 0..rules
    BY <2>1, <1>2
  <2>5. QED
    BY <1>1, <1>12, <2>2, <2>3, <2>4, Concludes DEF it, rules, Engine!Match
<1>13. CASE /\ Engine!Facts /\ turn <= Len(Engine!Says) /\ Engine!Says[turn] = "false"
            /\ turn' = turn + 1 /\ results' = results /\ item' = item /\ phase' = phase
  <2>1. turn \in 1..rules /\ it.says[turn] = "false" /\ it.facts = TRUE
    BY <1>1, <1>2, <1>4, <1>6, <1>13 DEF rules
  <2>2. LoopTypes' /\ CompileSound'
    BY <1>1, <1>13, DefinitionKept DEF EngineInv, LoopTypes, CompileSound
  <2>3. Said(it, turn)
    <3>1. \A j \in 1..turn : j = turn \/ j \in 1..turn - 1
      BY <2>1, <1>2
    <3>2. QED
      BY <1>2, <2>1, <3>1 DEF Said
  <2>4. turn' - 1 = turn /\ turn' \in 0..rules + 1
    BY <1>2, <1>13, <2>1
  <2>5. it' = it /\ rules' = rules
    BY <1>1, <1>13 DEF it, rules
  <2>6. Said(it, turn - 1)' /\ Admitted(it)'
    BY <1>2, <2>3, <2>4, <2>5
  <2>7. \A k \in 1..Len(results) : RightFor(results[k], batch[k], k, expired)'
    BY <1>1, <1>13, AtItem, DefinitionKept
  <2>8. it.facts' = TRUE
    BY <2>1, <2>5
  <2>9. BatchSound'
    BY <1>1, <1>13, <2>4, <2>5, <2>6, <2>7, <2>8, AtItem DEF BatchSound, it, rules
  <2>10. QED
    BY <2>2, <2>9 DEF EngineInv
<1>14. QED
  BY <1>8, <1>9, <1>10, <1>11, <1>12, <1>13 DEF Engine!Evaluate

LEMMA ExpireSteps == EngineInv /\ Engine!Expire => EngineInv'
<1> SUFFICES ASSUME EngineInv, Engine!Expire PROVE EngineInv'
  OBVIOUS
<1>1. /\ phase = "evaluate" /\ phase' = phase /\ def' = def /\ turn' = turn /\ issues' = issues
      /\ program' = program /\ batch' = batch /\ item' = item /\ expired' = TRUE
      /\ results' = results
  BY DEF Engine!Expire
<1>2. CompileSound'
  BY <1>1 DEF CompileSound
<1>3. LoopTypes'
  BY <1>1, DefinitionKept DEF EngineInv, LoopTypes
<1>4. BatchSound'
  <2>1. \A k \in 1..Len(results) : RightFor(results[k], batch[k], k, TRUE)
    BY <1>1, AtItem DEF RightFor
  <2>2. \A k \in 1..Len(results) : RightFor(results[k], batch[k], k, expired)'
    BY <1>1, <2>1, DefinitionKept
  <2>3. turn > 0 => Said(batch[item], turn - 1)' /\ Admitted(batch[item])'
    BY <1>1, AtItem
  <2>4. QED
    BY <1>1, <2>2, <2>3, AtItem DEF BatchSound
<1>5. QED
  BY <1>2, <1>3, <1>4 DEF EngineInv

LEMMA EngineSteps == EngineInv /\ [Engine!Next]_engineVars => EngineInv'
<1> SUFFICES ASSUME EngineInv, [Engine!Next]_engineVars PROVE EngineInv'
  OBVIOUS
<1>1. CASE Engine!Decode
  BY <1>1, DecodeSound
<1>2. CASE Engine!validateShape
  BY <1>2, ShapeSound
<1>3. CASE Engine!CompileRule
  BY <1>3, CompileSteps
<1>4. CASE Engine!BatchEvaluate
  BY <1>4, BatchStarts
<1>5. CASE Engine!Evaluate
  BY <1>5, EvaluateSteps
<1>6. CASE Engine!Expire
  BY <1>6, ExpireSteps
<1>7. CASE Engine!LookUp
  BY <1>7, LookUpSteps
<1>8. CASE UNCHANGED engineVars
  <2>1. /\ phase' = phase /\ def' = def /\ turn' = turn /\ issues' = issues /\ program' = program
        /\ batch' = batch /\ item' = item /\ expired' = expired /\ results' = results
    BY <1>8 DEF engineVars
  <2>2. LoopTypes'
    BY <2>1, DefinitionKept DEF EngineInv, LoopTypes
  <2>3. CompileSound'
    <3>1. Engine!AllIssuesReported => Engine!AllIssuesReported'
      BY <2>1, DefinitionKept, Zenon DEF Engine!AllIssuesReported
    <3>2. ShapeTo(turn - 1)' = ShapeTo(turn - 1) /\ BadTo(turn - 1)' = BadTo(turn - 1)
      BY <2>1, DefinitionKept
    <3>3. QED
      BY <2>1, <3>1, <3>2, DefinitionKept DEF EngineInv, CompileSound
  <2>4. BatchSound'
    <3>1. CASE phase \notin {"evaluate", "answered"}
      BY <2>1, <3>1, NoBatchYet DEF EngineInv, BatchSound
    <3>2. CASE phase \in {"evaluate", "answered"}
      <4>1. /\ Said(batch[item], turn - 1)' = Said(batch[item], turn - 1)
            /\ Admitted(batch[item])' = Admitted(batch[item])
        BY <2>1
      <4>2. \A k : RightFor(results[k], batch[k], k, expired)' = RightFor(results[k], batch[k], k, expired)
        BY <2>1, DefinitionKept
      <4>3. QED
        BY <2>1, <3>2, <4>1, <4>2, DefinitionKept DEF EngineInv, BatchSound
    <3>3. QED
      BY <3>1, <3>2
  <2>5. QED
    BY <2>2, <2>3, <2>4 DEF EngineInv
<1>9. QED
  BY <1>1, <1>2, <1>3, <1>4, <1>5, <1>6, <1>7, <1>8 DEF Engine!Next

(* What the loops have answered when the invariant holds.                  *)
LEMMA IssuesWhole == EngineInv => Engine!AllIssuesReported
<1>1. CASE phase = "rejected"
  BY <1>1 DEF EngineInv, CompileSound
<1>2. CASE phase # "rejected"
  BY <1>2 DEF Engine!AllIssuesReported
<1>3. QED
  BY <1>1, <1>2

LEMMA ProgramWhole == EngineInv => Engine!ProgramMirrorsDefinition
<1> SUFFICES ASSUME EngineInv, phase = "ready"
             PROVE  /\ program = Upto(Engine!N)
                    /\ \A j, k \in 1..Engine!N : def.rules[j].name = def.rules[k].name => j = k
  BY DEF Engine!ProgramMirrorsDefinition, Upto
<1>1. program = Upto(Engine!N) /\ \A k \in 1..Engine!N : Engine!ShapeIssues(k) = {}
  BY DEF EngineInv, CompileSound
<1>2. Engine!N \in Nat
  BY RulesTyped DEF EngineInv, LoopTypes
<1>3. \A k \in 1..Engine!N : \A j \in 1..k - 1 : def.rules[j].name # def.rules[k].name
  <2>1. SUFFICES ASSUME NEW k \in 1..Engine!N, NEW j \in 1..k - 1,
                        def.rules[j].name = def.rules[k].name
                 PROVE  FALSE
    OBVIOUS
  <2>2. Engine!NameIssue(k) # {}
    <3>1. Engine!NameIssue(k) = {<<k, "required">>} \/ Engine!NameIssue(k) = {<<k, "duplicate">>}
      BY <2>1, Zenon DEF Engine!NameIssue
    <3>2. QED
      BY <3>1
  <2>3. QED
    BY <1>1, <2>2 DEF Engine!ShapeIssues
<1>4. \A j, k \in 1..Engine!N : j = k \/ j \in 1..k - 1 \/ k \in 1..j - 1
  BY <1>2
<1>5. \A j, k \in 1..Engine!N : def.rules[j].name = def.rules[k].name => j = k
  BY <1>3, <1>4
<1>6. QED
  BY <1>1, <1>5

(* The results, wherever the evaluation is.                                *)
LEMMA ResultsRight ==
    ASSUME EngineInv
    PROVE  /\ DOMAIN results = 1..Len(results) /\ Len(results) \in Nat
           /\ def \in Definitions /\ Engine!N \in Nat
           /\ \A k \in DOMAIN results :
                 results[k] \in Result /\ RightFor(results[k], batch[k], k, expired)
<1>1. results \in Seq(Result) /\ def \in Definitions /\ Engine!N \in Nat
  BY RulesTyped DEF EngineInv, LoopTypes
<1>2. DOMAIN results = 1..Len(results) /\ Len(results) \in Nat
      /\ \A k \in 1..Len(results) : results[k] \in Result
  BY <1>1
<1>3. CASE phase \in {"evaluate", "answered"}
  BY <1>1, <1>2, <1>3 DEF EngineInv, BatchSound
<1>4. CASE phase \notin {"evaluate", "answered"}
  <2>1. DOMAIN results = {}
    <3>1. results = <<>>
      BY <1>4 DEF EngineInv, BatchSound
    <3>2. QED
      BY <3>1
  <2>2. QED
    BY <1>1, <1>2, <2>1
<1>5. QED
  BY <1>3, <1>4

LEMMA BatchWhole == EngineInv => Engine!BatchComplete
<1> SUFFICES ASSUME EngineInv PROVE Engine!BatchComplete
  OBVIOUS
<1>1. phase = "answered" => Len(results) = Len(batch)
  <2>1. CASE phase = "answered"
    <3>1. Len(results) = item - 1 /\ item = Len(batch) + 1 /\ Len(batch) \in 1..MaxItems
      BY <2>1 DEF EngineInv, BatchSound
    <3>2. MaxItems \in Nat
      BY RulesTyped DEF EngineInv, LoopTypes
    <3>3. QED
      BY <3>1, <3>2
  <2>2. QED
    BY <2>1
<1>2. ASSUME NEW k \in DOMAIN results
      PROVE  /\ results[k].index = k - 1
             /\ \/ results[k].res = Engine!Alone(batch[k])
                \/ expired /\ results[k].res.err \in {"internal", "unavailable"}
  BY ResultsRight DEF RightFor
<1>3. QED
  BY <1>1, <1>2, Zenon DEF Engine!BatchComplete

(* Compiling and evaluating report the whole truth, in order: every defect *)
(* of the shape or every condition that does not compile; a program for    *)
(* each rule; for each item what Service.Evaluate answers it alone, be it  *)
(* refused, failed or matched, or the error of a passed deadline.          *)
THEOREM LoopsAreFaithful == Engine!Spec => []AnswerFaithful
<1>1. EngineInv => AnswerFaithful
  BY IssuesWhole, ProgramWhole, BatchWhole
     DEF AnswerFaithful, Engine!AnswerFaithful
<1>2. EngineInv /\ [Engine!Next]_(Engine!vars) => EngineInv'
  BY EngineSteps DEF Engine!vars, engineVars
<1>3. QED
  BY EngineInit, <1>1, <1>2, PTL DEF Engine!Spec
-----------------------------------------------------------------------------
(* Lists                                                                   *)

(* The well-order of the natural numbers.                                  *)
LEMMA LeastOf ==
    ASSUME NEW T, T \subseteq Nat, T # {}
    PROVE  \E m \in T : \A y \in T : m <= y
<1> DEFINE R == OpToRel(<, Nat)
<1>1. \A x, y \in Nat : y < x => <<y, x>> \in R
  BY DEF OpToRel
<1>2. IsWellFoundedOn(R, Nat)
  BY NatLessThanWellFounded
<1> HIDE DEF R
<1>3. PICK m \in T : \A y \in T : ~ (<<y, m>> \in R)
  BY <1>2, WFMin
<1>4. \A y \in T : m \in Nat /\ y \in Nat /\ ~ (y < m)
  BY <1>1, <1>3, Zenon
<1>5. QED
  BY <1>4

(* The instance has finite sets of its own.                                *)
LEMMA ListsCount ==
    /\ \A S : Lists!Cardinality(S) = Cardinality(S)
    /\ \A S : Lists!IsFiniteSet(S) <=> IsFiniteSet(S)
    /\ \A S, k : Lists!Before(S, k) = Cardinality({j \in S : j < k})
<1>1. \A S : Lists!Cardinality(S) = Cardinality(S)
  BY Zenon DEF Lists!Cardinality, Cardinality
<1>2. \A S : Lists!IsFiniteSet(S) <=> IsFiniteSet(S)
  BY Zenon DEF Lists!IsFiniteSet, IsFiniteSet
<1>3. \A S, k : Lists!Before(S, k) = Cardinality({j \in S : j < k})
  BY <1>1, Zenon DEF Lists!Before
<1>4. QED
  BY <1>1, <1>2, <1>3

(* How many rows stand before k: a rank among the rows, from 0 on.         *)
LEMMA BeforeCounts ==
    ASSUME NEW S, S \subseteq Nat, IsFiniteSet(S), NEW k
    PROVE  /\ IsFiniteSet({j \in S : j < k}) /\ Lists!Before(S, k) \in 0..Cardinality(S)
           /\ k \in S => Lists!Before(S, k) < Cardinality(S)
           /\ \A T : S \subseteq T /\ IsFiniteSet(T) => Lists!Before(S, k) <= Lists!Before(T, k)
<1> DEFINE B(T) == {j \in T : j < k}
<1>1. ASSUME NEW T, IsFiniteSet(T)
      PROVE  /\ IsFiniteSet(B(T)) /\ Cardinality(B(T)) \in Nat
             /\ Cardinality(T) \in Nat /\ Cardinality(B(T)) <= Cardinality(T)
             /\ Cardinality(B(T)) = Cardinality(T) => B(T) = T
  <2>1. B(T) \in SUBSET T
    OBVIOUS
  <2> HIDE DEF B
  <2>2. IsFiniteSet(B(T))
    BY <1>1, <2>1, FS_Subset
  <2>3. QED
    BY <1>1, <2>1, <2>2, FS_Subset, FS_CardinalityType
<1>2. ASSUME k \in S PROVE k \notin B(S)
  BY <1>2
<1>3. ASSUME NEW T, S \subseteq T, IsFiniteSet(T)
      PROVE  Cardinality(B(S)) <= Cardinality(B(T))
  <2>1. B(S) \in SUBSET B(T) /\ IsFiniteSet(B(T))
    BY <1>1, <1>3
  <2> HIDE DEF B
  <2>2. QED
    BY <2>1, FS_Subset
<1>4. \A T : Lists!Before(T, k) = Cardinality(B(T))
  BY ListsCount
<1>5. IsFiniteSet(B(S))
  BY <1>1
<1>6. /\ Cardinality(B(S)) \in 0..Cardinality(S)
      /\ k \in S => Cardinality(B(S)) < Cardinality(S)
  <2> HIDE DEF B
  <2>1. QED
    BY <1>1, <1>2
<1>7. QED
  BY <1>3, <1>4, <1>5, <1>6

LEMMA BeforeGrows ==
    ASSUME NEW S, S \subseteq Nat, IsFiniteSet(S), NEW j \in S, NEW k \in S, j < k
    PROVE  Lists!Before(S, j) < Lists!Before(S, k)
<1> DEFINE B(x) == {i \in S : i < x}
<1>1. B(j) \cup {j} \in SUBSET B(k) /\ j \notin B(j)
  <2>1. j \in Nat /\ k \in Nat /\ j \in B(k) /\ j \notin B(j)
    OBVIOUS
  <2>2. \A i \in B(j) : i \in Nat /\ i \in S /\ i < j
    OBVIOUS
  <2>3. \A i \in B(j) : i \in S /\ i < k
    BY <2>1, <2>2
  <2>4. QED
    BY <2>1, <2>3, Zenon
<1>2. IsFiniteSet(B(j)) /\ IsFiniteSet(B(k))
  BY BeforeCounts
<1>3. Lists!Before(S, j) = Cardinality(B(j)) /\ Lists!Before(S, k) = Cardinality(B(k))
  BY ListsCount, Zenon
<1> HIDE DEF B
<1>4. Cardinality(B(j) \cup {j}) = Cardinality(B(j)) + 1
  BY <1>1, <1>2, FS_AddElement
<1>5. Cardinality(B(j) \cup {j}) <= Cardinality(B(k))
  BY <1>1, <1>2, FS_Subset
<1>6. Cardinality(B(j)) \in Nat /\ Cardinality(B(k)) \in Nat
  BY <1>2, FS_CardinalityType
<1>7. QED
  BY <1>3, <1>4, <1>5, <1>6

(* Rows with ranks in an interval are no more than it is long.             *)
LEMMA RanksFit ==
    ASSUME NEW S, S \subseteq Nat, IsFiniteSet(S), NEW P, P \subseteq S,
           NEW a \in Nat, NEW n \in Nat, \A k \in P : Lists!Before(S, k) \in a..a + n - 1
    PROVE  IsFiniteSet(P) /\ Cardinality(P) \in Nat /\ Cardinality(P) <= n
<1> DEFINE f == [k \in P |-> Lists!Before(S, k)]
<1>1. f \in [P -> a..a + n - 1]
  OBVIOUS
<1>2. \A j, k \in P : f[j] = f[k] => j = k
  <2> SUFFICES ASSUME NEW j \in P, NEW k \in P, j # k PROVE f[j] # f[k]
    OBVIOUS
  <2>1. Lists!Before(S, j) \in Int /\ Lists!Before(S, k) \in Int
    OBVIOUS
  <2>2. j \in Nat /\ k \in Nat /\ j \in S /\ k \in S
    OBVIOUS
  <2>3. j < k \/ k < j
    BY <2>2
  <2>4. Lists!Before(S, j) < Lists!Before(S, k) \/ Lists!Before(S, k) < Lists!Before(S, j)
    BY <2>2, <2>3, BeforeGrows
  <2>5. QED
    BY <2>1, <2>4
<1> HIDE DEF f
<1>3. f \in Injection(P, a..a + n - 1)
  BY <1>1, <1>2, Zenon DEF Injection, IsInjective
<1>4. IsFiniteSet(a..a + n - 1) /\ Cardinality(a..a + n - 1) = n
  BY FS_Interval
<1>5. QED
  BY <1>3, <1>4, FS_Injection, FS_CardinalityType

(* Every rank below the number of rows is some row's.                      *)
LEMMA RankExists ==
    ASSUME NEW S, S \subseteq Nat, IsFiniteSet(S), NEW n \in Nat, n < Cardinality(S)
    PROVE  \E k \in S : Lists!Before(S, k) = n
<1> DEFINE T == {k \in S : Lists!Before(S, k) >= n}
<1>1. Cardinality(S) \in Nat /\ \A k \in S : Lists!Before(S, k) \in Nat
  <2>1. Cardinality(S) \in Nat
    BY FS_CardinalityType
  <2>2. \A k : Lists!Before(S, k) \in 0..Cardinality(S)
    BY BeforeCounts
  <2>3. QED
    BY <2>1, <2>2
<1>2. \A k \in S : k \notin T => Lists!Before(S, k) \in 0..0 + n - 1
  BY <1>1
<1>3. T # {}
  <2> SUFFICES ASSUME T = {} PROVE FALSE
    OBVIOUS
  <2>1. \A k \in S : Lists!Before(S, k) \in 0..0 + n - 1
    BY <1>2, Zenon
  <2>2. Cardinality(S) <= n
    BY <2>1, RanksFit
  <2>3. QED
    BY <1>1, <2>2
<1>4. PICK m \in T : \A y \in T : m <= y
  <2>1. T \subseteq Nat
    OBVIOUS
  <2> HIDE DEF T
  <2>2. QED
    BY <1>3, <2>1, LeastOf
<1> DEFINE P == {j \in S : j < m}
<1>5. \A j \in P : j \in S /\ j \notin T
  BY <1>4
<1>6. \A j \in P : Lists!Before(S, j) \in 0..0 + n - 1
  BY <1>2, <1>5, Zenon
<1>7. Cardinality(P) <= n
  <2>1. P \subseteq S
    OBVIOUS
  <2> HIDE DEF P
  <2>2. QED
    BY <1>6, <2>1, RanksFit
<1>8. Lists!Before(S, m) = Cardinality(P)
  BY ListsCount, Zenon
<1>9. m \in S /\ Lists!Before(S, m) >= n /\ Lists!Before(S, m) \in Nat
  BY <1>1, <1>4
<1> HIDE DEF P, T
<1>10. QED
  BY <1>7, <1>8, <1>9

(* LIMIT and OFFSET: a page holds at most limit rows, at least what is due *)
(* from the offset on, and nothing only if nothing is left.                *)
LEMMA PageHolds ==
    ASSUME NEW S, S \subseteq Nat, IsFiniteSet(S), NEW limit \in Nat, NEW offset \in Nat
    PROVE  LET P == Lists!Page(S, limit, offset)
               due == Cardinality(S) - offset
           IN  /\ P \subseteq S /\ IsFiniteSet(P) /\ Cardinality(P) \in 0..limit
               /\ Cardinality(P) >= IF due < limit THEN due ELSE limit
               /\ P = {} /\ limit > 0 => \A k \in S : Lists!Before(S, k) < offset
<1> DEFINE P == Lists!Page(S, limit, offset)
           due == Cardinality(S) - offset
           least == IF due < limit THEN due ELSE limit
<1>1. \A k : k \in P <=> k \in S /\ Lists!Before(S, k) \in offset..offset + limit - 1
  BY DEF Lists!Page
<1>2. Cardinality(S) \in Nat /\ \A k \in S : Lists!Before(S, k) \in 0..Cardinality(S) - 1
  <2>1. Cardinality(S) \in Nat
    BY FS_CardinalityType
  <2>2. \A k \in S : /\ Lists!Before(S, k) \in 0..Cardinality(S)
                     /\ Lists!Before(S, k) < Cardinality(S)
    BY BeforeCounts
  <2>3. QED
    BY <2>1, <2>2
<1> HIDE DEF P
<1>3. P \subseteq S /\ IsFiniteSet(P) /\ Cardinality(P) \in Nat /\ Cardinality(P) <= limit
  BY <1>1, RanksFit
<1>4. Cardinality(P) >= least
  <2>1. CASE least <= 0
    BY <1>2, <1>3, <2>1
  <2>2. CASE least > 0
    <3> DEFINE T == offset..offset + least - 1
               g == [n \in T |-> CHOOSE k \in S : Lists!Before(S, k) = n]
    <3>1. \A n \in T : n \in Nat /\ n < Cardinality(S) /\ n \in offset..offset + limit - 1
      BY <1>2, <2>2
    <3>2. \A n \in T : \E k \in S : Lists!Before(S, k) = n
      BY <3>1, RankExists
    <3>3. \A n \in T : g[n] \in S /\ Lists!Before(S, g[n]) = n
      BY <3>2, Zenon
    <3>4. least \in Nat
      BY <1>2, <2>2
    <3> HIDE DEF least
    <3>5. IsFiniteSet(T) /\ Cardinality(T) = least
      BY <3>4, FS_Interval
    <3>6. g \in [T -> P]
      <4>1. \A n \in T : g[n] \in P
        BY <1>1, <3>1, <3>3
      <4> HIDE DEF T
      <4>2. QED
        BY <4>1
    <3> HIDE DEF T, g
    <3>7. \A m, n \in T : g[m] = g[n] => m = n
      BY <3>3
    <3>8. g \in Injection(T, P)
      BY <3>6, <3>7, Zenon DEF Injection, IsInjective
    <3>9. Cardinality(T) <= Cardinality(P)
      BY <1>3, <3>8, FS_Injection
    <3>10. QED
      BY <1>3, <3>4, <3>5, <3>9
  <2>3. QED
    BY <1>2, <2>1, <2>2
<1>5. ASSUME P = {}, limit > 0, NEW k \in S PROVE Lists!Before(S, k) < offset
  <2>1. CASE offset < Cardinality(S)
    <3>1. PICK j \in S : Lists!Before(S, j) = offset
      BY <2>1, RankExists
    <3>2. offset \in offset..offset + limit - 1
      BY <1>5
    <3>3. QED
      BY <1>1, <1>5, <3>1, <3>2
  <2>2. CASE ~(offset < Cardinality(S))
    BY <1>2, <2>2
  <2>3. QED
    BY <2>1, <2>2
<1>6. Cardinality(P) \in 0..limit
  BY <1>3
<1>7. QED
  BY <1>3, <1>4, <1>5, <1>6 DEF P
-----------------------------------------------------------------------------
(* The page size that Normalized gives.                                    *)
SizeOf(a) == IF a < 1 THEN DefaultSize ELSE IF a > MaxSize THEN MaxSize ELSE a

(* The rows that the pages before page p hold, when none is added.         *)
Left(p, a) == p * SizeOf(a)

LEMMA PagesAddUp ==
    ASSUME NEW a \in Asked, NEW p \in Nat
    PROVE  /\ SizeOf(a) \in 1..MaxSize /\ MaxSize \in Nat /\ Left(p, a) \in Nat
           /\ Left(p + 1, a) = Left(p, a) + SizeOf(a)
<1>1. SizeOf(a) \in 1..MaxSize /\ MaxSize \in Nat
  BY ListAssumption DEF Lists!QueriesAssumption, SizeOf
<1> DEFINE z == SizeOf(a)
<1>2. z \in Nat
  BY <1>1
<1> HIDE DEF z
<1>3. p * z \in Nat /\ (p + 1) * z = p * z + z
  BY <1>2
<1>4. QED
  BY <1>1, <1>3 DEF Left, z

(* A walk without a filter through the rows S, with query q at statement s:*)
(* n counted, P on the page, sn seen, o there from the beginning.  What is *)
(* not seen yet still lies ahead, since rows only come in between.         *)
Walk(S, q, s, n, P, sn, o) ==
    /\ s \in {"idle", "reply"} =>
          \A k \in o : k \in sn \/ Lists!Before(S, k) >= Left(q.page, q.asked)
    /\ s \in {"count", "select"} =>
          \A k \in o : k \in sn \/ Lists!Before(S, k) >= Left(q.page - 1, q.asked)
    /\ s = "select" => n <= Cardinality(S)
    /\ s = "reply" =>
          Cardinality(P) >= IF n - Left(q.page - 1, q.asked) < SizeOf(q.asked)
                            THEN n - Left(q.page - 1, q.asked) ELSE SizeOf(q.asked)
    /\ s = "over" \/ (s = "reply" /\ P = {}) => o \subseteq sn

WalkTypes ==
    /\ DOMAIN table \subseteq Ranks /\ table \in [DOMAIN table -> Statuses]
    /\ pc \in {"idle", "count", "select", "reply", "over", "failed"}
    /\ query \in [filter : Statuses \cup {NoFilter}, asked : Asked, page : Nat]
    /\ total \in Nat /\ items \subseteq Ranks /\ Cardinality(items) <= MaxSize
    /\ seen \subseteq Ranks /\ old \subseteq DOMAIN table
    /\ pc # "idle" => query.page > 0

ListInv ==
    /\ WalkTypes
    /\ query.filter = NoFilter => Walk(DOMAIN table, query, pc, total, items, seen, old)

(* The rows of a list, and what a WHERE without a filter selects of them.  *)
LEMMA RowsFinite ==
    ASSUME NEW S, S \subseteq Ranks
    PROVE  S \subseteq Nat /\ IsFiniteSet(S) /\ Cardinality(S) \in Nat
<1>1. Ranks \subseteq Nat /\ IsFiniteSet(Ranks)
  BY ListAssumption, ListsCount DEF Lists!QueriesAssumption
<1>2. IsFiniteSet(S)
  BY <1>1, FS_Subset
<1>3. QED
  BY <1>1, <1>2, FS_CardinalityType

LEMMA MatchingRows ==
    /\ \A t : Lists!Matching(t) \subseteq DOMAIN t
    /\ \A t : query.filter = NoFilter => Lists!Matching(t) = DOMAIN t
BY DEF Lists!Matching

LEMMA ListInit == Lists!Init => ListInv
<1> SUFFICES ASSUME Lists!Init PROVE ListInv
  OBVIOUS
<1>1. PICK T \in SUBSET Ranks : table \in [T -> Statuses]
  BY DEF Lists!Init
<1>2. DOMAIN table = T /\ old = Lists!Matching(table) /\ old \subseteq T
  BY <1>1, MatchingRows DEF Lists!Init
<1>3. /\ query \in [filter : Statuses \cup {NoFilter}, asked : Asked, page : Nat]
      /\ query.page = 0 /\ query.asked \in Asked
  BY DEF Lists!Init
<1>4. Cardinality({}) = 0 /\ MaxSize \in Nat
  BY FS_EmptySet, ListAssumption DEF Lists!QueriesAssumption
<1>5. WalkTypes
  BY <1>1, <1>2, <1>3, <1>4 DEF Lists!Init, WalkTypes
<1>6. \A k \in old : Lists!Before(T, k) >= Left(0, query.asked)
  <2>1. Left(0, query.asked) = 0
    BY <1>3, PagesAddUp DEF Left
  <2>2. IsFiniteSet(T) /\ T \subseteq Nat /\ Cardinality(T) \in Nat
    BY RowsFinite
  <2>3. \A k : Lists!Before(T, k) \in 0..Cardinality(T)
    BY <2>2, BeforeCounts
  <2>4. QED
    BY <2>1, <2>2, <2>3
<1>7. Walk(DOMAIN table, query, pc, total, items, seen, old)
  BY <1>2, <1>3, <1>6 DEF Walk, Lists!Init
<1>8. QED
  BY <1>5, <1>7 DEF ListInv

(* Rows that come in between move no row towards the beginning.            *)
LEMMA WalkGrows ==
    ASSUME NEW S, NEW T, S \subseteq T, T \subseteq Ranks, NEW q, q.asked \in Asked,
           q.page \in Nat, NEW s, s # "idle" => q.page > 0, NEW n \in Nat, NEW P, NEW sn,
           NEW o, Walk(S, q, s, n, P, sn, o)
    PROVE  Walk(T, q, s, n, P, sn, o)
<1>1. /\ S \subseteq Nat /\ IsFiniteSet(S) /\ Cardinality(S) \in Nat
      /\ T \subseteq Nat /\ IsFiniteSet(T) /\ Cardinality(T) \in Nat
  BY RowsFinite
<1>2. Cardinality(S) <= Cardinality(T)
  BY <1>1, FS_Subset
<1>3. \A k : /\ Lists!Before(S, k) \in 0..Cardinality(S)
             /\ Lists!Before(T, k) \in 0..Cardinality(T)
             /\ Lists!Before(S, k) <= Lists!Before(T, k)
  BY <1>1, BeforeCounts
<1>4. /\ Left(q.page, q.asked) \in Nat
      /\ q.page > 0 => Left(q.page - 1, q.asked) \in Nat
  BY PagesAddUp
<1>5. QED
  BY <1>1, <1>2, <1>3, <1>4 DEF Walk

(* The page of a walk without a filter.                                    *)
LEMMA SelectWalk ==
    ASSUME NEW S, S \subseteq Ranks, NEW q, q.asked \in Asked, q.page \in Nat, q.page > 0,
           NEW n \in Nat, NEW Q, NEW sn, NEW o, o \subseteq S,
           Walk(S, q, "select", n, Q, sn, o)
    PROVE  LET P == Lists!Page(S, SizeOf(q.asked), Left(q.page - 1, q.asked))
           IN  Walk(S, q, "reply", n, P, sn \cup P, o)
<1> DEFINE z == SizeOf(q.asked)
           off == Left(q.page - 1, q.asked)
           P == Lists!Page(S, z, off)
<1>1. S \subseteq Nat /\ IsFiniteSet(S) /\ Cardinality(S) \in Nat
  BY RowsFinite
<1>2. z \in 1..MaxSize /\ MaxSize \in Nat /\ off \in Nat /\ Left(q.page, q.asked) = off + z
  <2>1. q.page - 1 \in Nat /\ (q.page - 1) + 1 = q.page
    OBVIOUS
  <2>2. QED
    BY <2>1, PagesAddUp
<1>3. /\ n <= Cardinality(S)
      /\ \A k \in o : k \in sn \/ Lists!Before(S, k) >= off
  BY DEF Walk
<1> HIDE DEF z, off
<1>4. /\ P \subseteq S /\ IsFiniteSet(P) /\ Cardinality(P) \in 0..z
      /\ Cardinality(P) >= IF Cardinality(S) - off < z THEN Cardinality(S) - off ELSE z
      /\ P = {} => \A k \in S : Lists!Before(S, k) < off
  <2>1. z \in Nat /\ z > 0 /\ off \in Nat
    BY <1>2
  <2>2. /\ P \subseteq S /\ IsFiniteSet(P) /\ Cardinality(P) \in 0..z
        /\ Cardinality(P) >= IF Cardinality(S) - off < z THEN Cardinality(S) - off ELSE z
        /\ P = {} /\ z > 0 => \A k \in S : Lists!Before(S, k) < off
    BY <1>1, <2>1, PageHolds, Zenon
  <2>3. QED
    BY <2>1, <2>2
<1>5. \A k : Lists!Before(S, k) \in 0..Cardinality(S)
  BY <1>1, BeforeCounts
<1>6. \A k \in S : Lists!Before(S, k) \in off..off + z - 1 => k \in P
  BY DEF Lists!Page
<1> HIDE DEF P
<1>7. \A k \in o : k \in sn \cup P \/ Lists!Before(S, k) >= off + z
  <2> SUFFICES ASSUME NEW k \in o, k \notin sn, k \notin P
               PROVE  Lists!Before(S, k) >= off + z
    OBVIOUS
  <2>1. k \in S /\ Lists!Before(S, k) >= off /\ Lists!Before(S, k) \in 0..Cardinality(S)
    BY <1>3, <1>5
  <2>2. Lists!Before(S, k) \notin off..off + z - 1
    BY <1>6, <2>1
  <2>3. QED
    BY <1>1, <1>2, <2>1, <2>2
<1>8. Cardinality(P) >= IF n - off < z THEN n - off ELSE z
  BY <1>1, <1>2, <1>3, <1>4
<1>9. P = {} => o \subseteq sn \cup P
  <2> SUFFICES ASSUME P = {}, NEW k \in o, k \notin sn PROVE FALSE
    OBVIOUS
  <2>1. k \in S /\ Lists!Before(S, k) >= off /\ Lists!Before(S, k) < off
    BY <1>3, <1>4
  <2>2. QED
    BY <1>1, <1>2, <1>5, <2>1
<1>10. Walk(S, q, "reply", n, P, sn \cup P, o)
  BY <1>2, <1>7, <1>8, <1>9 DEF Walk, z, off
<1>11. QED
  BY <1>10 DEF P, z, off

LEMMA ListStep == ListInv /\ [Lists!Next]_listVars => ListInv'
<1> SUFFICES ASSUME ListInv, [Lists!Next]_listVars PROVE ListInv'
  OBVIOUS
<1> DEFINE S == DOMAIN table
<1>1. /\ WalkTypes /\ S \subseteq Ranks /\ query.page \in Nat /\ query.asked \in Asked
      /\ query.filter = NoFilter => Walk(S, query, pc, total, items, seen, old)
  BY DEF ListInv, WalkTypes
<1>2. CASE UNCHANGED listVars
  BY <1>1, <1>2 DEF listVars, WalkTypes, ListInv
<1>3. CASE Lists!Ask
  <2> DEFINE q == [query EXCEPT !.page = query.page + 1]
  <2>1. /\ pc = "idle" /\ query' = q /\ pc' = "count"
        /\ UNCHANGED <<table, total, items, seen, old>>
    BY <1>3 DEF Lists!Ask
  <2>2. /\ q \in [filter : Statuses \cup {NoFilter}, asked : Asked, page : Nat]
        /\ q.filter = query.filter /\ q.asked = query.asked /\ q.page = query.page + 1
    BY <1>1 DEF WalkTypes
  <2>3. q.page > 0 /\ q.page - 1 = query.page
    BY <1>1, <2>2
  <2> HIDE DEF q
  <2>4. WalkTypes'
    BY <1>1, <2>1, <2>2, <2>3 DEF WalkTypes
  <2>5. query.filter = NoFilter => Walk(S, q, "count", total, items, seen, old)
    BY <1>1, <2>1, <2>2, <2>3 DEF Walk
  <2>6. QED
    BY <2>1, <2>2, <2>4, <2>5 DEF ListInv
<1>4. CASE Lists!Count
  <2> DEFINE n == Cardinality(Lists!Matching(table))
  <2>1. /\ pc = "count" /\ pc' = "select" /\ total' = n
        /\ UNCHANGED <<table, query, items, seen, old>>
    BY <1>4, ListsCount DEF Lists!Count, Lists!List
  <2>2. n \in Nat /\ (query.filter = NoFilter => n = Cardinality(S))
    BY <1>1, MatchingRows, RowsFinite
  <2> HIDE DEF n
  <2>3. WalkTypes'
    BY <1>1, <2>1, <2>2 DEF WalkTypes
  <2>4. query.filter = NoFilter => Walk(S, query, "select", n, items, seen, old)
    BY <1>1, <2>1, <2>2 DEF Walk
  <2>5. QED
    BY <2>1, <2>3, <2>4 DEF ListInv
<1>5. CASE Lists!Select
  <2> DEFINE rows == Lists!Page(Lists!Matching(table), SizeOf(query.asked),
                                Left(query.page - 1, query.asked))
  <2>1. /\ pc = "select" /\ pc' = "reply" /\ UNCHANGED <<table, query, total, old>>
        /\ query.page > 0
    BY <1>1, <1>5 DEF Lists!Select, WalkTypes
  <2>2. items' = rows /\ seen' = seen \cup rows
    <3> DEFINE q == Lists!Normalized(query.page, query.asked)
    <3>1. q.size = SizeOf(query.asked) /\ q.page = query.page
      BY <1>1, <2>1 DEF Lists!Normalized, SizeOf
    <3>2. Lists!Offset(q) = Left(query.page - 1, query.asked)
      BY <3>1 DEF Lists!Offset, Left
    <3>3. QED
      BY <1>5, <3>1, <3>2 DEF Lists!Select
  <2>3. Lists!Matching(table) \subseteq S
    BY MatchingRows
  <2>4. /\ SizeOf(query.asked) \in Nat /\ SizeOf(query.asked) <= MaxSize /\ MaxSize \in Nat
        /\ Left(query.page - 1, query.asked) \in Nat
    <3>1. query.page - 1 \in Nat
      BY <1>1, <2>1
    <3>2. QED
      BY <1>1, <3>1, PagesAddUp
  <2>5. rows \subseteq S /\ Cardinality(rows) <= MaxSize
    <3> DEFINE M == Lists!Matching(table)
    <3>1. M \subseteq Nat /\ IsFiniteSet(M)
      BY <1>1, <2>3, RowsFinite
    <3> DEFINE z == SizeOf(query.asked)
               off == Left(query.page - 1, query.asked)
               P == Lists!Page(M, z, off)
    <3>2. z \in Nat /\ off \in Nat
      BY <2>4
    <3> HIDE DEF M, z, off
    <3>3. /\ P \subseteq M /\ IsFiniteSet(P) /\ Cardinality(P) \in 0..z
          /\ Cardinality(P) >= IF Cardinality(M) - off < z THEN Cardinality(M) - off ELSE z
          /\ P = {} /\ z > 0 => \A k \in M : Lists!Before(M, k) < off
      BY <3>1, <3>2, PageHolds, Zenon
    <3>4. rows = P
      BY DEF M, z, off
    <3> HIDE DEF P, rows
    <3>5. rows \subseteq M /\ Cardinality(rows) \in 0..z
      BY <3>3, <3>4
    <3>6. QED
      BY <2>3, <2>4, <3>5 DEF M, z
  <2> HIDE DEF rows
  <2>6. WalkTypes'
    BY <1>1, <2>1, <2>2, <2>5 DEF WalkTypes
  <2>7. query.filter = NoFilter =>
           Walk(S, query, "reply", total, rows, seen \cup rows, old)
    <3>1. total \in Nat /\ old \subseteq S
      BY <1>1 DEF WalkTypes
    <3>2. SUFFICES ASSUME query.filter = NoFilter
                   PROVE  Walk(S, query, "reply", total, rows, seen \cup rows, old)
      OBVIOUS
    <3>3. Lists!Matching(table) = S
      BY <3>2, MatchingRows
    <3>4. Walk(S, query, "select", total, items, seen, old)
      BY <1>1, <2>1, <3>2
    <3> DEFINE P == Lists!Page(S, SizeOf(query.asked), Left(query.page - 1, query.asked))
    <3>5. Walk(S, query, "reply", total, P, seen \cup P, old)
      BY <1>1, <2>1, <3>1, <3>4, SelectWalk, Zenon
    <3>6. rows = P
      BY <3>3 DEF rows
    <3>7. QED
      BY <3>5, <3>6
  <2>8. QED
    BY <2>1, <2>2, <2>6, <2>7 DEF ListInv
<1>6. CASE Lists!Reply
  <2> DEFINE s == IF items = {} THEN "over" ELSE "idle"
  <2>1. pc = "reply" /\ pc' = s /\ UNCHANGED <<table, query, total, items, seen, old>>
    BY <1>6 DEF Lists!Reply
  <2>2. WalkTypes'
    BY <1>1, <2>1 DEF WalkTypes
  <2>3. query.filter = NoFilter => Walk(S, query, s, total, items, seen, old)
    BY <1>1, <2>1 DEF Walk
  <2> HIDE DEF s
  <2>4. QED
    BY <2>1, <2>2, <2>3 DEF ListInv
<1>7. CASE Lists!ListFails
  <2>1. /\ pc \in {"count", "select"} /\ pc' = "failed"
        /\ UNCHANGED <<table, query, total, items, seen, old>>
    BY <1>7 DEF Lists!ListFails, Lists!List
  <2>2. WalkTypes'
    BY <1>1, <2>1 DEF WalkTypes
  <2>3. Walk(S, query, "failed", total, items, seen, old)
    BY DEF Walk
  <2>4. QED
    BY <2>1, <2>2, <2>3 DEF ListInv
<1>8. ASSUME NEW T, T \subseteq Ranks, S \subseteq T, table' \in [T -> Statuses],
             UNCHANGED <<query, pc, total, items, seen>>,
             old' \subseteq S, query.filter = NoFilter => old' = old
      PROVE  ListInv'
  <2>1. DOMAIN table' = T
    BY <1>8
  <2>2. WalkTypes'
    BY <1>1, <1>8, <2>1 DEF WalkTypes
  <2>3. query.filter = NoFilter => Walk(T, query, pc, total, items, seen, old)
    BY <1>1, <1>8, WalkGrows DEF WalkTypes
  <2>4. QED
    BY <1>8, <2>1, <2>2, <2>3 DEF ListInv
<1>9. ASSUME NEW k \in Ranks, NEW st \in Statuses, Lists!Insert(k, st) PROVE ListInv'
  <2>1. /\ table' = [j \in S \cup {k} |-> IF j = k THEN st ELSE table[j]]
        /\ UNCHANGED <<query, pc, total, items, seen, old>>
    BY <1>9 DEF Lists!Insert
  <2>2. table' \in [S \cup {k} -> Statuses] /\ S \cup {k} \subseteq Ranks /\ old' \subseteq S
    BY <1>1, <2>1 DEF WalkTypes
  <2> HIDE DEF S
  <2>3. QED
    BY <1>8, <2>1, <2>2
<1>10. ASSUME NEW k \in DOMAIN table, NEW st \in Statuses, Lists!ChangeStatus(k, st) PROVE ListInv'
  <2>1. /\ table' = [table EXCEPT ![k] = st] /\ old' = old \cap Lists!Matching(table')
        /\ UNCHANGED <<query, pc, total, items, seen>>
    BY <1>10 DEF Lists!ChangeStatus
  <2>2. table' \in [S -> Statuses] /\ DOMAIN table' = S /\ old \subseteq S
    BY <1>1, <2>1 DEF WalkTypes
  <2>3. old' \subseteq S
    BY <2>1, <2>2
  <2>4. query.filter = NoFilter => old' = old
    BY <2>1, <2>2, MatchingRows
  <2> HIDE DEF S
  <2>5. QED
    BY <1>1, <1>8, <2>1, <2>2, <2>3, <2>4
<1>11. QED
  BY <1>2, <1>3, <1>4, <1>5, <1>6, <1>7, <1>9, <1>10 DEF Lists!Next

(* For tables and walks of any length: a client that asks for page after   *)
(* page without a filter meets every row that was there, and no page is    *)
(* shorter than the total beside it says (ListRuleSets, ListRuleVersions). *)
THEOREM WalksAreSound == Lists!Spec => []ListsSound
<1>1. ListInv => ListsSound
  <2> SUFFICES ASSUME ListInv, query.filter = NoFilter PROVE ListsSound
    BY DEF ListsSound, Lists!ListsSound, Lists!WalkSeesAll, Lists!PageNotShort
  <2>1. /\ Walk(DOMAIN table, query, pc, total, items, seen, old) /\ WalkTypes
        /\ query.asked \in Asked
    BY DEF ListInv, WalkTypes
  <2>2. Lists!WalkSeesAll
    BY <2>1 DEF Lists!WalkSeesAll, Walk
  <2>3. Lists!PageNotShort
    <3> DEFINE size == IF query.asked = 0 THEN DefaultSize
                       ELSE IF query.asked > MaxSize THEN MaxSize ELSE query.asked
               due == total - (query.page - 1) * size
    <3>1. SUFFICES ASSUME pc = "reply"
                   PROVE  Lists!Cardinality(items) >= IF due < size THEN due ELSE size
      BY DEF Lists!PageNotShort
    <3>2. query.asked \in Nat
      BY <2>1, ListAssumption DEF Lists!QueriesAssumption
    <3>3. size = SizeOf(query.asked)
      BY <3>2 DEF SizeOf
    <3> HIDE DEF size
    <3>4. due = total - Left(query.page - 1, query.asked)
      BY <3>3 DEF Left
    <3> HIDE DEF due
    <3>5. Cardinality(items) >= IF due < size THEN due ELSE size
      BY <2>1, <3>1, <3>3, <3>4 DEF Walk
    <3>6. QED
      BY <3>5, ListsCount
  <2>4. QED
    BY <2>2, <2>3 DEF ListsSound, Lists!ListsSound
<1>2. QED
  BY <1>1, ListInit, ListStep, PTL DEF Lists!Spec, listVars, Lists!vars
-----------------------------------------------------------------------------
(* The types and bounds of all three follow from their invariants: no loop *)
(* index leaves its range, no page exceeds MaxSize, and no call more than  *)
(* the configured number of attempts.                                      *)
THEOREM RequestsTyped == RequestsSpec => []RequestTypes
<1>1. EngineInv => Engine!EngineTypeOK
  <2> SUFFICES ASSUME EngineInv PROVE Engine!EngineTypeOK
    OBVIOUS
  <2>1. \A k \in DOMAIN results : results[k].res.matched \in 0..Len(batch[k].says)
    BY ResultsRight DEF RightFor
  <2>2. turn \in 0..(IF phase = "evaluate" THEN Len(batch[item].says) ELSE Engine!N) + 1
    BY DEF EngineInv, LoopTypes, BatchSound
  <2>3. QED
    BY <2>1, <2>2 DEF EngineInv, LoopTypes, Phases, Engine!EngineTypeOK
<1>2. ListInv => Lists!QueryTypeOK
  <2> SUFFICES ASSUME ListInv PROVE Lists!QueryTypeOK
    OBVIOUS
  <2>1. /\ DOMAIN table \subseteq Ranks /\ \A k \in DOMAIN table : table[k] \in Statuses
        /\ pc \in {"idle", "count", "select", "reply", "over", "failed"}
        /\ query.page \in Nat /\ total \in Nat /\ items \subseteq Ranks
        /\ seen \subseteq Ranks /\ old \subseteq seen \cup DOMAIN table
    BY DEF ListInv, WalkTypes
  <2>2. Lists!Cardinality(items) <= MaxSize
    BY ListsCount DEF ListInv, WalkTypes
  <2>3. QED
    BY <2>1, <2>2, Zenon DEF Lists!QueryTypeOK
<1>3. ClientInv => ClientTypeOK
  BY DEF ClientInv
<1>4. EngineInv /\ [Engine!Next]_(Engine!vars) => EngineInv'
  BY EngineSteps DEF Engine!vars, engineVars
<1>5. ListInv /\ [Lists!Next]_(Lists!vars) => ListInv'
  BY ListStep DEF Lists!vars, listVars
<1>6. Spec => []ClientTypeOK
  BY ClientTypes
<1>7. Engine!Spec => []Engine!EngineTypeOK
  BY EngineInit, <1>1, <1>4, PTL DEF Engine!Spec
<1>8. Lists!Spec => []Lists!QueryTypeOK
  BY ListInit, <1>2, <1>5, PTL DEF Lists!Spec
<1>9. QED
  BY <1>6, <1>7, <1>8, PTL DEF RequestsSpec, RequestTypes
=============================================================================
