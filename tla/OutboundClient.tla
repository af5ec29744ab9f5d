--------------------------- MODULE OutboundClient ---------------------------
(***************************************************************************)
(* One upstream of the outbound registry and the calls made to it at the   *)
(* same time: HTTPClient of internal/outbound/http.go, or the interceptor  *)
(* chain of internal/grpcclient/client.go.  In both a circuit breaker      *)
(* shared by all calls encloses the retry loop of each.  The breaker       *)
(* library (sony/gobreaker) and the upstream are external.                 *)
(***************************************************************************)
EXTENDS Naturals, FiniteSets

CONSTANTS
    Calls,
    MaxAttempts,  \* bound: the largest retry.max_attempts tried (the code allows 5)
    MaxThreshold  \* bound: the largest breaker.failure_threshold tried

ASSUME ClientAssumption == MaxAttempts \in Nat \ {0} /\ MaxThreshold \in Nat \ {0}

VARIABLES
    policy,   \* the validated configuration of the upstream, never changed
    call,     \* the progress of each call
    breaker,  \* the shared circuit breaker
    streak    \* history: failed calls in a row in the breaker's generation

vars == <<policy, call, breaker, streak>>

(* MaxAttempts = 1 is no retry; gRPC then has no retry interceptor at all. *)
Policy ==
    [transport : {"http", "grpc"}, attempts : 1..MaxAttempts,
     breaking : BOOLEAN, threshold : 1..MaxThreshold]

(* repeatable: a method retryableMethod names, or one that matches a       *)
(* configured pattern; keyed: the context carries an idempotency key.      *)
(* counts: its outcome still concerns the breaker's generation.  open:     *)
(* response bodies not closed; handed: the caller has a response.          *)
Call ==
    [pc : {"new", "ready", "sent", "wait", "done"}, repeatable : BOOLEAN,
     keyed : BOOLEAN, live : BOOLEAN, counts : BOOLEAN, attempt : 1..MaxAttempts,
     requests : {"none", "one", "many"}, keySent : BOOLEAN,
     open : 0..MaxAttempts, handed : BOOLEAN]

Breaker == [state : {"closed", "open", "half"}, failures : 0..MaxThreshold, probes : 0..1]

Fresh ==
    [pc : {"new"}, repeatable : BOOLEAN, keyed : BOOLEAN, live : {TRUE}, counts : {FALSE},
     attempt : {1}, requests : {"none"}, keySent : {FALSE}, open : {0}, handed : {FALSE}]

Init ==
    /\ policy \in Policy
    /\ call \in [Calls -> Fresh]
    /\ breaker = [state |-> "closed", failures |-> 0, probes |-> 0]
    /\ streak = 0

(* Faulty: every call may be sent again.                                   *)
AttemptsOfAny(c) == policy.attempts

(* retryableMethod, retryGRPCMethod                                        *)
Attempts(c) == IF call[c].repeatable \/ call[c].keyed THEN policy.attempts ELSE 1
-----------------------------------------------------------------------------
(* the circuit breaker (external): its outcomes, its generations           *)

NewGeneration(calls, state) ==
    /\ breaker' = [state |-> state, failures |-> 0, probes |-> 0]
    /\ call' = [c \in Calls |-> [calls[c] EXCEPT !.counts = FALSE]]

Same(calls, failures) ==
    /\ breaker' = [breaker EXCEPT !.failures = failures]
    /\ call' = calls

Failed(calls) ==
    IF breaker.state = "half" \/ breaker.failures + 1 >= policy.threshold
    THEN NewGeneration(calls, "open")
    ELSE Same(calls, breaker.failures + 1)

Succeeded(calls) ==
    IF breaker.state = "half" THEN NewGeneration(calls, "closed") ELSE Same(calls, 0)

(* An excluded outcome counts for nothing; whether a probe that ended so   *)
(* gives its place back is left open.                                      *)
Excluded(calls) ==
    /\ call' = calls
    /\ \/ UNCHANGED breaker
       \/ breaker' = [breaker EXCEPT !.probes = 0]

(* Faulty: a status is not an error, so the breaker sees a success.        *)
OutcomeOfErrors(a) == IF a \in {"lost", "late"} THEN "failure" ELSE "success"

(* The error the breaker is given.  HTTP: call() turns a retryable status  *)
(* into statusError; only a cancellation is excluded.  gRPC: everything    *)
(* but three codes is excluded, a call that succeeded among them if the    *)
(* library asks.                                                           *)
Outcome(a) ==
    IF a \in {"busy", "lost", "late"} THEN "failure"
    ELSE IF a \in {"cancelled", "unknown"} \/ (policy.transport = "grpc" /\ a = "final")
         THEN "excluded" ELSE "success"

(* The call ends with answer a.                                            *)
Finish(c, ended, a) ==
    LET calls == [call EXCEPT ![c] = ended]
        heard == policy.breaking /\ call[c].counts
    IN  IF ~heard THEN call' = calls /\ UNCHANGED <<breaker, streak>>
        ELSE /\ CASE Outcome(a) = "failure" -> Failed(calls)
                  [] Outcome(a) = "success" -> \/ Succeeded(calls)
                                               \/ policy.transport = "grpc" /\ Excluded(calls)
                  [] OTHER -> Excluded(calls)
             /\ streak' = IF breaker'.state # breaker.state \/ a \in {"ok", "final"} THEN 0
                          ELSE IF a \in {"busy", "lost", "late"} THEN streak + 1 ELSE streak

(* beforeRequest, with MaxRequests at its default of one.                  *)
Admits == breaker.state = "closed" \/ (breaker.state = "half" /\ breaker.probes = 0)

OpenTimeout ==
    /\ breaker.state = "open"
    /\ NewGeneration(call, "half")
    /\ streak' = 0
    /\ UNCHANGED policy
-----------------------------------------------------------------------------
(* execute and doWithRetry; breakerInterceptor and retryInterceptor        *)

Start(c) ==
    /\ call[c].pc = "new" /\ (policy.breaking => Admits)
    /\ call' = [call EXCEPT ![c].pc = "ready", ![c].counts = TRUE]
    /\ breaker' = [breaker EXCEPT !.probes = IF breaker.state = "half" THEN 1 ELSE 0]
    /\ UNCHANGED <<policy, streak>>

Refused(c) ==
    /\ call[c].pc = "new" /\ policy.breaking /\ ~Admits
    /\ call' = [call EXCEPT ![c].pc = "done"]
    /\ UNCHANGED <<policy, breaker, streak>>

(* Faulty: the key stays in the context of the caller.                     *)
KeyOnWireNever(c) == FALSE

(* metadataInterceptor stands before the retry and puts the key on every   *)
(* attempt; the HTTP client sends the headers of its caller only.          *)
KeyOnWire(c) == policy.transport = "grpc" /\ call[c].keyed

Send(c) ==
    /\ call[c].pc = "ready" /\ call[c].live
    /\ call' = [call EXCEPT ![c].pc = "sent", ![c].keySent = KeyOnWire(c),
                            ![c].requests = IF @ = "none" THEN "one" ELSE "many"]
    /\ UNCHANGED <<policy, breaker, streak>>

(* The caller cancels, or its deadline passes.                             *)
Abandon(c) ==
    /\ call[c].pc \in {"ready", "sent", "wait"} /\ call[c].live
    /\ call' = [call EXCEPT ![c].live = FALSE]
    /\ UNCHANGED <<policy, breaker, streak>>

HasBody(a) == policy.transport = "http" /\ a \in {"ok", "final", "busy"}

RetryableAnswer(a) ==
    a \in {"busy", "lost"} \/ (policy.transport = "http" /\ a \in {"late", "cancelled"})

(* Faulty: the body of an answer that is not used stays open.              *)
AgainWithoutClose(c, a) ==
    /\ RetryableAnswer(a) /\ call[c].attempt < Attempts(c)
    /\ call' = [call EXCEPT ![c].pc = "wait", ![c].open = IF HasBody(a) THEN @ + 1 ELSE @]
    /\ UNCHANGED <<breaker, streak>>

(* The answer is drained and closed, then waitBackoff.                     *)
Again(c, a) ==
    /\ RetryableAnswer(a) /\ call[c].attempt < Attempts(c)
    /\ call' = [call EXCEPT ![c].pc = "wait"]
    /\ UNCHANGED <<breaker, streak>>

(* The last answer goes to the caller, a retryable status as a response.   *)
Return(c, a) ==
    /\ ~(RetryableAnswer(a) /\ call[c].attempt < Attempts(c))
    /\ Finish(c, [call[c] EXCEPT !.pc = "done", !.handed = HasBody(a),
                                 !.open = IF HasBody(a) THEN @ + 1 ELSE @], a)

Answer(c, a) ==
    /\ call[c].pc = "sent" /\ (a = "cancelled" => ~call[c].live)
    /\ Again(c, a) \/ Return(c, a)
    /\ UNCHANGED policy

(* With its context ended the client sends nothing.                        *)
NotSent(c, a) ==
    /\ call[c].pc = "ready" /\ ~call[c].live
    /\ Again(c, a) \/ Return(c, a)
    /\ UNCHANGED policy

(* Faulty: the attempt is not counted.                                     *)
BackoffOverUncounted(c) ==
    /\ call[c].pc = "wait"
    /\ call' = [call EXCEPT ![c].pc = "ready"]
    /\ UNCHANGED <<policy, breaker, streak>>

BackoffOver(c) ==
    /\ call[c].pc = "wait"
    /\ call' = [call EXCEPT ![c].pc = "ready", ![c].attempt = @ + 1]
    /\ UNCHANGED <<policy, breaker, streak>>

(* waitBackoff and waitRetry return the error of the context, which gRPC   *)
(* reads as the code Unknown.                                              *)
BackoffAbandoned(c, a) ==
    /\ call[c].pc = "wait" /\ ~call[c].live
    /\ Finish(c, [call[c] EXCEPT !.pc = "done"],
              IF policy.transport = "http" THEN a ELSE "unknown")
    /\ UNCHANGED policy

(* final: an answer that is not retried; lost: no answer; late: a timeout. *)
Answers == {"ok", "final", "busy", "lost", "late", "cancelled"}

Progress(c) ==
    \/ Send(c) \/ BackoffOver(c)
    \/ \E a \in Answers : Answer(c, a)
    \/ \E a \in {"cancelled", "late"} : NotSent(c, a) \/ BackoffAbandoned(c, a)

(* The caller has its answer and makes another call.                       *)
CallAgain(c) ==
    /\ call[c].pc = "done"
    /\ \E f \in Fresh : call' = [call EXCEPT ![c] = f]
    /\ UNCHANGED <<policy, breaker, streak>>

Next == OpenTimeout \/ (\E c \in Calls : Start(c) \/ Refused(c) \/ Progress(c) \/ Abandon(c) \/ CallAgain(c))

Spec == Init /\ [][Next]_vars

(* An attempt ends by its timeout at the latest, a backoff by its timer.   *)
FairSpec == Spec /\ \A c \in Calls : WF_vars(Progress(c))
-----------------------------------------------------------------------------
(* properties                                                              *)

(* The type invariant.                                                     *)
ClientTypeOK ==
    /\ policy \in Policy
    /\ call \in [Calls -> Call]
    /\ breaker \in Breaker
    /\ streak \in 0..MaxThreshold

(* A call that is neither repeatable nor keyed reaches the upstream at     *)
(* most once, however it fails: retryableMethod and retryGRPCMethod.       *)
WriteSentOnce ==
    \A c \in Calls : call[c].requests = "many" => call[c].repeatable \/ call[c].keyed

(* A gRPC upstream that sees a write twice also sees the key by which it   *)
(* can tell: the key goes out with every attempt.                          *)
ResentWithKey ==
    \A c \in Calls :
        policy.transport = "grpc" /\ call[c].requests = "many" /\ ~call[c].repeatable
            => call[c].keySent

(* http_test.go:22, "idempotent POST is retried": a write that is sent     *)
(* again because of its key is idempotent, that is, carries its key.       *)
RetriedWriteIsIdempotent ==
    \A c \in Calls :
        call[c].requests = "many" /\ ~call[c].repeatable => call[c].keySent

(* Every response body is closed by the retry loop or belongs to the       *)
(* caller, who gets one at most: statusError carries it past the breaker.  *)
BodiesAccounted ==
    \A c \in Calls : call[c].open = (IF call[c].handed THEN 1 ELSE 0)

(* Failed calls in a row, answered with a retryable status or not at all,  *)
(* open the breaker at its threshold, whatever other calls are in flight.  *)
TripsOnFailures ==
    policy.breaking /\ breaker.state = "closed" => streak < policy.threshold

(* Retry loop and breaker together, whatever the upstream answers: who is  *)
(* sent again, with what, which bodies stay open and when the breaker trips.*)
ClientSound ==
    /\ WriteSentOnce
    /\ ResentWithKey
    /\ BodiesAccounted
    /\ TripsOnFailures

(* Every call that has started ends, whatever the upstream and the breaker *)
(* do: the attempts are bounded, and doWithRetry never waits for another.  *)
CallsEnd == \A c \in Calls : call[c].pc # "new" ~> call[c].pc = "done"
=============================================================================
