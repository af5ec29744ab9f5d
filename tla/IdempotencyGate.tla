--------------------------- MODULE IdempotencyGate ---------------------------
(***************************************************************************)
(* The idempotency layer in front of the handlers: IdempotencyKey and      *)
(* IdempotencyExecution over HTTP, the interceptors over gRPC.  All        *)
(* replicas share one expiring record per key, kept by an external manager *)
(* over Redis (Begin, Complete, Fail).  A request is a goroutine of any    *)
(* replica; what it does behind the gate is Execute.                       *)
(***************************************************************************)
EXTENDS Naturals, FiniteSets

CONSTANTS
    Requests,   \* request goroutines; each one is also the owner token it draws
    Keys,       \* well-formed idempotency keys
    Messages,   \* what a client may send
    None,       \* no record, no request, no key
    BadKey      \* a key that Normalize refuses

ASSUME GateAssumption ==
    /\ None \notin Requests \cup Keys /\ BadKey \notin Keys /\ BadKey # None
    /\ Messages \subseteq [key : Keys \cup {None, BadKey}, subject : STRING,
                           path : STRING, body : STRING, covered : BOOLEAN]

VARIABLES
    rec,        \* the record of each key
    req,        \* the requests
    executions, \* history: how often the gate let a handler run for the key
    expiries,   \* history: how often the record of the key expired
    outlived    \* history: requests that ran on when their record expired

vars == <<rec, req, executions, expiries, outlived>>

(* Faulty: two users with the same body look alike.                        *)
FingerprintNoSubject(m) == <<m.path, m.body>>

(* subject, method, path and body; the method is always POST.              *)
Fingerprint(m) == <<m.subject, m.path, m.body>>

Settled == {"completed", "failed"}

Record ==
    [st : {"processing"} \cup Settled, msg : Messages, owner : Requests]

ASSUME RecordAssumption == None \notin Record

(* out is the answer, from the request whose execution produced it.        *)
Request ==
    [pc : {"new", "begin", "run", "persist", "done", "gone"},
     msg : Messages \cup {None}, gated : BOOLEAN,
     out : {"none", "ok", "error", "panic", "refused"},
     from : Requests \cup {None}]

Fresh == [pc |-> "new", msg |-> None, gated |-> FALSE, out |-> "none", from |-> None]

Init ==
    /\ rec = [k \in Keys |-> None]
    /\ req = [r \in Requests |-> Fresh]
    /\ executions = [k \in Keys |-> 0]
    /\ expiries = [k \in Keys |-> 0]
    /\ outlived = {}

Move(r, q) == req' = [req EXCEPT ![r] = q]

Refuse(r) == Move(r, [req[r] EXCEPT !.pc = "done", !.out = "refused"])

(* A malformed key is refused.  Without a key, or on a path the gate does  *)
(* not cover, the handler runs ungated.                                    *)
Arrive(r, m) ==
    /\ req[r].pc = "new"
    /\ \/ m.key = BadKey
          /\ Move(r, [Fresh EXCEPT !.pc = "done", !.msg = m, !.out = "refused"])
       \/ /\ m.key # BadKey
          /\ LET gated == m.key # None /\ m.covered
             IN  Move(r, [Fresh EXCEPT !.pc = IF gated THEN "begin" ELSE "run",
                                       !.msg = m, !.gated = gated])
    /\ UNCHANGED <<rec, executions, expiries, outlived>>

(* Faulty: a remembered failure is executed again under the old record.    *)
DecisionRetriesFailure(k, m) ==
    IF rec[k] = None \/ rec[k].st = "failed" THEN "acquired"
    ELSE IF Fingerprint(rec[k].msg) # Fingerprint(m) THEN "conflict"
    ELSE rec[k].st

(* The manager's Begin: the first request takes the record, the others get *)
(* its state.                                                              *)
Decision(k, m) ==
    IF rec[k] = None THEN "acquired"
    ELSE IF Fingerprint(rec[k].msg) # Fingerprint(m) THEN "conflict"
    ELSE rec[k].st

Take(r) ==
    rec' = [rec EXCEPT ![req[r].msg.key] =
               [st |-> "processing", msg |-> req[r].msg, owner |-> r]]

Run(r) ==
    /\ Move(r, [req[r] EXCEPT !.pc = "run"])
    /\ executions' = [executions EXCEPT ![req[r].msg.key] = @ + 1]

(* The stored answer, from the request that was executed.                  *)
Replay(r) ==
    LET k == req[r].msg.key
    IN  Move(r, [req[r] EXCEPT !.pc = "done", !.from = rec[k].owner,
                    !.out = IF rec[k].st = "completed" THEN "ok" ELSE "error"])

(* Faulty: without an answer of the manager the request goes on.           *)
BeginFailOpen(r) ==
    LET decision == Decision(req[r].msg.key, req[r].msg)
    IN  /\ req[r].pc = "begin"
        /\ \/ Run(r) /\ UNCHANGED rec
           \/ decision = "acquired" /\ Take(r) /\ Run(r)
           \/ decision \in Settled /\ Replay(r) /\ UNCHANGED <<rec, executions>>
        /\ UNCHANGED <<expiries, outlived>>

(* Refused: the body or the manager cannot be read, the key is taken, or   *)
(* the manager took the record for this request and its reply was lost.    *)
Begin(r) ==
    LET decision == Decision(req[r].msg.key, req[r].msg)
    IN  /\ req[r].pc = "begin"
        /\ \/ Refuse(r) /\ UNCHANGED <<rec, executions>>
           \/ decision = "acquired" /\ Take(r) /\ Refuse(r) /\ UNCHANGED executions
           \/ decision = "acquired" /\ Take(r) /\ Run(r)
           \/ decision \in Settled /\ Replay(r) /\ UNCHANGED <<rec, executions>>
        /\ UNCHANGED <<expiries, outlived>>

(* The handler answers, through the capture, or panics past the gate into  *)
(* Recovery; then nothing is persisted.                                    *)
Execute(r) ==
    /\ req[r].pc = "run"
    /\ \E out \in {"ok", "error", "panic"} :
          Move(r, [req[r] EXCEPT !.out = out, !.from = r,
                      !.pc = IF req[r].gated /\ out # "panic" THEN "persist" ELSE "done"])
    /\ UNCHANGED <<rec, executions, expiries, outlived>>

(* Faulty: the record is overwritten whoever owns it.                      *)
PersistAnyOwner(r) ==
    LET k == req[r].msg.key
    IN  /\ req[r].pc = "persist"
        /\ rec' = IF rec[k] = None THEN rec ELSE
                  [rec EXCEPT ![k].st = IF req[r].out = "ok" THEN "completed" ELSE "failed"]
        /\ Move(r, [req[r] EXCEPT !.pc = "done"])
        /\ UNCHANGED <<executions, expiries, outlived>>

(* Complete or Fail, for two seconds, whatever became of the caller's      *)
(* context.  The manager settles a record only for the owner Begin named.  *)
Persist(r) ==
    LET k == req[r].msg.key
    IN  /\ req[r].pc = "persist"
        /\ rec' = IF rec[k] # None /\ rec[k].owner = r
                  THEN [rec EXCEPT ![k].st = IF req[r].out = "ok" THEN "completed" ELSE "failed"]
                  ELSE rec
        /\ Move(r, [req[r] EXCEPT !.pc = "done"])
        /\ UNCHANGED <<executions, expiries, outlived>>

(* The result could not be stored: logged, and the client has its answer.  *)
PersistFails(r) ==
    /\ req[r].pc = "persist"
    /\ Move(r, [req[r] EXCEPT !.pc = "done"])
    /\ UNCHANGED <<rec, executions, expiries, outlived>>

(* The replica dies.                                                       *)
Crash(r) ==
    /\ req[r].pc \in {"begin", "run", "persist"}
    /\ Move(r, [req[r] EXCEPT !.pc = "gone"])
    /\ UNCHANGED <<rec, executions, expiries, outlived>>

Live(r) == req[r].pc \in {"run", "persist"}

(* Every record has a time to live: processing, result and failure TTL.    *)
(* Nothing bounds a request by the processing TTL, nor renews the record.  *)
Expire(k) ==
    /\ rec[k] # None
    /\ rec' = [rec EXCEPT ![k] = None]
    /\ expiries' = [expiries EXCEPT ![k] = @ + 1]
    /\ outlived' = outlived \cup {r \in Requests : r = rec[k].owner /\ Live(r)}
    /\ UNCHANGED <<req, executions>>

Step(r) == Begin(r) \/ Execute(r) \/ Persist(r) \/ PersistFails(r)

Next ==
    \/ \E r \in Requests : Step(r) \/ Crash(r) \/ \E m \in Messages : Arrive(r, m)
    \/ \E k \in Keys : Expire(k)

Spec == Init /\ [][Next]_vars
-----------------------------------------------------------------------------
(* Types of records, requests and histories.                               *)
GateTypeOK ==
    /\ rec \in [Keys -> Record \cup {None}]
    /\ req \in [Requests -> Request]
    /\ executions \in [Keys -> Nat]
    /\ expiries \in [Keys -> Nat]
    /\ outlived \subseteq Requests

(* The gate runs a handler for a key once per life of its record: a repeat *)
(* needs an expiry, whatever crashed, panicked or could not be persisted.  *)
AtMostOncePerRecord ==
    \A k \in Keys : executions[k] <= expiries[k] + 1

(* A stored result is the result of the execution that took the record;    *)
(* one that outlived its record cannot settle the record of a later one.   *)
SettledByOwner ==
    \A k \in Keys :
        rec[k] # None /\ rec[k].st \in Settled =>
            LET q == req[rec[k].owner]
            IN  q.pc = "done" /\ q.out = IF rec[k].st = "completed" THEN "ok" ELSE "error"

(* A replayed answer was given to the same request of the same subject, and*)
(* tells success exactly if that execution succeeded.                      *)
ReplayFaithful ==
    \A r \in Requests :
        LET q == req[r]
        IN  q.pc = "done" /\ q.from \notin {None, r} =>
                LET p == req[q.from]
                IN  /\ p.msg.key = q.msg.key /\ p.msg.path = q.msg.path
                    /\ p.msg.body = q.msg.body /\ p.msg.subject = q.msg.subject
                    /\ p.out = q.out

(* Two requests with one key run at the same time only if the record of    *)
(* one of them expired while it ran: refusals, lost replies, crashes,      *)
(* panics and lost results let nobody in beside an execution.              *)
NoOverlap ==
    \A r, s \in Requests :
        /\ Live(r) /\ Live(s) /\ req[r].gated /\ req[s].gated
        /\ req[r].msg.key = req[s].msg.key
        => r = s \/ r \in outlived \/ s \in outlived
=============================================================================
