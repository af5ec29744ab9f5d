----------------------- MODULE IdempotencyGateProofs -----------------------
(***************************************************************************)
(* Proofs about IdempotencyGate, for any number of requests, keys and      *)
(* messages.                                                               *)
(***************************************************************************)
EXTENDS IdempotencyGate, TLAPS

GateTypes ==
    /\ rec \in [Keys -> Record \cup {None}]
    /\ req \in [Requests -> Request]
    /\ executions \in [Keys -> Nat]
    /\ expiries \in [Keys -> Nat]
    /\ outlived \subseteq Requests

(* Every execution the gate admitted has had its record expire, but for    *)
(* the one whose record is there; a lost reply leaves one without.         *)
Counted ==
    \A k \in Keys :
        executions[k] <= expiries[k] + (IF rec[k] = None THEN 0 ELSE 1)

(* What is known of a request at each of its steps.                        *)
Known(r) ==
    LET q == req[r]
    IN  /\ q.pc \in {"new", "begin", "run"} => q.from = None
        /\ q.pc # "new" => q.msg \in Messages
        /\ q.pc = "begin" => q.gated
        /\ q.pc = "persist" => q.gated /\ q.out \in {"ok", "error"} /\ q.from = r
        /\ q.gated => q.msg \in Messages /\ q.msg.key \in Keys

AllKnown == \A r \in Requests : Known(r)

(* The owner of a record is past the gate, with the message of the record. *)
Owned ==
    \A k \in Keys : rec[k] # None =>
        LET q == req[rec[k].owner]
        IN  /\ q.pc \notin {"new", "begin"}
            /\ q.msg = rec[k].msg
            /\ rec[k].msg.key = k

(* ReplayFaithful, and the execution that is replayed has ended.           *)
Replayed(r) ==
    LET q == req[r]
    IN  q.pc = "done" /\ q.from \notin {None, r} =>
            LET p == req[q.from]
            IN  /\ p.pc = "done"
                /\ p.msg.key = q.msg.key /\ p.msg.path = q.msg.path
                /\ p.msg.body = q.msg.body /\ p.msg.subject = q.msg.subject
                /\ p.out = q.out

AllReplayed == \A r \in Requests : Replayed(r)

(* Whoever runs and was not outlasted by its record still has it.          *)
Holds(r) ==
    Live(r) /\ req[r].gated /\ r \notin outlived =>
        LET k == req[r].msg.key
        IN  rec[k] # None /\ rec[k].owner = r /\ rec[k].st = "processing"

AllHold == \A r \in Requests : Holds(r)

GateInv ==
    /\ GateTypes
    /\ Counted
    /\ AllKnown
    /\ Owned
    /\ SettledByOwner
    /\ AllReplayed
    /\ AllHold
-----------------------------------------------------------------------------
LEMMA InitGateInv == Init => GateInv
<1> SUFFICES ASSUME Init PROVE GateInv
  OBVIOUS
<1>1. GateTypes
  BY DEF Init, GateTypes, Request, Fresh
<1>2. Counted /\ Owned /\ SettledByOwner
  BY DEF Init, Counted, Owned, SettledByOwner
<1>3. AllKnown /\ AllReplayed /\ AllHold
  BY DEF Init, Fresh, AllKnown, Known, AllReplayed, Replayed, AllHold, Holds, Live
<1>4. QED
  BY <1>1, <1>2, <1>3 DEF GateInv

(* What a stored record and a request are made of.                         *)
LEMMA Parts ==
    ASSUME GateInv
    PROVE  /\ \A k \in Keys : rec[k] # None =>
                 /\ rec[k] \in Record
                 /\ rec[k].owner \in Requests /\ rec[k].msg \in Messages
                 /\ rec[k].st \in {"processing"} \cup Settled
           /\ \A r \in Requests : req[r] \in Request
BY DEF GateInv, GateTypes, Record

(* A request that has ended takes no step, so whatever refers to ended     *)
(* requests survives the steps of the others.                              *)
LEMMA RepliesStay ==
    ASSUME GateInv, NEW r \in Requests, NEW q \in Request,
           Move(r, q), req[r].pc # "done",
           Replayed(r)'
    PROVE  AllReplayed'
<1> SUFFICES ASSUME NEW s \in Requests PROVE Replayed(s)'
  BY DEF AllReplayed
<1>1. CASE s = r
  BY <1>1
<1>2. CASE s # r
  <2>1. req'[s] = req[s]
    BY <1>2 DEF Move, GateInv, GateTypes
  <2>2. SUFFICES ASSUME req[s].pc = "done", req[s].from \notin {None, s}
                 PROVE  req'[req[s].from] = req[req[s].from]
    BY <2>1 DEF Replayed, GateInv, AllReplayed
  <2>3. req[s].from \in Requests /\ req[req[s].from].pc = "done"
    BY <2>2 DEF GateInv, GateTypes, Request, AllReplayed, Replayed
  <2>4. QED
    BY <2>3 DEF Move, GateInv, GateTypes
<1>3. QED
  BY <1>1, <1>2

(* A step of a request that leaves the records alone, keeps its message    *)
(* once it is past the gate, and does not start to run a gated one.        *)
LEMMA QuietStep ==
    ASSUME GateInv, NEW r \in Requests, NEW q \in Request,
           UNCHANGED <<rec, executions, expiries, outlived>>,
           Move(r, q), req[r].pc # "done",
           Known(r)', Replayed(r)',
           req[r].pc \notin {"new", "begin"} =>
               q.pc \notin {"new", "begin"} /\ q.msg = req[r].msg,
           q.pc \in {"run", "persist"} /\ q.gated =>
               Live(r) /\ req[r].gated /\ q.msg = req[r].msg
    PROVE  GateInv'
<1>1. GateTypes'
  BY DEF GateInv, GateTypes, Move
<1>2. req'[r] = q /\ \A s \in Requests : s # r => req'[s] = req[s]
  BY DEF GateInv, GateTypes, Move
<1>3. Counted'
  BY DEF GateInv, Counted
<1>4. AllKnown'
  BY <1>2 DEF GateInv, AllKnown, Known
<1>5. Owned'
  BY <1>2, Parts DEF GateInv, Owned
<1>6. SettledByOwner'
  <2> SUFFICES ASSUME NEW k \in Keys, rec[k] # None, rec[k].st \in Settled
               PROVE  req'[rec[k].owner] = req[rec[k].owner]
    BY DEF GateInv, SettledByOwner
  <2>1. req[rec[k].owner].pc = "done" /\ rec[k].owner \in Requests
    BY Parts DEF GateInv, SettledByOwner
  <2>2. QED
    BY <1>2, <2>1
<1>7. AllReplayed'
  BY RepliesStay
<1>8. AllHold'
  <2> SUFFICES ASSUME NEW s \in Requests, Live(s)', req'[s].gated
               PROVE  /\ Live(s) /\ req[s].gated
                      /\ req'[s].msg = req[s].msg
    BY DEF GateInv, AllHold, Holds
  <2>1. QED
    BY <1>2 DEF Live
<1>9. QED
  BY <1>1, <1>3, <1>4, <1>5, <1>6, <1>7, <1>8 DEF GateInv
-----------------------------------------------------------------------------
(* Each step preserves the invariant *)

LEMMA ArriveInv ==
    ASSUME GateInv, NEW r \in Requests, NEW m \in Messages, Arrive(r, m)
    PROVE  GateInv'
<1> DEFINE gated == m.key # None /\ m.covered
           refused == [Fresh EXCEPT !.pc = "done", !.msg = m, !.out = "refused"]
           taken == [Fresh EXCEPT !.pc = IF gated THEN "begin" ELSE "run",
                                  !.msg = m, !.gated = gated]
<1>0. m.key \in Keys \cup {None, BadKey} /\ m.covered \in BOOLEAN /\ gated \in BOOLEAN
  BY GateAssumption
<1>1. refused \in Request /\ taken \in Request
  BY <1>0 DEF Fresh, Request
<1>2. req[r].pc = "new" /\ UNCHANGED <<rec, executions, expiries, outlived>>
  BY DEF Arrive
<1>3. CASE m.key = BadKey
  <2>1. Move(r, refused)
    BY <1>3 DEF Arrive
  <2>2. req'[r] = refused
    BY <2>1 DEF Move, GateInv, GateTypes
  <2>3. Known(r)' /\ Replayed(r)'
    BY <2>2 DEF Known, Replayed, Fresh
  <2>4. QED
    BY <1>1, <1>2, <2>1, <2>3, QuietStep DEF Fresh
<1>4. CASE m.key # BadKey
  <2>1. Move(r, taken)
    BY <1>4 DEF Arrive
  <2>2. req'[r] = taken
    BY <2>1 DEF Move, GateInv, GateTypes
  <2>3. Known(r)' /\ Replayed(r)'
    <3>1. /\ taken.msg = m /\ taken.from = None
          /\ gated => taken.gated /\ taken.pc = "begin" /\ m.key \in Keys
          /\ ~gated => ~taken.gated /\ taken.pc = "run"
      BY <1>0, <1>4 DEF Fresh
    <3> HIDE DEF taken, gated
    <3>2. QED
      BY <2>2, <3>1 DEF Known, Replayed
  <2>4. ~(taken.pc \in {"run", "persist"} /\ taken.gated)
    BY DEF Fresh
  <2>5. QED
    BY <1>1, <1>2, <2>1, <2>3, <2>4, QuietStep DEF Fresh
<1>5. QED
  BY <1>3, <1>4

LEMMA ExecuteInv ==
    ASSUME GateInv, NEW r \in Requests, Execute(r)
    PROVE  GateInv'
<1>1. PICK out \in {"ok", "error", "panic"} :
         Move(r, [req[r] EXCEPT !.out = out, !.from = r,
                     !.pc = IF req[r].gated /\ out # "panic" THEN "persist" ELSE "done"])
  BY DEF Execute
<1> DEFINE q == [req[r] EXCEPT !.out = out, !.from = r,
                    !.pc = IF req[r].gated /\ out # "panic" THEN "persist" ELSE "done"]
<1>2. q \in Request
  BY Parts DEF Request
<1>3. req'[r] = q
  BY <1>1 DEF Move, GateInv, GateTypes
<1>4. req[r].pc = "run" /\ UNCHANGED <<rec, executions, expiries, outlived>>
  BY DEF Execute
<1>5. Known(r)' /\ Replayed(r)'
  BY <1>3, <1>4, Parts DEF GateInv, AllKnown, Known, Replayed, Request
<1>6. /\ q.pc \notin {"new", "begin"} /\ q.msg = req[r].msg /\ q.gated = req[r].gated
  BY Parts DEF Request
<1>7. QED
  BY <1>1, <1>2, <1>4, <1>5, <1>6, QuietStep DEF Live

(* The ends that store nothing: a result that is lost, and a crash.        *)
LEMMA EndInv ==
    ASSUME GateInv, NEW r \in Requests, PersistFails(r) \/ Crash(r)
    PROVE  GateInv'
<1>1. PICK end \in {"done", "gone"} :
         /\ Move(r, [req[r] EXCEPT !.pc = end])
         /\ end = "done" => req[r].pc = "persist"
  BY DEF PersistFails, Crash
<1> DEFINE q == [req[r] EXCEPT !.pc = end]
<1>2. q \in Request
  BY Parts DEF Request
<1>3. req'[r] = q
  BY <1>1 DEF Move, GateInv, GateTypes
<1>4. /\ req[r].pc \in {"begin", "run", "persist"}
      /\ UNCHANGED <<rec, executions, expiries, outlived>>
  BY DEF PersistFails, Crash
<1>5. Known(r)' /\ Replayed(r)'
  BY <1>1, <1>3, <1>4, Parts DEF GateInv, AllKnown, Known, Replayed, Request
<1>6. q.pc \in {"done", "gone"} /\ q.msg = req[r].msg
  BY Parts DEF Request
<1>7. QED
  BY <1>1, <1>2, <1>4, <1>5, <1>6, QuietStep

(* The free record of its key is taken for a request that runs, or whose   *)
(* reply was lost.                                                         *)
LEMMA TakeInv ==
    ASSUME GateInv, NEW r \in Requests, NEW q \in Request,
           req[r].pc = "begin", rec[req[r].msg.key] = None,
           Take(r), Move(r, q), UNCHANGED <<expiries, outlived>>,
           q.pc \in {"run", "done"}, q.from = None,
           q.msg = req[r].msg, q.gated = req[r].gated,
           \/ executions' = [executions EXCEPT ![req[r].msg.key] = @ + 1]
           \/ UNCHANGED executions
    PROVE  GateInv'
<1> DEFINE m == req[r].msg
           k == m.key
           new == [st |-> "processing", msg |-> m, owner |-> r]
<1>1. m \in Messages /\ k \in Keys /\ req[r].gated
  BY DEF GateInv, AllKnown, Known
<1>2. new \in Record /\ new # None
  BY <1>1, Parts, RecordAssumption DEF Record
<1>3. /\ req'[r] = q /\ \A s \in Requests : s # r => req'[s] = req[s]
      /\ rec'[k] = new /\ \A j \in Keys : j # k => rec'[j] = rec[j]
      /\ rec[k] = None
  BY <1>1 DEF Take, Move, GateInv, GateTypes
<1>4. q.pc \in {"run", "done"} /\ q.msg = m /\ q.gated /\ q.from = None
  BY <1>1
<1>5. GateTypes'
  BY <1>1, <1>2 DEF Take, Move, GateInv, GateTypes
<1>6. Counted'
  <2> SUFFICES ASSUME NEW j \in Keys
               PROVE  executions'[j] <= expiries'[j] + (IF rec'[j] = None THEN 0 ELSE 1)
    BY DEF Counted
  <2>1. /\ executions[j] \in Nat /\ expiries[j] \in Nat /\ expiries'[j] = expiries[j]
        /\ executions[j] <= expiries[j] + (IF rec[j] = None THEN 0 ELSE 1)
    BY DEF GateInv, GateTypes, Counted
  <2>2. executions'[j] \in {executions[j], IF j = k THEN executions[j] + 1 ELSE executions[j]}
    BY DEF GateInv, GateTypes
  <2>3. QED
    BY <1>2, <1>3, <2>1, <2>2
<1> HIDE DEF new, k, m
<1>7. AllKnown'
  BY <1>1, <1>3, <1>4 DEF GateInv, AllKnown, Known, k, m
<1>8. Owned'
  <2> SUFFICES ASSUME NEW j \in Keys, rec'[j] # None
               PROVE  /\ req'[rec'[j].owner].pc \notin {"new", "begin"}
                      /\ req'[rec'[j].owner].msg = rec'[j].msg
                      /\ rec'[j].msg.key = j
    BY DEF Owned
  <2>1. CASE j = k
    BY <1>1, <1>3, <1>4, <2>1 DEF new, k
  <2>2. CASE j # k
    <3>1. rec'[j] = rec[j] /\ rec[j].owner \in Requests /\ rec[j].owner # r
      BY <1>3, <2>2, Parts DEF GateInv, Owned
    <3>2. QED
      BY <1>3, <2>2, <3>1 DEF GateInv, Owned
  <2>3. QED
    BY <2>1, <2>2
<1>9. SettledByOwner'
  <2> SUFFICES ASSUME NEW j \in Keys, rec'[j] # None, rec'[j].st \in Settled
               PROVE  /\ rec'[j] = rec[j] /\ rec[j].owner \in Requests
                      /\ req'[rec[j].owner] = req[rec[j].owner]
    BY DEF GateInv, SettledByOwner
  <2>1. j # k
    BY <1>3 DEF Settled, new
  <2>2. QED
    BY <1>3, <2>1, Parts DEF GateInv, SettledByOwner
<1>10. AllReplayed'
  <2>1. Replayed(r)'
    BY <1>3, <1>4 DEF Replayed
  <2>2. QED
    BY <2>1, RepliesStay
<1>11. AllHold'
  <2> SUFFICES ASSUME NEW s \in Requests, Live(s)', req'[s].gated, s \notin outlived'
               PROVE  /\ rec'[req'[s].msg.key] # None
                      /\ rec'[req'[s].msg.key].owner = s
                      /\ rec'[req'[s].msg.key].st = "processing"
    BY DEF AllHold, Holds
  <2>1. CASE s = r
    BY <1>2, <1>3, <1>4, <2>1 DEF new, k
  <2>2. CASE s # r
    <3>1. Live(s) /\ req[s].gated /\ req'[s] = req[s] /\ req[s].msg.key \in Keys
      BY <1>3, <2>2 DEF Live, GateInv, AllKnown, Known
    <3>2. Holds(s)
      BY DEF GateInv, AllHold
    <3>3. req[s].msg.key # k
      BY <1>3, <3>1, <3>2 DEF Holds
    <3>4. QED
      BY <1>3, <3>1, <3>2, <3>3 DEF Holds
  <2>3. QED
    BY <2>1, <2>2
<1>12. QED
  BY <1>5, <1>6, <1>7, <1>8, <1>9, <1>10, <1>11 DEF GateInv

(* A refusal, or the replay of a settled record of the same message.       *)
LEMMA BeginInv ==
    ASSUME GateInv, NEW r \in Requests, Begin(r)
    PROVE  GateInv'
<1> DEFINE m == req[r].msg
           k == m.key
           refused == [req[r] EXCEPT !.pc = "done", !.out = "refused"]
           replay == [req[r] EXCEPT !.pc = "done", !.from = rec[k].owner,
                          !.out = IF rec[k].st = "completed" THEN "ok" ELSE "error"]
<1>1. /\ req[r].pc = "begin" /\ req[r].from = None
      /\ m \in Messages /\ k \in Keys
  BY DEF Begin, GateInv, AllKnown, Known
<1>0. refused \in Request /\ refused.pc = "done" /\ refused.from = None
      /\ refused.msg = m /\ refused.gated = req[r].gated
  BY <1>1, Parts DEF Request
<1>2. CASE Decision(k, m) = "acquired" /\ Take(r) /\ Run(r)
  <2> DEFINE q == [req[r] EXCEPT !.pc = "run"]
  <2>1. rec[k] = None
    BY <1>1, <1>2, Parts DEF Decision, Record, Settled
  <2>2. q \in Request /\ q.pc = "run" /\ q.from = None /\ q.msg = m /\ q.gated = req[r].gated
    BY <1>1, Parts DEF Request
  <2>3. Move(r, q) /\ executions' = [executions EXCEPT ![k] = @ + 1]
    BY <1>2 DEF Run
  <2> HIDE DEF q
  <2>4. QED
    BY <1>1, <1>2, <2>1, <2>2, <2>3, TakeInv DEF Begin
<1>6. CASE Decision(k, m) = "acquired" /\ Take(r) /\ Refuse(r) /\ UNCHANGED executions
  <2>1. rec[k] = None
    BY <1>1, <1>6, Parts DEF Decision, Record, Settled
  <2>2. Move(r, refused)
    BY <1>6 DEF Refuse
  <2> HIDE DEF refused
  <2>3. QED
    BY <1>0, <1>1, <1>6, <2>1, <2>2, TakeInv DEF Begin
<1>3. CASE UNCHANGED <<rec, executions>> /\ Refuse(r)
  <2>1. req'[r] = refused
    BY <1>3 DEF Refuse, Move, GateInv, GateTypes
  <2>2. refused \in Request /\ refused.pc = "done" /\ refused.from = None /\ refused.msg = m
    BY <1>0
  <2>3. refused.gated = req[r].gated
    BY <1>0
  <2>4. Known(r)' /\ Replayed(r)'
    <3> HIDE DEF refused
    <3>1. QED
      BY <1>1, <2>1, <2>2, <2>3 DEF Known, Replayed, GateInv, AllKnown
  <2>5. QED
    BY <1>1, <1>3, <2>1, <2>2, <2>4, QuietStep DEF Begin, Refuse
<1>4. CASE /\ UNCHANGED <<rec, executions>> /\ Replay(r)
           /\ Decision(k, m) \in Settled
  <2>1. rec[k] # None /\ rec[k].st \in Settled /\ Fingerprint(rec[k].msg) = Fingerprint(m)
    BY <1>4 DEF Decision, Settled
  <2> DEFINE p == rec[k].owner
  <2>2. /\ p \in Requests /\ p # r
        /\ req[p].pc = "done" /\ req[p].msg = rec[k].msg /\ rec[k].msg.key = k
        /\ req[p].out = IF rec[k].st = "completed" THEN "ok" ELSE "error"
    BY <1>1, <2>1, Parts DEF GateInv, Owned, SettledByOwner
  <2>3. replay \in Request /\ req'[r] = replay /\ req'[p] = req[p]
    BY <1>4, <2>2, Parts DEF Request, Replay, Move, GateInv, GateTypes
  <2>4. /\ replay.pc = "done" /\ replay.from = p /\ replay.msg = m
        /\ replay.out = req[p].out /\ replay.gated = req[r].gated
    BY <2>2, Parts DEF Request
  <2>5. /\ rec[k].msg.path = m.path /\ rec[k].msg.body = m.body
        /\ rec[k].msg.subject = m.subject
    BY <2>1 DEF Fingerprint
  <2>6. Known(r)' /\ Replayed(r)'
    <3> HIDE DEF replay, p
    <3>1. Known(r)'
      BY <1>1, <2>3, <2>4 DEF Known, GateInv, AllKnown
    <3>2. Replayed(r)'
      BY <2>2, <2>3, <2>4, <2>5 DEF Replayed, k
    <3>3. QED
      BY <3>1, <3>2
  <2>7. QED
    BY <1>1, <1>4, <2>3, <2>4, <2>6, QuietStep DEF Begin, Replay
<1>5. QED
  BY <1>2, <1>3, <1>4, <1>6 DEF Begin

LEMMA PersistInv ==
    ASSUME GateInv, NEW r \in Requests, Persist(r)
    PROVE  GateInv'
<1> DEFINE k == req[r].msg.key
           q == [req[r] EXCEPT !.pc = "done"]
           st == IF req[r].out = "ok" THEN "completed" ELSE "failed"
<1>1. /\ req[r].pc = "persist" /\ req[r].out \in {"ok", "error"} /\ k \in Keys
      /\ req[r].gated /\ req[r].from = r /\ req[r].msg \in Messages
  BY DEF Persist, GateInv, AllKnown, Known
<1>2. /\ q \in Request /\ q.pc = "done" /\ q.out = req[r].out /\ q.from = r
      /\ q.msg = req[r].msg /\ q.gated
  BY <1>1, Parts DEF Request
<1>3. /\ Move(r, q) /\ req'[r] = q /\ \A s \in Requests : s # r => req'[s] = req[s]
      /\ UNCHANGED <<executions, expiries, outlived>>
  BY DEF Persist, Move, GateInv, GateTypes
<1>4. Known(r)' /\ Replayed(r)'
  <2> HIDE DEF q
  <2>1. QED
    BY <1>1, <1>2, <1>3 DEF Known, Replayed, GateInv, AllKnown
<1>5. CASE UNCHANGED rec
  <2> HIDE DEF q
  <2>1. QED
    BY <1>1, <1>2, <1>3, <1>4, <1>5, QuietStep
<1>6. CASE /\ rec[k] # None /\ rec[k].owner = r
           /\ rec' = [rec EXCEPT ![k].st = st]
  <2>1. /\ rec'[k] \in Record /\ rec'[k] # None
        /\ rec'[k].msg = rec[k].msg /\ rec'[k].owner = r /\ rec'[k].st = st
        /\ \A j \in Keys : j # k => rec'[j] = rec[j]
    BY <1>1, <1>6, Parts, RecordAssumption DEF Record, Settled, GateInv, GateTypes
  <2>2. rec' \in [Keys -> Record \cup {None}]
    BY <1>1, <1>6, <2>1 DEF GateInv, GateTypes
  <2>3. st \in Settled /\ (st = "completed" <=> q.out = "ok")
    BY <1>2 DEF Settled
  <2> HIDE DEF q, k, st
  <2>4. GateTypes'
    BY <1>2, <1>3, <2>2 DEF GateInv, GateTypes, Move
  <2>5. Counted'
    BY <1>1, <1>3, <1>6, <2>1 DEF GateInv, Counted
  <2>6. AllKnown'
    BY <1>3, <1>4 DEF GateInv, AllKnown, Known
  <2>7. Owned'
    <3> SUFFICES ASSUME NEW j \in Keys, rec'[j] # None
                 PROVE  /\ req'[rec'[j].owner].pc \notin {"new", "begin"}
                        /\ req'[rec'[j].owner].msg = rec'[j].msg
                        /\ rec'[j].msg.key = j
      BY DEF Owned
    <3>1. /\ rec[j] # None /\ rec'[j].owner = rec[j].owner /\ rec'[j].msg = rec[j].msg
      BY <1>6, <2>1
    <3>2. rec[j].owner \in Requests
      BY <3>1, Parts
    <3>3. QED
      BY <1>2, <1>3, <3>1, <3>2 DEF GateInv, Owned
  <2>8. SettledByOwner'
    <3> SUFFICES ASSUME NEW j \in Keys, rec'[j] # None, rec'[j].st \in Settled
                 PROVE  LET p == req'[rec'[j].owner]
                        IN  /\ p.pc = "done"
                            /\ p.out = IF rec'[j].st = "completed" THEN "ok" ELSE "error"
      BY DEF SettledByOwner
    <3>1. CASE j = k
      BY <1>1, <1>2, <1>3, <2>1, <2>3, <3>1
    <3>2. CASE j # k
      <4>1. /\ rec'[j] = rec[j] /\ rec[j].owner \in Requests
            /\ req[rec[j].owner].pc = "done"
        BY <2>1, <3>2, Parts DEF GateInv, SettledByOwner
      <4>2. req'[rec[j].owner] = req[rec[j].owner]
        BY <1>1, <1>3, <4>1
      <4>3. QED
        BY <4>1, <4>2 DEF GateInv, SettledByOwner
    <3>3. QED
      BY <3>1, <3>2
  <2>9. AllReplayed'
    BY <1>1, <1>2, <1>3, <1>4, RepliesStay
  <2>10. AllHold'
    <3> SUFFICES ASSUME NEW s \in Requests, Live(s)', req'[s].gated, s \notin outlived'
                 PROVE  /\ rec'[req'[s].msg.key] # None
                        /\ rec'[req'[s].msg.key].owner = s
                        /\ rec'[req'[s].msg.key].st = "processing"
      BY DEF AllHold, Holds
    <3>1. s # r
      BY <1>2, <1>3 DEF Live
    <3>2. /\ req'[s] = req[s] /\ Live(s) /\ req[s].gated /\ req[s].msg.key \in Keys
          /\ s \notin outlived
      BY <1>3, <3>1 DEF Live, GateInv, AllKnown, Known
    <3>3. Holds(s)
      BY DEF GateInv, AllHold
    <3>4. req[s].msg.key # k
      BY <1>6, <3>1, <3>2, <3>3 DEF Holds
    <3>5. QED
      BY <2>1, <3>2, <3>3, <3>4 DEF Holds
  <2>11. QED
    BY <2>4, <2>5, <2>6, <2>7, <2>8, <2>9, <2>10 DEF GateInv
<1>7. QED
  BY <1>5, <1>6 DEF Persist

LEMMA ExpireInv ==
    ASSUME GateInv, NEW k \in Keys, Expire(k)
    PROVE  GateInv'
<1>1. /\ rec[k] # None /\ rec'[k] = None
      /\ \A j \in Keys : j # k => rec'[j] = rec[j]
      /\ expiries'[k] = expiries[k] + 1
      /\ \A j \in Keys : j # k => expiries'[j] = expiries[j]
      /\ UNCHANGED <<req, executions>>
  BY DEF Expire, GateInv, GateTypes
<1>2. GateTypes'
  BY DEF Expire, GateInv, GateTypes
<1>3. Counted'
  <2> SUFFICES ASSUME NEW j \in Keys
               PROVE  executions'[j] <= expiries'[j] + (IF rec'[j] = None THEN 0 ELSE 1)
    BY DEF Counted
  <2>1. /\ executions[j] \in Nat /\ expiries[j] \in Nat
        /\ executions[j] <= expiries[j] + (IF rec[j] = None THEN 0 ELSE 1)
    BY DEF GateInv, GateTypes, Counted
  <2>2. QED
    BY <1>1, <2>1
<1>4. AllKnown' /\ AllReplayed'
  BY <1>1 DEF GateInv, AllKnown, Known, AllReplayed, Replayed
<1>5. Owned' /\ SettledByOwner'
  BY <1>1 DEF GateInv, Owned, SettledByOwner
<1>6. AllHold'
  <2> SUFFICES ASSUME NEW s \in Requests, Live(s), req[s].gated, s \notin outlived'
               PROVE  /\ rec'[req[s].msg.key] # None
                      /\ rec'[req[s].msg.key].owner = s
                      /\ rec'[req[s].msg.key].st = "processing"
    BY <1>1 DEF AllHold, Holds, Live
  <2>1. Holds(s) /\ req[s].msg.key \in Keys
    BY DEF GateInv, AllHold, AllKnown, Known
  <2>2. s \notin outlived /\ s # rec[k].owner
    BY DEF Expire
  <2>3. req[s].msg.key # k
    BY <2>1, <2>2 DEF Holds
  <2>4. QED
    BY <1>1, <2>1, <2>2, <2>3 DEF Holds
<1>7. QED
  BY <1>2, <1>3, <1>4, <1>5, <1>6 DEF GateInv

LEMMA StepGateInv == GateInv /\ [Next]_vars => GateInv'
<1> SUFFICES ASSUME GateInv, [Next]_vars PROVE GateInv'
  OBVIOUS
<1>1. CASE UNCHANGED vars
  BY <1>1 DEF vars, GateInv, GateTypes, Counted, AllKnown, Known, Owned,
              SettledByOwner, AllReplayed, Replayed, AllHold, Holds, Live
<1>2. CASE Next
  BY <1>2, ArriveInv, BeginInv, ExecuteInv, PersistInv, EndInv, ExpireInv DEF Next, Step
<1>3. QED
  BY <1>1, <1>2

(* The inductive invariant: what the four properties below rest on.        *)
THEOREM GateSafe == Spec => []GateInv
BY InitGateInv, StepGateInv, PTL DEF Spec
-----------------------------------------------------------------------------
(* Types of records, requests and histories.                               *)
THEOREM GateTypesCorrect == Spec => []GateTypeOK
<1>1. GateInv => GateTypeOK
  BY DEF GateInv, GateTypes, GateTypeOK
<1>2. QED
  BY <1>1, GateSafe, PTL

(* The gate admits one execution per life of a record: Begin is atomic, and*)
(* neither a failure nor a crash gives the key free before it expires.     *)
THEOREM OncePerRecord == Spec => []AtMostOncePerRecord
<1>1. GateInv => AtMostOncePerRecord
  <2> SUFFICES ASSUME GateInv, NEW k \in Keys PROVE executions[k] <= expiries[k] + 1
    BY DEF AtMostOncePerRecord
  <2>1. QED
    BY DEF GateInv, GateTypes, Counted
<1>2. QED
  BY <1>1, GateSafe, PTL

(* A settled record has the result of the execution that took it, and not  *)
(* that of one that outlived an earlier record.                            *)
THEOREM OwnersSettle == Spec => []SettledByOwner
<1>1. GateInv => SettledByOwner
  BY DEF GateInv
<1>2. QED
  BY <1>1, GateSafe, PTL

(* A replayed answer is the answer of an execution of the same request by  *)
(* the same subject.                                                       *)
THEOREM ReplaysFaithful == Spec => []ReplayFaithful
<1>1. GateInv => ReplayFaithful
  BY DEF GateInv, AllReplayed, Replayed, ReplayFaithful
<1>2. QED
  BY <1>1, GateSafe, PTL

(* No two requests run under one key unless the record of one of them      *)
(* expired while it ran: both would have to own the record.                *)
THEOREM RecordsExclude == Spec => []NoOverlap
<1>1. GateInv => NoOverlap
  BY DEF GateInv, AllHold, Holds, NoOverlap
<1>2. QED
  BY <1>1, GateSafe, PTL
=============================================================================
