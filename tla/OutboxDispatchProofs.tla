------------------------ MODULE OutboxDispatchProofs ------------------------
(***************************************************************************)
(* Proofs about OutboxDispatch, for any number of replicas, events and     *)
(* outages: no step forgets an event the bus has not taken, so that the    *)
(* dispatcher implements the safety part of EventDelivery, and the bus is  *)
(* open whenever a dispatcher runs.                                        *)
(***************************************************************************)
EXTENDS OutboxDispatch, TLAPS

(* The rows and what the bus has agree: a row is settled only if its event *)
(* was delivered, and only written rows are claimed and delivered.         *)
RowsAgree ==
    /\ \A e \in Events : row[e] \in {"published", "deleted"} => e \in delivered
    /\ \A e \in delivered : row[e] # "absent"
    /\ \A p \in Replicas :
          /\ \A e \in proc[p].batch : row[e] # "absent"
          /\ proc[p].sent \subseteq delivered

(* The bus is opened before the goroutines and closed after them.          *)
BusHeld == \A p \in Replicas : proc[p].bus <=> proc[p].phase # "down"

DispatchInv == DispatchTypeOK /\ RowsAgree /\ BusHeld

LEMMA DownIsRuntime == Down \in Runtime
BY DEF Down, Runtime

LEMMA InitDispatchInv == Init => DispatchInv
<1> SUFFICES ASSUME Init PROVE DispatchInv
  OBVIOUS
<1>1. DispatchTypeOK
  BY DownIsRuntime, DispatchAssumption DEF Init, DispatchTypeOK, Down
<1>2. RowsAgree /\ BusHeld
  BY DEF Init, RowsAgree, BusHeld, Down
<1>3. QED
  BY <1>1, <1>2 DEF DispatchInv
-----------------------------------------------------------------------------
(* Starting and stopping: the rows stay, and what a runtime holds shrinks. *)
LEMMA RuntimeInv ==
    ASSUME DispatchInv, NEW p \in Replicas, NEW s \in Runtime,
           Set(p, s), UNCHANGED Rows, outages' \in 0..MaxOutages,
           s.batch \subseteq proc[p].batch, s.sent \subseteq proc[p].sent,
           s.bus <=> s.phase # "down",
           s.phase \in {"down", "starting"} =>
               ~s.dispatcher /\ ~s.cleaner /\ s.batch \cup s.sent = {}
    PROVE  DispatchInv'
<1>1. /\ proc' \in [Replicas -> Runtime] /\ proc'[p] = s
      /\ \A q \in Replicas : q # p => proc'[q] = proc[q]
      /\ row' = row /\ holder' = holder /\ delivered' = delivered
  BY DEF Set, Rows, DispatchInv, DispatchTypeOK
<1>2. DispatchTypeOK'
  BY <1>1 DEF DispatchInv, DispatchTypeOK
<1>3. RowsAgree'
  BY <1>1 DEF DispatchInv, RowsAgree
<1>4. BusHeld'
  BY <1>1 DEF DispatchInv, BusHeld
<1>5. QED
  BY <1>2, <1>3, <1>4 DEF DispatchInv

LEMMA StartStopInv ==
    ASSUME DispatchInv, NEW p \in Replicas,
           \/ OpenBus(p) \/ Launch(p) \/ LaunchFails(p) \/ Cancel(p)
           \/ DispatcherEnds(p) \/ CleanerEnds(p) \/ CloseBus(p) \/ Crash(p)
    PROVE  DispatchInv'
<1>1. proc[p] \in Runtime /\ outages \in 0..MaxOutages /\ MaxOutages \in Nat
  BY DispatchAssumption DEF DispatchInv, DispatchTypeOK
<1>2. CASE LaunchFails(p) \/ CloseBus(p) \/ Crash(p)
  <2>1. /\ Set(p, Down) /\ UNCHANGED Rows /\ outages' \in 0..MaxOutages
    BY <1>1, <1>2 DEF LaunchFails, CloseBus, Crash
  <2>2. QED
    BY <2>1, DownIsRuntime, RuntimeInv DEF Down
<1>3. CASE OpenBus(p)
  <2> DEFINE s == [Down EXCEPT !.phase = "starting", !.bus = TRUE]
  <2>1. Set(p, s) /\ UNCHANGED Rows /\ outages' \in 0..MaxOutages
    BY <1>1, <1>3 DEF OpenBus
  <2>2. s \in Runtime
    BY DEF Down, Runtime
  <2>3. QED
    BY <2>1, <2>2, RuntimeInv DEF Down
<1>4. CASE Launch(p)
  <2> DEFINE s == [proc[p] EXCEPT !.phase = "up", !.dispatcher = TRUE, !.cleaner = TRUE]
  <2>1. Set(p, s) /\ UNCHANGED Rows /\ outages' \in 0..MaxOutages /\ proc[p].phase = "starting"
    BY <1>1, <1>4 DEF Launch
  <2>2. s \in Runtime /\ s.phase = "up" /\ s.bus = proc[p].bus
        /\ s.batch = proc[p].batch /\ s.sent = proc[p].sent
    BY <1>1 DEF Runtime
  <2>3. s.bus
    BY <2>1, <2>2 DEF DispatchInv, BusHeld
  <2> HIDE DEF s
  <2>4. QED
    BY <2>1, <2>2, <2>3, RuntimeInv
<1>5. CASE Cancel(p)
  <2> DEFINE s == [proc[p] EXCEPT !.phase = "stopping"]
  <2>1. Set(p, s) /\ UNCHANGED Rows /\ outages' \in 0..MaxOutages /\ proc[p].phase = "up"
    BY <1>1, <1>5 DEF Cancel
  <2>2. s \in Runtime /\ s.phase = "stopping" /\ s.bus = proc[p].bus
        /\ s.batch = proc[p].batch /\ s.sent = proc[p].sent
    BY <1>1 DEF Runtime
  <2>3. s.bus
    BY <2>1, <2>2 DEF DispatchInv, BusHeld
  <2> HIDE DEF s
  <2>4. QED
    BY <2>1, <2>2, <2>3, RuntimeInv
<1>6. CASE DispatcherEnds(p)
  <2> DEFINE s == [proc[p] EXCEPT !.dispatcher = FALSE, !.batch = {}, !.sent = {}]
  <2>1. Set(p, s) /\ UNCHANGED Rows /\ outages' \in 0..MaxOutages /\ proc[p].phase = "stopping"
    BY <1>1, <1>6 DEF DispatcherEnds
  <2>2. s \in Runtime /\ s.phase = proc[p].phase /\ s.bus = proc[p].bus
        /\ s.batch = {} /\ s.sent = {}
    BY <1>1 DEF Runtime
  <2>3. s.bus
    BY <2>1, <2>2 DEF DispatchInv, BusHeld
  <2> HIDE DEF s
  <2>4. QED
    BY <2>1, <2>2, <2>3, RuntimeInv
<1>7. CASE CleanerEnds(p)
  <2> DEFINE s == [proc[p] EXCEPT !.cleaner = FALSE]
  <2>1. Set(p, s) /\ UNCHANGED Rows /\ outages' \in 0..MaxOutages /\ proc[p].phase = "stopping"
    BY <1>1, <1>7 DEF CleanerEnds
  <2>2. s \in Runtime /\ s.phase = proc[p].phase /\ s.bus = proc[p].bus
        /\ s.batch = proc[p].batch /\ s.sent = proc[p].sent
    BY <1>1 DEF Runtime
  <2>3. s.bus
    BY <2>1, <2>2 DEF DispatchInv, BusHeld
  <2> HIDE DEF s
  <2>4. QED
    BY <2>1, <2>2, <2>3, RuntimeInv
<1>8. QED
  BY <1>2, <1>3, <1>4, <1>5, <1>6, <1>7

(* The database: an event is written, a lease ends, a published row goes.  *)
LEMMA TableInv ==
    ASSUME DispatchInv, NEW e \in Events,
           Write(e) \/ LeaseExpires(e) \/ \E p \in Replicas : Clean(p, e)
    PROVE  DispatchInv'
<1>1. /\ proc' = proc /\ delivered' = delivered /\ outages' = outages
      /\ \A d \in Events : row'[d] # row[d] =>
            \/ row[d] = "absent" /\ row'[d] = "pending"
            \/ row[d] = "published" /\ row'[d] = "deleted"
  BY DEF Write, LeaseExpires, Clean, DispatchInv, DispatchTypeOK
<1>2. DispatchTypeOK'
  <2>1. /\ row' \in [Events -> {"absent", "pending", "published", "deleted"}]
        /\ holder' \in [Events -> Replicas \cup {None}]
    BY DEF Write, LeaseExpires, Clean, DispatchInv, DispatchTypeOK
  <2>2. QED
    BY <1>1, <2>1 DEF DispatchInv, DispatchTypeOK
<1>3. RowsAgree'
  <2>1. \A p \in Replicas : proc[p].batch \subseteq Events
    BY DEF DispatchInv, DispatchTypeOK, Runtime
  <2>2. QED
    BY <1>1, <2>1 DEF DispatchInv, RowsAgree, DispatchTypeOK
<1>4. BusHeld'
  BY <1>1 DEF DispatchInv, BusHeld
<1>5. QED
  BY <1>2, <1>3, <1>4 DEF DispatchInv

(* A step of a running dispatcher.  Rows only turn from pending into       *)
(* published, and only rows of events that were delivered.                 *)
LEMMA RunOnceInv ==
    ASSUME DispatchInv, NEW p \in Replicas, NEW s \in Runtime,
           Running(p), Set(p, s), outages' = outages,
           s.phase = proc[p].phase, s.bus = proc[p].bus,
           row' \in [Events -> {"absent", "pending", "published", "deleted"}],
           holder' \in [Events -> Replicas \cup {None}],
           delivered' \subseteq Events, delivered \subseteq delivered',
           \A d \in Events : row'[d] # row[d] =>
               row[d] = "pending" /\ row'[d] = "published" /\ d \in delivered',
           \A d \in delivered' \cup s.batch : row[d] # "absent",
           s.sent \subseteq delivered'
    PROVE  DispatchInv'
<1>1. /\ proc' \in [Replicas -> Runtime] /\ proc'[p] = s
      /\ \A q \in Replicas : q # p => proc'[q] = proc[q]
  BY DEF Set, DispatchInv, DispatchTypeOK
<1>2. s.phase \notin {"down", "starting"}
  BY DEF Running, DispatchInv, DispatchTypeOK
<1>3. DispatchTypeOK'
  BY <1>1, <1>2 DEF DispatchInv, DispatchTypeOK
<1>4. \A d \in Events : row[d] # "absent" => row'[d] # "absent"
  OBVIOUS
<1>5. RowsAgree'
  <2>1. \A q \in Replicas : proc'[q].batch \subseteq Events
    BY <1>1 DEF Runtime
  <2>2. \A d \in Events : row'[d] \in {"published", "deleted"} => d \in delivered'
    BY DEF DispatchInv, RowsAgree
  <2>3. \A d \in delivered' : row'[d] # "absent"
    BY <1>4
  <2>4. ASSUME NEW q \in Replicas
        PROVE  /\ \A d \in proc'[q].batch : row'[d] # "absent"
               /\ proc'[q].sent \subseteq delivered'
    <3>1. CASE q = p
      BY <1>1, <1>4, <2>1, <3>1
    <3>2. CASE q # p
      BY <1>1, <1>4, <2>1, <3>2 DEF DispatchInv, RowsAgree
    <3>3. QED
      BY <3>1, <3>2
  <2>5. QED
    BY <2>2, <2>3, <2>4 DEF RowsAgree
<1>6. BusHeld'
  BY <1>1 DEF DispatchInv, BusHeld
<1>7. QED
  BY <1>3, <1>5, <1>6 DEF DispatchInv

LEMMA ClaimInv ==
    ASSUME DispatchInv, NEW p \in Replicas, NEW B \in SUBSET Events, Claim(p, B)
    PROVE  DispatchInv'
<1> DEFINE s == [proc[p] EXCEPT !.batch = B]
<1>1. /\ s \in Runtime /\ s.phase = proc[p].phase /\ s.bus = proc[p].bus
      /\ s.batch = B /\ s.sent = proc[p].sent
  BY DEF DispatchInv, DispatchTypeOK, Runtime
<1>2. /\ Running(p) /\ Set(p, s) /\ UNCHANGED <<row, delivered, outages>>
      /\ \A e \in B : row[e] = "pending"
      /\ holder' \in [Events -> Replicas \cup {None}]
  BY DEF Claim, DispatchInv, DispatchTypeOK
<1> HIDE DEF s
<1>3. QED
  BY <1>1, <1>2, RunOnceInv DEF DispatchInv, DispatchTypeOK, RowsAgree

LEMMA PublishInv ==
    ASSUME DispatchInv, NEW p \in Replicas, NEW e \in Events,
           Publish(p, e) \/ PublishFails(p, e)
    PROVE  DispatchInv'
<1>1. PICK S \in {proc[p].sent, {e}} :
         /\ Set(p, [proc[p] EXCEPT !.batch = @ \ {e}, !.sent = S])
         /\ S = {e} => delivered' = delivered \cup {e}
         /\ S # {e} => S = {}
  <2>1. CASE Publish(p, e)
    BY <2>1 DEF Publish
  <2>2. CASE PublishFails(p, e)
    <3>1. proc[p].sent = {} /\ Set(p, [proc[p] EXCEPT !.batch = @ \ {e}])
      BY <2>2 DEF PublishFails
    <3>2. [proc[p] EXCEPT !.batch = @ \ {e}] =
          [proc[p] EXCEPT !.batch = @ \ {e}, !.sent = proc[p].sent]
      BY DEF DispatchInv, DispatchTypeOK, Runtime
    <3>3. QED
      BY <3>1, <3>2
  <2>3. QED
    BY <2>1, <2>2
<1> DEFINE s == [proc[p] EXCEPT !.batch = @ \ {e}, !.sent = S]
<1>2. /\ s \in Runtime /\ s.phase = proc[p].phase /\ s.bus = proc[p].bus
      /\ s.batch \subseteq proc[p].batch /\ s.sent = S
  BY DEF DispatchInv, DispatchTypeOK, Runtime
<1>3. /\ Running(p) /\ e \in proc[p].batch /\ Set(p, s)
      /\ UNCHANGED <<row, outages>>
      /\ delivered' \in {delivered, delivered \cup {e}}
      /\ holder' \in [Events -> Replicas \cup {None}]
  BY <1>1 DEF Publish, PublishFails, DispatchInv, DispatchTypeOK
<1> HIDE DEF s
<1>4. S \subseteq delivered'
  BY <1>1
<1>5. \A d \in delivered' \cup s.batch : row[d] # "absent"
  BY <1>2, <1>3 DEF DispatchInv, RowsAgree
<1>6. delivered' \subseteq Events /\ delivered \subseteq delivered'
  BY <1>3 DEF DispatchInv, DispatchTypeOK
<1>7. QED
  BY <1>2, <1>3, <1>4, <1>5, <1>6, RunOnceInv DEF DispatchInv, DispatchTypeOK

LEMMA MarkInv ==
    ASSUME DispatchInv, NEW p \in Replicas, Mark(p) \/ MarkFails(p)
    PROVE  DispatchInv'
<1> DEFINE s == [proc[p] EXCEPT !.sent = {}]
<1>1. /\ s \in Runtime /\ s.phase = proc[p].phase /\ s.bus = proc[p].bus
      /\ s.batch = proc[p].batch /\ s.sent = {}
  BY DEF DispatchInv, DispatchTypeOK, Runtime
<1>2. /\ Running(p) /\ Set(p, s) /\ UNCHANGED <<delivered, outages>>
  BY DEF Mark, MarkFails, Rows
<1>3. /\ row' \in [Events -> {"absent", "pending", "published", "deleted"}]
      /\ holder' \in [Events -> Replicas \cup {None}]
      /\ \A d \in Events : row'[d] # row[d] =>
            row[d] = "pending" /\ row'[d] = "published" /\ d \in delivered'
  <2>1. proc[p].sent \subseteq delivered /\ delivered \subseteq Events
    BY DEF DispatchInv, DispatchTypeOK, RowsAgree
  <2>2. CASE MarkFails(p)
    BY <2>2 DEF MarkFails, Rows, DispatchInv, DispatchTypeOK
  <2>3. ASSUME NEW e \in proc[p].sent,
               row' = [row EXCEPT ![e] = IF @ = "pending" THEN "published" ELSE @],
               holder' = [holder EXCEPT ![e] = IF @ = p THEN None ELSE @]
        PROVE  <1>3!1 /\ <1>3!2 /\ <1>3!3
    BY <1>2, <2>1, <2>3 DEF DispatchInv, DispatchTypeOK
  <2>4. QED
    BY <2>2, <2>3 DEF Mark
<1> HIDE DEF s
<1>4. \A d \in delivered' \cup s.batch : row[d] # "absent"
  BY <1>1, <1>2 DEF DispatchInv, RowsAgree
<1>5. QED
  BY <1>1, <1>2, <1>3, <1>4, RunOnceInv DEF DispatchInv, DispatchTypeOK

LEMMA StepDispatchInv == DispatchInv /\ [Next]_vars => DispatchInv'
<1> SUFFICES ASSUME DispatchInv, [Next]_vars PROVE DispatchInv'
  OBVIOUS
<1>1. CASE UNCHANGED vars
  BY <1>1 DEF vars, DispatchInv, DispatchTypeOK, RowsAgree, BusHeld
<1>2. CASE Next
  BY <1>2, StartStopInv, TableInv, ClaimInv, PublishInv, MarkInv DEF Next
<1>3. QED
  BY <1>1, <1>2

(* The inductive invariant of the outbox runtime.                          *)
THEOREM DispatchSafe == Spec => []DispatchInv
BY InitDispatchInv, StepDispatchInv, PTL DEF Spec
-----------------------------------------------------------------------------
(* Types, for any number of replicas, events and outages.                  *)
THEOREM DispatchTypes == Spec => []DispatchTypeOK
<1>1. DispatchInv => DispatchTypeOK
  BY DEF DispatchInv
<1>2. QED
  BY <1>1, DispatchSafe, PTL

(* stop waits for both goroutines before it closes the bus, so that no     *)
(* dispatcher publishes on a closed one.                                   *)
THEOREM BusOutlivesDispatcher == Spec => []BusOpenWhileUsed
<1>1. DispatchInv => BusOpenWhileUsed
  BY DEF DispatchInv, DispatchTypeOK, BusHeld, BusOpenWhileUsed
<1>2. QED
  BY <1>1, DispatchSafe, PTL

(* The dispatcher implements at-least-once delivery: an event is forgotten *)
(* only after the bus has taken it, whatever crashes or expires.           *)
THEOREM DispatchImplementsDelivery == Spec => Delivery!Spec
<1> DEFINE owed == {e \in Events : row[e] = "pending"}
           settled == {e \in Events : row[e] \in {"published", "deleted"}}
<1>1. Init => Delivery!Init
  BY DEF Init, Delivery!Init
<1>2. DispatchInv /\ [Next]_vars => [Delivery!Next]_(Delivery!vars)
  <2> SUFFICES ASSUME DispatchInv, Next
               PROVE  Delivery!Next \/ UNCHANGED <<owed, delivered, settled>>
    BY DEF vars, Delivery!vars
  <2> USE DEF DispatchInv, DispatchTypeOK
  <2>1. CASE \E e \in Events : LeaseExpires(e) \/ \E p \in Replicas : Clean(p, e)
    BY <2>1 DEF LeaseExpires, Clean
  <2>2. ASSUME NEW p \in Replicas,
               \/ OpenBus(p) \/ Launch(p) \/ LaunchFails(p) \/ Cancel(p)
               \/ DispatcherEnds(p) \/ CleanerEnds(p) \/ CloseBus(p) \/ Crash(p)
               \/ MarkFails(p) \/ \E B \in SUBSET Events : Claim(p, B)
        PROVE  UNCHANGED <<owed, delivered, settled>>
    BY <2>2 DEF OpenBus, Launch, LaunchFails, Cancel, DispatcherEnds, CleanerEnds,
                CloseBus, Crash, MarkFails, Claim, Rows
  <2>3. ASSUME NEW e \in Events, Write(e)
        PROVE  Delivery!Record(e)
    BY <2>3 DEF Write, Delivery!Record
  <2>4. ASSUME NEW p \in Replicas, NEW e \in Events, Publish(p, e) \/ PublishFails(p, e)
        PROVE  Delivery!Deliver(e) \/ UNCHANGED <<owed, delivered, settled>>
    <3>1. /\ row' = row /\ delivered' \in {delivered, delivered \cup {e}}
          /\ row[e] # "absent"
      BY <2>4 DEF Publish, PublishFails, RowsAgree
    <3>2. e \notin delivered => row[e] = "pending"
      BY <3>1 DEF RowsAgree
    <3>3. QED
      BY <3>1, <3>2 DEF Delivery!Deliver
  <2>5. ASSUME NEW p \in Replicas, Mark(p)
        PROVE  \/ \E e \in Events : Delivery!Settle(e)
               \/ UNCHANGED <<owed, delivered, settled>>
    <3>1. PICK e \in proc[p].sent :
             /\ row' = [row EXCEPT ![e] = IF @ = "pending" THEN "published" ELSE @]
             /\ delivered' = delivered
      BY <2>5 DEF Mark
    <3>2. e \in delivered /\ e \in Events
      BY DEF RowsAgree
    <3>3. CASE row[e] = "pending"
      BY <3>1, <3>2, <3>3 DEF Delivery!Settle
    <3>4. CASE row[e] # "pending"
      BY <3>1, <3>2, <3>4
    <3>5. QED
      BY <3>2, <3>3, <3>4
  <2>6. QED
    BY <2>1, <2>2, <2>3, <2>4, <2>5 DEF Next, Delivery!Next
<1>3. QED
  BY <1>1, <1>2, DispatchSafe, PTL DEF Spec, Delivery!Spec
=============================================================================
