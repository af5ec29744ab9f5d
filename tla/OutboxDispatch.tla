--------------------------- MODULE OutboxDispatch ---------------------------
(***************************************************************************)
(* The outbox runtime of internal/app/rule_eventbus.go on every replica: a *)
(* dispatcher and a cleaner goroutine over the table rule_outbox_events,   *)
(* and a connection to the bus.  The outbox library (claim a batch under a *)
(* lease, publish, mark or retry later; delete old published rows) and the *)
(* bus are external.                                                       *)
(***************************************************************************)
EXTENDS Naturals, FiniteSets

CONSTANTS
    Replicas,
    Events,      \* identifiers of outbox rows
    None,        \* no replica
    BatchSize,   \* rows claimed at once
    MaxOutages   \* bound: stops and crashes

ASSUME DispatchAssumption == BatchSize \in Nat \ {0} /\ MaxOutages \in Nat /\ None \notin Replicas

VARIABLES
    row,        \* the state of each outbox row
    holder,     \* the replica whose lease on the row has not expired
    proc,       \* the runtime of each replica
    delivered,  \* events the bus has accepted
    outages     \* history: counts towards MaxOutages

vars == <<row, holder, proc, delivered, outages>>

(* batch: the rows RunOnce has still to publish; sent: the one the bus has *)
(* accepted and that is not marked yet.                                    *)
Runtime ==
    [phase : {"down", "starting", "up", "stopping"}, bus : BOOLEAN,
     dispatcher : BOOLEAN, cleaner : BOOLEAN,
     batch : SUBSET Events, sent : SUBSET Events]

Down == [phase |-> "down", bus |-> FALSE, dispatcher |-> FALSE, cleaner |-> FALSE,
         batch |-> {}, sent |-> {}]

Init ==
    /\ row = [e \in Events |-> "absent"]
    /\ holder = [e \in Events |-> None]
    /\ proc = [p \in Replicas |-> Down]
    /\ delivered = {}
    /\ outages = 0

Set(p, s) == proc' = [proc EXCEPT ![p] = s]
Rows == <<row, holder, delivered>>

(* The publishing transaction commits with its event.                      *)
Write(e) ==
    /\ row[e] = "absent"
    /\ row' = [row EXCEPT ![e] = "pending"]
    /\ UNCHANGED <<holder, proc, delivered, outages>>
-----------------------------------------------------------------------------
(* start and stop                                                          *)

OpenBus(p) ==
    /\ proc[p].phase = "down"
    /\ Set(p, [Down EXCEPT !.phase = "starting", !.bus = TRUE])
    /\ UNCHANGED <<Rows, outages>>

(* The dispatcher and the cleaner are configured, then both are started.   *)
Launch(p) ==
    /\ proc[p].phase = "starting"
    /\ Set(p, [proc[p] EXCEPT !.phase = "up", !.dispatcher = TRUE, !.cleaner = TRUE])
    /\ UNCHANGED <<Rows, outages>>

LaunchFails(p) ==
    /\ proc[p].phase = "starting" /\ outages < MaxOutages
    /\ Set(p, Down)
    /\ outages' = outages + 1
    /\ UNCHANGED Rows

Cancel(p) ==
    /\ proc[p].phase = "up" /\ outages < MaxOutages
    /\ Set(p, [proc[p] EXCEPT !.phase = "stopping"])
    /\ outages' = outages + 1
    /\ UNCHANGED Rows

(* Faulty: only a dispatcher between two batches sees the cancellation.    *)
DispatcherEndsIdle(p) ==
    /\ proc[p].phase = "stopping" /\ proc[p].dispatcher
    /\ proc[p].batch = {} /\ proc[p].sent = {} /\ \A e \in Events : row[e] # "pending"
    /\ Set(p, [proc[p] EXCEPT !.dispatcher = FALSE])
    /\ UNCHANGED <<Rows, outages>>

(* The cancelled context ends RunOnce wherever it is; its leases stay.     *)
DispatcherEnds(p) ==
    /\ proc[p].phase = "stopping" /\ proc[p].dispatcher
    /\ Set(p, [proc[p] EXCEPT !.dispatcher = FALSE, !.batch = {}, !.sent = {}])
    /\ UNCHANGED <<Rows, outages>>

CleanerEnds(p) ==
    /\ proc[p].phase = "stopping" /\ proc[p].cleaner
    /\ Set(p, [proc[p] EXCEPT !.cleaner = FALSE])
    /\ UNCHANGED <<Rows, outages>>

(* Faulty: the bus is closed without waiting for the goroutines.           *)
CloseBusAtOnce(p) ==
    /\ proc[p].phase = "stopping"
    /\ Set(p, [proc[p] EXCEPT !.phase = "down", !.bus = FALSE])
    /\ UNCHANGED <<Rows, outages>>

CloseBus(p) ==
    /\ proc[p].phase = "stopping" /\ ~proc[p].dispatcher /\ ~proc[p].cleaner
    /\ Set(p, Down)
    /\ UNCHANGED <<Rows, outages>>

Crash(p) ==
    /\ proc[p].phase # "down" /\ outages < MaxOutages
    /\ Set(p, Down)
    /\ outages' = outages + 1
    /\ UNCHANGED Rows
-----------------------------------------------------------------------------
(* RunOnce of the dispatcher                                               *)

Running(p) == proc[p].dispatcher

Claim(p, B) ==
    /\ Running(p) /\ proc[p].batch = {} /\ proc[p].sent = {}
    /\ B # {} /\ Cardinality(B) <= BatchSize
    /\ \A e \in B : row[e] = "pending" /\ holder[e] = None
    /\ holder' = [e \in Events |-> IF e \in B THEN p ELSE holder[e]]
    /\ Set(p, [proc[p] EXCEPT !.batch = B])
    /\ UNCHANGED <<row, delivered, outages>>

Publish(p, e) ==
    /\ Running(p) /\ e \in proc[p].batch /\ proc[p].sent = {}
    /\ delivered' = delivered \cup {e}
    /\ Set(p, [proc[p] EXCEPT !.batch = @ \ {e}, !.sent = {e}])
    /\ UNCHANGED <<row, holder, outages>>

(* The bus refused, or accepted and its acknowledgement was lost; the row  *)
(* is offered again after the retry delay.                                 *)
PublishFails(p, e) ==
    /\ Running(p) /\ e \in proc[p].batch /\ proc[p].sent = {}
    /\ delivered' \in {delivered, delivered \cup {e}}
    /\ holder' = [holder EXCEPT ![e] = IF @ = p THEN None ELSE @]
    /\ Set(p, [proc[p] EXCEPT !.batch = @ \ {e}])
    /\ UNCHANGED <<row, outages>>

(* Faulty: the row is marked before it is published.                       *)
MarkFirst(p) ==
    \E e \in proc[p].batch :
        /\ Running(p)
        /\ row' = [row EXCEPT ![e] = "published"]
        /\ UNCHANGED <<holder, proc, delivered, outages>>

(* published_at is set; the statement may find the row marked, or deleted, *)
(* by a replica that took over the expired lease.                          *)
Mark(p) ==
    \E e \in proc[p].sent :
        /\ Running(p)
        /\ row' = [row EXCEPT ![e] = IF @ = "pending" THEN "published" ELSE @]
        /\ holder' = [holder EXCEPT ![e] = IF @ = p THEN None ELSE @]
        /\ Set(p, [proc[p] EXCEPT !.sent = {}])
        /\ UNCHANGED <<delivered, outages>>

(* The database did not take the mark; the lease runs out.                 *)
MarkFails(p) ==
    /\ Running(p) /\ proc[p].sent # {}
    /\ Set(p, [proc[p] EXCEPT !.sent = {}])
    /\ UNCHANGED <<Rows, outages>>

(* Time: the lease of a row ends, whatever its holder does.                *)
LeaseExpires(e) ==
    /\ holder[e] # None
    /\ holder' = [holder EXCEPT ![e] = None]
    /\ UNCHANGED <<row, proc, delivered, outages>>

(* RunOnce of the cleaner: published longer ago than the retention.        *)
Clean(p, e) ==
    /\ proc[p].cleaner /\ row[e] = "published"
    /\ row' = [row EXCEPT ![e] = "deleted"]
    /\ UNCHANGED <<holder, proc, delivered, outages>>

Next ==
    \/ \E e \in Events : Write(e) \/ LeaseExpires(e)
    \/ \E p \in Replicas :
          \/ OpenBus(p) \/ Launch(p) \/ LaunchFails(p) \/ Cancel(p)
          \/ DispatcherEnds(p) \/ CleanerEnds(p) \/ CloseBus(p) \/ Crash(p)
          \/ Mark(p) \/ MarkFails(p)
          \/ \E B \in SUBSET Events : Claim(p, B)
          \/ \E e \in Events : Publish(p, e) \/ PublishFails(p, e) \/ Clean(p, e)

Spec == Init /\ [][Next]_vars

(* Goroutines run, stopped replicas are started again, leases end.  The    *)
(* library takes rows oldest first, so a waiting row is claimed again and  *)
(* again, and the bus does not refuse it for ever.                         *)
FairSpec ==
    /\ Spec
    /\ \A p \in Replicas :
          /\ WF_vars(OpenBus(p)) /\ WF_vars(Launch(p))
          /\ WF_vars(DispatcherEnds(p)) /\ WF_vars(CleanerEnds(p)) /\ WF_vars(CloseBus(p))
          /\ WF_vars(Mark(p) \/ MarkFails(p))
          /\ WF_vars(\E e \in Events : Publish(p, e) \/ PublishFails(p, e))
    /\ \A e \in Events :
          /\ WF_vars(LeaseExpires(e))
          /\ SF_vars(\E p \in Replicas, B \in SUBSET Events : e \in B /\ Claim(p, B))
          /\ SF_vars(\E p \in Replicas : Publish(p, e))
-----------------------------------------------------------------------------
(* Types; and a runtime that is not up holds no goroutine and no batch.    *)
DispatchTypeOK ==
    /\ row \in [Events -> {"absent", "pending", "published", "deleted"}]
    /\ holder \in [Events -> Replicas \cup {None}]
    /\ proc \in [Replicas -> Runtime]
    /\ \A p \in Replicas : proc[p].phase \in {"down", "starting"} =>
           /\ ~proc[p].dispatcher /\ ~proc[p].cleaner
           /\ proc[p].batch \cup proc[p].sent = {}
    /\ delivered \subseteq Events
    /\ outages \in 0..MaxOutages

(* The dispatcher never publishes on a closed connection, and a replica    *)
(* that failed to start, stopped or was stopped half-way keeps none open.  *)
BusOpenWhileUsed ==
    \A p \in Replicas :
        /\ proc[p].dispatcher => proc[p].bus
        /\ proc[p].phase = "down" => ~proc[p].bus /\ ~proc[p].dispatcher

(* Whatever crashes, stops, expires or is refused in between: an event is  *)
(* forgotten only after the bus took it, and in the end the bus takes it.  *)
Delivery == INSTANCE EventDelivery WITH
    owed <- {e \in Events : row[e] = "pending"},
    settled <- {e \in Events : row[e] \in {"published", "deleted"}}

ImplementsDelivery == Delivery!FairSpec

(* stop returns: no goroutine of the runtime survives its cancellation.    *)
StopEnds == \A p \in Replicas : proc[p].phase = "stopping" ~> proc[p].phase = "down"
=============================================================================
