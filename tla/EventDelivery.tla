---------------------------- MODULE EventDelivery ----------------------------
(***************************************************************************)
(* What the outbox promises: an event that was written with its            *)
(* publication reaches the bus at least once, and is forgotten only after  *)
(* that.                                                                   *)
(***************************************************************************)
CONSTANT Events

VARIABLES owed, delivered, settled

vars == <<owed, delivered, settled>>

Init == owed = {} /\ delivered = {} /\ settled = {}

Record(e) ==
    /\ e \notin owed \cup settled
    /\ owed' = owed \cup {e}
    /\ UNCHANGED <<delivered, settled>>

Deliver(e) ==
    /\ e \in owed \ delivered
    /\ delivered' = delivered \cup {e}
    /\ UNCHANGED <<owed, settled>>

Settle(e) ==
    /\ e \in owed \cap delivered
    /\ owed' = owed \ {e}
    /\ settled' = settled \cup {e}
    /\ UNCHANGED delivered

Next == \E e \in Events : Record(e) \/ Deliver(e) \/ Settle(e)

Spec == Init /\ [][Next]_vars

FairSpec == Spec /\ \A e \in Events : WF_vars(Deliver(e))
=============================================================================
