-------------------------- MODULE MCOutboxDispatch --------------------------
(***************************************************************************)
(* Two replicas that take over from each other, two events in one batch.   *)
(***************************************************************************)
EXTENDS OutboxDispatch

CONSTANTS p1, p2, e1, e2

MCReplicas == {p1, p2}
MCEvents == {e1, e2}
=============================================================================
