-------------------------- MODULE MCOutboundClient --------------------------
(* Two callers share an upstream and call it again and again; every policy *)
(* up to the bounds is tried.                                              *)
EXTENDS OutboundClient
=============================================================================
