------------------------- MODULE MCIdempotencyGate -------------------------
(***************************************************************************)
(* Three requests of two users that may share a key, over two routes and   *)
(* with two bodies.                                                        *)
(***************************************************************************)
EXTENDS IdempotencyGate

CONSTANTS k1, q1, q2, q3

MCKeys == {k1}
MCRequests == {q1, q2, q3}

Msg(k, s, p, b, c) == [key |-> k, subject |-> s, path |-> p, body |-> b, covered |-> c]

MCMessages ==
    { Msg(k1, "alice", "publish", "x", TRUE), Msg(k1, "bob", "publish", "x", TRUE),
      Msg(k1, "alice", "publish", "y", TRUE), Msg(k1, "alice", "create", "x", TRUE),
      Msg(k1, "alice", "get", "x", FALSE), Msg(None, "alice", "publish", "x", TRUE),
      Msg(BadKey, "alice", "publish", "x", TRUE) }
=============================================================================
