----------------------------- MODULE MCEchoServer -----------------------------
(***************************************************************************)
(* A small echo server for TLC.                                            *)
(***************************************************************************)
EXTENDS EchoServer

CONSTANTS c1, c2, a, b, z

(* One client says a, b or both, the other z.  The server does not look at *)
(* texts, so that distinct ones tell every order and mixture apart.        *)
DistinctTraffic ==
  [c \in Conn |-> IF c = c1 THEN {<<a>>, <<a, b>>} ELSE {<<z>>}]

=============================================================================
