----------------------------- MODULE MCSslServer -----------------------------
(***************************************************************************)
(* A small SSL echo server for TLC.                                        *)
(***************************************************************************)
EXTENDS SslServer

CONSTANTS c1, c2, a, b, z

(* One client says a and b in one record or two, the other z.              *)
RecordTraffic ==
  [c \in Conn |-> IF c = c1 THEN {<<a>>, <<a, b>>} ELSE {<<z>>}]

=============================================================================
