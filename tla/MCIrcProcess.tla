----------------------------- MODULE MCIrcProcess -----------------------------
(***************************************************************************)
(* A small IRC server process for TLC.                                     *)
(***************************************************************************)
EXTENDS IrcProcess, MCIrcServer

(* The client says nothing.                                                *)
Silence == [c \in Conn |-> {}]

=============================================================================
