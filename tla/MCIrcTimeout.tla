----------------------------- MODULE MCIrcTimeout -----------------------------
(***************************************************************************)
(* Small IRC servers with the timeout thread for TLC.                      *)
(***************************************************************************)
EXTENDS IrcTimeout, MCIrcServer

(* One client registers and may then say something more; another, where    *)
(* there is one, only connects.                                            *)
SilentTraffic ==
  [c \in Conn |->
    IF c = c1 THEN {<<NickIs(n1), UserIs(u1)>>,
                    <<NickIs(n1), UserIs(u1), Say("JOIN", room)>>}
    ELSE {}]

=============================================================================
