----------------------------- MODULE IrcChannels -----------------------------
(***************************************************************************)
(* srclib/G-2301-01-P1-irc.c: the commands about channels, AWAY, and those *)
(* that only answer the client.                                            *)
(*                                                                         *)
(* A channel is libirctad's: its calls are atomic, the commands are not.   *)
(* Each asks in one call (who is there, is the user an operator, is the    *)
(* topic protected) and acts in a later one.                               *)
(***************************************************************************)
EXTENDS IrcCommands

(* The user is an operator of the channel.                                 *)
IsOperator(w) == get_user(w) \in ops[frame[w].arg]

Leaves(u, ch) ==
  /\ members' = [members EXCEPT ![ch] = @ \ {u}]
  /\ ops' = [ops EXCEPT ![ch] = @ \ {u}]
  /\ UNCHANGED <<account, away, guarded, topic, roster>>

Enters(u, ch) ==
  /\ members' = [members EXCEPT ![ch] = @ \cup {u}]
  /\ ops' = [ops EXCEPT ![ch] = IF members[ch] = {} THEN {u} ELSE @]
  /\ roster' = [roster EXCEPT ![ch][u] = IF u \in members[ch] THEN @ ELSE {}]
  /\ UNCHANGED <<account, away, guarded, topic>>

-----------------------------------------------------------------------------
(* JOIN and NAMES *)

(* Mutant: the members are listed before the channel is joined.            *)
JoinsAfterListing(w) ==
  LET u == get_user(w)  ch == frame[w].arg IN
  \/ /\ In(w, "join") /\ u # NULL /\ account[u] # NULL
     /\ frame' = [frame EXCEPT ![w].rest = members[ch] \cup {u}, ![w].at = "joined"]
     /\ UNCHANGED <<outside, tables, tad, registered>>
  \/ /\ In(w, "joined")
     /\ Enters(u, ch)
     /\ frame' = [frame EXCEPT ![w].seen = u, ![w].at = "names"]
     /\ UNCHANGED <<outside, tables, registered>>

(* IRCTAD_JoinChannel: it knows the user, and may refuse for the limit,    *)
(* the key or a ban.  The first to join is the operator.                   *)
Join(w) ==
  LET u == get_user(w) IN
  /\ In(w, "join")
  /\ \/ Return(w) /\ UNCHANGED tad
     \/ /\ u # NULL /\ account[u] # NULL
        /\ Enters(u, frame[w].arg)
        /\ frame' = [frame EXCEPT ![w].seen = u, ![w].at = "list"]
        /\ UNCHANGED loopState
  /\ UNCHANGED <<kernel, sets, workers, tables, registered>>

(* IRCTAD_ListUsersOnChannel: the list is a copy.                          *)
ListUsers(w) ==
  /\ In(w, "list")
  /\ frame' = [frame EXCEPT
       ![w].rest = members[frame[w].arg],
       ![w].at = IF frame[w].cmd \in {"JOIN", "NAMES"} THEN "names" ELSE "relay"]
  /\ UNCHANGED <<outside, tables, tad, registered>>

(* For each user listed its nick is appended to the reply.  A user that    *)
(* has quit meanwhile has none.                                            *)
Names(w) ==
  /\ In(w, "names")
  /\ \/ frame[w].rest = {} /\ Return(w)
     \/ \E v \in frame[w].rest :
          IF account[v] = NULL THEN Dies(w)
          ELSE /\ frame' = [frame EXCEPT
                    ![w].rest = @ \ {v},
                    ![w].opt = IF frame[w].cmd = "JOIN" THEN v ELSE @,
                    ![w].at = IF frame[w].cmd = "JOIN" THEN "greet" ELSE @]
               /\ UNCHANGED loopState
  /\ UNCHANGED <<kernel, sets, workers, tables, tad, registered>>

(* JOIN tells it of the one who joined, at the descriptor it has now.      *)
Greet(w) ==
  LET ch == frame[w].arg  u == frame[w].seen  v == frame[w].opt IN
  /\ In(w, "greet")
  /\ roster' = [roster EXCEPT ![ch] = [x \in User |-> roster[ch][x]
       \cup (IF x = u THEN {v} ELSE {})
       \cup (IF x = v /\ get_socketd_byuser(v) # 0 THEN {u} ELSE {})]]
  /\ Move(w, "names")
  /\ UNCHANGED <<outside, tables, account, away, members, ops, guarded, topic, registered>>

-----------------------------------------------------------------------------
(* PART and KICK *)

(* IRCTAD_PartChannel: the channel is told, unless the answer is that the  *)
(* user or the channel is not valid.  Who is not on it may get any answer. *)
Part(w) ==
  LET u == get_user(w)  ch == frame[w].arg IN
  /\ In(w, "part")
  /\ \/ /\ IF u \in members[ch] THEN Leaves(u, ch) ELSE UNCHANGED tad
        /\ Move(w, "list") /\ UNCHANGED loopState
     \/ u \notin members[ch] /\ Return(w) /\ UNCHANGED tad
  /\ UNCHANGED <<kernel, sets, workers, tables, registered>>

Kick(w) ==
  /\ In(w, "kick")
  /\ IF IsOperator(w) THEN Move(w, "kickUser") /\ UNCHANGED loopState ELSE Return(w)
  /\ UNCHANGED <<kernel, sets, workers, tables, tad, registered>>

(* IRCTAD_KickUserFromChannel, whose answer is not looked at: the channel  *)
(* is told in any case, the user who was kicked last of all.               *)
KickUser(w) ==
  /\ In(w, "kickUser")
  /\ Leaves(frame[w].opt, frame[w].arg)
  /\ Move(w, "list")
  /\ UNCHANGED <<outside, tables, registered>>

-----------------------------------------------------------------------------
(* TOPIC and MODE *)

AskTopicRight(w) ==
  /\ In(w, "topic")
  /\ frame' = [frame EXCEPT ![w].may = IsOperator(w), ![w].at = "topicMode"]
  /\ UNCHANGED <<outside, tables, tad, registered>>

(* A TOPIC that gives none asks for the channel's.                         *)
AskTopicMode(w) ==
  /\ In(w, "topicMode")
  /\ IF frame[w].opt = NULL \/ (frame[w].arg \in guarded /\ ~frame[w].may) THEN Return(w)
     ELSE Move(w, "setTopic") /\ UNCHANGED loopState
  /\ UNCHANGED <<kernel, sets, workers, tables, tad, registered>>

(* IRCTADChan_SetTopic                                                     *)
SetTopic(w) ==
  /\ In(w, "setTopic")
  /\ topic' = [topic EXCEPT ![frame[w].arg] = get_user(w)]
  /\ Return(w)
  /\ UNCHANGED <<kernel, sets, workers, tables, account, away, members, ops,
                 guarded, roster, registered>>

(* A MODE that gives none is answered; one for a user does nothing.        *)
Mode(w) ==
  /\ In(w, "mode")
  /\ IF frame[w].opt = NULL \/ get_socketd_byuser(frame[w].arg) # 0 THEN Return(w)
     ELSE Move(w, "modeRight") /\ UNCHANGED loopState
  /\ UNCHANGED <<kernel, sets, workers, tables, tad, registered>>

AskModeRight(w) ==
  /\ In(w, "modeRight")
  /\ IF frame[w].arg \in Channel /\ IsOperator(w)
     THEN Move(w, "setMode") /\ UNCHANGED loopState ELSE Return(w)
  /\ UNCHANGED <<kernel, sets, workers, tables, tad, registered>>

(* IRCTADChan_SetMode: +t or -t.  The switch on mode[1] that follows looks *)
(* for a '+' that is in mode[0]: no password is ever set.                  *)
SetMode(w) ==
  LET ch == frame[w].arg IN
  /\ In(w, "setMode")
  /\ guarded' = IF frame[w].opt THEN guarded \cup {ch} ELSE guarded \ {ch}
  /\ Return(w)
  /\ UNCHANGED <<kernel, sets, workers, tables, account, away, members, ops,
                 topic, roster, registered>>

-----------------------------------------------------------------------------
(* AWAY, and the commands that change nothing *)

AskAway(w) ==
  /\ In(w, "away")
  /\ frame' = [frame EXCEPT ![w].may = get_user(w) \in away, ![w].at = "setAway"]
  /\ UNCHANGED <<outside, tables, tad, registered>>

(* IRCTAD_DeleteAway or IRCTAD_SetAway                                     *)
SetAway(w) ==
  LET u == get_user(w) IN
  /\ In(w, "setAway")
  /\ away' = IF frame[w].may THEN away \ {u}
             ELSE away \cup {v \in {u} \ {NULL} : account[v] # NULL}
  /\ Return(w)
  /\ UNCHANGED <<kernel, sets, workers, tables, account, channels, registered>>

Answers(w, command) ==
  /\ In(w, "reply") /\ frame[w].cmd = command
  /\ Return(w)
  /\ UNCHANGED <<kernel, sets, workers, tables, tad, registered>>

(* LIST asks libirctad for each channel's topic and size, which nobody     *)
(* else reads: what counts is that it ends with its answer.                *)
List(w) == Answers(w, "LIST")

(* The nick is looked up to decide, and looked up again to list its        *)
(* channels.                                                               *)
Whois(w) ==
  /\ In(w, "whois")
  /\ IF frame[w].arg # NULL /\ NickTaken(frame[w].arg)
     THEN Move(w, "whoisChannels") /\ UNCHANGED loopState ELSE Return(w)
  /\ UNCHANGED <<kernel, sets, workers, tables, tad, registered>>

(* When its user has quit meanwhile, libirctad lists nothing: n is still 1 *)
(* and list was never set, and strcat takes what it holds for a string.    *)
WhoisChannels(w) ==
  /\ In(w, "whoisChannels")
  /\ \/ Return(w)
     \/ ~NickTaken(frame[w].arg) /\ Dies(w)
  /\ UNCHANGED <<kernel, sets, workers, tables, tad, registered>>

(* PING, PONG, MOTD, TIME, VERSION and what is no command.                 *)
Ping(w) == Answers(w, "PING")

ChannelCommand(w) ==
  \/ Join(w) \/ ListUsers(w) \/ Names(w) \/ Greet(w)
  \/ Part(w) \/ Kick(w) \/ KickUser(w)
  \/ AskTopicRight(w) \/ AskTopicMode(w) \/ SetTopic(w)
  \/ Mode(w) \/ AskModeRight(w) \/ SetMode(w)
  \/ AskAway(w) \/ SetAway(w)
  \/ List(w) \/ Whois(w) \/ WhoisChannels(w) \/ Ping(w)

ProcessCommand(w) == SessionCommand(w) \/ ChannelCommand(w)

=============================================================================
