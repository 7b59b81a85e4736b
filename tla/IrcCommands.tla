----------------------------- MODULE IrcCommands -----------------------------
(***************************************************************************)
(* srclib/G-2301-01-P1-irc.c: the commands that register a client, relay   *)
(* its messages and let it go, with the tables of                          *)
(* src/G-2301-01-P1-irc_server.c they keep.  IrcChannels has the others.   *)
(*                                                                         *)
(* A command runs in a worker: a handler thread, the loop itself when a    *)
(* client has closed its side, or the timeout thread.  Its call is a       *)
(* frame, which says where it is and what it has read.  A step is a        *)
(* critical section of m_users, m_nicks or mutex_conn, a call to libirctad *)
(* or a system call; a get_user or get_nick whose result is only passed on *)
(* to the next call is taken with that call.  Replies to the client itself *)
(* are left out: they change nothing in the server.                        *)
(***************************************************************************)
EXTENDS Server

CONSTANTS User, Nick, Channel,
          LongUser,  \* the user names longer than MAX_USERNAME
          LongNick,  \* the nicks longer than MAX_NICK
          NULL,
          Garbage,   \* what malloc returns, before strcpy
          Loop,      \* the thread of server_launch, as a worker
          Timer,     \* the timeout thread, as a worker
          Guarded    \* the channels to which IRCSVR_CHANFILE gives mode t

ASSUME IrcAssumption ==
  /\ LongUser \subseteq User /\ LongNick \subseteq Nick
  /\ Guarded \subseteq Channel
  /\ NULL \notin User \cup Nick \cup Channel
  /\ Garbage \notin Nick \cup {NULL}
  /\ Loop \notin Thread /\ Timer \notin Thread \cup {Loop}
  /\ 0 < Listener

VARIABLES users,    \* user name of each descriptor
          nicks,    \* nick of each descriptor
          account,  \* libirctad: the nick of each registered user
          away,     \* libirctad: the users who are away
          members,  \* libirctad: the users on each channel
          ops,      \* libirctad: its operators
          guarded,  \* libirctad: the channels with IRCMODE_TOPICOP
          topic,    \* libirctad: the user who set each channel's topic
          roster,   \* whom each member was told of since it joined (history)
          timed,    \* the conn_data of the timeout thread
          frame,    \* the command each worker is executing
          registered  \* the user each connection registered (history)

tables == <<users, nicks>>
channels == <<members, ops, guarded, topic, roster>>
tad == <<account, away, channels>>
workers == <<threads, timed>>
outside == <<kernel, sets, workers, loopState>>

Worker == Thread \cup {Loop, Timer}

Label == {"idle", "nick", "changeNick", "setNick", "copyNick",
          "user", "checkUser", "addUser", "setUser",
          "privmsg", "targets", "findNick", "findNickAgain", "sendPrivate",
          "relay", "relayBlock", "relayUnblock",
          "quit", "quitChannels", "quitClose", "quitRmv", "quitTad",
          "quitUser", "quitNick",
          "join", "list", "names", "greet", "part", "kick", "kickUser",
          "topic", "topicMode", "setTopic", "mode", "modeRight", "setMode",
          "away", "setAway", "whois", "whoisChannels", "reply", "dead"}

(* The commands with a function of their own.  PING stands for all that    *)
(* only answer the client itself.                                          *)
Command == {"NICK", "USER", "JOIN", "NAMES", "PRIVMSG", "PART", "KICK",
            "TOPIC", "MODE", "AWAY", "LIST", "WHOIS", "PING", "QUIT"}

(* A text is a command as libircredes parses it, which gives each function *)
(* arguments of its kind, or none where the function looks (irc.c:331,     *)
(* 384, 598, 642) or libirctad does.  A MODE may name a user (irc.c:424).  *)
WellFormed(text) ==
  /\ text.cmd \in Command
  /\ text.arg \in User \cup Nick \cup Channel \cup {NULL}
  /\ text.opt \in User \cup BOOLEAN \cup {NULL}
  /\ text.cmd = "NICK" => text.arg \in Nick \cup {NULL}
  /\ text.cmd = "USER" => text.arg \in User
  /\ text.cmd \in {"JOIN", "NAMES", "PART", "KICK", "TOPIC"} => text.arg \in Channel
  /\ text.cmd = "MODE" => text.arg \in Channel \cup User /\ text.opt \in BOOLEAN \cup {NULL}

ASSUME TextAssumption == \A text \in Text : WellFormed(text)

(* opt: the command's second argument, or the user JOIN is about to tell;  *)
(* seen: the nick or user the command read;                                *)
(* may: what it was told of its rights; rest, chans: what the loops over   *)
(* users and channels have left; to: the descriptor found for another user. *)
Idle == [at |-> "idle", cmd |-> "QUIT", arg |-> NULL, opt |-> NULL, seen |-> NULL,
         may |-> FALSE, rest |-> {}, chans |-> {}, to |-> 0]

Entry == [cmd \in Command |->
            CASE cmd = "NICK" -> "nick" [] cmd = "USER" -> "user"
              [] cmd = "JOIN" -> "join" [] cmd = "NAMES" -> "list"
              [] cmd = "PRIVMSG" -> "privmsg" [] cmd = "PART" -> "part"
              [] cmd = "KICK" -> "kick" [] cmd = "TOPIC" -> "topic"
              [] cmd = "MODE" -> "mode" [] cmd = "AWAY" -> "away"
              [] cmd = "WHOIS" -> "whois" [] cmd = "QUIT" -> "quit"
              [] OTHER -> "reply"]

Call(text) == [Idle EXCEPT !.at = Entry[text.cmd], !.cmd = text.cmd,
                           !.arg = text.arg, !.opt = text.opt]

QuitNow == [cmd |-> "QUIT", arg |-> NULL, opt |-> NULL]

(* The conn_data the worker was given, and the connection it came from.    *)
Given(w) == CASE w = Loop -> rcvd [] w = Timer -> timed [] OTHER -> data[w]
Socket(w) == Given(w).socketd
Client(w) == Given(w).conn

get_user(w) == users[Socket(w)]
get_nick(w) == nicks[Socket(w)]

Lowest(S) == IF S = {} THEN 0 ELSE CHOOSE d \in S : \A e \in S : d <= e

(* Nobody is found for no name, nor on a free entry.                       *)
get_socketd_byuser(user) == Lowest({d \in Fd : users[d] = user /\ user # NULL})
get_socketd_bynick(nick) == Lowest({d \in Fd : nicks[d] = nick /\ nick # NULL})

(* The channel file, read before any thread exists.                        *)
read_channels ==
  /\ members = [ch \in Channel |-> {}]
  /\ ops = [ch \in Channel |-> {}]
  /\ guarded = Guarded
  /\ topic = [ch \in Channel |-> NULL]
  /\ roster = [ch \in Channel |-> [u \in User |-> {}]]

IrcInit ==
  /\ users = [d \in Fd |-> NULL]
  /\ nicks = [d \in Fd |-> NULL]
  /\ account = [u \in User |-> NULL]
  /\ away = {}
  /\ read_channels
  /\ timed = NoData
  /\ frame = [w \in Worker |-> Idle]
  /\ registered = [c \in Conn |-> NULL]

In(w, label) == frame[w].at = label

Move(w, label) == frame' = [frame EXCEPT ![w].at = label]

(* handler_disconnection returns to server_launch.                         *)
Return(w) ==
  /\ frame' = [frame EXCEPT ![w] = Idle]
  /\ IF w = Loop THEN Goto("close") ELSE UNCHANGED <<main, i>>
  /\ UNCHANGED <<acceptd, rcvd>>

(* A null pointer given to strcpy or strcat ends the process.              *)
Dies(w) == Move(w, "dead") /\ UNCHANGED loopState

Alive == \A w \in Worker : ~In(w, "dead")

-----------------------------------------------------------------------------
(* NICK *)

AskRegistered(w) ==
  /\ In(w, "nick")
  /\ Move(w, IF get_user(w) = NULL THEN "setNick" ELSE "changeNick")
  /\ UNCHANGED <<outside, tables, tad, registered>>

NickTaken(nick) == \E u \in User : account[u] = nick

(* Mutant: libirctad learns the new nick, the table does not.              *)
ChangeNickOnly(w) ==
  LET u == get_user(w)  n == frame[w].arg IN
  /\ In(w, "changeNick")
  /\ account' = IF u = NULL \/ n = NULL \/ account[u] = NULL \/ NickTaken(n)
                THEN account ELSE [account EXCEPT ![u] = n]
  /\ Return(w)
  /\ UNCHANGED <<kernel, sets, workers, tables, away, channels, registered>>

(* IRCTADUser_SetNickByUser                                                *)
ChangeNick(w) ==
  LET u == get_user(w)  n == frame[w].arg IN
  /\ In(w, "changeNick")
  /\ IF u = NULL \/ n = NULL \/ account[u] = NULL \/ NickTaken(n)
     THEN Return(w) /\ UNCHANGED account
     ELSE /\ account' = [account EXCEPT ![u] = n]
          /\ Move(w, "setNick") /\ UNCHANGED loopState
  /\ UNCHANGED <<kernel, sets, workers, tables, away, channels, registered>>

(* set_nick up to the unlock, which comes before the copy.                 *)
SetNick(w) ==
  LET d == Socket(w)  n == frame[w].arg IN
  /\ In(w, "setNick")
  /\ IF n = NULL \/ n \in LongNick
     THEN /\ nicks' = IF n = NULL THEN [nicks EXCEPT ![d] = NULL] ELSE nicks
          /\ Return(w)
     ELSE /\ nicks' = [nicks EXCEPT ![d] = IF @ = NULL THEN Garbage ELSE @]
          /\ Move(w, "copyNick") /\ UNCHANGED loopState
  /\ UNCHANGED <<kernel, sets, workers, users, tad, registered>>

(* strcpy                                                                  *)
CopyNick(w) ==
  /\ In(w, "copyNick")
  /\ IF get_nick(w) = NULL THEN Dies(w) /\ UNCHANGED nicks
     ELSE nicks' = [nicks EXCEPT ![Socket(w)] = frame[w].arg] /\ Return(w)
  /\ UNCHANGED <<kernel, sets, workers, users, tad, registered>>

-----------------------------------------------------------------------------
(* USER *)

ReadNick(w) ==
  /\ In(w, "user")
  /\ frame' = [frame EXCEPT ![w].seen = get_nick(w), ![w].at = "checkUser"]
  /\ UNCHANGED <<outside, tables, tad, registered>>

CheckUser(w) ==
  /\ In(w, "checkUser")
  /\ IF get_user(w) # NULL THEN Return(w)
                           ELSE Move(w, "addUser") /\ UNCHANGED loopState
  /\ UNCHANGED <<kernel, sets, workers, tables, tad, registered>>

(* Mutant: a user name in use is not refused.                              *)
AddUsedUser(w) ==
  LET u == frame[w].arg  n == frame[w].seen IN
  /\ In(w, "addUser")
  /\ \/ Return(w) /\ UNCHANGED account
     \/ /\ n \in Nick /\ ~NickTaken(n)
        /\ account' = [account EXCEPT ![u] = n]
        /\ Move(w, "setUser") /\ UNCHANGED loopState
  /\ UNCHANGED <<kernel, sets, workers, tables, away, channels, registered>>

(* IRCTADUser_Add: a user and a nick of its own, and it may refuse for the *)
(* real name, the host or the address (irc.c:87-118).                      *)
AddUser(w) ==
  LET u == frame[w].arg  n == frame[w].seen IN
  /\ In(w, "addUser")
  /\ \/ Return(w) /\ UNCHANGED account
     \/ /\ n \in Nick /\ account[u] = NULL /\ ~NickTaken(n)
        /\ account' = [account EXCEPT ![u] = n]
        /\ Move(w, "setUser") /\ UNCHANGED loopState
  /\ UNCHANGED <<kernel, sets, workers, tables, away, channels, registered>>

(* set_user, whose failure for a long name is not looked at.               *)
SetUser(w) ==
  LET u == frame[w].arg IN
  /\ In(w, "setUser")
  /\ IF u \in LongUser THEN UNCHANGED <<users, registered>>
     ELSE /\ users' = [users EXCEPT ![Socket(w)] = u]
          /\ registered' = [registered EXCEPT ![Client(w)] = u]
  /\ Return(w)
  /\ UNCHANGED <<kernel, sets, workers, nicks, tad>>

-----------------------------------------------------------------------------
(* The loop over the users of a channel in PRIVMSG, PART, KICK and QUIT:   *)
(* find the descriptor, block it, send, unblock it.                        *)

SkipsSender(w) == frame[w].cmd \in {"PRIVMSG", "QUIT"}

Relay(w) ==
  /\ In(w, "relay")
  /\ \/ /\ frame[w].rest = {}
        /\ IF frame[w].cmd = "QUIT" THEN Move(w, "quitChannels") /\ UNCHANGED loopState
                                    ELSE Return(w)
     \/ \E u \in frame[w].rest :
          LET d == get_socketd_byuser(u)
              sends == ~ (SkipsSender(w) /\ d = Socket(w)) IN
          /\ frame' = [frame EXCEPT ![w].rest = @ \ {u},
                                   ![w].to = IF sends THEN d ELSE @,
                                   ![w].at = IF sends THEN "relayBlock" ELSE @]
          /\ UNCHANGED loopState
  /\ UNCHANGED <<kernel, sets, workers, tables, tad, registered>>

RelayBlock(w) ==
  /\ In(w, "relayBlock")
  /\ connection_block(frame[w].to)
  /\ Move(w, "relayUnblock")
  /\ UNCHANGED <<kernel, connections, readable, workers, loopState, tables, tad, registered>>

(* tcpsocket_snd changes nothing in the server and is taken with this step. *)
RelayUnblock(w) ==
  /\ In(w, "relayUnblock")
  /\ connection_unblock(frame[w].to)
  /\ Move(w, "relay")
  /\ UNCHANGED <<kernel, connections, readable, workers, loopState, tables, tad, registered>>

-----------------------------------------------------------------------------
(* PRIVMSG *)

Privmsg(w) ==
  /\ In(w, "privmsg")
  /\ IF get_user(w) = NULL THEN Return(w)
     ELSE Move(w, "targets") /\ UNCHANGED loopState
  /\ UNCHANGED <<kernel, sets, workers, tables, tad, registered>>

(* IRCTAD_ListUsersOnChannel tells a channel from a nick.                  *)
ListTargets(w) ==
  LET target == frame[w].arg IN
  /\ In(w, "targets")
  /\ IF target = NULL THEN Return(w)
     ELSE /\ frame' = [frame EXCEPT
               ![w].at = IF target \in Channel THEN "relay" ELSE "findNick",
               ![w].rest = IF target \in Channel THEN members[target] ELSE {}]
          /\ UNCHANGED loopState
  /\ UNCHANGED <<kernel, sets, workers, tables, tad, registered>>

(* The first search only decides; the descriptor is searched again to send. *)
FindNick(w) ==
  /\ In(w, "findNick")
  /\ IF get_socketd_bynick(frame[w].arg) = 0 THEN Return(w)
     ELSE Move(w, "findNickAgain") /\ UNCHANGED loopState
  /\ UNCHANGED <<kernel, sets, workers, tables, tad, registered>>

FindNickAgain(w) ==
  /\ In(w, "findNickAgain")
  /\ frame' = [frame EXCEPT ![w].to = get_socketd_bynick(frame[w].arg),
                           ![w].at = "sendPrivate"]
  /\ UNCHANGED <<outside, tables, tad, registered>>

SendPrivate(w) ==
  /\ In(w, "sendPrivate")
  /\ Return(w)
  /\ UNCHANGED <<kernel, sets, workers, tables, tad, registered>>

-----------------------------------------------------------------------------
(* QUIT: _quit, with disc = 1 in a handler and disc = 0 in the loop.       *)

Quit(w) ==
  /\ In(w, "quit")
  /\ frame' = [frame EXCEPT
       ![w].at = "quitChannels",
       ![w].chans = {ch \in Channel : get_user(w) \in members[ch]}]
  /\ UNCHANGED <<outside, tables, tad, registered>>

(* Mutant: the loop's quit_disc leaves the account in libirctad.           *)
QuitSkipsTad(w) ==
  /\ In(w, "quitChannels")
  /\ \/ /\ frame[w].chans = {}
        /\ Move(w, IF w = Loop THEN "quitUser" ELSE "quitClose")
     \/ \E ch \in frame[w].chans :
          frame' = [frame EXCEPT ![w].chans = @ \ {ch},
                                 ![w].rest = members[ch], ![w].at = "relay"]
  /\ UNCHANGED <<outside, tables, tad, registered>>

QuitChannels(w) ==
  /\ In(w, "quitChannels")
  /\ \/ /\ frame[w].chans = {}
        /\ Move(w, IF w = Loop THEN "quitTad" ELSE "quitClose")
     \/ \E ch \in frame[w].chans :
          frame' = [frame EXCEPT ![w].chans = @ \ {ch},
                                 ![w].rest = members[ch], ![w].at = "relay"]
  /\ UNCHANGED <<outside, tables, tad, registered>>

QuitClose(w) ==
  /\ In(w, "quitClose")
  /\ tcpsocket_close(Socket(w))
  /\ Move(w, "quitRmv")
  /\ UNCHANGED <<peer, backlog, inbox, sent, sets, workers, loopState, tables, tad, registered>>

(* Mutant: the descriptor is closed a second time.                         *)
QuitClosesTwice(w) ==
  /\ In(w, "quitRmv")
  /\ tcpsocket_close(Socket(w))
  /\ connection_rmv(Socket(w))
  /\ Move(w, "quitTad")
  /\ UNCHANGED <<peer, backlog, inbox, sent, readable, blocked, workers, loopState, tables, tad, registered>>

QuitRmv(w) ==
  /\ In(w, "quitRmv")
  /\ connection_rmv(Socket(w))
  /\ Move(w, "quitTad")
  /\ UNCHANGED <<kernel, readable, blocked, workers, loopState, tables, tad, registered>>

(* IRCTAD_Quit: the account and its place on every channel.                *)
QuitTad(w) ==
  LET u == get_user(w) IN
  /\ In(w, "quitTad")
  /\ account' = [v \in User |-> IF v = u THEN NULL ELSE account[v]]
  /\ away' = away \ {u}
  /\ members' = [ch \in Channel |-> members[ch] \ {u}]
  /\ ops' = [ch \in Channel |-> ops[ch] \ {u}]
  /\ Move(w, "quitUser")
  /\ UNCHANGED <<outside, tables, guarded, topic, roster, registered>>

(* Mutant: the user is not forgotten.                                      *)
QuitKeepsUser(w) ==
  /\ In(w, "quitUser")
  /\ registered' = [registered EXCEPT ![Client(w)] = NULL]
  /\ Move(w, "quitNick")
  /\ UNCHANGED <<outside, tables, tad>>

(* set_user(socketd, NULL)                                                 *)
QuitUser(w) ==
  /\ In(w, "quitUser")
  /\ users' = [users EXCEPT ![Socket(w)] = NULL]
  /\ registered' = [registered EXCEPT ![Client(w)] = NULL]
  /\ Move(w, "quitNick")
  /\ UNCHANGED <<outside, nicks, tad>>

(* set_nick(socketd, NULL)                                                 *)
QuitNick(w) ==
  /\ In(w, "quitNick")
  /\ nicks' = [nicks EXCEPT ![Socket(w)] = NULL]
  /\ Return(w)
  /\ UNCHANGED <<kernel, sets, workers, users, tad, registered>>

SessionCommand(w) ==
  \/ AskRegistered(w) \/ ChangeNick(w) \/ SetNick(w) \/ CopyNick(w)
  \/ ReadNick(w) \/ CheckUser(w) \/ AddUser(w) \/ SetUser(w)
  \/ Relay(w) \/ RelayBlock(w) \/ RelayUnblock(w)
  \/ Privmsg(w) \/ ListTargets(w) \/ FindNick(w) \/ FindNickAgain(w) \/ SendPrivate(w)
  \/ Quit(w) \/ QuitChannels(w) \/ QuitClose(w) \/ QuitRmv(w)
  \/ QuitTad(w) \/ QuitUser(w) \/ QuitNick(w)

=============================================================================
