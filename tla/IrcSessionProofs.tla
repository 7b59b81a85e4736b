---------------------------- MODULE IrcSessionProofs ----------------------------
(***************************************************************************)
(* What the IRC server keeps of a client's session, as long as nothing     *)
(* happens of the two things that README shows to break it: a second       *)
(* handler that the loop starts for a client whose first is at work,       *)
(* because a relay has unblocked the descriptor, and commands that follow  *)
(* QUIT in one message.  At the end, that the loop never stalls in accept  *)
(* or recv, as long as no descriptor closes under a pass of its own or     *)
(* nobody has said QUIT.                                                   *)
(***************************************************************************)
EXTENDS IrcServerProofs

USE DEF At, Goto, In, Move, kernel, sets, threads, loopState, workers,
        outside, tables, channels, tad

(* The loop does not attend to a descriptor whose handler is at work.      *)
(* Relays unblock such descriptors; what counts is whether the loop comes  *)
(* by before the handler has ended.                                        *)
LoopSparesTheBusy ==
  At("scan") /\ Attends(i) => \A t \in Live : data[t].socketd # i

(* A handler that quits has no command left in its message.                *)
QuitsComeLast ==
  \A t \in Thread : ~In(t, "idle") /\ frame[t].cmd = "QUIT" => data[t].msg = <<>>

Undisturbed == LoopSparesTheBusy /\ QuitsComeLast

-----------------------------------------------------------------------------
(* The invariant *)

QuitLabel == {"quit", "quitChannels", "quitClose", "quitRmv", "quitTad",
              "quitUser", "quitNick"}
PastClose == {"quitRmv", "quitTad", "quitUser", "quitNick"}
LoopLabel == {"idle", "quit", "quitChannels", "relay", "relayBlock", "relayUnblock",
              "quitTad", "quitUser", "quitNick"}

(* The loop runs quit_disc only, which does not close; the timeout thread  *)
(* has no part in this specification.                                      *)
QuitsInv ==
  /\ In(Timer, "idle")
  /\ frame[Loop].at \in LoopLabel /\ frame[Loop].cmd = "QUIT"
  /\ \A t \in Thread : frame[t].at \in QuitLabel => frame[t].cmd = "QUIT"

(* The labels at which the loop attends to descriptor i, and those at      *)
(* which it holds what it received from it.                                *)
LoopAttends == {"recv", "block", "spawn", "rmv", "blockGone", "disconnect", "close",
                "unblock"}
LoopHolds == {"block", "spawn", "rmv", "blockGone", "disconnect", "close"}

(* Handlers work on descriptors of their own, and the loop attends to      *)
(* another one.                                                            *)
ApartInv ==
  /\ OneHandlerPerConnection
  /\ main \in LoopAttends => \A t \in Live : data[t].socketd # i

(* A connection is waiting once or has one descriptor.                     *)
QueueInv ==
  /\ \A j, k \in DOMAIN backlog : backlog[j] = backlog[k] => j = k
  /\ \A c \in Conn : Pending(c) => ~Accepted(c)
  /\ \A c \in Conn : Pending(c) \/ Accepted(c) => peer[c] # "idle"
  /\ \A d, e \in Fd : owner[d] = owner[e] /\ owner[d] # NoConn => d = e

Owns(t) == owner[data[t].socketd] = data[t].conn

(* A handler's descriptor denotes the connection of its message until its  *)
(* QUIT closes it; nobody else closes it, or what the loop has received    *)
(* from.                                                                   *)
HeldBy(t) ==
  /\ data[t].conn \in Conn /\ ~Pending(data[t].conn) /\ peer[data[t].conn] # "idle"
  /\ IF frame[t].at \in PastClose THEN ~Accepted(data[t].conn)
     ELSE \/ Owns(t)
          \/ In(t, "idle") /\ data[t].msg = <<>> /\ ~Accepted(data[t].conn)

HeldInv ==
  /\ \A t \in Live : HeldBy(t)
  /\ \A t, u \in Live : data[t].conn = data[u].conn => t = u
  /\ main \in LoopHolds => rcvd.conn \in Conn /\ owner[i] = rcvd.conn

SessionInv == CallsInv /\ QuitsInv /\ ApartInv /\ QueueInv /\ HeldInv

-----------------------------------------------------------------------------
(* Where a command goes *)

(* The steps of QUIT and of the relays it shares with other commands.      *)
QuitStep(w) ==
  \/ Quit(w) \/ QuitChannels(w) \/ QuitClose(w) \/ QuitRmv(w)
  \/ QuitTad(w) \/ QuitUser(w) \/ QuitNick(w)
RelayStep(w) == Relay(w) \/ RelayBlock(w) \/ RelayUnblock(w)

(* The others neither begin nor end at a label of QUIT.                    *)
LEMMA OtherSessionGoes ==
  ASSUME CallsInv, NEW w \in Worker, SessionCommand(w), ~QuitStep(w), ~RelayStep(w)
  PROVE  /\ frame[w].at \notin QuitLabel \cup LoopLabel
         /\ frame'[w].at \notin QuitLabel
         /\ frame'[w].cmd = "QUIT" => frame'[w] = Idle \/ frame[w].cmd = "QUIT"
<1>0. frame \in [Worker -> Frame] /\ frame[w] \in Frame
  BY DEF CallsInv, TypeOK
<1> USE DEF QuitLabel, LoopLabel
<1>1. CASE AskRegistered(w)
  <2>1. PICK label \in {"setNick", "changeNick"} : Move(w, label)
    BY <1>1 DEF AskRegistered
  <2>2. QED
    BY <1>0, <1>1, <2>1, Moves DEF AskRegistered, Label
<1>2. CASE ChangeNick(w) \/ SetNick(w) \/ CopyNick(w) \/ CheckUser(w) \/ AddUser(w)
  BY <1>0, <1>2, Moves, Returns
  DEF ChangeNick, SetNick, CopyNick, Dies, CheckUser, AddUser, Label
<1>3. CASE ReadNick(w)
  BY <1>0, <1>3 DEF ReadNick, Frame
<1>4. CASE SetUser(w) \/ SendPrivate(w) \/ FindNick(w)
  BY <1>0, <1>4, Moves, Returns DEF SetUser, SendPrivate, FindNick, Label
<1>8. CASE Privmsg(w)
  BY <1>0, <1>8, Moves, Returns DEF Privmsg, Label
<1>5. CASE ListTargets(w)
  <2>1. Return(w) \/ \E at \in {"relay", "findNick"}, rest \in SUBSET User :
            frame' = [frame EXCEPT ![w].at = at, ![w].rest = rest]
    BY <1>5 DEF ListTargets, CallsInv, TypeOK
  <2>2. QED
    BY <1>0, <1>5, <2>1, Returns DEF ListTargets, Frame
<1>6. CASE FindNickAgain(w)
  BY <1>0, <1>6 DEF FindNickAgain, Frame
<1>7. QED
  BY <1>1, <1>2, <1>3, <1>4, <1>5, <1>6, <1>8 DEF SessionCommand, QuitStep, RelayStep

(* Nor do the commands about channels.                                     *)
LEMMA ChannelGoes ==
  ASSUME CallsInv, NEW w \in Worker, ChannelCommand(w)
  PROVE  /\ frame[w].at \notin QuitLabel \cup LoopLabel
         /\ frame'[w].at \notin QuitLabel
         /\ frame'[w].cmd = "QUIT" => frame'[w] = Idle \/ frame[w].cmd = "QUIT"
<1>0. frame \in [Worker -> Frame] /\ frame[w] \in Frame
  BY DEF CallsInv, TypeOK
<1> USE DEF QuitLabel, LoopLabel
<1>1. CASE Join(w)
  BY <1>0, <1>1, Returns DEF Join, Frame
<1>2. CASE ListUsers(w)
  BY <1>0, <1>2 DEF ListUsers, Frame
<1>3. CASE Names(w)
  <2>1. Return(w) \/ Dies(w) \/ \E v \in frame[w].rest :
          frame' = [frame EXCEPT
                    ![w].rest = @ \ {v},
                    ![w].opt = IF frame[w].cmd = "JOIN" THEN v ELSE @,
                    ![w].at = IF frame[w].cmd = "JOIN" THEN "greet" ELSE @]
    BY <1>3 DEF Names
  <2>2. frame[w].at = "names"
    BY <1>3 DEF Names
  <2>3. CASE Return(w) \/ Dies(w)
    BY <1>0, <2>2, <2>3, Moves, Returns DEF Dies, Label
  <2>4. CASE \E v \in frame[w].rest :
               frame' = [frame EXCEPT
                    ![w].rest = @ \ {v},
                    ![w].opt = IF frame[w].cmd = "JOIN" THEN v ELSE @,
                    ![w].at = IF frame[w].cmd = "JOIN" THEN "greet" ELSE @]
    <3>1. frame'[w].at \in {"greet", "names"} /\ frame'[w].cmd = frame[w].cmd
      BY <1>0, <2>2, <2>4 DEF Frame
    <3>2. QED
      BY <2>2, <3>1
  <2>5. QED
    BY <2>1, <2>3, <2>4
<1>4. CASE Part(w) \/ Kick(w) \/ KickUser(w) \/ AskTopicMode(w) \/ Mode(w)
  BY <1>0, <1>4, Moves, Returns DEF Part, Kick, KickUser, AskTopicMode, Mode, Label
<1>5. CASE AskTopicRight(w)
  BY <1>0, <1>5 DEF AskTopicRight, Frame
<1>6. CASE AskAway(w)
  BY <1>0, <1>6 DEF AskAway, Frame
<1>7. CASE SetTopic(w) \/ SetMode(w) \/ SetAway(w) \/ List(w) \/ Ping(w)
  BY <1>0, <1>7, Returns DEF SetTopic, SetMode, SetAway, List, Ping, Answers
<1>9. CASE Greet(w) \/ AskModeRight(w)
  BY <1>0, <1>9, Moves, Returns DEF Greet, AskModeRight, Label
<1>10. CASE Whois(w) \/ WhoisChannels(w)
  BY <1>0, <1>10, Moves, Returns DEF Whois, WhoisChannels, Dies, Label
<1>8. QED
  BY <1>1, <1>2, <1>3, <1>4, <1>5, <1>6, <1>7, <1>9, <1>10 DEF ChannelCommand

(* The labels of QUIT follow one another, with the relays between them.    *)
LEMMA RelayGoes ==
  ASSUME CallsInv, NEW w \in Worker, RelayStep(w)
  PROVE  /\ frame[w].at \in {"relay", "relayBlock", "relayUnblock"}
         /\ frame'[w] = Idle \/ frame'[w].cmd = frame[w].cmd
         /\ \/ frame'[w].at \in {"idle", "relay", "relayBlock", "relayUnblock"}
            \/ frame'[w].at = "quitChannels" /\ frame[w].cmd = "QUIT"
<1>0. frame \in [Worker -> Frame] /\ frame[w] \in Frame
  BY DEF CallsInv, TypeOK
<1>1. CASE Relay(w)
  <2>1. CASE frame[w].rest = {}
    BY <1>0, <1>1, <2>1, Moves, Returns DEF Relay, Label
  <2>2. CASE frame[w].rest # {}
    <3>1. PICK u \in frame[w].rest :
            LET d == get_socketd_byuser(u)
                sends == ~ (SkipsSender(w) /\ d = Socket(w)) IN
            frame' = [frame EXCEPT ![w].rest = @ \ {u},
                                   ![w].to = IF sends THEN d ELSE @,
                                   ![w].at = IF sends THEN "relayBlock" ELSE @]
      BY <1>1, <2>2 DEF Relay
    <3>2. In(w, "relay")
      BY <1>1 DEF Relay
    <3>3. CASE SkipsSender(w) /\ get_socketd_byuser(u) = Socket(w)
      <4>1. frame' = [frame EXCEPT ![w] =
               [frame[w] EXCEPT !.rest = @ \ {u}, !.to = @, !.at = @]]
        BY <1>0, <3>1, <3>3
      <4>2. QED
        BY <1>0, <3>2, <4>1 DEF Frame
    <3>4. CASE ~ (SkipsSender(w) /\ get_socketd_byuser(u) = Socket(w))
      <4>1. PICK d : frame' = [frame EXCEPT ![w].rest = @ \ {u}, ![w].to = d,
                                            ![w].at = "relayBlock"]
        BY <3>1, <3>4
      <4>2. frame' = [frame EXCEPT ![w] =
               [frame[w] EXCEPT !.rest = @ \ {u}, !.to = d, !.at = "relayBlock"]]
        BY <1>0, <4>1
      <4>3. QED
        BY <1>0, <3>2, <4>2 DEF Frame
    <3>5. QED
      BY <3>3, <3>4
  <2>3. QED
    BY <2>1, <2>2
<1>2. CASE RelayBlock(w) \/ RelayUnblock(w)
  BY <1>0, <1>2, Moves DEF RelayBlock, RelayUnblock, Label
<1>3. QED
  BY <1>1, <1>2 DEF RelayStep

(* The steps of QUIT follow one another: in a handler through the close,   *)
(* in the loop without it.                                                 *)
LEMMA QuitGoes ==
  ASSUME CallsInv, NEW w \in Worker, QuitStep(w)
  PROVE  /\ frame[w].at \in QuitLabel
         /\ Quit(w) => frame'[w].at = "quitChannels"
         /\ QuitChannels(w) => \/ frame'[w].at = "relay"
                               \/ frame'[w].at = IF w = Loop THEN "quitTad"
                                                             ELSE "quitClose"
         /\ QuitClose(w) => frame'[w].at = "quitRmv"
         /\ QuitRmv(w) => frame'[w].at = "quitTad"
         /\ QuitTad(w) => frame'[w].at = "quitUser"
         /\ QuitUser(w) => frame'[w].at = "quitNick"
         /\ QuitNick(w) => frame'[w] = Idle
         /\ frame'[w] = Idle \/ frame'[w].cmd = frame[w].cmd
<1>0. frame \in [Worker -> Frame] /\ frame[w] \in Frame
  BY DEF CallsInv, TypeOK
<1> USE DEF QuitLabel
<1>1. CASE Quit(w)
  BY <1>0, <1>1
  DEF Quit, Frame, QuitChannels, QuitClose, QuitRmv, QuitTad, QuitUser, QuitNick
<1>2. CASE QuitChannels(w)
  <2>1. CASE frame[w].chans = {}
    BY <1>0, <1>2, <2>1, Moves
    DEF Quit, QuitChannels, QuitClose, QuitRmv, QuitTad, QuitUser, QuitNick, Label
  <2>2. CASE frame[w].chans # {}
    <3>1. PICK ch \in frame[w].chans :
            frame' = [frame EXCEPT ![w].chans = @ \ {ch},
                                   ![w].rest = members[ch], ![w].at = "relay"]
      BY <1>2, <2>2 DEF QuitChannels
    <3>2. frame'[w].at = "relay" /\ frame'[w].cmd = frame[w].cmd
      BY <1>0, <3>1 DEF Frame
    <3>3. QED
      BY <1>2, <3>2
      DEF Quit, QuitChannels, QuitClose, QuitRmv, QuitTad, QuitUser, QuitNick
  <2>3. QED
    BY <2>1, <2>2
<1>3. CASE QuitClose(w) \/ QuitRmv(w) \/ QuitTad(w) \/ QuitUser(w)
  BY <1>0, <1>3, Moves
  DEF Quit, QuitChannels, QuitClose, QuitRmv, QuitTad, QuitUser, QuitNick, Label
<1>4. CASE QuitNick(w)
  BY <1>0, <1>4, Returns
  DEF Quit, QuitChannels, QuitClose, QuitRmv, QuitTad, QuitUser, QuitNick
<1>5. QED
  BY <1>1, <1>2, <1>3, <1>4 DEF QuitStep

(* What is neither QUIT nor a relay stays away from their labels.          *)
LEMMA OthersGo ==
  ASSUME CallsInv, NEW w \in Worker, ProcessCommand(w), ~QuitStep(w), ~RelayStep(w)
  PROVE  /\ frame[w].at \notin QuitLabel \cup LoopLabel
         /\ frame'[w].at \notin QuitLabel
         /\ frame'[w].cmd = "QUIT" => frame'[w] = Idle \/ frame[w].cmd = "QUIT"
BY OtherSessionGoes, ChannelGoes DEF ProcessCommand

(* The frame of a worker without a command.                                *)
LEMMA IdleIs == Idle.at = "idle" /\ Idle.cmd = "QUIT"
BY DEF Idle

(* A command begins at an entry, and only QUIT at that of QUIT.            *)
LEMMA CallLabels ==
  ASSUME NEW text \in Text
  PROVE  /\ Call(text).at # "idle" /\ Call(text).at \notin PastClose
         /\ Call(text).at \in QuitLabel => Call(text).at = "quit" /\ Call(text).cmd = "QUIT"
<1>1. text.cmd \in Command
  BY TextAssumption DEF WellFormed
<1>2. /\ Entry[text.cmd] \in {"nick", "user", "join", "list", "privmsg", "part", "kick",
                              "topic", "mode", "away", "whois", "quit", "reply"}
      /\ Entry[text.cmd] = "quit" => text.cmd = "QUIT"
  BY <1>1 DEF Command, Entry
<1>3. Call(text).at = Entry[text.cmd] /\ Call(text).cmd = text.cmd
  BY DEF Call, Idle
<1>4. QED
  BY <1>2, <1>3 DEF QuitLabel, PastClose

(* do_on_disconnect calls quit_disc.                                       *)
LEMMA QuitNowIs == Call(QuitNow).at = "quit" /\ Call(QuitNow).cmd = "QUIT"
BY DEF Call, QuitNow, Idle, Entry, Command

-----------------------------------------------------------------------------
(* Who quits *)

(* A command keeps to its own labels: only QUIT reaches those of QUIT, and *)
(* in the loop only without closing.                                       *)
LEMMA CommandQuits ==
  ASSUME CallsInv, QuitsInv, NEW w \in Worker, w # Timer, ProcessCommand(w)
  PROVE  QuitsInv'
<1>1. \A v \in Worker \ {w} : frame'[v] = frame[v]
  BY CommandCall DEF CallsInv, TypeOK
<1>2. Timer \in Worker /\ Loop \in Worker /\ \A t \in Thread : t \in Worker /\ t # Loop
  BY Givens DEF Worker
<1>3. frame'[w].at \in QuitLabel => frame'[w].cmd = "QUIT"
  <2>1. CASE QuitStep(w)
    BY <1>2, <2>1, QuitGoes, IdleIs DEF QuitsInv, QuitLabel, Worker
  <2>2. CASE RelayStep(w)
    BY <2>2, RelayGoes, IdleIs DEF QuitLabel
  <2>3. CASE ~QuitStep(w) /\ ~RelayStep(w)
    BY <2>3, OthersGo
  <2>4. QED
    BY <2>1, <2>2, <2>3
<1>4. w = Loop => frame'[w].at \in LoopLabel /\ frame'[w].cmd = "QUIT"
  <2>1. CASE QuitStep(w)
    BY <2>1, QuitGoes, IdleIs DEF QuitsInv, LoopLabel, QuitStep, QuitClose, QuitRmv
  <2>2. CASE RelayStep(w)
    BY <2>2, RelayGoes, IdleIs DEF QuitsInv, LoopLabel
  <2>3. CASE ~QuitStep(w) /\ ~RelayStep(w)
    BY <2>3, OthersGo DEF QuitsInv
  <2>4. QED
    BY <2>1, <2>2, <2>3
<1>5. QED
  BY <1>1, <1>2, <1>3, <1>4 DEF QuitsInv

(* QuitsInv is kept by every step.                                         *)
LEMMA NextQuits ==
  ASSUME CallsInv, QuitsInv, [Next]_vars
  PROVE  QuitsInv'
<1>0. /\ frame \in [Worker -> Frame] /\ data \in [Thread -> Data]
      /\ Timer \in Worker /\ Loop \in Worker /\ Loop # Timer
      /\ \A t \in Thread : t \in Worker /\ t # Loop /\ t # Timer
  BY Givens, IrcAssumption DEF Worker, CallsInv, TypeOK
<1>1. CASE UNCHANGED frame
  BY <1>1 DEF QuitsInv
<1>2. CASE do_on_disconnect
  BY <1>0, <1>2, QuitNowIs DEF do_on_disconnect, QuitsInv, LoopLabel
<1>3. CASE ProcessCommand(Loop)
  BY <1>0, <1>3, CommandQuits
<1>4. ASSUME NEW t \in Thread, Handler(t)
      PROVE  QuitsInv'
  <2>1. CASE NextCommand(t)
    <3>1. Head(data[t].msg) \in Text
      BY <1>0, <2>1, HeadTailProperties, EmptySeq DEF NextCommand, Data
    <3>2. QED
      BY <1>0, <2>1, <3>1, CallLabels DEF NextCommand, QuitsInv
  <2>2. QED
    BY <1>0, <1>1, <1>4, <2>1, CommandQuits DEF Handler, HandlerEnds
<1>5. QED
  BY <1>1, <1>2, <1>3, <1>4 DEF Next, ServerLoop, vars

-----------------------------------------------------------------------------
(* Handlers are apart *)

(* A command starts no handler and does not move the loop to another       *)
(* descriptor.                                                             *)
LEMMA CommandApart ==
  ASSUME ApartInv, NEW w \in Worker, ProcessCommand(w), w = Loop => At("disconnect")
  PROVE  ApartInv'
<1>1. /\ UNCHANGED <<pc, data, i>>
      /\ UNCHANGED main \/ (At("disconnect") /\ main' = "close")
  BY CommandKeeps
<1>2. QED
  BY <1>1 DEF ApartInv, OneHandlerPerConnection, Live, LoopAttends

(* The loop gives a new thread a descriptor that no other handler works on *)
(* since the loop attended to it.                                          *)
LEMMA LoopApart ==
  ASSUME CallsInv, ApartInv, LoopSparesTheBusy, MainLoop
  PROVE  ApartInv'
<1>0. /\ pc \in [Thread -> HandlerState] /\ data \in [Thread -> Data]
      /\ main \in LoopAttends \ {"recv"} => rcvd.socketd = i
  BY DEF CallsInv, TypeOK, ServedInv, LoopAttends
<1> USE DEF ApartInv, OneHandlerPerConnection, Live, LoopAttends
<1>1. CASE StartHandler
  <2>1. PICK t \in Thread : /\ pc[t] = "free"
                           /\ pc' = [pc EXCEPT ![t] = "start"]
                           /\ data' = [data EXCEPT ![t] = rcvd]
    BY <1>1 DEF StartHandler
  <2>2. Live' = Live \cup {t} /\ t \notin Live /\ data'[t].socketd = i
        /\ \A u \in Live : data'[u] = data[u]
    BY <1>0, <1>1, <2>1 DEF StartHandler
  <2>3. main' \notin LoopAttends /\ At("spawn")
    BY <1>1 DEF StartHandler, NextDescriptor
  <2>4. QED
    BY <2>2, <2>3
<1>2. CASE Scan
  BY <1>2 DEF Scan, LoopSparesTheBusy, NextDescriptor
<1>3. CASE BlockConnection \/ BlockGone \/ UnblockClosed
  BY <1>3 DEF BlockConnection, BlockGone, UnblockClosed, NextDescriptor
<1>4. CASE CopyConnections \/ Select \/ Accept \/ AddAccepted
  BY <1>4 DEF CopyConnections, Select, Accept, AddAccepted, NextDescriptor
<1>5. CASE \/ ReceiveData \/ ReceiveClosed \/ ReceiveReset \/ ReceiveBadFd
           \/ RemoveClosed \/ CloseDescriptor \/ RemoveClosedAgain
  BY <1>5 DEF ReceiveData, ReceiveClosed, ReceiveReset, ReceiveBadFd, RemoveClosed,
     CloseDescriptor, RemoveClosedAgain, NextDescriptor
<1>6. QED
  BY <1>1, <1>2, <1>3, <1>4, <1>5 DEF MainLoop

(* ApartInv is kept by every step.                                         *)
LEMMA NextApart ==
  ASSUME CallsInv, ApartInv, LoopSparesTheBusy, [Next]_vars
  PROVE  ApartInv'
<1>0. pc \in [Thread -> HandlerState] /\ data \in [Thread -> Data]
  BY DEF CallsInv, TypeOK
<1>1. CASE UNCHANGED <<threads, loopState>>
  BY <1>1 DEF ApartInv, OneHandlerPerConnection, Live
<1>2. CASE MainLoop
  BY <1>2, LoopApart
<1>3. CASE ProcessCommand(Loop)
  <2>1. At("disconnect")
    BY <1>3, CommandAt DEF CallsInv, ServedInv
  <2>2. QED
    BY <1>3, <2>1, CommandApart DEF Worker
<1>4. ASSUME NEW t \in Thread, Handler(t)
      PROVE  ApartInv'
  <2>1. CASE NextCommand(t)
    <3>1. \A u \in Thread : pc'[u] = pc[u] /\ data'[u].socketd = data[u].socketd
      BY <1>0, <2>1 DEF NextCommand, Data
    <3>2. QED
      BY <2>1, <3>1 DEF NextCommand, ApartInv, OneHandlerPerConnection, Live
  <2>2. CASE HandlerEnds(t)
    <3>1. t \in Live /\ Live' = Live \ {t} /\ \A u \in Live' : data'[u] = data[u]
      BY <1>0, <2>2 DEF HandlerEnds, Live
    <3>2. UNCHANGED <<main, i>>
      BY <2>2 DEF HandlerEnds
    <3>3. QED
      BY <3>1, <3>2 DEF ApartInv, OneHandlerPerConnection
  <2>3. CASE ProcessCommand(t)
    BY <2>3, CommandApart, Givens DEF Worker
  <2>4. QED
    BY <1>4, <2>1, <2>2, <2>3 DEF Handler
<1>5. QED
  BY <1>1, <1>2, <1>3, <1>4 DEF Next, ServerLoop, vars, Clients, Connect, ClientSend,
     ClientShutdown, ClientReset, do_on_disconnect

-----------------------------------------------------------------------------
(* The waiting and the accepted connections *)

(* Whatever leaves backlog and owner alone keeps QueueInv.                 *)
LEMMA QueueUnchanged ==
  ASSUME CallsInv, QueueInv, UNCHANGED <<backlog, owner>>,
         \A c \in Conn : peer[c] # "idle" => peer'[c] # "idle"
  PROVE  QueueInv'
BY DEF QueueInv, Pending, Accepted

(* So does a close.                                                        *)
LEMMA QueueLetsGo ==
  ASSUME CallsInv, QueueInv, UNCHANGED <<backlog, peer>>,
         NEW d \in Fd, owner' = [owner EXCEPT ![d] = NoConn]
  PROVE  QueueInv'
<1>1. \A c \in Conn : (Pending(c)' <=> Pending(c)) /\ (Accepted(c)' => Accepted(c))
  BY ConnectionsAssumption DEF Pending, Accepted, CallsInv, TypeOK
<1>2. \A e, f \in Fd : owner'[e] = owner'[f] /\ owner'[e] # NoConn => e = f
  BY DEF QueueInv, CallsInv, TypeOK
<1>3. QED
  BY <1>1, <1>2 DEF QueueInv

(* The clients open no descriptor and are not put back in the backlog.     *)
LEMMA ClientsQueue ==
  ASSUME CallsInv, QueueInv, Clients
  PROVE  /\ QueueInv' /\ UNCHANGED owner
         /\ \A c \in Conn : peer[c] # "idle" =>
              peer'[c] # "idle" /\ (Pending(c)' => Pending(c))
<1>0. peer \in [Conn -> PeerState] /\ backlog \in Seq(Conn)
  BY DEF CallsInv, TypeOK
<1>1. PICK c \in Conn : \/ Connect(c) \/ ClientSend(c)
                        \/ ClientShutdown(c) \/ ClientReset(c)
  BY DEF Clients
<1>2. CASE Connect(c)
  <2>1. /\ DOMAIN backlog' = 1 .. Len(backlog) + 1
        /\ \A k \in 1 .. Len(backlog) : backlog'[k] = backlog[k]
        /\ backlog'[Len(backlog) + 1] = c
        /\ DOMAIN backlog = 1 .. Len(backlog) /\ Len(backlog) \in Nat
    BY <1>0, <1>2, AppendProperties, LenProperties DEF Connect
  <2>2. ~ Pending(c) /\ ~ Accepted(c) /\ owner' = owner
    BY <1>2 DEF Connect, QueueInv
  <2>3. \A b \in Conn : /\ Pending(b)' <=> Pending(b) \/ b = c
                        /\ Accepted(b)' <=> Accepted(b)
    BY <2>1, <2>2 DEF Pending, Accepted
  <2>4. \A j, k \in DOMAIN backlog' : backlog'[j] = backlog'[k] => j = k
    BY <2>1, <2>2 DEF QueueInv, Pending
  <2>5. \A b \in Conn : peer'[b] # "idle" <=> peer[b] # "idle" \/ b = c
    BY <1>0, <1>2 DEF Connect
  <2>6. peer[c] = "idle"
    BY <1>2 DEF Connect
  <2>7. QED
    BY <2>2, <2>3, <2>4, <2>5, <2>6 DEF QueueInv
<1>3. CASE ~ Connect(c)
  <2>1. UNCHANGED <<backlog, owner>>
    BY <1>1, <1>3 DEF ClientSend, ClientShutdown, ClientReset
  <2>2. \A b \in Conn : peer[b] # "idle" => peer'[b] # "idle"
    BY <1>0, <1>1, <1>3 DEF ClientSend, ClientShutdown, ClientReset
  <2>3. QED
    BY <2>1, <2>2, QueueUnchanged DEF Pending
<1>4. QED
  BY <1>2, <1>3

(* accept takes the oldest connection to a free descriptor.                *)
LEMMA AcceptQueue ==
  ASSUME CallsInv, QueueInv, Accept
  PROVE  /\ QueueInv'
         /\ \A c \in Conn : Pending(c)' => Pending(c)
         /\ \E d \in Fd, c \in Conn :
              /\ owner[d] = NoConn /\ Pending(c) /\ ~Pending(c)'
              /\ owner' = [owner EXCEPT ![d] = c]
<1>1. PICK d \in Fd : /\ owner[d] = NoConn
                      /\ owner' = [owner EXCEPT ![d] = Head(backlog)]
  BY DEF Accept, IsLowestFree
<1>2. /\ backlog # <<>> /\ backlog' = Tail(backlog) /\ peer' = peer
      /\ backlog \in Seq(Conn) /\ owner \in [Fd -> Conn \cup {NoConn}]
  BY DEF Accept, CallsInv, TypeOK
<1>3. /\ Len(backlog) \in Nat /\ Len(backlog) > 0
      /\ DOMAIN backlog = 1 .. Len(backlog)
      /\ DOMAIN backlog' = 1 .. Len(backlog) - 1
      /\ \A k \in 1 .. Len(backlog) - 1 : backlog'[k] = backlog[k + 1]
      /\ Head(backlog) = backlog[1] /\ Head(backlog) \in Conn
  BY <1>2, HeadTailProperties, LenProperties, EmptySeq
<1>4. Pending(Head(backlog))
  BY <1>3 DEF Pending
<1>5. \A c \in Conn : Pending(c)' => Pending(c) /\ c # Head(backlog)
  BY <1>3 DEF Pending, QueueInv
<1>6. \A c \in Conn : Accepted(c)' => Accepted(c) \/ c = Head(backlog)
  BY <1>1, <1>2 DEF Accepted
<1>7. \A j, k \in DOMAIN backlog' : backlog'[j] = backlog'[k] => j = k
  BY <1>3 DEF QueueInv
<1>8. \A e, f \in Fd : owner'[e] = owner'[f] /\ owner'[e] # NoConn => e = f
  BY <1>1, <1>2, <1>3, <1>4 DEF QueueInv, Accepted
<1>9. QueueInv'
  BY <1>2, <1>3, <1>4, <1>5, <1>6, <1>7, <1>8 DEF QueueInv
<1>10. QED
  BY <1>1, <1>3, <1>4, <1>5, <1>9

(* The loop's other steps.                                                 *)
LEMMA LoopQueue ==
  ASSUME CallsInv, QueueInv, MainLoop, ~Accept
  PROVE  /\ QueueInv' /\ UNCHANGED backlog
         /\ \/ UNCHANGED owner
            \/ CloseDescriptor /\ owner' = [owner EXCEPT ![i] = NoConn] /\ i \in Fd
         /\ \A c \in Conn : peer[c] # "idle" => peer'[c] # "idle"
<1>0. peer \in [Conn -> PeerState]
  BY DEF CallsInv, TypeOK
<1>1. CASE CloseDescriptor
  <2>1. owner' = [owner EXCEPT ![i] = NoConn] /\ UNCHANGED <<backlog, peer>> /\ i \in Fd
    BY <1>1 DEF CloseDescriptor, tcpsocket_close, CallsInv, ServedInv
  <2>2. QED
    BY <1>1, <2>1, QueueLetsGo
<1>2. CASE ReceiveReset
  BY <1>0, <1>2, QueueUnchanged DEF ReceiveReset
<1>3. CASE ~ CloseDescriptor /\ ~ ReceiveReset
  <2>1. UNCHANGED <<peer, backlog, owner>>
    BY <1>3 DEF MainLoop, CopyConnections, Select, Scan, AddAccepted, ReceiveData,
       ReceiveClosed, ReceiveBadFd, RemoveClosed, BlockGone, UnblockClosed,
       RemoveClosedAgain, BlockConnection, StartHandler
  <2>2. QED
    BY <2>1, QueueUnchanged
<1>4. QED
  BY <1>1, <1>2, <1>3

(* A command closes nothing but its own descriptor in QUIT.                *)
LEMMA CommandQueue ==
  ASSUME CallsInv, QueueInv, NEW w \in Worker, ProcessCommand(w)
  PROVE  /\ QueueInv' /\ UNCHANGED <<peer, backlog>>
         /\ IF QuitClose(w) THEN owner' = [owner EXCEPT ![Socket(w)] = NoConn]
                            ELSE UNCHANGED owner
<1>1. UNCHANGED <<peer, backlog>>
  BY CommandKeeps
<1>2. CASE QuitClose(w)
  <2>1. owner' = [owner EXCEPT ![Socket(w)] = NoConn] /\ Socket(w) \in Fd
    BY <1>2 DEF QuitClose, tcpsocket_close, CallsInv, CallInv
  <2>2. QED
    BY <1>1, <1>2, <2>1, QueueLetsGo
<1>3. CASE ~ QuitClose(w)
  <2>1. CASE SocketStep(w)
    BY <1>1, <1>3, <2>1, QueueUnchanged
    DEF SocketStep, QuitRmv, RelayBlock, RelayUnblock
  <2>2. CASE ~ SocketStep(w)
    BY <1>1, <1>3, <2>2, OthersKeepSockets, QueueUnchanged
  <2>3. QED
    BY <2>1, <2>2
<1>4. QED
  BY <1>2, <1>3

-----------------------------------------------------------------------------
(* What handlers and the loop hold *)

(* What the sockets do to a connection does not take it from its handler.  *)
Keeps(t) ==
  \A c \in Conn, d \in Fd : data[t].conn = c /\ data[t].socketd = d =>
    /\ Pending(c)' => Pending(c)
    /\ peer[c] # "idle" => peer'[c] # "idle"
    /\ owner[d] = c => owner'[d] = c
    /\ ~Accepted(c) /\ ~Pending(c) => ~Accepted(c)'

(* A handler that Keeps its connection still holds it.                     *)
LEMMA StillHeld ==
  ASSUME CallsInv, NEW t \in Live, HeldBy(t), Keeps(t),
         data'[t] = data[t], frame'[t] = frame[t]
  PROVE  HeldBy(t)'
<1>1. data[t].conn \in Conn /\ data[t].socketd \in Fd
  BY DEF HeldBy, CallsInv, ServedInv, Live
<1>2. PICK c \in Conn, d \in Fd : data[t].conn = c /\ data[t].socketd = d
  BY <1>1
<1>3. /\ ~Pending(c)' /\ peer'[c] # "idle"
      /\ owner[d] = c => owner'[d] = c
      /\ ~Accepted(c) => ~Accepted(c)'
  BY <1>2 DEF HeldBy, Keeps
<1>4. data'[t].conn = c /\ data'[t].socketd = d
  BY <1>2
<1>5. (~Pending(data[t].conn))' /\ (Accepted(data[t].conn)' <=> Accepted(c)')
      /\ (Accepted(data[t].conn) <=> Accepted(c))
  BY <1>2, <1>3, <1>4 DEF Pending, Accepted
<1>6. QED
  BY <1>2, <1>3, <1>4, <1>5 DEF HeldBy, Owns

(* A step that leaves the sockets alone keeps everything.                  *)
LEMMA SameSockets ==
  ASSUME UNCHANGED <<peer, backlog, owner>>, NEW t \in Thread
  PROVE  Keeps(t)
BY DEF Keeps, Pending, Accepted

(* The conn_data of a handler at work.                                     *)
LEMMA LiveData ==
  ASSUME CallsInv, NEW t \in Live
  PROVE  t \in Thread /\ t \in Worker /\ t # Loop /\ data[t].socketd \in Fd
         /\ data[t].socketd = Socket(t) /\ data[t].conn = Client(t)
BY Givens DEF CallsInv, ServedInv, Live, Worker, Socket, Client

(* The clients take nothing from a handler.                                *)
LEMMA ClientsHeld ==
  ASSUME CallsInv, QueueInv, HeldInv, Clients, UNCHANGED <<workers, loopState, frame>>
  PROVE  HeldInv'
<1>1. \A t \in Live : Keeps(t)
  BY ClientsQueue DEF HeldInv, HeldBy, Keeps, Accepted
<1>2. \A t \in Live : HeldBy(t)'
  BY <1>1, StillHeld DEF HeldInv, Live
<1>3. QED
  BY <1>2, ClientsQueue DEF HeldInv, Live

(* Neither does the loop: accept gives out a descriptor that is closed,    *)
(* and the close is of one that no handler works on.                       *)
LEMMA LoopHeld ==
  ASSUME CallsInv, ApartInv, QueueInv, HeldInv, MainLoop, UNCHANGED frame
  PROVE  HeldInv'
<1>0. /\ pc \in [Thread -> HandlerState] /\ data \in [Thread -> Data]
      /\ owner \in [Fd -> Conn \cup {NoConn}]
      /\ main \in LoopHolds => rcvd.socketd = i /\ i \in Fd
  BY DEF CallsInv, TypeOK, ServedInv, LoopHolds
<1>1. CASE Accept
  <2>1. PICK d \in Fd, c \in Conn :
          /\ owner[d] = NoConn /\ Pending(c) /\ ~Pending(c)'
          /\ owner' = [owner EXCEPT ![d] = c]
    BY <1>1, AcceptQueue
  <2>2. \A t \in Live : Keeps(t)
    <3>1. SUFFICES ASSUME NEW t \in Live PROVE Keeps(t)
      OBVIOUS
    <3>2. data[t].conn \in Conn /\ ~Pending(data[t].conn)
      BY DEF HeldInv, HeldBy
    <3>3. \A b \in Conn : Pending(b)' => Pending(b)
      BY <1>1, AcceptQueue
    <3>4. data[t].conn # c /\ data[t].conn # NoConn
      BY <2>1, <3>2, ConnectionsAssumption
    <3>5. UNCHANGED peer
      BY <1>1 DEF Accept
    <3>6. QED
      BY <1>0, <2>1, <3>2, <3>3, <3>4, <3>5 DEF Keeps, Accepted
  <2>3. UNCHANGED threads /\ main' = "add"
    BY <1>1 DEF Accept
  <2>4. \A t \in Live : HeldBy(t)'
    BY <2>2, <2>3, StillHeld DEF HeldInv, Live
  <2>5. QED
    BY <2>3, <2>4 DEF HeldInv, Live, LoopHolds
<1>2. CASE StartHandler
  <2>1. PICK t \in Thread : /\ pc[t] = "free"
                           /\ pc' = [pc EXCEPT ![t] = "start"]
                           /\ data' = [data EXCEPT ![t] = rcvd]
    BY <1>2 DEF StartHandler
  <2>2. /\ Live' = Live \cup {t} /\ t \notin Live /\ data'[t] = rcvd
        /\ \A u \in Live : data'[u] = data[u]
    BY <1>0, <2>1 DEF Live
  <2>3. /\ main' \notin LoopHolds /\ At("spawn")
        /\ UNCHANGED <<peer, backlog, owner>>
    BY <1>2 DEF StartHandler, NextDescriptor, LoopHolds
  <2>4. rcvd.conn \in Conn /\ owner[i] = rcvd.conn /\ rcvd.socketd = i /\ i \in Fd
    BY <1>0, <2>3 DEF HeldInv, LoopHolds
  <2>5. ~Pending(rcvd.conn) /\ peer[rcvd.conn] # "idle" /\ Accepted(rcvd.conn)
    BY <2>4 DEF QueueInv, Accepted
  <2>6. In(t, "idle")
    BY <2>1 DEF CallsInv, ServedInv
  <2>7. HeldBy(t)'
    BY <2>2, <2>3, <2>4, <2>5, <2>6 DEF HeldBy, Owns, PastClose, Pending
  <2>8. \A u \in Live : HeldBy(u)'
    <3>1. SUFFICES ASSUME NEW u \in Live PROVE HeldBy(u)'
      OBVIOUS
    <3>2. u \in Thread /\ HeldBy(u) /\ data'[u] = data[u] /\ frame'[u] = frame[u]
      BY <2>2 DEF HeldInv, Live
    <3>3. QED
      BY <2>3, <3>2, SameSockets, StillHeld
  <2>9. \A u \in Live : data[u].conn # rcvd.conn
    <3>1. SUFFICES ASSUME NEW u \in Live, data[u].conn = rcvd.conn PROVE FALSE
      OBVIOUS
    <3>2. Owns(u) /\ data[u].socketd \in Fd
      BY <2>5, <3>1, LiveData DEF HeldInv, HeldBy
    <3>3. data[u].socketd = i
      BY <2>4, <3>1, <3>2, ConnectionsAssumption DEF Owns, QueueInv
    <3>4. QED
      BY <2>3, <3>3 DEF ApartInv, LoopAttends
  <2>10. QED
    BY <2>2, <2>3, <2>7, <2>8, <2>9 DEF HeldInv
<1>3. CASE ~ Accept /\ ~ StartHandler
  <2>1. UNCHANGED threads
    BY <1>3 DEF MainLoop, CopyConnections, Select, Scan, AddAccepted, ReceiveData,
       ReceiveClosed, ReceiveReset, ReceiveBadFd, RemoveClosed, BlockGone,
       CloseDescriptor, UnblockClosed, RemoveClosedAgain, BlockConnection
  <2>2. \A t \in Live : Keeps(t)
    <3>1. SUFFICES ASSUME NEW t \in Live PROVE Keeps(t)
      OBVIOUS
    <3>2. data[t].conn \in Conn /\ data[t].socketd \in Fd
      BY LiveData DEF HeldInv, HeldBy
    <3>3. CloseDescriptor => data[t].socketd # i
      BY DEF CloseDescriptor, ApartInv, LoopAttends
    <3>4. \/ UNCHANGED owner
          \/ /\ owner' = [owner EXCEPT ![i] = NoConn] /\ i \in Fd
             /\ data[t].socketd # i /\ data[t].conn # NoConn
      BY <1>3, <3>2, <3>3, LoopQueue, ConnectionsAssumption
    <3>5. UNCHANGED backlog /\ \A c \in Conn : peer[c] # "idle" => peer'[c] # "idle"
      BY <1>3, LoopQueue
    <3>6. QED
      BY <1>0, <3>2, <3>4, <3>5, ConnectionsAssumption DEF Keeps, Accepted, Pending
  <2>3. \A t \in Live : HeldBy(t)'
    BY <2>1, <2>2, StillHeld DEF HeldInv, Live
  <2>4. main' \in LoopHolds => rcvd'.conn \in Conn /\ owner'[i'] = rcvd'.conn
    <3>1. CASE ReceiveData \/ ReceiveClosed
      BY <1>0, <3>1 DEF ReceiveData, ReceiveClosed, Open
    <3>2. CASE RemoveClosed \/ BlockGone \/ BlockConnection
      BY <3>2 DEF RemoveClosed, BlockGone, BlockConnection, HeldInv, LoopHolds
    <3>3. CASE /\ ~ (ReceiveData \/ ReceiveClosed)
               /\ ~ (RemoveClosed \/ BlockGone \/ BlockConnection)
      BY <1>3, <3>3 DEF MainLoop, CopyConnections, Select, Scan, AddAccepted, ReceiveReset,
         ReceiveBadFd, CloseDescriptor, UnblockClosed, RemoveClosedAgain, NextDescriptor,
         LoopHolds
    <3>4. QED
      BY <3>1, <3>2, <3>3
  <2>5. QED
    BY <2>1, <2>3, <2>4 DEF HeldInv, Live
<1>4. QED
  BY <1>1, <1>2, <1>3

(* Where a handler's own command leaves it.                                *)
LEMMA OwnCommandHeld ==
  ASSUME SessionInv, QuitsComeLast, NEW t \in Live, ProcessCommand(t)
  PROVE  HeldBy(t)'
<1>0. /\ t \in Thread /\ t \in Worker /\ t # Loop /\ data[t].socketd \in Fd
      /\ Socket(t) = data[t].socketd /\ ~In(t, "idle")
      /\ owner \in [Fd -> Conn \cup {NoConn}]
      /\ CallsInv /\ QueueInv
  BY LiveData, CommandAt DEF SessionInv, CallsInv, TypeOK
<1>1. /\ HeldBy(t) /\ data' = data /\ UNCHANGED <<peer, backlog>>
  BY <1>0, CommandKeeps DEF SessionInv, HeldInv
<1>2. frame[t].at \notin PastClose => Owns(t)
  BY <1>0, <1>1 DEF HeldBy
<1>3. CASE QuitClose(t)
  <2>1. owner' = [owner EXCEPT ![data[t].socketd] = NoConn]
    BY <1>0, <1>3, CommandQueue
  <2>2. frame'[t].at = "quitRmv" /\ frame[t].at = "quitClose"
    BY <1>0, <1>3, QuitGoes DEF QuitStep, QuitClose
  <2>3. Owns(t)
    BY <1>2, <2>2 DEF PastClose
  <2>4. \A d \in Fd : owner'[d] # data[t].conn
    BY <1>0, <1>1, <2>1, <2>3, ConnectionsAssumption DEF HeldBy, Owns, QueueInv
  <2>5. QED
    BY <1>1, <2>2, <2>4 DEF HeldBy, PastClose, Pending, Accepted
<1>4. CASE ~ QuitClose(t)
  <2>1. UNCHANGED owner
    BY <1>0, <1>4, CommandQueue
  <2>2. \/ frame[t].at \in PastClose /\ frame'[t].at \in PastClose
        \/ frame[t].at \in PastClose /\ frame'[t] = Idle /\ data[t].msg = <<>>
        \/ frame[t].at \notin PastClose /\ frame'[t].at \notin PastClose
    <3>1. CASE QuitNick(t)
      <4>1. frame[t].at = "quitNick" /\ frame[t].cmd = "QUIT"
        BY <1>0, <3>1 DEF QuitNick, SessionInv, QuitsInv, QuitLabel
      <4>2. frame'[t] = Idle
        BY <1>0, <3>1, QuitGoes DEF QuitStep
      <4>3. QED
        BY <1>0, <4>1, <4>2 DEF QuitsComeLast, PastClose
    <3>2. CASE QuitRmv(t) \/ QuitTad(t) \/ QuitUser(t)
      <4>1. frame[t].at \in PastClose
        BY <3>2 DEF QuitRmv, QuitTad, QuitUser, PastClose
      <4>2. frame'[t].at \in PastClose
        BY <1>0, <3>2, QuitGoes DEF QuitStep, PastClose
      <4>3. QED
        BY <4>1, <4>2
    <3>3. CASE Quit(t) \/ QuitChannels(t)
      <4>1. frame[t].at \notin PastClose
        BY <3>3 DEF Quit, QuitChannels, PastClose
      <4>2. frame'[t].at \notin PastClose
        BY <1>0, <3>3, QuitGoes DEF QuitStep, PastClose
      <4>3. QED
        BY <4>1, <4>2
    <3>4. CASE RelayStep(t)
      BY <1>0, <3>4, RelayGoes DEF PastClose
    <3>5. CASE ~QuitStep(t) /\ ~RelayStep(t)
      BY <1>0, <3>5, OthersGo DEF PastClose, QuitLabel
    <3>6. QED
      BY <1>4, <3>1, <3>2, <3>3, <3>4, <3>5 DEF QuitStep
  <2>3. QED
    BY <1>1, <1>2, <2>1, <2>2, IdleIs DEF HeldBy, Owns, Accepted, Pending, PastClose
<1>5. QED
  BY <1>3, <1>4

(* And the others: it closes no descriptor of theirs.                      *)
LEMMA CommandHeld ==
  ASSUME SessionInv, QuitsComeLast, NEW w \in Worker, ProcessCommand(w),
         w \in Live \/ (w = Loop /\ At("disconnect"))
  PROVE  HeldInv'
<1>0. CallsInv /\ ApartInv /\ QueueInv /\ HeldInv
      /\ owner \in [Fd -> Conn \cup {NoConn}]
  BY DEF SessionInv, CallsInv, TypeOK
<1>1. /\ UNCHANGED <<peer, backlog, pc, data, i, rcvd>>
      /\ UNCHANGED main \/ (At("disconnect") /\ main' = "close")
      /\ \A v \in Worker \ {w} : frame'[v] = frame[v]
  <2>1. CallsInv /\ frame \in [Worker -> Frame]
    BY <1>0 DEF CallsInv, TypeOK
  <2>2. \A v \in Worker \ {w} : frame'[v] = frame[v]
    BY <2>1, CommandCall
  <2>3. QED
    BY <2>2, CommandKeeps, IrcAssumption DEF Live
<1>2. \/ UNCHANGED owner
      \/ /\ QuitClose(w) /\ w \in Live
         /\ owner' = [owner EXCEPT ![data[w].socketd] = NoConn]
         /\ data[w].socketd \in Fd
  <2>1. ~ (w = Loop /\ QuitClose(w))
    BY DEF QuitClose, SessionInv, QuitsInv, LoopLabel
  <2>2. QED
    BY <1>0, <2>1, CommandQueue, LiveData
<1>3. \A t \in Live \ {w} : HeldBy(t)'
  <2>1. SUFFICES ASSUME NEW t \in Live \ {w} PROVE HeldBy(t)'
    OBVIOUS
  <2>2. t \in Thread /\ data[t].conn \in Conn /\ data[t].socketd \in Fd /\ HeldBy(t)
    BY <1>0, LiveData DEF HeldInv, HeldBy
  <2>3. w \in Live => data[w].socketd # data[t].socketd
    BY <1>0, <2>1 DEF ApartInv, OneHandlerPerConnection
  <2>4. Keeps(t)
    BY <1>0, <1>1, <1>2, <2>2, <2>3, ConnectionsAssumption
    DEF Keeps, Accepted, Pending
  <2>5. QED
    BY <1>0, <1>1, <2>2, <2>4, StillHeld DEF Worker
<1>4. \A t \in Live : HeldBy(t)'
  BY <1>3, OwnCommandHeld
<1>5. main' \in LoopHolds => rcvd'.conn \in Conn /\ owner'[i'] = rcvd'.conn
  <2>1. main \in LoopHolds => \A t \in Live : data[t].socketd # i
    BY <1>0 DEF ApartInv, LoopHolds, LoopAttends
  <2>2. main' \in LoopHolds => main \in LoopHolds
    BY <1>1 DEF LoopHolds
  <2>3. main \in LoopHolds => i \in Fd /\ rcvd.conn \in Conn /\ owner[i] = rcvd.conn
    BY <1>0 DEF CallsInv, ServedInv, HeldInv, LoopHolds
  <2>4. QED
    BY <1>0, <1>1, <1>2, <2>1, <2>2, <2>3
<1>6. QED
  BY <1>0, <1>1, <1>4, <1>5 DEF HeldInv, Live

(* A handler takes its next command, or ends, or runs a command.           *)
LEMMA HandlerHeld ==
  ASSUME SessionInv, QuitsComeLast, NEW t \in Thread, Handler(t)
  PROVE  HeldInv'
<1>0. /\ pc \in [Thread -> HandlerState] /\ data \in [Thread -> Data]
      /\ frame \in [Worker -> Frame] /\ t \in Worker
      /\ CallsInv /\ ApartInv /\ QueueInv /\ HeldInv
  BY DEF SessionInv, CallsInv, TypeOK, Worker
<1>1. CASE NextCommand(t)
  <2>1. /\ t \in Live /\ In(t, "idle") /\ data[t].msg # <<>> /\ Head(data[t].msg) \in Text
        /\ frame' = [frame EXCEPT ![t] = Call(Head(data[t].msg))]
    BY <1>0, <1>1, HeadTailProperties, EmptySeq DEF NextCommand, Data, Live
  <2>2. /\ UNCHANGED <<peer, backlog, owner, pc, main, i, rcvd>>
        /\ \A u \in Thread : /\ data'[u].socketd = data[u].socketd
                             /\ data'[u].conn = data[u].conn
                             /\ u # t => data'[u] = data[u]
    BY <1>0, <1>1 DEF NextCommand, Data
  <2>3. frame'[t].at \notin PastClose
    BY <1>0, <2>1, CallLabels
  <2>4. HeldBy(t) /\ Owns(t)
    BY <1>0, <2>1 DEF HeldInv, HeldBy, PastClose
  <2>5. HeldBy(t)'
    BY <2>2, <2>3, <2>4 DEF HeldBy, Owns, Pending
  <2>6. \A u \in Live \ {t} : HeldBy(u)'
    <3>1. SUFFICES ASSUME NEW u \in Live \ {t} PROVE HeldBy(u)'
      OBVIOUS
    <3>2. u \in Thread /\ u \in Live /\ HeldBy(u) /\ data'[u] = data[u]
          /\ frame'[u] = frame[u]
      BY <1>0, <2>1, <2>2 DEF HeldInv, Live, Worker
    <3>3. QED
      BY <1>0, <2>2, <3>2, SameSockets, StillHeld
  <2>7. QED
    BY <1>0, <2>2, <2>5, <2>6 DEF HeldInv, Live
<1>2. CASE HandlerEnds(t)
  <2>1. /\ Live' = Live \ {t} /\ \A u \in Live' : data'[u] = data[u]
        /\ UNCHANGED <<peer, backlog, owner, frame, main, i, rcvd>>
    BY <1>0, <1>2 DEF HandlerEnds, Live
  <2>2. \A u \in Live' : HeldBy(u)'
    <3>1. SUFFICES ASSUME NEW u \in Live' PROVE HeldBy(u)'
      OBVIOUS
    <3>2. u \in Thread /\ u \in Live /\ HeldBy(u) /\ data'[u] = data[u]
          /\ frame'[u] = frame[u]
      BY <1>0, <2>1 DEF HeldInv, Live
    <3>3. QED
      BY <1>0, <2>1, <3>2, SameSockets, StillHeld
  <2>3. QED
    BY <1>0, <2>1, <2>2 DEF HeldInv
<1>3. CASE ProcessCommand(t)
  <2>1. t \in Live
    BY <1>0, <1>3, CommandAt DEF CallsInv, ServedInv, Live
  <2>2. QED
    BY <1>0, <1>3, <2>1, CommandHeld
<1>4. QED
  BY <1>1, <1>2, <1>3 DEF Handler

-----------------------------------------------------------------------------
(* Sessions *)

(* The server starts in the invariant.                                     *)
LEMMA InitSession == Init => SessionInv
<1> SUFFICES ASSUME Init PROVE SessionInv
  OBVIOUS
<1>1. CallsInv /\ Loop \in Worker /\ Timer \in Worker /\ \A t \in Thread : t \in Worker
  BY InitCalls DEF Worker
<1>2. QuitsInv
  BY <1>1, IdleIs DEF Init, IrcInit, QuitsInv, LoopLabel, QuitLabel
<1>3. Live = {}
  BY DEF Init, ServerInit, Live
<1>4. ApartInv /\ HeldInv
  BY <1>3 DEF Init, ServerInit, ConnectionsInit, ApartInv, HeldInv, OneHandlerPerConnection,
     LoopAttends, LoopHolds
<1>5. QueueInv
  BY ConnectionsAssumption
  DEF Init, ServerInit, ConnectionsInit, QueueInv, Pending, Accepted
<1>6. QED
  BY <1>1, <1>2, <1>4, <1>5 DEF SessionInv

(* QueueInv is kept by every step.                                         *)
LEMMA NextQueue ==
  ASSUME CallsInv, QueueInv, [Next]_vars
  PROVE  QueueInv'
<1>1. CASE UNCHANGED <<peer, backlog, owner>>
  BY <1>1, QueueUnchanged
<1>2. CASE Clients
  BY <1>2, ClientsQueue
<1>3. CASE MainLoop
  BY <1>3, AcceptQueue, LoopQueue
<1>4. ASSUME NEW w \in Worker, ProcessCommand(w)
      PROVE  QueueInv'
  BY <1>4, CommandQueue
<1>5. QED
  BY <1>1, <1>2, <1>3, <1>4 DEF Next, ServerLoop, Handler, Worker, vars, do_on_disconnect,
     NextCommand, HandlerEnds

(* HeldInv is kept by every step.                                          *)
LEMMA NextHeld ==
  ASSUME SessionInv, QuitsComeLast, [Next]_vars
  PROVE  HeldInv'
<1>0. CallsInv /\ ApartInv /\ QueueInv /\ HeldInv /\ data \in [Thread -> Data]
      /\ frame \in [Worker -> Frame] /\ \A t \in Live : t \in Worker /\ t # Loop
  BY LiveData DEF SessionInv, CallsInv, TypeOK
<1>1. CASE UNCHANGED vars
  BY <1>0, <1>1 DEF vars, HeldInv, HeldBy, Live, Owns, Pending, Accepted
<1>2. CASE Clients /\ UNCHANGED <<sets, workers, loopState, tables, tad, frame,
                                  registered>>
  BY <1>0, <1>2, ClientsHeld
<1>3. CASE MainLoop /\ UNCHANGED <<timed, tables, tad, frame, registered>>
  BY <1>0, <1>3, LoopHeld
<1>4. CASE do_on_disconnect
  <2>1. /\ UNCHANGED <<peer, backlog, owner, pc, data, main, i, rcvd>>
        /\ \A t \in Live : frame'[t] = frame[t]
    BY <1>0, <1>4 DEF do_on_disconnect
  <2>2. \A t \in Live : HeldBy(t)'
    BY <1>0, <2>1, SameSockets, StillHeld DEF HeldInv, Live
  <2>3. QED
    BY <1>0, <2>1, <2>2 DEF HeldInv, Live
<1>5. CASE ProcessCommand(Loop)
  <2>1. At("disconnect")
    BY <1>0, <1>5, CommandAt DEF CallsInv, ServedInv
  <2>2. QED
    BY <1>5, <2>1, CommandHeld DEF Worker
<1>6. ASSUME NEW t \in Thread, Handler(t)
      PROVE  HeldInv'
  BY <1>6, HandlerHeld
<1>7. QED
  BY <1>1, <1>2, <1>3, <1>4, <1>5, <1>6 DEF Next, ServerLoop

(* The invariant is inductive as long as nothing disturbs the handlers.    *)
LEMMA NextSession ==
  SessionInv /\ Undisturbed /\ [Next]_vars => SessionInv'
<1> SUFFICES ASSUME SessionInv, Undisturbed, [Next]_vars PROVE SessionInv'
  OBVIOUS
<1>1. CallsInv /\ QuitsInv /\ ApartInv /\ QueueInv
  BY DEF SessionInv
<1>2. CallsInv'
  BY <1>1, NextCalls
<1>3. QuitsInv'
  BY <1>1, NextQuits
<1>4. ApartInv'
  BY <1>1, NextApart DEF Undisturbed
<1>5. QueueInv'
  BY <1>1, NextQueue
<1>6. HeldInv'
  BY NextHeld DEF Undisturbed
<1>7. QED
  BY <1>2, <1>3, <1>4, <1>5, <1>6 DEF SessionInv

(* The sessions of server.c and irc.c are sound throughout an undisturbed  *)
(* run: handlers are apart, and each holds the connection of its message.  *)
THEOREM SessionInvariance == Spec /\ []Undisturbed => []SessionInv
BY InitSession, NextSession, PTL DEF Spec

(* Blocking a descriptor in server_launch (server.c:239) until the handler *)
(* unblocks it keeps a second handler from it, in every run in which no    *)
(* relay unblocks the descriptor of a handler at work (irc.c:342, which    *)
(* finding 1 of README shows to happen).                                   *)
THEOREM HandlersApart == Spec /\ []Undisturbed => []OneHandlerPerConnection
<1>1. SessionInv => OneHandlerPerConnection
  BY DEF SessionInv, ApartInv
<1>2. QED
  BY <1>1, SessionInvariance, PTL

(* The descriptor that a handler works with denotes the connection its     *)
(* message came from until the QUIT of the handler itself closes it        *)
(* (irc.c:750): no close and accept in between gives the number to another *)
(* client, in every undisturbed run.                                       *)
THEOREM HandlersKeepConnections == Spec /\ []Undisturbed => []HandlerKeepsConnection
<1>1. SessionInv => HandlerKeepsConnection
  <2>1. SUFFICES ASSUME SessionInv, NEW t \in Live, frame[t].at \notin PastClose
                 PROVE  \/ data[t].socketd \in Open /\ owner[data[t].socketd] = data[t].conn
                        \/ data[t].msg = <<>> /\ In(t, "idle") /\ ~Accepted(data[t].conn)
    BY DEF HandlerKeepsConnection, PastClose
  <2>2. CallsInv /\ HeldBy(t) /\ data[t].conn # NoConn
    BY <2>1, ConnectionsAssumption DEF SessionInv, HeldInv, HeldBy
  <2>3. QED
    BY <2>1, <2>2, LiveData DEF HeldBy, Owns, Open
<1>2. QED
  BY <1>1, SessionInvariance, PTL

(* Who has a command or a message under way: handlers, and the loop when a *)
(* client has gone.                                                        *)
LEMMA ActiveWho ==
  ASSUME SessionInv, NEW w \in Active
  PROVE  /\ w \in Worker /\ w # Timer
         /\ w \in Live \/ (w = Loop /\ At("disconnect"))
<1>1. /\ In(Timer, "idle")
      /\ In(Loop, "idle") \/ At("disconnect")
  BY DEF SessionInv, QuitsInv, CallsInv, ServedInv
<1>2. w \in Live \/ (w = Loop /\ ~In(Loop, "idle"))
  BY <1>1 DEF Active
<1>3. QED
  BY <1>1, <1>2, IrcAssumption DEF Live, Worker

(* No two workers with a command or a message under way share a descriptor *)
LEMMA WorkersApart ==
  ASSUME SessionInv, NEW v \in Active, NEW w \in Active, Socket(v) = Socket(w)
  PROVE  v = w
<1>1. CallsInv /\ ApartInv
  BY DEF SessionInv
<1>2. At("disconnect") => Socket(Loop) = i /\ \A t \in Live : data[t].socketd # i
  BY <1>1, Givens DEF CallsInv, ServedInv, ApartInv, LoopAttends, Socket
<1>3. \A t \in Live : Socket(t) = data[t].socketd
  BY <1>1, LiveData
<1>4. QED
  BY <1>1, <1>2, <1>3, ActiveWho DEF ApartInv, OneHandlerPerConnection

(* When QUIT frees the buffers of a descriptor's user and nick             *)
(* (irc.c:758-759), no other worker works on that descriptor and may be    *)
(* reading them, in every undisturbed run.                                 *)
THEOREM QuitsFreeTheirOwn == Spec /\ []Undisturbed => []FreesUnreadBuffers
<1>1. SessionInv => FreesUnreadBuffers
  BY WorkersApart DEF FreesUnreadBuffers
<1>2. QED
  BY <1>1, SessionInvariance, PTL

(* A descriptor is closed by the loop for the connection whose end it      *)
(* received (server.c:227), or by the QUIT of the handler whose connection *)
(* it is (irc.c:750), in every undisturbed run.                            *)
THEOREM WorkersCloseTheirOwn == Spec /\ []Undisturbed => ClosesOwnConnection
<1> DEFINE Closes == \A d \in Fd : owner[d] # NoConn /\ owner'[d] # owner[d] =>
       \/ At("close") /\ owner[d] = rcvd.conn
       \/ \E w \in Active : In(w, "quitClose") /\ owner[d] = Client(w)
<1>1. SessionInv /\ [Next]_vars => [Closes]_vars
  <2>1. SUFFICES ASSUME SessionInv, Next, NEW d \in Fd,
                        owner[d] # NoConn, owner'[d] # owner[d]
                 PROVE  \/ At("close") /\ owner[d] = rcvd.conn
                        \/ \E w \in Active : In(w, "quitClose") /\ owner[d] = Client(w)
    OBVIOUS
  <2>2. CallsInv /\ QueueInv /\ HeldInv /\ owner \in [Fd -> Conn \cup {NoConn}]
    BY <2>1 DEF SessionInv, CallsInv, TypeOK
  <2>3. CASE Clients
    BY <2>1, <2>2, <2>3, ClientsQueue
  <2>4. CASE MainLoop
    <3>1. CASE Accept
      BY <2>1, <2>2, <3>1, AcceptQueue
    <3>2. CASE ~ Accept
      <4>1. CloseDescriptor /\ d = i
        BY <2>1, <2>2, <2>4, <3>2, LoopQueue
      <4>2. QED
        BY <2>2, <4>1 DEF CloseDescriptor, HeldInv, LoopHolds
    <3>3. QED
      BY <3>1, <3>2
  <2>5. ASSUME NEW w \in Worker, ProcessCommand(w), w # Timer
        PROVE  \E v \in Active : In(v, "quitClose") /\ owner[d] = Client(v)
    <3>1. QuitClose(w) /\ d = Socket(w) /\ In(w, "quitClose")
      BY <2>1, <2>2, <2>5, CommandQueue DEF QuitClose
    <3>2. w # Loop
      BY <2>1, <3>1 DEF SessionInv, QuitsInv, LoopLabel
    <3>3. w \in Live /\ w \in Active
      BY <2>2, <2>5, <3>1, <3>2 DEF CallsInv, ServedInv, Active, Live, Worker
    <3>4. Owns(w)
      BY <2>2, <3>1, <3>3 DEF HeldInv, HeldBy, PastClose
    <3>5. QED
      BY <2>2, <3>1, <3>2, <3>3, <3>4, LiveData DEF Owns
  <2>6. QED
    BY <2>1, <2>3, <2>4, <2>5, Givens, IrcAssumption
    DEF Next, ServerLoop, Handler, do_on_disconnect, NextCommand, HandlerEnds, Worker
<1>2. QED
  BY <1>1, SessionInvariance, PTL DEF Spec, ClosesOwnConnection

-----------------------------------------------------------------------------
(* What select reported is still there *)

(* select meets no closed descriptor, whose failure would leave every      *)
(* watched descriptor in readable.                                         *)
SelectsOpenDescriptors == At("select") => readable \ {Listener} \subseteq Open

(* The loop is at the listening descriptor: what accept opens may be one   *)
(* of those this pass has yet to visit.                                    *)
BeforeAccept == i = Listener /\ main \in {"scan", "accept"}

(* No QUIT closes a descriptor between the select that reported it and the *)
(* accept of the same pass, which would give its number to a client that   *)
(* has sent nothing.                                                       *)
QuitsSpareThePass ==
  BeforeAccept => \A w \in Worker : In(w, "quitClose") => Socket(w) \notin readable

PassesUndisturbed == SelectsOpenDescriptors /\ QuitsSpareThePass

(* The descriptors of the pass that the loop has yet to attend to.         *)
Ahead(d) == d > i \/ (d = i /\ main \in {"scan", "accept", "recv"})

(* Each of them is ready, or was closed after the accept of the pass, so   *)
(* that its number cannot be in use again.                                 *)
PassInv ==
  /\ main \in {"accept", "recv"} => i \in readable
  /\ main \notin {"copy", "select"} =>
       \A d \in readable : Ahead(d) =>
         Ready(d) \/ (d \in Fd \ Open /\ ~BeforeAccept)

(* What is added to a sequence does not empty it.                          *)
LEMMA AddedToStays ==
  ASSUME NEW S, NEW s \in Seq(S), NEW t \in Seq(S), s # <<>>
  PROVE  s \o t # <<>>
<1>1. Len(s) \in Nat \ {0} /\ Len(t) \in Nat
  <2>1. Len(s) # 0
    BY EmptySeq, Zenon
  <2>2. QED
    BY <2>1, LenProperties
<1>2. Len(s \o t) = Len(s) + Len(t)
  BY ConcatProperties, Zenon
<1>3. Len(s \o t) # 0
  BY <1>1, <1>2
<1>4. QED
  BY <1>3, EmptySeq

(* A client never makes a ready descriptor not ready.                      *)
LEMMA ClientsKeepReady ==
  ASSUME CallsInv, QueueInv, Clients, NEW d \in Descriptor, Ready(d)
  PROVE  Ready(d)'
<1>0. /\ peer \in [Conn -> PeerState] /\ inbox \in [Conn -> Seq(Text)]
      /\ sent \in [Conn -> Seq(Text)] /\ backlog \in Seq(Conn)
      /\ owner \in [Fd -> Conn \cup {NoConn}]
  BY DEF CallsInv, TypeOK
<1>1. PICK c \in Conn : \/ Connect(c) \/ ClientSend(c)
                        \/ ClientShutdown(c) \/ ClientReset(c)
  BY DEF Clients
<1>2. Open' = Open /\ owner' = owner
  BY <1>1 DEF Connect, ClientSend, ClientShutdown, ClientReset, Open
<1>3. CASE d = Listener
  <2>1. CASE Connect(c)
    <3>1. backlog' = Append(backlog, c)
      BY <2>1 DEF Connect
    <3>2. backlog \in Seq(Conn)
      BY <1>0
    <3>3. Append(backlog, c) # <<>>
      BY <3>2, AppendProperties, Zenon
    <3>4. QED
      BY <1>3, <3>1, <3>3 DEF Ready
  <2>2. CASE ~ Connect(c)
    BY <1>1, <1>3, <2>2 DEF ClientSend, ClientShutdown, ClientReset, Ready
  <2>3. QED
    BY <2>1, <2>2
<1>4. CASE d # Listener
  <2>1. d \in Fd /\ d \in Open /\ owner[d] \in Conn /\ peer[owner[d]] # "idle"
    BY <1>0, <1>4 DEF Ready, QueueInv, Accepted, Open
  <2>2. peer[owner[d]] # "open" => peer'[owner[d]] # "open"
    BY <1>0, <1>1, <2>1 DEF Connect, ClientSend, ClientShutdown, ClientReset
  <2>3. inbox[owner[d]] # <<>> => inbox'[owner[d]] # <<>>
    <3>1. CASE ClientSend(c) /\ c = owner[d]
      <4>1. PICK said \in Traffic[c] :
              inbox' = [inbox EXCEPT
                         ![c] = @ \o SubSeq(said, Len(sent[c]) + 1, Len(said))]
        BY <3>1 DEF ClientSend
      <4>2. said \in Seq(Text) /\ Len(sent[c]) \in Nat
        BY <1>0, ConnectionsAssumption, LenProperties
      <4>3. SubSeq(said, Len(sent[c]) + 1, Len(said)) \in Seq(Text)
        BY <4>2, LenProperties, SubSeqProperties
      <4>4. /\ inbox[c] \in Seq(Text)
            /\ inbox'[c] = inbox[c] \o SubSeq(said, Len(sent[c]) + 1, Len(said))
        BY <1>0, <4>1
      <4>5. QED
        BY <3>1, <4>3, <4>4, AddedToStays
    <3>2. CASE ~ (ClientSend(c) /\ c = owner[d])
      BY <1>0, <1>1, <2>1, <3>2
      DEF Connect, ClientSend, ClientShutdown, ClientReset
    <3>3. QED
      BY <3>1, <3>2
  <2>4. QED
    BY <1>2, <1>4, <2>1, <2>2, <2>3 DEF Ready
<1>5. QED
  BY <1>3, <1>4

(* A client's step leaves what the loop has yet to visit as it was.        *)
LEMMA ClientsPass ==
  ASSUME CallsInv, QueueInv, PassInv, Clients, UNCHANGED <<sets, loopState>>
  PROVE  PassInv'
<1>1. Open' = Open
  BY DEF Clients, Connect, ClientSend, ClientShutdown, ClientReset, Open
<1>2. \A d \in readable : Ready(d) => Ready(d)'
  BY ClientsKeepReady DEF CallsInv, TypeOK
<1>3. QED
  BY <1>1, <1>2 DEF PassInv, Ahead, BeforeAccept

(* So does a command: it reads nothing, and closes at most a descriptor    *)
(* whose number nobody gets in this pass.                                  *)
LEMMA CommandPass ==
  ASSUME CallsInv, QueueInv, PassInv, QuitsSpareThePass,
         NEW w \in Worker, ProcessCommand(w)
  PROVE  PassInv'
<1>1. /\ UNCHANGED <<peer, backlog, inbox, readable, i>>
      /\ main' = main \/ main' = "close"
  BY CommandKeeps
<1>2. main' \in {"accept", "recv"} => main' = main
  BY <1>1
<1>3. (main \in {"copy", "select"} => main' = main) \/ main' = "close"
  BY <1>1
<1>4. CASE QuitClose(w)
  <2>1. /\ owner' = [owner EXCEPT ![Socket(w)] = NoConn] /\ Socket(w) \in Fd
        /\ In(w, "quitClose") /\ main' = main
        /\ owner \in [Fd -> Conn \cup {NoConn}]
    BY <1>4 DEF QuitClose, tcpsocket_close, CallsInv, CallInv, TypeOK
  <2>2. Open' = Open \ {Socket(w)}
    BY <2>1 DEF Open
  <2>3. \A d \in readable \ {Socket(w)} : Ready(d) => Ready(d)'
    BY <1>1, <2>1, <2>2 DEF Ready, Open
  <2>4. BeforeAccept => Socket(w) \notin readable
    BY <2>1 DEF QuitsSpareThePass
  <2>5. QED
    BY <1>1, <2>1, <2>2, <2>3, <2>4 DEF PassInv, Ahead, BeforeAccept
<1>5. CASE ~ QuitClose(w)
  <2>1. owner' = owner
    BY <1>5, CommandQueue
  <2>2. Open' = Open /\ \A d \in readable : Ready(d)' = Ready(d)
    BY <1>1, <2>1 DEF Open, Ready
  <2>3. CASE main' = main
    BY <1>1, <2>2, <2>3 DEF PassInv, Ahead, BeforeAccept
  <2>4. CASE main' # main
    <3>1. main' = "close" /\ main = "disconnect"
      BY <1>1, <2>4, CommandAt, CommandKeeps DEF CallsInv, ServedInv
    <3>2. QED
      BY <1>1, <2>2, <3>1 DEF PassInv, Ahead, BeforeAccept
  <2>5. QED
    BY <2>3, <2>4
<1>6. QED
  BY <1>4, <1>5

(* A step that leaves a descriptor keeps the rest of the pass.             *)
LEMMA NextDescriptorPass ==
  ASSUME CallsInv, PassInv, NextDescriptor, UNCHANGED readable,
         main \notin {"copy", "select"},
         \A d \in readable : d > i => Ready(d)' \/ d \in Fd \ Open'
  PROVE  PassInv'
<1>1. i \in Descriptor /\ readable \subseteq Descriptor
  BY DEF CallsInv, TypeOK
<1>2. CASE main' = "copy"
  BY <1>2 DEF PassInv
<1>3. CASE main' = "scan" /\ i' = i + 1
  <2>1. \A d \in readable : d > i' \/ d = i' => d > i
    BY <1>1, <1>3, ConstantsType
  <2>2. ~ BeforeAccept'
    BY <1>1, <1>3, ConnectionsAssumption DEF BeforeAccept, Descriptor
  <2>3. QED
    BY <1>3, <2>1, <2>2 DEF PassInv, Ahead
<1>4. QED
  BY <1>2, <1>3 DEF NextDescriptor

(* The loop makes a pass of what select found ready, and each of its steps *)
(* consumes only what is at its own descriptor.                            *)
LEMMA LoopPass ==
  ASSUME CallsInv, QueueInv, PassInv, SelectsOpenDescriptors, MainLoop
  PROVE  PassInv'
<1>0. /\ i \in Descriptor /\ readable \subseteq Descriptor
      /\ owner \in [Fd -> Conn \cup {NoConn}] /\ peer \in [Conn -> PeerState]
      /\ inbox \in [Conn -> Seq(Text)]
  BY DEF CallsInv, TypeOK
<1>a. Descriptor = Fd \cup {Listener} /\ Listener \notin Fd /\ Descriptor \subseteq Nat
  BY ConstantsType
<1>b. ASSUME UNCHANGED <<readable, owner, inbox, peer, backlog>>
      PROVE  Open' = Open /\ \A d \in readable : Ready(d)' = Ready(d)
  BY <1>b DEF Open, Ready
<1>1. CASE CopyConnections
  BY <1>1 DEF CopyConnections, PassInv
<1>2. CASE Select
  <2>1. readable' = {d \in readable : Ready(d)}
    BY <1>2 DEF Select, SelectsOpenDescriptors
  <2>2. \A d : Ready(d)' = Ready(d)
    BY <1>2 DEF Select, Ready, Open
  <2>3. QED
    BY <1>2, <2>1, <2>2 DEF Select, PassInv
<1>3. CASE Scan
  <2>1. CASE Attends(i)
    <3>1. /\ main' = IF i = Listener THEN "accept" ELSE "recv"
          /\ UNCHANGED <<i, readable>> /\ main = "scan" /\ i \in readable
      BY <1>3, <2>1 DEF Scan, Attends
    <3>2. QED
      BY <1>3, <1>b, <3>1 DEF Scan, PassInv, Ahead, BeforeAccept
  <2>2. CASE ~ Attends(i)
    <3>1. NextDescriptor /\ main = "scan" /\ Open' = Open
          /\ UNCHANGED readable /\ \A d \in readable : Ready(d)' = Ready(d)
      BY <1>3, <1>b, <2>2 DEF Scan
    <3>2. \A d \in readable : d > i => Ready(d) \/ d \in Fd \ Open
      BY <3>1 DEF PassInv, Ahead
    <3>3. QED
      BY <3>1, <3>2, NextDescriptorPass
  <2>3. QED
    BY <2>1, <2>2
<1>4. CASE Accept
  <2>1. PICK d \in Fd : owner[d] = NoConn /\ owner' = [owner EXCEPT ![d] = Head(backlog)]
    BY <1>4 DEF Accept, IsLowestFree
  <2>2. i = Listener /\ main = "accept" /\ main' = "add"
        /\ UNCHANGED <<i, readable, inbox, peer>>
    BY <1>4 DEF Accept, CallsInv, ServedInv
  <2>3. \A e \in readable : e > i => Ready(e) /\ e \in Open
    BY <1>0, <1>a, <2>2 DEF PassInv, Ahead, BeforeAccept, Ready
  <2>4. \A e \in Open : owner'[e] = owner[e] /\ e \in Open'
    BY <1>0, <2>1 DEF Open
  <2>5. \A e \in readable : e > i => Ready(e)'
    <3>1. SUFFICES ASSUME NEW e \in readable, e > i PROVE Ready(e)'
      OBVIOUS
    <3>2. e # Listener /\ Ready(e) /\ e \in Open
      BY <1>0, <1>a, <2>2, <2>3, <3>1
    <3>3. QED
      BY <2>2, <2>4, <3>2 DEF Ready
  <2>6. QED
    BY <2>2, <2>5 DEF PassInv, Ahead
<1>5. CASE AddAccepted \/ ReceiveBadFd \/ RemoveClosedAgain \/ StartHandler
  <2>1. NextDescriptor /\ main \notin {"copy", "select"}
        /\ UNCHANGED <<readable, owner, inbox, peer, backlog>>
    BY <1>5 DEF AddAccepted, ReceiveBadFd, RemoveClosedAgain, StartHandler
  <2>2. \A d \in readable : d > i => Ready(d) \/ d \in Fd \ Open
    BY <2>1 DEF PassInv, Ahead
  <2>3. QED
    BY <1>b, <2>1, <2>2, NextDescriptorPass
<1>6. CASE ReceiveReset
  <2>1. NextDescriptor /\ main = "recv" /\ UNCHANGED <<readable, owner, inbox, backlog>>
        /\ peer' = [peer EXCEPT ![owner[i]] = "broken"]
    BY <1>6 DEF ReceiveReset
  <2>2. Open' = Open /\ \A d \in readable : Ready(d) => Ready(d)'
    BY <1>0, <2>1 DEF Ready, Open
  <2>3. \A d \in readable : d > i => Ready(d) \/ d \in Fd \ Open
    BY <2>1 DEF PassInv, Ahead
  <2>4. QED
    BY <2>1, <2>2, <2>3, NextDescriptorPass
<1>7. CASE ReceiveData
  <2>1. PICK n \in 1 .. Len(inbox[owner[i]]) :
          inbox' = [inbox EXCEPT ![owner[i]] = SubSeq(@, n + 1, Len(@))]
    BY <1>7 DEF ReceiveData
  <2>2. /\ main = "recv" /\ main' = "block" /\ i \in Open
        /\ UNCHANGED <<readable, owner, peer, backlog, i>>
    BY <1>7 DEF ReceiveData
  <2>3. \A d \in readable : d > i => Ready(d) \/ d \in Fd \ Open
    BY <2>2 DEF PassInv, Ahead
  <2>4. \A d \in Open : d # i => inbox'[owner[d]] = inbox[owner[d]]
    BY <1>0, <2>1, <2>2 DEF QueueInv, Open
  <2>5. \A d \in readable : d > i => Ready(d)' \/ d \in Fd \ Open'
    BY <1>0, <1>a, <2>2, <2>3, <2>4 DEF Ready, Open
  <2>6. QED
    BY <2>2, <2>5 DEF PassInv, Ahead, BeforeAccept
<1>8. CASE CloseDescriptor
  <2>1. /\ owner' = [owner EXCEPT ![i] = NoConn] /\ main = "close" /\ main' = "unblock"
        /\ UNCHANGED <<readable, inbox, peer, backlog, i>>
    BY <1>8 DEF CloseDescriptor, tcpsocket_close
  <2>2. \A d \in readable : d > i => Ready(d) \/ d \in Fd \ Open
    BY <2>1 DEF PassInv, Ahead
  <2>3. \A d \in readable : d > i => Ready(d)' \/ d \in Fd \ Open'
    BY <1>0, <1>a, <2>1, <2>2 DEF Ready, Open
  <2>4. QED
    BY <2>1, <2>3 DEF PassInv, Ahead, BeforeAccept
<1>9. CASE \/ ReceiveClosed \/ RemoveClosed \/ BlockGone \/ UnblockClosed
           \/ BlockConnection
  <2>1. /\ main \notin {"copy", "select"} /\ main' \notin {"scan", "accept", "recv"}
        /\ UNCHANGED <<readable, owner, inbox, peer, backlog, i>>
    BY <1>9 DEF ReceiveClosed, RemoveClosed, BlockGone, UnblockClosed, BlockConnection
  <2>2. QED
    BY <1>b, <2>1 DEF PassInv, Ahead, BeforeAccept
<1>10. QED
  BY <1>1, <1>2, <1>3, <1>4, <1>5, <1>6, <1>7, <1>8, <1>9 DEF MainLoop

(* The pass is kept by every step while no QUIT disturbs it.               *)
LEMMA NextPass ==
  CallsInv /\ QueueInv /\ PassInv /\ PassesUndisturbed /\ [Next]_vars
    => CallsInv' /\ QueueInv' /\ PassInv'
<1> SUFFICES ASSUME CallsInv, QueueInv, PassInv, PassesUndisturbed, [Next]_vars
             PROVE  PassInv'
  BY NextCalls, NextQueue
<1>1. CASE UNCHANGED <<kernel, readable, loopState>>
  BY <1>1 DEF PassInv, Ahead, BeforeAccept, Ready, Open
<1>2. CASE Clients /\ UNCHANGED <<sets, workers, loopState, tables, tad, frame,
                                  registered>>
  BY <1>2, ClientsPass
<1>3. CASE MainLoop
  BY <1>3, LoopPass DEF PassesUndisturbed
<1>4. ASSUME NEW w \in Worker, ProcessCommand(w)
      PROVE  PassInv'
  BY <1>4, CommandPass DEF PassesUndisturbed
<1>5. QED
  BY <1>1, <1>2, <1>3, <1>4 DEF Next, ServerLoop, Handler, Worker, vars, do_on_disconnect,
     NextCommand, HandlerEnds

(* What is ready does not block.                                           *)
LEMMA PassDoesNotStall ==
  ASSUME PassInv
  PROVE  LoopNeverStalls
<1>1. SUFFICES ASSUME At("accept") \/ At("recv")
               PROVE  Ready(i) \/ i \notin Open \cup {Listener}
  BY DEF LoopNeverStalls
<1>2. i \in readable /\ Ahead(i)
  BY <1>1 DEF PassInv, Ahead
<1>3. QED
  BY <1>1, <1>2, ConstantsType DEF PassInv

(* accept and recv do not block the loop (server.c:187, 201, 224): what    *)
(* select reported is still there when the loop comes to it, for any       *)
(* number of clients, in every run in which select meets no closed         *)
(* descriptor and no QUIT closes a descriptor between the select that      *)
(* reported it and the accept of the same pass. Nothing is assumed of the  *)
(* relays.                                                                 *)
THEOREM NeverStalls == Spec /\ []PassesUndisturbed => []LoopNeverStalls
<1>1. Init => CallsInv /\ QueueInv /\ PassInv
  BY InitSession DEF SessionInv, Init, ServerInit, PassInv
<1>2. QED
  BY <1>1, PassDoesNotStall, NextPass, PTL DEF Spec

-----------------------------------------------------------------------------
(* As long as nobody says QUIT *)

NoQuit(msg) == \A k \in DOMAIN msg : msg[k].cmd # "QUIT"

(* No QUIT is waiting, received or under way in a handler.                 *)
QuietInv ==
  /\ \A c \in Conn : NoQuit(inbox[c])
  /\ NoQuit(rcvd.msg)
  /\ \A t \in Thread : NoQuit(data[t].msg)
  /\ \A t \in Thread : ~In(t, "idle") => frame[t].cmd # "QUIT"

(* The loop alone closes descriptors, and stops watching them before.      *)
WatchInv ==
  /\ connections \ {Listener} \subseteq Open
  /\ At("add") => acceptd \in Open
  /\ main \in {"blockGone", "disconnect", "close"} => i \notin connections
  /\ At("select") => readable \ {Listener} \subseteq Open

QuietStallInv ==
  /\ CallsInv /\ QueueInv /\ QuitsInv
  /\ QuitSaid \/ (QuietInv /\ WatchInv /\ PassInv)

(* What is left of a quiet message is quiet.                               *)
LEMMA QuietParts ==
  ASSUME NEW msg \in Seq(Text), NoQuit(msg), NEW n \in Nat
  PROVE  /\ n <= Len(msg) =>
              NoQuit(SubSeq(msg, 1, n)) /\ NoQuit(SubSeq(msg, n + 1, Len(msg)))
         /\ msg # <<>> => NoQuit(Tail(msg)) /\ Head(msg).cmd # "QUIT"
<1>1. Len(msg) \in Nat /\ DOMAIN msg = 1 .. Len(msg)
  BY LenProperties
<1>2. ASSUME n <= Len(msg)
      PROVE  NoQuit(SubSeq(msg, 1, n)) /\ NoQuit(SubSeq(msg, n + 1, Len(msg)))
  BY <1>1, <1>2 DEF NoQuit
<1>3. ASSUME msg # <<>>
      PROVE  NoQuit(Tail(msg)) /\ Head(msg).cmd # "QUIT"
  <2>1. Len(msg) > 0 /\ Head(msg) = msg[1]
    BY <1>1, <1>3, EmptySeq, HeadTailProperties
  <2>2. DOMAIN Tail(msg) = 1 .. Len(msg) - 1
        /\ \A k \in 1 .. Len(msg) - 1 : Tail(msg)[k] = msg[k + 1]
    BY <1>1, <1>3, EmptySeq, HeadTailProperties
  <2>3. QED
    BY <1>1, <2>1, <2>2 DEF NoQuit
<1>4. QED
  BY <1>2, <1>3

(* What a client says is said for good, and is what the server gets.       *)
LEMMA SaidStays ==
  ASSUME CallsInv, QuietInv, NEW c \in Conn, ClientSend(c), ~QuitSaid'
  PROVE  \A b \in Conn : NoQuit(inbox'[b])
<1>0. /\ inbox \in [Conn -> Seq(Text)] /\ sent \in [Conn -> Seq(Text)]
      /\ Traffic \in [Conn -> SUBSET Seq(Text)]
  BY ConnectionsAssumption DEF CallsInv, TypeOK
<1>1. PICK said \in Traffic[c] :
        /\ Len(sent[c]) < Len(said)
        /\ sent' = [sent EXCEPT ![c] = said]
        /\ inbox' = [inbox EXCEPT
                       ![c] = @ \o SubSeq(said, Len(sent[c]) + 1, Len(said))]
  BY DEF ClientSend
<1>2. said \in Seq(Text) /\ Len(said) \in Nat /\ DOMAIN said = 1 .. Len(said)
      /\ Len(sent[c]) \in Nat /\ Len(inbox[c]) \in Nat
  BY <1>0, LenProperties
<1>3. \A k \in 1 .. Len(said) : said[k].cmd # "QUIT"
  BY <1>0, <1>1, <1>2 DEF QuitSaid
<1>4. DEFINE more == SubSeq(said, Len(sent[c]) + 1, Len(said))
<1>5. more \in Seq(Text) /\ NoQuit(more)
  <2>1. PICK n \in Nat : n = Len(sent[c]) /\ n <= Len(said)
    BY <1>1, <1>2
  <2>2. NoQuit(said)
    BY <1>2, <1>3 DEF NoQuit
  <2>3. NoQuit(SubSeq(said, n + 1, Len(said)))
    BY <1>2, <2>1, <2>2, QuietParts
  <2>4. SubSeq(said, n + 1, Len(said)) \in Seq(Text)
    BY <1>2, <2>1
  <2>5. QED
    BY <2>1, <2>3, <2>4
<1>6. NoQuit(inbox[c] \o more)
  <2>1. inbox[c] \in Seq(Text) /\ NoQuit(inbox[c])
    BY <1>0 DEF QuietInv
  <2> HIDE DEF more
  <2>2. QED
    BY <1>5, <2>1, ConcatProperties, LenProperties DEF NoQuit
<1>7. QED
  BY <1>0, <1>1, <1>6 DEF QuietInv

(* Nobody takes back that QUIT was said.                                   *)
LEMMA QuitSaidStays ==
  ASSUME CallsInv, [Next]_vars, QuitSaid
  PROVE  QuitSaid'
<1>0. sent \in [Conn -> Seq(Text)] /\ Traffic \in [Conn -> SUBSET Seq(Text)]
  BY ConnectionsAssumption DEF CallsInv, TypeOK
<1>1. CASE UNCHANGED sent
  BY <1>1 DEF QuitSaid
<1>2. ASSUME NEW c \in Conn, ClientSend(c)
      PROVE  QuitSaid'
  <2>1. PICK said \in Traffic[c] :
          /\ Len(sent[c]) < Len(said) /\ SubSeq(said, 1, Len(sent[c])) = sent[c]
          /\ sent' = [sent EXCEPT ![c] = said]
    BY <1>2 DEF ClientSend
  <2>2. PICK b \in Conn : \E k \in DOMAIN sent[b] : sent[b][k].cmd = "QUIT"
    BY DEF QuitSaid
  <2>3. PICK k \in DOMAIN sent[b] : sent[b][k].cmd = "QUIT"
    BY <2>2
  <2>4. CASE b = c
    <3>1. said \in Seq(Text) /\ k \in 1 .. Len(sent[c]) /\ Len(sent[c]) \in Nat
          /\ DOMAIN said = 1 .. Len(said) /\ Len(said) \in Nat
      BY <1>0, <2>1, <2>3, <2>4, LenProperties
    <3>2. SubSeq(said, 1, Len(sent[c]))[k] = said[k] /\ k \in DOMAIN said
      BY <2>1, <3>1
    <3>3. sent'[c] = said
      BY <1>0, <2>1
    <3>4. QED
      BY <2>1, <2>3, <2>4, <3>2, <3>3 DEF QuitSaid
  <2>5. CASE b # c
    BY <1>0, <2>1, <2>3, <2>5 DEF QuitSaid
  <2>6. QED
    BY <2>4, <2>5
<1>3. CASE MainLoop
  BY <1>1, <1>3 DEF MainLoop, CopyConnections, Select, Scan, Accept, AddAccepted,
     ReceiveData, ReceiveClosed, ReceiveReset, ReceiveBadFd, RemoveClosed, BlockGone,
     CloseDescriptor, UnblockClosed, RemoveClosedAgain, BlockConnection, StartHandler
<1>4. ASSUME NEW w \in Worker, ProcessCommand(w)
      PROVE  QuitSaid'
  BY <1>1, <1>4, CommandKeeps
<1>5. CASE Clients
  BY <1>1, <1>2, <1>5 DEF Clients, Connect, ClientShutdown, ClientReset
<1>6. QED
  BY <1>1, <1>3, <1>4, <1>5 DEF Next, ServerLoop, Handler, Worker, vars,
     do_on_disconnect, NextCommand, HandlerEnds

(* Nobody quits unless somebody has said so.                               *)
LEMMA NextQuiet ==
  ASSUME CallsInv, QuitsInv, QuietInv, [Next]_vars, ~QuitSaid'
  PROVE  QuietInv'
<1>0. /\ inbox \in [Conn -> Seq(Text)] /\ rcvd \in Data /\ data \in [Thread -> Data]
      /\ frame \in [Worker -> Frame] /\ owner \in [Fd -> Conn \cup {NoConn}]
      /\ \A t \in Thread : t \in Worker /\ t # Loop
      /\ NoQuit(<<>>) /\ Idle.at = "idle"
  BY IdleIs, Givens DEF CallsInv, TypeOK, Worker, NoQuit
<1>1. CASE UNCHANGED <<inbox, rcvd, data, frame>>
  BY <1>1 DEF QuietInv
<1>2. ASSUME NEW c \in Conn, ClientSend(c), UNCHANGED <<rcvd, data, frame>>
      PROVE  QuietInv'
  BY <1>2, SaidStays DEF QuietInv
<1>3. CASE MainLoop /\ UNCHANGED frame
  <2>1. CASE ReceiveData
    <3>1. PICK n \in 1 .. Len(inbox[owner[i]]) :
            /\ rcvd' = [socketd |-> i, conn |-> owner[i],
                        msg |-> SubSeq(inbox[owner[i]], 1, n)]
            /\ inbox' = [inbox EXCEPT ![owner[i]] = SubSeq(@, n + 1, Len(@))]
      BY <2>1 DEF ReceiveData
    <3>2. owner[i] \in Conn /\ UNCHANGED <<data, frame>>
      BY <1>0, <1>3, <2>1 DEF ReceiveData, Open
    <3>3. inbox[owner[i]] \in Seq(Text) /\ NoQuit(inbox[owner[i]])
      BY <1>0, <3>2 DEF QuietInv
    <3>4. /\ NoQuit(SubSeq(inbox[owner[i]], 1, n))
          /\ NoQuit(SubSeq(inbox[owner[i]], n + 1, Len(inbox[owner[i]])))
      BY <3>1, <3>3, QuietParts, LenProperties
    <3>5. QED
      BY <1>0, <3>1, <3>2, <3>4 DEF QuietInv
  <2>2. CASE ReceiveClosed \/ RemoveClosedAgain \/ StartHandler
    BY <1>0, <1>3, <2>2
    DEF ReceiveClosed, RemoveClosedAgain, StartHandler, QuietInv, NoData
  <2>3. CASE ~ReceiveData /\ ~(ReceiveClosed \/ RemoveClosedAgain \/ StartHandler)
    BY <1>1, <1>3, <2>3 DEF MainLoop, CopyConnections, Select, Scan, Accept, AddAccepted,
       ReceiveReset, ReceiveBadFd, RemoveClosed, BlockGone, CloseDescriptor,
       UnblockClosed, BlockConnection
  <2>4. QED
    BY <2>1, <2>2, <2>3
<1>4. ASSUME NEW w \in Worker, ProcessCommand(w), w # Timer
      PROVE  QuietInv'
  <2>1. UNCHANGED <<inbox, rcvd, data>> /\ \A v \in Worker \ {w} : frame'[v] = frame[v]
    BY <1>4, CommandKeeps, CommandCall DEF CallsInv, TypeOK
  <2>2. ~In(w, "idle")
    BY <1>4, CommandAt
  <2>3. w \in Thread => frame'[w].at = "idle" \/ frame'[w].cmd # "QUIT"
    <3>1. CASE QuitStep(w)
      BY <1>4, <2>2, <3>1, QuitGoes DEF QuitsInv, QuietInv
    <3>2. CASE RelayStep(w)
      BY <1>0, <2>2, <3>2, RelayGoes DEF QuietInv
    <3>3. CASE ~QuitStep(w) /\ ~RelayStep(w)
      BY <1>0, <1>4, <2>2, <3>3, OthersGo DEF QuietInv
    <3>4. QED
      BY <3>1, <3>2, <3>3
  <2>4. QED
    BY <1>0, <2>1, <2>3 DEF QuietInv
<1>5. ASSUME NEW t \in Thread, NextCommand(t)
      PROVE  QuietInv'
  <2>1. /\ data[t].msg \in Seq(Text) /\ data[t].msg # <<>> /\ NoQuit(data[t].msg)
        /\ data' = [data EXCEPT ![t].msg = Tail(data[t].msg)]
        /\ frame' = [frame EXCEPT ![t] = Call(Head(data[t].msg))]
        /\ UNCHANGED <<inbox, rcvd>>
    BY <1>0, <1>5 DEF NextCommand, QuietInv, Data
  <2>2. NoQuit(Tail(data[t].msg)) /\ Head(data[t].msg).cmd # "QUIT"
    BY <2>1, QuietParts, LenProperties
  <2>3. Call(Head(data[t].msg)).cmd = Head(data[t].msg).cmd
    BY DEF Call
  <2>4. data'[t].msg = Tail(data[t].msg) /\ \A u \in Thread \ {t} : data'[u] = data[u]
    BY <1>0, <2>1 DEF Data
  <2>5. QED
    BY <1>0, <2>1, <2>2, <2>3, <2>4 DEF QuietInv
<1>6. ASSUME NEW t \in Thread, HandlerEnds(t)
      PROVE  QuietInv'
  BY <1>0, <1>6 DEF HandlerEnds, QuietInv, NoData
<1>7. CASE do_on_disconnect
  BY <1>0, <1>7 DEF do_on_disconnect, QuietInv
<1>8. CASE Clients /\ UNCHANGED <<rcvd, data, frame>>
  BY <1>1, <1>2, <1>8 DEF Clients, Connect, ClientShutdown, ClientReset
<1>9. QED
  BY <1>1, <1>3, <1>4, <1>5, <1>6, <1>7, <1>8, Givens, IrcAssumption
  DEF Next, ServerLoop, Handler, Worker, vars

(* Without QUIT no watched descriptor is closed.                           *)
LEMMA NextWatch ==
  ASSUME CallsInv, QuitsInv, QuietInv, WatchInv, [Next]_vars
  PROVE  WatchInv'
<1>0. /\ connections \subseteq Descriptor /\ owner \in [Fd -> Conn \cup {NoConn}]
      /\ i \in Descriptor /\ backlog \in Seq(Conn)
      /\ \A t \in Thread : t \in Worker /\ t # Loop
  BY Givens DEF CallsInv, TypeOK, Worker
<1>1. CASE UNCHANGED <<owner, connections, readable, main, i, acceptd>>
  BY <1>1 DEF WatchInv, Open
<1>2. CASE MainLoop
  <2>1. CASE CopyConnections \/ Select
    BY <2>1 DEF CopyConnections, Select, WatchInv, Open
  <2>2. CASE Scan \/ ReceiveReset \/ ReceiveBadFd \/ StartHandler
    BY <2>2 DEF Scan, ReceiveReset, ReceiveBadFd, StartHandler, NextDescriptor, WatchInv,
       Open
  <2>3. CASE Accept
    <3>1. PICK d \in Fd : /\ owner' = [owner EXCEPT ![d] = Head(backlog)]
                          /\ acceptd' = d /\ main' = "add" /\ Head(backlog) \in Conn
                          /\ UNCHANGED connections
      BY <1>0, <2>3, HeadTailProperties, EmptySeq DEF Accept
    <3>2. Open' = Open \cup {d}
      BY <1>0, <3>1, ConnectionsAssumption DEF Open
    <3>3. QED
      BY <3>1, <3>2 DEF WatchInv
  <2>4. CASE AddAccepted
    BY <2>4 DEF AddAccepted, NextDescriptor, connection_add, WatchInv, Open
  <2>5. CASE CloseDescriptor
    <3>1. Open' = Open \ {i} /\ main' = "unblock" /\ UNCHANGED connections
          /\ i \notin connections
      BY <1>0, <2>5 DEF CloseDescriptor, tcpsocket_close, WatchInv, Open
    <3>2. QED
      BY <3>1 DEF WatchInv
  <2>6. CASE \/ ReceiveData \/ ReceiveClosed \/ RemoveClosed \/ BlockGone
             \/ UnblockClosed \/ RemoveClosedAgain \/ BlockConnection
    BY <2>6 DEF ReceiveData, ReceiveClosed, RemoveClosed, BlockGone, UnblockClosed,
       RemoveClosedAgain, BlockConnection, connection_rmv, NextDescriptor, WatchInv, Open
  <2>7. QED
    BY <1>2, <2>1, <2>2, <2>3, <2>4, <2>5, <2>6 DEF MainLoop
<1>3. ASSUME NEW w \in Worker, ProcessCommand(w), w # Timer
      PROVE  WatchInv'
  <2>1. ~ QuitStep(w) \/ w = Loop
    BY <1>3, CommandAt, QuitGoes DEF QuitsInv, QuietInv, Worker
  <2>2. ~ QuitClose(w) /\ ~ QuitRmv(w)
    BY <2>1 DEF QuitStep, QuitClose, QuitRmv, QuitsInv, LoopLabel
  <2>3. UNCHANGED <<owner, connections>>
    BY <1>3, <2>2, OthersKeepSockets DEF SocketStep, RelayBlock, RelayUnblock
  <2>4. UNCHANGED <<readable, i, acceptd>> /\ (main' = main \/ main' = "close")
    BY <1>3, CommandKeeps
  <2>5. main' # main => main = "disconnect"
    BY <1>3, CommandAt, CommandKeeps DEF CallsInv, ServedInv
  <2>6. QED
    BY <2>3, <2>4, <2>5 DEF WatchInv, Open
<1>4. CASE Clients /\ UNCHANGED <<connections, readable, main, i, acceptd>>
  BY <1>1, <1>4 DEF Clients, Connect, ClientSend, ClientShutdown, ClientReset
<1>5. QED
  BY <1>1, <1>2, <1>3, <1>4, Givens, IrcAssumption
  DEF Next, ServerLoop, Handler, Worker, vars, do_on_disconnect, NextCommand, HandlerEnds

(* Without QUIT nothing disturbs a pass.                                   *)
LEMMA NextQuietStall == QuietStallInv /\ [Next]_vars => QuietStallInv'
<1> SUFFICES ASSUME QuietStallInv, [Next]_vars, ~QuitSaid'
             PROVE  QuietInv' /\ WatchInv' /\ PassInv'
  BY NextCalls, NextQueue, NextQuits DEF QuietStallInv
<1>1. CallsInv /\ QueueInv /\ QuitsInv /\ QuietInv /\ WatchInv /\ PassInv
  BY QuitSaidStays DEF QuietStallInv
<1>2. QuietInv' /\ WatchInv'
  BY <1>1, NextQuiet, NextWatch
<1>3. PassesUndisturbed
  <2>1. SelectsOpenDescriptors
    BY <1>1 DEF WatchInv, SelectsOpenDescriptors
  <2>2. ASSUME NEW w \in Worker PROVE ~In(w, "quitClose")
    BY <1>1 DEF QuitsInv, LoopLabel, QuietInv, QuitLabel, Worker
  <2>3. QED
    BY <2>1, <2>2 DEF PassesUndisturbed, QuitsSpareThePass
<1>4. QED
  BY <1>1, <1>2, <1>3, NextPass

(* Until somebody says QUIT, accept and recv do not block the loop         *)
(* (server.c:187, 201, 224), for any number of clients, threads and        *)
(* descriptors: what breaks it is a handler that closes a descriptor under *)
(* the loop (irc.c:750), and nothing else.                                 *)
THEOREM QuietRunsNeverStall == Spec => []StallsOnlyAfterQuit
<1>1. Init => QuietStallInv
  <2> SUFFICES ASSUME Init PROVE QuietStallInv
    OBVIOUS
  <2>1. CallsInv /\ QueueInv /\ QuitsInv
    BY InitSession DEF SessionInv
  <2>2. \A t \in Thread : t \in Worker
    BY DEF Worker
  <2>3. QuietInv /\ WatchInv /\ PassInv
    BY <2>2, IdleIs
    DEF Init, ServerInit, ConnectionsInit, IrcInit, QuietInv, WatchInv, PassInv, NoQuit,
        NoData
  <2>4. QED
    BY <2>1, <2>3 DEF QuietStallInv
<1>2. QuietStallInv => StallsOnlyAfterQuit
  BY PassDoesNotStall DEF QuietStallInv, StallsOnlyAfterQuit
<1>3. QED
  BY <1>1, <1>2, NextQuietStall, PTL DEF Spec

=============================================================================
