----------------------------- MODULE IrcUserProofs -----------------------------
(***************************************************************************)
(* What the IRC server keeps of its users, under the same conditions as in *)
(* IrcSessionProofs: a user is on one descriptor, its own, the tables and  *)
(* libirctad agree on it, channels hold only users that are there, and     *)
(* members of a channel know each other.  At the end, from these: what the *)
(* clients see is the registry of Directory.                               *)
(***************************************************************************)
EXTENDS IrcSessionProofs

USE DEF At, Goto, In, Move, kernel, sets, threads, loopState, workers,
        outside, tables, channels, tad

-----------------------------------------------------------------------------
(* The invariant *)

(* The user of the descriptor is being let go of: its account is gone.     *)
Leaving(d) == \E w \in Worker : In(w, "quitUser") /\ Socket(w) = d

Present(d) == users[d] # NULL /\ ~Leaving(d)

Has(d, u) == Present(d) /\ users[d] = u

(* A user has one descriptor and an account; an account, a user or one     *)
(* that is about to be.                                                    *)
AccountsInv ==
  /\ \A d \in Fd : Present(d) => account[users[d]] # NULL
  /\ \A d, e \in Fd : Present(d) /\ Present(e) /\ users[d] = users[e] => d = e
  /\ \A w \in Worker : In(w, "setUser") =>
       /\ account[frame[w].arg] # NULL
       /\ \A d \in Fd : Present(d) => users[d] # frame[w].arg
  /\ \A v, w \in Worker : In(v, "setUser") /\ In(w, "setUser")
                          /\ frame[v].arg = frame[w].arg => v = w
  /\ \A w \in Worker : frame[w].at \in {"addUser", "setUser", "quitNick"}
       => get_user(w) = NULL
  /\ \A u \in User : account[u] # NULL =>
       \/ \E d \in Fd : Has(d, u)
       \/ \E w \in Worker : In(w, "setUser") /\ frame[w].arg = u
       \/ u \in LongUser

(* A nick is changed in libirctad first, and read from the table before    *)
(* libirctad is told of it.                                                *)
Renames(w) == frame[w].at \in {"setNick", "copyNick"}
Renaming(d) == \E w \in Worker : Renames(w) /\ Socket(w) = d

NicksInv ==
  /\ \A w \in Worker : frame[w].at \in {"checkUser", "addUser", "setUser"}
       => frame[w].seen = get_nick(w)
  /\ \A w \in Worker : In(w, "setUser") => account[frame[w].arg] = frame[w].seen
  /\ \A w \in Worker : Renames(w) /\ get_user(w) # NULL
       => account[get_user(w)] = frame[w].arg
  /\ \A w \in Worker : In(w, "copyNick") => get_nick(w) # NULL
  /\ \A d \in Fd : Present(d) /\ ~Renaming(d)
       => account[users[d]] = nicks[d] \/ account[users[d]] \in LongNick

(* A channel has at most one operator, one of its members, all of whom are *)
(* users; who has been found to be the operator still is.                  *)
ActsWithRight(w) ==
  \/ frame[w].at \in {"kickUser", "setMode"}
  \/ frame[w].at \in {"topicMode", "setTopic"} /\ frame[w].may

MembersInv ==
  /\ \A ch \in Channel : \A u \in members[ch] :
       account[u] # NULL /\ \E d \in Fd : Has(d, u)
  /\ \A ch \in Channel : ops[ch] \subseteq members[ch]
  /\ \A ch \in Channel : \A u, v \in ops[ch] : u = v
  /\ \A w \in Worker : ActsWithRight(w) => IsOperator(w)

(* A descriptor that a handler still works on after its QUIT has closed it *)
(* may be another client's already, who is not registered yet.             *)
Stale(d) == \E t \in Live : data[t].socketd = d /\ owner[d] # data[t].conn
Clearing(d) == \E t \in Live : data[t].socketd = d
                               /\ frame[t].at \in {"quitRmv", "quitTad", "quitUser"}

OwnersInv ==
  /\ \A d \in Open : ~Stale(d) => users[d] = registered[owner[d]]
  /\ \A d \in Open : Stale(d) => registered[owner[d]] = NULL
  /\ \A d \in Fd : d \notin Open \/ Stale(d) => users[d] = NULL \/ Clearing(d)
  /\ \A c \in Conn : Pending(c) \/ peer[c] = "idle" => registered[c] = NULL
  /\ At("close") => users[i] = NULL

UsersInv == AccountsInv /\ NicksInv /\ MembersInv /\ OwnersInv

-----------------------------------------------------------------------------
(* What leads to a label *)

Arrives(w) ==
  /\ frame'[w].at = "checkUser" => ReadNick(w)
  /\ frame'[w].at = "addUser" => CheckUser(w)
  /\ frame'[w].at = "setUser" => AddUser(w)
  /\ frame'[w].at = "setNick" => AskRegistered(w) \/ ChangeNick(w)
  /\ frame'[w].at = "copyNick" => SetNick(w)
  /\ frame'[w].at = "kickUser" => Kick(w)
  /\ frame'[w].at = "setMode" => AskModeRight(w)
  /\ frame'[w].at = "topicMode" => AskTopicRight(w)
  /\ frame'[w].at = "setTopic" => AskTopicMode(w)
  /\ frame'[w].at = "quitRmv" => QuitClose(w)
  /\ frame'[w].at = "quitTad" => QuitRmv(w) \/ (w = Loop /\ QuitChannels(w))
  /\ frame'[w].at = "quitUser" => QuitTad(w)
  /\ frame'[w].at = "quitNick" => QuitUser(w)
  /\ frame'[w].at = "names" => ListUsers(w) \/ Names(w) \/ Greet(w)
  /\ frame'[w].at = "greet" => Names(w)
  /\ frame'[w].at = "dead" => CopyNick(w) \/ Names(w) \/ WhoisChannels(w)
  /\ frame'[w].at # "join"

(* Labels that nothing is said about.                                      *)
PlainLabel == {"idle", "changeNick", "privmsg", "targets", "findNick", "findNickAgain",
               "sendPrivate", "modeRight", "whoisChannels", "relay", "relayBlock", "relayUnblock",
               "quitChannels", "quitClose", "list", "setAway"}

(* Of those labels there is nothing to show.                               *)
LEMMA ArrivesPlain ==
  ASSUME NEW w, frame'[w].at \in PlainLabel
  PROVE  Arrives(w)
BY DEF PlainLabel, Arrives

(* The labels that something is said about are reached from one step of    *)
(* their function only: here those of NICK, USER, PRIVMSG and QUIT.        *)
LEMMA SessionArrives ==
  ASSUME CallsInv, NEW w \in Worker, SessionCommand(w)
  PROVE  Arrives(w)
<1>0. frame \in [Worker -> Frame] /\ frame[w] \in Frame
  BY DEF CallsInv, TypeOK
<1>1. CASE AskRegistered(w)
  <2>1. PICK label \in {"setNick", "changeNick"} : Move(w, label)
    BY <1>1 DEF AskRegistered
  <2>2. frame'[w].at \in {"setNick", "changeNick"}
    BY <1>0, <2>1, Moves DEF Label
  <2>3. QED
    BY <1>1, <2>2 DEF Arrives
<1>2. CASE ChangeNick(w)
  <2>1. frame'[w].at \in {"idle", "setNick"}
    BY <1>0, <1>2, Moves, Returns DEF ChangeNick, Label
  <2>2. QED
    BY <1>2, <2>1 DEF Arrives
<1>3. CASE SetNick(w)
  <2>1. frame'[w].at \in {"idle", "copyNick"}
    BY <1>0, <1>3, Moves, Returns DEF SetNick, Label
  <2>2. QED
    BY <1>3, <2>1 DEF Arrives
<1>4. CASE CopyNick(w)
  <2>1. frame'[w].at \in {"idle", "dead"}
    BY <1>0, <1>4, Moves, Returns DEF CopyNick, Dies, Label
  <2>2. QED
    BY <1>4, <2>1 DEF Arrives
<1>5. CASE ReadNick(w)
  <2>1. frame'[w].at = "checkUser"
    BY <1>0, <1>5 DEF ReadNick
  <2>2. QED
    BY <1>5, <2>1 DEF Arrives
<1>6. CASE CheckUser(w)
  <2>1. frame'[w].at \in {"idle", "addUser"}
    BY <1>0, <1>6, Moves, Returns DEF CheckUser, Label
  <2>2. QED
    BY <1>6, <2>1 DEF Arrives
<1>7. CASE AddUser(w)
  <2>1. frame'[w].at \in {"idle", "setUser"}
    BY <1>0, <1>7, Moves, Returns DEF AddUser, Label
  <2>2. QED
    BY <1>7, <2>1 DEF Arrives
<1>8. CASE SetUser(w) \/ SendPrivate(w)
  <2>1. frame'[w].at = "idle"
    BY <1>0, <1>8, Returns DEF SetUser, SendPrivate
  <2>2. QED
    BY <2>1, ArrivesPlain DEF PlainLabel
<1>9. CASE RelayStep(w)
  <2>1. frame'[w].at \in PlainLabel
    BY <1>0, <1>9, RelayGoes DEF PlainLabel
  <2>2. QED
    BY <2>1, ArrivesPlain
<1>15. CASE Privmsg(w)
  <2>1. frame'[w].at \in {"idle", "targets"}
    BY <1>0, <1>15, Moves, Returns DEF Privmsg, Label
  <2>2. QED
    BY <2>1, ArrivesPlain DEF PlainLabel
<1>10. CASE ListTargets(w)
  <2>1. Return(w) \/ \E at \in {"relay", "findNick"}, rest \in SUBSET User :
            frame' = [frame EXCEPT ![w].at = at, ![w].rest = rest]
    BY <1>10 DEF ListTargets, CallsInv, TypeOK
  <2>2. frame'[w].at \in {"idle", "relay", "findNick"}
    BY <1>0, <2>1, Returns DEF Frame
  <2>3. QED
    BY <2>2, ArrivesPlain DEF PlainLabel
<1>11. CASE FindNick(w)
  <2>1. frame'[w].at \in PlainLabel
    BY <1>0, <1>11, Moves, Returns DEF FindNick, Label, PlainLabel
  <2>2. QED
    BY <2>1, ArrivesPlain
<1>12. CASE FindNickAgain(w)
  <2>1. frame'[w].at \in PlainLabel
    BY <1>0, <1>12 DEF FindNickAgain, PlainLabel
  <2>2. QED
    BY <2>1, ArrivesPlain
<1>13. CASE QuitStep(w)
  <2>1. CASE Quit(w)
    BY <1>0, <1>13, <2>1, QuitGoes DEF Arrives
  <2>2. CASE QuitChannels(w)
    BY <1>0, <1>13, <2>2, QuitGoes DEF Arrives
  <2>3. CASE QuitClose(w)
    BY <1>0, <1>13, <2>3, QuitGoes DEF Arrives
  <2>4. CASE QuitRmv(w)
    BY <1>0, <1>13, <2>4, QuitGoes DEF Arrives
  <2>5. CASE QuitTad(w)
    BY <1>0, <1>13, <2>5, QuitGoes DEF Arrives
  <2>6. CASE QuitUser(w)
    BY <1>0, <1>13, <2>6, QuitGoes DEF Arrives
  <2>7. CASE QuitNick(w)
    BY <1>0, <1>13, <2>7, QuitGoes, IdleIs DEF Arrives
  <2>8. QED
    BY <1>13, <2>1, <2>2, <2>3, <2>4, <2>5, <2>6, <2>7 DEF QuitStep
<1>14. QED
  BY <1>1, <1>2, <1>3, <1>4, <1>5, <1>6, <1>7, <1>8, <1>9, <1>10, <1>11, <1>12, <1>13,
     <1>15
  DEF SessionCommand, QuitStep, RelayStep

(* JOIN and NAMES go from name to name: JOIN greets who has it.            *)
LEMMA NamesGoes ==
  ASSUME CallsInv, NEW w \in Worker, Names(w)
  PROVE  \/ frame[w].rest = {} /\ frame'[w] = Idle
         \/ /\ frame'[w].at = "dead" /\ frame'[w].cmd = frame[w].cmd
            /\ \E v \in frame[w].rest : account[v] = NULL
         \/ /\ frame'[w].cmd = frame[w].cmd /\ frame'[w].arg = frame[w].arg
            /\ frame'[w].seen = frame[w].seen
            /\ \E v \in frame[w].rest :
                 /\ account[v] # NULL
                 /\ frame'[w].rest = frame[w].rest \ {v}
                 /\ IF frame[w].cmd = "JOIN"
                    THEN frame'[w].opt = v /\ frame'[w].at = "greet"
                    ELSE frame'[w].at = "names"
<1>0. frame \in [Worker -> Frame] /\ frame[w] \in Frame /\ In(w, "names")
  BY DEF CallsInv, TypeOK, Names
<1>1. CASE frame[w].rest = {} /\ Return(w)
  BY <1>0, <1>1, Returns
<1>2. CASE Dies(w) /\ \E v \in frame[w].rest : account[v] = NULL
  BY <1>0, <1>2, Moves DEF Dies, Label
<1>3. ASSUME NEW v \in frame[w].rest, account[v] # NULL,
             frame' = [frame EXCEPT
                  ![w].rest = @ \ {v},
                  ![w].opt = IF frame[w].cmd = "JOIN" THEN v ELSE @,
                  ![w].at = IF frame[w].cmd = "JOIN" THEN "greet" ELSE @]
      PROVE  /\ frame'[w].cmd = frame[w].cmd /\ frame'[w].arg = frame[w].arg
             /\ frame'[w].seen = frame[w].seen
             /\ frame'[w].rest = frame[w].rest \ {v}
             /\ IF frame[w].cmd = "JOIN"
                THEN frame'[w].opt = v /\ frame'[w].at = "greet"
                ELSE frame'[w].at = "names"
  <2>1. CASE frame[w].cmd = "JOIN"
    <3>1. frame' = [frame EXCEPT ![w] =
             [frame[w] EXCEPT !.rest = @ \ {v}, !.opt = v, !.at = "greet"]]
      BY <1>0, <1>3, <2>1
    <3>2. QED
      BY <1>0, <2>1, <3>1 DEF Frame
  <2>2. CASE frame[w].cmd # "JOIN"
    <3>1. frame' = [frame EXCEPT ![w] =
             [frame[w] EXCEPT !.rest = @ \ {v}, !.opt = @, !.at = @]]
      BY <1>0, <1>3, <2>2
    <3>2. QED
      BY <1>0, <2>2, <3>1 DEF Frame
  <2>3. QED
    BY <2>1, <2>2
<1>4. QED
  BY <1>1, <1>2, <1>3 DEF Names

(* And those of the commands about channels.                               *)
LEMMA ChannelArrives ==
  ASSUME CallsInv, NEW w \in Worker, ChannelCommand(w)
  PROVE  Arrives(w)
<1>0. frame \in [Worker -> Frame] /\ frame[w] \in Frame
  BY DEF CallsInv, TypeOK
<1>1. CASE Join(w)
  <2>1. frame'[w].at \in {"idle", "list"}
    BY <1>0, <1>1, Returns DEF Join, Frame
  <2>2. QED
    BY <2>1, ArrivesPlain DEF PlainLabel
<1>2. CASE ListUsers(w)
  <2>1. frame'[w].at \in {"names", "relay"}
    BY <1>0, <1>2 DEF ListUsers
  <2>2. QED
    BY <1>2, <2>1 DEF Arrives
<1>3. CASE Names(w)
  <2>1. frame'[w].at \in {"idle", "dead", "names", "greet"}
    BY <1>0, <1>3, NamesGoes, IdleIs
  <2>2. QED
    BY <1>3, <2>1 DEF Arrives
<1>4. CASE Part(w) \/ KickUser(w)
  <2>1. frame'[w].at \in {"idle", "list"}
    BY <1>0, <1>4, Moves, Returns DEF Part, KickUser, Label
  <2>2. QED
    BY <2>1, ArrivesPlain DEF PlainLabel
<1>5. CASE Kick(w)
  <2>1. frame'[w].at \in {"idle", "kickUser"}
    BY <1>0, <1>5, Moves, Returns DEF Kick, Label
  <2>2. QED
    BY <1>5, <2>1 DEF Arrives
<1>6. CASE AskModeRight(w)
  <2>1. frame'[w].at \in {"idle", "setMode"}
    BY <1>0, <1>6, Moves, Returns DEF AskModeRight, Label
  <2>2. QED
    BY <1>6, <2>1 DEF Arrives
<1>12. CASE Mode(w) \/ Whois(w)
  <2>1. frame'[w].at \in {"idle", "modeRight", "whoisChannels"}
    BY <1>0, <1>12, Moves, Returns DEF Mode, Whois, Label
  <2>2. QED
    BY <2>1, ArrivesPlain DEF PlainLabel
<1>13. CASE WhoisChannels(w)
  <2>1. frame'[w].at \in {"idle", "dead"}
    BY <1>0, <1>13, Moves, Returns DEF WhoisChannels, Dies, Label
  <2>2. QED
    BY <1>13, <2>1 DEF Arrives
<1>14. CASE Greet(w)
  <2>1. frame'[w].at = "names"
    BY <1>0, <1>14, Moves DEF Greet, Label
  <2>2. QED
    BY <1>14, <2>1 DEF Arrives
<1>7. CASE AskTopicMode(w)
  <2>1. frame'[w].at \in {"idle", "setTopic"}
    BY <1>0, <1>7, Moves, Returns DEF AskTopicMode, Label
  <2>2. QED
    BY <1>7, <2>1 DEF Arrives
<1>8. CASE AskTopicRight(w)
  <2>1. frame'[w].at = "topicMode"
    BY <1>0, <1>8 DEF AskTopicRight
  <2>2. QED
    BY <1>8, <2>1 DEF Arrives
<1>9. CASE AskAway(w)
  <2>1. frame'[w].at = "setAway"
    BY <1>0, <1>9 DEF AskAway
  <2>2. QED
    BY <2>1, ArrivesPlain DEF PlainLabel
<1>10. CASE SetTopic(w) \/ SetMode(w) \/ SetAway(w) \/ List(w) \/ Ping(w)
  <2>1. frame'[w].at = "idle"
    BY <1>0, <1>10, Returns DEF SetTopic, SetMode, SetAway, List, Ping, Answers
  <2>2. QED
    BY <2>1, ArrivesPlain DEF PlainLabel
<1>11. QED
  BY <1>1, <1>2, <1>3, <1>4, <1>5, <1>6, <1>7, <1>8, <1>9, <1>10, <1>12,
     <1>13, <1>14
  DEF ChannelCommand

(* So for every command.                                                   *)
LEMMA CommandArrives ==
  ASSUME CallsInv, NEW w \in Worker, ProcessCommand(w)
  PROVE  Arrives(w)
BY SessionArrives, ChannelArrives DEF ProcessCommand

-----------------------------------------------------------------------------
(* A step of one worker *)

(* The label tells the function.                                           *)
LEMMA ActsAt ==
  ASSUME NEW w, ProcessCommand(w)
  PROVE  /\ In(w, "setUser") => SetUser(w)
         /\ In(w, "quitUser") => QuitUser(w)
         /\ In(w, "setNick") => SetNick(w)
         /\ In(w, "copyNick") => CopyNick(w)
         /\ In(w, "quitNick") => QuitNick(w)
         /\ In(w, "quitRmv") => QuitRmv(w)
         /\ In(w, "quitTad") => QuitTad(w)
BY DEF ProcessCommand,
     SessionCommand, AskRegistered, ChangeNick, SetNick, CopyNick, ReadNick,
     CheckUser, AddUser, SetUser, Relay, RelayBlock, RelayUnblock, Privmsg, ListTargets,
     FindNick,
     FindNickAgain, SendPrivate, Quit, QuitChannels, QuitClose, QuitRmv, QuitTad,
     QuitUser, QuitNick,
     ChannelCommand, Join, ListUsers, Names, Greet, Part, Kick, KickUser,
     AskTopicRight, AskTopicMode, SetTopic, Mode, AskModeRight, SetMode, AskAway, SetAway,
     List, Whois, WhoisChannels, Ping, Answers

(* The functions that write the tables and the registry.                   *)
LEMMA Writers ==
  ASSUME NEW w, ProcessCommand(w)
  PROVE  /\ ~SetUser(w) /\ ~QuitUser(w) => UNCHANGED <<users, registered>>
         /\ ~SetNick(w) /\ ~CopyNick(w) /\ ~QuitNick(w) => UNCHANGED nicks
         /\ ~ChangeNick(w) /\ ~AddUser(w) /\ ~QuitTad(w) => UNCHANGED account
         /\ ~Join(w) /\ ~Part(w) /\ ~KickUser(w) /\ ~QuitTad(w)
              => UNCHANGED <<members, ops>>
         /\ ~QuitClose(w) => UNCHANGED owner
<1>1. ~SetUser(w) /\ ~QuitUser(w) => UNCHANGED <<users, registered>>
  BY OthersKeepTables
  DEF TableStep, SetNick, CopyNick, QuitNick
<1>2. ~SetNick(w) /\ ~CopyNick(w) /\ ~QuitNick(w) => UNCHANGED nicks
  BY OthersKeepTables
  DEF TableStep, SetUser, QuitUser
<1>3. ~ChangeNick(w) /\ ~AddUser(w) /\ ~QuitTad(w) => UNCHANGED account
  BY OthersKeepTad
  DEF TadStep, Join, Greet, Part, KickUser, SetTopic, SetMode, SetAway, Leaves,
  Enters
<1>4. ~Join(w) /\ ~Part(w) /\ ~KickUser(w) /\ ~QuitTad(w) => UNCHANGED <<members, ops>>
  BY OthersKeepTad
  DEF TadStep, ChangeNick, AddUser, Greet, SetTopic, SetMode, SetAway
<1>5. ~QuitClose(w) => UNCHANGED owner
  BY OthersKeepSockets
  DEF SocketStep, QuitRmv, RelayBlock, RelayUnblock
<1>6. QED
  BY <1>1, <1>2, <1>3, <1>4, <1>5

(* Two commands under way are on different descriptors.                    *)
LEMMA Alone ==
  ASSUME SessionInv, NEW v \in Worker, NEW w \in Worker,
         ~In(v, "idle"), ~In(w, "idle"), Socket(v) = Socket(w)
  PROVE  v = w
<1>1. CallsInv
  BY DEF SessionInv
<1>2. v \in Active /\ w \in Active
  BY <1>1 DEF CallsInv, ServedInv, Active, Live, Worker
<1>3. QED
  BY <1>2, WorkersApart

(* A step of w's command: the others stay where they are, on descriptors   *)
(* of their own.                                                           *)
Step(w) ==
  /\ w \in Worker /\ Socket(w) \in Fd
  /\ \A v \in Worker : Socket(v)' = Socket(v) /\ Client(v)' = Client(v)
  /\ \A v \in Worker : v # w => frame'[v] = frame[v]
  /\ \A v \in Worker : ~In(v, "idle") /\ Socket(v) = Socket(w) => v = w
  /\ frame'[w] \in Frame /\ Fits(frame[w])
  /\ Arrives(w)

(* Every step of process_command is such a step.                           *)
LEMMA CommandStep ==
  ASSUME SessionInv, NEW w \in Worker, ProcessCommand(w)
  PROVE  Step(w)
<1>1. CallsInv /\ ~In(w, "idle") /\ frame \in [Worker -> Frame]
  BY CommandAt DEF SessionInv, CallsInv, TypeOK
<1>2. Socket(w) \in Fd /\ Fits(frame[w])
  BY <1>1 DEF CallsInv, CallInv
<1>3. \A v \in Worker : Socket(v)' = Socket(v) /\ Client(v)' = Client(v)
  BY CommandKeeps DEF Socket, Client, Given
<1>4. frame' = [frame EXCEPT ![w] = frame'[w]] /\ frame'[w] \in Frame
  BY <1>1, CommandCall
<1>5. \A v \in Worker : v # w => frame'[v] = frame[v]
  BY <1>1, <1>4
<1>6. \A v \in Worker : ~In(v, "idle") /\ Socket(v) = Socket(w) => v = w
  BY <1>1, Alone
<1>7. Arrives(w)
  BY <1>1, CommandArrives
<1>8. QED
  BY <1>2, <1>3, <1>4, <1>5, <1>6, <1>7 DEF Step

(* Nobody else lets go of the descriptor.                                  *)
LEMMA NotLeaving ==
  ASSUME NEW w, Step(w), NEW d \in Fd
  PROVE  /\ d = Socket(w) /\ frame[w].at # "quitUser" => ~Leaving(d)
         /\ d = Socket(w) /\ frame'[w].at # "quitUser" => ~Leaving(d)'
         /\ d # Socket(w) => (Leaving(d)' <=> Leaving(d))
<1>1. d = Socket(w) /\ frame[w].at # "quitUser" => ~Leaving(d)
  BY DEF Step, Leaving
<1>2. d = Socket(w) /\ frame'[w].at # "quitUser" => ~Leaving(d)'
  BY DEF Step, Leaving
<1>3. d # Socket(w) => (Leaving(d)' <=> Leaving(d))
  BY DEF Step, Leaving
<1>4. QED
  BY <1>1, <1>2, <1>3

-----------------------------------------------------------------------------
(* Users and accounts *)

Tables == users \in [Fd -> User \cup {NULL}] /\ account \in [User -> Nick \cup {NULL}]

(* Steps that change no user, and no account between none and some.        *)
LEMMA AccountsPlain ==
  ASSUME AccountsInv, NEW w, Step(w), UNCHANGED users,
         \A u \in User : account'[u] = NULL <=> account[u] = NULL,
         frame[w].at \notin {"quitUser", "setUser"},
         frame'[w].at \notin {"quitUser", "setUser"},
         frame'[w].at \in {"addUser", "quitNick"} => get_user(w) = NULL,
         Tables, \A v \in Worker : In(v, "setUser") => frame[v].arg \in User
  PROVE  AccountsInv'
<1>1. \A d \in Fd : (Leaving(d)' <=> Leaving(d)) /\ (Present(d)' <=> Present(d))
  BY NotLeaving DEF Present
<1>2. \A d \in Fd : \A u : Has(d, u)' <=> Has(d, u)
  BY <1>1 DEF Has
<1>3. \A v \in Worker : In(v, "setUser")' <=> In(v, "setUser")
  BY DEF Step
<1>4. \A v \in Worker : In(v, "setUser") => frame'[v].arg = frame[v].arg
  BY DEF Step
<1>5. \A d \in Fd : Present(d) => users[d] \in User
  BY DEF Present, Tables
<1>6. \A d \in Fd : Present(d)' => account'[users'[d]] # NULL
  BY <1>1, <1>5 DEF AccountsInv
<1>7. \A d, e \in Fd : Present(d)' /\ Present(e)' /\ users'[d] = users'[e] => d = e
  BY <1>1 DEF AccountsInv
<1>8. \A v \in Worker : In(v, "setUser")' =>
       /\ account'[frame'[v].arg] # NULL
       /\ \A d \in Fd : Present(d)' => users'[d] # frame'[v].arg
  BY <1>1, <1>3, <1>4 DEF AccountsInv
<1>9. \A v, x \in Worker : In(v, "setUser")' /\ In(x, "setUser")'
                           /\ frame'[v].arg = frame'[x].arg => v = x
  BY <1>3, <1>4 DEF AccountsInv
<1>10. \A v \in Worker : frame'[v].at \in {"addUser", "setUser", "quitNick"}
         => get_user(v)' = NULL
  BY <1>3 DEF AccountsInv, Step, get_user
<1>11. \A u \in User : account'[u] # NULL =>
         \/ \E d \in Fd : Has(d, u)'
         \/ \E v \in Worker : In(v, "setUser")' /\ frame'[v].arg = u
         \/ u \in LongUser
  BY <1>2, <1>3, <1>4 DEF AccountsInv
<1>12. QED
  BY <1>6, <1>7, <1>8, <1>9, <1>10, <1>11 DEF AccountsInv

Typed ==
  /\ Tables
  /\ frame \in [Worker -> Frame] /\ \A v \in Worker : Fits(frame[v])

(* IRCTADUser_Add gives an account to a user who had none.                 *)
LEMMA AccountsAdd ==
  ASSUME AccountsInv, Typed, NEW w, Step(w), AddUser(w)
  PROVE  AccountsInv'
<1>0. /\ w \in Worker /\ frame[w].arg \in User /\ get_user(w) = NULL
      /\ \A v \in Worker : In(v, "setUser") => frame[v].arg \in User
      /\ UNCHANGED users /\ frame[w].at = "addUser"
  BY DEF Step, Fits, Typed, AddUser, AccountsInv
<1>1. CASE UNCHANGED account /\ Return(w)
  <2>1. frame'[w].at = "idle"
    BY <1>0, <1>1, Returns DEF Typed
  <2>2. QED
    BY <1>0, <1>1, <2>1, AccountsPlain DEF Typed
<1>2. CASE /\ account[frame[w].arg] = NULL /\ frame[w].seen \in Nick
           /\ account' = [account EXCEPT ![frame[w].arg] = frame[w].seen]
           /\ Move(w, "setUser")
  <2>1. frame'[w].at = "setUser" /\ frame'[w].arg = frame[w].arg
    BY <1>0, <1>2, Moves DEF Typed, Label
  <2>2. \A d \in Fd : (Leaving(d)' <=> Leaving(d)) /\ (Present(d)' <=> Present(d))
    BY <1>0, <2>1, NotLeaving DEF Present
  <2>3. \A d \in Fd : \A u : Has(d, u)' <=> Has(d, u)
    BY <1>0, <2>2 DEF Has
  <2>4. \A v \in Worker : /\ In(v, "setUser")' <=> In(v, "setUser") \/ v = w
                          /\ frame'[v].arg = frame[v].arg \/ ~In(v, "setUser")'
    BY <2>1 DEF Step
  <2>5. \A v \in Worker : In(v, "setUser") => frame'[v].arg = frame[v].arg /\ v # w
    BY <1>0 DEF Step
  <2>6. /\ \A u \in User : u # frame[w].arg => account'[u] = account[u]
        /\ account'[frame[w].arg] # NULL
    BY <1>0, <1>2, IrcAssumption DEF Typed, Tables
  <2>7. /\ \A d \in Fd : Present(d) => users[d] # frame[w].arg /\ users[d] \in User
        /\ \A v \in Worker : In(v, "setUser") => frame[v].arg # frame[w].arg
    BY <1>2 DEF AccountsInv, Present, Typed, Tables
  <2>8. \A d \in Fd : Present(d)' => account'[users'[d]] # NULL
    BY <1>0, <2>2, <2>6, <2>7 DEF AccountsInv
  <2>9. \A d, e \in Fd : Present(d)' /\ Present(e)' /\ users'[d] = users'[e] => d = e
    BY <1>0, <2>2 DEF AccountsInv
  <2>10. \A v \in Worker : In(v, "setUser")' =>
           /\ account'[frame'[v].arg] # NULL
           /\ \A d \in Fd : Present(d)' => users'[d] # frame'[v].arg
    BY <1>0, <2>1, <2>2, <2>4, <2>5, <2>6, <2>7 DEF AccountsInv
  <2>11. \A v, x \in Worker : In(v, "setUser")' /\ In(x, "setUser")'
                              /\ frame'[v].arg = frame'[x].arg => v = x
    BY <2>1, <2>4, <2>5, <2>7 DEF AccountsInv
  <2>12. \A v \in Worker : frame'[v].at \in {"addUser", "setUser", "quitNick"}
           => get_user(v)' = NULL
    BY <1>0 DEF AccountsInv, Step, get_user
  <2>13. \A u \in User : account'[u] # NULL =>
           \/ \E d \in Fd : Has(d, u)'
           \/ \E v \in Worker : In(v, "setUser")' /\ frame'[v].arg = u
           \/ u \in LongUser
    <3>1. ASSUME NEW u \in User, account'[u] # NULL, u # frame[w].arg
          PROVE  \/ \E d \in Fd : Has(d, u)'
                 \/ \E v \in Worker : In(v, "setUser")' /\ frame'[v].arg = u
                 \/ u \in LongUser
      BY <2>3, <2>4, <2>5, <2>6, <3>1 DEF AccountsInv
    <3>2. QED
      BY <1>0, <2>1, <3>1
  <2>14. QED
    BY <2>8, <2>9, <2>10, <2>11, <2>12, <2>13 DEF AccountsInv
<1>3. QED
  BY <1>1, <1>2 DEF AddUser

(* set_user gives the new user its descriptor.                             *)
LEMMA AccountsSet ==
  ASSUME AccountsInv, Typed, NEW w, Step(w), SetUser(w)
  PROVE  AccountsInv'
<1> DEFINE u == frame[w].arg
           s == Socket(w)
<1>0. /\ w \in Worker /\ u \in User /\ users[s] = NULL /\ u # NULL
      /\ UNCHANGED account /\ frame[w].at = "setUser" /\ s \in Fd
      /\ frame'[w].at = "idle"
  <2>1. frame'[w].at = "idle"
    BY Returns DEF Step, Typed, SetUser
  <2>2. QED
    BY <2>1, IrcAssumption DEF Step, Fits, Typed, SetUser, AccountsInv, get_user
<1>1. \A d \in Fd : Leaving(d)' <=> Leaving(d)
  BY <1>0, NotLeaving
<1>2. \A v \in Worker : v # w /\ ~In(v, "idle") => Socket(v) # s
  BY DEF Step
<1>3. \A v \in Worker : /\ In(v, "setUser")' <=> In(v, "setUser") /\ v # w
                        /\ In(v, "setUser")' => frame'[v] = frame[v]
  BY <1>0 DEF Step
<1>4. \A v \in Worker : frame'[v].at \in {"addUser", "setUser", "quitNick"}
           => v # w /\ frame'[v] = frame[v] /\ Socket(v)' = Socket(v) /\ Socket(v) # s
              /\ users[Socket(v)] = NULL
  BY <1>0, <1>2 DEF Step, AccountsInv, get_user
<1>5. CASE u \in LongUser
  <2>1. UNCHANGED users
    BY <1>5 DEF SetUser
  <2>2. \A d \in Fd : \A x : (Present(d)' <=> Present(d)) /\ (Has(d, x)' <=> Has(d, x))
    BY <1>1, <2>1 DEF Present, Has
  <2>3. \A v \in Worker : frame'[v].at \in {"addUser", "setUser", "quitNick"}
           => get_user(v)' = NULL
    BY <1>4, <2>1 DEF get_user
  <2>4. \A x \in User : account'[x] # NULL =>
           \/ \E d \in Fd : Has(d, x)'
           \/ \E v \in Worker : In(v, "setUser")' /\ frame'[v].arg = x
           \/ x \in LongUser
    BY <1>0, <1>3, <1>5, <2>2 DEF AccountsInv
  <2>5. /\ \A d \in Fd : Present(d)' => account'[users'[d]] # NULL
        /\ \A d, e \in Fd : Present(d)' /\ Present(e)' /\ users'[d] = users'[e] => d = e
    BY <1>0, <2>1, <2>2 DEF AccountsInv
  <2>6. /\ \A v \in Worker : In(v, "setUser")' =>
             /\ account'[frame'[v].arg] # NULL
             /\ \A d \in Fd : Present(d)' => users'[d] # frame'[v].arg
        /\ \A v, x \in Worker : In(v, "setUser")' /\ In(x, "setUser")'
                                /\ frame'[v].arg = frame'[x].arg => v = x
    BY <1>0, <1>3, <2>1, <2>2 DEF AccountsInv
  <2>7. QED
    BY <2>3, <2>4, <2>5, <2>6 DEF AccountsInv
<1>6. CASE u \notin LongUser
  <2>1. users' = [users EXCEPT ![s] = u]
    BY <1>6 DEF SetUser
  <2>2. /\ users'[s] = u /\ ~Present(s)
        /\ \A d \in Fd : d # s => users'[d] = users[d]
    BY <1>0, <2>1 DEF Present, Typed, Tables
  <2>3. \A d \in Fd : Present(d)' <=> Present(d) \/ d = s
    BY <1>0, <1>1, <2>2, NotLeaving DEF Present
  <2>4. /\ \A d \in Fd : Present(d) => users[d] # u
        /\ account[u] # NULL
        /\ \A v \in Worker : In(v, "setUser") /\ v # w => frame[v].arg # u
    BY <1>0 DEF AccountsInv
  <2>5. \A v \in Worker : frame'[v].at \in {"addUser", "setUser", "quitNick"}
           => get_user(v)' = NULL
    <3>1. SUFFICES ASSUME NEW v \in Worker,
                          frame'[v].at \in {"addUser", "setUser", "quitNick"}
                   PROVE  users'[Socket(v)'] = NULL
      BY DEF get_user
    <3>2. users'[Socket(v)] = NULL
      BY <1>4, <2>1, <3>1 DEF Typed, Tables
    <3>3. QED
      BY <1>4, <3>1, <3>2
  <2>6. \A x \in User : account'[x] # NULL =>
           \/ \E d \in Fd : Has(d, x)'
           \/ \E v \in Worker : In(v, "setUser")' /\ frame'[v].arg = x
           \/ x \in LongUser
    <3>1. SUFFICES ASSUME NEW x \in User, account[x] # NULL, x # u, x \notin LongUser
                   PROVE  \/ \E d \in Fd : Has(d, x)'
                          \/ \E v \in Worker : In(v, "setUser")' /\ frame'[v].arg = x
      BY <1>0, <2>2, <2>3 DEF Has
    <3>2. CASE \E d \in Fd : Has(d, x)
      <4>1. PICK d \in Fd : Has(d, x)
        BY <3>2
      <4>2. Present(d)' /\ users'[d] = x
        BY <2>2, <2>3, <4>1 DEF Has
      <4>3. QED
        BY <4>2 DEF Has
    <3>3. CASE \E v \in Worker : In(v, "setUser") /\ frame[v].arg = x
      BY <1>3, <3>1, <3>3
    <3>4. QED
      BY <3>1, <3>2, <3>3 DEF AccountsInv
  <2>7. /\ \A d \in Fd : Present(d)' => account'[users'[d]] # NULL
        /\ \A d, e \in Fd : Present(d)' /\ Present(e)' /\ users'[d] = users'[e] => d = e
    BY <1>0, <2>2, <2>3, <2>4 DEF AccountsInv
  <2>8. \A v \in Worker : In(v, "setUser")' =>
             /\ account'[frame'[v].arg] # NULL
             /\ \A d \in Fd : Present(d)' => users'[d] # frame'[v].arg
    BY <1>0, <1>3, <2>2, <2>3, <2>4 DEF AccountsInv
  <2>9. \A v, x \in Worker : In(v, "setUser")' /\ In(x, "setUser")'
                                /\ frame'[v].arg = frame'[x].arg => v = x
    BY <1>3 DEF AccountsInv
  <2>10. QED
    BY <2>5, <2>6, <2>7, <2>8, <2>9 DEF AccountsInv
<1>7. QED
  BY <1>5, <1>6

(* IRCTAD_Quit frees the account while the table still has the user: it is *)
(* no longer present.                                                      *)
LEMMA AccountsFree ==
  ASSUME AccountsInv, Typed, NEW w, Step(w), QuitTad(w)
  PROVE  AccountsInv'
<1> DEFINE u == get_user(w)
           s == Socket(w)
<1>0. /\ w \in Worker /\ s \in Fd /\ users[s] = u /\ UNCHANGED users
      /\ frame[w].at = "quitTad" /\ frame'[w].at = "quitUser"
      /\ account' = [x \in User |-> IF x = u THEN NULL ELSE account[x]]
  BY Moves DEF Step, Typed, QuitTad, Label, get_user
<1>1. \A d \in Fd : /\ Present(d)' <=> Present(d) /\ d # s
                    /\ d = s => ~Leaving(d)
  <2>1. SUFFICES ASSUME NEW d \in Fd
                 PROVE  /\ Present(d)' <=> Present(d) /\ d # s
                        /\ d = s => ~Leaving(d)
    OBVIOUS
  <2>2. CASE d = s
    <3>1. ~Leaving(d) /\ Leaving(d)'
      BY <1>0, <2>2 DEF Leaving, Step
    <3>2. QED
      BY <2>2, <3>1 DEF Present
  <2>3. CASE d # s
    BY <1>0, <2>3, NotLeaving DEF Present
  <2>4. QED
    BY <2>2, <2>3
<1>2. \A v \in Worker : In(v, "setUser")' <=> In(v, "setUser")
  BY <1>0 DEF Step
<1>3. \A v \in Worker : frame'[v].at \in {"addUser", "setUser", "quitNick"}
           => v # w /\ frame'[v] = frame[v]
  BY <1>0 DEF Step
<1>4. \A d \in Fd : Present(d)' => users[d] # u /\ users[d] \in User
  <2>1. SUFFICES ASSUME NEW d \in Fd, Present(d), d # s, users[d] = u PROVE FALSE
    BY <1>1 DEF Typed, Tables, Present
  <2>2. Present(s)
    BY <1>0, <1>1, <2>1 DEF Present
  <2>3. QED
    BY <1>0, <2>1, <2>2 DEF AccountsInv
<1>5. \A v \in Worker : In(v, "setUser") => frame[v].arg # u /\ frame[v].arg \in User
  <2>1. SUFFICES ASSUME NEW v \in Worker, In(v, "setUser") PROVE frame[v].arg # u
    BY DEF Typed, Fits
  <2>2. frame[v].arg # NULL
    BY <2>1, IrcAssumption DEF Typed, Fits
  <2>3. u # NULL => Present(s)
    BY <1>0, <1>1 DEF Present
  <2>4. QED
    BY <1>0, <2>1, <2>2, <2>3 DEF AccountsInv
<1>6. \A d \in Fd : Present(d)' => account'[users'[d]] # NULL
  BY <1>0, <1>1, <1>4 DEF AccountsInv
<1>7. \A d, e \in Fd : Present(d)' /\ Present(e)' /\ users'[d] = users'[e] => d = e
  BY <1>0, <1>1 DEF AccountsInv
<1>8. \A v \in Worker : In(v, "setUser")' =>
             /\ account'[frame'[v].arg] # NULL
             /\ \A d \in Fd : Present(d)' => users'[d] # frame'[v].arg
  BY <1>0, <1>1, <1>2, <1>3, <1>5 DEF AccountsInv
<1>9. \A v, x \in Worker : In(v, "setUser")' /\ In(x, "setUser")'
                                /\ frame'[v].arg = frame'[x].arg => v = x
  BY <1>2, <1>3 DEF AccountsInv
<1>10. \A v \in Worker : frame'[v].at \in {"addUser", "setUser", "quitNick"}
           => get_user(v)' = NULL
  BY <1>0, <1>3 DEF AccountsInv, Step, get_user
<1>11. \A x \in User : account'[x] # NULL =>
           \/ \E d \in Fd : Has(d, x)'
           \/ \E v \in Worker : In(v, "setUser")' /\ frame'[v].arg = x
           \/ x \in LongUser
  <2>1. SUFFICES ASSUME NEW x \in User, account[x] # NULL, x # u, x \notin LongUser
                 PROVE  \/ \E d \in Fd : Has(d, x)'
                        \/ \E v \in Worker : In(v, "setUser")' /\ frame'[v].arg = x
    BY <1>0
  <2>2. CASE \E d \in Fd : Has(d, x)
    <3>1. PICK d \in Fd : Has(d, x)
      BY <2>2
    <3>2. Present(d)' /\ users'[d] = x
      BY <1>0, <1>1, <2>1, <3>1 DEF Has
    <3>3. QED
      BY <3>2 DEF Has
  <2>3. CASE \E v \in Worker : In(v, "setUser") /\ frame[v].arg = x
    BY <1>2, <1>3, <2>3
  <2>4. QED
    BY <2>1, <2>2, <2>3 DEF AccountsInv
<1>12. QED
  BY <1>6, <1>7, <1>8, <1>9, <1>10, <1>11 DEF AccountsInv

(* set_user(socketd, NULL) forgets whom IRCTAD_Quit has let go.            *)
LEMMA AccountsForget ==
  ASSUME AccountsInv, Typed, NEW w, Step(w), QuitUser(w)
  PROVE  /\ AccountsInv'
         /\ \A d \in Fd : \A x : Has(d, x)' <=> Has(d, x)
<1> DEFINE s == Socket(w)
<1>0. /\ w \in Worker /\ s \in Fd /\ UNCHANGED account
      /\ frame[w].at = "quitUser" /\ frame'[w].at = "quitNick"
      /\ users' = [users EXCEPT ![s] = NULL]
  BY Moves DEF Step, Typed, QuitUser, Label
<1>1. users'[s] = NULL /\ \A d \in Fd : d # s => users'[d] = users[d]
  BY <1>0 DEF Typed, Tables
<1>2. \A d \in Fd : (Present(d)' <=> Present(d)) /\ ~Present(s)
  BY <1>0, <1>1, NotLeaving DEF Present, Leaving
<1>3. \A d \in Fd : \A x : Has(d, x)' <=> Has(d, x)
  BY <1>1, <1>2 DEF Has
<1>4. \A v \in Worker : /\ In(v, "setUser")' <=> In(v, "setUser")
                        /\ In(v, "setUser")' => frame'[v] = frame[v]
  BY <1>0 DEF Step
<1>5. \A v \in Worker : frame'[v].at \in {"addUser", "setUser", "quitNick"}
           => get_user(v)' = NULL
  <2>1. SUFFICES ASSUME NEW v \in Worker,
                        frame'[v].at \in {"addUser", "setUser", "quitNick"}
                 PROVE  users'[Socket(v)] = NULL
    BY DEF get_user, Step
  <2>2. CASE v = w
    BY <1>1, <2>2
  <2>3. CASE v # w
    <3>1. users[Socket(v)] = NULL /\ Socket(v) # s
      BY <2>1, <2>3 DEF Step, AccountsInv, get_user
    <3>2. QED
      BY <1>0, <3>1 DEF Typed, Tables
  <2>4. QED
    BY <2>2, <2>3
<1>6. \A d \in Fd : Present(d)' => account'[users'[d]] # NULL
  BY <1>0, <1>1, <1>2 DEF AccountsInv
<1>7. \A d, e \in Fd : Present(d)' /\ Present(e)' /\ users'[d] = users'[e] => d = e
  BY <1>0, <1>1, <1>2 DEF AccountsInv
<1>8. \A v \in Worker : In(v, "setUser")' =>
             /\ account'[frame'[v].arg] # NULL
             /\ \A d \in Fd : Present(d)' => users'[d] # frame'[v].arg
  BY <1>0, <1>1, <1>2, <1>4 DEF AccountsInv
<1>9. \A v, x \in Worker : In(v, "setUser")' /\ In(x, "setUser")'
                                /\ frame'[v].arg = frame'[x].arg => v = x
  BY <1>4 DEF AccountsInv
<1>10. \A x \in User : account'[x] # NULL =>
           \/ \E d \in Fd : Has(d, x)'
           \/ \E v \in Worker : In(v, "setUser")' /\ frame'[v].arg = x
           \/ x \in LongUser
  BY <1>0, <1>3, <1>4 DEF AccountsInv
<1>11. QED
  BY <1>3, <1>5, <1>6, <1>7, <1>8, <1>9, <1>10 DEF AccountsInv

(* Every command keeps users and accounts together.                        *)
LEMMA AccountsCommand ==
  ASSUME AccountsInv, Typed, NEW w, Step(w), ProcessCommand(w)
  PROVE  AccountsInv'
<1>0. /\ w \in Worker /\ Fits(frame[w])
      /\ \A v \in Worker : In(v, "setUser") => frame[v].arg \in User
  BY DEF Step, Fits, Typed
<1>1. CASE AddUser(w) \/ SetUser(w) \/ QuitTad(w) \/ QuitUser(w)
  BY <1>1, AccountsAdd, AccountsSet, AccountsFree, AccountsForget
<1>2. CASE ~ (AddUser(w) \/ SetUser(w) \/ QuitTad(w) \/ QuitUser(w))
  <2>1. UNCHANGED users
    BY <1>2, Writers
  <2>2. frame[w].at \notin {"quitUser", "setUser"}
    BY <1>2, ActsAt
  <2>3. frame'[w].at \notin {"quitUser", "setUser"}
    BY <1>2 DEF Step, Arrives
  <2>4. frame'[w].at \in {"addUser", "quitNick"} => get_user(w) = NULL
    <3>1. SUFFICES ASSUME frame'[w].at \in {"addUser", "quitNick"}
                   PROVE  get_user(w) = NULL
      OBVIOUS
    <3>2. CheckUser(w)
      BY <1>2, <3>1 DEF Step, Arrives
    <3>3. QED
      BY <1>0, <3>1, <3>2, Returns DEF CheckUser, Typed
  <2>5. \A u \in User : account'[u] = NULL <=> account[u] = NULL
    <3>1. CASE ChangeNick(w)
      <4>1. \/ account' = account
            \/ /\ account[get_user(w)] # NULL /\ frame[w].arg # NULL
               /\ account' = [account EXCEPT ![get_user(w)] = frame[w].arg]
        BY <3>1 DEF ChangeNick
      <4>2. QED
        BY <4>1 DEF Typed, Tables
    <3>2. CASE ~ChangeNick(w)
      BY <1>2, <3>2, Writers
    <3>3. QED
      BY <3>1, <3>2
  <2>6. QED
    BY <1>0, <2>1, <2>2, <2>3, <2>4, <2>5, AccountsPlain DEF Typed
<1>3. QED
  BY <1>1, <1>2

-----------------------------------------------------------------------------
(* Nicks *)

AllApart ==
  /\ \A v \in Worker : ~In(v, "idle") => Socket(v) \in Fd
  /\ \A v, x \in Worker :
       ~In(v, "idle") /\ ~In(x, "idle") /\ Socket(v) = Socket(x) => v = x

NickTyped == Typed /\ nicks \in [Fd -> Nick \cup {NULL, Garbage}]

(* A command changes the tables for its own descriptor only, and libirctad *)
(* for the user it has there or for one who had no account.                *)
LEMMA OwnUser ==
  ASSUME AccountsInv, NickTyped, NEW w, Step(w), ProcessCommand(w)
  PROVE  /\ \A d \in Fd : d # Socket(w) => users'[d] = users[d] /\ nicks'[d] = nicks[d]
         /\ \A x \in User : account'[x] # account[x] =>
              \/ /\ x = users[Socket(w)] /\ Present(Socket(w))
                 /\ ChangeNick(w) \/ QuitTad(w)
              \/ account[x] = NULL
<1> DEFINE s == Socket(w)
<1>0. s \in Fd /\ w \in Worker
  BY DEF Step
<1>1. \A d \in Fd : d # s => users'[d] = users[d]
  <2>1. users' = users \/ (\E x : users' = [users EXCEPT ![s] = x])
    BY Writers DEF SetUser, QuitUser
  <2>2. QED
    BY <1>0, <2>1 DEF NickTyped, Typed, Tables
<1>2. \A d \in Fd : d # s => nicks'[d] = nicks[d]
  <2>1. nicks' = nicks \/ (\E x : nicks' = [nicks EXCEPT ![s] = x])
    BY Writers DEF SetNick, CopyNick, QuitNick
  <2>2. QED
    BY <1>0, <2>1 DEF NickTyped
<1>3. ASSUME NEW x \in User, account'[x] # account[x]
      PROVE  \/ x = users[s] /\ Present(s) /\ (ChangeNick(w) \/ QuitTad(w))
             \/ account[x] = NULL
  <2>1. x # NULL
    BY IrcAssumption
  <2>2. CASE ChangeNick(w)
    <3>1. \/ account' = account
          \/ account' = [account EXCEPT ![users[s]] = frame[w].arg]
      BY <2>2 DEF ChangeNick, get_user
    <3>2. x = users[s]
      BY <1>3, <3>1 DEF NickTyped, Typed, Tables
    <3>3. ~Leaving(s)
      BY <1>0, <2>2, NotLeaving DEF ChangeNick
    <3>4. QED
      BY <2>1, <2>2, <3>2, <3>3 DEF Present
  <2>3. CASE QuitTad(w)
    <3>1. x = users[s]
      BY <1>3, <2>3 DEF QuitTad, get_user
    <3>2. ~Leaving(s)
      BY <1>0, <2>3, NotLeaving DEF QuitTad
    <3>3. QED
      BY <2>1, <2>3, <3>1, <3>2 DEF Present
  <2>4. CASE AddUser(w)
    <3>1. \/ account' = account
          \/ /\ account[frame[w].arg] = NULL
             /\ account' = [account EXCEPT ![frame[w].arg] = frame[w].seen]
      BY <2>4 DEF AddUser
    <3>2. QED
      BY <1>3, <3>1 DEF NickTyped, Typed, Tables
  <2>5. QED
    BY <1>3, <2>2, <2>3, <2>4, Writers
<1>4. QED
  BY <1>1, <1>2, <1>3

(* What is said of one worker in NicksInv.                                 *)
KnowsNick(w) ==
  /\ frame[w].at \in {"checkUser", "addUser", "setUser"} => frame[w].seen = get_nick(w)
  /\ In(w, "setUser") => account[frame[w].arg] = frame[w].seen
  /\ Renames(w) /\ get_user(w) # NULL => account[get_user(w)] = frame[w].arg
  /\ In(w, "copyNick") => get_nick(w) # NULL

(* And of one descriptor.                                                  *)
HasNick(d) ==
  Present(d) /\ ~Renaming(d)
    => account[users[d]] = nicks[d] \/ account[users[d]] \in LongNick

(* NicksInv says so of each worker and of each descriptor.                 *)
LEMMA NicksEach ==
  /\ NicksInv <=> /\ \A w \in Worker : KnowsNick(w)
                  /\ \A d \in Fd : HasNick(d)
  /\ NicksInv' <=> /\ \A w \in Worker : KnowsNick(w)'
                   /\ \A d \in Fd : HasNick(d)'
<1>1. NicksInv <=> /\ \A w \in Worker : KnowsNick(w)
                   /\ \A d \in Fd : HasNick(d)
  BY DEF NicksInv, KnowsNick, HasNick
<1>2. NicksInv' <=> /\ \A w \in Worker : KnowsNick(w)'
                    /\ \A d \in Fd : HasNick(d)'
  BY DEF NicksInv, KnowsNick, HasNick
<1>3. QED
  BY <1>1, <1>2

(* A command leaves the others' nicks alone.                               *)
LEMMA OthersNicks ==
  ASSUME AccountsInv, NicksInv, AllApart, NickTyped, NEW w, Step(w), ProcessCommand(w)
  PROVE  /\ \A v \in Worker : v # w => KnowsNick(v)'
         /\ \A d \in Fd : d # Socket(w) => HasNick(d)'
<1> DEFINE s == Socket(w)
<1>1. ASSUME NEW v \in Worker, v # w
      PROVE  KnowsNick(v)'
  <2>1. frame'[v] = frame[v] /\ Socket(v)' = Socket(v)
    BY <1>1 DEF Step
  <2>2. CASE In(v, "idle")
    BY <2>1, <2>2 DEF KnowsNick, Renames
  <2>3. CASE ~In(v, "idle") /\ Socket(v) \in Fd
    <3>1. Socket(v) # s
      BY <1>1, <2>3 DEF Step
    <3>2. users'[Socket(v)] = users[Socket(v)] /\ nicks'[Socket(v)] = nicks[Socket(v)]
      BY <2>3, <3>1, OwnUser
    <3>3. get_user(v)' = get_user(v) /\ get_nick(v)' = get_nick(v)
      BY <2>1, <3>2 DEF get_user, get_nick
    <3>4. In(v, "setUser") => account'[frame[v].arg] = account[frame[v].arg]
      <4>1. SUFFICES ASSUME In(v, "setUser")
                     PROVE  account'[frame[v].arg] = account[frame[v].arg]
        OBVIOUS
      <4>2. frame[v].arg \in User /\ account[frame[v].arg] # NULL
        BY <4>1 DEF NickTyped, Typed, Fits, AccountsInv
      <4>3. ~ (Present(s) /\ users[s] = frame[v].arg)
        BY <4>1 DEF AccountsInv, Step
      <4>4. QED
        BY <4>2, <4>3, OwnUser
    <3>5. Renames(v) /\ get_user(v) # NULL => account'[get_user(v)] = account[get_user(v)]
      <4>1. SUFFICES ASSUME Renames(v), get_user(v) # NULL
                     PROVE  account'[get_user(v)] = account[get_user(v)]
        OBVIOUS
      <4>2. ~Leaving(Socket(v))
        BY <4>1 DEF AllApart, Leaving, Renames
      <4>3. Present(Socket(v)) /\ users[Socket(v)] = get_user(v)
        BY <4>1, <4>2 DEF Present, get_user
      <4>4. account[get_user(v)] # NULL /\ get_user(v) \in User
        BY <2>3, <4>3 DEF AccountsInv, NickTyped, Typed, Tables, Present
      <4>5. ~ (Present(s) /\ users[s] = get_user(v))
        BY <2>3, <3>1, <4>3 DEF AccountsInv, Step
      <4>6. QED
        BY <4>4, <4>5, OwnUser
    <3>6. KnowsNick(v)
      BY NicksEach
    <3>7. Renames(v)' <=> Renames(v)
      BY <2>1 DEF Renames
    <3>8. QED
      BY <2>1, <3>3, <3>4, <3>5, <3>6, <3>7 DEF KnowsNick
  <2>4. QED
    BY <2>2, <2>3 DEF AllApart
<1>2. ASSUME NEW d \in Fd, d # s
      PROVE  HasNick(d)'
  <2>1. users'[d] = users[d] /\ nicks'[d] = nicks[d]
    BY <1>2, OwnUser
  <2>2. (Present(d)' <=> Present(d))
    BY <1>2, <2>1, NotLeaving DEF Present
  <2>3. Renaming(d)' <=> Renaming(d)
    BY <1>2 DEF Step, Renaming, Renames
  <2>4. Present(d) => account'[users[d]] = account[users[d]]
    <3>1. SUFFICES ASSUME Present(d) PROVE account'[users[d]] = account[users[d]]
      OBVIOUS
    <3>2. account[users[d]] # NULL /\ users[d] \in User
      BY <3>1 DEF AccountsInv, NickTyped, Typed, Tables, Present
    <3>3. ~ (Present(s) /\ users[s] = users[d])
      BY <1>2, <3>1 DEF AccountsInv, Step
    <3>4. QED
      BY <3>2, <3>3, OwnUser
  <2>5. HasNick(d)
    BY NicksEach
  <2>6. QED
    BY <2>1, <2>2, <2>3, <2>4, <2>5 DEF HasNick
<1>3. QED
  BY <1>1, <1>2

(* What its own command makes of what it knows of its nick.                *)
LEMMA OwnKnows ==
  ASSUME AccountsInv, NicksInv, NickTyped, NEW w, Step(w), ProcessCommand(w)
  PROVE  KnowsNick(w)'
<1> DEFINE s == Socket(w)
<1>0. /\ w \in Worker /\ s \in Fd /\ Socket(w)' = s /\ KnowsNick(w)
      /\ frame \in [Worker -> Frame] /\ frame[w] \in Frame /\ Fits(frame[w])
  BY NicksEach DEF Step, NickTyped, Typed
<1>1. frame'[w].at \in {"checkUser", "addUser", "setUser"}
        => frame'[w].seen = get_nick(w)'
  <2>1. SUFFICES ASSUME frame'[w].at \in {"checkUser", "addUser", "setUser"}
                 PROVE  frame'[w].seen = nicks'[s]
    BY <1>0 DEF get_nick
  <2>2. CASE ReadNick(w)
    BY <1>0, <2>2 DEF ReadNick, get_nick, Frame
  <2>3. CASE CheckUser(w)
    BY <1>0, <2>1, <2>3, Moves, Returns DEF CheckUser, KnowsNick, get_nick, Label
  <2>4. CASE AddUser(w)
    BY <1>0, <2>1, <2>4, Moves, Returns DEF AddUser, KnowsNick, get_nick, Label
  <2>5. QED
    BY <2>1, <2>2, <2>3, <2>4 DEF Step, Arrives
<1>2. In(w, "setUser")' => account'[frame'[w].arg] = frame'[w].seen
  <2>1. SUFFICES ASSUME In(w, "setUser")', AddUser(w)
                 PROVE  account'[frame'[w].arg] = frame'[w].seen
    BY DEF Step, Arrives
  <2>2. /\ Move(w, "setUser") /\ frame[w].arg \in User
        /\ account' = [account EXCEPT ![frame[w].arg] = frame[w].seen]
    BY <1>0, <2>1, Returns DEF AddUser, Fits
  <2>3. frame'[w].arg = frame[w].arg /\ frame'[w].seen = frame[w].seen
    BY <1>0, <2>2, Moves DEF Label
  <2>4. QED
    BY <2>2, <2>3 DEF NickTyped, Typed, Tables
<1>3. Renames(w)' /\ get_user(w)' # NULL => account'[get_user(w)'] = frame'[w].arg
  <2>1. SUFFICES ASSUME Renames(w)', users'[s] # NULL
                 PROVE  account'[users'[s]] = frame'[w].arg
    BY <1>0 DEF get_user
  <2>2. CASE AskRegistered(w)
    <3>1. users'[s] = users[s] /\ get_user(w) # NULL
      BY <2>1, <2>2 DEF AskRegistered, get_user
    <3>2. frame'[w].at = "changeNick"
      BY <1>0, <2>2, <3>1, Moves DEF AskRegistered, Label
    <3>3. QED
      BY <2>1, <3>2 DEF Renames
  <2>3. CASE ChangeNick(w)
    <3>1. /\ account' = [account EXCEPT ![users[s]] = frame[w].arg]
          /\ Move(w, "setNick") /\ users' = users
      BY <1>0, <2>1, <2>3, Returns DEF ChangeNick, Renames, get_user
    <3>2. frame'[w].arg = frame[w].arg
      BY <1>0, <3>1, Moves DEF Label
    <3>3. QED
      BY <1>0, <2>1, <3>1, <3>2 DEF NickTyped, Typed, Tables
  <2>4. CASE SetNick(w)
    <3>1. Move(w, "copyNick") /\ users' = users /\ account' = account /\ Renames(w)
      BY <1>0, <2>1, <2>4, Returns DEF SetNick, Renames
    <3>2. frame'[w].arg = frame[w].arg
      BY <1>0, <3>1, Moves DEF Label
    <3>3. QED
      BY <1>0, <2>1, <3>1, <3>2 DEF KnowsNick, get_user
  <2>5. QED
    BY <2>1, <2>2, <2>3, <2>4 DEF Step, Arrives, Renames
<1>4. In(w, "copyNick")' => get_nick(w)' # NULL
  <2>1. SUFFICES ASSUME In(w, "copyNick")', SetNick(w) PROVE nicks'[s] # NULL
    BY <1>0 DEF Step, Arrives, get_nick
  <2>2. nicks' = [nicks EXCEPT ![s] = IF @ = NULL THEN Garbage ELSE @]
    BY <1>0, <2>1, Returns DEF SetNick
  <2>3. QED
    BY <1>0, <2>2, IrcAssumption DEF NickTyped
<1>5. QED
  BY <1>1, <1>2, <1>3, <1>4 DEF KnowsNick

(* And of the nick of its descriptor.                                      *)
LEMMA OwnNick ==
  ASSUME AccountsInv, NicksInv, NickTyped, NEW w, Step(w), ProcessCommand(w),
         NEW s \in Fd, s = Socket(w)
  PROVE  HasNick(s)'
<1>0. /\ w \in Worker /\ Socket(w)' = s /\ KnowsNick(w) /\ HasNick(s)
      /\ frame \in [Worker -> Frame] /\ frame[w] \in Frame /\ Fits(frame[w])
  BY NicksEach DEF Step, NickTyped, Typed
<1>1. Renames(w)' => Renaming(s)'
  BY <1>0 DEF Renaming
<1>2. CASE SetUser(w)
  <2>1. frame[w].at = "setUser" /\ account' = account /\ nicks' = nicks
    BY <1>2 DEF SetUser
  <2>2. account[frame[w].arg] = nicks[s] /\ users[s] = NULL
    BY <1>0, <2>1 DEF KnowsNick, get_nick, get_user, AccountsInv
  <2>3. users'[s] = frame[w].arg \/ users'[s] = NULL
    BY <1>2, <2>2 DEF SetUser, NickTyped, Typed, Tables
  <2>4. QED
    BY <2>1, <2>2, <2>3 DEF HasNick, Present
<1>3. CASE QuitTad(w)
  <2>1. frame'[w].at = "quitUser"
    BY <1>0, <1>3, Moves DEF QuitTad, Label
  <2>2. Leaving(s)'
    BY <1>0, <2>1 DEF Leaving
  <2>3. QED
    BY <2>2 DEF HasNick, Present
<1>4. CASE QuitUser(w)
  <2>1. users'[s] = NULL
    BY <1>4 DEF QuitUser, NickTyped, Typed, Tables
  <2>2. QED
    BY <2>1 DEF HasNick, Present
<1>5. CASE QuitNick(w)
  <2>1. users'[s] = NULL
    BY <1>0, <1>5 DEF QuitNick, AccountsInv, get_user
  <2>2. QED
    BY <2>1 DEF HasNick, Present
<1>6. CASE ~SetUser(w) /\ ~QuitTad(w) /\ ~QuitUser(w) /\ ~QuitNick(w)
  <2>1. users' = users /\ frame[w].at # "quitUser"
    BY <1>6, Writers, ActsAt
  <2>2. SUFFICES ASSUME Present(s)', ~Renaming(s)'
                 PROVE  \/ account'[users[s]] = nicks'[s]
                        \/ account'[users[s]] \in LongNick
    BY <2>1 DEF HasNick
  <2>3. Present(s) /\ users[s] \in User /\ account[users[s]] # NULL
    BY <2>1, <2>2, NotLeaving DEF Present, AccountsInv, NickTyped, Typed, Tables
  <2>4. ~Renames(w)' /\ get_user(w) = users[s] /\ users[s] # NULL
    BY <1>1, <2>2, <2>3 DEF get_user, Present
  <2>5. CASE SetNick(w)
    <3>1. account[users[s]] = frame[w].arg /\ account' = account
      BY <1>0, <2>4, <2>5 DEF SetNick, KnowsNick, Renames
    <3>2. frame[w].arg # NULL
      BY <2>3, <3>1
    <3>3. frame[w].arg \in LongNick
      <4>1. SUFFICES ASSUME Move(w, "copyNick") PROVE FALSE
        BY <2>5, <3>2 DEF SetNick
      <4>2. frame'[w].at = "copyNick"
        BY <1>0, <4>1, Moves DEF Label
      <4>3. QED
        BY <2>4, <4>2 DEF Renames
    <3>4. QED
      BY <3>1, <3>3
  <2>6. CASE CopyNick(w)
    <3>1. account[users[s]] = frame[w].arg /\ account' = account
      BY <1>0, <2>4, <2>6 DEF CopyNick, KnowsNick, Renames
    <3>2. nicks' = [nicks EXCEPT ![s] = frame[w].arg]
      BY <1>0, <2>6 DEF CopyNick, KnowsNick
    <3>3. QED
      BY <3>1, <3>2 DEF NickTyped
  <2>7. CASE ChangeNick(w)
    <3>1. account' = account /\ nicks' = nicks
      <4>1. SUFFICES ASSUME Move(w, "setNick") PROVE FALSE
        BY <2>7 DEF ChangeNick
      <4>2. frame'[w].at = "setNick"
        BY <1>0, <4>1, Moves DEF Label
      <4>3. QED
        BY <2>4, <4>2 DEF Renames
    <3>2. ~Renaming(s)
      BY <1>0, <2>7 DEF Renaming, Renames, Step, ChangeNick
    <3>3. QED
      BY <1>0, <2>3, <3>1, <3>2 DEF HasNick
  <2>8. CASE ~SetNick(w) /\ ~CopyNick(w) /\ ~ChangeNick(w)
    <3>1. nicks' = nicks /\ ~Renames(w)
      BY <1>6, <2>8, Writers, ActsAt DEF Renames
    <3>2. ~Renaming(s)
      <4>1. SUFFICES ASSUME NEW v \in Worker, Renames(v), Socket(v) = s PROVE FALSE
        BY DEF Renaming
      <4>2. v = w
        BY <1>0, <4>1 DEF Step, Renames
      <4>3. QED
        BY <3>1, <4>1, <4>2
    <3>3. account'[users[s]] = account[users[s]]
      BY <1>6, <2>3, <2>8, OwnUser
    <3>4. QED
      BY <1>0, <2>3, <3>1, <3>2, <3>3 DEF HasNick
  <2>9. QED
    BY <2>5, <2>6, <2>7, <2>8
<1>7. QED
  BY <1>2, <1>3, <1>4, <1>5, <1>6

(* Every command keeps the nicks of libirctad and the table together.      *)
LEMMA NicksCommand ==
  ASSUME AccountsInv, NicksInv, AllApart, NickTyped, NEW w, Step(w), ProcessCommand(w)
  PROVE  NicksInv'
<1>1. \A v \in Worker : KnowsNick(v)'
  BY OthersNicks, OwnKnows
<1>2. \A d \in Fd : HasNick(d)'
  BY OthersNicks, OwnNick
<1>3. QED
  BY <1>1, <1>2, NicksEach

-----------------------------------------------------------------------------
(* Channels *)

MemberTyped ==
  /\ NickTyped
  /\ members \in [Channel -> SUBSET User] /\ ops \in [Channel -> SUBSET User]

There(u) == account[u] # NULL /\ \E d \in Fd : Has(d, u)

(* Whoever is there stays, unless the command lets go of it.               *)
LEMMA StillThere ==
  ASSUME AccountsInv, NickTyped, NEW w, Step(w), ProcessCommand(w),
         NEW u \in User, There(u), ~ (QuitTad(w) /\ u = users[Socket(w)])
  PROVE  There(u)'
<1> DEFINE s == Socket(w)
<1>0. s \in Fd /\ w \in Worker
  BY DEF Step
<1>1. account'[u] # NULL
  <2>1. CASE ChangeNick(w)
    <3>1. \/ account' = account
          \/ /\ account' = [account EXCEPT ![users[s]] = frame[w].arg]
             /\ frame[w].arg # NULL
      BY <2>1 DEF ChangeNick, get_user
    <3>2. QED
      BY <3>1 DEF There, NickTyped, Typed, Tables
  <2>2. CASE ~ChangeNick(w)
    BY <2>2, OwnUser DEF There
  <2>3. QED
    BY <2>1, <2>2
<1>2. PICK d \in Fd : Has(d, u)
  BY DEF There
<1>3. CASE QuitUser(w)
  <2>1. Has(d, u)'
    BY <1>2, <1>3, AccountsForget DEF NickTyped
  <2>2. QED
    BY <1>1, <2>1 DEF There
<1>4. CASE ~QuitUser(w)
  <2>1. users'[d] = users[d]
    <3>1. CASE d = s /\ SetUser(w)
      BY <1>0, <1>2, <3>1 DEF SetUser, AccountsInv, get_user, Has, Present
    <3>2. CASE d # s
      BY <3>2, OwnUser
    <3>3. CASE ~SetUser(w)
      BY <1>4, <3>3, Writers
    <3>4. QED
      BY <3>1, <3>2, <3>3
  <2>2. ~Leaving(d)'
    <3>1. CASE d = s
      <4>1. ~QuitTad(w)
        BY <1>2, <3>1 DEF Has
      <4>2. frame'[w].at # "quitUser"
        BY <4>1 DEF Step, Arrives
      <4>3. QED
        BY <3>1, <4>2, NotLeaving
    <3>2. CASE d # s
      BY <1>2, <3>2, NotLeaving DEF Has, Present
    <3>3. QED
      BY <3>1, <3>2
  <2>3. Has(d, u)'
    BY <1>2, <2>1, <2>2 DEF Has, Present
  <2>4. QED
    BY <1>1, <2>3 DEF There
<1>5. QED
  BY <1>3, <1>4

(* How the members and the operators of a channel change.                  *)
Joins(w, ch) ==
  /\ Join(w) /\ users[Socket(w)] \in User /\ account[users[Socket(w)]] # NULL
  /\ members'[ch] = members[ch] \cup {users[Socket(w)]}
  /\ ops'[ch] = IF members[ch] = {} THEN {users[Socket(w)]} ELSE ops[ch]
Drops(u, ch) ==
  members'[ch] = members[ch] \ {u} /\ ops'[ch] = ops[ch] \ {u}
Stays(ch) == members'[ch] = members[ch] /\ ops'[ch] = ops[ch]

(* What a command does to a channel: nothing, its own user joins it, its   *)
(* own user leaves it, or a user is kicked off it.                         *)
LEMMA MembersChange ==
  ASSUME MemberTyped, NEW w, Step(w), ProcessCommand(w), NEW ch \in Channel
  PROVE  \/ Stays(ch) /\ ~QuitTad(w)
         \/ Joins(w, ch) /\ ~QuitTad(w)
         \/ (Part(w) \/ QuitTad(w)) /\ Drops(users[Socket(w)], ch)
         \/ KickUser(w) /\ frame[w].arg = ch /\ Drops(frame[w].opt, ch) /\ ~QuitTad(w)
<1> USE DEF Stays, Joins, Drops
<1>0. frame[w].at \in {"join", "part", "kickUser"} => frame[w].arg \in Channel
  BY DEF Step, Fits
<1>1. CASE Join(w)
  <2>1. ~QuitTad(w) /\ users[Socket(w)] \in User \cup {NULL}
    BY <1>1 DEF Join, QuitTad, Step, MemberTyped, NickTyped, Typed, Tables
  <2>2. CASE UNCHANGED tad
    BY <2>1, <2>2
  <2>3. CASE /\ get_user(w) # NULL /\ account[get_user(w)] # NULL
             /\ Enters(get_user(w), frame[w].arg)
    BY <1>0, <1>1, <2>1, <2>3 DEF Join, Enters, MemberTyped, get_user
  <2>4. QED
    BY <1>1, <2>2, <2>3 DEF Join
<1>2. CASE Part(w)
  <2>1. ~QuitTad(w)
    BY <1>2 DEF Part, QuitTad
  <2>2. QED
    BY <1>0, <1>2, <2>1 DEF Part, Leaves, MemberTyped, get_user
<1>3. CASE KickUser(w)
  <2>1. ~QuitTad(w)
    BY <1>3 DEF KickUser, QuitTad
  <2>2. QED
    BY <1>0, <1>3, <2>1 DEF KickUser, Leaves, MemberTyped
<1>4. CASE QuitTad(w)
  BY <1>4 DEF QuitTad, get_user
<1>5. CASE ~Join(w) /\ ~Part(w) /\ ~KickUser(w) /\ ~QuitTad(w)
  BY <1>5, Writers
<1>6. QED
  BY <1>1, <1>2, <1>3, <1>4, <1>5

(* Every command keeps channels for users who are there, and rights with   *)
(* whoever was found to have them.                                         *)
LEMMA MembersCommand ==
  ASSUME AccountsInv, MembersInv, AllApart, MemberTyped,
         NEW w, Step(w), ProcessCommand(w)
  PROVE  MembersInv'
<1> DEFINE s == Socket(w)
<1>0. /\ s \in Fd /\ w \in Worker
      /\ frame \in [Worker -> Frame] /\ Tables
      /\ \A ch \in Channel : /\ \A u \in members[ch] : u \in User /\ There(u)
                             /\ \A u \in ops[ch] : u \in User
  BY DEF Step, MemberTyped, NickTyped, Typed, MembersInv, There
<1>1. frame[w].at # "quitUser" /\ users[s] # NULL => Present(s) /\ Has(s, users[s])
  BY <1>0, NotLeaving DEF Present, Has
<1>2. ASSUME NEW ch \in Channel, NEW u \in members'[ch]
      PROVE  There(u)'
  <2>1. /\ \/ u \in members[ch]
           \/ /\ Join(w) /\ u = users[s] /\ u \in User /\ account[u] # NULL
        /\ ~ (QuitTad(w) /\ u = users[s])
    <3>1. CASE Stays(ch) /\ ~QuitTad(w)
      BY <1>2, <3>1 DEF Stays
    <3>2. CASE Joins(w, ch) /\ ~QuitTad(w)
      BY <1>2, <3>2 DEF Joins
    <3>3. CASE Drops(users[s], ch)
      BY <1>2, <3>3 DEF Drops
    <3>4. CASE Drops(frame[w].opt, ch) /\ ~QuitTad(w)
      BY <1>2, <3>4 DEF Drops
    <3>5. QED
      BY <3>1, <3>2, <3>3, <3>4, MembersChange
  <2>2. u \in User /\ There(u)
    <3>1. CASE Join(w) /\ u = users[s] /\ u \in User /\ account[u] # NULL
      <4>1. frame[w].at # "quitUser" /\ users[s] # NULL
        BY <3>1, IrcAssumption DEF Join
      <4>2. QED
        BY <1>0, <1>1, <3>1, <4>1 DEF There
    <3>2. CASE u \in members[ch]
      BY <1>0, <3>2
    <3>3. QED
      BY <2>1, <3>1, <3>2
  <2>3. QED
    BY <2>1, <2>2, StillThere DEF MemberTyped
<1>3. ASSUME NEW ch \in Channel
      PROVE  /\ ops'[ch] \subseteq members'[ch]
             /\ \A u, v \in ops'[ch] : u = v
  <2>1. /\ ops[ch] \subseteq members[ch]
        /\ \A u, v \in ops[ch] : u = v
    BY DEF MembersInv
  <2>2. CASE Stays(ch)
    BY <2>1, <2>2 DEF Stays
  <2>3. CASE Joins(w, ch)
    BY <2>1, <2>3 DEF Joins
  <2>4. CASE \E u : Drops(u, ch)
    BY <2>1, <2>4 DEF Drops
  <2>5. QED
    BY <2>2, <2>3, <2>4, MembersChange
<1>4. ASSUME NEW v \in Worker, v # w, ActsWithRight(v)'
      PROVE  IsOperator(v)'
  <2>1. /\ frame'[v] = frame[v] /\ Socket(v)' = Socket(v) /\ ActsWithRight(v)
        /\ ~In(v, "idle")
    BY <1>4 DEF Step, ActsWithRight
  <2>2. Socket(v) \in Fd /\ Socket(v) # s
    BY <1>4, <2>1 DEF AllApart, Step
  <2>3. users'[Socket(v)] = users[Socket(v)]
    BY <2>2, OwnUser DEF MemberTyped
  <2>4. PICK ch \in Channel : frame[v].arg = ch
    BY <2>1 DEF ActsWithRight, MemberTyped, NickTyped, Typed, Fits
  <2>5. users[Socket(v)] \in ops[ch]
    BY <2>1, <2>4 DEF MembersInv, IsOperator, get_user
  <2>6. users[Socket(v)] # NULL
    BY <1>0, <2>5, IrcAssumption
  <2>7. Present(Socket(v))
    <3>1. ~Leaving(Socket(v))
      BY <2>1 DEF AllApart, Leaving, ActsWithRight
    <3>2. QED
      BY <2>6, <3>1 DEF Present
  <2>8. frame[w].at # "quitUser" => users[s] # users[Socket(v)]
    BY <1>0, <1>1, <2>2, <2>6, <2>7 DEF AccountsInv
  <2>9. users[Socket(v)] \in ops'[ch]
    <3>1. ops[ch] \subseteq members[ch]
      BY DEF MembersInv
    <3>2. CASE Part(w) \/ QuitTad(w)
      <4>1. users[s] # users[Socket(v)]
        BY <2>8, <3>2 DEF Part, QuitTad
      <4>2. ~Join(w) /\ ~KickUser(w)
        BY <3>2 DEF Part, QuitTad, Join, KickUser
      <4>3. Stays(ch) \/ Drops(users[s], ch)
        BY <4>2, MembersChange DEF Joins
      <4>4. QED
        BY <2>5, <4>1, <4>3 DEF Stays, Drops
    <3>3. CASE KickUser(w) /\ frame[w].arg = ch
      <4>1. users[s] \in ops[ch]
        BY <1>0, <3>3 DEF KickUser, MembersInv, ActsWithRight, IsOperator, get_user
      <4>2. users[s] = users[Socket(v)]
        BY <2>5, <4>1 DEF MembersInv
      <4>3. QED
        BY <2>8, <3>3, <4>2 DEF KickUser
    <3>4. CASE ~Part(w) /\ ~QuitTad(w) /\ ~(KickUser(w) /\ frame[w].arg = ch)
      <4>1. Stays(ch) \/ Joins(w, ch)
        BY <3>4, MembersChange
      <4>2. QED
        BY <2>5, <3>1, <4>1 DEF Stays, Joins
    <3>5. QED
      BY <3>2, <3>3, <3>4
  <2>10. QED
    BY <2>1, <2>3, <2>4, <2>9 DEF IsOperator, get_user
<1>5. ASSUME ActsWithRight(w)'
      PROVE  IsOperator(w)'
  <2>1. Kick(w) \/ AskModeRight(w) \/ AskTopicRight(w) \/ (AskTopicMode(w) /\ frame'[w].may)
    BY <1>5 DEF Step, Arrives, ActsWithRight
  <2>2. UNCHANGED <<users, ops>>
    BY <2>1 DEF Kick, AskModeRight, AskTopicRight, AskTopicMode
  <2>3. frame'[w].arg = frame[w].arg /\ IsOperator(w)
    <3>1. CASE Kick(w) \/ AskModeRight(w)
      <4>1. frame'[w].at # "idle"
        BY <1>5 DEF ActsWithRight
      <4>2. QED
        BY <1>0, <3>1, <4>1, Moves, Returns DEF Kick, AskModeRight, Label
    <3>2. CASE AskTopicRight(w)
      <4>1. frame' = [frame EXCEPT ![w] =
                        [frame[w] EXCEPT !.may = IsOperator(w), !.at = "topicMode"]]
        BY <1>0, <3>2 DEF AskTopicRight
      <4>2. /\ frame'[w].may = IsOperator(w) /\ frame'[w].arg = frame[w].arg
            /\ frame'[w].at = "topicMode"
        BY <1>0, <4>1 DEF Frame
      <4>3. frame'[w].may
        BY <1>5, <4>2 DEF ActsWithRight
      <4>4. QED
        BY <4>2, <4>3
    <3>3. CASE AskTopicMode(w) /\ frame'[w].may
      <4>1. Move(w, "setTopic")
        BY <1>0, <1>5, <3>3, Returns DEF AskTopicMode, ActsWithRight
      <4>2. /\ frame' = [frame EXCEPT ![w] = [frame[w] EXCEPT !.at = "setTopic"]]
            /\ frame[w] \in Frame
        BY <1>0, <4>1
      <4>3. frame'[w].arg = frame[w].arg /\ frame'[w].may = frame[w].may
        BY <1>0, <4>2 DEF Frame
      <4>4. frame[w].may /\ frame[w].at = "topicMode"
        BY <3>3, <4>3 DEF AskTopicMode
      <4>5. ActsWithRight(w)
        BY <4>4 DEF ActsWithRight
      <4>6. QED
        BY <1>0, <4>3, <4>5 DEF MembersInv
    <3>4. QED
      BY <2>1, <3>1, <3>2, <3>3
  <2>4. users'[Socket(w)'] \in ops'[frame'[w].arg]
    BY <1>0, <2>2, <2>3 DEF Step, IsOperator, get_user
  <2>5. QED
    BY <2>4 DEF IsOperator, get_user
<1>6. \A v \in Worker : ActsWithRight(v)' => IsOperator(v)'
  BY <1>4, <1>5
<1>7. \A ch \in Channel : \A u \in members'[ch] :
        account'[u] # NULL /\ \E d \in Fd : Has(d, u)'
  BY <1>2 DEF There
<1>8. QED
  BY <1>3, <1>6, <1>7 DEF MembersInv

-----------------------------------------------------------------------------
(* The steps that belong to no command *)

(* The labels of which something is said.                                  *)
Telling == {"checkUser", "addUser", "setUser", "setNick", "copyNick", "quitUser",
            "quitNick", "kickUser", "setMode", "topicMode", "setTopic", "dead"}

Quiet ==
  /\ UNCHANGED <<users, nicks, account, members, ops>>
  /\ \A w \in Worker : frame[w].at \in Telling \/ frame'[w].at \in Telling
       => frame'[w] = frame[w] /\ Socket(w)' = Socket(w)

(* They change no table, and begin commands at their entries only.         *)
LEMMA StepsQuiet ==
  ASSUME SessionInv, [Next]_vars,
         \A w \in Worker : w # Timer => ~ProcessCommand(w)
  PROVE  Quiet
<1>0. /\ CallsInv /\ In(Timer, "idle") /\ "idle" \notin Telling
      /\ frame \in [Worker -> Frame] /\ data \in [Thread -> Data]
      /\ pc \in [Thread -> HandlerState]
      /\ \A t \in Thread : t \in Worker /\ t # Timer /\ t # Loop
      /\ Loop \in Worker /\ Loop # Timer
  BY Givens, IrcAssumption
  DEF SessionInv, QuitsInv, CallsInv, TypeOK, Telling, Worker
<1>1. CASE UNCHANGED <<frame, data, rcvd, timed>> /\ UNCHANGED <<tables, tad>>
  BY <1>1 DEF Quiet, Socket, Given
<1>2. CASE MainLoop /\ UNCHANGED <<timed, tables, tad, frame>>
  <2>1. In(Loop, "idle")
    <3>1. ~At("disconnect")
      BY <1>2
      DEF MainLoop, CopyConnections, Select, Scan, Accept, AddAccepted, ReceiveData,
         ReceiveClosed, ReceiveReset, ReceiveBadFd, RemoveClosed, BlockGone,
         CloseDescriptor, UnblockClosed, RemoveClosedAgain, BlockConnection, StartHandler
    <3>2. QED
      BY <1>0, <3>1 DEF CallsInv, ServedInv
  <2>2. \A t \in Thread : ~In(t, "idle") => data'[t] = data[t]
    <3>1. CASE StartHandler
      <4>1. PICK t \in Thread : pc[t] = "free" /\ data' = [data EXCEPT ![t] = rcvd]
        BY <3>1 DEF StartHandler
      <4>2. In(t, "idle")
        BY <1>0, <4>1 DEF CallsInv, ServedInv
      <4>3. QED
        BY <1>0, <4>1, <4>2
    <3>2. CASE ~StartHandler
      BY <1>2, <3>2
      DEF MainLoop, CopyConnections, Select, Scan, Accept, AddAccepted, ReceiveData,
         ReceiveClosed, ReceiveReset, ReceiveBadFd, RemoveClosed, BlockGone,
         CloseDescriptor, UnblockClosed, RemoveClosedAgain, BlockConnection
    <3>3. QED
      BY <3>1, <3>2
  <2>3. \A w \in Worker : ~In(w, "idle") => Socket(w)' = Socket(w)
    BY <1>0, <2>1, <2>2 DEF Socket, Given, Worker
  <2>4. QED
    BY <1>0, <1>2, <2>3 DEF Quiet
<1>3. CASE do_on_disconnect
  <2>1. /\ \A w \in Worker : w # Loop => frame'[w] = frame[w]
        /\ In(Loop, "idle") /\ frame'[Loop].at = "quit"
    BY <1>0, <1>3, QuitNowIs DEF do_on_disconnect
  <2>2. UNCHANGED <<data, rcvd, timed>> /\ UNCHANGED <<tables, tad>>
    BY <1>3 DEF do_on_disconnect
  <2>3. "quit" \notin Telling
    BY DEF Telling
  <2>4. QED
    BY <1>0, <2>1, <2>2, <2>3 DEF Quiet, Socket, Given
<1>4. ASSUME NEW t \in Thread, NextCommand(t)
      PROVE  Quiet
  <2>1. /\ \A w \in Worker : w # t => frame'[w] = frame[w]
        /\ In(t, "idle") /\ frame'[t] = Call(Head(data[t].msg))
        /\ Head(data[t].msg) \in Text
    BY <1>0, <1>4, HeadTailProperties, EmptySeq DEF NextCommand, Data
  <2>2. Call(Head(data[t].msg)).at \notin Telling
    <3>1. Head(data[t].msg).cmd \in Command
      BY <2>1, TextAssumption DEF WellFormed
    <3>2. Entry[Head(data[t].msg).cmd] \in
            {"nick", "user", "join", "list", "privmsg", "part", "kick",
             "topic", "mode", "away", "whois", "quit", "reply"}
      BY <3>1 DEF Command, Entry
    <3>3. QED
      BY <3>2 DEF Call, Idle, Telling
  <2>3. \A w \in Worker : w # t => Socket(w)' = Socket(w)
    BY <1>0, <1>4 DEF NextCommand, Socket, Given, Worker
  <2>4. QED
    BY <1>0, <1>4, <2>1, <2>2, <2>3 DEF Quiet, NextCommand
<1>5. ASSUME NEW t \in Thread, HandlerEnds(t)
      PROVE  Quiet
  <2>1. \A w \in Worker : w # t => Socket(w)' = Socket(w)
    BY <1>0, <1>5 DEF HandlerEnds, Socket, Given, Worker
  <2>2. QED
    BY <1>0, <1>5, <2>1 DEF Quiet, HandlerEnds
<1>6. QED
  BY <1>0, <1>1, <1>2, <1>3, <1>4, <1>5 DEF Next, ServerLoop, Handler, vars

(* And so keep what is said of users.                                      *)
LEMMA QuietKeeps ==
  ASSUME Quiet, AccountsInv, NicksInv, MembersInv
  PROVE  AccountsInv' /\ NicksInv' /\ MembersInv'
<1>1. \A w \in Worker :
        /\ frame'[w].at \in Telling
             => /\ frame[w] = frame'[w] /\ Socket(w)' = Socket(w)
                /\ get_user(w)' = get_user(w) /\ get_nick(w)' = get_nick(w)
        /\ frame[w].at \in Telling => frame'[w] = frame[w] /\ Socket(w)' = Socket(w)
  BY DEF Quiet, get_user, get_nick
<1>2. \A d \in Fd : (Leaving(d)' <=> Leaving(d)) /\ (Renaming(d)' <=> Renaming(d))
  BY <1>1 DEF Leaving, Renaming, Renames, Telling
<1>3. \A d \in Fd : \A u : (Present(d)' <=> Present(d)) /\ (Has(d, u)' <=> Has(d, u))
  BY <1>2 DEF Present, Has, Quiet
<1>4. \A w \in Worker : In(w, "setUser")' <=> In(w, "setUser")
  BY <1>1 DEF Telling
<1>5. AccountsInv'
  <2>1. /\ \A d \in Fd : Present(d)' => account'[users'[d]] # NULL
        /\ \A d, e \in Fd : Present(d)' /\ Present(e)' /\ users'[d] = users'[e] => d = e
    BY <1>3 DEF AccountsInv, Quiet
  <2>2. \A w \in Worker : In(w, "setUser")' =>
             /\ account'[frame'[w].arg] # NULL
             /\ \A d \in Fd : Present(d)' => users'[d] # frame'[w].arg
    BY <1>1, <1>3 DEF AccountsInv, Quiet, Telling
  <2>3. \A v, w \in Worker : In(v, "setUser")' /\ In(w, "setUser")'
                                /\ frame'[v].arg = frame'[w].arg => v = w
    BY <1>1 DEF AccountsInv, Telling
  <2>4. \A w \in Worker : frame'[w].at \in {"addUser", "setUser", "quitNick"}
           => get_user(w)' = NULL
    BY <1>1 DEF AccountsInv, Telling
  <2>5. \A u \in User : account'[u] # NULL =>
           \/ \E d \in Fd : Has(d, u)'
           \/ \E w \in Worker : In(w, "setUser")' /\ frame'[w].arg = u
           \/ u \in LongUser
    BY <1>1, <1>3, <1>4 DEF AccountsInv, Quiet, Telling
  <2>6. QED
    BY <2>1, <2>2, <2>3, <2>4, <2>5 DEF AccountsInv
<1>6. NicksInv'
  <2>1. \A w \in Worker : KnowsNick(w)'
    BY <1>1, NicksEach DEF KnowsNick, Renames, Telling, Quiet
  <2>2. \A d \in Fd : HasNick(d)'
    BY <1>2, <1>3, NicksEach DEF HasNick, Quiet
  <2>3. QED
    BY <2>1, <2>2, NicksEach
<1>7. MembersInv'
  <2>1. \A ch \in Channel : \A u \in members'[ch] :
          account'[u] # NULL /\ \E d \in Fd : Has(d, u)'
    BY <1>3 DEF MembersInv, Quiet
  <2>2. \A ch \in Channel : /\ ops'[ch] \subseteq members'[ch]
                            /\ \A u, v \in ops'[ch] : u = v
    BY DEF MembersInv, Quiet
  <2>3. \A w \in Worker : ActsWithRight(w)' => IsOperator(w)'
    BY <1>1 DEF MembersInv, ActsWithRight, IsOperator, Quiet, Telling
  <2>4. QED
    BY <2>1, <2>2, <2>3 DEF MembersInv
<1>8. QED
  BY <1>5, <1>6, <1>7

-----------------------------------------------------------------------------
(* Users and connections *)

OwnerTyped ==
  /\ owner \in [Fd -> Conn \cup {NoConn}] /\ users \in [Fd -> User \cup {NULL}]
  /\ registered \in [Conn -> User \cup {NULL}]
  /\ pc \in [Thread -> HandlerState] /\ data \in [Thread -> Data]
  /\ frame \in [Worker -> Frame]

(* The types that the rest needs, and the conn_data of a handler at work.  *)
LEMMA OwnerTypes ==
  ASSUME SessionInv
  PROVE  /\ OwnerTyped /\ MemberTyped
         /\ \A t \in Live : t \in Thread /\ t \in Worker /\ t # Loop
                            /\ data[t].socketd \in Fd /\ data[t].conn \in Conn
                            /\ Socket(t) = data[t].socketd /\ Client(t) = data[t].conn
<1>1. CallsInv /\ HeldInv
  BY DEF SessionInv
<1>2. OwnerTyped /\ MemberTyped
  BY <1>1
  DEF CallsInv, CallInv, TypeOK, OwnerTyped, MemberTyped, NickTyped, Typed, Tables
<1>3. QED
  BY <1>1, <1>2, LiveData DEF HeldInv, HeldBy

(* Steps that open and close nothing, and tell no handler of its QUIT.     *)
LEMMA OwnersPlain ==
  ASSUME OwnersInv, UNCHANGED <<owner, users, registered>>,
         \A d \in Fd : (Stale(d)' <=> Stale(d)) /\ (Clearing(d)' <=> Clearing(d)),
         \A c \in Conn : Pending(c)' \/ peer'[c] = "idle"
                            => Pending(c) \/ peer[c] = "idle",
         At("close")' => users[i'] = NULL
  PROVE  OwnersInv'
<1>1. \A d \in Open' : ~Stale(d)' => users'[d] = registered'[owner'[d]]
  BY DEF OwnersInv, Open
<1>2. \A d \in Open' : Stale(d)' => registered'[owner'[d]] = NULL
  BY DEF OwnersInv, Open
<1>3. \A d \in Fd : d \notin Open' \/ Stale(d)' => users'[d] = NULL \/ Clearing(d)'
  BY DEF OwnersInv, Open
<1>4. \A c \in Conn : Pending(c)' \/ peer'[c] = "idle" => registered'[c] = NULL
  BY DEF OwnersInv
<1>5. QED
  BY <1>1, <1>2, <1>3, <1>4 DEF OwnersInv

(* A step that leaves sockets, threads and commands alone leaves the same  *)
(* handlers to clear up.                                                   *)
LEMMA SameThreads ==
  ASSUME UNCHANGED <<owner, threads, frame>>
  PROVE  \A d \in Fd : (Stale(d)' <=> Stale(d)) /\ (Clearing(d)' <=> Clearing(d))
BY DEF Stale, Clearing, Live

(* A client that only now connects has registered nobody.                  *)
LEMMA OwnersClients ==
  ASSUME SessionInv, OwnersInv, Clients,
         UNCHANGED <<workers, loopState, tables, frame, registered>>
  PROVE  OwnersInv'
<1>1. CallsInv /\ QueueInv
  BY DEF SessionInv
<1>2. /\ UNCHANGED owner
      /\ \A c \in Conn : peer[c] # "idle"
                           => peer'[c] # "idle" /\ (Pending(c)' => Pending(c))
  BY <1>1, ClientsQueue
<1>3. \A d \in Fd : (Stale(d)' <=> Stale(d)) /\ (Clearing(d)' <=> Clearing(d))
  BY <1>2, SameThreads
<1>4. At("close")' => users[i'] = NULL
  BY DEF OwnersInv
<1>5. QED
  BY <1>2, <1>3, <1>4, OwnersPlain

(* A client that is accepted has registered nobody yet; on the descriptor  *)
(* there may be a handler that is still clearing up.                       *)
LEMMA OwnersAccept ==
  ASSUME SessionInv, OwnersInv, Accept, UNCHANGED <<tables, frame, registered>>
  PROVE  OwnersInv'
<1>0. CallsInv /\ QueueInv /\ HeldInv /\ OwnerTyped
  BY OwnerTypes DEF SessionInv
<1>1. PICK d \in Fd, c \in Conn :
          /\ owner[d] = NoConn /\ Pending(c) /\ ~Pending(c)'
          /\ owner' = [owner EXCEPT ![d] = c]
  BY <1>0, AcceptQueue
<1>2. /\ owner'[d] = c /\ \A e \in Fd : e # d => owner'[e] = owner[e]
      /\ UNCHANGED <<threads, frame, users, registered, peer>> /\ ~At("close")'
  BY <1>0, <1>1 DEF Accept, OwnerTyped
<1>3. \A t \in Live : data[t].conn # c
  BY <1>0, <1>1 DEF HeldInv, HeldBy
<1>4. registered[c] = NULL /\ c # NoConn
  BY <1>1, ConnectionsAssumption DEF OwnersInv
<1>5. \A e \in Fd : Clearing(e)' <=> Clearing(e)
  BY <1>2 DEF Clearing, Live
<1>6. \A e \in Fd : e # d => (Stale(e)' <=> Stale(e)) /\ (e \in Open' <=> e \in Open)
  BY <1>2 DEF Stale, Live, Open
<1>7. d \in Open' /\ d \notin Open /\ (users[d] = NULL \/ Clearing(d))
  BY <1>1, <1>2, <1>4 DEF Open, OwnersInv
<1>8. Clearing(d) => Stale(d)'
  BY <1>2, <1>3 DEF Clearing, Stale, Live
<1>9. \A e \in Open' : ~Stale(e)' => users'[e] = registered'[owner'[e]]
  BY <1>2, <1>4, <1>6, <1>7, <1>8 DEF OwnersInv, Open
<1>10. \A e \in Open' : Stale(e)' => registered'[owner'[e]] = NULL
  BY <1>2, <1>4, <1>6 DEF OwnersInv, Open
<1>11. \A e \in Fd : e \notin Open' \/ Stale(e)' => users'[e] = NULL \/ Clearing(e)'
  BY <1>2, <1>5, <1>6, <1>7 DEF OwnersInv
<1>12. \A b \in Conn : Pending(b)' \/ peer'[b] = "idle" => registered'[b] = NULL
  BY <1>0, <1>2, AcceptQueue DEF OwnersInv
<1>13. QED
  BY <1>2, <1>9, <1>10, <1>11, <1>12 DEF OwnersInv

(* The loop closes a descriptor whose user is gone: quit_disc comes first  *)
(* (server.c:223-227).                                                     *)
LEMMA OwnersLoop ==
  ASSUME SessionInv, OwnersInv, MainLoop, UNCHANGED <<timed, tables, frame, registered>>
  PROVE  OwnersInv'
<1>0. /\ CallsInv /\ QueueInv /\ HeldInv /\ ApartInv /\ OwnerTyped
      /\ \A t \in Thread : pc[t] = "free" => In(t, "idle")
  BY OwnerTypes DEF SessionInv, CallsInv, ServedInv
<1>1. CASE Accept
  BY <1>1, OwnersAccept
<1>2. CASE StartHandler
  <2>1. PICK t \in Thread : /\ pc[t] = "free"
                           /\ pc' = [pc EXCEPT ![t] = "start"]
                           /\ data' = [data EXCEPT ![t] = rcvd]
    BY <1>2 DEF StartHandler
  <2>2. /\ Live' = Live \cup {t} /\ t \notin Live /\ data'[t] = rcvd
        /\ \A u \in Live : data'[u] = data[u]
    BY <1>0, <2>1 DEF OwnerTyped, Live
  <2>3. /\ UNCHANGED <<peer, backlog, owner, frame>> /\ ~At("close")'
        /\ rcvd.socketd = i /\ owner[i] = rcvd.conn
    BY <1>0, <1>2
    DEF StartHandler, NextDescriptor, HeldInv, LoopHolds, CallsInv, ServedInv
  <2>4. In(t, "idle")
    BY <1>0, <2>1
  <2>5. \A d \in Fd : (Stale(d)' <=> Stale(d)) /\ (Clearing(d)' <=> Clearing(d))
    <3>1. \A d \in Fd : Stale(d)' <=> Stale(d)
      BY <2>2, <2>3 DEF Stale
    <3>2. \A d \in Fd : Clearing(d)' <=> Clearing(d)
      BY <2>2, <2>3, <2>4 DEF Clearing
    <3>3. QED
      BY <3>1, <3>2
  <2>6. QED
    BY <2>3, <2>5, OwnersPlain DEF Pending
<1>3. CASE CloseDescriptor
  <2>1. /\ owner' = [owner EXCEPT ![i] = NoConn] /\ i \in Fd /\ ~At("close")'
        /\ UNCHANGED <<peer, backlog, threads>>
        /\ \A t \in Live : data[t].socketd # i
        /\ users[i] = NULL
    BY <1>0, <1>3
    DEF CloseDescriptor, tcpsocket_close, CallsInv, ServedInv, ApartInv, LoopAttends,
        OwnersInv
  <2>2. owner'[i] = NoConn /\ \A d \in Fd : d # i => owner'[d] = owner[d]
    BY <1>0, <2>1 DEF OwnerTyped
  <2>3. \A d \in Fd : (Stale(d)' <=> Stale(d)) /\ (Clearing(d)' <=> Clearing(d))
    BY <2>1, <2>2 DEF Stale, Clearing, Live
  <2>4. \A d \in Fd : d \in Open' <=> d \in Open /\ d # i
    BY <2>1, <2>2 DEF Open
  <2>5. \A d \in Open' : ~Stale(d)' => users'[d] = registered'[owner'[d]]
    BY <2>2, <2>3, <2>4 DEF OwnersInv, Open
  <2>6. \A d \in Open' : Stale(d)' => registered'[owner'[d]] = NULL
    BY <2>2, <2>3, <2>4 DEF OwnersInv, Open
  <2>7. \A d \in Fd : d \notin Open' \/ Stale(d)' => users'[d] = NULL \/ Clearing(d)'
    BY <2>1, <2>3, <2>4 DEF OwnersInv
  <2>8. \A c \in Conn : Pending(c)' \/ peer'[c] = "idle" => registered'[c] = NULL
    BY <2>1 DEF OwnersInv, Pending
  <2>9. QED
    BY <2>1, <2>5, <2>6, <2>7, <2>8 DEF OwnersInv
<1>4. CASE ~Accept /\ ~StartHandler /\ ~CloseDescriptor
  <2>1. UNCHANGED threads /\ ~At("close")'
    BY <1>4, DisconnectAssumption
    DEF MainLoop, CopyConnections, Select, Scan, AddAccepted, ReceiveData,
       ReceiveClosed, ReceiveReset, ReceiveBadFd, RemoveClosed, BlockGone,
       UnblockClosed, RemoveClosedAgain, BlockConnection, NextDescriptor
  <2>2. /\ UNCHANGED <<owner, backlog>>
        /\ \A c \in Conn : peer[c] # "idle" => peer'[c] # "idle"
    BY <1>0, <1>4, LoopQueue
  <2>3. \A d \in Fd : (Stale(d)' <=> Stale(d)) /\ (Clearing(d)' <=> Clearing(d))
    BY <2>1, <2>2, SameThreads
  <2>4. QED
    BY <2>1, <2>2, <2>3, OwnersPlain DEF Pending
<1>5. QED
  BY <1>1, <1>2, <1>3, <1>4

(* When a handler that closed its descriptor ends, nothing is left there.  *)
LEMMA OwnersHandler ==
  ASSUME SessionInv, OwnersInv, NEW t \in Thread, NextCommand(t) \/ HandlerEnds(t)
  PROVE  OwnersInv'
<1>0. CallsInv /\ ApartInv /\ OwnerTyped /\ t \in Live
      /\ \A u \in Live : u \in Thread /\ u \in Worker
  BY OwnerTypes DEF SessionInv, NextCommand, HandlerEnds, Live
<1>1. CASE NextCommand(t)
  <2>1. /\ UNCHANGED <<owner, users, registered, peer, backlog, main, i>>
        /\ Live' = Live
        /\ \A u \in Thread : /\ data'[u].socketd = data[u].socketd
                             /\ data'[u].conn = data[u].conn
        /\ In(t, "idle") /\ \A u \in Thread : u # t => frame'[u] = frame[u]
        /\ frame'[t] = Call(Head(data[t].msg)) /\ Head(data[t].msg) \in Text
    BY <1>0, <1>1, HeadTailProperties, EmptySeq DEF NextCommand, Data, OwnerTyped, Live
  <2>2. frame'[t].at \notin PastClose
    BY <2>1, CallLabels
  <2>3. \A d \in Fd : (Stale(d)' <=> Stale(d))
    BY <1>0, <2>1 DEF Stale
  <2>4. \A d \in Fd : (Clearing(d)' <=> Clearing(d))
    BY <1>0, <2>1, <2>2 DEF Clearing, PastClose
  <2>5. At("close")' => users[i'] = NULL
    BY <2>1 DEF OwnersInv
  <2>6. QED
    BY <2>1, <2>3, <2>4, <2>5, OwnersPlain DEF Pending
<1>2. CASE HandlerEnds(t)
  <2>1. /\ UNCHANGED <<owner, users, registered, peer, backlog, main, i, frame>>
        /\ Live' = Live \ {t} /\ \A u \in Live' : data'[u] = data[u]
        /\ In(t, "idle")
    BY <1>0, <1>2 DEF HandlerEnds, OwnerTyped, Live
  <2>2. \A d \in Fd : Clearing(d)' <=> Clearing(d)
    BY <2>1 DEF Clearing
  <2>3. \A d \in Fd : Stale(d)' => Stale(d)
    BY <2>1 DEF Stale
  <2>4. \A d \in Fd : Stale(d) /\ ~Stale(d)' => ~Clearing(d)
    <3>1. SUFFICES ASSUME NEW d \in Fd, Stale(d), ~Stale(d)', Clearing(d) PROVE FALSE
      OBVIOUS
    <3>2. data[t].socketd = d
      BY <2>1, <3>1 DEF Stale
    <3>3. \A u \in Live : data[u].socketd = d => u = t
      BY <1>0, <3>2 DEF ApartInv, OneHandlerPerConnection
    <3>4. QED
      BY <2>1, <3>1, <3>3 DEF Clearing
  <2>5. \A d \in Open' : ~Stale(d)' => users'[d] = registered'[owner'[d]]
    BY <2>1, <2>4 DEF OwnersInv, Open
  <2>6. \A d \in Open' : Stale(d)' => registered'[owner'[d]] = NULL
    BY <2>1, <2>3 DEF OwnersInv, Open
  <2>7. \A d \in Fd : d \notin Open' \/ Stale(d)' => users'[d] = NULL \/ Clearing(d)'
    BY <2>1, <2>2, <2>3 DEF OwnersInv, Open
  <2>8. \A c \in Conn : Pending(c)' \/ peer'[c] = "idle" => registered'[c] = NULL
    BY <2>1 DEF OwnersInv, Pending
  <2>9. QED
    BY <2>1, <2>5, <2>6, <2>7, <2>8 DEF OwnersInv
<1>3. QED
  BY <1>1, <1>2

(* The loop goes on to close only when its quit_disc has forgotten the     *)
(* user.                                                                   *)
LEMMA LoopCloses ==
  ASSUME SessionInv, AccountsInv, OwnersInv,
         NEW w \in Worker, ProcessCommand(w), w # Timer,
         At("close")'
  PROVE  users'[i'] = NULL
<1>0. CallsInv /\ QuitsInv /\ ApartInv /\ MemberTyped /\ i' = i
  BY CommandKeeps, OwnerTypes DEF SessionInv
<1>1. ~In(w, "idle") /\ Step(w)
  BY CommandAt, CommandStep
<1>2. CASE At("close")
  <2>1. w \in Live /\ i \in Fd /\ users[i] = NULL
    BY <1>0, <1>1, <1>2, ActiveWho
    DEF OwnersInv, CallsInv, ServedInv, Active, Worker, Live
  <2>2. Socket(w) # i
    BY <1>0, <1>2, <2>1, LiveData DEF ApartInv, LoopAttends
  <2>3. QED
    BY <1>0, <1>1, <2>1, <2>2, OwnUser DEF MemberTyped
<1>3. CASE ~At("close")
  <2>1. w = Loop /\ main' # main /\ At("disconnect")
    BY <1>0, <1>1, <1>3, CommandKeeps DEF CallsInv, ServedInv
  <2>2. frame[w].at \in LoopLabel /\ frame[w].cmd = "QUIT"
    BY <1>0, <2>1 DEF QuitsInv
  <2>3. QuitStep(w) \/ RelayStep(w)
    BY <1>0, <2>2, OthersGo
  <2>4. QuitNick(w)
    BY <2>1, <2>2, <2>3
    DEF QuitStep, RelayStep, Quit, QuitChannels, QuitClose, QuitRmv, QuitTad, QuitUser,
        Relay, RelayBlock, RelayUnblock
  <2>5. users[Socket(w)] = NULL /\ UNCHANGED users
    BY <2>4 DEF QuitNick, AccountsInv, get_user
  <2>6. Socket(w) = i
    BY <1>0, <2>1, Givens DEF CallsInv, ServedInv, Socket
  <2>7. QED
    BY <1>0, <2>5, <2>6
<1>4. QED
  BY <1>2, <1>3

(* Who clears up after closing goes on with it until the user is           *)
(* forgotten.                                                              *)
LEMMA StillClearing ==
  ASSUME SessionInv, NEW w \in Worker, ProcessCommand(w), ~QuitClose(w), NEW d \in Fd
  PROVE  /\ ~QuitUser(w) \/ d # Socket(w) => (Clearing(d)' <=> Clearing(d))
         /\ Stale(d)' <=> Stale(d)
<1>0. /\ UNCHANGED <<threads, owner>> /\ Step(w) /\ CallsInv
      /\ \A t \in Live : t \in Thread /\ t \in Worker /\ t # Loop
                         /\ data[t].socketd = Socket(t)
      /\ frame \in [Worker -> Frame]
  BY CommandKeeps, Writers, CommandStep, OwnerTypes DEF SessionInv, OwnerTyped
<1>1. Stale(d)' <=> Stale(d)
  BY <1>0 DEF Stale, Live
<1>2. w \in Live /\ ~QuitUser(w) =>
        (frame'[w].at \in {"quitRmv", "quitTad", "quitUser"}
           <=> frame[w].at \in {"quitRmv", "quitTad", "quitUser"})
  <2>1. SUFFICES ASSUME w \in Live, ~QuitUser(w)
                 PROVE  frame'[w].at \in {"quitRmv", "quitTad", "quitUser"}
                          <=> frame[w].at \in {"quitRmv", "quitTad", "quitUser"}
    OBVIOUS
  <2>2. w # Loop
    BY <1>0, <2>1
  <2>3. frame'[w].at \in {"quitRmv", "quitTad", "quitUser"} => QuitRmv(w) \/ QuitTad(w)
    BY <1>0, <2>2 DEF Step, Arrives
  <2>4. frame[w].at \in {"quitRmv", "quitTad", "quitUser"} => QuitRmv(w) \/ QuitTad(w)
    BY <2>1, ActsAt
  <2>5. QuitRmv(w) \/ QuitTad(w) =>
          /\ frame[w].at \in {"quitRmv", "quitTad"}
          /\ frame'[w].at \in {"quitTad", "quitUser"}
    BY <1>0, Moves DEF QuitRmv, QuitTad, Label
  <2>6. QED
    BY <2>3, <2>4, <2>5
<1>3. ~QuitUser(w) \/ d # Socket(w) => (Clearing(d)' <=> Clearing(d))
  <2>1. \A t \in Live : t # w => frame'[t] = frame[t]
    BY <1>0 DEF Step
  <2>2. CASE d # Socket(w)
    BY <1>0, <2>1, <2>2 DEF Clearing, Live
  <2>3. CASE ~QuitUser(w)
    BY <1>0, <1>2, <2>1, <2>3 DEF Clearing, Live
  <2>4. QED
    BY <2>2, <2>3
<1>4. QED
  BY <1>1, <1>3

(* The steps of a command that change neither users nor descriptors.       *)
LEMMA OwnersOther ==
  ASSUME SessionInv, AccountsInv, OwnersInv,
         NEW w \in Worker, ProcessCommand(w), w # Timer,
         ~SetUser(w), ~QuitUser(w), ~QuitClose(w)
  PROVE  OwnersInv'
<1>1. UNCHANGED <<owner, users, registered, peer, backlog>>
  BY Writers, CommandKeeps
<1>2. \A d \in Fd : (Stale(d)' <=> Stale(d)) /\ (Clearing(d)' <=> Clearing(d))
  BY StillClearing
<1>3. At("close")' => users[i'] = NULL
  BY <1>1, LoopCloses
<1>4. QED
  BY <1>1, <1>2, <1>3, OwnersPlain DEF Pending

(* USER registers the connection that the handler's descriptor denotes.    *)
LEMMA OwnersSet ==
  ASSUME SessionInv, AccountsInv, OwnersInv, NEW w \in Worker, SetUser(w), w # Timer
  PROVE  OwnersInv'
<1>0. /\ ProcessCommand(w) /\ In(w, "setUser") /\ ~QuitUser(w) /\ ~QuitClose(w)
      /\ CallsInv /\ QueueInv /\ HeldInv /\ QuitsInv /\ ApartInv
      /\ OwnerTyped
  BY OwnerTypes
  DEF SessionInv, ProcessCommand, SessionCommand, SetUser, QuitUser, QuitClose
<1>1. UNCHANGED <<owner, peer, backlog>>
  BY <1>0, Writers, CommandKeeps
<1>2. \A d \in Fd : (Stale(d)' <=> Stale(d)) /\ (Clearing(d)' <=> Clearing(d))
  BY <1>0, StillClearing
<1>3. At("close")' => users'[i'] = NULL
  BY <1>0, LoopCloses
<1>4. w \in Live
  BY <1>0 DEF QuitsInv, LoopLabel, CallsInv, ServedInv, Live, Worker
<1>5. CASE UNCHANGED <<users, registered>>
  BY <1>1, <1>2, <1>3, <1>5, OwnersPlain DEF Pending
<1>6. CASE ~ UNCHANGED <<users, registered>>
  <2>1. PICK s \in Fd, c \in Conn :
          /\ Socket(w) = s /\ Client(w) = c /\ data[w].socketd = s /\ data[w].conn = c
    BY <1>4, OwnerTypes
  <2>2. /\ users' = [users EXCEPT ![s] = frame[w].arg]
        /\ registered' = [registered EXCEPT ![c] = frame[w].arg]
    BY <1>6, <2>1 DEF SetUser
  <2>3. /\ users'[s] = registered'[c] /\ \A d \in Fd : d # s => users'[d] = users[d]
        /\ \A b \in Conn : b # c => registered'[b] = registered[b]
    BY <1>0, <2>1, <2>2 DEF OwnerTyped
  <2>4. owner[s] = c /\ ~Pending(c) /\ peer[c] # "idle" /\ c # NoConn
    BY <1>0, <1>4, <2>1, ConnectionsAssumption DEF HeldInv, HeldBy, Owns, PastClose
  <2>5. \A d \in Fd : d # s => owner[d] # c
    BY <1>0, <2>4 DEF QueueInv
  <2>6. ~Stale(s)
    BY <1>0, <1>4, <2>1, <2>4 DEF Stale, ApartInv, OneHandlerPerConnection
  <2>7. \A d \in Open' : d \in Open /\ owner'[d] \in Conn
    BY <1>0, <1>1 DEF Open, OwnerTyped
  <2>8. \A d \in Open' : ~Stale(d)' => users'[d] = registered'[owner'[d]]
    BY <1>1, <1>2, <2>3, <2>4, <2>5, <2>7 DEF OwnersInv, Open
  <2>9. \A d \in Open' : Stale(d)' => registered'[owner'[d]] = NULL
    BY <1>1, <1>2, <2>3, <2>5, <2>6, <2>7 DEF OwnersInv, Open
  <2>10. \A d \in Fd : d \notin Open' \/ Stale(d)' => users'[d] = NULL \/ Clearing(d)'
    BY <1>1, <1>2, <2>3, <2>4, <2>6 DEF OwnersInv, Open
  <2>11. \A b \in Conn : Pending(b)' \/ peer'[b] = "idle" => registered'[b] = NULL
    BY <1>1, <2>3, <2>4 DEF OwnersInv, Pending
  <2>12. QED
    BY <1>3, <2>8, <2>9, <2>10, <2>11 DEF OwnersInv
<1>7. QED
  BY <1>5, <1>6

(* QUIT forgets the user of a descriptor that is closed, or that the loop  *)
(* is about to close.                                                      *)
LEMMA OwnersForget ==
  ASSUME SessionInv, AccountsInv, OwnersInv, NEW w \in Worker, QuitUser(w), w # Timer
  PROVE  OwnersInv'
<1>0. /\ ProcessCommand(w) /\ In(w, "quitUser") /\ ~QuitClose(w) /\ ~In(w, "idle")
      /\ CallsInv /\ QueueInv /\ HeldInv /\ ApartInv /\ OwnerTyped
  BY OwnerTypes
  DEF SessionInv, ProcessCommand, SessionCommand, QuitUser, QuitClose
<1>1. UNCHANGED <<owner, peer, backlog>>
  BY <1>0, Writers, CommandKeeps
<1>2. At("close")' => users'[i'] = NULL
  BY <1>0, LoopCloses
<1>3. w \in Live \/ (w = Loop /\ At("disconnect"))
  BY <1>0, ActiveWho DEF CallsInv, ServedInv, Active, Live, Worker
<1>4. PICK s \in Fd, c \in Conn :
        /\ Socket(w) = s /\ Client(w) = c
        /\ w \in Live => data[w].socketd = s /\ data[w].conn = c
        /\ w = Loop => i = s /\ rcvd.conn = c
  <2>1. CASE w \in Live
    BY <2>1, OwnerTypes
  <2>2. CASE w = Loop /\ At("disconnect")
    <3>1. Socket(Loop) = i /\ Client(Loop) = rcvd.conn /\ i \in Fd /\ rcvd.conn \in Conn
          /\ Loop \notin Live
      BY <1>0, <2>2, Givens, IrcAssumption
      DEF CallsInv, ServedInv, Socket, Client, HeldInv, LoopHolds, Live
    <3>2. QED
      BY <2>2, <3>1
  <2>3. QED
    BY <1>3, <2>1, <2>2
<1>5. /\ users' = [users EXCEPT ![s] = NULL]
      /\ registered' = [registered EXCEPT ![c] = NULL]
  BY <1>4 DEF QuitUser
<1>6. /\ users'[s] = NULL /\ \A d \in Fd : d # s => users'[d] = users[d]
      /\ registered'[c] = NULL /\ \A b \in Conn : b # c => registered'[b] = registered[b]
  BY <1>0, <1>4, <1>5 DEF OwnerTyped
<1>7. \A d \in Fd : (Stale(d)' <=> Stale(d)) /\ (d # s => (Clearing(d)' <=> Clearing(d)))
  BY <1>0, <1>4, StillClearing
<1>8. \A d \in Fd : owner[d] = c => d = s /\ w = Loop
  <2>1. SUFFICES ASSUME NEW d \in Fd, owner[d] = c PROVE d = s /\ w = Loop
    OBVIOUS
  <2>2. CASE w \in Live
    BY <1>0, <1>4, <2>1, <2>2 DEF HeldInv, HeldBy, PastClose, Accepted
  <2>3. CASE w = Loop /\ At("disconnect")
    BY <1>0, <1>4, <2>1, <2>3, ConnectionsAssumption DEF HeldInv, LoopHolds, QueueInv
  <2>4. QED
    BY <1>3, <2>2, <2>3
<1>9. s \in Open /\ ~Stale(s) => owner[s] = c
  <2>1. SUFFICES ASSUME s \in Open, ~Stale(s) PROVE owner[s] = c
    OBVIOUS
  <2>2. CASE w \in Live
    BY <1>4, <2>1, <2>2 DEF Stale
  <2>3. CASE w = Loop /\ At("disconnect")
    BY <1>0, <1>4, <2>3 DEF HeldInv, LoopHolds
  <2>4. QED
    BY <1>3, <2>2, <2>3
<1>10. \A d \in Open' : d \in Open /\ owner'[d] \in Conn /\ d \in Fd
  BY <1>0, <1>1 DEF Open, OwnerTyped
<1>11. \A d \in Open' : ~Stale(d)' => users'[d] = registered'[owner'[d]]
  BY <1>1, <1>6, <1>7, <1>8, <1>9, <1>10 DEF OwnersInv
<1>12. \A d \in Open' : Stale(d)' => registered'[owner'[d]] = NULL
  BY <1>1, <1>6, <1>7, <1>10 DEF OwnersInv
<1>13. \A d \in Fd : d \notin Open' \/ Stale(d)' => users'[d] = NULL \/ Clearing(d)'
  BY <1>1, <1>6, <1>7 DEF OwnersInv, Open
<1>14. \A b \in Conn : Pending(b)' \/ peer'[b] = "idle" => registered'[b] = NULL
  BY <1>1, <1>6 DEF OwnersInv, Pending
<1>15. QED
  BY <1>2, <1>11, <1>12, <1>13, <1>14 DEF OwnersInv

(* QUIT closes the descriptor first, and the handler goes on to clear up.  *)
LEMMA OwnersClose ==
  ASSUME SessionInv, AccountsInv, OwnersInv, NEW w \in Worker, QuitClose(w), w # Timer
  PROVE  OwnersInv'
<1>0. /\ ProcessCommand(w) /\ In(w, "quitClose")
      /\ CallsInv /\ QuitsInv /\ OwnerTyped /\ Step(w)
      /\ \A t \in Live : data[t].socketd = Socket(t) /\ t \in Worker
  BY OwnerTypes, CommandStep
  DEF SessionInv, ProcessCommand, SessionCommand, QuitClose
<1>1. UNCHANGED <<users, registered, threads, peer, backlog>>
  BY <1>0, CommandKeeps DEF QuitClose
<1>2. At("close")' => users'[i'] = NULL
  BY <1>0, LoopCloses
<1>3. w \in Live
  BY <1>0 DEF QuitsInv, LoopLabel, CallsInv, ServedInv, Live, Worker
<1>4. PICK s \in Fd : Socket(w) = s /\ data[w].socketd = s
  BY <1>0, <1>3 DEF Step
<1>5. owner'[s] = NoConn /\ \A d \in Fd : d # s => owner'[d] = owner[d]
  BY <1>0, <1>4 DEF QuitClose, tcpsocket_close, OwnerTyped
<1>6. frame'[w].at = "quitRmv"
  BY <1>0, Moves DEF QuitClose, Label, OwnerTyped
<1>7. \A t \in Live : t # w => frame'[t] = frame[t]
  BY <1>0 DEF Step
<1>8. Clearing(s)'
  BY <1>1, <1>3, <1>4, <1>6 DEF Clearing, Live
<1>9. \A d \in Fd : d # s => (Stale(d)' <=> Stale(d)) /\ (Clearing(d)' <=> Clearing(d))
  <2>1. \A d \in Fd : d # s => (Stale(d)' <=> Stale(d))
    BY <1>1, <1>5 DEF Stale, Live
  <2>2. \A d \in Fd : d # s => (Clearing(d)' <=> Clearing(d))
    BY <1>1, <1>4, <1>7 DEF Clearing, Live
  <2>3. QED
    BY <2>1, <2>2
<1>10. \A d \in Open' : d \in Open /\ d # s /\ owner'[d] = owner[d]
  BY <1>5 DEF Open
<1>11. \A d \in Open' : ~Stale(d)' => users'[d] = registered'[owner'[d]]
  BY <1>1, <1>9, <1>10 DEF OwnersInv, Open
<1>12. \A d \in Open' : Stale(d)' => registered'[owner'[d]] = NULL
  BY <1>1, <1>9, <1>10 DEF OwnersInv, Open
<1>13. \A d \in Fd : d \notin Open' \/ Stale(d)' => users'[d] = NULL \/ Clearing(d)'
  BY <1>1, <1>5, <1>8, <1>9 DEF OwnersInv, Open
<1>14. \A b \in Conn : Pending(b)' \/ peer'[b] = "idle" => registered'[b] = NULL
  BY <1>1 DEF OwnersInv, Pending
<1>15. QED
  BY <1>2, <1>11, <1>12, <1>13, <1>14 DEF OwnersInv

-----------------------------------------------------------------------------
(* The invariant, and what it gives *)

(* The server starts with nobody registered.                               *)
LEMMA InitUsers == Init => UsersInv
<1> SUFFICES ASSUME Init PROVE UsersInv
  OBVIOUS
<1>1. \A w \in Worker : frame[w].at = "idle"
  BY IdleIs DEF Init, IrcInit
<1>2. /\ \A d \in Fd : users[d] = NULL /\ ~Present(d) /\ owner[d] = NoConn
      /\ \A u \in User : account[u] = NULL
      /\ \A ch \in Channel : members[ch] = {} /\ ops[ch] = {}
      /\ \A c \in Conn : registered[c] = NULL
      /\ Open = {} /\ main = "copy"
  BY DEF Init, IrcInit, read_channels, ServerInit, ConnectionsInit, Present, Open
<1>3. AccountsInv
  BY <1>1, <1>2 DEF AccountsInv
<1>4. NicksInv
  BY <1>1, <1>2 DEF NicksInv, Renames
<1>5. MembersInv
  BY <1>1, <1>2 DEF MembersInv, ActsWithRight
<1>6. OwnersInv
  BY <1>2 DEF OwnersInv
<1>7. QED
  BY <1>3, <1>4, <1>5, <1>6 DEF UsersInv

(* Commands under way are on clients' descriptors, one on each.            *)
LEMMA SessionApart ==
  ASSUME SessionInv
  PROVE  AllApart
BY Alone DEF SessionInv, CallsInv, CallInv, AllApart

(* A command keeps the invariant.                                          *)
LEMMA CommandUsers ==
  ASSUME SessionInv, UsersInv, NEW w \in Worker, w # Timer, ProcessCommand(w)
  PROVE  UsersInv'
<1>1. AccountsInv /\ NicksInv /\ MembersInv /\ OwnersInv
  BY DEF UsersInv
<1>2. AllApart /\ MemberTyped /\ NickTyped /\ Typed /\ Step(w)
  BY SessionApart, OwnerTypes, CommandStep DEF MemberTyped, NickTyped
<1>3. AccountsInv'
  BY <1>1, <1>2, AccountsCommand
<1>4. NicksInv'
  BY <1>1, <1>2, NicksCommand
<1>5. MembersInv'
  BY <1>1, <1>2, MembersCommand
<1>6. OwnersInv'
  BY <1>1, OwnersOther, OwnersSet, OwnersForget, OwnersClose
<1>7. QED
  BY <1>3, <1>4, <1>5, <1>6 DEF UsersInv

(* So does every other step.                                               *)
LEMMA OtherUsers ==
  ASSUME SessionInv, UsersInv, [Next]_vars,
         \A w \in Worker : w # Timer => ~ProcessCommand(w)
  PROVE  UsersInv'
<1>1. AccountsInv /\ NicksInv /\ MembersInv /\ OwnersInv
  BY DEF UsersInv
<1>2. AccountsInv' /\ NicksInv' /\ MembersInv'
  BY <1>1, StepsQuiet, QuietKeeps
<1>3. OwnersInv'
  <2>1. CASE UNCHANGED vars
    <3>1. \A d \in Fd : (Stale(d)' <=> Stale(d)) /\ (Clearing(d)' <=> Clearing(d))
      BY <2>1, SameThreads DEF vars
    <3>2. /\ UNCHANGED <<owner, users, registered, peer, backlog>>
          /\ At("close")' => users[i'] = NULL
      BY <1>1, <2>1 DEF vars, OwnersInv
    <3>3. QED
      BY <1>1, <3>1, <3>2, OwnersPlain DEF Pending
  <2>2. CASE Clients /\ UNCHANGED <<sets, workers, loopState, tables, tad, frame,
                                    registered>>
    BY <1>1, <2>2, OwnersClients
  <2>3. CASE MainLoop /\ UNCHANGED <<timed, tables, tad, frame, registered>>
    BY <1>1, <2>3, OwnersLoop
  <2>4. CASE do_on_disconnect
    <3>1. UNCHANGED <<owner, users, registered, peer, backlog, main, i, pc, data>>
      BY <2>4 DEF do_on_disconnect
    <3>2. \A t \in Live : frame'[t] = frame[t]
      BY <2>4, OwnerTypes DEF do_on_disconnect, OwnerTyped
    <3>3. \A d \in Fd : (Stale(d)' <=> Stale(d)) /\ (Clearing(d)' <=> Clearing(d))
      BY <3>1, <3>2 DEF Stale, Clearing, Live
    <3>4. At("close")' => users[i'] = NULL
      BY <1>1, <3>1 DEF OwnersInv
    <3>5. QED
      BY <1>1, <3>1, <3>3, <3>4, OwnersPlain DEF Pending
  <2>5. ASSUME NEW t \in Thread, NextCommand(t) \/ HandlerEnds(t)
        PROVE  OwnersInv'
    BY <1>1, <2>5, OwnersHandler
  <2>6. Loop \in Worker /\ Loop # Timer /\ \A t \in Thread : t \in Worker /\ t # Timer
    BY IrcAssumption DEF Worker
  <2>7. QED
    BY <2>1, <2>2, <2>3, <2>4, <2>5, <2>6 DEF Next, ServerLoop, Handler
<1>4. QED
  BY <1>2, <1>3 DEF UsersInv

(* The invariant is inductive, with the one of sessions.                   *)
LEMMA NextUsers ==
  SessionInv /\ UsersInv /\ [Next]_vars => UsersInv'
BY CommandUsers, OtherUsers

(* Users, accounts, nicks and channels stay in step in every undisturbed   *)
(* run of the server.                                                      *)
THEOREM UsersInvariance == Spec /\ []Undisturbed => []UsersInv
BY SessionInvariance, InitUsers, NextUsers, PTL DEF Spec

(* Who is at work on a descriptor keeps it busy.                           *)
LEMMA BusyWith ==
  ASSUME SessionInv, NEW d \in Fd, ~Busy(d)
  PROVE  /\ ~Stale(d) /\ ~Leaving(d) /\ ~Renaming(d)
<1>1. \A w \in Active : Socket(w) # d
  BY DEF Busy
<1>2. \A t \in Live : data[t].socketd # d
  BY <1>1, OwnerTypes DEF Active
<1>3. \A w \in Worker : ~In(w, "idle") => w \in Active
  BY DEF SessionInv, CallsInv, ServedInv, Active, Live, Worker
<1>4. QED
  BY <1>1, <1>2, <1>3 DEF Stale, Leaving, Renaming, Renames

(* The user of a descriptor at rest is the one that its own connection     *)
(* registered, in every undisturbed run: set_user has been forgotten for   *)
(* the client that had the number before (irc.c:758, irc_server.c:48-50)   *)
(* when accept gives it to another one.                                    *)
THEOREM UsersAreNotInherited == Spec /\ []Undisturbed => []NoInheritedUser
<1>1. SessionInv /\ UsersInv => NoInheritedUser
  BY BusyWith DEF UsersInv, OwnersInv, NoInheritedUser, Open
<1>2. QED
  BY <1>1, SessionInvariance, UsersInvariance, PTL

(* The tables of irc_server.c and libirctad agree on users and nicks, in   *)
(* every undisturbed run: NICK, USER and QUIT change one after the other   *)
(* (irc.c:33-49, 76-84, 753-759) and no step of another worker comes    *)
(* between that leaves them apart.                                         *)
THEOREM RegistryIsAgreed == Spec /\ []Undisturbed => []RegistryAgrees
<1>1. SessionInv /\ UsersInv => RegistryAgrees
  <2> SUFFICES ASSUME SessionInv, UsersInv PROVE RegistryAgrees
    OBVIOUS
  <2>1. \A d \in Fd : users[d] # NULL /\ ~Busy(d) =>
          account[users[d]] = nicks[d] \/ account[users[d]] \in LongNick
    BY BusyWith DEF UsersInv, NicksInv, Present
  <2>2. \A w \in Worker : In(w, "setUser") => w \in Active
    BY DEF SessionInv, CallsInv, ServedInv, Active, Live, Worker
  <2>3. \A u \in User : account[u] # NULL =>
          \/ \E d \in Fd : users[d] = u
          \/ \E w \in Active : In(w, "setUser") /\ frame[w].arg = u
          \/ u \in LongUser
    BY <2>2 DEF UsersInv, AccountsInv, Has
  <2>4. QED
    BY <2>1, <2>3 DEF RegistryAgrees
<1>2. QED
  BY <1>1, SessionInvariance, UsersInvariance, PTL

(* Nobody is found on two descriptors, but for the one that QUIT has freed *)
(* in libirctad and not forgotten yet (irc.c:753, 758), in every           *)
(* undisturbed run.                                                        *)
THEOREM UsersHaveOneDescriptor == Spec /\ []Undisturbed => []UserOnOneDescriptor
<1>1. SessionInv /\ UsersInv => UserOnOneDescriptor
  <2> SUFFICES ASSUME SessionInv, UsersInv, NEW d \in Fd, NEW e \in Fd,
                      d # e, users[d] # NULL, users[d] = users[e]
               PROVE  \E w \in Active : In(w, "quitUser") /\ Socket(w) \in {d, e}
    BY DEF UserOnOneDescriptor
  <2>1. Leaving(d) \/ Leaving(e)
    BY DEF UsersInv, AccountsInv, Present
  <2>2. \A w \in Worker : In(w, "quitUser") => w \in Active
    BY DEF SessionInv, CallsInv, ServedInv, Active, Live, Worker
  <2>3. QED
    BY <2>1, <2>2 DEF Leaving
<1>2. QED
  BY <1>1, SessionInvariance, UsersInvariance, PTL

(* Channels hold only registered users with a descriptor, in every         *)
(* undisturbed run: QUIT and a lost connection take the user off its       *)
(* channels (irc.c:753) before the descriptor is forgotten.                *)
THEOREM MembersStayConnected == Spec /\ []Undisturbed => []MembersAreConnected
<1>1. UsersInv => MembersAreConnected
  BY DEF UsersInv, MembersInv, MembersAreConnected, Has
<1>2. QED
  BY <1>1, UsersInvariance, PTL

-----------------------------------------------------------------------------
(* The end of the process *)

(* Nobody quits whom a JOIN or a NAMES has listed and not asked for yet,   *)
(* or whom a WHOIS has found and not listed the channels of (finding 4 of  *)
(* README shows that one may, and what happens then).                      *)
NamesStay ==
  \A w \in Worker :
    /\ In(w, "names") => \A v \in frame[w].rest : account[v] # NULL
    /\ In(w, "whoisChannels") => NickTaken(frame[w].arg)

(* No step gives strcpy or strcat a null pointer.                          *)
LEMMA NextAlive ==
  SessionInv /\ UsersInv /\ NamesStay /\ NeverDies /\ [Next]_vars => NeverDies'
<1> SUFFICES ASSUME SessionInv, UsersInv, NamesStay, NeverDies, [Next]_vars,
                    NEW v \in Worker, frame'[v].at = "dead"
             PROVE  FALSE
  BY DEF NeverDies, Alive
<1>0. /\ ~In(v, "dead")
      /\ frame \in [Worker -> Frame] /\ frame[v] \in Frame
  BY OwnerTypes DEF NeverDies, Alive, OwnerTyped
<1>1. ASSUME NEW w \in Worker, w # Timer, ProcessCommand(w)
      PROVE  FALSE
  <2>1. Step(w)
    BY <1>1, CommandStep
  <2>2. v = w
    BY <1>0, <2>1 DEF Step
  <2>3. CopyNick(v) \/ Names(v) \/ WhoisChannels(v)
    BY <2>1, <2>2 DEF Step, Arrives
  <2>4. CASE CopyNick(v)
    <3>1. get_nick(v) # NULL
      BY <2>4 DEF UsersInv, NicksInv, CopyNick
    <3>2. QED
      BY <1>0, <2>4, <3>1, Returns DEF CopyNick
  <2>5. CASE Names(v)
    <3>1. \A u \in frame[v].rest : account[u] # NULL
      BY <2>5 DEF NamesStay, Names
    <3>2. QED
      BY <2>5, <3>1, NamesGoes, IdleIs DEF SessionInv
  <2>7. CASE WhoisChannels(v)
    <3>1. Return(v)
      BY <2>7 DEF NamesStay, WhoisChannels
    <3>2. QED
      BY <1>0, <3>1, Returns
  <2>6. QED
    BY <2>3, <2>4, <2>5, <2>7
<1>2. CASE \A w \in Worker : w # Timer => ~ProcessCommand(w)
  BY <1>0, <1>2, StepsQuiet DEF Quiet, Telling
<1>3. QED
  BY <1>1, <1>2

(* The buffer that set_nick copies to after it has released m_nicks        *)
(* (irc_server.c:104-105) is still there, whoever JOIN or NAMES lists has  *)
(* a nick when asked for it (irc.c:291, 541), and whoever WHOIS finds is   *)
(* still there when its channels are listed (irc.c:675), in every          *)
(* undisturbed run in which nobody who was listed or found quits before:   *)
(* the process goes on.                                                    *)
THEOREM ServerSurvives == Spec /\ []Undisturbed /\ []NamesStay => []NeverDies
<1>1. Init => NeverDies
  BY IdleIs DEF Init, IrcInit, NeverDies, Alive
<1>2. QED
  BY <1>1, NextAlive, SessionInvariance, UsersInvariance, PTL DEF Spec

-----------------------------------------------------------------------------
(* Clients that meet on a channel *)

(* The JOIN or NAMES of w has yet to come to x, or to tell x.              *)
Lists(w, x) ==
  \/ In(w, "list")
  \/ frame[w].at \in {"names", "greet"} /\ x \in frame[w].rest
  \/ In(w, "greet") /\ x = frame[w].opt

(* A JOIN is about to tell u and v of each other.                          *)
Greets(w, ch, u, v) ==
  /\ frame[w].cmd = "JOIN" /\ frame[w].arg = ch
  /\ (frame[w].seen = u /\ Lists(w, v)) \/ (frame[w].seen = v /\ Lists(w, u))

Meet(ch) ==
  \A u, v \in members[ch] :
    v \in roster[ch][u] \/ \E w \in Worker : Greets(w, ch, u, v)

(* The process has ended in a JOIN.                                        *)
CutShort == \E w \in Worker : In(w, "dead") /\ frame[w].cmd = "JOIN"

(* Two members have been told of each other, or a JOIN of one of them is   *)
(* under way that has not come to the other.                               *)
MeetingInv ==
  /\ \A w \in Worker : In(w, "join") => frame[w].cmd = "JOIN"
  /\ CutShort \/ \A ch \in Channel : Meet(ch)

RosterTyped ==
  /\ OwnerTyped /\ MemberTyped
  /\ roster \in [Channel -> [User -> SUBSET User]]

(* A user that enters a channel is in the JOIN that has still to list it   *)
(* and everybody on it.                                                    *)
LEMMA JoinMeets ==
  ASSUME MeetingInv, RosterTyped, ~CutShort, NEW w, Step(w), Join(w), NEW ch \in Channel
  PROVE  Meet(ch)'
<1>0. /\ w \in Worker /\ frame[w].arg \in Channel /\ frame[w].cmd = "JOIN" /\ Meet(ch)
      /\ \A x \in Worker : x # w => frame'[x] = frame[x]
  BY DEF Step, Fits, Join, MeetingInv
<1>1. \A u, v : ~Greets(w, ch, u, v)
  BY DEF Join, Greets, Lists
<1>2. \A u, v : \A x \in Worker : Greets(x, ch, u, v) => Greets(x, ch, u, v)'
  BY <1>0, <1>1 DEF Greets, Lists
<1>3. CASE UNCHANGED tad
  BY <1>0, <1>2, <1>3 DEF Meet
<1>4. CASE /\ get_user(w) # NULL /\ Enters(get_user(w), frame[w].arg)
           /\ frame' = [frame EXCEPT ![w].seen = get_user(w), ![w].at = "list"]
  <2> DEFINE e == get_user(w)
             c == frame[w].arg
  <2>1. e \in User
    BY <1>4 DEF Step, get_user, RosterTyped, OwnerTyped
  <2>2. frame'[w].at = "list" /\ frame'[w].seen = e /\ frame'[w].cmd = "JOIN"
        /\ frame'[w].arg = c
    BY <1>0, <1>4 DEF RosterTyped, OwnerTyped, Frame
  <2>3. CASE ch # c
    BY <1>0, <1>2, <1>4, <2>3 DEF Enters, Meet, RosterTyped, MemberTyped
  <2>4. CASE ch = c
    <3>1. SUFFICES ASSUME NEW u \in members'[ch], NEW v \in members'[ch]
                   PROVE  v \in roster'[ch][u] \/ \E x \in Worker : Greets(x, ch, u, v)'
      BY DEF Meet
    <3>2. /\ u = e \/ u \in members[ch]
          /\ v = e \/ v \in members[ch]
      BY <1>0, <1>4, <2>4 DEF Enters, RosterTyped, MemberTyped
    <3>3. CASE u = e \/ v = e
      BY <1>0, <2>2, <2>4, <3>3 DEF Greets, Lists
    <3>4. CASE u # e /\ v # e
      <4>1. roster'[ch][u] = roster[ch][u]
        BY <1>0, <1>4, <2>4, <3>4 DEF Enters, RosterTyped
      <4>2. QED
        BY <1>0, <1>2, <3>2, <3>4, <4>1 DEF Meet
    <3>5. QED
      BY <3>3, <3>4
  <2>5. QED
    BY <2>3, <2>4
<1>5. QED
  BY <1>3, <1>4 DEF Join

(* The list that a JOIN reads holds all that are on the channel.           *)
LEMMA ListMeets ==
  ASSUME MeetingInv, RosterTyped, ~CutShort, NEW w, Step(w), ListUsers(w),
         NEW ch \in Channel
  PROVE  Meet(ch)'
<1>0. /\ w \in Worker /\ Meet(ch) /\ UNCHANGED tad
      /\ \A x \in Worker : x # w => frame'[x] = frame[x]
  BY DEF Step, ListUsers, MeetingInv
<1>1. ASSUME NEW u \in members[ch], NEW v \in members[ch], Greets(w, ch, u, v)
      PROVE  Greets(w, ch, u, v)'
  <2>1. frame[w].cmd = "JOIN" /\ frame[w].arg = ch
    BY <1>1 DEF Greets
  <2>2. frame' = [frame EXCEPT ![w] = [frame[w] EXCEPT !.rest = members[ch],
                                                      !.at = "names"]]
    BY <1>0, <2>1 DEF ListUsers, RosterTyped, OwnerTyped
  <2>3. /\ frame'[w].at = "names" /\ frame'[w].rest = members[ch]
        /\ frame'[w].cmd = frame[w].cmd /\ frame'[w].arg = frame[w].arg
        /\ frame'[w].seen = frame[w].seen
    BY <1>0, <2>2 DEF RosterTyped, OwnerTyped, Frame
  <2>4. QED
    BY <1>1, <2>1, <2>3 DEF Greets, Lists
<1>2. \A u, v \in members[ch] : \A x \in Worker :
        Greets(x, ch, u, v) => Greets(x, ch, u, v)'
  BY <1>0, <1>1 DEF Greets, Lists
<1>3. QED
  BY <1>0, <1>2 DEF Meet

(* A JOIN that comes to a name is about to tell the two of each other; or  *)
(* the process ends there, the member having no nick (finding 4 of         *)
(* README).                                                                *)
LEMMA NamesMeets ==
  ASSUME CallsInv, MeetingInv, RosterTyped, ~CutShort, NEW w, Step(w), Names(w),
         NEW ch \in Channel
  PROVE  CutShort' \/ Meet(ch)'
<1>0. /\ w \in Worker /\ Meet(ch) /\ UNCHANGED <<members, roster>>
      /\ \A x \in Worker : x # w => frame'[x] = frame[x]
      /\ In(w, "names")
  BY DEF Step, Names, MeetingInv
<1>1. CASE frame[w].cmd = "JOIN" /\ frame'[w].at = "dead"
  BY <1>0, <1>1, NamesGoes, IdleIs DEF CutShort
<1>2. CASE frame[w].cmd # "JOIN" \/ frame'[w].at # "dead"
  <2>1. \A u, v : Greets(w, ch, u, v) => Greets(w, ch, u, v)'
    BY <1>0, <1>2, NamesGoes DEF Greets, Lists
  <2>2. \A u, v : \A x \in Worker : Greets(x, ch, u, v) => Greets(x, ch, u, v)'
    BY <1>0, <2>1 DEF Greets, Lists
  <2>3. QED
    BY <1>0, <2>2 DEF Meet
<1>3. QED
  BY <1>1, <1>2

(* Then it does: the member has a descriptor to be told on.                *)
LEMMA GreetMeets ==
  ASSUME UsersInv, MeetingInv, RosterTyped, ~CutShort, NEW w, Step(w), Greet(w),
         NEW ch \in Channel
  PROVE  Meet(ch)'
<1> DEFINE e == frame[w].seen
           c == frame[w].arg
           v0 == frame[w].opt
<1>0. /\ w \in Worker /\ Meet(ch) /\ UNCHANGED members
      /\ \A x \in Worker : x # w => frame'[x] = frame[x]
      /\ frame \in [Worker -> Frame]
      /\ In(w, "greet") /\ c \in Channel /\ e \in User /\ v0 \in User
      /\ roster \in [Channel -> [User -> SUBSET User]]
  BY DEF Step, Fits, Greet, MeetingInv, RosterTyped, OwnerTyped
<1>1. \A u, v : \A x \in Worker :
        x # w => (Greets(x, ch, u, v) => Greets(x, ch, u, v)')
  BY <1>0 DEF Greets, Lists
<1>2. /\ frame'[w].at = "names" /\ frame'[w].rest = frame[w].rest
      /\ frame'[w].cmd = frame[w].cmd /\ frame'[w].arg = c /\ frame'[w].seen = e
  BY <1>0, Moves DEF Greet, Label
<1>3. roster' = [roster EXCEPT ![c] = [x \in User |-> roster[c][x]
                 \cup (IF x = e THEN {v0} ELSE {})
                 \cup (IF x = v0 /\ get_socketd_byuser(v0) # 0 THEN {e} ELSE {})]]
  BY DEF Greet
<1>4. CASE ch # c
  <2>1. roster'[ch] = roster[ch] /\ \A u, v : ~Greets(w, ch, u, v)
    BY <1>0, <1>3, <1>4 DEF Greets
  <2>2. QED
    BY <1>0, <1>1, <2>1 DEF Meet
<1>5. CASE ch = c
  <2>1. SUFFICES ASSUME NEW u \in members[ch], NEW v \in members[ch]
                 PROVE  v \in roster'[ch][u] \/ \E x \in Worker : Greets(x, ch, u, v)'
    BY <1>0 DEF Meet
  <2>2. u \in User /\ v \in User
    BY <1>0 DEF RosterTyped, MemberTyped
  <2>3. roster'[ch][u] = roster[ch][u] \cup (IF u = e THEN {v0} ELSE {})
                        \cup (IF u = v0 /\ get_socketd_byuser(v0) # 0 THEN {e} ELSE {})
    BY <1>0, <1>3, <1>5, <2>2
  <2>4. CASE v \in roster[ch][u]
    BY <2>3, <2>4
  <2>5. CASE \E x \in Worker \ {w} : Greets(x, ch, u, v)
    BY <1>1, <2>5
  <2>6. CASE Greets(w, ch, u, v)
    <3>1. CASE e = u /\ v = v0
      BY <2>3, <3>1
    <3>2. CASE e = u /\ v \in frame[w].rest
      BY <1>0, <1>2, <1>5, <2>6, <3>2 DEF Greets, Lists
    <3>3. CASE e = v /\ u \in frame[w].rest
      BY <1>0, <1>2, <1>5, <2>6, <3>3 DEF Greets, Lists
    <3>4. CASE e = v /\ u = v0
      <4>1. PICK d \in Fd : users[d] = u
        BY <1>0 DEF UsersInv, MembersInv, Has
      <4>2. get_socketd_byuser(u) # 0
        BY <2>2, <4>1, LowestIn, ConstantsType, IrcAssumption DEF get_socketd_byuser
      <4>3. QED
        BY <2>3, <3>4, <4>2
    <3>5. QED
      BY <1>0, <2>6, <3>1, <3>2, <3>3, <3>4 DEF Greets, Lists
  <2>7. QED
    BY <1>0, <2>4, <2>5, <2>6 DEF Meet
<1>6. QED
  BY <1>4, <1>5

(* A command leaves all members told of each other or about to be.         *)
LEMMA MeetingCommand ==
  ASSUME SessionInv, UsersInv, MeetingInv, NEW w \in Worker, ProcessCommand(w)
  PROVE  MeetingInv'
<1>0. /\ Step(w) /\ RosterTyped /\ ~In(w, "dead")
      /\ \A x \in Worker : x # w => frame'[x] = frame[x]
  <2>1. Step(w) /\ ~In(w, "dead")
    BY CommandStep, CommandAt
  <2>2. RosterTyped
    BY OwnerTypes DEF RosterTyped, SessionInv, CallsInv, TypeOK
  <2>3. QED
    BY <2>1, <2>2 DEF Step
<1>1. \A x \in Worker : frame'[x].at = "join" => frame'[x].cmd = "JOIN"
  BY <1>0 DEF MeetingInv, Step, Arrives
<1>2. CutShort => CutShort'
  BY <1>0 DEF CutShort
<1>3. ASSUME NEW ch \in Channel, ~CutShort, ~Join(w), ~ListUsers(w), ~Names(w),
             ~Greet(w)
      PROVE  Meet(ch)'
  <2>1. roster' = roster
    BY <1>3, OthersKeepTad
    DEF TadStep, ChangeNick, AddUser, QuitTad, Part, KickUser, SetTopic, SetMode, SetAway,
        Leaves
  <2>2. members'[ch] \subseteq members[ch]
    <3>1. \/ Stays(ch) \/ Joins(w, ch) \/ Drops(users[Socket(w)], ch)
          \/ Drops(frame[w].opt, ch)
      BY <1>0, MembersChange DEF RosterTyped
    <3>2. Stays(ch) \/ \E u : members'[ch] = members[ch] \ {u}
      BY <1>3, <3>1 DEF Joins, Drops
    <3>3. QED
      BY <3>2 DEF Stays
  <2>3. frame[w].at \notin {"list", "names", "greet"}
    BY <1>3
    DEF ProcessCommand,
     SessionCommand, AskRegistered, ChangeNick, SetNick, CopyNick, ReadNick,
     CheckUser, AddUser, SetUser, Relay, RelayBlock, RelayUnblock, Privmsg, ListTargets,
     FindNick,
     FindNickAgain, SendPrivate, Quit, QuitChannels, QuitClose, QuitRmv, QuitTad,
     QuitUser, QuitNick,
     ChannelCommand, Part, Kick, KickUser,
     AskTopicRight, AskTopicMode, SetTopic, Mode, AskModeRight, SetMode, AskAway, SetAway,
     List, Whois, WhoisChannels, Ping, Answers
  <2>4. \A u, v : \A x \in Worker : Greets(x, ch, u, v) => Greets(x, ch, u, v)'
    BY <1>0, <2>3 DEF Greets, Lists
  <2>5. Meet(ch)
    BY <1>3 DEF MeetingInv
  <2>6. QED
    BY <2>1, <2>2, <2>4, <2>5 DEF Meet
<1>4. ~CutShort => CutShort' \/ \A ch \in Channel : Meet(ch)'
  BY <1>0, <1>3, JoinMeets, ListMeets, NamesMeets, GreetMeets DEF SessionInv
<1>5. QED
  BY <1>1, <1>2, <1>4 DEF MeetingInv

(* So does every step that is no step of a command.                        *)
LEMMA MeetingOther ==
  ASSUME SessionInv, MeetingInv, [Next]_vars,
         \A w \in Worker : w # Timer => ~ProcessCommand(w)
  PROVE  MeetingInv'
<1>0. /\ frame \in [Worker -> Frame] /\ data \in [Thread -> Data]
      /\ Loop \in Worker /\ Loop # Timer /\ \A t \in Thread : t \in Worker /\ t # Timer
  BY IrcAssumption DEF SessionInv, CallsInv, TypeOK, Worker
<1>1. /\ UNCHANGED <<members, roster>>
      /\ \A w \in Worker : \/ frame'[w] = frame[w]
                           \/ In(w, "idle") /\ \E text \in Text : frame'[w] = Call(text)
                           \/ In(w, "idle") /\ frame'[w] = Call(QuitNow)
  <2>1. CASE UNCHANGED <<frame, tad>>
    BY <2>1
  <2>2. CASE do_on_disconnect
    BY <1>0, <2>2 DEF do_on_disconnect
  <2>3. ASSUME NEW t \in Thread, NextCommand(t)
        PROVE  /\ UNCHANGED <<members, roster>>
               /\ \A w \in Worker :
                    \/ frame'[w] = frame[w]
                    \/ In(w, "idle") /\ \E text \in Text : frame'[w] = Call(text)
    <3>1. Head(data[t].msg) \in Text
      BY <1>0, <2>3, HeadTailProperties, EmptySeq DEF NextCommand, Data
    <3>2. QED
      BY <1>0, <2>3, <3>1 DEF NextCommand
  <2>4. QED
    BY <1>0, <2>1, <2>2, <2>3 DEF Next, ServerLoop, Handler, HandlerEnds, vars
<1>2. \A w \in Worker : ~In(w, "idle") => frame'[w] = frame[w]
  BY <1>1
<1>3. \A w \in Worker : In(w, "join")' => frame'[w].cmd = "JOIN"
  <2>1. \A text \in Text : Call(text).at = "join" => Call(text).cmd = "JOIN"
    <3>1. SUFFICES ASSUME NEW text \in Text, Entry[text.cmd] = "join"
                   PROVE  text.cmd = "JOIN"
      BY DEF Call, Idle
    <3>2. text.cmd \in Command
      BY TextAssumption DEF WellFormed
    <3>3. QED
      BY <3>1, <3>2 DEF Entry, Command
  <2>2. QED
    BY <1>1, <2>1, QuitNowIs DEF MeetingInv
<1>4. CutShort => CutShort'
  BY <1>2 DEF CutShort
<1>5. \A ch, u, v : \A x \in Worker : Greets(x, ch, u, v) => Greets(x, ch, u, v)'
  BY <1>2 DEF Greets, Lists
<1>6. QED
  BY <1>1, <1>3, <1>4, <1>5 DEF MeetingInv, Meet

(* MeetingInv is kept by every step of an undisturbed run.                 *)
LEMMA NextMeeting ==
  SessionInv /\ UsersInv /\ MeetingInv /\ [Next]_vars => MeetingInv'
BY MeetingCommand, MeetingOther

(* Two clients that join a channel at once do not miss each other:         *)
(* IRCTAD_Join puts the user on the channel before the JOIN reads the      *)
(* list, and the JOIN then tells each member it lists (irc.c:256-312), so  *)
(* of two JOINs the later one reads both users. For any number of JOINs at *)
(* once, in every undisturbed run.                                         *)
THEOREM MembersMeet == Spec /\ []Undisturbed => []MembersKnowEachOther
<1>1. Init => MeetingInv
  BY IdleIs DEF Init, IrcInit, read_channels, MeetingInv, Meet
<1>2. SessionInv /\ MeetingInv => MembersKnowEachOther
  <2>1. SessionInv => \A w \in Worker : ~In(w, "idle") => w \in Active
    BY DEF SessionInv, CallsInv, ServedInv, Active, Live, Worker
  <2>2. QED
    BY <2>1 DEF MeetingInv, CutShort, Meet, Greets, Lists, MembersKnowEachOther
<1>3. QED
  BY <1>1, <1>2, NextMeeting, SessionInvariance, UsersInvariance, PTL DEF Spec

-----------------------------------------------------------------------------
(* The registry that clients believe in *)

(* The user that QUIT lets go of is the one its connection registered.     *)
PartingInv ==
  \A w \in Worker : frame[w].at \in {"quitRmv", "quitTad", "quitUser"}
    => get_user(w) = registered[Client(w)]

(* Whom a command works for.                                               *)
LEMMA ClientIs ==
  ASSUME SessionInv, NEW w \in Worker, ~In(w, "idle")
  PROVE  /\ Client(w) \in Conn /\ Socket(w) \in Fd
         /\ w \in Live \/ w = Loop
         /\ w \in Live => /\ w \in Thread /\ w # Loop
                          /\ data[w].socketd = Socket(w) /\ data[w].conn = Client(w)
         /\ w = Loop => /\ At("disconnect") /\ Socket(w) = i
                        /\ owner[Socket(w)] = Client(w)
<1>1. w \in Active /\ CallsInv /\ HeldInv
  BY DEF SessionInv, CallsInv, ServedInv, Active, Live, Worker
<1>2. CASE w \in Live
  BY <1>2, OwnerTypes
<1>3. CASE w = Loop /\ At("disconnect")
  <2>1. Socket(w) = rcvd.socketd /\ Client(w) = rcvd.conn /\ w \notin Live
    BY <1>3, Givens, IrcAssumption DEF Socket, Client, Live
  <2>2. /\ i \in Fd /\ rcvd.socketd = i
        /\ rcvd.conn \in Conn /\ owner[i] = rcvd.conn
    BY <1>1, <1>3 DEF CallsInv, ServedInv, HeldInv, LoopHolds
  <2>3. QED
    BY <1>3, <2>1, <2>2
<1>4. QED
  BY <1>1, <1>2, <1>3, ActiveWho

(* A connection has at most one command under way.                         *)
LEMMA ClientsApart ==
  ASSUME SessionInv, NEW v \in Worker, NEW w \in Worker,
         ~In(v, "idle"), ~In(w, "idle"), Client(v) = Client(w)
  PROVE  v = w
<1>1. ApartInv /\ HeldInv /\ QueueInv
  BY DEF SessionInv
<1>2. \A t \in Live : ~In(t, "idle") /\ t \in Worker /\ ~In(Loop, "idle") =>
        Client(t) # Client(Loop)
  <2>1. SUFFICES ASSUME NEW t \in Live, ~In(t, "idle"), t \in Worker, ~In(Loop, "idle"),
                        Client(t) = Client(Loop)
                 PROVE  FALSE
    OBVIOUS
  <2>2. /\ At("disconnect") /\ i \in Fd /\ owner[i] = data[t].conn
        /\ data[t].socketd \in Fd /\ data[t].conn \in Conn
    BY <2>1, ClientIs DEF Worker
  <2>3. owner[data[t].socketd] = data[t].conn
    BY <1>1, <2>1, <2>2 DEF HeldInv, HeldBy, Owns, Accepted
  <2>4. data[t].socketd = i
    BY <1>1, <2>2, <2>3, ConnectionsAssumption DEF QueueInv
  <2>5. QED
    BY <1>1, <2>1, <2>2, <2>4 DEF ApartInv, LoopAttends
<1>3. CASE v \in Live /\ w \in Live
  BY <1>1, <1>3, ClientIs DEF HeldInv
<1>4. QED
  BY <1>2, <1>3, ClientIs

(* The user of the descriptor is the user of the connection.               *)
LEMMA KnownAs ==
  ASSUME SessionInv, OwnersInv, PartingInv, NEW w \in Worker,
         ~In(w, "idle"), ~In(w, "quitNick")
  PROVE  get_user(w) = registered[Client(w)]
<1>1. ApartInv /\ HeldInv
  BY DEF SessionInv
<1>2. CASE frame[w].at \in {"quitRmv", "quitTad", "quitUser"}
  BY <1>2 DEF PartingInv
<1>3. CASE frame[w].at \notin PastClose
  <2>1. owner[Socket(w)] = Client(w)
    BY <1>1, <1>3, ClientIs DEF HeldInv, HeldBy, Owns
  <2>2. ~Stale(Socket(w))
    <3>1. CASE w \in Live
      BY <1>1, <2>1, <3>1, ClientIs DEF Stale, ApartInv, OneHandlerPerConnection
    <3>2. CASE w = Loop
      BY <1>1, <3>2, ClientIs DEF Stale, ApartInv, LoopAttends
    <3>3. QED
      BY <3>1, <3>2, ClientIs
  <2>3. Socket(w) \in Open
    BY <2>1, ClientIs, ConnectionsAssumption DEF Open
  <2>4. QED
    BY <2>1, <2>2, <2>3 DEF OwnersInv, get_user
<1>4. QED
  BY <1>2, <1>3 DEF PastClose

(* What a command does to its own connection it does to no other.          *)
LEMMA OnlyOwn ==
  ASSUME SessionInv, NEW w \in Worker, ProcessCommand(w),
         NEW v \in Worker, v # w, ~In(v, "idle")
  PROVE  /\ get_user(v)' = get_user(v) /\ Client(v)' = Client(v)
         /\ registered'[Client(v)] = registered[Client(v)]
<1>1. /\ ~In(w, "idle") /\ Step(w) /\ OwnerTyped
      /\ Client(v) \in Conn /\ Client(w) \in Conn /\ Client(v) # Client(w)
      /\ Socket(v) \in Fd /\ Socket(w) \in Fd /\ Socket(v) # Socket(w)
  BY CommandAt, CommandStep, OwnerTypes, ClientIs, ClientsApart, Alone
<1>2. CASE UNCHANGED <<users, registered>>
  BY <1>1, <1>2 DEF Step, get_user
<1>3. CASE \E x : users' = [users EXCEPT ![Socket(w)] = x]
                  /\ registered' = [registered EXCEPT ![Client(w)] = x]
  BY <1>1, <1>3 DEF Step, get_user, OwnerTyped
<1>4. QED
  BY <1>2, <1>3, Writers DEF SetUser, QuitUser

(* A command's step keeps it.                                              *)
LEMMA PartingCommand ==
  ASSUME SessionInv, OwnersInv, PartingInv, NEW w \in Worker, ProcessCommand(w)
  PROVE  PartingInv'
<1>1. Step(w) /\ ~In(w, "idle")
  BY CommandAt, CommandStep
<1>2. SUFFICES ASSUME NEW v \in Worker,
                      frame'[v].at \in {"quitRmv", "quitTad", "quitUser"}
               PROVE  get_user(v)' = registered'[Client(v)']
  BY DEF PartingInv
<1>3. CASE v # w
  <2>1. frame[v].at \in {"quitRmv", "quitTad", "quitUser"} /\ ~In(v, "idle")
    BY <1>1, <1>2, <1>3 DEF Step
  <2>2. QED
    BY <1>3, <2>1, OnlyOwn DEF PartingInv
<1>4. CASE v = w
  <2>1. QuitClose(w) \/ QuitRmv(w) \/ QuitChannels(w) \/ QuitTad(w)
    BY <1>1, <1>2, <1>4 DEF Step, Arrives
  <2>2. UNCHANGED <<users, registered>> /\ ~In(w, "quitNick")
    BY <2>1 DEF QuitClose, QuitRmv, QuitChannels, QuitTad
  <2>3. get_user(w) = registered[Client(w)]
    BY <1>1, <2>2, KnownAs
  <2>4. QED
    BY <1>1, <1>4, <2>2, <2>3 DEF Step, get_user
<1>5. QED
  BY <1>3, <1>4

(* Steps that belong to no command leave those under way alone.            *)
LEMMA OthersAbide ==
  ASSUME SessionInv, [Next]_vars,
         \A w \in Worker : w # Timer => ~ProcessCommand(w)
  PROVE  /\ UNCHANGED <<users, registered, tad>>
         /\ \A w \in Worker :
              IF In(w, "idle")
              THEN frame'[w].at \notin {"setUser", "quitUser", "quitRmv", "quitTad"}
              ELSE frame'[w] = frame[w] /\ Socket(w)' = Socket(w) /\ Client(w)' = Client(w)
<1>0. /\ CallsInv /\ In(Timer, "idle")
      /\ frame \in [Worker -> Frame] /\ data \in [Thread -> Data]
      /\ pc \in [Thread -> HandlerState]
      /\ \A t \in Thread : t \in Worker /\ t # Timer /\ t # Loop
      /\ Loop \in Worker /\ Loop # Timer
  BY Givens, IrcAssumption
  DEF SessionInv, QuitsInv, CallsInv, TypeOK, Worker
<1>1. CASE UNCHANGED <<frame, data, rcvd, timed>> /\ UNCHANGED <<tables, tad, registered>>
  BY <1>1 DEF Socket, Client, Given
<1>2. CASE MainLoop /\ UNCHANGED <<timed, tables, tad, frame, registered>>
  <2>1. In(Loop, "idle")
    <3>1. ~At("disconnect")
      BY <1>2
      DEF MainLoop, CopyConnections, Select, Scan, Accept, AddAccepted, ReceiveData,
         ReceiveClosed, ReceiveReset, ReceiveBadFd, RemoveClosed, BlockGone,
         CloseDescriptor, UnblockClosed, RemoveClosedAgain, BlockConnection, StartHandler
    <3>2. QED
      BY <1>0, <3>1 DEF CallsInv, ServedInv
  <2>2. \A t \in Thread : ~In(t, "idle") => data'[t] = data[t]
    <3>1. CASE StartHandler
      <4>1. PICK t \in Thread : pc[t] = "free" /\ data' = [data EXCEPT ![t] = rcvd]
        BY <3>1 DEF StartHandler
      <4>2. In(t, "idle")
        BY <1>0, <4>1 DEF CallsInv, ServedInv
      <4>3. QED
        BY <1>0, <4>1, <4>2
    <3>2. CASE ~StartHandler
      BY <1>2, <3>2
      DEF MainLoop, CopyConnections, Select, Scan, Accept, AddAccepted, ReceiveData,
         ReceiveClosed, ReceiveReset, ReceiveBadFd, RemoveClosed, BlockGone,
         CloseDescriptor, UnblockClosed, RemoveClosedAgain, BlockConnection
    <3>3. QED
      BY <3>1, <3>2
  <2>3. \A w \in Worker : ~In(w, "idle") => Given(w)' = Given(w)
    BY <1>0, <1>2, <2>1, <2>2 DEF Given, Worker
  <2>4. QED
    BY <1>0, <1>2, <2>3 DEF Socket, Client
<1>3. CASE do_on_disconnect
  <2>1. /\ \A w \in Worker : w # Loop => frame'[w] = frame[w]
        /\ In(Loop, "idle") /\ frame'[Loop].at = "quit"
    BY <1>0, <1>3, QuitNowIs DEF do_on_disconnect
  <2>2. UNCHANGED <<data, rcvd, timed>> /\ UNCHANGED <<tables, tad, registered>>
    BY <1>3 DEF do_on_disconnect
  <2>3. QED
    BY <1>0, <2>1, <2>2 DEF Socket, Client, Given
<1>4. ASSUME NEW t \in Thread, NextCommand(t)
      PROVE  /\ UNCHANGED <<tables, tad, registered>>
             /\ \A w \in Worker : w # t => frame'[w] = frame[w] /\ Given(w)' = Given(w)
             /\ In(t, "idle")
             /\ frame'[t].at \notin {"setUser", "quitUser", "quitRmv", "quitTad"}
  <2>1. /\ frame' = [frame EXCEPT ![t] = Call(Head(data[t].msg))]
        /\ Head(data[t].msg).cmd \in Command
    BY <1>0, <1>4, HeadTailProperties, EmptySeq, TextAssumption
    DEF NextCommand, Data, WellFormed
  <2>2. Call(Head(data[t].msg)).at \notin {"setUser", "quitUser", "quitRmv", "quitTad"}
    BY <2>1 DEF Command, Entry, Call, Idle
  <2>3. QED
    BY <1>0, <1>4, <2>1, <2>2 DEF NextCommand, Given
<1>5. ASSUME NEW t \in Thread, HandlerEnds(t)
      PROVE  /\ UNCHANGED <<tables, tad, registered, frame>> /\ In(t, "idle")
             /\ \A w \in Worker : w # t => Given(w)' = Given(w)
  BY <1>0, <1>5 DEF HandlerEnds, Given
<1>6. ASSUME NEW t \in Thread, NextCommand(t) \/ HandlerEnds(t)
      PROVE  /\ UNCHANGED <<users, registered, tad>>
             /\ \A w \in Worker :
                  IF In(w, "idle")
                  THEN frame'[w].at \notin {"setUser", "quitUser", "quitRmv", "quitTad"}
                  ELSE frame'[w] = frame[w] /\ Socket(w)' = Socket(w)
                       /\ Client(w)' = Client(w)
  BY <1>4, <1>5, <1>6 DEF Socket, Client
<1>7. QED
  BY <1>0, <1>1, <1>2, <1>3, <1>6 DEF Next, ServerLoop, Handler, vars

(* The invariant is inductive, with those of sessions and users.           *)
LEMMA NextParting ==
  SessionInv /\ UsersInv /\ PartingInv /\ [Next]_vars => PartingInv'
<1> SUFFICES ASSUME SessionInv, UsersInv, PartingInv, [Next]_vars PROVE PartingInv'
  OBVIOUS
<1>1. CASE \E w \in Worker : ProcessCommand(w)
  BY <1>1, PartingCommand DEF UsersInv
<1>2. CASE \A w \in Worker : ~ProcessCommand(w)
  BY <1>2, OthersAbide DEF PartingInv, get_user
<1>3. QED
  BY <1>1, <1>2


-----------------------------------------------------------------------------
(* Its steps *)

(* Away from the two calls of USER and of QUIT, a connection has the user  *)
(* of its descriptor.                                                      *)
LEMMA SessionIs ==
  ASSUME SessionInv, OwnersInv, PartingInv, NEW w \in Worker,
         ~In(w, "idle"), frame[w].at \notin {"setUser", "quitUser", "quitNick"}
  PROVE  Session[Client(w)] = {get_user(w)} \ {NULL}
<1>1. Client(w) \in Conn /\ Socket(w) \in Fd /\ OwnerTyped
  BY ClientIs, OwnerTypes
<1>2. \A v \in Worker : In(v, "setUser") \/ In(v, "quitUser") => Client(v) # Client(w)
  BY ClientsApart
<1>3. \A u \in User : SignedOn(Client(w), u) <=> registered[Client(w)] = u
  BY <1>2 DEF SignedOn
<1>4. get_user(w) = registered[Client(w)] /\ get_user(w) \in User \cup {NULL}
  BY <1>1, KnownAs DEF OwnerTyped, get_user
<1>5. QED
  BY <1>1, <1>3, <1>4, IrcAssumption DEF Session

(* Steps at which no user is registered or let go of.                      *)
LEMMA SessionStays ==
  ASSUME UNCHANGED registered,
         \A v \in Worker : frame[v].at \in {"setUser", "quitUser"}
                           \/ frame'[v].at \in {"setUser", "quitUser"}
           => frame'[v] = frame[v] /\ Client(v)' = Client(v)
  PROVE  UNCHANGED Session
<1>1. \A c \in Conn, u \in User : SignedOn(c, u)' <=> SignedOn(c, u)
  BY DEF SignedOn
<1>2. QED
  BY <1>1 DEF Session

(* The session of another connection does not change.                      *)
LEMMA SessionOfOthers ==
  ASSUME SessionInv, NEW w \in Worker, ProcessCommand(w), NEW c \in Conn, c # Client(w)
  PROVE  Session'[c] = Session[c]
<1>1. Step(w) /\ OwnerTyped /\ Client(w) \in Conn
  BY CommandAt, CommandStep, OwnerTypes, ClientIs
<1>2. registered'[c] = registered[c]
  BY <1>1, Writers DEF SetUser, QuitUser, OwnerTyped
<1>3. \A u \in User : SignedOn(c, u)' <=> SignedOn(c, u)
  BY <1>1, <1>2 DEF SignedOn, Step
<1>4. QED
  BY <1>3 DEF Session

(* A change of one session.                                                *)
LEMMA SessionExcept ==
  ASSUME NEW c \in Conn, NEW S, Session'[c] = S,
         \A d \in Conn : d # c => Session'[d] = Session[d]
  PROVE  /\ Session' = [Session EXCEPT ![c] = S]
         /\ S = Session[c] => UNCHANGED Session
<1>1. /\ Session = [d \in Conn |-> Session[d]]
      /\ Session' = [d \in Conn |-> Session'[d]]
  BY DEF Session
<1>2. QED
  BY <1>1

(* USER registers when libirctad adds the user.                            *)
LEMMA AddRegisters ==
  ASSUME SessionInv, UsersInv, PartingInv, NEW w \in Worker, AddUser(w)
  PROVE  [Registry!Next]_(Registry!vars)
<1>c. PICK c \in Conn : c = Client(w)
  BY ClientIs DEF AddUser
<1> DEFINE u == frame[w].arg
           n == frame[w].seen
<1>0. /\ ProcessCommand(w) /\ Step(w) /\ OwnerTyped /\ MemberTyped
      /\ c \in Conn /\ c = Client(w) /\ u \in User /\ frame \in [Worker -> Frame]
      /\ UNCHANGED <<registered, members, ops, guarded>> /\ In(w, "addUser")
  <2>1. ProcessCommand(w) /\ In(w, "addUser")
    BY DEF ProcessCommand, SessionCommand, AddUser
  <2>2. QED
    BY <2>1, CommandStep, OwnerTypes, <1>c DEF AddUser, Step, Fits, OwnerTyped
<1>1. Session[c] = {}
  BY <1>0, SessionIs DEF UsersInv, AccountsInv
<1>2. \A v \in Worker : v # w => frame'[v] = frame[v] /\ Client(v)' = Client(v)
  BY <1>0 DEF Step
<1>3. CASE Return(w) /\ UNCHANGED account
  <2>1. frame'[w].at = "idle"
    BY <1>0, <1>3, Returns
  <2>2. UNCHANGED Session
    BY <1>0, <1>2, <2>1, SessionStays
  <2>3. QED
    BY <1>0, <1>3, <2>2 DEF Registry!vars
<1>4. CASE /\ n \in Nick /\ account[u] = NULL /\ ~NickTaken(n)
           /\ account' = [account EXCEPT ![u] = n]
           /\ Move(w, "setUser")
  <2>1. frame'[w].at = "setUser" /\ frame'[w].arg = u /\ Client(w)' = c
    BY <1>0, <1>4, Moves DEF Label, Step
  <2>2. \A d \in Conn : d # c => Session'[d] = Session[d]
    BY <1>0, SessionOfOthers
  <2>3. \A x \in User : SignedOn(c, x)' <=> x = u /\ u \notin LongUser
    <3>1. \A v \in Worker : v # w /\ ~In(v, "idle") => Client(v) # c
      BY <1>0, ClientsApart
    <3>2. \A x \in User : ~SignedOn(c, x)
      BY <1>0, <1>1 DEF Session
    <3>3. \A x \in User : registered[c] # x
      BY <1>0, <3>1, <3>2 DEF SignedOn
    <3>4. QED
      BY <1>0, <1>2, <2>1, <3>1, <3>3 DEF SignedOn
  <2>4. Session' = IF u \in LongUser THEN Session ELSE [Session EXCEPT ![c] = {u}]
    <3>1. Session'[c] = IF u \in LongUser THEN {} ELSE {u}
      BY <1>0, <2>3 DEF Session
    <3>2. QED
      BY <1>1, <2>2, <3>1, SessionExcept
  <2>5. Registry!Register(c, u, n)
    BY <1>0, <1>1, <1>4, <2>4 DEF Registry!Register, Registry!Free, NickTaken
  <2>6. QED
    BY <1>0, <1>4, <2>5 DEF Registry!Next
<1>5. QED
  BY <1>3, <1>4 DEF AddUser

(* The table learns of it later, which the registry does not see.          *)
LEMMA SetIsUnseen ==
  ASSUME SessionInv, UsersInv, PartingInv, NEW w \in Worker, SetUser(w)
  PROVE  UNCHANGED Session
<1>c. PICK c \in Conn : c = Client(w)
  BY ClientIs DEF SetUser
<1> DEFINE u == frame[w].arg
<1>0. /\ ProcessCommand(w) /\ Step(w) /\ OwnerTyped /\ In(w, "setUser")
      /\ c \in Conn /\ c = Client(w) /\ u \in User /\ frame \in [Worker -> Frame]
      /\ frame'[w].at = "idle"
  <2>1. ProcessCommand(w) /\ In(w, "setUser")
    BY DEF ProcessCommand, SessionCommand, SetUser
  <2>2. Step(w) /\ OwnerTyped
    BY <2>1, CommandStep, OwnerTypes
  <2>3. QED
    BY <2>1, <2>2, <1>c, Returns DEF SetUser, Step, Fits, OwnerTyped
<1>1. \A v \in Worker : v # w => frame'[v] = frame[v] /\ Client(v)' = Client(v)
  BY <1>0 DEF Step
<1>2. \A v \in Worker : v # w /\ ~In(v, "idle") => Client(v) # c
  BY <1>0, ClientsApart
<1>3. registered[c] = NULL
  BY <1>0, KnownAs DEF UsersInv, AccountsInv
<1>4. \A x \in User : SignedOn(c, x) <=> x = u /\ u \notin LongUser
  BY <1>0, <1>2, <1>3, IrcAssumption DEF SignedOn
<1>5. registered'[c] = IF u \in LongUser THEN NULL ELSE u
  BY <1>0, <1>3 DEF SetUser, OwnerTyped
<1>6. \A x \in User : SignedOn(c, x)' <=> x = u /\ u \notin LongUser
  BY <1>0, <1>1, <1>2, <1>5, IrcAssumption DEF SignedOn
<1>7. \A d \in Conn : d # c => Session'[d] = Session[d]
  BY <1>0, SessionOfOthers
<1>8. Session'[c] = Session[c]
  BY <1>4, <1>6 DEF Session
<1>9. QED
  BY <1>7, <1>8, SessionExcept

(* QUIT leaves when libirctad frees the user.                              *)
LEMMA QuitLeaves ==
  ASSUME SessionInv, UsersInv, PartingInv, NEW w \in Worker, QuitTad(w)
  PROVE  [Registry!Next]_(Registry!vars)
<1>c. PICK c \in Conn : c = Client(w)
  BY ClientIs DEF QuitTad
<1> DEFINE e == get_user(w)
<1>0. /\ ProcessCommand(w) /\ Step(w) /\ OwnerTyped /\ MemberTyped
      /\ c \in Conn /\ c = Client(w) /\ frame \in [Worker -> Frame] /\ In(w, "quitTad")
      /\ UNCHANGED <<registered, guarded>> /\ frame'[w].at = "quitUser"
  <2>1. ProcessCommand(w) /\ In(w, "quitTad")
    BY DEF ProcessCommand, SessionCommand, QuitTad
  <2>2. Step(w) /\ OwnerTyped /\ MemberTyped
    BY <2>1, CommandStep, OwnerTypes
  <2>3. QED
    BY <2>1, <2>2, <1>c, Moves DEF QuitTad, OwnerTyped, Label
<1>1. Session[c] = {e} \ {NULL}
  BY <1>0, SessionIs DEF UsersInv
<1>2. \A x \in User : ~SignedOn(c, x)'
  <2>1. \A v \in Worker : v # w /\ ~In(v, "idle") => Client(v) # c
    BY <1>0, ClientsApart
  <2>2. QED
    BY <1>0, <2>1 DEF Step, SignedOn
<1>3. Session' = [Session EXCEPT ![c] = {}]
  <2>1. \A d \in Conn : d # c => Session'[d] = Session[d]
    BY <1>0, SessionOfOthers
  <2>2. Session'[c] = {}
    BY <1>2 DEF Session
  <2>3. QED
    BY <2>1, <2>2, SessionExcept
<1>4. /\ account' = [v \in User |-> IF v \in Session[c] THEN NULL ELSE account[v]]
      /\ members' = [ch \in Channel |-> members[ch] \ Session[c]]
      /\ ops' = [ch \in Channel |-> ops[ch] \ Session[c]]
  <2>1. /\ \A v \in User : v = e <=> v \in Session[c]
        /\ \A ch \in Channel : /\ members[ch] \ {e} = members[ch] \ Session[c]
                               /\ ops[ch] \ {e} = ops[ch] \ Session[c]
    BY <1>1, IrcAssumption, OwnerTypes DEF MemberTyped
  <2>2. QED
    BY <2>1 DEF QuitTad
<1>5. CASE e = NULL
  <2>1. UNCHANGED <<Session, account, members, ops>>
    BY <1>0, <1>1, <1>3, <1>4, <1>5 DEF MemberTyped, NickTyped, Typed, Tables, Session
  <2>2. QED
    BY <1>0, <2>1 DEF Registry!vars
<1>6. CASE e # NULL
  <2>1. Registry!Leave(c)
    BY <1>0, <1>1, <1>3, <1>4, <1>6 DEF Registry!Leave
  <2>2. QED
    BY <1>0, <2>1 DEF Registry!Next
<1>7. QED
  BY <1>5, <1>6

(* The table forgets it later.                                             *)
LEMMA ForgetIsUnseen ==
  ASSUME SessionInv, NEW w \in Worker, QuitUser(w)
  PROVE  UNCHANGED Session
<1>c. PICK c \in Conn : c = Client(w)
  BY ClientIs DEF QuitUser
<1>0. /\ ProcessCommand(w) /\ Step(w) /\ OwnerTyped /\ In(w, "quitUser")
      /\ c \in Conn /\ c = Client(w) /\ frame \in [Worker -> Frame] /\ frame'[w].at = "quitNick"
  <2>1. ProcessCommand(w) /\ In(w, "quitUser")
    BY DEF ProcessCommand, SessionCommand, QuitUser
  <2>2. Step(w) /\ OwnerTyped
    BY <2>1, CommandStep, OwnerTypes
  <2>3. QED
    BY <2>1, <2>2, <1>c, Moves DEF QuitUser, OwnerTyped, Label
<1>1. \A v \in Worker : v # w /\ ~In(v, "idle") => Client(v) # c
  BY <1>0, ClientsApart
<1>2. \A x \in User : ~SignedOn(c, x)
  BY <1>0, <1>1 DEF SignedOn
<1>3. registered'[c] = NULL
  BY <1>0 DEF QuitUser, OwnerTyped
<1>4. \A x \in User : ~SignedOn(c, x)'
  BY <1>0, <1>1, <1>3, IrcAssumption DEF SignedOn, Step
<1>5. \A d \in Conn : d # c => Session'[d] = Session[d]
  BY <1>0, SessionOfOthers
<1>6. Session'[c] = Session[c]
  BY <1>2, <1>4 DEF Session
<1>7. QED
  BY <1>5, <1>6, SessionExcept


(* No other step of a command changes who is who.                          *)
LEMMA CommandStays ==
  ASSUME SessionInv, NEW w \in Worker, ProcessCommand(w),
         ~AddUser(w), ~SetUser(w), ~QuitTad(w), ~QuitUser(w)
  PROVE  UNCHANGED Session
<1>1. Step(w)
  BY CommandStep
<1>2. frame'[w].at \notin {"setUser", "quitUser"}
  BY <1>1 DEF Step, Arrives
<1>3. frame[w].at \notin {"setUser", "quitUser"}
  BY ActsAt
<1>4. UNCHANGED registered
  BY Writers
<1>5. \A v \in Worker : v # w => frame'[v] = frame[v] /\ Client(v)' = Client(v)
  BY <1>1 DEF Step
<1>6. QED
  BY <1>2, <1>3, <1>4, <1>5, SessionStays

(* NICK renames when libirctad takes the nick.                             *)
LEMMA ChangeRenames ==
  ASSUME SessionInv, UsersInv, PartingInv, NEW w \in Worker, ChangeNick(w)
  PROVE  [Registry!Next]_(Registry!vars)
<1>0. /\ ProcessCommand(w) /\ Step(w) /\ MemberTyped /\ In(w, "changeNick")
      /\ Client(w) \in Conn /\ Session[Client(w)] = {get_user(w)} \ {NULL}
      /\ UNCHANGED <<members, ops, guarded>>
  <2>1. /\ ProcessCommand(w) /\ In(w, "changeNick")
        /\ UNCHANGED <<members, ops, guarded>>
    BY DEF ProcessCommand, SessionCommand, ChangeNick
  <2>2. QED
    BY <2>1, CommandStep, OwnerTypes, ClientIs, SessionIs DEF UsersInv
<1>1. UNCHANGED Session
  <2>1. ~AddUser(w) /\ ~SetUser(w) /\ ~QuitTad(w) /\ ~QuitUser(w)
    BY <1>0 DEF AddUser, SetUser, QuitTad, QuitUser
  <2>2. QED
    BY <1>0, <2>1, CommandStays
<1>2. CASE UNCHANGED account
  BY <1>0, <1>1, <1>2 DEF Registry!vars
<1>3. CASE /\ get_user(w) # NULL /\ frame[w].arg # NULL /\ ~NickTaken(frame[w].arg)
           /\ account' = [account EXCEPT ![get_user(w)] = frame[w].arg]
  <2>1. frame[w].arg \in Nick
    BY <1>0, <1>3 DEF Step, Fits
  <2>2. Registry!Rename(Client(w), frame[w].arg)
    <3>1. get_user(w) \in User /\ get_user(w) \in Session[Client(w)]
      BY <1>0, <1>3 DEF MemberTyped, NickTyped, Typed, Tables, get_user, Step
    <3>2. QED
      BY <1>0, <1>1, <1>3, <3>1 DEF Registry!Rename, Registry!Free, NickTaken
  <2>3. QED
    BY <1>0, <2>1, <2>2 DEF Registry!Next
<1>4. QED
  BY <1>2, <1>3 DEF ChangeNick

(* JOIN and PART enter and leave when libirctad does.                      *)
LEMMA JoinJoins ==
  ASSUME SessionInv, UsersInv, PartingInv, NEW w \in Worker, Join(w) \/ Part(w)
  PROVE  [Registry!Next]_(Registry!vars)
<1>0. /\ ProcessCommand(w) /\ Step(w) /\ MemberTyped /\ frame[w].at \in {"join", "part"}
      /\ Client(w) \in Conn /\ Session[Client(w)] = {get_user(w)} \ {NULL}
      /\ get_user(w) \in User \cup {NULL} /\ frame[w].arg \in Channel
  <2>1. ProcessCommand(w) /\ frame[w].at \in {"join", "part"}
    BY DEF ProcessCommand, ChannelCommand, Join, Part
  <2>2. Step(w) /\ MemberTyped /\ Client(w) \in Conn /\ Socket(w) \in Fd
    BY <2>1, CommandStep, OwnerTypes, ClientIs
  <2>3. QED
    BY <2>1, <2>2, SessionIs
    DEF UsersInv, Step, Fits, get_user, MemberTyped, NickTyped, Typed, Tables
<1>1. UNCHANGED Session
  <2>1. ~AddUser(w) /\ ~SetUser(w) /\ ~QuitTad(w) /\ ~QuitUser(w)
    BY <1>0 DEF AddUser, SetUser, QuitTad, QuitUser
  <2>2. QED
    BY <1>0, <2>1, CommandStays
<1>2. CASE UNCHANGED tad
  BY <1>0, <1>1, <1>2 DEF Registry!vars
<1>3. CASE Join(w) /\ get_user(w) # NULL /\ Enters(get_user(w), frame[w].arg)
  <2>1. Session[Client(w)] = {get_user(w)}
    BY <1>0, <1>3
  <2>2. Registry!Join(Client(w), frame[w].arg)
    BY <1>1, <1>3, <2>1 DEF Enters, Registry!Join
  <2>3. QED
    BY <1>0, <2>2 DEF Registry!Next
<1>4. CASE /\ Part(w) /\ get_user(w) \in members[frame[w].arg]
           /\ Leaves(get_user(w), frame[w].arg)
  <2>1. Session[Client(w)] = {get_user(w)}
    BY <1>0, <1>4, IrcAssumption DEF MemberTyped
  <2>2. Registry!Part(Client(w), frame[w].arg)
    BY <1>1, <1>4, <2>1 DEF Leaves, Registry!Part, Registry!Without
  <2>3. QED
    BY <1>0, <2>2 DEF Registry!Next
<1>5. QED
  BY <1>2, <1>3, <1>4 DEF Join, Part

(* KICK and MODE act at one moment for a user who governs then.            *)
LEMMA KickKicks ==
  ASSUME SessionInv, UsersInv, PartingInv, NEW w \in Worker, KickUser(w) \/ SetMode(w)
  PROVE  [Registry!Next]_(Registry!vars)
<1> DEFINE ch == frame[w].arg
<1>0. /\ ProcessCommand(w) /\ Step(w) /\ MemberTyped
      /\ frame[w].at \in {"kickUser", "setMode"}
      /\ Client(w) \in Conn /\ Session[Client(w)] = {get_user(w)} \ {NULL}
      /\ ch \in Channel /\ ops[ch] \subseteq members[ch]
      /\ get_user(w) \in ops[ch]
  <2>1. ProcessCommand(w) /\ frame[w].at \in {"kickUser", "setMode"}
    BY DEF ProcessCommand, ChannelCommand, KickUser, SetMode
  <2>2. Step(w) /\ MemberTyped /\ Client(w) \in Conn /\ ch \in Channel
    BY <2>1, CommandStep, OwnerTypes, ClientIs DEF Step, Fits
  <2>3. get_user(w) \in ops[ch] /\ ops[ch] \subseteq members[ch]
    BY <2>1, <2>2 DEF UsersInv, MembersInv, ActsWithRight, IsOperator
  <2>4. QED
    BY <2>1, <2>2, <2>3, SessionIs DEF UsersInv
<1>1. UNCHANGED Session
  <2>1. ~AddUser(w) /\ ~SetUser(w) /\ ~QuitTad(w) /\ ~QuitUser(w)
    BY <1>0 DEF AddUser, SetUser, QuitTad, QuitUser
  <2>2. QED
    BY <1>0, <2>1, CommandStays
<1>2. Registry!Governs(Client(w), ch)
  BY <1>0, IrcAssumption DEF MemberTyped, Registry!Governs
<1>3. CASE KickUser(w)
  <2> DEFINE u == frame[w].opt
  <2>1. Leaves(u, ch)
    BY <1>3 DEF KickUser
  <2>2. CASE u \in members[ch]
    <3>1. Registry!Kick(Client(w), ch, u)
      BY <1>1, <1>2, <2>1, <2>2 DEF Leaves, Registry!Kick, Registry!Without
    <3>2. u \in User
      BY <1>0, <2>2 DEF MemberTyped
    <3>3. QED
      BY <1>0, <3>1, <3>2 DEF Registry!Next
  <2>3. CASE u \notin members[ch]
    <3>1. members[ch] \ {u} = members[ch] /\ ops[ch] \ {u} = ops[ch]
      BY <1>0, <2>3
    <3>2. UNCHANGED <<members, ops, account, guarded>>
      BY <1>0, <2>1, <3>1 DEF Leaves, MemberTyped
    <3>3. QED
      BY <1>1, <3>2 DEF Registry!vars
  <2>4. QED
    BY <2>2, <2>3
<1>4. CASE SetMode(w)
  <2>1. /\ guarded' \in {guarded \cup {ch}, guarded \ {ch}}
        /\ UNCHANGED <<account, members, ops>>
    BY <1>4 DEF SetMode
  <2>2. Registry!SetMode(Client(w), ch)
    BY <1>1, <1>2, <2>1 DEF Registry!SetMode
  <2>3. QED
    BY <1>0, <2>2 DEF Registry!Next
<1>5. QED
  BY <1>3, <1>4

(* Every step of the server is one of the registry or none.                *)
LEMMA NextRegisters ==
  SessionInv /\ UsersInv /\ PartingInv /\ [Next]_vars
    => [Registry!Next]_(Registry!vars)
<1> SUFFICES ASSUME SessionInv, UsersInv, PartingInv, [Next]_vars
             PROVE  [Registry!Next]_(Registry!vars)
  OBVIOUS
<1>1. ASSUME NEW w \in Worker, ProcessCommand(w)
      PROVE  [Registry!Next]_(Registry!vars)
  <2>1. CASE SetUser(w) \/ QuitUser(w)
    <3>1. UNCHANGED tad
      BY <2>1 DEF SetUser, QuitUser
    <3>2. QED
      BY <2>1, <3>1, SetIsUnseen, ForgetIsUnseen DEF Registry!vars
  <2>2. CASE /\ ~SetUser(w) /\ ~QuitUser(w) /\ ~AddUser(w) /\ ~QuitTad(w)
             /\ ~ChangeNick(w) /\ ~Join(w) /\ ~Part(w) /\ ~KickUser(w) /\ ~SetMode(w)
    <3>1. UNCHANGED <<account, members, ops, guarded>>
      BY <1>1, <2>2, OthersKeepTad DEF TadStep, Greet, SetTopic, SetAway
    <3>2. QED
      BY <1>1, <2>2, <3>1, CommandStays DEF Registry!vars
  <2>3. QED
    BY <2>1, <2>2, AddRegisters, QuitLeaves, ChangeRenames, JoinJoins, KickKicks
<1>2. CASE \A w \in Worker : ~ProcessCommand(w)
  <2>1. /\ UNCHANGED <<registered, tad>>
        /\ \A w \in Worker :
             IF In(w, "idle")
             THEN frame'[w].at \notin {"setUser", "quitUser", "quitRmv", "quitTad"}
             ELSE frame'[w] = frame[w] /\ Client(w)' = Client(w)
    BY <1>2, OthersAbide
  <2>2. UNCHANGED Session
    BY <2>1, SessionStays
  <2>3. QED
    BY <2>1, <2>2 DEF Registry!vars
<1>3. QED
  BY <1>1, <1>2

(* The IRC server is the registry of Directory: what its clients do to     *)
(* users, nicks, channels and rights happens in one step each, although    *)
(* the command takes many under several mutexes (irc.c:57, 256, 745, 852), *)
(* in every undisturbed run.                                               *)
THEOREM ServesRegistry == Spec /\ []Undisturbed => KeepsRegistry
<1>1. Init => PartingInv /\ Registry!Init
  <2> SUFFICES ASSUME Init PROVE PartingInv /\ Registry!Init
    OBVIOUS
  <2>1. \A w \in Worker : frame[w].at = "idle"
    BY IdleIs DEF Init, IrcInit
  <2>2. /\ \A c \in Conn : registered[c] = NULL
        /\ account = [u \in User |-> NULL]
        /\ members = [ch \in Channel |-> {}] /\ ops = [ch \in Channel |-> {}]
        /\ guarded = Guarded
    BY DEF Init, IrcInit, read_channels
  <2>3. \A c \in Conn, u \in User : ~SignedOn(c, u)
    BY <2>1, <2>2, IrcAssumption DEF SignedOn
  <2>4. QED
    BY <2>1, <2>2, <2>3 DEF PartingInv, Registry!Init, Session
<1>2. QED
  BY <1>1, NextParting, NextRegisters, SessionInvariance, UsersInvariance, PTL
  DEF Spec, KeepsRegistry, Registry!Spec

=============================================================================
