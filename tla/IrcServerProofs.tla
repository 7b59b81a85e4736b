---------------------------- MODULE IrcServerProofs ----------------------------
(***************************************************************************)
(* What holds in the IRC server for any number of clients, threads,        *)
(* descriptors, users, nicks and channels, and whatever well-formed        *)
(* commands are sent: every variable has its type, and nobody leaves a     *)
(* descriptor blocked.  The invariant is CallsInv of IrcServer.            *)
(***************************************************************************)
EXTENDS IrcServer, SequenceTheorems, WellFoundedInduction, TLAPS

USE DEF At, Goto, In, Move, kernel, sets, threads, loopState, workers,
        outside, tables, channels, tad

(* A set of descriptors has a lowest one.                                  *)
Less == {p \in Nat \X Nat : p[1] < p[2]}

(* The order of the descriptors has no endless descent.                    *)
LEMMA LessWellFounded == IsWellFoundedOn(Less, Nat)
BY NatLessThanWellFounded DEF OpToRel, Less

(* The searches of get_socketd_byuser and get_socketd_bynick find one of   *)
(* the descriptors they look for, or none.                                 *)
LEMMA LowestIn ==
  ASSUME NEW S \in SUBSET Fd
  PROVE  IF S = {} THEN Lowest(S) = 0 ELSE Lowest(S) \in S
<1>1. SUFFICES ASSUME S # {} PROVE Lowest(S) \in S
  BY DEF Lowest
<1>2. S \subseteq Nat
  BY ConnectionsAssumption DEF Fd
<1>3. PICK d \in S : \A e \in S : <<e, d>> \notin Less
  BY <1>1, <1>2, LessWellFounded, WFMin
<1>4. \A e \in S : d <= e
  <2>1. SUFFICES ASSUME NEW e \in S PROVE d <= e
    OBVIOUS
  <2>2. d \in Nat /\ e \in Nat /\ ~ (e < d)
    BY <1>2, <1>3 DEF Less
  <2>3. QED
    BY <2>2
<1>5. QED
  BY <1>1, <1>4 DEF Lowest

(* What a search finds is a descriptor or 0.                               *)
LEMMA SearchTypes ==
  /\ \A u : get_socketd_byuser(u) \in Descriptor \cup {0}
  /\ \A n : get_socketd_bynick(n) \in Descriptor \cup {0}
<1>1. Fd \subseteq Descriptor
  BY ConnectionsAssumption DEF Fd, Descriptor
<1>2. \A S \in SUBSET Fd : Lowest(S) \in Descriptor \cup {0}
  BY <1>1, LowestIn
<1>3. QED
  BY <1>2 DEF get_socketd_byuser, get_socketd_bynick

(* The labels whose steps take no argument of a kind of its own.           *)
FreeLabel == {"idle", "privmsg", "targets", "findNick", "findNickAgain",
              "sendPrivate", "relay", "relayBlock", "relayUnblock", "quit", "quitChannels",
              "quitClose", "quitRmv", "quitTad", "quitUser", "quitNick",
              "away", "setAway", "whois", "whoisChannels", "reply", "dead"}

(* A call at such a label fits whatever its arguments are.                 *)
LEMMA FitsAnyway ==
  ASSUME NEW call, call.at \in FreeLabel
  PROVE  Fits(call)
BY DEF FreeLabel, Fits

(* The conn_data of each worker.                                           *)
LEMMA Givens ==
  /\ Given(Loop) = rcvd /\ Given(Timer) = timed
  /\ \A t \in Thread : Given(t) = data[t] /\ t # Loop /\ t # Timer
BY IrcAssumption DEF Given

(* The same after a step.                                                  *)
LEMMA GivensNext ==
  /\ Given(Loop)' = rcvd' /\ Given(Timer)' = timed'
  /\ \A t \in Thread : Given(t)' = data'[t]
BY IrcAssumption DEF Given

(* process_command calls the function of a command with arguments of its   *)
(* kind.                                                                   *)
LEMMA Calls ==
  ASSUME NEW text \in Text
  PROVE  Call(text) \in Frame /\ Fits(Call(text)) /\ Call(text).cmd = text.cmd
<1>1. WellFormed(text)
  BY TextAssumption
<1>2. Entry[text.cmd] \in Label
  BY <1>1 DEF WellFormed, Command, Entry, Label
<1>3. /\ Entry[text.cmd] = "nick" <=> text.cmd = "NICK"
      /\ Entry[text.cmd] = "user" <=> text.cmd = "USER"
      /\ Entry[text.cmd] = "list" <=> text.cmd = "NAMES"
      /\ Entry[text.cmd] = "part" => text.cmd = "PART"
      /\ Entry[text.cmd] = "kick" => text.cmd = "KICK"
      /\ Entry[text.cmd] \in {"nick", "user", "join", "list", "privmsg", "part", "kick",
                              "topic", "mode", "away", "whois", "quit", "reply"}
      /\ Entry[text.cmd] \in {"join", "list", "part", "kick", "topic"}
           => text.cmd \in {"JOIN", "NAMES", "PART", "KICK", "TOPIC"}
      /\ Entry[text.cmd] = "mode" => text.cmd = "MODE"
  BY <1>1 DEF WellFormed, Command, Entry
<1>4. /\ Call(text).at = Entry[text.cmd] /\ Call(text).cmd = text.cmd
      /\ Call(text).arg = text.arg /\ Call(text).opt = text.opt
  BY DEF Call, Idle
<1>5. Call(text) \in Frame
  <2>1. Idle \in Frame
    BY DEF Idle, Frame, Label, Command
  <2>2. QED
    BY <1>1, <1>2, <2>1 DEF Call, WellFormed, Frame
<1>6. Fits(Call(text))
  <2>1. CASE Entry[text.cmd] \in {"nick", "user"}
    BY <1>1, <1>3, <1>4, <2>1 DEF WellFormed, Fits
  <2>2. CASE Entry[text.cmd] \in {"join", "list", "part", "kick", "topic"}
    BY <1>1, <1>3, <1>4, <2>2 DEF WellFormed, Fits
  <2>5. CASE Entry[text.cmd] = "mode"
    BY <1>1, <1>3, <1>4, <2>5 DEF WellFormed, Fits
  <2>3. CASE Entry[text.cmd] \in {"privmsg", "away", "whois", "quit", "reply"}
    BY <1>4, <2>3, FitsAnyway DEF FreeLabel
  <2>4. QED
    BY <1>3, <2>1, <2>2, <2>3, <2>5
<1>7. QED
  BY <1>4, <1>5, <1>6

(* The loop and the timeout thread call quit themselves.                   *)
LEMMA QuitCall ==
  Call(QuitNow) \in Frame /\ Call(QuitNow).at = "quit" /\ Fits(Call(QuitNow))
<1>1. Call(QuitNow) \in Frame /\ Call(QuitNow).at = "quit"
  BY DEF Call, QuitNow, Idle, Entry, Frame, Label, Command
<1>2. QED
  BY <1>1, FitsAnyway DEF FreeLabel

(* A frame that is replaced by another.                                    *)
LEMMA Replaces ==
  ASSUME frame \in [Worker -> Frame], NEW w \in Worker, NEW call \in Frame,
         Fits(call), frame' = [frame EXCEPT ![w] = call]
  PROVE  /\ frame' = [frame EXCEPT ![w] = frame'[w]]
         /\ frame'[w] \in Frame /\ Fits(frame'[w])
OBVIOUS

(* A frame at its next label.                                              *)
LEMMA Moves ==
  ASSUME frame \in [Worker -> Frame], NEW w \in Worker, NEW label \in Label,
         Move(w, label)
  PROVE  /\ frame' = [frame EXCEPT ![w] = frame'[w]]
         /\ frame'[w] \in Frame
         /\ frame'[w].at = label /\ frame'[w].cmd = frame[w].cmd
         /\ frame'[w].arg = frame[w].arg /\ frame'[w].opt = frame[w].opt
         /\ frame'[w].seen = frame[w].seen /\ frame'[w].rest = frame[w].rest
         /\ frame'[w].to = frame[w].to /\ frame'[w].chans = frame[w].chans
BY DEF Frame

(* A worker whose command is complete is idle.                             *)
LEMMA Returns ==
  ASSUME frame \in [Worker -> Frame], NEW w \in Worker, Return(w)
  PROVE  /\ frame' = [frame EXCEPT ![w] = frame'[w]]
         /\ frame'[w] \in Frame /\ frame'[w] = Idle /\ frame'[w].at = "idle"
         /\ Fits(frame'[w])
BY DEF Frame, Return, Idle, Fits, Label, Command

(* A step of IrcCommands replaces the frame of its own worker by one that  *)
(* fits its next step: a case for each function.                           *)
LEMMA SessionCall ==
  ASSUME CallsInv, NEW w \in Worker, SessionCommand(w)
  PROVE  /\ frame' = [frame EXCEPT ![w] = frame'[w]]
         /\ frame'[w] \in Frame /\ Fits(frame'[w])
<1>0. frame \in [Worker -> Frame] /\ frame[w] \in Frame /\ Fits(frame[w])
  BY DEF CallsInv, TypeOK, CallInv
<1>1. CASE AskRegistered(w)
  <2>1. PICK label \in {"setNick", "changeNick"} : Move(w, label)
    BY <1>1 DEF AskRegistered
  <2>2. /\ frame' = [frame EXCEPT ![w] = frame'[w]] /\ frame'[w] \in Frame
        /\ frame'[w].at = label /\ frame'[w].arg = frame[w].arg
    BY <1>0, <2>1, Moves DEF Label
  <2>3. frame[w].arg \in Nick \cup {NULL}
    BY <1>0, <1>1 DEF AskRegistered, Fits
  <2>4. QED
    BY <2>1, <2>2, <2>3 DEF Fits
<1>2. CASE ChangeNick(w)
  BY <1>0, <1>2, Moves, Returns DEF ChangeNick, Fits, Label
<1>3. CASE SetNick(w)
  BY <1>0, <1>3, Moves, Returns DEF SetNick, Fits, Label
<1>4. CASE CopyNick(w)
  BY <1>0, <1>4, Moves, Returns DEF CopyNick, Dies, Fits, Label
<1>5. CASE ReadNick(w)
  <2>1. nicks[Socket(w)] \in Nick \cup {NULL, Garbage}
    BY <1>5 DEF ReadNick, CallsInv, TypeOK, CallInv
  <2>2. frame' = [frame EXCEPT ![w] =
           [frame[w] EXCEPT !.seen = get_nick(w), !.at = "checkUser"]]
    BY <1>5 DEF ReadNick
  <2>3. QED
    BY <1>0, <1>5, <2>1, <2>2 DEF ReadNick, get_nick, Fits, Frame, Label
<1>6. CASE CheckUser(w)
  BY <1>0, <1>6, Moves, Returns DEF CheckUser, Fits, Label
<1>7. CASE AddUser(w)
  BY <1>0, <1>7, Moves, Returns DEF AddUser, Fits, Label
<1>8. CASE SetUser(w) \/ SendPrivate(w) \/ QuitNick(w)
  BY <1>0, <1>8, Returns DEF SetUser, SendPrivate, QuitNick
<1>9. CASE Relay(w)
  <2>1. CASE frame[w].rest = {}
    BY <1>0, <1>9, <2>1, Moves, Returns DEF Relay, Fits, Label
  <2>2. CASE frame[w].rest # {}
    <3>1. PICK u \in frame[w].rest :
            LET d == get_socketd_byuser(u)
                sends == ~ (SkipsSender(w) /\ d = Socket(w)) IN
            frame' = [frame EXCEPT ![w].rest = @ \ {u},
                                   ![w].to = IF sends THEN d ELSE @,
                                   ![w].at = IF sends THEN "relayBlock" ELSE @]
      BY <1>9, <2>2 DEF Relay
    <3>2. PICK d \in Descriptor \cup {0}, at \in {"relay", "relayBlock"} :
            frame' = [frame EXCEPT ![w].rest = @ \ {u}, ![w].to = d, ![w].at = at]
      <4>1. /\ get_socketd_byuser(u) \in Descriptor \cup {0}
            /\ frame[w].to \in Descriptor \cup {0}
        BY <1>0, SearchTypes DEF Frame
      <4>2. In(w, "relay")
        BY <1>9 DEF Relay
      <4>3. CASE SkipsSender(w) /\ get_socketd_byuser(u) = Socket(w)
        BY <3>1, <4>1, <4>2, <4>3
      <4>4. CASE ~ (SkipsSender(w) /\ get_socketd_byuser(u) = Socket(w))
        BY <3>1, <4>1, <4>4
      <4>5. QED
        BY <4>3, <4>4
    <3>3. frame[w].rest \ {u} \in SUBSET User
      BY <1>0 DEF Frame
    <3>4. frame' = [frame EXCEPT ![w] =
             [frame[w] EXCEPT !.rest = @ \ {u}, !.to = d, !.at = at]]
      BY <1>0, <3>2
    <3>5. [frame[w] EXCEPT !.rest = @ \ {u}, !.to = d, !.at = at] \in Frame
      BY <1>0, <3>2, <3>3 DEF Frame, Label
    <3>6. [frame[w] EXCEPT !.rest = @ \ {u}, !.to = d, !.at = at].at \in FreeLabel
      BY <1>0, <3>2 DEF Frame, FreeLabel
    <3>7. QED
      BY <1>0, <3>4, <3>5, <3>6, FitsAnyway, Replaces
  <2>3. QED
    BY <2>1, <2>2
<1>10. CASE RelayBlock(w) \/ RelayUnblock(w)
  BY <1>0, <1>10, Moves DEF RelayBlock, RelayUnblock, Fits, Label
<1>18. CASE Privmsg(w)
  <2>1. CASE Return(w)
    BY <1>0, <2>1, Returns
  <2>2. CASE Move(w, "targets")
    BY <1>0, <2>2, Moves DEF Fits, Label
  <2>3. QED
    BY <1>18, <2>1, <2>2 DEF Privmsg
<1>11. CASE ListTargets(w)
  <2>1. CASE frame[w].arg = NULL
    BY <1>0, <1>11, <2>1, Returns DEF ListTargets
  <2>2. CASE frame[w].arg # NULL
    <3>1. PICK at \in {"relay", "findNick"}, rest \in SUBSET User :
            frame' = [frame EXCEPT ![w].at = at, ![w].rest = rest]
      BY <1>11, <2>2 DEF ListTargets, CallsInv, TypeOK
    <3>2. frame' = [frame EXCEPT ![w] = [frame[w] EXCEPT !.at = at, !.rest = rest]]
      BY <1>0, <3>1
    <3>3. [frame[w] EXCEPT !.at = at, !.rest = rest] \in Frame
      BY <1>0, <3>1 DEF Frame, Label
    <3>4. [frame[w] EXCEPT !.at = at, !.rest = rest].at \in FreeLabel
      BY <1>0, <3>1 DEF Frame, FreeLabel
    <3>5. QED
      BY <1>0, <3>2, <3>3, <3>4, FitsAnyway, Replaces
  <2>3. QED
    BY <2>1, <2>2
<1>12. CASE FindNick(w)
  BY <1>0, <1>12, Moves, Returns DEF FindNick, Fits, Label
<1>13. CASE FindNickAgain(w)
  <2>1. get_socketd_bynick(frame[w].arg) \in Descriptor \cup {0}
    BY SearchTypes
  <2>2. QED
    BY <1>0, <1>13, <2>1 DEF FindNickAgain, Fits, Frame, Label
<1>14. CASE Quit(w)
  <2>1. PICK chans \in SUBSET Channel :
          frame' = [frame EXCEPT ![w].at = "quitChannels", ![w].chans = chans]
    BY <1>14 DEF Quit
  <2>2. [frame[w] EXCEPT !.at = "quitChannels", !.chans = chans] \in Frame
    BY <1>0, <2>1 DEF Frame, Label
  <2>3. [frame[w] EXCEPT !.at = "quitChannels", !.chans = chans].at \in FreeLabel
    BY <1>0 DEF Frame, FreeLabel
  <2>4. QED
    BY <1>0, <2>1, <2>2, <2>3, FitsAnyway, Replaces
<1>15. CASE QuitChannels(w)
  <2>1. CASE frame[w].chans = {}
    BY <1>0, <1>15, <2>1, Moves DEF QuitChannels, Fits, Label
  <2>2. CASE frame[w].chans # {}
    <3>1. PICK ch \in frame[w].chans :
            frame' = [frame EXCEPT ![w].chans = @ \ {ch},
                                   ![w].rest = members[ch], ![w].at = "relay"]
      BY <1>15, <2>2 DEF QuitChannels
    <3>2. frame[w].chans \ {ch} \in SUBSET Channel /\ members[ch] \in SUBSET User
      BY <1>0 DEF Frame, CallsInv, TypeOK
    <3>3. frame' = [frame EXCEPT ![w] =
             [frame[w] EXCEPT !.chans = @ \ {ch}, !.rest = members[ch], !.at = "relay"]]
      BY <1>0, <3>1
    <3>4. [frame[w] EXCEPT !.chans = @ \ {ch}, !.rest = members[ch], !.at = "relay"]
            \in Frame
      BY <1>0, <3>2 DEF Frame, Label
    <3>5. [frame[w] EXCEPT !.chans = @ \ {ch}, !.rest = members[ch], !.at = "relay"].at
            \in FreeLabel
      BY <1>0 DEF Frame, FreeLabel
    <3>6. QED
      BY <1>0, <3>3, <3>4, <3>5, FitsAnyway, Replaces
  <2>3. QED
    BY <2>1, <2>2
<1>16. CASE QuitClose(w) \/ QuitRmv(w) \/ QuitTad(w) \/ QuitUser(w)
  BY <1>0, <1>16, Moves DEF QuitClose, QuitRmv, QuitTad, QuitUser, Fits, Label
<1>17. QED
  BY <1>1, <1>2, <1>3, <1>4, <1>5, <1>6, <1>7, <1>8, <1>9, <1>10, <1>11, <1>12,
     <1>13, <1>14, <1>15, <1>16, <1>18 DEF SessionCommand

(* The same for a step of IrcChannels.                                     *)
LEMMA ChannelCall ==
  ASSUME CallsInv, NEW w \in Worker, ChannelCommand(w)
  PROVE  /\ frame' = [frame EXCEPT ![w] = frame'[w]]
         /\ frame'[w] \in Frame /\ Fits(frame'[w])
<1>0. frame \in [Worker -> Frame] /\ frame[w] \in Frame /\ Fits(frame[w])
  BY DEF CallsInv, TypeOK, CallInv
<1>1. CASE Join(w)
  <2>1. users[Socket(w)] \in User \cup {NULL}
    BY <1>1 DEF Join, CallsInv, TypeOK, CallInv
  <2>2. QED
    BY <1>0, <1>1, <2>1, Returns DEF Join, get_user, Fits, Frame, Label
<1>2. CASE ListUsers(w)
  <2>1. members[frame[w].arg] \in SUBSET User
    BY <1>0, <1>2 DEF ListUsers, Fits, CallsInv, TypeOK
  <2>2. PICK at \in {"names", "relay"} :
          /\ frame' = [frame EXCEPT ![w].rest = members[frame[w].arg], ![w].at = at]
          /\ at = "names" => frame[w].cmd \in {"JOIN", "NAMES"}
    BY <1>2 DEF ListUsers
  <2>3. frame' = [frame EXCEPT ![w] =
           [frame[w] EXCEPT !.rest = members[frame[w].arg], !.at = at]]
    BY <1>0, <2>2
  <2>4. [frame[w] EXCEPT !.rest = members[frame[w].arg], !.at = at] \in Frame
    <3>1. at \in Label
      BY <2>2 DEF Label
    <3>2. QED
      BY <1>0, <2>1, <3>1 DEF Frame
  <2>5. /\ frame'[w].at = at /\ frame'[w].cmd = frame[w].cmd
        /\ frame'[w].arg = frame[w].arg /\ frame'[w].seen = frame[w].seen
    BY <1>0, <2>3 DEF Frame
  <2>6. frame[w].arg \in Channel /\ (frame[w].cmd = "JOIN" => frame[w].seen \in User)
    BY <1>0, <1>2 DEF ListUsers, Fits
  <2>7. Fits(frame'[w])
    BY <2>2, <2>5, <2>6 DEF Fits
  <2>8. QED
    BY <1>0, <2>3, <2>4, <2>7
<1>3. CASE Names(w)
  <2>1. CASE frame[w].rest = {}
    BY <1>0, <1>3, <2>1, Returns DEF Names
  <2>2. CASE frame[w].rest # {}
    <3>1. PICK v \in frame[w].rest :
            \/ Dies(w)
            \/ frame' = [frame EXCEPT
                    ![w].rest = @ \ {v},
                    ![w].opt = IF frame[w].cmd = "JOIN" THEN v ELSE @,
                    ![w].at = IF frame[w].cmd = "JOIN" THEN "greet" ELSE @]
      BY <1>3, <2>2 DEF Names
    <3>2. frame[w].rest \ {v} \in SUBSET User /\ v \in User
      BY <1>0 DEF Frame
    <3>3. CASE Dies(w)
      BY <1>0, <3>3, Moves DEF Dies, Fits, Label
    <3>4. CASE frame[w].cmd = "JOIN"
               /\ frame' = [frame EXCEPT ![w].rest = @ \ {v}, ![w].opt = v,
               ![w].at = "greet"]
      <4>1. frame' = [frame EXCEPT ![w] =
               [frame[w] EXCEPT !.rest = @ \ {v}, !.opt = v, !.at = "greet"]]
        BY <1>0, <3>4
      <4>2. [frame[w] EXCEPT !.rest = @ \ {v}, !.opt = v, !.at = "greet"] \in Frame
        BY <1>0, <3>2 DEF Frame, Label
      <4>3. /\ frame'[w].at = "greet" /\ frame'[w].opt = v
            /\ frame'[w].cmd = frame[w].cmd /\ frame'[w].arg = frame[w].arg
            /\ frame'[w].seen = frame[w].seen
        BY <1>0, <4>1 DEF Frame
      <4>4. frame[w].arg \in Channel /\ frame[w].seen \in User
        BY <1>0, <1>3, <3>4 DEF Names, Fits
      <4>5. Fits(frame'[w])
        BY <3>2, <3>4, <4>3, <4>4 DEF Fits
      <4>6. QED
        BY <1>0, <4>1, <4>2, <4>5
    <3>5. CASE frame[w].cmd # "JOIN" /\ frame' = [frame EXCEPT ![w].rest = @ \ {v}]
      <4>1. frame' = [frame EXCEPT ![w] = [frame[w] EXCEPT !.rest = @ \ {v}]]
        BY <1>0, <3>5
      <4>2. [frame[w] EXCEPT !.rest = @ \ {v}] \in Frame
        BY <1>0, <3>2 DEF Frame
      <4>3. /\ frame'[w].at = frame[w].at /\ frame'[w].opt = frame[w].opt
            /\ frame'[w].cmd = frame[w].cmd /\ frame'[w].arg = frame[w].arg
            /\ frame'[w].seen = frame[w].seen
        BY <1>0, <4>1 DEF Frame
      <4>4. Fits(frame'[w])
        BY <1>0, <4>3 DEF Fits
      <4>5. QED
        BY <1>0, <4>1, <4>2, <4>4
    <3>6. frame[w].cmd # "JOIN" /\ ~Dies(w) => frame' = [frame EXCEPT ![w].rest = @ \ {v}]
      BY <1>0, <3>1
    <3>7. QED
      BY <3>1, <3>3, <3>4, <3>5, <3>6
  <2>3. QED
    BY <2>1, <2>2
<1>10. CASE Greet(w)
  <2>1. /\ frame' = [frame EXCEPT ![w] = frame'[w]] /\ frame'[w] \in Frame
        /\ frame'[w].at = "names" /\ frame'[w].cmd = frame[w].cmd
        /\ frame'[w].arg = frame[w].arg /\ frame'[w].seen = frame[w].seen
    BY <1>0, <1>10, Moves DEF Greet, Label
  <2>2. frame[w].cmd = "JOIN" /\ frame[w].arg \in Channel /\ frame[w].seen \in User
    BY <1>0, <1>10 DEF Greet, Fits
  <2>3. QED
    BY <2>1, <2>2 DEF Fits
<1>4. CASE Part(w) \/ Kick(w) \/ KickUser(w)
  <2>1. /\ Fits(frame[w]) /\ frame[w].at \in {"part", "kick", "kickUser"}
        /\ frame[w].cmd # "JOIN"
    BY <1>0, <1>4 DEF Part, Kick, KickUser, Fits
  <2>2. CASE Return(w)
    BY <1>0, <2>2, Returns
  <2>3. ASSUME NEW label \in {"list", "kickUser"}, Move(w, label),
               label = "kickUser" => frame[w].at = "kick"
        PROVE  /\ frame' = [frame EXCEPT ![w] = frame'[w]]
               /\ frame'[w] \in Frame /\ Fits(frame'[w])
    <3>1. /\ frame' = [frame EXCEPT ![w] = frame'[w]] /\ frame'[w] \in Frame
          /\ frame'[w].at = label /\ frame'[w].arg = frame[w].arg
          /\ frame'[w].cmd = frame[w].cmd
      BY <1>0, <2>3, Moves DEF Label
    <3>2. frame[w].arg \in Channel /\ (label = "kickUser" => frame[w].cmd = "KICK")
      BY <2>1, <2>3 DEF Fits
    <3>3. QED
      BY <2>1, <2>3, <3>1, <3>2 DEF Fits
  <2>4. QED
    BY <1>4, <2>2, <2>3 DEF Part, Kick, KickUser
<1>5. CASE AskTopicRight(w)
  BY <1>0, <1>5 DEF AskTopicRight, IsOperator, Fits, Frame, Label
<1>6. CASE AskTopicMode(w)
  BY <1>0, <1>6, Moves, Returns DEF AskTopicMode, Fits, Label
<1>11. CASE Mode(w)
  BY <1>0, <1>11, Moves, Returns DEF Mode, Fits, Label
<1>12. CASE AskModeRight(w)
  <2>1. CASE Return(w)
    BY <1>0, <2>1, Returns
  <2>2. CASE Move(w, "setMode") /\ frame[w].arg \in Channel
    <3>1. /\ frame' = [frame EXCEPT ![w] = frame'[w]] /\ frame'[w] \in Frame
          /\ frame'[w].at = "setMode" /\ frame'[w].arg = frame[w].arg
      BY <1>0, <2>2, Moves DEF Label
    <3>2. QED
      BY <2>2, <3>1 DEF Fits
  <2>3. QED
    BY <1>12, <2>1, <2>2 DEF AskModeRight
<1>13. CASE Whois(w) \/ WhoisChannels(w)
  <2>1. CASE Return(w)
    BY <1>0, <2>1, Returns
  <2>2. CASE Move(w, "whoisChannels") \/ Move(w, "dead")
    BY <1>0, <2>2, Moves, FitsAnyway DEF Label, FreeLabel
  <2>3. QED
    BY <1>13, <2>1, <2>2 DEF Whois, WhoisChannels, Dies
<1>7. CASE SetTopic(w) \/ SetMode(w) \/ SetAway(w) \/ List(w) \/ Ping(w)
  BY <1>0, <1>7, Returns DEF SetTopic, SetMode, SetAway, List, Ping, Answers
<1>8. CASE AskAway(w)
  BY <1>0, <1>8 DEF AskAway, Fits, Frame, Label
<1>9. QED
  BY <1>1, <1>2, <1>3, <1>4, <1>5, <1>6, <1>7, <1>8, <1>10, <1>11, <1>12, <1>13
     DEF ChannelCommand

(* A step of a command replaces the command's own frame by one that fits   *)
(* its next step.                                                          *)
LEMMA CommandCall ==
  ASSUME CallsInv, NEW w \in Worker, ProcessCommand(w)
  PROVE  /\ frame' = [frame EXCEPT ![w] = frame'[w]]
         /\ frame'[w] \in Frame /\ Fits(frame'[w])
BY SessionCall, ChannelCall DEF ProcessCommand

(* Whom it works for does not change, nor does what only the loop writes,  *)
(* except that the loop goes on when its own quit is complete.             *)
LEMMA CommandKeeps ==
  ASSUME NEW w, ProcessCommand(w)
  PROVE  /\ UNCHANGED <<peer, backlog, inbox, sent, readable, threads, timed,
                        acceptd, rcvd, i>>
         /\ \/ UNCHANGED main
            \/ w = Loop /\ main' = "close" /\ frame' = [frame EXCEPT ![w] = Idle]
<1>1. CASE SessionCommand(w)
  BY <1>1 DEF SessionCommand, AskRegistered, ChangeNick, SetNick, CopyNick, ReadNick,
     CheckUser, AddUser, SetUser, Relay, RelayBlock, RelayUnblock, Privmsg, ListTargets,
     FindNick,
     FindNickAgain, SendPrivate, Quit, QuitChannels, QuitClose, QuitRmv, QuitTad,
     QuitUser, QuitNick, Dies, Return
<1>2. CASE ChannelCommand(w)
  BY <1>2 DEF ChannelCommand, Join, ListUsers, Names, Greet, Part, Kick, KickUser,
     AskTopicRight, AskTopicMode, SetTopic, Mode, AskModeRight, SetMode, AskAway,
     SetAway, List,
     Whois, WhoisChannels, Ping, Answers, Dies, Return
<1>3. QED
  BY <1>1, <1>2 DEF ProcessCommand

(* Who writes the tables.                                                  *)
TableStep(w) ==
  SetNick(w) \/ CopyNick(w) \/ SetUser(w) \/ QuitUser(w) \/ QuitNick(w)

(* No other step changes a table.                                          *)
LEMMA OthersKeepTables ==
  ASSUME NEW w, ProcessCommand(w), ~ TableStep(w)
  PROVE  UNCHANGED <<tables, registered>>
BY DEF TableStep, ProcessCommand,
     SessionCommand, AskRegistered, ChangeNick, SetNick, CopyNick, ReadNick,
     CheckUser, AddUser, SetUser, Relay, RelayBlock, RelayUnblock, Privmsg, ListTargets,
     FindNick,
     FindNickAgain, SendPrivate, Quit, QuitChannels, QuitClose, QuitRmv, QuitTad,
     QuitUser, QuitNick, 
     ChannelCommand, Join, ListUsers, Names, Greet, Part, Kick, KickUser,
     AskTopicRight, AskTopicMode, SetTopic, Mode, AskModeRight, SetMode, AskAway,
     SetAway, List,
     Whois, WhoisChannels, Ping, Answers

(* Who calls libirctad to change something.                                *)
TadStep(w) ==
  \/ ChangeNick(w) \/ AddUser(w) \/ QuitTad(w)
  \/ Join(w) \/ Greet(w) \/ Part(w) \/ KickUser(w)
  \/ SetTopic(w) \/ SetMode(w) \/ SetAway(w)

(* No other step changes what libirctad keeps.                             *)
LEMMA OthersKeepTad ==
  ASSUME NEW w, ProcessCommand(w), ~ TadStep(w)
  PROVE  UNCHANGED tad
BY DEF TadStep, ProcessCommand,
     SessionCommand, AskRegistered, SetNick, CopyNick, ReadNick,
     CheckUser, SetUser, Relay, RelayBlock, RelayUnblock, Privmsg, ListTargets, FindNick,
     FindNickAgain, SendPrivate, Quit, QuitChannels, QuitClose, QuitRmv,
     QuitUser, QuitNick, 
     ChannelCommand, ListUsers, Names, Kick,
     AskTopicRight, AskTopicMode, Mode, AskModeRight, AskAway, List, Whois,
     WhoisChannels, Ping, Answers

(* Who touches a descriptor or a set.                                      *)
SocketStep(w) == QuitClose(w) \/ QuitRmv(w) \/ RelayBlock(w) \/ RelayUnblock(w)

(* No other step closes or unblocks a descriptor.                          *)
LEMMA OthersKeepSockets ==
  ASSUME NEW w, ProcessCommand(w), ~ SocketStep(w)
  PROVE  UNCHANGED <<owner, connections, blocked>>
BY DEF SocketStep, ProcessCommand,
     SessionCommand, AskRegistered, ChangeNick, SetNick, CopyNick, ReadNick,
     CheckUser, AddUser, SetUser, Relay, Privmsg, ListTargets, FindNick,
     FindNickAgain, SendPrivate, Quit, QuitChannels, QuitTad,
     QuitUser, QuitNick, 
     ChannelCommand, Join, ListUsers, Names, Greet, Part, Kick, KickUser,
     AskTopicRight, AskTopicMode, SetTopic, Mode, AskModeRight, SetMode, AskAway,
     SetAway, List,
     Whois, WhoisChannels, Ping, Answers

(* The tables keep their types through every step of a command.            *)
LEMMA TablesTyped ==
  ASSUME CallsInv, NEW w \in Worker, ProcessCommand(w)
  PROVE  /\ users' \in [Fd -> User \cup {NULL}]
         /\ nicks' \in [Fd -> Nick \cup {NULL, Garbage}]
         /\ registered' \in [Conn -> User \cup {NULL}]
<1>0. /\ users \in [Fd -> User \cup {NULL}]
      /\ nicks \in [Fd -> Nick \cup {NULL, Garbage}]
      /\ registered \in [Conn -> User \cup {NULL}]
      /\ Fits(frame[w])
  BY DEF CallsInv, TypeOK, CallInv
<1>1. CASE SetNick(w)
  BY <1>0, <1>1 DEF SetNick
<1>2. CASE CopyNick(w)
  BY <1>0, <1>2 DEF CopyNick, Fits
<1>3. CASE SetUser(w)
  BY <1>0, <1>3 DEF SetUser, Fits
<1>4. CASE QuitUser(w) \/ QuitNick(w)
  BY <1>0, <1>4 DEF QuitUser, QuitNick
<1>5. CASE ~ TableStep(w)
  BY <1>0, <1>5, OthersKeepTables
<1>6. QED
  BY <1>1, <1>2, <1>3, <1>4, <1>5 DEF TableStep

(* A channel that somebody leaves or enters keeps its type.                *)
ChannelTypes ==
  /\ account \in [User -> Nick \cup {NULL}]
  /\ away \in SUBSET User
  /\ members \in [Channel -> SUBSET User]
  /\ ops \in [Channel -> SUBSET User]
  /\ guarded \in SUBSET Channel
  /\ topic \in [Channel -> User \cup {NULL}]
  /\ roster \in [Channel -> [User -> SUBSET User]]

(* PART and KICK keep the types of a channel.                              *)
LEMMA LeavesTyped ==
  ASSUME ChannelTypes, NEW u, NEW ch, Leaves(u, ch)
  PROVE  ChannelTypes'
<1>1. members' \in [Channel -> SUBSET User]
  BY DEF ChannelTypes, Leaves
<1>2. ops' \in [Channel -> SUBSET User]
  BY DEF ChannelTypes, Leaves
<1>3. QED
  BY <1>1, <1>2 DEF ChannelTypes, Leaves

(* JOIN keeps the types of a channel.                                      *)
LEMMA EntersTyped ==
  ASSUME ChannelTypes, NEW u \in User, NEW ch \in Channel, Enters(u, ch)
  PROVE  ChannelTypes'
<1>1. members' \in [Channel -> SUBSET User]
  BY DEF ChannelTypes, Enters
<1>2. ops' \in [Channel -> SUBSET User]
  BY DEF ChannelTypes, Enters
<1>3. roster' \in [Channel -> [User -> SUBSET User]]
  <2>1. roster[ch][u] \in SUBSET User
    BY DEF ChannelTypes
  <2>2. PICK told \in SUBSET User :
          roster' = [roster EXCEPT ![ch] = [roster[ch] EXCEPT ![u] = told]]
    BY <2>1 DEF Enters
  <2>3. [roster[ch] EXCEPT ![u] = told] \in [User -> SUBSET User]
    BY DEF ChannelTypes
  <2>4. QED
    BY <2>2, <2>3 DEF ChannelTypes
<1>4. QED
  BY <1>1, <1>2, <1>3 DEF ChannelTypes, Enters

(* What libirctad keeps has its type after every step of a command.        *)
LEMMA TadTyped ==
  ASSUME CallsInv, NEW w \in Worker, ProcessCommand(w)
  PROVE  ChannelTypes'
<1>0. /\ ChannelTypes
      /\ Fits(frame[w]) /\ frame[w] \in Frame
      /\ ~In(w, "idle") => get_user(w) \in User \cup {NULL}
  BY DEF CallsInv, TypeOK, CallInv, get_user, ChannelTypes
<1>1. CASE ChangeNick(w)
  BY <1>0, <1>1 DEF ChangeNick, Fits, ChannelTypes
<1>2. CASE AddUser(w)
  BY <1>0, <1>2 DEF AddUser, Fits, ChannelTypes
<1>3. CASE QuitTad(w)
  BY <1>0, <1>3 DEF QuitTad, ChannelTypes
<1>4. CASE Join(w)
  <2>1. UNCHANGED tad \/ \E u \in User : Enters(u, frame[w].arg)
    BY <1>0, <1>4 DEF Join
  <2>2. In(w, "join") => frame[w].arg \in Channel
    BY <1>0 DEF Fits
  <2>3. QED
    BY <1>0, <1>4, <2>1, <2>2, EntersTyped DEF ChannelTypes, Join
<1>5. CASE Greet(w)
  <2>1. /\ frame[w].seen \in User /\ frame[w].arg \in Channel
        /\ frame[w].opt \in User
    BY <1>0, <1>5 DEF Greet, Fits
  <2>2. [x \in User |-> roster[frame[w].arg][x]
            \cup (IF x = frame[w].seen THEN {frame[w].opt} ELSE {})
            \cup (IF x = frame[w].opt /\ get_socketd_byuser(frame[w].opt) # 0
                  THEN {frame[w].seen} ELSE {})]
          \in [User -> SUBSET User]
    <3>1. \A x \in User : roster[frame[w].arg][x] \in SUBSET User
      BY <1>0, <2>1 DEF ChannelTypes
    <3>2. QED
      BY <2>1, <3>1
  <2>3. roster' \in [Channel -> [User -> SUBSET User]]
    BY <1>0, <1>5, <2>1, <2>2 DEF Greet, ChannelTypes
  <2>4. QED
    BY <1>0, <1>5, <2>3 DEF Greet, ChannelTypes
<1>6. CASE Part(w) \/ KickUser(w)
  <2>1. UNCHANGED tad \/ \E u : Leaves(u, frame[w].arg)
    BY <1>6 DEF Part, KickUser
  <2>2. QED
    BY <1>0, <2>1, LeavesTyped DEF ChannelTypes
<1>7. CASE SetTopic(w) \/ SetMode(w) \/ SetAway(w)
  BY <1>0, <1>7 DEF SetTopic, SetMode, SetAway, Fits, ChannelTypes
<1>8. CASE ~ TadStep(w)
  BY <1>0, <1>8, OthersKeepTad DEF ChannelTypes
<1>9. QED
  BY <1>1, <1>2, <1>3, <1>4, <1>5, <1>6, <1>7, <1>8 DEF TadStep

(* So have the descriptors and the sets.                                   *)
LEMMA SocketsTyped ==
  ASSUME CallsInv, NEW w \in Worker, ProcessCommand(w)
  PROVE  /\ owner' \in [Fd -> Conn \cup {NoConn}]
         /\ connections' \in SUBSET Descriptor
         /\ blocked' \in SUBSET (Descriptor \cup {0})
<1>0. /\ owner \in [Fd -> Conn \cup {NoConn}]
      /\ connections \in SUBSET Descriptor
      /\ blocked \in SUBSET (Descriptor \cup {0})
      /\ frame[w].to \in Descriptor \cup {0}
  BY DEF CallsInv, TypeOK, Frame
<1>1. CASE SocketStep(w)
  BY <1>0, <1>1 DEF SocketStep, QuitClose, QuitRmv, RelayBlock, RelayUnblock,
     tcpsocket_close, connection_rmv, connection_block, connection_unblock
<1>2. CASE ~ SocketStep(w)
  BY <1>0, <1>2, OthersKeepSockets
<1>3. QED
  BY <1>1, <1>2

(* A command that is under way is at one of its labels.                    *)
LEMMA CommandAt ==
  ASSUME NEW w, ProcessCommand(w)
  PROVE  ~ In(w, "idle") /\ ~ In(w, "dead")
BY DEF ProcessCommand,
     SessionCommand, AskRegistered, ChangeNick, SetNick, CopyNick, ReadNick,
     CheckUser, AddUser, SetUser, Relay, RelayBlock, RelayUnblock, Privmsg, ListTargets,
     FindNick,
     FindNickAgain, SendPrivate, Quit, QuitChannels, QuitClose, QuitRmv, QuitTad,
     QuitUser, QuitNick,
     ChannelCommand, Join, ListUsers, Names, Greet, Part, Kick, KickUser,
     AskTopicRight, AskTopicMode, SetTopic, Mode, AskModeRight, SetMode, AskAway,
     SetAway, List,
     Whois, WhoisChannels, Ping, Answers

(* A step of a command keeps the invariant.                                *)
LEMMA CommandInv ==
  ASSUME CallsInv, NEW w \in Worker, ProcessCommand(w), w = Loop => At("disconnect")
  PROVE  CallsInv'
<1>1. /\ frame' = [frame EXCEPT ![w] = frame'[w]]
      /\ frame'[w] \in Frame /\ Fits(frame'[w])
  BY CommandCall
<1>2. TypeOK'
  <2>1. frame' \in [Worker -> Frame]
    BY <1>1 DEF CallsInv, TypeOK
  <2>2. main' \in MainState
    BY CommandKeeps DEF CallsInv, TypeOK, MainState
  <2>3. QED
    BY <2>1, <2>2, CommandKeeps, TablesTyped, TadTyped, SocketsTyped
    DEF CallsInv, TypeOK, ChannelTypes
<1>3. CallInv'
  <2>1. \A v \in Worker : Given(v)' = Given(v)
    BY CommandKeeps DEF Given
  <2>2. ~ In(w, "idle")
    BY CommandAt
  <2>3. \A v \in Worker : Fits(frame'[v])
    BY <1>1 DEF CallsInv, CallInv, TypeOK
  <2>4. \A v \in Worker : frame'[v].at # "idle" => frame[v].at # "idle"
    BY <1>1, <2>2 DEF CallsInv, TypeOK
  <2>5. QED
    BY <2>1, <2>3, <2>4 DEF CallsInv, CallInv, Socket
<1>4. ServedInv'
  <2>1. \A v \in Worker \ {w} : frame'[v] = frame[v]
    BY <1>1 DEF CallsInv, TypeOK
  <2>2. \/ UNCHANGED <<main, i, rcvd>>
        \/ /\ w = Loop /\ main' = "close" /\ UNCHANGED <<i, rcvd>>
           /\ frame'[Loop].at = "idle"
    BY CommandKeeps DEF CallsInv, TypeOK, Idle, Worker
  <2>3. \A t \in Thread : pc'[t] = pc[t] /\ data'[t] = data[t]
    BY CommandKeeps
  <2>4. \A t \in Thread : t = w => pc[t] # "free"
    BY CommandAt DEF CallsInv, ServedInv
  <2>5. \A t \in Thread : IF pc'[t] = "free" THEN frame'[t].at = "idle"
                                            ELSE data'[t].socketd \in Fd
    BY <2>1, <2>3, <2>4 DEF CallsInv, ServedInv, Worker
  <2>6. frame'[Loop].at = "idle" \/ main' = "disconnect"
    <3>1. CASE w = Loop
      BY <2>2, <3>1
    <3>2. CASE w # Loop
      BY <2>1, <2>2, <3>2 DEF CallsInv, ServedInv, Worker
    <3>3. QED
      BY <3>1, <3>2
  <2>7. QED
    BY <2>2, <2>5, <2>6 DEF CallsInv, ServedInv
<1>5. QED
  BY <1>2, <1>3, <1>4 DEF CallsInv

-----------------------------------------------------------------------------
(* The loop, the handlers and the clients *)

(* The descriptors of clients are those above the listening one.           *)
LEMMA ConstantsType ==
  /\ Listener \in Descriptor /\ Fd \subseteq Descriptor
  /\ Descriptor \subseteq Nat /\ Listener \notin Fd /\ 0 \notin Fd
  /\ Descriptor = Fd \cup {Listener}
  /\ NoData \in Data
BY ConnectionsAssumption, IrcAssumption DEF Descriptor, Fd, NoData, Data

(* Leaving the descriptor the loop is at keeps the loop's types.           *)
LEMMA NextDescriptorType ==
  ASSUME i \in Descriptor, NextDescriptor
  PROVE  i' \in Descriptor /\ main' \in {"scan", "copy"}
BY ConnectionsAssumption DEF NextDescriptor, Descriptor

(* The server starts in the invariant.                                     *)
LEMMA InitCalls == Init => CallsInv
<1> SUFFICES ASSUME Init PROVE CallsInv
  OBVIOUS
<1>1. Idle \in Frame /\ Idle.at = "idle"
  BY DEF Idle, Frame, Label, Command
<1>2. TypeOK
  <2>1. frame \in [Worker -> Frame]
    BY <1>1 DEF Init, IrcInit
  <2>2. QED
    BY <2>1, ConstantsType, ConnectionsAssumption, IrcAssumption
    DEF Init, ServerInit, ConnectionsInit, IrcInit, read_channels, TypeOK, PeerState,
        MainState, HandlerState
<1>3. CallInv
  BY <1>1, FitsAnyway DEF Init, IrcInit, CallInv, FreeLabel
<1>4. ServedInv
  BY <1>1 DEF Init, ServerInit, IrcInit, ServedInv, Worker
<1>5. QED
  BY <1>2, <1>3, <1>4 DEF CallsInv

(* A client's step keeps every type.                                       *)
LEMMA ClientsInv ==
  ASSUME CallsInv, Clients,
         UNCHANGED <<sets, workers, loopState, tables, tad, frame, registered>>
  PROVE  CallsInv'
<1>0. TypeOK
  BY DEF CallsInv
<1>1. PICK c \in Conn : \/ Connect(c) \/ ClientSend(c)
                        \/ ClientShutdown(c) \/ ClientReset(c)
  BY DEF Clients
<1>2. /\ peer' \in [Conn -> PeerState] /\ backlog' \in Seq(Conn)
      /\ owner' = owner
      /\ inbox' \in [Conn -> Seq(Text)] /\ sent' \in [Conn -> Seq(Text)]
  <2>1. CASE Connect(c)
    BY <1>0, <2>1 DEF Connect, TypeOK, PeerState
  <2>2. CASE ClientSend(c)
    <3>1. PICK said \in Traffic[c] :
            /\ Len(sent[c]) < Len(said)
            /\ sent' = [sent EXCEPT ![c] = said]
            /\ inbox' = [inbox EXCEPT
                           ![c] = @ \o SubSeq(said, Len(sent[c]) + 1, Len(said))]
      BY <2>2 DEF ClientSend
    <3>2. said \in Seq(Text)
      BY ConnectionsAssumption
    <3>3. SubSeq(said, Len(sent[c]) + 1, Len(said)) \in Seq(Text)
      BY <1>0, <3>1, <3>2, LenProperties, SubSeqProperties DEF TypeOK
    <3>4. inbox[c] \o SubSeq(said, Len(sent[c]) + 1, Len(said)) \in Seq(Text)
      BY <1>0, <3>3, ConcatProperties DEF TypeOK
    <3>5. QED
      BY <1>0, <2>2, <3>1, <3>2, <3>4 DEF ClientSend, TypeOK
  <2>3. CASE ClientShutdown(c) \/ ClientReset(c)
    BY <1>0, <2>3 DEF ClientShutdown, ClientReset, TypeOK, PeerState
  <2>4. QED
    BY <1>1, <2>1, <2>2, <2>3
<1>3. TypeOK'
  BY <1>0, <1>2 DEF TypeOK
<1>4. CallInv' /\ ServedInv'
  BY DEF CallsInv, CallInv, ServedInv, Socket, Given
<1>5. QED
  BY <1>3, <1>4 DEF CallsInv

(* What the loop keeps while it goes from one step to the next.            *)
LoopTypes ==
  /\ peer \in [Conn -> PeerState]
  /\ backlog \in Seq(Conn)
  /\ owner \in [Fd -> Conn \cup {NoConn}]
  /\ inbox \in [Conn -> Seq(Text)]
  /\ sent \in [Conn -> Seq(Text)]
  /\ connections \in SUBSET Descriptor
  /\ readable \in SUBSET Descriptor
  /\ blocked \in SUBSET (Descriptor \cup {0})
  /\ pc \in [Thread -> HandlerState]
  /\ data \in [Thread -> Data]
  /\ main \in MainState
  /\ i \in Descriptor
  /\ acceptd \in Descriptor
  /\ rcvd \in Data

(* Every step of server_launch keeps the types of what it writes.          *)
LEMMA MainLoopTypes ==
  ASSUME LoopTypes, MainLoop
  PROVE  LoopTypes'
<1> USE ConstantsType, NextDescriptorType DEF LoopTypes, MainState
<1>1. CASE CopyConnections \/ Select \/ Scan
  BY <1>1 DEF CopyConnections, Select, Scan
<1>2. CASE Accept
  <2>1. Head(backlog) \in Conn /\ Tail(backlog) \in Seq(Conn)
    BY <1>2, HeadTailProperties, EmptySeq DEF Accept
  <2>2. QED
    BY <1>2, <2>1 DEF Accept
<1>3. CASE AddAccepted
  BY <1>3 DEF AddAccepted, connection_add
<1>4. CASE ReceiveData
  <2>1. owner[i] \in Conn
    BY <1>4 DEF ReceiveData, Open
  <2>2. PICK n \in 1 .. Len(inbox[owner[i]]) :
          /\ rcvd' = [socketd |-> i, conn |-> owner[i],
                      msg |-> SubSeq(inbox[owner[i]], 1, n)]
          /\ inbox' = [inbox EXCEPT ![owner[i]] = SubSeq(@, n + 1, Len(@))]
    BY <1>4 DEF ReceiveData
  <2>3. /\ SubSeq(inbox[owner[i]], 1, n) \in Seq(Text)
        /\ SubSeq(inbox[owner[i]], n + 1, Len(inbox[owner[i]])) \in Seq(Text)
    BY <2>1, LenProperties, SubSeqProperties
  <2>4. rcvd' \in Data
    BY <2>1, <2>2, <2>3 DEF Data
  <2>5. QED
    BY <1>4, <2>1, <2>2, <2>3, <2>4 DEF ReceiveData
<1>5. CASE ReceiveClosed
  BY <1>5 DEF ReceiveClosed, Open, Data
<1>6. CASE ReceiveReset
  BY <1>6 DEF ReceiveReset, Open, PeerState
<1>7. CASE ReceiveBadFd
  BY <1>7 DEF ReceiveBadFd
<1>8. CASE RemoveClosed \/ BlockGone
  BY <1>8 DEF RemoveClosed, connection_rmv, BlockGone, connection_block
<1>9. CASE CloseDescriptor \/ UnblockClosed
  BY <1>9 DEF CloseDescriptor, tcpsocket_close, UnblockClosed, connection_unblock
<1>10. CASE RemoveClosedAgain \/ BlockConnection
  BY <1>10 DEF RemoveClosedAgain, connection_rmv, BlockConnection, connection_block
<1>11. CASE StartHandler
  BY <1>11 DEF StartHandler, HandlerState
<1>12. QED
  BY <1>1, <1>2, <1>3, <1>4, <1>5, <1>6, <1>7, <1>8, <1>9, <1>10, <1>11 DEF MainLoop

(* The loop receives from a client's descriptor and hands it on.           *)
LEMMA MainLoopServed ==
  ASSUME CallsInv, MainLoop, UNCHANGED <<timed, frame>>
  PROVE  ServedInv'
<1> USE ConstantsType, NextDescriptorType DEF ServedInv
<1>0. ServedInv /\ i \in Descriptor /\ pc \in [Thread -> HandlerState]
      /\ data \in [Thread -> Data]
  BY DEF CallsInv, TypeOK
<1>1. CASE CopyConnections \/ Select \/ Accept
  BY <1>0, <1>1 DEF CopyConnections, Select, Accept
<1>2. CASE Scan
  <2>1. \/ i' \in Descriptor /\ main' \in {"scan", "copy"}
        \/ /\ UNCHANGED i /\ main' \in {"accept", "recv"}
           /\ main' = "accept" => i = Listener
    BY <1>0, <1>2 DEF Scan
  <2>2. QED
    BY <1>0, <1>2, <2>1 DEF Scan
<1>3. CASE AddAccepted
  BY <1>0, <1>3 DEF AddAccepted
<1>4. CASE ReceiveData \/ ReceiveClosed
  <2>1. i \in Fd /\ rcvd'.socketd = i
    BY <1>4 DEF ReceiveData, ReceiveClosed, Open
  <2>2. QED
    BY <1>0, <1>4, <2>1 DEF ReceiveData, ReceiveClosed
<1>5. CASE ReceiveReset \/ ReceiveBadFd
  BY <1>0, <1>5 DEF ReceiveReset, ReceiveBadFd
<1>6. CASE RemoveClosed \/ BlockGone \/ CloseDescriptor \/ UnblockClosed
  BY <1>0, <1>6 DEF RemoveClosed, BlockGone, CloseDescriptor, UnblockClosed
<1>7. CASE RemoveClosedAgain \/ BlockConnection
  BY <1>0, <1>7 DEF RemoveClosedAgain, BlockConnection
<1>8. CASE StartHandler
  <2>1. PICK t \in Thread : /\ pc[t] = "free"
                           /\ pc' = [pc EXCEPT ![t] = "start"]
                           /\ data' = [data EXCEPT ![t] = rcvd]
    BY <1>8 DEF StartHandler
  <2>2. rcvd.socketd \in Fd
    BY <1>0, <1>8 DEF StartHandler
  <2>3. QED
    BY <1>0, <1>8, <2>1, <2>2 DEF StartHandler
<1>9. QED
  BY <1>1, <1>2, <1>3, <1>4, <1>5, <1>6, <1>7, <1>8 DEF MainLoop

(* While the loop itself runs quit, it takes no other step.                *)
LEMMA MainLoopElsewhere ==
  ASSUME MainLoop
  PROVE  /\ ~ At("disconnect")
         /\ \A t \in Thread : pc[t] # "free" /\ data \in [Thread -> Data]
                              => data'[t] = data[t]
BY DEF MainLoop, CopyConnections, Select, Scan, Accept, AddAccepted, ReceiveData,
     ReceiveClosed, ReceiveReset, ReceiveBadFd, RemoveClosed, BlockGone, CloseDescriptor,
     UnblockClosed, RemoveClosedAgain, BlockConnection, StartHandler

(* The loop keeps the invariant, in its own steps, when it begins quit for *)
(* a client that has closed its side, and through that quit.               *)
LEMMA ServerLoopInv ==
  ASSUME CallsInv, ServerLoop
  PROVE  CallsInv'
<1>1. CASE MainLoop /\ UNCHANGED <<timed, tables, tad, frame, registered>>
  <2>1. LoopTypes'
    BY <1>1, MainLoopTypes DEF LoopTypes, CallsInv, TypeOK
  <2>2. TypeOK'
    BY <1>1, <2>1 DEF LoopTypes, CallsInv, TypeOK
  <2>3. In(Loop, "idle")
    BY <1>1, MainLoopElsewhere DEF CallsInv, ServedInv
  <2>4. \A t \in Thread : ~ In(t, "idle") => data'[t] = data[t]
    BY <1>1, MainLoopElsewhere DEF CallsInv, TypeOK, ServedInv
  <2>5. \A w \in Worker : ~ In(w, "idle") => Given(w)' = Given(w)
    BY <1>1, <2>3, <2>4, Givens, GivensNext DEF Worker
  <2>6. CallInv'
    BY <1>1, <2>5 DEF CallsInv, CallInv, Socket
  <2>7. QED
    BY <1>1, <2>2, <2>6, MainLoopServed DEF CallsInv
<1>2. CASE do_on_disconnect
  <2>1. frame' = [frame EXCEPT ![Loop] = Call(QuitNow)] /\ At("disconnect")
    BY <1>2 DEF do_on_disconnect
  <2>2. Call(QuitNow) \in Frame
    BY QuitCall
  <2>3. Fits(Call(QuitNow))
    BY QuitCall
  <2>4. rcvd.socketd \in Fd
    BY <2>1 DEF CallsInv, ServedInv
  <2>5. TypeOK'
    BY <1>2, <2>1, <2>2 DEF do_on_disconnect, CallsInv, TypeOK
  <2>6. CallInv'
    BY <1>2, <2>1, <2>3, <2>4, Givens, GivensNext
    DEF do_on_disconnect, CallsInv, TypeOK, CallInv, Socket, Worker
  <2>7. ServedInv'
    BY <1>2, <2>1, Givens DEF do_on_disconnect, CallsInv, TypeOK, ServedInv, Worker
  <2>8. QED
    BY <2>5, <2>6, <2>7 DEF CallsInv
<1>3. CASE ProcessCommand(Loop)
  <2>1. At("disconnect")
    BY <1>3, CommandAt DEF CallsInv, ServedInv
  <2>2. QED
    BY <1>3, <2>1, CommandInv DEF Worker
<1>4. QED
  BY <1>1, <1>2, <1>3 DEF ServerLoop

(* So does a handler, between two commands and in one.                     *)
LEMMA HandlerInv ==
  ASSUME CallsInv, NEW t \in Thread, Handler(t)
  PROVE  CallsInv'
<1>0. /\ pc \in [Thread -> HandlerState] /\ data \in [Thread -> Data]
      /\ frame \in [Worker -> Frame] /\ t \in Worker /\ t # Loop /\ t # Timer
      /\ pc[t] # "free" => data[t].socketd \in Fd
  BY Givens DEF CallsInv, TypeOK, ServedInv, Worker
<1>1. CASE NextCommand(t)
  <2>1. /\ pc[t] = "start" /\ data[t].msg # <<>>
        /\ frame' = [frame EXCEPT ![t] = Call(Head(data[t].msg))]
        /\ data' = [data EXCEPT ![t].msg = Tail(@)]
    BY <1>1 DEF NextCommand
  <2>2. Head(data[t].msg) \in Text /\ Tail(data[t].msg) \in Seq(Text)
    BY <1>0, <2>1, HeadTailProperties, EmptySeq DEF Data
  <2>3. Call(Head(data[t].msg)) \in Frame /\ Fits(Call(Head(data[t].msg)))
    BY <2>2, Calls
  <2>4. data' \in [Thread -> Data] /\ \A u \in Thread : data'[u].socketd = data[u].socketd
    BY <1>0, <2>1, <2>2 DEF Data
  <2>5. TypeOK'
    BY <1>0, <1>1, <2>1, <2>3, <2>4 DEF NextCommand, CallsInv, TypeOK
  <2>6. data'[t].socketd \in Fd
    BY <1>0, <2>1, <2>4
  <2>7. \A w \in Worker : Socket(w)' = Socket(w)
    BY <1>1, <2>4, Givens, GivensNext DEF Socket, Worker, NextCommand
  <2>8. CallInv'
    BY <1>0, <2>1, <2>3, <2>6, <2>7, GivensNext DEF CallsInv, CallInv, Socket
  <2>9. ServedInv'
    BY <1>0, <1>1, <2>1, <2>4, <2>6 DEF NextCommand, CallsInv, ServedInv, Worker
  <2>10. QED
    BY <2>5, <2>8, <2>9 DEF CallsInv
<1>2. CASE HandlerEnds(t)
  <2>1. /\ pc' = [pc EXCEPT ![t] = "free"] /\ data' = [data EXCEPT ![t] = NoData]
        /\ In(t, "idle") /\ UNCHANGED <<frame, rcvd, timed>>
        /\ blocked' = blocked \ {data[t].socketd}
    BY <1>2 DEF HandlerEnds, connection_unblock
  <2>2. TypeOK'
    BY <1>0, <1>2, <2>1, ConstantsType DEF HandlerEnds, CallsInv, TypeOK, HandlerState
  <2>3. \A w \in Worker : ~ In(w, "idle") => Socket(w)' = Socket(w)
    BY <1>0, <2>1, Givens, GivensNext DEF Socket, Worker
  <2>4. CallInv'
    BY <2>1, <2>3 DEF CallsInv, CallInv
  <2>5. ServedInv'
    BY <1>0, <1>2, <2>1 DEF HandlerEnds, CallsInv, ServedInv
  <2>6. QED
    BY <2>2, <2>4, <2>5 DEF CallsInv
<1>3. CASE ProcessCommand(t)
  BY <1>0, <1>3, CommandInv
<1>4. QED
  BY <1>1, <1>2, <1>3 DEF Handler

(* What every step of the IRC server keeps.                                *)
LEMMA NextCalls == CallsInv /\ [Next]_vars => CallsInv'
<1> SUFFICES ASSUME CallsInv, [Next]_vars PROVE CallsInv'
  OBVIOUS
<1>1. CASE UNCHANGED vars
  BY <1>1 DEF vars, CallsInv, TypeOK, CallInv, ServedInv, Socket, Given
<1>2. QED
  BY <1>1, ClientsInv, ServerLoopInv, HandlerInv DEF Next

(* In every state of the server, for any number of clients, threads,       *)
(* descriptors, users and channels, each worker holds what the next step   *)
(* of its command takes and works on a descriptor of a client.             *)
THEOREM Invariance == Spec => []CallsInv
BY InitCalls, NextCalls, PTL DEF Spec

(* Every variable of the IRC server has its type: no command is called     *)
(* with an argument of another kind, searches included (irc.c,             *)
(* irc_server.c:118-180).                                                  *)
THEOREM TypeCorrect == Spec => []TypeOK
<1>1. CallsInv => TypeOK
  BY DEF CallsInv
<1>2. QED
  BY <1>1, Invariance, PTL

-----------------------------------------------------------------------------
(* Nobody leaves a descriptor blocked *)

Served(d) == d = i /\ main \in {"disconnect", "close", "unblock", "spawn"}
Handled(d) == \E t \in Live : data[t].socketd = d
Relayed(d) == \E w \in Active : In(w, "relayUnblock") /\ frame[w].to = d

Somebody(d) == d \in blocked => Served(d) \/ Handled(d) \/ Relayed(d)

(* The property by descriptor and by its three parts.                      *)
LEMMA SomebodyIs == BlockedForSomebody <=> \A d \in Fd : Somebody(d)
BY DEF BlockedForSomebody, Awaited, Somebody, Served, Handled, Relayed

(* The same after a step.                                                  *)
LEMMA SomebodyIsNext == (\A d \in Fd : Somebody(d)') => BlockedForSomebody'
BY DEF BlockedForSomebody, Awaited, Somebody, Served, Handled, Relayed

(* Whoever relays is active.                                               *)
LEMMA RelayersAreActive ==
  ASSUME CallsInv
  PROVE  \A w \in Worker : In(w, "relayUnblock") => w \in Active
BY DEF CallsInv, ServedInv, Active, Live, Worker

(* The same after a step.                                                  *)
LEMMA RelayersAreActiveNext ==
  ASSUME CallsInv'
  PROVE  \A w \in Worker : frame'[w].at = "relayUnblock" => w \in Active'
BY DEF CallsInv, ServedInv, Active, Live, Worker

(* The active workers are workers.                                         *)
LEMMA ActiveWorkers == Active \subseteq Worker
BY DEF Active, Live, Worker

(* A relay and a handler go on until they unblock what they have blocked.  *)
LEMMA RelaysGoOn ==
  ASSUME CallsInv', NEW d, Relayed(d),
         \A w \in Worker : In(w, "relayUnblock") /\ frame[w].to = d
            => frame'[w].at = "relayUnblock" /\ frame'[w].to = d
  PROVE  Relayed(d)'
BY ActiveWorkers, RelayersAreActiveNext DEF Relayed

(* The same of a handler and the descriptor it was started for.            *)
LEMMA HandlersGoOn ==
  ASSUME NEW d, Handled(d),
         \A t \in Live : data[t].socketd = d => pc'[t] # "free" /\ data'[t].socketd = d
  PROVE  Handled(d)'
BY DEF Handled, Live

(* A step of a command blocks for itself, and unblocks at the end.         *)
LEMMA CommandLeaves ==
  ASSUME CallsInv, CallsInv', NEW w \in Worker, ProcessCommand(w),
         w = Loop => At("disconnect"), NEW d \in Fd, Somebody(d)
  PROVE  Somebody(d)'
<1>1. /\ frame' = [frame EXCEPT ![w] = frame'[w]]
      /\ \A v \in Worker \ {w} : frame'[v] = frame[v]
  BY CommandCall DEF CallsInv, TypeOK
<1>2. SUFFICES ASSUME d \in blocked'
               PROVE  Served(d)' \/ Handled(d)' \/ Relayed(d)'
  BY DEF Somebody
<1>3. Served(d) => Served(d)'
  BY CommandKeeps DEF Served
<1>4. Handled(d) => Handled(d)'
  BY CommandKeeps, HandlersGoOn DEF Live
<1>5. CASE RelayBlock(w)
  <2>1. CASE d = frame[w].to
    <3>1. frame'[w].at = "relayUnblock" /\ frame'[w].to = d
      BY <1>5, <2>1, Moves DEF RelayBlock, CallsInv, TypeOK, Label
    <3>2. QED
      BY <3>1, RelayersAreActiveNext DEF Relayed
  <2>2. CASE d # frame[w].to
    <3>1. d \in blocked
      BY <1>2, <1>5, <2>2 DEF RelayBlock, connection_block
    <3>2. Relayed(d) => Relayed(d)'
      BY <1>1, <1>5, RelaysGoOn DEF RelayBlock
    <3>3. QED
      BY <1>3, <1>4, <3>1, <3>2 DEF Somebody
  <2>3. QED
    BY <2>1, <2>2
<1>6. CASE RelayUnblock(w)
  <2>1. d \in blocked /\ d # frame[w].to
    BY <1>2, <1>6 DEF RelayUnblock, connection_unblock
  <2>2. Relayed(d) => Relayed(d)'
    BY <1>1, <2>1, RelaysGoOn
  <2>3. QED
    BY <1>3, <1>4, <2>1, <2>2 DEF Somebody
<1>7. CASE ~ RelayBlock(w) /\ ~ RelayUnblock(w)
  <2>1. blocked' = blocked
    BY <1>7, OthersKeepSockets DEF SocketStep, QuitClose, QuitRmv
  <2>2. ~ In(w, "relayUnblock")
    BY <1>7 DEF ProcessCommand,
     SessionCommand, AskRegistered, ChangeNick, SetNick, CopyNick, ReadNick,
     CheckUser, AddUser, SetUser, Relay, Privmsg, ListTargets, FindNick,
     FindNickAgain, SendPrivate, Quit, QuitChannels, QuitClose, QuitRmv, QuitTad,
     QuitUser, QuitNick,
     ChannelCommand, Join, ListUsers, Names, Greet, Part, Kick, KickUser,
     AskTopicRight, AskTopicMode, SetTopic, Mode, AskModeRight, SetMode, AskAway,
     SetAway, List,
     Whois, WhoisChannels, Ping, Answers
  <2>3. Relayed(d) => Relayed(d)'
    BY <1>1, <2>2, RelaysGoOn
  <2>4. QED
    BY <1>2, <1>3, <1>4, <2>1, <2>3 DEF Somebody
<1>8. QED
  BY <1>5, <1>6, <1>7

(* The loop blocks what it is about to hand on or to let go of.            *)
LEMMA LoopLeaves ==
  ASSUME CallsInv, CallsInv', MainLoop, UNCHANGED frame, NEW d \in Fd, Somebody(d)
  PROVE  Somebody(d)'
<1>1. SUFFICES ASSUME d \in blocked'
               PROVE  Served(d)' \/ Handled(d)' \/ Relayed(d)'
  BY DEF Somebody
<1>2. Relayed(d) => Relayed(d)'
  BY RelaysGoOn
<1>3. CASE StartHandler
  <2>1. PICK t \in Thread : /\ pc[t] = "free"
                           /\ pc' = [pc EXCEPT ![t] = "start"]
                           /\ data' = [data EXCEPT ![t] = rcvd]
    BY <1>3 DEF StartHandler
  <2>2. At("spawn") /\ rcvd.socketd = i /\ blocked' = blocked
    BY <1>3 DEF StartHandler, CallsInv, ServedInv
  <2>3. pc \in [Thread -> HandlerState] /\ data \in [Thread -> Data]
    BY DEF CallsInv, TypeOK
  <2>4. Handled(d) => Handled(d)'
    BY <2>1, <2>3, HandlersGoOn DEF Live
  <2>5. d = i => Handled(d)'
    BY <2>1, <2>2, <2>3 DEF Handled, Live
  <2>6. QED
    BY <1>1, <1>2, <2>2, <2>4, <2>5 DEF Somebody, Served
<1>4. CASE ~ StartHandler
  <2>1. UNCHANGED threads
    BY <1>4 DEF MainLoop, CopyConnections, Select, Scan, Accept, AddAccepted, ReceiveData,
     ReceiveClosed, ReceiveReset, ReceiveBadFd, RemoveClosed, BlockGone, CloseDescriptor,
     UnblockClosed, RemoveClosedAgain, BlockConnection
  <2>2. Handled(d) => Handled(d)'
    BY <2>1, HandlersGoOn DEF Live
  <2>3. CASE BlockGone \/ BlockConnection
    <3>1. blocked' = blocked \cup {i} /\ i' = i /\ main' \in {"disconnect", "spawn"}
          /\ main \in {"blockGone", "block"}
      BY <2>3 DEF BlockGone, BlockConnection, connection_block
    <3>2. QED
      BY <1>1, <1>2, <2>2, <3>1 DEF Somebody, Served
  <2>4. CASE UnblockClosed
    <3>1. blocked' = blocked \ {i}
      BY <2>4 DEF UnblockClosed, connection_unblock
    <3>2. QED
      BY <1>1, <1>2, <2>2, <3>1 DEF Somebody, Served
  <2>5. CASE ~ BlockGone /\ ~ BlockConnection /\ ~ UnblockClosed
    <3>1. /\ UNCHANGED blocked
          /\ main \in {"disconnect", "close", "unblock", "spawn"}
                => main' = "unblock" /\ i' = i
      BY <1>4, <2>5 DEF MainLoop, CopyConnections, Select, Scan, Accept, AddAccepted,
         ReceiveData, ReceiveClosed, ReceiveReset, ReceiveBadFd, RemoveClosed,
         CloseDescriptor, RemoveClosedAgain
    <3>2. QED
      BY <1>1, <1>2, <2>2, <3>1 DEF Somebody, Served
  <2>6. QED
    BY <2>3, <2>4, <2>5
<1>5. QED
  BY <1>3, <1>4

(* The handler unblocks its descriptor when it ends.                       *)
LEMMA HandlerLeaves ==
  ASSUME CallsInv, CallsInv', NEW t \in Thread, NextCommand(t) \/ HandlerEnds(t),
         NEW d \in Fd, Somebody(d)
  PROVE  Somebody(d)'
<1>1. SUFFICES ASSUME d \in blocked'
               PROVE  Served(d)' \/ Handled(d)' \/ Relayed(d)'
  BY DEF Somebody
<1>2. /\ In(t, "idle") /\ \A v \in Worker \ {t} : frame'[v] = frame[v]
      /\ UNCHANGED <<main, i>>
  BY DEF NextCommand, HandlerEnds, CallsInv, TypeOK
<1>3. Relayed(d) => Relayed(d)'
  BY <1>2, RelaysGoOn
<1>4. Served(d) => Served(d)'
  BY <1>2 DEF Served
<1>5. pc \in [Thread -> HandlerState] /\ data \in [Thread -> Data]
  BY DEF CallsInv, TypeOK
<1>6. CASE NextCommand(t)
  <2>1. Handled(d) => Handled(d)'
    BY <1>5, <1>6, HandlersGoOn DEF NextCommand, Live, Data
  <2>2. QED
    BY <1>1, <1>3, <1>4, <1>6, <2>1 DEF Somebody, NextCommand
<1>7. CASE HandlerEnds(t)
  <2>1. d \in blocked /\ d # data[t].socketd
    BY <1>1, <1>7 DEF HandlerEnds, connection_unblock
  <2>2. Handled(d) => Handled(d)'
    BY <1>5, <1>7, <2>1, HandlersGoOn DEF HandlerEnds, Live
  <2>3. QED
    BY <1>3, <1>4, <2>1, <2>2 DEF Somebody
<1>8. QED
  BY <1>6, <1>7

(* Every step of the loop and of a handler keeps it for each descriptor.   *)
LEMMA ServerLeaves ==
  ASSUME CallsInv, CallsInv', NEW d \in Fd, Somebody(d),
         ServerLoop \/ \E t \in Thread : Handler(t)
  PROVE  Somebody(d)'
<1>1. CASE MainLoop /\ UNCHANGED <<timed, tables, tad, frame, registered>>
  BY <1>1, LoopLeaves
<1>2. CASE do_on_disconnect
  <2>1. /\ In(Loop, "idle") /\ \A v \in Worker \ {Loop} : frame'[v] = frame[v]
        /\ UNCHANGED <<main, i, blocked, pc, data>>
    BY <1>2 DEF do_on_disconnect, CallsInv, TypeOK
  <2>2. Relayed(d) => Relayed(d)'
    BY <2>1, RelaysGoOn
  <2>3. (Served(d) => Served(d)') /\ (Handled(d) => Handled(d)')
    BY <2>1 DEF Served, Handled, Live
  <2>4. QED
    BY <2>1, <2>2, <2>3 DEF Somebody
<1>3. CASE ProcessCommand(Loop)
  <2>1. At("disconnect")
    BY <1>3, CommandAt DEF CallsInv, ServedInv
  <2>2. QED
    BY <1>3, <2>1, CommandLeaves DEF Worker
<1>4. ASSUME NEW t \in Thread, Handler(t)
      PROVE  Somebody(d)'
  BY <1>4, HandlerLeaves, CommandLeaves, Givens DEF Handler, Worker
<1>5. QED
  BY <1>1, <1>2, <1>3, <1>4 DEF ServerLoop

(* Every step keeps the property, given the invariant.                     *)
LEMMA NextLeaves ==
  CallsInv /\ CallsInv' /\ BlockedForSomebody /\ [Next]_vars => BlockedForSomebody'
<1> SUFFICES ASSUME CallsInv, CallsInv', BlockedForSomebody, [Next]_vars
             PROVE  BlockedForSomebody'
  OBVIOUS
<1>1. CASE UNCHANGED vars
  BY <1>1 DEF vars, BlockedForSomebody, Awaited, Active, Live
<1>2. CASE Clients /\ UNCHANGED <<sets, workers, loopState, tables, tad, frame,
                                  registered>>
  BY <1>2 DEF BlockedForSomebody, Awaited, Active, Live
<1>3. CASE ServerLoop \/ \E t \in Thread : Handler(t)
  BY <1>3, ServerLeaves, SomebodyIs, SomebodyIsNext
<1>4. QED
  BY <1>1, <1>2, <1>3 DEF Next

(* Nobody leaves a descriptor blocked: whatever relays, handlers and the   *)
(* loop do to the shared bits of connection_block, a bit that is set has   *)
(* its handler, a relay or the loop that is about to clear it or hand it   *)
(* on (server.c:228-239, irc.c:340, 487, 737, 886, 952).                       *)
THEOREM NobodyLeavesBlocked == Spec => []BlockedForSomebody
<1>1. Init => BlockedForSomebody
  BY DEF Init, ServerInit, ConnectionsInit, BlockedForSomebody
<1>2. QED
  BY <1>1, Invariance, NextLeaves, PTL DEF Spec

=============================================================================
