------------------------------ MODULE IrcServer ------------------------------
(***************************************************************************)
(* src/G-2301-01-P1-irc_server.c: server_launch with handler as the thread *)
(* of each message and do_on_disconnect as handler_disconnection.  A       *)
(* message is the commands one recv returned; the handler processes them   *)
(* in turn and unblocks the descriptor.                                    *)
(***************************************************************************)
EXTENDS IrcChannels

(* main gives do_on_disconnect to server_launch (irc_server.c:446).        *)
ASSUME DisconnectAssumption == DoOnDisconnect

vars == <<outside, tables, tad, frame, registered>>

HandlerState == {"free", "start"}

Init == ServerInit /\ IrcInit

(* handler: the next command of the message.                               *)
NextCommand(t) ==
  /\ pc[t] = "start" /\ In(t, "idle")
  /\ data[t].msg # <<>>
  /\ frame' = [frame EXCEPT ![t] = Call(Head(data[t].msg))]
  /\ data' = [data EXCEPT ![t].msg = Tail(@)]
  /\ UNCHANGED <<kernel, sets, pc, timed, loopState, tables, tad, registered>>

(* Mutant: the handler ends without unblocking.                            *)
HandlerKeepsBlocked(t) ==
  /\ pc[t] = "start" /\ In(t, "idle")
  /\ data[t].msg = <<>>
  /\ pc' = [pc EXCEPT ![t] = "free"]
  /\ data' = [data EXCEPT ![t] = NoData]
  /\ UNCHANGED <<kernel, sets, timed, loopState, tables, tad, frame, registered>>

HandlerEnds(t) ==
  /\ pc[t] = "start" /\ In(t, "idle")
  /\ data[t].msg = <<>>
  /\ connection_unblock(data[t].socketd)
  /\ pc' = [pc EXCEPT ![t] = "free"]
  /\ data' = [data EXCEPT ![t] = NoData]
  /\ UNCHANGED <<kernel, connections, readable, timed, loopState, tables, tad, frame, registered>>

do_on_disconnect ==
  /\ At("disconnect") /\ In(Loop, "idle")
  /\ frame' = [frame EXCEPT ![Loop] = Call(QuitNow)]
  /\ UNCHANGED <<outside, tables, tad, registered>>

Handler(t) ==
  Alive /\ (NextCommand(t) \/ HandlerEnds(t) \/ ProcessCommand(t))

ServerLoop ==
  /\ Alive
  /\ \/ MainLoop /\ UNCHANGED <<timed, tables, tad, frame, registered>>
     \/ do_on_disconnect
     \/ ProcessCommand(Loop)

Next ==
  \/ Clients /\ UNCHANGED <<sets, workers, loopState, tables, tad, frame, registered>>
  \/ ServerLoop
  \/ \E t \in Thread : Handler(t)

(* Every thread that can run is scheduled; clients owe nothing.            *)
Fairness ==
  /\ WF_vars(ServerLoop)
  /\ \A t \in Thread : WF_vars(Handler(t))

Spec == Init /\ [][Next]_vars /\ Fairness

-----------------------------------------------------------------------------
Live == {t \in Thread : pc[t] # "free"}

(* The workers inside a command or between two of a message.               *)
Active == Live \cup {w \in {Loop, Timer} : ~In(w, "idle")}

Busy(d) == \E w \in Active : Socket(w) = d

Frame == [at : Label, cmd : Command, arg : User \cup Nick \cup Channel \cup {NULL},
          opt : User \cup BOOLEAN \cup {NULL},
          seen : Nick \cup User \cup {NULL, Garbage}, may : BOOLEAN,
          rest : SUBSET User, chans : SUBSET Channel, to : Descriptor \cup {0}]

(* Every variable has its type.                                            *)
TypeOK ==
  /\ peer \in [Conn -> PeerState]
  /\ backlog \in Seq(Conn)
  /\ owner \in [Fd -> Conn \cup {NoConn}]
  /\ inbox \in [Conn -> Seq(Text)]
  /\ sent \in [Conn -> Seq(Text)]
  /\ connections \in SUBSET Descriptor
  /\ readable \in SUBSET Descriptor
  /\ blocked \in SUBSET (Descriptor \cup {0})
  /\ pc \in [Thread -> HandlerState]
  /\ data \in [Thread -> Data]
  /\ main \in MainState
  /\ i \in Descriptor
  /\ acceptd \in Descriptor
  /\ rcvd \in Data
  /\ users \in [Fd -> User \cup {NULL}]
  /\ nicks \in [Fd -> Nick \cup {NULL, Garbage}]
  /\ account \in [User -> Nick \cup {NULL}]
  /\ away \in SUBSET User
  /\ members \in [Channel -> SUBSET User]
  /\ ops \in [Channel -> SUBSET User]
  /\ guarded \in SUBSET Channel
  /\ topic \in [Channel -> User \cup {NULL}]
  /\ roster \in [Channel -> [User -> SUBSET User]]
  /\ timed \in Data
  /\ frame \in [Worker -> Frame]
  /\ registered \in [Conn -> User \cup {NULL}]

(* At most one handler works on a descriptor (server.c:239).               *)
OneHandlerPerConnection ==
  \A t, u \in Live : data[t].socketd = data[u].socketd => t = u

(* A handler's descriptor still denotes the connection its message came    *)
(* from, until the handler itself closes it in QUIT (irc.c:750).           *)
HandlerKeepsConnection ==
  \A t \in Live :
    \/ data[t].socketd \in Open /\ owner[data[t].socketd] = data[t].conn
    \/ frame[t].at \in {"quitRmv", "quitTad", "quitUser", "quitNick"}
    \/ data[t].msg = <<>> /\ In(t, "idle") /\ ~Accepted(data[t].conn)

(* The user of a descriptor that nobody is working on is the one that its  *)
(* own connection registered: it is not inherited from an earlier client   *)
(* that had the same descriptor number (irc_server.c:48-50, 171-173).      *)
NoInheritedUser ==
  \A d \in Open : ~Busy(d) => users[d] = registered[owner[d]]

(* The table of users and libirctad agree: at rest, a descriptor's user    *)
(* has an account, with the nick the descriptor has unless it is too long  *)
(* for set_nick; and an account has its descriptor unless the user name is *)
(* too long for set_user.                                                  *)
RegistryAgrees ==
  /\ \A d \in Fd : users[d] # NULL /\ ~Busy(d) =>
       account[users[d]] = nicks[d] \/ account[users[d]] \in LongNick
  /\ \A u \in User : account[u] # NULL =>
       \/ \E d \in Fd : users[d] = u
       \/ \E w \in Active : In(w, "setUser") /\ frame[w].arg = u
       \/ u \in LongUser

(* No user is found on two descriptors, except while one of them is being  *)
(* left: IRCTAD_Quit (irc.c:753) frees the name before set_user (758)      *)
(* forgets it.                                                             *)
UserOnOneDescriptor ==
  \A d, e \in Fd : d # e /\ users[d] # NULL /\ users[d] = users[e] =>
    \E w \in Active : In(w, "quitUser") /\ Socket(w) \in {d, e}

(* Nobody gives strcpy or strcat a null pointer: the nick that set_nick    *)
(* copies after it has released m_nicks (irc_server.c:104-105) still has   *)
(* its buffer, whoever JOIN or NAMES found on a channel still has a nick   *)
(* when it is asked for (irc.c:291, 541), and whoever WHOIS found is still *)
(* there when its channels are listed (irc.c:675).                         *)
NeverDies == Alive

(* get_user and get_nick return the table's own buffer (irc_server.c:178,  *)
(* 165): nobody else is using it when QUIT frees it.                       *)
FreesUnreadBuffers ==
  \A w \in Active : frame[w].at \in {"quitUser", "quitNick"} =>
    \A v \in Active \ {w} : Socket(v) # Socket(w)

(* Whoever is on a channel is a registered user with a descriptor: neither *)
(* a lost connection nor the timeout thread's QUIT leaves a user behind on *)
(* a channel, as long as one handler at a time serves a client.  A second  *)
(* one, which a relay can start (OneHandlerPerConnection), may still be in *)
(* the client's JOIN when the first QUITs.                                 *)
MembersAreConnected ==
  \A ch \in Channel : \A u \in members[ch] :
    account[u] # NULL /\ \E d \in Fd : users[d] = u

(* Two clients that join a channel at once do not miss each other: when no *)
(* JOIN is under way, each member has been told of each other one, by the  *)
(* names it got or by the other's JOIN.                                    *)
MembersKnowEachOther ==
  \A ch \in Channel :
    (\E w \in Active : frame[w].cmd = "JOIN"
       /\ frame[w].at \in {"list", "names", "greet", "dead"})
      \/ \A u, v \in members[ch] : v \in roster[ch][u]

(* After select, a descriptor in readable requires attention               *)
(* (server.c:187, 69): accept and recv do not block.                       *)
LoopNeverStalls ==
  At("accept") \/ At("recv") => Ready(i) \/ i \notin Open \cup {Listener}

(* A client has said QUIT, received or not.                                *)
QuitSaid == \E c \in Conn : \E k \in DOMAIN sent[c] : sent[c][k].cmd = "QUIT"

(* LoopNeverStalls, as long as nobody has said QUIT: a handler that QUITs  *)
(* closes its descriptor under the loop (irc.c:750), whose accept or recv  *)
(* may then meet a number that was reused since it was found ready.        *)
StallsOnlyAfterQuit == LoopNeverStalls \/ QuitSaid

(* A worker closes only the connection it is working for.                  *)
ClosesOwnConnection ==
  [][\A d \in Fd : owner[d] # NoConn /\ owner'[d] # owner[d] =>
       \/ At("close") /\ owner[d] = rcvd.conn
       \/ \E w \in Active : In(w, "quitClose") /\ owner[d] = Client(w)]_vars

(* The loop, a handler or a command that is writing to d will unblock it.  *)
Awaited(d) ==
  \/ d = i /\ main \in {"disconnect", "close", "unblock", "spawn"}
  \/ \E t \in Live : data[t].socketd = d
  \/ \E w \in Active : In(w, "relayUnblock") /\ frame[w].to = d

(* A blocked descriptor has somebody who will unblock it: the loop or the  *)
(* handler that works on it, or a command that is writing to it.  Relays   *)
(* and handlers share the bit, and none of them leaves it set.             *)
BlockedForSomebody == \A d \in Fd \cap blocked : Awaited(d)

(* Every descriptor that is blocked is unblocked again: the loop does not  *)
(* lose a client because a worker forgot it, or relays to it forever.      *)
(* Only the end of the process (NeverDies) can prevent it.                 *)
BlockedIsReleased ==
  \A d \in Fd : []<>(d \notin blocked \/ ~Alive)

-----------------------------------------------------------------------------
(* The abstract service *)

(* A connection has its user as soon as libirctad has the account, and has *)
(* none as soon as libirctad has freed it: USER tells the table of users   *)
(* later (irc.c:76-78), QUIT too (irc.c:753, 758).                           *)
SignedOn(c, u) ==
  \/ registered[c] = u /\ \A w \in Worker : In(w, "quitUser") => Client(w) # c
  \/ /\ u \notin LongUser
     /\ \E w \in Worker : In(w, "setUser") /\ Client(w) = c /\ frame[w].arg = u

Session == [c \in Conn |-> {u \in User : SignedOn(c, u)}]

Registry == INSTANCE Directory WITH session <- Session

(* The tables, libirctad and all who work on them are the registry that    *)
(* clients believe in: although a command is many calls, it registers,     *)
(* renames, joins, kicks or leaves at one of them, as if it were alone.    *)
KeepsRegistry == Registry!Spec

-----------------------------------------------------------------------------
(* Why it is safe: what TypeOK and BlockedForSomebody rest on.             *)

(* What a command has read is what its next step takes.                    *)
Fits(call) ==
  /\ call.at \in {"nick", "changeNick", "setNick"} => call.arg \in Nick \cup {NULL}
  /\ call.at = "copyNick" => call.arg \in Nick
  /\ call.at \in {"user", "checkUser", "addUser", "setUser"} => call.arg \in User
  /\ call.at \in {"join", "list", "names", "greet", "part", "kick", "kickUser",
                  "topic", "topicMode", "setTopic", "setMode"}
       => call.arg \in Channel
  /\ call.at \in {"mode", "modeRight"} => call.arg \in Channel \cup User
  /\ call.at = "part" => call.cmd = "PART"
  /\ call.at \in {"kick", "kickUser"} => call.cmd = "KICK"
  /\ call.at = "names" => call.cmd \in {"JOIN", "NAMES"}
  /\ call.at = "greet" => call.cmd = "JOIN" /\ call.opt \in User
  /\ call.at \in {"list", "names", "greet"} /\ call.cmd = "JOIN" => call.seen \in User

CallInv ==
  \A w \in Worker : Fits(frame[w]) /\ (~In(w, "idle") => Socket(w) \in Fd)

(* The loop and the handlers work on descriptors of clients, and only they *)
(* have commands under way.                                                *)
ServedInv ==
  /\ main \in {"rmv", "blockGone", "disconnect", "close", "unblock", "rmvAgain",
               "block", "spawn"}
       => i \in Fd /\ rcvd.socketd = i
  /\ main \in {"accept", "add"} => i = Listener
  /\ In(Loop, "idle") \/ At("disconnect")
  /\ \A t \in Thread :
       IF pc[t] = "free" THEN In(t, "idle") ELSE data[t].socketd \in Fd

CallsInv == TypeOK /\ CallInv /\ ServedInv

-----------------------------------------------------------------------------
(* What the comments of the code say and its steps do not keep *)

(* A connection with a message waiting is watched, unless it is just being *)
(* added or closed, so that each message received is attended to           *)
(* (server.c:139).                                                         *)
MessagesAreWatched ==
  \A d \in Open : inbox[owner[d]] # <<>> =>
    \/ d \in connections
    \/ At("add") /\ d = acceptd
    \/ main \in {"blockGone", "disconnect", "close"} /\ d = i

(* The descriptor found for the nick of a registered user is the one where *)
(* that user is (irc_server.c:135-137).                                    *)
PrivateReachesUser ==
  \A w \in Active, u \in User :
    In(w, "sendPrivate") /\ account[u] = frame[w].arg /\ (\E d \in Fd : users[d] = u)
      => frame[w].to \in Fd /\ users[frame[w].to] = u

=============================================================================
