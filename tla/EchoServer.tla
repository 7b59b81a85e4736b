------------------------------ MODULE EchoServer ------------------------------
(***************************************************************************)
(* src/G-2301-01-P1-echo_server.c: server_launch with echo as the handler  *)
(* and no handler_disconnection.  The handler sends back what was received *)
(* and unblocks the descriptor.                                            *)
(*                                                                         *)
(* This is the use of server.c in which only the loop closes descriptors   *)
(* and only a descriptor's own handler unblocks it.  What the fd_sets are  *)
(* for holds here; the IRC server breaks these two conditions.             *)
(***************************************************************************)
EXTENDS Server

ASSUME EchoAssumption == DoOnDisconnect = FALSE

VARIABLE outbox   \* what each client got back (history)

vars == <<kernel, sets, threads, loopState, outbox>>

HandlerState == {"free", "start", "unblock"}

Init ==
  /\ ServerInit
  /\ outbox = [c \in Conn |-> <<>>]

(* Mutant: only the first of the texts that one recv returned is sent.     *)
EchoSendFirst(t) ==
  LET d == data[t].socketd IN
  /\ pc[t] = "start"
  /\ outbox' = IF Writable(d)
               THEN [outbox EXCEPT ![owner[d]] = Append(@, data[t].msg[1])]
               ELSE outbox
  /\ pc' = [pc EXCEPT ![t] = "unblock"]
  /\ UNCHANGED <<kernel, sets, data, loopState>>

(* tcpsocket_snd of the whole message.  It goes to the connection that the *)
(* descriptor denotes now; an error is only printed.                       *)
EchoSend(t) ==
  LET d == data[t].socketd IN
  /\ pc[t] = "start"
  /\ outbox' = IF Writable(d)
               THEN [outbox EXCEPT ![owner[d]] = @ \o data[t].msg] ELSE outbox
  /\ pc' = [pc EXCEPT ![t] = "unblock"]
  /\ UNCHANGED <<kernel, sets, data, loopState>>

(* Mutant: the handler ends without unblocking.                            *)
EchoKeepsBlocked(t) ==
  /\ pc[t] = "unblock"
  /\ pc' = [pc EXCEPT ![t] = "free"]
  /\ data' = [data EXCEPT ![t] = NoData]
  /\ UNCHANGED <<kernel, sets, loopState, outbox>>

EchoUnblock(t) ==
  /\ pc[t] = "unblock"
  /\ connection_unblock(data[t].socketd)
  /\ pc' = [pc EXCEPT ![t] = "free"]
  /\ data' = [data EXCEPT ![t] = NoData]
  /\ UNCHANGED <<kernel, connections, readable, loopState, outbox>>

(* Mutant: the descriptor is unblocked before the message is sent back.    *)
EchoUnblockFirst(t) ==
  LET d == data[t].socketd IN
  \/ /\ pc[t] = "start"
     /\ connection_unblock(d)
     /\ pc' = [pc EXCEPT ![t] = "unblock"]
     /\ UNCHANGED <<kernel, connections, readable, data, loopState, outbox>>
  \/ /\ pc[t] = "unblock"
     /\ outbox' = IF Writable(d)
                  THEN [outbox EXCEPT ![owner[d]] = @ \o data[t].msg] ELSE outbox
     /\ pc' = [pc EXCEPT ![t] = "free"]
     /\ data' = [data EXCEPT ![t] = NoData]
     /\ UNCHANGED <<kernel, sets, loopState>>

Echo(t) == EchoSend(t) \/ EchoUnblock(t)

Next ==
  \/ Clients /\ UNCHANGED <<sets, threads, loopState, outbox>>
  \/ MainLoop /\ UNCHANGED outbox
  \/ \E t \in Thread : Echo(t)

(* The kernel schedules every thread that can run; clients owe nothing.    *)
Fairness ==
  /\ WF_vars(MainLoop /\ UNCHANGED outbox)
  /\ \A t \in Thread : WF_vars(Echo(t))

Spec == Init /\ [][Next]_vars /\ Fairness

-----------------------------------------------------------------------------
(* Safety *)

Live == {t \in Thread : pc[t] # "free"}

(* Every variable has its type.                                            *)
TypeOK ==
  /\ peer \in [Conn -> PeerState]
  /\ backlog \in Seq(Conn)
  /\ owner \in [Fd -> Conn \cup {NoConn}]
  /\ inbox \in [Conn -> Seq(Text)]
  /\ sent \in [Conn -> Seq(Text)]
  /\ connections \in SUBSET Descriptor
  /\ readable \in SUBSET Descriptor
  /\ blocked \in SUBSET Descriptor
  /\ pc \in [Thread -> HandlerState]
  /\ data \in [Thread -> Data]
  /\ main \in MainState
  /\ i \in Descriptor
  /\ acceptd \in Descriptor
  /\ rcvd \in Data
  /\ outbox \in [Conn -> Seq(Text)]

(* At most one handler works on a descriptor: the loop blocks it before it *)
(* starts the thread (server.c:237-241) and skips it until the thread's    *)
(* last step unblocks it.                                                  *)
OneHandlerPerConnection ==
  \A t, u \in Live : data[t].socketd = data[u].socketd => t = u

(* A handler's descriptor still denotes the connection its message came    *)
(* from: the loop does not close a descriptor, and so accept does not hand *)
(* the number to another client, while a thread works on it.               *)
HandlerKeepsConnection ==
  \A t \in Live : /\ data[t].socketd \in Open
                  /\ owner[data[t].socketd] = data[t].conn

(* select never meets a closed descriptor, so its ignored failure          *)
(* (server.c:191-195), which would leave every descriptor "readable",      *)
(* does not happen.                                                        *)
SelectsOpenDescriptors ==
  At("select") => readable \ {Listener} \subseteq Open

(* accept and recv do not block the loop: what select reported, possibly   *)
(* many steps ago, is still there.                                         *)
LoopNeverStalls ==
  At("accept") \/ At("recv") => Ready(i)

(* What a client gets back is what it sent, in order, with nothing lost or *)
(* repeated between recv, the thread and send.                             *)
InFlight(c) ==
  IF main \in {"block", "spawn"} /\ rcvd.conn = c THEN rcvd.msg
  ELSE IF \E t \in Thread : pc[t] = "start" /\ data[t].conn = c
  THEN data[CHOOSE t \in Thread : pc[t] = "start" /\ data[t].conn = c].msg
  ELSE <<>>

EchoesInOrder ==
  \A c \in Conn :
    IF peer[c] \in {"reset", "broken"}
    THEN /\ Len(outbox[c]) <= Len(sent[c])
         /\ outbox[c] = SubSeq(sent[c], 1, Len(outbox[c]))
    ELSE sent[c] = outbox[c] \o InFlight(c) \o inbox[c]

(* A client that stops sending gets all its echoes before the descriptor   *)
(* is closed.                                                              *)
ClosesAfterEcho ==
  \A c \in Conn :
    peer[c] = "eof" /\ ~Pending(c) /\ ~Accepted(c) => outbox[c] = sent[c]

-----------------------------------------------------------------------------
(* Why it holds: an inductive invariant, in three parts *)

(* The kernel's side: a connection is in the backlog once or on one        *)
(* descriptor, and only if its client has connected.                       *)
SocketsInv ==
  /\ \A j, k \in DOMAIN backlog : backlog[j] = backlog[k] => j = k
  /\ \A c \in Conn : Pending(c) => peer[c] # "idle" /\ ~Accepted(c)
  /\ \A d, e \in Open : owner[d] = owner[e] => d = e
  /\ \A d \in Open : peer[owner[d]] # "idle"

(* The descriptor i of the loop, from recv to the end of its case.         *)
AtMessage == main \in {"block", "spawn"}
AtClosed == main \in {"rmv", "close", "unblock", "rmvAgain"}

(* The loop's side: what is watched is open, what it has still to visit in *)
(* this pass is ready, nobody else works on the descriptor it is at, and   *)
(* what it closes was read to the end.                                     *)
LoopInv ==
  /\ main \notin {"blockGone", "disconnect"}
  /\ connections \subseteq {Listener} \cup Open
  /\ At("select") => readable \subseteq {Listener} \cup Open
  /\ At("add") => acceptd \in Open
  /\ At("close") => i \notin connections
  /\ main \notin {"copy", "select"} =>
       \A d \in readable :
         d > i \/ (d = i /\ main \in {"scan", "accept", "recv"}) => Ready(d)
  /\ At("accept") => i = Listener /\ i \in readable
  /\ At("recv") => i \in Fd /\ i \in readable
  /\ AtMessage => /\ i \in Open /\ rcvd.socketd = i /\ rcvd.conn = owner[i]
  /\ At("spawn") => i \in blocked
  /\ AtClosed => i \in Fd
  /\ main \in {"rmv", "close"} =>
       i \in Open /\ inbox[owner[i]] = <<>> /\ peer[owner[i]] # "open"
  /\ At("recv") \/ AtMessage \/ AtClosed =>
       \A t \in Live : data[t].socketd # i

(* The threads' side: each has blocked a descriptor of its own, which      *)
(* denotes the connection its message came from.                           *)
HandlersInv ==
  /\ \A t \in Live : /\ data[t].socketd \in Open \cap blocked
                     /\ owner[data[t].socketd] = data[t].conn
  /\ \A t, u \in Live : data[t].socketd = data[u].socketd => t = u

(* Together they are inductive.                                            *)
IndInv == TypeOK /\ SocketsInv /\ LoopInv /\ HandlersInv

-----------------------------------------------------------------------------
(* Liveness *)

(* Whatever a client sends is echoed, unless it resets the connection.     *)
EverythingEchoed ==
  \A c \in Conn : (sent[c] # outbox[c]) ~>
                  (sent[c] = outbox[c] \/ peer[c] \in {"reset", "broken"})

(* A descriptor whose client has gone is closed and can be used again.     *)
ClosedEventually ==
  \A c \in Conn : peer[c] \in {"eof", "reset"} ~> ~Pending(c) /\ ~Accepted(c)

-----------------------------------------------------------------------------
(* The abstract service *)

ClientSide(c) ==
  CASE peer[c] = "idle" -> "idle"
    [] peer[c] = "open" -> "talking"
    [] peer[c] = "eof" -> "listening"
    [] OTHER -> "dead"

ServerSide(c) ==
  IF peer[c] = "idle" \/ Pending(c) THEN "no"
  ELSE IF Accepted(c) THEN "yes" ELSE "done"

Service == INSTANCE EchoService WITH
  client <- [c \in Conn |-> ClientSide(c)],
  served <- [c \in Conn |-> ServerSide(c)],
  said <- sent,
  heard <- outbox

(* The select loop, its fd_sets and its threads together are an echo       *)
(* service: every connection is served, answered in order and let go, as   *)
(* if it were alone.                                                       *)
ImplementsService == Service!Spec

=============================================================================
