-------------------------------- MODULE Server --------------------------------
(***************************************************************************)
(* server_launch of srclib/G-2301-01-P1-server.c: one thread selects over  *)
(* the watched descriptors, accepts clients, receives what they sent and   *)
(* starts one thread per message.  The modules that extend this one say    *)
(* what such a thread does: echo (EchoServer) or the IRC handler.          *)
(*                                                                         *)
(* Each action is one system call or one critical section of mutex_conn,   *)
(* so the threads interleave wherever the code lets them.                  *)
(***************************************************************************)
EXTENDS Connections

CONSTANT DoOnDisconnect  \* is handler_disconnection set?

ASSUME ServerAssumption == DoOnDisconnect \in BOOLEAN

VARIABLES main,     \* where the thread of server_launch is
          i,        \* its loop variable
          acceptd,  \* args.acceptd, from accept to connection_add
          rcvd      \* thread_data, until it is the thread's: the message and,
                    \* as history, the connection it came from

loopState == <<main, i, acceptd, rcvd>>

MainState == {"copy", "select", "scan", "accept", "add", "recv", "rmv",
              "blockGone", "disconnect", "close", "unblock", "rmvAgain",
              "block", "spawn"}

NoData == [socketd |-> Listener, conn |-> NoConn, msg |-> <<>>]

Data == [socketd : Descriptor, conn : Conn \cup {NoConn}, msg : Seq(Text)]

ServerInit ==
  /\ ConnectionsInit
  /\ pc = [t \in Thread |-> "free"]
  /\ data = [t \in Thread |-> NoData]
  /\ main = "copy"
  /\ i = Listener
  /\ acceptd = Listener
  /\ rcvd = NoData

At(label) == main = label

Goto(label) == main' = label /\ UNCHANGED i

(* Mutant: the loop goes one descriptor too far.                           *)
NextDescriptorTooFar ==
  IF i <= LastFd THEN i' = i + 1 /\ main' = "scan"
                 ELSE i' = Listener /\ main' = "copy"

(* i++ of the for loop; past the last descriptor the while loop restarts.  *)
NextDescriptor ==
  IF i < LastFd THEN i' = i + 1 /\ main' = "scan"
                ELSE i' = Listener /\ main' = "copy"

-----------------------------------------------------------------------------
(* readable = connections                                                  *)
CopyConnections ==
  /\ At("copy")
  /\ readable' = connections
  /\ Goto("select")
  /\ UNCHANGED <<kernel, connections, blocked, threads, acceptd, rcvd>>

(* select leaves the ready descriptors in readable.  It fails with EBADF   *)
(* when one of them is closed; the result is ignored and readable keeps    *)
(* every watched descriptor.  After three seconds it returns with none.    *)
Select ==
  /\ At("select")
  /\ readable' = IF readable \ {Listener} \subseteq Open
                 THEN {d \in readable : Ready(d)} ELSE readable
  /\ main' = "scan" /\ i' = Listener
  /\ UNCHANGED <<kernel, connections, blocked, threads, acceptd, rcvd>>

(* Mutant: the blocked set is not consulted.                               *)
AttendsBlocked(d) == d \in readable

(* Mutant: the test of src/echo-server.c:70, connected instead of readable. *)
AttendsConnected(d) == d \in connections /\ d \notin blocked

(* Only this thread writes readable, so the two tests of the condition can *)
(* be read together at the moment of the second one.                       *)
Attends(d) == d \in readable /\ d \notin blocked

Scan ==
  /\ At("scan")
  /\ IF ~Attends(i) THEN NextDescriptor
     ELSE Goto(IF i = Listener THEN "accept" ELSE "recv")
  /\ UNCHANGED <<kernel, sets, threads, acceptd, rcvd>>

(* accept blocks until a client connects; it takes the lowest descriptor.  *)
Accept ==
  /\ At("accept") /\ backlog # <<>>
  /\ \E d \in Fd :
       /\ IsLowestFree(d)
       /\ owner' = [owner EXCEPT ![d] = Head(backlog)]
       /\ acceptd' = d
  /\ backlog' = Tail(backlog)
  /\ Goto("add")
  /\ UNCHANGED <<peer, inbox, sent, sets, threads, rcvd>>

(* Mutant: the listening descriptor is added instead of the accepted one.  *)
AddListener ==
  /\ At("add")
  /\ connection_add(i)
  /\ acceptd' = Listener
  /\ NextDescriptor
  /\ UNCHANGED <<kernel, readable, blocked, threads, rcvd>>

AddAccepted ==
  /\ At("add")
  /\ connection_add(acceptd)
  /\ acceptd' = Listener
  /\ NextDescriptor
  /\ UNCHANGED <<kernel, readable, blocked, threads, rcvd>>

-----------------------------------------------------------------------------
(* tcpsocket_rcv, by its four outcomes.  It blocks when none applies.      *)

(* TCPOK: at most DATA_SIZE bytes, any number of the texts waiting.        *)
ReceiveData ==
  /\ At("recv") /\ i \in Open
  /\ LET c == owner[i] IN
     \E n \in 1 .. Len(inbox[c]) :
       /\ rcvd' = [socketd |-> i, conn |-> c, msg |-> SubSeq(inbox[c], 1, n)]
       /\ inbox' = [inbox EXCEPT ![c] = SubSeq(@, n + 1, Len(@))]
  /\ Goto("block")
  /\ UNCHANGED <<peer, backlog, owner, sent, sets, threads, acceptd>>

(* TCPCONN_CLOSED: everything was read and the client sends no more.       *)
ReceiveClosed ==
  /\ At("recv") /\ i \in Open
  /\ inbox[owner[i]] = <<>> /\ peer[owner[i]] \in {"eof", "broken"}
  /\ rcvd' = [socketd |-> i, conn |-> owner[i], msg |-> <<>>]
  /\ Goto("rmv")
  /\ UNCHANGED <<kernel, sets, threads, acceptd>>

(* TCPERR_RECV for a reset connection, reported once; no case handles it.  *)
ReceiveReset ==
  /\ At("recv") /\ i \in Open
  /\ inbox[owner[i]] = <<>> /\ peer[owner[i]] = "reset"
  /\ peer' = [peer EXCEPT ![owner[i]] = "broken"]
  /\ NextDescriptor
  /\ UNCHANGED <<backlog, owner, inbox, sent, sets, threads, acceptd, rcvd>>

(* TCPERR_RECV for a descriptor another thread closed.                     *)
ReceiveBadFd ==
  /\ At("recv") /\ i \notin Open
  /\ NextDescriptor
  /\ UNCHANGED <<kernel, sets, threads, acceptd, rcvd>>

-----------------------------------------------------------------------------
(* case TCPCONN_CLOSED *)

RemoveClosed ==
  /\ At("rmv")
  /\ connection_rmv(i)
  /\ Goto(IF DoOnDisconnect THEN "blockGone" ELSE "close")
  /\ UNCHANGED <<kernel, readable, blocked, threads, acceptd, rcvd>>

(* handler_disconnection runs at "disconnect" and ends at "close".         *)
BlockGone ==
  /\ At("blockGone")
  /\ connection_block(i)
  /\ Goto("disconnect")
  /\ UNCHANGED <<kernel, connections, readable, threads, acceptd, rcvd>>

CloseDescriptor ==
  /\ At("close")
  /\ tcpsocket_close(i)
  /\ Goto("unblock")
  /\ UNCHANGED <<peer, backlog, inbox, sent, sets, threads, acceptd, rcvd>>

UnblockClosed ==
  /\ At("unblock")
  /\ connection_unblock(i)
  /\ Goto("rmvAgain")
  /\ UNCHANGED <<kernel, connections, readable, threads, acceptd, rcvd>>

RemoveClosedAgain ==
  /\ At("rmvAgain")
  /\ connection_rmv(i)
  /\ rcvd' = NoData
  /\ NextDescriptor
  /\ UNCHANGED <<kernel, readable, blocked, threads, acceptd>>

-----------------------------------------------------------------------------
(* case TCPOK *)

(* Mutant: the thread is started without blocking its descriptor.          *)
LeaveUnblocked ==
  /\ At("block")
  /\ Goto("spawn")
  /\ UNCHANGED <<kernel, sets, threads, acceptd, rcvd>>

BlockConnection ==
  /\ At("block")
  /\ connection_block(i)
  /\ Goto("spawn")
  /\ UNCHANGED <<kernel, connections, readable, threads, acceptd, rcvd>>

(* pthread_create *)
StartHandler ==
  /\ At("spawn")
  /\ \E t \in Thread :
       /\ pc[t] = "free"
       /\ pc' = [pc EXCEPT ![t] = "start"]
       /\ data' = [data EXCEPT ![t] = rcvd]
  /\ rcvd' = NoData
  /\ NextDescriptor
  /\ UNCHANGED <<kernel, sets, acceptd>>

MainLoop ==
  \/ CopyConnections \/ Select \/ Scan
  \/ Accept \/ AddAccepted
  \/ ReceiveData \/ ReceiveClosed \/ ReceiveReset \/ ReceiveBadFd
  \/ RemoveClosed \/ BlockGone \/ CloseDescriptor \/ UnblockClosed
  \/ RemoveClosedAgain
  \/ BlockConnection \/ StartHandler

=============================================================================
