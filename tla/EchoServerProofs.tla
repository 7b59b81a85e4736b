--------------------------- MODULE EchoServerProofs ---------------------------
(***************************************************************************)
(* What holds of the echo server for any number of connections, threads    *)
(* and descriptors, and for any traffic.                                   *)
(***************************************************************************)
EXTENDS EchoServer, SequenceTheorems, TLAPS

USE DEF At, Goto, kernel, sets, threads, loopState

-----------------------------------------------------------------------------
(* Types *)

(* The constants give descriptors, and traffic, their types.               *)
LEMMA ConstantsType ==
  /\ Listener \in Descriptor /\ Fd \subseteq Descriptor
  /\ Descriptor \subseteq Nat /\ Listener \notin Fd
  /\ NoData \in Data
BY ConnectionsAssumption DEF Descriptor, Fd, NoData, Data

(* Leaving the descriptor the loop is at keeps the loop's types.           *)
LEMMA NextDescriptorType ==
  ASSUME i \in Descriptor, NextDescriptor
  PROVE  i' \in Descriptor /\ main' \in {"scan", "copy"}
BY ConnectionsAssumption DEF NextDescriptor, Descriptor

LEMMA InitType == Init => TypeOK
BY ConstantsType, ConnectionsAssumption
DEF Init, ServerInit, ConnectionsInit, TypeOK, PeerState, MainState,
    HandlerState, Data

(* A client's step keeps every type.                                       *)
LEMMA ClientsType ==
  ASSUME TypeOK, Clients, UNCHANGED <<sets, threads, loopState, outbox>>
  PROVE  TypeOK'
<1>1. PICK c \in Conn : \/ Connect(c) \/ ClientSend(c)
                        \/ ClientShutdown(c) \/ ClientReset(c)
  BY DEF Clients
<1>2. CASE Connect(c)
  BY <1>2 DEF Connect, TypeOK, PeerState
<1>3. CASE ClientSend(c)
  <2>1. PICK said \in Traffic[c] :
          /\ Len(sent[c]) < Len(said)
          /\ sent' = [sent EXCEPT ![c] = said]
          /\ inbox' = [inbox EXCEPT
                         ![c] = @ \o SubSeq(said, Len(sent[c]) + 1, Len(said))]
    BY <1>3 DEF ClientSend
  <2>2. said \in Seq(Text)
    BY ConnectionsAssumption
  <2>3. SubSeq(said, Len(sent[c]) + 1, Len(said)) \in Seq(Text)
    BY <2>1, <2>2, LenProperties, SubSeqProperties DEF TypeOK
  <2>4. inbox[c] \o SubSeq(said, Len(sent[c]) + 1, Len(said)) \in Seq(Text)
    BY <2>3, ConcatProperties DEF TypeOK
  <2>5. QED
    BY <1>3, <2>1, <2>2, <2>4 DEF ClientSend, TypeOK
<1>4. CASE ClientShutdown(c)
  BY <1>4 DEF ClientShutdown, TypeOK, PeerState
<1>5. CASE ClientReset(c)
  BY <1>5 DEF ClientReset, TypeOK, PeerState
<1>6. QED
  BY <1>1, <1>2, <1>3, <1>4, <1>5

(* A step of the loop keeps every type.                                    *)
LEMMA MainLoopType ==
  ASSUME TypeOK, MainLoop, UNCHANGED outbox
  PROVE  TypeOK'
<1> USE ConstantsType, NextDescriptorType DEF TypeOK, MainState
<1>1. CASE CopyConnections
  BY <1>1 DEF CopyConnections
<1>2. CASE Select
  BY <1>2 DEF Select
<1>3. CASE Scan
  BY <1>3 DEF Scan
<1>4. CASE Accept
  <2>1. Head(backlog) \in Conn /\ Tail(backlog) \in Seq(Conn)
    BY <1>4, HeadTailProperties, EmptySeq DEF Accept
  <2>2. QED
    BY <1>4, <2>1 DEF Accept
<1>5. CASE AddAccepted
  BY <1>5 DEF AddAccepted, connection_add
<1>6. CASE ReceiveData
  <2>1. owner[i] \in Conn
    BY <1>6 DEF ReceiveData, Open
  <2>2. PICK n \in 1 .. Len(inbox[owner[i]]) :
          /\ rcvd' = [socketd |-> i, conn |-> owner[i],
                      msg |-> SubSeq(inbox[owner[i]], 1, n)]
          /\ inbox' = [inbox EXCEPT ![owner[i]] = SubSeq(@, n + 1, Len(@))]
    BY <1>6 DEF ReceiveData
  <2>3. /\ SubSeq(inbox[owner[i]], 1, n) \in Seq(Text)
        /\ SubSeq(inbox[owner[i]], n + 1, Len(inbox[owner[i]])) \in Seq(Text)
    BY <2>1, LenProperties, SubSeqProperties
  <2>4. rcvd' \in Data
    BY <2>1, <2>2, <2>3 DEF Data
  <2>5. QED
    BY <1>6, <2>1, <2>2, <2>3, <2>4 DEF ReceiveData
<1>7. CASE ReceiveClosed
  BY <1>7 DEF ReceiveClosed, Open, Data
<1>8. CASE ReceiveReset
  BY <1>8 DEF ReceiveReset, Open, PeerState
<1>9. CASE ReceiveBadFd
  BY <1>9 DEF ReceiveBadFd
<1>10. CASE RemoveClosed
  BY <1>10 DEF RemoveClosed, connection_rmv
<1>11. CASE BlockGone
  BY <1>11 DEF BlockGone, connection_block
<1>12. CASE CloseDescriptor
  BY <1>12 DEF CloseDescriptor, tcpsocket_close
<1>13. CASE UnblockClosed
  BY <1>13 DEF UnblockClosed, connection_unblock
<1>14. CASE RemoveClosedAgain
  BY <1>14 DEF RemoveClosedAgain, connection_rmv
<1>15. CASE BlockConnection
  BY <1>15 DEF BlockConnection, connection_block
<1>16. CASE StartHandler
  BY <1>16 DEF StartHandler, HandlerState
<1>17. QED
  BY <1>1, <1>2, <1>3, <1>4, <1>5, <1>6, <1>7, <1>8, <1>9, <1>10, <1>11,
     <1>12, <1>13, <1>14, <1>15, <1>16 DEF MainLoop

(* A step of a handler keeps every type.                                   *)
LEMMA EchoType ==
  ASSUME TypeOK, NEW t \in Thread, Echo(t)
  PROVE  TypeOK'
<1> USE ConstantsType DEF TypeOK, HandlerState
<1>1. CASE EchoSend(t)
  <2>1. CASE Writable(data[t].socketd)
    <3>1. /\ owner[data[t].socketd] \in Conn
          /\ data[t].msg \in Seq(Text)
      BY <2>1 DEF Writable, Open, Data
    <3>2. outbox[owner[data[t].socketd]] \o data[t].msg \in Seq(Text)
      BY <3>1, ConcatProperties
    <3>3. QED
      BY <1>1, <2>1, <3>1, <3>2 DEF EchoSend
  <2>2. CASE ~ Writable(data[t].socketd)
    BY <1>1, <2>2 DEF EchoSend
  <2>3. QED
    BY <2>1, <2>2
<1>2. CASE EchoUnblock(t)
  BY <1>2 DEF EchoUnblock, connection_unblock
<1>3. QED
  BY <1>1, <1>2 DEF Echo

(* Every variable of the echo server keeps its type.                       *)
THEOREM TypeCorrect == Spec => []TypeOK
<1>1. Init => TypeOK
  BY InitType
<1>2. TypeOK /\ [Next]_vars => TypeOK'
  <2> SUFFICES ASSUME TypeOK, [Next]_vars PROVE TypeOK'
    OBVIOUS
  <2>1. CASE Clients /\ UNCHANGED <<sets, threads, loopState, outbox>>
    BY <2>1, ClientsType
  <2>2. CASE MainLoop /\ UNCHANGED outbox
    BY <2>2, MainLoopType
  <2>3. CASE \E t \in Thread : Echo(t)
    BY <2>3, EchoType
  <2>4. CASE UNCHANGED vars
    BY <2>4 DEF vars, TypeOK
  <2>5. QED
    BY <2>1, <2>2, <2>3, <2>4 DEF Next
<1>3. QED
  BY <1>1, <1>2, PTL DEF Spec

-----------------------------------------------------------------------------
(* The kernel's side *)

(* Nothing is lost while connections stay where they are and no client     *)
(* becomes one that never connected.                                       *)
LEMMA SocketsUnchanged ==
  ASSUME TypeOK, SocketsInv, UNCHANGED <<backlog, owner>>,
         \A c \in Conn : peer[c] # "idle" => peer'[c] # "idle"
  PROVE  SocketsInv'
<1>1. \A d \in Open : owner[d] \in Conn
  BY DEF Open, TypeOK
<1>2. Open' = Open /\ \A c \in Conn : /\ Pending(c)' <=> Pending(c)
                                      /\ Accepted(c)' <=> Accepted(c)
  BY DEF Open, Pending, Accepted
<1>3. QED
  BY <1>1, <1>2 DEF SocketsInv

(* A client that connects was neither pending nor accepted.                *)
LEMMA ClientsSockets ==
  ASSUME TypeOK, SocketsInv, Clients
  PROVE  SocketsInv'
<1>1. PICK c \in Conn : \/ Connect(c) \/ ClientSend(c)
                        \/ ClientShutdown(c) \/ ClientReset(c)
  BY DEF Clients
<1>2. CASE Connect(c)
  <2>1. /\ DOMAIN backlog' = 1 .. Len(backlog) + 1
        /\ \A k \in 1 .. Len(backlog) : backlog'[k] = backlog[k]
        /\ backlog'[Len(backlog) + 1] = c
        /\ DOMAIN backlog = 1 .. Len(backlog) /\ Len(backlog) \in Nat
    BY <1>2, AppendProperties, LenProperties DEF Connect, TypeOK
  <2>2. ~ Pending(c) /\ ~ Accepted(c)
    BY <1>2, ConnectionsAssumption DEF Connect, SocketsInv, Accepted, Open
  <2>3. \A b \in Conn : /\ Pending(b)' <=> Pending(b) \/ b = c
                        /\ Accepted(b)' <=> Accepted(b)
    BY <1>2, <2>1 DEF Connect, Pending, Accepted
  <2>4. \A j, k \in DOMAIN backlog' : backlog'[j] = backlog'[k] => j = k
    BY <2>1, <2>2 DEF SocketsInv, Pending
  <2>5. \A b \in Conn : peer'[b] # "idle" <=> peer[b] # "idle" \/ b = c
    BY <1>2 DEF Connect, TypeOK
  <2>6. Open' = Open /\ \A d \in Open : owner'[d] = owner[d] /\ owner[d] \in Conn
    BY <1>2 DEF Connect, Open, TypeOK
  <2>7. \A b \in Conn : Pending(b)' => peer'[b] # "idle" /\ ~ Accepted(b)'
    BY <2>2, <2>3, <2>5 DEF SocketsInv
  <2>8. \A d, e \in Open' : owner'[d] = owner'[e] => d = e
    BY <2>6 DEF SocketsInv
  <2>9. \A d \in Open' : peer'[owner'[d]] # "idle"
    BY <2>5, <2>6 DEF SocketsInv
  <2>10. QED
    BY <2>4, <2>7, <2>8, <2>9 DEF SocketsInv
<1>3. CASE ClientSend(c)
  BY <1>3, SocketsUnchanged DEF ClientSend
<1>4. CASE ClientShutdown(c) \/ ClientReset(c)
  BY <1>4, SocketsUnchanged DEF ClientShutdown, ClientReset, TypeOK
<1>5. QED
  BY <1>1, <1>2, <1>3, <1>4

(* accept takes the oldest connection to a free descriptor; the loop's     *)
(* other steps leave the sockets alone or only let go of one.              *)
LEMMA MainLoopSockets ==
  ASSUME TypeOK, SocketsInv, MainLoop
  PROVE  SocketsInv'
<1>1. CASE Accept
  <2>1. PICK d \in Fd : /\ owner[d] = NoConn
                        /\ owner' = [owner EXCEPT ![d] = Head(backlog)]
    BY <1>1 DEF Accept, IsLowestFree
  <2>2. /\ backlog # <<>> /\ backlog' = Tail(backlog) /\ peer' = peer
        /\ backlog \in Seq(Conn)
    BY <1>1 DEF Accept, TypeOK
  <2>3. /\ Len(backlog) \in Nat /\ Len(backlog) > 0
        /\ DOMAIN backlog = 1 .. Len(backlog)
        /\ DOMAIN backlog' = 1 .. Len(backlog) - 1
        /\ \A k \in 1 .. Len(backlog) - 1 : backlog'[k] = backlog[k + 1]
        /\ Head(backlog) = backlog[1] /\ Head(backlog) \in Conn
    BY <2>2, HeadTailProperties, LenProperties, EmptySeq
  <2>4. Pending(Head(backlog))
    BY <2>3 DEF Pending
  <2>5. \A c \in Conn : Pending(c)' => Pending(c) /\ c # Head(backlog)
    BY <2>3 DEF Pending, SocketsInv
  <2>6. \A c \in Conn : Accepted(c)' => Accepted(c) \/ c = Head(backlog)
    BY <2>1 DEF Accepted, TypeOK
  <2>7. \A j, k \in DOMAIN backlog' : backlog'[j] = backlog'[k] => j = k
    BY <2>3 DEF SocketsInv
  <2>8. \A e, f \in Open' : owner'[e] = owner'[f] => e = f
    BY <2>1, <2>3, <2>4 DEF SocketsInv, Open, Accepted, TypeOK
  <2>9. \A e \in Open' : peer'[owner'[e]] # "idle"
    BY <2>1, <2>2, <2>3, <2>4 DEF SocketsInv, Open, TypeOK
  <2>10. QED
    BY <2>2, <2>5, <2>6, <2>7, <2>8, <2>9 DEF SocketsInv
<1>2. CASE CloseDescriptor
  BY <1>2, ConnectionsAssumption
  DEF CloseDescriptor, tcpsocket_close, SocketsInv, Pending, Accepted, Open, TypeOK
<1>3. CASE ReceiveReset
  BY <1>3, SocketsUnchanged DEF ReceiveReset, TypeOK
<1>4. CASE \/ CopyConnections \/ Select \/ Scan \/ AddAccepted
           \/ ReceiveData \/ ReceiveClosed \/ ReceiveBadFd
           \/ RemoveClosed \/ BlockGone \/ UnblockClosed
           \/ RemoveClosedAgain \/ BlockConnection \/ StartHandler
  BY <1>4, SocketsUnchanged
  DEF CopyConnections, Select, Scan, AddAccepted, ReceiveData, ReceiveClosed,
      ReceiveBadFd, RemoveClosed, BlockGone, UnblockClosed,
      RemoveClosedAgain, BlockConnection, StartHandler
<1>5. QED
  BY <1>1, <1>2, <1>3, <1>4 DEF MainLoop

-----------------------------------------------------------------------------
(* The loop's side *)

(* What is added to a sequence does not empty it.                          *)
LEMMA AppendedNotEmpty ==
  ASSUME NEW S, NEW s \in Seq(S), NEW t \in Seq(S), s # <<>>
  PROVE  s \o t # <<>>
<1>1. Len(s) \in Nat \ {0}
  BY EmptySeq, Zenon
<1>2. Len(t) \in Nat
  BY LenProperties
<1>3. Len(s \o t) = Len(s) + Len(t)
  BY ConcatProperties, Zenon
<1>4. Len(s \o t) # 0
  BY <1>1, <1>2, <1>3
<1>5. QED
  BY <1>4, EmptySeq

(* A client never makes a ready descriptor not ready.                      *)
LEMMA ClientsReady ==
  ASSUME TypeOK, SocketsInv, Clients, NEW d \in Descriptor, Ready(d)
  PROVE  Ready(d)'
<1>1. PICK c \in Conn : \/ Connect(c) \/ ClientSend(c)
                        \/ ClientShutdown(c) \/ ClientReset(c)
  BY DEF Clients
<1>2. Open' = Open /\ owner' = owner
  BY <1>1 DEF Connect, ClientSend, ClientShutdown, ClientReset, Open
<1>3. CASE d = Listener
  <2>1. CASE Connect(c)
    <3>1. backlog \in Seq(Conn) /\ backlog' = Append(backlog, c)
      BY <2>1 DEF Connect, TypeOK
    <3>2. Append(backlog, c) # <<>>
      BY <3>1, AppendProperties, Zenon
    <3>3. QED
      BY <1>3, <3>1, <3>2 DEF Ready
  <2>2. CASE ~ Connect(c)
    BY <1>1, <1>3, <2>2 DEF ClientSend, ClientShutdown, ClientReset, Ready
  <2>3. QED
    BY <2>1, <2>2
<1>4. CASE d # Listener
  <2>1. d \in Open /\ owner[d] \in Conn /\ peer[owner[d]] # "idle"
    BY <1>4 DEF Ready, SocketsInv, Open, TypeOK
  <2>2. peer[owner[d]] # "open" => peer'[owner[d]] # "open"
    BY <1>1, <2>1 DEF Connect, ClientSend, ClientShutdown, ClientReset, TypeOK
  <2>3. inbox[owner[d]] # <<>> => inbox'[owner[d]] # <<>>
    <3>1. CASE ClientSend(c) /\ c = owner[d]
      <4>1. PICK said \in Traffic[c] :
              inbox' = [inbox EXCEPT
                         ![c] = @ \o SubSeq(said, Len(sent[c]) + 1, Len(said))]
        BY <3>1 DEF ClientSend
      <4>2. said \in Seq(Text) /\ Len(sent[c]) \in Nat
        BY ConnectionsAssumption, LenProperties DEF TypeOK
      <4>3. SubSeq(said, Len(sent[c]) + 1, Len(said)) \in Seq(Text)
        BY <4>2, LenProperties, SubSeqProperties
      <4>4. /\ inbox[c] \in Seq(Text)
            /\ inbox'[c] = inbox[c] \o SubSeq(said, Len(sent[c]) + 1, Len(said))
        BY <4>1 DEF TypeOK
      <4>5. QED
        BY <3>1, <4>3, <4>4, AppendedNotEmpty
    <3>2. CASE ~ (ClientSend(c) /\ c = owner[d])
      BY <1>1, <2>1, <3>2
      DEF Connect, ClientSend, ClientShutdown, ClientReset, TypeOK
    <3>3. QED
      BY <3>1, <3>2
  <2>4. QED
    BY <1>2, <1>4, <2>1, <2>2, <2>3 DEF Ready
<1>5. QED
  BY <1>3, <1>4

(* A client's step leaves the loop where it is.                            *)
LEMMA ClientsLoop ==
  ASSUME TypeOK, SocketsInv, LoopInv,
         Clients, UNCHANGED <<sets, threads, loopState, outbox>>
  PROVE  LoopInv'
<1>1. Open' = Open /\ owner' = owner
  BY DEF Clients, Connect, ClientSend, ClientShutdown, ClientReset, Open
<1>2. \A d \in Descriptor : Ready(d) => Ready(d)'
  BY ClientsReady
<1>3. \A c \in Conn : peer[c] \notin {"idle", "open"} =>
        peer'[c] # "open" /\ inbox'[c] = inbox[c]
  BY DEF Clients, Connect, ClientSend, ClientShutdown, ClientReset, TypeOK
<1>4. \A d \in Open : owner[d] \in Conn /\ peer[owner[d]] # "idle"
  BY DEF Open, SocketsInv, TypeOK
<1>5. main \in {"rmv", "close"} => inbox'[owner[i]] = <<>> /\ peer'[owner[i]] # "open"
  BY <1>3, <1>4 DEF LoopInv
<1>6. QED
  BY <1>1, <1>2, <1>5 DEF LoopInv, AtMessage, AtClosed, Live, TypeOK

(* A handler's step leaves the loop where it is: it unblocks only its own  *)
(* descriptor.                                                             *)
LEMMA EchoLoop ==
  ASSUME TypeOK, LoopInv, HandlersInv, NEW t \in Thread, Echo(t)
  PROVE  LoopInv'
<1>1. /\ Open' = Open
      /\ \A d \in Descriptor : Ready(d)' <=> Ready(d)
  BY DEF Echo, EchoSend, EchoUnblock, Open, Ready
<1>2. \A u \in Live' : u \in Live /\ data'[u] = data[u]
  BY DEF Echo, EchoSend, EchoUnblock, Live, TypeOK
<1>3. At("spawn") => i \in blocked'
  BY DEF Echo, EchoSend, EchoUnblock, connection_unblock, LoopInv, AtMessage, Live
<1>4. UNCHANGED <<owner, inbox, peer, connections, readable, loopState>>
  BY DEF Echo, EchoSend, EchoUnblock
<1>5. QED
  BY <1>1, <1>2, <1>3, <1>4 DEF LoopInv, AtMessage, AtClosed, TypeOK

(* Where the loop may be after it leaves a descriptor.                     *)
LEMMA NextDescriptorMoves ==
  ASSUME TypeOK, NextDescriptor
  PROVE  \/ main' = "scan" /\ i' > i /\ i' = i + 1
         \/ main' = "copy"
BY ConnectionsAssumption DEF NextDescriptor, TypeOK, Descriptor

(* A step that leaves a descriptor keeps the loop's side, when it keeps    *)
(* what is watched open and what is still to visit ready.                  *)
LEMMA NextDescriptorLoop ==
  ASSUME TypeOK, NextDescriptor,
         connections' \subseteq {Listener} \cup Open',
         main \notin {"copy", "select"} =>
           \A d \in readable : d > i => Ready(d)',
         main \notin {"copy", "select"},
         readable' = readable
  PROVE  LoopInv'
<1>1. CASE main' = "copy"
  BY <1>1 DEF LoopInv, AtMessage, AtClosed
<1>2. CASE main' = "scan" /\ i' = i + 1
  <2>1. \A d \in readable : d > i' \/ d = i' => Ready(d)'
    BY <1>2, ConstantsType DEF TypeOK
  <2>2. QED
    BY <1>2, <2>1 DEF LoopInv, AtMessage, AtClosed
<1>3. QED
  BY <1>1, <1>2, NextDescriptorMoves

(* Each step of the loop keeps the loop's side.                            *)
LEMMA MainLoopLoop ==
  ASSUME TypeOK, SocketsInv, LoopInv, HandlersInv, MainLoop
  PROVE  LoopInv'
<1> USE DEF LoopInv, AtMessage, AtClosed
<1>1. CASE CopyConnections
  BY <1>1 DEF CopyConnections, Open
<1>2. CASE Select
  <2>1. readable' = {d \in readable : Ready(d)} /\ \A d \in readable : Ready(d)' <=> Ready(d)
    BY <1>2, ConstantsType DEF Select, TypeOK, Open, Ready
  <2>2. QED
    BY <1>2, <2>1 DEF Select, Open
<1>3. CASE Scan
  <2>1. Open' = Open /\ \A d \in readable : Ready(d)' <=> Ready(d)
    BY <1>3 DEF Scan, Open, Ready
  <2>2. CASE Attends(i)
    <3>1. i # Listener => i \in Fd
      BY ConnectionsAssumption DEF TypeOK, Descriptor, Fd
    <3>2. \A t \in Live : data[t].socketd # i
      BY <2>2 DEF Attends, HandlersInv
    <3>3. QED
      BY <1>3, <2>1, <2>2, <3>1, <3>2 DEF Scan, Attends, Live
  <2>3. CASE ~ Attends(i)
    <3>1. NextDescriptor /\ UNCHANGED <<connections, readable>>
      BY <1>3, <2>3 DEF Scan
    <3>2. QED
      BY <1>3, <2>1, <3>1, NextDescriptorLoop DEF Scan
  <2>4. QED
    BY <2>2, <2>3
<1>4. CASE Accept
  <2>1. PICK d \in Fd : /\ owner[d] = NoConn /\ acceptd' = d
                        /\ owner' = [owner EXCEPT ![d] = Head(backlog)]
    BY <1>4 DEF Accept, IsLowestFree
  <2>2. Head(backlog) \in Conn
    BY <1>4, HeadTailProperties DEF Accept, TypeOK
  <2>3. Open' = Open \cup {d} /\ d \notin Open
    BY <2>1, <2>2, ConnectionsAssumption DEF Open, TypeOK
  <2>4. \A e \in readable : e > i => e \in Open /\ Ready(e)
    BY <1>4, ConstantsType DEF Accept, Ready, TypeOK
  <2>5. \A e \in readable : e > i => Ready(e)'
    BY <1>4, <2>1, <2>3, <2>4, ConstantsType DEF Accept, Ready, Open, TypeOK
  <2>6. QED
    BY <1>4, <2>1, <2>3, <2>5 DEF Accept
<1>5. CASE AddAccepted
  <2>1. Open' = Open /\ \A d \in readable : Ready(d)' <=> Ready(d)
    BY <1>5 DEF AddAccepted, Open, Ready
  <2>2. connections' \subseteq {Listener} \cup Open
    BY <1>5 DEF AddAccepted, connection_add
  <2>3. QED
    BY <1>5, <2>1, <2>2, NextDescriptorLoop DEF AddAccepted
<1>6. CASE ReceiveData
  <2>1. /\ i \in Open /\ owner[i] \in Conn /\ Open' = Open /\ owner' = owner
        /\ \A c \in Conn : c # owner[i] => inbox'[c] = inbox[c]
        /\ peer' = peer /\ backlog' = backlog
    BY <1>6 DEF ReceiveData, Open, TypeOK
  <2>2. \A d \in readable : d > i /\ Ready(d) => Ready(d)'
    BY <2>1, ConstantsType DEF Ready, SocketsInv, Open, TypeOK
  <2>3. rcvd'.socketd = i /\ rcvd'.conn = owner[i]
    BY <1>6 DEF ReceiveData
  <2>4. QED
    BY <1>6, <2>1, <2>2, <2>3 DEF ReceiveData, Live
<1>7. CASE ReceiveClosed
  <2>1. Open' = Open /\ \A d \in readable : Ready(d)' <=> Ready(d)
    BY <1>7 DEF ReceiveClosed, Open, Ready
  <2>2. QED
    BY <1>7, <2>1 DEF ReceiveClosed, Live
<1>8. CASE ReceiveReset
  <2>1. /\ Open' = Open /\ owner' = owner /\ UNCHANGED <<inbox, backlog>>
        /\ \A c \in Conn : peer'[c] = "open" => peer[c] = "open"
        /\ \A d \in Open : owner[d] \in Conn
    BY <1>8 DEF ReceiveReset, Open, TypeOK
  <2>2. \A d \in readable : Ready(d) => Ready(d)'
    BY <2>1 DEF Ready
  <2>3. QED
    BY <1>8, <2>1, <2>2, NextDescriptorLoop DEF ReceiveReset
<1>9. CASE ReceiveBadFd
  <2>1. Open' = Open /\ \A d \in readable : Ready(d)' <=> Ready(d)
    BY <1>9 DEF ReceiveBadFd, Open, Ready
  <2>2. QED
    BY <1>9, <2>1, NextDescriptorLoop DEF ReceiveBadFd
<1>10. CASE RemoveClosed
  <2>1. Open' = Open /\ \A d \in readable : Ready(d)' <=> Ready(d)
    BY <1>10 DEF RemoveClosed, Open, Ready
  <2>2. QED
    BY <1>10, <2>1, EchoAssumption DEF RemoveClosed, connection_rmv, Live
<1>11. CASE BlockGone
  BY <1>11 DEF BlockGone
<1>12. CASE CloseDescriptor
  <2>1. Open' = Open \ {i} /\ \A d \in Open' : owner'[d] = owner[d]
    BY <1>12 DEF CloseDescriptor, tcpsocket_close, Open, TypeOK
  <2>2. \A d \in readable : d > i /\ Ready(d) => Ready(d)'
    <3>1. \A d \in readable : d > i => d # i
      BY ConstantsType DEF TypeOK
    <3>2. \A d \in Open : d # i => d \in Open' /\ owner'[d] = owner[d]
      BY <2>1
    <3>3. QED
      BY <1>12, <3>1, <3>2 DEF CloseDescriptor, Ready
  <2>3. QED
    BY <1>12, <2>1, <2>2 DEF CloseDescriptor, Live
<1>13. CASE UnblockClosed
  <2>1. Open' = Open /\ \A d \in readable : Ready(d)' <=> Ready(d)
    BY <1>13 DEF UnblockClosed, Open, Ready
  <2>2. QED
    BY <1>13, <2>1 DEF UnblockClosed, Live
<1>14. CASE RemoveClosedAgain
  <2>1. Open' = Open /\ \A d \in readable : Ready(d)' <=> Ready(d)
    BY <1>14 DEF RemoveClosedAgain, Open, Ready
  <2>2. QED
    BY <1>14, <2>1, NextDescriptorLoop DEF RemoveClosedAgain, connection_rmv
<1>15. CASE BlockConnection
  <2>1. Open' = Open /\ \A d \in readable : Ready(d)' <=> Ready(d)
    BY <1>15 DEF BlockConnection, Open, Ready
  <2>2. QED
    BY <1>15, <2>1 DEF BlockConnection, connection_block, Live
<1>16. CASE StartHandler
  <2>1. Open' = Open /\ \A d \in readable : Ready(d)' <=> Ready(d)
    BY <1>16 DEF StartHandler, Open, Ready
  <2>2. QED
    BY <1>16, <2>1, NextDescriptorLoop DEF StartHandler
<1>17. QED
  BY <1>1, <1>2, <1>3, <1>4, <1>5, <1>6, <1>7, <1>8, <1>9, <1>10, <1>11,
     <1>12, <1>13, <1>14, <1>15, <1>16 DEF MainLoop

-----------------------------------------------------------------------------
(* The threads' side *)

(* Nothing changes for the handlers while their descriptors stay blocked   *)
(* and denote the same connections.                                        *)
LEMMA HandlersUnchanged ==
  ASSUME TypeOK, HandlersInv, UNCHANGED threads,
         \A t \in Live : /\ data[t].socketd \in blocked'
                         /\ owner'[data[t].socketd] = owner[data[t].socketd]
  PROVE  HandlersInv'
BY DEF HandlersInv, Live, Open

(* The loop blocks the descriptor of a handler before it starts it, and    *)
(* closes and unblocks only descriptors without a handler.                 *)
LEMMA MainLoopHandlers ==
  ASSUME TypeOK, LoopInv, HandlersInv, MainLoop
  PROVE  HandlersInv'
<1>1. CASE Accept
  <2>1. PICK d \in Fd : /\ owner[d] = NoConn
                        /\ owner' = [owner EXCEPT ![d] = Head(backlog)]
    BY <1>1 DEF Accept, IsLowestFree
  <2>2. \A e \in Open : owner'[e] = owner[e]
    BY <2>1 DEF Open, TypeOK
  <2>3. QED
    BY <1>1, <2>2, HandlersUnchanged DEF Accept, HandlersInv
<1>2. CASE CloseDescriptor
  <2>1. \A t \in Live : data[t].socketd \in Open /\ data[t].socketd # i
    BY <1>2 DEF CloseDescriptor, LoopInv, AtClosed, HandlersInv
  <2>2. \A e \in Open : e # i => owner'[e] = owner[e]
    BY <1>2 DEF CloseDescriptor, tcpsocket_close, Open, TypeOK
  <2>3. QED
    BY <1>2, <2>1, <2>2, HandlersUnchanged DEF CloseDescriptor, HandlersInv
<1>3. CASE UnblockClosed
  BY <1>3, HandlersUnchanged
  DEF UnblockClosed, connection_unblock, LoopInv, AtClosed, HandlersInv
<1>4. CASE BlockConnection \/ BlockGone
  BY <1>4, HandlersUnchanged
  DEF BlockConnection, BlockGone, connection_block, HandlersInv
<1>5. CASE StartHandler
  <2>1. PICK t \in Thread : /\ pc[t] = "free"
                            /\ pc' = [pc EXCEPT ![t] = "start"]
                            /\ data' = [data EXCEPT ![t] = rcvd]
    BY <1>5 DEF StartHandler
  <2>2. /\ i \in Open \cap blocked
        /\ rcvd.socketd = i /\ rcvd.conn = owner[i]
        /\ \A u \in Live : data[u].socketd # i
    BY <1>5 DEF StartHandler, LoopInv, AtMessage
  <2>3. \A u \in Live' : u = t \/ (u \in Live /\ data'[u] = data[u])
    BY <2>1 DEF Live, TypeOK
  <2>4. data'[t] = rcvd
    BY <2>1 DEF TypeOK
  <2>5. UNCHANGED <<owner, blocked>> /\ Open' = Open
    BY <1>5 DEF StartHandler, Open
  <2>6. QED
    BY <2>2, <2>3, <2>4, <2>5 DEF HandlersInv
<1>6. CASE \/ CopyConnections \/ Select \/ Scan \/ AddAccepted
           \/ ReceiveData \/ ReceiveClosed \/ ReceiveReset \/ ReceiveBadFd
           \/ RemoveClosed \/ RemoveClosedAgain
  BY <1>6, HandlersUnchanged
  DEF CopyConnections, Select, Scan, AddAccepted, ReceiveData, ReceiveClosed,
      ReceiveReset, ReceiveBadFd, RemoveClosed, RemoveClosedAgain, HandlersInv
<1>7. QED
  BY <1>1, <1>2, <1>3, <1>4, <1>5, <1>6 DEF MainLoop

(* A handler's last step unblocks a descriptor no other handler has.       *)
LEMMA EchoHandlers ==
  ASSUME TypeOK, HandlersInv, NEW t \in Thread, Echo(t)
  PROVE  HandlersInv'
<1>1. Open' = Open /\ owner' = owner
  BY DEF Echo, EchoSend, EchoUnblock, Open
<1>2. CASE EchoSend(t)
  <2>1. Live' = Live /\ UNCHANGED <<data, blocked>>
    BY <1>2 DEF EchoSend, Live, TypeOK
  <2>2. QED
    BY <1>1, <2>1 DEF HandlersInv
<1>3. CASE EchoUnblock(t)
  <2>1. /\ t \in Live
        /\ \A u \in Live' : u \in Live /\ u # t /\ data'[u] = data[u]
    BY <1>3 DEF EchoUnblock, Live, TypeOK
  <2>2. blocked' = blocked \ {data[t].socketd}
    BY <1>3 DEF EchoUnblock, connection_unblock
  <2>3. QED
    BY <1>1, <2>1, <2>2 DEF HandlersInv
<1>4. QED
  BY <1>2, <1>3 DEF Echo

-----------------------------------------------------------------------------
(* The invariant and what follows from it *)

(* The invariant holds at first.                                           *)
LEMMA InitInv == Init => IndInv
<1> SUFFICES ASSUME Init PROVE IndInv
  OBVIOUS
<1>1. TypeOK
  BY InitType
<1>2. Open = {} /\ Live = {}
  BY DEF Init, ServerInit, ConnectionsInit, Open, Live
<1>3. SocketsInv
  BY <1>2 DEF Init, ServerInit, ConnectionsInit, SocketsInv, Pending
<1>4. LoopInv
  BY <1>2 DEF Init, ServerInit, ConnectionsInit, LoopInv, AtMessage, AtClosed
<1>5. HandlersInv
  BY <1>2 DEF HandlersInv
<1>6. QED
  BY <1>1, <1>3, <1>4, <1>5 DEF IndInv

(* Every step keeps it.                                                    *)
LEMMA NextInv == IndInv /\ [Next]_vars => IndInv'
<1> SUFFICES ASSUME IndInv, [Next]_vars PROVE IndInv'
  OBVIOUS
<1> USE DEF IndInv
<1>1. CASE Clients /\ UNCHANGED <<sets, threads, loopState, outbox>>
  <2>1. \A t \in Live : owner'[data[t].socketd] = owner[data[t].socketd]
    BY <1>1 DEF Clients, Connect, ClientSend, ClientShutdown, ClientReset
  <2>2. HandlersInv'
    BY <1>1, <2>1, HandlersUnchanged DEF HandlersInv
  <2>3. QED
    BY <1>1, <2>2, ClientsType, ClientsSockets, ClientsLoop
<1>2. CASE MainLoop /\ UNCHANGED outbox
  BY <1>2, MainLoopType, MainLoopSockets, MainLoopLoop, MainLoopHandlers
<1>3. CASE \E t \in Thread : Echo(t)
  <2>1. PICK t \in Thread : Echo(t)
    BY <1>3
  <2>2. SocketsInv'
    BY <2>1, SocketsUnchanged DEF Echo, EchoSend, EchoUnblock
  <2>3. QED
    BY <2>1, <2>2, EchoType, EchoLoop, EchoHandlers
<1>4. CASE UNCHANGED vars
  BY <1>4
  DEF vars, TypeOK, SocketsInv, LoopInv, HandlersInv, Pending, Accepted, Open,
      AtMessage, AtClosed, Ready, Live
<1>5. QED
  BY <1>1, <1>2, <1>3, <1>4 DEF Next

(* The fd_sets, the descriptors and the threads agree at every step of the *)
(* loop, whatever the threads and the clients do.                          *)
THEOREM Invariance == Spec => []IndInv
BY InitInv, NextInv, PTL DEF Spec

(* No descriptor ever has two handlers.                                    *)
THEOREM OneHandler == Spec => []OneHandlerPerConnection
<1>1. IndInv => OneHandlerPerConnection
  BY DEF IndInv, HandlersInv, OneHandlerPerConnection
<1>2. QED
  BY <1>1, Invariance, PTL

(* A handler answers the connection that its message came from.            *)
THEOREM KeepsConnection == Spec => []HandlerKeepsConnection
<1>1. IndInv => HandlerKeepsConnection
  BY DEF IndInv, HandlersInv, HandlerKeepsConnection
<1>2. QED
  BY <1>1, Invariance, PTL

(* The failure of select that the code ignores does not happen.            *)
THEOREM SelectsOpen == Spec => []SelectsOpenDescriptors
<1>1. IndInv => SelectsOpenDescriptors
  BY DEF IndInv, LoopInv, SelectsOpenDescriptors
<1>2. QED
  BY <1>1, Invariance, PTL

(* The loop never blocks in accept or recv.                                *)
THEOREM NeverStalls == Spec => []LoopNeverStalls
<1>1. IndInv => LoopNeverStalls
  BY DEF IndInv, LoopInv, LoopNeverStalls
<1>2. QED
  BY <1>1, Invariance, PTL

=============================================================================
