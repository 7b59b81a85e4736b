--------------------------- MODULE SslServerProofs ---------------------------
(***************************************************************************)
(* What holds of the SSL echo server for any number of connections,        *)
(* threads and descriptors, any sizes of records and of the buffer, and    *)
(* whoever does not answer the handshake.  Where the SSL server does what  *)
(* the echo server does, the lemmas of EchoServerProofs and                *)
(* EchoOrderProofs are used; what is new is the handshake and SSL_read.    *)
(***************************************************************************)
EXTENDS SslServer, EchoOrderProofs

USE DEF At, Goto, kernel, sets, threads, loopState, ssl

-----------------------------------------------------------------------------
(* The steps that the SSL server adds *)

(* recv, of a channel whose handshake failed.                              *)
FailedRead ==
  /\ At("recv") /\ secure[i] = "failed"
  /\ NextDescriptor
  /\ UNCHANGED <<kernel, sets, threads, acceptd, rcvd, ssl>>

NewStep == Handshake \/ SslRead \/ FailedRead

(* The other steps are the echo server's.                                  *)
LEMMA SharedSteps ==
  [SslNext]_sslVars => [Next]_vars \/ (NewStep /\ UNCHANGED outbox)
<1> SUFFICES ASSUME [SslNext]_sslVars, ~ (NewStep /\ UNCHANGED outbox)
             PROVE  [Next]_vars
  OBVIOUS
<1>1. CASE SslClients /\ UNCHANGED <<sets, threads, loopState, outbox>>
  BY <1>1 DEF SslClients, SslSend, Clients, Next
<1>2. CASE SslLoop
  BY <1>2
  DEF SslLoop, SslAccept, SslAdd, SslReadClosed, SslReadFails, SameAsServer,
      NewStep, FailedRead, MainLoop, Next
<1>3. CASE \E t \in Thread : Echo(t) /\ UNCHANGED ssl
  BY <1>3 DEF Next
<1>4. CASE UNCHANGED sslVars
  BY <1>4 DEF sslVars
<1>5. QED
  BY <1>1, <1>2, <1>3, <1>4 DEF SslNext

(* Lengths: of a difference, and of the lesser of two.                     *)
LEMMA MinOfTwo ==
  ASSUME NEW k \in Nat, NEW l \in Nat
  PROVE  Min({k, l}) \in 0 .. l
<1>1. \E m \in {k, l} : \A o \in {k, l} : m <= o
  OBVIOUS
<1>2. Min({k, l}) \in {k, l} /\ \A o \in {k, l} : Min({k, l}) <= o
  BY <1>1 DEF Min
<1>3. QED
  BY <1>2

(* The first record ends inside the inbox.                                 *)
LEMMA FirstRecord ==
  ASSUME SslIndInv, NEW c \in Conn, inbox[c] # <<>>
  PROVE  /\ records[c] # <<>> /\ Head(records[c]) = records[c][1]
         /\ 1 \in DOMAIN records[c]
         /\ Head(records[c]) - Taken(c) \in 1 .. Len(inbox[c])
<1>1. records[c] # <<>> /\ records[c] \in Seq(Nat \ {0})
  BY DEF SslIndInv, RecordsInv, SslTypeOK
<1>2. Len(records[c]) \in Nat \ {0}
  BY <1>1, EmptySeq
<1>3. 1 \in DOMAIN records[c] /\ Head(records[c]) = records[c][1]
  BY <1>1, <1>2, LenProperties
<1>4. Taken(c) < records[c][1] /\ records[c][1] <= Len(sent[c])
  BY <1>3 DEF SslIndInv, RecordsInv
<1>5. Len(inbox[c]) \in Nat /\ Len(sent[c]) \in Nat /\ records[c][1] \in Nat
  BY <1>1, <1>2, LenProperties, ElementOfSeq DEF SslIndInv, SslTypeOK, TypeOK
<1>6. \A all, left, end \in Nat :
        all - left < end /\ end <= all => end - (all - left) \in 1 .. left
  OBVIOUS
<1>7. records[c][1] - Taken(c) \in 1 .. Len(inbox[c])
  BY <1>4, <1>5, <1>6 DEF Taken
<1>8. QED
  BY <1>1, <1>3, <1>7, Zenon

(* SSL_read takes one record from the socket, or what is left of one, and  *)
(* keeps what the buffer of the caller has no room for.                    *)
LEMMA SslReadTakes ==
  ASSUME SslIndInv, SslRead
  PROVE  \E c \in Conn, read \in Seq(Text) : \E n \in 0 .. Len(read) :
           /\ i \in Open /\ c = owner[i]
           /\ rcvd' = [socketd |-> i, conn |-> c, msg |-> SubSeq(read, 1, n)]
           /\ buffer' = [buffer EXCEPT ![i] = SubSeq(read, n + 1, Len(read))]
           /\ \/ /\ read = buffer[i]
                 /\ UNCHANGED <<inbox, records>>
              \/ /\ buffer[i] = <<>> /\ inbox[c] # <<>>
                 /\ Len(read) = Head(records[c]) - Taken(c)
                 /\ read = SubSeq(inbox[c], 1, Len(read))
                 /\ inbox' = [inbox EXCEPT
                                ![c] = SubSeq(@, Len(read) + 1, Len(@))]
                 /\ records' = [records EXCEPT ![c] = Tail(@)]
<1>1. i \in Open /\ owner[i] \in Conn /\ i \in Fd
  BY DEF SslRead, SslIndInv, IndInv, LoopInv, Ready, TypeOK, Open, Fd
<1>2. PICK c \in Conn : c = owner[i]
  BY <1>1
<1> DEFINE fresh == buffer[i] = <<>>
           h == Head(records[c]) - Taken(c)
           read == IF fresh THEN SubSeq(inbox[c], 1, h) ELSE buffer[i]
           n == Min({Room, Len(read)})
<1>3. /\ fresh => inbox[c] # <<>>
      /\ rcvd' = [socketd |-> i, conn |-> c, msg |-> SubSeq(read, 1, n)]
      /\ buffer' = [buffer EXCEPT ![i] = SubSeq(read, n + 1, Len(read))]
      /\ IF fresh
         THEN /\ inbox' = [inbox EXCEPT ![c] = SubSeq(@, Len(read) + 1, Len(@))]
              /\ records' = [records EXCEPT ![c] = Tail(@)]
         ELSE UNCHANGED <<inbox, records>>
  BY <1>2 DEF SslRead
<1>4. buffer[i] \in Seq(Text) /\ inbox[c] \in Seq(Text)
  BY <1>1 DEF SslIndInv, SslTypeOK, TypeOK
<1>5. fresh => h \in 1 .. Len(inbox[c])
  BY <1>3, FirstRecord
<1>6. fresh => SubSeq(inbox[c], 1, h) \in Seq(Text) /\ Len(SubSeq(inbox[c], 1, h)) = h
  BY <1>4, <1>5, LenProperties, SubSeqProperties
<1>7. read \in Seq(Text) /\ Len(read) \in Nat
  BY <1>4, <1>6, LenProperties
<1>8. n \in 0 .. Len(read)
  BY <1>7, MinOfTwo, SslAssumption
<1>9. fresh => Len(read) = h /\ read = SubSeq(inbox[c], 1, Len(read))
  BY <1>6
<1> HIDE DEF read, n, h
<1>10. CASE fresh
  <2>1. /\ buffer[i] = <<>> /\ inbox[c] # <<>>
        /\ Len(read) = Head(records[c]) - Taken(c)
        /\ read = SubSeq(inbox[c], 1, Len(read))
        /\ inbox' = [inbox EXCEPT ![c] = SubSeq(@, Len(read) + 1, Len(@))]
        /\ records' = [records EXCEPT ![c] = Tail(@)]
    BY <1>3, <1>9, <1>10 DEF h
  <2>2. QED
    BY <1>1, <1>2, <1>3, <1>7, <1>8, <2>1
<1>11. CASE ~ fresh
  <2>1. read = buffer[i] /\ UNCHANGED <<inbox, records>>
    BY <1>3, <1>11 DEF read
  <2>2. QED
    BY <1>1, <1>2, <1>3, <1>7, <1>8, <2>1
<1>12. QED
  BY <1>10, <1>11

-----------------------------------------------------------------------------
(* The echo server's invariant holds of the SSL server *)

(* SSL_read leaves the sockets, the fd_sets and the threads as recv does.  *)
LEMMA SslReadInv ==
  ASSUME SslIndInv, SslRead, UNCHANGED outbox
  PROVE  IndInv'
<1> USE DEF SslIndInv, IndInv
<1>1. PICK c \in Conn, read \in Seq(Text) : \E n \in 0 .. Len(read) :
        /\ i \in Open /\ c = owner[i]
        /\ rcvd' = [socketd |-> i, conn |-> c, msg |-> SubSeq(read, 1, n)]
        /\ \/ inbox' = inbox
           \/ inbox' = [inbox EXCEPT ![c] = SubSeq(@, Len(read) + 1, Len(@))]
  BY SslReadTakes
<1>2. PICK n \in 0 .. Len(read) :
        rcvd' = [socketd |-> i, conn |-> c, msg |-> SubSeq(read, 1, n)]
  BY <1>1
<1>3. /\ At("recv") /\ main' = "block" /\ i' = i
      /\ UNCHANGED <<peer, backlog, owner, sent, sets, threads, acceptd>>
  BY DEF SslRead
<1>4. TypeOK'
  <2>1. SubSeq(read, 1, n) \in Seq(Text)
    BY LenProperties, SubSeqProperties
  <2>2. rcvd' \in Data
    BY <1>2, <2>1 DEF TypeOK, Data
  <2>3. SubSeq(inbox[c], Len(read) + 1, Len(inbox[c])) \in Seq(Text)
    <3>1. inbox[c] \in Seq(Text) /\ Len(read) \in Nat
      BY LenProperties DEF TypeOK
    <3>2. QED
      BY <3>1, LenProperties, SubSeqProperties
  <2>4. inbox' \in [Conn -> Seq(Text)]
    BY <1>1, <2>3 DEF TypeOK
  <2>5. QED
    BY <1>3, <2>2, <2>4 DEF TypeOK, MainState
<1>5. SocketsInv'
  BY <1>3, SocketsUnchanged
<1>6. HandlersInv'
  BY <1>3, HandlersUnchanged DEF HandlersInv
<1>7. LoopInv'
  <2>1. Open' = Open /\ \A b \in Conn : b # c => inbox'[b] = inbox[b]
    BY <1>1, <1>3 DEF Open, TypeOK
  <2>2. \A d \in readable : d > i /\ Ready(d) => Ready(d)'
    <3>1. i \in Open /\ c = owner[i]
      BY <1>1
    <3>2. \A d \in Open : d # i => owner[d] \in Conn /\ owner[d] # c
      BY <3>1 DEF SocketsInv, Open, TypeOK
    <3>3. \A d \in readable : d > i => d # i
      BY ConstantsType DEF TypeOK
    <3>4. QED
      BY <1>3, <2>1, <3>2, <3>3 DEF Ready
  <2>3. rcvd'.socketd = i /\ rcvd'.conn = owner[i]
    BY <1>1
  <2>4. QED
    BY <1>1, <1>3, <2>1, <2>2, <2>3 DEF LoopInv, AtMessage, AtClosed, Live
<1>8. QED
  BY <1>4, <1>5, <1>6, <1>7

(* The handshake can only find that a client has gone.                     *)
LEMMA HandshakeInv ==
  ASSUME SslIndInv, Handshake, UNCHANGED outbox
  PROVE  IndInv'
<1> USE DEF SslIndInv, IndInv
<1>1. /\ peer' = [peer EXCEPT ![owner[acceptd]] =
                    IF @ = "reset" THEN "broken" ELSE @]
      /\ UNCHANGED <<backlog, owner, inbox, sent, sets, threads, loopState>>
  BY DEF Handshake
<1>2. \A c \in Conn : \/ peer'[c] = peer[c]
                      \/ peer[c] = "reset" /\ peer'[c] = "broken"
  BY <1>1 DEF TypeOK
<1>3. TypeOK'
  BY <1>1 DEF TypeOK, PeerState
<1>4. SocketsInv'
  BY <1>1, <1>2, SocketsUnchanged
<1>5. HandlersInv'
  BY <1>1, HandlersUnchanged DEF HandlersInv
<1>6. LoopInv'
  <2>1. Open' = Open /\ \A d \in Open : owner[d] \in Conn
    BY <1>1 DEF Open, TypeOK
  <2>2. \A d \in readable : Ready(d) => Ready(d)'
    BY <1>1, <1>2, <2>1 DEF Ready
  <2>3. main \in {"rmv", "close"} => peer'[owner[i]] # "open"
    BY <1>2, <2>1 DEF LoopInv
  <2>4. QED
    BY <1>1, <2>1, <2>2, <2>3 DEF LoopInv, AtMessage, AtClosed, Live
<1>7. QED
  BY <1>3, <1>4, <1>5, <1>6

(* A failed read leaves the descriptor as it is, and the loop goes on.     *)
LEMMA FailedReadInv ==
  ASSUME SslIndInv, FailedRead, UNCHANGED outbox
  PROVE  IndInv'
<1> USE DEF SslIndInv, IndInv
<1>1. /\ At("recv") /\ NextDescriptor
      /\ UNCHANGED <<kernel, sets, threads, acceptd, rcvd>>
  BY DEF FailedRead
<1>2. TypeOK'
  BY <1>1, NextDescriptorType DEF TypeOK, MainState
<1>3. SocketsInv'
  BY <1>1, SocketsUnchanged
<1>4. HandlersInv'
  BY <1>1, HandlersUnchanged DEF HandlersInv
<1>5. Open' = Open /\ \A d \in readable : Ready(d)' <=> Ready(d)
  BY <1>1 DEF Open, Ready
<1>6. LoopInv'
  BY <1>1, <1>5, NextDescriptorLoop DEF LoopInv
<1>7. QED
  BY <1>2, <1>3, <1>4, <1>6

(* So the loop, the handlers and the clients keep what the echo server's   *)
(* invariant says.                                                         *)
LEMMA SslLoopInv == SslIndInv /\ [SslNext]_sslVars => IndInv'
<1> SUFFICES ASSUME SslIndInv, [SslNext]_sslVars PROVE IndInv'
  OBVIOUS
<1>1. CASE [Next]_vars
  BY <1>1, NextInv DEF SslIndInv
<1>2. CASE NewStep /\ UNCHANGED outbox
  BY <1>2, SslReadInv, HandshakeInv, FailedReadInv DEF NewStep
<1>3. QED
  BY <1>1, <1>2, SharedSteps

-----------------------------------------------------------------------------
(* The SSL objects and the records *)

(* What the steps do to a client's socket: one record more, one less, or   *)
(* nothing.                                                                *)
LEMMA RecordSteps ==
  ASSUME SslIndInv, [SslNext]_sslVars
  PROVE  \/ UNCHANGED <<sent, inbox, records>>
         \/ \E c \in Conn : SslSend(c) /\ UNCHANGED <<secure, buffer>>
         \/ SslRead
BY DEF SslNext, sslVars, vars, SslClients, Connect, ClientShutdown, ClientReset,
       SslLoop, SslAccept, Handshake, SslAdd, SslReadClosed, SslReadFails,
       SameAsServer, CopyConnections, Select, Scan, Accept, AddAccepted,
       ReceiveClosed, ReceiveReset, RemoveClosed, CloseDescriptor,
       UnblockClosed, RemoveClosedAgain, BlockConnection, StartHandler,
       Echo, EchoSend, EchoUnblock

(* The record that a client sends.                                         *)
LEMMA SslSendRecord ==
  ASSUME SslIndInv, NEW c \in Conn, SslSend(c)
  PROVE  /\ records' = [records EXCEPT ![c] = Append(@, Len(sent'[c]))]
         /\ Len(sent'[c]) \in Nat /\ Len(sent[c]) < Len(sent'[c])
         /\ Len(inbox'[c]) = Len(inbox[c]) + (Len(sent'[c]) - Len(sent[c]))
         /\ \A b \in Conn \ {c} : sent'[b] = sent[b] /\ inbox'[b] = inbox[b]
<1>1. PICK said \in Traffic[c] :
        /\ Len(sent[c]) < Len(said)
        /\ sent' = [sent EXCEPT ![c] = said]
        /\ inbox' = [inbox EXCEPT
                       ![c] = @ \o SubSeq(said, Len(sent[c]) + 1, Len(said))]
  BY DEF SslSend, ClientSend
<1>2. /\ said \in Seq(Text) /\ sent[c] \in Seq(Text) /\ inbox[c] \in Seq(Text)
      /\ Len(said) \in Nat /\ Len(sent[c]) \in Nat /\ Len(inbox[c]) \in Nat
  BY ConnectionsAssumption, LenProperties DEF SslIndInv, SslTypeOK, TypeOK
<1> DEFINE more == SubSeq(said, Len(sent[c]) + 1, Len(said))
<1>3. more \in Seq(Text) /\ Len(more) = Len(said) - Len(sent[c])
  <2>1. \A k \in Nat : k < Len(said) =>
          LET end == SubSeq(said, k + 1, Len(said)) IN
          end \in Seq(Text) /\ Len(end) = Len(said) - k
    BY <1>2, LenProperties, SubSeqProperties
  <2>2. QED
    BY <1>1, <1>2, <2>1, Zenon
<1>4. Len(inbox[c] \o more) = Len(inbox[c]) + Len(more)
  BY <1>2, <1>3, ConcatProperties
<1>5. sent'[c] = said /\ inbox'[c] = inbox[c] \o more
  BY <1>1 DEF SslIndInv, SslTypeOK, TypeOK
<1>6. \A b \in Conn \ {c} : sent'[b] = sent[b] /\ inbox'[b] = inbox[b]
  BY <1>1 DEF SslIndInv, SslTypeOK, TypeOK
<1>7. records' = [records EXCEPT ![c] = Append(@, Len(sent'[c]))]
  BY DEF SslSend
<1>8. QED
  BY <1>1, <1>2, <1>3, <1>4, <1>5, <1>6, <1>7

(* Every variable keeps its type.                                          *)
LEMMA SslTypeNext ==
  ASSUME SslIndInv, IndInv', [SslNext]_sslVars
  PROVE  SslTypeOK'
<1> USE DEF SslIndInv, SslTypeOK
<1>1. TypeOK'
  BY DEF IndInv
<1>2. secure' \in [Fd -> Secure]
  BY DEF SslNext, sslVars, SslClients, SslLoop, SslAccept, Handshake, SslAdd,
         SslRead, SslReadClosed, SslReadFails, Secure
<1>3. buffer' \in [Fd -> Seq(Text)]
  <2>1. CASE SslRead
    <3>1. PICK read \in Seq(Text) : \E n \in 0 .. Len(read) :
            buffer' = [buffer EXCEPT ![i] = SubSeq(read, n + 1, Len(read))]
      BY <2>1, SslReadTakes
    <3>2. PICK n \in 0 .. Len(read) :
            buffer' = [buffer EXCEPT ![i] = SubSeq(read, n + 1, Len(read))]
      BY <3>1
    <3>3. SubSeq(read, n + 1, Len(read)) \in Seq(Text)
      BY LenProperties, SubSeqProperties
    <3>4. QED
      BY <3>2, <3>3
  <2>2. CASE ~ SslRead
    <3>1. \/ buffer' = buffer
          \/ buffer' = [buffer EXCEPT ![acceptd'] = <<>>]
      BY <2>2 DEF SslNext, sslVars, SslClients, SslLoop, SslAccept, Handshake,
                  SslAdd, SslReadClosed, SslReadFails
    <3>2. QED
      BY <3>1, EmptySeq
  <2>3. QED
    BY <2>1, <2>2
<1>4. records' \in [Conn -> Seq(Nat \ {0})]
  <2>1. CASE SslRead
    <3>1. \/ records' = records
          \/ \E c \in Conn : /\ inbox[c] # <<>>
                             /\ records' = [records EXCEPT ![c] = Tail(@)]
      BY <2>1, SslReadTakes
    <3>2. \A c \in Conn : inbox[c] # <<>> => Tail(records[c]) \in Seq(Nat \ {0})
      BY FirstRecord, HeadTailProperties
    <3>3. QED
      BY <3>1, <3>2
  <2>2. CASE \E c \in Conn : SslSend(c)
    <3>1. PICK c \in Conn : SslSend(c)
      BY <2>2
    <3>2. /\ records' = [records EXCEPT ![c] = Append(@, Len(sent'[c]))]
          /\ Len(sent'[c]) \in Nat \ {0}
      <4>1. Len(sent[c]) \in Nat
        BY LenProperties DEF TypeOK
      <4>2. \A k, l \in Nat : k < l => l \in Nat \ {0}
        OBVIOUS
      <4>3. QED
        BY <3>1, <4>1, <4>2, SslSendRecord, Zenon
    <3>3. Append(records[c], Len(sent'[c])) \in Seq(Nat \ {0})
      BY <3>2, AppendProperties
    <3>4. QED
      BY <3>2, <3>3
  <2>3. QED
    BY <2>1, <2>2, RecordSteps
<1>5. QED
  BY <1>1, <1>2, <1>3, <1>4

(* The loop closes a channel when it has read it to the end.               *)
LEMMA ChannelNext ==
  ASSUME SslIndInv, [SslNext]_sslVars
  PROVE  ChannelInv'
<1> USE DEF SslIndInv, ChannelInv
<1>1. CASE SslClients /\ UNCHANGED <<sets, threads, loopState, outbox>>
  BY <1>1 DEF SslClients
<1>2. CASE SslLoop
  <2>1. NextDescriptor => main' \notin {"rmv", "close", "add"}
    BY NextDescriptorMoves DEF IndInv
  <2>2. CASE SslAccept
    BY <2>2 DEF SslAccept, Accept
  <2>3. CASE SslRead
    BY <2>3 DEF SslRead
  <2>4. CASE SslReadClosed
    BY <2>4 DEF SslReadClosed, ReceiveClosed
  <2>5. CASE Handshake
    BY <2>5 DEF Handshake
  <2>6. CASE SslAdd \/ SslReadFails
    BY <2>1, <2>6 DEF SslAdd, AddAccepted, SslReadFails, ReceiveReset
  <2>7. CASE SameAsServer /\ UNCHANGED ssl
    BY <2>1, <2>7
    DEF SameAsServer, CopyConnections, Select, Scan, RemoveClosed,
        CloseDescriptor, UnblockClosed, RemoveClosedAgain, BlockConnection,
        StartHandler
  <2>8. QED
    BY <1>2, <2>2, <2>3, <2>4, <2>5, <2>6, <2>7 DEF SslLoop
<1>3. CASE \E t \in Thread : Echo(t) /\ UNCHANGED ssl
  BY <1>3 DEF Echo, EchoSend, EchoUnblock
<1>4. CASE UNCHANGED sslVars
  BY <1>4 DEF sslVars, vars
<1>5. QED
  BY <1>1, <1>2, <1>3, <1>4 DEF SslNext

(* A new record ends behind the others.                                    *)
LEMMA SendRecords ==
  ASSUME SslIndInv, NEW c \in Conn, SslSend(c)
  PROVE  RecordsInv'
<1> USE DEF SslIndInv
<1>1. PICK end \in Nat : end = Len(sent'[c])
  BY SslSendRecord
<1>2. PICK all \in Nat, left \in Nat : all = Len(sent[c]) /\ left = Len(inbox[c])
  BY LenProperties DEF SslTypeOK, TypeOK
<1>3. /\ records' = [records EXCEPT ![c] = Append(@, end)]
      /\ all < end /\ Len(inbox'[c]) = left + (end - all) /\ left <= all
      /\ Taken(c) = all - left /\ Taken(c)' = all - left
      /\ \A b \in Conn \ {c} : sent'[b] = sent[b] /\ inbox'[b] = inbox[b]
  <2>1. /\ records' = [records EXCEPT ![c] = Append(@, end)]
        /\ all < end /\ Len(inbox'[c]) = left + (end - all)
        /\ \A b \in Conn \ {c} : sent'[b] = sent[b] /\ inbox'[b] = inbox[b]
    BY <1>1, <1>2, SslSendRecord
  <2>2. left <= all
    BY <1>2 DEF RecordsInv
  <2>3. Taken(c) = all - left
    BY <1>2 DEF Taken
  <2>4. Taken(c)' = end - (left + (end - all))
    BY <1>1, <2>1 DEF Taken
  <2>5. QED
    BY <2>1, <2>2, <2>3, <2>4
<1> DEFINE old == records[c]
           new == records'[c]
<1>4. /\ old \in Seq(Nat \ {0}) /\ Len(old) \in Nat /\ DOMAIN old = 1 .. Len(old)
      /\ new = Append(old, end) /\ new # <<>> /\ end \in Nat \ {0}
  BY <1>2, <1>3, LenProperties, AppendProperties DEF SslTypeOK
<1>5. /\ Len(new) = Len(old) + 1 /\ DOMAIN new = 1 .. Len(old) + 1
      /\ \A k \in 1 .. Len(old) : new[k] = old[k] /\ old[k] \in Nat
      /\ new[Len(old) + 1] = end
  BY <1>4, AppendProperties, LenProperties, ElementOfSeq
<1>6. \A k \in 1 .. Len(old) : Taken(c) < old[k] /\ old[k] <= all
  BY <1>2, <1>4 DEF RecordsInv
<1>7. \A j, k \in 1 .. Len(old) : j < k => old[j] < old[k]
  BY <1>4 DEF RecordsInv
<1>8. Len(inbox'[c]) <= end
  BY <1>2, <1>3
<1> HIDE DEF old, new
<1>9. ASSUME NEW k \in DOMAIN new PROVE Taken(c)' < new[k] /\ new[k] <= end
  <2>1. CASE k \in 1 .. Len(old)
    <3>1. /\ new[k] = old[k] /\ old[k] \in Nat
          /\ all - left < old[k] /\ old[k] <= all
      BY <1>3, <1>5, <1>6, <2>1
    <3>2. old[k] <= end
      BY <1>3, <3>1
    <3>3. QED
      BY <1>3, <3>1, <3>2
  <2>2. CASE k = Len(old) + 1
    <3>1. all - left < end
      BY <1>3
    <3>2. QED
      BY <1>3, <1>5, <2>2, <3>1
  <2>3. QED
    BY <1>4, <1>5, <2>1, <2>2
<1>10. ASSUME NEW j \in DOMAIN new, NEW k \in DOMAIN new, j < k
       PROVE  new[j] < new[k]
  <2>1. j \in 1 .. Len(old)
    BY <1>4, <1>5, <1>10
  <2>2. CASE k \in 1 .. Len(old)
    BY <1>5, <1>7, <1>10, <2>1, <2>2
  <2>3. CASE k = Len(old) + 1
    <3>1. old[j] \in Nat /\ old[j] <= all /\ new[j] = old[j] /\ new[k] = end
      BY <1>5, <1>6, <2>1, <2>3
    <3>2. QED
      BY <1>3, <3>1
  <2>4. QED
    BY <1>4, <1>5, <2>2, <2>3
<1>11. new[Len(new)] = end
  BY <1>5
<1>12. ASSUME NEW b \in Conn, b # c
       PROVE  /\ records'[b] = records[b] /\ sent'[b] = sent[b]
              /\ inbox'[b] = inbox[b] /\ Taken(b)' = Taken(b)
  BY <1>3, <1>12 DEF Taken, SslTypeOK
<1>13. QED
  BY <1>1, <1>4, <1>8, <1>9, <1>10, <1>11, <1>12 DEF RecordsInv, new

(* The record that was read is no longer there.                            *)
LEMMA ReadRecords ==
  ASSUME SslIndInv, SslRead
  PROVE  RecordsInv'
<1> USE DEF SslIndInv
<1>1. PICK c \in Conn, read \in Seq(Text) :
        \/ UNCHANGED <<inbox, records>>
        \/ /\ inbox[c] # <<>>
           /\ Len(read) = Head(records[c]) - Taken(c)
           /\ inbox' = [inbox EXCEPT ![c] = SubSeq(@, Len(read) + 1, Len(@))]
           /\ records' = [records EXCEPT ![c] = Tail(@)]
  BY SslReadTakes
<1>2. sent' = sent
  BY DEF SslRead
<1>3. CASE UNCHANGED <<inbox, records>>
  BY <1>2, <1>3 DEF RecordsInv, Taken
<1>4. CASE ~ UNCHANGED <<inbox, records>>
  <2> DEFINE old == records[c]
             new == records'[c]
  <2>1. PICK all \in Nat, left \in Nat : all = Len(sent[c]) /\ left = Len(inbox[c])
    BY LenProperties DEF SslTypeOK, TypeOK
  <2>2. /\ old # <<>> /\ old \in Seq(Nat \ {0}) /\ new = Tail(old)
        /\ Head(old) = old[1] /\ 1 \in DOMAIN old
    BY <1>1, <1>4, FirstRecord DEF SslTypeOK
  <2>3. PICK len \in Nat : len = Len(old)
    BY <2>2, LenProperties
  <2>4. /\ len # 0 /\ DOMAIN old = 1 .. len
        /\ \A k \in 1 .. len : old[k] \in Nat
    BY <2>2, <2>3, EmptySeq, LenProperties, ElementOfSeq
  <2>5. /\ new \in Seq(Nat \ {0}) /\ Len(new) = len - 1
        /\ DOMAIN new = 1 .. len - 1
        /\ \A k \in 1 .. len - 1 : new[k] = old[k + 1]
    BY <2>2, <2>3, HeadTailProperties, LenProperties
  <2>6. /\ Taken(c) = all - left /\ left <= all /\ old[len] = all
        /\ \A k \in 1 .. len : Taken(c) < old[k] /\ old[k] <= all
        /\ \A j, k \in 1 .. len : j < k => old[j] < old[k]
    BY <2>1, <2>2, <2>3, <2>4 DEF RecordsInv, Taken
  <2>7. PICK h \in Nat : h = old[1]
    BY <2>4
  <2>8. Len(inbox'[c]) = all - h /\ inbox'[c] \in Seq(Text)
    <3>1. PICK n \in 1 .. left : n = Len(read) /\ n = h - (all - left)
      <4>1. h - Taken(c) \in 1 .. left /\ Len(read) = h - Taken(c)
        BY <1>1, <1>4, <2>1, <2>2, <2>7, FirstRecord
      <4>2. QED
        BY <2>6, <4>1
    <3>2. inbox'[c] = SubSeq(inbox[c], n + 1, left) /\ inbox[c] \in Seq(Text)
      BY <1>1, <1>4, <2>1, <3>1 DEF SslTypeOK, TypeOK
    <3>3. inbox'[c] \in Seq(Text) /\ Len(inbox'[c]) = left - n
      BY <2>1, <3>2, LenProperties, SubSeqProperties
    <3>4. left - n = all - h
      BY <3>1
    <3>5. QED
      BY <3>3, <3>4
  <2>9. Taken(c)' = h
    BY <1>2, <2>1, <2>8 DEF Taken
  <2>10. Len(inbox'[c]) <= all
    BY <2>8
  <2>11. new = <<>> => inbox'[c] = <<>>
    <3>1. ASSUME new = <<>> PROVE Len(inbox'[c]) = 0
      <4>1. Len(new) = 0
        BY <3>1, EmptySeq
      <4>2. len = 1
        BY <2>5, <4>1
      <4>3. QED
        BY <2>6, <2>7, <2>8, <4>2
    <3>2. QED
      BY <2>8, <3>1, EmptySeq
  <2> HIDE DEF old, new
  <2>12. ASSUME NEW k \in DOMAIN new PROVE h < new[k] /\ new[k] <= all
    <3>1. k + 1 \in 1 .. len /\ 1 \in 1 .. len /\ 1 < k + 1 /\ new[k] = old[k + 1]
      BY <2>4, <2>5
    <3>2. QED
      BY <2>6, <2>7, <3>1
  <2>13. ASSUME NEW j \in DOMAIN new, NEW k \in DOMAIN new, j < k
         PROVE  new[j] < new[k]
    <3>1. j \in 1 .. len - 1 /\ k \in 1 .. len - 1
      BY <2>5
    <3>2. j + 1 \in 1 .. len /\ k + 1 \in 1 .. len /\ j + 1 < k + 1
      BY <2>13, <3>1
    <3>3. new[j] = old[j + 1] /\ new[k] = old[k + 1]
      BY <2>5, <3>1
    <3>4. QED
      BY <2>6, <3>2, <3>3
  <2>14. new # <<>> => new[Len(new)] = all
    <3>1. ASSUME new # <<>> PROVE len - 1 \in 1 .. len - 1 /\ (len - 1) + 1 = len
      BY <2>3, <2>5, <3>1, EmptySeq
    <3>2. QED
      BY <2>5, <2>6, <3>1
  <2>15. ASSUME NEW b \in Conn, b # c
         PROVE  /\ records'[b] = records[b] /\ sent'[b] = sent[b]
                /\ inbox'[b] = inbox[b] /\ Taken(b)' = Taken(b)
    BY <1>1, <1>2, <1>4, <2>15 DEF Taken, SslTypeOK, TypeOK
  <2>16. QED
    BY <1>2, <2>1, <2>9, <2>10, <2>11, <2>12, <2>13, <2>14, <2>15
    DEF RecordsInv, new
<1>5. QED
  BY <1>3, <1>4

(* The invariant of the SSL server is inductive.                           *)
LEMMA SslInitInv == SslInit => SslIndInv
<1> SUFFICES ASSUME SslInit PROVE SslIndInv
  OBVIOUS
<1>1. TypeOK /\ IndInv
  BY InitType, InitInv DEF SslInit
<1>2. SslTypeOK
  BY <1>1, EmptySeq DEF SslInit, SslTypeOK, Secure
<1>3. \A c \in Conn : sent[c] = <<>> /\ inbox[c] = <<>> /\ records[c] = <<>>
  BY DEF SslInit, Init, ServerInit, ConnectionsInit
<1>4. DOMAIN <<>> = {} /\ Len(<<>>) = 0
  BY EmptySeq
<1>5. RecordsInv
  BY <1>3, <1>4 DEF RecordsInv
<1>6. ChannelInv
  BY DEF SslInit, Init, ServerInit, ChannelInv
<1>7. QED
  BY <1>1, <1>2, <1>5, <1>6 DEF SslIndInv

(* Every step keeps it.                                                    *)
LEMMA SslNextInv == SslIndInv /\ [SslNext]_sslVars => SslIndInv'
<1> SUFFICES ASSUME SslIndInv, [SslNext]_sslVars PROVE SslIndInv'
  OBVIOUS
<1>1. IndInv'
  BY SslLoopInv
<1>2. SslTypeOK'
  BY <1>1, SslTypeNext
<1>3. ChannelInv'
  BY ChannelNext
<1>4. RecordsInv'
  <2>1. CASE UNCHANGED <<sent, inbox, records>>
    BY <2>1 DEF SslIndInv, RecordsInv, Taken
  <2>2. QED
    BY <2>1, RecordSteps, SendRecords, ReadRecords
<1>5. QED
  BY <1>1, <1>2, <1>3, <1>4 DEF SslIndInv

(* The descriptors, the SSL objects, the records and the threads agree at  *)
(* every step, whatever the clients do.                                    *)
THEOREM SslInvariance == SslSpec => []SslIndInv
BY SslInitInv, SslNextInv, PTL DEF SslSpec

(* Every variable of the SSL server keeps its type.                        *)
THEOREM SslTypeCorrect == SslSpec => []SslTypeOK
<1>1. SslIndInv => SslTypeOK
  BY DEF SslIndInv
<1>2. QED
  BY <1>1, SslInvariance, PTL

(* A handler of the SSL server answers the client its message came from.   *)
THEOREM SslKeepsConnection == SslSpec => []HandlerKeepsConnection
<1>1. SslIndInv => HandlerKeepsConnection
  BY DEF SslIndInv, IndInv, HandlersInv, HandlerKeepsConnection
<1>2. QED
  BY <1>1, SslInvariance, PTL

(* accept and recv find what select reported.                              *)
THEOREM SslNeverStalls == SslSpec => []LoopNeverStalls
<1>1. SslIndInv => LoopNeverStalls
  BY DEF SslIndInv, IndInv, LoopInv, LoopNeverStalls
<1>2. QED
  BY <1>1, SslInvariance, PTL

-----------------------------------------------------------------------------
(* What the SSL objects keep, in order                                     *)

(* What SSL_read has left for a client is in the SSL object of its only    *)
(* descriptor.                                                             *)
BufferOfOwner ==
  \A c \in Conn :
    /\ \A d \in Fd : owner[d] = c => Buffered(c) = buffer[d]
    /\ ~ Accepted(c) => Buffered(c) = <<>>

(* A client's buffer is the one of its descriptor, whichever CHOOSE finds. *)
LEMMA BufferNow == IndInv => BufferOfOwner
<1> SUFFICES ASSUME IndInv, NEW c \in Conn
             PROVE  /\ \A d \in Fd : owner[d] = c => Buffered(c) = buffer[d]
                    /\ ~ Accepted(c) => Buffered(c) = <<>>
  BY DEF BufferOfOwner
<1>1. ASSUME NEW d \in Fd, owner[d] = c PROVE Buffered(c) = buffer[d]
  <2>1. \A e \in Fd : owner[e] = c <=> e = d
    BY <1>1, ConnectionsAssumption DEF IndInv, SocketsInv, Open
  <2>2. (CHOOSE e \in Fd : owner[e] = c) = d
    BY <2>1
  <2>3. QED
    BY <1>1, <2>2 DEF Buffered, Accepted
<1>2. QED
  BY <1>1 DEF Buffered

(* The same in the next state.                                             *)
LEMMA BufferNext == IndInv' => BufferOfOwner'
BY BufferNow, PTL

(* What a client that can be answered has sent: it has come back, is on    *)
(* its way, is left in the SSL object, or is in the socket.                *)
SslOrder ==
  \A c \in Conn : Listening(c) =>
    sent[c] = outbox[c] \o InFlight(c) \o (Buffered(c) \o inbox[c])

(* What is on its way is a sequence of texts.                              *)
LEMMA BufferedType ==
  ASSUME SslIndInv, NEW c \in Conn
  PROVE  Buffered(c) \in Seq(Text) /\ InFlight(c) \in Seq(Text)
<1>1. ASSUME NEW d \in Fd, owner[d] = c PROVE Buffered(c) \in Seq(Text)
  BY <1>1, BufferNow DEF BufferOfOwner, SslIndInv, SslTypeOK
<1>2. ASSUME ~ Accepted(c) PROVE Buffered(c) \in Seq(Text)
  BY <1>2, BufferNow, EmptySeq DEF BufferOfOwner, SslIndInv
<1>3. InFlight(c) \in Seq(Text)
  BY CarriageNow, InFlightTypes DEF SslIndInv, IndInv
<1>4. QED
  BY <1>1, <1>2, <1>3 DEF Accepted

(* SslOrder is SslEchoesInOrder with the parts grouped as they move.       *)
LEMMA SameOrder == SslIndInv => (SslOrder <=> SslEchoesInOrder)
<1> SUFFICES ASSUME SslIndInv, NEW c \in Conn
             PROVE  outbox[c] \o InFlight(c) \o (Buffered(c) \o inbox[c])
                    = outbox[c] \o InFlight(c) \o Buffered(c) \o inbox[c]
  BY DEF SslOrder, SslEchoesInOrder, Listening
<1>1. outbox[c] \in Seq(Text) /\ inbox[c] \in Seq(Text)
  BY DEF SslIndInv, SslTypeOK, TypeOK
<1>2. outbox[c] \o InFlight(c) \in Seq(Text)
  BY <1>1, BufferedType, ConcatProperties
<1>3. QED
  BY <1>1, <1>2, BufferedType, Associative, Zenon

(* Where a connection keeps its descriptor, and this its SSL object.       *)
LEMMA BufferedKept ==
  ASSUME IndInv, IndInv', NEW c \in Conn,
         \A d \in Fd : /\ owner'[d] = c <=> owner[d] = c
                       /\ owner[d] = c => buffer'[d] = buffer[d]
  PROVE  Buffered(c)' = Buffered(c)
BY BufferNow, BufferNext DEF BufferOfOwner, Accepted

(* accept gives a client an SSL object without anything in it; close       *)
(* leaves one behind without anything in it.                               *)
LEMMA LoopBuffered ==
  ASSUME SslIndInv, SslIndInv', SslLoop, ~ SslRead, NEW c \in Conn
  PROVE  Buffered(c)' = Buffered(c)
<1> USE DEF SslIndInv
<1>1. CASE SslAccept
  <2>1. PICK d \in Fd : /\ owner[d] = NoConn /\ acceptd' = d
                        /\ owner' = [owner EXCEPT ![d] = Head(backlog)]
    BY <1>1 DEF SslAccept, Accept, IsLowestFree
  <2>2. buffer' = [buffer EXCEPT ![d] = <<>>]
    BY <1>1, <2>1 DEF SslAccept
  <2>3. /\ owner'[d] = Head(backlog) /\ buffer'[d] = <<>>
        /\ \A e \in Fd \ {d} : owner'[e] = owner[e] /\ buffer'[e] = buffer[e]
    BY <2>1, <2>2 DEF SslTypeOK, TypeOK
  <2>4. CASE c = Head(backlog)
    <3>1. Pending(c)
      <4>1. backlog # <<>> /\ backlog \in Seq(Conn)
        BY <1>1 DEF SslAccept, Accept, SslTypeOK, TypeOK
      <4>2. 1 \in DOMAIN backlog /\ backlog[1] = c
        BY <2>4, <4>1, EmptySeq, LenProperties
      <4>3. QED
        BY <4>2 DEF Pending
    <3>2. Buffered(c) = <<>>
      BY <3>1, BufferNow DEF BufferOfOwner, IndInv, SocketsInv
    <3>3. Buffered(c)' = <<>>
      BY <2>3, <2>4, BufferNext DEF BufferOfOwner
    <3>4. QED
      BY <3>2, <3>3
  <2>5. CASE c # Head(backlog)
    BY <2>1, <2>3, <2>5, BufferedKept, ConnectionsAssumption
  <2>6. QED
    BY <2>4, <2>5
<1>2. CASE CloseDescriptor /\ UNCHANGED ssl
  <2>1. i \in Open /\ i \in Fd /\ buffer[i] = <<>>
    BY <1>2 DEF CloseDescriptor, IndInv, LoopInv, Open, ChannelInv
  <2>2. /\ owner'[i] = NoConn /\ buffer' = buffer
        /\ \A e \in Fd \ {i} : owner'[e] = owner[e]
    BY <1>2, <2>1 DEF CloseDescriptor, tcpsocket_close, SslTypeOK, TypeOK
  <2>3. CASE c = owner[i]
    <3>1. Buffered(c) = <<>>
      BY <2>1, <2>3, BufferNow DEF BufferOfOwner
    <3>2. ~ Accepted(c)'
      BY <2>1, <2>2, <2>3, ConnectionsAssumption
      DEF Accepted, Open, IndInv, SocketsInv
    <3>3. Buffered(c)' = <<>>
      BY <3>2, BufferNext DEF BufferOfOwner
    <3>4. QED
      BY <3>1, <3>3
  <2>4. CASE c # owner[i]
    BY <2>1, <2>2, <2>4, BufferedKept, ConnectionsAssumption
  <2>5. QED
    BY <2>3, <2>4
<1>3. CASE ~ SslAccept /\ ~ (CloseDescriptor /\ UNCHANGED ssl)
  <2>1. owner' = owner /\ buffer' = buffer
    BY <1>3 DEF SslLoop, Handshake, SslAdd, AddAccepted, SslReadClosed,
                ReceiveClosed, SslReadFails, ReceiveReset, SameAsServer,
                CopyConnections, Select, Scan, RemoveClosed, UnblockClosed,
                RemoveClosedAgain, BlockConnection, StartHandler
  <2>2. QED
    BY <2>1, BufferedKept
<1>4. QED
  BY <1>1, <1>2, <1>3

(* The loop's steps other than SSL_read leave what is sent where it is.    *)
LEMMA LoopKeeps ==
  ASSUME SslIndInv, SslIndInv', SslLoop, ~ SslRead, NEW c \in Conn
  PROVE  /\ sent' = sent /\ inbox' = inbox /\ outbox' = outbox
         /\ InFlight(c)' = InFlight(c)
<1> USE DEF SslIndInv
<1>1. sent' = sent /\ inbox' = inbox /\ outbox' = outbox
  BY DEF SslLoop, SslAccept, Accept, Handshake, SslAdd, AddAccepted,
         SslReadClosed, ReceiveClosed, SslReadFails, ReceiveReset, SameAsServer,
         CopyConnections, Select, Scan, RemoveClosed, CloseDescriptor,
         UnblockClosed, RemoveClosedAgain, BlockConnection, StartHandler
<1>2. CASE StartHandler
  BY <1>1, <1>2, StartHandlerInFlight
<1>3. CASE ~ StartHandler
  <2>1. NextDescriptor => ~ AtMessage'
    BY NextDescriptorMoves DEF AtMessage, IndInv
  <2>2. /\ UNCHANGED threads
        /\ AtMessage' <=> AtMessage
        /\ AtMessage => rcvd' = rcvd
    BY <1>3, <2>1
    DEF SslLoop, SslAccept, Accept, Handshake, SslAdd, AddAccepted,
        SslReadClosed, ReceiveClosed, SslReadFails, ReceiveReset, SameAsServer,
        CopyConnections, Select, Scan, RemoveClosed, CloseDescriptor,
        UnblockClosed, RemoveClosedAgain, BlockConnection, AtMessage
  <2>3. QED
    BY <1>1, <2>2, StepKeepsInFlight
<1>4. QED
  BY <1>2, <1>3

(* SSL_read moves the beginning of what waits on its way.                  *)
LEMMA SslReadOrder ==
  ASSUME SslIndInv, SslIndInv', SslRead, UNCHANGED outbox, NEW c \in Conn,
         sent[c] = outbox[c] \o InFlight(c) \o (Buffered(c) \o inbox[c])
  PROVE  sent'[c] = outbox'[c] \o InFlight(c)' \o (Buffered(c)' \o inbox'[c])
<1> USE DEF SslIndInv
<1>1. PICK b \in Conn, read \in Seq(Text) : \E n \in 0 .. Len(read) :
        /\ i \in Open /\ b = owner[i]
        /\ rcvd' = [socketd |-> i, conn |-> b, msg |-> SubSeq(read, 1, n)]
        /\ buffer' = [buffer EXCEPT ![i] = SubSeq(read, n + 1, Len(read))]
        /\ \/ read = buffer[i] /\ UNCHANGED <<inbox, records>>
           \/ /\ buffer[i] = <<>> /\ inbox[b] # <<>>
              /\ Len(read) = Head(records[b]) - Taken(b)
              /\ read = SubSeq(inbox[b], 1, Len(read))
              /\ inbox' = [inbox EXCEPT ![b] = SubSeq(@, Len(read) + 1, Len(@))]
  BY SslReadTakes
<1>2. PICK n \in 0 .. Len(read) :
        /\ rcvd' = [socketd |-> i, conn |-> b, msg |-> SubSeq(read, 1, n)]
        /\ buffer' = [buffer EXCEPT ![i] = SubSeq(read, n + 1, Len(read))]
  BY <1>1
<1>3. i \in Open /\ i \in Fd /\ b = owner[i]
  BY <1>1 DEF Open
<1>4. /\ At("recv") /\ At("block")' /\ sent' = sent /\ owner' = owner
      /\ UNCHANGED threads
  BY DEF SslRead
<1>5. InFlight(c)' = IF c = b THEN rcvd'.msg ELSE InFlight(c)
  BY <1>2, <1>3, <1>4, ReceiveInFlight
<1>6. CASE c # b
  <2>1. inbox'[c] = inbox[c]
    BY <1>1, <1>6 DEF SslTypeOK, TypeOK
  <2>2. \A d \in Fd : owner[d] = c => buffer'[d] = buffer[d]
    BY <1>2, <1>3, <1>6 DEF SslTypeOK
  <2>3. Buffered(c)' = Buffered(c)
    BY <1>4, <2>2, BufferedKept
  <2>4. QED
    BY <1>4, <1>5, <1>6, <2>1, <2>3
<1>7. CASE c = b
  <2> DEFINE msg == SubSeq(read, 1, n)
             left == SubSeq(read, n + 1, Len(read))
  <2>1. InFlight(c) = <<>> /\ InFlight(c)' = msg
    BY <1>2, <1>3, <1>4, <1>5, <1>7, NothingInFlight
  <2>2. Buffered(c) = buffer[i] /\ Buffered(c)' = left
    <3>1. buffer'[i] = left
      BY <1>2, <1>3 DEF SslTypeOK
    <3>2. QED
      BY <1>3, <1>4, <1>7, <3>1, BufferNow, BufferNext DEF BufferOfOwner
  <2>3. Len(read) \in Nat /\ n \in Nat /\ n <= Len(read)
    BY LenProperties
  <2>4. msg \in Seq(Text) /\ left \in Seq(Text)
    BY <2>3, LenProperties, SubSeqProperties
  <2>5. msg \o left = read
    <3>1. /\ 1 \in 1 .. Len(read) + 1 /\ n \in 1 - 1 .. Len(read)
          /\ Len(read) \in n .. Len(read)
      BY <2>3
    <3>2. msg \o left = SubSeq(read, 1, Len(read))
      BY <3>1, ConcatAdjacentSubSeq
    <3>3. QED
      BY <3>2, SubSeqFull
  <2> HIDE DEF msg, left
  <2>6. inbox[c] \in Seq(Text) /\ inbox'[c] \in Seq(Text) /\ outbox[c] \in Seq(Text)
    BY DEF SslTypeOK, TypeOK
  <2>7. buffer[i] \o inbox[c] = read \o inbox'[c]
    <3>1. CASE read = buffer[i] /\ UNCHANGED <<inbox, records>>
      BY <3>1
    <3>2. CASE /\ buffer[i] = <<>> /\ inbox[b] # <<>>
               /\ Len(read) = Head(records[b]) - Taken(b)
               /\ read = SubSeq(inbox[b], 1, Len(read))
               /\ inbox' = [inbox EXCEPT
                              ![b] = SubSeq(@, Len(read) + 1, Len(@))]
      <4>1. PICK m \in 1 .. Len(inbox[c]) : m = Len(read)
        BY <1>7, <3>2, FirstRecord
      <4>2. inbox'[c] = SubSeq(inbox[c], m + 1, Len(inbox[c]))
        BY <1>7, <3>2, <4>1 DEF SslTypeOK, TypeOK
      <4>3. /\ 1 \in 1 .. Len(inbox[c]) + 1 /\ m \in 1 - 1 .. Len(inbox[c])
            /\ Len(inbox[c]) \in m .. Len(inbox[c])
        BY <2>6, LenProperties
      <4>4. SubSeq(inbox[c], 1, m) \o SubSeq(inbox[c], m + 1, Len(inbox[c]))
            = SubSeq(inbox[c], 1, Len(inbox[c]))
        BY <2>6, <4>3, ConcatAdjacentSubSeq
      <4>5. SubSeq(inbox[c], 1, Len(inbox[c])) = inbox[c]
        BY <2>6, SubSeqFull
      <4>6. <<>> \o inbox[c] = inbox[c]
        BY <2>6, ConcatEmptySeq
      <4>7. QED
        BY <1>7, <3>2, <4>1, <4>2, <4>4, <4>5, <4>6
    <3>3. QED
      BY <1>1, <3>1, <3>2
  <2>8. read \o inbox'[c] = msg \o (left \o inbox'[c])
    BY <2>4, <2>5, <2>6, Associative, Zenon
  <2>9. left \o inbox'[c] \in Seq(Text)
    BY <2>4, <2>6, ConcatProperties
  <2>10. outbox[c] \o <<>> \o (msg \o (left \o inbox'[c]))
         = outbox[c] \o msg \o (left \o inbox'[c])
    <3>1. outbox[c] \o <<>> = outbox[c]
      BY <2>6, ConcatEmptySeq
    <3>2. outbox[c] \o (msg \o (left \o inbox'[c]))
          = (outbox[c] \o msg) \o (left \o inbox'[c])
      BY <2>4, <2>6, <2>9, Associative, Zenon
    <3>3. QED
      BY <3>1, <3>2
  <2>11. QED
    BY <1>4, <2>1, <2>2, <2>7, <2>8, <2>10
<1>8. QED
  BY <1>6, <1>7

(* A client that is gone stays gone.                                       *)
LEMMA SslGoneIsGone ==
  ASSUME SslIndInv, [SslNext]_sslVars, NEW c \in Conn, ~ Listening(c)
  PROVE  ~ Listening(c)'
<1>1. CASE [Next]_vars
  BY <1>1, GoneIsGone DEF SslIndInv
<1>2. CASE NewStep
  BY <1>2 DEF NewStep, Handshake, SslRead, FailedRead, Listening,
              SslIndInv, IndInv, TypeOK
<1>3. QED
  BY <1>1, <1>2, SharedSteps

(* Every step keeps the order.                                             *)
LEMMA SslNextOrder ==
  SslIndInv /\ SslIndInv' /\ SslOrder /\ [SslNext]_sslVars => SslOrder'
<1> SUFFICES ASSUME SslIndInv, SslIndInv', SslOrder, [SslNext]_sslVars,
                    NEW c \in Conn, Listening(c)'
             PROVE  sent'[c] = outbox'[c] \o InFlight(c)'
                                 \o (Buffered(c)' \o inbox'[c])
  BY DEF SslOrder
<1> USE DEF SslIndInv
<1>1. /\ Listening(c)
      /\ sent[c] = outbox[c] \o InFlight(c) \o (Buffered(c) \o inbox[c])
  BY SslGoneIsGone DEF SslOrder
<1>2. CASE SslClients /\ UNCHANGED <<sets, threads, loopState, outbox>>
  <2>1. Clients /\ owner' = owner /\ buffer' = buffer
    BY <1>2 DEF SslClients, SslSend, Clients, Connect, ClientSend,
                ClientShutdown, ClientReset
  <2>2. Buffered(c)' = Buffered(c)
    BY <2>1, BufferedKept
  <2>3. sent'[c] = outbox'[c] \o InFlight(c)' \o (Buffered(c) \o inbox'[c])
    BY <1>1, <1>2, <2>1, BufferedType, ClientsOrder
  <2>4. QED
    BY <2>2, <2>3
<1>3. CASE SslRead /\ UNCHANGED outbox
  BY <1>1, <1>3, SslReadOrder
<1>4. CASE SslLoop /\ ~ SslRead
  BY <1>1, <1>4, LoopKeeps, LoopBuffered
<1>5. CASE \E t \in Thread : Echo(t) /\ UNCHANGED ssl
  <2>1. PICK t \in Thread : Echo(t) /\ UNCHANGED ssl
    BY <1>5
  <2>2. owner' = owner /\ inbox' = inbox /\ buffer' = buffer
    BY <2>1 DEF Echo, EchoSend, EchoUnblock
  <2>3. Buffered(c)' = Buffered(c)
    BY <2>2, BufferedKept
  <2>4. Buffered(c) \o inbox[c] \in Seq(Text)
    <3>1. inbox[c] \in Seq(Text)
      BY DEF SslTypeOK, TypeOK
    <3>2. QED
      BY <3>1, BufferedType, ConcatProperties
  <2>5. sent'[c] = outbox'[c] \o InFlight(c)' \o (Buffered(c) \o inbox[c])
    BY <1>1, <2>1, <2>4, EchoOrder
  <2>6. QED
    BY <2>2, <2>3, <2>5
<1>6. CASE UNCHANGED sslVars
  <2>1. Buffered(c)' = Buffered(c)
    BY <1>6, BufferedKept DEF sslVars, vars
  <2>2. InFlight(c)' = InFlight(c)
    BY <1>6, StepKeepsInFlight DEF sslVars, vars, AtMessage
  <2>3. QED
    BY <1>1, <1>6, <2>1, <2>2 DEF sslVars, vars
<1>7. QED
  BY <1>2, <1>3, <1>4, <1>5, <1>6 DEF SslNext, SslLoop

(* Nothing is lost, repeated or given to another client between a client's *)
(* socket, the SSL object of its descriptor and the handler.               *)
LEMMA SslOrderInv == SslSpec => []SslOrder
<1>1. SslInit => SslOrder
  <2> SUFFICES ASSUME SslInit, NEW c \in Conn
               PROVE  sent[c] = outbox[c] \o InFlight(c) \o (Buffered(c) \o inbox[c])
    BY DEF SslOrder
  <2>1. InFlight(c) = <<>>
    BY DEF SslInit, Init, ServerInit, InFlight
  <2>2. Buffered(c) = <<>>
    BY ConnectionsAssumption
    DEF SslInit, Init, ServerInit, ConnectionsInit, Buffered, Accepted
  <2>3. <<>> = <<>> \o <<>> \o (<<>> \o <<>>)
    BY EmptySeq, ConcatEmptySeq
  <2>4. QED
    BY <2>1, <2>2, <2>3 DEF SslInit, Init, ServerInit, ConnectionsInit
<1>2. QED
  BY <1>1, SslInvariance, SslNextOrder, PTL DEF SslSpec

(* What a client gets back from the SSL server is what it sent, in order   *)
(* (ssl-server.c:242-246): the invariant SslEchoesInOrder.                 *)
THEOREM SslInOrder == SslSpec => []SslEchoesInOrder
BY SslInvariance, SslOrderInv, SameOrder, PTL

-----------------------------------------------------------------------------
(* The same service *)

(* A channel is closed when its client is gone or has been answered.       *)
LEMMA SslCloseFinds ==
  ASSUME SslIndInv, SslOrder, CloseDescriptor
  PROVE  Answered(owner[i])
<1> USE DEF SslIndInv
<1>1. /\ i \in Open /\ i \in Fd /\ owner[i] \in Conn
      /\ inbox[owner[i]] = <<>> /\ buffer[i] = <<>>
  BY DEF CloseDescriptor, IndInv, LoopInv, ChannelInv, Open, TypeOK
<1>2. InFlight(owner[i]) = <<>>
  BY <1>1, NothingInFlight DEF CloseDescriptor, AtClosed
<1>3. Buffered(owner[i]) = <<>>
  BY <1>1, BufferNow DEF BufferOfOwner
<1>4. Listening(owner[i]) =>
        sent[owner[i]] = outbox[owner[i]] \o <<>> \o (<<>> \o <<>>)
  BY <1>1, <1>2, <1>3 DEF SslOrder
<1>5. outbox[owner[i]] \o <<>> \o (<<>> \o <<>>) = outbox[owner[i]]
  <2>1. outbox[owner[i]] \in Seq(Text) /\ <<>> \in Seq(Text)
    BY <1>1, EmptySeq DEF IndInv, TypeOK
  <2>2. <<>> \o <<>> = <<>> /\ outbox[owner[i]] \o <<>> = outbox[owner[i]]
    BY <2>1, ConcatEmptySeq
  <2>3. QED
    BY <2>2
<1>6. QED
  BY <1>4, <1>5 DEF Answered

(* The handshake and the reads change nothing that a client sees.          *)
LEMMA NewStepsUnseen ==
  ASSUME SslIndInv, NewStep, UNCHANGED outbox
  PROVE  /\ UNCHANGED <<backlog, owner, sent>>
         /\ \A c \in Conn : peer'[c] # peer[c] =>
              peer[c] = "reset" /\ peer'[c] = "broken"
BY DEF NewStep, Handshake, SslRead, FailedRead, SslIndInv, IndInv, TypeOK

(* A client that ends with shutdown has all its echoes before its channel  *)
(* is closed, the ones left in the SSL object included.                    *)
THEOREM SslClosesAnswered == SslSpec => []ClosesAfterEcho
<1>1. SslInit => ClosesAfterEcho
  BY DEF SslInit, Init, ServerInit, ConnectionsInit, ClosesAfterEcho
<1>2. SslIndInv /\ SslOrder /\ ClosesAfterEcho /\ [SslNext]_sslVars
        => ClosesAfterEcho'
  <2> SUFFICES ASSUME SslIndInv, SslOrder, ClosesAfterEcho, [SslNext]_sslVars
               PROVE  ClosesAfterEcho'
    OBVIOUS
  <2>1. CASE [Next]_vars
    BY <2>1, StepCloses, SslCloseFinds DEF SslIndInv
  <2>2. CASE NewStep /\ UNCHANGED outbox
    BY <2>2, NewStepsUnseen DEF ClosesAfterEcho, Pending, Accepted
  <2>3. QED
    BY <2>1, <2>2, SharedSteps
<1>3. QED
  BY <1>1, <1>2, SslInvariance, SslOrderInv, PTL DEF SslSpec

(* The SSL server is, step by step, the echo service of EchoService: what  *)
(* its records and failed handshakes do is not seen.                       *)
THEOREM SslServes == SslSpec => SslImplementsService
<1>1. SslInit => Service!Init
  BY InitServes DEF SslInit
<1>2. SslIndInv /\ SslIndInv' /\ SslOrder /\ [SslNext]_sslVars
        => [Service!Next]_(Service!vars)
  <2> SUFFICES ASSUME SslIndInv, SslIndInv', SslOrder, [SslNext]_sslVars
               PROVE  [Service!Next]_(Service!vars)
    OBVIOUS
  <2>1. CASE [Next]_vars
    <3>1. ASSUME NEW c \in Conn, Listening(c)
          PROVE  \E rest \in Seq(Text) :
                   sent[c] = outbox[c] \o InFlight(c) \o rest
      <4>1. inbox[c] \in Seq(Text)
        BY DEF SslIndInv, SslTypeOK, TypeOK
      <4>2. Buffered(c) \o inbox[c] \in Seq(Text)
        BY <4>1, BufferedType, ConcatProperties
      <4>3. QED
        BY <3>1, <4>2 DEF SslOrder
    <3>2. QED
      BY <2>1, <3>1, StepServes, SslCloseFinds DEF SslIndInv
  <2>2. CASE NewStep /\ UNCHANGED outbox
    <3>1. \A c \in Conn : /\ ClientSide(c)' = ClientSide(c)
                          /\ ServerSide(c)' = ServerSide(c)
      BY <2>2, NewStepsUnseen DEF ClientSide, ServerSide, Pending, Accepted
    <3>2. QED
      BY <2>2, <3>1, NewStepsUnseen, Unseen
  <2>3. QED
    BY <2>1, <2>2, SharedSteps
<1>3. QED
  BY <1>1, <1>2, SslInvariance, SslOrderInv, PTL DEF SslSpec, SslImplementsService

=============================================================================
