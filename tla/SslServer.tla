------------------------------ MODULE SslServer ------------------------------
(***************************************************************************)
(* srclib/G-2301-01-P3-ssl-server.c with src/G-2301-01-P3-ssl_echo_server.c *)
(* as its handler: the loop of server.c with a TLS handshake after accept  *)
(* and SSL_read for recv.  What it shares with server.c and the echo       *)
(* server is taken from there; this module has what it changes.            *)
(*                                                                         *)
(* OpenSSL is external: SSL_accept waits for the client's part of the      *)
(* handshake; SSL_read takes one record from the socket and keeps what the *)
(* caller's buffer has no room for, where select does not see it.          *)
(***************************************************************************)
EXTENDS EchoServer, FiniteSetsExt

CONSTANTS Room,  \* how many texts DATA_SIZE bytes hold
          Mute   \* the clients that may leave the handshake unanswered

ASSUME SslAssumption == Room \in Nat \ {0} /\ Mute \subseteq Conn

VARIABLES secure,   \* the handshake of the SSL object of each descriptor
          buffer,   \* what SSL_read has left in it
          records   \* where each record in a client's inbox ends, counted
                    \* from the first text the client sent

ssl == <<secure, buffer, records>>
sslVars == <<vars, ssl>>

Secure == {"none", "shaking", "yes", "failed"}

SslInit ==
  /\ Init
  /\ secure = [d \in Fd |-> "none"]
  /\ buffer = [d \in Fd |-> <<>>]
  /\ records = [c \in Conn |-> <<>>]

-----------------------------------------------------------------------------
(* A client sends once its channel is secure; what it sends is one record. *)
SslSend(c) ==
  /\ \E d \in Fd : owner[d] = c /\ secure[d] = "yes"
  /\ ClientSend(c)
  /\ records' = [records EXCEPT ![c] = Append(@, Len(sent'[c]))]

SslClients ==
  \E c \in Conn :
    \/ SslSend(c) /\ UNCHANGED <<secure, buffer>>
    \/ (Connect(c) \/ ClientShutdown(c) \/ ClientReset(c)) /\ UNCHANGED ssl

-----------------------------------------------------------------------------
(* accept, and the SSL_new of aceptar_canal_seguro_SSL                     *)
SslAccept ==
  /\ Accept
  /\ secure' = [secure EXCEPT ![acceptd'] = "shaking"]
  /\ buffer' = [buffer EXCEPT ![acceptd'] = <<>>]
  /\ UNCHANGED records

(* Mutant: the handshake is repeated until it succeeds.                    *)
HandshakeUntilSecure ==
  /\ At("add") /\ secure[acceptd] = "shaking"
  /\ secure' = [secure EXCEPT ![acceptd] =
                  IF peer[owner[acceptd]] = "open" THEN "yes" ELSE @]
  /\ UNCHANGED <<kernel, sets, threads, loopState, buffer, records>>

(* SSL_accept blocks the loop until the client has answered or is gone.    *)
(* Its result is printed and the connection is added all the same.         *)
Handshake ==
  LET c == owner[acceptd] IN
  /\ At("add") /\ secure[acceptd] = "shaking"
  /\ \E result \in {"yes", "failed"} :
       /\ result = "yes" => peer[c] = "open"
       /\ secure' = [secure EXCEPT ![acceptd] = result]
  /\ peer' = [peer EXCEPT ![c] = IF @ = "reset" THEN "broken" ELSE @]
  /\ UNCHANGED <<backlog, owner, inbox, sent, sets, threads, loopState, buffer,
                 records>>

(* SSL_accept waits for a client that need not answer, without a timeout.  *)
HeldUp ==
  /\ At("add") /\ secure[acceptd] = "shaking"
  /\ owner[acceptd] \in Mute /\ peer[owner[acceptd]] = "open"

SslAdd ==
  /\ AddAccepted
  /\ secure[acceptd] # "shaking"
  /\ UNCHANGED ssl

-----------------------------------------------------------------------------
(* SSL_read of recibir_datos_SSL, by its outcomes                          *)

(* How many of the texts a client sent have left its socket.               *)
Taken(c) == Len(sent[c]) - Len(inbox[c])

(* The next record, or the rest of the last one.                           *)
SslRead ==
  /\ At("recv") /\ secure[i] = "yes"
  /\ LET c == owner[i]
         fresh == buffer[i] = <<>>
         read == IF fresh THEN SubSeq(inbox[c], 1, Head(records[c]) - Taken(c)) ELSE buffer[i]
         n == Min({Room, Len(read)}) IN
     /\ fresh => inbox[c] # <<>>
     /\ rcvd' = [socketd |-> i, conn |-> c, msg |-> SubSeq(read, 1, n)]
     /\ buffer' = [buffer EXCEPT ![i] = SubSeq(read, n + 1, Len(read))]
     /\ IF fresh
        THEN /\ inbox' = [inbox EXCEPT ![c] = SubSeq(@, Len(read) + 1, Len(@))]
             /\ records' = [records EXCEPT ![c] = Tail(@)]
        ELSE UNCHANGED <<inbox, records>>
  /\ Goto("block")
  /\ UNCHANGED <<peer, backlog, owner, sent, sets, threads, acceptd, secure>>

(* Mutant: the end of input is believed before the buffer is read.         *)
ReadsClosedEarly ==
  /\ ReceiveClosed
  /\ secure[i] = "yes"
  /\ UNCHANGED ssl

SslReadClosed ==
  /\ ReceiveClosed
  /\ secure[i] = "yes" /\ buffer[i] = <<>>
  /\ UNCHANGED ssl

(* An error, which no case handles: a reset connection, or a handshake     *)
(* that failed, for as long as the descriptor is open.                     *)
SslReadFails ==
  /\ \/ ReceiveReset /\ buffer[i] = <<>>
     \/ /\ At("recv") /\ secure[i] = "failed" /\ peer[owner[i]] # "reset"
        /\ NextDescriptor
        /\ UNCHANGED <<kernel, sets, threads, acceptd, rcvd>>
  /\ UNCHANGED ssl

(* What the loop does as in server.c.  cerrar_canal_SSL does nothing: the  *)
(* SSL object stays until the next SSL_new.                                *)
SameAsServer ==
  \/ CopyConnections \/ Select \/ Scan
  \/ RemoveClosed \/ CloseDescriptor \/ UnblockClosed \/ RemoveClosedAgain
  \/ BlockConnection \/ StartHandler

SslLoop ==
  /\ \/ SslAccept \/ Handshake \/ SslAdd
     \/ SslRead \/ SslReadClosed \/ SslReadFails
     \/ SameAsServer /\ UNCHANGED ssl
  /\ UNCHANGED outbox

SslNext ==
  \/ SslClients /\ UNCHANGED <<sets, threads, loopState, outbox>>
  \/ SslLoop
  \/ \E t \in Thread : Echo(t) /\ UNCHANGED ssl

(* As for the echo server; and a client answers the handshake, unless it   *)
(* is in Mute: then it may, or may not.                                    *)
SslFairness ==
  /\ WF_sslVars(~HeldUp /\ SslLoop)
  /\ \A t \in Thread : WF_sslVars(Echo(t) /\ UNCHANGED ssl)

SslSpec == SslInit /\ [][SslNext]_sslVars /\ SslFairness

-----------------------------------------------------------------------------
(* Every variable has its type.                                            *)
SslTypeOK ==
  /\ TypeOK
  /\ secure \in [Fd -> Secure]
  /\ buffer \in [Fd -> Seq(Text)]
  /\ records \in [Conn -> Seq(Nat \ {0})]

Buffered(c) ==
  IF Accepted(c) THEN buffer[CHOOSE d \in Fd : owner[d] = c] ELSE <<>>

(* What a client gets back is what it sent, in order: nothing is lost,     *)
(* repeated or given to another client between its socket, the SSL object  *)
(* of its descriptor and the handler.                                      *)
SslEchoesInOrder ==
  \A c \in Conn :
    peer[c] \notin {"reset", "broken"} =>
      sent[c] = outbox[c] \o InFlight(c) \o Buffered(c) \o inbox[c]

(* Each message received is attended to (ssl-server.c:140): what a client  *)
(* sends is echoed, unless it resets the connection.                       *)
SslEverythingEchoed ==
  \A c \in Conn : (sent[c] # outbox[c]) ~>
                  (sent[c] = outbox[c] \/ peer[c] \in {"reset", "broken"})

(* Step by step it is the service of EchoService, for whoever its records  *)
(* and its failed handshakes are hidden from; only the promise to answer   *)
(* in the end is not kept (SslEverythingEchoed).                           *)
SslImplementsService == Service!Init /\ [][Service!Next]_(Service!vars)

(* A client that connects is accepted, unless the loop waits forever for   *)
(* the handshake of another that stays connected and says nothing          *)
(* (ssl-server.c:194, 212).  Nothing else holds up the loop: not a client  *)
(* that goes away in its handshake, nor a handshake that fails.            *)
EveryoneGetsIn ==
  (\A c \in Conn : Pending(c) ~> ~Pending(c)) \/ <>[]HeldUp

-----------------------------------------------------------------------------
(* Why it is safe: what IndInv of EchoServer says of the loop holds here   *)
(* too; the rest is about SSL.                                             *)

(* Nothing is left in the SSL object of a descriptor that is closed, and   *)
(* where a handshake is due there is a connection.                         *)
ChannelInv ==
  /\ main \in {"rmv", "close"} => buffer[i] = <<>>
  /\ At("add") => acceptd \in Fd

(* The records of a client divide what is in its inbox, in order.          *)
RecordsInv ==
  \A c \in Conn :
    /\ Len(inbox[c]) <= Len(sent[c])
    /\ records[c] = <<>> => inbox[c] = <<>>
    /\ \A k \in DOMAIN records[c] :
         Taken(c) < records[c][k] /\ records[c][k] <= Len(sent[c])
    /\ \A j, k \in DOMAIN records[c] : j < k => records[c][j] < records[c][k]
    /\ records[c] # <<>> => records[c][Len(records[c])] = Len(sent[c])

SslIndInv == SslTypeOK /\ IndInv /\ ChannelInv /\ RecordsInv

=============================================================================
