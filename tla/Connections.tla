----------------------------- MODULE Connections -----------------------------
(***************************************************************************)
(* The state that srclib/G-2301-01-P1-server.c shares with the threads it  *)
(* starts: the three fd_sets guarded by mutex_conn, the open descriptors   *)
(* with the TCP connection each one denotes, and the handler threads with  *)
(* the conn_data each was given.  The clients and the kernel's sockets are *)
(* external: they are modelled from how the code calls accept, recv, send, *)
(* select and close.                                                       *)
(*                                                                         *)
(* Every function on the fd_sets locks mutex_conn, touches one bit and     *)
(* unlocks it, so each is one atomic operator here.                        *)
(***************************************************************************)
EXTENDS Naturals, Sequences, FiniteSets

CONSTANTS Conn,      \* the TCP connections clients may ever open
          NoConn,    \* what a closed descriptor denotes
          Thread,    \* the handler threads that may exist at once
          Text,      \* the units of what a client sends: recv may return
                     \* several, never a part of one
          Traffic,   \* Traffic[c]: what c may have sent after a send (bound)
          Listener,  \* socketd of server_launch: the listening descriptor
          LastFd     \* the highest descriptor the process may hold (bound)

ASSUME ConnectionsAssumption ==
  /\ NoConn \notin Conn
  /\ Listener \in Nat /\ LastFd \in Nat /\ Listener < LastFd
  /\ Traffic \in [Conn -> SUBSET Seq(Text)]

Fd == (Listener + 1) .. LastFd      \* descriptors accept can return
Descriptor == Listener .. LastFd    \* those the loop over FD_SETSIZE can meet

VARIABLES peer,         \* the client's side of each connection
          backlog,      \* connections waiting in the listening socket
          owner,        \* the connection an open descriptor denotes
          inbox,        \* texts received by the kernel, not yet by recv
          sent,         \* all a client ever sent (history)
          connections,  \* fd_set: the descriptors select watches
          readable,     \* fd_set: the descriptors of one pass of the loop
          blocked,      \* fd_set: a handler is working on the descriptor
          pc,           \* where each handler thread is
          data          \* the conn_data each handler thread was given

kernel == <<peer, backlog, owner, inbox, sent>>
sets == <<connections, readable, blocked>>
threads == <<pc, data>>

-----------------------------------------------------------------------------
(* The kernel and the clients *)

PeerState == {"idle", "open", "eof", "reset", "broken"}

Open == {d \in Fd : owner[d] # NoConn}

Pending(c) == \E k \in DOMAIN backlog : backlog[k] = c

Accepted(c) == \E d \in Fd : owner[d] = c

(* A pass of select reports d when a call on it would not block.           *)
Ready(d) ==
  IF d = Listener THEN backlog # <<>>
  ELSE d \in Open /\ (inbox[owner[d]] # <<>> \/ peer[owner[d]] # "open")

(* send fails once the client has reset the connection.                    *)
Writable(d) == d \in Open /\ peer[owner[d]] \in {"open", "eof"}

IsLowestFree(d) == owner[d] = NoConn /\ \A e \in Fd : owner[e] = NoConn => d <= e

(* A client connects.  The process is kept below its descriptor limit:     *)
(* beyond it accept fails, which tcpsocket_accept does not notice.         *)
Connect(c) ==
  /\ peer[c] = "idle"
  /\ Len(backlog) + Cardinality(Open) < LastFd - Listener
  /\ peer' = [peer EXCEPT ![c] = "open"]
  /\ backlog' = Append(backlog, c)
  /\ UNCHANGED <<owner, inbox, sent>>

(* A client that is connected, or soon to be, says more.                   *)
ClientSend(c) ==
  /\ peer[c] = "open" /\ (Pending(c) \/ Accepted(c))
  /\ \E said \in Traffic[c] :
       /\ Len(sent[c]) < Len(said) /\ SubSeq(said, 1, Len(sent[c])) = sent[c]
       /\ sent' = [sent EXCEPT ![c] = said]
       /\ inbox' = [inbox EXCEPT
                      ![c] = @ \o SubSeq(said, Len(sent[c]) + 1, Len(said))]
  /\ UNCHANGED <<peer, backlog, owner>>

(* The client has nothing more to say but still reads.                     *)
ClientShutdown(c) ==
  /\ peer[c] = "open" /\ (Pending(c) \/ Accepted(c))
  /\ peer' = [peer EXCEPT ![c] = "eof"]
  /\ UNCHANGED <<backlog, owner, inbox, sent>>

(* The client dies: what it sent can still be read, nothing reaches it.    *)
ClientReset(c) ==
  /\ peer[c] \in {"open", "eof"} /\ (Pending(c) \/ Accepted(c))
  /\ peer' = [peer EXCEPT ![c] = "reset"]
  /\ UNCHANGED <<backlog, owner, inbox, sent>>

Clients ==
  \E c \in Conn :
    \/ Connect(c)
    \/ ClientSend(c)
    \/ ClientShutdown(c)
    \/ ClientReset(c)

-----------------------------------------------------------------------------
(* The operations of server.c on its fd_sets *)

connection_add(d) == connections' = connections \cup {d}

(* Mutant: FD_SET where FD_CLR is meant.                                   *)
connection_rmv_sets(d) == connections' = connections \cup {d}

connection_rmv(d) == connections' = connections \ {d}

connection_block(d) == blocked' = blocked \cup {d}

connection_unblock(d) == blocked' = blocked \ {d}

tcpsocket_close(d) == owner' = [owner EXCEPT ![d] = NoConn]

ConnectionsInit ==
  /\ peer = [c \in Conn |-> "idle"]
  /\ backlog = <<>>
  /\ owner = [d \in Fd |-> NoConn]
  /\ inbox = [c \in Conn |-> <<>>]
  /\ sent = [c \in Conn |-> <<>>]
  /\ connections = {Listener}
  /\ readable = {}
  /\ blocked = {}

=============================================================================
