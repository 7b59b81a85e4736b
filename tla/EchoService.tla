----------------------------- MODULE EchoService -----------------------------
(***************************************************************************)
(* What an echo server promises its clients, with no threads, descriptors  *)
(* or loop: every connection is a queue of its own.                        *)
(***************************************************************************)
EXTENDS Naturals, Sequences

CONSTANT Conn

VARIABLES client,   \* the client's side of each connection
          served,   \* the server's side of each connection
          said,     \* what each client sent
          heard     \* what each client got back

vars == <<client, served, said, heard>>

Init ==
  /\ client = [c \in Conn |-> "idle"]
  /\ served = [c \in Conn |-> "no"]
  /\ said = [c \in Conn |-> <<>>]
  /\ heard = [c \in Conn |-> <<>>]

Connect(c) ==
  /\ client[c] = "idle"
  /\ client' = [client EXCEPT ![c] = "talking"]
  /\ UNCHANGED <<served, said, heard>>

(* A client says any number of texts more.                                 *)
Say(c) ==
  /\ client[c] = "talking" /\ served[c] # "done"
  /\ Len(said[c]) < Len(said'[c]) /\ SubSeq(said'[c], 1, Len(said[c])) = said[c]
  /\ said' = [said EXCEPT ![c] = said'[c]]
  /\ UNCHANGED <<client, served, heard>>

Finish(c) ==
  /\ client[c] = "talking"
  /\ client' = [client EXCEPT ![c] = "listening"]
  /\ UNCHANGED <<served, said, heard>>

Die(c) ==
  /\ client[c] \in {"talking", "listening"} /\ served[c] # "done"
  /\ client' = [client EXCEPT ![c] = "dead"]
  /\ UNCHANGED <<served, said, heard>>

Serve(c) ==
  /\ client[c] # "idle" /\ served[c] = "no"
  /\ served' = [served EXCEPT ![c] = "yes"]
  /\ UNCHANGED <<client, said, heard>>

(* The next texts the client has not got back yet.                         *)
Reply(c) ==
  /\ client[c] \in {"talking", "listening"} /\ served[c] = "yes"
  /\ \E n \in Len(heard[c]) + 1 .. Len(said[c]) :
       heard' = [heard EXCEPT ![c] = SubSeq(said[c], 1, n)]
  /\ UNCHANGED <<client, served, said>>

(* Only a client that was answered in full, or is dead, is let go.         *)
LetGo(c) ==
  /\ served[c] = "yes"
  /\ \/ client[c] = "listening" /\ heard[c] = said[c]
     \/ client[c] = "dead"
  /\ served' = [served EXCEPT ![c] = "done"]
  /\ UNCHANGED <<client, said, heard>>

Next ==
  \E c \in Conn :
    \/ Connect(c) \/ Finish(c) \/ Die(c)
    \/ Say(c)
    \/ Serve(c) \/ Reply(c) \/ LetGo(c)

Fairness ==
  \A c \in Conn : WF_vars(Serve(c)) /\ WF_vars(Reply(c)) /\ WF_vars(LetGo(c))

Spec == Init /\ [][Next]_vars /\ Fairness

=============================================================================
