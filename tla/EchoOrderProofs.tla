--------------------------- MODULE EchoOrderProofs ---------------------------
(***************************************************************************)
(* That the echo server loses, repeats and reorders nothing, and lets no   *)
(* client go that waits for an echo, for any number of clients and threads *)
(* and any traffic.  What a message does between recv and send rests on    *)
(* the invariant of EchoServerProofs: the handlers of a connection never   *)
(* overlap.                                                                *)
(***************************************************************************)
EXTENDS EchoServerProofs

USE DEF At, Goto, kernel, sets, threads, loopState

-----------------------------------------------------------------------------
(* The message on its way between recv and send *)

(* The loop has a message for c, from recv to pthread_create.              *)
Holds(c) == AtMessage /\ rcvd.conn = c

(* The thread has a message for c, until it has sent it.                   *)
Carries(t, c) == pc[t] = "start" /\ data[t].conn = c

(* A message on its way is in one place: the loop or one thread has it.    *)
Carriage ==
  \A c \in Conn :
    /\ Holds(c) => InFlight(c) = rcvd.msg
    /\ \A t \in Thread : Carries(t, c) =>
         /\ ~ Holds(c)
         /\ InFlight(c) = data[t].msg
         /\ \A u \in Thread : Carries(u, c) => u = t
    /\ ~ Holds(c) /\ (\A t \in Thread : ~ Carries(t, c)) => InFlight(c) = <<>>

(* The handlers of a connection do not overlap, nor does the loop receive  *)
(* from it while one is at work.                                           *)
LEMMA CarriageNow == IndInv => Carriage
<1> SUFFICES ASSUME IndInv PROVE Carriage
  OBVIOUS
<1> USE DEF IndInv
<1>1. \A t \in Thread : \A c \in Conn : Carries(t, c) =>
        t \in Live /\ data[t].socketd \in Open /\ owner[data[t].socketd] = c
  BY DEF Carries, Live, HandlersInv
<1>2. \A d, e \in Open : owner[d] = owner[e] => d = e
  BY DEF SocketsInv
<1>3. \A c \in Conn : \A t, u \in Thread :
        Carries(t, c) /\ Carries(u, c) => u = t
  BY <1>1, <1>2 DEF HandlersInv
<1>4. ASSUME NEW c \in Conn, NEW t \in Thread, Carries(t, c) PROVE ~ Holds(c)
  <2> SUFFICES ASSUME Holds(c) PROVE FALSE
    OBVIOUS
  <2>1. i \in Open /\ owner[i] = c /\ data[t].socketd # i
    BY <1>1, <1>4 DEF Holds, LoopInv
  <2>2. QED
    BY <1>1, <1>2, <1>4, <2>1
<1>5. ASSUME NEW c \in Conn, NEW t \in Thread, Carries(t, c)
      PROVE  InFlight(c) = data[t].msg
  <2>1. \A u \in Thread : pc[u] = "start" /\ data[u].conn = c <=> u = t
    BY <1>3, <1>5 DEF Carries
  <2>2. (CHOOSE u \in Thread : pc[u] = "start" /\ data[u].conn = c) = t
    BY <2>1
  <2>3. ~ (main \in {"block", "spawn"} /\ rcvd.conn = c)
    BY <1>4, <1>5 DEF Holds, AtMessage
  <2>4. QED
    BY <2>1, <2>2, <2>3 DEF InFlight
<1>6. ASSUME NEW c \in Conn, ~ Holds(c), \A t \in Thread : ~ Carries(t, c)
      PROVE  InFlight(c) = <<>>
  BY <1>6 DEF Holds, AtMessage, Carries, InFlight
<1>7. \A c \in Conn : Holds(c) => InFlight(c) = rcvd.msg
  BY DEF Holds, AtMessage, InFlight
<1>8. QED
  BY <1>3, <1>4, <1>5, <1>6, <1>7 DEF Carriage

(* The same in the next state.                                             *)
LEMMA CarriageNext == IndInv' => Carriage'
BY CarriageNow, PTL

(* What is on its way is a message.                                        *)
LEMMA InFlightTypes ==
  TypeOK /\ Carriage => \A c \in Conn : InFlight(c) \in Seq(Text)
<1> SUFFICES ASSUME TypeOK, Carriage, NEW c \in Conn
             PROVE  InFlight(c) \in Seq(Text)
  OBVIOUS
<1>1. CASE Holds(c)
  BY <1>1 DEF Carriage, TypeOK, Data
<1>2. CASE \E t \in Thread : Carries(t, c)
  BY <1>2 DEF Carriage, TypeOK, Data
<1>3. CASE ~ Holds(c) /\ \A t \in Thread : ~ Carries(t, c)
  BY <1>3, EmptySeq DEF Carriage
<1>4. QED
  BY <1>1, <1>2, <1>3

(* The same in the next state.                                             *)
LEMMA InFlightTypesNext ==
  (TypeOK /\ Carriage => \A c \in Conn : InFlight(c) \in Seq(Text))'
BY InFlightTypes, PTL

(* A message stays on its way while the same thread, or the loop, has it.  *)
LEMMA InFlightKept ==
  ASSUME Carriage, Carriage', NEW c \in Conn,
         Holds(c)' <=> Holds(c), Holds(c) => rcvd'.msg = rcvd.msg,
         \A t \in Thread : /\ Carries(t, c)' <=> Carries(t, c)
                           /\ Carries(t, c) => data'[t].msg = data[t].msg
  PROVE  InFlight(c)' = InFlight(c)
<1>1. CASE Holds(c)
  BY <1>1 DEF Carriage
<1>2. CASE \E t \in Thread : Carries(t, c)
  BY <1>2 DEF Carriage
<1>3. CASE ~ Holds(c) /\ \A t \in Thread : ~ Carries(t, c)
  BY <1>3 DEF Carriage
<1>4. QED
  BY <1>1, <1>2, <1>3

(* pthread_create hands the message to the thread.                         *)
LEMMA StartHandlerInFlight ==
  ASSUME IndInv, IndInv', StartHandler, NEW c \in Conn
  PROVE  InFlight(c)' = InFlight(c)
<1>1. Carriage /\ Carriage'
  BY CarriageNow, CarriageNext
<1>2. PICK t \in Thread : /\ pc[t] = "free"
                          /\ pc' = [pc EXCEPT ![t] = "start"]
                          /\ data' = [data EXCEPT ![t] = rcvd]
  BY DEF StartHandler
<1>3. /\ AtMessage /\ ~ AtMessage'
      /\ pc'[t] = "start" /\ data'[t] = rcvd
      /\ \A u \in Thread \ {t} : pc'[u] = pc[u] /\ data'[u] = data[u]
  BY <1>2, NextDescriptorMoves DEF StartHandler, AtMessage, IndInv, TypeOK
<1>4. CASE rcvd.conn = c
  <2>1. Holds(c) /\ Carries(t, c)'
    BY <1>3, <1>4 DEF Holds, Carries
  <2>2. QED
    BY <1>1, <1>3, <2>1 DEF Carriage
<1>5. CASE rcvd.conn # c
  <2>1. ~ Holds(c) /\ ~ Holds(c)'
    BY <1>3, <1>5 DEF Holds
  <2>2. \A u \in Thread : /\ Carries(u, c)' <=> Carries(u, c)
                          /\ Carries(u, c) => data'[u].msg = data[u].msg
    BY <1>2, <1>3, <1>5 DEF Carries
  <2>3. QED
    BY <1>1, <2>1, <2>2, InFlightKept
<1>6. QED
  BY <1>4, <1>5

(* Nothing is on its way for the descriptor that the loop receives from or *)
(* closes.                                                                 *)
LEMMA NothingInFlight ==
  ASSUME IndInv, At("recv") \/ AtClosed, i \in Open
  PROVE  InFlight(owner[i]) = <<>>
<1>1. owner[i] \in Conn
  BY DEF IndInv, TypeOK, Open
<1>2. \A t \in Live : data[t].socketd # i /\ data[t].socketd \in Open
                      /\ owner[data[t].socketd] = data[t].conn
  BY DEF IndInv, LoopInv, HandlersInv
<1>3. \A t \in Thread : ~ Carries(t, owner[i])
  BY <1>2 DEF Carries, Live, IndInv, SocketsInv
<1>4. ~ Holds(owner[i])
  BY DEF Holds, AtMessage, AtClosed
<1>5. QED
  BY <1>1, <1>3, <1>4, CarriageNow DEF Carriage

(* What recv returns is on its way; the other messages stay so.            *)
LEMMA ReceiveInFlight ==
  ASSUME IndInv, IndInv', At("recv"), At("block")', UNCHANGED threads,
         i \in Open, rcvd'.conn = owner[i], NEW c \in Conn
  PROVE  InFlight(c)' = IF c = owner[i] THEN rcvd'.msg ELSE InFlight(c)
<1>1. Carriage /\ Carriage'
  BY CarriageNow, CarriageNext
<1>2. CASE c = owner[i]
  BY <1>1, <1>2 DEF Carriage, Holds, AtMessage
<1>3. CASE c # owner[i]
  <2>1. ~ Holds(c) /\ ~ Holds(c)'
    BY <1>3 DEF Holds, AtMessage
  <2>2. \A u \in Thread : /\ Carries(u, c)' <=> Carries(u, c)
                          /\ data'[u].msg = data[u].msg
    BY DEF Carries
  <2>3. QED
    BY <1>1, <1>3, <2>1, <2>2, InFlightKept
<1>4. QED
  BY <1>2, <1>3

(* A step that moves no message: the clients' steps and the loop's others. *)
LEMMA StepKeepsInFlight ==
  ASSUME IndInv, IndInv', UNCHANGED threads, NEW c \in Conn,
         AtMessage' <=> AtMessage, AtMessage => rcvd' = rcvd
  PROVE  InFlight(c)' = InFlight(c)
<1>1. Holds(c)' <=> Holds(c)
  BY DEF Holds
<1>2. \A u \in Thread : /\ Carries(u, c)' <=> Carries(u, c)
                        /\ data'[u].msg = data[u].msg
  BY DEF Carries
<1>3. QED
  BY <1>1, <1>2, InFlightKept, CarriageNow, CarriageNext DEF Holds

(* send takes the message of its thread off the way, no other.             *)
LEMMA EchoSendInFlight ==
  ASSUME IndInv, IndInv', NEW t \in Thread, EchoSend(t), NEW c \in Conn
  PROVE  /\ c = data[t].conn => InFlight(c) = data[t].msg /\ InFlight(c)' = <<>>
         /\ c # data[t].conn => InFlight(c)' = InFlight(c)
<1>1. Carriage /\ Carriage'
  BY CarriageNow, CarriageNext
<1>2. /\ pc[t] = "start" /\ pc'[t] = "unblock" /\ data' = data
      /\ \A u \in Thread \ {t} : pc'[u] = pc[u]
      /\ UNCHANGED loopState
  BY DEF EchoSend, IndInv, TypeOK
<1>3. Holds(c)' <=> Holds(c)
  BY <1>2 DEF Holds, AtMessage
<1>4. CASE c = data[t].conn
  <2>1. Carries(t, c)
    BY <1>2, <1>4 DEF Carries
  <2>2. \A u \in Thread : ~ Carries(u, c)'
    BY <1>1, <1>2, <2>1 DEF Carriage, Carries
  <2>3. QED
    BY <1>1, <1>3, <1>4, <2>1, <2>2 DEF Carriage
<1>5. CASE c # data[t].conn
  <2>1. \A u \in Thread : Carries(u, c)' <=> Carries(u, c)
    BY <1>2, <1>5 DEF Carries
  <2>2. QED
    BY <1>1, <1>2, <1>3, <1>5, <2>1, InFlightKept
<1>6. QED
  BY <1>4, <1>5

(* A handler that unblocks has sent its message.                           *)
LEMMA EchoUnblockInFlight ==
  ASSUME IndInv, IndInv', NEW t \in Thread, EchoUnblock(t), NEW c \in Conn
  PROVE  InFlight(c)' = InFlight(c)
<1>1. /\ pc[t] = "unblock" /\ pc'[t] = "free"
      /\ \A u \in Thread \ {t} : pc'[u] = pc[u] /\ data'[u] = data[u]
      /\ UNCHANGED loopState
  BY DEF EchoUnblock, IndInv, TypeOK
<1>2. Holds(c)' <=> Holds(c)
  BY <1>1 DEF Holds, AtMessage
<1>3. \A u \in Thread : /\ Carries(u, c)' <=> Carries(u, c)
                        /\ Carries(u, c) => data'[u].msg = data[u].msg
  BY <1>1 DEF Carries
<1>4. QED
  BY <1>1, <1>2, <1>3, InFlightKept, CarriageNow, CarriageNext

-----------------------------------------------------------------------------
(* What is sent is on its way or has come back *)

(* What a client sends more is added to what it sent and to its inbox.     *)
LEMMA ClientsSent ==
  ASSUME TypeOK, Clients, NEW c \in Conn
  PROVE  \E more \in Seq(Text) :
           /\ sent'[c] = sent[c] \o more
           /\ inbox'[c] = inbox[c] \o more
           /\ peer[c] # "open" => more = <<>>
<1>1. PICK b \in Conn : \/ Connect(b) \/ ClientSend(b)
                        \/ ClientShutdown(b) \/ ClientReset(b)
  BY DEF Clients
<1>2. CASE ClientSend(b) /\ b = c
  <2>1. PICK said \in Traffic[c] :
          /\ Len(sent[c]) < Len(said) /\ SubSeq(said, 1, Len(sent[c])) = sent[c]
          /\ sent' = [sent EXCEPT ![c] = said]
          /\ inbox' = [inbox EXCEPT
                         ![c] = @ \o SubSeq(said, Len(sent[c]) + 1, Len(said))]
    BY <1>2 DEF ClientSend
  <2> DEFINE more == SubSeq(said, Len(sent[c]) + 1, Len(said))
  <2>2. /\ said \in Seq(Text) /\ sent[c] \in Seq(Text)
        /\ Len(said) \in Nat /\ Len(sent[c]) \in Nat
    BY ConnectionsAssumption, LenProperties DEF TypeOK
  <2>3. more \in Seq(Text)
    BY <2>2, LenProperties, SubSeqProperties
  <2>4. /\ 1 \in 1 .. Len(said) + 1
        /\ Len(sent[c]) \in 1 - 1 .. Len(said)
        /\ Len(said) \in Len(sent[c]) .. Len(said)
    BY <2>1, <2>2
  <2>5. SubSeq(said, 1, Len(sent[c])) \o more = SubSeq(said, 1, Len(said))
    BY <2>2, <2>4, ConcatAdjacentSubSeq
  <2>6. said = sent[c] \o more
    BY <2>1, <2>2, <2>5, SubSeqFull
  <2>7. sent'[c] = said /\ inbox'[c] = inbox[c] \o more
    BY <2>1 DEF TypeOK
  <2>8. peer[c] = "open"
    BY <1>2 DEF ClientSend
  <2>9. QED
    BY <2>3, <2>6, <2>7, <2>8
<1>3. CASE ~ (ClientSend(b) /\ b = c)
  <2>1. sent'[c] = sent[c] /\ inbox'[c] = inbox[c]
    BY <1>1, <1>3 DEF Connect, ClientSend, ClientShutdown, ClientReset, TypeOK
  <2>2. /\ sent[c] \o <<>> = sent[c] /\ inbox[c] \o <<>> = inbox[c]
        /\ <<>> \in Seq(Text)
    BY ConcatEmptySeq, EmptySeq DEF TypeOK
  <2>3. QED
    BY <2>1, <2>2
<1>4. QED
  BY <1>2, <1>3

(* The rearrangements of what was sent that the steps make.                *)
LEMMA Associative ==
  \A s, t, u \in Seq(Text) : (s \o t) \o u = s \o (t \o u)
BY ConcatAssociative

(* What is on its way may come back, or what waits set out.                *)
LEMMA SentBack ==
  ASSUME NEW out \in Seq(Text), NEW way \in Seq(Text), NEW rest \in Seq(Text)
  PROVE  /\ out \o way \o rest = (out \o way) \o <<>> \o rest
         /\ out \o <<>> \o (way \o rest) = out \o way \o rest
<1>1. out \o way \in Seq(Text)
  BY ConcatProperties
<1>2. (out \o way) \o <<>> = out \o way /\ out \o <<>> = out
  BY <1>1, ConcatEmptySeq
<1>3. QED
  BY <1>2, ConcatAssociative

(* What a client got back is the beginning of what it sent.                *)
LEMMA BackIsPrefix ==
  ASSUME NEW s \in Seq(Text), NEW out \in Seq(Text), NEW way \in Seq(Text),
         NEW rest \in Seq(Text), s = out \o way \o rest
  PROVE  Len(out) <= Len(s) /\ out = SubSeq(s, 1, Len(out))
<1> DEFINE others == way \o rest
<1>1. others \in Seq(Text)
  BY ConcatProperties
<1>2. (out \o way) \o rest = out \o others
  BY Associative, Zenon
<1>3. s = out \o others
  BY <1>2
<1>4. Len(s) = Len(out) + Len(others) /\ Len(out) \in Nat /\ Len(others) \in Nat
  BY <1>1, <1>3, ConcatProperties, LenProperties
<1>5. CASE out = <<>>
  <2>1. Len(out) = 0
    BY <1>5, EmptySeq
  <2>2. SubSeq(s, 1, Len(out)) = <<>>
    BY <2>1, SubSeqEmpty
  <2>3. QED
    BY <1>4, <1>5, <2>2
<1>6. CASE out # <<>>
  <2>1. Len(out) \in 1 .. Len(out) /\ 1 \in 1 .. Len(out)
    BY <1>4, <1>6, EmptySeq
  <2>2. SubSeq(s, 1, Len(out)) = SubSeq(out, 1, Len(out))
    BY <1>1, <1>3, <2>1, SubSeqOfConcat1
  <2>3. QED
    BY <1>4, <2>2, SubSeqFull
<1>7. QED
  BY <1>5, <1>6

(* The clients that can still be answered.                                 *)
Listening(c) == peer[c] \notin {"reset", "broken"}

(* A client's step adds at the end, whatever else waits in between.        *)
LEMMA ClientsOrder ==
  ASSUME IndInv, IndInv', Clients,
         UNCHANGED <<sets, threads, loopState, outbox>>,
         NEW c \in Conn, NEW kept \in Seq(Text),
         sent[c] = outbox[c] \o InFlight(c) \o (kept \o inbox[c])
  PROVE  sent'[c] = outbox'[c] \o InFlight(c)' \o (kept \o inbox'[c])
<1>1. PICK more \in Seq(Text) : /\ sent'[c] = sent[c] \o more
                                /\ inbox'[c] = inbox[c] \o more
  BY ClientsSent DEF IndInv
<1>2. InFlight(c)' = InFlight(c)
  BY StepKeepsInFlight DEF AtMessage
<1>3. /\ sent[c] \in Seq(Text) /\ outbox[c] \in Seq(Text)
      /\ inbox[c] \in Seq(Text) /\ InFlight(c) \in Seq(Text)
  BY CarriageNow, InFlightTypes DEF IndInv, TypeOK
<1>4. kept \o inbox[c] \in Seq(Text)
  BY <1>3, ConcatProperties
<1>5. (outbox[c] \o InFlight(c) \o (kept \o inbox[c])) \o more
      = outbox[c] \o InFlight(c) \o ((kept \o inbox[c]) \o more)
  <2>1. outbox[c] \o InFlight(c) \in Seq(Text)
    BY <1>3, ConcatProperties
  <2>2. QED
    BY <1>1, <1>4, <2>1, Associative, Zenon
<1>6. (kept \o inbox[c]) \o more = kept \o (inbox[c] \o more)
  BY <1>1, <1>3, Associative, Zenon
<1>7. QED
  BY <1>1, <1>2, <1>5, <1>6

(* A handler sends the message that is on its way to the client it is for. *)
LEMMA EchoOrder ==
  ASSUME IndInv, IndInv', NEW t \in Thread, Echo(t), NEW c \in Conn,
         Listening(c), NEW rest \in Seq(Text),
         sent[c] = outbox[c] \o InFlight(c) \o rest
  PROVE  sent'[c] = outbox'[c] \o InFlight(c)' \o rest
<1>1. CASE EchoSend(t)
  <2>1. /\ t \in Live
        /\ data[t].socketd \in Open /\ owner[data[t].socketd] = data[t].conn
    BY <1>1 DEF EchoSend, Live, IndInv, HandlersInv
  <2>2. sent' = sent
    BY <1>1 DEF EchoSend
  <2>3. CASE c = data[t].conn
    <3>1. peer[c] # "idle"
      BY <2>1, <2>3 DEF IndInv, SocketsInv
    <3>2. Writable(data[t].socketd)
      BY <2>1, <2>3, <3>1 DEF Writable, Listening, IndInv, TypeOK, PeerState
    <3>3. outbox'[c] = outbox[c] \o data[t].msg
      BY <1>1, <2>1, <2>3, <3>2 DEF EchoSend, IndInv, TypeOK
    <3>4. InFlight(c) = data[t].msg /\ InFlight(c)' = <<>>
      BY <1>1, <2>3, EchoSendInFlight
    <3>5. outbox[c] \in Seq(Text) /\ data[t].msg \in Seq(Text)
      BY DEF IndInv, TypeOK, Data
    <3>6. outbox[c] \o data[t].msg \o rest
          = (outbox[c] \o data[t].msg) \o <<>> \o rest
      BY <3>5, SentBack, Zenon
    <3>7. QED
      BY <2>2, <3>3, <3>4, <3>6
  <2>4. CASE c # data[t].conn
    <3>1. outbox'[c] = outbox[c]
      BY <1>1, <2>1, <2>4 DEF EchoSend, IndInv, TypeOK
    <3>2. InFlight(c)' = InFlight(c)
      BY <1>1, <2>4, EchoSendInFlight
    <3>3. QED
      BY <2>2, <3>1, <3>2
  <2>5. QED
    BY <2>3, <2>4
<1>2. CASE EchoUnblock(t)
  BY <1>2, EchoUnblockInFlight DEF EchoUnblock
<1>3. QED
  BY <1>1, <1>2 DEF Echo

(* The loop's steps move a message from the inbox on its way, and keep it. *)
LEMMA MainLoopOrder ==
  ASSUME IndInv, IndInv', MainLoop, UNCHANGED outbox, NEW c \in Conn,
         sent[c] = outbox[c] \o InFlight(c) \o inbox[c]
  PROVE  sent'[c] = outbox'[c] \o InFlight(c)' \o inbox'[c]
<1>1. CASE ReceiveData
  <2>1. PICK n \in 1 .. Len(inbox[owner[i]]) :
          /\ rcvd' = [socketd |-> i, conn |-> owner[i],
                      msg |-> SubSeq(inbox[owner[i]], 1, n)]
          /\ inbox' = [inbox EXCEPT ![owner[i]] = SubSeq(@, n + 1, Len(@))]
    BY <1>1 DEF ReceiveData
  <2>2. i \in Open /\ owner[i] \in Conn /\ sent' = sent
    BY <1>1 DEF ReceiveData, Open, IndInv, TypeOK
  <2>3. InFlight(c)' = IF c = owner[i] THEN rcvd'.msg ELSE InFlight(c)
    BY <1>1, <2>1, <2>2, ReceiveInFlight DEF ReceiveData
  <2>4. CASE c = owner[i]
    <3>1. rcvd'.msg = SubSeq(inbox[c], 1, n)
          /\ inbox'[c] = SubSeq(inbox[c], n + 1, Len(inbox[c]))
      BY <2>1, <2>4 DEF IndInv, TypeOK
    <3>2. /\ inbox[c] \in Seq(Text) /\ outbox[c] \in Seq(Text)
          /\ rcvd'.msg \in Seq(Text) /\ inbox'[c] \in Seq(Text)
      BY DEF IndInv, TypeOK, Data
    <3>3. /\ 1 \in 1 .. Len(inbox[c]) + 1
          /\ n \in 1 - 1 .. Len(inbox[c])
          /\ Len(inbox[c]) \in n .. Len(inbox[c])
      BY <2>4, <3>2, LenProperties
    <3>4. inbox[c] = rcvd'.msg \o inbox'[c]
      BY <3>1, <3>2, <3>3, ConcatAdjacentSubSeq, SubSeqFull
    <3>5. InFlight(c) = <<>>
      BY <1>1, <2>2, <2>4, NothingInFlight DEF ReceiveData
    <3>6. outbox[c] \o <<>> \o (rcvd'.msg \o inbox'[c])
          = outbox[c] \o rcvd'.msg \o inbox'[c]
      BY <3>2, SentBack
    <3>7. QED
      BY <2>2, <2>3, <2>4, <3>4, <3>5, <3>6
  <2>5. CASE c # owner[i]
    <3>1. inbox'[c] = inbox[c]
      BY <2>1, <2>5 DEF IndInv, TypeOK
    <3>2. QED
      BY <2>2, <2>3, <2>5, <3>1
  <2>6. QED
    BY <2>4, <2>5
<1>2. CASE StartHandler
  BY <1>2, StartHandlerInFlight DEF StartHandler
<1>3. CASE ~ ReceiveData /\ ~ StartHandler
  <2>1. /\ UNCHANGED <<threads, sent, inbox>>
        /\ AtMessage' <=> AtMessage
        /\ AtMessage => rcvd' = rcvd
    BY <1>3, NextDescriptorMoves
    DEF MainLoop, CopyConnections, Select, Scan, Accept, AddAccepted,
        ReceiveClosed, ReceiveReset, ReceiveBadFd, RemoveClosed, BlockGone,
        CloseDescriptor, UnblockClosed, RemoveClosedAgain, BlockConnection,
        AtMessage, IndInv
  <2>2. InFlight(c)' = InFlight(c)
    BY <2>1, StepKeepsInFlight
  <2>3. QED
    BY <2>1, <2>2
<1>4. QED
  BY <1>1, <1>2, <1>3

(* A client that is gone sends and gets no more.                           *)
LEMMA GoneIsGone ==
  ASSUME IndInv, [Next]_vars, NEW c \in Conn, ~ Listening(c)
  PROVE  ~ Listening(c)' /\ sent'[c] = sent[c] /\ outbox'[c] = outbox[c]
<1>1. CASE Clients /\ UNCHANGED <<sets, threads, loopState, outbox>>
  BY <1>1 DEF Clients, Connect, ClientSend, ClientShutdown, ClientReset,
              Listening, IndInv, TypeOK
<1>2. CASE MainLoop /\ UNCHANGED outbox
  <2>1. CASE ReceiveReset
    BY <1>2, <2>1 DEF ReceiveReset, Listening, IndInv, TypeOK
  <2>2. CASE ~ ReceiveReset
    BY <1>2, <2>2
    DEF MainLoop, CopyConnections, Select, Scan, Accept, AddAccepted, ReceiveData,
        ReceiveClosed, ReceiveBadFd, RemoveClosed, BlockGone,
        CloseDescriptor, UnblockClosed, RemoveClosedAgain, BlockConnection,
        StartHandler, Listening
  <2>3. QED
    BY <2>1, <2>2
<1>3. CASE \E t \in Thread : Echo(t)
  BY <1>3 DEF Echo, EchoSend, EchoUnblock, Writable, Open, Listening, IndInv, TypeOK
<1>4. CASE UNCHANGED vars
  BY <1>4 DEF vars, Listening
<1>5. QED
  BY <1>1, <1>2, <1>3, <1>4 DEF Next

(* Every step keeps the order.                                             *)
LEMMA NextOrder ==
  IndInv /\ IndInv' /\ EchoesInOrder /\ [Next]_vars => EchoesInOrder'
<1> SUFFICES ASSUME IndInv, IndInv', EchoesInOrder, [Next]_vars, NEW c \in Conn
             PROVE  IF peer'[c] \in {"reset", "broken"}
                    THEN /\ Len(outbox'[c]) <= Len(sent'[c])
                         /\ outbox'[c] = SubSeq(sent'[c], 1, Len(outbox'[c]))
                    ELSE sent'[c] = outbox'[c] \o InFlight(c)' \o inbox'[c]
  BY DEF EchoesInOrder
<1>1. ASSUME Listening(c)
      PROVE  sent'[c] = outbox'[c] \o InFlight(c)' \o inbox'[c]
  <2>1. sent[c] = outbox[c] \o InFlight(c) \o inbox[c]
    BY <1>1 DEF EchoesInOrder, Listening
  <2>2. CASE Clients /\ UNCHANGED <<sets, threads, loopState, outbox>>
    <3>1. <<>> \in Seq(Text) /\ inbox[c] \in Seq(Text) /\ inbox'[c] \in Seq(Text)
      BY EmptySeq DEF IndInv, TypeOK
    <3>2. <<>> \o inbox[c] = inbox[c] /\ <<>> \o inbox'[c] = inbox'[c]
      BY <3>1, ConcatEmptySeq
    <3>3. sent'[c] = outbox'[c] \o InFlight(c)' \o (<<>> \o inbox'[c])
      BY <2>1, <2>2, <3>1, <3>2, ClientsOrder
    <3>4. QED
      BY <3>2, <3>3
  <2>3. CASE MainLoop /\ UNCHANGED outbox
    BY <2>1, <2>3, MainLoopOrder
  <2>4. CASE \E t \in Thread : Echo(t)
    <3>1. inbox[c] \in Seq(Text) /\ inbox' = inbox
      BY <2>4 DEF Echo, EchoSend, EchoUnblock, IndInv, TypeOK
    <3>2. QED
      BY <1>1, <2>1, <2>4, <3>1, EchoOrder
  <2>5. CASE UNCHANGED vars
    <3>1. InFlight(c)' = InFlight(c)
      BY <2>5, StepKeepsInFlight DEF vars, AtMessage
    <3>2. QED
      BY <2>1, <2>5, <3>1 DEF vars
  <2>6. QED
    BY <2>2, <2>3, <2>4, <2>5 DEF Next
<1>2. CASE Listening(c)'
  BY <1>1, <1>2, GoneIsGone DEF Listening
<1>3. CASE Listening(c) /\ ~ Listening(c)'
  <2>1. /\ sent'[c] \in Seq(Text) /\ outbox'[c] \in Seq(Text)
        /\ inbox'[c] \in Seq(Text)
    BY DEF IndInv, TypeOK
  <2>2. InFlight(c)' \in Seq(Text)
    BY CarriageNext, InFlightTypesNext DEF IndInv
  <2>3. QED
    BY <1>1, <1>3, <2>1, <2>2, BackIsPrefix DEF Listening
<1>4. CASE ~ Listening(c)
  BY <1>4, GoneIsGone DEF EchoesInOrder, Listening
<1>5. QED
  BY <1>2, <1>3, <1>4

(* What every client gets back is what it sent, in order, whatever the     *)
(* loop, the threads and the other clients do meanwhile.                   *)
THEOREM InOrder == Spec => []EchoesInOrder
<1>1. Init => EchoesInOrder
  <2> SUFFICES ASSUME Init, NEW c \in Conn
               PROVE  /\ peer[c] = "idle"
                      /\ sent[c] = outbox[c] \o InFlight(c) \o inbox[c]
    BY DEF EchoesInOrder
  <2>1. InFlight(c) = <<>>
    BY DEF Init, ServerInit, InFlight
  <2>2. <<>> = <<>> \o <<>> \o <<>>
    BY EmptySeq, ConcatEmptySeq
  <2>3. QED
    BY <2>1, <2>2 DEF Init, ServerInit, ConnectionsInit
<1>2. QED
  BY <1>1, Invariance, NextOrder, PTL DEF Spec

-----------------------------------------------------------------------------
(* Nobody who waits for an echo is let go *)

(* Which connections the process has, step by step.                        *)
Known(c) == Pending(c) \/ Accepted(c)

(* Only close lets go of a connection.                                     *)
LEMMA KnownStays ==
  ASSUME IndInv, [Next]_vars, NEW c \in Conn, Known(c),
         ~ (CloseDescriptor /\ owner[i] = c)
  PROVE  Known(c)'
<1>1. CASE Accept
  <2>1. PICK d \in Fd : /\ owner[d] = NoConn
                        /\ owner' = [owner EXCEPT ![d] = Head(backlog)]
    BY <1>1 DEF Accept, IsLowestFree
  <2>2. /\ backlog # <<>> /\ backlog' = Tail(backlog) /\ backlog \in Seq(Conn)
    BY <1>1 DEF Accept, IndInv, TypeOK
  <2>3. /\ Len(backlog) \in Nat /\ Len(backlog) > 0
        /\ DOMAIN backlog = 1 .. Len(backlog)
        /\ DOMAIN backlog' = 1 .. Len(backlog) - 1
        /\ \A k \in 1 .. Len(backlog) - 1 : backlog'[k] = backlog[k + 1]
        /\ Head(backlog) = backlog[1]
    BY <2>2, HeadTailProperties, LenProperties, EmptySeq
  <2>4. owner'[d] = Head(backlog) /\ \A e \in Fd : e # d => owner'[e] = owner[e]
    BY <2>1 DEF IndInv, TypeOK
  <2>5. CASE Accepted(c)
    BY <2>1, <2>4, <2>5, ConnectionsAssumption DEF Accepted, Known
  <2>6. CASE Pending(c)
    <3>1. PICK k \in 1 .. Len(backlog) : backlog[k] = c
      BY <2>3, <2>6 DEF Pending
    <3>2. CASE k = 1
      BY <2>3, <2>4, <3>1, <3>2 DEF Accepted, Known
    <3>3. CASE k # 1
      <4>1. k - 1 \in 1 .. Len(backlog) - 1 /\ (k - 1) + 1 = k
        BY <2>3, <3>3
      <4>2. backlog'[k - 1] = c
        BY <2>3, <3>1, <4>1
      <4>3. QED
        BY <2>3, <4>1, <4>2 DEF Pending, Known
    <3>4. QED
      BY <3>2, <3>3
  <2>7. QED
    BY <2>5, <2>6 DEF Known
<1>2. CASE CloseDescriptor
  <2>1. \A e \in Fd : e # i => owner'[e] = owner[e]
    BY <1>2 DEF CloseDescriptor, tcpsocket_close, IndInv, TypeOK
  <2>2. QED
    BY <1>2, <2>1 DEF CloseDescriptor, Known, Pending, Accepted
<1>3. CASE Clients /\ UNCHANGED <<sets, threads, loopState, outbox>>
  <2>1. CASE \E b \in Conn : Connect(b)
    <3>1. PICK b \in Conn : Connect(b)
      BY <2>1
    <3>2. /\ DOMAIN backlog' = 1 .. Len(backlog) + 1
          /\ \A k \in 1 .. Len(backlog) : backlog'[k] = backlog[k]
          /\ DOMAIN backlog = 1 .. Len(backlog) /\ Len(backlog) \in Nat
      BY <3>1, AppendProperties, LenProperties DEF Connect, IndInv, TypeOK
    <3>3. Pending(c) => Pending(c)'
      BY <3>2 DEF Pending
    <3>4. Accepted(c)' <=> Accepted(c)
      BY <3>1 DEF Connect, Accepted
    <3>5. QED
      BY <3>3, <3>4 DEF Known
  <2>2. CASE ~ \E b \in Conn : Connect(b)
    BY <1>3, <2>2 DEF Clients, ClientSend, ClientShutdown, ClientReset,
                      Known, Pending, Accepted
  <2>3. QED
    BY <2>1, <2>2
<1>4. CASE MainLoop /\ ~ Accept /\ ~ CloseDescriptor
  BY <1>4
  DEF MainLoop, CopyConnections, Select, Scan, AddAccepted, ReceiveData,
      ReceiveClosed, ReceiveReset, ReceiveBadFd, RemoveClosed, BlockGone,
      UnblockClosed, RemoveClosedAgain, BlockConnection, StartHandler,
      Known, Pending, Accepted
<1>5. CASE \E t \in Thread : Echo(t)
  BY <1>5 DEF Echo, EchoSend, EchoUnblock, Known, Pending, Accepted
<1>6. CASE UNCHANGED vars
  BY <1>6 DEF vars, Known, Pending, Accepted
<1>7. QED
  BY <1>1, <1>2, <1>3, <1>4, <1>5, <1>6 DEF Next

(* What close finds: a client that is gone, or one that was answered.      *)
Answered(c) == Listening(c) => outbox[c] = sent[c]

(* The loop closes a descriptor with nothing on its way and nothing unread,*)
(* so by the order of the echo all of it has come back.                    *)
LEMMA CloseFinds ==
  ASSUME IndInv, EchoesInOrder, CloseDescriptor
  PROVE  Answered(owner[i])
<1>1. /\ i \in Open /\ owner[i] \in Conn /\ peer[owner[i]] # "open"
      /\ inbox[owner[i]] = <<>>
  BY DEF CloseDescriptor, IndInv, LoopInv, Open, TypeOK
<1>2. InFlight(owner[i]) = <<>>
  BY <1>1, NothingInFlight DEF CloseDescriptor, AtClosed
<1>3. Listening(owner[i]) =>
        sent[owner[i]] = outbox[owner[i]] \o <<>> \o <<>>
  BY <1>1, <1>2 DEF EchoesInOrder, Listening
<1>4. outbox[owner[i]] \in Seq(Text)
  BY <1>1 DEF IndInv, TypeOK
<1>5. outbox[owner[i]] \o <<>> \o <<>> = outbox[owner[i]]
  BY <1>4, ConcatEmptySeq
<1>6. QED
  BY <1>3, <1>5 DEF Answered

(* Whoever is let go, or never came, gets and says no more.                *)
LEMMA UnknownStays ==
  ASSUME IndInv, [Next]_vars, NEW c \in Conn, ~ Known(c), peer[c] # "idle"
  PROVE  peer'[c] = peer[c] /\ sent'[c] = sent[c] /\ outbox'[c] = outbox[c]
<1>1. CASE Clients /\ UNCHANGED <<sets, threads, loopState, outbox>>
  BY <1>1 DEF Clients, Connect, ClientSend, ClientShutdown, ClientReset,
              Known, IndInv, TypeOK
<1>2. CASE MainLoop /\ UNCHANGED outbox
  <2>1. CASE ReceiveReset
    BY <1>2, <2>1
    DEF ReceiveReset, Known, Accepted, Open, IndInv, TypeOK
  <2>2. CASE ~ ReceiveReset
    BY <1>2, <2>2
    DEF MainLoop, CopyConnections, Select, Scan, Accept, AddAccepted, ReceiveData,
        ReceiveClosed, ReceiveBadFd, RemoveClosed, BlockGone,
        CloseDescriptor, UnblockClosed, RemoveClosedAgain, BlockConnection,
        StartHandler
  <2>3. QED
    BY <2>1, <2>2
<1>3. CASE \E t \in Thread : Echo(t)
  BY <1>3 DEF Echo, EchoSend, EchoUnblock, Writable, Open, Known, Accepted,
              IndInv, TypeOK
<1>4. CASE UNCHANGED vars
  BY <1>4 DEF vars
<1>5. QED
  BY <1>1, <1>2, <1>3, <1>4 DEF Next

(* What a client was not sent back when its connection is closed, it never *)
(* will be: there is none, unless the client is gone.                      *)
LEMMA StepCloses ==
  ASSUME IndInv, ClosesAfterEcho, [Next]_vars,
         CloseDescriptor => Answered(owner[i])
  PROVE  ClosesAfterEcho'
<1> SUFFICES ASSUME NEW c \in Conn, peer'[c] = "eof", ~ Known(c)'
             PROVE  outbox'[c] = sent'[c]
  BY DEF ClosesAfterEcho, Known
<1>1. CASE Known(c)
  <2>1. CloseDescriptor /\ owner[i] = c
    BY <1>1, KnownStays
  <2>2. peer' = peer /\ sent' = sent
    BY <2>1 DEF CloseDescriptor
  <2>3. outbox' = outbox
    BY <2>1 DEF CloseDescriptor, Next, vars, Echo, EchoSend, EchoUnblock
  <2>4. QED
    BY <2>1, <2>2, <2>3 DEF Answered, Listening
<1>2. CASE ~ Known(c) /\ peer[c] # "idle"
  BY <1>2, UnknownStays DEF ClosesAfterEcho, Known
<1>3. CASE peer[c] = "idle"
  BY <1>3
  DEF Next, vars, Clients, Connect, ClientSend, ClientShutdown, ClientReset,
      MainLoop, CopyConnections, Select, Scan, Accept, AddAccepted, ReceiveData,
      ReceiveClosed, ReceiveReset, ReceiveBadFd, RemoveClosed, BlockGone,
      CloseDescriptor, UnblockClosed, RemoveClosedAgain, BlockConnection,
      StartHandler, Echo, EchoSend, EchoUnblock, IndInv, TypeOK
<1>4. QED
  BY <1>1, <1>2, <1>3

(* Every step keeps ClosesAfterEcho.                                       *)
LEMMA NextCloses ==
  IndInv /\ EchoesInOrder /\ ClosesAfterEcho /\ [Next]_vars => ClosesAfterEcho'
BY StepCloses, CloseFinds

(* A client that ends with shutdown has all its echoes before its          *)
(* descriptor is closed.                                                   *)
THEOREM ClosesAnswered == Spec => []ClosesAfterEcho
<1>1. Init => ClosesAfterEcho
  BY DEF Init, ServerInit, ConnectionsInit, ClosesAfterEcho
<1>2. QED
  BY <1>1, Invariance, InOrder, NextCloses, PTL DEF Spec

-----------------------------------------------------------------------------
(* Each connection is served as if it were alone *)

(* The client's and the server's side of a connection, in the service.     *)
LEMMA SidesSame ==
  ASSUME UNCHANGED <<backlog, owner>>, NEW c \in Conn, peer'[c] = peer[c]
  PROVE  ClientSide(c)' = ClientSide(c) /\ ServerSide(c)' = ServerSide(c)
BY DEF ClientSide, ServerSide, Pending, Accepted

(* A step that the service does not see.                                   *)
LEMMA Unseen ==
  ASSUME UNCHANGED <<sent, outbox>>,
         \A c \in Conn : /\ ClientSide(c)' = ClientSide(c)
                         /\ ServerSide(c)' = ServerSide(c)
  PROVE  [Service!Next]_(Service!vars)
<1>1. [c \in Conn |-> ClientSide(c)]' = [c \in Conn |-> ClientSide(c)]
  OBVIOUS
<1>2. [c \in Conn |-> ServerSide(c)]' = [c \in Conn |-> ServerSide(c)]
  OBVIOUS
<1>3. QED
  BY <1>1, <1>2 DEF Service!vars

(* A client that connects is not served yet.                               *)
LEMMA ConnectServes ==
  ASSUME IndInv, NEW c \in Conn, Connect(c), UNCHANGED outbox
  PROVE  Service!Next
<1>1. \A b \in Conn : ClientSide(b)' = IF b = c THEN "talking" ELSE ClientSide(b)
  BY DEF Connect, ClientSide, IndInv, TypeOK
<1>2. \A b \in Conn : /\ Pending(b)' <=> Pending(b) \/ b = c
                      /\ Accepted(b)' <=> Accepted(b)
  <2>1. /\ DOMAIN backlog' = 1 .. Len(backlog) + 1
        /\ \A k \in 1 .. Len(backlog) : backlog'[k] = backlog[k]
        /\ backlog'[Len(backlog) + 1] = c
        /\ DOMAIN backlog = 1 .. Len(backlog) /\ Len(backlog) \in Nat
    BY AppendProperties, LenProperties DEF Connect, IndInv, TypeOK
  <2>2. QED
    BY <2>1 DEF Connect, Pending, Accepted
<1>3. \A b \in Conn : peer'[b] = "idle" <=> peer[b] = "idle" /\ b # c
  BY DEF Connect, IndInv, TypeOK
<1>4. peer[c] = "idle"
  BY DEF Connect
<1>5. \A b \in Conn : ServerSide(b)' = ServerSide(b)
  BY <1>2, <1>3, <1>4 DEF ServerSide
<1>6. ClientSide(c) = "idle"
  BY <1>4 DEF ClientSide
<1>7. Service!Connect(c)
  BY <1>1, <1>5, <1>6 DEF Connect, Service!Connect
<1>8. QED
  BY <1>7 DEF Service!Next

(* A client says more only while it is waited for.                         *)
LEMMA ClientSendServes ==
  ASSUME IndInv, NEW c \in Conn, ClientSend(c), UNCHANGED outbox
  PROVE  Service!Next
<1>1. PICK said \in Traffic[c] :
        /\ Len(sent[c]) < Len(said) /\ SubSeq(said, 1, Len(sent[c])) = sent[c]
        /\ sent' = [sent EXCEPT ![c] = said]
  BY DEF ClientSend
<1>2. sent'[c] = said
  BY <1>1 DEF IndInv, TypeOK
<1>3. \A b \in Conn : /\ ClientSide(b)' = ClientSide(b)
                      /\ ServerSide(b)' = ServerSide(b)
  BY SidesSame DEF ClientSend
<1>4. ClientSide(c) = "talking" /\ ServerSide(c) # "done"
  BY DEF ClientSend, ClientSide, ServerSide
<1>5. Service!Say(c)
  BY <1>1, <1>2, <1>3, <1>4 DEF Service!Say
<1>6. QED
  BY <1>5 DEF Service!Next

(* A client stops sending, or dies while it is waited for.                 *)
LEMMA ClientEndServes ==
  ASSUME IndInv, NEW c \in Conn, ClientShutdown(c) \/ ClientReset(c),
         UNCHANGED outbox
  PROVE  Service!Next
<1>1. \A b \in Conn : ServerSide(b)' = ServerSide(b)
  BY DEF ClientShutdown, ClientReset, ServerSide, Pending, Accepted, IndInv, TypeOK
<1>2. UNCHANGED sent
  BY DEF ClientShutdown, ClientReset
<1>3. CASE ClientShutdown(c)
  <2>1. \A b \in Conn :
          ClientSide(b)' = IF b = c THEN "listening" ELSE ClientSide(b)
    BY <1>3 DEF ClientShutdown, ClientSide, IndInv, TypeOK
  <2>2. ClientSide(c) = "talking"
    BY <1>3 DEF ClientShutdown, ClientSide
  <2>3. Service!Finish(c)
    BY <1>1, <1>2, <2>1, <2>2 DEF Service!Finish
  <2>4. QED
    BY <2>3 DEF Service!Next
<1>4. CASE ClientReset(c)
  <2>1. \A b \in Conn :
          ClientSide(b)' = IF b = c THEN "dead" ELSE ClientSide(b)
    BY <1>4 DEF ClientReset, ClientSide, IndInv, TypeOK
  <2>2. ClientSide(c) \in {"talking", "listening"} /\ ServerSide(c) # "done"
    BY <1>4 DEF ClientReset, ClientSide, ServerSide
  <2>3. Service!Die(c)
    BY <1>1, <1>2, <2>1, <2>2 DEF Service!Die
  <2>4. QED
    BY <2>3 DEF Service!Next
<1>5. QED
  BY <1>3, <1>4

(* accept serves the client that waits longest.                            *)
LEMMA AcceptServes ==
  ASSUME IndInv, IndInv', Accept, UNCHANGED outbox
  PROVE  Service!Next
<1>1. PICK d \in Fd : /\ owner[d] = NoConn
                      /\ owner' = [owner EXCEPT ![d] = Head(backlog)]
  BY DEF Accept, IsLowestFree
<1>2. /\ backlog # <<>> /\ backlog' = Tail(backlog) /\ backlog \in Seq(Conn)
  BY DEF Accept, IndInv, TypeOK
<1>3. /\ Len(backlog) \in Nat /\ Len(backlog) > 0
      /\ DOMAIN backlog = 1 .. Len(backlog)
      /\ DOMAIN backlog' = 1 .. Len(backlog) - 1
      /\ \A k \in 1 .. Len(backlog) - 1 : backlog'[k] = backlog[k + 1]
      /\ Head(backlog) = backlog[1] /\ backlog[1] \in Conn
  BY <1>2, HeadTailProperties, LenProperties, EmptySeq
<1>4. PICK c \in Conn : c = backlog[1]
  BY <1>3
<1>5. owner'[d] = c /\ \A e \in Fd : e # d => owner'[e] = owner[e]
  BY <1>1, <1>3, <1>4 DEF IndInv, TypeOK
<1>6. \A b \in Conn : Accepted(b)' <=> Accepted(b) \/ b = c
  BY <1>1, <1>5, ConnectionsAssumption DEF Accepted
<1>7. Pending(c) /\ ~ Accepted(c) /\ peer[c] # "idle"
  BY <1>3, <1>4 DEF Pending, IndInv, SocketsInv
<1>8. ~ Pending(c)'
  BY <1>3, <1>6 DEF IndInv, SocketsInv
<1>9. ASSUME NEW b \in Conn, b # c PROVE Pending(b)' <=> Pending(b)
  <2>1. Pending(b)' => Pending(b)
    BY <1>3 DEF Pending
  <2>2. ASSUME Pending(b) PROVE Pending(b)'
    <3>1. PICK k \in 1 .. Len(backlog) : backlog[k] = b
      BY <1>3, <2>2 DEF Pending
    <3>2. k - 1 \in 1 .. Len(backlog) - 1 /\ (k - 1) + 1 = k
      BY <1>3, <1>4, <1>9, <3>1
    <3>3. QED
      BY <1>3, <3>1, <3>2 DEF Pending
  <2>3. QED
    BY <2>1, <2>2
<1>10. peer' = peer /\ sent' = sent
  BY DEF Accept
<1>11. \A b \in Conn : ClientSide(b)' = ClientSide(b)
  BY <1>10 DEF ClientSide
<1>12. \A b \in Conn : ServerSide(b)' = IF b = c THEN "yes" ELSE ServerSide(b)
  BY <1>6, <1>7, <1>8, <1>9, <1>10 DEF ServerSide
<1>13. ServerSide(c) = "no" /\ ClientSide(c) # "idle"
  BY <1>7 DEF ServerSide, ClientSide, IndInv, TypeOK
<1>14. Service!Serve(c)
  BY <1>10, <1>11, <1>12, <1>13 DEF Service!Serve
<1>15. QED
  BY <1>14 DEF Service!Next

(* close lets go of a client that was answered or is dead.                 *)
LEMMA CloseServes ==
  ASSUME IndInv, CloseDescriptor, UNCHANGED outbox, Answered(owner[i])
  PROVE  Service!Next
<1>1. i \in Open /\ peer[owner[i]] # "open"
  BY DEF CloseDescriptor, IndInv, LoopInv
<1>2. PICK c \in Conn : c = owner[i] /\ i \in Fd
  BY <1>1 DEF Open, IndInv, TypeOK
<1>3. owner' = [owner EXCEPT ![i] = NoConn] /\ UNCHANGED <<peer, backlog, sent>>
  BY DEF CloseDescriptor, tcpsocket_close
<1>4. Accepted(c) /\ ~ Pending(c) /\ peer[c] # "idle"
  BY <1>1, <1>2 DEF Accepted, IndInv, SocketsInv
<1>5. owner'[i] = NoConn /\ \A d \in Fd : d # i => owner'[d] = owner[d]
  BY <1>2, <1>3 DEF IndInv, TypeOK
<1>6. ~ Accepted(c)'
  BY <1>1, <1>2, <1>5, ConnectionsAssumption DEF Accepted, Open, IndInv, SocketsInv
<1>7. \A b \in Conn : b # c => (Accepted(b)' <=> Accepted(b))
  BY <1>2, <1>5, ConnectionsAssumption DEF Accepted
<1>8. \A b \in Conn : /\ ClientSide(b)' = ClientSide(b)
                      /\ Pending(b)' <=> Pending(b)
  BY <1>3 DEF ClientSide, Pending
<1>9. \A b \in Conn : ServerSide(b)' = IF b = c THEN "done" ELSE ServerSide(b)
  BY <1>3, <1>4, <1>6, <1>7, <1>8 DEF ServerSide
<1>10. ServerSide(c) = "yes"
  BY <1>4 DEF ServerSide
<1>11. \/ ClientSide(c) = "listening" /\ outbox[c] = sent[c]
       \/ ClientSide(c) = "dead"
  BY <1>1, <1>2, <1>4 DEF ClientSide, Answered, Listening, IndInv, TypeOK, PeerState
<1>12. Service!LetGo(c)
  BY <1>2, <1>3, <1>8, <1>9, <1>10, <1>11 DEF Service!LetGo
<1>13. QED
  BY <1>2, <1>12 DEF Service!Next

(* send answers with the next texts of the client it is for.               *)
LEMMA EchoServes ==
  ASSUME IndInv, IndInv', NEW t \in Thread, Echo(t),
         \A c \in Conn : Listening(c) =>
           \E rest \in Seq(Text) : sent[c] = outbox[c] \o InFlight(c) \o rest
  PROVE  [Service!Next]_(Service!vars)
<1> DEFINE c == data[t].conn
           d == data[t].socketd
<1>1. \A b \in Conn : /\ ClientSide(b)' = ClientSide(b)
                      /\ ServerSide(b)' = ServerSide(b)
  BY SidesSame DEF Echo, EchoSend, EchoUnblock
<1>2. sent' = sent
  BY DEF Echo, EchoSend, EchoUnblock
<1>3. CASE outbox' = outbox
  BY <1>1, <1>2, <1>3, Unseen
<1>4. CASE outbox' # outbox
  <2>1. /\ EchoSend(t) /\ Writable(d)
        /\ outbox' = [outbox EXCEPT ![owner[d]] = @ \o data[t].msg]
    BY <1>4 DEF Echo, EchoSend, EchoUnblock
  <2>2. d \in Open /\ owner[d] = c
    BY <2>1 DEF EchoSend, Live, IndInv, HandlersInv
  <2>3. c \in Conn /\ Listening(c) /\ peer[c] \in {"open", "eof"}
    BY <2>1, <2>2 DEF Writable, Listening, Open, IndInv, TypeOK
  <2>4. PICK rest \in Seq(Text) : sent[c] = outbox[c] \o InFlight(c) \o rest
    BY <2>3
  <2>5. InFlight(c) = data[t].msg
    BY <2>1, <2>3, EchoSendInFlight
  <2> DEFINE more == outbox[c] \o data[t].msg
  <2>6. /\ outbox[c] \in Seq(Text) /\ data[t].msg \in Seq(Text)
        /\ sent[c] \in Seq(Text) /\ more \in Seq(Text)
    BY <2>3, ConcatProperties DEF IndInv, TypeOK, Data
  <2>7. outbox' = [outbox EXCEPT ![c] = more]
    BY <2>1, <2>2
  <2> HIDE DEF c, more
  <2>8. data[t].msg # <<>>
    <3>1. ASSUME data[t].msg = <<>> PROVE outbox' = outbox
      <4>1. more = outbox[c]
        BY <2>6, <3>1, ConcatEmptySeq DEF more
      <4>2. QED
        BY <2>7, <4>1 DEF IndInv, TypeOK
    <3>2. QED
      BY <1>4, <3>1
  <2>9. sent[c] = more \o <<>> \o rest
    BY <2>4, <2>5, <2>6, SentBack DEF more
  <2>10. Len(more) <= Len(sent[c]) /\ more = SubSeq(sent[c], 1, Len(more))
    BY <2>4, <2>6, <2>9, EmptySeq, BackIsPrefix
  <2>11. Len(more) \in Len(outbox[c]) + 1 .. Len(sent[c])
    <3>1. Len(data[t].msg) \in Nat \ {0}
      BY <2>6, <2>8, EmptySeq
    <3>2. /\ Len(more) = Len(outbox[c]) + Len(data[t].msg)
          /\ Len(outbox[c]) \in Nat /\ Len(sent[c]) \in Nat
      BY <2>6, ConcatProperties, LenProperties DEF more
    <3>3. \A k, l \in Nat : \A m \in Nat \ {0} :
            k + m <= l => k + m \in k + 1 .. l
      OBVIOUS
    <3>4. QED
      BY <2>10, <3>1, <3>2, <3>3, Zenon
  <2>12. outbox' = [outbox EXCEPT ![c] = SubSeq(sent[c], 1, Len(more))]
    BY <2>7, <2>10
  <2>13. ClientSide(c) \in {"talking", "listening"} /\ ServerSide(c) = "yes"
    BY <2>2, <2>3 DEF ClientSide, ServerSide, Accepted, Open, IndInv, SocketsInv
  <2>14. Service!Reply(c)
    BY <1>1, <1>2, <2>3, <2>11, <2>12, <2>13 DEF Service!Reply
  <2>15. QED
    BY <2>3, <2>14 DEF Service!Next
<1>5. QED
  BY <1>3, <1>4

(* A client's step is one of the service's.                                *)
LEMMA ClientsServe ==
  ASSUME IndInv, Clients, UNCHANGED outbox
  PROVE  Service!Next
BY ConnectServes, ClientSendServes, ClientEndServes DEF Clients

(* The loop's other steps are not seen; a reset that recv reports is of a  *)
(* client already dead.                                                    *)
LEMMA MainLoopUnseen ==
  ASSUME IndInv, MainLoop, UNCHANGED outbox, ~ Accept, ~ CloseDescriptor
  PROVE  [Service!Next]_(Service!vars)
<1>1. UNCHANGED <<backlog, owner, sent>>
  BY DEF MainLoop, CopyConnections, Select, Scan, AddAccepted, ReceiveData,
         ReceiveClosed, ReceiveReset, ReceiveBadFd, RemoveClosed, BlockGone,
         UnblockClosed, RemoveClosedAgain, BlockConnection, StartHandler
<1>2. \A c \in Conn : peer'[c] # peer[c] => peer[c] = "reset" /\ peer'[c] = "broken"
  BY DEF MainLoop, CopyConnections, Select, Scan, AddAccepted, ReceiveData,
         ReceiveClosed, ReceiveReset, ReceiveBadFd, RemoveClosed, BlockGone,
         UnblockClosed, RemoveClosedAgain, BlockConnection, StartHandler,
         IndInv, TypeOK
<1>3. \A c \in Conn : /\ ClientSide(c)' = ClientSide(c)
                      /\ ServerSide(c)' = ServerSide(c)
  BY <1>1, <1>2 DEF ClientSide, ServerSide, Pending, Accepted
<1>4. QED
  BY <1>1, <1>3, Unseen

(* Nothing is asked of the service when the server starts.                 *)
LEMMA InitServes == Init => Service!Init
BY DEF Init, ServerInit, ConnectionsInit, Service!Init, ClientSide, ServerSide

(* Every step is a step of the service, or none, where what is sent comes  *)
(* back in order and close finds no one waiting.                           *)
LEMMA StepServes ==
  ASSUME IndInv, IndInv', [Next]_vars,
         \A c \in Conn : Listening(c) =>
           \E rest \in Seq(Text) : sent[c] = outbox[c] \o InFlight(c) \o rest,
         CloseDescriptor => Answered(owner[i])
  PROVE  [Service!Next]_(Service!vars)
<1>1. CASE Clients /\ UNCHANGED <<sets, threads, loopState, outbox>>
  BY <1>1, ClientsServe
<1>2. CASE Accept /\ UNCHANGED outbox
  BY <1>2, AcceptServes
<1>3. CASE CloseDescriptor /\ UNCHANGED outbox
  BY <1>3, CloseServes
<1>4. CASE MainLoop /\ UNCHANGED outbox /\ ~ Accept /\ ~ CloseDescriptor
  BY <1>4, MainLoopUnseen
<1>5. CASE \E t \in Thread : Echo(t)
  BY <1>5, EchoServes
<1>6. CASE UNCHANGED vars
  BY <1>6, SidesSame, Unseen DEF vars
<1>7. QED
  BY <1>1, <1>2, <1>3, <1>4, <1>5, <1>6 DEF Next

(* With the invariants in every state, each step serves.                   *)
LEMMA NextServes ==
  IndInv /\ IndInv' /\ EchoesInOrder /\ [Next]_vars
    => [Service!Next]_(Service!vars)
<1> SUFFICES ASSUME IndInv, IndInv', EchoesInOrder, [Next]_vars
             PROVE  [Service!Next]_(Service!vars)
  OBVIOUS
<1>1. \A c \in Conn : Listening(c) =>
        inbox[c] \in Seq(Text) /\ sent[c] = outbox[c] \o InFlight(c) \o inbox[c]
  BY DEF EchoesInOrder, Listening, IndInv, TypeOK
<1>2. QED
  BY <1>1, CloseFinds, StepServes

(* The select loop, its fd_sets and its threads are, step by step, the     *)
(* echo service of EchoService: the safety half of ImplementsService.      *)
THEOREM StepsServe == Spec => Service!Init /\ [][Service!Next]_(Service!vars)
BY InitServes, NextServes, Invariance, InOrder, PTL DEF Spec

=============================================================================
