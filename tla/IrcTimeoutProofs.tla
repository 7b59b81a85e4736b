--------------------------- MODULE IrcTimeoutProofs ---------------------------
(***************************************************************************)
(* What the timeout thread adds to the IRC server, for any number of       *)
(* clients, threads and descriptors and any size of the counter.           *)
(***************************************************************************)
EXTENDS IrcTimeout, IrcSessionProofs

USE DEF At, Goto, In, Move, kernel, sets, threads, loopState, workers,
        outside, tables, channels, tad, InRound, timer

(* The types of what the thread has of its own.                            *)
TimerTypes ==
  /\ counter \in [Fd -> 0 .. CounterSize - 1]
  /\ round \in RoundState
  /\ visited \in Fd

TimerInv == TimerTypes /\ (In(Timer, "idle") \/ InRound("quit")) /\ QuitsTheSilent

(* The invariant by its parts.                                             *)
LEMMA TimedParts == TimedInv <=> CallsInv /\ counted \in SUBSET Live /\ TimerInv
BY DEF TimedInv, TimedTypeOK, TimerInv, TimerTypes, CallsInv

(* The same after a step.                                                  *)
LEMMA TimedPartsNext ==
  CallsInv' /\ counted' \in SUBSET Live' /\ TimerInv' => TimedInv'
BY DEF TimedInv, TimedTypeOK, TimerInv, TimerTypes, CallsInv

(* The timeout thread is a worker of its own, and a counter may be zero.   *)
LEMMA TimedConstants ==
  /\ Timer \in Worker /\ Timer # Loop /\ Timer \notin Thread
  /\ Listener + 1 \in Fd /\ 0 \in 0 .. CounterSize - 1
BY IrcAssumption, ConnectionsAssumption, TimeoutAssumption DEF Worker, Fd

(* The server starts in the invariant, all counters at zero.               *)
LEMMA TimedInitInv == TimedInit => TimedInv
<1> SUFFICES ASSUME TimedInit PROVE TimedInv
  OBVIOUS
<1>1. CallsInv
  BY InitCalls DEF TimedInit
<1>2. TimerInv
  BY TimedConstants DEF TimedInit, Init, IrcInit, Idle, TimerInv, TimerTypes, RoundState,
     QuitsTheSilent
<1>3. QED
  BY <1>1, <1>2, TimedParts DEF TimedInit

(* A step of the IRC server that the timeout thread has no part in.        *)
LEMMA ServerKeepsTimer ==
  ASSUME TimedInv, UNCHANGED timer, frame'[Timer] = frame[Timer]
  PROVE  TimerInv'
BY TimedParts DEF TimerInv, TimerTypes, QuitsTheSilent

(* The loop starts threads and ends none.                                  *)
LEMMA LoopKeepsLive ==
  ASSUME CallsInv, ServerLoop
  PROVE  Live \subseteq Live' /\ frame'[Timer] = frame[Timer]
<1>1. CASE MainLoop /\ UNCHANGED <<timed, tables, tad, frame, registered>>
  <2>1. CASE StartHandler
    BY <1>1, <2>1 DEF StartHandler, Live, CallsInv, TypeOK
  <2>2. CASE ~ StartHandler
    BY <1>1, <2>2 DEF MainLoop, CopyConnections, Select, Scan, Accept, AddAccepted,
       ReceiveData, ReceiveClosed, ReceiveReset, ReceiveBadFd, RemoveClosed, BlockGone,
       CloseDescriptor, UnblockClosed, RemoveClosedAgain, BlockConnection, Live
  <2>3. QED
    BY <2>1, <2>2
<1>2. CASE do_on_disconnect
  BY <1>2, TimedConstants DEF do_on_disconnect, Live, CallsInv, TypeOK
<1>3. CASE ProcessCommand(Loop)
  BY <1>3, CommandCall, CommandKeeps, TimedConstants DEF Live, CallsInv, TypeOK, Worker
<1>4. QED
  BY <1>1, <1>2, <1>3 DEF ServerLoop

(* A handler ends no thread but its own.                                   *)
LEMMA HandlerKeepsLive ==
  ASSUME CallsInv, NEW t \in Thread, Handler(t)
  PROVE  /\ \A u \in Live \ {t} : u \in Live'
         /\ pc[t] # "free" /\ frame'[Timer] = frame[Timer]
<1>0. t \in Worker /\ t # Timer /\ pc \in [Thread -> HandlerState]
      /\ frame \in [Worker -> Frame]
  BY TimedConstants DEF Worker, CallsInv, TypeOK
<1>1. CASE NextCommand(t) \/ HandlerEnds(t)
  BY <1>0, <1>1, TimedConstants DEF NextCommand, HandlerEnds, Live
<1>2. CASE ProcessCommand(t)
  BY <1>0, <1>2, CommandCall, CommandKeeps, CommandAt, TimedConstants
  DEF Live, CallsInv, ServedInv
<1>3. QED
  BY <1>1, <1>2 DEF Handler

(* A handler keeps the invariant: it writes the counter only while the     *)
(* timeout thread sleeps (update_timeout takes m_timeout).                 *)
LEMMA HandlersTimed ==
  ASSUME TimedInv, NEW t \in Thread, TimedHandler(t)
  PROVE  TimedInv'
<1>0. CallsInv /\ counted \in SUBSET Live /\ TimerInv
  BY TimedParts
<1>1. CASE Alive /\ update_timeout(t)
  <2>1. CallsInv'
    BY <1>0, <1>1, NextCalls DEF update_timeout
  <2>2. counted' \in SUBSET Live'
    BY <1>0, <1>1 DEF update_timeout, vars, Live
  <2>3. TimerInv'
    BY <1>0, <1>1, TimedConstants
    DEF update_timeout, vars, TimerInv, TimerTypes, QuitsTheSilent
  <2>4. QED
    BY <2>1, <2>2, <2>3, TimedPartsNext
<1>2. CASE /\ t \in counted /\ Handler(t)
           /\ counted' = IF pc'[t] = "free" THEN counted \ {t} ELSE counted
           /\ UNCHANGED <<counter, round, visited>>
  <2>1. CallsInv'
    BY <1>0, <1>2, HandlerInv
  <2>2. counted' \in SUBSET Live'
    BY <1>0, <1>2, HandlerKeepsLive DEF Live
  <2>3. TimerInv'
    BY <1>0, <1>2, HandlerKeepsLive DEF TimerInv, TimerTypes, QuitsTheSilent
  <2>4. QED
    BY <2>1, <2>2, <2>3, TimedPartsNext
<1>3. QED
  BY <1>1, <1>2 DEF TimedHandler

(* So does the timeout thread, a case for each part of its round.          *)
LEMMA TimerThreadInv ==
  ASSUME TimedInv, TimerThread
  PROVE  TimedInv'
<1>0. CallsInv /\ counted \in SUBSET Live /\ TimerInv
  BY TimedParts
<1>1. CASE Wakes
  <2>1. CallsInv'
    BY <1>0, <1>1, NextCalls DEF Wakes
  <2>2. QED
    BY <1>0, <1>1, <2>1, TimedConstants, TimedPartsNext
    DEF Wakes, vars, Live, TimerInv, TimerTypes, RoundState, QuitsTheSilent
<1>2. CASE Visits
  <2>1. CASE counter[visited] = 2 /\ users[visited] # NULL
    <3>1. /\ timed' = [NoData EXCEPT !.socketd = visited, !.conn = owner[visited]]
          /\ frame' = [frame EXCEPT ![Timer] = Call(QuitNow)]
          /\ round' = "quit"
          /\ UNCHANGED <<kernel, sets, threads, loopState, tables, tad, registered,
                         counter, visited, counted>>
      BY <1>2, <2>1 DEF Visits
    <3>2. timed' \in Data /\ timed'.socketd \in Fd
      BY <1>0, <3>1, ConstantsType DEF NoData, Data, TimerInv, TimerTypes, CallsInv, TypeOK
    <3>3. Call(QuitNow) \in Frame /\ Fits(Call(QuitNow))
      BY QuitCall
    <3>4. TypeOK'
      BY <1>0, <3>1, <3>2, <3>3 DEF CallsInv, TypeOK
    <3>5. \A w \in Worker \ {Timer} : Socket(w)' = Socket(w)
      BY <3>1, Givens, GivensNext DEF Socket, Worker
    <3>6. CallInv'
      BY <1>0, <3>1, <3>2, <3>3, <3>5, GivensNext DEF CallsInv, TypeOK, CallInv, Socket
    <3>7. ServedInv'
      BY <1>0, <3>1, TimedConstants DEF CallsInv, TypeOK, ServedInv, Worker
    <3>8. TimerInv'
      BY <1>0, <2>1, <3>1 DEF TimerInv, TimerTypes, RoundState, QuitsTheSilent
    <3>9. QED
      BY <1>0, <3>1, <3>4, <3>6, <3>7, <3>8, TimedPartsNext DEF CallsInv, Live
  <2>2. CASE ~ (counter[visited] = 2 /\ users[visited] # NULL)
    <3>1. /\ UNCHANGED vars /\ UNCHANGED <<counter, visited, counted>>
          /\ round' \in {"ping", "count"} /\ InRound("visit")
      BY <1>2, <2>2 DEF Visits, vars
    <3>2. CallsInv'
      BY <1>0, <3>1, NextCalls
    <3>3. QED
      BY <1>0, <3>1, <3>2, TimedPartsNext
      DEF vars, Live, TimerInv, TimerTypes, RoundState, QuitsTheSilent
  <2>3. QED
    BY <2>1, <2>2
<1>3. CASE BlocksToPing \/ Pings
  <2>1. /\ blocked' \in SUBSET (Descriptor \cup {0})
        /\ UNCHANGED <<kernel, connections, readable, workers, loopState, tables, tad,
                       frame, registered, counter, visited, counted>>
    BY <1>0, <1>3, ConstantsType DEF BlocksToPing, Pings, connection_block,
       connection_unblock, CallsInv, TypeOK, TimerInv, TimerTypes
  <2>2. CallsInv'
    BY <1>0, <2>1 DEF CallsInv, TypeOK, CallInv, ServedInv, Socket, Given
  <2>3. round' \in RoundState /\ round \in {"ping", "pinged"} /\ round' # "quit"
    BY <1>3 DEF BlocksToPing, Pings, RoundState
  <2>4. QED
    BY <1>0, <2>1, <2>2, <2>3, TimedPartsNext
    DEF Live, TimerInv, TimerTypes, QuitsTheSilent
<1>4. CASE Quits
  <2>1. CallsInv'
    BY <1>0, <1>4, CommandInv, TimedConstants DEF Quits
  <2>2. Live' = Live
    BY <1>4, CommandKeeps DEF Quits, Live
  <2>3. QED
    BY <1>0, <1>4, <2>1, <2>2, TimedPartsNext
    DEF Quits, TimerInv, TimerTypes, QuitsTheSilent
<1>5. CASE Counts
  <2>1. /\ In(Timer, "idle") /\ timed' = NoData
        /\ counter' = [counter EXCEPT ![visited] = (@ + 1) % CounterSize]
        /\ UNCHANGED <<kernel, sets, threads, loopState, tables, tad, frame, registered,
                       counted>>
        /\ \/ visited < LastFd /\ visited' = visited + 1 /\ round' = "visit"
           \/ round' = "asleep" /\ UNCHANGED visited
    BY <1>0, <1>5 DEF Counts, VisitEnds, TimerInv
  <2>2. TypeOK'
    BY <1>0, <2>1, ConstantsType DEF CallsInv, TypeOK
  <2>3. \A w \in Worker \ {Timer} : Socket(w)' = Socket(w)
    BY <2>1, Givens, GivensNext DEF Socket, Worker
  <2>4. CallInv'
    BY <1>0, <2>1, <2>3 DEF CallsInv, CallInv
  <2>5. ServedInv'
    BY <1>0, <2>1 DEF CallsInv, ServedInv
  <2>6. counter' \in [Fd -> 0 .. CounterSize - 1]
    <3>1. \A n \in Nat : (n + 1) % CounterSize \in 0 .. CounterSize - 1
      BY TimeoutAssumption
    <3>2. counter[visited] \in Nat
      BY <1>0 DEF TimerInv, TimerTypes
    <3>3. (counter[visited] + 1) % CounterSize \in 0 .. CounterSize - 1
      BY <3>1, <3>2
    <3>4. QED
      BY <1>0, <2>1, <3>3 DEF TimerInv, TimerTypes
  <2>7. visited' \in Fd
    BY <1>0, <2>1, ConnectionsAssumption DEF TimerInv, TimerTypes, Fd
  <2>8. QED
    BY <1>0, <2>1, <2>2, <2>4, <2>5, <2>6, <2>7, TimedPartsNext
    DEF CallsInv, Live, TimerInv, TimerTypes, RoundState, QuitsTheSilent
<1>6. QED
  BY <1>1, <1>2, <1>3, <1>4, <1>5 DEF TimerThread

(* Every step keeps the invariant.                                         *)
LEMMA TimedNextInv == TimedInv /\ [TimedNext]_timedVars => TimedInv'
<1> SUFFICES ASSUME TimedInv, [TimedNext]_timedVars PROVE TimedInv'
  OBVIOUS
<1>0. CallsInv /\ counted \in SUBSET Live /\ TimerInv
  BY TimedParts
<1>1. CASE UNCHANGED timedVars
  <2>1. UNCHANGED vars /\ UNCHANGED timer
    BY <1>1 DEF timedVars
  <2>2. CallsInv'
    BY <1>0, <2>1, NextCalls
  <2>3. QED
    BY <1>0, <2>1, <2>2, ServerKeepsTimer, TimedPartsNext DEF vars, Live
<1>2. CASE Clients /\ UNCHANGED <<sets, workers, loopState, tables, tad, frame,
                                  registered, timer>>
  BY <1>0, <1>2, ClientsInv, ServerKeepsTimer, TimedPartsNext DEF Live
<1>3. CASE ServerLoop /\ UNCHANGED timer
  BY <1>0, <1>3, ServerLoopInv, LoopKeepsLive, ServerKeepsTimer, TimedPartsNext
<1>4. QED
  BY <1>1, <1>2, <1>3, HandlersTimed, TimerThreadInv DEF TimedNext

(* In every state of the server with its timeout thread, the IRC server is *)
(* in its own invariant and the timeout thread runs a command only in the  *)
(* quit of a visit.                                                        *)
THEOREM TimedInvariance == TimedSpec => []TimedInv
BY TimedInitInv, TimedNextInv, PTL DEF TimedSpec

(* Every variable has its type: the char counters wrap within their size,  *)
(* and only live handlers have passed update_timeout                       *)
(* (irc_server.c:322-376).                                                 *)
THEOREM TimedTypeCorrect == TimedSpec => []TimedTypeOK
<1>1. TimedInv => TimedTypeOK
  BY DEF TimedInv
<1>2. QED
  BY <1>1, TimedInvariance, PTL

(* The timeout thread quits only for descriptors whose counter is two and  *)
(* stays two until the quit is complete: a handler that begins meanwhile   *)
(* waits for m_timeout (irc_server.c:357-372, 188-193).                    *)
THEOREM LetsGoOfTheSilent == TimedSpec => []QuitsTheSilent
<1>1. TimedInv => QuitsTheSilent
  BY DEF TimedInv
<1>2. QED
  BY <1>1, TimedInvariance, PTL

-----------------------------------------------------------------------------
(* Nobody leaves a descriptor blocked, pings included *)

Pinged(d) == InRound("pinged") /\ visited = d

(* The timeout thread blocks what it pings next and clears no other bit.   *)
LEMMA TimerLeaves ==
  ASSUME TimedInv, TimedInv', NEW d \in Fd, Somebody(d) \/ Pinged(d), TimerThread
  PROVE  Somebody(d)' \/ Pinged(d)'
<1>0. /\ CallsInv /\ CallsInv' /\ TimerInv /\ frame \in [Worker -> Frame]
      /\ Timer \in Worker /\ Timer # Loop
  BY TimedParts, TimedConstants DEF TimedInv, CallsInv, TypeOK
<1>1. ASSUME UNCHANGED <<main, i, blocked, threads>>, ~Pinged(d),
             \A w \in Worker : In(w, "relayUnblock") => frame'[w] = frame[w]
      PROVE  Somebody(d)'
  <2>1. Relayed(d) => Relayed(d)'
    BY <1>0, <1>1, RelaysGoOn
  <2>2. (Served(d) => Served(d)') /\ (Handled(d) => Handled(d)')
    BY <1>1 DEF Served, Handled, Live
  <2>3. QED
    BY <1>1, <2>1, <2>2 DEF Somebody
<1>2. CASE Wakes \/ Counts
  BY <1>1, <1>2 DEF Wakes, Counts, VisitEnds, vars, Pinged
<1>3. CASE Visits
  <2>1. In(Timer, "idle") /\ ~Pinged(d)
    BY <1>0, <1>3 DEF Visits, TimerInv, Pinged
  <2>2. \A w \in Worker \ {Timer} : frame'[w] = frame[w]
    BY <1>0, <1>3 DEF Visits
  <2>3. QED
    BY <1>1, <1>3, <2>1, <2>2 DEF Visits
<1>4. CASE BlocksToPing
  <2>1. d = visited => Pinged(d)'
    BY <1>4 DEF BlocksToPing, Pinged
  <2>2. d # visited => (d \in blocked' <=> d \in blocked) /\ ~Pinged(d)
    BY <1>4 DEF BlocksToPing, connection_block, Pinged
  <2>3. QED
    BY <1>4, <2>1, <2>2
    DEF BlocksToPing, Somebody, Served, Handled, Relayed, Active, Live
<1>5. CASE Pings
  <2>1. d = visited => d \notin blocked'
    BY <1>5 DEF Pings, connection_unblock
  <2>2. d # visited => (d \in blocked' <=> d \in blocked) /\ ~Pinged(d)
    BY <1>5 DEF Pings, connection_unblock, Pinged
  <2>3. QED
    BY <1>5, <2>1, <2>2 DEF Pings, Somebody, Served, Handled, Relayed, Active, Live
<1>6. CASE Quits
  <2>1. ~Pinged(d)
    BY <1>6 DEF Quits, Pinged
  <2>2. QED
    BY <1>0, <1>6, <2>1, CommandLeaves DEF Quits
<1>7. QED
  BY <1>2, <1>3, <1>4, <1>5, <1>6 DEF TimerThread

(* So does every step of the others, who do not know of the timeout thread *)
LEMMA TimedNextLeaves ==
  ASSUME TimedInv, TimedInv', TimedBlockedForSomebody, [TimedNext]_timedVars
  PROVE  TimedBlockedForSomebody'
<1>1. SUFFICES ASSUME NEW d \in Fd, Somebody(d) \/ Pinged(d)
               PROVE  Somebody(d)' \/ Pinged(d)'
  BY DEF TimedBlockedForSomebody, Awaited, Somebody, Pinged, Served, Handled, Relayed
<1>2. CallsInv /\ CallsInv'
  BY DEF TimedInv
<1>3. ASSUME UNCHANGED <<sets, threads, loopState, frame, round, visited>>
      PROVE  Somebody(d)' \/ Pinged(d)'
  BY <1>1, <1>3 DEF Somebody, Pinged, Served, Handled, Relayed, Active, Live
<1>4. ASSUME ServerLoop \/ \E t \in Thread : Handler(t), UNCHANGED <<round, visited>>
      PROVE  Somebody(d)' \/ Pinged(d)'
  BY <1>1, <1>2, <1>4, ServerLeaves DEF Pinged
<1>5. CASE TimerThread
  BY <1>1, <1>5, TimerLeaves
<1>6. QED
  BY <1>3, <1>4, <1>5 DEF TimedNext, TimedHandler, update_timeout, timedVars, vars

(* Nobody leaves a descriptor blocked, the timeout thread included: it     *)
(* unblocks what it blocks to ping (irc_server.c:357-363), and its quit    *)
(* what it blocks to relay, whoever else uses the same bits meanwhile.     *)
THEOREM TimerLeavesNobodyBlocked == TimedSpec => []TimedBlockedForSomebody
<1>1. TimedInit => TimedBlockedForSomebody
  BY DEF TimedInit, Init, ServerInit, ConnectionsInit, TimedBlockedForSomebody
<1>2. QED
  BY <1>1, TimedInvariance, TimedNextLeaves, PTL DEF TimedSpec

-----------------------------------------------------------------------------
(* The loop never stalls, with the timeout thread *)

(* The timeout thread takes no part in a pass but for its quit.            *)
LEMMA TimedNextPass ==
  ASSUME TimedInv, QueueInv, PassInv, PassesUndisturbed, [TimedNext]_timedVars
  PROVE  QueueInv' /\ PassInv'
<1>0. CallsInv
  BY DEF TimedInv
<1>1. CASE [Next]_vars
  BY <1>0, <1>1, NextQueue, NextPass
<1>2. CASE UNCHANGED <<kernel, readable, loopState>>
  BY <1>0, <1>2, QueueUnchanged DEF PassInv, Ahead, BeforeAccept, Ready, Open
<1>3. CASE ProcessCommand(Timer)
  BY <1>0, <1>3, CommandQueue, CommandPass, TimedConstants DEF PassesUndisturbed
<1>4. QED
  BY <1>1, <1>2, <1>3
  DEF TimedNext, TimerThread, TimedHandler, update_timeout, Wakes, Visits, BlocksToPing,
      Pings, Quits, Counts, Next, timedVars, vars

(* accept and recv do not block the loop, the quits of the timeout thread  *)
(* included (irc_server.c:366), under the same two conditions.             *)
THEOREM TimedNeverStalls == TimedSpec /\ []PassesUndisturbed => []LoopNeverStalls
<1>1. TimedInit => QueueInv /\ PassInv
  BY InitSession DEF TimedInit, SessionInv, Init, ServerInit, PassInv
<1>2. QED
  BY <1>1, PassDoesNotStall, TimedInvariance, TimedNextPass, PTL DEF TimedSpec

=============================================================================
