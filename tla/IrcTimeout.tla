------------------------------ MODULE IrcTimeout ------------------------------
(***************************************************************************)
(* The IRC server with timeout_thread of src/G-2301-01-P1-irc_server.c: it *)
(* counts, for each descriptor, the rounds since its last message; at one  *)
(* it pings the user, at two it runs quit for it.  It holds m_timeout for  *)
(* the whole round, so that handlers, which begin by setting their         *)
(* descriptor's counter to zero, wait for the end of it.                   *)
(*                                                                         *)
(* quit takes m_users, m_nicks and mutex_conn while m_timeout is held; no  *)
(* thread takes them in the other order.                                   *)
(***************************************************************************)
EXTENDS IrcServer

CONSTANT CounterSize  \* the counter is a char: 256 in the code (bound)

ASSUME TimeoutAssumption == CounterSize \in Nat /\ CounterSize > 3

VARIABLES counter,  \* timeout[d] of irc_server.c
          round,    \* where the timeout thread is; it has m_timeout unless asleep
          visited,  \* its loop variable
          counted   \* the handlers past update_timeout

timer == <<counter, round, visited, counted>>
timedVars == <<vars, timer>>

RoundState == {"asleep", "visit", "ping", "pinged", "quit", "count"}

TimedInit ==
  /\ Init
  /\ counter = [d \in Fd |-> 0]
  /\ round = "asleep"
  /\ visited = Listener + 1
  /\ counted = {}

-----------------------------------------------------------------------------
(* timeout_thread *)

InRound(label) == round = label

Wakes ==
  /\ InRound("asleep")
  /\ round' = "visit" /\ visited' = Listener + 1
  /\ UNCHANGED <<vars, counter, counted>>

(* Only this thread or one that holds m_timeout changes the counter.       *)
Visits ==
  LET d == visited
      idle == users[d] # NULL IN
  /\ InRound("visit")
  /\ IF counter[d] = 2 /\ idle
     THEN /\ timed' = [NoData EXCEPT !.socketd = d, !.conn = owner[d]]
          /\ frame' = [frame EXCEPT ![Timer] = Call(QuitNow)]
          /\ round' = "quit"
     ELSE /\ round' = IF counter[d] = 1 /\ idle THEN "ping" ELSE "count"
          /\ UNCHANGED <<timed, frame>>
  /\ UNCHANGED <<kernel, sets, threads, loopState, tables, tad, registered,
                 counter, visited, counted>>

BlocksToPing ==
  /\ InRound("ping")
  /\ connection_block(visited)
  /\ round' = "pinged"
  /\ UNCHANGED <<kernel, connections, readable, workers, loopState, tables, tad,
                 frame, registered, counter, visited, counted>>

(* tcpsocket_snd and connection_unblock                                    *)
Pings ==
  /\ InRound("pinged")
  /\ connection_unblock(visited)
  /\ round' = "count"
  /\ UNCHANGED <<kernel, connections, readable, workers, loopState, tables, tad,
                 frame, registered, counter, visited, counted>>

Quits ==
  /\ InRound("quit")
  /\ ProcessCommand(Timer)
  /\ UNCHANGED timer

VisitEnds == InRound("count") \/ (InRound("quit") /\ In(Timer, "idle"))

(* Mutant: the counter stops at its highest value.                         *)
CountsUpTo ==
  /\ VisitEnds
  /\ counter' = [counter EXCEPT ![visited] = IF @ = CounterSize - 1 THEN @ ELSE @ + 1]
  /\ timed' = NoData
  /\ IF visited < LastFd THEN visited' = visited + 1 /\ round' = "visit"
                         ELSE round' = "asleep" /\ UNCHANGED visited
  /\ UNCHANGED <<kernel, sets, threads, loopState, tables, tad, frame, registered,
                 counted>>

(* The end of the visit; after the last one m_timeout is released.         *)
Counts ==
  /\ VisitEnds
  /\ counter' = [counter EXCEPT ![visited] = (@ + 1) % CounterSize]
  /\ timed' = NoData
  /\ IF visited < LastFd THEN visited' = visited + 1 /\ round' = "visit"
                         ELSE round' = "asleep" /\ UNCHANGED visited
  /\ UNCHANGED <<kernel, sets, threads, loopState, tables, tad, frame, registered,
                 counted>>

TimerThread ==
  Alive /\ (Wakes \/ Visits \/ BlocksToPing \/ Pings \/ Quits \/ Counts)

-----------------------------------------------------------------------------
(* handler begins with update_timeout. *)

(* Mutant: m_timeout is not taken.                                         *)
UpdatesUnlocked(t) ==
  /\ pc[t] = "start" /\ t \notin counted
  /\ counter' = [counter EXCEPT ![data[t].socketd] = 0]
  /\ counted' = counted \cup {t}
  /\ UNCHANGED <<vars, round, visited>>

update_timeout(t) ==
  /\ pc[t] = "start" /\ t \notin counted
  /\ InRound("asleep")
  /\ counter' = [counter EXCEPT ![data[t].socketd] = 0]
  /\ counted' = counted \cup {t}
  /\ UNCHANGED <<vars, round, visited>>

TimedHandler(t) ==
  \/ Alive /\ update_timeout(t)
  \/ /\ t \in counted /\ Handler(t)
     /\ counted' = IF pc'[t] = "free" THEN counted \ {t} ELSE counted
     /\ UNCHANGED <<counter, round, visited>>

TimedNext ==
  \/ Clients /\ UNCHANGED <<sets, workers, loopState, tables, tad, frame, registered, timer>>
  \/ ServerLoop /\ UNCHANGED timer
  \/ \E t \in Thread : TimedHandler(t)
  \/ TimerThread

(* As for the IRC server.  A handler that waits for m_timeout has it while  *)
(* the timeout thread sleeps IRCSVR_TIMEOUT seconds between two rounds.    *)
TimedFairness ==
  /\ WF_timedVars(ServerLoop /\ UNCHANGED timer)
  /\ \A t \in Thread : /\ WF_timedVars(TimedHandler(t))
                       /\ SF_timedVars(Alive /\ update_timeout(t))
  /\ WF_timedVars(TimerThread)

TimedSpec == TimedInit /\ [][TimedNext]_timedVars /\ TimedFairness

-----------------------------------------------------------------------------
(* Every variable has its type.                                            *)
TimedTypeOK ==
  /\ TypeOK
  /\ counter \in [Fd -> 0 .. CounterSize - 1]
  /\ round \in RoundState
  /\ visited \in Fd
  /\ counted \in SUBSET Live

(* The timeout thread lets go only of descriptors that have been silent:   *)
(* no handler has begun on one since the round that counted it two, and    *)
(* none begins until its quit is complete (irc_server.c:357-372).          *)
QuitsTheSilent == InRound("quit") => counter[visited] = 2

(* The timeout thread is one more that blocks, for its ping.               *)
TimedBlockedForSomebody ==
  \A d \in Fd \cap blocked : Awaited(d) \/ (InRound("pinged") /\ visited = d)

(* A user that says nothing more is let go in the end, although the two    *)
(* tests are for equality and a handler that is slow to register its user  *)
(* lets the counter pass them; unless the process ends first (NeverDies).  *)
SilentUserLeaves ==
  \A d \in Fd : users[d] # NULL ~> users[d] = NULL \/ ~Alive

-----------------------------------------------------------------------------
(* Why it is so: besides CallsInv, the timeout thread has a command under  *)
(* way in the quit of a visit only, and then the visit's descriptor.       *)
TimedInv ==
  /\ TimedTypeOK /\ CallsInv
  /\ In(Timer, "idle") \/ InRound("quit")
  /\ QuitsTheSilent

=============================================================================
