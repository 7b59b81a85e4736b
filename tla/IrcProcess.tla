------------------------------ MODULE IrcProcess ------------------------------
(***************************************************************************)
(* The process of the IRC server: main of src/G-2301-01-P1-irc_server.c,   *)
(* what server_launch does before and after its loop, SIGINT and           *)
(* server_stop.  Its tables and channels are there from the start:         *)
(* init_memspace and read_channels run before there is another thread.     *)
(*                                                                         *)
(* sigint_handler destroys mutex_conn, so that from then on two operations *)
(* on the fd_sets may overlap.  Here each is still one step: what follows  *)
(* from their overlapping is left out.                                     *)
(***************************************************************************)
EXTENDS IrcTimeout

VARIABLES stage,     \* how far main has come
          loop,      \* the flag of server_launch
          running,   \* the flag of timeout_thread
          signalled  \* SIGINT was sent, once (bound)

process == <<stage, loop, running, signalled>>
processVars == <<timedVars, process>>

Stage == {"setUp", "launch", "armed", "opened", "serving", "stop", "free", "exited"}

ProcessInit ==
  /\ TimedInit
  /\ stage = "setUp" /\ loop = FALSE /\ running = TRUE /\ signalled = FALSE

MainIs(label) == stage = label

MainGoes(from, to) ==
  MainIs(from) /\ stage' = to /\ UNCHANGED <<timedVars, signalled>>

-----------------------------------------------------------------------------
(* main up to server_launch: init_memspace or the creation of the timeout  *)
(* thread may fail, and main returns -2.                                   *)
SetUp ==
  (MainGoes("setUp", "launch") \/ MainGoes("setUp", "exited")) /\ UNCHANGED <<loop, running>>

(* signal(SIGINT) and the mutex, or SERVERR_SIGNAL and SERVERR_PTHREAD.    *)
ArmSignal ==
  (MainGoes("launch", "armed") \/ MainGoes("launch", "stop")) /\ UNCHANGED <<loop, running>>

(* socket, setsockopt, bind and listen, or SERVERR_SOCKET.                 *)
server_tcpsocket_open ==
  (MainGoes("armed", "opened") \/ MainGoes("armed", "stop")) /\ UNCHANGED <<loop, running>>

StartLoop == MainGoes("opened", "serving") /\ loop' = TRUE /\ UNCHANGED running

(* while(loop)                                                             *)
EndLoop == At("copy") /\ ~loop /\ MainGoes("serving", "stop") /\ UNCHANGED <<loop, running>>

(* pthread_create fails: SERVERR_PTHREAD ends the loop, its flag still set. *)
CannotStartHandler ==
  At("spawn") /\ MainGoes("serving", "stop") /\ UNCHANGED <<loop, running>>

(* SERVERR_NRUN if the flag is off, and nothing is closed.                 *)
server_stop ==
  /\ MainIs("stop")
  /\ owner' = IF loop THEN [d \in Fd |-> NoConn] ELSE owner
  /\ stage' = "free"
  /\ UNCHANGED <<peer, backlog, inbox, sent, sets, workers, loopState, tables, tad,
                 frame, registered, timer, loop, running, signalled>>

(* The end of main, which ends every thread.                               *)
free_memspace == MainGoes("free", "exited") /\ running' = FALSE /\ UNCHANGED loop

Main ==
  \/ SetUp \/ ArmSignal \/ server_tcpsocket_open \/ StartLoop
  \/ EndLoop \/ CannotStartHandler
  \/ server_stop \/ free_memspace

(* select fails with EINTR, its result is ignored and readable keeps every *)
(* watched descriptor.  accept and recv are restarted after the signal.    *)
InterruptSelect ==
  /\ MainIs("serving") /\ At("select")
  /\ main' = "scan" /\ i' = Listener
  /\ UNCHANGED <<kernel, sets, workers, acceptd, rcvd, tables, tad, frame, registered>>

sigint_handler ==
  /\ stage \in Stage \ {"setUp", "launch", "exited"} /\ ~signalled
  /\ signalled' = TRUE /\ loop' = FALSE
  /\ InterruptSelect \/ UNCHANGED vars
  /\ UNCHANGED <<timer, stage, running>>

ProcessNext ==
  \/ /\ stage \in {"opened", "serving"}
     /\ Clients
     /\ UNCHANGED <<sets, workers, loopState, tables, tad, frame, registered, timer, process>>
  \/ MainIs("serving") /\ (At("copy") => loop) /\ ServerLoop /\ UNCHANGED <<timer, process>>
  \/ stage \notin {"setUp", "exited"} /\ (\E t \in Thread : TimedHandler(t)) /\ UNCHANGED process
  \/ /\ stage \notin {"setUp", "exited"} /\ (InRound("asleep") => running)
     /\ TimerThread /\ UNCHANGED process
  \/ Main
  \/ sigint_handler

(* main and the loop, which are one thread, are scheduled.                 *)
ProcessFairness ==
  /\ WF_processVars(Main)
  /\ WF_processVars(MainIs("serving") /\ (At("copy") => loop) /\ ServerLoop
                    /\ UNCHANGED <<timer, process>>)

ProcessSpec == ProcessInit /\ [][ProcessNext]_processVars /\ ProcessFairness

-----------------------------------------------------------------------------
(* A loop whose flag SIGINT has taken back ends, so that server_launch     *)
(* returns SERVOK (server.c:143): it does not wait in accept when no       *)
(* client requires attention (187).                                        *)
StopsAfterSignal ==
  (MainIs("serving") /\ ~loop) ~> (MainIs("exited") \/ ~Alive)

=============================================================================
