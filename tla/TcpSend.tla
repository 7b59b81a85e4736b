------------------------------- MODULE TcpSend -------------------------------
(***************************************************************************)
(* tcpsocket_snd (srclib/G-2301-01-P1-tcp.c): its loop over send, byte by  *)
(* byte.  The other modules take a message as sent in one step.            *)
(*                                                                         *)
(* send waits while the kernel's buffer is full.  It may return before it  *)
(* has sent everything: a signal interrupts it while it waits, or the peer *)
(* resets the connection.                                                  *)
(***************************************************************************)
EXTENDS Integers, Sequences

CONSTANTS MaxLen,     \* the longest message
          Room,       \* the bytes that fit into the kernel's buffer
          MaxSignals  \* how many signals may arrive (bound)

ASSUME SendAssumption == MaxLen \in Nat /\ Room \in Nat \ {0} /\ MaxSignals \in Nat

VARIABLES result,   \* "none", or what tcpsocket_snd has returned
          len,      \* its argument, which it does not change
          data,     \* how far the pointer has moved
          taken,    \* bytes the kernel took in this call of send
          wire,     \* where each byte taken stood, counted from the message's first
          read,     \* bytes the peer has read
          gone,     \* the peer has reset the connection
          signals   \* signals so far

vars == <<result, len, data, taken, wire, read, gone, signals>>

Result == {"none", "TCPOK", "TCPERR_ARGS", "TCPERR_SEND"}

Init ==
  /\ len \in 0..MaxLen
  /\ result = IF len = 0 THEN "TCPERR_ARGS" ELSE "none"
  /\ data = 0 /\ taken = 0 /\ wire = <<>> /\ read = 0
  /\ gone = FALSE /\ signals = 0

Sending == result = "none"
Full == Len(wire) - read >= Room

-----------------------------------------------------------------------------
(* The kernel takes the next byte of the len bytes from data on.           *)
KernelTakes ==
  /\ Sending /\ ~gone /\ ~Full /\ taken < len
  /\ wire' = Append(wire, data + taken + 1)
  /\ taken' = taken + 1
  /\ UNCHANGED <<result, len, data, read, gone, signals>>

(* Mutants of SendReturns: the pointer stays; send is called only once.    *)
StaysAtStart ==
  /\ data' = data /\ taken' = 0
  /\ result' = IF len - taken = 0 THEN "TCPOK" ELSE "none"
  /\ UNCHANGED <<len, wire, read, gone>>

SendsOnce ==
  /\ data' = data + taken /\ taken' = 0
  /\ result' = "TCPOK"
  /\ UNCHANGED <<len, wire, read, gone>>

(* send returns what it took; the pointer moves, and the loop ends when    *)
(* this call took all of len.                                              *)
SendReturns ==
  /\ data' = data + taken
  /\ taken' = 0
  /\ result' = IF len - taken = 0 THEN "TCPOK" ELSE "none"
  /\ UNCHANGED <<len, wire, read, gone>>

Completes == Sending /\ taken = len /\ SendReturns /\ UNCHANGED signals

(* A signal while send waits with a part taken.  With nothing taken send   *)
(* starts again, which changes nothing.                                    *)
Interrupted ==
  /\ Sending /\ ~gone /\ Full /\ 0 < taken /\ taken < len
  /\ signals < MaxSignals /\ signals' = signals + 1
  /\ SendReturns

(* The connection is lost: send returns what it took, if anything.         *)
CutShort == Sending /\ gone /\ 0 < taken /\ taken < len /\ SendReturns /\ UNCHANGED signals

(* Mutant of Fails: the failing send is tried again.                       *)
TriesAgain == Sending /\ gone /\ taken = 0 /\ UNCHANGED vars

Fails ==
  /\ Sending /\ gone /\ taken = 0
  /\ result' = "TCPERR_SEND"
  /\ UNCHANGED <<len, data, taken, wire, read, gone, signals>>

PeerReads ==
  /\ ~gone /\ read < Len(wire)
  /\ read' = read + 1
  /\ UNCHANGED <<result, len, data, taken, wire, gone, signals>>

PeerResets ==
  /\ ~gone /\ gone' = TRUE
  /\ UNCHANGED <<result, len, data, taken, wire, read, signals>>

SendSteps == KernelTakes \/ Completes \/ CutShort \/ Fails

Next == SendSteps \/ Interrupted \/ PeerReads \/ PeerResets

Spec == Init /\ [][Next]_vars

(* The caller's thread runs; the peer owes nothing.                        *)
FairSpec == Spec /\ WF_vars(SendSteps)

-----------------------------------------------------------------------------
SendTypeOK ==
  /\ result \in Result
  /\ len \in 0..MaxLen
  /\ data \in Nat
  /\ taken \in 0..len
  /\ wire \in Seq(Nat)
  /\ read \in 0..Len(wire)
  /\ gone \in BOOLEAN
  /\ signals \in 0..MaxSignals

(* However send cuts the message, no byte is skipped, sent twice or out of *)
(* its place.  (That the peer gets nothing behind the message is not said: *)
(* after a cut the code asks for len bytes again, tcp.c:138.)              *)
InPlace == \A k \in 1..Len(wire) : wire[k] = k

(* TCPOK means that every byte of the message was taken (tcp.c:136-145).   *)
OkMeansAllTaken == result = "TCPOK" => Len(wire) >= len

(* The inductive invariant: OkMeansAllTaken needs to know where in the     *)
(* message the kernel is (data and taken in the loop of tcp.c:137-144).    *)
SendInv ==
  /\ SendTypeOK
  /\ InPlace
  /\ data + taken = Len(wire)
  /\ OkMeansAllTaken

(* tcpsocket_snd returns, unless from some time on the peer has stopped    *)
(* reading with the buffer full: no cut or reset makes it go round.        *)
ReturnsOrWaits == <>(~Sending) \/ <>[](Full /\ ~gone)
=============================================================================
