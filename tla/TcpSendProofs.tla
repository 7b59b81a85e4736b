---------------------------- MODULE TcpSendProofs ----------------------------
(***************************************************************************)
(* That a message cut by the kernel arrives in place, and whole if         *)
(* tcpsocket_snd says so, for messages of every length, buffers of every   *)
(* size and any number of signals.                                         *)
(***************************************************************************)
EXTENDS TcpSend, TLAPS

(* The call starts with nothing taken.                                     *)
LEMMA StartsInPlace == Init => SendInv
<1> SUFFICES ASSUME Init PROVE SendInv
  OBVIOUS
<1>1. wire = <<>> /\ len \in 0..MaxLen /\ data = 0 /\ taken = 0
  BY DEF Init
<1>2. wire \in Seq(Nat) /\ Len(wire) = 0
  BY <1>1
<1>3. result \in {"TCPERR_ARGS", "none"} /\ read = 0 /\ gone = FALSE /\ signals = 0
  BY DEF Init
<1>4. SendTypeOK
  <2>1. result \in Result /\ len \in 0..MaxLen /\ wire \in Seq(Nat)
    BY <1>1, <1>2, <1>3 DEF Result
  <2>2. data \in Nat /\ taken \in 0..len /\ read \in 0..Len(wire)
    BY <1>1, <1>2, <1>3
  <2>3. gone \in BOOLEAN
    BY <1>3
  <2>4. signals \in 0..MaxSignals
    BY <1>3, SendAssumption
  <2> QED
    BY <2>1, <2>2, <2>3, <2>4 DEF SendTypeOK
<1>5. InPlace /\ data + taken = Len(wire) /\ OkMeansAllTaken
  BY <1>1, <1>2, <1>3 DEF InPlace, OkMeansAllTaken
<1> QED
  BY <1>4, <1>5 DEF SendInv

(* A byte goes behind those taken before it.                               *)
LEMMA TakesInPlace == SendInv /\ KernelTakes => SendInv'
<1> SUFFICES ASSUME SendInv, KernelTakes PROVE SendInv'
  OBVIOUS
<1> USE DEF SendInv, SendTypeOK, KernelTakes, Sending, Result
<1>1. Len(wire') = Len(wire) + 1 /\ wire' \in Seq(Nat)
  OBVIOUS
<1>2. SendTypeOK'
  BY <1>1
<1>3. InPlace'
  <2> SUFFICES ASSUME NEW k \in 1..Len(wire') PROVE wire'[k] = k
    BY DEF InPlace
  <2>1. CASE k <= Len(wire)
    BY <2>1, <1>1 DEF InPlace
  <2>2. CASE k = Len(wire) + 1
    <3>1. wire'[Len(wire) + 1] = data + taken + 1
      OBVIOUS
    <3> QED
      BY <2>2, <3>1
  <2> QED
    BY <2>1, <2>2, <1>1
<1>4. (data + taken = Len(wire))'
  BY <1>1
<1>5. OkMeansAllTaken'
  BY DEF OkMeansAllTaken
<1> QED
  BY <1>2, <1>3, <1>4, <1>5

(* The pointer moves over what was taken; the loop ends with a call that   *)
(* took len bytes, so that at least as many are taken in all.              *)
LEMMA ReturnsInPlace ==
  ASSUME SendInv, Sending, SendReturns, signals' \in 0..MaxSignals PROVE SendInv'
<1> USE DEF SendInv, SendReturns
<1>1. SendTypeOK'
  BY DEF SendTypeOK, Result
<1>2. InPlace'
  BY DEF InPlace
<1>3. (data + taken = Len(wire))'
  BY DEF SendTypeOK
<1>4. OkMeansAllTaken'
  BY DEF SendTypeOK, OkMeansAllTaken
<1> QED
  BY <1>1, <1>2, <1>3, <1>4

(* Every step keeps SendInv.                                               *)
LEMMA StaysInPlace == SendInv /\ [Next]_vars => SendInv'
<1> SUFFICES ASSUME SendInv, [Next]_vars PROVE SendInv'
  OBVIOUS
<1>0. signals \in 0..MaxSignals
  BY DEF SendInv, SendTypeOK
<1>1. CASE KernelTakes
  BY <1>1, TakesInPlace
<1>2. CASE Completes
  BY <1>2, <1>0, ReturnsInPlace DEF Completes
<1>3. CASE CutShort
  BY <1>3, <1>0, ReturnsInPlace DEF CutShort
<1>4. CASE Interrupted
  <2>1. signals' \in 0..MaxSignals
    BY <1>4, <1>0, SendAssumption DEF Interrupted
  <2> QED
    BY <1>4, <2>1, ReturnsInPlace DEF Interrupted
<1>5. CASE Fails
  BY <1>5 DEF Fails, SendInv, SendTypeOK, InPlace, OkMeansAllTaken, Result
<1>6. CASE PeerReads
  BY <1>6 DEF PeerReads, SendInv, SendTypeOK, InPlace, OkMeansAllTaken
<1>7. CASE PeerResets
  BY <1>7 DEF PeerResets, SendInv, SendTypeOK, InPlace, OkMeansAllTaken
<1>8. CASE UNCHANGED vars
  BY <1>8 DEF vars, SendInv, SendTypeOK, InPlace, OkMeansAllTaken
<1> QED
  BY <1>1, <1>2, <1>3, <1>4, <1>5, <1>6, <1>7, <1>8 DEF Next, SendSteps

(* The pointer, the bytes taken and the wire agree in every behaviour.     *)
THEOREM SendInvariance == Spec => []SendInv
  BY StartsInPlace, StaysInPlace, PTL DEF Spec

(* The variables keep their types: SendTypeOK, of tcpsocket_snd's loop.    *)
THEOREM SendTypeCorrect == Spec => []SendTypeOK
<1>1. SendInv => SendTypeOK
  BY DEF SendInv
<1> QED
  BY <1>1, SendInvariance, PTL

(* No byte is skipped, doubled or misplaced, whatever send returns.        *)
THEOREM BytesInPlace == Spec => []InPlace
<1>1. SendInv => InPlace
  BY DEF SendInv
<1> QED
  BY <1>1, SendInvariance, PTL

(* TCPOK is only returned when the whole message has been taken.           *)
THEOREM OkIsTrue == Spec => []OkMeansAllTaken
<1>1. SendInv => OkMeansAllTaken
  BY DEF SendInv
<1> QED
  BY <1>1, SendInvariance, PTL
=============================================================================
