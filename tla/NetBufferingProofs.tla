------------------------- MODULE NetBufferingProofs -------------------------
(***************************************************************************)
(* Proofs about NetBuffering for every timeout and every limit.            *)
(***************************************************************************)
EXTENDS NetBuffering, TLAPS

Types ==
  /\ app_timer \in Nat \ {0} /\ buffering_start \in Nat /\ since \in Nat
  /\ redirect_detected \in Nat

Streaming == network /\ client_connected

(* While the network is the source the clock of the first wait was         *)
(* started, not after the present wait began; and a connected stream waits *)
(* until its header is complete.  Neither leans on the status, which       *)
(* anybody may store.                                                      *)
ClockStarted ==
  network => 0 < buffering_start /\ buffering_start <= since /\ since <= app_timer

HeaderWaits == Streaming /\ looking_for_header => bufferring

Deciding == connect_mutex = "decide" => network

IInv == Types /\ ClockStarted /\ HeaderWaits /\ Deciding

(* No stream yet, and the clock has started.                               *)
LEMMA InitIInv == Init => IInv
BY DEF Init, IInv, Types, ClockStarted, HeaderWaits, Deciding, Streaming

(* Every step keeps the clock, the header and the source together.         *)
LEMMA NextIInv == IInv /\ [Next]_vars => IInv'
<1> SUFFICES ASSUME IInv, [Next]_vars PROVE IInv'
  OBVIOUS
<1> USE DEF IInv, Types, ClockStarted, HeaderWaits, Deciding, Streaming, icy
<1>1. CASE Tick
  BY <1>1 DEF Tick
<1>2. CASE StatusStored
  BY <1>2 DEF StatusStored
<1>3. CASE Stop
  BY <1>3 DEF Stop
<1>4. CASE NewConnection
  <2>1. CASE Connected
    BY <1>4, <2>1 DEF NewConnection, Connected, IcyReset, StartTheClock
  <2>2. CASE NotResolved
    BY <1>4, <2>2 DEF NewConnection, NotResolved
  <2>3. CASE NotConnected
    BY <1>4, <2>3 DEF NewConnection, NotConnected, IcyReset
  <2> QED
    BY <1>4, <2>1, <2>2, <2>3 DEF NewConnection
<1>5. CASE Receive
  <2>1. /\ network /\ client_connected
        /\ UNCHANGED <<app_timer, network, buffering_start, since>>
    BY <1>5 DEF Receive
  <2>2. CASE NothingReceived
    BY <2>1, <2>2 DEF NothingReceived
  <2>3. CASE PeerClosed
    BY <2>1, <2>3 DEF PeerClosed
  <2>4. CASE Redirected
    BY <2>1, <2>4 DEF Redirected
  <2>5. CASE AudioReceived
    BY <2>1, <2>5 DEF AudioReceived
  <2> QED
    BY <1>5, <2>2, <2>3, <2>4, <2>5 DEF Receive
<1>6. CASE Decide
  <2>1. /\ network /\ connect_mutex' = "free"
        /\ UNCHANGED <<app_timer, network, client_connected, icy, since>>
    BY <1>6 DEF Decide
  <2>2. buffering_start' = buffering_start
    BY <1>6, <2>1 DEF Decide, Verdict, GiveUp, FollowRedirect, Wait, PlayOn
  <2> QED
    BY <2>1, <2>2
<1>7. CASE Publish
  BY <1>7 DEF Publish
<1>8. CASE RanDry
  BY <1>8 DEF RanDry
<1>9. CASE Rebuffer
  BY <1>9 DEF Rebuffer
<1>10. CASE UNCHANGED vars
  BY <1>10 DEF vars
<1> QED
  BY <1>1, <1>2, <1>3, <1>4, <1>5, <1>6, <1>7, <1>8, <1>9, <1>10 DEF Next

(* The inductive invariant holds in every reachable state.                 *)
LEMMA Invariance == Spec => []IInv
BY InitIInv, NextIInv, PTL DEF Spec

(* No wait for sound is prolonged behind the timeout, for every timeout    *)
(* and whatever the other threads store in the status.                     *)
THEOREM GivesUpInTime == Spec => NeverTooLate
<1>1. IInv /\ [Next]_vars =>
        [Decide /\ result' = "BUFFERING" => app_timer - since <= Timeout]_vars
  <2> SUFFICES ASSUME IInv, Decide, result' = "BUFFERING"
               PROVE  app_timer - since <= Timeout
    OBVIOUS
  <2>1. Wait
    BY DEF Decide, Verdict, GiveUp, FollowRedirect, PlayOn
  <2>2. 0 < buffering_start /\ buffering_start <= since
    BY DEF Decide, IInv, ClockStarted, Deciding
  <2> QED
    BY <2>1, <2>2, TimeoutAssumption DEF Wait, IInv, Types
<1> QED
  BY <1>1, Invariance, PTL DEF Spec, NeverTooLate

(* The device is started for a stream only behind the header and the sound *)
(* of the connection that is open, for every number of redirects.          *)
THEOREM SoundBehindHeader == Spec => StartsBehindHeader
<1> DEFINE Behind == /\ network /\ client_connected
                     /\ ~looking_for_header /\ ~bufferring /\ redirect_detected = 0
<1>1. IInv /\ [Next]_vars => [Decide /\ result' = "PLAYING" => Behind]_vars
  <2> SUFFICES ASSUME IInv, Decide, result' = "PLAYING" PROVE Behind
    OBVIOUS
  <2>1. client_connected /\ ~(redirect_detected > 0) /\ ~bufferring
    BY DEF Decide, Verdict, GiveUp, FollowRedirect, Wait
  <2>2. network
    BY DEF Decide, IInv, Deciding
  <2>3. redirect_detected = 0
    BY <2>1 DEF IInv, Types
  <2> QED
    BY <2>1, <2>2, <2>3 DEF IInv, HeaderWaits, Streaming
<1> QED
  BY <1>1, Invariance, PTL DEF Spec, StartsBehindHeader
=============================================================================
