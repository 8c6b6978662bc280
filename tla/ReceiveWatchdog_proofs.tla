----------------------- MODULE ReceiveWatchdog_proofs -----------------------
(***************************************************************************)
(* The bounds of the receive watchdog, for every period and every delay of *)
(* the io thread.                                                          *)
(***************************************************************************)
EXTENDS ReceiveWatchdog, TLAPS

(* While the receiver runs: the handler is not overdue and the timer is at *)
(* most a period ahead.                                                    *)
Timer == acquiring => now <= expires + Delay /\ expires <= now + watchdogTimeout

(* A counter above zero means no packet since the timer was last set.      *)
CountedQuiet ==
  acquiring /\ recvWatchdogCounter > 0 => lastReceive + watchdogTimeout <= expires

(* How far the timer can be set past the last packet, or the last timeout. *)
Deadline ==
  acquiring =>
    \/ recvWatchdogCounter = 0 /\ expires <= lastReceive + watchdogTimeout
    \/ recvWatchdogCounter > 0 /\ expires <= lastReceive + 2 * watchdogTimeout + Delay
    \/ recvWatchdogCounter > 0 /\ expires <= lastTimeout + watchdogTimeout

IInv == TypeOK /\ Timer /\ CountedQuiet /\ Deadline

-----------------------------------------------------------------------------
(* The initial state, in which the timer is set for the first time.        *)
LEMMA InitEstablishes == Init => IInv
  BY PeriodAssumption DEF Init, IInv, TypeOK, Timer, CountedQuiet, Deadline

(* Every step, one action at a time.                                       *)
LEMMA StepPreserves == IInv /\ [Next]_vars => IInv'
<1> SUFFICES ASSUME IInv, [Next]_vars PROVE IInv'
  OBVIOUS
<1> USE PeriodAssumption DEF IInv, TypeOK, Timer, CountedQuiet, Deadline
<1>1. CASE Tick
  BY <1>1 DEF Tick
<1>2. CASE HandleReceive
  BY <1>2 DEF HandleReceive
<1>3. CASE WatchdogHandler
  <2>1. TypeOK' /\ Timer' /\ CountedQuiet'
    BY <1>3 DEF WatchdogHandler
  <2>2. Deadline'
    <3>1. CASE recvWatchdogCounter > 0
      BY <1>3, <3>1 DEF WatchdogHandler
    <3>2. CASE recvWatchdogCounter = 0
      BY <1>3, <3>2 DEF WatchdogHandler
    <3> QED  BY <3>1, <3>2
  <2> QED  BY <2>1, <2>2
<1>4. CASE StopAcquisition
  BY <1>4 DEF StopAcquisition
<1>5. CASE UNCHANGED vars
  BY <1>5 DEF vars
<1> QED  BY <1>1, <1>2, <1>3, <1>4, <1>5 DEF Next

(* The invariant holds of every behaviour.                                 *)
LEMMA Invariant == Spec => []IInv
  BY InitEstablishes, StepPreserves, PTL DEF Spec

(* Types, for every period and delay.                                      *)
THEOREM TypeCorrect == Spec => []TypeOK
<1>1. IInv => TypeOK  BY DEF IInv
<1> QED  BY <1>1, Invariant, PTL

(* A silent network is noticed within two periods and two delays.          *)
THEOREM SilenceNoticed == Spec => []QuietMeansTimeout
<1>1. IInv => QuietMeansTimeout
  BY PeriodAssumption DEF IInv, TypeOK, Timer, Deadline, QuietMeansTimeout
<1> QED  BY <1>1, Invariant, PTL

(* No timeout within a period of a packet.                                 *)
THEOREM NoEarlyTimeout == Spec => TimeoutMeansQuiet
<1>1. IInv /\ [Next]_vars
        => [lastTimeout' # lastTimeout => now >= lastReceive + watchdogTimeout]_vars
  <2> SUFFICES ASSUME IInv, Next, lastTimeout' # lastTimeout
               PROVE  now >= lastReceive + watchdogTimeout
    BY DEF vars
  <2>1. WatchdogHandler /\ recvWatchdogCounter > 0
    BY DEF Next, Tick, HandleReceive, WatchdogHandler, StopAcquisition
  <2> QED
    BY <2>1, PeriodAssumption DEF IInv, TypeOK, CountedQuiet, WatchdogHandler
<1> QED  BY <1>1, Invariant, PTL DEF Spec, TimeoutMeansQuiet

=============================================================================
