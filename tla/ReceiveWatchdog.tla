-------------------------- MODULE ReceiveWatchdog --------------------------
(***************************************************************************)
(* The receive watchdog of DataReceiver.  A deadline timer of the io       *)
(* service runs watchdogHandler() again and again; a counter, cleared by   *)
(* every packet, tells the handler whether anything has arrived since its  *)
(* previous expiry.  Packet handler and watchdog handler run on the same   *)
(* io thread, one at a time, so each is one step.                          *)
(*                                                                         *)
(* Time is a number that Tick advances.  The timer is late by no more than *)
(* Delay: the longest the io thread is busy with packets.                  *)
(***************************************************************************)
EXTENDS Naturals

CONSTANTS
  watchdogTimeout,  (* watchdogTimeout_, the period of the timer           *)
  Delay,            (* how late the io thread may run an expired handler   *)
  MaxTime           (* Bound: the clock stops here.                        *)

ASSUME PeriodAssumption ==
  watchdogTimeout \in Nat \ {0} /\ Delay \in Nat /\ MaxTime \in Nat

VARIABLES
  now,                  (* the clock                                       *)
  acquiring,            (* acquiring_                                      *)
  expires,              (* watchdogTimer_->expires_at()                    *)
  recvWatchdogCounter,  (* recvWatchdogCounter_                            *)
  lastReceive,          (* history: when a packet last arrived, or start   *)
  lastTimeout           (* history: when callback_->timeout() was last     *)
                        (*   called, or start                              *)

vars == <<now, acquiring, expires, recvWatchdogCounter, lastReceive, lastTimeout>>

-----------------------------------------------------------------------------
(* An expired handler is not put off by more than Delay. *)
Tick ==
  /\ now < MaxTime
  /\ acquiring => now < expires + Delay
  /\ now' = now + 1
  /\ UNCHANGED <<acquiring, expires, recvWatchdogCounter, lastReceive, lastTimeout>>

(* Mutant: the counter is not cleared. *)
HandleReceiveUncleared ==
  /\ acquiring
  /\ lastReceive' = now
  /\ UNCHANGED <<now, acquiring, expires, recvWatchdogCounter, lastTimeout>>

(* handleReceive(), what the watchdog sees of it. *)
HandleReceive ==
  /\ acquiring
  /\ recvWatchdogCounter' = 0
  /\ lastReceive' = now
  /\ UNCHANGED <<now, acquiring, expires, lastTimeout>>

(* Mutant: two silent expiries are let pass. *)
WatchdogHandlerLenient ==
  /\ acquiring
  /\ expires <= now
  /\ lastTimeout' = IF recvWatchdogCounter > 1 THEN now ELSE lastTimeout
  /\ recvWatchdogCounter' = recvWatchdogCounter + 1
  /\ expires' = now + watchdogTimeout
  /\ UNCHANGED <<now, acquiring, lastReceive>>

(* Mutant: the counter runs the wrong way. *)
WatchdogHandlerBackwards ==
  /\ acquiring
  /\ expires <= now
  /\ lastTimeout' = IF recvWatchdogCounter > 0 THEN now ELSE lastTimeout
  /\ recvWatchdogCounter' = recvWatchdogCounter - 1
  /\ expires' = now + watchdogTimeout
  /\ UNCHANGED <<now, acquiring, lastReceive>>

(* watchdogHandler() when the timer has expired: time out if nothing has   *)
(* arrived since the previous expiry, count, and set the timer again.      *)
WatchdogHandler ==
  /\ acquiring
  /\ expires <= now
  /\ lastTimeout' = IF recvWatchdogCounter > 0 THEN now ELSE lastTimeout
  /\ recvWatchdogCounter' = recvWatchdogCounter + 1
  /\ expires' = now + watchdogTimeout
  /\ UNCHANGED <<now, acquiring, lastReceive>>

(* stopAcquisition() stops the io service: no handler runs any more. *)
StopAcquisition ==
  /\ acquiring
  /\ acquiring' = FALSE
  /\ UNCHANGED <<now, expires, recvWatchdogCounter, lastReceive, lastTimeout>>

-----------------------------------------------------------------------------
(* startAcquisition(): the counter is cleared, the timer set.  The server  *)
(* makes a new receiver for every acquisition.                             *)
Init ==
  /\ now = 0
  /\ acquiring = TRUE
  /\ expires = watchdogTimeout
  /\ recvWatchdogCounter = 0
  /\ lastReceive = 0
  /\ lastTimeout = 0

Next == Tick \/ HandleReceive \/ WatchdogHandler \/ StopAcquisition

Spec == Init /\ [][Next]_vars

-----------------------------------------------------------------------------
(* Properties *)

(* Types; times of the past are in the past. *)
TypeOK ==
  /\ now \in Nat /\ expires \in Nat /\ recvWatchdogCounter \in Nat
  /\ acquiring \in BOOLEAN
  /\ lastReceive \in 0 .. now /\ lastTimeout \in 0 .. now

(* timeout() discards the frame being collected, so it is not called       *)
(* while packets keep coming: only after a whole period without one.       *)
TimeoutMeansQuiet ==
  [][lastTimeout' # lastTimeout => now >= lastReceive + watchdogTimeout]_vars

(* A silent network is noticed: at most two periods, and twice the delay   *)
(* of the io thread, pass without a packet or a timeout.                   *)
QuietMeansTimeout ==
  acquiring => \/ now <= lastReceive + 2 * watchdogTimeout + 2 * Delay
               \/ now <= lastTimeout + 2 * watchdogTimeout + 2 * Delay

=============================================================================
