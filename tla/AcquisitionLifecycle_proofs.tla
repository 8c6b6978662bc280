--------------------- MODULE AcquisitionLifecycle_proofs ---------------------
(***************************************************************************)
(* For any image mode, number of images and of restarts, and however fast *)
(* the threads are: every start finds the receiver before it deleted, the  *)
(* first acquisition publishes no more images than asked for, and a        *)
(* sub-frame that was released is used only for a frame still in work at   *)
(* the end of the sleep, or after a wake-up without a notification.        *)
(***************************************************************************)
EXTENDS AcquisitionLifecycle, TLAPS

(* Where the receivers are while nobody stops, and while somebody does.    *)
OlderDeleted == \A k \in 1 .. starts : k < starts => receiver[k] = "deleted"
IdleDeleted  == adStatus = "idle" /\ starts > 0 => receiver[starts] = "deleted"
StopUnderway ==
  \A who \in Stoppers :
    /\ stopping[who] # "no" => starts > 0
    /\ stopping[who] \in {"shutdown", "delete"} /\ Running => adStatus = "acquire"
    /\ stopping[who] \in {"sleep", "release"} => receiver[starts] = "deleted"

(* Before the first start the frame thread calls nobody back, since there  *)
(* are no sub-frames; and it is in a stop exactly while it is nowhere else.*)
Started ==
  /\ worker = "stopping" <=> stopping["worker"] # "no"
  /\ starts = 0 => /\ adStatus = "idle" /\ ~subFramesSet
                   /\ Running => worker \in {"relock", "waiting", "woken", "unscramble"}
  /\ \A k \in Receivers : k > starts => io[k] = "none" /\ receiver[k] = "none"

(* The sub-frames are set up and released together with the status.  If    *)
(* nothing was in work at the end of the sleep nothing is until the next   *)
(* start, because by then no receiver is acquiring and a frame in work     *)
(* begins with a packet.                                                   *)
SetWhileAcquiring == subFramesSet <=> adStatus = "acquire"
NothingInWork == ~WorkerInWork /\ ~ResetInWork /\ \A k \in Receivers : ~IoInWork(k)
AfterSleep == adStatus = "idle" \/ \E who \in Stoppers : stopping[who] = "release"
Undisturbed == ~late /\ spurious = 0
Rest == Undisturbed => fault # "noSubFrame" /\ (AfterSleep => NothingInWork)

(* In the first acquisition an image is published only after it is counted.*)
(* The image that reaches the limit is the last the frame thread counts: it*)
(* stops before it waits again, and whatever wakes it then, it finds no    *)
(* sub-frames.                                                             *)
Counting == starts <= 1 =>
  /\ published <= numImagesCounter
  /\ worker = "publish" => published < numImagesCounter
  /\ ImageMode = "single" => numImagesCounter <= 1
  /\ ImageMode = "multiple" => numImagesCounter <= NumImages
LimitReached == starts <= 1 /\ Running /\ Complete =>
  \/ worker \in {"publish", "published", "stopping"}
  \/ worker # "callback" /\ adStatus = "idle" /\ ~subFramesSet

Base == TypeOK /\ OlderDeleted /\ IdleDeleted /\ StopUnderway /\ Started
IInv == Base /\ SetWhileAcquiring /\ Rest /\ Counting /\ LimitReached

-----------------------------------------------------------------------------
(* The initial state: no receiver yet, nobody stops.                       *)
LEMMA BaseInit == Init => Base
<1> SUFFICES ASSUME Init PROVE Base
  OBVIOUS
<1>1. TypeOK
  <2>0. setting \in Settings
    BY DEF Init
  <2>1. /\ receiver \in [Receivers -> {"none", "acquiring", "stopped", "closed", "deleted"}]
        /\ io \in [Receivers -> {"none", "run", "handle", "swap", "notify", "resetReady",
                                "resetNotify", "rearm", "listen", "ended"}]
        /\ stopping \in [Stoppers -> {"no", "stop", "shutdown", "delete", "sleep", "release"}]
    BY Zenon DEF Init
  <2>2. \A who \in Stoppers : driverLock = who <=> stopping[who] # "no"
    BY DEF Init, Stoppers
  <2>3. /\ numImagesCounter \in Nat /\ frames \in Nat /\ published \in Nat /\ spurious \in Nat
        /\ starts \in 0 .. MaxStarts
    BY ConstantsAssumption DEF Init
  <2>4. subFramesSet \in BOOLEAN
    BY DEF Init
  <2>5. /\ adStatus \in {"idle", "acquire"}
        /\ driverLock \in {"free", "user", "worker"}
        /\ pluginLock \in {"free", "plugin"}
        /\ worker \in {"relock", "waiting", "woken", "unscramble", "callback",
                       "publish", "published", "stopping"}
        /\ resetWorker \in {"relock", "waiting", "woken", "exchange", "copy"}
        /\ late \in BOOLEAN
        /\ fault \in {"none", "noSubFrame", "noBuffers", "deletedReceiverStopped",
                      "deletedReceiverUsed"}
    BY DEF Init
  <2> QED
    BY <2>0, <2>1, <2>2, <2>3, <2>4, <2>5, Zenon DEF TypeOK
<1>2. OlderDeleted /\ IdleDeleted
  BY DEF Init, OlderDeleted, IdleDeleted
<1>3. StopUnderway
  BY DEF Init, StopUnderway, Stoppers
<1>4. Started
  BY DEF Init, Started, Stoppers
<1> QED  BY <1>1, <1>2, <1>3, <1>4 DEF Base

(* The steps of a stop: the lock shows that no other thread stops.         *)
LEMMA StopPreserves ==
  ASSUME Base, NEW who \in Stoppers, StopStep(who)
  PROVE  Base'
<1> USE ConstantsAssumption
    DEF Base, TypeOK, OlderDeleted, IdleDeleted, StopUnderway, Started, Receivers,
        Stoppers, Running, params, locks, workers, histories
<1>1. CASE StopReceiver(who)
  BY <1>1 DEF StopReceiver
<1>2. CASE ShutdownSocket(who)
  BY <1>2 DEF ShutdownSocket
<1>3. CASE DeleteReceiver(who)
  BY <1>3 DEF DeleteReceiver
<1>4. CASE Sleep(who)
  BY <1>4 DEF Sleep, InWork
<1>5. CASE ReleaseSubFrames(who)
  <2>1. TypeOK'
    BY <1>5 DEF ReleaseSubFrames
  <2>2. OlderDeleted' /\ IdleDeleted' /\ StopUnderway'
    BY <1>5 DEF ReleaseSubFrames
  <2>3. Started'
    BY <1>5 DEF ReleaseSubFrames
  <2> QED  BY <2>1, <2>2, <2>3
<1> QED  BY <1>1, <1>2, <1>3, <1>4, <1>5 DEF StopStep

(* The steps of the io threads touch no receiver.                          *)
LEMMA IoPreserves ==
  ASSUME Base, NEW k \in Receivers, HandleReceive(k) \/ IoStep(k)
  PROVE  Base'
<1> USE ConstantsAssumption
    DEF Base, TypeOK, OlderDeleted, IdleDeleted, StopUnderway, Started, Receivers,
        Stoppers, Running, params, locks, workers, histories
<1>1. CASE HandleReceive(k)
  BY <1>1 DEF HandleReceive
<1>2. ASSUME NEW closes \in Closings, PacketReceived(k, closes) PROVE Base'
  BY <1>2 DEF PacketReceived, Closings
<1>3. CASE SwapBuffers(k)
  BY <1>3 DEF SwapBuffers
<1>4. CASE NotifyOne(k)
  BY <1>4 DEF NotifyOne
<1>5. CASE ResetReady(k)
  BY <1>5 DEF ResetReady
<1>6. CASE ResetNotifyOne(k)
  BY <1>6 DEF ResetNotifyOne
<1>7. CASE ReadAcquiring(k)
  BY <1>7 DEF ReadAcquiring
<1>8. CASE ListenAgain(k)
  BY <1>8 DEF ListenAgain
<1>9. CASE EndRun(k)
  BY <1>9 DEF EndRun
<1> QED
  BY <1>1, <1>2, <1>3, <1>4, <1>5, <1>6, <1>7, <1>8, <1>9 DEF IoStep

(* The steps of the frame thread; the last of them may begin a stop.       *)
LEMMA WorkerPreserves ==
  ASSUME Base, WorkerStep \/ Publish \/ WakeSpuriously
  PROVE  Base'
<1> USE ConstantsAssumption
    DEF Base, TypeOK, OlderDeleted, IdleDeleted, StopUnderway, Started, Receivers,
        Stoppers, Running, WorkerMoves, othersThanWorker, params, locks, workers, histories
<1>1. CASE WorkerWait
  BY <1>1 DEF WorkerWait
<1>2. CASE WorkerLock
  BY <1>2 DEF WorkerLock
<1>3. CASE Unscramble
  BY <1>3 DEF Unscramble
<1>4. CASE CountImage
  BY <1>4 DEF CountImage
<1>5. CASE CheckComplete
  BY <1>5 DEF CheckComplete
<1>6. CASE Publish
  BY <1>6 DEF Publish
<1>7. CASE WakeSpuriously
  BY <1>7 DEF WakeSpuriously
<1> QED  BY <1>1, <1>2, <1>3, <1>4, <1>5, <1>6, <1>7 DEF WorkerStep

(* The port thread begins, the reset thread works, plugins come and go.    *)
LEMMA OthersPreserve ==
  ASSUME Base, \/ StartAcquisition \/ StopRequested
               \/ ResetStep \/ ResetWakeSpuriously
               \/ PluginLocks \/ PluginCallsDriver
               \/ UNCHANGED vars
  PROVE  Base'
<1> USE ConstantsAssumption
    DEF Base, TypeOK, OlderDeleted, IdleDeleted, StopUnderway, Started, Receivers,
        Stoppers, Running, params, locks, workers, histories
<1>1. CASE StartAcquisition
  <2>1. TypeOK'
    <3>1. late' \in BOOLEAN
      BY <1>1 DEF StartAcquisition
    <3>2. /\ receiver' \in [Receivers -> {"none", "acquiring", "stopped", "closed", "deleted"}]
          /\ io' \in [Receivers -> {"none", "run", "handle", "swap", "notify", "resetReady",
                                   "resetNotify", "rearm", "listen", "ended"}]
          /\ starts' \in 0 .. MaxStarts
      BY <1>1 DEF StartAcquisition
    <3> QED  BY <1>1, <3>1, <3>2 DEF StartAcquisition
  <2>2. OlderDeleted' /\ IdleDeleted' /\ StopUnderway'
    BY <1>1 DEF StartAcquisition
  <2>3. Started'
    BY <1>1 DEF StartAcquisition
  <2> QED  BY <2>1, <2>2, <2>3
<1>2. CASE StopRequested
  BY <1>2 DEF StopRequested
<1>3. CASE PluginLocks
  BY <1>3 DEF PluginLocks
<1>4. CASE PluginCallsDriver
  BY <1>4 DEF PluginCallsDriver
<1>5. CASE UNCHANGED vars
  BY <1>5 DEF vars
<1>6. CASE ResetStep
  BY <1>6 DEF ResetStep, ResetWait, ResetLock, ExchangeReset, CopyReset, ResetMoves,
              othersThanReset
<1>7. CASE ResetWakeSpuriously
  BY <1>7 DEF ResetWakeSpuriously, ResetMoves, othersThanReset
<1> QED  BY <1>1, <1>2, <1>3, <1>4, <1>5, <1>6, <1>7

(* Whatever steps after the sleep of a stop, with no frame in work none    *)
(* gets into work, so none misses the sub-frames.                          *)
LEMMA RestPreserves ==
  ASSUME Base, Base', SetWhileAcquiring, Rest, [Next]_vars
  PROVE  SetWhileAcquiring' /\ Rest'
<1> USE ConstantsAssumption
    DEF Base, TypeOK, StopUnderway, Started, OlderDeleted, IdleDeleted, SetWhileAcquiring,
        Rest, Undisturbed, AfterSleep, NothingInWork, WorkerInWork, ResetInWork, IoInWork,
        AccessHeld, Receivers, Stoppers, Running, WorkerMoves, othersThanWorker, ResetMoves,
        othersThanReset, params, locks, workers, histories
<1>1. CASE StartAcquisition
  BY <1>1 DEF StartAcquisition
<1>2. CASE StopRequested
  BY <1>2 DEF StopRequested
<1>3. CASE PluginLocks
  BY <1>3 DEF PluginLocks
<1>4. CASE PluginCallsDriver
  BY <1>4 DEF PluginCallsDriver
<1>5. CASE WorkerWait
  BY <1>5 DEF WorkerWait
<1>6. CASE WorkerLock
  BY <1>6 DEF WorkerLock
<1>7. CASE Unscramble
  BY <1>7 DEF Unscramble
<1>8. CASE CountImage
  BY <1>8 DEF CountImage
<1>9. CASE CheckComplete
  BY <1>9 DEF CheckComplete, Complete
<1>10. CASE Publish
  BY <1>10 DEF Publish
<1>11. CASE UNCHANGED vars
  BY <1>11 DEF vars
<1>12. ASSUME NEW who \in Stoppers, StopStep(who) PROVE SetWhileAcquiring' /\ Rest'
  <2>1. CASE StopReceiver(who)
    BY <2>1 DEF StopReceiver
  <2>2. CASE ShutdownSocket(who)
    BY <2>2 DEF ShutdownSocket
  <2>3. CASE DeleteReceiver(who)
    BY <2>3 DEF DeleteReceiver
  <2>4. CASE Sleep(who)
    BY <2>4 DEF Sleep, InWork
  <2>5. CASE ReleaseSubFrames(who)
    BY <2>5 DEF ReleaseSubFrames
  <2> QED  BY <1>12, <2>1, <2>2, <2>3, <2>4, <2>5 DEF StopStep
<1>13. ASSUME NEW k \in Receivers, HandleReceive(k) PROVE SetWhileAcquiring' /\ Rest'
  BY <1>13 DEF HandleReceive
<1>14. ASSUME NEW k \in Receivers, IoStep(k) PROVE SetWhileAcquiring' /\ Rest'
  <2>1. ASSUME NEW closes \in Closings, PacketReceived(k, closes) PROVE SetWhileAcquiring' /\ Rest'
    BY <2>1 DEF PacketReceived, Closings
  <2>2. CASE SwapBuffers(k)
    BY <2>2 DEF SwapBuffers, FrameAccessHeld
  <2>3. CASE NotifyOne(k)
    BY <2>3 DEF NotifyOne
  <2>4. CASE ResetReady(k)
    BY <2>4 DEF ResetReady
  <2>5. CASE ResetNotifyOne(k)
    BY <2>5 DEF ResetNotifyOne
  <2>6. CASE ReadAcquiring(k)
    BY <2>6 DEF ReadAcquiring
  <2>7. CASE ListenAgain(k)
    BY <2>7 DEF ListenAgain
  <2>8. CASE EndRun(k)
    BY <2>8 DEF EndRun
  <2> QED  BY <1>14, <2>1, <2>2, <2>3, <2>4, <2>5, <2>6, <2>7, <2>8 DEF IoStep
<1>15. CASE ResetStep
  <2>1. CASE ResetWait
    BY <2>1 DEF ResetWait
  <2>2. CASE ResetLock
    BY <2>2 DEF ResetLock
  <2>3. CASE ExchangeReset
    BY <2>3 DEF ExchangeReset
  <2>4. CASE CopyReset
    BY <2>4 DEF CopyReset
  <2> QED  BY <1>15, <2>1, <2>2, <2>3, <2>4 DEF ResetStep
<1>16. CASE WakeSpuriously
  BY <1>16 DEF WakeSpuriously
<1>17. CASE ResetWakeSpuriously
  BY <1>17 DEF ResetWakeSpuriously
<1> QED
  BY <1>1, <1>2, <1>3, <1>4, <1>5, <1>6, <1>7, <1>8, <1>9, <1>10, <1>11, <1>12, <1>13, <1>14,
     <1>15, <1>16, <1>17 DEF Next, WorkerStep

(* Images are counted before they are published, and none after the last.  *)
LEMMA CountPreserves ==
  ASSUME Base, Base', Counting, LimitReached, [Next]_vars
  PROVE  Counting' /\ LimitReached'
<1> USE ConstantsAssumption
    DEF Base, TypeOK, StopUnderway, Started, Counting, LimitReached, Complete,
        Receivers, Stoppers, Running, ImageMode, NumImages, WorkerMoves, othersThanWorker,
        ResetMoves, othersThanReset, params, locks, workers, histories
<1>1. CASE StartAcquisition
  BY <1>1 DEF StartAcquisition
<1>2. CASE StopRequested
  BY <1>2 DEF StopRequested
<1>3. CASE PluginLocks
  BY <1>3 DEF PluginLocks
<1>4. CASE PluginCallsDriver
  BY <1>4 DEF PluginCallsDriver
<1>5. CASE WorkerWait
  BY <1>5 DEF WorkerWait
<1>6. CASE WorkerLock
  BY <1>6 DEF WorkerLock
<1>7. CASE Unscramble
  BY <1>7 DEF Unscramble
<1>8. CASE CountImage
  BY <1>8 DEF CountImage
<1>9. CASE CheckComplete
  BY <1>9 DEF CheckComplete, Complete
<1>10. CASE Publish
  BY <1>10 DEF Publish
<1>11. CASE UNCHANGED vars
  BY <1>11 DEF vars
<1>12. ASSUME NEW who \in Stoppers, StopStep(who) PROVE Counting' /\ LimitReached'
  <2>1. CASE StopReceiver(who)
    BY <2>1 DEF StopReceiver
  <2>2. CASE ShutdownSocket(who)
    BY <2>2 DEF ShutdownSocket
  <2>3. CASE DeleteReceiver(who)
    BY <2>3 DEF DeleteReceiver
  <2>4. CASE Sleep(who)
    BY <2>4 DEF Sleep, InWork
  <2>5. CASE ReleaseSubFrames(who)
    BY <2>5 DEF ReleaseSubFrames
  <2> QED  BY <1>12, <2>1, <2>2, <2>3, <2>4, <2>5 DEF StopStep
<1>13. ASSUME NEW k \in Receivers, HandleReceive(k) PROVE Counting' /\ LimitReached'
  BY <1>13 DEF HandleReceive
<1>14. ASSUME NEW k \in Receivers, IoStep(k) PROVE Counting' /\ LimitReached'
  <2>1. ASSUME NEW closes \in Closings, PacketReceived(k, closes) PROVE Counting' /\ LimitReached'
    BY <2>1 DEF PacketReceived, Closings
  <2>2. CASE SwapBuffers(k)
    BY <2>2 DEF SwapBuffers, FrameAccessHeld
  <2>3. CASE NotifyOne(k)
    BY <2>3 DEF NotifyOne
  <2>4. CASE ResetReady(k)
    BY <2>4 DEF ResetReady
  <2>5. CASE ResetNotifyOne(k)
    BY <2>5 DEF ResetNotifyOne
  <2>6. CASE ReadAcquiring(k)
    BY <2>6 DEF ReadAcquiring
  <2>7. CASE ListenAgain(k)
    BY <2>7 DEF ListenAgain
  <2>8. CASE EndRun(k)
    BY <2>8 DEF EndRun
  <2> QED  BY <1>14, <2>1, <2>2, <2>3, <2>4, <2>5, <2>6, <2>7, <2>8 DEF IoStep
<1>15. CASE ResetStep
  <2>1. CASE ResetWait
    BY <2>1 DEF ResetWait
  <2>2. CASE ResetLock
    BY <2>2 DEF ResetLock
  <2>3. CASE ExchangeReset
    BY <2>3 DEF ExchangeReset
  <2>4. CASE CopyReset
    BY <2>4 DEF CopyReset
  <2> QED  BY <1>15, <2>1, <2>2, <2>3, <2>4 DEF ResetStep
<1>16. CASE WakeSpuriously
  BY <1>16 DEF WakeSpuriously
<1>17. CASE ResetWakeSpuriously
  BY <1>17 DEF ResetWakeSpuriously
<1> QED
  BY <1>1, <1>2, <1>3, <1>4, <1>5, <1>6, <1>7, <1>8, <1>9, <1>10, <1>11, <1>12, <1>13, <1>14,
     <1>15, <1>16, <1>17 DEF Next, WorkerStep

(* The invariant holds of every behaviour.                                 *)
LEMMA Invariant == Spec => []IInv
<1>1. Init => IInv
  <2> SUFFICES ASSUME Init PROVE IInv
    OBVIOUS
  <2>1. Base
    BY BaseInit
  <2>2. SetWhileAcquiring /\ Rest
    BY ConstantsAssumption
       DEF Init, SetWhileAcquiring, Rest, AfterSleep, NothingInWork, WorkerInWork, ResetInWork,
           IoInWork, AccessHeld, Receivers, Stoppers
  <2>3. Counting /\ LimitReached
    BY ConstantsAssumption
       DEF Init, Counting, LimitReached, Complete, Receivers, NumImages, ImageMode
  <2> QED  BY <2>1, <2>2, <2>3 DEF IInv
<1>2. IInv /\ [Next]_vars => IInv'
  <2> SUFFICES ASSUME IInv, [Next]_vars PROVE IInv'
    OBVIOUS
  <2>1. Base'
    BY StopPreserves, IoPreserves, WorkerPreserves, OthersPreserve DEF Next, IInv
  <2> QED  BY <2>1, RestPreserves, CountPreserves DEF IInv
<1> QED  BY <1>1, <1>2, PTL DEF Spec

(* Types and the ownership of the port lock.                               *)
THEOREM TypeCorrect == Spec => []TypeOK
<1>1. IInv => TypeOK  BY DEF IInv, Base
<1> QED  BY <1>1, Invariant, PTL

(* No start, stop or completion leaves a receiver behind.                  *)
THEOREM ReceiversDeleted == Spec => []NoReceiverLeft
<1>1. IInv => NoReceiverLeft
  <2> SUFFICES ASSUME IInv, NEW k \in 1 .. starts, k < starts \/ adStatus = "idle"
               PROVE  receiver[k] = "deleted"
    BY DEF NoReceiverLeft
  <2>1. CASE k < starts
    BY <2>1 DEF IInv, Base, OlderDeleted
  <2>2. CASE k = starts /\ adStatus = "idle"
    BY <2>2, ConstantsAssumption DEF IInv, Base, IdleDeleted, TypeOK
  <2> QED  BY <2>1, <2>2, ConstantsAssumption DEF IInv, Base, TypeOK
<1> QED  BY <1>1, Invariant, PTL

(* A released sub-frame is used only for a frame that was in work when the *)
(* sleep was over, or after a wake-up without a notification: in every     *)
(* image mode, with no assumption on the pace of the threads.              *)
THEOREM OnlyLateWork == Spec => []OnlyLateWorkUsesReleased
<1>1. IInv => OnlyLateWorkUsesReleased
  BY DEF IInv, Base, TypeOK, Rest, Undisturbed, OnlyLateWorkUsesReleased
<1> QED  BY <1>1, Invariant, PTL

(* The first acquisition publishes no more images than it was asked for.   *)
THEOREM ImagesBounded == Spec => []NoExtraImages
<1>1. IInv => NoExtraImages
  BY ConstantsAssumption
     DEF IInv, Base, TypeOK, Counting, NoExtraImages, ImageMode, NumImages
<1> QED  BY <1>1, Invariant, PTL

=============================================================================
