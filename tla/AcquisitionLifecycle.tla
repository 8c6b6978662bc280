------------------------ MODULE AcquisitionLifecycle ------------------------
(***************************************************************************)
(* Starting and stopping an acquisition in temporal mode: the port thread  *)
(* that writes ADAcquire (ADPercivalDriver::writeInt32), the receiver and  *)
(* its io thread (DataReceiver), the two threads of PercivalServer that    *)
(* use the sub-frames - the frame thread, which calls the driver back with *)
(* every image and stops the acquisition itself after the last one, and    *)
(* the reset thread - and an areaDetector plugin.                          *)
(*                                                                         *)
(* Locks: the asyn port lock of the driver (driverLock, recursive), held   *)
(* by the port thread for the whole of writeInt32 and by the frame thread  *)
(* in imageReceived except around the plugins; the plugin's own lock;      *)
(* access_, held by an io thread that takes a packet in; frameAccess_ and  *)
(* resetAccess_, which the frame and the reset thread keep from the end of *)
(* their wait to the next one.                                             *)
(*                                                                         *)
(* Each start creates a receiver and an io thread; nothing joins the       *)
(* thread, and a stop waits for nobody: it sleeps for a second, however    *)
(* far the other threads come in it.  A step that uses what has been       *)
(* destroyed, or is not there yet, is undefined behaviour: it sets fault   *)
(* and the model stops there.  Frames are closed by their last packet; one *)
(* that misses packets ends the process (SIGINT).                          *)
(***************************************************************************)
EXTENDS Naturals

CONSTANTS
  Settings,    (* what a behaviour may run with, see setting               *)
  MaxStarts,   (* Bound: acquisitions started.                             *)
  MaxFrames,   (* Bound: images closed in all.                             *)
  MaxSpurious  (* Bound: wake-ups of the frame and reset thread without    *)
               (*   a notification.                                        *)

ASSUME ConstantsAssumption ==
  /\ Settings \subseteq [imageMode : {"single", "multiple", "continuous"},
                         numImages : Nat \ {0}]
  /\ MaxStarts \in Nat \ {0} /\ MaxFrames \in Nat /\ MaxSpurious \in Nat

Receivers == 1 .. MaxStarts
Stoppers  == {"user", "worker"}

VARIABLES
  setting,           (* ADImageMode and ADNumImages, which Init chooses    *)
                     (*   and nothing changes                              *)
  adStatus,          (* ADStatus                                           *)
  numImagesCounter,  (* ADNumImagesCounter                                 *)
  driverLock,        (* who holds the port lock of the driver              *)
  pluginLock,        (* who holds the lock of the plugin                   *)
  subFramesSet,      (* subFrameMap_ has its eight sub-frames              *)
  starts,            (* receivers created; receiver_ points to the last    *)
  receiver,          (* what has become of each receiver                   *)
  io,                (* where each receiver's thread is                    *)
  worker,            (* where the frame thread is                          *)
  resetWorker,       (* where the reset thread is                          *)
  stopping,          (* where the port and frame thread are in a stop      *)
  frames,            (* images closed so far                               *)
  published,         (* history: images published in this acquisition      *)
  late,              (* history: a frame was still in work when the sleep  *)
                     (*   of the last stop was over                        *)
  spurious,          (* history: wake-ups without a notification           *)
  fault              (* history: the first use of what is not there        *)

locks == <<driverLock, pluginLock>>
params == <<adStatus, numImagesCounter>>
workers == <<worker, resetWorker>>
histories == <<frames, published, late, spurious>>
vars == <<setting, params, locks, subFramesSet, starts, receiver, io, workers, stopping,
          histories, fault>>

ImageMode == setting.imageMode
NumImages == setting.numImages

Running == fault = "none"
FrameAccessHeld == worker \notin {"relock", "waiting", "woken"}
ResetAccessHeld == resetWorker \in {"exchange", "copy"}
AccessHeld(k) == io[k] \in {"swap", "notify", "resetReady", "resetNotify"}

-----------------------------------------------------------------------------
(* The port thread: ADAcquire = 1 *)

(* Mutant: the status is not looked at. *)
StartAcquisitionAnytime ==
  /\ Running /\ driverLock = "free" /\ starts < MaxStarts
  /\ starts' = starts + 1
  /\ receiver' = [receiver EXCEPT ![starts + 1] = "acquiring"]
  /\ io' = [io EXCEPT ![starts + 1] = "run"]
  /\ subFramesSet' = TRUE
  /\ numImagesCounter' = 0 /\ published' = 0 /\ late' = FALSE
  /\ adStatus' = "acquire"
  /\ UNCHANGED <<setting, locks, workers, stopping, frames, spurious, fault>>

(* Set the sub-frames up, create a receiver and start its thread.          *)
StartAcquisition ==
  /\ Running /\ driverLock = "free" /\ starts < MaxStarts
  /\ adStatus = "idle"
  /\ starts' = starts + 1
  /\ receiver' = [receiver EXCEPT ![starts + 1] = "acquiring"]
  /\ io' = [io EXCEPT ![starts + 1] = "run"]
  /\ subFramesSet' = TRUE
  /\ numImagesCounter' = 0 /\ published' = 0 /\ late' = FALSE
  /\ adStatus' = "acquire"
  /\ UNCHANGED <<setting, locks, workers, stopping, frames, spurious, fault>>

(* ADAcquire = 0: the lock is held until the stop is over. *)
StopRequested ==
  /\ Running /\ driverLock = "free"
  /\ adStatus # "idle"
  /\ driverLock' = "user"
  /\ stopping' = [stopping EXCEPT !["user"] = "stop"]
  /\ UNCHANGED <<setting, params, pluginLock, subFramesSet, starts, receiver, io, workers,
                 histories, fault>>

-----------------------------------------------------------------------------
(* The stop sequence, the same for the port thread and the frame thread *)

(* receiver_->stopAcquisition(): acquiring_ cleared, io service stopped. *)
StopReceiver(who) ==
  /\ Running /\ stopping[who] = "stop"
  /\ stopping' = [stopping EXCEPT ![who] = "shutdown"]
  /\ IF receiver[starts] = "deleted"
       THEN fault' = "deletedReceiverStopped" /\ UNCHANGED receiver
       ELSE receiver' = [receiver EXCEPT ![starts] = "stopped"] /\ UNCHANGED fault
  /\ UNCHANGED <<setting, params, locks, subFramesSet, starts, io, workers, histories>>

(* shutdownSocket(): the socket is closed and deleted. *)
ShutdownSocket(who) ==
  /\ Running /\ stopping[who] = "shutdown"
  /\ stopping' = [stopping EXCEPT ![who] = "delete"]
  /\ receiver' = [receiver EXCEPT ![starts] = "closed"]
  /\ UNCHANGED <<setting, params, locks, subFramesSet, starts, io, workers, histories, fault>>

(* Mutant: the sub-frames are released before the sleep. *)
DeleteReceiverAndSubFrames(who) ==
  /\ Running /\ stopping[who] = "delete"
  /\ stopping' = [stopping EXCEPT ![who] = "sleep"]
  /\ receiver' = [receiver EXCEPT ![starts] = "deleted"]
  /\ subFramesSet' = FALSE
  /\ UNCHANGED <<setting, params, locks, starts, io, workers, histories, fault>>

(* delete receiver_; the pointer keeps its value. *)
DeleteReceiver(who) ==
  /\ Running /\ stopping[who] = "delete"
  /\ stopping' = [stopping EXCEPT ![who] = "sleep"]
  /\ receiver' = [receiver EXCEPT ![starts] = "deleted"]
  /\ UNCHANGED <<setting, params, locks, subFramesSet, starts, io, workers, histories, fault>>

(* A frame is in work that needs the sub-frames once more: an io thread is *)
(* about to close or hand over one, or the frame or reset thread has one.  *)
IoInWork(k) == io[k] = "handle" \/ AccessHeld(k)
WorkerInWork == worker \in {"woken", "unscramble"}
ResetInWork == resetWorker \in {"woken", "exchange", "copy"}
InWork == WorkerInWork \/ ResetInWork \/ \E k \in Receivers : IoInWork(k)

(* epicsThreadSleep(1.0), whatever the other threads do meanwhile.         *)
Sleep(who) ==
  /\ Running /\ stopping[who] = "sleep"
  /\ stopping' = [stopping EXCEPT ![who] = "release"]
  /\ late' = InWork
  /\ UNCHANGED <<setting, params, locks, subFramesSet, starts, receiver, io, workers,
                 frames, published, spurious, fault>>

(* releaseAllSubFrames(), ADStatusIdle, and the end of the call.  The      *)
(* frame thread is back in its loop and lets go of frameAccess_ too.       *)
ReleaseSubFrames(who) ==
  /\ Running /\ stopping[who] = "release"
  /\ stopping' = [stopping EXCEPT ![who] = "no"]
  /\ subFramesSet' = FALSE
  /\ adStatus' = "idle"
  /\ driverLock' = "free"
  /\ worker' = IF who = "worker" THEN "relock" ELSE worker
  /\ UNCHANGED <<setting, numImagesCounter, pluginLock, starts, receiver, io, resetWorker,
                 histories, fault>>

-----------------------------------------------------------------------------
(* The io thread of receiver k *)

(* run() calls handleReceive() while the io service is not stopped, *)
HandleReceive(k) ==
  /\ Running /\ io[k] = "run" /\ receiver[k] = "acquiring"
  /\ io' = [io EXCEPT ![k] = "handle"]
  /\ UNCHANGED <<setting, params, locks, subFramesSet, starts, receiver, workers, stopping,
                 histories, fault>>

(* and the server takes the packet in under access_.  It may be the last   *)
(* one of an image or of a reset frame.                                    *)
PacketReceived(k, closes) ==
  /\ Running /\ io[k] = "handle"
  /\ \A j \in Receivers : ~AccessHeld(j)
  /\ closes = "image" => frames < MaxFrames
  /\ io' = [io EXCEPT ![k] = CASE closes = "image" -> "swap"
                               [] closes = "reset" -> "resetReady"
                               [] closes = "none" -> "rearm"]
  /\ UNCHANGED <<setting, params, locks, subFramesSet, starts, receiver, workers, stopping,
                 histories, fault>>

(* Under frameAccess_, each sub-frame allocates a buffer. *)
SwapBuffers(k) ==
  /\ Running /\ io[k] = "swap"
  /\ ~FrameAccessHeld
  /\ IF subFramesSet
       THEN /\ io' = [io EXCEPT ![k] = "notify"]
            /\ frames' = frames + 1
            /\ UNCHANGED fault
       ELSE fault' = "noSubFrame" /\ UNCHANGED <<io, frames>>
  /\ UNCHANGED <<setting, params, locks, subFramesSet, starts, receiver, workers, stopping,
                 published, late, spurious>>

NotifyOne(k) ==
  /\ Running /\ io[k] = "notify"
  /\ io' = [io EXCEPT ![k] = "rearm"]
  /\ worker' = IF worker = "waiting" THEN "woken" ELSE worker
  /\ UNCHANGED <<setting, params, locks, subFramesSet, starts, receiver, resetWorker,
                 stopping, histories, fault>>

(* Under resetAccess_, the number of the reset frame is left. *)
ResetReady(k) ==
  /\ Running /\ io[k] = "resetReady"
  /\ ~ResetAccessHeld
  /\ io' = [io EXCEPT ![k] = "resetNotify"]
  /\ UNCHANGED <<setting, params, locks, subFramesSet, starts, receiver, workers, stopping,
                 histories, fault>>

ResetNotifyOne(k) ==
  /\ Running /\ io[k] = "resetNotify"
  /\ io' = [io EXCEPT ![k] = "rearm"]
  /\ resetWorker' = IF resetWorker = "waiting" THEN "woken" ELSE resetWorker
  /\ UNCHANGED <<setting, params, locks, subFramesSet, starts, receiver, worker, stopping,
                 histories, fault>>

(* Back in handleReceive(): acquiring_ is read, *)
ReadAcquiring(k) ==
  /\ Running /\ io[k] = "rearm"
  /\ IF receiver[k] = "deleted"
       THEN fault' = "deletedReceiverUsed" /\ UNCHANGED io
       ELSE /\ io' = [io EXCEPT ![k] = IF receiver[k] = "acquiring" THEN "listen" ELSE "run"]
            /\ UNCHANGED fault
  /\ UNCHANGED <<setting, params, locks, subFramesSet, starts, receiver, workers, stopping,
                 histories>>

(* and if it was set the socket is asked for the next packet. *)
ListenAgain(k) ==
  /\ Running /\ io[k] = "listen"
  /\ IF receiver[k] \in {"closed", "deleted"}
       THEN fault' = "deletedReceiverUsed" /\ UNCHANGED io
       ELSE io' = [io EXCEPT ![k] = "run"] /\ UNCHANGED fault
  /\ UNCHANGED <<setting, params, locks, subFramesSet, starts, receiver, workers, stopping,
                 histories>>

(* run() of the stopped io service returns, if the service is still there. *)
EndRun(k) ==
  /\ Running /\ io[k] = "run" /\ receiver[k] # "acquiring"
  /\ IF receiver[k] = "deleted"
       THEN fault' = "deletedReceiverUsed" /\ UNCHANGED io
       ELSE io' = [io EXCEPT ![k] = "ended"] /\ UNCHANGED fault
  /\ UNCHANGED <<setting, params, locks, subFramesSet, starts, receiver, workers, stopping,
                 histories>>

-----------------------------------------------------------------------------
(* The frame thread, processTemporalFrame() and the driver's callback *)

WorkerMoves(from, to) == Running /\ worker = from /\ worker' = to
othersThanWorker ==
  <<setting, subFramesSet, starts, receiver, io, resetWorker, frames, late, spurious>>

WorkerWait ==
  /\ WorkerMoves("relock", "waiting")
  /\ UNCHANGED <<othersThanWorker, params, locks, stopping, published, fault>>

WorkerLock ==
  /\ WorkerMoves("woken", "unscramble")
  /\ UNCHANGED <<othersThanWorker, params, locks, stopping, published, fault>>

(* Wait may return without a notification. *)
WakeSpuriously ==
  /\ WorkerMoves("waiting", "woken")
  /\ spurious < MaxSpurious /\ spurious' = spurious + 1
  /\ UNCHANGED <<setting, params, locks, subFramesSet, starts, receiver, io, resetWorker,
                 stopping, frames, published, late, fault>>

(* Unscramble and release the eight buffers of subFrameBuffers_, which is  *)
(* not initialised before a first image is closed, by subFrameMap_.        *)
Unscramble ==
  /\ WorkerMoves("unscramble", "callback")
  /\ fault' = CASE ~subFramesSet -> "noSubFrame"
                [] subFramesSet /\ frames = 0 -> "noBuffers"
                [] OTHER -> fault
  /\ UNCHANGED <<othersThanWorker, params, locks, stopping, published>>

(* Mutant: the port lock is kept while the plugins are called. *)
CountImageKeepLock ==
  /\ WorkerMoves("callback", "publish")
  /\ driverLock = "free"
  /\ driverLock' = "worker"
  /\ numImagesCounter' = numImagesCounter + 1
  /\ UNCHANGED <<othersThanWorker, adStatus, pluginLock, stopping, published, fault>>

(* imageReceived(): lock, count the image, unlock for the plugins. *)
CountImage ==
  /\ WorkerMoves("callback", "publish")
  /\ driverLock = "free"
  /\ numImagesCounter' = numImagesCounter + 1
  /\ UNCHANGED <<othersThanWorker, adStatus, locks, stopping, published, fault>>

(* doCallbacksGenericPointer() takes the lock of the plugin. *)
Publish ==
  /\ WorkerMoves("publish", "published")
  /\ pluginLock = "free"
  /\ published' = published + 1
  /\ UNCHANGED <<othersThanWorker, params, locks, stopping, fault>>

(* Mutant: one image too many. *)
CompleteLate ==
  \/ ImageMode = "single" /\ numImagesCounter = 1
  \/ ImageMode = "multiple" /\ numImagesCounter > NumImages

Complete ==
  \/ ImageMode = "single" /\ numImagesCounter = 1
  \/ ImageMode = "multiple" /\ numImagesCounter >= NumImages

(* Lock again and see if this was the last image; if not, unlock and loop. *)
CheckComplete ==
  /\ Running /\ worker = "published"
  /\ driverLock \in {"free", "worker"}
  /\ IF Complete
       THEN /\ driverLock' = "worker"
            /\ stopping' = [stopping EXCEPT !["worker"] = "stop"]
            /\ worker' = "stopping"
       ELSE /\ driverLock' = "free"
            /\ worker' = "relock"
            /\ UNCHANGED stopping
  /\ UNCHANGED <<othersThanWorker, params, pluginLock, published, fault>>

-----------------------------------------------------------------------------
(* The reset thread, processTemporalResetFrame() *)

ResetMoves(from, to) == Running /\ resetWorker = from /\ resetWorker' = to
othersThanReset ==
  <<setting, params, locks, subFramesSet, starts, receiver, io, worker, stopping, frames,
    published, late>>

ResetWait == ResetMoves("relock", "waiting") /\ UNCHANGED <<othersThanReset, spurious, fault>>
ResetLock == ResetMoves("woken", "exchange") /\ UNCHANGED <<othersThanReset, spurious, fault>>

ResetWakeSpuriously ==
  /\ ResetMoves("waiting", "woken")
  /\ spurious < MaxSpurious /\ spurious' = spurious + 1
  /\ UNCHANGED <<othersThanReset, fault>>

(* Each sub-frame allocates a new buffer; *)
ExchangeReset ==
  /\ ResetMoves("exchange", "copy")
  /\ fault' = IF subFramesSet THEN fault ELSE "noSubFrame"
  /\ UNCHANGED <<othersThanReset, spurious>>

(* each old one is put together by its geometry and released to it, and    *)
(* the whole is filed.                                                     *)
CopyReset ==
  /\ ResetMoves("copy", "relock")
  /\ fault' = IF subFramesSet THEN fault ELSE "noSubFrame"
  /\ UNCHANGED <<othersThanReset, spurious>>

-----------------------------------------------------------------------------
(* External: a plugin that, holding its own lock, calls the driver. *)

PluginLocks ==
  /\ Running /\ pluginLock = "free"
  /\ pluginLock' = "plugin"
  /\ UNCHANGED <<setting, params, driverLock, subFramesSet, starts, receiver, io, workers,
                 stopping, histories, fault>>

PluginCallsDriver ==
  /\ Running /\ pluginLock = "plugin"
  /\ driverLock = "free"
  /\ pluginLock' = "free"
  /\ UNCHANGED <<setting, params, driverLock, subFramesSet, starts, receiver, io, workers,
                 stopping, histories, fault>>

-----------------------------------------------------------------------------
Init ==
  /\ setting \in Settings
  /\ adStatus = "idle" /\ numImagesCounter = 0
  /\ driverLock = "free" /\ pluginLock = "free"
  /\ subFramesSet = FALSE
  /\ starts = 0
  /\ receiver = [k \in Receivers |-> "none"]
  /\ io = [k \in Receivers |-> "none"]
  /\ worker = "relock" /\ resetWorker = "relock"
  /\ stopping = [who \in Stoppers |-> "no"]
  /\ frames = 0 /\ published = 0 /\ late = FALSE /\ spurious = 0
  /\ fault = "none"

StopStep(who) ==
  \/ StopReceiver(who) \/ ShutdownSocket(who) \/ DeleteReceiver(who)
  \/ Sleep(who) \/ ReleaseSubFrames(who)
Closings == {"none", "image", "reset"}
IoStep(k) ==
  \/ \E closes \in Closings : PacketReceived(k, closes)
  \/ SwapBuffers(k) \/ NotifyOne(k) \/ ResetReady(k) \/ ResetNotifyOne(k)
  \/ ReadAcquiring(k) \/ ListenAgain(k) \/ EndRun(k)
WorkerStep == WorkerWait \/ WorkerLock \/ Unscramble \/ CountImage \/ CheckComplete
ResetStep == ResetWait \/ ResetLock \/ ExchangeReset \/ CopyReset

Next ==
  \/ StartAcquisition \/ StopRequested
  \/ \E who \in Stoppers : StopStep(who)
  \/ \E k \in Receivers : HandleReceive(k) \/ IoStep(k)
  \/ WorkerStep \/ Publish \/ ResetStep
  \/ WakeSpuriously \/ ResetWakeSpuriously
  \/ PluginLocks \/ PluginCallsDriver

Spec == Init /\ [][Next]_vars

(* Every thread runs; who asks again and again for a lock others take and  *)
(* release gets it; a plugin does not keep its lock for ever.              *)
Fairness ==
  /\ \A who \in Stoppers : WF_vars(StopStep(who))
  /\ \A k \in Receivers : WF_vars(IoStep(k))
  /\ WF_vars(WorkerStep) /\ SF_vars(Publish) /\ WF_vars(ResetStep)
  /\ WF_vars(PluginCallsDriver)
FairSpec == Spec /\ Fairness

-----------------------------------------------------------------------------
(* Properties *)

(* Types; a thread holds the port lock exactly as long as it is stopping,  *)
(* so the port thread and the frame thread never stop at the same time.    *)
TypeOK ==
  /\ setting \in Settings
  /\ adStatus \in {"idle", "acquire"}
  /\ numImagesCounter \in Nat /\ frames \in Nat /\ published \in Nat /\ spurious \in Nat
  /\ driverLock \in {"free", "user", "worker"}
  /\ pluginLock \in {"free", "plugin"}
  /\ subFramesSet \in BOOLEAN
  /\ starts \in 0 .. MaxStarts
  /\ receiver \in [Receivers -> {"none", "acquiring", "stopped", "closed", "deleted"}]
  /\ io \in [Receivers -> {"none", "run", "handle", "swap", "notify", "resetReady",
                           "resetNotify", "rearm", "listen", "ended"}]
  /\ worker \in {"relock", "waiting", "woken", "unscramble", "callback",
                 "publish", "published", "stopping"}
  /\ resetWorker \in {"relock", "waiting", "woken", "exchange", "copy"}
  /\ stopping \in [Stoppers -> {"no", "stop", "shutdown", "delete", "sleep", "release"}]
  /\ late \in BOOLEAN
  /\ fault \in {"none", "noSubFrame", "noBuffers", "deletedReceiverStopped",
                "deletedReceiverUsed"}
  /\ \A who \in Stoppers : driverLock = who <=> stopping[who] # "no"

(* Start and stop, from either thread and however they interleave, leave   *)
(* no receiver behind: those before the last are deleted, and when the     *)
(* status is idle so is the last.                                          *)
NoReceiverLeft ==
  \A k \in 1 .. starts :
    k < starts \/ adStatus = "idle" => receiver[k] = "deleted"

(* No more images are published than were asked for.  (Only of the first   *)
(* acquisition: a later one may begin with an image the frame thread had   *)
(* counted, and not yet published, when the one before was stopped.)       *)
NoExtraImages ==
  starts <= 1 => /\ ImageMode = "single" => published <= 1
                 /\ ImageMode = "multiple" => published <= NumImages

(* The one thing that can make the io, frame or reset thread use a         *)
(* sub-frame that is not there is a frame still in work when the second is *)
(* over, or a wake-up without a notification: once the frames in work are  *)
(* done, whatever the three threads and the stops do, none of them begins  *)
(* another before a start has set the sub-frames up again.                 *)
OnlyLateWorkUsesReleased ==
  fault = "noSubFrame" => late \/ spurious > 0

(* An image callback returns, whoever stops meanwhile: no lock is waited   *)
(* for in a circle by the port thread, the frame thread, the io thread and *)
(* a plugin.                                                               *)
CallbackReturns == worker = "callback" ~> (worker = "waiting" \/ fault # "none")

(* A stop reaches a receiver that still exists (an acquisition that does   *)
(* not take place any more is not stopped again).                          *)
StopsLiveReceiver == fault # "deletedReceiverStopped"

=============================================================================
