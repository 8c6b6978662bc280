--------------------------- MODULE TemporalServer ---------------------------
(***************************************************************************)
(* PercivalServer in temporal mode: the image path (TemporalFrames) and    *)
(* the reset path (TemporalResets) together.  One io thread serves both:   *)
(* imageReceived() sends each packet to one of them, holding access_, as   *)
(* timeout() does.  The paths meet in three places: the io thread, the     *)
(* buffer pools of the sub-frames, and resetFrameMap_, from which the      *)
(* frame thread takes the reset frame that corrects the image of the same  *)
(* number.                                                                 *)
(*                                                                         *)
(* Ordered means here that the packets of a path arrive in order or are    *)
(* lost, and the reset frame of a number ahead of the image.  KeepsUp is   *)
(* for each path alone: its own thread waits when a frame of that path is  *)
(* closed.  The other path's thread may be at work then, and packets of    *)
(* both kinds arrive meanwhile: the generator sends reset data straight    *)
(* after an image.  Spaced is explained in TemporalResets.                 *)
(*                                                                         *)
(* The map is not protected: the frame thread holds frameAccess_ and the   *)
(* reset thread resetAccess_ when they use it.  A step of either thread is *)
(* atomic here, which is stronger than the code where the two overlap.     *)
(***************************************************************************)
EXTENDS TemporalPackets, FiniteSets

CONSTANTS
  MaxTimeouts,  (* Bound: watchdog timeouts.                               *)
  Spaced        (* TRUE: no reset packet arrives before the buffers of the *)
                (*   reset frame closed last are exchanged.                *)

ASSUME TimeoutsAssumption == MaxTimeouts \in Nat
ASSUME SpacedAssumption == Spaced \in BOOLEAN

VARIABLES
  alive,
  expectNewFrame, frameNumber, checks, errorStats, subFrames, subFrameBuffers,
  processFrameNumber, io, pkt, worker, net, handed, delivered,
  expectNewResetFrame, resetFrameNumber, resetChecks, resetErrorStats,
  resetSubFrames, resetFrameBuffers, processResetFrameNumber, resetFrameReady,
  resetFrameMap, resetIo, resetPkt, resetTarget, resetWorker, resetNet,
  closed, filed,
  resetFramesMissing,   (* resetFramesMissing_                             *)
  resumed,              (* history: no packet of either kind has arrived   *)
                        (*   since the last timeout                        *)
  corrected             (* history: for each frame delivered, the reset    *)
                        (*   frame it was corrected with, and how many     *)
                        (*   reset frames had been closed by then          *)

Image == INSTANCE TemporalFrames
Reset == INSTANCE TemporalResets

imageVars == <<expectNewFrame, frameNumber, checks, errorStats, subFrames,
               subFrameBuffers, processFrameNumber, io, pkt, worker, net,
               handed, delivered>>
resetVars == <<expectNewResetFrame, resetFrameNumber, resetChecks,
               resetErrorStats, resetSubFrames, resetFrameBuffers,
               processResetFrameNumber, resetFrameReady, resetIo, resetPkt,
               resetTarget, resetWorker, resetNet, closed, filed>>
ownVars == <<resetFramesMissing, resumed, corrected>>
vars == <<alive, mem, freeBuffers, imageVars, resetVars, resetFrameMap, ownVars>>

NoReset == [s \in Slots |-> Blank]  (* no reset frame: nothing is subtracted *)

-----------------------------------------------------------------------------
(* The io thread: one packet at a time, of either type *)

ImagePacket(p) ==
  /\ resetIo = "idle"
  /\ Image!PacketReceived(p)
  /\ resumed' = FALSE
  /\ UNCHANGED <<resetVars, resetFrameMap, resetFramesMissing, corrected>>

(* The generator sends the reset frame of a number ahead of the image.     *)
ResetPacket(p) ==
  /\ io = "idle"
  /\ Ordered => net.last <= p.frame * NumSlots
  /\ Reset!PacketReceived(p)
  /\ resumed' = FALSE
  /\ UNCHANGED <<imageVars, resetFramesMissing, corrected>>

(* timeout() resets the image path; the reset path keeps its state. *)
Timeout ==
  /\ resetIo = "idle"
  /\ Image!Timeout
  /\ resumed' = TRUE
  /\ UNCHANGED <<resetVars, resetFrameMap, resetFramesMissing, corrected>>

ImageIoStep ==
  /\ Image!IoStep
  /\ UNCHANGED <<resetVars, resetFrameMap, ownVars>>

ResetIoStep ==
  /\ Reset!IoStep
  /\ UNCHANGED <<imageVars, ownVars>>

-----------------------------------------------------------------------------
(* The two worker threads *)

FrameWorkerStep ==
  /\ Image!WorkerWait \/ Image!WorkerLock \/ Image!SpuriousWakeup \/ Image!ProcessNothing
  /\ UNCHANGED <<resetVars, resetFrameMap, ownVars>>

ResetWorkerStep ==
  /\ Reset!WorkerStep \/ Reset!SpuriousWakeup
  /\ UNCHANGED <<imageVars, ownVars>>

Correction(n, reset) ==
  [frame |-> n, reset |-> reset, closings |-> Len(closed)]

(* Mutant: the reset frame last made ready is used, whatever its number. *)
TakeLatestReset(n) ==
  /\ corrected' = Append(corrected,
       Correction(n, IF resetFrameReady \in DOMAIN resetFrameMap
                       THEN resetFrameMap[resetFrameReady] ELSE NoReset))
  /\ UNCHANGED <<resetFrameMap, resetFramesMissing>>

(* Mutant: the reset frame is not removed from the map. *)
TakeResetWithoutErase(n) ==
  IF n \in DOMAIN resetFrameMap
    THEN /\ corrected' = Append(corrected, Correction(n, resetFrameMap[n]))
         /\ UNCHANGED <<resetFrameMap, resetFramesMissing>>
    ELSE /\ corrected' = Append(corrected, Correction(n, NoReset))
         /\ resetFramesMissing' = resetFramesMissing + 1
         /\ UNCHANGED resetFrameMap

(* Take the reset frame of number n out of the map, if there is one. *)
TakeReset(n) ==
  IF n \in DOMAIN resetFrameMap
    THEN /\ corrected' = Append(corrected, Correction(n, resetFrameMap[n]))
         /\ resetFrameMap' = [f \in DOMAIN resetFrameMap \ {n} |-> resetFrameMap[f]]
         /\ UNCHANGED resetFramesMissing
    ELSE /\ corrected' = Append(corrected, Correction(n, NoReset))
         /\ resetFramesMissing' = resetFramesMissing + 1
         /\ UNCHANGED resetFrameMap

ProcessFrame ==
  /\ TakeReset(processFrameNumber)
  /\ Image!ProcessFrame
  /\ UNCHANGED <<resetVars, resumed>>

-----------------------------------------------------------------------------
(* After startAcquisition(): bank 1 for images, bank 2 for reset frames. *)
Init ==
  /\ alive = TRUE
  /\ mem = <<BlankBank, BlankBank>>
  /\ freeBuffers = <<>>
  /\ expectNewFrame = TRUE /\ expectNewResetFrame = TRUE
  /\ frameNumber = 0 /\ resetFrameNumber = 0
  /\ checks = {} /\ resetChecks = {}
  /\ errorStats = NoErrors
  /\ resetErrorStats = NoErrors
  /\ subFrames = 1 /\ resetSubFrames = 2
  /\ subFrameBuffers = NoBank /\ resetFrameBuffers = NoBank
  /\ processFrameNumber = 0 /\ processResetFrameNumber = 0
  /\ resetFrameReady = 0 /\ resetFrameMap = <<>> /\ resetFramesMissing = 0
  /\ io = "idle" /\ resetIo = "idle"
  /\ pkt = [frame |-> 0, slot |-> 1] /\ resetPkt = [frame |-> 0, slot |-> 1]
  /\ resetTarget = 2
  /\ worker = "relock" /\ resetWorker = "relock"
  /\ net = [packets |-> 0, last |-> 0, timeouts |-> 0, wakeups |-> 0]
  /\ resetNet = [packets |-> 0, last |-> 0, wakeups |-> 0]
  /\ handed = <<>> /\ delivered = <<>> /\ closed = <<>> /\ filed = <<>>
  /\ resumed = FALSE
  /\ corrected = <<>>

Next ==
  \/ \E p \in Packets : ImagePacket(p)
  \/ \E p \in Packets : ResetPacket(p)
  \/ Timeout
  \/ ImageIoStep \/ ResetIoStep
  \/ FrameWorkerStep \/ ResetWorkerStep
  \/ ProcessFrame

Spec == Init /\ [][Next]_vars

(* All three threads are scheduled; nothing makes a packet arrive. *)
Fairness ==
  /\ WF_vars(ImageIoStep) /\ WF_vars(ResetIoStep)
  /\ WF_vars(ResetWorkerStep) /\ WF_vars(FrameWorkerStep \/ ProcessFrame)
FairSpec == Spec /\ Fairness

-----------------------------------------------------------------------------
(* Properties *)

(* The reset path and the state it shares with the image path are well     *)
(* formed, and the io thread is inside one handler only.                   *)
TypeOK ==
  /\ Reset!TypeOK
  /\ subFrames \in 1 .. Len(mem) /\ subFrameBuffers \in 0 .. Len(mem)
  /\ io = "idle" \/ resetIo = "idle"
  /\ resetFramesMissing \in 0 .. Len(delivered)
  /\ Len(corrected) = Len(delivered)

(* An image is corrected with the reset frame that was sent for it, whole, *)
(* or with none.                                                           *)
CorrectedByOwn ==
  \A i \in DOMAIN corrected :
    \/ corrected[i].reset = NoReset
    \/ \A s \in Slots : corrected[i].reset[s] = Reset!ResetTag(corrected[i].frame)

(* No image goes without its reset frame when that was closed a reset      *)
(* frame ahead: with a later one closed too before the frame thread looks  *)
(* into the map, which nobody makes wait for the reset thread.  An image   *)
(* close behind its reset frame may find nothing.                          *)
CorrectedIfAhead ==
  \A i \in DOMAIN corrected : \A j \in 1 .. corrected[i].closings - 1 :
    closed[j].frame = corrected[i].frame => corrected[i].reset # NoReset

(* A reset frame is used once: frames of a number are corrected no more    *)
(* often than reset frames of that number were filed, however the threads  *)
(* and the wake-ups interleave.                                            *)
TakenOncePerFiling ==
  \A n \in Frames :
    Cardinality({i \in DOMAIN corrected : corrected[i].frame = n /\ corrected[i].reset # NoReset})
      <= Cardinality({j \in DOMAIN filed : filed[j].frame = n})

(* The banks in use by the two paths and the free ones are all different,  *)
(* with both threads at work at once and the pools of the sub-frames       *)
(* shared: each thread releases banks while the other's are in use.  A     *)
(* reset packet is not copied to an image's bank either, though the        *)
(* pointer was read before and the reset thread may have exchanged and     *)
(* released that bank since.                                               *)
NoSharedBank ==
  /\ Image!NoSharedBank /\ Reset!NoSharedBank
  /\ subFrames # resetSubFrames
  /\ Image!WorkerOwns => subFrameBuffers # resetSubFrames
  /\ resetWorker = "copying" =>
       /\ resetFrameBuffers # subFrames
       /\ Image!WorkerOwns => resetFrameBuffers # subFrameBuffers
  /\ resetIo = "copy" =>
       /\ resetTarget # subFrames
       /\ Image!WorkerOwns => resetTarget # subFrameBuffers

(* However late or often the reset thread runs, the bank it takes is not   *)
(* free and not the one the io thread goes on filling.  This holds until   *)
(* images are handed over: a frame thread that is overtaken gives a bank   *)
(* back twice, and the pools are common.                                   *)
ResetBanksApart == handed = <<>> => Reset!NoSharedBank

(* A reset frame, once closed, is filed once, in order and unchanged:      *)
(* neither image packets nor a frame thread at work change what is filed.  *)
(* Reset packets that come before the exchange would: the sender is Spaced.*)
FilesEachOnce == Reset!FilesEachOnce

(* And it is filed in the end, unless the process is terminated: the image *)
(* path does not hold the reset thread up.                                 *)
FilesEachEventually == Reset!FilesEachEventually

(* A timeout makes the server ready for a sender that starts again: the    *)
(* next packet it sends is not taken for a late one.                       *)
ResumedNotLate ==
  [][resumed => /\ errorStats'.late = errorStats.late
                /\ resetErrorStats'.late = resetErrorStats.late]_vars

=============================================================================
