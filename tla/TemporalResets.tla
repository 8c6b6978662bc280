--------------------------- MODULE TemporalResets ---------------------------
(***************************************************************************)
(* The reset path of PercivalServer in temporal mode.  The io thread       *)
(* stores reset packets in resetSubFrames_ without a lock; when a reset    *)
(* frame is closed it publishes the number under resetAccess_ and notifies *)
(* the reset thread.  Unlike the image path it is that thread which        *)
(* exchanges the buffers, once it runs, and files the assembled frame in   *)
(* resetFrameMap_ under the published number.                              *)
(*                                                                         *)
(* resetAccess_ is held by the io thread during PublishNumber only and by  *)
(* the reset thread exactly while resetWorker is "locked" or "copying".    *)
(*                                                                         *)
(* KeepsUp restricts the packets that close a frame, as in TemporalFrames; *)
(* others arrive whatever the reset thread does, and are copied to its     *)
(* bank if it has not exchanged the buffers yet.  Spaced excludes that: a  *)
(* sender that pauses after each reset frame for as long as the thread     *)
(* needs to wake up.                                                       *)
(***************************************************************************)
EXTENDS TemporalPackets

CONSTANT
  Spaced   (* TRUE: no reset packet arrives between the notification of    *)
           (*   the reset thread and its exchange of the buffers.          *)

(* The mark of a reset packet in a bank, told apart from image data. *)
ResetTag(frame) == MaxFrame + 1 + frame

VARIABLES
  alive,                   (* the process has not been terminated          *)
  expectNewResetFrame,     (* expectNewResetFrame_                         *)
  resetFrameNumber,        (* resetFrameNumber_                            *)
  resetChecks,             (* the slots flagged in resetChecker_           *)
  resetErrorStats,         (* resetErrorStats_                             *)
  resetSubFrames,          (* resetSubFrames_[0..7]                        *)
  resetFrameBuffers,       (* the reset thread's local resetFrameBuffers   *)
  processResetFrameNumber, (* processResetFrameNumber_                     *)
  resetFrameReady,         (* resetFrameReady_                             *)
  resetFrameMap,           (* resetFrameMap_                               *)
  resetIo,                 (* where the io thread is in the packet handler *)
  resetPkt,                (* the packet it is handling                    *)
  resetTarget,             (* the bank it has read the pointer of          *)
  resetWorker,             (* where the reset thread is                    *)
  resetNet,                (* environment: arrivals and wake-ups so far    *)
  closed,                  (* history: the reset frames closed             *)
  filed                    (* history: the reset frames put in the map     *)

control == <<expectNewResetFrame, resetFrameNumber, resetChecks>>
banks   == <<resetSubFrames, resetFrameBuffers, freeBuffers, mem>>
result  == <<resetFrameReady, resetFrameMap, filed>>
vars == <<alive, control, resetErrorStats, banks, processResetFrameNumber,
          result, resetIo, resetPkt, resetTarget, resetWorker, resetNet, closed>>

-----------------------------------------------------------------------------
(* The io thread: temporalResetPacketReceived() *)

(* Flag the packet and read the pointer of the buffer it is copied to. *)
FlagPacket(p) ==
  /\ resetErrorStats' = Counted(resetErrorStats, resetChecks, p)
  /\ resetChecks' = resetChecks \cup {p.slot}
  /\ resetTarget' = resetSubFrames
  /\ resetPkt' = p
  /\ resetIo' = "copy"

(* The packet would close a frame: its own, or the one it supersedes. *)
ClosesFrame(p) ==
  IF expectNewResetFrame
    THEN checkAll(resetChecks \cup {p.slot})
    ELSE \/ p.frame > resetFrameNumber
         \/ p.frame = resetFrameNumber /\ checkAll(resetChecks \cup {p.slot})

Arrival(p) ==
  /\ alive /\ resetIo = "idle"
  /\ resetNet.packets < MaxPackets
  /\ Ordered => Position(p) > resetNet.last
  /\ KeepsUp /\ ClosesFrame(p) => resetWorker = "waiting"
  /\ Spaced => resetWorker \notin {"woken", "locked"}
  /\ resetNet' = [resetNet EXCEPT !.packets = @ + 1, !.last = Position(p)]

FirstPacket(p) ==
  /\ Arrival(p)
  /\ expectNewResetFrame
  /\ resetFrameNumber' = p.frame
  /\ expectNewResetFrame' = FALSE
  /\ FlagPacket(p)
  /\ UNCHANGED <<alive, banks, processResetFrameNumber, result, resetWorker, closed>>

LatePacket(p) ==
  /\ Arrival(p)
  /\ ~expectNewResetFrame /\ p.frame < resetFrameNumber
  /\ resetErrorStats' = [resetErrorStats EXCEPT !.late = @ + 1]
  /\ UNCHANGED <<alive, control, banks, processResetFrameNumber, result, resetIo,
                 resetPkt, resetTarget, resetWorker, closed>>

FramePacket(p) ==
  /\ Arrival(p)
  /\ ~expectNewResetFrame /\ p.frame = resetFrameNumber
  /\ FlagPacket(p)
  /\ UNCHANGED <<alive, expectNewResetFrame, resetFrameNumber, banks,
                 processResetFrameNumber, result, resetWorker, closed>>

(* A packet of a later frame: count it, report, raise(SIGINT), resetAll(). *)
EarlyPacket(p) ==
  /\ Arrival(p)
  /\ ~expectNewResetFrame /\ p.frame > resetFrameNumber
  /\ resetErrorStats' = [resetErrorStats EXCEPT !.missing = @ + 1]
  /\ alive' = ~SigintFatal
  /\ resetChecks' = {}
  /\ resetIo' = "part"
  /\ resetPkt' = p
  /\ UNCHANGED <<expectNewResetFrame, resetFrameNumber, banks,
                 processResetFrameNumber, result, resetTarget, resetWorker, closed>>

(* The copy through the pointer read before, then checkAll(). *)
CopyPacket ==
  /\ alive /\ resetIo = "copy"
  /\ mem' = [mem EXCEPT ![resetTarget][resetPkt.slot] = ResetTag(resetPkt.frame)]
  /\ IF checkAll(resetChecks)
       THEN resetChecks' = {} /\ resetIo' = "full"
       ELSE resetChecks' = resetChecks /\ resetIo' = "idle"
  /\ UNCHANGED <<alive, expectNewResetFrame, resetFrameNumber, resetErrorStats,
                 resetSubFrames, resetFrameBuffers, freeBuffers,
                 processResetFrameNumber, result, resetPkt, resetTarget,
                 resetWorker, resetNet, closed>>

(* Under resetAccess_: tell the reset thread which frame is closed. *)
PublishNumber ==
  /\ alive /\ resetIo \in {"full", "part"}
  /\ resetWorker \notin {"locked", "copying"}
  /\ processResetFrameNumber' = resetFrameNumber
  /\ closed' = Append(closed, [frame |-> resetFrameNumber,
                               data |-> mem[resetSubFrames]])
  /\ resetIo' = IF resetIo = "full" THEN "fullSet" ELSE "partSet"
  /\ UNCHANGED <<alive, control, resetErrorStats, banks, result, resetPkt,
                 resetTarget, resetWorker, resetNet>>

NotifyNobody == UNCHANGED resetWorker  (* mutant *)

(* resetCondition_.notify_one(): lost unless the reset thread is waiting. *)
NotifyOne == resetWorker' = IF resetWorker = "waiting" THEN "woken" ELSE resetWorker

NotifyFull ==
  /\ alive /\ resetIo = "fullSet"
  /\ NotifyOne
  /\ expectNewResetFrame' = TRUE
  /\ resetIo' = "idle"
  /\ UNCHANGED <<alive, resetFrameNumber, resetChecks, resetErrorStats, banks,
                 processResetFrameNumber, result, resetPkt, resetTarget, resetNet,
                 closed>>

(* The packet in hand opens the next frame; nobody has exchanged the       *)
(* buffers yet unless the reset thread has run in between.                 *)
NotifyPart ==
  /\ alive /\ resetIo = "partSet"
  /\ NotifyOne
  /\ resetFrameNumber' = resetPkt.frame
  /\ FlagPacket(resetPkt)
  /\ UNCHANGED <<alive, expectNewResetFrame, banks, processResetFrameNumber,
                 result, resetNet, closed>>

-----------------------------------------------------------------------------
(* The reset thread: processTemporalResetFrame() *)

WorkerWait ==
  /\ alive /\ resetWorker = "relock"
  /\ resetWorker' = "waiting"
  /\ UNCHANGED <<alive, control, resetErrorStats, banks, processResetFrameNumber,
                 result, resetIo, resetPkt, resetTarget, resetNet, closed>>

SpuriousWakeup ==
  /\ alive /\ resetWorker = "waiting"
  /\ resetNet.wakeups < MaxSpurious
  /\ resetNet' = [resetNet EXCEPT !.wakeups = @ + 1]
  /\ resetWorker' = "woken"
  /\ UNCHANGED <<alive, control, resetErrorStats, banks, processResetFrameNumber,
                 result, resetIo, resetPkt, resetTarget, closed>>

WorkerLock ==
  /\ alive /\ resetWorker = "woken"
  /\ resetWorker' = "locked"
  /\ UNCHANGED <<alive, control, resetErrorStats, banks, processResetFrameNumber,
                 result, resetIo, resetPkt, resetTarget, resetNet, closed>>

(* Take the buffers that were filled and leave new ones in their place. *)
ExchangeBuffers ==
  /\ alive /\ resetWorker = "locked"
  /\ resetFrameBuffers' = resetSubFrames
  /\ \E bank \in 1 .. Len(mem) + 1 : Allocate(bank) /\ resetSubFrames' = bank
  /\ resetWorker' = "copying"
  /\ UNCHANGED <<alive, control, resetErrorStats, processResetFrameNumber, result,
                 resetIo, resetPkt, resetTarget, resetNet, closed>>

(* Mutant: the map holds one reset frame at a time. *)
MapOnly(map, frame, data) == [f \in {frame} |-> data]

(* The map with an entry for a frame set or replaced. *)
MapWith(map, frame, data) ==
  [f \in DOMAIN map \cup {frame} |-> IF f = frame THEN data ELSE map[f]]

(* Mutant: the number is read from the frame being collected. *)
FileFrameReadsCurrent ==
  /\ alive /\ resetWorker = "copying"
  /\ resetFrameReady' = resetFrameNumber
  /\ resetFrameMap' = MapWith(resetFrameMap, resetFrameNumber, mem[resetFrameBuffers])
  /\ filed' = Append(filed, [frame |-> resetFrameNumber,
                             data |-> mem[resetFrameBuffers]])
  /\ Release(resetFrameBuffers)
  /\ resetWorker' = "relock"
  /\ UNCHANGED <<alive, control, resetErrorStats, resetSubFrames,
                 resetFrameBuffers, processResetFrameNumber, resetIo, resetPkt,
                 resetTarget, resetNet, closed>>

(* Assemble resetFrame1_, release the bank, file the frame, unlock. *)
FileFrame ==
  /\ alive /\ resetWorker = "copying"
  /\ resetFrameReady' = processResetFrameNumber
  /\ resetFrameMap' = MapWith(resetFrameMap, processResetFrameNumber,
                              mem[resetFrameBuffers])
  /\ filed' = Append(filed, [frame |-> processResetFrameNumber,
                             data |-> mem[resetFrameBuffers]])
  /\ Release(resetFrameBuffers)
  /\ resetWorker' = "relock"
  /\ UNCHANGED <<alive, control, resetErrorStats, resetSubFrames,
                 resetFrameBuffers, processResetFrameNumber, resetIo, resetPkt,
                 resetTarget, resetNet, closed>>

-----------------------------------------------------------------------------
Init ==
  /\ alive = TRUE
  /\ expectNewResetFrame = TRUE
  /\ resetFrameNumber = 0
  /\ resetChecks = {}
  /\ resetErrorStats = NoErrors
  /\ mem = <<BlankBank>>
  /\ resetSubFrames = 1
  /\ resetFrameBuffers = NoBank
  /\ processResetFrameNumber = 0
  /\ resetFrameReady = 0
  /\ resetFrameMap = <<>>
  /\ freeBuffers = <<>>
  /\ resetIo = "idle"
  /\ resetPkt = [frame |-> 0, slot |-> 1]
  /\ resetTarget = 1
  /\ resetWorker = "relock"
  /\ resetNet = [packets |-> 0, last |-> 0, wakeups |-> 0]
  /\ closed = <<>>
  /\ filed = <<>>

PacketReceived(p) ==
  FirstPacket(p) \/ LatePacket(p) \/ FramePacket(p) \/ EarlyPacket(p)

IoStep     == CopyPacket \/ PublishNumber \/ NotifyFull \/ NotifyPart
WorkerStep == WorkerWait \/ WorkerLock \/ ExchangeBuffers \/ FileFrame

Next ==
  \/ \E p \in Packets : PacketReceived(p)
  \/ IoStep
  \/ SpuriousWakeup
  \/ WorkerStep

Spec == Init /\ [][Next]_vars

-----------------------------------------------------------------------------
(* Properties *)

(* The pools are common to both paths: a bank may hold image packets too.  *)
Tags == Frames \cup {ResetTag(f) : f \in Frames} \cup {Blank}
FrameValues == [frame : Frames, data : [Slots -> Tags]]

TypeOK ==
  /\ alive \in BOOLEAN
  /\ expectNewResetFrame \in BOOLEAN
  /\ resetFrameNumber \in Frames
  /\ resetChecks \in SUBSET Slots
  /\ resetErrorStats \in ErrorCounts
  /\ mem \in Seq([Slots -> Tags])
  /\ resetSubFrames \in 1 .. Len(mem)
  /\ resetFrameBuffers \in 0 .. Len(mem)
  /\ resetTarget \in 1 .. Len(mem)
  /\ processResetFrameNumber \in Frames
  /\ resetFrameReady \in Frames
  /\ DOMAIN resetFrameMap \in SUBSET Frames
  /\ \A f \in DOMAIN resetFrameMap : resetFrameMap[f] \in [Slots -> Tags]
  /\ freeBuffers \in Seq(1 .. Len(mem))
  /\ resetIo \in {"idle", "copy", "full", "part", "fullSet", "partSet"}
  /\ resetPkt \in Packets
  /\ resetWorker \in {"relock", "waiting", "woken", "locked", "copying"}
  /\ resetNet \in [packets : Nat, last : Nat, wakeups : Nat]
  /\ closed \in Seq(FrameValues)
  /\ filed \in Seq(FrameValues)

(* However late or often the reset thread runs, it never takes a bank that *)
(* is free or that the io thread goes on filling: unlike the image path,   *)
(* the bank it releases is one it took itself, once.                       *)
NoSharedBank ==
  /\ ~IsFree(resetSubFrames) /\ FreeOnce
  /\ resetWorker = "copying" =>
       resetFrameBuffers # resetSubFrames /\ ~IsFree(resetFrameBuffers)

(* The reset thread files each closed reset frame exactly once, in order,  *)
(* with the data it was closed with.                                       *)
Delivery == INSTANCE FrameDelivery WITH handed <- closed, delivered <- filed
FilesEachOnce == Delivery!Spec

(* Every reset frame closed is filed, unless the process ends before.      *)
FilesEachEventually == closed # filed ~> closed = filed \/ ~alive

=============================================================================
