--------------------------- MODULE TemporalFrames ---------------------------
(***************************************************************************)
(* The image path of PercivalServer in temporal mode: the receiver's io    *)
(* thread stores packets in the sub-frame buffers, and when a frame is     *)
(* complete, or a packet of a later frame arrives first, swaps the buffers *)
(* under frameAccess_ and notifies the worker thread, which processes      *)
(* whatever the shared pointers name when it gets the lock and calls the   *)
(* client back.                                                            *)
(*                                                                         *)
(* The buffers are the banks of SubFrameBanks, one slot per packet; here   *)
(* a slot holds the number of the frame the packet carried.                *)
(* frameAccess_ is held by the io thread during SwapBuffers only (one      *)
(* step) and by the worker exactly while worker = "holding".               *)
(***************************************************************************)
EXTENDS TemporalPackets

CONSTANT MaxTimeouts  (* Bound: watchdog timeouts.                         *)

ASSUME TimeoutsAssumption == MaxTimeouts \in Nat

VARIABLES
  alive,              (* the process has not been terminated               *)
  expectNewFrame,     (* expectNewFrame_                                   *)
  frameNumber,        (* frameNumber_                                      *)
  checks,             (* the slots flagged in checker_                     *)
  errorStats,         (* errorStats_                                       *)
  subFrames,          (* subFrames_[0..7]: the bank packets are stored in  *)
  subFrameBuffers,    (* subFrameBuffers_[0..7]: the bank handed over      *)
  processFrameNumber, (* processFrameNumber_                               *)
  io,                 (* where the io thread is in the packet handler      *)
  pkt,                (* the packet it is handling                         *)
  worker,             (* where the frame processing thread is              *)
  net,                (* environment: arrivals, timeouts, wake-ups so far  *)
  handed,             (* history: the frames closed                        *)
  delivered           (* history: the frames given to the callback         *)

bufferVars == <<subFrames, subFrameBuffers, processFrameNumber, freeBuffers, mem>>
history    == <<handed, delivered>>
vars == <<alive, expectNewFrame, frameNumber, checks, errorStats, bufferVars,
          io, pkt, worker, net, history>>

-----------------------------------------------------------------------------
(* The io thread *)

(* Flag the packet, copy it to its place, and see if the frame is full. *)
StorePacket(p) ==
  /\ errorStats' = Counted(errorStats, checks, p)
  /\ mem' = [mem EXCEPT ![subFrames][p.slot] = p.frame]
  /\ IF checkAll(checks \cup {p.slot})
       THEN checks' = {} /\ io' = "full"
       ELSE checks' = checks \cup {p.slot} /\ io' = "idle"

(* The packet would close a frame: its own, or the one it supersedes. *)
ClosesFrame(p) ==
  IF expectNewFrame
    THEN checkAll(checks \cup {p.slot})
    ELSE \/ p.frame > frameNumber
         \/ p.frame = frameNumber /\ checkAll(checks \cup {p.slot})

(* The network delivers a packet while the io thread waits for one. *)
Arrival(p) ==
  /\ alive /\ io = "idle"
  /\ net.packets < MaxPackets
  /\ Ordered => Position(p) > net.last
  /\ KeepsUp /\ ClosesFrame(p) => worker = "waiting"
  /\ net' = [net EXCEPT !.packets = @ + 1, !.last = Position(p)]

(* temporalFramePacketReceived(), up to the first lock it takes if any. *)
FirstPacket(p) ==
  /\ Arrival(p)
  /\ expectNewFrame
  /\ frameNumber' = p.frame
  /\ expectNewFrame' = FALSE
  /\ StorePacket(p)
  /\ UNCHANGED <<alive, subFrames, subFrameBuffers, processFrameNumber,
                 freeBuffers, pkt, worker, history>>

LatePacket(p) ==
  /\ Arrival(p)
  /\ ~expectNewFrame /\ p.frame < frameNumber
  /\ errorStats' = [errorStats EXCEPT !.late = @ + 1]
  /\ UNCHANGED <<alive, expectNewFrame, frameNumber, checks, bufferVars, io,
                 pkt, worker, history>>

FramePacket(p) ==
  /\ Arrival(p)
  /\ ~expectNewFrame /\ p.frame = frameNumber
  /\ StorePacket(p)
  /\ UNCHANGED <<alive, expectNewFrame, frameNumber, subFrames, subFrameBuffers,
                 processFrameNumber, freeBuffers, pkt, worker, history>>

(* A packet of a later frame: count it, report, raise(SIGINT), resetAll(). *)
EarlyPacket(p) ==
  /\ Arrival(p)
  /\ ~expectNewFrame /\ p.frame > frameNumber
  /\ errorStats' = [errorStats EXCEPT !.missing = @ + 1]
  /\ alive' = ~SigintFatal
  /\ checks' = {}
  /\ io' = "part"
  /\ pkt' = p
  /\ UNCHANGED <<expectNewFrame, frameNumber, bufferVars, worker, history>>

(* Under frameAccess_: hand the bank over and take another to store in. *)
SwapBuffers ==
  /\ alive /\ io \in {"full", "part"}
  /\ worker # "holding"
  /\ handed' = Append(handed, [frame |-> frameNumber, data |-> mem[subFrames]])
  /\ subFrameBuffers' = subFrames
  /\ \E bank \in 1 .. Len(mem) + 1 : Allocate(bank) /\ subFrames' = bank
  /\ processFrameNumber' = frameNumber
  /\ io' = IF io = "full" THEN "fullSwapped" ELSE "partSwapped"
  /\ UNCHANGED <<alive, expectNewFrame, frameNumber, checks, errorStats, pkt,
                 worker, net, delivered>>

NotifyNobody == UNCHANGED worker  (* mutant *)

(* frameCondition_.notify_one(): lost unless the worker is waiting. *)
NotifyOne == worker' = IF worker = "waiting" THEN "woken" ELSE worker

NotifyFull ==
  /\ alive /\ io = "fullSwapped"
  /\ NotifyOne
  /\ expectNewFrame' = TRUE
  /\ io' = "idle"
  /\ UNCHANGED <<alive, frameNumber, checks, errorStats, bufferVars, pkt, net,
                 history>>

(* After the incomplete frame, the packet in hand opens its own frame. *)
NotifyPart ==
  /\ alive /\ io = "partSwapped"
  /\ NotifyOne
  /\ frameNumber' = pkt.frame
  /\ StorePacket(pkt)
  /\ UNCHANGED <<alive, expectNewFrame, subFrames, subFrameBuffers,
                 processFrameNumber, freeBuffers, pkt, net, history>>

(* timeout(): the watchdog, also on the io thread, saw no packet. *)
Timeout ==
  /\ alive /\ io = "idle"
  /\ net.timeouts < MaxTimeouts
  /\ net' = [net EXCEPT !.timeouts = @ + 1]
  /\ expectNewFrame' = TRUE
  /\ checks' = {}
  /\ frameNumber' = 0
  /\ UNCHANGED <<alive, errorStats, bufferVars, io, pkt, worker, history>>

-----------------------------------------------------------------------------
(* The worker: processTemporalFrame() *)

(* Lock frameAccess_ and wait, which releases it. *)
WorkerWait ==
  /\ alive /\ worker = "relock"
  /\ worker' = "waiting"
  /\ UNCHANGED <<alive, expectNewFrame, frameNumber, checks, errorStats,
                 bufferVars, io, pkt, net, history>>

(* The wait may end without a notification; the code has no predicate. *)
SpuriousWakeup ==
  /\ alive /\ worker = "waiting"
  /\ net.wakeups < MaxSpurious
  /\ net' = [net EXCEPT !.wakeups = @ + 1]
  /\ worker' = "woken"
  /\ UNCHANGED <<alive, expectNewFrame, frameNumber, checks, errorStats,
                 bufferVars, io, pkt, history>>

(* The wait returns with the lock held. *)
WorkerLock ==
  /\ alive /\ worker = "woken"
  /\ worker' = "holding"
  /\ UNCHANGED <<alive, expectNewFrame, frameNumber, checks, errorStats,
                 bufferVars, io, pkt, net, history>>

(* Mutant: the bank is released before it is unscrambled. *)
ProcessFrameReleasesFirst ==
  /\ alive /\ worker = "holding" /\ subFrameBuffers # NoBank
  /\ Release(subFrameBuffers)
  /\ delivered' = Append(delivered, [frame |-> processFrameNumber, data |-> BlankBank])
  /\ worker' = "relock"
  /\ UNCHANGED <<alive, expectNewFrame, frameNumber, checks, errorStats,
                 subFrames, subFrameBuffers, processFrameNumber, io, pkt, net,
                 handed>>

(* Mutant: the number is read from the frame being collected. *)
ProcessFrameReadsCurrent ==
  /\ alive /\ worker = "holding" /\ subFrameBuffers # NoBank
  /\ Release(subFrameBuffers)
  /\ delivered' = Append(delivered, [frame |-> frameNumber, data |-> mem[subFrameBuffers]])
  /\ worker' = "relock"
  /\ UNCHANGED <<alive, expectNewFrame, frameNumber, checks, errorStats,
                 subFrames, subFrameBuffers, processFrameNumber, io, pkt, net,
                 handed>>

(* Unscramble the bank, release it, deliver the frame, unlock. *)
ProcessFrame ==
  /\ alive /\ worker = "holding"
  /\ subFrameBuffers # NoBank
  /\ delivered' = Append(delivered, [frame |-> processFrameNumber,
                                     data  |-> mem[subFrameBuffers]])
  /\ Release(subFrameBuffers)
  /\ worker' = "relock"
  /\ UNCHANGED <<alive, expectNewFrame, frameNumber, checks, errorStats,
                 subFrames, subFrameBuffers, processFrameNumber, io, pkt, net,
                 handed>>

(* Woken before any frame was closed: the pointers are uninitialised. *)
ProcessNothing ==
  /\ alive /\ worker = "holding"
  /\ subFrameBuffers = NoBank
  /\ alive' = FALSE
  /\ UNCHANGED <<expectNewFrame, frameNumber, checks, errorStats, bufferVars,
                 io, pkt, worker, net, history>>

-----------------------------------------------------------------------------
(* After startAcquisition(); the worker runs since the constructor. *)
Init ==
  /\ alive = TRUE
  /\ expectNewFrame = TRUE
  /\ frameNumber = 0
  /\ checks = {}
  /\ errorStats = NoErrors
  /\ mem = <<BlankBank>>
  /\ subFrames = 1
  /\ subFrameBuffers = NoBank
  /\ processFrameNumber = 0
  /\ freeBuffers = <<>>
  /\ io = "idle"
  /\ pkt = [frame |-> 0, slot |-> 1]
  /\ worker = "relock"
  /\ net = [packets |-> 0, last |-> 0, timeouts |-> 0, wakeups |-> 0]
  /\ handed = <<>>
  /\ delivered = <<>>

PacketReceived(p) ==
  FirstPacket(p) \/ LatePacket(p) \/ FramePacket(p) \/ EarlyPacket(p)

IoStep     == SwapBuffers \/ NotifyFull \/ NotifyPart
WorkerStep == WorkerWait \/ WorkerLock \/ ProcessFrame \/ ProcessNothing

Next ==
  \/ \E p \in Packets : PacketReceived(p)
  \/ Timeout
  \/ IoStep
  \/ SpuriousWakeup
  \/ WorkerStep

Spec == Init /\ [][Next]_vars

(* Both threads are scheduled and the lock is handed to a thread that      *)
(* keeps asking; nothing makes a packet, a timeout or a wake-up happen.    *)
Fairness == WF_vars(IoStep) /\ WF_vars(WorkerStep)
FairSpec == Spec /\ Fairness

-----------------------------------------------------------------------------
(* Properties *)

Marks == Frames \cup {Blank}
FrameValues == [frame : Frames, data : [Slots -> Marks]]

TypeOK ==
  /\ alive \in BOOLEAN
  /\ expectNewFrame \in BOOLEAN
  /\ frameNumber \in Frames
  /\ checks \in SUBSET Slots
  /\ errorStats \in ErrorCounts
  /\ mem \in Seq([Slots -> Marks])
  /\ subFrames \in 1 .. Len(mem)
  /\ subFrameBuffers \in 0 .. Len(mem)
  /\ processFrameNumber \in Frames
  /\ freeBuffers \in Seq(1 .. Len(mem))
  /\ io \in {"idle", "full", "part", "fullSwapped", "partSwapped"}
  /\ pkt \in Packets
  /\ worker \in {"relock", "waiting", "woken", "holding"}
  /\ net \in [packets : Nat, last : Nat, timeouts : Nat, wakeups : Nat]
  /\ handed \in Seq(FrameValues)
  /\ delivered \in Seq(FrameValues)

(* A frame closed as complete holds, in every slot, a packet of that very  *)
(* frame: nothing left by an abandoned frame, a late packet or another     *)
(* user of the buffer is taken for it.                                     *)
CompleteIsOwn ==
  io = "full" => \A s \in Slots : mem[subFrames][s] = frameNumber

(* No buffer has two users: the bank being filled, the bank the worker     *)
(* owns and the free banks are all different.                              *)
WorkerOwns == io \in {"fullSwapped", "partSwapped"} \/ worker \in {"woken", "holding"}
NoSharedBank ==
  /\ ~IsFree(subFrames)
  /\ WorkerOwns => subFrameBuffers # subFrames /\ ~IsFree(subFrameBuffers)
  /\ FreeOnce

(* The server delivers what it closed, once, in order and unchanged. *)
Delivery == INSTANCE FrameDelivery
DeliversEachOnce == Delivery!Spec
DeliversEachEventually == Delivery!FairSpec

(* Frames reach the client in the order of their numbers when the network  *)
(* keeps the order, whatever is lost, however late the worker runs and     *)
(* however often it wakes without a cause.                                 *)
DeliveredInOrder ==
  \A i, j \in DOMAIN delivered :
    i < j => delivered[i].frame <= delivered[j].frame

(* A frame closed incomplete shows its own packets and blanks only: the    *)
(* buffers it was collected in held nothing of an earlier frame.  This     *)
(* holds until a watchdog timeout, which resets the flags of the frame     *)
(* being collected but leaves its packets in the buffers.                  *)
PartialIsOwn ==
  \A i \in DOMAIN handed : \A s \in Slots :
    handed[i].data[s] \in {handed[i].frame, Blank}
PartialIsOwnUnlessTimedOut == net.timeouts = 0 => PartialIsOwn

=============================================================================
