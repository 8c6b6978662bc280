----------------------- MODULE TemporalServer_proofs ------------------------
(***************************************************************************)
(* Theorems about temporal mode as a whole, for every number of slots,     *)
(* frame numbers, packets and timeouts, and for the image and the reset    *)
(* path sharing one buffer pool. Types are correct, no filing is corrected *)
(* with twice and the buffers of the two threads of the reset path stay    *)
(* apart, whatever the threads do. That no bank has two users and images   *)
(* are delivered as they were handed over needs workers that keep up and   *)
(* are not woken spuriously (KeepingUp). What says which reset frame is    *)
(* filed, or an image corrected with, needs also that the watchdog ends    *)
(* the program at a gap and that no reset packet comes between the closing *)
(* of a reset frame and the exchange of its buffers (Fatal); and that the  *)
(* correction finds it needs packets in order (Ordered).                   *)
(***************************************************************************)
EXTENDS TemporalServer, SubFrameBanks_proofs, FiniteSetTheorems

(* What a slot of a buffer can say: the image frame or the reset frame a   *)
(* payload is from, or nothing.                                            *)
Tags == Frames \cup {Reset!ResetTag(f) : f \in Frames} \cup {Blank}
Records == [frame : Frames, data : [Slots -> Tags]]
Corrections == [frame : Frames, reset : [Slots -> Tags], closings : Nat]
Nets == [packets : Nat, last : Nat, timeouts : Nat, wakeups : Nat]
ResetNets == [packets : Nat, last : Nat, wakeups : Nat]
Busy == {"idle", "full", "part", "fullSwapped", "partSwapped"}

(* The two paths mean the same by the same words.                          *)
LEMMA SameNames ==
  /\ Image!Slots = Slots /\ Reset!Slots = Slots
  /\ Image!Frames = Frames /\ Reset!Frames = Frames
  /\ Image!Packets = Packets /\ Reset!Packets = Packets
  /\ Image!ErrorCounts = ErrorCounts /\ Reset!ErrorCounts = ErrorCounts
  /\ Image!NoBank = NoBank /\ Reset!Blank = Blank
  /\ Reset!Tags = Tags /\ Reset!FrameValues = Records
BY DEF Image!Slots, Slots, Reset!Slots, Image!Frames, Frames, Reset!Frames,
   Image!Packets, Packets, Reset!Packets, Image!ErrorCounts, ErrorCounts,
   Reset!ErrorCounts, Image!NoBank, NoBank, Reset!Blank, Blank, Reset!Tags, Tags,
   Reset!FrameValues, Records

(* and work on the same pool of buffers.                                   *)
LEMMA SamePool ==
  /\ \A b : Image!Allocate(b) <=> Allocate(b)
  /\ \A b : Reset!Allocate(b) <=> Allocate(b)
  /\ \A b : Image!Release(b) <=> Release(b)
  /\ \A b : Reset!Release(b) <=> Release(b)
  /\ \A b : Image!IsFree(b) <=> IsFree(b)
  /\ \A b : Reset!IsFree(b) <=> IsFree(b)
  /\ Image!FreeOnce <=> FreeOnce
  /\ Reset!FreeOnce <=> FreeOnce
BY DEF Image!Allocate, Allocate, Reset!Allocate, Image!Release, Release,
   Reset!Release, Image!IsFree, IsFree, Reset!IsFree, Image!FreeOnce,
   Reset!FreeOnce, FreeOnce, Image!Last, Image!Front, Reset!Last, Reset!Front, Last,
   Front, Image!BlankBank, Reset!BlankBank, BlankBank, Image!Blank, Reset!Blank,
   Blank, Image!Slots, Reset!Slots, Slots

-----------------------------------------------------------------------------
(* The types, in the order of the variables of TemporalServer, for both    *)
(* paths at once; and what the shared state is used for: one io thread in  *)
(* one handler, a copy of a bank there is.                                 *)
PoolTypes ==
  /\ PoolOK(Tags)
  /\ subFrames \in 1 .. Len(mem) /\ subFrameBuffers \in 0 .. Len(mem)
  /\ resetSubFrames \in 1 .. Len(mem) /\ resetFrameBuffers \in 0 .. Len(mem)
  /\ resetTarget \in 1 .. Len(mem)

ImageTypes ==
  /\ expectNewFrame \in BOOLEAN
  /\ frameNumber \in Frames
  /\ checks \in SUBSET Slots
  /\ errorStats \in ErrorCounts
  /\ processFrameNumber \in Frames
  /\ io \in {"idle", "full", "part", "fullSwapped", "partSwapped"}
  /\ pkt \in Packets
  /\ worker \in {"relock", "waiting", "woken", "holding"}
  /\ net \in Nets

ResetTypes ==
  /\ expectNewResetFrame \in BOOLEAN
  /\ resetFrameNumber \in Frames
  /\ resetChecks \in SUBSET Slots
  /\ resetErrorStats \in ErrorCounts
  /\ processResetFrameNumber \in Frames
  /\ resetFrameReady \in Frames
  /\ resetIo \in {"idle", "copy", "full", "part", "fullSet", "partSet"}
  /\ resetPkt \in Packets
  /\ resetWorker \in {"relock", "waiting", "woken", "locked", "copying"}
  /\ resetNet \in ResetNets

LogTypes ==
  /\ handed \in Seq(Records) /\ delivered \in Seq(Records)
  /\ closed \in Seq(Records) /\ filed \in Seq(Records)
  /\ corrected \in Seq(Corrections)
  /\ DOMAIN resetFrameMap \in SUBSET Frames
  /\ \A f \in DOMAIN resetFrameMap : resetFrameMap[f] \in [Slots -> Tags]
  /\ resetFramesMissing \in 0 .. Len(delivered)
  /\ Len(corrected) = Len(delivered)

Types ==
  /\ alive \in BOOLEAN
  /\ io = "idle" \/ resetIo = "idle"
  /\ resetWorker = "copying" => resetFrameBuffers # NoBank
  /\ PoolTypes /\ ImageTypes /\ ResetTypes /\ LogTypes

(* Facts about the constants and the logs that the steps below use.        *)
LEMMA Basics ==
  /\ Frames \subseteq Nat /\ 0 \in Frames /\ Frames \subseteq Tags
  /\ Slots \subseteq Nat /\ 1 \in Slots /\ 2 \in Slots /\ Blank \in Tags
  /\ BlankBank \in [Slots -> Tags]
  /\ \A f \in Frames : Reset!ResetTag(f) \in Tags /\ Reset!ResetTag(f) # Blank
  /\ NumSlots \in Nat /\ MaxFrame \in Nat
<1>1. \A f \in Frames : Reset!ResetTag(f) = MaxFrame + 1 + f
  BY DEF Reset!ResetTag
<1>2. /\ Frames \subseteq Nat /\ 0 \in Frames /\ Frames \subseteq Tags
      /\ Slots \subseteq Nat /\ 1 \in Slots /\ 2 \in Slots /\ Blank \in Tags
      /\ NumSlots \in Nat /\ MaxFrame \in Nat
      /\ \A f \in Frames : Reset!ResetTag(f) \in Tags
  BY BoundsAssumption, SlotsAssumption DEF Tags, Frames, Slots
<1>3. \A f \in Frames : Reset!ResetTag(f) # Blank
  BY <1>1, BoundsAssumption DEF Frames, Blank
<1>4. BlankBank \in [Slots -> Tags]
  BY <1>2, BlankBankIsTyped
<1> QED
  BY <1>2, <1>3, <1>4

(* Counting errors, packets and timeouts keeps the counters typed.         *)
LEMMA CountsTyped ==
  ASSUME NEW stats \in ErrorCounts
  PROVE  /\ [stats EXCEPT !.late = @ + 1] \in ErrorCounts
         /\ [stats EXCEPT !.missing = @ + 1] \in ErrorCounts
         /\ [stats EXCEPT !.duplicate = @ + 1] \in ErrorCounts
BY DEF ErrorCounts

LEMMA NetsTyped ==
  ASSUME NEW n \in Nets, NEW position \in Nat
  PROVE  /\ [n EXCEPT !.packets = @ + 1, !.last = position] \in Nets
         /\ [n EXCEPT !.packets = @ + 1, !.last = position].last = position
         /\ [n EXCEPT !.timeouts = @ + 1] \in Nets
         /\ [n EXCEPT !.timeouts = @ + 1].last = n.last
         /\ [n EXCEPT !.wakeups = @ + 1] \in Nets
         /\ [n EXCEPT !.wakeups = @ + 1].last = n.last
<1> USE DEF Nets
<1>1. /\ n.packets \in Nat /\ n.last \in Nat /\ n.timeouts \in Nat /\ n.wakeups \in Nat
      /\ n.packets + 1 \in Nat /\ n.timeouts + 1 \in Nat /\ n.wakeups + 1 \in Nat
  OBVIOUS
<1>2. /\ [n EXCEPT !.packets = @ + 1, !.last = position] \in Nets
      /\ [n EXCEPT !.packets = @ + 1, !.last = position].last = position
  BY <1>1, Zenon
<1>3. [n EXCEPT !.timeouts = n.timeouts + 1] =
        [packets |-> n.packets, last |-> n.last,
         timeouts |-> n.timeouts + 1, wakeups |-> n.wakeups]
  OBVIOUS
<1>4. [n EXCEPT !.wakeups = n.wakeups + 1] =
        [packets |-> n.packets, last |-> n.last,
         timeouts |-> n.timeouts, wakeups |-> n.wakeups + 1]
  OBVIOUS
<1> QED
  BY <1>1, <1>2, <1>3, <1>4

LEMMA ResetNetsTyped ==
  ASSUME NEW n \in ResetNets, NEW position \in Nat
  PROVE  /\ [n EXCEPT !.packets = @ + 1, !.last = position] \in ResetNets
         /\ [n EXCEPT !.wakeups = @ + 1] \in ResetNets
<1> USE DEF ResetNets
<1>1. /\ n.packets \in Nat /\ n.last \in Nat /\ n.wakeups \in Nat
      /\ n.packets + 1 \in Nat /\ n.wakeups + 1 \in Nat
  OBVIOUS
<1>2. [n EXCEPT !.packets = @ + 1, !.last = position] \in ResetNets
  BY <1>1, Zenon
<1>3. [n EXCEPT !.wakeups = n.wakeups + 1] =
        [packets |-> n.packets, last |-> n.last, wakeups |-> n.wakeups + 1]
  OBVIOUS
<1> QED
  BY <1>1, <1>2, <1>3

LEMMA PositionTyped ==
  ASSUME NEW p \in Packets
  PROVE  /\ p.frame \in Frames /\ p.frame \in Nat /\ p.slot \in Slots /\ p.slot \in Nat
         /\ Position(p) = p.frame * NumSlots + p.slot
         /\ p.frame * NumSlots \in Nat /\ Position(p) \in Nat
<1>1. p.frame \in Frames /\ p.frame \in Nat /\ p.slot \in Slots /\ p.slot \in Nat
  BY Basics, Zenon DEF Packets
<1>2. p.frame * NumSlots \in Nat
  BY <1>1, Basics
<1> QED
  BY <1>1, <1>2 DEF Position

(* A mark stored in a bank leaves the pool and every other bank alone.     *)
LEMMA MarkStored ==
  ASSUME PoolOK(Tags), NEW b \in 1 .. Len(mem), NEW s \in Slots, NEW m \in Tags,
         mem' = [mem EXCEPT ![b][s] = m], freeBuffers' = freeBuffers
  PROVE  /\ PoolOK(Tags)'
         /\ Len(mem') = Len(mem) /\ Len(mem) \in Nat
         /\ mem'[b] = [mem[b] EXCEPT ![s] = m]
         /\ \A c \in 1 .. Len(mem) : c # b => mem'[c] = mem[c]
         /\ mem[b] \in [Slots -> Tags]
<1> DEFINE bank == [mem[b] EXCEPT ![s] = m]
<1>1. mem \in Seq([Slots -> Tags]) /\ Len(mem) \in Nat /\ DOMAIN mem = 1 .. Len(mem)
  BY LenProperties DEF PoolOK
<1>2. mem[b] \in [Slots -> Tags]
  BY <1>1, ElementOfSeq
<1>3. bank \in [Slots -> Tags]
  BY <1>2
<1>4. mem' = [mem EXCEPT ![b] = bank]
  OBVIOUS
<1> HIDE DEF bank
<1>5. /\ mem' \in Seq([Slots -> Tags]) /\ Len(mem') = Len(mem)
      /\ mem'[b] = bank
      /\ \A c \in 1 .. Len(mem) : c # b => mem'[c] = mem[c]
  BY <1>1, <1>3, <1>4, ExceptSeq
<1>6. PoolOK(Tags)'
  BY <1>5 DEF PoolOK
<1> USE DEF bank
<1> QED
  BY <1>1, <1>2, <1>5, <1>6

-----------------------------------------------------------------------------
USE SameNames

(* Storing a packet of an image keeps the pool.                            *)
LEMMA ImageStored ==
  ASSUME PoolTypes, ImageTypes, NEW p \in Packets, Image!StorePacket(p),
         freeBuffers' = freeBuffers
  PROVE  /\ PoolOK(Tags)' /\ Len(mem') = Len(mem)
         /\ \A b \in 1 .. Len(mem) : b # subFrames => mem'[b] = mem[b]
         /\ errorStats' \in ErrorCounts
         /\ \/ io' = "full" /\ checks' = {} /\ checks \cup {p.slot} = Slots
            \/ io' = "idle" /\ checks' = checks \cup {p.slot}
         /\ checks' \in SUBSET Slots
<1>1. /\ p.slot \in Slots /\ p.frame \in Tags
      /\ PoolOK(Tags) /\ subFrames \in 1 .. Len(mem)
      /\ mem' = [mem EXCEPT ![subFrames][p.slot] = p.frame]
  BY PositionTyped, Basics, Zenon DEF PoolTypes, Image!StorePacket
<1>2. /\ PoolOK(Tags)' /\ Len(mem') = Len(mem)
      /\ \A b \in 1 .. Len(mem) : b # subFrames => mem'[b] = mem[b]
  BY <1>1, MarkStored, Zenon
<1>3. errorStats' \in ErrorCounts
  BY CountsTyped, Zenon DEF Image!StorePacket, Image!Counted, ImageTypes
<1>4. /\ \/ io' = "full" /\ checks' = {} /\ checks \cup {p.slot} = Slots
         \/ io' = "idle" /\ checks' = checks \cup {p.slot}
      /\ checks' \in SUBSET Slots
  BY <1>1 DEF Image!StorePacket, Image!checkAll, ImageTypes
<1> QED
  BY <1>2, <1>3, <1>4

(* A packet of a reset frame is flagged in its place.                      *)
LEMMA ResetFlagged ==
  ASSUME PoolTypes, ResetTypes, NEW p \in Packets, Reset!FlagPacket(p)
  PROVE  /\ resetErrorStats' \in ErrorCounts
         /\ resetChecks' \in SUBSET Slots /\ resetChecks' = resetChecks \cup {p.slot}
         /\ resetTarget' = resetSubFrames /\ resetPkt' = p /\ resetIo' = "copy"
BY PositionTyped, CountsTyped, Zenon DEF Reset!FlagPacket, Reset!Counted, ResetTypes

(* What the arrival of an image packet leaves alone. *)
LEMMA ImagePacketTypes ==
  ASSUME Types, NEW p \in Packets, ImagePacket(p)
  PROVE  Types'
<1> USE DEF Types
<1>1. /\ UNCHANGED <<resetVars, resetFrameMap, resetFramesMissing, corrected>>
      /\ resetIo = "idle" /\ Image!PacketReceived(p)
  BY DEF ImagePacket
<1>2. ResetTypes'
  BY <1>1 DEF ResetTypes, resetVars
<1>3. Image!Arrival(p)
  BY <1>1 DEF Image!PacketReceived, Image!FirstPacket, Image!LatePacket,
     Image!FramePacket, Image!EarlyPacket
<1>4. net' \in Nets
  <2>1. net' = [net EXCEPT !.packets = @ + 1, !.last = Position(p)]
    BY <1>3 DEF Image!Arrival, Image!Position, Position
  <2> QED
    BY <2>1, NetsTyped, PositionTyped, Zenon DEF ImageTypes
<1>5. UNCHANGED <<freeBuffers, subFrames, subFrameBuffers, processFrameNumber,
                  worker, handed, delivered>>
  BY <1>1 DEF Image!PacketReceived, Image!FirstPacket, Image!LatePacket,
     Image!FramePacket, Image!EarlyPacket, Image!bufferVars, Image!history
<1>6. LogTypes'
  BY <1>1, <1>5 DEF LogTypes, resetVars
<1>7. /\ PoolOK(Tags)' /\ Len(mem') = Len(mem) /\ alive' \in BOOLEAN
      /\ errorStats' \in ErrorCounts /\ checks' \in SUBSET Slots
      /\ frameNumber' \in Frames /\ pkt' \in Packets
      /\ expectNewFrame' \in BOOLEAN
      /\ io' \in {"idle", "full", "part", "fullSwapped", "partSwapped"}
  <2>1. CASE Image!FirstPacket(p)
    BY <2>1, <1>5, ImageStored, PositionTyped, Zenon DEF Image!FirstPacket, ImageTypes
  <2>2. CASE Image!LatePacket(p)
    BY <2>2, <1>5, CountsTyped, Zenon DEF Image!LatePacket, ImageTypes, Image!bufferVars,
       PoolTypes, PoolOK
  <2>3. CASE Image!FramePacket(p)
    BY <2>3, <1>5, ImageStored, PositionTyped DEF Image!FramePacket, ImageTypes
  <2>4. CASE Image!EarlyPacket(p)
    <3>1. alive' \in BOOLEAN
      BY <2>4 DEF Image!EarlyPacket
    <3> QED
      BY <2>4, <3>1, CountsTyped, Zenon DEF Image!EarlyPacket, ImageTypes,
         Image!bufferVars, PoolTypes, PoolOK
  <2> QED
    BY <1>1, <2>1, <2>2, <2>3, <2>4 DEF Image!PacketReceived
<1> QED
  BY <1>1, <1>2, <1>4, <1>5, <1>6, <1>7 DEF PoolTypes, ImageTypes, resetVars

(* A bank with its number is a frame that can be handed over.              *)
LEMMA RecordOfBank ==
  ASSUME PoolTypes, NEW n \in Frames, NEW b \in 1 .. Len(mem)
  PROVE  /\ mem[b] \in [Slots -> Tags]
         /\ [frame |-> n, data |-> mem[b]] \in Records
<1>1. mem[b] \in [Slots -> Tags]
  BY ElementOfSeq, LenProperties DEF PoolTypes, PoolOK
<1> QED
  BY <1>1 DEF Records

LEMMA ImageIoTypes ==
  ASSUME Types, ImageIoStep
  PROVE  Types'
<1> USE DEF Types
<1>1. /\ UNCHANGED <<resetVars, resetFrameMap, ownVars>>
      /\ io # "idle" /\ resetIo = "idle"
  BY DEF ImageIoStep, Image!IoStep, Image!SwapBuffers, Image!NotifyFull,
     Image!NotifyPart
<1>2. ResetTypes'
  BY <1>1 DEF ResetTypes, resetVars
<1>3. CASE Image!SwapBuffers
  <2>1. PICK bank \in 1 .. Len(mem) + 1 : Image!Allocate(bank) /\ subFrames' = bank
    BY <1>3 DEF Image!SwapBuffers
  <2>2. /\ PoolOK(Tags)' /\ Len(mem') \in Nat /\ Len(mem') >= Len(mem) /\ Len(mem) \in Nat
        /\ bank \in 1 .. Len(mem')
    BY <2>1, SamePool, Basics, AllocateKeepsPool DEF PoolTypes
  <2>3. /\ subFrameBuffers' \in 0 .. Len(mem')
        /\ resetSubFrames' \in 1 .. Len(mem')
        /\ resetFrameBuffers' \in 0 .. Len(mem')
        /\ resetTarget' \in 1 .. Len(mem')
    <3>1. /\ subFrameBuffers' = subFrames /\ resetSubFrames' = resetSubFrames
          /\ resetFrameBuffers' = resetFrameBuffers /\ resetTarget' = resetTarget
      BY <1>1, <1>3 DEF Image!SwapBuffers, resetVars
    <3> QED
      BY <2>2, <3>1 DEF PoolTypes
  <2>4. handed' \in Seq(Records)
    <3>1. [frame |-> frameNumber, data |-> mem[subFrames]] \in Records
      BY RecordOfBank DEF PoolTypes, ImageTypes
    <3> QED
      BY <1>3, <3>1, AppendProperties DEF Image!SwapBuffers, LogTypes
  <2>5. LogTypes'
    BY <1>1, <1>3, <2>4 DEF LogTypes, resetVars, ownVars, Image!SwapBuffers
  <2>6. ImageTypes'
    BY <1>3 DEF ImageTypes, Image!SwapBuffers
  <2>7. PoolTypes'
    BY <2>1, <2>2, <2>3 DEF PoolTypes
  <2> QED
    BY <1>1, <1>2, <1>3, <2>5, <2>6, <2>7 DEF Image!SwapBuffers, resetVars
<1>4. CASE Image!NotifyFull
  <2>1. /\ UNCHANGED <<alive, frameNumber, checks, errorStats, subFrames,
                       subFrameBuffers, processFrameNumber, mem, freeBuffers, pkt,
                       net, handed, delivered>>
        /\ expectNewFrame' = TRUE /\ io' = "idle"
        /\ worker' \in {"relock", "waiting", "woken", "holding"}
    BY <1>4 DEF Image!NotifyFull, Image!NotifyOne, Image!bufferVars, Image!history,
       ImageTypes
  <2> QED
    BY <1>1, <1>2, <2>1, Zenon DEF PoolTypes, PoolOK, LogTypes, ImageTypes, resetVars,
       ownVars
<1>5. CASE Image!NotifyPart
  <2>1. /\ UNCHANGED <<alive, expectNewFrame, subFrames, subFrameBuffers,
                       processFrameNumber, freeBuffers, pkt, net, handed,
                       delivered>>
        /\ Image!StorePacket(pkt) /\ frameNumber' = pkt.frame
        /\ worker' \in {"relock", "waiting", "woken", "holding"}
    BY <1>5 DEF Image!NotifyPart, Image!NotifyOne, Image!history, ImageTypes
  <2>2. /\ PoolOK(Tags)' /\ Len(mem') = Len(mem)
        /\ errorStats' \in ErrorCounts /\ checks' \in SUBSET Slots
        /\ io' \in {"full", "idle"} /\ pkt.frame \in Frames
    BY <2>1, ImageStored, PositionTyped DEF ImageTypes
  <2>3. ImageTypes'
    BY <2>1, <2>2 DEF ImageTypes
  <2>4. PoolTypes'
    BY <1>1, <2>1, <2>2 DEF PoolTypes, resetVars
  <2> QED
    BY <1>1, <1>2, <2>1, <2>3, <2>4 DEF LogTypes, resetVars, ownVars
<1> QED
  BY <1>3, <1>4, <1>5 DEF ImageIoStep, Image!IoStep

LEMMA TimeoutTypes ==
  ASSUME Types, Timeout
  PROVE  Types'
<1> USE DEF Types
<1>1. /\ UNCHANGED <<resetVars, resetFrameMap, resetFramesMissing, corrected>>
      /\ UNCHANGED <<alive, errorStats, subFrames, subFrameBuffers,
                     processFrameNumber, mem, freeBuffers, io, pkt, worker, handed,
                     delivered>>
      /\ expectNewFrame' = TRUE /\ checks' = {} /\ frameNumber' = 0
      /\ net' = [net EXCEPT !.timeouts = @ + 1]
  BY DEF Timeout, Image!Timeout, Image!bufferVars, Image!history
<1>2. net' \in Nets
  BY <1>1, NetsTyped, Zenon DEF ImageTypes
<1>3. ImageTypes'
  BY <1>1, <1>2, Basics DEF ImageTypes
<1>4. ResetTypes' /\ PoolTypes' /\ LogTypes'
  BY <1>1, Zenon DEF PoolTypes, PoolOK, LogTypes, ResetTypes, resetVars
<1> QED
  BY <1>1, <1>3, <1>4 DEF resetVars

LEMMA FrameWorkerTypes ==
  ASSUME Types, FrameWorkerStep
  PROVE  Types'
<1> USE DEF Types
<1>1. /\ UNCHANGED <<resetVars, resetFrameMap, ownVars>>
      /\ UNCHANGED <<expectNewFrame, frameNumber, checks, errorStats, subFrames,
                     subFrameBuffers, processFrameNumber, mem, freeBuffers, io, pkt,
                     handed, delivered>>
      /\ worker' \in {"relock", "waiting", "woken", "holding"}
      /\ alive' \in BOOLEAN
      /\ net' = net \/ net' = [net EXCEPT !.wakeups = @ + 1]
  BY Zenon DEF FrameWorkerStep, Image!WorkerWait, Image!WorkerLock, Image!SpuriousWakeup,
     Image!ProcessNothing, Image!bufferVars, Image!history, ImageTypes
<1>2. net' \in Nets
  BY <1>1, NetsTyped, Zenon DEF ImageTypes
<1>3. ImageTypes'
  BY <1>1, <1>2 DEF ImageTypes
<1>4. ResetTypes' /\ PoolTypes' /\ LogTypes'
  BY <1>1, Zenon DEF PoolTypes, PoolOK, LogTypes, ResetTypes, resetVars, ownVars
<1> QED
  BY <1>1, <1>3, <1>4 DEF resetVars

LEMMA ResetPacketTypes ==
  ASSUME Types, NEW p \in Packets, ResetPacket(p)
  PROVE  Types'
<1> USE DEF Types
<1>1. /\ UNCHANGED <<imageVars, resetFramesMissing, corrected>>
      /\ io = "idle" /\ Reset!PacketReceived(p)
  BY DEF ResetPacket
<1>2. Reset!Arrival(p)
  BY <1>1 DEF Reset!PacketReceived, Reset!FirstPacket, Reset!LatePacket,
     Reset!FramePacket, Reset!EarlyPacket
<1>3. resetNet' \in ResetNets
  <2>1. resetNet' = [resetNet EXCEPT !.packets = @ + 1, !.last = Position(p)]
    BY <1>2 DEF Reset!Arrival, Reset!Position, Position
  <2> QED
    BY <2>1, ResetNetsTyped, PositionTyped, Zenon DEF ResetTypes
<1>4. /\ UNCHANGED <<mem, freeBuffers, resetSubFrames, resetFrameBuffers,
                     processResetFrameNumber, resetFrameReady, resetFrameMap,
                     resetWorker, closed, filed>>
      /\ resetTarget' \in {resetTarget, resetSubFrames}
  BY <1>1 DEF Reset!PacketReceived, Reset!FirstPacket, Reset!LatePacket,
     Reset!FramePacket, Reset!EarlyPacket, Reset!FlagPacket, Reset!banks,
     Reset!result
<1>5. ImageTypes' /\ PoolTypes' /\ LogTypes'
  BY <1>1, <1>4, Zenon DEF ImageTypes, PoolTypes, PoolOK, LogTypes, imageVars
<1>6. /\ alive' \in BOOLEAN
      /\ resetErrorStats' \in ErrorCounts /\ resetChecks' \in SUBSET Slots
      /\ resetFrameNumber' \in Frames /\ resetPkt' \in Packets
      /\ expectNewResetFrame' \in BOOLEAN
      /\ resetIo' \in {"idle", "copy", "full", "part", "fullSet", "partSet"}
  <2>1. CASE Reset!FirstPacket(p)
    BY <2>1, ResetFlagged, PositionTyped, Zenon DEF Reset!FirstPacket, ResetTypes
  <2>2. CASE Reset!LatePacket(p)
    BY <2>2, CountsTyped, Zenon DEF Reset!LatePacket, ResetTypes, Reset!control
  <2>3. CASE Reset!FramePacket(p)
    BY <2>3, ResetFlagged DEF Reset!FramePacket, ResetTypes
  <2>4. CASE Reset!EarlyPacket(p)
    <3>1. alive' \in BOOLEAN
      BY <2>4 DEF Reset!EarlyPacket
    <3> QED
      BY <2>4, <3>1, CountsTyped, Zenon DEF Reset!EarlyPacket, ResetTypes
  <2> QED
    BY <1>1, <2>1, <2>2, <2>3, <2>4 DEF Reset!PacketReceived
<1> QED
  BY <1>1, <1>3, <1>4, <1>5, <1>6 DEF ResetTypes, imageVars

LEMMA ResetIoTypes ==
  ASSUME Types, ResetIoStep
  PROVE  Types'
<1> USE DEF Types
<1>1. /\ UNCHANGED <<imageVars, ownVars>>
      /\ io = "idle"
  BY DEF ResetIoStep, Reset!IoStep, Reset!CopyPacket, Reset!PublishNumber,
     Reset!NotifyFull, Reset!NotifyPart
<1>2. /\ UNCHANGED <<alive, freeBuffers, resetSubFrames, resetFrameBuffers,
                     resetFrameReady, resetFrameMap, filed, resetNet>>
      /\ resetTarget' \in {resetTarget, resetSubFrames}
      /\ resetWorker' = "copying" => resetWorker = "copying"
  BY DEF ResetIoStep, Reset!IoStep, Reset!CopyPacket, Reset!PublishNumber,
     Reset!NotifyFull, Reset!NotifyPart, Reset!NotifyOne, Reset!FlagPacket,
     Reset!banks, Reset!result
<1>3. ImageTypes'
  BY <1>1 DEF ImageTypes, imageVars
<1>4. CASE Reset!CopyPacket
  <2>1. /\ PoolOK(Tags)' /\ Len(mem') = Len(mem)
    <3>1. /\ mem' = [mem EXCEPT ![resetTarget][resetPkt.slot] = Reset!ResetTag(resetPkt.frame)]
          /\ resetTarget \in 1 .. Len(mem) /\ PoolOK(Tags)
          /\ resetPkt.slot \in Slots /\ Reset!ResetTag(resetPkt.frame) \in Tags
      BY <1>4, PositionTyped, Basics, Zenon DEF Reset!CopyPacket, PoolTypes, ResetTypes
    <3> QED
      BY <1>2, <3>1, MarkStored, Zenon
  <2>2. PoolTypes'
    BY <1>1, <1>2, <2>1 DEF PoolTypes, imageVars
  <2>3. ResetTypes'
    BY <1>2, <1>4 DEF ResetTypes, Reset!CopyPacket
  <2>4. LogTypes'
    BY <1>1, <1>2, <1>4 DEF LogTypes, imageVars, ownVars, Reset!CopyPacket
  <2> QED
    BY <1>1, <1>2, <1>3, <2>2, <2>3, <2>4 DEF imageVars
<1>5. CASE Reset!PublishNumber
  <2>1. closed' \in Seq(Records)
    <3>1. [frame |-> resetFrameNumber, data |-> mem[resetSubFrames]] \in Records
      BY RecordOfBank DEF PoolTypes, ResetTypes
    <3> QED
      BY <1>5, <3>1, AppendProperties DEF Reset!PublishNumber, LogTypes
  <2>2. UNCHANGED <<mem, resetTarget>>
    BY <1>5 DEF Reset!PublishNumber, Reset!banks
  <2>3. PoolTypes'
    BY <1>1, <1>2, <2>2 DEF PoolTypes, PoolOK, imageVars
  <2>4. ResetTypes'
    BY <1>2, <1>5 DEF ResetTypes, Reset!PublishNumber, Reset!control
  <2>5. LogTypes'
    BY <1>1, <1>2, <2>1 DEF LogTypes, imageVars, ownVars
  <2> QED
    BY <1>1, <1>2, <1>3, <2>3, <2>4, <2>5 DEF imageVars
<1>6. CASE Reset!NotifyFull
  <2>1. UNCHANGED <<mem, resetTarget, closed>>
    BY <1>6 DEF Reset!NotifyFull, Reset!banks
  <2>2. PoolTypes' /\ LogTypes'
    BY <1>1, <1>2, <2>1, Zenon DEF PoolTypes, PoolOK, LogTypes, imageVars, ownVars
  <2>3. ResetTypes'
    BY <1>2, <1>6 DEF ResetTypes, Reset!NotifyFull, Reset!NotifyOne
  <2> QED
    BY <1>1, <1>2, <1>3, <2>2, <2>3 DEF imageVars
<1>7. CASE Reset!NotifyPart
  <2>1. UNCHANGED <<mem, closed>>
    BY <1>7 DEF Reset!NotifyPart, Reset!banks
  <2>2. PoolTypes' /\ LogTypes'
    BY <1>1, <1>2, <2>1, Zenon DEF PoolTypes, PoolOK, LogTypes, imageVars, ownVars
  <2>3. /\ resetErrorStats' \in ErrorCounts /\ resetChecks' \in SUBSET Slots
        /\ resetPkt' \in Packets /\ resetIo' = "copy" /\ resetPkt.frame \in Frames
    BY <1>7, ResetFlagged, PositionTyped DEF Reset!NotifyPart, ResetTypes
  <2>4. ResetTypes'
    BY <1>2, <1>7, <2>3 DEF ResetTypes, Reset!NotifyPart, Reset!NotifyOne
  <2> QED
    BY <1>1, <1>2, <1>3, <2>2, <2>4 DEF imageVars
<1> QED
  BY <1>4, <1>5, <1>6, <1>7 DEF ResetIoStep, Reset!IoStep

LEMMA ResetWorkerTypes ==
  ASSUME Types, ResetWorkerStep
  PROVE  Types'
<1> USE DEF Types
<1>1. /\ UNCHANGED <<imageVars, ownVars>>
      /\ UNCHANGED <<alive, expectNewResetFrame, resetFrameNumber, resetChecks,
                     resetErrorStats, processResetFrameNumber, resetIo, resetPkt,
                     resetTarget, closed>>
      /\ resetWorker' \in {"relock", "waiting", "woken", "locked", "copying"}
  BY DEF ResetWorkerStep, Reset!WorkerStep, Reset!WorkerWait, Reset!WorkerLock,
     Reset!ExchangeBuffers, Reset!FileFrame, Reset!SpuriousWakeup, Reset!control
<1>2. ImageTypes'
  BY <1>1 DEF ImageTypes, imageVars
<1>3. CASE Reset!WorkerWait \/ Reset!WorkerLock \/ Reset!SpuriousWakeup
  <2>1. /\ UNCHANGED <<mem, freeBuffers, resetSubFrames, resetFrameBuffers,
                       resetFrameReady, resetFrameMap, filed>>
        /\ resetNet' = resetNet \/ resetNet' = [resetNet EXCEPT !.wakeups = @ + 1]
        /\ resetWorker' # "copying"
    BY <1>3 DEF Reset!WorkerWait, Reset!WorkerLock, Reset!SpuriousWakeup,
       Reset!banks, Reset!result
  <2>2. resetNet' \in ResetNets
    BY <2>1, ResetNetsTyped, Zenon DEF ResetTypes
  <2>3. ResetTypes' /\ PoolTypes' /\ LogTypes'
    BY <1>1, <2>1, <2>2, Zenon DEF ResetTypes, PoolTypes, PoolOK, LogTypes, imageVars,
       ownVars
  <2> QED
    BY <1>1, <1>2, <2>1, <2>3 DEF imageVars
<1>4. CASE Reset!ExchangeBuffers
  <2>1. PICK bank \in 1 .. Len(mem) + 1 : Reset!Allocate(bank) /\ resetSubFrames' = bank
    BY <1>4 DEF Reset!ExchangeBuffers
  <2>2. /\ PoolOK(Tags)' /\ Len(mem') \in Nat /\ Len(mem') >= Len(mem) /\ Len(mem) \in Nat
        /\ bank \in 1 .. Len(mem')
    BY <2>1, SamePool, Basics, AllocateKeepsPool DEF PoolTypes
  <2>3. /\ subFrames' = subFrames /\ subFrameBuffers' = subFrameBuffers
        /\ resetFrameBuffers' = resetSubFrames /\ resetTarget' = resetTarget
        /\ UNCHANGED <<resetFrameReady, resetFrameMap, filed, resetNet>>
    BY <1>1, <1>4 DEF Reset!ExchangeBuffers, imageVars, Reset!result
  <2>4. /\ subFrames' \in 1 .. Len(mem') /\ subFrameBuffers' \in 0 .. Len(mem')
        /\ resetFrameBuffers' \in 0 .. Len(mem') /\ resetTarget' \in 1 .. Len(mem')
        /\ resetFrameBuffers' # NoBank
    BY <2>2, <2>3 DEF PoolTypes, NoBank
  <2>5. PoolTypes' /\ LogTypes' /\ ResetTypes'
    BY <1>1, <2>1, <2>2, <2>3, <2>4, Zenon DEF PoolTypes, LogTypes, ResetTypes, imageVars,
       ownVars
  <2> QED
    BY <1>1, <1>2, <2>4, <2>5 DEF imageVars
<1>5. CASE Reset!FileFrame
  <2>1. resetFrameBuffers \in 1 .. Len(mem) /\ Release(resetFrameBuffers)
    BY <1>5, SamePool DEF PoolTypes, NoBank, Reset!FileFrame
  <2>2. PoolOK(Tags)' /\ Len(mem') = Len(mem)
    BY <2>1, Basics, ReleaseAddsFree, Zenon DEF PoolTypes
  <2>3. /\ mem[resetFrameBuffers] \in [Slots -> Tags]
        /\ [frame |-> processResetFrameNumber, data |-> mem[resetFrameBuffers]] \in Records
    BY <2>1, RecordOfBank DEF ResetTypes
  <2>4. filed' \in Seq(Records)
    BY <1>5, <2>3, AppendProperties DEF Reset!FileFrame, LogTypes
  <2>5. /\ DOMAIN resetFrameMap' \in SUBSET Frames
        /\ \A f \in DOMAIN resetFrameMap' : resetFrameMap'[f] \in [Slots -> Tags]
    BY <1>5, <2>3 DEF Reset!FileFrame, Reset!MapWith, LogTypes, ResetTypes
  <2>6. LogTypes'
    BY <1>1, <2>4, <2>5 DEF LogTypes, imageVars, ownVars
  <2>7. /\ UNCHANGED <<resetSubFrames, resetFrameBuffers, resetNet>>
        /\ resetFrameReady' = processResetFrameNumber
        /\ resetWorker' = "relock"
    BY <1>5 DEF Reset!FileFrame
  <2>8. PoolTypes' /\ ResetTypes'
    BY <1>1, <2>2, <2>7 DEF PoolTypes, ResetTypes, imageVars
  <2> QED
    BY <1>1, <1>2, <2>6, <2>7, <2>8 DEF imageVars
<1> QED
  BY <1>3, <1>4, <1>5 DEF ResetWorkerStep, Reset!WorkerStep

(* What is noted of a correction.                                          *)
LEMMA CorrectionTyped ==
  ASSUME LogTypes, NEW n \in Frames
  PROVE  /\ Correction(n, NoReset) \in Corrections
         /\ \A data \in [Slots -> Tags] : Correction(n, data) \in Corrections
<1>1. NoReset \in [Slots -> Tags] /\ Len(closed) \in Nat
  BY Basics, LenProperties DEF NoReset, LogTypes
<1> QED
  BY <1>1 DEF Correction, Corrections

LEMMA ProcessTypes ==
  ASSUME Types, ProcessFrame
  PROVE  Types'
<1> USE DEF Types
<1>1. /\ UNCHANGED <<resetVars, resumed>>
      /\ TakeReset(processFrameNumber)
      /\ Image!ProcessFrame
  BY DEF ProcessFrame
<1>2. /\ UNCHANGED <<alive, expectNewFrame, frameNumber, checks, errorStats,
                     subFrames, subFrameBuffers, processFrameNumber, io, pkt, net,
                     handed>>
      /\ worker' = "relock"
      /\ subFrameBuffers # NoBank
      /\ delivered' = Append(delivered, [frame |-> processFrameNumber,
                                          data  |-> mem[subFrameBuffers]])
      /\ Release(subFrameBuffers)
  BY <1>1, SamePool DEF Image!ProcessFrame
<1>3. subFrameBuffers \in 1 .. Len(mem)
  BY <1>2 DEF PoolTypes, NoBank
<1>4. /\ PoolOK(Tags)' /\ Len(mem') = Len(mem)
  BY <1>2, <1>3, Basics, ReleaseAddsFree DEF PoolTypes
<1>5. PoolTypes'
  BY <1>1, <1>2, <1>4 DEF PoolTypes, resetVars
<1>6. ImageTypes' /\ ResetTypes'
  BY <1>1, <1>2 DEF ImageTypes, ResetTypes, resetVars
<1>7. /\ delivered' \in Seq(Records) /\ Len(delivered) \in Nat
      /\ Len(delivered') = Len(delivered) + 1
  <2>1. [frame |-> processFrameNumber, data |-> mem[subFrameBuffers]] \in Records
    BY <1>3, RecordOfBank DEF ImageTypes
  <2> QED
    BY <1>2, <2>1, AppendProperties, LenProperties DEF LogTypes
<1>8. CASE processFrameNumber \in DOMAIN resetFrameMap
  <2>1. /\ corrected' = Append(corrected, Correction(processFrameNumber,
                                                    resetFrameMap[processFrameNumber]))
        /\ resetFrameMap' = [f \in DOMAIN resetFrameMap \ {processFrameNumber} |-> resetFrameMap[f]]
        /\ resetFramesMissing' = resetFramesMissing
    BY <1>1, <1>8 DEF TakeReset
  <2>2. Correction(processFrameNumber, resetFrameMap[processFrameNumber]) \in Corrections
    BY <1>8, CorrectionTyped DEF LogTypes, ImageTypes
  <2>3. corrected' \in Seq(Corrections) /\ Len(corrected') = Len(corrected) + 1
    BY <2>1, <2>2, AppendProperties DEF LogTypes
  <2>4. LogTypes'
    BY <1>1, <1>2, <1>7, <2>1, <2>3 DEF LogTypes, resetVars
  <2> QED
    BY <1>1, <1>2, <1>5, <1>6, <2>4 DEF resetVars
<1>9. CASE processFrameNumber \notin DOMAIN resetFrameMap
  <2>1. /\ corrected' = Append(corrected, Correction(processFrameNumber, NoReset))
        /\ resetFrameMap' = resetFrameMap
        /\ resetFramesMissing' = resetFramesMissing + 1
    BY <1>1, <1>9 DEF TakeReset
  <2>2. Correction(processFrameNumber, NoReset) \in Corrections
    BY CorrectionTyped DEF ImageTypes
  <2>3. corrected' \in Seq(Corrections) /\ Len(corrected') = Len(corrected) + 1
    BY <2>1, <2>2, AppendProperties DEF LogTypes
  <2>4. LogTypes'
    BY <1>1, <1>2, <1>7, <2>1, <2>3 DEF LogTypes, resetVars
  <2> QED
    BY <1>1, <1>2, <1>5, <1>6, <2>4 DEF resetVars
<1> QED
  BY <1>8, <1>9

(* Every step keeps the types: one lemma for each action above.            *)
LEMMA TypesInit == Init => Types
<1> SUFFICES ASSUME Init PROVE Types
  OBVIOUS
<1> USE DEF Init
<1>1. mem \in Seq([Slots -> Tags]) /\ Len(mem) = 2
  BY Basics
<1>2. freeBuffers \in Seq(1 .. Len(mem))
  OBVIOUS
<1>3. PoolTypes
  BY <1>1, <1>2, Basics DEF PoolTypes, PoolOK, NoBank
<1>4. [frame |-> 0, slot |-> 1] \in Packets
  BY Basics DEF Packets
<1>5. NoErrors \in ErrorCounts
  BY DEF NoErrors, ErrorCounts
<1>6. ImageTypes
  BY <1>4, <1>5, Basics DEF ImageTypes, Nets
<1>7. ResetTypes
  BY <1>4, <1>5, Basics DEF ResetTypes, ResetNets
<1>8. LogTypes
  BY DEF LogTypes
<1> QED
  BY <1>3, <1>6, <1>7, <1>8 DEF Types

LEMMA TypesStep ==
  ASSUME Types, [Next]_vars
  PROVE  Types'
<1>1. CASE UNCHANGED vars
  BY <1>1 DEF vars, imageVars, resetVars, ownVars, Types, PoolTypes, PoolOK,
     ImageTypes, ResetTypes, LogTypes
<1> QED
  BY <1>1, ImagePacketTypes, ResetPacketTypes, TimeoutTypes, ImageIoTypes,
     ResetIoTypes, FrameWorkerTypes, ResetWorkerTypes, ProcessTypes DEF Next

LEMMA TypesHold == Spec => []Types
BY TypesInit, TypesStep, PTL DEF Spec

(* The types of the server are correct through every interleaving of the   *)
(* io thread, the two frame threads and the watchdog, with two users of    *)
(* one buffer pool: every index is a bank there is, and a handed-over      *)
(* frame has as many places as packets.                                    *)
THEOREM TypeCorrect == Spec => []TypeOK
<1>1. Types => TypeOK
  <2> SUFFICES ASSUME Types PROVE TypeOK
    OBVIOUS
  <2>1. Reset!TypeOK
    BY Zenon DEF Types, PoolTypes, PoolOK, ResetTypes, LogTypes, Reset!TypeOK, ResetNets
  <2> QED
    BY <2>1 DEF Types, PoolTypes, LogTypes, TypeOK
<1> QED
  BY <1>1, TypesHold, PTL

-----------------------------------------------------------------------------
(* The corrections made with a reset frame of number n; the times one was  *)
(* filed under it; and whether one is in resetFrameMap_ now.               *)
Taken(log, n)   == {i \in DOMAIN log : log[i].frame = n /\ log[i].reset # NoReset}
Filings(log, n) == {i \in DOMAIN log : log[i].frame = n}
Stored(map, n)  == IF n \in DOMAIN map THEN 1 ELSE 0

(* Each correction took out what one filing put in: the map holds at most  *)
(* one frame a number, and a filing replaces what was there.               *)
OneEach ==
  \A n \in Frames :
    Cardinality(Taken(corrected, n)) + Stored(resetFrameMap, n)
      <= Cardinality(Filings(filed, n))

(* Counting in a log that grows by one.                                    *)
LEMMA TakenGrows ==
  ASSUME NEW log \in Seq(Corrections), NEW r \in Corrections, NEW n \in Frames
  PROVE  /\ Cardinality(Taken(log, n)) \in Nat
         /\ Cardinality(Taken(Append(log, r), n)) =
              Cardinality(Taken(log, n)) + IF r.frame = n /\ r.reset # NoReset THEN 1 ELSE 0
<1>1. /\ Len(log) \in Nat /\ DOMAIN log = 1 .. Len(log)
      /\ DOMAIN Append(log, r) = 1 .. Len(log) + 1
      /\ \A i \in 1 .. Len(log) : Append(log, r)[i] = log[i]
      /\ Append(log, r)[Len(log) + 1] = r
  BY AppendProperties, LenProperties
<1>2. IsFiniteSet(Taken(log, n))
  <2>1. IsFiniteSet(1 .. Len(log))
    BY <1>1, FS_Interval
  <2> QED
    BY <1>1, <2>1, FS_Subset DEF Taken
<1>3. Cardinality(Taken(log, n)) \in Nat
  BY <1>2, FS_CardinalityType
<1>4. Len(log) + 1 \notin Taken(log, n)
  BY <1>1 DEF Taken
<1>5. CASE r.frame = n /\ r.reset # NoReset
  <2>1. Taken(Append(log, r), n) = Taken(log, n) \cup {Len(log) + 1}
    BY <1>1, <1>5 DEF Taken
  <2> QED
    BY <1>2, <1>3, <1>4, <1>5, <2>1, FS_AddElement, Zenon
<1>6. CASE ~ (r.frame = n /\ r.reset # NoReset)
  <2>1. Taken(Append(log, r), n) = Taken(log, n)
    BY <1>1, <1>6 DEF Taken
  <2> QED
    BY <1>3, <1>6, <2>1
<1> QED
  BY <1>5, <1>6

LEMMA FilingsGrow ==
  ASSUME NEW log \in Seq(Records), NEW r \in Records, NEW n \in Frames
  PROVE  /\ Cardinality(Filings(log, n)) \in Nat
         /\ Cardinality(Filings(Append(log, r), n)) =
              Cardinality(Filings(log, n)) + IF r.frame = n THEN 1 ELSE 0
<1>1. /\ Len(log) \in Nat /\ DOMAIN log = 1 .. Len(log)
      /\ DOMAIN Append(log, r) = 1 .. Len(log) + 1
      /\ \A i \in 1 .. Len(log) : Append(log, r)[i] = log[i]
      /\ Append(log, r)[Len(log) + 1] = r
  BY AppendProperties, LenProperties
<1>2. IsFiniteSet(Filings(log, n))
  <2>1. IsFiniteSet(1 .. Len(log))
    BY <1>1, FS_Interval
  <2> QED
    BY <1>1, <2>1, FS_Subset DEF Filings
<1>3. Cardinality(Filings(log, n)) \in Nat
  BY <1>2, FS_CardinalityType
<1>4. Len(log) + 1 \notin Filings(log, n)
  BY <1>1 DEF Filings
<1>5. CASE r.frame = n
  <2>1. Filings(Append(log, r), n) = Filings(log, n) \cup {Len(log) + 1}
    BY <1>1, <1>5 DEF Filings
  <2> QED
    BY <1>2, <1>3, <1>4, <1>5, <2>1, FS_AddElement, Zenon
<1>6. CASE r.frame # n
  <2>1. Filings(Append(log, r), n) = Filings(log, n)
    BY <1>1, <1>6 DEF Filings
  <2> QED
    BY <1>3, <1>6, <2>1
<1> QED
  BY <1>5, <1>6

(* FileFrame adds one filing and at most one frame in the map;             *)
LEMMA OneEachFiled ==
  ASSUME Types, OneEach, Reset!FileFrame, UNCHANGED corrected
  PROVE  OneEach'
<1> DEFINE record == [frame |-> processResetFrameNumber, data |-> mem[resetFrameBuffers]]
<1>1. /\ filed \in Seq(Records) /\ filed' = Append(filed, record)
      /\ corrected \in Seq(Corrections)
      /\ DOMAIN resetFrameMap' = DOMAIN resetFrameMap \cup {processResetFrameNumber}
  BY DEF Types, LogTypes, Reset!FileFrame, Reset!MapWith
<1>2. record \in Records /\ record.frame = processResetFrameNumber
  <2>1. resetFrameBuffers \in 1 .. Len(mem)
    BY DEF Types, PoolTypes, NoBank, Reset!FileFrame
  <2> QED
    BY <2>1, RecordOfBank DEF Types, ResetTypes
<1> HIDE DEF record
<1> SUFFICES ASSUME NEW n \in Frames
             PROVE  Cardinality(Taken(corrected, n)) + Stored(resetFrameMap', n)
                      <= Cardinality(Filings(Append(filed, record), n))
  BY <1>1 DEF OneEach
<1>3. /\ Cardinality(Filings(filed, n)) \in Nat
      /\ Cardinality(Filings(Append(filed, record), n)) =
              Cardinality(Filings(filed, n)) + IF record.frame = n THEN 1 ELSE 0
  BY <1>1, <1>2, FilingsGrow
<1>4. Cardinality(Taken(corrected, n)) \in Nat
  <2>1. [frame |-> 0, reset |-> BlankBank, closings |-> 0] \in Corrections
    BY Basics DEF Corrections
  <2> QED
    BY <1>1, <2>1, TakenGrows
<1>5. Cardinality(Taken(corrected, n)) + Stored(resetFrameMap, n)
        <= Cardinality(Filings(filed, n))
  BY DEF OneEach
<1>6. Stored(resetFrameMap', n) = IF record.frame = n THEN 1 ELSE Stored(resetFrameMap, n)
  BY <1>1, <1>2 DEF Stored
<1>7. Stored(resetFrameMap, n) \in {0, 1}
  BY DEF Stored
<1> QED
  BY <1>3, <1>4, <1>5, <1>6, <1>7

(* and a correction moves the frame out of the map.                        *)
LEMMA OneEachTaken ==
  ASSUME Types, OneEach, ProcessFrame
  PROVE  OneEach'
<1> DEFINE own == processFrameNumber \in DOMAIN resetFrameMap
           r   == Correction(processFrameNumber,
                    IF own THEN resetFrameMap[processFrameNumber] ELSE NoReset)
<1>1. /\ corrected \in Seq(Corrections) /\ corrected' = Append(corrected, r)
      /\ DOMAIN resetFrameMap' = DOMAIN resetFrameMap \ {processFrameNumber}
      /\ filed' = filed /\ filed \in Seq(Records)
  BY Zenon DEF Types, LogTypes, ProcessFrame, TakeReset, resetVars
<1>2. r \in Corrections /\ r.frame = processFrameNumber /\ (r.reset # NoReset => own)
  BY CorrectionTyped DEF Correction, Types, LogTypes, ImageTypes
<1> HIDE DEF r
<1> SUFFICES ASSUME NEW n \in Frames
             PROVE  Cardinality(Taken(Append(corrected, r), n)) + Stored(resetFrameMap', n)
                      <= Cardinality(Filings(filed, n))
  BY <1>1 DEF OneEach
<1>3. /\ Cardinality(Taken(corrected, n)) \in Nat
      /\ Cardinality(Taken(Append(corrected, r), n)) =
           Cardinality(Taken(corrected, n)) + IF r.frame = n /\ r.reset # NoReset THEN 1 ELSE 0
  BY <1>1, <1>2, TakenGrows
<1>4. Cardinality(Filings(filed, n)) \in Nat
  <2>1. [frame |-> 0, data |-> BlankBank] \in Records
    BY Basics DEF Records
  <2> QED
    BY <1>1, <2>1, FilingsGrow
<1>5. Cardinality(Taken(corrected, n)) + Stored(resetFrameMap, n)
        <= Cardinality(Filings(filed, n))
  BY DEF OneEach
<1>6. /\ Stored(resetFrameMap', n) = IF r.frame = n THEN 0 ELSE Stored(resetFrameMap, n)
      /\ r.frame = n /\ r.reset # NoReset => Stored(resetFrameMap, n) = 1
      /\ Stored(resetFrameMap, n) \in {0, 1}
  BY <1>1, <1>2 DEF Stored
<1> QED
  BY <1>3, <1>4, <1>5, <1>6

LEMMA OneEachStep ==
  ASSUME Types, OneEach, [Next]_vars
  PROVE  OneEach'
<1>1. CASE Reset!FileFrame /\ UNCHANGED corrected
  BY <1>1, OneEachFiled
<1>2. CASE ProcessFrame
  BY <1>2, OneEachTaken
<1>3. CASE UNCHANGED <<corrected, resetFrameMap, filed>>
  BY <1>3 DEF OneEach
<1>4. \/ Reset!FileFrame /\ UNCHANGED corrected
      \/ ProcessFrame
      \/ UNCHANGED <<corrected, resetFrameMap, filed>>
  <2>1. ASSUME NEW p \in Packets, ImagePacket(p)
        PROVE  UNCHANGED <<corrected, resetFrameMap, filed>>
    BY <2>1 DEF ImagePacket, resetVars
  <2>2. ASSUME NEW p \in Packets, ResetPacket(p)
        PROVE  UNCHANGED <<corrected, resetFrameMap, filed>>
    BY <2>2 DEF ResetPacket, Reset!PacketReceived, Reset!FirstPacket,
       Reset!LatePacket, Reset!FramePacket, Reset!EarlyPacket, Reset!result
  <2>3. ASSUME Timeout \/ ImageIoStep \/ FrameWorkerStep
        PROVE  UNCHANGED <<corrected, resetFrameMap, filed>>
    BY <2>3 DEF Timeout, ImageIoStep, FrameWorkerStep, resetVars, ownVars
  <2>4. ASSUME ResetIoStep
        PROVE  UNCHANGED <<corrected, resetFrameMap, filed>>
    BY <2>4 DEF ResetIoStep, ownVars, Reset!IoStep, Reset!CopyPacket,
       Reset!PublishNumber, Reset!NotifyFull, Reset!NotifyPart, Reset!result
  <2>5. ASSUME ResetWorkerStep
        PROVE  (Reset!FileFrame /\ UNCHANGED corrected) \/ UNCHANGED <<corrected,
                                                                       resetFrameMap,
                                                                       filed>>
    BY <2>5 DEF ResetWorkerStep, ownVars, Reset!WorkerStep, Reset!WorkerWait,
       Reset!WorkerLock, Reset!ExchangeBuffers, Reset!SpuriousWakeup, Reset!result
  <2>6. ASSUME UNCHANGED vars
        PROVE  UNCHANGED <<corrected, resetFrameMap, filed>>
    BY <2>6 DEF vars, resetVars, ownVars
  <2> QED
    BY <2>1, <2>2, <2>3, <2>4, <2>5, <2>6 DEF Next
<1> QED
  BY <1>1, <1>2, <1>3, <1>4

(* processTemporalFrame() corrects no two images with the same filing of a *)
(* reset frame, in any order of the two frame threads: what it finds in    *)
(* resetFrameMap_ it erases.                                               *)
THEOREM TakenOnce == Spec => []TakenOncePerFiling
<1>1. Init => OneEach
  <2> SUFFICES ASSUME Init, NEW n \in Frames
               PROVE  Cardinality(Taken(corrected, n)) + Stored(resetFrameMap, n)
                        <= Cardinality(Filings(filed, n))
    BY DEF OneEach
  <2>1. Taken(corrected, n) = {} /\ Filings(filed, n) = {} /\ Stored(resetFrameMap, n) = 0
    BY DEF Init, Taken, Filings, Stored
  <2> QED
    BY <2>1, FS_EmptySet
<1>2. Types /\ OneEach => TakenOncePerFiling
  <2> SUFFICES ASSUME Types, OneEach, NEW n \in Frames
               PROVE  Cardinality(Taken(corrected, n)) <= Cardinality(Filings(filed, n))
    BY DEF TakenOncePerFiling, Taken, Filings
  <2>1. /\ [frame |-> 0, reset |-> BlankBank, closings |-> 0] \in Corrections
        /\ [frame |-> 0, data |-> BlankBank] \in Records
    BY Basics DEF Corrections, Records
  <2>2. /\ Cardinality(Taken(corrected, n)) \in Nat /\ Cardinality(Filings(filed, n)) \in Nat
    BY <2>1, TakenGrows, FilingsGrow DEF Types, LogTypes
  <2>3. Stored(resetFrameMap, n) \in {0, 1}
    BY DEF Stored
  <2> QED
    BY <2>2, <2>3 DEF OneEach
<1> QED
  BY <1>1, <1>2, TypesHold, OneEachStep, PTL DEF Spec

-----------------------------------------------------------------------------
(* The pool and the banks being filled; and the one the reset thread       *)
(* copies from.                                                            *)
FillingApart ==
  /\ FreeOnce /\ ~IsFree(subFrames) /\ ~IsFree(resetSubFrames)
  /\ subFrames # resetSubFrames
CopyApart ==
  resetWorker = "copying" =>
    /\ resetFrameBuffers # resetSubFrames /\ resetFrameBuffers # subFrames
    /\ ~IsFree(resetFrameBuffers)

(* The reset thread takes a fresh bank for the one it files.               *)
LEMMA ExchangeApart ==
  ASSUME Types, FillingApart, Reset!ExchangeBuffers, subFrames' = subFrames
  PROVE  /\ FillingApart' /\ CopyApart'
         /\ mem'[resetFrameBuffers'] = mem[resetSubFrames]
         /\ \A b \in 1 .. Len(mem) : mem'[b] = mem[b]
         /\ \A b \in 1 .. Len(mem) : ~ IsFree(b) => ~ IsFree(b)' /\ resetSubFrames' # b
<1>1. PICK bank \in 1 .. Len(mem) + 1 : Allocate(bank) /\ resetSubFrames' = bank
  BY SamePool DEF Reset!ExchangeBuffers
<1>2. /\ PoolOK(Tags) /\ FreeOnce /\ Len(mem) \in Nat
      /\ subFrames \in 1 .. Len(mem) /\ resetSubFrames \in 1 .. Len(mem)
      /\ resetFrameBuffers' = resetSubFrames
  BY LenProperties DEF Types, PoolTypes, PoolOK, FillingApart, Reset!ExchangeBuffers
<1>3. /\ FreeOnce' /\ ~ IsFree(bank)'
      /\ \A b : IsFree(b)' => IsFree(b)
      /\ bank = Len(mem) + 1 \/ IsFree(bank)
      /\ \A b \in 1 .. Len(mem) : mem'[b] = mem[b]
  BY <1>1, <1>2, Basics, AllocateTakesFree, AllocateKeepsPool
<1>4. bank # subFrames /\ bank # resetSubFrames
  BY <1>2, <1>3 DEF FillingApart
<1>5. ~ IsFree(subFrames)' /\ ~ IsFree(resetSubFrames)
  BY <1>3, Zenon DEF FillingApart, IsFree
<1>6. FillingApart'
  BY <1>1, <1>3, <1>4, <1>5 DEF FillingApart, IsFree
<1>7. ~ IsFree(resetFrameBuffers)'
  <2>1. ASSUME NEW b, b = resetSubFrames PROVE ~ IsFree(b)'
    BY <1>3, <1>5, <2>1
  <2> QED
    BY <1>2, <2>1 DEF IsFree
<1>8. CopyApart'
  BY <1>1, <1>2, <1>4, <1>7 DEF CopyApart, FillingApart
<1>9. ASSUME NEW b \in 1 .. Len(mem), ~ IsFree(b) PROVE ~ IsFree(b)' /\ resetSubFrames' # b
  BY <1>1, <1>2, <1>3, <1>9
<1> QED
  BY <1>2, <1>3, <1>6, <1>8, <1>9

(* and gives back the one it has filed.                                    *)
LEMMA FileApart ==
  ASSUME Types, FillingApart, CopyApart, Reset!FileFrame, subFrames' = subFrames
  PROVE  /\ FillingApart' /\ CopyApart'
         /\ \A b \in 1 .. Len(mem) : b # resetFrameBuffers => mem'[b] = mem[b]
         /\ \A b : ~ IsFree(b) /\ b # resetFrameBuffers => ~ IsFree(b)'
<1>1. /\ resetFrameBuffers \in 1 .. Len(mem) /\ Release(resetFrameBuffers)
      /\ resetWorker = "copying" /\ resetWorker' = "relock"
      /\ resetSubFrames' = resetSubFrames /\ PoolOK(Tags)
  BY SamePool DEF Types, PoolTypes, NoBank, Reset!FileFrame
<1>2. /\ \A b : IsFree(b)' <=> IsFree(b) \/ b = resetFrameBuffers
      /\ FreeOnce'
      /\ \A b \in 1 .. Len(mem) : b # resetFrameBuffers => mem'[b] = mem[b]
  BY <1>1, Basics, ReleaseAddsFree DEF FillingApart, CopyApart
<1>3. ~ IsFree(subFrames)' /\ ~ IsFree(resetSubFrames)'
  BY <1>1, <1>2, Zenon DEF FillingApart, CopyApart, IsFree
<1> QED
  BY <1>1, <1>2, <1>3 DEF FillingApart, CopyApart

(* As long as no image has been handed over the frame thread holds no      *)
(* bank, and the two users of the pool keep theirs apart.                  *)
NothingHanded ==
  handed = <<>> =>
    /\ subFrameBuffers = NoBank /\ io \notin {"fullSwapped", "partSwapped"}
    /\ FillingApart /\ CopyApart

(* Most steps leave every bank with its user. *)
bankVars == <<freeBuffers, subFrames, subFrameBuffers, resetSubFrames, resetFrameBuffers>>

LEMMA StepsOnBanks ==
  ASSUME [Next]_vars
  PROVE  \/ Image!SwapBuffers /\ UNCHANGED <<resetVars, resetFrameMap, ownVars>>
         \/ ProcessFrame
         \/ Reset!ExchangeBuffers /\ UNCHANGED <<imageVars, ownVars>>
         \/ Reset!FileFrame /\ UNCHANGED <<imageVars, ownVars>>
         \/ /\ UNCHANGED <<bankVars, handed, delivered, corrected, filed,
                           resetFrameMap>>
            /\ resetWorker' = "copying" <=> resetWorker = "copying"
            /\ io' \in {"fullSwapped", "partSwapped"} => io' = io
<1>1. ASSUME NEW p \in Packets, ImagePacket(p)
      PROVE  /\ UNCHANGED <<bankVars, handed, delivered, corrected, filed,
                            resetFrameMap, resetWorker>>
             /\ io' \in {"fullSwapped", "partSwapped"} => io' = io
  BY <1>1 DEF ImagePacket, resetVars, Image!PacketReceived, Image!FirstPacket,
     Image!LatePacket, Image!FramePacket, Image!EarlyPacket, Image!bufferVars,
     Image!history, Image!StorePacket, bankVars
<1>2. ASSUME NEW p \in Packets, ResetPacket(p)
      PROVE  UNCHANGED <<bankVars, handed, delivered, corrected, filed,
                         resetFrameMap, resetWorker, io>>
  BY <1>2 DEF ResetPacket, imageVars, Reset!PacketReceived, Reset!FirstPacket,
     Reset!LatePacket, Reset!FramePacket, Reset!EarlyPacket, Reset!banks,
     Reset!result, bankVars
<1>3. ASSUME Timeout
      PROVE  UNCHANGED <<bankVars, handed, delivered, corrected, filed,
                         resetFrameMap, resetWorker, io>>
  BY <1>3 DEF Timeout, Image!Timeout, resetVars, Image!bufferVars, Image!history,
     bankVars
<1>4. ASSUME Image!NotifyFull \/ Image!NotifyPart, UNCHANGED <<resetVars,
                                                               resetFrameMap,
                                                               ownVars>>
      PROVE  /\ UNCHANGED <<bankVars, handed, delivered, corrected, filed,
                            resetFrameMap, resetWorker>>
             /\ io' \notin {"fullSwapped", "partSwapped"}
  BY <1>4 DEF Image!NotifyFull, Image!NotifyPart, Image!StorePacket,
     Image!bufferVars, Image!history, bankVars, resetVars, ownVars
<1>5. ASSUME FrameWorkerStep
      PROVE  UNCHANGED <<bankVars, handed, delivered, corrected, filed,
                         resetFrameMap, resetWorker, io>>
  BY <1>5 DEF FrameWorkerStep, Image!WorkerWait, Image!WorkerLock,
     Image!SpuriousWakeup, Image!ProcessNothing, Image!bufferVars, Image!history,
     bankVars, resetVars, ownVars
<1>6. ASSUME ResetIoStep
      PROVE  /\ UNCHANGED <<bankVars, handed, delivered, corrected, filed,
                            resetFrameMap, io>>
             /\ resetWorker' = "copying" <=> resetWorker = "copying"
  BY <1>6 DEF ResetIoStep, imageVars, ownVars, bankVars, Reset!IoStep,
     Reset!CopyPacket, Reset!PublishNumber, Reset!NotifyFull, Reset!NotifyPart,
     Reset!NotifyOne, Reset!FlagPacket, Reset!banks, Reset!result
<1>7. ASSUME Reset!WorkerWait \/ Reset!WorkerLock \/ Reset!SpuriousWakeup,
             UNCHANGED <<imageVars, ownVars>>
      PROVE  /\ UNCHANGED <<bankVars, handed, delivered, corrected, filed,
                            resetFrameMap, io>>
             /\ resetWorker' # "copying" /\ resetWorker # "copying"
  BY <1>7 DEF Reset!WorkerWait, Reset!WorkerLock, Reset!SpuriousWakeup, Reset!banks,
     Reset!result, imageVars, ownVars, bankVars
<1>8. ASSUME UNCHANGED vars
      PROVE  UNCHANGED <<bankVars, handed, delivered, corrected, filed,
                         resetFrameMap, resetWorker, io>>
  BY <1>8 DEF vars, bankVars, imageVars, resetVars, ownVars
<1>9. ASSUME ImageIoStep
      PROVE  /\ UNCHANGED <<resetVars, resetFrameMap, ownVars>>
             /\ Image!SwapBuffers \/ Image!NotifyFull \/ Image!NotifyPart
  BY <1>9 DEF ImageIoStep, Image!IoStep
<1>10. ASSUME ResetWorkerStep
       PROVE  /\ UNCHANGED <<imageVars, ownVars>>
              /\ \/ Reset!WorkerWait \/ Reset!WorkerLock \/ Reset!SpuriousWakeup
                 \/ Reset!ExchangeBuffers \/ Reset!FileFrame
  BY <1>10 DEF ResetWorkerStep, Reset!WorkerStep
<1> QED
  BY <1>1, <1>2, <1>3, <1>4, <1>5, <1>6, <1>7, <1>8, <1>9, <1>10 DEF Next

LEMMA NothingHandedStep ==
  ASSUME Types, NothingHanded, [Next]_vars
  PROVE  NothingHanded'
<1>1. CASE Image!SwapBuffers
  <2>1. handed' # <<>>
    <3>1. [frame |-> frameNumber, data |-> mem[subFrames]] \in Records
      BY RecordOfBank DEF Types, PoolTypes, ImageTypes
    <3>2. handed' = Append(handed, [frame |-> frameNumber, data |-> mem[subFrames]])
      BY <1>1 DEF Image!SwapBuffers
    <3>3. Len(handed') = Len(handed) + 1 /\ Len(handed) \in Nat
      BY <3>1, <3>2, AppendProperties, LenProperties DEF Types, LogTypes
    <3> QED
      BY <3>3
  <2> QED
    BY <2>1 DEF NothingHanded
<1>2. CASE ProcessFrame
  BY <1>2 DEF ProcessFrame, Image!ProcessFrame, NothingHanded
<1>3. CASE Reset!ExchangeBuffers /\ UNCHANGED <<imageVars, ownVars>>
  BY <1>3, ExchangeApart DEF imageVars, NothingHanded
<1>4. CASE Reset!FileFrame /\ UNCHANGED <<imageVars, ownVars>>
  BY <1>4, FileApart DEF imageVars, NothingHanded
<1>5. CASE /\ UNCHANGED <<bankVars, handed, delivered, corrected, filed,
                          resetFrameMap>>
           /\ resetWorker' = "copying" <=> resetWorker = "copying"
           /\ io' \in {"fullSwapped", "partSwapped"} => io' = io
  BY <1>5 DEF NothingHanded, bankVars, FillingApart, CopyApart, FreeOnce, IsFree
<1> QED
  BY <1>1, <1>2, <1>3, <1>4, <1>5, StepsOnBanks

(* Until the first image is handed over the reset path alone, which        *)
(* exchanges its buffers under resetAccess_, never fills a bank that is    *)
(* free or being filed, however slow its threads are.                      *)
THEOREM ResetBuffersApart == Spec => []ResetBanksApart
<1>1. Init => NothingHanded
  BY DEF Init, NothingHanded, FillingApart, CopyApart, FreeOnce, IsFree
<1>2. NothingHanded => ResetBanksApart
  BY SamePool DEF NothingHanded, ResetBanksApart, Reset!NoSharedBank, FillingApart,
     CopyApart
<1> QED
  BY <1>1, <1>2, TypesHold, NothingHandedStep, PTL DEF Spec

-----------------------------------------------------------------------------
(* The workers keep up: a frame is closed when the worker of its path      *)
(* waits, whatever the other worker does.  And they are woken by a         *)
(* notification only.                                                      *)
KeepingUp == KeepsUp /\ MaxSpurious = 0

(* From the closing of a frame to the notification its worker waits.       *)
InTime ==
  /\ io # "idle" => worker = "waiting" /\ checks = {}
  /\ resetIo \in {"full", "part", "fullSet", "partSet"} => resetWorker = "waiting"
  /\ resetIo = "copy" /\ resetChecks = Slots => resetWorker = "waiting"
  /\ resetIo \in {"part", "partSet"} => resetChecks = {}

(* From the swap to the end of processFrame() the frame thread owns the    *)
(* bank it was given.  The reset thread may be filing meanwhile, and the   *)
(* io thread copying a reset packet.                                       *)
WorkerOwns == io \in {"fullSwapped", "partSwapped"} \/ worker \in {"woken", "holding"}
OwnedApart ==
  WorkerOwns =>
    /\ subFrameBuffers # subFrames /\ subFrameBuffers # resetSubFrames
    /\ ~IsFree(subFrameBuffers) /\ subFrameBuffers # NoBank
BothApart == WorkerOwns /\ resetWorker = "copying" => resetFrameBuffers # subFrameBuffers
TargetApart ==
  resetIo = "copy" =>
    resetTarget # subFrames /\ (WorkerOwns => resetTarget # subFrameBuffers)
BanksApart == FillingApart /\ CopyApart /\ OwnedApart /\ BothApart /\ TargetApart

(* Every step is in time.                                                  *)
LEMMA ImagePacketInTime ==
  ASSUME KeepingUp, Types, InTime, NEW p \in Packets, ImagePacket(p)
  PROVE  InTime' /\ (WorkerOwns' => WorkerOwns)
<1>1. /\ Image!Arrival(p) /\ worker' = worker /\ io = "idle"
      /\ Image!ClosesFrame(p) => worker = "waiting"
      /\ resetIo = "idle" /\ resetIo' = resetIo /\ resetWorker' = resetWorker
  BY DEF KeepingUp, ImagePacket, Image!Arrival, Image!PacketReceived,
     Image!FirstPacket, Image!LatePacket, Image!FramePacket, Image!EarlyPacket,
     resetVars
<1>2. \/ io' = "idle"
      \/ io' \in {"full", "part"} /\ Image!ClosesFrame(p) /\ checks' = {}
  <2>1. CASE Image!FirstPacket(p)
    BY <2>1 DEF Image!FirstPacket, Image!StorePacket, Image!ClosesFrame
  <2>2. CASE Image!LatePacket(p)
    BY <1>1, <2>2 DEF Image!LatePacket
  <2>3. CASE Image!FramePacket(p)
    BY <2>3 DEF Image!FramePacket, Image!StorePacket, Image!ClosesFrame
  <2>4. CASE Image!EarlyPacket(p)
    BY <2>4 DEF Image!EarlyPacket, Image!ClosesFrame
  <2> QED
    BY <2>1, <2>2, <2>3, <2>4 DEF ImagePacket, Image!PacketReceived
<1> QED
  BY <1>1, <1>2 DEF InTime, WorkerOwns

LEMMA ResetPacketInTime ==
  ASSUME KeepingUp, InTime, NEW p \in Packets, ResetPacket(p)
  PROVE  InTime' /\ (WorkerOwns' => WorkerOwns)
<1>1. /\ io = "idle" /\ io' = io /\ worker' = worker /\ checks' = checks
      /\ resetIo = "idle" /\ resetWorker' = resetWorker
      /\ Reset!ClosesFrame(p) => resetWorker = "waiting"
  BY DEF KeepingUp, ResetPacket, imageVars, Reset!PacketReceived, Reset!FirstPacket,
     Reset!LatePacket, Reset!FramePacket, Reset!EarlyPacket, Reset!Arrival
<1>2. \/ resetIo' = "idle"
      \/ /\ resetIo' = "copy"
         /\ resetChecks' = Slots => Reset!ClosesFrame(p)
      \/ resetIo' = "part" /\ resetChecks' = {} /\ Reset!ClosesFrame(p)
  <2>1. CASE Reset!FirstPacket(p)
    BY <2>1 DEF Reset!FirstPacket, Reset!FlagPacket, Reset!ClosesFrame, Reset!checkAll
  <2>2. CASE Reset!LatePacket(p)
    BY <1>1, <2>2 DEF Reset!LatePacket
  <2>3. CASE Reset!FramePacket(p)
    BY <2>3 DEF Reset!FramePacket, Reset!FlagPacket, Reset!ClosesFrame, Reset!checkAll
  <2>4. CASE Reset!EarlyPacket(p)
    BY <2>4 DEF Reset!EarlyPacket, Reset!ClosesFrame
  <2> QED
    BY <2>1, <2>2, <2>3, <2>4 DEF ResetPacket, Reset!PacketReceived
<1> QED
  BY <1>1, <1>2 DEF InTime, WorkerOwns

LEMMA ImageIoInTime ==
  ASSUME Types, InTime, ImageIoStep
  PROVE  InTime' /\ (WorkerOwns' => WorkerOwns \/ Image!SwapBuffers)
<1>1. UNCHANGED <<resetIo, resetWorker, resetChecks>> /\ io # "idle" /\ resetIo = "idle"
  BY DEF ImageIoStep, resetVars, Image!IoStep, Image!SwapBuffers, Image!NotifyFull,
     Image!NotifyPart, Types
<1>2. CASE Image!SwapBuffers
  BY <1>1, <1>2 DEF Image!SwapBuffers, InTime
<1>3. CASE Image!NotifyFull
  BY <1>1, <1>3 DEF Image!NotifyFull, Image!NotifyOne, InTime, WorkerOwns
<1>4. CASE Image!NotifyPart
  <2>1. Image!StorePacket(pkt) /\ checks = {} /\ pkt \in Packets
    BY <1>1, <1>4 DEF Image!NotifyPart, InTime, Types, ImageTypes
  <2>2. {pkt.slot} # Slots
    BY Basics
  <2>3. io' = "idle"
    BY <2>1, <2>2 DEF Image!StorePacket, Image!checkAll
  <2> QED
    BY <1>1, <1>4, <2>3 DEF Image!NotifyPart, Image!NotifyOne, InTime, WorkerOwns
<1> QED
  BY <1>2, <1>3, <1>4 DEF ImageIoStep, Image!IoStep

LEMMA ResetIoInTime ==
  ASSUME Types, InTime, ResetIoStep
  PROVE  InTime' /\ (WorkerOwns' => WorkerOwns)
<1>1. UNCHANGED <<io, worker, checks>> /\ io = "idle"
  BY DEF ResetIoStep, imageVars, Types, Reset!IoStep, Reset!CopyPacket,
     Reset!PublishNumber, Reset!NotifyFull, Reset!NotifyPart
<1>2. CASE Reset!CopyPacket
  BY <1>1, <1>2 DEF Reset!CopyPacket, Reset!checkAll, InTime, WorkerOwns
<1>3. CASE Reset!PublishNumber
  BY <1>1, <1>3 DEF Reset!PublishNumber, Reset!control, InTime, WorkerOwns
<1>4. CASE Reset!NotifyFull
  BY <1>1, <1>4 DEF Reset!NotifyFull, InTime, WorkerOwns
<1>5. CASE Reset!NotifyPart
  <2>1. resetChecks = {} /\ resetPkt \in Packets
    BY <1>5 DEF Reset!NotifyPart, InTime, Types, ResetTypes
  <2>2. {resetPkt.slot} # Slots
    BY Basics
  <2>3. resetChecks' # Slots /\ resetIo' = "copy"
    BY <1>5, <2>1, <2>2 DEF Reset!NotifyPart, Reset!FlagPacket
  <2> QED
    BY <1>1, <2>3 DEF InTime, WorkerOwns
<1> QED
  BY <1>2, <1>3, <1>4, <1>5 DEF ResetIoStep, Reset!IoStep

LEMMA WorkersInTime ==
  ASSUME KeepingUp, Types, InTime, FrameWorkerStep \/ ResetWorkerStep
  PROVE  InTime' /\ (WorkerOwns' => WorkerOwns)
<1>1. UNCHANGED <<resetIo, resetChecks, io, checks>>
  BY DEF FrameWorkerStep, resetVars, Image!WorkerWait, Image!WorkerLock,
     Image!SpuriousWakeup, Image!ProcessNothing, ResetWorkerStep, imageVars,
     Reset!WorkerStep, Reset!WorkerWait, Reset!WorkerLock, Reset!ExchangeBuffers,
     Reset!FileFrame, Reset!SpuriousWakeup, Reset!control
<1>2. ~ Image!SpuriousWakeup /\ ~ Reset!SpuriousWakeup
  BY DEF Image!SpuriousWakeup, Reset!SpuriousWakeup, KeepingUp, Types, ImageTypes,
     ResetTypes, Nets, ResetNets
<1>3. CASE FrameWorkerStep
  BY <1>1, <1>2, <1>3 DEF FrameWorkerStep, resetVars, Image!WorkerWait,
     Image!WorkerLock, Image!ProcessNothing, InTime, WorkerOwns
<1>4. CASE ResetWorkerStep
  BY <1>1, <1>2, <1>4 DEF ResetWorkerStep, imageVars, Reset!WorkerStep,
     Reset!WorkerWait, Reset!WorkerLock, Reset!ExchangeBuffers, Reset!FileFrame,
     InTime, WorkerOwns
<1> QED
  BY <1>3, <1>4

LEMMA InTimeStep ==
  ASSUME KeepingUp, Types, InTime, [Next]_vars
  PROVE  InTime' /\ (WorkerOwns' => WorkerOwns \/ Image!SwapBuffers)
<1>1. CASE Timeout
  BY <1>1 DEF Timeout, Image!Timeout, resetVars, InTime, WorkerOwns
<1>2. CASE ProcessFrame
  BY <1>2 DEF ProcessFrame, Image!ProcessFrame, resetVars, InTime, WorkerOwns
<1>3. CASE UNCHANGED vars
  BY <1>3 DEF vars, imageVars, resetVars, InTime, WorkerOwns
<1> QED
  BY <1>1, <1>2, <1>3, ImagePacketInTime, ResetPacketInTime, ImageIoInTime,
     ResetIoInTime, WorkersInTime DEF Next

(* SwapBuffers and ProcessFrame move banks between their users;            *)
LEMMA SwapApart ==
  ASSUME Types, InTime, BanksApart, Image!SwapBuffers, UNCHANGED resetVars
  PROVE  BanksApart'
<1>1. PICK bank \in 1 .. Len(mem) + 1 : Allocate(bank) /\ subFrames' = bank
  BY SamePool DEF Image!SwapBuffers
<1>2. /\ PoolOK(Tags) /\ FreeOnce /\ Len(mem) \in Nat
      /\ subFrames \in 1 .. Len(mem) /\ resetSubFrames \in 1 .. Len(mem)
      /\ subFrameBuffers' = subFrames /\ resetSubFrames' = resetSubFrames
      /\ resetFrameBuffers' = resetFrameBuffers /\ resetWorker' = resetWorker
      /\ resetIo' = "idle"
  BY LenProperties DEF Types, PoolTypes, PoolOK, BanksApart, FillingApart,
     Image!SwapBuffers, resetVars
<1>3. /\ FreeOnce' /\ ~ IsFree(bank)'
      /\ \A b : IsFree(b)' => IsFree(b)
      /\ bank = Len(mem) + 1 \/ IsFree(bank)
  BY <1>1, <1>2, Basics, AllocateTakesFree
<1>4. /\ bank # subFrames /\ bank # resetSubFrames
      /\ ~ IsFree(subFrames) /\ ~ IsFree(resetSubFrames) /\ subFrames # resetSubFrames
  BY <1>2, <1>3 DEF BanksApart, FillingApart
<1>5. ~ IsFree(resetSubFrames)' /\ ~ IsFree(subFrameBuffers)' /\ ~ IsFree(subFrames)'
  BY <1>1, <1>2, <1>3, <1>4, Zenon DEF IsFree
<1>6. ASSUME resetWorker = "copying"
      PROVE  /\ resetFrameBuffers # resetSubFrames /\ resetFrameBuffers # subFrames
             /\ resetFrameBuffers # bank /\ ~ IsFree(resetFrameBuffers)'
  <2>1. resetFrameBuffers \in 1 .. Len(mem)
    BY <1>6 DEF Types, PoolTypes, NoBank
  <2>2. /\ ~ IsFree(resetFrameBuffers)
        /\ resetFrameBuffers # resetSubFrames /\ resetFrameBuffers # subFrames
    BY <1>6 DEF BanksApart, CopyApart
  <2>3. ~ IsFree(resetFrameBuffers)'
    BY <1>2, <1>3, <2>2, Zenon DEF IsFree
  <2> QED
    BY <1>2, <1>3, <2>1, <2>2, <2>3
<1>7. FillingApart'
  BY <1>1, <1>2, <1>3, <1>4, <1>5 DEF FillingApart
<1>8. CopyApart'
  BY <1>1, <1>2, <1>6 DEF CopyApart, IsFree
<1>9. OwnedApart' /\ BothApart' /\ TargetApart'
  BY <1>1, <1>2, <1>4, <1>5, <1>6 DEF OwnedApart, BothApart, TargetApart, NoBank
<1> QED
  BY <1>7, <1>8, <1>9 DEF BanksApart

LEMMA ProcessApart ==
  ASSUME Types, InTime, BanksApart, ProcessFrame
  PROVE  /\ BanksApart'
         /\ mem'[resetSubFrames] = mem[resetSubFrames]
         /\ resetWorker = "copying" => mem'[resetFrameBuffers] = mem[resetFrameBuffers]
<1>1. /\ subFrameBuffers \in 1 .. Len(mem) /\ Release(subFrameBuffers)
      /\ worker = "holding" /\ worker' = "relock" /\ io' = io /\ io = "idle"
      /\ UNCHANGED <<resetSubFrames, subFrames, subFrameBuffers, resetWorker,
                     resetFrameBuffers, resetIo, resetTarget>>
      /\ resetSubFrames \in 1 .. Len(mem) /\ PoolOK(Tags)
  BY SamePool DEF Types, PoolTypes, NoBank, ProcessFrame, Image!ProcessFrame,
     resetVars, InTime
<1>2. /\ ~ IsFree(subFrameBuffers) /\ subFrameBuffers # subFrames
      /\ subFrameBuffers # resetSubFrames
      /\ resetWorker = "copying" => resetFrameBuffers # subFrameBuffers
  BY <1>1 DEF BanksApart, OwnedApart, BothApart, WorkerOwns
<1>3. /\ \A b : IsFree(b)' <=> IsFree(b) \/ b = subFrameBuffers
      /\ FreeOnce'
      /\ \A b \in 1 .. Len(mem) : b # subFrameBuffers => mem'[b] = mem[b]
  BY <1>1, <1>2, Basics, ReleaseAddsFree DEF BanksApart, FillingApart
<1>4. ~ IsFree(subFrames)' /\ ~ IsFree(resetSubFrames)'
  BY <1>1, <1>2, <1>3, Zenon DEF BanksApart, FillingApart, IsFree
<1>5. resetWorker = "copying" => ~ IsFree(resetFrameBuffers)'
  BY <1>1, <1>2, <1>3, Zenon DEF BanksApart, CopyApart, IsFree
<1>6. resetWorker = "copying" => resetFrameBuffers \in 1 .. Len(mem)
  BY DEF Types, PoolTypes, NoBank
<1>7. FillingApart' /\ CopyApart'
  BY <1>1, <1>3, <1>4, <1>5 DEF BanksApart, FillingApart, CopyApart
<1>8. OwnedApart' /\ BothApart' /\ TargetApart'
  BY <1>1 DEF BanksApart, OwnedApart, BothApart, TargetApart, WorkerOwns
<1> QED
  BY <1>1, <1>2, <1>3, <1>6, <1>7, <1>8 DEF BanksApart

(* ExchangeBuffers and FileFrame those of the reset thread, while the      *)
(* frame thread may own one;                                               *)
LEMMA ExchangeKeepsApart ==
  ASSUME Types, BanksApart, Reset!ExchangeBuffers, UNCHANGED imageVars
  PROVE  BanksApart'
<1>1. /\ FillingApart' /\ CopyApart'
      /\ \A b \in 1 .. Len(mem) : ~ IsFree(b) => ~ IsFree(b)' /\ resetSubFrames' # b
  BY ExchangeApart DEF BanksApart, imageVars
<1>2. /\ UNCHANGED <<subFrames, subFrameBuffers, resetIo, resetTarget>>
      /\ WorkerOwns' <=> WorkerOwns
      /\ resetFrameBuffers' = resetSubFrames
  BY DEF imageVars, Reset!ExchangeBuffers, WorkerOwns
<1>3. WorkerOwns => subFrameBuffers \in 1 .. Len(mem)
  BY DEF BanksApart, OwnedApart, Types, PoolTypes, NoBank
<1>4. OwnedApart'
  BY <1>1, <1>2, <1>3 DEF BanksApart, OwnedApart, IsFree
<1>5. BothApart' /\ TargetApart'
  BY <1>2 DEF BanksApart, OwnedApart, BothApart, TargetApart
<1> QED
  BY <1>1, <1>4, <1>5 DEF BanksApart

LEMMA FileKeepsApart ==
  ASSUME Types, BanksApart, Reset!FileFrame, UNCHANGED imageVars
  PROVE  BanksApart'
<1>1. /\ FillingApart' /\ CopyApart'
      /\ \A b : ~ IsFree(b) /\ b # resetFrameBuffers => ~ IsFree(b)'
  BY FileApart DEF BanksApart, imageVars
<1>2. /\ UNCHANGED <<subFrames, subFrameBuffers, resetIo, resetTarget,
                     resetSubFrames>>
      /\ WorkerOwns' <=> WorkerOwns
      /\ resetWorker = "copying" /\ resetWorker' = "relock"
  BY DEF imageVars, Reset!FileFrame, WorkerOwns
<1>3. OwnedApart'
  BY <1>1, <1>2 DEF BanksApart, OwnedApart, BothApart, IsFree
<1>4. BothApart' /\ TargetApart'
  BY <1>2 DEF BanksApart, BothApart, TargetApart
<1> QED
  BY <1>1, <1>3, <1>4 DEF BanksApart

(* and the copy of a packet goes where the io thread was going, or to the  *)
(* bank being filled.                                                      *)
LEMMA TargetKept ==
  ASSUME [Next]_vars, resetIo' = "copy"
  PROVE  \/ resetIo = "copy" /\ resetTarget' = resetTarget
         \/ resetTarget' = resetSubFrames
<1>1. CASE UNCHANGED <<resetIo, resetTarget>>
  BY <1>1
<1>2. ASSUME NEW p \in Packets, ResetPacket(p)
      PROVE  resetTarget' = resetSubFrames
  BY <1>2 DEF ResetPacket, Reset!PacketReceived, Reset!FirstPacket,
     Reset!LatePacket, Reset!FramePacket, Reset!EarlyPacket, Reset!FlagPacket,
     Reset!Arrival
<1>3. ASSUME ResetIoStep PROVE resetTarget' = resetSubFrames
  BY <1>3 DEF ResetIoStep, Reset!IoStep, Reset!CopyPacket, Reset!PublishNumber,
     Reset!NotifyFull, Reset!NotifyPart, Reset!FlagPacket
<1>4. ASSUME \/ \E p \in Packets : ImagePacket(p)
             \/ Timeout \/ ImageIoStep \/ FrameWorkerStep \/ ProcessFrame
             \/ ResetWorkerStep \/ UNCHANGED vars
      PROVE  UNCHANGED <<resetIo, resetTarget>>
  BY <1>4 DEF ImagePacket, Timeout, ImageIoStep, FrameWorkerStep, ProcessFrame,
     ResetWorkerStep, vars, resetVars, Reset!WorkerStep, Reset!WorkerWait,
     Reset!WorkerLock, Reset!ExchangeBuffers, Reset!FileFrame, Reset!SpuriousWakeup
<1> QED
  BY <1>1, <1>2, <1>3, <1>4 DEF Next

(* The other steps leave the banks where they are.                         *)
LEMMA ApartStep ==
  ASSUME KeepingUp, Types, InTime, BanksApart, [Next]_vars
  PROVE  BanksApart'
<1>1. CASE Image!SwapBuffers /\ UNCHANGED <<resetVars, resetFrameMap, ownVars>>
  BY <1>1, SwapApart
<1>2. CASE ProcessFrame
  BY <1>2, ProcessApart
<1>3. CASE Reset!ExchangeBuffers /\ UNCHANGED <<imageVars, ownVars>>
  BY <1>3, ExchangeKeepsApart
<1>4. CASE Reset!FileFrame /\ UNCHANGED <<imageVars, ownVars>>
  BY <1>4, FileKeepsApart
<1>5. CASE /\ UNCHANGED bankVars /\ ~ Image!SwapBuffers
           /\ resetWorker' = "copying" <=> resetWorker = "copying"
  <2>1. WorkerOwns' => WorkerOwns
    BY <1>5, InTimeStep
  <2>2. FillingApart' /\ CopyApart' /\ OwnedApart' /\ BothApart'
    BY <1>5, <2>1 DEF bankVars, BanksApart, FillingApart, CopyApart, OwnedApart,
       BothApart, FreeOnce, IsFree
  <2>3. TargetApart'
    BY <1>5, <2>1, TargetKept DEF bankVars, BanksApart, FillingApart, OwnedApart,
       TargetApart
  <2> QED
    BY <2>2, <2>3 DEF BanksApart
<1>6. ASSUME UNCHANGED bankVars, Image!SwapBuffers PROVE FALSE
  <2>1. PICK bank \in 1 .. Len(mem) + 1 : Allocate(bank) /\ subFrames' = bank
    BY <1>6, SamePool DEF Image!SwapBuffers
  <2>2. bank = Len(mem) + 1 \/ IsFree(bank)
    BY <2>1, Basics, AllocateTakesFree DEF Types, PoolTypes, BanksApart,
       FillingApart
  <2>3. bank = subFrames
    BY <1>6, <2>1 DEF bankVars
  <2> QED
    BY <2>2, <2>3, LenProperties DEF Types, PoolTypes, PoolOK, BanksApart,
       FillingApart
<1> QED
  BY <1>1, <1>2, <1>3, <1>4, <1>5, <1>6, StepsOnBanks

(* Both together are inductive.                                            *)
LEMMA InTimeHolds == ASSUME KeepingUp PROVE Spec => [](InTime /\ BanksApart)
<1>1. Init => InTime /\ BanksApart
  BY DEF Init, InTime, BanksApart, FillingApart, CopyApart, OwnedApart, BothApart,
     TargetApart, WorkerOwns, FreeOnce, IsFree
<1>2. Types /\ (InTime /\ BanksApart) /\ [Next]_vars => (InTime /\ BanksApart)'
  BY InTimeStep, ApartStep
<1> QED
  BY <1>1, <1>2, TypesHold, PTL DEF Spec

(* With workers that keep up no bank of the pool is free and in use, or in *)
(* two uses: being filled with an image, with a reset frame, being         *)
(* processed, being filed, though both threads may be at work and packets  *)
(* of both kinds arrive meanwhile.  Nor does a reset packet go to a bank   *)
(* of an image, though the bank it is copied to may have been exchanged    *)
(* and released since its address was read.                                *)
THEOREM BuffersApart == ASSUME KeepingUp PROVE Spec => []NoSharedBank
<1>1. InTime /\ BanksApart => NoSharedBank
  <2> SUFFICES ASSUME InTime, BanksApart PROVE NoSharedBank
    OBVIOUS
  <2>1. Image!WorkerOwns <=> WorkerOwns
    BY DEF Image!WorkerOwns, WorkerOwns
  <2>2. Image!NoSharedBank
    BY <2>1, SamePool DEF Image!NoSharedBank, BanksApart, FillingApart, OwnedApart
  <2>3. Reset!NoSharedBank
    BY SamePool DEF Reset!NoSharedBank, BanksApart, FillingApart, CopyApart
  <2> QED
    BY <2>1, <2>2, <2>3 DEF NoSharedBank, BanksApart, FillingApart, OwnedApart,
       CopyApart, BothApart, TargetApart
<1> QED
  BY <1>1, InTimeHolds, PTL

-----------------------------------------------------------------------------
(* Contents of the reset frames *)

(* The default of SIGINT, with which a gap ends the program and no frame   *)
(* follows an incomplete one; and a sender that leaves the reset thread    *)
(* the time to wake up, without which the next reset frame is written over *)
(* the one it is about to take.                                            *)
Fatal == KeepingUp /\ Spaced /\ SigintFatal

(* A frame that is closed incomplete is the last thing the server does.    *)
EndsAtGap ==
  /\ io \in {"part", "partSwapped"} => ~alive
  /\ resetIo \in {"part", "partSet"} => ~alive

(* All places of a bank are of reset frame n.                              *)
Whole(data, n) == \A s \in Slots : data[s] = Reset!ResetTag(n)

(* The flags say what is in the bank being filled, and a bank that is      *)
(* closed, handed over or copied is whole, and of the number published     *)
(* with it. resetChecks is empty until the buffers are exchanged, or it    *)
(* would speak of the bank that the reset thread takes; after that the     *)
(* next frame may be collected while this one is filed.                    *)
ResetCollected ==
  /\ \/ expectNewResetFrame
     \/ resetIo \in {"full", "part", "fullSet"}
     \/ resetWorker \in {"woken", "locked"}
     => resetChecks = {}
  /\ resetWorker \in {"woken", "locked"} => resetIo = "idle"
  /\ \A s \in resetChecks :
       \/ resetIo = "copy" /\ s = resetPkt.slot
       \/ mem[resetSubFrames][s] = Reset!ResetTag(resetFrameNumber)
  /\ resetIo = "copy" => resetTarget = resetSubFrames /\ resetPkt.frame = resetFrameNumber
                         /\ ~expectNewResetFrame
  /\ resetIo \in {"full", "fullSet"} => Whole(mem[resetSubFrames], resetFrameNumber)
  /\ resetIo = "fullSet" => processResetFrameNumber = resetFrameNumber
  /\ resetWorker \in {"woken", "locked"} => Whole(mem[resetSubFrames], processResetFrameNumber)
  /\ resetWorker = "copying" => Whole(mem[resetFrameBuffers], processResetFrameNumber)

(* So is every frame in resetFrameMap_, and every one used.                *)
FiledWhole ==
  /\ \A f \in DOMAIN resetFrameMap : Whole(resetFrameMap[f], f)
  /\ \A i \in DOMAIN corrected :
       corrected[i].reset = NoReset \/ Whole(corrected[i].reset, corrected[i].frame)

(* Every step keeps EndsAtGap                                              *)
LEMMA EndsAtGapStep ==
  ASSUME Fatal, EndsAtGap, [Next]_vars
  PROVE  EndsAtGap'
<1> USE DEF Fatal
<1>1. ASSUME NEW p \in Packets, ImagePacket(p) PROVE EndsAtGap'
  <2>1. resetIo' = resetIo /\ resetIo = "idle"
    BY <1>1 DEF ImagePacket, resetVars
  <2>2. io' \in {"idle", "full"} \/ ~ alive'
    BY <1>1, Zenon DEF ImagePacket, Image!PacketReceived, Image!FirstPacket,
       Image!LatePacket, Image!FramePacket, Image!EarlyPacket, Image!StorePacket,
       Image!Arrival
  <2> QED
    BY <2>1, <2>2 DEF EndsAtGap
<1>2. ASSUME NEW p \in Packets, ResetPacket(p) PROVE EndsAtGap'
  <2>1. io' = io /\ io = "idle"
    BY <1>2 DEF ResetPacket, imageVars
  <2>2. resetIo' \in {"idle", "copy"} \/ ~ alive'
    BY <1>2, Zenon DEF ResetPacket, Reset!PacketReceived, Reset!FirstPacket,
       Reset!LatePacket, Reset!FramePacket, Reset!EarlyPacket, Reset!FlagPacket,
       Reset!Arrival
  <2> QED
    BY <2>1, <2>2 DEF EndsAtGap
<1>3. CASE Timeout
  BY <1>3 DEF Timeout, Image!Timeout, resetVars, EndsAtGap
<1>4. CASE ImageIoStep
  <2>1. UNCHANGED <<resetIo, alive>> /\ alive
    BY <1>4 DEF ImageIoStep, resetVars, Image!IoStep, Image!SwapBuffers,
       Image!NotifyFull, Image!NotifyPart
  <2>2. io' \in {"idle", "full", "fullSwapped"}
    BY <1>4 DEF ImageIoStep, Image!IoStep, Image!SwapBuffers, Image!NotifyFull,
       Image!NotifyPart, EndsAtGap
  <2> QED
    BY <2>1, <2>2 DEF EndsAtGap
<1>5. CASE ResetIoStep
  <2>1. UNCHANGED <<io, alive>> /\ alive
    BY <1>5 DEF ResetIoStep, imageVars, Reset!IoStep, Reset!CopyPacket,
       Reset!PublishNumber, Reset!NotifyFull, Reset!NotifyPart
  <2>2. resetIo' \in {"idle", "full", "fullSet"}
    BY <1>5, Zenon DEF ResetIoStep, Reset!IoStep, Reset!CopyPacket,
       Reset!PublishNumber, Reset!NotifyFull, Reset!NotifyPart, EndsAtGap
  <2> QED
    BY <2>1, <2>2 DEF EndsAtGap
<1>6. CASE FrameWorkerStep
  BY <1>6 DEF FrameWorkerStep, Image!WorkerWait, Image!WorkerLock,
     Image!SpuriousWakeup, Image!ProcessNothing, resetVars, EndsAtGap
<1>7. CASE ResetWorkerStep
  BY <1>7 DEF ResetWorkerStep, imageVars, Reset!WorkerStep, Reset!SpuriousWakeup,
     Reset!WorkerWait, Reset!WorkerLock, Reset!ExchangeBuffers, Reset!FileFrame,
     EndsAtGap
<1>8. CASE ProcessFrame
  BY <1>8 DEF ProcessFrame, Image!ProcessFrame, resetVars, EndsAtGap
<1>9. CASE UNCHANGED vars
  BY <1>9 DEF vars, imageVars, resetVars, EndsAtGap
<1> QED
  BY <1>1, <1>2, <1>3, <1>4, <1>5, <1>6, <1>7, <1>8, <1>9 DEF Next

resetState == <<expectNewResetFrame, resetFrameNumber, resetChecks, resetSubFrames,
                resetFrameBuffers,
                processResetFrameNumber, resetIo, resetPkt, resetTarget>>

(* and ResetCollected: a step that leaves reset path and its banks alone,  *)
LEMMA CollectedKept ==
  ASSUME ResetCollected, UNCHANGED resetState,
         \/ resetWorker' = resetWorker
         \/ resetWorker' \in {"relock", "waiting"}
         \/ resetWorker = "woken" /\ resetWorker' = "locked",
         mem'[resetSubFrames] = mem[resetSubFrames],
         resetWorker = "copying" => mem'[resetFrameBuffers] = mem[resetFrameBuffers]
  PROVE  ResetCollected'
<1>1. /\ UNCHANGED <<expectNewResetFrame, resetFrameNumber, resetChecks,
                     resetSubFrames, resetFrameBuffers, processResetFrameNumber,
                     resetIo, resetPkt, resetTarget>>
  BY DEF resetState
<1> QED
  BY <1>1 DEF ResetCollected, Whole

(* The io thread stores image packets in a bank of their own. *)
LEMMA ImageStoredApart ==
  ASSUME Types, BanksApart, NEW p \in Packets, Image!StorePacket(p),
         freeBuffers' = freeBuffers
  PROVE  /\ mem'[resetSubFrames] = mem[resetSubFrames]
         /\ resetWorker = "copying" => mem'[resetFrameBuffers] = mem[resetFrameBuffers]
<1>1. \A b \in 1 .. Len(mem) : b # subFrames => mem'[b] = mem[b]
  BY ImageStored DEF Types
<1>2. /\ resetSubFrames \in 1 .. Len(mem) /\ resetSubFrames # subFrames
      /\ resetWorker = "copying" =>
           resetFrameBuffers \in 1 .. Len(mem) /\ resetFrameBuffers # subFrames
  BY DEF Types, PoolTypes, NoBank, BanksApart, FillingApart, CopyApart
<1> QED
  BY <1>1, <1>2

(* each step of the image path,                                            *)
LEMMA ImageKeepsBanks ==
  ASSUME Types, InTime, BanksApart,
         \/ \E p \in Packets : ImagePacket(p)
         \/ ImageIoStep \/ Timeout \/ FrameWorkerStep \/ ProcessFrame
  PROVE  /\ mem'[resetSubFrames] = mem[resetSubFrames]
         /\ resetWorker = "copying" => mem'[resetFrameBuffers] = mem[resetFrameBuffers]
<1>1. ASSUME NEW p \in Packets, ImagePacket(p)
      PROVE  /\ mem'[resetSubFrames] = mem[resetSubFrames]
             /\ resetWorker = "copying" => mem'[resetFrameBuffers] = mem[resetFrameBuffers]
  <2>1. \/ mem' = mem
        \/ Image!StorePacket(p) /\ freeBuffers' = freeBuffers
    BY <1>1 DEF ImagePacket, Image!PacketReceived, Image!FirstPacket,
       Image!LatePacket, Image!FramePacket, Image!EarlyPacket, Image!bufferVars
  <2> QED
    BY <2>1, ImageStoredApart
<1>2. ASSUME ImageIoStep
      PROVE  /\ mem'[resetSubFrames] = mem[resetSubFrames]
             /\ resetWorker = "copying" => mem'[resetFrameBuffers] = mem[resetFrameBuffers]
  <2>1. CASE Image!SwapBuffers
    <3>1. PICK bank \in 1 .. Len(mem) + 1 : Allocate(bank)
      BY <2>1, SamePool DEF Image!SwapBuffers
    <3>2. \A b \in 1 .. Len(mem) : mem'[b] = mem[b]
      BY <3>1, Basics, AllocateKeepsPool, Zenon DEF Types, PoolTypes
    <3> QED
      BY <3>2 DEF Types, PoolTypes, NoBank
  <2>2. CASE Image!NotifyFull
    BY <2>2 DEF Image!NotifyFull, Image!bufferVars
  <2>3. CASE Image!NotifyPart
    BY <2>3, ImageStoredApart DEF Image!NotifyPart, Types, ImageTypes
  <2> QED
    BY <1>2, <2>1, <2>2, <2>3 DEF ImageIoStep, Image!IoStep
<1>3. ASSUME Timeout \/ FrameWorkerStep PROVE mem' = mem
  BY <1>3 DEF Timeout, FrameWorkerStep, Image!Timeout, Image!WorkerWait,
     Image!WorkerLock, Image!SpuriousWakeup, Image!ProcessNothing, Image!bufferVars
<1>4. ASSUME ProcessFrame
      PROVE  /\ mem'[resetSubFrames] = mem[resetSubFrames]
             /\ resetWorker = "copying" => mem'[resetFrameBuffers] = mem[resetFrameBuffers]
  BY <1>4, ProcessApart
<1> QED
  BY <1>1, <1>2, <1>3, <1>4

LEMMA ImageKeepsCollected ==
  ASSUME Types, InTime, BanksApart, ResetCollected,
         \/ \E p \in Packets : ImagePacket(p)
         \/ ImageIoStep \/ Timeout \/ FrameWorkerStep \/ ProcessFrame
  PROVE  ResetCollected'
<1>1. UNCHANGED resetState /\ resetWorker' = resetWorker
  BY DEF ImagePacket, ImageIoStep, Timeout, FrameWorkerStep, ProcessFrame,
     resetVars, resetState
<1> QED
  BY <1>1, ImageKeepsBanks, CollectedKept

(* and each step of the reset path.                                        *)
LEMMA ResetPacketCollected ==
  ASSUME Fatal, ResetCollected, NEW p \in Packets, ResetPacket(p)
  PROVE  ResetCollected'
<1>1. /\ resetIo = "idle" /\ resetWorker \notin {"woken", "locked"}
      /\ Reset!PacketReceived(p)
      /\ UNCHANGED <<mem, resetSubFrames, resetFrameBuffers,
                     processResetFrameNumber, resetWorker>>
  BY DEF Fatal, ResetPacket, Reset!PacketReceived, Reset!FirstPacket,
     Reset!LatePacket, Reset!FramePacket, Reset!EarlyPacket, Reset!Arrival,
     Reset!banks
<1>2. CASE Reset!FirstPacket(p)
  BY <1>1, <1>2 DEF Reset!FirstPacket, Reset!FlagPacket, ResetCollected
<1>3. CASE Reset!LatePacket(p)
  <2>1. UNCHANGED resetState
    BY <1>1, <1>3 DEF Reset!LatePacket, Reset!control, resetState
  <2> QED
    BY <1>1, <2>1, CollectedKept
<1>4. CASE Reset!FramePacket(p)
  BY <1>1, <1>4 DEF Reset!FramePacket, Reset!FlagPacket, ResetCollected
<1>5. CASE Reset!EarlyPacket(p)
  BY <1>1, <1>5 DEF Reset!EarlyPacket, ResetCollected
<1> QED
  BY <1>1, <1>2, <1>3, <1>4, <1>5 DEF Reset!PacketReceived

LEMMA ResetIoCollected ==
  ASSUME Types, InTime, BanksApart, EndsAtGap, ResetCollected, ResetIoStep
  PROVE  ResetCollected'
<1>1. CASE Reset!CopyPacket
  <2>1. /\ resetIo = "copy" /\ resetTarget = resetSubFrames
        /\ resetWorker \notin {"woken", "locked"}
        /\ resetPkt.frame = resetFrameNumber /\ ~ expectNewResetFrame
        /\ resetPkt.slot \in Slots /\ resetPkt.frame \in Frames
    BY <1>1, PositionTyped DEF Reset!CopyPacket, ResetCollected, Types, ResetTypes
  <2>2. /\ mem'[resetSubFrames] =
             [mem[resetSubFrames] EXCEPT ![resetPkt.slot] = Reset!ResetTag(resetFrameNumber)]
        /\ mem[resetSubFrames] \in [Slots -> Tags]
        /\ \A b \in 1 .. Len(mem) : b # resetSubFrames => mem'[b] = mem[b]
    <3>1. /\ mem' = [mem EXCEPT ![resetTarget][resetPkt.slot] = Reset!ResetTag(resetPkt.frame)]
          /\ freeBuffers' = freeBuffers
      BY <1>1 DEF Reset!CopyPacket
    <3>3. resetTarget \in 1 .. Len(mem) /\ PoolOK(Tags)
      BY DEF Types, PoolTypes
    <3>4. Reset!ResetTag(resetPkt.frame) \in Tags
      BY <2>1, Basics, Zenon
    <3> DEFINE slot == resetPkt.slot
               tag  == Reset!ResetTag(resetPkt.frame)
    <3>2. /\ mem' = [mem EXCEPT ![resetTarget][slot] = tag] /\ slot \in Slots /\ tag \in Tags
      BY <2>1, <3>1, <3>4
    <3> HIDE DEF slot, tag
    <3>6. /\ mem \in Seq([Slots -> Tags]) /\ DOMAIN mem = 1 .. Len(mem)
          /\ mem[resetTarget] \in [Slots -> Tags]
      BY <3>3, LenProperties, ElementOfSeq DEF PoolOK
    <3>5. /\ mem'[resetTarget] = [mem[resetTarget] EXCEPT ![slot] = tag]
          /\ \A b \in 1 .. Len(mem) : b # resetTarget => mem'[b] = mem[b]
      BY <3>2, <3>3, <3>6
    <3> QED
      BY <2>1, <3>5, <3>6 DEF slot, tag
  <2>3. /\ UNCHANGED <<expectNewResetFrame, resetFrameNumber, resetSubFrames,
                       resetFrameBuffers, processResetFrameNumber, resetPkt,
                       resetTarget, resetWorker>>
        /\ \/ resetChecks = Slots /\ resetChecks' = {} /\ resetIo' = "full"
           \/ resetChecks' = resetChecks /\ resetIo' = "idle"
        /\ resetChecks \subseteq Slots
    BY <1>1 DEF Reset!CopyPacket, Reset!checkAll, Types, ResetTypes
  <2>4. \A s \in resetChecks : mem'[resetSubFrames][s] = Reset!ResetTag(resetFrameNumber)
    BY <2>1, <2>2, <2>3 DEF ResetCollected
  <2>5. resetWorker = "copying" => mem'[resetFrameBuffers] = mem[resetFrameBuffers]
    BY <2>2 DEF BanksApart, CopyApart, Types, PoolTypes, NoBank
  <2> QED
    BY <2>1, <2>3, <2>4, <2>5 DEF ResetCollected, Whole
<1>2. CASE Reset!PublishNumber
  <2>1. resetIo = "full" /\ resetWorker = "waiting"
    BY <1>2 DEF Reset!PublishNumber, EndsAtGap, InTime
  <2> QED
    BY <1>2, <2>1 DEF Reset!PublishNumber, Reset!control, Reset!banks,
       ResetCollected, Whole
<1>3. CASE Reset!NotifyFull
  <2>1. resetIo = "fullSet" /\ resetWorker = "waiting"
    BY <1>3 DEF Reset!NotifyFull, InTime
  <2> QED
    BY <1>3, <2>1 DEF Reset!NotifyFull, Reset!NotifyOne, Reset!banks,
       ResetCollected, Whole
<1>4. CASE Reset!NotifyPart
  BY <1>4 DEF Reset!NotifyPart, EndsAtGap
<1> QED
  BY <1>1, <1>2, <1>3, <1>4 DEF ResetIoStep, Reset!IoStep

LEMMA ResetWorkerCollected ==
  ASSUME Fatal, Types, BanksApart, ResetCollected, ResetWorkerStep
  PROVE  ResetCollected'
<1>1. UNCHANGED imageVars
  BY DEF ResetWorkerStep
<1>2. CASE Reset!WorkerWait \/ Reset!WorkerLock
  <2>1. /\ UNCHANGED <<mem, resetState>>
        /\ \/ resetWorker' = "waiting"
           \/ resetWorker = "woken" /\ resetWorker' = "locked"
    BY <1>2 DEF Reset!WorkerWait, Reset!WorkerLock, Reset!banks, Reset!control,
       resetState
  <2> QED
    BY <2>1, CollectedKept DEF resetState
<1>3. CASE Reset!ExchangeBuffers
  <2>1. /\ mem'[resetFrameBuffers'] = mem[resetSubFrames]
    BY <1>1, <1>3, ExchangeApart DEF imageVars, BanksApart
  <2>2. /\ resetWorker = "locked" /\ resetIo = "idle" /\ resetWorker' = "copying"
        /\ UNCHANGED <<expectNewResetFrame, resetFrameNumber, resetChecks,
                       processResetFrameNumber, resetIo, resetPkt, resetTarget>>
    BY <1>3 DEF Reset!ExchangeBuffers, Reset!control, ResetCollected
  <2> QED
    BY <2>1, <2>2 DEF ResetCollected, Whole
<1>4. CASE Reset!FileFrame
  <2>1. /\ \A b \in 1 .. Len(mem) : b # resetFrameBuffers => mem'[b] = mem[b]
        /\ resetWorker' = "relock" /\ resetWorker = "copying"
    BY <1>1, <1>4, FileApart DEF imageVars, BanksApart, Reset!FileFrame
  <2>2. mem'[resetSubFrames] = mem[resetSubFrames]
    BY <2>1 DEF BanksApart, CopyApart, Types, PoolTypes
  <2>3. UNCHANGED resetState
    BY <1>4 DEF Reset!FileFrame, Reset!control, resetState
  <2> QED
    BY <2>1, <2>2, <2>3 DEF ResetCollected, resetState, Whole
<1>5. ~ Reset!SpuriousWakeup
  BY DEF Reset!SpuriousWakeup, Fatal, KeepingUp, Types, ResetTypes, ResetNets
<1> QED
  BY <1>2, <1>3, <1>4, <1>5 DEF ResetWorkerStep, Reset!WorkerStep

LEMMA CollectedStep ==
  ASSUME Fatal, Types, InTime, BanksApart, EndsAtGap, ResetCollected, [Next]_vars
  PROVE  ResetCollected'
<1>1. CASE UNCHANGED vars
  <2>1. UNCHANGED <<mem, resetState, resetWorker>>
    BY <1>1 DEF vars, resetVars, resetState
  <2> QED
    BY <2>1, CollectedKept DEF resetState
<1> QED
  BY <1>1, ImageKeepsCollected, ResetPacketCollected, ResetIoCollected,
     ResetWorkerCollected DEF Next

(* A frame is filed when whole and taken out unchanged.                    *)
LEMMA FiledStep ==
  ASSUME Types, ResetCollected, FiledWhole, [Next]_vars
  PROVE  FiledWhole'
<1>1. CASE Reset!FileFrame /\ UNCHANGED <<imageVars, ownVars>>
  <2>1. /\ Whole(mem[resetFrameBuffers], processResetFrameNumber)
        /\ resetFrameMap' = [f \in DOMAIN resetFrameMap \cup {processResetFrameNumber} |->
             IF f = processResetFrameNumber THEN mem[resetFrameBuffers] ELSE resetFrameMap[f]]
        /\ corrected' = corrected
    BY <1>1 DEF Reset!FileFrame, Reset!MapWith, ResetCollected, ownVars
  <2> QED
    BY <2>1 DEF FiledWhole, Whole
<1>2. CASE ProcessFrame
  <2> DEFINE own == processFrameNumber \in DOMAIN resetFrameMap
             r   == Correction(processFrameNumber,
                      IF own THEN resetFrameMap[processFrameNumber] ELSE NoReset)
  <2>1. /\ corrected' = Append(corrected, r) /\ corrected \in Seq(Corrections)
        /\ \A f \in DOMAIN resetFrameMap' :
             f \in DOMAIN resetFrameMap /\ resetFrameMap'[f] = resetFrameMap[f]
    BY <1>2 DEF ProcessFrame, TakeReset, Types, LogTypes
  <2>2. /\ r \in Corrections /\ r.frame = processFrameNumber
        /\ r.reset = IF own THEN resetFrameMap[processFrameNumber] ELSE NoReset
    BY CorrectionTyped DEF Correction, Types, LogTypes, ImageTypes
  <2> HIDE DEF r
  <2>3. /\ Len(corrected) \in Nat /\ DOMAIN corrected = 1 .. Len(corrected)
        /\ DOMAIN corrected' = 1 .. Len(corrected) + 1
        /\ \A i \in 1 .. Len(corrected) : corrected'[i] = corrected[i]
        /\ corrected'[Len(corrected) + 1] = r
    BY <2>1, <2>2, AppendProperties, LenProperties
  <2>4. r.reset = NoReset \/ Whole(r.reset, r.frame)
    BY <2>2 DEF FiledWhole
  <2>5. ASSUME NEW i \in DOMAIN corrected'
        PROVE  corrected'[i].reset = NoReset \/ Whole(corrected'[i].reset, corrected'[i].frame)
    <3>1. CASE i = Len(corrected) + 1
      BY <2>3, <2>4, <3>1
    <3>2. CASE i \in DOMAIN corrected
      BY <2>3, <3>2 DEF FiledWhole
    <3> QED
      BY <2>3, <3>1, <3>2
  <2> QED
    BY <2>1, <2>5 DEF FiledWhole, Whole
<1>3. CASE UNCHANGED <<resetFrameMap, corrected>>
  BY <1>3 DEF FiledWhole, Whole
<1> QED
  BY <1>1, <1>2, <1>3, StepsOnBanks DEF ownVars, Reset!ExchangeBuffers, Reset!result

LEMMA WholeIsSome ==
  ASSUME NEW n \in Frames, NEW data, Whole(data, n)
  PROVE  data # NoReset
<1>1. data[1] = Reset!ResetTag(n) /\ Reset!ResetTag(n) # Blank /\ NoReset[1] = Blank
  BY Basics DEF Whole, NoReset
<1> QED
  BY <1>1

Collects == EndsAtGap /\ ResetCollected /\ FiledWhole

(* The three together are inductive where the banks are apart.             *)
LEMMA CollectsHolds == ASSUME Fatal PROVE Spec => []Collects
<1>1. Init => Collects
  <2> SUFFICES ASSUME Init PROVE Collects
    OBVIOUS
  <2>1. DOMAIN resetFrameMap = {} /\ DOMAIN corrected = {}
    BY DEF Init
  <2> QED
    BY <2>1 DEF Init, Collects, EndsAtGap, ResetCollected, FiledWhole
<1>2. Types /\ (InTime /\ BanksApart) /\ Collects /\ [Next]_vars => Collects'
  BY EndsAtGapStep, CollectedStep, FiledStep DEF Collects
<1>3. Spec => [](InTime /\ BanksApart)
  BY InTimeHolds DEF Fatal
<1> QED
  BY <1>1, <1>2, <1>3, TypesHold, PTL DEF Spec

(* An image is corrected with a complete reset frame of its own number, or *)
(* with none: never with pixels left from before, nor with those of the    *)
(* next reset frame, which may be collected while this one is filed. If it *)
(* comes before that, and the sender is not Spaced, the theorem is false.  *)
THEOREM OwnReset == ASSUME Fatal PROVE Spec => []CorrectedByOwn
<1>1. Collects => CorrectedByOwn
  BY DEF Collects, FiledWhole, CorrectedByOwn, Whole
<1> QED
  BY <1>1, CollectsHolds, PTL

-----------------------------------------------------------------------------
(* The packets of frame n are all behind the last position received; and   *)
(* no image of number n has been corrected yet.                            *)
Past(n, last) == (n + 1) * NumSlots <= last
NotCorrected(n, log) == \A i \in DOMAIN log : log[i].frame # n

(* An image that has been corrected is behind the last packet received;    *)
(* one that is closed or handed over is too, and its number has not been   *)
(* used before.                                                            *)
ImageOrder ==
  /\ \A i \in DOMAIN corrected : Past(corrected[i].frame, net.last)
  /\ expectNewFrame => checks = {}
  /\ \A s \in checks : frameNumber * NumSlots + s <= net.last
  /\ io = "full" => Past(frameNumber, net.last) /\ NotCorrected(frameNumber, corrected)
  /\ WorkerOwns =>
       Past(processFrameNumber, net.last) /\ NotCorrected(processFrameNumber, corrected)

(* A reset frame is between its closing and resetFrameMap_; or it is in    *)
(* the map or used.                                                        *)
Pending == resetIo = "fullSet" \/ resetWorker \in {"woken", "locked", "copying"}
InHand(n) ==
  \/ n \in DOMAIN resetFrameMap
  \/ \E i \in DOMAIN corrected : corrected[i].frame = n

(* Of the reset frames closed all but the last are there, and the last is  *)
(* there or on its way; and what corrections recorded is past.             *)
ResetOrder ==
  /\ \A j \in DOMAIN closed :
       \/ Pending /\ j = Len(closed) /\ processResetFrameNumber = closed[j].frame
       \/ InHand(closed[j].frame)
  /\ \A i \in DOMAIN corrected : corrected[i].closings <= Len(closed)

(* Arithmetic of positions                                                 *)
LEMMA ProductGrows ==
  ASSUME NEW x \in Nat, NEW y \in Nat, NEW k \in Nat, x <= y
  PROVE  x * k <= y * k
<1>1. PICK d \in Nat : y = x + d
  <2>1. y - x \in Nat /\ y = x + (y - x)
    OBVIOUS
  <2> QED
    BY <2>1
<1>2. y * k = x * k + d * k
  BY <1>1
<1>3. x * k \in Nat /\ d * k \in Nat
  OBVIOUS
<1> QED
  BY <1>2, <1>3

LEMMA LaterPacket ==
  ASSUME NEW p \in Packets, NEW n \in Frames, NEW last \in Nat,
         Past(n, last), Position(p) > last
  PROVE  n < p.frame
<1>1. /\ p.frame \in Nat /\ p.slot \in 1 .. NumSlots /\ n \in Nat /\ NumSlots \in Nat
      /\ p.frame * NumSlots + p.slot > last
  BY PositionTyped, Basics DEF Slots
<1>2. SUFFICES ASSUME p.frame <= n PROVE FALSE
  BY <1>1
<1> DEFINE a == p.frame * NumSlots
           b == n * NumSlots
<1>3. a \in Nat /\ b \in Nat /\ (n + 1) * NumSlots = b + NumSlots
  BY <1>1
<1>4. a <= b
  BY <1>1, <1>2, ProductGrows
<1>5. b + NumSlots <= last
  BY <1>3 DEF Past
<1> HIDE DEF a, b
<1> QED
  BY <1>1, <1>3, <1>4, <1>5 DEF a

LEMMA LastPacket ==
  ASSUME NEW n \in Frames, NEW last \in Nat,
         \A s \in Slots : n * NumSlots + s <= last
  PROVE  Past(n, last)
<1>1. NumSlots \in Slots /\ n \in Nat /\ NumSlots \in Nat
  BY Basics, SlotsAssumption DEF Slots
<1>2. (n + 1) * NumSlots = n * NumSlots + NumSlots
  BY <1>1
<1> QED
  BY <1>1, <1>2 DEF Past

LEMMA PastGrows ==
  ASSUME NEW n \in Frames, NEW last \in Nat, NEW later \in Nat, Past(n, last), last <= later
  PROVE  Past(n, later)
<1>1. (n + 1) * NumSlots \in Nat
  BY Basics
<1> QED
  BY <1>1 DEF Past

LEMMA PlaceTyped ==
  ASSUME NEW n \in Frames
  PROVE  n * NumSlots \in Nat /\ \A s \in Slots : n * NumSlots + s \in Nat
<1>1. n \in Nat /\ NumSlots \in Nat /\ Slots \subseteq Nat
  BY Basics
<1>2. n * NumSlots \in Nat
  BY <1>1
<1> QED
  BY <1>1, <1>2

LEMMA CorrectedTypes ==
  ASSUME Types
  PROVE  \A i \in DOMAIN corrected :
           corrected[i].frame \in Frames /\ corrected[i].closings \in Nat
<1>1. \A i \in DOMAIN corrected : corrected[i] \in Corrections
  BY LenProperties, ElementOfSeq DEF Types, LogTypes
<1> QED
  BY <1>1 DEF Corrections

(* A step that leaves the image frames alone, or only abandons one. *)
LEMMA OrderKept ==
  ASSUME ImageOrder, net' .last = net.last, corrected' = corrected,
         processFrameNumber' = processFrameNumber, WorkerOwns' => WorkerOwns,
         io' = "full" => io = "full" /\ frameNumber' = frameNumber,
         \/ checks' = {}
         \/ UNCHANGED <<checks, frameNumber, expectNewFrame>>
  PROVE  ImageOrder'
BY DEF ImageOrder, Past, NotCorrected

(* Every step keeps ImageOrder.                                            *)
LEMMA ImagePacketOrder ==
  ASSUME Ordered, Types, ImageOrder, NEW p \in Packets, ImagePacket(p)
  PROVE  ImageOrder'
<1>1. /\ corrected' = corrected /\ corrected \in Seq(Corrections)
      /\ processFrameNumber' = processFrameNumber /\ worker' = worker /\ io = "idle"
      /\ processFrameNumber \in Frames /\ checks \subseteq Slots /\ net.last \in Nat
      /\ Image!PacketReceived(p)
  BY DEF ImagePacket, Image!PacketReceived, Image!FirstPacket, Image!LatePacket,
     Image!FramePacket, Image!EarlyPacket, Image!Arrival, Image!bufferVars, Types,
     LogTypes, ImageTypes, Nets
<1>2. /\ net'.last = Position(p) /\ Position(p) \in Nat /\ Position(p) > net.last
      /\ Position(p) = p.frame * NumSlots + p.slot
      /\ p.frame \in Frames /\ p.slot \in Slots
  <2>1. /\ Position(p) > net.last
        /\ net' = [net EXCEPT !.packets = @ + 1, !.last = Position(p)]
    BY <1>1 DEF Image!PacketReceived, Image!FirstPacket, Image!LatePacket,
       Image!FramePacket, Image!EarlyPacket, Image!Arrival, Image!Position, Position
  <2> QED
    BY <2>1, PositionTyped, NetsTyped, Zenon DEF Types, ImageTypes
<1>3. \A n \in Frames : Past(n, net.last) => Past(n, net'.last) /\ n < p.frame
  BY <1>1, <1>2, PastGrows, LaterPacket
<1>4. \A i \in DOMAIN corrected : corrected[i].frame \in Frames
  BY CorrectedTypes
<1>5. /\ \A i \in DOMAIN corrected' : Past(corrected'[i].frame, net'.last)
      /\ NotCorrected(p.frame, corrected')
  <2>1. \A n \in Frames : n < p.frame => n # p.frame
    <3>1. \A m, n \in Nat : n < m => n # m
      OBVIOUS
    <3> QED
      BY <1>2, <3>1, Basics
  <2>2. \A i \in DOMAIN corrected : Past(corrected[i].frame, net.last)
    BY DEF ImageOrder
  <2>3. \A i \in DOMAIN corrected :
          Past(corrected[i].frame, net'.last) /\ corrected[i].frame # p.frame
    BY <1>3, <1>4, <2>1, <2>2
  <2> QED
    BY <1>1, <2>3 DEF NotCorrected
<1>6. CASE /\ frameNumber' = p.frame /\ (expectNewFrame \/ frameNumber = p.frame)
           /\ ~ expectNewFrame' /\ Image!StorePacket(p) /\ freeBuffers' = freeBuffers
  <2>1. \A s \in checks \cup {p.slot} : frameNumber' * NumSlots + s <= net'.last
    <3>1. \A s \in checks : frameNumber' * NumSlots + s <= net.last
      BY <1>6 DEF ImageOrder
    <3>2. p.frame * NumSlots \in Nat
      BY <1>2, PlaceTyped
    <3>3. \A s \in checks : p.frame * NumSlots + s <= net'.last
      BY <1>1, <1>2, <1>6, <3>1, <3>2, Basics
    <3> QED
      BY <1>2, <1>6, <3>3, <3>2, Basics
  <2>2. \/ io' = "full" /\ checks' = {} /\ checks \cup {p.slot} = Slots
        \/ io' = "idle" /\ checks' = checks \cup {p.slot}
    BY <1>6, ImageStored DEF Types
  <2>3. io' = "full" => Past(frameNumber', net'.last)
    BY <1>2, <1>6, <2>1, <2>2, LastPacket
  <2>4. /\ WorkerOwns' => WorkerOwns
        /\ \A s \in checks' : frameNumber' * NumSlots + s <= net'.last
    BY <1>1, <2>1, <2>2 DEF WorkerOwns
  <2> QED
    BY <1>1, <1>3, <1>5, <1>6, <2>3, <2>4 DEF ImageOrder
<1>7. CASE /\ io' \in {"idle", "part"} /\ (expectNewFrame' => checks' = {})
           /\ \A s \in checks' : s \in checks /\ frameNumber' = frameNumber
  <2>1. WorkerOwns' => WorkerOwns
    BY <1>1, <1>7 DEF WorkerOwns
  <2>2. \A s \in checks' : frameNumber' * NumSlots + s <= net'.last
    <3>1. \A s \in checks' :
            frameNumber * NumSlots + s <= net.last /\ frameNumber * NumSlots + s \in Nat
      BY <1>1, <1>7, PlaceTyped DEF ImageOrder, Types, ImageTypes
    <3> QED
      BY <1>1, <1>2, <1>7, <3>1
  <2> QED
    BY <1>1, <1>3, <1>5, <1>7, <2>1, <2>2 DEF ImageOrder
<1>8. CASE Image!FirstPacket(p)
  BY <1>6, <1>8 DEF Image!FirstPacket
<1>9. CASE Image!LatePacket(p)
  BY <1>1, <1>7, <1>9 DEF Image!LatePacket, ImageOrder
<1>10. CASE Image!FramePacket(p)
  BY <1>6, <1>10 DEF Image!FramePacket
<1>11. CASE Image!EarlyPacket(p)
  BY <1>7, <1>11 DEF Image!EarlyPacket
<1> QED
  BY <1>1, <1>8, <1>9, <1>10, <1>11 DEF Image!PacketReceived

LEMMA ImageIoOrder ==
  ASSUME Types, InTime, EndsAtGap, ImageOrder, ImageIoStep
  PROVE  ImageOrder'
<1>1. corrected' = corrected /\ checks = {}
  BY DEF ImageIoStep, ownVars, Image!IoStep, Image!SwapBuffers, Image!NotifyFull,
     Image!NotifyPart, InTime
<1>2. CASE Image!SwapBuffers
  <2>1. /\ io = "full" /\ io' = "fullSwapped" /\ processFrameNumber' = frameNumber
        /\ UNCHANGED <<frameNumber, checks, expectNewFrame, net>>
    BY <1>2 DEF Image!SwapBuffers, EndsAtGap
  <2> QED
    BY <1>1, <2>1 DEF ImageOrder, NotCorrected, Past
<1>3. CASE Image!NotifyFull
  <2>1. /\ WorkerOwns /\ io' = "idle" /\ UNCHANGED <<processFrameNumber, net,
                                                     checks>>
    BY <1>3 DEF Image!NotifyFull, Image!bufferVars, WorkerOwns
  <2> QED
    BY <1>1, <2>1, OrderKept
<1>4. ~ Image!NotifyPart
  BY DEF Image!NotifyPart, EndsAtGap
<1> QED
  BY <1>2, <1>3, <1>4 DEF ImageIoStep, Image!IoStep

LEMMA ProcessOrder ==
  ASSUME Types, InTime, ImageOrder, ProcessFrame
  PROVE  ImageOrder'
<1>1. /\ worker = "holding" /\ worker' = "relock" /\ io' = io /\ io = "idle"
      /\ UNCHANGED <<expectNewFrame, frameNumber, checks, processFrameNumber, net>>
  BY DEF ProcessFrame, Image!ProcessFrame, InTime
<1>2. PICK r : /\ corrected' = Append(corrected, r) /\ r.frame = processFrameNumber
  BY DEF ProcessFrame, TakeReset, Correction
<1>3. \A i \in DOMAIN corrected' : \/ i \in DOMAIN corrected /\ corrected'[i] = corrected[i]
                                   \/ corrected'[i] = r
  BY <1>2 DEF Types, LogTypes
<1>4. Past(processFrameNumber, net.last)
  BY <1>1 DEF ImageOrder, WorkerOwns
<1> QED
  BY <1>1, <1>2, <1>3, <1>4 DEF ImageOrder, WorkerOwns

LEMMA ImageOrderStep ==
  ASSUME Ordered, Fatal, Types, InTime, EndsAtGap, ImageOrder, [Next]_vars
  PROVE  ImageOrder'
<1>1. CASE Timeout
  <2>1. net'.last = net.last
    BY <1>1, NetsTyped, Zenon DEF Timeout, Image!Timeout, Types, ImageTypes
  <2> QED
    BY <1>1, <2>1, OrderKept DEF Timeout, Image!Timeout, Image!bufferVars,
       WorkerOwns
<1>2. CASE FrameWorkerStep
  <2>1. /\ UNCHANGED <<corrected, expectNewFrame, frameNumber, checks,
                       processFrameNumber, io>>
        /\ net' = net \/ Image!SpuriousWakeup
    BY <1>2 DEF FrameWorkerStep, Image!WorkerWait, Image!WorkerLock,
       Image!SpuriousWakeup, Image!ProcessNothing, Image!bufferVars, ownVars
  <2>2. ~ Image!SpuriousWakeup
    BY DEF Image!SpuriousWakeup, Fatal, KeepingUp, Types, ImageTypes, Nets
  <2>3. WorkerOwns' => WorkerOwns
    BY <1>2, WorkersInTime DEF Fatal
  <2> QED
    BY <2>1, <2>2, <2>3, OrderKept
<1>3. CASE UNCHANGED <<imageVars, corrected>>
  <2>1. WorkerOwns' => WorkerOwns
    BY <1>3 DEF imageVars, WorkerOwns
  <2> QED
    BY <1>3, <2>1, OrderKept DEF imageVars
<1>4. ASSUME \/ \E p \in Packets : ResetPacket(p)
             \/ ResetIoStep \/ ResetWorkerStep \/ UNCHANGED vars
      PROVE  UNCHANGED <<imageVars, corrected>>
  BY <1>4 DEF ResetPacket, ResetIoStep, ResetWorkerStep, vars, ownVars
<1> QED
  BY <1>1, <1>2, <1>3, <1>4, ImagePacketOrder, ImageIoOrder, ProcessOrder DEF Next

(* Every step keeps ResetOrder: one that leaves the logs and the map       *)
LEMMA InHandKept ==
  ASSUME ResetOrder, UNCHANGED <<closed, resetFrameMap, corrected,
                                 processResetFrameNumber>>,
         Pending => Pending'
  PROVE  ResetOrder'
BY DEF ResetOrder, InHand

(* alone, one that closes a frame, when the one before has been filed,     *)
LEMMA ResetIoOrder ==
  ASSUME Types, InTime, EndsAtGap, ResetOrder, ResetIoStep
  PROVE  ResetOrder'
<1>1. UNCHANGED <<resetFrameMap, corrected>>
  BY DEF ResetIoStep, imageVars, ownVars, Reset!IoStep, Reset!CopyPacket,
     Reset!PublishNumber, Reset!NotifyFull, Reset!NotifyPart, Reset!result
<1>2. CASE Reset!CopyPacket
  <2>1. /\ UNCHANGED <<closed, processResetFrameNumber>> /\ (Pending => Pending')
    BY <1>2 DEF Reset!CopyPacket, Pending
  <2> QED
    BY <1>1, <2>1, InHandKept
<1>3. CASE Reset!PublishNumber
  <2> DEFINE r == [frame |-> resetFrameNumber, data |-> mem[resetSubFrames]]
  <2>1. /\ resetIo = "full" /\ resetIo' = "fullSet" /\ resetWorker = "waiting"
        /\ processResetFrameNumber' = resetFrameNumber /\ closed' = Append(closed, r)
    BY <1>3 DEF Reset!PublishNumber, EndsAtGap, InTime
  <2>2. r.frame = resetFrameNumber /\ r \in Records
    BY RecordOfBank DEF Types, PoolTypes, ResetTypes
  <2> HIDE DEF r
  <2>3. /\ Len(closed) \in Nat /\ DOMAIN closed = 1 .. Len(closed)
        /\ Len(closed') = Len(closed) + 1 /\ DOMAIN closed' = 1 .. Len(closed) + 1
        /\ closed'[Len(closed) + 1] = r
        /\ \A j \in DOMAIN closed : closed'[j] = closed[j]
    BY <2>1, <2>2, AppendProperties, LenProperties DEF Types, LogTypes
  <2>4. ~ Pending /\ Pending'
    BY <2>1 DEF Pending
  <2>5. \A j \in DOMAIN closed : InHand(closed[j].frame)'
    BY <1>1, <2>3, <2>4 DEF ResetOrder, InHand
  <2>6. \A i \in DOMAIN corrected : corrected[i].closings <= Len(closed')
    <3>1. \A i \in DOMAIN corrected : corrected[i].closings \in Nat
      BY CorrectedTypes
    <3> QED
      BY <2>3, <3>1 DEF ResetOrder
  <2> QED
    BY <1>1, <2>1, <2>2, <2>3, <2>4, <2>5, <2>6 DEF ResetOrder, InHand
<1>4. CASE Reset!NotifyFull
  <2>1. /\ resetIo = "fullSet" /\ resetWorker' = "woken"
        /\ UNCHANGED <<closed, processResetFrameNumber>>
    BY <1>4 DEF Reset!NotifyFull, Reset!NotifyOne, InTime
  <2>2. Pending'
    BY <2>1 DEF Pending
  <2> QED
    BY <1>1, <2>1, <2>2, InHandKept
<1>5. ~ Reset!NotifyPart
  BY DEF Reset!NotifyPart, EndsAtGap
<1> QED
  BY <1>2, <1>3, <1>4, <1>5 DEF ResetIoStep, Reset!IoStep

(* the filing of a frame,                                                  *)
LEMMA ResetWorkerOrder ==
  ASSUME Fatal, Types, ResetOrder, ResetWorkerStep
  PROVE  ResetOrder'
<1>1. UNCHANGED <<corrected, closed, processResetFrameNumber, resetIo>>
  BY DEF ResetWorkerStep, ownVars, Reset!WorkerStep, Reset!WorkerWait,
     Reset!WorkerLock, Reset!ExchangeBuffers, Reset!FileFrame, Reset!SpuriousWakeup
<1>2. CASE Reset!FileFrame
  <2>1. DOMAIN resetFrameMap' = DOMAIN resetFrameMap \cup {processResetFrameNumber}
    BY <1>2 DEF Reset!FileFrame, Reset!MapWith
  <2>2. \A j \in DOMAIN closed : InHand(closed[j].frame)'
    BY <1>1, <2>1 DEF ResetOrder, InHand
  <2> QED
    BY <1>1, <2>2 DEF ResetOrder, InHand
<1>3. ~ Reset!SpuriousWakeup
  BY DEF Reset!SpuriousWakeup, Fatal, KeepingUp, Types, ResetTypes, ResetNets
<1>4. CASE Reset!WorkerWait \/ Reset!WorkerLock \/ Reset!ExchangeBuffers
  <2>1. /\ resetFrameMap' = resetFrameMap /\ (Pending => Pending')
    BY <1>1, <1>4 DEF Reset!WorkerWait, Reset!WorkerLock, Reset!ExchangeBuffers,
       Reset!result, Pending
  <2> QED
    BY <1>1, <2>1, InHandKept
<1> QED
  BY <1>2, <1>3, <1>4 DEF ResetWorkerStep, Reset!WorkerStep

(* and the correction that takes it out.                                   *)
LEMMA ProcessKeepsInHand ==
  ASSUME Types, ResetOrder, ProcessFrame
  PROVE  ResetOrder'
<1>1. UNCHANGED <<closed, processResetFrameNumber, resetIo, resetWorker>>
  BY DEF ProcessFrame, resetVars
<1>2. PICK r : /\ corrected' = Append(corrected, r)
               /\ r.frame = processFrameNumber /\ r.closings = Len(closed)
               /\ \A n \in DOMAIN resetFrameMap : n \in DOMAIN resetFrameMap' \/ n = r.frame
  BY DEF ProcessFrame, TakeReset, Correction
<1>3. /\ \A i \in DOMAIN corrected : i \in DOMAIN corrected' /\ corrected'[i] = corrected[i]
      /\ Len(corrected) + 1 \in DOMAIN corrected' /\ corrected'[Len(corrected) + 1] = r
      /\ \A i \in DOMAIN corrected' : i \in DOMAIN corrected \/ i = Len(corrected) + 1
  BY <1>2 DEF Types, LogTypes
<1>4. ASSUME NEW n, InHand(n) PROVE InHand(n)'
  <2>1. CASE n \in DOMAIN resetFrameMap
    BY <1>2, <1>3, <2>1 DEF InHand
  <2>2. CASE \E i \in DOMAIN corrected : corrected[i].frame = n
    BY <1>3, <2>2 DEF InHand
  <2> QED
    BY <1>4, <2>1, <2>2 DEF InHand
<1>5. \A i \in DOMAIN corrected' : corrected'[i].closings <= Len(closed)
  <2>1. Len(closed) <= Len(closed)
    BY LenProperties DEF Types, LogTypes
  <2> QED
    BY <1>2, <1>3, <2>1 DEF ResetOrder
<1>6. ASSUME NEW j \in DOMAIN closed, ~ InHand(closed[j].frame)'
      PROVE  Pending' /\ j = Len(closed) /\ processResetFrameNumber = closed[j].frame
  BY <1>1, <1>4, <1>6 DEF ResetOrder, Pending
<1> QED
  BY <1>1, <1>5, <1>6 DEF ResetOrder

LEMMA ResetOrderStep ==
  ASSUME Fatal, Types, InTime, EndsAtGap, ResetOrder, [Next]_vars
  PROVE  ResetOrder'
<1>1. CASE UNCHANGED <<resetVars, resetFrameMap, corrected>>
  <2>1. UNCHANGED <<closed, processResetFrameNumber, resetIo, resetWorker>>
    BY <1>1 DEF resetVars
  <2> QED
    BY <1>1, <2>1, InHandKept DEF Pending
<1>2. ASSUME \/ \E p \in Packets : ImagePacket(p)
             \/ Timeout \/ ImageIoStep \/ FrameWorkerStep \/ UNCHANGED vars
      PROVE  UNCHANGED <<resetVars, resetFrameMap, corrected>>
  BY <1>2 DEF ImagePacket, Timeout, ImageIoStep, FrameWorkerStep, vars, ownVars
<1>3. ASSUME NEW p \in Packets, ResetPacket(p) PROVE ResetOrder'
  <2>1. /\ UNCHANGED <<closed, resetFrameMap, corrected, processResetFrameNumber,
                       resetWorker>>
        /\ resetIo = "idle"
    BY <1>3 DEF ResetPacket, Reset!PacketReceived, Reset!FirstPacket,
       Reset!LatePacket, Reset!FramePacket, Reset!EarlyPacket, Reset!Arrival,
       Reset!result
  <2> QED
    BY <2>1, InHandKept DEF Pending
<1> QED
  BY <1>1, <1>2, <1>3, ResetIoOrder, ResetWorkerOrder, ProcessKeepsInHand DEF Next

(* An image whose reset frame was closed before another finds it in the    *)
(* map: the reset thread waited for the other, so it had filed this one.   *)
LEMMA CorrectionFindsReset ==
  ASSUME Types, FiledWhole, ImageOrder, ResetOrder, CorrectedIfAhead, ProcessFrame
  PROVE  CorrectedIfAhead'
<1> DEFINE own == processFrameNumber \in DOMAIN resetFrameMap
           r   == Correction(processFrameNumber,
                    IF own THEN resetFrameMap[processFrameNumber] ELSE NoReset)
<1>1. closed' = closed /\ corrected' = Append(corrected, r) /\ processFrameNumber \in Frames
  BY DEF ProcessFrame, TakeReset, resetVars, Types, ImageTypes
<1>2. /\ r.frame = processFrameNumber /\ r.closings = Len(closed)
      /\ own => r.reset = resetFrameMap[processFrameNumber]
  BY DEF Correction
<1> HIDE DEF r
<1>3. \A i \in DOMAIN corrected' :
        (i \in DOMAIN corrected /\ corrected'[i] = corrected[i]) \/ corrected'[i] = r
  BY <1>1 DEF Types, LogTypes
<1>4. ASSUME NEW j \in 1 .. Len(closed) - 1, closed[j].frame = processFrameNumber
      PROVE  r.reset # NoReset
  <2>1. j \in DOMAIN closed /\ j # Len(closed)
    BY LenProperties DEF Types, LogTypes
  <2>2. InHand(processFrameNumber) /\ worker = "holding"
    BY <1>4, <2>1 DEF ResetOrder, ProcessFrame, Image!ProcessFrame
  <2>3. NotCorrected(processFrameNumber, corrected)
    BY <2>2 DEF ImageOrder, WorkerOwns
  <2>4. own
    BY <2>2, <2>3 DEF InHand, NotCorrected
  <2> QED
    BY <1>1, <1>2, <2>4, WholeIsSome DEF FiledWhole
<1> QED
  BY <1>1, <1>2, <1>3, <1>4 DEF CorrectedIfAhead

(* A frame closed later does not count for the images corrected before.    *)
LEMMA ClosingKeepsAhead ==
  ASSUME Types, ResetOrder, CorrectedIfAhead, Reset!PublishNumber, corrected' = corrected
  PROVE  CorrectedIfAhead'
<1> DEFINE r == [frame |-> resetFrameNumber, data |-> mem[resetSubFrames]]
<1>1. closed' = Append(closed, r)
  BY DEF Reset!PublishNumber
<1>2. r \in Records
  BY RecordOfBank DEF Types, PoolTypes, ResetTypes
<1> HIDE DEF r
<1>3. Len(closed) \in Nat /\ \A j \in 1 .. Len(closed) : closed'[j] = closed[j]
  BY <1>1, <1>2, AppendProperties, LenProperties DEF Types, LogTypes
<1>4. \A i \in DOMAIN corrected :
        corrected[i].closings \in Nat /\ corrected[i].closings <= Len(closed)
  BY CorrectedTypes DEF ResetOrder
<1>5. ASSUME NEW i \in DOMAIN corrected, NEW j \in 1 .. corrected[i].closings - 1
      PROVE  closed'[j] = closed[j]
  <2>1. j \in 1 .. Len(closed)
    BY <1>3, <1>4
  <2> QED
    BY <1>3, <2>1
<1> QED
  BY <1>5 DEF CorrectedIfAhead

(* Every other step leaves both logs alone.                                *)
LEMMA CorrectedIfAheadStep ==
  ASSUME Types, FiledWhole, ImageOrder, ResetOrder, CorrectedIfAhead, [Next]_vars
  PROVE  CorrectedIfAhead'
<1>1. CASE UNCHANGED <<closed, corrected>>
  BY <1>1 DEF CorrectedIfAhead
<1>2. CASE ResetIoStep
  BY <1>1, <1>2, ClosingKeepsAhead DEF ResetIoStep, ownVars, Reset!IoStep,
     Reset!CopyPacket, Reset!NotifyFull, Reset!NotifyPart
<1>3. ASSUME NEW p \in Packets, ResetPacket(p) PROVE UNCHANGED <<closed, corrected>>
  BY <1>3 DEF ResetPacket, Reset!PacketReceived, Reset!FirstPacket,
     Reset!LatePacket, Reset!FramePacket, Reset!EarlyPacket
<1>4. ASSUME \/ \E p \in Packets : ImagePacket(p)
             \/ Timeout \/ ImageIoStep \/ FrameWorkerStep \/ UNCHANGED vars
      PROVE  UNCHANGED <<closed, corrected>>
  BY <1>4 DEF ImagePacket, Timeout, ImageIoStep, FrameWorkerStep, vars, resetVars,
     ownVars
<1>5. ASSUME ResetWorkerStep PROVE UNCHANGED <<closed, corrected>>
  BY <1>5 DEF ResetWorkerStep, ownVars, Reset!WorkerStep, Reset!WorkerWait,
     Reset!WorkerLock, Reset!ExchangeBuffers, Reset!FileFrame, Reset!SpuriousWakeup
<1> QED
  BY <1>1, <1>2, <1>3, <1>4, <1>5, CorrectionFindsReset DEF Next

Ordering == ImageOrder /\ ResetOrder /\ CorrectedIfAhead

(* When packets come in order an image is corrected if its reset frame was *)
(* closed one ahead: with a later one closed too by then.  Nothing makes   *)
(* the frame thread wait for the reset thread, so the reset frame closed   *)
(* last may not be in the map yet; the one before is, because its filing   *)
(* was over when the last was closed.                                      *)
THEOREM ResetIfAhead == ASSUME Fatal, Ordered PROVE Spec => []CorrectedIfAhead
<1>1. Init => Ordering
  <2> SUFFICES ASSUME Init PROVE Ordering
    OBVIOUS
  <2>1. DOMAIN corrected = {} /\ DOMAIN closed = {}
    BY DEF Init
  <2> QED
    BY <2>1 DEF Init, Ordering, ImageOrder, ResetOrder, CorrectedIfAhead,
       WorkerOwns
<1>2. Types /\ (InTime /\ BanksApart) /\ Collects /\ Ordering /\ [Next]_vars => Ordering'
  BY ImageOrderStep, ResetOrderStep, CorrectedIfAheadStep DEF Collects, Ordering
<1>3. Spec => [](InTime /\ BanksApart)
  BY InTimeHolds DEF Fatal
<1>4. Ordering => CorrectedIfAhead
  BY DEF Ordering
<1> QED
  BY <1>1, <1>2, <1>3, <1>4, TypesHold, CollectsHolds, PTL DEF Spec

-----------------------------------------------------------------------------
(* The bank the closed reset frame is in; and the logs of the frames       *)
(* closed and filed differ by that frame.                                  *)
CopiedBank == IF resetWorker = "copying" THEN resetFrameBuffers ELSE resetSubFrames
FiledOnce ==
  IF Pending
    THEN closed = Append(filed, [frame |-> processResetFrameNumber,
                                 data  |-> mem[CopiedBank]])
    ELSE closed = filed

(* A step that leaves that frame in its bank keeps FiledOnce.              *)
LEMMA FiledKept ==
  ASSUME FiledOnce, UNCHANGED <<closed, filed, processResetFrameNumber>>, Pending' <=> Pending,
         Pending => mem'[CopiedBank'] = mem[CopiedBank]
  PROVE  FiledOnce'
<1>1. CASE Pending
  <2>1. [frame |-> processResetFrameNumber', data |-> mem'[CopiedBank']] =
          [frame |-> processResetFrameNumber, data |-> mem[CopiedBank]]
    BY <1>1
  <2> QED
    BY <1>1, <2>1 DEF FiledOnce
<1>2. CASE ~ Pending
  BY <1>2 DEF FiledOnce
<1> QED
  BY <1>1, <1>2

(* Every step keeps FiledOnce, and is a step of the abstract specification. *)
ResetHandOver == filed' = filed /\ \E r \in Records : closed' = Append(closed, r)
ResetDeliver ==
  /\ closed' = closed /\ Len(filed) < Len(closed)
  /\ filed' = Append(filed, closed[Len(filed) + 1])

LEMMA ImageKeepsFiled ==
  ASSUME Types, InTime, BanksApart, FiledOnce,
         \/ \E p \in Packets : ImagePacket(p)
         \/ ImageIoStep \/ Timeout \/ FrameWorkerStep \/ ProcessFrame
  PROVE  FiledOnce' /\ UNCHANGED <<closed, filed>>
<1>1. UNCHANGED <<closed, filed, processResetFrameNumber, resetIo, resetWorker,
                  resetSubFrames, resetFrameBuffers>>
  BY DEF ImagePacket, ImageIoStep, Timeout, FrameWorkerStep, ProcessFrame, resetVars
<1>2. mem'[CopiedBank'] = mem[CopiedBank]
  BY <1>1, ImageKeepsBanks DEF CopiedBank
<1>3. Pending' <=> Pending
  BY <1>1 DEF Pending
<1> QED
  BY <1>1, <1>2, <1>3, FiledKept

LEMMA ResetPacketFiled ==
  ASSUME FiledOnce, NEW p \in Packets, ResetPacket(p)
  PROVE  FiledOnce' /\ UNCHANGED <<closed, filed>>
<1>1. /\ UNCHANGED <<closed, filed, processResetFrameNumber, mem, resetWorker,
                     resetSubFrames, resetFrameBuffers>>
      /\ resetIo = "idle" /\ resetIo' # "fullSet"
  BY DEF ResetPacket, Reset!PacketReceived, Reset!FirstPacket, Reset!LatePacket,
     Reset!FramePacket, Reset!EarlyPacket, Reset!FlagPacket, Reset!Arrival,
     Reset!result, Reset!banks
<1>2. mem'[CopiedBank'] = mem[CopiedBank] /\ (Pending' <=> Pending)
  BY <1>1 DEF CopiedBank, Pending
<1> QED
  BY <1>1, <1>2, FiledKept

(* What is copied to the bank being filled does not touch the one that is  *)
(* filed at the same time.                                                 *)
LEMMA CopyKeepsFiled ==
  ASSUME Types, BanksApart, ResetCollected, FiledOnce, Reset!CopyPacket
  PROVE  FiledOnce'
<1>1. /\ UNCHANGED <<closed, filed, processResetFrameNumber, resetWorker,
                     resetSubFrames, resetFrameBuffers>>
      /\ resetIo = "copy" /\ resetIo' # "fullSet"
      /\ mem' = [mem EXCEPT ![resetTarget][resetPkt.slot] = Reset!ResetTag(resetPkt.frame)]
  BY DEF Reset!CopyPacket, Reset!result
<1>2. Pending <=> resetWorker = "copying"
  BY <1>1 DEF Pending, ResetCollected
<1>3. Pending' <=> Pending
  BY <1>1 DEF Pending
<1>4. resetTarget = resetSubFrames
  BY <1>1 DEF ResetCollected
<1>5. ASSUME Pending PROVE mem'[CopiedBank'] = mem[CopiedBank]
  <2>1. /\ CopiedBank = resetFrameBuffers /\ CopiedBank' = resetFrameBuffers
        /\ resetFrameBuffers # resetTarget
        /\ resetFrameBuffers \in 1 .. Len(mem) /\ DOMAIN mem = 1 .. Len(mem)
    BY <1>1, <1>2, <1>4, <1>5, LenProperties DEF CopiedBank, BanksApart, CopyApart,
       Types, PoolTypes, PoolOK, NoBank
  <2> QED
    BY <1>1, <2>1
<1> QED
  BY <1>1, <1>3, <1>5, FiledKept

LEMMA ResetIoFiled ==
  ASSUME Types, InTime, BanksApart, EndsAtGap, ResetCollected, FiledOnce, ResetIoStep
  PROVE  FiledOnce' /\ (UNCHANGED <<closed, filed>> \/ ResetHandOver)
<1>1. filed' = filed
  BY DEF ResetIoStep, Reset!IoStep, Reset!CopyPacket, Reset!PublishNumber,
     Reset!NotifyFull, Reset!NotifyPart, Reset!result
<1>2. CASE Reset!CopyPacket
  BY <1>1, <1>2, CopyKeepsFiled DEF Reset!CopyPacket
<1>3. CASE Reset!PublishNumber
  <2> DEFINE r == [frame |-> resetFrameNumber, data |-> mem[resetSubFrames]]
  <2>1. /\ closed = filed /\ closed' = Append(closed, r) /\ Pending'
        /\ UNCHANGED <<mem, resetSubFrames, resetWorker>> /\ resetWorker = "waiting"
        /\ processResetFrameNumber' = resetFrameNumber
    BY <1>1, <1>3 DEF Reset!PublishNumber, Reset!banks, EndsAtGap, InTime,
       FiledOnce, Pending
  <2>2. r = [frame |-> processResetFrameNumber', data |-> mem'[CopiedBank']]
    BY <1>1, <2>1 DEF CopiedBank
  <2>3. r \in Records
    BY RecordOfBank DEF Types, PoolTypes, ResetTypes
  <2> HIDE DEF r
  <2> QED
    BY <1>1, <2>1, <2>2, <2>3 DEF FiledOnce, ResetHandOver
<1>4. CASE Reset!NotifyFull
  <2>1. /\ UNCHANGED <<closed, mem, resetSubFrames, processResetFrameNumber>>
        /\ resetWorker = "waiting" /\ resetWorker' = "woken" /\ Pending /\ Pending'
    BY <1>1, <1>4 DEF Reset!NotifyFull, Reset!NotifyOne, Reset!banks, InTime, Pending
  <2>2. mem'[CopiedBank'] = mem[CopiedBank]
    BY <1>1, <2>1 DEF CopiedBank
  <2> QED
    BY <1>1, <2>1, <2>2, FiledKept
<1>5. ~ Reset!NotifyPart
  BY DEF Reset!NotifyPart, EndsAtGap
<1> QED
  BY <1>2, <1>3, <1>4, <1>5 DEF ResetIoStep, Reset!IoStep

LEMMA ResetWorkerFiled ==
  ASSUME Fatal, Types, InTime, BanksApart, FiledOnce, ResetWorkerStep
  PROVE  FiledOnce' /\ (UNCHANGED <<closed, filed>> \/ ResetDeliver)
<1>1. UNCHANGED <<imageVars, closed, processResetFrameNumber>>
  BY DEF ResetWorkerStep, Reset!WorkerStep, Reset!WorkerWait, Reset!WorkerLock,
     Reset!ExchangeBuffers, Reset!FileFrame, Reset!SpuriousWakeup
<1>2. CASE Reset!WorkerWait \/ Reset!WorkerLock
  <2>1. /\ UNCHANGED <<filed, mem, resetSubFrames, resetFrameBuffers, resetIo>>
        /\ Pending' <=> Pending
    BY <1>2 DEF Reset!WorkerWait, Reset!WorkerLock, Reset!banks, Reset!result,
       Pending
  <2>2. mem'[CopiedBank'] = mem[CopiedBank]
    BY <1>2, <2>1 DEF Reset!WorkerWait, Reset!WorkerLock, CopiedBank
  <2> QED
    BY <1>1, <2>1, <2>2, FiledKept
<1>3. CASE Reset!ExchangeBuffers
  <2>1. mem'[resetFrameBuffers'] = mem[resetSubFrames]
    BY <1>1, <1>3, ExchangeApart DEF imageVars, BanksApart
  <2>2. /\ filed' = filed /\ Pending /\ Pending'
        /\ resetWorker = "locked" /\ resetWorker' = "copying"
    BY <1>3 DEF Reset!ExchangeBuffers, Reset!result, Pending
  <2>3. mem'[CopiedBank'] = mem[CopiedBank]
    BY <2>1, <2>2 DEF CopiedBank
  <2> QED
    BY <1>1, <2>2, <2>3, FiledKept
<1>4. CASE Reset!FileFrame
  <2> DEFINE r == [frame |-> processResetFrameNumber, data |-> mem[resetFrameBuffers]]
  <2>1. /\ closed = Append(filed, r) /\ filed' = Append(filed, r) /\ ~ Pending'
        /\ filed \in Seq(Records)
    BY <1>4 DEF Reset!FileFrame, FiledOnce, CopiedBank, Pending, InTime, Types,
       LogTypes
  <2>2. r \in Records
    BY <1>4, RecordOfBank DEF Reset!FileFrame, Types, PoolTypes, ResetTypes, NoBank
  <2> HIDE DEF r
  <2>3. Len(closed) = Len(filed) + 1 /\ closed[Len(filed) + 1] = r /\ Len(filed) \in Nat
    BY <2>1, <2>2, AppendProperties, LenProperties
  <2> QED
    BY <1>1, <2>1, <2>3 DEF FiledOnce, ResetDeliver
<1>5. ~ Reset!SpuriousWakeup
  BY DEF Reset!SpuriousWakeup, Fatal, KeepingUp, Types, ResetTypes, ResetNets
<1> QED
  BY <1>2, <1>3, <1>4, <1>5 DEF ResetWorkerStep, Reset!WorkerStep

(* All of them together.                                                   *)
LEMMA FiledOnceStep ==
  ASSUME Fatal, Types, InTime, BanksApart, EndsAtGap, ResetCollected, FiledOnce,
         [Next]_vars
  PROVE  FiledOnce' /\ [Reset!Delivery!Next]_(Reset!Delivery!vars)
<1>1. CASE UNCHANGED vars
  <2>1. UNCHANGED <<closed, filed, processResetFrameNumber, mem, resetIo,
                    resetWorker, resetSubFrames, resetFrameBuffers>>
    BY <1>1 DEF vars, resetVars
  <2> QED
    BY <2>1 DEF FiledOnce, Pending, CopiedBank, Reset!Delivery!vars
<1>2. FiledOnce' /\ (UNCHANGED <<closed, filed>> \/ ResetHandOver \/ ResetDeliver)
  BY <1>1, ImageKeepsFiled, ResetPacketFiled, ResetIoFiled, ResetWorkerFiled DEF
     Next, Reset!Delivery!vars, vars, resetVars
<1>3. UNCHANGED <<closed, filed>> => UNCHANGED Reset!Delivery!vars
  BY DEF Reset!Delivery!vars
<1>4. ResetHandOver => Reset!Delivery!HandOver
  BY DEF ResetHandOver, Reset!Delivery!HandOver
<1>5. ResetDeliver => Reset!Delivery!Deliver
  BY DEF ResetDeliver, Reset!Delivery!Deliver
<1> QED
  BY <1>2, <1>3, <1>4, <1>5 DEF Reset!Delivery!Next

(* The reset path of the server implements the abstract delivery of        *)
(* frames: each closed reset frame is filed in resetFrameMap_ once, in     *)
(* order and with the content it was closed with, although the image path  *)
(* works on the same pool in between, and reset packets go on coming while *)
(* the reset thread copies.                                                *)
THEOREM ResetsFiled == ASSUME Fatal PROVE Spec => FilesEachOnce
<1>1. Init => FiledOnce /\ Reset!Delivery!Init
  BY DEF Init, FiledOnce, Pending, Reset!Delivery!Init
<1>2. /\ Types /\ (InTime /\ BanksApart) /\ Collects /\ FiledOnce /\ [Next]_vars
      => FiledOnce' /\ [Reset!Delivery!Next]_(Reset!Delivery!vars)
  BY FiledOnceStep DEF Collects
<1>3. Spec => [](InTime /\ BanksApart)
  BY InTimeHolds DEF Fatal
<1> QED
  BY <1>1, <1>2, <1>3, TypesHold, CollectsHolds, PTL DEF Spec, FilesEachOnce,
     Reset!FilesEachOnce, Reset!Delivery!Spec

-----------------------------------------------------------------------------
(* What the image path of the server delivers, as a delivery of frames.    *)
Images == INSTANCE FrameDelivery WITH FrameValues <- Records

(* The logs of the images handed over and delivered differ by the one the  *)
(* frame thread owns, in the bank it was handed over in.                   *)
HandedOnce ==
  IF WorkerOwns
    THEN /\ subFrameBuffers # NoBank
         /\ handed = Append(delivered, [frame |-> processFrameNumber,
                                        data  |-> mem[subFrameBuffers]])
    ELSE handed = delivered

(* A step that leaves that image in its bank keeps HandedOnce.             *)
LEMMA HandedKept ==
  ASSUME HandedOnce, UNCHANGED <<handed, delivered, processFrameNumber,
                                 subFrameBuffers>>,
         WorkerOwns' <=> WorkerOwns,
         WorkerOwns => mem'[subFrameBuffers] = mem[subFrameBuffers]
  PROVE  HandedOnce'
<1>1. CASE WorkerOwns
  <2>1. [frame |-> processFrameNumber', data |-> mem'[subFrameBuffers']] =
          [frame |-> processFrameNumber, data |-> mem[subFrameBuffers]]
    BY <1>1
  <2> QED
    BY <1>1, <2>1 DEF HandedOnce
<1>2. CASE ~ WorkerOwns
  BY <1>2 DEF HandedOnce
<1> QED
  BY <1>1, <1>2

(* A packet is never stored in the bank that was handed over. *)
LEMMA StoredBesideHanded ==
  ASSUME Types, BanksApart, HandedOnce, NEW p \in Packets, Image!StorePacket(p),
         freeBuffers' = freeBuffers, WorkerOwns
  PROVE  mem'[subFrameBuffers] = mem[subFrameBuffers]
<1>1. \A b \in 1 .. Len(mem) : b # subFrames => mem'[b] = mem[b]
  BY ImageStored DEF Types
<1>2. subFrameBuffers \in 1 .. Len(mem) /\ subFrameBuffers # subFrames
  BY DEF Types, PoolTypes, BanksApart, OwnedApart, HandedOnce, NoBank
<1> QED
  BY <1>1, <1>2

(* The steps of the image path,                                            *)
LEMMA ImagePacketHanded ==
  ASSUME Types, InTime, BanksApart, HandedOnce, NEW p \in Packets, ImagePacket(p)
  PROVE  HandedOnce' /\ UNCHANGED <<handed, delivered>>
<1>1. /\ UNCHANGED <<handed, delivered, processFrameNumber, subFrameBuffers,
                     worker>>
      /\ io = "idle" /\ io' \in {"idle", "full", "part"}
      /\ mem' = mem \/ Image!StorePacket(p)
      /\ freeBuffers' = freeBuffers
  BY DEF ImagePacket, Image!PacketReceived, Image!FirstPacket, Image!LatePacket,
     Image!FramePacket, Image!EarlyPacket, Image!Arrival, Image!StorePacket,
     Image!bufferVars, Image!history
<1>2. WorkerOwns' <=> WorkerOwns
  BY <1>1 DEF WorkerOwns
<1>3. WorkerOwns => mem'[subFrameBuffers] = mem[subFrameBuffers]
  BY <1>1, StoredBesideHanded
<1> QED
  BY <1>1, <1>2, <1>3, HandedKept

ImageHandOver == delivered' = delivered /\ \E r \in Records : handed' = Append(handed, r)
ImageDeliver ==
  /\ handed' = handed /\ Len(delivered) < Len(handed)
  /\ delivered' = Append(delivered, handed[Len(delivered) + 1])

LEMMA ImageIoHanded ==
  ASSUME Types, InTime, BanksApart, HandedOnce, ImageIoStep
  PROVE  HandedOnce' /\ (UNCHANGED <<handed, delivered>> \/ ImageHandOver)
<1>1. io # "idle" /\ worker = "waiting" /\ delivered' = delivered
  BY DEF ImageIoStep, Image!IoStep, Image!SwapBuffers, Image!NotifyFull,
     Image!NotifyPart, Image!history, InTime
<1>2. CASE Image!SwapBuffers
  <2> DEFINE r == [frame |-> frameNumber, data |-> mem[subFrames]]
  <2>1. PICK bank \in 1 .. Len(mem) + 1 : Allocate(bank)
    BY <1>2, SamePool DEF Image!SwapBuffers
  <2>2. mem'[subFrames] = mem[subFrames]
    BY <2>1, Basics, AllocateKeepsPool, Zenon DEF Types, PoolTypes
  <2>3. /\ handed = delivered /\ handed' = Append(handed, r) /\ WorkerOwns'
        /\ subFrameBuffers' = subFrames /\ processFrameNumber' = frameNumber
    BY <1>1, <1>2 DEF Image!SwapBuffers, HandedOnce, WorkerOwns
  <2>4. r = [frame |-> processFrameNumber', data |-> mem'[subFrameBuffers']]
    BY <2>2, <2>3
  <2>5. r \in Records /\ subFrameBuffers' # NoBank
    BY <2>3, RecordOfBank DEF Types, PoolTypes, ImageTypes, NoBank
  <2> HIDE DEF r
  <2> QED
    BY <1>1, <2>3, <2>4, <2>5 DEF HandedOnce, ImageHandOver
<1>3. CASE Image!NotifyFull \/ Image!NotifyPart
  <2>1. /\ UNCHANGED <<handed, processFrameNumber, subFrameBuffers>>
        /\ WorkerOwns /\ WorkerOwns'
        /\ mem' = mem \/ Image!StorePacket(pkt)
        /\ freeBuffers' = freeBuffers
    BY <1>1, <1>3 DEF Image!NotifyFull, Image!NotifyPart, Image!NotifyOne,
       Image!bufferVars, Image!history, WorkerOwns
  <2>2. mem'[subFrameBuffers] = mem[subFrameBuffers]
    BY <2>1, StoredBesideHanded DEF Types, ImageTypes
  <2> QED
    BY <1>1, <2>1, <2>2, HandedKept
<1> QED
  BY <1>2, <1>3 DEF ImageIoStep, Image!IoStep

LEMMA ProcessHanded ==
  ASSUME Types, InTime, BanksApart, HandedOnce, ProcessFrame
  PROVE  HandedOnce' /\ ImageDeliver
<1> DEFINE r == [frame |-> processFrameNumber, data |-> mem[subFrameBuffers]]
<1>1. /\ handed = Append(delivered, r) /\ handed' = handed
      /\ delivered' = Append(delivered, r)
      /\ ~ WorkerOwns' /\ delivered \in Seq(Records)
  BY DEF ProcessFrame, Image!ProcessFrame, HandedOnce, WorkerOwns, InTime,
     Types, LogTypes
<1>2. r \in Records
  BY RecordOfBank DEF ProcessFrame, Image!ProcessFrame, Types, PoolTypes,
     ImageTypes, NoBank
<1> HIDE DEF r
<1>3. Len(handed) = Len(delivered) + 1 /\ handed[Len(delivered) + 1] = r /\ Len(delivered) \in Nat
  BY <1>1, <1>2, AppendProperties, LenProperties
<1> QED
  BY <1>1, <1>3 DEF HandedOnce, ImageDeliver

(* and those of the reset path, which does not touch the bank that was     *)
(* handed over: a packet is copied elsewhere and another bank exchanged or *)
(* released.                                                               *)
LEMMA ResetKeepsHanded ==
  ASSUME Types, BanksApart, HandedOnce,
         \/ \E p \in Packets : ResetPacket(p)
         \/ ResetIoStep \/ ResetWorkerStep
  PROVE  HandedOnce' /\ UNCHANGED <<handed, delivered>>
<1>1. UNCHANGED imageVars
  BY DEF ResetPacket, ResetIoStep, ResetWorkerStep
<1>2. ASSUME WorkerOwns PROVE mem'[subFrameBuffers] = mem[subFrameBuffers]
  <2>1. /\ subFrameBuffers \in 1 .. Len(mem) /\ DOMAIN mem = 1 .. Len(mem)
    BY <1>2, LenProperties DEF BanksApart, OwnedApart, Types, PoolTypes, PoolOK, NoBank
  <2>2. CASE Reset!CopyPacket
    <3>1. /\ resetTarget # subFrameBuffers
          /\ mem' = [mem EXCEPT ![resetTarget][resetPkt.slot] = Reset!ResetTag(resetPkt.frame)]
      BY <1>2, <2>2 DEF Reset!CopyPacket, BanksApart, TargetApart
    <3> QED
      BY <2>1, <3>1
  <2>3. CASE Reset!ExchangeBuffers
    BY <1>1, <2>1, <2>3, ExchangeApart DEF imageVars, BanksApart
  <2>4. CASE Reset!FileFrame
    <3>1. resetFrameBuffers # subFrameBuffers
      BY <1>2, <2>4 DEF Reset!FileFrame, BanksApart, BothApart
    <3> QED
      BY <1>1, <2>1, <2>4, <3>1, FileApart DEF imageVars, BanksApart
  <2>5. \/ mem' = mem
        \/ Reset!CopyPacket \/ Reset!ExchangeBuffers \/ Reset!FileFrame
    BY DEF ResetPacket, Reset!PacketReceived, Reset!FirstPacket, Reset!LatePacket,
       Reset!FramePacket, Reset!EarlyPacket, Reset!banks, ResetIoStep, Reset!IoStep,
       Reset!PublishNumber, Reset!NotifyFull, Reset!NotifyPart, ResetWorkerStep,
       Reset!WorkerStep, Reset!WorkerWait, Reset!WorkerLock, Reset!SpuriousWakeup
  <2> QED
    BY <2>2, <2>3, <2>4, <2>5
<1>3. WorkerOwns' <=> WorkerOwns
  BY <1>1 DEF imageVars, WorkerOwns
<1> QED
  BY <1>1, <1>2, <1>3, HandedKept DEF imageVars

(* All of them together.                                                   *)
LEMMA HandedOnceStep ==
  ASSUME KeepingUp, Types, InTime, BanksApart, HandedOnce, [Next]_vars
  PROVE  HandedOnce' /\ [Images!Next]_(Images!vars)
<1>1. ASSUME Timeout PROVE HandedOnce'
  <2>1. /\ UNCHANGED <<handed, delivered, processFrameNumber, subFrameBuffers, mem>>
        /\ WorkerOwns' <=> WorkerOwns
    BY <1>1 DEF Timeout, Image!Timeout, Image!bufferVars, Image!history, WorkerOwns
  <2>3. mem'[subFrameBuffers] = mem[subFrameBuffers]
    BY <2>1
  <2> QED
    BY <2>1, <2>3, HandedKept
<1>2. ASSUME FrameWorkerStep PROVE HandedOnce'
  <2>1. ~ Image!SpuriousWakeup
    BY DEF Image!SpuriousWakeup, KeepingUp, Types, ImageTypes, Nets
  <2>2. /\ UNCHANGED <<handed, delivered, processFrameNumber, subFrameBuffers, mem>>
        /\ WorkerOwns' <=> WorkerOwns
    BY <1>2, <2>1 DEF FrameWorkerStep, Image!WorkerWait, Image!WorkerLock,
       Image!ProcessNothing, Image!bufferVars, Image!history, WorkerOwns, InTime
  <2>3. mem'[subFrameBuffers] = mem[subFrameBuffers]
    BY <2>2
  <2> QED
    BY <2>2, <2>3, HandedKept
<1>3. ASSUME UNCHANGED vars PROVE HandedOnce'
  <2>1. /\ UNCHANGED <<handed, delivered, processFrameNumber, subFrameBuffers, mem>>
        /\ WorkerOwns' <=> WorkerOwns
    BY <1>3 DEF vars, imageVars, WorkerOwns
  <2>3. mem'[subFrameBuffers] = mem[subFrameBuffers]
    BY <2>1
  <2> QED
    BY <2>1, <2>3, HandedKept
<1>4. UNCHANGED <<handed, delivered>> \/ ~ (Timeout \/ FrameWorkerStep \/ UNCHANGED vars)
  BY DEF Timeout, FrameWorkerStep, Image!Timeout, Image!WorkerWait,
     Image!WorkerLock, Image!SpuriousWakeup, Image!ProcessNothing, Image!history,
     vars, imageVars
<1>5. HandedOnce' /\ (UNCHANGED <<handed, delivered>> \/ ImageHandOver \/ ImageDeliver)
  BY <1>1, <1>2, <1>3, <1>4, ImagePacketHanded, ImageIoHanded, ProcessHanded,
     ResetKeepsHanded DEF Next
<1>6. UNCHANGED <<handed, delivered>> => UNCHANGED Images!vars
  BY DEF Images!vars
<1>7. ImageHandOver => Images!HandOver
  BY DEF ImageHandOver, Images!HandOver
<1>8. ImageDeliver => Images!Deliver
  BY DEF ImageDeliver, Images!Deliver
<1> QED
  BY <1>5, <1>6, <1>7, <1>8 DEF Images!Next

(* The image path of the server implements the abstract delivery of        *)
(* frames: each image handed over is delivered once, in order and with the *)
(* content it was handed over with, although the reset path takes, fills   *)
(* and releases banks of the same pool meanwhile. Here the watchdog may go *)
(* on after a gap, and reset packets come at any time.                     *)
THEOREM ImagesDelivered == ASSUME KeepingUp PROVE Spec => Images!Spec
<1>1. Init => HandedOnce /\ Images!Init
  BY DEF Init, HandedOnce, WorkerOwns, Images!Init
<1>2. /\ Types /\ (InTime /\ BanksApart) /\ HandedOnce /\ [Next]_vars
      => HandedOnce' /\ [Images!Next]_(Images!vars)
  BY HandedOnceStep
<1> QED
  BY <1>1, <1>2, TypesHold, InTimeHolds, PTL DEF Spec, Images!Spec

=============================================================================
