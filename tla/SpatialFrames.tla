--------------------------- MODULE SpatialFrames ---------------------------
(***************************************************************************)
(* PercivalServer in spatial mode.  One sub-frame carries the whole frame; *)
(* the io thread stores image and reset packets in buffers obtained from   *)
(* the client, files complete reset frames itself, and starts a thread for *)
(* every frame it closes.  The frame threads look for the reset frame of   *)
(* their number before they take frameAccess_.                             *)
(*                                                                         *)
(* The handling of a packet is one step: the io thread holds access_, and  *)
(* what a frame thread could do in between commutes with it.  The client's *)
(* buffers come from the NDArrayPool of areaDetector (external), which     *)
(* hands out any free array, or a new one, with what it last held.  Left   *)
(* out are the buffer of the assembled result, fullFrame_, which a thread  *)
(* only touches under frameAccess_, and the error statistics.              *)
(***************************************************************************)
EXTENDS Integers, Sequences

CONSTANTS
  NumSlots,     (* Packets of a frame.                                     *)
  MaxFrame,     (* Largest frame number on the wire.                       *)
  MaxPackets,   (* Bound: packets of each kind that arrive.                *)
  MaxTimeouts,  (* Bound: watchdog timeouts.                               *)
  Ordered       (* TRUE: when a new frame is expected no packet of a frame *)
                (*   closed before comes; packets may still be lost, and   *)
                (*   repeat or overtake others while a frame is collected. *)

ASSUME ConstantsAssumption ==
  /\ NumSlots \in Nat /\ NumSlots > 1
  /\ MaxFrame \in Nat /\ MaxPackets \in Nat /\ MaxTimeouts \in Nat
  /\ Ordered \in BOOLEAN

Slots   == 1 .. NumSlots
Frames  == 0 .. MaxFrame
Packets == [frame : Frames, slot : Slots]
Blank   == -1
BlankBuffer == [s \in Slots |-> Blank]
NoBuffer == 0
Collector == [expectNew : BOOLEAN, number : Frames, checks : SUBSET Slots]

VARIABLES
  image,          (* expectNewFrame_, frameNumber_, checker_               *)
  reset,          (* expectNewResetFrame_, resetFrameNumber_,              *)
                  (*   resetChecker_                                       *)
  rawFrame,       (* rawFrame_                                             *)
  resetFrame1,    (* resetFrame1_                                          *)
  resetFrameMap,  (* resetFrameMap_: from numbers to buffers               *)
  mem,            (* contents of every buffer ever created                 *)
  free,           (* external: the free arrays of the pool                 *)
  threads,        (* the frame threads, in the order they were started     *)
  net,            (* environment: arrivals so far, timeouts                *)
  handed,         (* history: the frames closed                            *)
  delivered,      (* history: the callbacks                                *)
  ready,          (* history: reset frames declared ready                  *)
  filed           (* history: reset frames put in the map                  *)

histories == <<handed, delivered, ready, filed>>
vars == <<image, reset, rawFrame, resetFrame1, resetFrameMap, mem,
          free, threads, net, histories>>

Fresh == [expectNew |-> TRUE, number |-> 0, checks |-> {}]

-----------------------------------------------------------------------------
(* allocateBuffer() of the client: a free array as it is, or a new one. *)
Allocate(buffer) ==
  IF free = {}
    THEN buffer = Len(mem) + 1 /\ UNCHANGED free
    ELSE buffer \in free /\ free' = free \ {buffer}

(* Mutant: the pointer returned names no buffer. *)
WithoutRoom(contents, buffer) == contents

WithRoom(contents, buffer) ==
  IF buffer \in DOMAIN contents THEN contents ELSE Append(contents, BlankBuffer)

(* What a packet does to the record of the frame being collected. *)
Late(c, p)  == ~c.expectNew /\ p.frame < c.number
Early(c, p) == ~c.expectNew /\ p.frame > c.number
Flags(c, p) == (IF c.expectNew \/ p.frame = c.number THEN c.checks ELSE {}) \cup {p.slot}
Complete(c, p) == Flags(c, p) = Slots
After(c, p) ==
  IF Complete(c, p)
    THEN [expectNew |-> TRUE, number |-> p.frame, checks |-> {}]
    ELSE [expectNew |-> FALSE, number |-> p.frame, checks |-> Flags(c, p)]

Stored(contents, buffer, p) == [contents EXCEPT ![buffer][p.slot] = p.frame]

(* Hand the raw frame to a thread that processes it under number n. *)
Started(contents, n) ==
  /\ threads' = Append(threads, [frame |-> n, raw |-> rawFrame, reset |-> NoBuffer,
                                 at |-> "start"])
  /\ handed' = Append(handed, [frame |-> n, data |-> contents[rawFrame]])

ImageArrival(p) ==
  /\ net.images < MaxPackets
  /\ Ordered /\ image.expectNew => \A i \in DOMAIN handed : p.frame > handed[i].frame
  /\ net' = [net EXCEPT !.images = @ + 1]

ResetArrival(p) ==
  /\ net.resets < MaxPackets
  /\ Ordered /\ reset.expectNew => \A n \in ready : p.frame > n
  /\ net' = [net EXCEPT !.resets = @ + 1]

-----------------------------------------------------------------------------
(* framePacketReceived() *)

LateImage(p) ==
  /\ ImageArrival(p) /\ Late(image, p)
  /\ UNCHANGED <<image, reset, rawFrame, resetFrame1, resetFrameMap, mem, free,
                 threads, histories>>

(* A packet of the frame being collected, or the first of a new one. *)
ImagePacket(p) ==
  /\ ImageArrival(p) /\ ~Late(image, p) /\ ~Early(image, p)
  /\ image' = After(image, p)
  /\ LET contents == Stored(mem, rawFrame, p) IN
     IF Complete(image, p)
       THEN /\ Started(contents, p.frame)
            /\ \E b \in 1 .. Len(mem) + 1 :
                 Allocate(b) /\ rawFrame' = b /\ mem' = WithRoom(contents, b)
       ELSE mem' = contents /\ UNCHANGED <<free, rawFrame, threads, handed>>
  /\ UNCHANGED <<reset, resetFrame1, resetFrameMap, delivered, ready, filed>>

(* A packet of a later frame: process what there is, then store it.  A     *)
(* frame has more than one packet, so it cannot complete its own.          *)
EarlyImage(p) ==
  /\ ImageArrival(p) /\ Early(image, p)
  /\ image' = After(image, p)
  /\ Started(mem, image.number)
  /\ \E b \in 1 .. Len(mem) + 1 :
       Allocate(b) /\ rawFrame' = b /\ mem' = Stored(WithRoom(mem, b), b, p)
  /\ UNCHANGED <<reset, resetFrame1, resetFrameMap, delivered, ready, filed>>

-----------------------------------------------------------------------------
(* resetPacketReceived() *)

LateReset(p) ==
  /\ ResetArrival(p) /\ Late(reset, p)
  /\ UNCHANGED <<image, reset, rawFrame, resetFrame1, resetFrameMap, mem, free,
                 threads, histories>>

(* Mutant: the frame is filed before the buffer is exchanged for good. *)
FileResetKeepBuffer(p) ==
  /\ resetFrameMap' = [n \in DOMAIN resetFrameMap \cup {p.frame} |->
                         IF n = p.frame THEN resetFrame1 ELSE resetFrameMap[n]]
  /\ filed' = filed \cup {p.frame}
  /\ mem' = Stored(mem, resetFrame1, p)
  /\ UNCHANGED <<free, resetFrame1>>

(* Mutant: the complete reset frame is filed nowhere. *)
FileResetNowhere(p) ==
  /\ filed' = filed \cup {p.frame}
  /\ mem' = Stored(mem, resetFrame1, p)
  /\ UNCHANGED <<free, resetFrame1, resetFrameMap>>

(* The reset frame is complete: put it in the map, take another buffer. *)
FileReset(p) ==
  /\ resetFrameMap' = [n \in DOMAIN resetFrameMap \cup {p.frame} |->
                         IF n = p.frame THEN resetFrame1 ELSE resetFrameMap[n]]
  /\ filed' = filed \cup {p.frame}
  /\ \E b \in 1 .. Len(mem) + 1 :
       /\ Allocate(b) /\ resetFrame1' = b
       /\ mem' = WithRoom(Stored(mem, resetFrame1, p), b)

(* A packet of a later reset frame declares the one before ready.          *)
ResetPacket(p) ==
  /\ ResetArrival(p) /\ ~Late(reset, p)
  /\ reset' = After(reset, p)
  /\ ready' = ready \cup (IF Early(reset, p) THEN {reset.number} ELSE {})
                    \cup (IF Complete(reset, p) THEN {p.frame} ELSE {})
  /\ IF Complete(reset, p)
       THEN FileReset(p)
       ELSE /\ mem' = Stored(mem, resetFrame1, p)
            /\ UNCHANGED <<free, resetFrame1, resetFrameMap, filed>>
  /\ UNCHANGED <<image, rawFrame, threads, handed, delivered>>

(* timeout(): only the collection of images starts afresh. *)
Timeout ==
  /\ net.timeouts < MaxTimeouts
  /\ net' = [net EXCEPT !.timeouts = @ + 1]
  /\ image' = Fresh
  /\ UNCHANGED <<reset, rawFrame, resetFrame1, resetFrameMap, mem, free, threads,
                 histories>>

-----------------------------------------------------------------------------
(* The thread of a frame, processFrame() *)

(* Is the reset frame in the map?  If so read the pointer to it, ... *)
LookUpReset(i) ==
  /\ threads[i].at = "start"
  /\ LET n == threads[i].frame IN
     threads' = IF n \in DOMAIN resetFrameMap
                  THEN [threads EXCEPT ![i].reset = resetFrameMap[n], ![i].at = "found"]
                  ELSE [threads EXCEPT ![i].at = "process"]
  /\ UNCHANGED <<image, reset, rawFrame, resetFrame1, resetFrameMap, mem, free, net,
                 histories>>

(* ... and remove it from the map. *)
EraseReset(i) ==
  /\ threads[i].at = "found"
  /\ threads' = [threads EXCEPT ![i].at = "process"]
  /\ resetFrameMap' = [n \in DOMAIN resetFrameMap \ {threads[i].frame} |-> resetFrameMap[n]]
  /\ UNCHANGED <<image, reset, rawFrame, resetFrame1, mem, free, net, histories>>

Callback(i) == [position |-> i,
                value |-> [frame |-> threads[i].frame, data |-> mem[threads[i].raw]]]

(* Mutant: every thread reports the frame started last. *)
ProcessFrameLatest(i) ==
  /\ threads[i].at = "process"
  /\ delivered' = Append(delivered, Callback(Len(threads)))
  /\ free' = free \cup ({threads[i].raw, threads[i].reset} \ {NoBuffer})
  /\ threads' = [threads EXCEPT ![i].at = "done"]
  /\ UNCHANGED <<image, reset, rawFrame, resetFrame1, resetFrameMap, mem, net,
                 handed, ready, filed>>

(* Under frameAccess_: unscramble, release both buffers, call the client.  *)
ProcessFrame(i) ==
  /\ threads[i].at = "process"
  /\ delivered' = Append(delivered, Callback(i))
  /\ free' = free \cup ({threads[i].raw, threads[i].reset} \ {NoBuffer})
  /\ threads' = [threads EXCEPT ![i].at = "done"]
  /\ UNCHANGED <<image, reset, rawFrame, resetFrame1, resetFrameMap, mem, net,
                 handed, ready, filed>>

-----------------------------------------------------------------------------
(* After startAcquisition(). *)
Init ==
  /\ image = Fresh /\ reset = Fresh
  /\ mem = <<BlankBuffer, BlankBuffer>>
  /\ rawFrame = 1 /\ resetFrame1 = 2
  /\ resetFrameMap = <<>>
  /\ free = {}
  /\ threads = <<>>
  /\ net = [images |-> 0, resets |-> 0, timeouts |-> 0]
  /\ handed = <<>> /\ delivered = <<>>
  /\ ready = {} /\ filed = {}

ThreadStep(i) == LookUpReset(i) \/ EraseReset(i) \/ ProcessFrame(i)

Next ==
  \/ \E p \in Packets :
       \/ LateImage(p) \/ ImagePacket(p) \/ EarlyImage(p)
       \/ LateReset(p) \/ ResetPacket(p)
  \/ Timeout
  \/ \E i \in DOMAIN threads : ThreadStep(i)

Spec == Init /\ [][Next]_vars

(* Every thread that was started is scheduled until it ends. *)
FairSpec ==
  Spec /\ \A i \in 1 .. 2 * MaxPackets : WF_vars(i \in DOMAIN threads /\ ThreadStep(i))

-----------------------------------------------------------------------------
(* Properties *)

Buffers == 1 .. Len(mem)
FrameValues == [frame : Frames, data : [Slots -> Frames \cup {Blank}]]

TypeOK ==
  /\ image \in Collector /\ reset \in Collector
  /\ mem \in Seq([Slots -> Frames \cup {Blank}])
  /\ rawFrame \in Buffers /\ resetFrame1 \in Buffers
  /\ free \subseteq Buffers
  /\ DOMAIN resetFrameMap \subseteq Frames
  /\ \A n \in DOMAIN resetFrameMap : resetFrameMap[n] \in Buffers
  /\ threads \in Seq([frame : Frames, raw : Buffers, reset : 0 .. Len(mem),
                      at : {"start", "found", "process", "done"}])
  /\ handed \in Seq(FrameValues) /\ Len(handed) = Len(threads)

(* No buffer has two users, however many frames are being processed: the   *)
(* two being filled, the reset frames in the map, what the live threads    *)
(* work on and the free ones are all different.                            *)
Live == {i \in DOMAIN threads : threads[i].at # "done"}
Filed == {n \in DOMAIN resetFrameMap :
            ~\E i \in Live : threads[i].at = "found" /\ threads[i].frame = n}
InUse ==
  {[by |-> "raw", of |-> 0, buffer |-> rawFrame],
   [by |-> "reset", of |-> 0, buffer |-> resetFrame1]}
    \cup {[by |-> "map", of |-> n, buffer |-> resetFrameMap[n]] : n \in Filed}
    \cup {[by |-> "thread", of |-> i, buffer |-> threads[i].raw] : i \in Live}
    \cup {[by |-> "thread reset", of |-> i, buffer |-> threads[i].reset] :
             i \in {j \in Live : threads[j].reset # NoBuffer}}
NoSharedBuffer ==
  \A u, v \in InUse :
    /\ u.buffer \notin free
    /\ u # v => u.buffer # v.buffer

(* Every frame closed is delivered once and unchanged, whatever the order  *)
(* in which the threads of the frames run; and none is forgotten.          *)
Dispatch == INSTANCE FrameDispatch
DispatchesEach == Dispatch!FairSpec

(* A frame whose reset frame was complete before the image was is          *)
(* corrected with it, and the reset frame is that of its number, whole.    *)
(* (In temporal mode two threads race for this.)                           *)
CorrectedByOwn ==
  \A i \in Live :
    /\ threads[i].reset # NoBuffer =>
         \A s \in Slots : mem[threads[i].reset][s] = threads[i].frame
    /\ threads[i].at = "start" /\ threads[i].frame \in filed =>
         threads[i].frame \in DOMAIN resetFrameMap

=============================================================================
