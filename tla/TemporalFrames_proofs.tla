----------------------- MODULE TemporalFrames_proofs -----------------------
(***************************************************************************)
(* Theorems about TemporalFrames for every number of slots, frame numbers, *)
(* packets and timeouts.  Type correctness needs nothing else, the order   *)
(* of the frames only packets in order.  The rest is proved of a worker    *)
(* that keeps up (KeepsUp) and is not woken spuriously (MaxSpurious = 0),  *)
(* which is what the code relies on: TLC finds each of these properties    *)
(* violated without it.                                                    *)
(***************************************************************************)
EXTENDS TemporalFrames, SubFrameBanks_proofs

-----------------------------------------------------------------------------
(* Type correctness                                                        *)

(* The facts about the types that the steps below use. *)
LEMMA TypeFacts ==
  ASSUME TypeOK
  PROVE  /\ PoolOK(Marks)
         /\ Len(mem) \in Nat /\ DOMAIN mem = 1 .. Len(mem)
         /\ \A b \in 1 .. Len(mem) : mem[b] \in [Slots -> Marks]
         /\ Frames \subseteq Nat /\ 0 \in Frames /\ Frames \subseteq Marks
         /\ Slots \subseteq Nat /\ 1 \in Slots /\ 2 \in Slots
BY LenProperties, ElementOfSeq, BoundsAssumption, SlotsAssumption
   DEF TypeOK, PoolOK, Marks, Frames, Slots, Blank

LEMMA FreeExists ==
  ASSUME TypeOK, NEW k \in DOMAIN freeBuffers
  PROVE  freeBuffers[k] \in 1 .. Len(mem)
<1>1. freeBuffers \in Seq(1 .. Len(mem))
  BY DEF TypeOK
<1> QED
  BY <1>1, ElementOfSeq, LenProperties

(* A packet changes one slot of the bank being filled and nothing else. *)
LEMMA StorePacketStores ==
  ASSUME TypeOK, NEW p \in Packets, StorePacket(p)
  PROVE  /\ PoolOK(Marks) /\ (mem' \in Seq([Slots -> Marks]))
         /\ Len(mem') = Len(mem)
         /\ \A b \in 1 .. Len(mem) : b # subFrames => mem'[b] = mem[b]
         /\ mem'[subFrames] = [mem[subFrames] EXCEPT ![p.slot] = p.frame]
         /\ errorStats' \in [missing : Nat, late : Nat, duplicate : Nat]
         /\ checks' \in SUBSET Slots
         /\ io' \in {"idle", "full"}
<1> DEFINE bank == [mem[subFrames] EXCEPT ![p.slot] = p.frame]
<1>1. /\ p.slot \in Slots /\ p.frame \in Frames
      /\ subFrames \in 1 .. Len(mem)
      /\ mem \in Seq([Slots -> Marks])
  BY DEF Packets, TypeOK
<1>2. bank \in [Slots -> Marks]
  BY <1>1, TypeFacts
<1>3. mem' = [mem EXCEPT ![subFrames] = bank]
  BY DEF StorePacket
<1>4. /\ mem' \in Seq([Slots -> Marks])
      /\ Len(mem') = Len(mem)
      /\ mem'[subFrames] = bank
      /\ \A b \in 1 .. Len(mem) : b # subFrames => mem'[b] = mem[b]
  <2> HIDE DEF bank
  <2> QED
    BY <1>1, <1>2, <1>3, TypeFacts, ExceptSeq
<1>5. errorStats' \in [missing : Nat, late : Nat, duplicate : Nat]
  <2>1. /\ errorStats \in [missing : Nat, late : Nat, duplicate : Nat]
        /\ \/ errorStats' = errorStats
           \/ errorStats' = [errorStats EXCEPT !.duplicate = @ + 1]
    BY DEF StorePacket, TypeOK, ErrorCounts, Counted
  <2> QED
    BY <2>1
<1>6. checks' \in SUBSET Slots /\ io' \in {"idle", "full"}
  BY <1>1 DEF StorePacket, TypeOK
<1> QED
  BY <1>4, <1>5, <1>6, TypeFacts

(* What every arrival does to the network's counters. *)
LEMMA ArrivalTyped ==
  ASSUME TypeOK, NEW p \in Packets, Arrival(p)
  PROVE  /\ net' \in [packets : Nat, last : Nat, timeouts : Nat, wakeups : Nat]
         /\ net'.timeouts = net.timeouts /\ net'.wakeups = net.wakeups
<1>1. p.slot \in Nat /\ p.frame \in Nat
  BY TypeFacts DEF Packets
<1>2. p.frame * NumSlots + p.slot \in Nat
  BY <1>1, SlotsAssumption
<1> DEFINE pos == p.frame * NumSlots + p.slot
<1>3. /\ net \in [packets : Nat, last : Nat, timeouts : Nat, wakeups : Nat]
      /\ net' = [net EXCEPT !.packets = @ + 1, !.last = pos]
  BY DEF Arrival, TypeOK, ErrorCounts, Position
<1>4. pos \in Nat
  BY <1>2
<1> HIDE DEF pos
<1>5. net' \in [packets : Nat, last : Nat, timeouts : Nat, wakeups : Nat]
  <2>1. net' = [packets |-> net.packets + 1, last |-> pos,
                timeouts |-> net.timeouts, wakeups |-> net.wakeups]
    BY <1>3
  <2>2. net.packets + 1 \in Nat /\ net.timeouts \in Nat /\ net.wakeups \in Nat
    BY <1>3
  <2> QED
    BY <1>4, <2>1, <2>2
<1>6. net'.timeouts = net.timeouts /\ net'.wakeups = net.wakeups
  BY <1>3
<1> QED
  BY <1>5, <1>6

LEMMA TypeInit == Init => TypeOK
<1> SUFFICES ASSUME Init PROVE TypeOK
  OBVIOUS
<1>1. 0 \in Frames /\ 1 \in Slots /\ Blank \in Marks
  BY BoundsAssumption, SlotsAssumption DEF Frames, Slots, Marks
<1>2. BlankBank \in [Slots -> Marks]
  BY <1>1, BlankBankIsTyped
<1>3. mem \in Seq([Slots -> Marks]) /\ Len(mem) = 1
  BY <1>2 DEF Init
<1>4. freeBuffers \in Seq(1 .. Len(mem))
  BY DEF Init
<1>5. pkt \in Packets
  BY <1>1 DEF Init, Packets
<1>6. /\ errorStats \in [missing : Nat, late : Nat, duplicate : Nat]
      /\ net \in [packets : Nat, last : Nat, timeouts : Nat, wakeups : Nat]
  BY DEF Init, NoErrors
<1>7. handed \in Seq(FrameValues) /\ delivered \in Seq(FrameValues)
  BY DEF Init
<1>8. /\ alive \in BOOLEAN /\ expectNewFrame \in BOOLEAN
      /\ frameNumber \in Frames /\ checks \in SUBSET Slots
      /\ processFrameNumber \in Frames
      /\ io = "idle" /\ worker = "relock"
  BY <1>1 DEF Init
<1>9. subFrames \in 1 .. Len(mem) /\ subFrameBuffers \in 0 .. Len(mem)
  BY <1>3 DEF Init, NoBank
<1> QED
  BY <1>3, <1>4, <1>5, <1>6, <1>7, <1>8, <1>9 DEF TypeOK, ErrorCounts

(* The counters stay counters. *)
LEMMA StatsTyped ==
  ASSUME NEW stats \in [missing : Nat, late : Nat, duplicate : Nat]
  PROVE  /\ [stats EXCEPT !.late = @ + 1]
              \in [missing : Nat, late : Nat, duplicate : Nat]
         /\ [stats EXCEPT !.missing = @ + 1]
              \in [missing : Nat, late : Nat, duplicate : Nat]
<1>1. /\ stats.missing \in Nat /\ stats.late \in Nat /\ stats.duplicate \in Nat
      /\ [stats EXCEPT !.late = @ + 1] =
           [missing |-> stats.missing, late |-> stats.late + 1,
            duplicate |-> stats.duplicate]
      /\ [stats EXCEPT !.missing = @ + 1] =
           [missing |-> stats.missing + 1, late |-> stats.late,
            duplicate |-> stats.duplicate]
  OBVIOUS
<1> QED
  BY <1>1

LEMMA NetTyped ==
  ASSUME NEW n \in [packets : Nat, last : Nat, timeouts : Nat, wakeups : Nat]
  PROVE  /\ [n EXCEPT !.timeouts = @ + 1]
              \in [packets : Nat, last : Nat, timeouts : Nat, wakeups : Nat]
         /\ [n EXCEPT !.wakeups = @ + 1]
              \in [packets : Nat, last : Nat, timeouts : Nat, wakeups : Nat]
<1>1. /\ n.packets \in Nat /\ n.last \in Nat /\ n.timeouts \in Nat /\ n.wakeups \in Nat
      /\ [n EXCEPT !.timeouts = @ + 1] =
           [packets |-> n.packets, last |-> n.last,
            timeouts |-> n.timeouts + 1, wakeups |-> n.wakeups]
      /\ [n EXCEPT !.wakeups = @ + 1] =
           [packets |-> n.packets, last |-> n.last,
            timeouts |-> n.timeouts, wakeups |-> n.wakeups + 1]
  OBVIOUS
<1> QED
  BY <1>1

LEMMA ArrivalKeepsTypes ==
  ASSUME TypeOK, NEW p \in Packets, PacketReceived(p)
  PROVE  TypeOK'
<1>1. CASE FirstPacket(p)
  <2>1. Arrival(p) /\ StorePacket(p) /\ frameNumber' \in Frames /\ expectNewFrame' = FALSE
    BY <1>1 DEF FirstPacket, Packets
  <2> QED
    BY <1>1, <2>1, ArrivalTyped, StorePacketStores DEF FirstPacket, TypeOK, history, ErrorCounts
<1>2. CASE LatePacket(p)
  <2>1. Arrival(p)
    BY <1>2 DEF LatePacket
  <2>2. errorStats' \in [missing : Nat, late : Nat, duplicate : Nat]
    BY <1>2, StatsTyped DEF LatePacket, TypeOK, ErrorCounts
  <2> QED
    BY <1>2, <2>1, <2>2, ArrivalTyped DEF LatePacket, TypeOK, bufferVars, history, ErrorCounts
<1>3. CASE FramePacket(p)
  <2>1. Arrival(p) /\ StorePacket(p)
    BY <1>3 DEF FramePacket
  <2> QED
    BY <1>3, <2>1, ArrivalTyped, StorePacketStores DEF FramePacket, TypeOK, history, ErrorCounts
<1>4. CASE EarlyPacket(p)
  <2>1. Arrival(p)
    BY <1>4 DEF EarlyPacket
  <2>2. errorStats' \in [missing : Nat, late : Nat, duplicate : Nat]
    BY <1>4, StatsTyped DEF EarlyPacket, TypeOK, ErrorCounts
  <2>3. alive' \in BOOLEAN
    BY <1>4, SwitchAssumption DEF EarlyPacket
  <2> QED
    BY <1>4, <2>1, <2>2, <2>3, ArrivalTyped DEF EarlyPacket, TypeOK, bufferVars, history, ErrorCounts
<1> QED
  BY <1>1, <1>2, <1>3, <1>4 DEF PacketReceived

LEMMA SwapKeepsTypes ==
  ASSUME TypeOK, SwapBuffers
  PROVE  TypeOK'
<1>1. PICK bank \in 1 .. Len(mem) + 1 : Allocate(bank) /\ subFrames' = bank
  BY DEF SwapBuffers
<1>2. /\ PoolOK(Marks)' /\ Len(mem') \in Nat /\ Len(mem') >= Len(mem)
      /\ bank \in 1 .. Len(mem')
  BY <1>1, TypeFacts, AllocateKeepsPool
<1>3. subFrameBuffers' \in 0 .. Len(mem')
  BY <1>2, TypeFacts DEF SwapBuffers, TypeOK
<1>4. handed' \in Seq(FrameValues)
  <2>1. mem[subFrames] \in [Slots -> Marks]
    BY TypeFacts DEF TypeOK
  <2>2. [frame |-> frameNumber, data |-> mem[subFrames]] \in FrameValues
    BY <2>1 DEF FrameValues, TypeOK
  <2> QED
    BY <2>2, AppendProperties DEF SwapBuffers, TypeOK
<1> QED
  BY <1>1, <1>2, <1>3, <1>4 DEF SwapBuffers, TypeOK, PoolOK

LEMMA ProcessKeepsTypes ==
  ASSUME TypeOK, ProcessFrame
  PROVE  TypeOK'
<1>1. subFrameBuffers \in 1 .. Len(mem) /\ Release(subFrameBuffers)
  BY TypeFacts DEF ProcessFrame, TypeOK, NoBank
<1>2. PoolOK(Marks)' /\ Len(mem') = Len(mem)
  BY <1>1, TypeFacts, ReleaseAddsFree
<1>3. delivered' \in Seq(FrameValues)
  <2>1. mem[subFrameBuffers] \in [Slots -> Marks]
    BY <1>1, TypeFacts
  <2>2. [frame |-> processFrameNumber, data |-> mem[subFrameBuffers]] \in FrameValues
    BY <2>1 DEF FrameValues, TypeOK
  <2> QED
    BY <2>2, AppendProperties DEF ProcessFrame, TypeOK
<1> QED
  BY <1>2, <1>3 DEF ProcessFrame, TypeOK, PoolOK

LEMMA TypeStep ==
  ASSUME TypeOK, [Next]_vars
  PROVE  TypeOK'
<1>1. CASE \E p \in Packets : PacketReceived(p)
  BY <1>1, ArrivalKeepsTypes
<1>2. CASE Timeout
  <2>1. net' \in [packets : Nat, last : Nat, timeouts : Nat, wakeups : Nat]
    BY <1>2, NetTyped DEF Timeout, TypeOK
  <2> QED
    BY <1>2, <2>1, TypeFacts DEF Timeout, TypeOK, bufferVars, history
<1>3. CASE SwapBuffers
  BY <1>3, SwapKeepsTypes
<1>4. CASE NotifyFull
  BY <1>4 DEF NotifyFull, NotifyOne, TypeOK, bufferVars, history
<1>5. CASE NotifyPart
  <2>1. StorePacket(pkt) /\ pkt \in Packets /\ frameNumber' \in Frames
    BY <1>5 DEF NotifyPart, TypeOK, Packets
  <2>2. worker' \in {"relock", "waiting", "woken", "holding"}
    BY <1>5 DEF NotifyPart, NotifyOne, TypeOK
  <2> QED
    BY <1>5, <2>1, <2>2, StorePacketStores DEF NotifyPart, TypeOK, history, ErrorCounts
<1>6. CASE SpuriousWakeup
  <2>1. net' \in [packets : Nat, last : Nat, timeouts : Nat, wakeups : Nat]
    BY <1>6, NetTyped DEF SpuriousWakeup, TypeOK
  <2> QED
    BY <1>6, <2>1 DEF SpuriousWakeup, TypeOK, bufferVars, history
<1>7. CASE WorkerWait
  BY <1>7 DEF WorkerWait, TypeOK, bufferVars, history
<1>8. CASE WorkerLock
  BY <1>8 DEF WorkerLock, TypeOK, bufferVars, history
<1>9. CASE ProcessFrame
  BY <1>9, ProcessKeepsTypes
<1>10. CASE ProcessNothing
  BY <1>10 DEF ProcessNothing, TypeOK, bufferVars, history
<1>11. CASE UNCHANGED vars
  BY <1>11 DEF vars, TypeOK, bufferVars, history
<1> QED
  BY <1>1, <1>2, <1>3, <1>4, <1>5, <1>6, <1>7, <1>8, <1>9, <1>10, <1>11
     DEF Next, IoStep, WorkerStep

(* Every variable of the image path keeps its type, and every buffer it    *)
(* points to exists, however packets, timeouts and wake-ups interleave.    *)
THEOREM TypeCorrect == Spec => []TypeOK
<1>1. Init => TypeOK
  BY TypeInit
<1>2. TypeOK /\ [Next]_vars => TypeOK'
  BY TypeStep
<1> QED
  BY <1>1, <1>2, PTL DEF Spec

-----------------------------------------------------------------------------
(* A worker that keeps up                                                  *)

Paced == KeepsUp /\ MaxSpurious = 0

(* The inductive invariant.  What the packet handler and the worker may    *)
(* assume of each other at the handoff: *)
Control ==
  /\ io # "idle" => worker = "waiting" /\ checks = {} /\ ~expectNewFrame
  /\ expectNewFrame => checks = {}
  /\ net.wakeups = 0

(* Every flagged slot of the bank being filled holds the current frame. *)
Collected ==
  /\ \A s \in checks : mem[subFrames][s] = frameNumber
  /\ io = "full" => \A s \in Slots : mem[subFrames][s] = frameNumber

(* The frame the worker owns is the one last closed, and the only one      *)
(* closed and not delivered. *)
Owned ==
  IF WorkerOwns
    THEN /\ subFrameBuffers # NoBank
         /\ Len(handed) = Len(delivered) + 1
         /\ handed[Len(handed)] = [frame |-> processFrameNumber,
                                   data  |-> mem[subFrameBuffers]]
    ELSE Len(handed) = Len(delivered)

(* Free banks are blank, and so is the bank being filled but for packets   *)
(* of the current frame, as long as no timeout has abandoned a frame. *)
Clean ==
  /\ \A i \in DOMAIN freeBuffers : mem[freeBuffers[i]] = BlankBank
  /\ net.timeouts = 0 =>
       /\ PartialIsOwn
       /\ \A s \in Slots : mem[subFrames][s] \in {frameNumber, Blank}
       /\ expectNewFrame \/ io \in {"fullSwapped", "partSwapped"} =>
            \A s \in Slots : mem[subFrames][s] = Blank

IInv == TypeOK /\ Control /\ NoSharedBank /\ Collected /\ Owned /\ Clean


LEMMA InvInit == Init => IInv
<1> SUFFICES ASSUME Init PROVE IInv
  OBVIOUS
<1>1. TypeOK
  BY TypeInit
<1>2. io = "idle" /\ worker = "relock" /\ checks = {} /\ net.wakeups = 0
  BY DEF Init
<1>3. ~ WorkerOwns
  BY <1>2 DEF WorkerOwns
<1>4. DOMAIN freeBuffers = {} /\ DOMAIN handed = {}
  BY DEF Init
<1>5. NoSharedBank
  BY <1>3, <1>4 DEF NoSharedBank, IsFree, FreeOnce
<1>6. Owned
  BY <1>3 DEF Init, Owned
<1>7. \A s \in Slots : mem[subFrames][s] = Blank
  BY DEF Init, BlankBank
<1>8. Clean
  BY <1>4, <1>7 DEF Clean, PartialIsOwn
<1> QED
  BY <1>1, <1>2, <1>5, <1>6, <1>8 DEF IInv, Control, Collected

(* A step that leaves the buffers alone and does not change who owns what  *)
(* keeps the facts about the buffers. *)
LEMMA BuffersKept ==
  ASSUME IInv, UNCHANGED <<bufferVars, history>>, WorkerOwns' <=> WorkerOwns
  PROVE  /\ NoSharedBank' /\ Owned'
         /\ \A k \in DOMAIN freeBuffers' : mem'[freeBuffers'[k]] = BlankBank
         /\ PartialIsOwn => PartialIsOwn'
<1>1. /\ mem' = mem /\ freeBuffers' = freeBuffers /\ subFrames' = subFrames
      /\ subFrameBuffers' = subFrameBuffers
      /\ processFrameNumber' = processFrameNumber
      /\ handed' = handed /\ delivered' = delivered
  BY DEF bufferVars, history
<1>2. NoSharedBank'
  BY <1>1 DEF IInv, NoSharedBank, IsFree, FreeOnce
<1>3. Owned'
  BY <1>1 DEF IInv, Owned
<1>4. \A k \in DOMAIN freeBuffers' : mem'[freeBuffers'[k]] = BlankBank
  BY <1>1 DEF IInv, Clean
<1>5. PartialIsOwn => PartialIsOwn'
  BY <1>1 DEF PartialIsOwn
<1> QED
  BY <1>2, <1>3, <1>4, <1>5

(* A packet stored for the current frame keeps them too. *)
LEMMA BuffersStored ==
  ASSUME IInv, NEW p \in Packets, StorePacket(p),
         frameNumber' = p.frame, expectNewFrame' = FALSE,
         UNCHANGED <<subFrames, subFrameBuffers, processFrameNumber,
                     freeBuffers, history>>,
         net'.timeouts = net.timeouts,
         WorkerOwns' <=> WorkerOwns,
         checks # {} => frameNumber = p.frame,
         net.timeouts = 0 => \A s \in Slots : mem[subFrames][s] \in {p.frame, Blank}
  PROVE  NoSharedBank' /\ Collected' /\ Owned' /\ Clean'
<1> DEFINE bank == mem[subFrames]
<1>1. /\ TypeOK /\ p.slot \in Slots
      /\ bank \in [Slots -> Marks]
      /\ subFrames \in 1 .. Len(mem)
      /\ subFrames' = subFrames
      /\ mem'[subFrames] = [bank EXCEPT ![p.slot] = p.frame]
      /\ \A b \in 1 .. Len(mem) : b # subFrames => mem'[b] = mem[b]
  BY TypeFacts, StorePacketStores DEF IInv, TypeOK, Packets
<1>2. \A s \in Slots : mem'[subFrames'][s] = IF s = p.slot THEN p.frame ELSE bank[s]
  BY <1>1
<1>3. \A s \in checks \cup {p.slot} : s \in Slots => mem'[subFrames'][s] = p.frame
  BY <1>2 DEF IInv, Collected
<1>4. Collected'
  <2>1. checks' = {} \/ checks' = checks \cup {p.slot}
    BY DEF StorePacket
  <2>2. io' = "full" => checks \cup {p.slot} = Slots
    BY DEF StorePacket, checkAll
  <2>3. checks' \subseteq Slots
    BY StorePacketStores, <1>1
  <2> QED
    BY <1>3, <2>1, <2>2, <2>3 DEF Collected
<1>5. NoSharedBank'
  BY DEF IInv, NoSharedBank, IsFree, FreeOnce
<1>6. Owned'
  <2>1. CASE WorkerOwns
    <3>1. /\ subFrameBuffers # subFrames
          /\ subFrameBuffers \in 1 .. Len(mem)
      BY <1>1, <2>1, TypeFacts DEF IInv, NoSharedBank, Owned, TypeOK, NoBank
    <3>2. mem'[subFrameBuffers] = mem[subFrameBuffers]
      BY <1>1, <3>1
    <3> QED
      BY <2>1, <3>2 DEF IInv, Owned, history
  <2>2. CASE ~ WorkerOwns
    BY <2>2 DEF IInv, Owned, history
  <2> QED
    BY <2>1, <2>2
<1>7. Clean'
  <2>1. \A k \in DOMAIN freeBuffers' : mem'[freeBuffers'[k]] = BlankBank
    <3> SUFFICES ASSUME NEW k \in DOMAIN freeBuffers
                 PROVE  mem'[freeBuffers[k]] = BlankBank
      OBVIOUS
    <3>1. freeBuffers[k] # subFrames
      BY DEF IInv, NoSharedBank, IsFree
    <3>2. freeBuffers[k] \in 1 .. Len(mem)
      BY <1>1, FreeExists
    <3>3. mem[freeBuffers[k]] = BlankBank
      BY DEF IInv, Clean
    <3> QED
      BY <1>1, <3>1, <3>2, <3>3
  <2>2. ASSUME net'.timeouts = 0
        PROVE  /\ PartialIsOwn'
               /\ \A s \in Slots : mem'[subFrames'][s] \in {frameNumber', Blank}
    <3>1. PartialIsOwn'
      BY <2>2 DEF IInv, Clean, PartialIsOwn, history
    <3> QED
      BY <1>2, <2>2, <3>1
  <2>3. io' \notin {"fullSwapped", "partSwapped"}
    BY <1>1, StorePacketStores
  <2> QED
    BY <2>1, <2>2, <2>3 DEF Clean
<1> QED
  BY <1>4, <1>5, <1>6, <1>7

LEMMA ArrivalStep ==
  ASSUME Paced, IInv, TypeOK', NEW p \in Packets, PacketReceived(p)
  PROVE  IInv'
<1>1. /\ Arrival(p) /\ io = "idle" /\ TypeOK
      /\ net'.timeouts = net.timeouts /\ net'.wakeups = 0
  <2>1. Arrival(p)
    BY DEF PacketReceived, FirstPacket, LatePacket, FramePacket, EarlyPacket
  <2> QED
    BY <2>1, ArrivalTyped DEF IInv, Control, Arrival
<1>2. ClosesFrame(p) => worker = "waiting"
  BY <1>1 DEF Paced, Arrival
<1>3. CASE FirstPacket(p)
  <2>1. /\ StorePacket(p) /\ frameNumber' = p.frame /\ expectNewFrame' = FALSE
        /\ expectNewFrame /\ checks = {} /\ worker' = worker
    BY <1>3 DEF FirstPacket, IInv, Control
  <2>2. io' \in {"idle", "full"} /\ (io' = "full" => worker' = "waiting" /\ checks' = {})
    BY <1>2, <2>1 DEF StorePacket, ClosesFrame
  <2>3. WorkerOwns' <=> WorkerOwns
    BY <1>1, <2>1, <2>2 DEF WorkerOwns
  <2>4. net.timeouts = 0 => \A s \in Slots : mem[subFrames][s] \in {p.frame, Blank}
    BY <2>1 DEF IInv, Clean
  <2>5. NoSharedBank' /\ Collected' /\ Owned' /\ Clean'
    BY <1>1, <1>3, <2>1, <2>3, <2>4, BuffersStored DEF FirstPacket
  <2>6. Control'
    BY <1>1, <2>1, <2>2 DEF Control
  <2> QED
    BY <2>5, <2>6 DEF IInv
<1>4. CASE FramePacket(p)
  <2>1. /\ StorePacket(p) /\ frameNumber' = p.frame /\ expectNewFrame' = FALSE
        /\ ~ expectNewFrame /\ p.frame = frameNumber /\ worker' = worker
    BY <1>1, <1>4 DEF FramePacket, TypeOK
  <2>2. io' \in {"idle", "full"} /\ (io' = "full" => worker' = "waiting" /\ checks' = {})
    BY <1>2, <2>1 DEF StorePacket, ClosesFrame
  <2>3. WorkerOwns' <=> WorkerOwns
    BY <1>1, <2>1, <2>2 DEF WorkerOwns
  <2>4. net.timeouts = 0 => \A s \in Slots : mem[subFrames][s] \in {p.frame, Blank}
    BY <2>1 DEF IInv, Clean
  <2>5. NoSharedBank' /\ Collected' /\ Owned' /\ Clean'
    BY <1>1, <1>4, <2>1, <2>3, <2>4, BuffersStored DEF FramePacket
  <2>6. Control'
    BY <1>1, <2>1, <2>2 DEF Control
  <2> QED
    BY <2>5, <2>6 DEF IInv
<1>5. CASE LatePacket(p)
  <2>1. /\ UNCHANGED <<bufferVars, history, io, worker, checks, expectNewFrame, frameNumber>>
    BY <1>5 DEF LatePacket
  <2>2. WorkerOwns' <=> WorkerOwns
    BY <2>1 DEF WorkerOwns
  <2>3. NoSharedBank' /\ Owned'
    BY <2>1, <2>2, BuffersKept
  <2>4. Control' /\ Collected'
    BY <1>1, <2>1 DEF IInv, Control, Collected, bufferVars
  <2>5. Clean'
    BY <1>1, <2>1, <2>2, BuffersKept DEF IInv, Clean, bufferVars
  <2> QED
    BY <2>3, <2>4, <2>5 DEF IInv
<1>6. CASE EarlyPacket(p)
  <2>1. /\ UNCHANGED <<bufferVars, history, worker, expectNewFrame, frameNumber>>
        /\ checks' = {} /\ io' = "part" /\ ~ expectNewFrame
        /\ worker = "waiting"
    BY <1>2, <1>6 DEF EarlyPacket, ClosesFrame
  <2>2. WorkerOwns' <=> WorkerOwns
    BY <1>1, <2>1 DEF WorkerOwns
  <2>3. NoSharedBank' /\ Owned'
    BY <2>1, <2>2, BuffersKept
  <2>4. Control' /\ Collected'
    BY <1>1, <2>1 DEF Control, Collected
  <2>5. Clean'
    BY <1>1, <2>1, <2>2, BuffersKept DEF IInv, Clean, bufferVars
  <2> QED
    BY <2>3, <2>4, <2>5 DEF IInv
<1> QED
  BY <1>3, <1>4, <1>5, <1>6 DEF PacketReceived

LEMMA SwapStep ==
  ASSUME IInv, TypeOK', SwapBuffers
  PROVE  IInv'
<1>1. PICK bank \in 1 .. Len(mem) + 1 : Allocate(bank) /\ subFrames' = bank
  BY DEF SwapBuffers
<1>2. /\ TypeOK /\ FreeOnce /\ io \in {"full", "part"}
      /\ worker = "waiting" /\ checks = {} /\ ~ expectNewFrame /\ ~ WorkerOwns
  BY DEF IInv, NoSharedBank, Control, SwapBuffers, WorkerOwns
<1>3. /\ io' \in {"fullSwapped", "partSwapped"} /\ worker' = "waiting"
      /\ checks' = {} /\ ~ expectNewFrame' /\ net' = net
      /\ frameNumber' = frameNumber /\ processFrameNumber' = frameNumber
      /\ subFrameBuffers' = subFrames /\ delivered' = delivered
      /\ handed' = Append(handed, [frame |-> frameNumber, data |-> mem[subFrames]])
      /\ WorkerOwns'
  BY <1>2 DEF SwapBuffers, WorkerOwns
<1>4. /\ \A b \in 1 .. Len(mem) : mem'[b] = mem[b]
      /\ DOMAIN freeBuffers' \subseteq DOMAIN freeBuffers
      /\ \A k \in DOMAIN freeBuffers' : freeBuffers'[k] = freeBuffers[k]
  BY <1>1, <1>2, TypeFacts, AllocateKeepsPool
<1>5. /\ FreeOnce' /\ ~ IsFree(bank)'
      /\ \A b : IsFree(b)' => IsFree(b)
      /\ (bank = Len(mem) + 1 /\ mem'[bank] = BlankBank) \/ IsFree(bank)
  BY <1>1, <1>2, TypeFacts, AllocateTakesFree
<1>6. subFrames \in 1 .. Len(mem) /\ Len(mem) \in Nat /\ subFrames # bank /\ ~ IsFree(subFrames)
  BY <1>2, <1>5, TypeFacts DEF IInv, NoSharedBank, TypeOK
<1>7. NoSharedBank'
  BY <1>1, <1>3, <1>5, <1>6 DEF NoSharedBank, IsFree
<1>8. Control' /\ Collected'
  BY <1>3 DEF IInv, Control, Collected
<1>9. /\ Len(handed') = Len(handed) + 1 /\ Len(handed) \in Nat
      /\ handed'[Len(handed) + 1] = [frame |-> frameNumber, data |-> mem[subFrames]]
      /\ \A k \in 1 .. Len(handed) : handed'[k] = handed[k]
      /\ DOMAIN handed = 1 .. Len(handed) /\ DOMAIN handed' = 1 .. Len(handed) + 1
  <2>1. handed \in Seq(FrameValues) /\ handed' \in Seq(FrameValues)
    BY <1>2 DEF TypeOK
  <2>2. [frame |-> frameNumber, data |-> mem[subFrames]] \in FrameValues
    BY <1>2, <1>6, TypeFacts DEF FrameValues, TypeOK
  <2> QED
    BY <1>3, <2>1, <2>2, AppendProperties, LenProperties
<1>10. Owned'
  BY <1>2, <1>3, <1>4, <1>6, <1>9 DEF IInv, Owned, NoBank
<1>11. \A k \in DOMAIN freeBuffers : freeBuffers[k] \in 1 .. Len(mem) /\ mem[freeBuffers[k]] = BlankBank
  BY <1>2, FreeExists DEF IInv, Clean
<1>12. mem'[subFrames'] = BlankBank
  BY <1>1, <1>4, <1>5, <1>11 DEF IsFree
<1>13. ASSUME net'.timeouts = 0 PROVE PartialIsOwn'
  <2>1. PartialIsOwn /\ \A s \in Slots : mem[subFrames][s] \in {frameNumber, Blank}
    BY <1>3, <1>13 DEF IInv, Clean
  <2> SUFFICES ASSUME NEW k \in DOMAIN handed', NEW s \in Slots
               PROVE  handed'[k].data[s] \in {handed'[k].frame, Blank}
    BY DEF PartialIsOwn
  <2>2. CASE k \in DOMAIN handed
    BY <1>9, <2>1, <2>2 DEF PartialIsOwn
  <2>3. CASE k = Len(handed) + 1
    BY <1>9, <2>1, <2>3
  <2> QED
    BY <1>9, <2>2, <2>3
<1>14. Clean'
  <2>1. \A k \in DOMAIN freeBuffers' : mem'[freeBuffers'[k]] = BlankBank
    BY <1>4, <1>11
  <2>2. \A s \in Slots : mem'[subFrames'][s] = Blank
    BY <1>12 DEF BlankBank
  <2> QED
    BY <1>13, <2>1, <2>2 DEF Clean
<1> QED
  BY <1>7, <1>8, <1>10, <1>14 DEF IInv

LEMMA ProcessStep ==
  ASSUME IInv, TypeOK', ProcessFrame
  PROVE  /\ IInv'
         /\ Len(delivered) < Len(handed)
         /\ delivered' = Append(delivered, handed[Len(delivered) + 1])
<1>1. /\ TypeOK /\ worker = "holding" /\ io = "idle" /\ WorkerOwns
      /\ subFrameBuffers # NoBank /\ FreeOnce /\ ~ IsFree(subFrames)
      /\ subFrameBuffers # subFrames /\ ~ IsFree(subFrameBuffers)
  BY DEF IInv, Control, NoSharedBank, ProcessFrame, WorkerOwns
<1>2. /\ subFrameBuffers \in 1 .. Len(mem) /\ subFrames \in 1 .. Len(mem)
      /\ Release(subFrameBuffers)
  BY <1>1, TypeFacts DEF ProcessFrame, TypeOK, NoBank
<1>3. /\ mem'[subFrameBuffers] = BlankBank
      /\ \A b \in 1 .. Len(mem) : b # subFrameBuffers => mem'[b] = mem[b]
      /\ \A b : IsFree(b)' <=> IsFree(b) \/ b = subFrameBuffers
      /\ FreeOnce'
  BY <1>1, <1>2, TypeFacts, ReleaseAddsFree
<1>4. /\ worker' = "relock" /\ io' = io /\ ~ WorkerOwns'
      /\ UNCHANGED <<checks, expectNewFrame, frameNumber, net, subFrames, handed>>
      /\ mem'[subFrames'] = mem[subFrames]
  BY <1>1, <1>2, <1>3 DEF ProcessFrame, WorkerOwns
<1>5. /\ Len(handed) = Len(delivered) + 1
      /\ handed[Len(handed)] = [frame |-> processFrameNumber, data |-> mem[subFrameBuffers]]
      /\ Len(handed) \in Nat /\ Len(delivered) \in Nat
  BY <1>1, LenProperties DEF IInv, Owned, TypeOK
<1>6. /\ Len(delivered) < Len(handed)
      /\ delivered' = Append(delivered, handed[Len(delivered) + 1])
  BY <1>5 DEF ProcessFrame
<1>7. NoSharedBank'
  <2>1. ~ IsFree(subFrames)'
    BY <1>1, <1>3, <1>4 DEF IsFree
  <2> QED
    BY <1>3, <1>4, <2>1 DEF NoSharedBank
<1>8. Control' /\ Collected'
  BY <1>1, <1>4 DEF IInv, Control, Collected
<1>9. Owned'
  <2>1. Len(delivered') = Len(delivered) + 1
    <3>1. delivered \in Seq(FrameValues) /\ handed \in Seq(FrameValues)
      BY <1>1 DEF TypeOK
    <3>2. handed[Len(delivered) + 1] \in FrameValues
      BY <1>5, <3>1, ElementOfSeq
    <3> QED
      BY <1>6, <3>1, <3>2, AppendProperties
  <2> QED
    BY <1>4, <1>5, <2>1 DEF Owned
<1>10. Clean'
  <2>1. ASSUME NEW b, NEW k \in DOMAIN freeBuffers', b = freeBuffers'[k]
        PROVE  mem'[b] = BlankBank
    <3>1. IsFree(b) \/ b = subFrameBuffers
      BY <1>3, <2>1 DEF IsFree
    <3>2. CASE b # subFrameBuffers /\ IsFree(b)
      <4>1. PICK j \in DOMAIN freeBuffers : freeBuffers[j] = b
        BY <3>2 DEF IsFree
      <4>2. b \in 1 .. Len(mem) /\ mem[b] = BlankBank
        BY <1>1, <4>1, FreeExists DEF IInv, Clean
      <4> QED
        BY <1>3, <3>2, <4>2
    <3> QED
      BY <1>3, <3>1, <3>2
  <2>2. PartialIsOwn => PartialIsOwn'
    BY <1>4 DEF PartialIsOwn
  <2> QED
    BY <1>4, <2>1, <2>2 DEF IInv, Clean
<1> QED
  BY <1>6, <1>7, <1>8, <1>9, <1>10 DEF IInv

LEMMA InvStep ==
  ASSUME Paced, IInv, [Next]_vars
  PROVE  IInv'
<1>0. TypeOK /\ TypeOK'
  BY TypeStep DEF IInv
<1>1. CASE \E p \in Packets : PacketReceived(p)
  BY <1>0, <1>1, ArrivalStep
<1>2. CASE Timeout
  <2>1. /\ UNCHANGED <<bufferVars, history, io, worker>>
        /\ io = "idle" /\ checks' = {} /\ net' = [net EXCEPT !.timeouts = @ + 1]
    BY <1>2 DEF Timeout
  <2>2. /\ net'.timeouts # 0 /\ net'.wakeups = 0
    <3>1. /\ net \in [packets : Nat, last : Nat, timeouts : Nat, wakeups : Nat]
          /\ net.wakeups = 0
      BY <1>0 DEF IInv, Control, TypeOK
    <3>2. net'.timeouts = net.timeouts + 1 /\ net'.wakeups = net.wakeups
      BY <2>1, <3>1
    <3>3. net.timeouts \in Nat
      BY <3>1
    <3> QED
      BY <3>1, <3>2, <3>3
  <2>3. WorkerOwns' <=> WorkerOwns
    BY <2>1 DEF WorkerOwns
  <2>4. NoSharedBank' /\ Owned'
    BY <2>1, <2>3, BuffersKept
  <2>5. Control' /\ Collected'
    BY <2>1, <2>2 DEF Control, Collected
  <2>6. Clean'
    BY <2>1, <2>2, <2>3, BuffersKept DEF Clean
  <2> QED
    BY <1>0, <2>4, <2>5, <2>6 DEF IInv
<1>3. CASE SwapBuffers
  BY <1>0, <1>3, SwapStep
<1>4. CASE NotifyFull
  <2>1. /\ UNCHANGED <<bufferVars, history, checks, frameNumber, net>>
        /\ io = "fullSwapped" /\ checks = {} /\ io' = "idle" /\ expectNewFrame'
        /\ worker = "waiting" /\ worker' = "woken"
    BY <1>4 DEF NotifyFull, NotifyOne, IInv, Control
  <2>2. WorkerOwns' <=> WorkerOwns
    BY <2>1 DEF WorkerOwns
  <2>3. NoSharedBank' /\ Owned'
    BY <2>1, <2>2, BuffersKept
  <2>4. Control' /\ Collected'
    BY <2>1 DEF IInv, Control, Collected
  <2>5. Clean'
    BY <2>1, <2>2, BuffersKept DEF IInv, Clean, bufferVars
  <2> QED
    BY <1>0, <2>3, <2>4, <2>5 DEF IInv
<1>5. CASE NotifyPart
  <2>1. /\ StorePacket(pkt) /\ pkt \in Packets /\ frameNumber' = pkt.frame
        /\ io = "partSwapped" /\ checks = {} /\ ~ expectNewFrame /\ ~ expectNewFrame'
        /\ worker = "waiting" /\ worker' = "woken" /\ net' = net
        /\ expectNewFrame' = FALSE
    BY <1>0, <1>5 DEF NotifyPart, NotifyOne, IInv, Control, TypeOK
  <2>2. io' = "idle" /\ checks' = {pkt.slot}
    <3>1. {} \cup {pkt.slot} # Slots
      BY TypeFacts, <1>0
    <3> QED
      BY <2>1, <3>1 DEF StorePacket, checkAll
  <2>3. WorkerOwns' <=> WorkerOwns
    BY <2>1, <2>2 DEF WorkerOwns
  <2>4. net.timeouts = 0 => \A s \in Slots : mem[subFrames][s] \in {pkt.frame, Blank}
    BY <2>1 DEF IInv, Clean
  <2>5. NoSharedBank' /\ Collected' /\ Owned' /\ Clean'
    BY <1>5, <2>1, <2>3, <2>4, BuffersStored DEF NotifyPart
  <2>6. Control'
    BY <2>1, <2>2 DEF IInv, Control
  <2> QED
    BY <1>0, <2>5, <2>6 DEF IInv
<1>6. ~ SpuriousWakeup
  BY DEF SpuriousWakeup, Paced, IInv, Control
<1>7. CASE WorkerWait
  <2>1. /\ UNCHANGED <<bufferVars, history, io, checks, expectNewFrame, frameNumber, net>>
        /\ io = "idle" /\ worker = "relock" /\ worker' = "waiting"
    BY <1>7 DEF WorkerWait, IInv, Control
  <2>2. WorkerOwns' <=> WorkerOwns
    BY <2>1 DEF WorkerOwns
  <2>3. NoSharedBank' /\ Owned'
    BY <2>1, <2>2, BuffersKept
  <2>4. Control' /\ Collected'
    BY <2>1 DEF IInv, Control, Collected, bufferVars
  <2>5. Clean'
    BY <2>1, <2>2, BuffersKept DEF IInv, Clean, bufferVars
  <2> QED
    BY <1>0, <2>3, <2>4, <2>5 DEF IInv
<1>8. CASE WorkerLock
  <2>1. /\ UNCHANGED <<bufferVars, history, io, checks, expectNewFrame, frameNumber, net>>
        /\ io = "idle" /\ worker = "woken" /\ worker' = "holding"
    BY <1>8 DEF WorkerLock, IInv, Control
  <2>2. WorkerOwns' <=> WorkerOwns
    BY <2>1 DEF WorkerOwns
  <2>3. NoSharedBank' /\ Owned'
    BY <2>1, <2>2, BuffersKept
  <2>4. Control' /\ Collected'
    BY <2>1 DEF IInv, Control, Collected, bufferVars
  <2>5. Clean'
    BY <2>1, <2>2, BuffersKept DEF IInv, Clean, bufferVars
  <2> QED
    BY <1>0, <2>3, <2>4, <2>5 DEF IInv
<1>9. CASE ProcessFrame
  BY <1>0, <1>9, ProcessStep
<1>10. ~ ProcessNothing
  BY DEF ProcessNothing, IInv, Owned, WorkerOwns
<1>11. CASE UNCHANGED vars
  <2>1. /\ UNCHANGED <<bufferVars, history, io, worker, checks, expectNewFrame, frameNumber, net>>
    BY <1>11 DEF vars
  <2>2. WorkerOwns' <=> WorkerOwns
    BY <2>1 DEF WorkerOwns
  <2>3. NoSharedBank' /\ Owned'
    BY <2>1, <2>2, BuffersKept
  <2>4. Control' /\ Collected'
    BY <2>1 DEF IInv, Control, Collected, bufferVars
  <2>5. Clean'
    BY <2>1, <2>2, BuffersKept DEF IInv, Clean, bufferVars
  <2> QED
    BY <1>0, <2>3, <2>4, <2>5 DEF IInv
<1> QED
  BY <1>1, <1>2, <1>3, <1>4, <1>5, <1>6, <1>7, <1>8, <1>9, <1>10, <1>11
     DEF Next, IoStep, WorkerStep

(* The inductive invariant holds as long as the worker keeps up. *)
LEMMA InvAlways == ASSUME Paced PROVE Spec => []IInv
<1>1. Init => IInv
  BY InvInit
<1>2. IInv /\ [Next]_vars => IInv'
  BY InvStep
<1> QED
  BY <1>1, <1>2, PTL DEF Spec

-----------------------------------------------------------------------------
(* The theorems                                                            *)

(* A frame reported complete consists of packets of that frame only.       *)
THEOREM CompleteFrames == ASSUME Paced PROVE Spec => []CompleteIsOwn
<1>1. IInv => CompleteIsOwn
  BY DEF IInv, Collected, CompleteIsOwn
<1> QED
  BY <1>1, InvAlways, PTL

(* The io thread, the worker and the pool never share a buffer.            *)
THEOREM BuffersApart == ASSUME Paced PROVE Spec => []NoSharedBank
<1>1. IInv => NoSharedBank
  BY DEF IInv
<1> QED
  BY <1>1, InvAlways, PTL

(* Until a timeout abandons a frame, an incomplete frame shows only its    *)
(* own packets and zeroed pixels. *)
THEOREM PartialFrames == ASSUME Paced PROVE Spec => []PartialIsOwnUnlessTimedOut
<1>1. IInv => PartialIsOwnUnlessTimedOut
  BY DEF IInv, Clean, PartialIsOwnUnlessTimedOut
<1> QED
  BY <1>1, InvAlways, PTL

(* The image path implements FrameDelivery: every step of it hands one     *)
(* frame over, delivers the oldest one not yet delivered, or is invisible. *)
LEMMA DeliveryStep ==
  ASSUME Paced, IInv, [Next]_vars
  PROVE  [Delivery!Next]_(Delivery!vars)
<1>1. CASE SwapBuffers
  <2>1. PICK f \in FrameValues : handed' = Append(handed, f)
    <3>1. [frame |-> frameNumber, data |-> mem[subFrames]] \in FrameValues
      BY TypeFacts DEF FrameValues, IInv, TypeOK
    <3> QED
      BY <1>1, <3>1 DEF SwapBuffers
  <2>2. delivered' = delivered
    BY <1>1 DEF SwapBuffers
  <2> QED
    BY <2>1, <2>2 DEF Delivery!Next, Delivery!HandOver
<1>2. CASE ProcessFrame
  <2>1. TypeOK'
    BY TypeStep DEF IInv
  <2>2. /\ Len(delivered) < Len(handed)
        /\ delivered' = Append(delivered, handed[Len(delivered) + 1])
    BY <1>2, <2>1, ProcessStep
  <2>3. handed' = handed
    BY <1>2 DEF ProcessFrame
  <2> QED
    BY <2>2, <2>3 DEF Delivery!Next, Delivery!Deliver
<1>3. CASE ~ SwapBuffers /\ ~ ProcessFrame
  <2>1. UNCHANGED history
    BY <1>3 DEF Next, IoStep, WorkerStep, PacketReceived, FirstPacket, LatePacket,
       FramePacket, EarlyPacket, NotifyFull, NotifyPart, Timeout, WorkerWait,
       SpuriousWakeup, WorkerLock, ProcessNothing, vars
  <2> QED
    BY <2>1 DEF history, Delivery!vars
<1> QED
  BY <1>1, <1>2, <1>3

(* Each closed frame is delivered once, in order, with its number and the  *)
(* data it was closed with. *)
THEOREM DeliveryRefined == ASSUME Paced PROVE Spec => DeliversEachOnce
<1>1. Init => Delivery!Init
  BY DEF Init, Delivery!Init
<1>2. IInv /\ [Next]_vars => [Delivery!Next]_(Delivery!vars)
  BY DeliveryStep
<1> QED
  BY <1>1, <1>2, InvAlways, PTL DEF Spec, DeliversEachOnce, Delivery!Spec

-----------------------------------------------------------------------------
(* A network that keeps the order, and a worker that may be late           *)

(* A packet with a later position is of the same frame or of a later one.  *)
LEMMA LaterPosition ==
  ASSUME NEW f \in Nat, NEW n \in Nat, NEW p \in Packets,
         f * NumSlots <= n, n < Position(p)
  PROVE  f <= p.frame
<1> USE SlotsAssumption
<1>1. p.frame \in Nat /\ p.slot \in 1 .. NumSlots
  BY BoundsAssumption DEF Packets, Frames, Slots
<1>2. f * NumSlots < p.frame * NumSlots + NumSlots
  BY <1>1 DEF Position
<1>3. ASSUME p.frame + 1 <= f PROVE FALSE
  <2> DEFINE d == f - p.frame - 1
  <2>1. d \in Nat /\ f = p.frame + 1 + d
    BY <1>1, <1>3
  <2> HIDE DEF d
  <2>2. f * NumSlots = p.frame * NumSlots + NumSlots + d * NumSlots
    BY <1>1, <2>1
  <2> DEFINE fn == f * NumSlots  pn == p.frame * NumSlots  dn == d * NumSlots
  <2>3. fn \in Nat /\ pn \in Nat /\ dn \in Nat /\ NumSlots \in Nat
    BY <1>1, <2>1
  <2>4. fn < pn + NumSlots /\ fn = pn + NumSlots + dn
    BY <1>2, <2>2
  <2> HIDE DEF fn, pn, dn
  <2> QED  BY <2>3, <2>4
<1> QED  BY <1>1, <1>3

(* The position of a packet bounds its frame.                              *)
LEMMA PositionOfFrame ==
  ASSUME NEW p \in Packets
  PROVE  Position(p) \in Nat /\ p.frame * NumSlots <= Position(p)
<1> USE SlotsAssumption
<1>1. p.frame \in Nat /\ p.slot \in 1 .. NumSlots
  BY BoundsAssumption DEF Packets, Frames, Slots
<1>2. p.frame * NumSlots \in Nat
  BY <1>1
<1> QED  BY <1>1, <1>2 DEF Position

(* The number of the frame handed over last is no larger than the number   *)
(* of the frame being collected, and neither is ahead of the network: so   *)
(* when a timeout has reset frameNumber_, the next packet sets it to a     *)
(* number that is not smaller than those handed over.                      *)
NumbersGrow ==
  /\ io # "idle" => ~expectNewFrame
  /\ ~expectNewFrame => processFrameNumber <= frameNumber
  /\ io \in {"part", "partSwapped"} => frameNumber <= pkt.frame
  /\ processFrameNumber * NumSlots <= net.last
  /\ frameNumber * NumSlots <= net.last
  /\ io \in {"part", "partSwapped"} => pkt.frame * NumSlots <= net.last
DeliveredBefore == \A i \in DOMAIN delivered : delivered[i].frame <= processFrameNumber

OrderInv == TypeOK /\ NumbersGrow /\ DeliveredBefore /\ DeliveredInOrder

(* What arrives is not behind what has been handed over or collected.      *)
LEMMA OrderedArrival ==
  ASSUME Ordered, TypeOK, NumbersGrow, NEW p \in Packets, PacketReceived(p)
  PROVE  NumbersGrow'
<1>1. /\ net.last \in Nat /\ frameNumber \in Nat /\ processFrameNumber \in Nat
      /\ p.frame \in Nat
  BY TypeFacts DEF TypeOK, Packets
<1>2. /\ io = "idle" /\ net.last < Position(p) /\ net'.last = Position(p)
      /\ processFrameNumber' = processFrameNumber
  <2>1. Arrival(p) /\ processFrameNumber' = processFrameNumber
    BY DEF PacketReceived, FirstPacket, LatePacket, FramePacket, EarlyPacket, bufferVars
  <2>2. net \in [packets : Nat, last : Nat, timeouts : Nat, wakeups : Nat]
        /\ Position(p) \in Nat
    BY PositionOfFrame DEF TypeOK
  <2> QED  BY <2>1, <2>2, <1>1 DEF Arrival
<1>3. /\ Position(p) \in Nat
      /\ p.frame * NumSlots <= net'.last
      /\ processFrameNumber <= p.frame
  BY <1>1, <1>2, PositionOfFrame, LaterPosition DEF NumbersGrow
<1>4. /\ processFrameNumber * NumSlots <= net'.last
      /\ frameNumber * NumSlots <= net'.last
  <2>1. processFrameNumber * NumSlots \in Nat /\ frameNumber * NumSlots \in Nat
    BY <1>1, SlotsAssumption
  <2> QED  BY <1>1, <1>2, <1>3, <2>1 DEF NumbersGrow
<1>5. CASE FirstPacket(p)
  BY <1>1, <1>2, <1>3, <1>4, <1>5 DEF FirstPacket, StorePacket, NumbersGrow
<1>6. CASE LatePacket(p)
  BY <1>1, <1>2, <1>3, <1>4, <1>6 DEF LatePacket, NumbersGrow
<1>7. CASE FramePacket(p)
  BY <1>1, <1>2, <1>3, <1>4, <1>7 DEF FramePacket, StorePacket, NumbersGrow
<1>8. CASE EarlyPacket(p)
  BY <1>1, <1>2, <1>3, <1>4, <1>8 DEF EarlyPacket, NumbersGrow
<1> QED  BY <1>5, <1>6, <1>7, <1>8 DEF PacketReceived

(* Every other step keeps the numbers in order.                            *)
LEMMA OrderedStep ==
  ASSUME Ordered, TypeOK, NumbersGrow, [Next]_vars
  PROVE  NumbersGrow' /\ processFrameNumber <= processFrameNumber'
<1>1. /\ net \in [packets : Nat, last : Nat, timeouts : Nat, wakeups : Nat]
      /\ frameNumber \in Nat /\ processFrameNumber \in Nat /\ pkt.frame \in Nat
  BY TypeFacts DEF TypeOK, Packets
<1>2. CASE \E p \in Packets : PacketReceived(p)
  <2>1. processFrameNumber' = processFrameNumber
    BY <1>2 DEF PacketReceived, FirstPacket, LatePacket, FramePacket, EarlyPacket, bufferVars
  <2> QED  BY <1>1, <1>2, <2>1, OrderedArrival
<1>3. CASE Timeout
  <2>1. 0 * NumSlots <= net.last /\ net'.last = net.last
    BY <1>1, <1>3, SlotsAssumption DEF Timeout
  <2> QED  BY <1>1, <1>3, <2>1 DEF Timeout, bufferVars, NumbersGrow
<1>4. CASE SwapBuffers
  BY <1>1, <1>4 DEF SwapBuffers, NumbersGrow
<1>5. CASE NotifyFull
  BY <1>1, <1>5 DEF NotifyFull, bufferVars, NumbersGrow
<1>6. CASE NotifyPart
  BY <1>1, <1>6 DEF NotifyPart, StorePacket, NumbersGrow
<1>7. CASE SpuriousWakeup
  <2>1. net'.last = net.last
    BY <1>1, <1>7 DEF SpuriousWakeup
  <2> QED  BY <1>1, <1>7, <2>1 DEF SpuriousWakeup, bufferVars, NumbersGrow
<1>8. CASE WorkerStep \/ UNCHANGED vars
  BY <1>1, <1>8
     DEF WorkerStep, WorkerWait, WorkerLock, ProcessFrame, ProcessNothing, vars, bufferVars,
         NumbersGrow
<1> QED  BY <1>2, <1>3, <1>4, <1>5, <1>6, <1>7, <1>8 DEF Next, IoStep

(* What is delivered is numbered as the frame handed over last.            *)
LEMMA DeliveredStep ==
  ASSUME TypeOK, TypeOK', DeliveredBefore, DeliveredInOrder, [Next]_vars,
         processFrameNumber <= processFrameNumber'
  PROVE  DeliveredBefore' /\ DeliveredInOrder'
<1>1. /\ processFrameNumber \in Nat /\ processFrameNumber' \in Nat
      /\ delivered \in Seq(FrameValues)
      /\ \A f \in FrameValues : f.frame \in Nat
  BY TypeFacts DEF TypeOK, FrameValues, Frames
<1>2. \A i \in DOMAIN delivered : delivered[i].frame \in Nat
  BY <1>1, ElementOfSeq, LenProperties
<1>3. CASE ProcessFrame
  <2> DEFINE f == [frame |-> processFrameNumber, data |-> mem[subFrameBuffers]]
  <2>1. delivered' = Append(delivered, f) /\ processFrameNumber' = processFrameNumber
    BY <1>3 DEF ProcessFrame
  <2>2. f.frame = processFrameNumber
    OBVIOUS
  <2>3. f \in FrameValues
    <3>1. subFrameBuffers \in 1 .. Len(mem)
      BY <1>3, TypeFacts DEF ProcessFrame, TypeOK, NoBank
    <3> QED  BY <3>1, TypeFacts DEF TypeOK, FrameValues
  <2> HIDE DEF f
  <2>4. /\ DOMAIN delivered' = 1 .. Len(delivered) + 1 /\ Len(delivered) \in Nat
        /\ DOMAIN delivered = 1 .. Len(delivered)
        /\ \A i \in DOMAIN delivered : delivered'[i] = delivered[i]
        /\ delivered'[Len(delivered) + 1] = f
    BY <1>1, <2>1, <2>3, AppendProperties, LenProperties
  <2> QED  BY <1>1, <1>2, <2>1, <2>2, <2>4 DEF DeliveredBefore, DeliveredInOrder
<1>4. CASE ~ProcessFrame
  <2>1. delivered' = delivered
    BY <1>4 DEF Next, IoStep, WorkerStep, PacketReceived, FirstPacket, LatePacket,
       FramePacket, EarlyPacket, SwapBuffers, NotifyFull, NotifyPart, Timeout, WorkerWait,
       SpuriousWakeup, WorkerLock, ProcessNothing, vars, history
  <2> QED  BY <1>1, <1>2, <2>1 DEF DeliveredBefore, DeliveredInOrder
<1> QED  BY <1>3, <1>4

(* A network that loses packets but keeps their order makes the client see *)
(* the frames in order, also those of a worker that is overtaken by the io *)
(* thread or wakes up without a cause, and also after a timeout.           *)
THEOREM FramesInOrder == ASSUME Ordered PROVE Spec => []DeliveredInOrder
<1>1. Init => OrderInv
  <2> SUFFICES ASSUME Init PROVE OrderInv
    OBVIOUS
  <2>1. NumbersGrow
    BY SlotsAssumption DEF Init, NumbersGrow
  <2>2. DeliveredBefore /\ DeliveredInOrder
    BY DEF Init, DeliveredBefore, DeliveredInOrder
  <2> QED  BY <2>1, <2>2, TypeInit DEF OrderInv
<1>2. OrderInv /\ [Next]_vars => OrderInv'
  BY TypeStep, OrderedStep, DeliveredStep DEF OrderInv
<1>3. OrderInv => DeliveredInOrder
  BY DEF OrderInv
<1> QED  BY <1>1, <1>2, <1>3, PTL DEF Spec

=============================================================================
