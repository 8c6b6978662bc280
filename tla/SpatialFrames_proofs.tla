------------------------ MODULE SpatialFrames_proofs ------------------------
(***************************************************************************)
(* The types of SpatialFrames; and, while frames come in the order of      *)
(* their numbers, that no buffer has two users, that a frame is corrected  *)
(* with its own reset frame, and that each frame closed is delivered at    *)
(* most once and unchanged: for every number of packets, frames and        *)
(* timeouts, and any order of the frame threads.                           *)
(***************************************************************************)
EXTENDS SpatialFrames, SequenceTheorems, TLAPS

Data == [Slots -> Frames \cup {Blank}]
Threads(n) == [frame : Frames, raw : 1 .. n, reset : 0 .. n,
               at : {"start", "found", "process", "done"}]

-----------------------------------------------------------------------------
(* The operators the steps are built from                                  *)

(* What TypeOK says of the pool and of the threads. *)
LEMMA TypeFacts ==
  ASSUME TypeOK
  PROVE  /\ mem \in Seq(Data) /\ Len(mem) \in Nat
         /\ threads \in Seq(Threads(Len(mem))) /\ Len(threads) \in Nat
         /\ DOMAIN threads = 1 .. Len(threads)
         /\ \A i \in DOMAIN threads : threads[i] \in Threads(Len(mem))
         /\ \A b \in 1 .. Len(mem) : mem[b] \in Data
<1>1. mem \in Seq(Data) /\ threads \in Seq(Threads(Len(mem)))
  BY DEF TypeOK, Data, Threads, Buffers
<1> QED BY <1>1, LenProperties, ElementOfSeq

(* A packet is written into a buffer there is. *)
LEMMA StoredIn ==
  ASSUME NEW contents \in Seq(Data), NEW b \in 1 .. Len(contents), NEW p \in Packets
  PROVE  /\ Stored(contents, b, p) \in Seq(Data)
         /\ Len(Stored(contents, b, p)) = Len(contents)
<1> DEFINE buffer == [contents[b] EXCEPT ![p.slot] = p.frame]
<1>1. contents[b] \in Data /\ p.slot \in Slots /\ p.frame \in Frames
  BY ElementOfSeq DEF Packets
<1>2. buffer \in Data
  BY <1>1 DEF Data
<1>3. Stored(contents, b, p) = [contents EXCEPT ![b] = buffer]
  BY DEF Stored
<1> HIDE DEF buffer
<1> QED BY <1>2, <1>3, ExceptSeq

(* The pool grows by at most the buffer it had no array for. *)
LEMMA RoomFor ==
  ASSUME NEW contents \in Seq(Data), NEW b \in 1 .. Len(contents) + 1
  PROVE  /\ WithRoom(contents, b) \in Seq(Data)
         /\ Len(WithRoom(contents, b)) \in Nat
         /\ Len(contents) <= Len(WithRoom(contents, b))
         /\ b \in 1 .. Len(WithRoom(contents, b))
<1>1. BlankBuffer \in Data
  BY DEF BlankBuffer, Data
<1>2. Len(contents) \in Nat /\ DOMAIN contents = 1 .. Len(contents)
  BY LenProperties
<1>3. CASE b \in DOMAIN contents
  BY <1>2, <1>3 DEF WithRoom
<1>4. CASE b \notin DOMAIN contents
  <2>1. WithRoom(contents, b) = Append(contents, BlankBuffer)
    BY <1>4 DEF WithRoom
  <2>2. /\ Append(contents, BlankBuffer) \in Seq(Data)
        /\ Len(Append(contents, BlankBuffer)) = Len(contents) + 1
    BY <1>1, <1>2
  <2> QED BY <1>2, <2>1, <2>2
<1> QED BY <1>3, <1>4

(* The buffer the pool hands out was free or is new. *)
LEMMA Allocated ==
  ASSUME TypeOK, NEW b \in 1 .. Len(mem) + 1, Allocate(b)
  PROVE  /\ free' \subseteq free /\ b \notin free'
         /\ b \in free \/ b \notin 1 .. Len(mem)
         /\ free' \subseteq 1 .. Len(mem)
<1>1. free \subseteq 1 .. Len(mem) /\ Len(mem) \in Nat
  BY TypeFacts DEF TypeOK, Buffers
<1>2. CASE free = {}
  BY <1>1, <1>2 DEF Allocate
<1>3. CASE free # {}
  BY <1>1, <1>3 DEF Allocate
<1> QED BY <1>2, <1>3

(* What a packet makes of the record of a frame is one. *)
LEMMA AfterType ==
  ASSUME NEW c \in Collector, NEW p \in Packets
  PROVE  After(c, p) \in Collector
<1>1. Flags(c, p) \in SUBSET Slots /\ p.frame \in Frames /\ {} \in SUBSET Slots
  BY DEF Flags, Collector, Packets
<1> QED BY <1>1 DEF After, Collector

(* A thread is started at the end of the list. *)
LEMMA StartedIs ==
  ASSUME TypeOK, NEW n \in Frames, NEW d \in Data,
         threads' = Append(threads, [frame |-> n, raw |-> rawFrame, reset |-> NoBuffer,
                                     at |-> "start"]),
         handed' = Append(handed, [frame |-> n, data |-> d])
  PROVE  /\ DOMAIN threads' = DOMAIN threads \cup {Len(threads) + 1}
         /\ Len(threads) + 1 \notin DOMAIN threads
         /\ \A i \in DOMAIN threads : threads'[i] = threads[i]
         /\ threads'[Len(threads) + 1] =
              [frame |-> n, raw |-> rawFrame, reset |-> NoBuffer, at |-> "start"]
         /\ threads' \in Seq(Threads(Len(mem)))
         /\ handed' \in Seq(FrameValues) /\ Len(handed') = Len(threads')
         /\ Len(handed') = Len(handed) + 1
         /\ \A i \in DOMAIN threads : handed'[i] = handed[i]
         /\ handed'[Len(threads) + 1].frame = n
<1> DEFINE t == [frame |-> n, raw |-> rawFrame, reset |-> NoBuffer, at |-> "start"]
           h == [frame |-> n, data |-> d]
<1>1. rawFrame \in 1 .. Len(mem) /\ Len(mem) \in Nat
  BY TypeFacts DEF TypeOK, Buffers
<1>2. t \in Threads(Len(mem))
  BY <1>1 DEF Threads, NoBuffer
<1>3. h \in FrameValues
  BY DEF FrameValues, Data
<1>4. threads' = Append(threads, t) /\ handed' = Append(handed, h)
  OBVIOUS
<1>5. handed \in Seq(FrameValues) /\ Len(handed) = Len(threads)
  BY DEF TypeOK
<1>6. threads \in Seq(Threads(Len(mem)))
  BY TypeFacts
<1>7. h.frame = n
  OBVIOUS
<1> HIDE DEF t, h
<1>8. /\ threads' \in Seq(Threads(Len(mem))) /\ Len(threads') = Len(threads) + 1
      /\ DOMAIN threads' = 1 .. Len(threads) + 1
      /\ \A i \in 1 .. Len(threads) : threads'[i] = threads[i]
      /\ threads'[Len(threads) + 1] = t
  BY <1>2, <1>4, <1>6, LenProperties
<1>9. /\ handed' \in Seq(FrameValues) /\ Len(handed') = Len(handed) + 1
      /\ \A i \in 1 .. Len(handed) : handed'[i] = handed[i]
      /\ handed'[Len(handed) + 1] = h
  BY <1>3, <1>4, <1>5, LenProperties
<1>10. Len(threads) \in Nat /\ DOMAIN threads = 1 .. Len(threads)
  BY TypeFacts
<1>11. /\ DOMAIN threads' = DOMAIN threads \cup {Len(threads) + 1}
       /\ Len(threads) + 1 \notin DOMAIN threads
  BY <1>8, <1>10
<1>12. threads'[Len(threads) + 1] =
         [frame |-> n, raw |-> rawFrame, reset |-> NoBuffer, at |-> "start"]
  BY <1>8 DEF t
<1> QED BY <1>5, <1>7, <1>8, <1>9, <1>10, <1>11, <1>12

(* A step of thread i leaves it at a with the reset buffer r, and changes no *)
(* other thread.                                                             *)
Moved(i, r, a) ==
  /\ DOMAIN threads' = DOMAIN threads /\ Len(threads') = Len(threads)
  /\ threads' \in Seq(Threads(Len(mem)))
  /\ \A j \in DOMAIN threads : j # i => threads'[j] = threads[j]
  /\ threads'[i].frame = threads[i].frame /\ threads'[i].raw = threads[i].raw
  /\ threads'[i].reset = r /\ threads'[i].at = a

(* A thread's record is replaced by one of the same frame. *)
LEMMA ThreadReplaced ==
  ASSUME TypeOK, NEW i \in DOMAIN threads, NEW t \in Threads(Len(mem)),
         t.frame = threads[i].frame, t.raw = threads[i].raw,
         threads' = [threads EXCEPT ![i] = t]
  PROVE  Moved(i, t.reset, t.at)
<1>1. threads \in Seq(Threads(Len(mem))) /\ i \in 1 .. Len(threads)
      /\ DOMAIN threads = 1 .. Len(threads)
  BY TypeFacts
<1>2. /\ threads' \in Seq(Threads(Len(mem))) /\ Len(threads') = Len(threads)
      /\ \A j \in 1 .. Len(threads) : threads'[j] = IF j = i THEN t ELSE threads[j]
  BY <1>1, ExceptSeq
<1>3. DOMAIN threads' = 1 .. Len(threads)
  BY <1>2, LenProperties
<1> QED BY <1>1, <1>2, <1>3 DEF Moved

(* A thread looks for its reset frame, and finds it or does without. *)
LEMMA LooksUp ==
  ASSUME TypeOK, NEW i \in DOMAIN threads, LookUpReset(i)
  PROVE  \/ /\ threads[i].frame \in DOMAIN resetFrameMap
            /\ Moved(i, resetFrameMap[threads[i].frame], "found")
         \/ Moved(i, threads[i].reset, "process")
<1>1. threads[i] \in Threads(Len(mem))
  BY TypeFacts
<1>2. CASE threads[i].frame \in DOMAIN resetFrameMap
  <2> DEFINE t == [threads[i] EXCEPT !.reset = resetFrameMap[threads[i].frame], !.at = "found"]
  <2>1. resetFrameMap[threads[i].frame] \in 0 .. Len(mem)
    BY <1>2, TypeFacts DEF TypeOK, Buffers
  <2>2. /\ t \in Threads(Len(mem)) /\ t.frame = threads[i].frame
        /\ t.raw = threads[i].raw
        /\ t.reset = resetFrameMap[threads[i].frame] /\ t.at = "found"
    BY <1>1, <2>1 DEF Threads
  <2>3. threads' = [threads EXCEPT ![i] = t]
    BY <1>2 DEF LookUpReset
  <2> HIDE DEF t
  <2>4. Moved(i, t.reset, t.at)
    BY <2>2, <2>3, ThreadReplaced
  <2> QED BY <1>2, <2>2, <2>4
<1>3. CASE threads[i].frame \notin DOMAIN resetFrameMap
  <2> DEFINE t == [threads[i] EXCEPT !.at = "process"]
  <2>2. /\ t \in Threads(Len(mem)) /\ t.frame = threads[i].frame
        /\ t.raw = threads[i].raw /\ t.reset = threads[i].reset /\ t.at = "process"
    BY <1>1 DEF Threads
  <2>3. threads' = [threads EXCEPT ![i] = t]
    BY <1>3 DEF LookUpReset
  <2> HIDE DEF t
  <2>4. Moved(i, t.reset, t.at)
    BY <2>2, <2>3, ThreadReplaced
  <2> QED BY <2>2, <2>4
<1> QED BY <1>2, <1>3

(* A thread goes on with the reset frame it has, or none. *)
LEMMA GoesOn ==
  ASSUME TypeOK, NEW i \in DOMAIN threads, NEW a \in {"process", "done"},
         threads' = [threads EXCEPT ![i].at = a]
  PROVE  Moved(i, threads[i].reset, a)
<1> DEFINE t == [threads[i] EXCEPT !.at = a]
<1>1. threads[i] \in Threads(Len(mem))
  BY TypeFacts
<1>2. /\ t \in Threads(Len(mem)) /\ t.frame = threads[i].frame
      /\ t.raw = threads[i].raw /\ t.reset = threads[i].reset /\ t.at = a
  BY <1>1 DEF Threads
<1>3. threads' = [threads EXCEPT ![i] = t]
  OBVIOUS
<1> HIDE DEF t
<1>4. Moved(i, t.reset, t.at)
  BY <1>2, <1>3, ThreadReplaced
<1> QED BY <1>2, <1>4

-----------------------------------------------------------------------------
(* Types                                                                   *)

(* The pool only grows, and what is typed by the old pool is by the new.   *)
LEMMA PoolGrows ==
  ASSUME TypeOK, Len(mem') \in Nat, Len(mem) <= Len(mem')
  PROVE  /\ 1 .. Len(mem) \subseteq Buffers'
         /\ \A s \in Seq(Threads(Len(mem))) : s \in Seq(Threads(Len(mem')))
         /\ free \subseteq Buffers' /\ rawFrame \in Buffers' /\ resetFrame1 \in Buffers'
         /\ \A n \in DOMAIN resetFrameMap : resetFrameMap[n] \in Buffers'
<1>1. Len(mem) \in Nat
  BY TypeFacts
<1>2. 1 .. Len(mem) \subseteq 1 .. Len(mem') /\ 0 .. Len(mem) \subseteq 0 .. Len(mem')
  BY <1>1
<1>3. Threads(Len(mem)) \subseteq Threads(Len(mem'))
  BY <1>2 DEF Threads
<1>4. \A s \in Seq(Threads(Len(mem))) : s \in Seq(Threads(Len(mem')))
  BY <1>3, SeqMonotonic
<1> QED BY <1>2, <1>4 DEF TypeOK, Buffers

(* The types at the start. *)
LEMMA TypeInit == Init => TypeOK
<1> SUFFICES ASSUME Init PROVE TypeOK
  OBVIOUS
<1>1. 0 \in Frames /\ BlankBuffer \in Data
  BY ConstantsAssumption DEF Frames, BlankBuffer, Data
<1>2. mem \in Seq(Data) /\ Len(mem) = 2
  BY <1>1 DEF Init
<1>3. image \in Collector /\ reset \in Collector
  BY <1>1 DEF Init, Fresh, Collector
<1>4. threads \in Seq(Threads(Len(mem))) /\ handed \in Seq(FrameValues)
      /\ Len(handed) = Len(threads)
  BY DEF Init
<1>5. DOMAIN resetFrameMap = {}
  BY DEF Init
<1> QED BY <1>2, <1>3, <1>4, <1>5 DEF Init, TypeOK, Buffers, Data, Threads

(* The parts of TypeOK that most steps establish. *)
LEMMA TypeOKFrom ==
  ASSUME image' \in Collector, reset' \in Collector, mem' \in Seq(Data),
         rawFrame' \in Buffers', resetFrame1' \in Buffers', free' \subseteq Buffers',
         DOMAIN resetFrameMap' \subseteq Frames,
         \A n \in DOMAIN resetFrameMap' : resetFrameMap'[n] \in Buffers',
         threads' \in Seq(Threads(Len(mem'))),
         handed' \in Seq(FrameValues), Len(handed') = Len(threads')
  PROVE  TypeOK'
BY DEF TypeOK, Data, Threads, Buffers

(* Every step keeps the types. *)
LEMMA TypeInvariant == ASSUME TypeOK, [Next]_vars PROVE TypeOK'
<1> DEFINE Same == UNCHANGED <<rawFrame, resetFrame1, resetFrameMap, mem, free, threads, handed>>
<1>0. /\ image \in Collector /\ reset \in Collector /\ rawFrame \in 1 .. Len(mem)
      /\ resetFrame1 \in 1 .. Len(mem)
      /\ DOMAIN resetFrameMap \subseteq Frames
      /\ handed \in Seq(FrameValues) /\ Len(handed) = Len(threads)
  BY DEF TypeOK, Buffers
<1>1. ASSUME Same, image' \in Collector, reset' \in Collector
      PROVE  TypeOK'
  BY <1>1, <1>0 DEF TypeOK, Buffers
<1>2. ASSUME NEW p \in Packets, LateImage(p) \/ LateReset(p)
      PROVE  TypeOK'
  BY <1>0, <1>1, <1>2 DEF LateImage, LateReset, histories
<1>3. ASSUME NEW p \in Packets, ImagePacket(p)
      PROVE  TypeOK'
  <2> DEFINE contents == Stored(mem, rawFrame, p)
  <2>1. contents \in Seq(Data) /\ Len(contents) = Len(mem) /\ Len(mem) \in Nat
    BY <1>0, TypeFacts, StoredIn
  <2>2. image' \in Collector /\ reset' \in Collector /\ p.frame \in Frames
    BY <1>0, <1>3, AfterType DEF ImagePacket, Packets
  <2>3. UNCHANGED <<resetFrame1, resetFrameMap>>
    BY <1>3 DEF ImagePacket
  <2>4. CASE Complete(image, p)
    <3>1. PICK b \in 1 .. Len(mem) + 1 :
            Allocate(b) /\ rawFrame' = b /\ mem' = WithRoom(contents, b)
      BY <1>3, <2>4 DEF ImagePacket
    <3>2. Started(contents, p.frame)
      BY <1>3, <2>4 DEF ImagePacket
    <3> HIDE DEF contents
    <3>3. mem' \in Seq(Data) /\ Len(mem') \in Nat /\ Len(mem) <= Len(mem')
          /\ rawFrame' \in Buffers'
      BY <2>1, <3>1, RoomFor DEF Buffers
    <3>4. free' \subseteq 1 .. Len(mem)
      BY <3>1, Allocated
    <3>5. /\ threads' \in Seq(Threads(Len(mem)))
          /\ handed' \in Seq(FrameValues) /\ Len(handed') = Len(threads')
      <4>1. contents[rawFrame] \in Data
        BY <1>0, <2>1, ElementOfSeq
      <4> QED BY <2>2, <3>2, <4>1, StartedIs DEF Started
    <3> QED BY <1>0, <2>2, <2>3, <3>3, <3>4, <3>5, PoolGrows, TypeOKFrom
  <2>5. CASE ~Complete(image, p)
    <3>1. mem' = contents /\ UNCHANGED <<free, rawFrame, threads, handed>>
      BY <1>3, <2>5 DEF ImagePacket
    <3> HIDE DEF contents
    <3>2. Len(mem') = Len(mem) /\ mem' \in Seq(Data)
      BY <2>1, <3>1
    <3>3. threads' \in Seq(Threads(Len(mem')))
      BY <3>1, <3>2, TypeFacts
    <3> QED BY <1>0, <2>1, <2>2, <2>3, <3>1, <3>2, <3>3, PoolGrows, TypeOKFrom
  <2> QED BY <2>4, <2>5
<1>4. ASSUME NEW p \in Packets, EarlyImage(p)
      PROVE  TypeOK'
  <2>1. PICK b \in 1 .. Len(mem) + 1 :
          Allocate(b) /\ rawFrame' = b /\ mem' = Stored(WithRoom(mem, b), b, p)
    BY <1>4 DEF EarlyImage
  <2>2. image' \in Collector /\ reset' \in Collector /\ image.number \in Frames
    BY <1>0, <1>4, AfterType DEF EarlyImage, Collector
  <2>3. UNCHANGED <<resetFrame1, resetFrameMap>>
    BY <1>4 DEF EarlyImage
  <2>4. mem \in Seq(Data) /\ Len(mem) \in Nat
    BY TypeFacts
  <2>5. mem' \in Seq(Data) /\ Len(mem') \in Nat /\ Len(mem) <= Len(mem') /\ b \in 1 .. Len(mem')
    BY <2>1, <2>4, RoomFor, StoredIn
  <2>6. rawFrame' \in Buffers' /\ free' \subseteq 1 .. Len(mem)
    BY <2>1, <2>5, Allocated DEF Buffers
  <2>7. Started(mem, image.number)
    BY <1>4 DEF EarlyImage
  <2>8. /\ threads' \in Seq(Threads(Len(mem)))
        /\ handed' \in Seq(FrameValues) /\ Len(handed') = Len(threads')
    <3>1. mem[rawFrame] \in Data
      BY <1>0, TypeFacts
    <3> QED BY <2>2, <2>7, <3>1, StartedIs DEF Started
  <2> QED BY <1>0, <2>2, <2>3, <2>5, <2>6, <2>8, PoolGrows, TypeOKFrom
<1>5. ASSUME NEW p \in Packets, ResetPacket(p)
      PROVE  TypeOK'
  <2> DEFINE contents == Stored(mem, resetFrame1, p)
  <2>1. contents \in Seq(Data) /\ Len(contents) = Len(mem) /\ Len(mem) \in Nat
    BY <1>0, TypeFacts, StoredIn
  <2>2. image' \in Collector /\ reset' \in Collector /\ p.frame \in Frames
    BY <1>0, <1>5, AfterType DEF ResetPacket, Packets
  <2>3. UNCHANGED <<rawFrame, threads, handed>>
    BY <1>5 DEF ResetPacket
  <2>4. threads \in Seq(Threads(Len(mem)))
    BY TypeFacts
  <2>5. CASE Complete(reset, p)
    <3>1. FileReset(p)
      BY <1>5, <2>5 DEF ResetPacket
    <3>2. PICK b \in 1 .. Len(mem) + 1 :
            Allocate(b) /\ resetFrame1' = b /\ mem' = WithRoom(contents, b)
      BY <3>1 DEF FileReset
    <3>3. resetFrameMap' = [n \in DOMAIN resetFrameMap \cup {p.frame} |->
                              IF n = p.frame THEN resetFrame1 ELSE resetFrameMap[n]]
      BY <3>1 DEF FileReset
    <3> HIDE DEF contents
    <3>4. mem' \in Seq(Data) /\ Len(mem') \in Nat /\ Len(mem) <= Len(mem')
          /\ resetFrame1' \in Buffers'
      BY <2>1, <3>2, RoomFor DEF Buffers
    <3>5. free' \subseteq 1 .. Len(mem)
      BY <3>2, Allocated
    <3>6. /\ DOMAIN resetFrameMap' \subseteq Frames
          /\ \A n \in DOMAIN resetFrameMap' : resetFrameMap'[n] \in Buffers'
      BY <1>0, <2>2, <3>3, <3>4, PoolGrows
    <3> QED BY <1>0, <2>2, <2>3, <2>4, <3>4, <3>5, <3>6, PoolGrows, TypeOKFrom
  <2>6. CASE ~Complete(reset, p)
    <3>1. mem' = contents /\ UNCHANGED <<free, resetFrame1, resetFrameMap>>
      BY <1>5, <2>6 DEF ResetPacket
    <3> HIDE DEF contents
    <3>2. Len(mem') = Len(mem) /\ mem' \in Seq(Data)
      BY <2>1, <3>1
    <3> QED BY <1>0, <2>1, <2>2, <2>3, <2>4, <3>1, <3>2, PoolGrows, TypeOKFrom
  <2> QED BY <2>5, <2>6
<1>6. CASE Timeout
  <2>1. Fresh \in Collector
    BY ConstantsAssumption DEF Fresh, Collector, Frames
  <2> QED BY <1>0, <1>1, <1>6, <2>1 DEF Timeout, histories
<1>7. ASSUME NEW i \in DOMAIN threads, ThreadStep(i)
      PROVE  TypeOK'
  <2>1. /\ UNCHANGED <<image, reset, rawFrame, resetFrame1, mem, handed>>
        /\ DOMAIN resetFrameMap' \subseteq Frames
        /\ \A n \in DOMAIN resetFrameMap' : resetFrameMap'[n] \in Buffers
    BY <1>0, <1>7 DEF ThreadStep, LookUpReset, EraseReset, ProcessFrame, histories, TypeOK
  <2>2. threads[i] \in Threads(Len(mem))
    BY TypeFacts
  <2>3. free' \subseteq Buffers
    <3>1. threads[i].raw \in Buffers /\ threads[i].reset \in Buffers \cup {NoBuffer}
      BY <2>2, TypeFacts DEF Threads, Buffers, NoBuffer
    <3>2. \/ free' = free
          \/ free' = free \cup ({threads[i].raw, threads[i].reset} \ {NoBuffer})
      BY <1>7 DEF ThreadStep, LookUpReset, EraseReset, ProcessFrame
    <3>3. free \subseteq Buffers
      BY DEF TypeOK
    <3> QED BY <3>1, <3>2, <3>3
  <2>4. threads' \in Seq(Threads(Len(mem))) /\ Len(threads') = Len(threads)
    BY <1>7, LooksUp, GoesOn DEF ThreadStep, EraseReset, ProcessFrame, Moved
  <2>5. Buffers' = Buffers /\ mem' = mem /\ mem \in Seq(Data)
    BY <2>1, TypeFacts DEF Buffers
  <2>6. /\ image' \in Collector /\ reset' \in Collector /\ mem' \in Seq(Data)
        /\ rawFrame' \in Buffers' /\ resetFrame1' \in Buffers'
        /\ handed' \in Seq(FrameValues) /\ Len(handed') = Len(threads')
    BY <1>0, <2>1, <2>4, <2>5 DEF Buffers
  <2>7. threads' \in Seq(Threads(Len(mem')))
    BY <2>4, <2>5
  <2> QED BY <2>1, <2>3, <2>5, <2>6, <2>7, TypeOKFrom
<1>8. CASE UNCHANGED vars
  BY <1>0, <1>1, <1>8 DEF vars, histories
<1> QED BY <1>2, <1>3, <1>4, <1>5, <1>6, <1>7, <1>8 DEF Next

(* Records and buffers have their types, in every run. *)
THEOREM TypeCorrect == Spec => []TypeOK
<1>1. Init => TypeOK
  BY TypeInit
<1>2. TypeOK /\ [Next]_vars => TypeOK'
  BY TypeInvariant
<1> QED BY <1>1, <1>2, PTL DEF Spec

-----------------------------------------------------------------------------
(* Who uses which buffer                                                   *)

(* What the thread of a frame works on. *)
Held(i) == {threads[i].raw, threads[i].reset} \ {NoBuffer}

(* The inductive form of NoSharedBuffer: what the packets fill, ...        *)
FilledApart ==
  rawFrame # resetFrame1 /\ rawFrame \notin free /\ resetFrame1 \notin free

(* ... the reset frames that wait in the map, ...                          *)
MapApart ==
  \A n \in Filed :
    /\ resetFrameMap[n] \notin free
    /\ resetFrameMap[n] # rawFrame /\ resetFrameMap[n] # resetFrame1
    /\ \A m \in Filed : m # n => resetFrameMap[m] # resetFrameMap[n]

(* ... and what the threads that live work on is all different.            *)
HeldApart ==
  \A i \in Live :
    /\ threads[i].raw # threads[i].reset
    /\ \A b \in Held(i) :
         /\ b \notin free /\ b # rawFrame /\ b # resetFrame1
         /\ \A n \in Filed : resetFrameMap[n] # b
         /\ \A j \in Live : j # i => b \notin Held(j)

(* It rests on this: a thread that has not looked has no reset frame, ...  *)
NotLooked == \A i \in DOMAIN threads : threads[i].at = "start" => threads[i].reset = NoBuffer

(* ... no two threads process frames of one number, since the numbers of   *)
(* the frames closed increase, and the frame being collected comes next.   *)
OneThreadEach ==
  /\ \A i, j \in DOMAIN threads : i # j => threads[i].frame # threads[j].frame
  /\ \A i \in DOMAIN threads : handed[i].frame = threads[i].frame
  /\ ~image.expectNew => \A i \in DOMAIN threads : image.number > threads[i].frame

Apart == FilledApart /\ MapApart /\ HeldApart
IInv == TypeOK /\ Apart /\ NotLooked /\ OneThreadEach

(* The invariant at the start, when no thread runs. *)
LEMMA InvInit == Init => IInv
<1> SUFFICES ASSUME Init PROVE IInv
  OBVIOUS
<1>1. DOMAIN threads = {} /\ DOMAIN resetFrameMap = {}
  BY DEF Init
<1>2. Live = {} /\ Filed = {}
  BY <1>1 DEF Live, Filed
<1>3. FilledApart
  BY DEF Init, FilledApart
<1>4. MapApart /\ HeldApart
  BY <1>2 DEF MapApart, HeldApart
<1>5. NotLooked /\ OneThreadEach
  BY <1>1 DEF NotLooked, OneThreadEach
<1> QED BY <1>3, <1>4, <1>5, TypeInit DEF IInv, Apart

(* What is held or filed is a buffer there is. *)
LEMMA UsersTyped ==
  ASSUME TypeOK
  PROVE  /\ \A i \in DOMAIN threads : Held(i) \subseteq 1 .. Len(mem)
         /\ \A i \in DOMAIN threads : threads[i].raw \in Held(i)
         /\ \A n \in Filed : n \in DOMAIN resetFrameMap /\ resetFrameMap[n] \in 1 .. Len(mem)
         /\ Live \subseteq DOMAIN threads
<1>1. \A i \in DOMAIN threads :
        threads[i].raw \in 1 .. Len(mem) /\ threads[i].reset \in 0 .. Len(mem)
  BY TypeFacts DEF Threads
<1>2. Len(mem) \in Nat
  BY TypeFacts
<1>3. \A i \in DOMAIN threads :
        Held(i) \subseteq 1 .. Len(mem) /\ threads[i].raw \in Held(i)
  BY <1>1, <1>2 DEF Held, NoBuffer
<1> QED BY <1>3 DEF Filed, Live, TypeOK, Buffers

(* A buffer just allocated is nobody's. *)
LEMMA NobodysBuffer ==
  ASSUME TypeOK, Apart, NEW b \in 1 .. Len(mem) + 1, Allocate(b)
  PROVE  /\ b # rawFrame /\ b # resetFrame1
         /\ \A n \in Filed : resetFrameMap[n] # b
         /\ \A i \in Live : b \notin Held(i)
         /\ free' \subseteq free /\ b \notin free'
<1>1. b \in free \/ b \notin 1 .. Len(mem)
  BY Allocated
<1>2. rawFrame \in 1 .. Len(mem) /\ resetFrame1 \in 1 .. Len(mem)
  BY DEF TypeOK, Buffers
<1> QED BY <1>1, <1>2, Allocated, UsersTyped DEF Apart, FilledApart, MapApart, HeldApart

(* Packets that close no frame and complete no reset frame, and timeouts.  *)
LEMMA ApartStays ==
  ASSUME Apart, UNCHANGED <<rawFrame, resetFrame1, resetFrameMap, free, threads>>
  PROVE  Apart'
BY DEF Apart, FilledApart, MapApart, HeldApart, Held, Filed, Live

(* A frame is closed: its thread takes the raw buffer, and a new one comes. *)
LEMMA ApartWhenClosed ==
  ASSUME TypeOK, Apart, NEW b \in 1 .. Len(mem) + 1, Allocate(b), rawFrame' = b,
         UNCHANGED <<resetFrame1, resetFrameMap>>,
         NEW k, k \notin DOMAIN threads, DOMAIN threads' = DOMAIN threads \cup {k},
         \A i \in DOMAIN threads : threads'[i] = threads[i],
         threads'[k].raw = rawFrame, threads'[k].reset = NoBuffer, threads'[k].at = "start"
  PROVE  Apart'
<1>1. Live' = Live \cup {k} /\ Filed' = Filed
  BY DEF Live, Filed
<1>2. k \notin Live
  BY UsersTyped
<1>3. \A i \in Live : Held(i)' = Held(i) /\ threads'[i] = threads[i]
  BY UsersTyped DEF Held
<1>4. rawFrame \in 1 .. Len(mem) /\ Len(mem) \in Nat
  BY TypeFacts DEF TypeOK, Buffers
<1>5. Held(k)' = {rawFrame} /\ rawFrame # NoBuffer
  BY <1>4 DEF Held, NoBuffer
<1>6. FilledApart'
  BY NobodysBuffer DEF Apart, FilledApart
<1>7. MapApart'
  BY <1>1, NobodysBuffer DEF Apart, MapApart, Filed
<1>8. HeldApart'
  <2>1. \A i \in Live : rawFrame \notin Held(i)
    BY DEF Apart, HeldApart
  <2>2. ASSUME NEW i \in Live
        PROVE  /\ threads'[i].raw # threads'[i].reset
               /\ \A c \in Held(i)' :
                    /\ c \notin free' /\ c # rawFrame' /\ c # resetFrame1'
                    /\ \A n \in Filed' : resetFrameMap'[n] # c
                    /\ \A j \in Live' : j # i => c \notin Held(j)'
    BY <1>1, <1>3, <1>5, <2>1, NobodysBuffer DEF Apart, HeldApart
  <2>3. /\ threads'[k].raw # threads'[k].reset
        /\ rawFrame \notin free' /\ rawFrame # rawFrame' /\ rawFrame # resetFrame1'
        /\ \A n \in Filed' : resetFrameMap'[n] # rawFrame
        /\ \A j \in Live' : j # k => rawFrame \notin Held(j)'
    BY <1>1, <1>3, <1>5, <2>1, NobodysBuffer DEF Apart, FilledApart, MapApart
  <2> QED BY <1>1, <1>5, <2>2, <2>3 DEF HeldApart
<1> QED BY <1>6, <1>7, <1>8 DEF Apart

(* A reset frame is filed under n, and a new buffer comes. *)
LEMMA ApartWhenFiled ==
  ASSUME TypeOK, Apart, NEW b \in 1 .. Len(mem) + 1, Allocate(b), resetFrame1' = b,
         UNCHANGED <<rawFrame, threads>>,
         NEW n,
         resetFrameMap' = [m \in DOMAIN resetFrameMap \cup {n} |->
                             IF m = n THEN resetFrame1 ELSE resetFrameMap[m]]
  PROVE  Apart'
<1>1. Live' = Live /\ \A i \in Live : Held(i)' = Held(i) /\ threads'[i] = threads[i]
  BY DEF Live, Held
<1>2. /\ \A m \in Filed' : m = n \/ m \in Filed
      /\ \A m \in Filed' : resetFrameMap'[m] = IF m = n THEN resetFrame1 ELSE resetFrameMap[m]
  BY DEF Filed, Live
<1>3. FilledApart'
  BY NobodysBuffer DEF Apart, FilledApart
<1>4. MapApart'
  BY <1>2, NobodysBuffer DEF Apart, FilledApart, MapApart
<1>5. HeldApart'
  <2>1. ASSUME NEW i \in Live, NEW c \in Held(i)
        PROVE  /\ c \notin free' /\ c # rawFrame' /\ c # resetFrame1'
               /\ \A m \in Filed' : resetFrameMap'[m] # c
               /\ \A j \in Live : j # i => c \notin Held(j)
    BY <1>2, NobodysBuffer DEF Apart, HeldApart
  <2>2. \A i \in Live : threads'[i].raw # threads'[i].reset
    BY <1>1 DEF Apart, HeldApart
  <2>3. \A i \in Live : Held(i)' = Held(i)
    BY <1>1
  <2>4. ASSUME NEW i \in Live, NEW c \in Held(i)'
        PROVE  /\ c \notin free' /\ c # rawFrame' /\ c # resetFrame1'
               /\ \A m \in Filed' : resetFrameMap'[m] # c
               /\ \A j \in Live : j # i => c \notin Held(j)'
    <3>1. c \in Held(i)
      BY <2>3
    <3> QED BY <2>1, <2>3, <3>1
  <2> QED BY <1>1, <2>2, <2>4 DEF HeldApart
<1> QED BY <1>3, <1>4, <1>5 DEF Apart

(* The thread of frame n finds its reset frame: it is the map's no more.   *)
LEMMA ApartWhenFound ==
  ASSUME TypeOK, Apart, NEW i \in DOMAIN threads,
         UNCHANGED <<rawFrame, resetFrame1, resetFrameMap, free>>,
         \A j \in DOMAIN threads : j # i => threads[j].frame # threads[i].frame,
         threads[i].at = "start", threads[i].reset = NoBuffer,
         threads[i].frame \in DOMAIN resetFrameMap,
         Moved(i, resetFrameMap[threads[i].frame], "found")
  PROVE  Apart'
<1> DEFINE n == threads[i].frame
           b == resetFrameMap[n]
<1>1. n \in Filed /\ i \in Live
  BY DEF Filed, Live
<1>2. Live' = Live
  BY DEF Live, Moved
<1>3. \A j \in Live : j # i => Held(j)' = Held(j) /\ threads'[j] = threads[j]
  BY UsersTyped DEF Held, Moved
<1>4. threads'[i].at = "found" /\ threads'[i].frame = n
  BY DEF Moved
<1>5. Filed' = Filed \ {n}
  <2>1. n \notin Filed'
    BY <1>1, <1>2, <1>4 DEF Filed
  <2>2. \A j \in Live : j # i => threads'[j] = threads[j]
    BY <1>3
  <2>3. ASSUME NEW m \in DOMAIN resetFrameMap, m # n
        PROVE  (\E j \in Live : threads'[j].at = "found" /\ threads'[j].frame = m)
                 <=> (\E j \in Live : threads[j].at = "found" /\ threads[j].frame = m)
    BY <1>4, <2>2, <2>3
  <2> HIDE DEF n
  <2>4. Filed' = {m \in DOMAIN resetFrameMap :
                    ~\E j \in Live : threads'[j].at = "found" /\ threads'[j].frame = m}
    BY <1>2 DEF Filed
  <2> QED BY <2>1, <2>3, <2>4 DEF Filed
<1>6. /\ threads'[i].raw = threads[i].raw /\ threads'[i].reset = b
      /\ b \in 1 .. Len(mem) /\ threads[i].raw \in 1 .. Len(mem)
  BY <1>1, UsersTyped DEF Moved
<1>7. Held(i)' = {threads[i].raw, b} /\ Held(i) = {threads[i].raw}
  BY <1>6, TypeFacts DEF Held, NoBuffer
<1>8. FilledApart' /\ MapApart'
  BY <1>5 DEF Apart, FilledApart, MapApart
<1>9. HeldApart'
  <2>1. /\ b \notin free /\ b # rawFrame /\ b # resetFrame1
        /\ \A m \in Filed : m # n => resetFrameMap[m] # b
        /\ \A j \in Live : b \notin Held(j)
    BY <1>1 DEF Apart, MapApart, HeldApart
  <2> HIDE DEF n, b
  <2>2. ASSUME NEW j \in Live, j # i
        PROVE  /\ threads'[j].raw # threads'[j].reset
               /\ \A c \in Held(j)' :
                    /\ c \notin free' /\ c # rawFrame' /\ c # resetFrame1'
                    /\ \A m \in Filed' : resetFrameMap'[m] # c
                    /\ \A l \in Live' : l # j => c \notin Held(l)'
    <3>1. Held(j)' = Held(j) /\ threads'[j] = threads[j]
      BY <1>3, <2>2
    <3>2. \A c \in Held(j) : c # b /\ c # threads[i].raw
      BY <1>1, <1>7, <2>1, <2>2 DEF Apart, HeldApart
    <3>3. \A c \in Held(j), l \in Live : l # j => c \notin Held(l)'
      BY <1>3, <1>7, <2>2, <3>2 DEF Apart, HeldApart
    <3> QED BY <1>2, <1>5, <3>1, <3>3 DEF Apart, HeldApart
  <2>3. /\ threads'[i].raw # threads'[i].reset
        /\ \A c \in Held(i)' :
             /\ c \notin free' /\ c # rawFrame' /\ c # resetFrame1'
             /\ \A m \in Filed' : resetFrameMap'[m] # c
             /\ \A l \in Live' : l # i => c \notin Held(l)'
    <3>1. /\ threads[i].raw \notin free
          /\ threads[i].raw # rawFrame /\ threads[i].raw # resetFrame1
          /\ \A m \in Filed : resetFrameMap[m] # threads[i].raw
          /\ \A l \in Live : l # i => threads[i].raw \notin Held(l)
      BY <1>1, <1>7 DEF Apart, HeldApart
    <3>2. threads[i].raw # b
      BY <1>1, <1>7, <2>1
    <3>3. \A l \in Live : l # i => Held(l)' = Held(l)
      BY <1>3
    <3>4. ASSUME NEW c \in {threads[i].raw, b}
          PROVE  /\ c \notin free /\ c # rawFrame /\ c # resetFrame1
                 /\ \A m \in Filed' : resetFrameMap[m] # c
                 /\ \A l \in Live : l # i => c \notin Held(l)
      BY <1>5, <2>1, <3>1
    <3> QED BY <1>2, <1>6, <1>7, <3>2, <3>3, <3>4
  <2> QED BY <1>2, <2>2, <2>3 DEF HeldApart
<1> QED BY <1>8, <1>9 DEF Apart

(* A thread goes on with the buffers it has. *)
LEMMA ApartWhenKept ==
  ASSUME TypeOK, Apart, NEW i \in DOMAIN threads,
         UNCHANGED <<rawFrame, resetFrame1, free>>,
         threads[i].at # "done", Moved(i, threads[i].reset, "process"),
         \A n \in Filed' : n \in Filed /\ resetFrameMap'[n] = resetFrameMap[n]
  PROVE  Apart'
<1>1. Live' = Live
  BY DEF Live, Moved
<1>2. \A j \in Live : /\ Held(j)' = Held(j)
                      /\ threads'[j].raw = threads[j].raw
                      /\ threads'[j].reset = threads[j].reset
  <2>1. \A j \in Live : threads'[j].raw = threads[j].raw /\ threads'[j].reset = threads[j].reset
    BY UsersTyped DEF Moved
  <2> QED BY <2>1 DEF Held
<1> QED BY <1>1, <1>2 DEF Apart, FilledApart, MapApart, HeldApart

(* A thread is through: its buffers are free. *)
LEMMA ApartWhenDone ==
  ASSUME TypeOK, Apart, NEW i \in Live,
         UNCHANGED <<rawFrame, resetFrame1, resetFrameMap>>,
         free' = free \cup Held(i),
         threads[i].at = "process", Moved(i, threads[i].reset, "done")
  PROVE  Apart'
<1>0. i \in DOMAIN threads
  BY UsersTyped
<1>1. Live' = Live \ {i}
  BY <1>0 DEF Live, Moved
<1>2. \A j \in Live' : Held(j)' = Held(j) /\ threads'[j] = threads[j]
  <2>1. \A j \in Live' : threads'[j] = threads[j]
    BY <1>1, UsersTyped DEF Moved
  <2> QED BY <2>1 DEF Held
<1>3. Filed' = Filed
  <2>1. \A m \in DOMAIN resetFrameMap :
          (\E j \in Live' : threads'[j].at = "found" /\ threads'[j].frame = m)
            <=> (\E j \in Live : threads[j].at = "found" /\ threads[j].frame = m)
    BY <1>1, <1>2
  <2> QED BY <2>1 DEF Filed
<1>4. FilledApart' /\ MapApart'
  BY <1>3 DEF Apart, FilledApart, MapApart, HeldApart
<1>5. HeldApart'
  BY <1>1, <1>2, <1>3 DEF Apart, HeldApart
<1> QED BY <1>4, <1>5 DEF Apart

(* The thread started last has the largest number. *)
LEMMA NumberedWhenClosed ==
  ASSUME IInv, NEW n \in Frames, NEW k,
         \A i \in DOMAIN threads : n > threads[i].frame,
         k \notin DOMAIN threads, DOMAIN threads' = DOMAIN threads \cup {k},
         \A i \in DOMAIN threads : threads'[i] = threads[i] /\ handed'[i] = handed[i],
         threads'[k].frame = n, threads'[k].reset = NoBuffer, handed'[k].frame = n,
         ~image'.expectNew => image'.number > n /\ image'.number \in Frames
  PROVE  NotLooked' /\ OneThreadEach'
<1>1. NotLooked'
  BY DEF IInv, NotLooked
<1>2. \A i \in DOMAIN threads : threads[i].frame \in Frames
  BY TypeFacts DEF IInv, Threads
<1>3. \A i, j \in DOMAIN threads' : i # j => threads'[i].frame # threads'[j].frame
  BY <1>2 DEF IInv, OneThreadEach, Frames
<1>4. \A i \in DOMAIN threads' : handed'[i].frame = threads'[i].frame
  BY DEF IInv, OneThreadEach
<1>5. ~image'.expectNew => \A i \in DOMAIN threads' : image'.number > threads'[i].frame
  BY <1>2 DEF Frames
<1> QED BY <1>1, <1>3, <1>4, <1>5 DEF OneThreadEach

(* A step of a thread changes no number. *)
LEMMA NumberedWhenMoved ==
  ASSUME IInv, NEW i \in DOMAIN threads, NEW r, NEW a \in {"found", "process", "done"},
         Moved(i, r, a), UNCHANGED <<image, handed>>
  PROVE  NotLooked' /\ OneThreadEach'
<1>1. \A j \in DOMAIN threads : threads'[j].frame = threads[j].frame
  BY DEF Moved
<1>2. NotLooked'
  BY DEF Moved, IInv, NotLooked
<1> QED BY <1>1, <1>2 DEF Moved, IInv, OneThreadEach

(* While a frame is collected its number is beyond those of all threads.   *)
LEMMA NumberComesNext ==
  ASSUME IInv, Ordered, NEW p \in Packets, ImageArrival(p), ~Late(image, p)
  PROVE  \A i \in DOMAIN threads : p.frame > threads[i].frame
<1>1. DOMAIN handed = DOMAIN threads
  BY TypeFacts, LenProperties DEF IInv, TypeOK
<1>2. CASE image.expectNew
  BY <1>1, <1>2 DEF ImageArrival, IInv, OneThreadEach
<1>3. CASE ~image.expectNew
  <2>1. image.number \in Frames /\ p.frame \in Frames
    BY DEF IInv, TypeOK, Collector, Packets
  <2>2. p.frame >= image.number
    BY <1>3, <2>1 DEF Late, Frames
  <2>3. \A i \in DOMAIN threads : threads[i].frame \in Frames
    BY TypeFacts DEF IInv, Threads
  <2> QED BY <1>3, <2>1, <2>2, <2>3 DEF IInv, OneThreadEach, Frames
<1> QED BY <1>2, <1>3

(* Every step keeps the invariant if the frames come in order. *)
LEMMA InvNext ==
  ASSUME Ordered, IInv, [Next]_vars
  PROVE  IInv'
<1>0. TypeOK /\ Apart /\ NotLooked /\ OneThreadEach /\ TypeOK'
  BY TypeInvariant DEF IInv
<1>1. ASSUME UNCHANGED <<image, handed, threads>>
      PROVE  NotLooked' /\ OneThreadEach'
  BY <1>0, <1>1 DEF NotLooked, OneThreadEach
<1>2. ASSUME NEW p \in Packets, LateImage(p) \/ LateReset(p)
      PROVE  IInv'
  BY <1>0, <1>1, <1>2, ApartStays DEF LateImage, LateReset, histories, IInv
<1>3. ASSUME NEW p \in Packets, ImagePacket(p)
      PROVE  IInv'
  <2>1. \A i \in DOMAIN threads : p.frame > threads[i].frame
    BY <1>3, NumberComesNext DEF ImagePacket
  <2>2. image' = After(image, p) /\ UNCHANGED <<resetFrame1, resetFrameMap>>
    BY <1>3 DEF ImagePacket
  <2>3. p.frame \in Frames
    BY DEF Packets
  <2>4. CASE Complete(image, p)
    <3> DEFINE contents == Stored(mem, rawFrame, p)
               k == Len(threads) + 1
    <3>1. PICK b \in 1 .. Len(mem) + 1 : Allocate(b) /\ rawFrame' = b
      BY <1>3, <2>4 DEF ImagePacket
    <3>2. contents[rawFrame] \in Data
      <4>1. rawFrame \in 1 .. Len(mem)
        BY <1>0 DEF TypeOK, Buffers
      <4>2. contents \in Seq(Data) /\ Len(contents) = Len(mem)
        BY <1>0, <4>1, TypeFacts, StoredIn
      <4> QED BY <4>1, <4>2, ElementOfSeq
    <3>3. Started(contents, p.frame)
      BY <1>3, <2>4 DEF ImagePacket
    <3> HIDE DEF contents
    <3>4. /\ DOMAIN threads' = DOMAIN threads \cup {k} /\ k \notin DOMAIN threads
          /\ \A i \in DOMAIN threads : threads'[i] = threads[i] /\ handed'[i] = handed[i]
          /\ threads'[k] = [frame |-> p.frame, raw |-> rawFrame, reset |-> NoBuffer,
                            at |-> "start"]
          /\ handed'[k].frame = p.frame
      BY <1>0, <2>3, <3>2, <3>3, StartedIs DEF Started
    <3> HIDE DEF k
    <3>5. Apart'
      BY <1>0, <2>2, <3>1, <3>4, ApartWhenClosed
    <3>6. image'.expectNew
      BY <2>2, <2>4 DEF After
    <3>7. NotLooked' /\ OneThreadEach'
      BY <2>1, <2>3, <3>4, <3>6, NumberedWhenClosed
    <3> QED BY <1>0, <3>5, <3>7 DEF IInv
  <2>5. CASE ~Complete(image, p)
    <3>1. UNCHANGED <<free, rawFrame, threads, handed>>
      BY <1>3, <2>5 DEF ImagePacket
    <3>2. image'.number = p.frame
      BY <2>2, <2>5 DEF After
    <3>3. NotLooked' /\ OneThreadEach'
      BY <1>0, <2>1, <3>1, <3>2 DEF NotLooked, OneThreadEach
    <3> QED BY <1>0, <2>2, <3>1, <3>3, ApartStays DEF IInv
  <2> QED BY <2>4, <2>5
<1>4. ASSUME NEW p \in Packets, EarlyImage(p)
      PROVE  IInv'
  <2> DEFINE k == Len(threads) + 1
             n == image.number
  <2>1. PICK b \in 1 .. Len(mem) + 1 : Allocate(b) /\ rawFrame' = b
    BY <1>4 DEF EarlyImage
  <2>2. /\ image' = After(image, p) /\ UNCHANGED <<resetFrame1, resetFrameMap>>
        /\ ~image.expectNew /\ p.frame > n
    BY <1>4 DEF EarlyImage, Early
  <2>3. n \in Frames /\ p.frame \in Frames /\ \A i \in DOMAIN threads : n > threads[i].frame
    BY <1>0, <2>2 DEF TypeOK, Collector, OneThreadEach, Packets
  <2>4. mem[rawFrame] \in Data
    BY <1>0, TypeFacts DEF TypeOK, Buffers
  <2>5. Started(mem, n)
    BY <1>4 DEF EarlyImage
  <2>6. /\ DOMAIN threads' = DOMAIN threads \cup {k} /\ k \notin DOMAIN threads
        /\ \A i \in DOMAIN threads : threads'[i] = threads[i] /\ handed'[i] = handed[i]
        /\ threads'[k] = [frame |-> n, raw |-> rawFrame, reset |-> NoBuffer, at |-> "start"]
        /\ handed'[k].frame = n
    BY <1>0, <2>3, <2>4, <2>5, StartedIs DEF Started
  <2>7. ~image'.expectNew => image'.number > n /\ image'.number \in Frames
    BY <2>2, <2>3 DEF After
  <2> HIDE DEF k, n
  <2>8. Apart'
    BY <1>0, <2>1, <2>2, <2>6, ApartWhenClosed
  <2>9. NotLooked' /\ OneThreadEach'
    BY <2>3, <2>6, <2>7, NumberedWhenClosed
  <2> QED BY <1>0, <2>8, <2>9 DEF IInv
<1>5. ASSUME NEW p \in Packets, ResetPacket(p)
      PROVE  IInv'
  <2>1. UNCHANGED <<image, rawFrame, threads, handed>>
    BY <1>5 DEF ResetPacket
  <2>2. CASE Complete(reset, p)
    <3>1. FileReset(p)
      BY <1>5, <2>2 DEF ResetPacket
    <3>2. PICK b \in 1 .. Len(mem) + 1 : Allocate(b) /\ resetFrame1' = b
      BY <3>1 DEF FileReset
    <3>3. resetFrameMap' = [m \in DOMAIN resetFrameMap \cup {p.frame} |->
                              IF m = p.frame THEN resetFrame1 ELSE resetFrameMap[m]]
      BY <3>1 DEF FileReset
    <3>4. Apart'
      BY <1>0, <2>1, <3>2, <3>3, ApartWhenFiled
    <3> QED BY <1>0, <1>1, <2>1, <3>4 DEF IInv
  <2>3. CASE ~Complete(reset, p)
    <3>1. UNCHANGED <<free, resetFrame1, resetFrameMap>>
      BY <1>5, <2>3 DEF ResetPacket
    <3> QED BY <1>0, <1>1, <2>1, <3>1, ApartStays DEF IInv
  <2> QED BY <2>2, <2>3
<1>6. CASE Timeout
  <2>1. /\ image'.expectNew
        /\ UNCHANGED <<rawFrame, resetFrame1, resetFrameMap, free, threads, handed>>
    BY <1>6 DEF Timeout, Fresh, histories
  <2>2. NotLooked' /\ OneThreadEach'
    BY <1>0, <2>1 DEF NotLooked, OneThreadEach
  <2> QED BY <1>0, <2>1, <2>2, ApartStays DEF IInv
<1>7. ASSUME NEW i \in DOMAIN threads, ThreadStep(i)
      PROVE  IInv'
  <2>0. \A j \in DOMAIN threads : j # i => threads[j].frame # threads[i].frame
    BY <1>0 DEF OneThreadEach
  <2>1. CASE LookUpReset(i)
    <3>1. /\ UNCHANGED <<image, rawFrame, resetFrame1, resetFrameMap, free, handed>>
          /\ threads[i].at = "start" /\ threads[i].reset = NoBuffer
      BY <1>0, <2>1 DEF LookUpReset, histories, NotLooked
    <3>2. CASE /\ threads[i].frame \in DOMAIN resetFrameMap
               /\ Moved(i, resetFrameMap[threads[i].frame], "found")
      BY <1>0, <2>0, <3>1, <3>2, ApartWhenFound, NumberedWhenMoved DEF IInv
    <3>3. CASE Moved(i, threads[i].reset, "process")
      <4>1. Live' = Live /\ \A j \in Live : j # i => threads'[j] = threads[j]
        BY <3>1, <3>3, UsersTyped, <1>0 DEF Live, Moved
      <4>2. Filed' = Filed
        BY <3>1, <3>3, <4>1 DEF Filed, Moved
      <4>3. Apart'
        BY <1>0, <3>1, <3>3, <4>2, ApartWhenKept
      <4> QED BY <1>0, <3>1, <3>3, <4>3, NumberedWhenMoved DEF IInv
    <3> QED BY <1>0, <2>1, <3>2, <3>3, LooksUp
  <2>2. CASE EraseReset(i)
    <3> DEFINE n == threads[i].frame
    <3>1. /\ UNCHANGED <<image, rawFrame, resetFrame1, free, handed>>
          /\ threads[i].at = "found"
          /\ resetFrameMap' = [m \in DOMAIN resetFrameMap \ {n} |-> resetFrameMap[m]]
      BY <2>2 DEF EraseReset, histories
    <3>2. Moved(i, threads[i].reset, "process")
      BY <1>0, <2>2, GoesOn DEF EraseReset
    <3>3. \A m \in Filed' : m \in DOMAIN resetFrameMap /\ m # n
                            /\ resetFrameMap'[m] = resetFrameMap[m]
      BY <3>1 DEF Filed
    <3>4. Live' = Live /\ \A j \in Live : j # i => threads'[j] = threads[j]
      BY <3>1, <3>2, UsersTyped, <1>0 DEF Live, Moved
    <3>5. \A m \in Filed' : m \in Filed
      <4>1. ASSUME NEW m \in Filed', NEW j \in Live,
                   threads[j].at = "found", threads[j].frame = m
            PROVE  FALSE
        <5>1. j # i
          BY <3>3, <4>1
        <5>2. threads'[j] = threads[j] /\ j \in Live'
          BY <3>4, <5>1
        <5> QED BY <4>1, <5>2 DEF Filed
      <4> QED BY <3>3, <4>1 DEF Filed
    <3>6. Apart'
      BY <1>0, <3>1, <3>2, <3>3, <3>5, ApartWhenKept
    <3> QED BY <1>0, <3>1, <3>2, <3>6, NumberedWhenMoved DEF IInv
  <2>3. CASE ProcessFrame(i)
    <3>1. /\ UNCHANGED <<image, rawFrame, resetFrame1, resetFrameMap, handed>>
          /\ threads[i].at = "process" /\ free' = free \cup Held(i)
      BY <2>3 DEF ProcessFrame, histories, Held
    <3>2. Moved(i, threads[i].reset, "done")
      BY <1>0, <2>3, GoesOn DEF ProcessFrame
    <3>3. i \in Live
      BY <3>1 DEF Live
    <3>4. Apart'
      BY <1>0, <3>1, <3>2, <3>3, ApartWhenDone
    <3> QED BY <1>0, <3>1, <3>2, <3>4, NumberedWhenMoved DEF IInv
  <2> QED BY <1>7, <2>1, <2>2, <2>3 DEF ThreadStep
<1>8. CASE UNCHANGED vars
  BY <1>0, <1>1, <1>8, ApartStays DEF vars, histories, IInv
<1> QED BY <1>2, <1>3, <1>4, <1>5, <1>6, <1>7, <1>8 DEF Next

(* The parts of the invariant say what NoSharedBuffer says of the records. *)
LEMMA ApartSuffices ==
  ASSUME TypeOK, Apart
  PROVE  NoSharedBuffer
<1>1. \A i \in Live : /\ threads[i].raw \in Held(i)
                      /\ threads[i].reset # NoBuffer => threads[i].reset \in Held(i)
  BY UsersTyped DEF Held
<1>2. ASSUME NEW u \in InUse
      PROVE  \/ u = [by |-> "raw", of |-> 0, buffer |-> rawFrame]
             \/ u = [by |-> "reset", of |-> 0, buffer |-> resetFrame1]
             \/ \E n \in Filed : u = [by |-> "map", of |-> n, buffer |-> resetFrameMap[n]]
             \/ \E i \in Live : u = [by |-> "thread", of |-> i, buffer |-> threads[i].raw]
             \/ \E i \in Live :
                  /\ threads[i].reset # NoBuffer
                  /\ u = [by |-> "thread reset", of |-> i, buffer |-> threads[i].reset]
  BY DEF InUse
<1> DEFINE Filling(u) == \/ u.by = "raw" /\ u.of = 0 /\ u.buffer = rawFrame
                         \/ u.by = "reset" /\ u.of = 0 /\ u.buffer = resetFrame1
           Waiting(u) == u.by = "map" /\ u.of \in Filed /\ u.buffer = resetFrameMap[u.of]
           Working(u) == /\ u.of \in Live /\ u.buffer \in Held(u.of)
                         /\ \/ u.by = "thread" /\ u.buffer = threads[u.of].raw
                            \/ u.by = "thread reset" /\ u.buffer = threads[u.of].reset
           Is(u) == u = [by |-> u.by, of |-> u.of, buffer |-> u.buffer]
<1>3. ASSUME NEW u \in InUse
      PROVE  Is(u) /\ (Filling(u) \/ Waiting(u) \/ Working(u))
  <2>1. CASE u = [by |-> "raw", of |-> 0, buffer |-> rawFrame]
    BY <2>1
  <2>2. CASE u = [by |-> "reset", of |-> 0, buffer |-> resetFrame1]
    BY <2>2
  <2>3. ASSUME NEW n \in Filed, u = [by |-> "map", of |-> n, buffer |-> resetFrameMap[n]]
        PROVE  Is(u) /\ Waiting(u)
    BY <2>3
  <2>4. ASSUME NEW i \in Live, u = [by |-> "thread", of |-> i, buffer |-> threads[i].raw]
        PROVE  Is(u) /\ Working(u)
    BY <1>1, <2>4
  <2>5. ASSUME NEW i \in Live, threads[i].reset # NoBuffer,
               u = [by |-> "thread reset", of |-> i, buffer |-> threads[i].reset]
        PROVE  Is(u) /\ Working(u)
    BY <1>1, <2>5
  <2> HIDE DEF Filling, Waiting, Working, Is
  <2>6. CASE \E n \in Filed : u = [by |-> "map", of |-> n, buffer |-> resetFrameMap[n]]
    BY <2>3, <2>6
  <2>7. CASE \E i \in Live : u = [by |-> "thread", of |-> i, buffer |-> threads[i].raw]
    BY <2>4, <2>7
  <2>8. CASE \E i \in Live :
               /\ threads[i].reset # NoBuffer
               /\ u = [by |-> "thread reset", of |-> i, buffer |-> threads[i].reset]
    BY <2>5, <2>8
  <2> QED BY <1>2, <2>1, <2>2, <2>6, <2>7, <2>8 DEF Filling, Is
<1>4. ASSUME NEW u \in InUse
      PROVE  u.buffer \notin free
  <2>1. CASE Filling(u)
    BY <2>1 DEF Apart, FilledApart
  <2>2. CASE Waiting(u)
    BY <2>2 DEF Apart, MapApart
  <2>3. CASE Working(u)
    BY <2>3 DEF Apart, HeldApart
  <2> QED BY <1>3, <2>1, <2>2, <2>3
<1>5. ASSUME NEW u \in InUse, NEW v \in InUse, u.buffer = v.buffer
      PROVE  u.by = v.by /\ u.of = v.of
  <2>1. ASSUME NEW x, NEW y, Filling(x), Waiting(y) \/ Working(y)
        PROVE  x.buffer # y.buffer
    BY <2>1 DEF Apart, MapApart, HeldApart
  <2>2. ASSUME NEW x, NEW y, Waiting(x), Working(y)
        PROVE  x.buffer # y.buffer
    BY <2>2 DEF Apart, HeldApart
  <2>3. CASE Filling(u) /\ Filling(v)
    BY <1>5, <2>3 DEF Apart, FilledApart
  <2>4. CASE Waiting(u) /\ Waiting(v)
    BY <1>5, <2>4 DEF Apart, MapApart
  <2>5. CASE Working(u) /\ Working(v)
    BY <1>5, <2>5 DEF Apart, HeldApart
  <2> HIDE DEF Filling, Waiting, Working, Is
  <2> QED BY <1>3, <1>5, <2>1, <2>2, <2>3, <2>4, <2>5
<1>6. ASSUME NEW u \in InUse, NEW v \in InUse, u # v
      PROVE  u.buffer # v.buffer
  <2>1. Is(u) /\ Is(v)
    BY <1>3
  <2> QED BY <1>5, <1>6, <2>1
<1> QED BY <1>4, <1>6 DEF NoSharedBuffer

(* No buffer of the pool has two users, and none that is used is free,     *)
(* whatever the frame threads do and whichever packets and reset frames    *)
(* are lost, so long as the frames come in the order of their numbers.     *)
THEOREM BuffersApart == ASSUME Ordered PROVE Spec => []NoSharedBuffer
<1>1. Init => IInv
  BY InvInit
<1>2. IInv /\ [Next]_vars => IInv'
  BY InvNext
<1>3. IInv => NoSharedBuffer
  BY ApartSuffices DEF IInv
<1> QED BY <1>1, <1>2, <1>3, PTL DEF Spec

-----------------------------------------------------------------------------
(* What is in the buffers                                                  *)

(* A packet is written into one buffer and one slot of it. *)
LEMMA StoredValue ==
  ASSUME NEW contents \in Seq(Data), NEW b \in 1 .. Len(contents), NEW p \in Packets
  PROVE  /\ \A c \in 1 .. Len(contents) : c # b => Stored(contents, b, p)[c] = contents[c]
         /\ \A s \in Slots :
              Stored(contents, b, p)[b][s] = IF s = p.slot THEN p.frame ELSE contents[b][s]
<1> DEFINE buffer == [contents[b] EXCEPT ![p.slot] = p.frame]
<1>1. contents[b] \in Data /\ p.slot \in Slots
  BY ElementOfSeq DEF Packets
<1>2. \A s \in Slots : buffer[s] = IF s = p.slot THEN p.frame ELSE contents[b][s]
  BY <1>1 DEF Data
<1>3. Stored(contents, b, p) = [contents EXCEPT ![b] = buffer]
  BY DEF Stored
<1>4. DOMAIN contents = 1 .. Len(contents)
  BY LenProperties
<1> HIDE DEF buffer
<1> QED BY <1>2, <1>3, <1>4

(* Room for a buffer changes none there is. *)
LEMMA RoomKeeps ==
  ASSUME NEW contents \in Seq(Data), NEW b \in 1 .. Len(contents) + 1
  PROVE  \A c \in 1 .. Len(contents) : WithRoom(contents, b)[c] = contents[c]
<1>1. BlankBuffer \in Data
  BY DEF BlankBuffer, Data
<1> QED BY <1>1, LenProperties DEF WithRoom

(* An image packet is written to the raw buffer, or to the next one. *)
LEMMA ImageKeeps ==
  ASSUME TypeOK, NEW p \in Packets, ImagePacket(p) \/ EarlyImage(p)
  PROVE  \A c \in 1 .. Len(mem) : c \notin free /\ c # rawFrame => mem'[c] = mem[c]
<1>0. mem \in Seq(Data) /\ Len(mem) \in Nat /\ rawFrame \in 1 .. Len(mem)
  BY TypeFacts DEF TypeOK, Buffers
<1>1. CASE ImagePacket(p)
  <2> DEFINE contents == Stored(mem, rawFrame, p)
  <2>1. contents \in Seq(Data) /\ Len(contents) = Len(mem)
    BY <1>0, StoredIn
  <2>2. \A c \in 1 .. Len(mem) : c # rawFrame => contents[c] = mem[c]
    BY <1>0, StoredValue
  <2>3. mem' = contents \/ \E b \in 1 .. Len(mem) + 1 : mem' = WithRoom(contents, b)
    BY <1>1 DEF ImagePacket
  <2> HIDE DEF contents
  <2> QED BY <2>1, <2>2, <2>3, RoomKeeps
<1>2. CASE EarlyImage(p)
  <2>1. PICK b \in 1 .. Len(mem) + 1 :
          Allocate(b) /\ rawFrame' = b /\ mem' = Stored(WithRoom(mem, b), b, p)
    BY <1>2 DEF EarlyImage
  <2> DEFINE contents == WithRoom(mem, b)
  <2>2. /\ contents \in Seq(Data) /\ b \in 1 .. Len(contents)
        /\ 1 .. Len(mem) \subseteq 1 .. Len(contents)
    BY <1>0, RoomFor
  <2>3. \A c \in 1 .. Len(mem) : contents[c] = mem[c]
    BY <1>0, RoomKeeps
  <2>4. mem' = Stored(contents, b, p)
    BY <2>1
  <2> HIDE DEF contents
  <2>5. \A c \in 1 .. Len(contents) : c # b => mem'[c] = contents[c]
    BY <2>2, <2>4, StoredValue
  <2>6. b \in free \/ b \notin 1 .. Len(mem)
    BY <2>1, Allocated
  <2> QED BY <2>2, <2>3, <2>5, <2>6
<1> QED BY <1>1, <1>2

(* A reset packet is written to the reset buffer; what it completes stays. *)
LEMMA ResetKeeps ==
  ASSUME TypeOK, NEW p \in Packets, ResetPacket(p)
  PROVE  /\ \A c \in 1 .. Len(mem) : c # resetFrame1 => mem'[c] = mem[c]
         /\ \A s \in Slots :
              mem'[resetFrame1][s] = IF s = p.slot THEN p.frame ELSE mem[resetFrame1][s]
<1>0. mem \in Seq(Data) /\ Len(mem) \in Nat /\ resetFrame1 \in 1 .. Len(mem)
  BY TypeFacts DEF TypeOK, Buffers
<1> DEFINE contents == Stored(mem, resetFrame1, p)
<1>1. contents \in Seq(Data) /\ Len(contents) = Len(mem)
  BY <1>0, StoredIn
<1>2. /\ \A c \in 1 .. Len(mem) : c # resetFrame1 => contents[c] = mem[c]
      /\ \A s \in Slots :
           contents[resetFrame1][s] = IF s = p.slot THEN p.frame ELSE mem[resetFrame1][s]
  BY <1>0, StoredValue
<1>3. mem' = contents \/ \E b \in 1 .. Len(mem) + 1 : mem' = WithRoom(contents, b)
  BY DEF ResetPacket, FileReset
<1> HIDE DEF contents
<1>4. \A c \in 1 .. Len(mem) : mem'[c] = contents[c]
  BY <1>1, <1>3, RoomKeeps
<1> QED BY <1>0, <1>2, <1>4

(* What is used by a thread or waits in the map is not written to.         *)
LEMMA UsersKept ==
  ASSUME TypeOK, Apart, [Next]_vars
  PROVE  /\ \A n \in Filed : mem'[resetFrameMap[n]] = mem[resetFrameMap[n]]
         /\ \A i \in Live : \A b \in Held(i) : mem'[b] = mem[b]
<1> DEFINE Unwritten(c) ==
             c \in 1 .. Len(mem) /\ c \notin free /\ c # rawFrame /\ c # resetFrame1
<1>1. \A c : Unwritten(c) => mem'[c] = mem[c]
  <2>1. ASSUME NEW p \in Packets, LateImage(p) \/ LateReset(p) PROVE mem' = mem
    BY <2>1 DEF LateImage, LateReset
  <2>2. ASSUME NEW i \in DOMAIN threads, ThreadStep(i) PROVE mem' = mem
    BY <2>2 DEF ThreadStep, LookUpReset, EraseReset, ProcessFrame
  <2>3. Timeout \/ UNCHANGED vars => mem' = mem
    BY DEF Timeout, vars
  <2> QED BY <2>1, <2>2, <2>3, ImageKeeps, ResetKeeps DEF Next
<1>2. /\ \A n \in Filed : Unwritten(resetFrameMap[n])
      /\ \A i \in Live : \A b \in Held(i) : Unwritten(b)
  BY UsersTyped DEF Apart, MapApart, HeldApart
<1> HIDE DEF Unwritten
<1> QED BY <1>1, <1>2

-----------------------------------------------------------------------------
(* Which reset frame corrects which frame                                  *)

(* The packets flagged are those of the reset frame that is collected, ... *)
CollectedOwn ==
  /\ reset.expectNew => reset.checks = {}
  /\ \A s \in reset.checks : mem[resetFrame1][s] = reset.number

(* ... what waits in the map is the reset frame of its number, ...         *)
FiledOwn == \A n \in Filed : \A s \in Slots : mem[resetFrameMap[n]][s] = n

(* ... and so is what a thread has taken; ...                              *)
HeldOwn ==
  \A i \in Live : threads[i].reset # NoBuffer =>
    \A s \in Slots : mem[threads[i].reset][s] = threads[i].frame

(* ... a reset frame filed waits until the thread of its frame has looked. *)
FiledRemains ==
  \A n \in filed :
    \/ n \in DOMAIN resetFrameMap
    \/ \E i \in DOMAIN threads :
         threads[i].frame = n /\ threads[i].at \in {"process", "done"}

Own == CollectedOwn /\ FiledOwn /\ HeldOwn /\ FiledRemains

(* Threads take reset frames out of the map, and add or change none. *)
LEMMA FiledShrinks ==
  ASSUME TypeOK, NEW i \in DOMAIN threads, ThreadStep(i)
  PROVE  \A m \in Filed' : m \in Filed /\ resetFrameMap'[m] = resetFrameMap[m]
<1>1. \A j \in DOMAIN threads : j # i => threads'[j] = threads[j]
  BY LooksUp, GoesOn DEF ThreadStep, EraseReset, ProcessFrame, Moved
<1>2. DOMAIN threads' = DOMAIN threads
  BY LooksUp, GoesOn DEF ThreadStep, EraseReset, ProcessFrame, Moved
<1>3. \A m \in Filed' : /\ m \in DOMAIN resetFrameMap /\ resetFrameMap'[m] = resetFrameMap[m]
                        /\ threads[i].at = "found" => m # threads[i].frame
  BY DEF ThreadStep, LookUpReset, EraseReset, ProcessFrame, Filed
<1>4. ASSUME NEW m \in Filed', NEW j \in Live, threads[j].at = "found", threads[j].frame = m
      PROVE  FALSE
  <2>1. j # i
    BY <1>3, <1>4
  <2>2. threads'[j] = threads[j] /\ j \in Live'
    BY <1>1, <1>2, <1>4, <2>1, UsersTyped DEF Live
  <2> QED BY <1>4, <2>2 DEF Filed
<1> QED BY <1>3, <1>4 DEF Filed

(* No reset frame is collected at the start. *)
LEMMA OwnInit == Init => Own
<1> SUFFICES ASSUME Init PROVE Own
  OBVIOUS
<1>1. Live = {} /\ Filed = {}
  BY DEF Init, Live, Filed
<1>2. CollectedOwn /\ FiledRemains
  BY DEF Init, CollectedOwn, FiledRemains, Fresh
<1> QED BY <1>1, <1>2 DEF Own, FiledOwn, HeldOwn

(* Image packets, timeouts and steps that change nothing.                  *)
LEMMA OwnKept ==
  ASSUME TypeOK, Apart, Own, [Next]_vars,
         UNCHANGED <<reset, resetFrame1, resetFrameMap, filed>>,
         mem'[resetFrame1] = mem[resetFrame1],
         DOMAIN threads \subseteq DOMAIN threads',
         \A i \in DOMAIN threads : threads'[i] = threads[i],
         \A i \in DOMAIN threads' :
           i \notin DOMAIN threads => threads'[i].at = "start" /\ threads'[i].reset = NoBuffer
  PROVE  Own'
<1>1. CollectedOwn'
  BY DEF Own, CollectedOwn
<1>2. Filed' \subseteq Filed
  BY DEF Filed, Live
<1>3. FiledOwn'
  BY <1>2, UsersKept DEF Own, FiledOwn
<1>4. ASSUME NEW i \in Live', threads'[i].reset # NoBuffer
      PROVE  \A s \in Slots : mem'[threads'[i].reset][s] = threads'[i].frame
  <2>1. i \in DOMAIN threads /\ threads'[i] = threads[i] /\ i \in Live
    BY <1>4 DEF Live
  <2>2. threads[i].reset \in Held(i)
    BY <1>4, <2>1 DEF Held
  <2> QED BY <1>4, <2>1, <2>2, UsersKept DEF Own, HeldOwn
<1>5. HeldOwn'
  BY <1>4 DEF HeldOwn
<1>6. FiledRemains'
  BY DEF Own, FiledRemains
<1> QED BY <1>1, <1>3, <1>5, <1>6 DEF Own

(* Every step keeps the reset frames with their frames. *)
LEMMA OwnNext ==
  ASSUME IInv, Own, [Next]_vars
  PROVE  Own'
<1>0. TypeOK /\ Apart /\ NotLooked /\ OneThreadEach
  BY DEF IInv
<1>1. resetFrame1 \in 1 .. Len(mem) /\ resetFrame1 \notin free /\ resetFrame1 # rawFrame
  BY <1>0 DEF TypeOK, Buffers, Apart, FilledApart
<1>2. ASSUME UNCHANGED <<reset, resetFrame1, resetFrameMap, filed, mem, threads>>
      PROVE  Own'
  BY <1>0, <1>2, OwnKept
<1>3. ASSUME NEW p \in Packets, LateImage(p) \/ LateReset(p)
      PROVE  Own'
  BY <1>2, <1>3 DEF LateImage, LateReset, histories
<1>4. ASSUME NEW p \in Packets, ImagePacket(p) \/ EarlyImage(p)
      PROVE  Own'
  <2>1. UNCHANGED <<reset, resetFrame1, resetFrameMap, filed>>
    BY <1>4 DEF ImagePacket, EarlyImage
  <2>2. mem'[resetFrame1] = mem[resetFrame1]
    BY <1>0, <1>1, <1>4, ImageKeeps
  <2> DEFINE t(n) == [frame |-> n, raw |-> rawFrame, reset |-> NoBuffer, at |-> "start"]
  <2>3. threads' = threads \/ \E n \in Frames : threads' = Append(threads, t(n))
    BY <1>0, <1>4 DEF ImagePacket, EarlyImage, Started, Packets, TypeOK, Collector
  <2>4. threads \in Seq(Threads(Len(mem))) /\ DOMAIN threads = 1 .. Len(threads)
        /\ Len(threads) \in Nat
    BY <1>0, TypeFacts
  <2>5. ASSUME NEW n \in Frames, threads' = Append(threads, t(n))
        PROVE  /\ DOMAIN threads \subseteq DOMAIN threads'
               /\ \A i \in DOMAIN threads : threads'[i] = threads[i]
               /\ \A i \in DOMAIN threads' : i \notin DOMAIN threads =>
                    threads'[i].at = "start" /\ threads'[i].reset = NoBuffer
    <3>1. DOMAIN threads' = 1 .. Len(threads) + 1
      BY <2>4, <2>5
    <3>2. threads'[Len(threads) + 1] = t(n)
          /\ \A i \in 1 .. Len(threads) : threads'[i] = threads[i]
      BY <2>4, <2>5
    <3> QED BY <2>4, <3>1, <3>2
  <2> HIDE DEF t
  <2> QED BY <1>0, <2>1, <2>2, <2>3, <2>5, OwnKept
<1>5. ASSUME NEW p \in Packets, ResetPacket(p)
      PROVE  Own'
  <2>1. UNCHANGED threads /\ reset' = After(reset, p)
    BY <1>5 DEF ResetPacket
  <2>2. \A s \in Flags(reset, p) : mem'[resetFrame1][s] = p.frame
    <3>1. Flags(reset, p) \subseteq Slots
      BY <1>0 DEF Flags, TypeOK, Collector, Packets
    <3>2. \A s \in Flags(reset, p) : s # p.slot => mem[resetFrame1][s] = p.frame
      BY DEF Flags, Own, CollectedOwn
    <3> QED BY <1>0, <1>5, <3>1, <3>2, ResetKeeps
  <2>3. /\ \A i \in Live : \A b \in Held(i) : mem'[b] = mem[b]
        /\ \A n \in Filed : mem'[resetFrameMap[n]] = mem[resetFrameMap[n]]
    BY <1>0, UsersKept
  <2>4. HeldOwn'
    <3>1. Live' = Live
      BY <2>1 DEF Live
    <3>2. \A i \in Live : threads[i].reset # NoBuffer => threads[i].reset \in Held(i)
      BY DEF Held
    <3> QED BY <2>1, <2>3, <3>1, <3>2 DEF Own, HeldOwn
  <2>5. CASE Complete(reset, p)
    <3>1. FileReset(p)
      BY <1>5, <2>5 DEF ResetPacket
    <3>2. /\ resetFrameMap' = [m \in DOMAIN resetFrameMap \cup {p.frame} |->
                                 IF m = p.frame THEN resetFrame1 ELSE resetFrameMap[m]]
          /\ filed' = filed \cup {p.frame}
      BY <3>1 DEF FileReset
    <3>3. CollectedOwn'
      BY <2>1, <2>5 DEF After, CollectedOwn
    <3>4. \A m \in Filed' : IF m = p.frame THEN resetFrameMap'[m] = resetFrame1
                            ELSE m \in Filed /\ resetFrameMap'[m] = resetFrameMap[m]
      BY <2>1, <3>2 DEF Filed, Live
    <3>5. \A s \in Slots : mem'[resetFrame1][s] = p.frame
      BY <2>2, <2>5 DEF Complete
    <3>6. FiledOwn'
      BY <2>3, <3>4, <3>5 DEF Own, FiledOwn
    <3>7. FiledRemains'
      BY <2>1, <3>2 DEF Own, FiledRemains
    <3> QED BY <2>4, <3>3, <3>6, <3>7 DEF Own
  <2>6. CASE ~Complete(reset, p)
    <3>1. UNCHANGED <<resetFrame1, resetFrameMap, filed>>
      BY <1>5, <2>6 DEF ResetPacket
    <3>2. reset' = [expectNew |-> FALSE, number |-> p.frame, checks |-> Flags(reset, p)]
      BY <2>1, <2>6 DEF After
    <3>3. CollectedOwn'
      BY <2>2, <3>1, <3>2 DEF CollectedOwn
    <3>4. Filed' = Filed
      BY <2>1, <3>1 DEF Filed, Live
    <3>5. FiledOwn'
      BY <2>3, <3>1, <3>4 DEF Own, FiledOwn
    <3>6. FiledRemains'
      BY <2>1, <3>1 DEF Own, FiledRemains
    <3> QED BY <2>4, <3>3, <3>5, <3>6 DEF Own
  <2> QED BY <2>5, <2>6
<1>6. CASE Timeout
  BY <1>2, <1>6 DEF Timeout, histories
<1>7. ASSUME NEW i \in DOMAIN threads, ThreadStep(i)
      PROVE  Own'
  <2>1. UNCHANGED <<reset, resetFrame1, mem, filed>>
    BY <1>7 DEF ThreadStep, LookUpReset, EraseReset, ProcessFrame, histories
  <2>2. CollectedOwn'
    BY <2>1 DEF Own, CollectedOwn
  <2>3. FiledOwn'
    BY <1>0, <1>7, <2>1, FiledShrinks DEF Own, FiledOwn
  <2> DEFINE n == threads[i].frame
             Known == n \in DOMAIN resetFrameMap /\ threads[i].at = "start"
  <2>4. \/ Moved(i, resetFrameMap[n], "found") /\ Known /\ UNCHANGED resetFrameMap
        \/ /\ Moved(i, threads[i].reset, "process")
           /\ \A m \in DOMAIN resetFrameMap : m # n => m \in DOMAIN resetFrameMap'
        \/ /\ Moved(i, threads[i].reset, "done") /\ UNCHANGED resetFrameMap
           /\ threads[i].at = "process"
    BY <1>0, <1>7, LooksUp, GoesOn DEF ThreadStep, LookUpReset, EraseReset, ProcessFrame
  <2>5. ASSUME NEW j \in Live', threads'[j].reset # NoBuffer
        PROVE  \A s \in Slots : mem'[threads'[j].reset][s] = threads'[j].frame
    <3>0. threads[i].at # "done"
      BY <1>7 DEF ThreadStep, LookUpReset, EraseReset, ProcessFrame
    <3>1. j \in DOMAIN threads /\ threads'[j].frame = threads[j].frame /\ j \in Live
      <4>1. DOMAIN threads' = DOMAIN threads /\ threads'[i].frame = threads[i].frame
            /\ \A l \in DOMAIN threads : l # i => threads'[l] = threads[l]
        BY <2>4 DEF Moved
      <4> QED BY <2>5, <3>0, <4>1 DEF Live
    <3>2. CASE threads'[j].reset = threads[j].reset
      BY <2>1, <2>5, <3>1, <3>2 DEF Own, HeldOwn
    <3>3. CASE j = i /\ threads'[j].reset = resetFrameMap[n] /\ Known
      <4>1. n \in Filed
        BY <1>0, <3>3 DEF Filed, Live, OneThreadEach
      <4> QED BY <2>1, <3>1, <3>3, <4>1 DEF Own, FiledOwn
    <3> QED BY <2>4, <3>1, <3>2, <3>3 DEF Moved
  <2>6. HeldOwn'
    BY <2>5 DEF HeldOwn
  <2>7. FiledRemains'
    <3>1. ASSUME NEW m \in filed, m \notin DOMAIN resetFrameMap'
          PROVE  \E j \in DOMAIN threads' :
                   threads'[j].frame = m /\ threads'[j].at \in {"process", "done"}
      <4>1. CASE m \in DOMAIN resetFrameMap
        BY <2>4, <3>1, <4>1 DEF Moved
      <4>2. ASSUME NEW j \in DOMAIN threads, threads[j].frame = m,
                   threads[j].at \in {"process", "done"}
            PROVE  threads'[j].frame = m /\ threads'[j].at \in {"process", "done"}
        BY <2>4, <4>2 DEF Moved
      <4>3. DOMAIN threads' = DOMAIN threads
        BY <2>4 DEF Moved
      <4> QED BY <4>1, <4>2, <4>3 DEF Own, FiledRemains
    <3> QED BY <2>1, <3>1 DEF FiledRemains
  <2> QED BY <2>2, <2>3, <2>6, <2>7 DEF Own
<1>8. CASE UNCHANGED vars
  BY <1>2, <1>8 DEF vars, histories
<1> QED BY <1>3, <1>4, <1>5, <1>6, <1>7, <1>8 DEF Next

(* A frame whose reset frame was complete before it was closed is          *)
(* corrected with it, and with the whole reset frame of its own number,    *)
(* so long as the frames come in the order of their numbers.               *)
THEOREM OwnResets == ASSUME Ordered PROVE Spec => []CorrectedByOwn
<1>1. Init => IInv /\ Own
  BY InvInit, OwnInit
<1>2. IInv /\ Own /\ [Next]_vars => IInv' /\ Own'
  BY InvNext, OwnNext
<1>3. IInv /\ Own => CorrectedByOwn
  <2> SUFFICES ASSUME IInv, Own, NEW i \in Live
               PROVE  /\ threads[i].reset # NoBuffer =>
                           \A s \in Slots : mem[threads[i].reset][s] = threads[i].frame
                      /\ threads[i].at = "start" /\ threads[i].frame \in filed =>
                           threads[i].frame \in DOMAIN resetFrameMap
    BY DEF CorrectedByOwn
  <2>1. ASSUME NEW j \in DOMAIN threads, threads[j].frame = threads[i].frame
        PROVE  j = i
    BY <2>1, UsersTyped DEF IInv, OneThreadEach
  <2> QED BY <2>1 DEF Own, HeldOwn, FiledRemains
<1> QED BY <1>1, <1>2, <1>3, PTL DEF Spec

-----------------------------------------------------------------------------
(* The promise to the client                                               *)

(* Until it is delivered, a frame closed is in the buffer of its thread,   *)
(* and what was delivered belongs to threads that ended.                   *)
HandedKept ==
  \A i \in Live :
    handed[i] = [frame |-> threads[i].frame, data |-> mem[threads[i].raw]]
DeliveredEnded ==
  /\ delivered \in Seq([position : Nat, value : FrameValues])
  /\ \A d \in DOMAIN delivered : delivered[d].position \in DOMAIN threads \ Live

Promised == HandedKept /\ DeliveredEnded

(* Nothing is closed or delivered at the start. *)
LEMMA PromisedInit == Init => Promised
<1> SUFFICES ASSUME Init PROVE Promised
  OBVIOUS
<1>1. Live = {} /\ DOMAIN delivered = {} /\ delivered = <<>>
  BY DEF Init, Live
<1> QED BY <1>1 DEF Promised, HandedKept, DeliveredEnded

(* A step that closes no frame and delivers none. *)
LEMMA NothingPromised ==
  ASSUME TypeOK, Apart, Promised, [Next]_vars, UNCHANGED <<handed, delivered>>,
         DOMAIN threads' = DOMAIN threads,
         \A i \in DOMAIN threads :
           /\ threads'[i].frame = threads[i].frame /\ threads'[i].raw = threads[i].raw
           /\ threads'[i].at = "done" <=> threads[i].at = "done"
  PROVE  Promised'
<1>1. Live' = Live
  BY DEF Live
<1>2. \A i \in Live : mem'[threads[i].raw] = mem[threads[i].raw]
  BY UsersKept, UsersTyped
<1>3. HandedKept'
  BY <1>1, <1>2, UsersTyped DEF Promised, HandedKept
<1> QED BY <1>1, <1>3 DEF Promised, DeliveredEnded

(* A step that closes frame n with what is in the raw buffer. *)
LEMMA FramePromised ==
  ASSUME TypeOK, Apart, Promised, [Next]_vars, NEW n \in Frames, NEW d \in Data,
         threads' = Append(threads, [frame |-> n, raw |-> rawFrame, reset |-> NoBuffer,
                                     at |-> "start"]),
         handed' = Append(handed, [frame |-> n, data |-> d]),
         UNCHANGED delivered, mem'[rawFrame] = d
  PROVE  Promised' /\ Dispatch!HandOver
<1> DEFINE k == Len(threads) + 1
           h == [frame |-> n, data |-> d]
<1>1. h \in FrameValues
  BY DEF FrameValues, Data
<1>2. Dispatch!HandOver
  BY <1>1 DEF Dispatch!HandOver
<1>3. /\ handed \in Seq(FrameValues) /\ Len(handed) = Len(threads) /\ Len(threads) \in Nat
      /\ DOMAIN threads = 1 .. Len(threads)
  BY TypeFacts DEF TypeOK
<1>4. /\ DOMAIN threads' = DOMAIN threads \cup {k} /\ k \notin DOMAIN threads
      /\ \A i \in DOMAIN threads : threads'[i] = threads[i] /\ handed'[i] = handed[i]
      /\ threads'[k] = [frame |-> n, raw |-> rawFrame, reset |-> NoBuffer, at |-> "start"]
  BY StartedIs
<1>5. handed'[k] = h
  <2> HIDE DEF h
  <2>1. handed'[Len(handed) + 1] = h
    BY <1>1, <1>3 DEF h
  <2> QED BY <1>3, <2>1
<1>6. Live' = Live \cup {k}
  BY <1>4 DEF Live
<1>7. \A i \in Live : mem'[threads[i].raw] = mem[threads[i].raw] /\ i \in DOMAIN threads
  BY UsersKept, UsersTyped
<1> HIDE DEF k
<1>8. HandedKept'
  <2>1. ASSUME NEW i \in Live
        PROVE  handed'[i] = [frame |-> threads'[i].frame, data |-> mem'[threads'[i].raw]]
    <3>1. i \in DOMAIN threads /\ mem'[threads[i].raw] = mem[threads[i].raw]
      BY <1>7
    <3>2. threads'[i] = threads[i] /\ handed'[i] = handed[i]
      BY <1>4, <3>1
    <3>3. handed[i] = [frame |-> threads[i].frame, data |-> mem[threads[i].raw]]
      BY DEF Promised, HandedKept
    <3> QED BY <3>1, <3>2, <3>3
  <2>2. handed'[k] = [frame |-> threads'[k].frame, data |-> mem'[threads'[k].raw]]
    <3>1. threads'[k].frame = n /\ threads'[k].raw = rawFrame
      BY <1>4
    <3>2. handed'[k] = [frame |-> n, data |-> d]
      BY <1>5
    <3> QED BY <3>1, <3>2
  <2> QED BY <1>6, <2>1, <2>2 DEF HandedKept
<1>9. DeliveredEnded'
  BY <1>4, <1>6 DEF Promised, DeliveredEnded
<1> QED BY <1>2, <1>8, <1>9 DEF Promised

(* Every step closes a frame, delivers one, or does neither. *)
LEMMA PromisedNext ==
  ASSUME IInv, Promised, [Next]_vars
  PROVE  Promised' /\ [Dispatch!Next]_(Dispatch!vars)
<1>0. TypeOK /\ Apart
  BY DEF IInv
<1>1. ASSUME UNCHANGED <<handed, delivered, threads>>
      PROVE  Promised' /\ [Dispatch!Next]_(Dispatch!vars)
  BY <1>0, <1>1, NothingPromised DEF Dispatch!vars
<1>2. ASSUME NEW p \in Packets, LateImage(p) \/ LateReset(p) \/ ResetPacket(p)
      PROVE  Promised' /\ [Dispatch!Next]_(Dispatch!vars)
  BY <1>1, <1>2 DEF LateImage, LateReset, ResetPacket, histories
<1>3. rawFrame \in 1 .. Len(mem) /\ mem \in Seq(Data) /\ Len(mem) \in Nat
  BY <1>0, TypeFacts DEF TypeOK, Buffers
<1>4. ASSUME NEW p \in Packets, ImagePacket(p)
      PROVE  Promised' /\ [Dispatch!Next]_(Dispatch!vars)
  <2>1. CASE Complete(image, p)
    <3> DEFINE contents == Stored(mem, rawFrame, p)
    <3>1. contents \in Seq(Data) /\ Len(contents) = Len(mem)
      BY <1>3, StoredIn
    <3>2. /\ Started(contents, p.frame) /\ UNCHANGED delivered
          /\ \E b \in 1 .. Len(mem) + 1 : mem' = WithRoom(contents, b)
      BY <1>4, <2>1 DEF ImagePacket
    <3> HIDE DEF contents
    <3>3. contents[rawFrame] \in Data /\ mem'[rawFrame] = contents[rawFrame]
      BY <1>3, <3>1, <3>2, RoomKeeps, ElementOfSeq
    <3>4. p.frame \in Frames
      BY DEF Packets
    <3> QED BY <1>0, <3>2, <3>3, <3>4, FramePromised DEF Started, Dispatch!Next
  <2>2. CASE ~Complete(image, p)
    BY <1>1, <1>4, <2>2 DEF ImagePacket
  <2> QED BY <2>1, <2>2
<1>5. ASSUME NEW p \in Packets, EarlyImage(p)
      PROVE  Promised' /\ [Dispatch!Next]_(Dispatch!vars)
  <2>1. PICK b \in 1 .. Len(mem) + 1 :
          Allocate(b) /\ mem' = Stored(WithRoom(mem, b), b, p)
    BY <1>5 DEF EarlyImage
  <2>2. b # rawFrame
    BY <1>0, <2>1, NobodysBuffer
  <2> DEFINE contents == WithRoom(mem, b)
  <2>3. /\ contents \in Seq(Data) /\ b \in 1 .. Len(contents)
        /\ rawFrame \in 1 .. Len(contents) /\ contents[rawFrame] = mem[rawFrame]
    BY <1>3, RoomFor, RoomKeeps
  <2>4. mem' = Stored(contents, b, p)
    BY <2>1
  <2> HIDE DEF contents
  <2>5. mem'[rawFrame] = mem[rawFrame] /\ mem[rawFrame] \in Data
    BY <1>3, <2>2, <2>3, <2>4, StoredValue, ElementOfSeq
  <2>6. Started(mem, image.number) /\ UNCHANGED delivered /\ image.number \in Frames
    BY <1>0, <1>5 DEF EarlyImage, TypeOK, Collector
  <2> QED BY <1>0, <2>5, <2>6, FramePromised DEF Started, Dispatch!Next
<1>6. CASE Timeout
  BY <1>1, <1>6 DEF Timeout, histories
<1>7. ASSUME NEW i \in DOMAIN threads, LookUpReset(i) \/ EraseReset(i)
      PROVE  Promised' /\ [Dispatch!Next]_(Dispatch!vars)
  <2>1. UNCHANGED <<handed, delivered>> /\ threads[i].at # "done"
    BY <1>7 DEF LookUpReset, EraseReset, histories
  <2>2. Moved(i, threads'[i].reset, "found") \/ Moved(i, threads'[i].reset, "process")
    BY <1>0, <1>7, LooksUp, GoesOn DEF EraseReset, Moved
  <2>3. /\ DOMAIN threads' = DOMAIN threads
        /\ \A j \in DOMAIN threads :
             /\ threads'[j].frame = threads[j].frame /\ threads'[j].raw = threads[j].raw
             /\ threads'[j].at = "done" <=> threads[j].at = "done"
    BY <2>1, <2>2 DEF Moved
  <2> QED BY <1>0, <2>1, <2>3, NothingPromised DEF Dispatch!vars
<1>8. ASSUME NEW i \in DOMAIN threads, ProcessFrame(i)
      PROVE  Promised' /\ [Dispatch!Next]_(Dispatch!vars)
  <2>1. /\ delivered' = Append(delivered, Callback(i)) /\ UNCHANGED <<handed, mem>>
        /\ i \in Live
    BY <1>8 DEF ProcessFrame, Live
  <2>2. Moved(i, threads[i].reset, "done")
    BY <1>0, <1>8, GoesOn DEF ProcessFrame
  <2>3. Callback(i) = [position |-> i, value |-> handed[i]]
    BY <2>1 DEF Callback, Promised, HandedKept
  <2>4. /\ handed \in Seq(FrameValues) /\ Len(handed) = Len(threads)
        /\ DOMAIN threads = 1 .. Len(threads) /\ Len(threads) \in Nat
    BY <1>0, TypeFacts DEF TypeOK
  <2>5. i \in DOMAIN handed /\ handed[i] \in FrameValues /\ i \in Nat
    BY <2>4, ElementOfSeq, LenProperties
  <2>6. Dispatch!Outstanding(i)
    BY <2>1 DEF Dispatch!Outstanding, Promised, DeliveredEnded
  <2>7. Dispatch!Deliver
    BY <2>1, <2>3, <2>5, <2>6 DEF Dispatch!Deliver
  <2>8. Live' = Live \ {i} /\ DOMAIN threads' = DOMAIN threads
    BY <2>2 DEF Moved, Live
  <2>9. \A j \in Live' : j \in Live /\ threads'[j] = threads[j]
    BY <2>2, <2>8, UsersTyped, <1>0 DEF Moved
  <2>10. HandedKept'
    BY <2>1, <2>9 DEF Promised, HandedKept
  <2>11. DeliveredEnded'
    <3> DEFINE D == [position : Nat, value : FrameValues]
               c == [position |-> i, value |-> handed[i]]
    <3>1. c \in D /\ delivered \in Seq(D) /\ delivered' = Append(delivered, c)
          /\ c.position = i
      BY <2>1, <2>3, <2>5 DEF Promised, DeliveredEnded
    <3> HIDE DEF D, c
    <3>2. /\ delivered' \in Seq(D) /\ Len(delivered) \in Nat
          /\ DOMAIN delivered = 1 .. Len(delivered)
          /\ DOMAIN delivered' = 1 .. Len(delivered) + 1
          /\ delivered'[Len(delivered) + 1] = c
          /\ \A d \in 1 .. Len(delivered) : delivered'[d] = delivered[d]
      BY <3>1, LenProperties
    <3>3. \A d \in DOMAIN delivered' : delivered'[d].position \in DOMAIN threads' \ Live'
      BY <2>8, <3>1, <3>2 DEF Promised, DeliveredEnded
    <3> QED BY <3>2, <3>3 DEF DeliveredEnded, D
  <2> QED BY <2>7, <2>10, <2>11 DEF Promised, Dispatch!Next
<1>9. CASE UNCHANGED vars
  BY <1>1, <1>9 DEF vars, histories
<1> QED BY <1>2, <1>4, <1>5, <1>6, <1>7, <1>8, <1>9 DEF Next, ThreadStep

(* Every callback is for a frame that was closed, is the first for it, and *)
(* carries the data the frame was closed with: the safety of the promise   *)
(* FrameDispatch, so long as frames come in the order of their numbers.    *)
THEOREM DispatchImplemented == ASSUME Ordered PROVE Spec => Dispatch!Spec
<1>1. Init => IInv /\ Promised /\ Dispatch!Init
  BY InvInit, PromisedInit DEF Init, Dispatch!Init
<1>2. IInv /\ Promised /\ [Next]_vars => IInv' /\ Promised' /\ [Dispatch!Next]_(Dispatch!vars)
  BY InvNext, PromisedNext
<1> QED BY <1>1, <1>2, PTL DEF Spec, Dispatch!Spec

=============================================================================
