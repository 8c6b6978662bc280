------------------------ MODULE FrameGenerator_proofs ------------------------
(***************************************************************************)
(* The types of FrameGenerator, SendsSafely and RoundInOrder, for every    *)
(* number of channels, tiles and images and for all settings.              *)
(***************************************************************************)
EXTENDS FrameGenerator, TLAPS

(* What the task has at hand between its setup and its next look at the    *)
(* flag: as many images of its own as the port holds, and a socket.        *)
Prepared == buffers = images /\ images > 0 /\ loaded /\ running /\ socket = "open"

(* Undisturbed, a start that is signalled finds the task asleep, so the    *)
(* images the port holds are those of the Configurator until the task has  *)
(* loaded its own; from then on it is prepared for as long as it may post. *)
Undisturbed ==
  ~disturbed =>
    /\ pc \notin {"idle", "crashed"} => ~startEvent[Task]
    /\ pc \in {"read", "load"} \/ (pc = "idle" /\ startEvent[Task]) => buffers = config.images
    /\ pc = "setup" => buffers = images /\ images > 0 /\ loaded
    /\ pc \in {"poll", "check"} /\ post[Task] => Prepared
    /\ pc \in {"send", "sending", "finish", "complete", "wait"} => Prepared
    /\ pc = "sending" => held.live /\ held.index < held.of
    /\ pc = "crashed" => ~config.read

IInv == TypeOK /\ Undisturbed

-----------------------------------------------------------------------------

(* A remainder is smaller than what divides. *)
LEMMA Remainder ==
  ASSUME NEW n \in Nat, NEW d \in Nat, d > 0
  PROVE  n % d \in Nat /\ n % d < d
BY SMT

(* What Piece() makes, when there is an image, is a piece of the log.      *)
LEMMA PieceType ==
  ASSUME TypeOK, images > 0
  PROVE  /\ Piece(part) \in [reset : BOOLEAN, number : Nat, index : Nat, sub : Nat]
         /\ Piece(part).index < images
<1> USE GeneratorAssumption DEF TypeOK
<1>1. mine.temporal \in BOOLEAN /\ mine.subFrame \in Nat
  OBVIOUS
<1>2. CASE mine.temporal
  <2> DEFINE n == IF part <= Tiles THEN counter ELSE counter + Stride
  <2>1. n \in Nat
    OBVIOUS
  <2>2. n % images \in Nat /\ n % images < images
    BY <2>1, Remainder
  <2>3. (part - 1) % Tiles \in Nat
    BY Remainder
  <2>4. Piece(part) = [reset |-> part > Tiles, number |-> n, index |-> n % images,
                       sub |-> (part - 1) % Tiles]
    BY <1>2 DEF Piece
  <2>5. (part > Tiles) \in BOOLEAN
    OBVIOUS
  <2> HIDE DEF n
  <2> QED BY <2>1, <2>2, <2>3, <2>4, <2>5
<1>3. CASE ~mine.temporal
  <2>1. counter % images \in Nat /\ counter % images < images
    BY Remainder
  <2>2. Piece(part) = [reset |-> part = 2, number |-> counter + part - 1,
                       index |-> counter % images, sub |-> mine.subFrame]
    BY <1>3 DEF Piece
  <2>3. counter + part - 1 \in Nat /\ (part = 2) \in BOOLEAN
    OBVIOUS
  <2> QED BY <1>1, <2>1, <2>2, <2>3
<1> QED BY <1>1, <1>2, <1>3

(* Every step keeps the types. *)
LEMMA TypeInvariant == ASSUME TypeOK, [Next]_vars PROVE TypeOK'
<1> USE GeneratorAssumption DEF TypeOK, Task
<1>1. CASE WriteParameter
  BY <1>1 DEF WriteParameter, events, task, sender, Alive, Disturbs
<1>2. CASE RawFileRead
  BY <1>2 DEF RawFileRead, events, task, sender, Alive, Disturbs
<1>3. CASE StartPosting
  <2>1. Freed(held) \in [own : BOOLEAN, live : BOOLEAN, index : Nat, of : Nat]
    BY Zenon DEF Freed
  <2>2. startEvent' \in [1 .. Channels -> BOOLEAN] /\ post' \in [1 .. Channels -> BOOLEAN]
    BY <1>3, Zenon DEF StartPosting, Signalled
  <2>3. disturbed' \in BOOLEAN /\ pc' \in PCs /\ buffers' \in Nat
    BY <1>3 DEF StartPosting, setupImageBuffers, PCs
  <2> QED BY <1>3, <2>1, <2>2, <2>3 DEF StartPosting, task, sender
<1>4. CASE StopPosting
  <2>1. stopEvent' \in [1 .. Channels -> BOOLEAN] /\ post' \in [1 .. Channels -> BOOLEAN]
    BY <1>4, Zenon DEF StopPosting, Signalled
  <2> QED BY <1>4, <2>1 DEF StopPosting, task, sender
<1>5. CASE Check
  BY <1>5 DEF Check, events, task, sender, PCs
<1>6. CASE Shutdown
  <2>1. sent' \in Seq([reset : BOOLEAN, number : Nat, index : Nat, sub : Nat])
    BY <1>6 DEF Shutdown, shutdownSocket
  <2>2. socket' \in {"none", "unopened", "open"} /\ pc' \in PCs
    BY <1>6 DEF Shutdown, shutdownSocket, PCs
  <2> QED BY <1>6, <2>1, <2>2 DEF Shutdown, shutdownSocket, events
<1>7. CASE WaitForStart
  BY <1>7 DEF WaitForStart, task, sender, PCs
<1>8. CASE ReadParameters
  BY <1>8 DEF ReadParameters, events, sender, PCs
<1>9. CASE LoadImages
  BY <1>9 DEF LoadImages, events, sender, PCs
<1>10. CASE SetupSocket
  BY <1>10 DEF SetupSocket, setupSocket, events, task, PCs
<1>11. CASE Poll
  BY <1>11 DEF Poll, events, sender, PCs
<1>12. CASE SendBegin
  <2>1. Piece(part) \in [reset : BOOLEAN, number : Nat, index : Nat, sub : Nat]
    BY <1>12, PieceType DEF SendBegin
  <2>2. held' \in [own : BOOLEAN, live : BOOLEAN, index : Nat, of : Nat]
    BY <1>12, <2>1 DEF SendBegin
  <2>3. sent' \in Seq([reset : BOOLEAN, number : Nat, index : Nat, sub : Nat])
    BY <1>12, <2>1 DEF SendBegin
  <2> QED BY <1>12, <2>2, <2>3 DEF SendBegin, events, task, sender, PCs
<1>13. CASE DivideByZero
  BY <1>13 DEF DivideByZero, events, task, sender, PCs
<1>14. CASE SendEnd
  BY <1>14 DEF SendEnd, NoBuffer, events, sender, PCs
<1>15. CASE FinishFrame
  BY <1>15 DEF FinishFrame, events, task, sender, PCs
<1>16. CASE Complete
  BY <1>16 DEF Complete, events, task, sender, PCs
<1>17. CASE WaitForStop
  BY <1>17 DEF WaitForStop, task, sender, PCs
<1>18. CASE UNCHANGED vars
  BY <1>18 DEF vars, events, task, sender
<1> QED
  BY <1>1, <1>2, <1>3, <1>4, <1>5, <1>6, <1>7, <1>8, <1>9, <1>10, <1>11, <1>12, <1>13,
     <1>14, <1>15, <1>16, <1>17, <1>18 DEF Next, Port, PostingTask, Crashed

(* Every step keeps what holds while the user is patient. *)
LEMMA UndisturbedInvariant == ASSUME IInv, [Next]_vars PROVE Undisturbed'
<1> USE GeneratorAssumption DEF IInv, TypeOK, Undisturbed, Prepared, Task
<1>1. CASE WriteParameter
  BY <1>1 DEF WriteParameter, events, task, sender, Alive, Disturbs, Asleep
<1>2. CASE RawFileRead
  BY <1>2 DEF RawFileRead, events, task, sender, Alive, Disturbs, Asleep
<1>3. CASE StartPosting
  BY <1>3 DEF StartPosting, setupImageBuffers, task, sender, Alive, Asleep
<1>4. CASE StopPosting
  BY <1>4 DEF StopPosting, task, sender, Alive
<1>5. CASE Check
  BY <1>5 DEF Check, events, task, sender
<1>6. CASE Shutdown
  BY <1>6 DEF Shutdown, shutdownSocket, events
<1>7. CASE WaitForStart
  BY <1>7 DEF WaitForStart, task, sender
<1>8. CASE ReadParameters
  BY <1>8 DEF ReadParameters, events, sender
<1>9. CASE LoadImages
  BY <1>9 DEF LoadImages, events, sender
<1>10. CASE SetupSocket
  BY <1>10 DEF SetupSocket, setupSocket, events, task
<1>11. CASE Poll
  BY <1>11 DEF Poll, events, sender
<1>12. CASE SendBegin
  <2>1. Piece(part).index < images
    BY <1>12, PieceType DEF SendBegin
  <2>2. held'.live /\ held'.index = Piece(part).index /\ held'.of \in {buffers, images}
    BY <1>12 DEF SendBegin
  <2> QED BY <1>12, <2>1, <2>2 DEF SendBegin, events, task, sender
<1>13. CASE DivideByZero
  BY <1>13 DEF DivideByZero, events, task, sender
<1>14. CASE SendEnd
  BY <1>14 DEF SendEnd, events, sender
<1>15. CASE FinishFrame
  BY <1>15 DEF FinishFrame, events, task, sender
<1>16. CASE Complete
  BY <1>16 DEF Complete, events, task, sender
<1>17. CASE WaitForStop
  BY <1>17 DEF WaitForStop, task, sender
<1>18. CASE UNCHANGED vars
  BY <1>18 DEF vars, events, task, sender
<1> QED
  BY <1>1, <1>2, <1>3, <1>4, <1>5, <1>6, <1>7, <1>8, <1>9, <1>10, <1>11, <1>12, <1>13,
     <1>14, <1>15, <1>16, <1>17, <1>18 DEF Next, Port, PostingTask, Crashed

(* The strengthened invariant holds in every state. *)
LEMMA Inductive == Spec => []IInv
<1>1. Init => IInv
  <2> SUFFICES ASSUME Init PROVE IInv
    OBVIOUS
  <2>1. TypeOK
    <3>1. sent \in Seq([reset : BOOLEAN, number : Nat, index : Nat, sub : Nat])
      BY DEF Init
    <3>2. held \in [own : BOOLEAN, live : BOOLEAN, index : Nat, of : Nat]
      BY DEF Init, NoBuffer
    <3>3. config \in [read : BOOLEAN, images : Nat \ {0}]
      BY GeneratorAssumption DEF Init
    <3>4. /\ post \in [1 .. Channels -> BOOLEAN]
          /\ startEvent \in [1 .. Channels -> BOOLEAN]
          /\ stopEvent \in [1 .. Channels -> BOOLEAN]
      BY Zenon DEF Init
    <3>5. /\ pc \in PCs /\ ~loaded /\ socket \in {"none", "unopened", "open"}
          /\ loaded \in BOOLEAN /\ running \in BOOLEAN /\ disturbed \in BOOLEAN
      BY DEF Init, PCs
    <3>6. buffers \in Nat /\ images \in Nat /\ counter \in Nat /\ part \in Nat \ {0}
      BY DEF Init
    <3>7. params \in Settings /\ mine \in Settings
      BY GeneratorAssumption DEF Init
    <3> QED BY <3>1, <3>2, <3>3, <3>4, <3>5, <3>6, <3>7, Zenon DEF TypeOK
  <2>2. Undisturbed
    BY GeneratorAssumption DEF Init, Undisturbed, Task
  <2> QED BY <2>1, <2>2 DEF IInv
<1>2. IInv /\ [Next]_vars => IInv'
  BY TypeInvariant, UndisturbedInvariant DEF IInv
<1> QED BY <1>1, <1>2, PTL DEF Spec

(* The variables of the generator keep their types: the task never divides *)
(* by a number of images it has loaded and found zero.                     *)
THEOREM TypeCorrect == Spec => []TypeOK
<1>1. IInv => TypeOK
  BY DEF IInv
<1> QED BY <1>1, Inductive, PTL

(* A user who starts, configures and reads files only while the task       *)
(* sleeps never makes it send freed memory, memory outside the images, or  *)
(* on a socket that is not open, and brings it down only by starting with  *)
(* no file read.                                                           *)
THEOREM Safe == Spec => []SendsSafely
<1>1. IInv => SendsSafely
  BY DEF IInv, Undisturbed, Prepared, SendsSafely
<1> QED BY <1>1, Inductive, PTL

-----------------------------------------------------------------------------
(* The order of the pieces                                                 *)

(* Of the settings m the task has read: by how much the number of a frame  *)
(* grows, how many of its pieces are image data (as many of reset data     *)
(* follow), the sub-frame of the k-th piece, and the place of a piece.     *)
Increment(m) == IF m.temporal THEN Stride ELSE 1
Half(m) == IF m.temporal THEN Tiles ELSE 1
SubOf(m, k) ==
  IF m.temporal THEN IF k <= Tiles THEN k - 1 ELSE k - 1 - Tiles ELSE m.subFrame
Place(m, q) ==
  (IF m.temporal THEN q.sub + 1 ELSE 1) + (IF q.reset THEN Half(m) ELSE 0)

(* How many pieces of the frame the task began last have been sent.        *)
Done == CASE pc = "send" -> part - 1
          [] pc = "sending" -> part
          [] OTHER -> Parts

(* Nothing of a frame after number n has been sent, and of frame n only    *)
(* what comes before the place the task has reached.                       *)
NotAhead(m, n, done, q) ==
  LET begun == IF q.reset THEN n + Increment(m) ELSE n IN
  q.number <= begun /\ (q.number = begun => Place(m, q) <= done)

(* The reset data for frame n, out of its image of the file, are in a log: *)
(* those of the k-th piece, and all up to a place of the frame before.     *)
ResetIn(log, m, n, index, k) ==
  \E j \in 1 .. Len(log) :
    /\ log[j].reset /\ log[j].number = n /\ log[j].sub = SubOf(m, k)
    /\ m.temporal => log[j].index = index
ResetsIn(log, m, n, index, last) ==
  \A k \in Half(m) + 1 .. last : ResetIn(log, m, n, index, k)

(* Each frame but the first finds all of its reset data sent.              *)
RoundUnderway ==
  /\ pc \in {"send", "sending"} => part <= Parts
  /\ pc \in {"idle", "read", "load", "setup"} => sent = <<>>
  /\ pc = "send" /\ sent = <<>> => part = 1
  /\ pc \in {"sending", "finish", "complete", "wait"} => sent # <<>>
  /\ pc # "crashed" => \A j \in 1 .. Len(sent) : NotAhead(mine, counter, Done, sent[j])
  /\ pc # "crashed" /\ sent # <<>> =>
       /\ LET next == counter + Increment(mine) IN
          ResetsIn(sent, mine, next, next % images, Done)
       /\ \/ counter = sent[1].number
          \/ ResetsIn(sent, mine, counter, counter % images, Parts)

(* The first two parts of RoundInOrder, which no user can disturb.         *)
Paired ==
  \A i \in 1 .. Len(sent) :
    /\ \A j \in 1 .. i - 1 : sent[j] # sent[i]
    /\ ~sent[i].reset /\ sent[i].number # sent[1].number =>
         \E j \in 1 .. i - 1 :
           /\ sent[j].reset /\ sent[j].number = sent[i].number /\ sent[j].sub = sent[i].sub
           /\ mine.temporal => sent[j].index = sent[i].index

(* Undisturbed, the frames before the current one have not reached         *)
(* GDNumImages, and no frame follows one that has.                         *)
Limited == ~disturbed /\ mine.imageMode = "multiple" =>
  /\ \A j \in 1 .. Len(sent) :
       ~sent[j].reset /\ sent[j].number # counter => sent[j].number < params.numImages
  /\ \A i \in 1 .. Len(sent) : \A j \in 1 .. i - 1 :
       ~sent[i].reset /\ ~sent[j].reset /\ sent[j].number # sent[i].number =>
         sent[j].number < params.numImages
  /\ sent # <<>> /\ (pc = "wait" \/ (pc \in {"check", "poll"} /\ post[Task])) =>
       counter < params.numImages

RoundInv == RoundUnderway /\ Paired /\ Limited

(* Remainders of the places in a frame.                                    *)
LEMMA SmallRemainder ==
  ASSUME NEW n \in Nat, NEW a \in 0 .. n - 1
  PROVE  a % n = a /\ (a + n) % n = a
<1>1. a % n = a
  BY SMT
<1>2. (a + n) % n = a
  BY SMT
<1> QED BY <1>1, <1>2

(* The shape of the settings the task has read.                            *)
LEMMA MineTyped ==
  ASSUME TypeOK
  PROVE  /\ mine.temporal \in BOOLEAN /\ mine.subFrame \in Nat /\ mine.numImages \in Nat
         /\ Half(mine) \in Nat \ {0} /\ Increment(mine) \in Nat \ {0}
         /\ Parts = Half(mine) + Half(mine) /\ Parts \in Nat
         /\ params.numImages \in Nat
BY GeneratorAssumption DEF TypeOK, Half, Increment, Parts

(* The k-th piece of a frame is in the k-th place, and its reset data is   *)
(* numbered for the next frame.                                            *)
LEMMA PieceShape ==
  ASSUME TypeOK, images > 0, part \in 1 .. Parts
  PROVE  LET p == Piece(part) IN
         /\ p.reset <=> part > Half(mine)
         /\ p.number = IF part > Half(mine) THEN counter + Increment(mine) ELSE counter
         /\ p.sub = SubOf(mine, part)
         /\ mine.temporal => p.index = p.number % images
         /\ Place(mine, p) = part
<1> USE GeneratorAssumption
<1>1. mine.temporal \in BOOLEAN /\ counter \in Nat /\ part \in Nat
  BY MineTyped DEF TypeOK
<1>2. CASE mine.temporal
  <2> DEFINE n == IF part <= Tiles THEN counter ELSE counter + Stride
             sub == (part - 1) % Tiles
  <2>1. Piece(part) = [reset |-> part > Tiles, number |-> n, index |-> n % images, sub |-> sub]
    BY <1>2 DEF Piece
  <2>2. part \in 1 .. 2 * Tiles
    BY <1>2 DEF Parts
  <2>3. sub = IF part <= Tiles THEN part - 1 ELSE part - 1 - Tiles
    <3>1. CASE part <= Tiles
      <4>1. part - 1 \in 0 .. Tiles - 1
        BY <2>2, <3>1
      <4> QED BY <3>1, <4>1, SmallRemainder
    <3>2. CASE ~(part <= Tiles)
      <4> DEFINE a == part - 1 - Tiles
      <4>1. a \in 0 .. Tiles - 1 /\ part - 1 = a + Tiles
        BY <2>2, <3>2
      <4>2. (a + Tiles) % Tiles = a
        BY <4>1, SmallRemainder
      <4> QED BY <3>2, <4>1, <4>2
    <3> QED BY <3>1, <3>2
  <2>4. /\ Piece(part).reset = (part > Tiles) /\ Piece(part).number = n
        /\ Piece(part).index = n % images /\ Piece(part).sub = sub
    <3> HIDE DEF n, sub
    <3> QED BY <2>1
  <2>5. Half(mine) = Tiles /\ Increment(mine) = Stride /\ SubOf(mine, part) = sub
    BY <1>2, <2>3 DEF Half, Increment, SubOf
  <2>6. /\ Piece(part).number = IF part > Half(mine) THEN counter + Increment(mine) ELSE counter
        /\ Piece(part).index = Piece(part).number % images
    <3>1. n = IF part > Tiles THEN counter + Stride ELSE counter
      BY <1>1
    <3> HIDE DEF n
    <3> QED BY <2>4, <2>5, <3>1
  <2>7. Place(mine, Piece(part)) = part
    <3> HIDE DEF n
    <3> DEFINE q == Piece(part)
    <3>1. CASE part > Tiles
      <4>1. q.reset
        BY <2>4, <3>1, Zenon
      <4>2. q.sub = part - 1 - Tiles
        BY <1>1, <2>3, <2>4, <3>1
      <4>3. Place(mine, q) = (q.sub + 1) + Tiles
        BY <1>2, <2>5, <4>1, Zenon DEF Place
      <4> QED BY <1>1, <4>2, <4>3
    <3>2. CASE ~(part > Tiles)
      <4>1. ~q.reset
        BY <2>4, <3>2, Zenon
      <4>2. q.sub = part - 1
        BY <1>1, <2>3, <2>4, <3>2
      <4>3. Place(mine, q) = (q.sub + 1) + 0
        BY <1>2, <2>5, <4>1, Zenon DEF Place
      <4> QED BY <1>1, <4>2, <4>3
    <3> QED BY <3>1, <3>2
  <2> HIDE DEF n, sub
  <2> QED BY <2>4, <2>5, <2>6, <2>7
<1>3. CASE ~mine.temporal
  <2>1. Piece(part) = [reset |-> part = 2, number |-> counter + part - 1,
                       index |-> counter % images, sub |-> mine.subFrame]
    BY <1>3 DEF Piece
  <2>2. part \in {1, 2}
    BY <1>1, <1>3 DEF Parts
  <2>3. /\ Piece(part).reset = (part = 2) /\ Piece(part).number = counter + part - 1
        /\ Piece(part).sub = mine.subFrame
    BY <2>1
  <2>4. Half(mine) = 1 /\ Increment(mine) = 1 /\ SubOf(mine, part) = mine.subFrame
    BY <1>3 DEF Half, Increment, SubOf
  <2>5. Place(mine, Piece(part)) = part
    <3> DEFINE q == Piece(part)
    <3>1. CASE part = 2
      <4>1. q.reset
        BY <2>3, <3>1, Zenon
      <4>2. Place(mine, q) = 1 + 1
        BY <1>3, <2>4, <4>1, Zenon DEF Place
      <4> QED BY <3>1, <4>2
    <3>2. CASE part = 1
      <4>1. ~q.reset
        <5>1. ~(part = 2)
          BY <3>2
        <5> QED BY <2>3, <5>1, Zenon
      <4>2. Place(mine, q) = 1 + 0
        BY <1>3, <2>4, <4>1, Zenon DEF Place
      <4> QED BY <3>2, <4>2
    <3> QED BY <2>2, <3>1, <3>2
  <2>6. Piece(part).reset <=> part > Half(mine)
    <3>1. part = 2 <=> part > Half(mine)
      BY <2>2, <2>4
    <3> QED BY <2>3, <3>1, Zenon
  <2>7. Piece(part).number = IF part > Half(mine) THEN counter + Increment(mine) ELSE counter
    BY <1>1, <2>2, <2>3, <2>4
  <2> QED BY <1>3, <2>3, <2>4, <2>5, <2>6, <2>7
<1> QED BY <1>1, <1>2, <1>3

(* The two halves of a frame hold the same sub-frames.                     *)
LEMMA SubAgain ==
  ASSUME TypeOK, NEW k \in 1 .. Half(mine)
  PROVE  /\ k + Half(mine) \in Half(mine) + 1 .. Parts
         /\ SubOf(mine, k + Half(mine)) = SubOf(mine, k)
BY MineTyped, GeneratorAssumption DEF Half, SubOf

(* A step that neither sends nor begins a frame, and leaves the task where *)
(* as much of the frame is done, changes nothing that is said of the log.  *)
LEMMA LogKept ==
  ASSUME RoundUnderway, Paired, pc # "crashed" => Done' = Done,
         UNCHANGED <<mine, images, counter, sent>>, pc = "crashed" => pc' = "crashed",
         /\ pc' \in {"send", "sending"} => part' <= Parts'
         /\ pc' \in {"idle", "read", "load", "setup"} => sent = <<>>
         /\ pc' = "send" /\ sent = <<>> => part' = 1
         /\ pc' \in {"sending", "finish", "complete", "wait"} => sent # <<>>
  PROVE  RoundUnderway' /\ Paired'
<1>1. Parts' = Parts
  BY DEF Parts
<1>2. Paired'
  BY DEF Paired
<1>3. RoundUnderway'
  BY <1>1 DEF RoundUnderway
<1> QED BY <1>2, <1>3

(* The pieces of the log stay, the new one is the next in its place.       *)
LEMMA SendBeginKeepsRound ==
  ASSUME TypeOK, RoundUnderway, Paired, SendBegin
  PROVE  RoundUnderway' /\ Paired'
<1> DEFINE p == Piece(part)  n == Len(sent)  next == counter + Increment(mine)
<1>1. /\ pc = "send" /\ pc' = "sending" /\ images > 0
      /\ UNCHANGED <<mine, images, counter, part>>
      /\ part \in 1 .. Parts /\ counter \in Nat
      /\ sent' = Append(sent, p)
  BY MineTyped DEF SendBegin, task, RoundUnderway, TypeOK
<1>2. /\ Parts' = Parts /\ Done = part - 1 /\ Done' = part
      /\ Half(mine) \in Nat \ {0} /\ Increment(mine) \in Nat \ {0} /\ part \in Nat
  BY <1>1, MineTyped DEF Parts, Done
<1>3. /\ p.reset <=> part > Half(mine)
      /\ p.number = IF part > Half(mine) THEN next ELSE counter
      /\ p.sub = SubOf(mine, part) /\ Place(mine, p) = part
      /\ mine.temporal => p.index = p.number % images
  BY <1>1, PieceShape
<1>4. p \in [reset : BOOLEAN, number : Nat, index : Nat, sub : Nat]
  BY <1>1, PieceType
<1> HIDE DEF p
<1>5. /\ n \in Nat /\ Len(sent') = n + 1 /\ sent'[n + 1] = p
      /\ \A j \in 1 .. n : sent'[j] = sent[j]
      /\ n > 0 => sent # <<>>
      /\ n = 0 => sent = <<>>
      /\ sent' # <<>>
  BY <1>1, <1>4 DEF TypeOK
<1>6. p.number = IF p.reset THEN next ELSE counter
  BY <1>3
<1>7. /\ \A j \in 1 .. n : NotAhead(mine, counter, Done, sent[j])
      /\ n > 0 => /\ ResetsIn(sent, mine, next, next % images, Done)
                  /\ \/ counter = sent[1].number
                     \/ ResetsIn(sent, mine, counter, counter % images, Parts)
  BY <1>1, <1>5 DEF RoundUnderway
<1> HIDE DEF n
<1>8. ASSUME NEW j \in 1 .. n PROVE sent[j] # p
  <2>1. NotAhead(mine, counter, Done, p) => Place(mine, p) <= Done
    BY <1>6 DEF NotAhead
  <2> QED BY <1>2, <1>3, <1>7, <2>1
<1>9. \A j \in 1 .. n + 1 : NotAhead(mine, counter, part, sent'[j])
  <2>1. ASSUME NEW j \in 1 .. n PROVE NotAhead(mine, counter, part, sent[j])
    <3> DEFINE q == sent[j]
    <3>1. sent \in Seq([reset : BOOLEAN, number : Nat, index : Nat, sub : Nat])
      BY DEF TypeOK
    <3>2. q \in [reset : BOOLEAN, number : Nat, index : Nat, sub : Nat]
      <4>1. j \in 1 .. Len(sent)
        BY DEF n
      <4> DEFINE Record == [reset : BOOLEAN, number : Nat, index : Nat, sub : Nat]
      <4> HIDE DEF Record
      <4>2. sent \in Seq(Record)
        BY <3>1 DEF Record
      <4>3. sent[j] \in Record
        BY <4>1, <4>2
      <4> QED BY <4>3 DEF Record
    <3>3. NotAhead(mine, counter, Done, q)
      BY <1>7
    <3> HIDE DEF q
    <3>4. Place(mine, q) \in Nat
      BY <1>2, <3>2, MineTyped DEF Place
    <3>5. NotAhead(mine, counter, part, q)
      BY <1>2, <3>3, <3>4 DEF NotAhead
    <3> QED BY <3>5 DEF q
  <2>2. NotAhead(mine, counter, part, p)
    <3>1. p.number \in Nat /\ part <= part
      BY <1>2, <1>4
    <3> QED BY <1>3, <1>6, <3>1 DEF NotAhead
  <2> QED BY <1>5, <2>1, <2>2
<1>10. ASSUME NEW number, NEW index, NEW k, ResetIn(sent, mine, number, index, k)
       PROVE  ResetIn(sent', mine, number, index, k)
  <2>1. PICK j \in 1 .. n :
          /\ sent[j].reset /\ sent[j].number = number /\ sent[j].sub = SubOf(mine, k)
          /\ mine.temporal => sent[j].index = index
    BY <1>10 DEF ResetIn, n
  <2>2. j \in 1 .. Len(sent') /\ sent'[j] = sent[j]
    BY <1>5
  <2> QED BY <2>1, <2>2 DEF ResetIn
<1>11. ResetsIn(sent', mine, next, next % images, part)
  <2> SUFFICES ASSUME NEW k \in Half(mine) + 1 .. part
               PROVE  ResetIn(sent', mine, next, next % images, k)
    BY DEF ResetsIn
  <2>1. CASE k = part
    <3>1. /\ p.reset /\ p.number = next /\ p.sub = SubOf(mine, k)
          /\ mine.temporal => p.index = next % images
      BY <1>2, <1>3, <2>1
    <3>2. n + 1 \in 1 .. Len(sent')
      BY <1>5
    <3> QED BY <1>5, <3>1, <3>2 DEF ResetIn
  <2>2. CASE k # part
    <3>1. k \in Half(mine) + 1 .. Done /\ part # 1
      BY <1>2, <2>2
    <3>2. n > 0
      BY <1>1, <1>5, <3>1 DEF RoundUnderway
    <3>3. ResetIn(sent, mine, next, next % images, k)
      BY <1>7, <3>1, <3>2 DEF ResetsIn
    <3> QED BY <1>10, <3>3
  <2> QED BY <2>1, <2>2
<1>12. counter = sent'[1].number \/ ResetsIn(sent', mine, counter, counter % images, Parts)
  <2>1. CASE n = 0
    <3>1. part = 1 /\ ~(part > Half(mine))
      BY <1>1, <1>2, <1>5, <2>1 DEF RoundUnderway
    <3>2. sent'[1] = p
      BY <1>5, <2>1
    <3> QED BY <1>3, <3>1, <3>2
  <2>2. CASE n # 0
    <3>1. sent'[1] = sent[1] /\ n > 0
      BY <1>5, <2>2
    <3> QED BY <1>7, <1>10, <3>1 DEF ResetsIn
  <2> QED BY <2>1, <2>2
<1>13. RoundUnderway'
  BY <1>1, <1>2, <1>5, <1>9, <1>11, <1>12 DEF RoundUnderway
<1>14. Paired'
  <2>1. ASSUME NEW i \in 1 .. Len(sent'), NEW j \in 1 .. i - 1 PROVE sent'[j] # sent'[i]
    BY <1>5, <1>8 DEF Paired, n
  <2>2. ASSUME NEW i \in 1 .. Len(sent'), ~sent'[i].reset, sent'[i].number # sent'[1].number
        PROVE  \E j \in 1 .. i - 1 :
                 /\ sent'[j].reset /\ sent'[j].number = sent'[i].number
                 /\ sent'[j].sub = sent'[i].sub
                 /\ mine.temporal => sent'[j].index = sent'[i].index
    <3>1. CASE i \in 1 .. n
      <4>1. sent'[i] = sent[i] /\ sent'[1] = sent[1] /\ \A j \in 1 .. i - 1 : sent'[j] = sent[j]
        BY <1>5, <3>1
      <4> QED BY <2>2, <3>1, <4>1 DEF Paired, n
    <3>2. CASE i = n + 1
      <4>1. sent'[i] = p
        BY <1>5, <3>2
      <4>2. ~p.reset /\ ~(part > Half(mine)) /\ p.number = counter
        BY <1>3, <2>2, <4>1
      <4>3. n > 0 /\ sent'[1] = sent[1]
        BY <1>5, <2>2, <3>2
      <4>4. ResetsIn(sent, mine, counter, counter % images, Parts)
        BY <1>7, <2>2, <4>1, <4>2, <4>3
      <4>5. /\ part + Half(mine) \in Half(mine) + 1 .. Parts
            /\ SubOf(mine, part + Half(mine)) = SubOf(mine, part)
        <5>1. part \in 1 .. Half(mine)
          BY <1>1, <1>2, <4>2
        <5> QED BY <5>1, SubAgain
      <4>6. PICK j \in 1 .. n :
              /\ sent[j].reset /\ sent[j].number = counter /\ sent[j].sub = SubOf(mine, part)
              /\ mine.temporal => sent[j].index = counter % images
        <5>1. ResetIn(sent, mine, counter, counter % images, part + Half(mine))
          BY <4>4, <4>5 DEF ResetsIn
        <5> QED BY <4>5, <5>1 DEF ResetIn, n
      <4>7. j \in 1 .. i - 1 /\ sent'[j] = sent[j]
        BY <1>5, <3>2
      <4> QED BY <1>3, <4>1, <4>2, <4>6, <4>7
    <3> QED BY <1>5, <3>1, <3>2
  <2> QED BY <1>1, <2>1, <2>2 DEF Paired
<1> QED BY <1>13, <1>14

(* The next frame finds the reset data sent with the one before.           *)
LEMMA PollKeepsRound ==
  ASSUME TypeOK, RoundUnderway, Paired, Poll
  PROVE  RoundUnderway' /\ Paired'
<1> DEFINE next == counter + Increment(mine)
<1>0. /\ pc = "poll" /\ Done = Parts /\ UNCHANGED <<mine, images, sent>>
      /\ Parts' = Parts /\ Parts \in Nat /\ counter \in Nat /\ Increment(mine) \in Nat \ {0}
      /\ Parts >= 2 /\ Half(mine) \in Nat \ {0}
  BY MineTyped DEF Poll, Done, Parts, TypeOK
<1>1. CASE pc' = "check"
  <2>1. UNCHANGED <<counter, part>> /\ Done' = Parts
    BY <1>0, <1>1 DEF Poll, Done
  <2> QED BY <1>0, <1>1, <2>1, LogKept
<1>2. CASE pc' = "send"
  <2>1. counter' = next /\ part' = 1 /\ Done' = 0
    BY <1>2 DEF Poll, Done, Increment
  <2>2. ASSUME NEW j \in 1 .. Len(sent) PROVE NotAhead(mine, next, 0, sent[j])
    <3> DEFINE Record == [reset : BOOLEAN, number : Nat, index : Nat, sub : Nat]
               q == sent[j]
    <3>1. NotAhead(mine, counter, Done, q)
      BY <1>0 DEF RoundUnderway
    <3>2. q \in Record
      <4> HIDE DEF Record
      <4>1. sent \in Seq(Record)
        BY DEF TypeOK, Record
      <4> QED BY <4>1
    <3>3. q.number \in Nat
      BY <3>2
    <3> HIDE DEF q
    <3>4. q.number < IF q.reset THEN next + Increment(mine) ELSE next
      BY <1>0, <3>1, <3>3 DEF NotAhead
    <3>5. NotAhead(mine, next, 0, q)
      BY <1>0, <3>3, <3>4 DEF NotAhead
    <3> QED BY <3>5 DEF q
  <2>3. sent # <<>> => ResetsIn(sent, mine, next, next % images, Parts)
    BY <1>0 DEF RoundUnderway
  <2>4. ResetsIn(sent, mine, next + Increment(mine), (next + Increment(mine)) % images, 0)
    BY <1>0 DEF ResetsIn
  <2>5. RoundUnderway'
    BY <1>0, <1>2, <2>1, <2>2, <2>3, <2>4 DEF RoundUnderway
  <2>6. Paired'
    BY <1>0 DEF Paired
  <2> QED BY <2>5, <2>6
<1> QED BY <1>1, <1>2 DEF Poll

(* Every step keeps the log of the round.                                  *)
LEMMA RoundStep ==
  ASSUME TypeOK, RoundUnderway, Paired, [Next]_vars
  PROVE  RoundUnderway' /\ Paired'
<1>1. CASE Port
  <2>1. /\ UNCHANGED <<mine, images, counter, part, sent>>
        /\ pc' = pc \/ pc' = "crashed"
        /\ pc = "crashed" => pc' = "crashed"
    BY <1>1 DEF Port, WriteParameter, RawFileRead, StartPosting, StopPosting, task, Alive
  <2>2. Parts' = Parts
    BY <2>1 DEF Parts
  <2>3. CASE pc' = "crashed"
    <3>1. Paired'
      BY <2>1 DEF Paired
    <3>2. RoundUnderway'
      BY <2>3 DEF RoundUnderway
    <3> QED BY <3>1, <3>2
  <2>4. CASE pc' = pc
    <3>1. Done' = Done
      BY <2>1, <2>2, <2>4 DEF Done
    <3> QED BY <2>1, <2>2, <2>4, <3>1, LogKept DEF RoundUnderway
  <2> QED BY <2>1, <2>3, <2>4
<1>2. CASE Check \/ FinishFrame \/ Complete \/ WaitForStop
  <2>1. /\ UNCHANGED <<mine, images, counter, part, sent>>
        /\ pc \in {"check", "finish", "complete", "wait"}
        /\ pc' \in {"poll", "shutdown", "complete", "wait", "check"}
        /\ pc' \in {"complete", "wait"} => pc = "finish"
    BY <1>2 DEF Check, FinishFrame, Complete, WaitForStop, task
  <2>2. Done' = Done
    BY <2>1 DEF Done, Parts
  <2> QED BY <2>1, <2>2, LogKept DEF RoundUnderway
<1>3. CASE Shutdown \/ WaitForStart \/ ReadParameters \/ LoadImages \/ SetupSocket
  <2>1. sent' = <<>> /\ pc' \in {"idle", "read", "load", "setup", "poll"}
    BY <1>3 DEF Shutdown, WaitForStart, ReadParameters, LoadImages, SetupSocket, task,
                RoundUnderway
  <2>2. Len(sent') = 0
    BY <2>1
  <2> QED BY <2>1, <2>2 DEF RoundUnderway, Paired
<1>4. CASE Poll
  BY <1>4, PollKeepsRound
<1>5. CASE SendBegin
  BY <1>5, SendBeginKeepsRound
<1>6. CASE SendEnd
  <2>1. /\ pc = "sending" /\ UNCHANGED <<mine, images, counter, sent>>
        /\ \/ part < Parts /\ part' = part + 1 /\ pc' = "send"
           \/ ~(part < Parts) /\ part' = part /\ pc' = "finish"
        /\ part \in Nat /\ Parts \in Nat /\ part <= Parts /\ sent # <<>>
    BY <1>6, MineTyped DEF SendEnd, TypeOK, RoundUnderway
  <2>2. Parts' = Parts /\ Done = part /\ Done' = part
    BY <2>1 DEF Parts, Done
  <2> QED BY <2>1, <2>2, LogKept
<1>7. CASE DivideByZero
  <2>1. UNCHANGED <<mine, sent>> /\ pc' = "crashed"
    BY <1>7 DEF DivideByZero, task
  <2> QED BY <2>1 DEF RoundUnderway, Paired
<1>8. CASE UNCHANGED vars
  <2>1. UNCHANGED <<mine, images, counter, part, sent, pc>>
    BY <1>8 DEF vars, task
  <2>2. Done' = Done /\ Parts' = Parts
    BY <2>1 DEF Done, Parts
  <2> QED BY <2>1, <2>2, LogKept DEF RoundUnderway
<1> QED BY <1>1, <1>2, <1>3, <1>4, <1>5, <1>6, <1>7, <1>8 DEF Next, PostingTask, Crashed

(* Every step keeps the numbers of a limited acquisition below the limit.  *)
LEMMA LimitedStep ==
  ASSUME TypeOK, RoundUnderway, Limited, [Next]_vars
  PROVE  Limited'
<1>0. counter \in Nat /\ params.numImages \in Nat
  BY MineTyped DEF TypeOK
<1>1. CASE sent' = <<>>
  <2>1. Len(sent') = 0
    BY <1>1
  <2> QED BY <1>1, <2>1 DEF Limited
<1>2. CASE WriteParameter \/ RawFileRead \/ StartPosting
  <2>1. disturbed' = FALSE => sent' = <<>>
    BY <1>2 DEF WriteParameter, RawFileRead, StartPosting, Disturbs, Asleep, TypeOK,
                RoundUnderway
  <2>2. disturbed' \in BOOLEAN
    BY <1>2 DEF WriteParameter, RawFileRead, StartPosting, Disturbs, TypeOK
  <2> QED BY <1>1, <2>1, <2>2 DEF Limited
<1>3. CASE StopPosting
  <2>1. post'[Task] = FALSE
    BY <1>3, GeneratorAssumption DEF StopPosting, Task
  <2> QED BY <1>3, <2>1 DEF StopPosting, task, Limited
<1>4. CASE WaitForStart \/ ReadParameters \/ LoadImages \/ SetupSocket \/ Shutdown
  <2>1. sent' = <<>>
    BY <1>4 DEF Shutdown, WaitForStart, ReadParameters, LoadImages, SetupSocket, task,
                RoundUnderway
  <2> QED BY <1>1, <2>1
<1>5. CASE Check
  BY <1>5 DEF Check, task, Limited
<1>6. CASE Poll
  <2>1. UNCHANGED <<disturbed, mine, params, sent, post>>
    BY <1>6 DEF Poll
  <2>2. pc' = "send" => pc = "poll" /\ post[Task]
    BY <1>6 DEF Poll
  <2>3. pc' = "check" => ~post[Task] /\ counter' = counter
    BY <1>6 DEF Poll
  <2>4. pc' \in {"check", "send"}
    BY <1>6 DEF Poll
  <2>5. CASE Len(sent) = 0 \/ sent = <<>>
    BY <1>1, <2>1, <2>5 DEF TypeOK
  <2>6. CASE sent # <<>>
    BY <1>0, <2>1, <2>2, <2>3, <2>4, <2>6 DEF Limited
  <2> QED BY <2>5, <2>6
<1>7. CASE SendBegin
  <2> DEFINE p == Piece(part)  n == Len(sent)
  <2>1. /\ pc = "send" /\ pc' = "sending" /\ images > 0
        /\ UNCHANGED <<disturbed, mine, params, counter>>
        /\ part \in 1 .. Parts /\ sent' = Append(sent, p)
    BY <1>7, MineTyped DEF SendBegin, task, RoundUnderway, TypeOK
  <2>2. ~p.reset => p.number = counter
    BY <2>1, PieceShape
  <2>3. p \in [reset : BOOLEAN, number : Nat, index : Nat, sub : Nat]
    BY <2>1, PieceType
  <2> HIDE DEF p
  <2>4. /\ n \in Nat /\ Len(sent') = n + 1 /\ sent'[n + 1] = p
        /\ \A j \in 1 .. n : sent'[j] = sent[j]
    BY <2>1, <2>3 DEF TypeOK
  <2> SUFFICES ASSUME ~disturbed, mine.imageMode = "multiple" PROVE Limited'
    BY <2>1 DEF Limited
  <2>5. ASSUME NEW j \in 1 .. n + 1, ~sent'[j].reset, sent'[j].number # counter
        PROVE  j \in 1 .. n /\ sent'[j].number < params.numImages
    BY <2>2, <2>4, <2>5 DEF Limited
  <2>6. ASSUME NEW i \in 1 .. n + 1, NEW j \in 1 .. i - 1, ~sent'[i].reset, ~sent'[j].reset,
               sent'[j].number # sent'[i].number
        PROVE  sent'[j].number < params.numImages
    <3>1. CASE i = n + 1
      BY <2>2, <2>4, <2>5, <2>6, <3>1
    <3>2. CASE i \in 1 .. n
      BY <2>4, <2>6, <3>2 DEF Limited
    <3> QED BY <2>4, <3>1, <3>2
  <2> QED BY <2>1, <2>4, <2>5, <2>6 DEF Limited
<1>8. CASE SendEnd
  BY <1>8 DEF SendEnd, Limited
<1>9. CASE DivideByZero
  BY <1>9 DEF DivideByZero, task, Limited
<1>10. CASE FinishFrame
  <2>1. mine.imageMode = "multiple" /\ pc' = "wait" => counter < params.numImages
    BY <1>0, <1>10 DEF FinishFrame, IsLast
  <2> QED BY <1>10, <2>1 DEF FinishFrame, task, Limited
<1>11. CASE Complete
  <2>1. post'[Task] = FALSE
    BY <1>11, GeneratorAssumption DEF Complete, Task, TypeOK
  <2> QED BY <1>11, <2>1 DEF Complete, task, Limited
<1>12. CASE WaitForStop
  BY <1>12 DEF WaitForStop, task, Limited
<1>13. CASE UNCHANGED vars
  BY <1>13 DEF vars, task, Limited
<1> QED
  BY <1>2, <1>3, <1>4, <1>5, <1>6, <1>7, <1>8, <1>9, <1>10, <1>11, <1>12, <1>13
     DEF Next, Port, PostingTask, Crashed

(* The log of every round, of any settings and started any number of times,*)
(* has the pieces the server needs, in the order it needs them.            *)
THEOREM Rounds == Spec => []RoundInOrder
<1>1. Init => RoundInv
  <2>1. Init => Len(sent) = 0 /\ sent = <<>> /\ pc = "check"
    BY DEF Init
  <2> QED BY <2>1 DEF RoundInv, RoundUnderway, Paired, Limited
<1>2. TypeOK /\ RoundInv /\ [Next]_vars => RoundInv'
  BY RoundStep, LimitedStep DEF RoundInv
<1>3. TypeOK /\ RoundInv => RoundInOrder
  <2> SUFFICES ASSUME TypeOK, RoundInv, ~disturbed, NEW i \in 1 .. Len(sent)
               PROVE  LET p == sent[i]  Before == {sent[j] : j \in 1 .. i - 1} IN
                      /\ p \notin Before
                      /\ ~p.reset /\ p.number # sent[1].number =>
                           \E q \in Before : /\ q.reset /\ q.number = p.number /\ q.sub = p.sub
                                             /\ mine.temporal => q.index = p.index
                      /\ ~p.reset /\ mine.imageMode = "multiple" =>
                           \A q \in Before : ~q.reset /\ q.number # p.number =>
                             q.number < params.numImages
    BY Zenon DEF RoundInOrder
  <2> DEFINE Before == {sent[j] : j \in 1 .. i - 1}
  <2>1. sent[i] \notin Before
    BY DEF RoundInv, Paired
  <2>2. ~sent[i].reset /\ sent[i].number # sent[1].number =>
           \E q \in Before : /\ q.reset /\ q.number = sent[i].number /\ q.sub = sent[i].sub
                             /\ mine.temporal => q.index = sent[i].index
    <3> HIDE DEF Before
    <3>1. ASSUME ~sent[i].reset, sent[i].number # sent[1].number
          PROVE  \E q \in Before : /\ q.reset /\ q.number = sent[i].number
                                   /\ q.sub = sent[i].sub
                                   /\ mine.temporal => q.index = sent[i].index
      <4>1. PICK j \in 1 .. i - 1 :
              /\ sent[j].reset /\ sent[j].number = sent[i].number /\ sent[j].sub = sent[i].sub
              /\ mine.temporal => sent[j].index = sent[i].index
        BY <3>1 DEF RoundInv, Paired
      <4>2. sent[j] \in Before
        BY DEF Before
      <4> QED BY <4>1, <4>2
    <3> QED BY <3>1
  <2>3. ~sent[i].reset /\ mine.imageMode = "multiple" =>
           \A q \in Before : ~q.reset /\ q.number # sent[i].number =>
             q.number < params.numImages
    <3> SUFFICES ASSUME ~sent[i].reset, mine.imageMode = "multiple", NEW j \in 1 .. i - 1,
                        ~sent[j].reset, sent[j].number # sent[i].number
                 PROVE  sent[j].number < params.numImages
      OBVIOUS
    <3> QED BY DEF RoundInv, Limited
  <2> HIDE DEF Before
  <2> QED BY <2>1, <2>2, <2>3, Zenon DEF Before
<1> QED BY <1>1, <1>2, <1>3, TypeCorrect, PTL DEF Spec

=============================================================================
