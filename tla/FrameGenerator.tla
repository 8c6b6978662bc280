---------------------------- MODULE FrameGenerator ----------------------------
(***************************************************************************)
(* asynGeneratorDriver, the frame generator (asynSingleProcessGenerator):  *)
(* the port thread that serves writeInt32(), which starts and stops the    *)
(* posting on the channels and reads configuration files, and the one task *)
(* the constructor starts, which posts for channel 1.                      *)
(*                                                                         *)
(* writeInt32() runs under the port lock.  The task takes that lock for    *)
(* some of its steps only: it polls the posting flag without it, and sends *)
(* without it out of the eight pairs of image buffers that the port thread *)
(* frees and fills again at every start.  The start and stop events are    *)
(* binary semaphores that remember one signal.                             *)
(*                                                                         *)
(* Left out: the read-back parameters (status, errors, widths, counters on *)
(* the screen), the addresses and ports, and the pace of the frames.  What *)
(* sendImage() makes of an image is in DataSender.                         *)
(***************************************************************************)
EXTENDS Naturals, Sequences

CONSTANTS
  Channels,      (* channels of the port, 8; the first one has a task      *)
  Tiles,         (* sub-frames the task sends of a temporal frame, 8       *)
  Stride,        (* by how much a temporal frame's number grows, 8         *)
  Settings,      (* what the parameters of the port may be, see params     *)
  FileImages,    (* numbers of images a configuration file may have        *)
  UnreadImages,  (* the number of images before a file is read, 10         *)
  MaxCounter     (* Bound: no frame is begun once counter has reached it.  *)

(* What the constructor sets the parameters to: nothing is enabled. *)
Defaults ==
  [temporal |-> FALSE, imageMode |-> "continuous", numImages |-> 100, subFrame |-> 0,
   enabled |-> {}, valid |-> TRUE]

ASSUME GeneratorAssumption ==
  /\ Channels \in Nat \ {0} /\ Tiles \in Nat \ {0} /\ Stride \in Nat \ {0}
  /\ Settings \subseteq [temporal : BOOLEAN,
                         imageMode : {"single", "multiple", "continuous"},
                         numImages : Nat, subFrame : Nat,
                         enabled : SUBSET (1 .. Channels), valid : BOOLEAN]
  /\ Defaults \in Settings
  /\ FileImages \subseteq Nat \ {0} /\ UnreadImages \in Nat \ {0}
  /\ MaxCounter \in Nat

VARIABLES
  params,      (* the parameters a user sets: GDMode, GDImageMode,         *)
               (*   GDNumImages, and per channel the sub-frame number (the *)
               (*   first one's), whether enabled, whether the geometry of *)
               (*   the enabled ones is valid                              *)
  config,      (* noOfImages_ of the Configurator, and whether it has read *)
  post,        (* GDPostChannel: posting is on                             *)
  startEvent,  (* startEventId_ is signalled                               *)
  stopEvent,   (* stopEventId_ is signalled                                *)
  buffers,     (* noOfImages_: images in each of buffer1_ .. reset8_       *)
  pc,          (* where the task is                                        *)
  mine,        (* the parameters the task has read                         *)
  images,      (* the task's images                                        *)
  loaded,      (* the task's own buffers are allocated                     *)
  counter,     (* the task's counter, the number of the frame              *)
  part,        (* the next piece of the frame to send                      *)
  held,        (* the buffer sendImage() is reading                        *)
  socket,      (* what sendSocket_ points to                               *)
  running,     (* running_ of the DataSender                               *)
  sent,        (* history: the pieces sent since the task last slept       *)
  disturbed    (* history: since the last start made while the task slept, *)
               (*   a file was read, a parameter written or a start made   *)
               (*   before the task slept again                            *)

events == <<startEvent, stopEvent>>
sender == <<socket, running>>
task   == <<mine, images, loaded, counter, part>>
vars   == <<params, config, post, events, buffers, pc, task, held, sender, sent, disturbed>>

Task == 1                       (* the channel that has a task *)
NoBuffer == [own |-> TRUE, live |-> TRUE, index |-> 0, of |-> 1]
Alive == pc # "crashed"

(* The task waits for a start and none is on its way. *)
Asleep == pc = "idle" /\ ~startEvent[Task]
Disturbs == disturbed' = (disturbed \/ ~Asleep)

-----------------------------------------------------------------------------
(* writeInt32() and writeOctet(), under the port lock *)

WriteParameter ==
  /\ Alive
  /\ params' \in Settings
  /\ Disturbs
  /\ UNCHANGED <<config, post, events, buffers, pc, task, held, sender, sent>>

(* A file that cannot be opened leaves the Configurator as it was. *)
RawFileRead ==
  /\ Alive
  /\ \E n \in FileImages : config' = [read |-> TRUE, images |-> n]
  /\ Disturbs
  /\ UNCHANGED <<params, post, events, buffers, pc, task, held, sender, sent>>

Signalled(event, channels) == [c \in 1 .. Channels |-> event[c] \/ c \in channels]

(* freeImageBuffers(): a buffer that is being sent goes with the others. *)
Freed(b) == [b EXCEPT !.live = @ /\ b.own]

(* The sixteen arrays are filled with as many images as the file has.      *)
setupImageBuffers == buffers' = config.images

(* Free the images, fill them again from the file and start the enabled    *)
(* channels, unless the geometry of one is refused.  With no file read the *)
(* data pointers of the Configurator are not initialised: the program      *)
(* dies, or goes on with whatever they point to.                           *)
StartPosting ==
  /\ Alive /\ params.valid
  /\ held' = Freed(held)
  /\ setupImageBuffers
  /\ post' = [c \in 1 .. Channels |-> post[c] \/ c \in params.enabled]
  /\ startEvent' = Signalled(startEvent, params.enabled)
  /\ \/ pc' = pc
     \/ ~config.read /\ pc' = "crashed"
  /\ disturbed' = ~Asleep
  /\ UNCHANGED <<params, config, stopEvent, task, sender, sent>>

Posting == {c \in 1 .. Channels : post[c]}

(* Mutant of StopPosting: the buffers are freed. *)
StopPostingFrees ==
  /\ Alive /\ Posting # {}
  /\ stopEvent' = Signalled(stopEvent, Posting)
  /\ post' = [c \in 1 .. Channels |-> FALSE]
  /\ held' = Freed(held) /\ buffers' = 0
  /\ UNCHANGED <<params, config, startEvent, pc, task, sender, sent, disturbed>>

StopPosting ==
  /\ Alive /\ Posting # {}
  /\ stopEvent' = Signalled(stopEvent, Posting)
  /\ post' = [c \in 1 .. Channels |-> FALSE]
  /\ UNCHANGED <<params, config, startEvent, buffers, pc, task, held, sender, sent,
                 disturbed>>

-----------------------------------------------------------------------------
(* DataSender: the socket of the task *)

(* It may fail before it makes a socket, in opening it or in setting its   *)
(* buffer.                                                                 *)
setupSocket(works) ==
  IF works THEN socket' = "open" /\ running' = TRUE
           ELSE socket' \in {socket, "unopened", "open"} /\ UNCHANGED running

(* Only a socket that was set up is closed and deleted. *)
shutdownSocket ==
  /\ socket' = IF running THEN "none" ELSE socket
  /\ running' = FALSE

-----------------------------------------------------------------------------
(* posting_task() *)

(* The head of the loop: the flag is read under the lock. *)
Check ==
  /\ pc = "check"
  /\ pc' = IF post[Task] THEN "poll" ELSE "shutdown"
  /\ UNCHANGED <<params, config, post, events, buffers, task, held, sender, sent, disturbed>>

(* Mutant of Shutdown: a start that is still signalled is cleared. *)
ShutdownClears ==
  /\ pc = "shutdown"
  /\ shutdownSocket
  /\ loaded' = FALSE /\ sent' = <<>>
  /\ startEvent' = [startEvent EXCEPT ![Task] = FALSE]
  /\ pc' = "idle"
  /\ UNCHANGED <<params, config, post, stopEvent, buffers, mine, images, counter, part,
                 held, disturbed>>

(* Close the socket if it was set up, free the task's own images. *)
Shutdown ==
  /\ pc = "shutdown"
  /\ shutdownSocket
  /\ loaded' = FALSE /\ sent' = <<>>
  /\ pc' = "idle"
  /\ UNCHANGED <<params, config, post, events, buffers, mine, images, counter, part,
                 held, disturbed>>

WaitForStart ==
  /\ pc = "idle" /\ startEvent[Task]
  /\ startEvent' = [startEvent EXCEPT ![Task] = FALSE]
  /\ pc' = "read"
  /\ UNCHANGED <<params, config, post, stopEvent, buffers, task, held, sender, sent,
                 disturbed>>

ReadParameters ==
  /\ pc = "read"
  /\ mine' = params
  /\ counter' = params.subFrame
  /\ pc' = "load"
  /\ UNCHANGED <<params, config, post, events, buffers, images, loaded, part, held, sender,
                 sent, disturbed>>

(* Mutant of LoadImages: the last image is left out. *)
LoadImagesOneShort ==
  /\ pc = "load"
  /\ images' = config.images - 1 /\ loaded' = TRUE
  /\ pc' = "setup"
  /\ UNCHANGED <<params, config, post, events, buffers, mine, counter, part, held, sender,
                 sent, disturbed>>

(* The task's own images and reset images, out of the Configurator. *)
LoadImages ==
  /\ pc = "load"
  /\ images' = config.images /\ loaded' = TRUE
  /\ pc' = "setup"
  /\ UNCHANGED <<params, config, post, events, buffers, mine, counter, part, held, sender,
                 sent, disturbed>>

(* If the socket cannot be set up the posting is called off.  Then a sleep *)
(* until the second is full.                                               *)
SetupSocket ==
  /\ pc = "setup"
  /\ \E works \in BOOLEAN :
       /\ setupSocket(works)
       /\ post' = IF works THEN post ELSE [post EXCEPT ![Task] = FALSE]
  /\ pc' = "poll"
  /\ UNCHANGED <<params, config, events, buffers, task, held, sent, disturbed>>

(* The flag is read once more, without the lock. *)
Poll ==
  /\ pc = "poll"
  /\ \/ /\ ~post[Task] /\ pc' = "check"
        /\ UNCHANGED <<counter, part>>
     \/ /\ post[Task] /\ counter < MaxCounter
        /\ counter' = counter + (IF mine.temporal THEN Stride ELSE 1)
        /\ part' = 1 /\ pc' = "send"
  /\ UNCHANGED <<params, config, post, events, buffers, mine, images, loaded, held, sender,
                 sent, disturbed>>

(* The pieces of a frame: the image and the reset data of the next frame,  *)
(* in temporal mode tile by tile, numbered for the frame they belong to.   *)
Parts == IF mine.temporal THEN 2 * Tiles ELSE 2

(* Mutant of Piece: the reset data is numbered one further, not Stride. *)
PieceNextNumber(k) ==
  IF mine.temporal
    THEN LET n == IF k <= Tiles THEN counter ELSE counter + 1 IN
         [reset |-> k > Tiles, number |-> n, index |-> n % images, sub |-> (k - 1) % Tiles]
    ELSE [reset |-> k = 2, number |-> counter + k - 1, index |-> counter % images,
          sub |-> mine.subFrame]

Piece(k) ==
  IF mine.temporal
    THEN LET n == IF k <= Tiles THEN counter ELSE counter + Stride IN
         [reset |-> k > Tiles, number |-> n, index |-> n % images, sub |-> (k - 1) % Tiles]
    ELSE [reset |-> k = 2, number |-> counter + k - 1, index |-> counter % images,
          sub |-> mine.subFrame]

(* sendImage() is called with a pointer into the images *)
SendBegin ==
  /\ pc = "send" /\ images > 0
  /\ held' = [own |-> ~mine.temporal, live |-> TRUE, index |-> Piece(part).index,
              of |-> IF mine.temporal THEN buffers ELSE images]
  /\ sent' = Append(sent, Piece(part))
  /\ pc' = "sending"
  /\ UNCHANGED <<params, config, post, events, buffers, task, sender, disturbed>>

(* unless there is no image to divide by: a start before the task has ever *)
(* looked at the flag makes it post without reading anything.              *)
DivideByZero ==
  /\ pc = "send" /\ images = 0
  /\ pc' = "crashed"
  /\ UNCHANGED <<params, config, post, events, buffers, task, held, sender, sent, disturbed>>

(* It returns when the last packet is sent. *)
SendEnd ==
  /\ pc = "sending"
  /\ held' = NoBuffer
  /\ IF part < Parts THEN part' = part + 1 /\ pc' = "send"
                     ELSE part' = part /\ pc' = "finish"
  /\ UNCHANGED <<params, config, post, events, buffers, mine, images, loaded, counter, sender,
                 sent, disturbed>>

(* The number of images is read as it now is, the image mode is the task's.*)
IsLast ==
  \/ mine.imageMode = "single" /\ counter = 1
  \/ mine.imageMode = "multiple" /\ counter >= params.numImages

FinishFrame ==
  /\ pc = "finish"
  /\ pc' = IF IsLast THEN "complete" ELSE "wait"
  /\ UNCHANGED <<params, config, post, events, buffers, task, held, sender, sent, disturbed>>

Complete ==
  /\ pc = "complete"
  /\ post' = [post EXCEPT ![Task] = FALSE]
  /\ pc' = "check"
  /\ UNCHANGED <<params, config, events, buffers, task, held, sender, sent, disturbed>>

(* The wait for the next frame's time, which a stop cuts short. *)
WaitForStop ==
  /\ pc = "wait"
  /\ stopEvent' = [stopEvent EXCEPT ![Task] = FALSE]
  /\ pc' = "check"
  /\ UNCHANGED <<params, config, post, startEvent, buffers, task, held, sender, sent,
                 disturbed>>

(* Nothing runs in a program that has died. *)
Crashed == pc = "crashed" /\ UNCHANGED vars

-----------------------------------------------------------------------------

Init ==
  /\ params = Defaults
  /\ config = [read |-> FALSE, images |-> UnreadImages]
  /\ post = [c \in 1 .. Channels |-> FALSE]
  /\ startEvent = [c \in 1 .. Channels |-> FALSE]
  /\ stopEvent = [c \in 1 .. Channels |-> FALSE]
  /\ buffers = 0
  /\ pc = "check"
  /\ mine \in Settings  (* not initialised *)
  /\ images = 0 /\ loaded = FALSE /\ counter = 0 /\ part = 1
  /\ held = NoBuffer
  /\ socket = "none" /\ running = FALSE
  /\ sent = <<>> /\ disturbed = FALSE

Port == WriteParameter \/ RawFileRead \/ StartPosting \/ StopPosting

PostingTask ==
  \/ Check \/ Shutdown \/ WaitForStart \/ ReadParameters \/ LoadImages \/ SetupSocket
  \/ Poll \/ SendBegin \/ DivideByZero \/ SendEnd \/ FinishFrame
  \/ Complete \/ WaitForStop

Next == Port \/ PostingTask \/ Crashed

Spec == Init /\ [][Next]_vars

(* The task is a thread that the scheduler runs when nothing blocks it; a  *)
(* user need not do anything.                                              *)
FairSpec == Spec /\ WF_vars(PostingTask)

-----------------------------------------------------------------------------
(* Properties *)

PCs == {"check", "shutdown", "idle", "read", "load", "setup", "poll", "send", "sending",
        "finish", "complete", "wait", "crashed"}

(* The type of the variables; the task has images to divide by whenever it *)
(* sends (counter%images).                                                 *)
TypeOK ==
  /\ params \in Settings /\ mine \in Settings
  /\ config \in [read : BOOLEAN, images : Nat \ {0}]
  /\ post \in [1 .. Channels -> BOOLEAN]
  /\ startEvent \in [1 .. Channels -> BOOLEAN]
  /\ stopEvent \in [1 .. Channels -> BOOLEAN]
  /\ buffers \in Nat /\ images \in Nat /\ counter \in Nat /\ part \in Nat \ {0}
  /\ pc \in PCs
  /\ loaded /\ pc \notin {"shutdown", "idle", "read", "load", "crashed"} => images # 0
  /\ loaded \in BOOLEAN /\ running \in BOOLEAN /\ disturbed \in BOOLEAN
  /\ held \in [own : BOOLEAN, live : BOOLEAN, index : Nat, of : Nat]
  /\ socket \in {"none", "unopened", "open"}
  /\ sent \in Seq([reset : BOOLEAN, number : Nat, index : Nat, sub : Nat])

(* When the user starts only when the task sleeps, and writes parameters   *)
(* and reads files only then, what sendImage() reads has not been freed, is*)
(* inside the images of the file, and goes to a socket that is open,       *)
(* through stops at any point and sockets that cannot be set up; and the   *)
(* program dies only of a start with no file read.  Nothing but that       *)
(* discipline keeps freeImageBuffers() from the sender's images.           *)
SendsSafely ==
  ~disturbed =>
    /\ pc = "sending" =>
         /\ held.live /\ held.index < held.of
         /\ held.own => loaded
         /\ running /\ socket = "open"
    /\ pc = "crashed" => ~config.read

(* Under the same discipline, what is sent between a start and the end of  *)
(* the posting is what the server needs to correct every image but the     *)
(* first: its reset data was sent before it, under the same number and     *)
(* sub-frame, in temporal mode out of the same image of the file.  No piece*)
(* is sent twice, and an acquisition of several images ends at the first   *)
(* number that reaches GDNumImages, whatever stops and starts came before. *)
RoundInOrder ==
  ~disturbed =>
    \A i \in 1 .. Len(sent) :
      LET p == sent[i]  Before == {sent[j] : j \in 1 .. i - 1} IN
      /\ p \notin Before
      /\ ~p.reset /\ p.number # sent[1].number =>
           \E q \in Before : /\ q.reset /\ q.number = p.number /\ q.sub = p.sub
                             /\ mine.temporal => q.index = p.index
      /\ ~p.reset /\ mine.imageMode = "multiple" =>
           \A q \in Before : ~q.reset /\ q.number # p.number => q.number < params.numImages

(* The task obeys: it goes back to sleep after a stop, a completion or a   *)
(* socket that could not be set up, unless it is started again, and it     *)
(* never sleeps through a start: one that comes after it has seen that     *)
(* there is nothing to post, and before it waits, is not lost.             *)
TaskObeys ==
  /\ (Alive /\ ~post[Task]) ~> (pc \in {"idle", "crashed"} \/ post[Task])
  /\ (pc = "idle" /\ post[Task]) ~> pc # "idle"

=============================================================================
