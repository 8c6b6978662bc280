# Percival detector: a TLA+ development of the image server

The repository is the control system of a prototype of the Percival X-ray
detector: an EPICS areaDetector driver, an image server that receives UDP
packets and rebuilds frames, a generator that sends such packets in place of
the detector, and a configurator that prepares the generator's data.  All code
modelled here is in `src/percivalApp/src/`; file names below are relative to
it.  There is no design document: the comments of the code and its test
programs are what the code says of itself.

## 1. Inventory

### The parts and how they interact

```
 asynSingleProcessGenerator --> DataSender    --UDP--> DataReceiver (io thread)
        ^ files                                            | imageReceived(), timeout()
 Configurator                                              v
                    ADPercivalDriver <--callbacks--  PercivalServer
                     port thread                      frame thread, reset thread
                     plugins, NDArrayPool             PercivalPacketChecker x2
                                                      PercivalSubFrame x8 / PercivalBufferPool
```

* **PercivalPacketChecker.**  State: one flag per packet of every sub-frame in
  a flat array, a counter of flags set, the count at which the frame is full.
  Operations: `init`, `set`, `reset`, `resetAll`, `check`, `getCount`,
  `checkAll`.  Correct if the counter, which alone decides "frame complete",
  always agrees with the flags.
* **PercivalBufferPool, PercivalSubFrame, PercivalBuffer.**  State: a stack of
  free buffers, and the list of all buffers.  Operations: `allocate`, `free`
  (which zeroes), behind a mutex of the pool.  Correct if no buffer ever has two
  users and a buffer handed out is blank.
* **DataReceiver.**  State: an io service with its thread, a socket, a deadline
  timer, `acquiring_`, `recvWatchdogCounter_`.  Operations: start, stop,
  `handleReceive`, `watchdogHandler`.  One io thread runs both handlers, one at
  a time; `stopAcquisition` comes from another thread.  Correct if the watchdog
  fires in silence and only then.
* **PercivalServer.**  State: what is expected next, the number of the frame
  being collected, the two packet checkers, the buffers being filled, those
  handed over, the map of reset frames that wait for their image.  Threads: the
  receiver's io thread (`imageReceived`, `timeout`), a frame thread and a reset
  thread in temporal mode, a thread for every frame in spatial mode.  Locks:
  `access_`, `frameAccess_`, `resetAccess_`, each with a condition variable for
  the last two.  Correct if every frame closed reaches the client once, with its
  own packets, corrected by the reset frame of its own number.
* **ADPercivalDriver.**  State: ADStatus, the counter of images, `pSubFrame_`.
  The port thread handles `writeInt32` under the port lock, the server's frame
  thread calls `imageReceived` (lock, count, unlock, plugins, lock, stop when
  complete), a task copies statistics twice a second.  Correct if start and stop
  leave nothing behind, nothing destroyed is used, no more images are published
  than asked for, and nobody waits for ever.
* **asynSingleProcessGenerator.**  A port with eight channels, of which only
  the first has a task: it sends the packets of all eight sub-frames, the image
  with number n and then the reset data for number n + 8 (in spatial mode one
  sub-frame, and n + 1).  State: the parameters, the posting flags, start and
  stop events that remember one signal, sixteen arrays of images filled anew at
  every start, the task's own images, counter and socket.  Correct if what is
  sent has not been freed and is numbered as the server needs it, and if the
  task obeys every start and stop.
* **DataSender, PercivalPacketCounter.**  The sender cuts an image into packets
  with a header each; sender and receiver keep the last headers in a ring, to
  report them.  Correct if the packets are those the server counts and places.
* **Configurator.**  The description of the detector (pixels per chip, chips
  per block, blocks per stripe, stripes per image), raw test images, the
  scrambled images a detector would send, the table that leads back, and the
  file with all of them.  One object writes files, one in the driver and one in
  the generator read them.  Correct if descrambling undoes scrambling.
* **The way of an image.**  A file written by the configurator is read by the
  driver, which gives size and tables to the server, and by the generator, which
  sends sections of it.  Nothing but the user's hand keeps coordinates and
  packet sizes of both sides equal.  Correct if the client gets the raw image.
* The rest is output, configuration or dead code: `CPUstats`, `PercivalDebug`,
  the database, screens and scripts, the stand-alone tests, and
  `asynTemporalGeneratorDriver.cpp` and `asynGeneratorDriver.cpp`, which the
  `Makefile` does not compile.

`PROJECT.json` lists every component with its status and 40 hazards at their
lines.  What is hard in this code:

* **hand-over between threads** by shared pointers and condition variables that
  are waited for without a predicate (`PercivalServer.cpp:1016`, `:831`);
* **loss, repetition, reordering and silence of packets**, each of which changes
  the state of a half-collected frame;
* **two frame streams through one io thread**, with pools and a map in common
  and a different lock each;
* **destruction**: a stop deletes the receiver and the sub-frames while the io
  thread, the frame thread and the reset thread may run; nothing joins them, and
  between the two deletions there is a sleep of one second;
* **buffers freed by a start** under the task that sends them, signals that are
  remembered, and parameters that are reread only after a sleep;
* **agreement by arithmetic**: sender, checker, server and configurator each
  compute packet numbers, offsets and addresses on their own;
* **lock order** between port thread, frame thread, io thread and plugins.

## 2. Modules

| module | models | kind |
|---|---|---|
| `PercivalPacketChecker` | `PercivalPacketChecker.cpp`, all of it | component |
| `SubFrameBanks` | `PercivalSubFrame.cpp`, `PercivalBufferPool.cpp`: the eight pools taken together | data structure |
| `TemporalPackets` | what both temporal paths share: packets, flags, error counts | data structure |
| `TemporalFrames` | `PercivalServer.cpp`: `temporalFramePacketReceived`, `timeout`, `processTemporalFrame` | component |
| `TemporalResets` | `temporalResetPacketReceived`, `processTemporalResetFrame` | component |
| `TemporalServer` | both, one io thread, common pools, `resetFrameMap_` | composition |
| `SpatialFrames` | `framePacketReceived`, `resetPacketReceived`, `processFrame`, `timeout` | component |
| `ReceiveWatchdog` | `DataReceiver.cpp`: timer, counter, `handleReceive`, stop | component |
| `AcquisitionLifecycle` | start, stop and completion: `ADPercivalDriver.cpp`, `PercivalServer.cpp`, `DataReceiver.cpp` | component |
| `Configurator` | `Configurator.cpp`: setters, raw image, scrambling, table, file, sections | algorithms |
| `Unscramble` | `unscramble`, `unscrambleToFull` of the server, the realigned table of the driver | algorithms |
| `DataSender` | `DataSender.cpp` (packets, headers), `PercivalPacketCounter.cpp` | algorithms |
| `ImageChain` | from the configurator's driver through file, driver, generator, packets and server to the client; sub-frame registry | composition |
| `FrameGenerator` | `asynSingleProcessGenerator.cpp`: `writeInt32`, posting task, events, image buffers; the sender's socket | component |
| `FrameDelivery` | the promise of `PercivalServer.h:11-12`, in order | abstract |
| `FrameDispatch` | the same promise without an order, for spatial mode | abstract |
| `MC*` | parameters of `AcquisitionLifecycle`, `FrameGenerator` and `ImageChain` for TLC | instances |
| `*_proofs` | theorems and their proofs | proofs |

`TemporalFrames` and `TemporalResets` EXTEND `TemporalPackets`, which EXTENDS
`SubFrameBanks`; `TemporalServer` takes both with INSTANCE, so that their actions are conjoined, never rewritten.  `ImageChain` EXTENDS
`PercivalPacketChecker`, `DataSender` and `Unscramble` (which EXTENDS
`Configurator`): its packet handler calls the checker's own actions.
`FrameDelivery` and `FrameDispatch` are INSTANCEd by the modules that implement
them, and their `Spec` or `FairSpec` is a PROPERTY there.

### How state and actions correspond to the code

Variables carry the names of the members, without the underscore.  "map" in
`PROJECT.json` gives the lines of every definition.

* *Banks.*  The server takes, swaps and frees the buffers of its eight
  sub-frames together, so eight buffers are one "bank" with a slot for each
  packet of each sub-frame; a slot holds the mark of the packet copied into it.
  `NumSlots` is the number of packets of a frame.
* *The io thread.*  A packet handler is cut where it takes or releases a lock
  another thread uses: `FirstPacket`, `FramePacket`, `EarlyPacket` or
  `LatePacket` up to the first lock, `SwapBuffers` under `frameAccess_`, then
  `NotifyFull` or `NotifyPart` with everything up to the return.  `access_` is
  held throughout, and only the io thread takes it while an acquisition runs.
* *The frame thread.*  `worker` is "relock" (about to take `frameAccess_`),
  "waiting" in the condition variable, "woken", or "holding" the lock.
  `notify_one` is lost unless it is waiting; a wake-up may be spurious.
* *The reset path* copies its packets without a lock, so reading the pointer of
  the bank (`FlagPacket`) and the copy (`CopyPacket`) are separate steps, and it
  is the reset thread that exchanges the banks (`ExchangeBuffers`).
* *raise(SIGINT)* after a lost packet ends the process, or returns if a handler
  is installed: `SigintFatal` chooses.
* *Spatial mode* handles a packet in one step, because its frame threads share
  with it only the pool and `resetFrameMap_`.  A frame thread looks its reset
  frame up and erases it in two steps, outside any lock, as the code does.
  `NDArrayPool` is external: it gives any free array, as it was left.
* *The watchdog* has a clock.  `Delay` is how late the io thread may be.
* *The life cycle* keeps a state for the receiver and the io thread of every
  start, since nothing joins the thread.  A packet may close an image, a reset
  frame or nothing; the frame thread and the reset thread both exchange and copy
  buffers of the sub-frames and both may wake up without a notification.  The
  port lock, the lock of a plugin, `access_`, `frameAccess_` and `resetAccess_`
  are modelled; a use of something destroyed sets `fault` and stops the model,
  for nothing can be said of undefined behaviour.  `Sleep` waits for nobody: it
  may be over however far, or little, the other threads have come, and `late`
  records whether a frame was still in work at its end.
  The plugin is external: it takes its lock and then calls the driver.
* *The configurator.*  An object is a record, an image a function of addresses;
  the pair of setters for x and y is one operator with the axis as a parameter.
  Gains are the ones every generated file has (8 and 1024 for all ADCs, stage
  gain 1, offsets 0), so the value of a pixel does not depend on its ADC.
* *The image chain.*  A start, a packet handler up to the check, the check with
  the hand-over, and the work of the frame thread are one step each: the
  interleavings inside them are the subject of the server modules.  A frame is
  on its way at a time, its packets come in any order and repeatedly.  What
  would be written outside a buffer is dropped, and `PayloadInside` says it never
  happens.  The sub-frames are cut, and unscrambled, one after the other in the
  order of their ids, as in the code: a recursive function of the id.  Frames
  are numbered one by one; that the generator counts by eights in temporal mode
  is in `FrameGenerator`.  An arrangement may leave a margin of the image to no
  sub-frame; `TemporalImageIsOriginal` speaks of those that leave none
  (`Covered`).
* *The generator.*  `pc` is where the posting task is between two points where
  the port thread can act; it sends a frame piece by piece (`Piece`), and
  `held` is the buffer it is sending: whether it is the task's own or the
  port's, whether a start has freed it, and of how many images.  A start with no
  file read, and a division by a number of images that is zero, lead to
  "crashed".  `disturbed` is history: the user did something while the task did
  not sleep.

Environment: `Ordered` (in temporal mode, packets may be lost but neither repeat
nor overtake; in spatial mode, no packet of a closed frame comes once a new one is
expected, while within a frame packets may be lost, repeat or overtake),
`KeepsUp` (a frame is closed only when the worker of its own path waits again,
that is, the frames of a path are spaced more widely than their processing
takes), `Spaced` (no reset packet arrives between the notification of the reset
thread and its exchange of the buffers).  They are constants of the modules,
TRUE or FALSE in each run.

`KeepsUp` says nothing of the other path and nothing of packets that close no
frame.  Reset packets arrive while the frame thread works on an image, image
packets while the reset thread files a reset frame, both workers have banks at
once, and an image may be handed over before its reset frame is filed: the
generator sends the reset data for image n + 8 straight after image n
(`asynSingleProcessGenerator.cpp:973-981`).  `Spaced` is what the generator's
schedule gives: between the reset data of two numbers it sends an image of eight
sub-frames with pauses (`:943-981`), which is more than a thread needs to wake
up.  Nothing in the server waits for that thread, so without `Spaced`
`FilesEachOnce` and `CorrectedByOwn` are false, as TLC finds (section 4).  The
life cycle has no such constant: its properties hold for threads of any speed.

## 3. What the runs check

Every run is exhaustive within its bounds.

| run | what it shows | bounds |
|---|---|---|
| `ImageChain` | whatever the geometry, sub-frames, packet size and order of packets: the checker's counter agrees with its flags; registry and mask agree; each packet has a flag and fits; a frame is handed over exactly when all its packets are there; the client gets the raw image, in temporal and spatial mode, for the three settings of descramble; the packet counter reports the last headers | 8x4 pixels in 2 stripes, 2 sub-frames in columns or rows, packets of 6 or 8 pixels (up to 3 per sub-frame, the last shorter or not), 1 call of a setter, 2 frames, ring of 4 |
| `ReceiveWatchdog` | a timeout only after a silent period; no silence beyond two periods and two delays | period 3, delay 1, clock to 14 |
| `TemporalFrames_paced` | packets lost, repeated, reordered, and timeouts, worker keeps up: a complete frame holds its own packets; an incomplete one its own and blanks, unless a timeout abandoned a frame; banks have one user; `FrameDelivery`, with liveness | frames 0-2, 2 packets each, 6 arrivals, 1 timeout |
| `TemporalFrames_ordered` | packets lost, timeouts, late worker, spurious wake-ups: frames are delivered in the order of their numbers | frames 0-3, 8 arrivals, 1 timeout, 1 wake-up |
| `TemporalServer_paced` | both workers at work at once: every reset frame closed is filed once, in order and unchanged, and in the end; the image is corrected with the whole reset frame of its number, or with none; with it if a later reset frame was closed too; the paths share no bank | frames 0-2, 6 arrivals of each kind, 1 timeout |
| `TemporalServer_racing` | threads in any order and spurious wake-ups: a reset frame corrects one image at most; until images are handed over the banks of the reset path have one user | frames 0-1, 3 arrivals of each kind, 1 wake-up of each thread |
| `SpatialFrames_ordered` | a thread per frame, in any order: no buffer has two users, the reset frame used is that of the number, whole, and is used if it was complete before the image; `FrameDispatch`, with liveness | frames 0-2, 4 arrivals of each kind, 1 timeout |
| `Acquisition` | user and frame thread stop, with a sleep that waits for nobody: sub-frames that are released are met only by a frame still in work after the sleep or after a spurious wake-up; never more images than asked for; no receiver left behind; every callback returns | single, and multiple of 2 images; 2 starts, 2 frames, any number of reset frames, 1 spurious wake-up |
| `FrameGenerator` | starts, stops, parameters, files and failing sockets at any time: a user who acts while the task sleeps never makes it send what is freed, outside the images or on a closed socket; reset data precedes the image of its number; the task goes to sleep after a stop and sleeps through no start | 2 channels, 2 sub-frames, 5 settings, file of 3 images, counter below 4 |
| `TemporalFrames_overtaken` | violation, see below | frames 0-3, 6 arrivals |
| `TemporalServer_resumed` | violation, see below | frames 0-1, 3 arrivals, 1 timeout |
| `Acquisition_stopped` | violation, see below | multiple of 1 image, 1 start, 1 frame |

*Why the bounds are enough.*  Two packets per frame are the least for which a
frame can be incomplete; a packet's slot matters only in being flagged or not.
Three frame numbers are one below, equal to and above the number being
collected, all the code compares.  Six arrivals close three frames, so that a
bank is taken, handed over, released and taken again; a fourth arrival in
spatial mode closes a second frame while the first is being processed and a
third is begun.  The handlers keep no memory of a timeout but the fields
it resets, so one timeout reaches every state a second would.  Two starts are the
least that show something left over from the first; two frames are the two
images asked for, or one more than a single one, and frames from which a stop of
the frame thread, a stop of the user and a start in between can each take one
in work; a spurious wake-up hits either thread.  What more starts, frames and
wake-ups would show, the theorems of section 4 say.  The watchdog's clock covers
four periods.
In `ImageChain` two stripes of two chips are the least for which the table is
not the identity within a stripe and stripes can be cut by sub-frames; the raw
image has values of three of the four gains; packets of 6 pixels leave a
remainder and packets of 8 do not, and a setting that halves the image makes
frames of one packet per sub-frame; four headers are fewer than two frames have
packets, so the ring comes round.
In `FrameGenerator` two channels are one with a task and one without, three
images and steps of two do not divide each other, so that the index of an image
is not its number, and the counter allows two frames of either mode, which
is what a reset frame and its image need.  The packet checker is no longer run
on its own: `ImageChain` drives it with real packets, and the theorems
below hold for every sequence of its operations.

*Fairness.*  `FairSpec` asks that each thread that can move does (WF on its
steps) and nothing of the network, the user, timers or spurious wake-ups.  WF
suffices for the frame locks because in every run with a liveness property they
are free infinitely long once the other thread is blocked or waiting.  `Publish`
has strong fairness: the plugin's lock is taken and released by others again and
again, and the mutex gives it to a thread that keeps asking.
The posting task is a thread like the others (WF on its steps together); in
`FrameGenerator` deadlock is checked, for its port thread can always act.
`CHECK_DEADLOCK FALSE` is set where the bounds, a fatal SIGINT, or the end of a
stopped acquisition really end the behaviour.

### What the code does differently from what it says

1. `TemporalFrames_overtaken`: `PercivalServer.h:11-12` promises a callback for
   each frame reconstructed or considered corrupt.  If a frame is closed before
   the frame thread waits again, the notification is lost and the bank and
   the number handed over are overwritten (`PercivalServer.cpp:987-996`): a frame
   is never delivered and its bank leaks.
2. `TemporalServer_resumed`: `PercivalServer.cpp:1085-1088` resets the frame
   counters after a timeout because the sender may have been stopped and
   started.  Only those of the image path are reset (`:1093-1096`): if the
   link was lost inside a reset frame, reset packets with lower numbers are
   counted late and dropped.
3. `Acquisition_stopped`: while the user's stop, which holds the port lock to its
   end, deletes the receiver, the io thread has the last packet of the last image
   in hand.  It closes the frame, and the frame thread waits for the port lock at
   the beginning of the callback (`ADPercivalDriver.cpp:409`).  After the stop it
   counts and publishes the image, finds the acquisition complete without looking
   at ADStatus (`:493-496`), and stops a receiver that `PercivalServer.cpp:377` deleted;
   `DataReceiver.cpp:248-251` is written for that call, but there is no object.

In the models too, and of consequence, but without a run of their own:

* A reset packet that arrives between the notification of the reset thread and
  its exchange of the buffers is copied into the frame just closed
  (`PercivalServer.cpp:787`, `:802`, `:831-833`), which is then not "the original
  raw frame" of `:858`.  `Spaced` excludes it.
* Nothing joins the io thread: `PercivalServer.cpp:377` deletes the receiver with
  its io service while `run()` may not have returned
  (`fault = "deletedReceiverUsed"`).
* After the last image it is the frame thread that waits a second "to let
  processing finish" (`ADPercivalDriver.cpp:497`), with `frameAccess_` held.  An
  io thread that hands the next frame over (`PercivalServer.cpp:984`) is blocked
  for that second, however quick, and then exchanges buffers of sub-frames that
  have been deleted.

Seen while modelling and kept in the models, but contradicted by no text of the
repository, and therefore no findings: in temporal mode the generator counts by
eights, so "single" (`counter == 1`, `:1022`) is not met from sub-frame 0 and
"multiple" ends by number and not by images; `posting_task` frees its image
buffers but not `resetBuffer` (`:807-813`, `:882`); spatial reset data for
number n + 1 is taken from index n (`:945`); a start before the task's first
look posts with uninitialised parameters; the index of a sub-frame is used where
its ID is needed (`ADPercivalDriver.cpp:1055`, `PercivalServer.cpp:94-95`).

## 4. What is proved

TLAPS proves these for every value of the constants (frames, packets, slots,
starts, periods, geometries), so for a frame of thousands of packets and for all
of 2^16 numbers.  Every safety property that a passing run checks is a theorem,
under the switches of that run where it has some:

| run | theorems | hypotheses |
|---|---|---|
| `ImageChain` | `ImageChain_proofs`: `RegistryAgrees`, `PayloadsInside`, `CheckerInUse`, `ReportRight` | none |
| | `HandedOverOnTime`, `TemporalImageRight`, `SpatialImageRight` | `Numbered`, `Atomic(None)`; the last `WholeStripes` |
| `ReceiveWatchdog` | `TypeCorrect`, `SilenceNoticed`, `NoEarlyTimeout` | none |
| `TemporalFrames_paced` | `TypeCorrect`; `CompleteFrames`, `BuffersApart`, `PartialFrames`, `DeliveryRefined` | none; `Paced` |
| `TemporalFrames_ordered` | `FramesInOrder` | `Ordered` |
| `TemporalServer_racing` | `TakenOnce`, `ResetBuffersApart` | none |
| `TemporalServer_paced` | `TypeCorrect`; `BuffersApart`; `OwnReset`, `ResetsFiled`; `ResetIfAhead` | none; `KeepingUp`; `Fatal`; `Fatal`, `Ordered` |
| `SpatialFrames_ordered` | `TypeCorrect`; `BuffersApart`, `OwnResets`, `DispatchImplemented` | none; `Ordered` |
| `Acquisition` | `TypeCorrect`, `ReceiversDeleted`, `ImagesBounded`, `OnlyLateWork` | none |
| `FrameGenerator` | `TypeCorrect`, `Safe`, `Rounds` | none (the properties say what an undisturbed task is) |

`KeepingUp` is `KeepsUp /\ MaxSpurious = 0`, `Fatal` is
`KeepingUp /\ Spaced /\ SigintFatal`.  TLC finds `BuffersApart`, `OwnReset` and
`ResetsFiled` false as soon as one of their switches is dropped, with two or
three frames, and so `ResetIfAhead` without `KeepsUp`, `SigintFatal` or `Ordered`
or with a spurious wake-up; without `Spaced` TLC finds no violation of it, but
the proof uses it.  `FramesInOrder` needs `Ordered`.  For the others see below.

* `SubFrameBanks_proofs`: what `Allocate` and `Release` preserve (free banks
  are different, blank, and not the one in use).  Cited by the next two.
* `TemporalFrames_proofs`: `TypeCorrect` with no assumption on the pacing;
  `CompleteFrames`, `BuffersApart`, `PartialFrames` and the refinement
  `DeliveryRefined` (`TemporalFrames` implements `FrameDelivery!Spec`) for
  `Paced == KeepsUp /\ MaxSpurious = 0`.  Without this the second and fourth
  are false, as run `TemporalFrames_overtaken` shows.  Inductive
  invariant: the types; the *control* part, relating where both threads are,
  whether a frame is open and how many frames are handed and delivered; the banks
  being apart; *collected*: a flagged slot holds the number being
  collected; *owned*: the bank of the frame thread holds what was recorded when
  it was handed over; *clean*: without a timeout an unflagged slot of the bank
  being filled is blank or the frame's own, and free banks are blank.
  None of the invariants is inductive alone: a frame that completes has been
  correct since its first packet, and the bank the worker reads was
  filled two steps earlier.
  `FramesInOrder` needs `Ordered` only: the worker may be late and be woken for
  nothing.  Its invariant, *numbers grow*, relates four positions: the number
  handed over last, the number being collected, that of the packet at hand and
  the last packet of the network.  A timeout sets the number being collected
  back to zero, so what is preserved is that the next packet sets it to a
  number no smaller than those handed over.
* `TemporalServer_proofs`, for both paths on one io thread and one pool.
  With no assumption on the threads: `TypeCorrect`; `TakenOnce`, by *one each*
  (of every number, images corrected plus frames waiting in `resetFrameMap_` are
  at most the filings), which counts in logs that grow; `ResetBuffersApart`.
  For workers that keep up with their own path and are woken by notifications
  only (`KeepingUp`): `BuffersApart`.  Both workers may have banks at once, and a
  reset packet may be under way to a bank the reset thread has taken, so the
  invariant lists who has which: *in time* (from the closing of a frame to its
  notification the worker of that path waits), *owned apart* (the frame thread's
  bank is none that is being filled, and not free), *both apart* (nor the one
  the reset thread copies), *target apart* (the pointer the io thread has read
  for a copy is the bank being filled or the one just taken, never an image's).
  This stands in for the lock the code does not have.
  With reset frames spaced and a fatal SIGINT in addition (`Fatal`): `OwnReset`,
  by *ends at gap* (an incomplete frame is the last thing the server does),
  *reset collected* (flags say what is in the bank, from the exchange on; a bank
  that is closed, handed over or copied is whole and of the number published
  with it, while the next reset frame may be collected already) and *filed
  whole*.  With packets in order too: `ResetIfAhead`, by *image order* (what has
  been corrected is behind the last packet received, and no number is closed
  twice) and *reset order* (of the reset frames closed all but the last are in
  the map or used, and the last is there or on its way).  No image waits for the
  reset thread, so the last one closed is promised to none.
  `ResetsFiled` and `ImagesDelivered` are two refinements: the reset path, with
  its copy outside the lock and its next frame begun while the last is filed,
  implements `FrameDelivery!Spec` (`Fatal`), and so does the image path while
  the reset path takes packets and files frames on the same pool, with a
  watchdog that may go on after a gap (`KeepingUp`).
* `SpatialFrames_proofs`: `TypeCorrect` in any order of packets; `BuffersApart`,
  `OwnResets` and the refinement `DispatchImplemented` (`SpatialFrames`
  implements `FrameDispatch!Spec`) for `Ordered`, with any number of frame
  threads running in any order.  If a closed frame's packets come again, two
  threads can process frames of one number and take the same reset buffer, so
  `Ordered` is needed.  Inductive invariant: the types; *apart*, the
  pairwise form of `NoSharedBuffer` (what is filled, what waits in the map, what
  live threads hold, what is free); *not looked*: a thread that has not looked up
  its reset frame holds none; *one thread each*: the numbers of the threads are
  different and below that of the frame being collected, which is what keeps two
  threads from the same entry of the map.  On top of it *own*: flagged slots of
  the reset buffer hold the number collected, entries of the map and reset
  frames held are whole and of their number, and a filed reset frame waits until
  the thread of its number has looked; and *promised*: the raw buffer of a live
  thread holds what was closed, and what was delivered belongs to threads that
  ended.
* `ReceiveWatchdog_proofs`: `TypeCorrect`, `SilenceNoticed`, `NoEarlyTimeout`.
  Inductive invariant: where the timer is relative to now, that a positive
  counter means a whole silent period up to the next expiry, and a deadline for
  the next timeout.
* `AcquisitionLifecycle_proofs`: `TypeCorrect`, which includes that the two
  threads never stop at once; `ReceiversDeleted`; `OnlyLateWork`;
  `ImagesBounded`; all for any number of starts, images and wake-ups and threads
  of any speed.  Inductive invariant: the older receivers are deleted, the last
  one too when idle, and how far a stop has come determines the state of the
  receiver; the sub-frames are there exactly while the status says acquiring;
  *rest*: if nothing was in work when the sleep was over, nothing is until the
  next start, for no receiver is acquiring by then and work begins with a
  packet; *counting*: an image is published only after it is counted; *limit
  reached*: the frame thread, on its way from the last image to the stop, counts
  no other, and whatever wakes it afterwards it finds no sub-frames, which ends
  the model before it could count.
* `FrameGenerator_proofs`: `TypeCorrect`, `Safe` (`SendsSafely`) and `Rounds`
  (`RoundInOrder`), for any
  number of channels, sub-frames and images and any settings.  Inductive
  invariant of the first two: the types, and `Undisturbed`: a start that is
  signalled finds the
  task asleep, so the port's images are those of the file until the task has
  loaded its own, and from then on it is *prepared* (both hold equally many
  images, the socket is open) for as long as it may post.  The property
  alone says nothing of a task that is not sending yet.
  `Rounds` speaks of all pairs of pieces sent.  Its invariant, *round under
  way*, says how far the log has come: nothing is ahead of the place the task has
  reached in the current frame, and all the reset data of this frame (unless it
  is the first) and of the next one, up to that place, are in it.
* `ImageChain_proofs`, in four layers.
  - *Packet checker* (`TypeCorrect`, `CountCorrect`, `CompleteCorrect`), for
    every sequence of its operations.  Inductive invariant: the types and
    *counter = number of flags set*.  The arithmetic lemmas say that
    `parcel * packets + packet` is a bijection of positions and indices, which is
    what makes a flat array and a counter as good as the flags.
  - *Arithmetic*: `TableLeadsBack` and `TableIsPermutation`, for every
    geometry; `SettersKeepGeometry`.  Source and destination of a scrambling step
    are numbers in mixed radix with the same digits in another order (row, stripe,
    then chip and pixel or pixel and chip); a number determines its digits, so
    steps, sources and destinations correspond one to one.  Then `ValueRecovered`
    (what is decoded is the raw value without its three low bits) and
    `SubFrameRecovered` (a sub-frame cut out, encoded and unscrambled lands,
    decoded, where it came from).  The lemmas `RegionsApart` and
    `RegionsCover` say that the sub-frames of an arrangement share no point and
    leave none out, `RealignedInside` that the table `setupSpatialImage` makes is
    a permutation of the sub-frame's own addresses.
  - *The chain*.  `Assembly` is inductive with no hypothesis: the files hold what
    an object of consistent geometry wrote (*files sound*); the registry is an
    arrangement the driver accepted, the server has the size and table that
    belong to it, and the mask its bits; the checker has the dimensions the
    sender's packets need; the buffers have the size of their sub-frames; the
    packets on their way are all those of one frame.  It gives `RegistryAgrees`,
    `PayloadsInside` and `CheckerInUse` (the server never calls the checker
    outside its dimensions).  The heart is that the sender's and the server's
    count of packets, computed differently and for different sub-frames, agree.
    `Progress` adds that a flag is set exactly for the packets that have come,
    and that the io thread looks after each: `HandedOverOnTime`.  `Whole` adds
    that what has come is in its place, so that what is handed over are the
    sections of the image sent.  With the loop over sub-frames as a sequence of
    images, each of which paints one sub-frame and leaves the others alone
    (`Painted`), this gives `TemporalImageRight` and, with `RealignedInside`,
    `SpatialImageRight`.
  - *Packet counter*: `ReportRight`.  Invariant: the ring, read from its index
    on, holds the headers sent, for every length of the ring and also when a
    frame has more packets than it has entries.

  `Numbered` is `MaxPackets <= 65536`: the number of a packet has 16 bits, and
  with more packets to a sub-frame two would have one number.  The code
  computes the count without this limit, so it is a hypothesis of the
  theorems about contents and not an assumption of the module.
  `Atomic(None)` says that `None` is no function, so that no
  buffer or image is mistaken for none; for TLC a model value is such.
  `WholeStripes` is what the property speaks of: a sub-frame that cuts a stripe
  has indices outside its image (section 5).

The loops of the chain (the sub-frames of a frame, the headers of a packet
counter) are recursive functions over an interval.  What they compute is proved by
taking the least index at which the claim fails (`WFMin` of the library, in lemma
`Smallest`), for the library's induction theorems have an operator as parameter
and cannot be applied.  The modules use no RECURSIVE operator.

Assumptions on constants are the named ASSUMEs of the modules: naturals, more
than one packet per frame, a period above zero, switches that are Booleans; in
`ImageChain`, configurations that the configurator's own methods leave behind
(`Sound`) and up to eight sub-frames.

*Only model-checked*: liveness (`FairSpec` as implementation of
`FrameDelivery!FairSpec` and `FrameDispatch!FairSpec`, that is
`DeliversEachEventually` and `DispatchesEach`; `FilesEachEventually`,
`CallbackReturns`, `TaskObeys`), which with ENABLED is out of the prover's reach.
The runs that expect a violation are counterexamples and need no proof.

## 5. What is not modelled

* `resetFrameMap_` is used by two threads under different locks, in spatial mode
  under none.  Look-up, erase and insertion are single steps here; a
  `std::map` corrupted by two threads is undefined and not modelled.
* Frame numbers do not wrap at 2^16.  Packet numbers come from the sender; that
  they are within the frame is `PayloadInside`, not an assumption.
* Gains and offsets other than those of generated files, and rounding; the
  statistics task, CPU statistics, logging, EPICS records and screens; HDF5
  and XML.
* Failures of the receiver's socket and of memory: `setupSocket` of the receiver
  and `NDArrayPool::alloc` succeed.
* The pool of packet buffers, drawn from only at the start.
* In the life cycle, frames that miss packets (SIGINT ends the process), the
  watchdog and the threads of the spatial start; reading a configuration
  file while an acquisition runs (it frees tables in use); sub-frames whose
  IDs differ from their indices; sub-frames of spatial mode that cut a stripe,
  for which the realigned table points outside the image.
* Settings the setters accept and the code cannot use: a repeat or number of
  images of zero, a minimum above the maximum (`Usable`).
* The second overload of `unscrambleToFull`, which nobody calls, and the
  generators that are not compiled.
* The pace of the generator's frames, and its parameters for display.

## 6. Plan

Order of work, most important first.  Steps 1 to 13 are done.

1. Packet checker with proofs; buffer pools with lemmas.
2. Temporal image path, `FrameDelivery`, refinement; proofs.
3. Temporal reset path, and the composed server.
4. Spatial mode against `FrameDispatch`.
5. Watchdog with proofs.
6. Life cycle with proofs.
7. Generator with proofs, data sender.
8. Sub-frame registry, in the image chain.
9. Configurator and unscrambling with proofs, in the image chain.
10. Packet counter, in the image chain.
11. Proofs for spatial mode.
12. Proofs for the temporal server, both refinements included, for the order of
    frames and of the generator's pieces, and for the rest of the life cycle.
13. Proofs for the image chain as a state machine, from the file to the client.
14. *Further runs*, observed while modelling and worth a run each:
    * a frame closed incomplete is handed over at all when SIGINT is fatal
      (`PercivalServer.cpp:911-912` says it is processed);
    * `PartialIsOwn` after a timeout: packets of the abandoned frame stay in the
      buffers (`:1093-1096`);
    * spatial reset frames declared ready but not filed (`:506-507`);
    * an image counted before a user's stop is published in the next
      acquisition.
