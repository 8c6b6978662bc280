----------------------------- MODULE ImageChain -----------------------------
(***************************************************************************)
(* The way of an image from the configurator to the client: a file is      *)
(* generated from the configurator's settings, read by the areaDetector    *)
(* driver and by the generator; the generator cuts the sub-frames of the   *)
(* scrambled image into packets; the server flags each packet in its       *)
(* packet checker (the module this one extends), puts it in its place in   *)
(* the buffer of the sub-frame, and when all are there unscrambles the     *)
(* buffers into the image it delivers.                                     *)
(*                                                                         *)
(* One frame is on its way at a time; its packets arrive in any order and  *)
(* any number of times.  What happens between frames (late and missing     *)
(* packets, two frames at once) is the subject of TemporalFrames and       *)
(* SpatialFrames.  The sub-frames have the ids 0 to Channels - 1 in order, *)
(* and the generator is given the coordinates and the packet size of the   *)
(* driver: each is set by hand in both.  Files are written and read while  *)
(* no acquisition runs: reading replaces the tables the server works with. *)
(***************************************************************************)
EXTENDS PercivalPacketChecker, DataSender, Unscramble, SequencesExt

CONSTANTS
  None,         (* no file, no object, no image                            *)
  Channels,     (* sub-frames of temporal mode; 8 in the code              *)
  Prepared,     (* the objects the configurator may start from             *)
  Settings,     (* the parameters written: [param, axis, value]            *)
  Layouts,      (* the arrangements of the sub-frames                      *)
  PacketSizes,  (* pixels per packet                                       *)
  WholeStripes, (* TRUE: a sub-frame of spatial mode consists of whole     *)
                (*   stripes, unless it is not to be descrambled           *)
  History,      (* entries of the sender's packet counter; 16000           *)
  MaxSettings,  (* Bound: calls of the setters.                            *)
  MaxFrame      (* Bound: frames sent, over all acquisitions.              *)

(* An object as the configurator's methods leave it: its size follows its  *)
(* geometry, and setMaxValue() is called with 32767 at most.               *)
Sound(c) ==
  /\ c \in Objects /\ Usable(c) /\ c.max <= 32767
  /\ c.size = [a \in Axes |-> c.ppc[a] * c.cps[a] * c.spi[a]]

(* The parameters of the configurator's driver whose value is a number *)
Numbers ==
  {"PixelsPerChip", "ChipsPerBlock", "BlocksPerStripe", "StripesPerImage", "Repeat",
   "ImageCount", "NumberOfADCs", "MinValue", "MaxValue"}

ASSUME ChainAssumption ==
  /\ Channels \in 1 .. 8 /\ Channels <= MaxParcels
  /\ \A c \in Prepared : Sound(c)
  /\ \A s \in Settings :
       /\ s.param \in Numbers \cup {"Pattern"} /\ s.axis \in Axes
       /\ s.value \in IF s.param = "Pattern" THEN Patterns ELSE Nat
  /\ PacketSizes \subseteq Nat \ {0}
  /\ WholeStripes \in BOOLEAN
  /\ History \in Nat \ {0} /\ MaxSettings \in Nat /\ MaxFrame \in Nat

VARIABLES
  config,       (* the configurator's object                               *)
  settings,     (* history: calls of its setters                           *)
  file,         (* the configuration file                                  *)
  driver,       (* the object of the areaDetector driver                   *)
  readError,    (* PercFileErrorStatus, FileErrorStatus of the generator   *)
  source,       (* the object of the generator                             *)
  server,       (* mode_, currentSubFrame_, width_, height_, dataIndex_,   *)
                (*   packetSize_, descramble_                              *)
  subFrameMap,  (* subFrameMap_: the coordinates of each sub-frame         *)
  serverMask,   (* serverMask_                                             *)
  acquiring,    (* ADStatus is not idle                                    *)
  subFrames,    (* subFrames_ or rawFrame_: the buffers being filled       *)
  net,          (* packets on their way                                    *)
  frameSent,    (* the number of the frame they belong to                  *)
  io,           (* where the io thread is in its handler                   *)
  received,     (* history: the packets of the frame that have arrived     *)
  processFrame, (* the buffers handed to the frame thread                  *)
  image,        (* the last image delivered                                *)
  packetCounter,(* the sender's packet counter                             *)
  sent          (* history: the headers sent, as many as the counter holds *)

checkerVars == vars
files == <<config, settings, file, driver, readError, source>>
setup == <<server, subFrameMap, serverMask, acquiring>>
sender == <<net, frameSent, packetCounter, sent>>
reception == <<subFrames, io, received>>
chainVars == <<checkerVars, files, setup, sender, reception, processFrame, image>>

-----------------------------------------------------------------------------
(* The configurator's driver, asynConfiguratorDriver::writeInt32() *)

WithSetting(c, s) ==
  CASE s.param = "PixelsPerChip"   -> setPixelsPerChip(c, s.axis, s.value)
    [] s.param = "ChipsPerBlock"   -> setChipsPerBlock(c, s.axis, s.value)
    [] s.param = "BlocksPerStripe" -> setBlocksPerStripe(c, s.axis, s.value)
    [] s.param = "StripesPerImage" -> setStripesPerImage(c, s.axis, s.value)
    [] s.param = "Repeat"          -> setRepeat(c, s.axis, s.value)
    [] s.param = "Pattern"         -> setPattern(c, s.value)
    [] s.param = "ImageCount"      -> setNoOfImages(c, s.value)
    [] s.param = "NumberOfADCs"    -> setNumberOfADCs(c, s.value)
    [] s.param = "MinValue"        -> setMinValue(c, s.value)
    [] s.param = "MaxValue"        -> setMaxValue(c, IF s.value > 32767 THEN 32767 ELSE s.value)

(* The parameter and the value are not checked: see Usable. *)
WriteSetting ==
  /\ ~acquiring /\ settings < MaxSettings
  /\ \E s \in Settings :
       /\ Usable(WithSetting(config, s))
       /\ config' = WithSetting(config, s)
  /\ settings' = settings + 1
  /\ UNCHANGED <<checkerVars, file, driver, readError, source, setup, sender,
                 reception, processFrame, image>>

(* The file may be impossible to create: nobody is told.                   *)
RawFileWrite ==
  /\ ~acquiring
  /\ \/ file' = generateConfiguration(config)
     \/ UNCHANGED file
  /\ UNCHANGED <<checkerVars, config, settings, driver, readError, source, setup,
                 sender, reception, processFrame, image>>

-----------------------------------------------------------------------------
(* Reading the file, in the driver and in the generator *)

setupFullFrame(s, w, h, dataIndex) ==
  [s EXCEPT !.width = w, !.height = h, !.dataIndex = dataIndex]

(* A file that cannot be opened leaves the object as it was. *)
readConfiguration(object) == IF file = None THEN object ELSE readScrambledImage(file)

PercConfigFileRead ==
  /\ ~acquiring
  /\ readError' = [readError EXCEPT !.driver = (file = None)]
  /\ driver' = readConfiguration(driver)
  /\ server' = IF file = None THEN server
               ELSE setupFullFrame(server, file.size["x"], file.size["y"],
                                   copyDescrambleArray(driver'))
  /\ UNCHANGED <<checkerVars, config, settings, file, source, subFrameMap, serverMask,
                 acquiring, sender, reception, processFrame, image>>

RawFileRead ==
  /\ ~acquiring
  /\ readError' = [readError EXCEPT !.generator = (file = None)]
  /\ source' = readConfiguration(source)
  /\ UNCHANGED <<checkerVars, config, settings, file, driver, setup, sender, reception,
                 processFrame, image>>

-----------------------------------------------------------------------------
(* Starting and stopping an acquisition *)

(* The coordinates of sub-frame ch in an image of w by h pixels. *)
Region(layout, ch, w, h) ==
  IF layout = "columns"
    THEN LET n == w \div Channels IN
         [tlx |-> ch * n, tly |-> 0, brx |-> (ch + 1) * n - 1, bry |-> h - 1]
    ELSE LET n == h \div Channels IN
         [tlx |-> 0, tly |-> ch * n, brx |-> w - 1, bry |-> (ch + 1) * n - 1]

Refused(r) == r.tlx >= r.brx \/ r.tly >= r.bry
IsWhole(r, object) ==
  LET stripe == object.meta.ppc["x"] * object.meta.cps["x"] IN
  r.tlx % stripe = 0 /\ (r.brx + 1) % stripe = 0

(* mode_ and currentSubFrame_, which no one looks at in temporal mode, and  *)
(* packetSize_ of the server.                                              *)
setToTemporalMode(s) == [s EXCEPT !.mode = "temporal", !.currentSubFrame = 0]
setToSpatialMode(s, subFrame) == [s EXCEPT !.mode = "spatial", !.currentSubFrame = subFrame]
setupChannel(s, packetSize) == [s EXCEPT !.size = packetSize]
setDescramble(s, mode) == [s EXCEPT !.descramble = mode]

Blank(n) == [k \in 0 .. n - 1 |-> Unset]

(* Mutant of expectedPackets: the remainder of the division is dropped. *)
expectedPacketsWhole(n, size) == n \div size

(* The packets of n pixels of two bytes *)
expectedPackets(n, size) ==
  (n \div size) + (IF n % size # 0 THEN 1 ELSE 0)

(* 1 << subFrameID *)
Bit(id) == <<1, 2, 4, 8, 16, 32, 64, 128>>[id + 1]
Mask(ids) ==
  LET bit(id) == IF id \in ids THEN Bit(id) ELSE 0 IN
  bit(0) + bit(1) + bit(2) + bit(3) + bit(4) + bit(5) + bit(6) + bit(7)

(* serverMask_ counts on the ids being different. *)
setupSubFrames(regions) ==
  /\ subFrameMap' = [id \in DOMAIN subFrameMap \cup DOMAIN regions |->
                      IF id \in DOMAIN regions THEN regions[id] ELSE subFrameMap[id]]
  /\ serverMask' = serverMask + Mask(DOMAIN regions)

(* Mutant of releaseAllSubFrames: the bits stay in the mask. *)
releaseAllSubFramesKeepMask ==
  /\ subFrameMap' = [id \in {} |-> None]
  /\ UNCHANGED serverMask

(* The bits of the mask say which sub-frames there are. *)
releaseAllSubFrames ==
  LET ids == {id \in 0 .. 7 : (serverMask \div Bit(id)) % 2 = 1} IN
  /\ subFrameMap' = [id \in DOMAIN subFrameMap \ ids |-> subFrameMap[id]]
  /\ serverMask' = serverMask - Mask(ids)

(* PercivalServer::startAcquisition(): the buffers, and a packet checker   *)
(* with room for the packets of n pixels from each sub-frame.              *)
Buffers(regions) == [id \in DOMAIN regions |-> Blank(PixelsOf(regions[id]))]
startAcquisition(regions, n, size) ==
  /\ expectedPackets(n, size) <= MaxPackets
  /\ init(Cardinality(DOMAIN regions), expectedPackets(n, size))
  /\ subFrames' = Buffers(regions)
  /\ received' = {}
  /\ acquiring' = TRUE

Start(full, regions, n, size) ==
  IF \E id \in DOMAIN regions : Refused(regions[id])
    THEN /\ server' = full
         /\ UNCHANGED <<checkerVars, subFrameMap, serverMask, acquiring, subFrames, received>>
    ELSE /\ server' = setupChannel(full, size)
         /\ setupSubFrames(regions)
         /\ startAcquisition(regions, n, size)

(* ADAcquire = 1: the full frame is set up even if the start is refused,   *)
(* in spatial mode as the selected sub-frame.                              *)
setupTemporalImage ==
  setupFullFrame(setToTemporalMode(server), driver.size["x"], driver.size["y"],
                 copyDescrambleArray(driver))
setupSpatialImage(subFrame, r) ==
  setupFullFrame(setToSpatialMode(server, subFrame), WidthOf(r), HeightOf(r),
                 Realigned(r, driver.size["x"], copyDescrambleArray(driver)))

(* In temporal mode the packets are counted for the first sub-frame.       *)
StartTemporal(layout, size) ==
  LET w == driver.size["x"]  h == driver.size["y"]
      regions == [ch \in 0 .. Channels - 1 |-> Region(layout, ch, w, h)]
  IN
  /\ ~acquiring /\ driver # None
  /\ Start(setupTemporalImage, regions, PixelsOf(regions[0]), size)
  /\ UNCHANGED <<files, sender, io, processFrame, image>>

StartSpatial(layout, ch, size) ==
  LET r == Region(layout, ch, driver.size["x"], driver.size["y"]) IN
  /\ ~acquiring /\ driver # None
  /\ WholeStripes => Refused(r) \/ IsWhole(r, driver)
  /\ Start(setupSpatialImage(ch, r), [id \in {ch} |-> r], PixelsOf(r), size)
  /\ UNCHANGED <<files, sender, io, processFrame, image>>

(* ADAcquire = 0, when the frame thread has done its work *)
StopAcquisition ==
  /\ acquiring /\ io = "idle" /\ processFrame = None
  /\ releaseAllSubFrames
  /\ acquiring' = FALSE /\ net' = {} /\ received' = {} /\ image' = None
  /\ subFrames' = Buffers(subFrameMap')
  /\ UNCHANGED <<checkerVars, files, server, frameSent, packetCounter, sent, io,
                 processFrame>>

-----------------------------------------------------------------------------
(* The generator sends a frame *)

Latest(s, n) == IF Len(s) <= n THEN s ELSE SubSeq(s, Len(s) - n + 1, Len(s))

(* The packets of sub-frame id of the image whose turn it is in frame n,   *)
(* and those of all sub-frames, in the order in which they are sent.       *)
Packets(id, n) ==
  sendImage(copyScrambledSection(source, n % source.images, subFrameMap[id]),
            PixelsOf(subFrameMap[id]), id, server.size, n, 0)
PacketsSent(n) ==
  LET below[id \in 0 .. Channels] ==
        IF id = 0 THEN <<>>
        ELSE IF id - 1 \in DOMAIN subFrameMap THEN below[id - 1] \o Packets(id - 1, n)
        ELSE below[id - 1]
  IN  below[Channels]

(* Driver and generator have read the same file.                           *)
SendFrame ==
  LET n == frameSent + 1
      headers == [j \in DOMAIN PacketsSent(n) |-> Header(PacketsSent(n)[j])]
  IN
  /\ acquiring /\ source = driver
  /\ net = {} /\ frameSent < MaxFrame
  /\ frameSent' = n
  /\ net' = ToSet(PacketsSent(n))
  /\ packetCounter' = addPackets(packetCounter, headers)
  /\ sent' = Latest(sent \o headers, History)
  /\ UNCHANGED <<checkerVars, files, setup, reception, processFrame, image>>

-----------------------------------------------------------------------------
(* The server receives *)

(* The payload in its place; what would fall outside the buffer is the     *)
(* subject of PayloadInside.                                               *)
Stored(buffer, offset, payload) ==
  [k \in DOMAIN buffer |->
    IF k - offset \in DOMAIN payload THEN payload[k - offset] ELSE buffer[k]]

Parcel(p) == IF server.mode = "temporal" THEN p.subFrameNumber ELSE 0

(* The packet handler: flag the packet, copy it even if it is a duplicate, *)
PacketReceived(p) ==
  /\ io = "idle" /\ processFrame = None
  /\ p \in net
  /\ set(Parcel(p), p.packetNumber)
  /\ subFrames' = [subFrames EXCEPT ![p.subFrameNumber] =
                     Stored(@, server.size * p.packetNumber, p.payload)]
  /\ received' = received \cup {p}
  /\ io' = "check"
  /\ UNCHANGED <<files, setup, sender, processFrame, image>>

(* and when all are there hand the buffers over and take others.           *)
FrameComplete ==
  /\ io = "check" /\ io' = "idle"
  /\ IF checkAll
       THEN /\ resetAll
            /\ processFrame' = subFrames
            /\ subFrames' = Buffers(subFrameMap)
       ELSE UNCHANGED <<checkerVars, processFrame, subFrames>>
  /\ UNCHANGED <<files, setup, sender, received, image>>

(* PercDescramble; the frame thread reads the setting when it unscrambles. *)
SetDescramble(mode) ==
  /\ processFrame # None
  /\ server' = setDescramble(server, mode)
  /\ UNCHANGED <<checkerVars, files, subFrameMap, serverMask, acquiring, sender,
                 reception, processFrame, image>>

(* processTemporalFrame(): the sub-frames one after the other, *)
FullImage(resetFrame) ==
  LET below[id \in 0 .. Channels] ==
        IF id = 0 THEN Blank(server.width * server.height)
        ELSE unscrambleToFull(server.descramble, processFrame[id - 1], resetFrame, below[id - 1],
                              subFrameMap[id - 1], server.width, server.dataIndex)
  IN  below[Channels]

(* and processFrame(): the selected one.                                   *)
SubFrameImage(resetFrame) ==
  LET n == server.width * server.height IN
  unscramble(server.descramble, processFrame[server.currentSubFrame], resetFrame, Blank(n), n,
             server.dataIndex)

(* The reset frame, all zeros, may have come or not.                       *)
ProcessFrame ==
  /\ processFrame # None
  /\ \E value \in {0, Unset} :
       LET resetFrame == [k \in 0 .. server.width * server.height - 1 |-> value] IN
       image' = [frame |-> frameSent, descramble |-> server.descramble,
                 pixels |-> IF server.mode = "temporal" THEN FullImage(resetFrame)
                            ELSE SubFrameImage(resetFrame)]
  /\ processFrame' = None
  /\ net' = {} /\ received' = {}
  /\ UNCHANGED <<checkerVars, files, setup, subFrames, io, frameSent, packetCounter, sent>>

-----------------------------------------------------------------------------
(* The checker has not been used yet. *)
ChainInit ==
  /\ Init /\ parcels = 1 /\ packets = 1
  /\ config \in Prepared /\ settings = 0
  /\ file = None /\ driver = None /\ source = None
  /\ readError = [driver |-> FALSE, generator |-> FALSE]
  /\ server = [mode |-> "temporal", width |-> 0, height |-> 0, dataIndex |-> Blank(0),
               size |-> 0, descramble |-> 0, currentSubFrame |-> 0]
  /\ subFrameMap = [id \in {} |-> None] /\ serverMask = 0 /\ acquiring = FALSE
  /\ subFrames = [id \in {} |-> None] /\ io = "idle" /\ received = {}
  /\ net = {} /\ frameSent = 0
  /\ packetCounter = PacketCounter(History) /\ sent = <<>>
  /\ processFrame = None /\ image = None

ChainNext ==
  \/ WriteSetting \/ RawFileWrite \/ PercConfigFileRead \/ RawFileRead
  \/ \E layout \in Layouts, size \in PacketSizes :
       \/ StartTemporal(layout, size)
       \/ \E ch \in 0 .. Channels - 1 : StartSpatial(layout, ch, size)
  \/ StopAcquisition \/ SendFrame
  \/ \E p \in net : PacketReceived(p)
  \/ FrameComplete \/ ProcessFrame
  \/ \E mode \in 0 .. 2 : SetDescramble(mode)

ChainSpec == ChainInit /\ [][ChainNext]_chainVars

-----------------------------------------------------------------------------
(* Properties *)

(* The registry of sub-frames and its mask agree through every start,      *)
(* refused start and stop, so a stop deletes the sub-frames there are and  *)
(* no others: releaseAllSubFrames() looks at the mask only.                *)
RegistryMatches ==
  /\ serverMask = Mask(DOMAIN subFrameMap)
  /\ IF acquiring
       THEN server.mode = "temporal" => DOMAIN subFrameMap = 0 .. Channels - 1
       ELSE DOMAIN subFrameMap = {}

(* Every packet the sender cuts has its flag in the packet checker, which  *)
(* does not look whether it has, and its payload fits into the buffer at   *)
(* the place the server computes from the packet size it was given.        *)
PayloadInside ==
  \A p \in net :
    /\ <<Parcel(p), p.packetNumber>> \in Positions
    /\ \A k \in DOMAIN p.payload :
         server.size * p.packetNumber + k \in DOMAIN subFrames[p.subFrameNumber]

(* A frame is handed over when the last of the packets the sender cut has  *)
(* come, whatever their order and repetitions: never before, when pixels   *)
(* would be missing, and not later, when the frame would never end.        *)
HandedOverWhenAllThere ==
  io = "idle" /\ net # {} => (processFrame # None <=> received = net)

(* The pixel of the raw image with the three bits lost that the encoding   *)
(* has no room for, and the gain its value asks for.                       *)
Covered == Channels * PixelsOf(subFrameMap[0]) = server.width * server.height
Original == driver.raw[image.frame % driver.images]
SameValue(v, raw) == v = raw - (raw % 8)

(* In temporal mode the client gets the raw image from which the file was  *)
(* generated, for every geometry of the detector, arrangement of the       *)
(* sub-frames that covers it, packet size and order of the packets:        *)
(* decoded with descramble 1, encoded but in its place with 2; with 0 the  *)
(* scrambled one.                                                          *)
TemporalImageIsOriginal ==
  image # None /\ server.mode = "temporal" /\ Covered =>
    \A k \in DOMAIN image.pixels :
      LET v == image.pixels[k] IN
      /\ image.descramble = 0 => v = driver.scrambled[image.frame % driver.images][k]
      /\ image.descramble = 1 => SameValue(v, Original[k])
      /\ image.descramble = 2 => SameValue(Decode(v), Original[k]) /\ Gain(v) = GainOf(Original[k])

(* In spatial mode the client gets the raw image inside the sub-frame,     *)
(* when that consists of whole stripes: setupSpatialImage() realigns the   *)
(* table of the full frame to it.  With 2 the image is decoded too.        *)
SpatialImageIsOriginal ==
  image # None /\ acquiring /\ server.mode = "spatial" =>
    \A id \in DOMAIN subFrameMap : \A k \in DOMAIN image.pixels :
      LET a == InFrame(subFrameMap[id], k, driver.size["x"]) IN
      IF image.descramble = 0
        THEN image.pixels[k] = driver.scrambled[image.frame % driver.images][a]
        ELSE SameValue(image.pixels[k], Original[a])

(* The report of the packet counter lists the headers of the last packets, *)
(* as many as it holds, oldest first, also after its ring has come round.  *)
ReportIsLast == report(packetCounter) = sent

=============================================================================
