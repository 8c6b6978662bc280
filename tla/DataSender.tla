----------------------------- MODULE DataSender -----------------------------
(***************************************************************************)
(* class DataSender: an image is cut into packets of the size asked for,   *)
(* the last one shorter, each with a header that says the frame, the       *)
(* sub-frame and the packet's number in it.  And class                     *)
(* PercivalPacketCounter, the ring in which the sender (16000 entries) and *)
(* the receiver (8500) keep the headers of the last packets for a report.  *)
(*                                                                         *)
(* Sizes are counted in pixels of two bytes; an odd number of bytes in a   *)
(* packet would cut a pixel in two, and the receiver would not put it      *)
(* together again.                                                         *)
(***************************************************************************)
EXTENDS Naturals, Sequences

(* The loop of sendImage(): packet k carries size pixels as long as more   *)
(* than that are left.                                                     *)
PacketLength(n, size, k) == IF n - k * size > size THEN size ELSE n - k * size

(* Mutant of NumberOfPackets: a remainder is not sent. *)
NumberOfPacketsWhole(n, size) == n \div size

NumberOfPackets(n, size) == (n + size - 1) \div size

(* The packets of an image of n pixels, in the order they are sent. *)
sendImage(buffer, n, subFrame, size, frame, type) ==
  [j \in 1 .. NumberOfPackets(n, size) |->
    [frameNumber    |-> frame % 65536,
     subFrameNumber |-> subFrame % 256,
     packetNumber   |-> (j - 1) % 65536,
     packetType     |-> type,
     payload |-> [i \in 0 .. PacketLength(n, size, j - 1) - 1 |->
                   buffer[(j - 1) * size + i]]]]

Header(p) == <<p.frameNumber, p.subFrameNumber, p.packetNumber, p.packetType>>

-----------------------------------------------------------------------------
(* PercivalPacketCounter *)

PacketCounter(history) ==
  [history |-> history, index |-> 0, wrap |-> 0,
   entries |-> [i \in 0 .. history - 1 |-> <<>>]]

(* Mutant of addPacket: the ring starts again one entry late. *)
addPacketLate(c, header) ==
  LET next == c.index + 1 IN
  [c EXCEPT !.entries[c.index] = header,
            !.index = IF c.index = c.history - 1 THEN 1 % c.history ELSE next,
            !.wrap  = IF next = c.history THEN 1 ELSE c.wrap]

addPacket(c, header) ==
  LET next == c.index + 1 IN
  [c EXCEPT !.entries[c.index] = header,
            !.index = IF next = c.history THEN 0 ELSE next,
            !.wrap  = IF next = c.history THEN 1 ELSE c.wrap]

addPackets(c, headers) ==
  LET after[n \in 0 .. Len(headers)] ==
        IF n = 0 THEN c ELSE addPacket(after[n - 1], headers[n])
  IN  after[Len(headers)]

(* The entries report() prints: in the order of the ring, those from the   *)
(* index on first once the ring has come round.                            *)
report(c) ==
  LET Part(first, n) == [i \in 1 .. n |-> c.entries[first + i - 1]] IN
  IF c.wrap = 0 THEN Part(0, c.index)
  ELSE Part(c.index, c.history - c.index) \o Part(0, c.index)

=============================================================================
