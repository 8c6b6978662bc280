---------------------------- MODULE Configurator ----------------------------
(***************************************************************************)
(* class Configurator: the description of the detector and of the test     *)
(* images, the configuration file generated from it, and the sections and  *)
(* tables that are copied out of a file read back.  Three objects of this  *)
(* class exist: in the configurator's driver, which writes files, in the   *)
(* areaDetector driver and in the generator, which read them.              *)
(*                                                                         *)
(* An object is a record; the two axes of each setting are the fields x    *)
(* and y of a function, so one operator stands for a pair of methods.  An  *)
(* image is a function of addresses, row by row.  Left out: HDF5 itself,   *)
(* the data type (16 bits always), and the gains of the stages and all     *)
(* offsets, which generateScrambledImage() makes one and zero.             *)
(***************************************************************************)
EXTENDS Integers

Axes == {"x", "y"}
Patterns == {"rectangle", "triangle", "ellipse"}
OnBoth(n) == [a \in Axes |-> n]

(* The fields of an object. *)
Objects ==
  [ppc : [Axes -> Nat], cpb : [Axes -> Nat], bps : [Axes -> Nat], cps : [Axes -> Nat],
   spi : [Axes -> Nat], size : [Axes -> Nat], repeat : [Axes -> Nat], pattern : Patterns,
   images : Nat, min : Nat, max : Nat, adcs : Nat]

(* Settings for which the object is meant to be used: no repeat or number  *)
(* of images may be zero (both are divisors), and with a minimum above the *)
(* maximum the spots' value is a 32-bit difference that wraps.             *)
Usable(c) ==
  /\ \A a \in Axes : c.repeat[a] > 0
  /\ c.images > 0 /\ c.adcs > 0 /\ c.min <= c.max

-----------------------------------------------------------------------------
(* The object and its setters *)

Constructed ==
  [ppc |-> OnBoth(128), cpb |-> OnBoth(2), bps |-> OnBoth(1), cps |-> OnBoth(2),
   spi |-> OnBoth(1), size |-> OnBoth(256), repeat |-> OnBoth(256),
   pattern |-> "rectangle", images |-> 10, min |-> 0, max |-> 1000, adcs |-> 32]

(* imageWidth_ or imageHeight_, recomputed by every setter of the geometry *)
Resized(c, a) == [c EXCEPT !.size[a] = c.ppc[a] * c.cps[a] * c.spi[a]]
Restriped(c, a) == Resized([c EXCEPT !.cps[a] = c.cpb[a] * c.bps[a]], a)

setPixelsPerChip(c, a, n)   == Resized([c EXCEPT !.ppc[a] = n], a)
setChipsPerBlock(c, a, n)   == Restriped([c EXCEPT !.cpb[a] = n], a)
setBlocksPerStripe(c, a, n) == Restriped([c EXCEPT !.bps[a] = n], a)
setStripesPerImage(c, a, n) == Resized([c EXCEPT !.spi[a] = n], a)

setRepeat(c, a, n)   == [c EXCEPT !.repeat[a] = n]
setPattern(c, p)     == [c EXCEPT !.pattern = p]
setNoOfImages(c, n)  == [c EXCEPT !.images = n]
setMinValue(c, v)    == [c EXCEPT !.min = v]
setMaxValue(c, v)    == [c EXCEPT !.max = v]
setNumberOfADCs(c, n) == [c EXCEPT !.adcs = n]

-----------------------------------------------------------------------------
(* The raw image *)

Pixels(c) == c.size["x"] * c.size["y"]
Addresses(c) == 0 .. Pixels(c) - 1

(* Outside the ellipse inscribed in the cell; u and v are twice x and y.   *)
Ellipse(c, x, y) ==
  LET rx == c.repeat["x"]      ry == c.repeat["y"]
      u  == 2 * (x % rx) - rx  v  == 2 * (y % ry) - ry
  IN  v * v * rx * rx > (rx * rx - u * u) * ry * ry

(* The pixels of the pattern, which have the maximum value, *)
InPattern(c, x, y) ==
  LET rx == c.repeat["x"]  ry == c.repeat["y"] IN
  CASE c.pattern = "rectangle" -> ((x \div rx) % 2 = 0 <=> (y \div ry) % 2 = 0)
    [] c.pattern = "triangle"  -> (y % ry) * rx > (x % rx) * ry
    [] c.pattern = "ellipse"   -> Ellipse(c, x, y)

(* and of the spot in a cell, whose value tells the image.  The lower      *)
(* bounds of an ellipse's spot are unsigned: a cell below 12 has no spot.  *)
InSpot(c, x, y) ==
  IF c.pattern = "ellipse"
    THEN \A p \in {<<x, c.repeat["x"]>>, <<y, c.repeat["y"]>>} :
           /\ p[2] \div 2 >= 6
           /\ p[1] % p[2] \in (p[2] \div 2 - 5) .. (p[2] \div 2 + 5)
    ELSE x % c.repeat["x"] < 10 /\ y % c.repeat["y"] < 10

RawPixel(c, image, x, y) ==
  (IF InPattern(c, x, y) THEN c.max
   ELSE IF InSpot(c, x, y) THEN ((c.max - c.min) * image) \div c.images
   ELSE c.min) % 65536

generateRawImage(c) ==
  [i \in 0 .. c.images - 1 |->
    [k \in Addresses(c) |-> RawPixel(c, i, k % c.size["x"], k \div c.size["x"])]]

-----------------------------------------------------------------------------
(* The scrambled image and its table *)

GainThresholds == <<200, 2500, 5000>>
GainOf(v) == IF v < GainThresholds[1] THEN 0
             ELSE IF v < GainThresholds[2] THEN 1
             ELSE IF v < GainThresholds[3] THEN 2 ELSE 3

(* ADC_low_gain_ and ADC_high_gain_: the same for every ADC, so that it    *)
(* does not matter which ADC a pixel has.                                  *)
LowGain == 8
HighGain == 1024

(* Mutant of applyGains: the coarse gain is applied to the whole value. *)
applyGainsTwice(v) ==
  GainOf(v) + ((v \div LowGain) % 256) * 4 + ((v \div HighGain) % 32) * 1024

(* Two bits of gain, eight of the fine ADC, five of the coarse ADC.  The   *)
(* low three bits are lost.                                                *)
applyGains(v) ==
  LET low == (v \div LowGain) % 256 IN
  GainOf(v) + low * 4 + (((v - LowGain * low) \div HighGain) % 32) * 1024

(* The loops of generateScrambledImage(), for one image. *)
StripeWidth(c) == c.ppc["x"] * c.cps["x"]
RowWidth(c)    == StripeWidth(c) * c.spi["x"]
Rows(c)        == c.ppc["y"] * c.cps["y"] * c.spi["y"]
Steps(c) == [row : 0 .. Rows(c) - 1, stripe : 0 .. c.spi["x"] - 1,
             pixel : 0 .. c.ppc["x"] - 1, chip : 0 .. c.cps["x"] - 1]

Source(c, s) ==
  s.chip * c.ppc["x"] + s.pixel + s.stripe * StripeWidth(c) + s.row * RowWidth(c)
Dest(c, s) ==
  s.chip + s.pixel * c.cps["x"] + s.stripe * StripeWidth(c) + s.row * RowWidth(c)

(* descrambleArray_: where the pixel at each scrambled address came from.  *)
Descramble(c) ==
  [d \in Addresses(c) |-> Source(c, CHOOSE s \in Steps(c) : Dest(c, s) = d)]

generateScrambledImage(c, raw) ==
  LET table == Descramble(c) IN
  [i \in DOMAIN raw |-> [d \in Addresses(c) |-> applyGains(raw[i][table[d]])]]

-----------------------------------------------------------------------------
(* The configuration file *)

(* The reset data is all zeros. *)
ResetData(c) == [i \in 0 .. c.images - 1 |-> [d \in Addresses(c) |-> 0]]

(* The five datasets that vary, the attributes of the meta data, and the   *)
(* dimensions of the images.                                               *)
generateMetaData(c) ==
  [ppc |-> c.ppc, cpb |-> c.cpb, bps |-> c.bps, cps |-> c.cps, spi |-> c.spi,
   adcs |-> c.adcs]

generateConfiguration(c) ==
  LET raw == generateRawImage(c) IN
  [meta |-> generateMetaData(c), images |-> c.images, size |-> c.size,
   raw_image |-> raw,
   scrambled_image |-> generateScrambledImage(c, raw),
   descramble_array |-> Descramble(c),
   reset_data |-> ResetData(c)]

(* What the object that read file f holds.  It does not read the raw image:*)
(* that field is there for the properties.                                 *)
readMetaData(f) == f.meta
readScrambledImage(f) ==
  [images |-> f.images, size |-> f.size, scrambled |-> f.scrambled_image,
   reset |-> f.reset_data, descramble |-> f.descramble_array,
   meta |-> readMetaData(f), raw |-> f.raw_image]

-----------------------------------------------------------------------------
(* Sections of a sub-frame r = [tlx, tly, brx, bry] *)

WidthOf(r)  == r.brx - r.tlx + 1
HeightOf(r) == r.bry - r.tly + 1
PixelsOf(r) == WidthOf(r) * HeightOf(r)

(* The address in an image of width w of the point k of sub-frame r. *)
InFrame(r, k, w) == (r.tly + k \div WidthOf(r)) * w + r.tlx + (k % WidthOf(r))

(* Mutant of copySection: the section is taken from the left edge. *)
copySectionLeft(object, data, r) ==
  [k \in 0 .. PixelsOf(r) - 1 |->
    data[InFrame([r EXCEPT !.tlx = 0, !.brx = WidthOf(r) - 1], k, object.size["x"])]]

(* copyScrambledSectionUInt16() and copyResetDataSectionUInt16(), for the  *)
(* data of one image.                                                      *)
copySection(object, data, r) ==
  [k \in 0 .. PixelsOf(r) - 1 |-> data[InFrame(r, k, object.size["x"])]]
copyScrambledSection(object, image, r) == copySection(object, object.scrambled[image], r)
copyResetDataSection(object, image, r) == copySection(object, object.reset[image], r)

copyDescrambleArray(object) == object.descramble

=============================================================================
