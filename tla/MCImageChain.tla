---------------------------- MODULE MCImageChain ----------------------------
(***************************************************************************)
(* Values of the constants of ImageChain for TLC: a detector of 8 by 4     *)
(* pixels in two stripes, and settings that change one thing about it.     *)
(***************************************************************************)
EXTENDS ImageChain

Detector ==
  LET chip == setPixelsPerChip(setPixelsPerChip(Constructed, "x", 2), "y", 2)
      cell == setRepeat(setRepeat(chip, "x", 3), "y", 2)
  IN  setMaxValue(setMinValue(setNoOfImages(setPattern(
        setStripesPerImage(cell, "x", 2), "triangle"), 2), 203), 5003)

MCPrepared == {Detector}
Setting(p, a, v) == [param |-> p, axis |-> a, value |-> v]
MCSettings ==
  {Setting("PixelsPerChip", "y", 1), Setting("ChipsPerBlock", "x", 1),
   Setting("StripesPerImage", "x", 1), Setting("ImageCount", "x", 1),
   Setting("Pattern", "x", "ellipse"), Setting("MaxValue", "x", 40000)}
=============================================================================
