--------------------------- MODULE MCFrameGenerator ---------------------------
(***************************************************************************)
(* The parameters of FrameGenerator that TLC tries, besides those the      *)
(* constructor sets: several images in temporal mode, an endless           *)
(* acquisition in spatial mode on both channels, one image in spatial mode *)
(* with a geometry that is refused or not.                                 *)
(***************************************************************************)
EXTENDS FrameGenerator

Parameters(temporal, mode, enabled, valid) ==
  [temporal |-> temporal, imageMode |-> mode, numImages |-> 3, subFrame |-> 0,
   enabled |-> enabled, valid |-> valid]

MCSettings ==
  {Defaults,
   Parameters(TRUE, "multiple", {1}, TRUE), Parameters(FALSE, "single", {1}, TRUE),
   Parameters(FALSE, "continuous", {2}, TRUE), Parameters(FALSE, "single", {1}, FALSE)}
=============================================================================
