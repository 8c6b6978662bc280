--------------------------- MODULE FrameDelivery ---------------------------
(***************************************************************************)
(* What PercivalServer promises its client (the comment that opens         *)
(* PercivalServer.h): a callback is executed once for a frame that has     *)
(* been reconstructed or is considered corrupt.  Frames are handed to the  *)
(* delivering thread one after the other; each is delivered exactly once,  *)
(* in that order, with the data it was handed over with.                   *)
(***************************************************************************)
EXTENDS Naturals, Sequences

CONSTANT FrameValues  (* What a frame is: its number and its data.         *)

VARIABLES
  handed,     (* the frames closed by the packet thread, oldest first      *)
  delivered   (* the frames given to the callback, oldest first            *)

vars == <<handed, delivered>>

Init ==
  /\ handed = <<>>
  /\ delivered = <<>>

HandOver ==
  /\ \E f \in FrameValues : handed' = Append(handed, f)
  /\ UNCHANGED delivered

Deliver ==
  /\ Len(delivered) < Len(handed)
  /\ delivered' = Append(delivered, handed[Len(delivered) + 1])
  /\ UNCHANGED handed

Next == HandOver \/ Deliver

Spec     == Init /\ [][Next]_vars
FairSpec == Spec /\ WF_vars(Deliver)

=============================================================================
