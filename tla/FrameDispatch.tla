--------------------------- MODULE FrameDispatch ---------------------------
(***************************************************************************)
(* What PercivalServer promises its client in spatial mode, where a thread *)
(* of its own processes each frame: a callback is executed exactly once    *)
(* for each frame that was closed, complete or corrupt, with the data it   *)
(* was closed with.  The threads may overtake one another, so the order of *)
(* the callbacks is not promised.                                          *)
(***************************************************************************)
EXTENDS Naturals, Sequences

CONSTANT FrameValues  (* What a frame is: its number and its data.         *)

VARIABLES
  handed,     (* the frames closed by the packet thread, oldest first      *)
  delivered   (* what the callback got: the position in handed, the frame  *)

vars == <<handed, delivered>>

Init == handed = <<>> /\ delivered = <<>>

HandOver ==
  /\ \E f \in FrameValues : handed' = Append(handed, f)
  /\ UNCHANGED delivered

Outstanding(i) == \A j \in DOMAIN delivered : delivered[j].position # i

Deliver ==
  /\ \E i \in DOMAIN handed :
       /\ Outstanding(i)
       /\ delivered' = Append(delivered, [position |-> i, value |-> handed[i]])
  /\ UNCHANGED handed

Next == HandOver \/ Deliver

Spec     == Init /\ [][Next]_vars
FairSpec == Spec /\ WF_vars(Deliver)

=============================================================================
