-------------------------- MODULE TemporalPackets --------------------------
(***************************************************************************)
(* What the two paths of PercivalServer's temporal mode, for image packets *)
(* and for reset packets, have in common: the packets on the wire, the     *)
(* flags of the frame being collected, the error statistics, and the       *)
(* banks of SubFrameBanks.  Each path has a network of its own.            *)
(*                                                                         *)
(* Flags are kept as the set of slots flagged: that the checkAll() of      *)
(* PercivalPacketChecker is true exactly when all are is proved in         *)
(* ImageChain_proofs.                                                      *)
(***************************************************************************)
EXTENDS SubFrameBanks

CONSTANTS
  MaxFrame,     (* Largest frame number on the wire (2^16 - 1 in the code).*)
  MaxPackets,   (* Bound: packets of a path that arrive.                   *)
  MaxSpurious,  (* Bound: spurious wake-ups of a condition variable.       *)
  Ordered,      (* TRUE: packets may be lost but not overtake or repeat.   *)
  KeepsUp,      (* TRUE: the thread a closed frame is for is waiting.      *)
  SigintFatal   (* TRUE: raise(SIGINT) has its default disposition.        *)

ASSUME BoundsAssumption ==
  MaxFrame \in Nat /\ MaxPackets \in Nat /\ MaxSpurious \in Nat
ASSUME SwitchAssumption ==
  Ordered \in BOOLEAN /\ KeepsUp \in BOOLEAN /\ SigintFatal \in BOOLEAN

Frames  == 0 .. MaxFrame
Packets == [frame : Frames, slot : Slots]

NoErrors == [missing |-> 0, late |-> 0, duplicate |-> 0]
ErrorCounts == [missing : Nat, late : Nat, duplicate : Nat]

(* The place of a packet in the order of sending. *)
Position(p) == p.frame * NumSlots + p.slot

(* Mutant: one flag short of all is enough. *)
checkAllButOne(flags) == \E s \in Slots : Slots \ {s} \subseteq flags

checkAll(flags) == flags = Slots

(* Setting a flag that is set counts a duplicate. *)
Counted(stats, flags, p) ==
  IF p.slot \in flags THEN [stats EXCEPT !.duplicate = @ + 1] ELSE stats

=============================================================================
