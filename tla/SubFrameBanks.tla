--------------------------- MODULE SubFrameBanks ---------------------------
(***************************************************************************)
(* The sub-frame buffers of temporal mode and the pools they come from     *)
(* (PercivalSubFrame, PercivalBufferPool).  The server takes, swaps and    *)
(* releases the buffers of its eight sub-frames together, so the eight     *)
(* pools move in step and eight buffers taken together are one "bank": a   *)
(* function from slots, one slot for each packet of each sub-frame, to the *)
(* mark of the packet copied there.  Pool operations hold the pool's own   *)
(* mutex and are single steps.                                             *)
(***************************************************************************)
EXTENDS Integers, Sequences, SequencesExt

CONSTANT NumSlots     (* Packets of a frame: 8 sub-frames x packets of each. *)

ASSUME SlotsAssumption == NumSlots \in Nat /\ NumSlots > 1

VARIABLES
  mem,                (* the contents of every bank ever created           *)
  freeBuffers         (* freeBuffers_: the stack of free banks             *)

Slots  == 1 .. NumSlots
Blank  == -1                      (* zeroed, or fresh from malloc *)
NoBank == 0                       (* a pointer never assigned     *)
BlankBank == [s \in Slots |-> Blank]

(* Mutants of allocate(): nothing is created; the top is not popped. *)
AllocateNothing(bank) == bank = Len(mem) + 1 /\ UNCHANGED <<mem, freeBuffers>>
AllocateWithoutPop(bank) ==
  \/ freeBuffers = <<>> /\ bank = Len(mem) + 1 /\ mem' = Append(mem, BlankBank)
     /\ UNCHANGED freeBuffers
  \/ freeBuffers # <<>> /\ bank = Last(freeBuffers) /\ UNCHANGED <<mem, freeBuffers>>

(* allocate(): the top of the free stack, or a new buffer if it is empty. *)
Allocate(bank) ==
  \/ /\ freeBuffers = <<>>
     /\ bank = Len(mem) + 1
     /\ mem' = Append(mem, BlankBank)
     /\ UNCHANGED freeBuffers
  \/ /\ freeBuffers # <<>>
     /\ bank = Last(freeBuffers)
     /\ freeBuffers' = Front(freeBuffers)
     /\ UNCHANGED mem

(* Mutant of free(): the memset is missing. *)
ReleaseUncleared(bank) == freeBuffers' = Append(freeBuffers, bank) /\ UNCHANGED mem

(* free(): zero the buffer and push it, without asking who else holds it. *)
Release(bank) ==
  /\ mem' = [mem EXCEPT ![bank] = BlankBank]
  /\ freeBuffers' = Append(freeBuffers, bank)

IsFree(bank) == \E i \in DOMAIN freeBuffers : freeBuffers[i] = bank
FreeOnce == \A i, j \in DOMAIN freeBuffers : i # j => freeBuffers[i] # freeBuffers[j]

=============================================================================
