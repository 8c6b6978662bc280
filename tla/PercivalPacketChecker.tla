----------------------- MODULE PercivalPacketChecker -----------------------
(***************************************************************************)
(* The record PercivalServer keeps of the packets of the frame it is       *)
(* assembling: one flag per packet of every parcel (sub-frame), stored in  *)
(* one flat array, and a counter of the flags that are set.  checkAll()    *)
(* decides "frame complete" from the counter alone; the comparison of the  *)
(* flags it replaced is still in the source, commented out.                *)
(*                                                                         *)
(* set() and reset() index the array without a bounds check.  The model    *)
(* calls them with positions inside the initialised dimensions; a larger   *)
(* index is undefined behaviour of the code and is not modelled here.      *)
(***************************************************************************)
EXTENDS Naturals, FiniteSets

CONSTANTS
  MaxParcels,   (* Bound: largest number of parcels init() is called with. *)
  MaxPackets    (* Bound: largest number of packets per parcel.            *)

ASSUME BoundsAssumption == MaxParcels \in Nat \ {0} /\ MaxPackets \in Nat \ {0}

VARIABLES
  parcels,      (* parcels_                                                *)
  packets,      (* packets_                                                *)
  passed,       (* passed_: the count at which checkAll() succeeds         *)
  checks,       (* checks_: the flat array of flags                        *)
  counter       (* counter_                                                *)

vars == <<parcels, packets, passed, checks, counter>>

(* The flat index of a packet of a parcel, for n packets per parcel. *)
FlatIndex(parcel, packet, n) == parcel * n + packet

Positions == (0 .. parcels - 1) \X (0 .. packets - 1)
Indices   == 0 .. (parcels * packets - 1)

(* Every flag cleared, for p parcels of n packets. *)
AllClear(p, n) == [i \in 0 .. (p * n - 1) |-> 0]

-----------------------------------------------------------------------------
(* Operations. *)

init(p, n) ==
  /\ parcels' = p
  /\ packets' = n
  /\ passed'  = p * n
  /\ checks'  = AllClear(p, n)
  /\ counter' = 0

(* Mutant of set(): the flag is not looked at before it is counted. *)
setUnchecked(parcel, packet) ==
  /\ checks'  = [checks EXCEPT ![FlatIndex(parcel, packet, packets)] = 1]
  /\ counter' = counter + 1
  /\ UNCHANGED <<parcels, packets, passed>>

set(parcel, packet) ==
  LET i == FlatIndex(parcel, packet, packets) IN
  \/ (* PP_ERR_DUP_PKT: the flag is already there, nothing changes. *)
     /\ checks[i] = 1
     /\ UNCHANGED vars
  \/ /\ checks[i] # 1
     /\ checks'  = [checks EXCEPT ![i] = 1]
     /\ counter' = counter + 1
     /\ UNCHANGED <<parcels, packets, passed>>

reset(parcel, packet) ==
  LET i == FlatIndex(parcel, packet, packets) IN
  \/ (* PP_ERR_MIS_PKT: no flag to clear. *)
     /\ checks[i] = 0
     /\ UNCHANGED vars
  \/ /\ checks[i] # 0
     /\ checks'  = [checks EXCEPT ![i] = 0]
     /\ counter' = counter - 1
     /\ UNCHANGED <<parcels, packets, passed>>

(* Mutants of resetAll(): the counter is kept; the target is lost. *)
resetAllKeepsCount ==
  /\ checks'  = AllClear(parcels, packets)
  /\ UNCHANGED <<parcels, packets, passed, counter>>
resetAllTarget ==
  /\ checks'  = AllClear(parcels, packets)
  /\ counter' = 0 /\ passed' = 0
  /\ UNCHANGED <<parcels, packets>>

resetAll ==
  /\ checks'  = AllClear(parcels, packets)
  /\ counter' = 0
  /\ UNCHANGED <<parcels, packets, passed>>

check(parcel, packet) == checks[FlatIndex(parcel, packet, packets)]
getCount == counter
checkAll == counter = passed

-----------------------------------------------------------------------------
(* startAcquisition() calls init() before any packet is recorded. *)
Init ==
  \E p \in 1 .. MaxParcels, n \in 1 .. MaxPackets :
    /\ parcels = p
    /\ packets = n
    /\ passed  = p * n
    /\ checks  = AllClear(p, n)
    /\ counter = 0

Next ==
  \/ \E p \in 1 .. MaxParcels, n \in 1 .. MaxPackets : init(p, n)
  \/ \E pos \in Positions : set(pos[1], pos[2])
  \/ \E pos \in Positions : reset(pos[1], pos[2])
  \/ resetAll

Spec == Init /\ [][Next]_vars

-----------------------------------------------------------------------------
(* Properties. *)

(* Types, and the sizes init() gives the array and the target count. *)
TypeOK ==
  /\ parcels \in 1 .. MaxParcels
  /\ packets \in 1 .. MaxPackets
  /\ passed = parcels * packets
  /\ checks \in [Indices -> {0, 1}]
  /\ counter \in Nat

Flagged == {i \in Indices : checks[i] = 1}

(* getCount() is the number of flags set, through every history of set,    *)
(* duplicate set, reset, reset of a missing packet, resetAll and re-init.  *)
CountIsExact == getCount = Cardinality(Flagged)

(* checkAll(), which compares the counter only, succeeds exactly when the  *)
(* flag of every packet of every parcel is set: what the commented-out     *)
(* memcmp(checks_, test_) decided.                                         *)
CompleteIsExact ==
  checkAll <=> \A pos \in Positions : check(pos[1], pos[2]) = 1

=============================================================================
