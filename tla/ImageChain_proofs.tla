-------------------------- MODULE ImageChain_proofs --------------------------
(***************************************************************************)
(* The proofs of the image chain and of the modules it is built from:      *)
(*   - the packet checker: for every number of parcels and packets the     *)
(*     counter is the number of flags set, and completion by counting is   *)
(*     completion of every packet;                                         *)
(*   - the configurator's arithmetic: for a detector of any size the loops *)
(*     of generateScrambledImage() write every address once, its table     *)
(*     leads back from each address to the pixel that was put there, and   *)
(*     unscrambleToFull() recovers the image from the scrambled one;       *)
(*   - the chain: whatever is configured, the registry of sub-frames, the  *)
(*     buffers, the checker and the packets on their way fit each other    *)
(*     (Assembly), a frame is handed over when its last packet has come    *)
(*     (Progress) and then holds the sections that were cut from the image *)
(*     (Whole), so that the image delivered is the one in the file;        *)
(*   - the packet counter: its report is what was sent last.               *)
(***************************************************************************)
EXTENDS ImageChain, FiniteSetTheorems, WellFoundedInduction, TLAPS

-----------------------------------------------------------------------------
(* The flat array                                                          *)

(* The flat index of a packet inside the dimensions lies inside the array  *)
(* that init() allocated.                                                  *)
LEMMA IndexInRange ==
  ASSUME NEW p \in Nat, NEW n \in Nat,
         NEW a \in 0 .. p - 1, NEW b \in 0 .. n - 1
  PROVE  FlatIndex(a, b, n) \in 0 .. (p * n - 1)
<1>1. a * n + n = (a + 1) * n
  OBVIOUS
<1>2. (a + 1) * n <= p * n
  <2>1. PICK d \in Nat : p = (a + 1) + d
    <3>1. p - (a + 1) \in Nat
      OBVIOUS
    <3>2. p = (a + 1) + (p - (a + 1))
      OBVIOUS
    <3> QED
      BY <3>1, <3>2
  <2>2. p * n = (a + 1) * n + d * n
    BY <2>1
  <2>3. d * n \in Nat /\ (a + 1) * n \in Nat
    OBVIOUS
  <2> QED
    BY <2>2, <2>3
<1>3. a * n \in Nat /\ p * n \in Nat
  OBVIOUS
<1> QED
  BY <1>1, <1>2, <1>3 DEF FlatIndex

(* Every index of the array is the position of exactly one packet: no two  *)
(* packets share a flag and no flag is left without a packet.              *)
LEMMA IndexIsSome ==
  ASSUME NEW p \in Nat, NEW n \in Nat \ {0}, NEW i \in 0 .. (p * n - 1)
  PROVE  \E a \in 0 .. p - 1, b \in 0 .. n - 1 : i = FlatIndex(a, b, n)
<1> DEFINE a == i \div n
           b == i % n
<1>1. /\ i = a * n + b
      /\ a \in Nat
      /\ b \in 0 .. n - 1
  BY SMTT(30)
<1>2. a < p
  <2>1. SUFFICES ASSUME a >= p PROVE FALSE
    BY <1>1
  <2>2. PICK d \in Nat : a = p + d
    <3>1. a - p \in Nat
      BY <2>1, <1>1
    <3>2. a = p + (a - p)
      BY <1>1
    <3> QED
      BY <3>1, <3>2
  <2>3. a * n = p * n + d * n
    BY <2>2
  <2>4. d * n \in Nat /\ p * n \in Nat
    OBVIOUS
  <2> QED
    BY <1>1, <2>3, <2>4
<1>3. a \in 0 .. p - 1 /\ b \in 0 .. n - 1 /\ i = FlatIndex(a, b, n)
  BY <1>1, <1>2 DEF FlatIndex
<1> HIDE DEF a, b
<1> QED
  BY <1>3

-----------------------------------------------------------------------------
(* Type correctness                                                        *)

(* A fresh array has the type its dimensions give it. *)
LEMMA ClearIsTyped ==
  ASSUME NEW p \in Nat, NEW n \in Nat
  PROVE  AllClear(p, n) \in [0 .. (p * n - 1) -> {0, 1}]
BY DEF AllClear

(* The inductive invariant: the types, and the counter that counts. *)
IInv == TypeOK /\ CountIsExact

(* Indices form a finite set, so the flags set can be counted. *)
LEMMA FlagsAreFinite ==
  ASSUME TypeOK
  PROVE  /\ IsFiniteSet(Indices)
         /\ Cardinality(Indices) = parcels * packets
         /\ IsFiniteSet(Flagged)
<1>1. parcels * packets \in Nat
  BY BoundsAssumption DEF TypeOK
<1>2. IsFiniteSet(Indices) /\ Cardinality(Indices) = parcels * packets
  BY <1>1, FS_Interval DEF Indices
<1>3. Flagged \in SUBSET Indices
  BY DEF Flagged
<1> QED
  BY <1>2, <1>3, FS_Subset

(* A cleared array has no flag set. *)
LEMMA ClearCountsZero ==
  ASSUME NEW p \in Nat, NEW n \in Nat,
         parcels' = p, packets' = n, checks' = AllClear(p, n), counter' = 0
  PROVE  CountIsExact'
<1>1. Flagged' = {}
  BY DEF Flagged, Indices, AllClear
<1> QED
  BY <1>1, FS_EmptySet DEF CountIsExact, getCount

-----------------------------------------------------------------------------
(* The steps                                                               *)

LEMMA InitStep ==
  ASSUME NEW p \in 1 .. MaxParcels, NEW n \in 1 .. MaxPackets, init(p, n)
  PROVE  IInv'
<1>1. p \in Nat /\ n \in Nat
  BY BoundsAssumption
<1>2. TypeOK'
  BY <1>1, ClearIsTyped DEF init, TypeOK, Indices
<1>3. CountIsExact'
  BY <1>1, ClearCountsZero DEF init
<1> QED
  BY <1>2, <1>3 DEF IInv

LEMMA SetStep ==
  ASSUME IInv, NEW a \in 0 .. parcels - 1, NEW b \in 0 .. packets - 1, set(a, b)
  PROVE  IInv'
<1> DEFINE i == FlatIndex(a, b, packets)
<1> USE DEF IInv
<1>0. parcels \in Nat /\ packets \in Nat
  BY BoundsAssumption DEF TypeOK
<1>1. i \in Indices
  BY <1>0, IndexInRange DEF Indices
<1>2. CASE UNCHANGED vars
  BY <1>2 DEF vars, TypeOK, CountIsExact, getCount, Flagged, Indices
<1>3. CASE /\ checks[i] # 1
           /\ checks' = [checks EXCEPT ![i] = 1]
           /\ counter' = counter + 1
           /\ UNCHANGED <<parcels, packets, passed>>
  <2>1. TypeOK'
    BY <1>1, <1>3 DEF TypeOK, Indices
  <2>2. Flagged' = Flagged \cup {i} /\ i \notin Flagged
    BY <1>1, <1>3 DEF TypeOK, Flagged, Indices
  <2>3. Cardinality(Flagged') = Cardinality(Flagged) + 1
    BY <2>2, FlagsAreFinite, FS_AddElement
  <2> QED
    BY <1>3, <2>1, <2>3 DEF CountIsExact, getCount
<1> QED
  BY <1>2, <1>3 DEF set

LEMMA ResetStep ==
  ASSUME IInv, NEW a \in 0 .. parcels - 1, NEW b \in 0 .. packets - 1, reset(a, b)
  PROVE  IInv'
<1> DEFINE i == FlatIndex(a, b, packets)
<1> USE DEF IInv
<1>0. parcels \in Nat /\ packets \in Nat
  BY BoundsAssumption DEF TypeOK
<1>1. i \in Indices
  BY <1>0, IndexInRange DEF Indices
<1>2. CASE UNCHANGED vars
  BY <1>2 DEF vars, TypeOK, CountIsExact, getCount, Flagged, Indices
<1>3. CASE /\ checks[i] # 0
           /\ checks' = [checks EXCEPT ![i] = 0]
           /\ counter' = counter - 1
           /\ UNCHANGED <<parcels, packets, passed>>
  <2>1. Flagged' = Flagged \ {i} /\ i \in Flagged
    BY <1>1, <1>3 DEF TypeOK, Flagged, Indices
  <2>2. Cardinality(Flagged') = Cardinality(Flagged) - 1
    BY <2>1, FlagsAreFinite, FS_RemoveElement
  <2>3. Cardinality(Flagged') \in Nat
    BY <2>1, FlagsAreFinite, FS_RemoveElement, FS_CardinalityType
  <2>4. TypeOK'
    BY <1>1, <1>3, <2>2, <2>3 DEF TypeOK, Indices, CountIsExact, getCount
  <2> QED
    BY <1>3, <2>2, <2>4 DEF CountIsExact, getCount
<1> QED
  BY <1>2, <1>3 DEF reset

LEMMA ResetAllStep ==
  ASSUME IInv, resetAll
  PROVE  IInv'
<1>0. parcels \in Nat /\ packets \in Nat
  BY BoundsAssumption DEF IInv, TypeOK
<1>1. TypeOK'
  BY <1>0, ClearIsTyped DEF IInv, resetAll, TypeOK, Indices
<1>2. CountIsExact'
  BY <1>0, ClearCountsZero DEF resetAll
<1> QED
  BY <1>1, <1>2 DEF IInv

LEMMA InitHolds == Init => IInv
<1> SUFFICES ASSUME Init PROVE IInv
  OBVIOUS
<1>1. PICK p \in 1 .. MaxParcels, n \in 1 .. MaxPackets :
        /\ parcels = p
        /\ packets = n
        /\ passed = p * n
        /\ checks = AllClear(p, n)
        /\ counter = 0
  BY DEF Init
<1>2. p \in Nat /\ n \in Nat
  BY BoundsAssumption
<1>3. TypeOK
  BY <1>1, <1>2, ClearIsTyped DEF TypeOK, Indices
<1>4. Flagged = {}
  BY <1>1 DEF Flagged, Indices, AllClear
<1> QED
  BY <1>1, <1>3, <1>4, FS_EmptySet DEF IInv, CountIsExact, getCount

LEMMA Invariance == Spec => []IInv
<1>1. Init => IInv
  BY InitHolds
<1>2. IInv /\ [Next]_vars => IInv'
  <2> SUFFICES ASSUME IInv, [Next]_vars PROVE IInv'
    OBVIOUS
  <2>1. ASSUME NEW p \in 1 .. MaxParcels, NEW n \in 1 .. MaxPackets, init(p, n)
        PROVE  IInv'
    BY <2>1, InitStep
  <2>2. ASSUME NEW pos \in Positions, set(pos[1], pos[2])
        PROVE  IInv'
    BY <2>2, SetStep DEF Positions
  <2>3. ASSUME NEW pos \in Positions, reset(pos[1], pos[2])
        PROVE  IInv'
    BY <2>3, ResetStep DEF Positions
  <2>4. CASE resetAll
    BY <2>4, ResetAllStep
  <2>5. CASE UNCHANGED vars
    BY <2>5 DEF vars, IInv, TypeOK, CountIsExact, getCount, Flagged, Indices
  <2> QED
    BY <2>1, <2>2, <2>3, <2>4, <2>5 DEF Next
<1> QED
  BY <1>1, <1>2, PTL DEF Spec

(* The array, the dimensions and the target count keep the sizes init()    *)
(* gives them, for every number of parcels and packets.                    *)
THEOREM TypeCorrect == Spec => []TypeOK
<1>1. IInv => TypeOK
  BY DEF IInv
<1> QED
  BY <1>1, Invariance, PTL

(* The counter checkAll() reads is always the number of flags set: no      *)
(* duplicate is counted twice and no reset is forgotten.                   *)
THEOREM CountCorrect == Spec => []CountIsExact
<1>1. IInv => CountIsExact
  BY DEF IInv
<1> QED
  BY <1>1, Invariance, PTL

(* The counter reaches the target exactly when all flags are set. *)
LEMMA CounterTells == IInv => CompleteIsExact
<1> SUFFICES ASSUME IInv PROVE CompleteIsExact
  OBVIOUS
<1>0. /\ parcels \in Nat
      /\ packets \in Nat \ {0}
  BY BoundsAssumption DEF IInv, TypeOK
<1>1. checkAll <=> Cardinality(Flagged) = Cardinality(Indices)
  BY FlagsAreFinite DEF IInv, TypeOK, CountIsExact, getCount, checkAll
<1>2. Flagged \in SUBSET Indices
  BY DEF Flagged
<1>3. checkAll <=> Flagged = Indices
  BY <1>1, <1>2, FlagsAreFinite, FS_Subset DEF IInv
<1>4. (\A i \in Indices : checks[i] = 1)
        <=> \A pos \in Positions : check(pos[1], pos[2]) = 1
  <2>1. ASSUME \A i \in Indices : checks[i] = 1, NEW pos \in Positions
        PROVE  check(pos[1], pos[2]) = 1
    <3>1. FlatIndex(pos[1], pos[2], packets) \in Indices
      BY <1>0, IndexInRange DEF Positions, Indices
    <3> QED
      BY <2>1, <3>1 DEF check
  <2>2. ASSUME \A pos \in Positions : check(pos[1], pos[2]) = 1, NEW i \in Indices
        PROVE  checks[i] = 1
    <3>1. PICK a \in 0 .. parcels - 1, b \in 0 .. packets - 1 :
            i = FlatIndex(a, b, packets)
      BY <1>0, IndexIsSome DEF Indices
    <3>2. <<a, b>> \in Positions
      BY DEF Positions
    <3>3. check(a, b) = 1
      BY <2>2, <3>2
    <3> QED
      BY <3>1, <3>3 DEF check
  <2> QED
    BY <2>1, <2>2
<1>5. Flagged = Indices <=> \A i \in Indices : checks[i] = 1
  BY DEF Flagged
<1> QED
  BY <1>3, <1>4, <1>5 DEF CompleteIsExact

(* Completion by counter is completion by flags: checkAll() may skip the   *)
(* comparison of the arrays, for every number of parcels and packets.      *)
THEOREM CompleteCorrect == Spec => []CompleteIsExact
BY CounterTells, Invariance, PTL

(* The settings of the geometry, with the image's size kept up to date by  *)
(* the setters (Resized).                                                  *)
Geometry(c) ==
  /\ c.ppc \in [Axes -> Nat] /\ c.cps \in [Axes -> Nat] /\ c.spi \in [Axes -> Nat]
  /\ c.size = [a \in Axes |-> c.ppc[a] * c.cps[a] * c.spi[a]]

-----------------------------------------------------------------------------
(* Positional notation *)

(* A larger second digit is worth at least one more m. *)
LEMMA Monotone ==
  ASSUME NEW m \in Nat, NEW b1 \in Nat, NEW b2 \in Nat, b1 < b2
  PROVE  b1 * m + m <= b2 * m
<1>1. PICK k \in Nat : b2 = b1 + 1 + k
  <2>1. b2 - b1 - 1 \in Nat /\ b2 = b1 + 1 + (b2 - b1 - 1)
    OBVIOUS
  <2> QED BY <2>1
<1>2. b2 * m = b1 * m + m + k * m
  BY <1>1
<1>3. k * m \in Nat /\ b1 * m \in Nat
  OBVIOUS
<1> QED BY <1>2, <1>3

(* Two digits, the first below m, make a number in one way only. *)
LEMMA Digits ==
  ASSUME NEW m \in Nat, NEW a1 \in 0 .. m - 1, NEW a2 \in 0 .. m - 1,
         NEW b1 \in Nat, NEW b2 \in Nat, a1 + b1 * m = a2 + b2 * m
  PROVE  a1 = a2 /\ b1 = b2
<1>1. b1 * m \in Nat /\ b2 * m \in Nat
  OBVIOUS
<1>2. ~(b1 < b2)
  BY <1>1, Monotone
<1>3. ~(b2 < b1)
  BY <1>1, Monotone
<1>4. b1 = b2
  BY <1>2, <1>3
<1> QED BY <1>1, <1>4

(* and the number is below the product. *)
LEMMA Place ==
  ASSUME NEW m \in Nat, NEW n \in Nat, NEW a \in 0 .. m - 1, NEW b \in 0 .. n - 1
  PROVE  a + b * m \in 0 .. m * n - 1
<1>1. b * m + m <= n * m
  BY Monotone
<1>2. b * m \in Nat /\ n * m = m * n /\ m * n \in Nat
  OBVIOUS
<1> QED BY <1>1, <1>2

(* Every number below a product has its two digits. *)
LEMMA Division ==
  ASSUME NEW m \in Nat, NEW n \in Nat, NEW v \in 0 .. m * n - 1
  PROVE  /\ m > 0 /\ v % m \in 0 .. m - 1 /\ v \div m \in 0 .. n - 1
         /\ v = (v % m) + (v \div m) * m
<1>1. m * n \in Nat /\ (m = 0 => m * n = 0)
  OBVIOUS
<1>2. m > 0 /\ v \in Nat
  BY <1>1
<1>3. v = m * (v \div m) + (v % m) /\ v % m \in 0 .. m - 1 /\ v \div m \in Nat
  BY <1>2, SMT
<1> DEFINE q == v \div m
           r == v % m
<1>4. q \in Nat /\ r \in 0 .. m - 1 /\ v = m * q + r
  BY <1>3
<1> HIDE DEF q, r
<1>5. m * q = q * m /\ q * m \in Nat /\ n * m = m * n /\ n * m \in Nat
  BY <1>4
<1>6. q < n
  <2>1. CASE n < q
    <3>1. n * m + m <= q * m
      BY <1>4, <2>1, Monotone
    <3> QED BY <1>1, <1>4, <1>5, <3>1
  <2>2. CASE n = q
    BY <1>1, <1>4, <1>5, <2>2
  <2> QED BY <1>4, <2>1, <2>2
<1> QED BY <1>2, <1>4, <1>5, <1>6 DEF q, r

-----------------------------------------------------------------------------
(* Addresses *)

(* The address of a step counts from a first digit within the stripe: the  *)
(* stripe and the row are the next two.                                    *)
Within(c, a, s) == a + s.stripe * StripeWidth(c) + s.row * RowWidth(c)

LEMMA WithinImage ==
  ASSUME NEW c, Geometry(c), NEW s \in Steps(c), NEW a \in 0 .. StripeWidth(c) - 1
  PROVE  Within(c, a, s) \in Addresses(c)
<1> DEFINE w == StripeWidth(c)
           n == c.spi["x"]
           r == Rows(c)
<1>1. w \in Nat /\ n \in Nat /\ r \in Nat
  BY DEF Geometry, StripeWidth, Rows, Axes
<1>2. s.stripe \in 0 .. n - 1 /\ s.row \in 0 .. r - 1
  BY DEF Steps
<1>3. RowWidth(c) = w * n /\ w * n \in Nat
  BY <1>1 DEF RowWidth
<1>4. a + s.stripe * w \in 0 .. w * n - 1
  BY <1>1, <1>2, Place
<1>5. (a + s.stripe * w) + s.row * (w * n) \in 0 .. (w * n) * r - 1
  BY <1>1, <1>2, <1>3, <1>4, Place
<1>6. Pixels(c) = (w * n) * r
  BY DEF Geometry, Pixels, StripeWidth, Rows, Axes
<1> QED BY <1>3, <1>5, <1>6 DEF Within, Addresses

LEMMA WithinUnique ==
  ASSUME NEW c, Geometry(c), NEW s \in Steps(c), NEW t \in Steps(c),
         NEW a \in 0 .. StripeWidth(c) - 1, NEW b \in 0 .. StripeWidth(c) - 1,
         Within(c, a, s) = Within(c, b, t)
  PROVE  a = b /\ s.stripe = t.stripe /\ s.row = t.row
<1> DEFINE w == StripeWidth(c)
           n == c.spi["x"]
<1>1. w \in Nat /\ n \in Nat /\ w * n \in Nat
  BY DEF Geometry, StripeWidth, Axes
<1>2. /\ s.stripe \in 0 .. n - 1 /\ s.row \in Nat
      /\ t.stripe \in 0 .. n - 1 /\ t.row \in Nat
  BY DEF Steps
<1>3. /\ a + s.stripe * w \in 0 .. w * n - 1
      /\ b + t.stripe * w \in 0 .. w * n - 1
  BY <1>1, <1>2, Place
<1>4. (a + s.stripe * w) + s.row * (w * n) = (b + t.stripe * w) + t.row * (w * n)
  BY DEF Within, RowWidth
<1> HIDE DEF w, n
<1>5. a + s.stripe * w = b + t.stripe * w /\ s.row = t.row
  <2> DEFINE m == w * n
             x == a + s.stripe * w
             y == b + t.stripe * w
             k == s.row
             l == t.row
  <2>1. m \in Nat /\ x \in 0 .. m - 1 /\ y \in 0 .. m - 1
    BY <1>1, <1>3
  <2>2. x + k * m = y + l * m /\ k \in Nat /\ l \in Nat
    BY <1>2, <1>4
  <2> HIDE DEF m, x, y, k, l
  <2>3. x = y /\ k = l
    BY <2>1, <2>2, Digits
  <2> QED BY <2>3 DEF x, y, k, l
<1>6. a \in 0 .. w - 1 /\ b \in 0 .. w - 1
  BY DEF w
<1>7. a = b /\ s.stripe = t.stripe
  BY <1>1, <1>2, <1>5, <1>6, Digits
<1> QED BY <1>5, <1>7

(* The first digit: chip and pixel, and the other way round. *)
LEMMA DestWithin ==
  ASSUME NEW c, Geometry(c), NEW s \in Steps(c)
  PROVE  /\ s.chip + s.pixel * c.cps["x"] \in 0 .. StripeWidth(c) - 1
         /\ Dest(c, s) = Within(c, s.chip + s.pixel * c.cps["x"], s)
<1>1. c.ppc["x"] \in Nat /\ c.cps["x"] \in Nat
  BY DEF Geometry, Axes
<1>2. s.chip \in 0 .. c.cps["x"] - 1 /\ s.pixel \in 0 .. c.ppc["x"] - 1
  BY DEF Steps
<1>3. s.chip + s.pixel * c.cps["x"] \in 0 .. c.cps["x"] * c.ppc["x"] - 1
  BY <1>1, <1>2, Place
<1>4. c.cps["x"] * c.ppc["x"] = StripeWidth(c)
  BY <1>1 DEF StripeWidth
<1> QED BY <1>3, <1>4 DEF Dest, Within

LEMMA SourceWithin ==
  ASSUME NEW c, Geometry(c), NEW s \in Steps(c)
  PROVE  /\ s.pixel + s.chip * c.ppc["x"] \in 0 .. StripeWidth(c) - 1
         /\ Source(c, s) = Within(c, s.pixel + s.chip * c.ppc["x"], s)
<1>1. c.ppc["x"] \in Nat /\ c.cps["x"] \in Nat
  BY DEF Geometry, Axes
<1>2. s.chip \in 0 .. c.cps["x"] - 1 /\ s.pixel \in 0 .. c.ppc["x"] - 1
  BY DEF Steps
<1>3. s.pixel + s.chip * c.ppc["x"] \in 0 .. c.ppc["x"] * c.cps["x"] - 1
  BY <1>1, <1>2, Place
<1>4. s.chip * c.ppc["x"] + s.pixel = s.pixel + s.chip * c.ppc["x"]
  BY <1>1, <1>2
<1> QED BY <1>3, <1>4 DEF Source, Within, StripeWidth

(* No two steps of the loops write the same address, or read one. *)
LEMMA StepsApart ==
  ASSUME NEW c, Geometry(c), NEW s \in Steps(c), NEW t \in Steps(c),
         Dest(c, s) = Dest(c, t) \/ Source(c, s) = Source(c, t)
  PROVE  s = t
<1>1. /\ c.ppc["x"] \in Nat /\ c.cps["x"] \in Nat
      /\ s.chip \in 0 .. c.cps["x"] - 1 /\ s.pixel \in 0 .. c.ppc["x"] - 1
      /\ t.chip \in 0 .. c.cps["x"] - 1 /\ t.pixel \in 0 .. c.ppc["x"] - 1
  BY DEF Geometry, Axes, Steps
<1>2. CASE Dest(c, s) = Dest(c, t)
  <2>1. /\ s.chip + s.pixel * c.cps["x"] = t.chip + t.pixel * c.cps["x"]
        /\ s.stripe = t.stripe /\ s.row = t.row
    BY <1>2, DestWithin, WithinUnique
  <2> DEFINE m == c.cps["x"]
             i == s.chip
             j == t.chip
             k == s.pixel
             l == t.pixel
  <2>2. /\ m \in Nat /\ i \in 0 .. m - 1 /\ j \in 0 .. m - 1
        /\ k \in Nat /\ l \in Nat /\ i + k * m = j + l * m
    BY <1>1, <2>1
  <2> HIDE DEF m, i, j, k, l
  <2>3. i = j /\ k = l
    BY <2>2, Digits
  <2>4. s.chip = t.chip /\ s.pixel = t.pixel
    BY <2>3 DEF i, j, k, l
  <2> QED BY <2>1, <2>4 DEF Steps
<1>3. CASE Source(c, s) = Source(c, t)
  <2>1. /\ s.pixel + s.chip * c.ppc["x"] = t.pixel + t.chip * c.ppc["x"]
        /\ s.stripe = t.stripe /\ s.row = t.row
    BY <1>3, SourceWithin, WithinUnique
  <2> DEFINE m == c.ppc["x"]
             i == s.pixel
             j == t.pixel
             k == s.chip
             l == t.chip
  <2>2. /\ m \in Nat /\ i \in 0 .. m - 1 /\ j \in 0 .. m - 1
        /\ k \in Nat /\ l \in Nat /\ i + k * m = j + l * m
    BY <1>1, <2>1
  <2> HIDE DEF m, i, j, k, l
  <2>3. i = j /\ k = l
    BY <2>2, Digits
  <2>4. s.chip = t.chip /\ s.pixel = t.pixel
    BY <2>3 DEF i, j, k, l
  <2> QED BY <2>1, <2>4 DEF Steps
<1> QED BY <1>2, <1>3

(* Every address of the image is written by some step. *)
LEMMA EveryAddress ==
  ASSUME NEW c, Geometry(c), NEW d \in Addresses(c)
  PROVE  \E row \in 0 .. Rows(c) - 1, stripe \in 0 .. c.spi["x"] - 1,
            y \in 0 .. StripeWidth(c) - 1 :
              d = y + stripe * StripeWidth(c) + row * RowWidth(c)
<1> DEFINE w == StripeWidth(c)
           n == c.spi["x"]
           r == Rows(c)
           row == d \div (w * n)
           x == d % (w * n)
<1>1. w \in Nat /\ n \in Nat /\ r \in Nat /\ w * n \in Nat /\ RowWidth(c) = w * n
  BY DEF Geometry, StripeWidth, Rows, Axes, RowWidth
<1>2. d \in 0 .. (w * n) * r - 1
  BY DEF Geometry, Addresses, Pixels, StripeWidth, Rows, Axes
<1> HIDE DEF w, n, r
<1>3. row \in 0 .. r - 1 /\ x \in 0 .. w * n - 1 /\ d = x + row * (w * n)
  BY <1>1, <1>2, Division
<1> HIDE DEF row, x
<1>4. x \div w \in 0 .. n - 1 /\ x % w \in 0 .. w - 1 /\ x = (x % w) + (x \div w) * w
  BY <1>1, <1>3, Division
<1>5. d = (x % w) + (x \div w) * w + row * RowWidth(c)
  BY <1>1, <1>3, <1>4
<1> QED BY <1>3, <1>4, <1>5 DEF w, n, r

LEMMA EveryAddressWritten ==
  ASSUME NEW c, Geometry(c), NEW d \in Addresses(c)
  PROVE  \E s \in Steps(c) : Dest(c, s) = d
<1>1. PICK row \in 0 .. Rows(c) - 1, stripe \in 0 .. c.spi["x"] - 1,
           y \in 0 .. StripeWidth(c) - 1 :
             d = y + stripe * StripeWidth(c) + row * RowWidth(c)
  BY EveryAddress
<1>2. c.cps["x"] \in Nat /\ c.ppc["x"] \in Nat /\ StripeWidth(c) = c.cps["x"] * c.ppc["x"]
  BY DEF Geometry, Axes, StripeWidth
<1>3. /\ y % c.cps["x"] \in 0 .. c.cps["x"] - 1 /\ y \div c.cps["x"] \in 0 .. c.ppc["x"] - 1
      /\ y = (y % c.cps["x"]) + (y \div c.cps["x"]) * c.cps["x"]
  BY <1>2, Division
<1> DEFINE s == [row |-> row, stripe |-> stripe, pixel |-> y \div c.cps["x"],
                 chip |-> y % c.cps["x"]]
<1>4. s \in Steps(c)
  BY <1>3 DEF Steps
<1>5. Dest(c, s) = d
  BY <1>1, <1>3 DEF Dest
<1> QED BY <1>4, <1>5

(* and read by some step. *)
LEMMA EveryAddressRead ==
  ASSUME NEW c, Geometry(c), NEW d \in Addresses(c)
  PROVE  \E s \in Steps(c) : Source(c, s) = d
<1>1. PICK row \in 0 .. Rows(c) - 1, stripe \in 0 .. c.spi["x"] - 1,
           y \in 0 .. StripeWidth(c) - 1 :
             d = y + stripe * StripeWidth(c) + row * RowWidth(c)
  BY EveryAddress
<1>2. c.cps["x"] \in Nat /\ c.ppc["x"] \in Nat /\ StripeWidth(c) = c.ppc["x"] * c.cps["x"]
  BY DEF Geometry, Axes, StripeWidth
<1>3. /\ y % c.ppc["x"] \in 0 .. c.ppc["x"] - 1 /\ y \div c.ppc["x"] \in 0 .. c.cps["x"] - 1
      /\ y = (y % c.ppc["x"]) + (y \div c.ppc["x"]) * c.ppc["x"]
  BY <1>2, Division
<1> DEFINE s == [row |-> row, stripe |-> stripe, pixel |-> y % c.ppc["x"],
                 chip |-> y \div c.ppc["x"]]
<1>4. s \in Steps(c)
  BY <1>3 DEF Steps
<1>5. (y % c.ppc["x"]) + (y \div c.ppc["x"]) * c.ppc["x"]
        = (y \div c.ppc["x"]) * c.ppc["x"] + (y % c.ppc["x"])
  BY <1>2, <1>3
<1>6. Source(c, s) = d
  BY <1>1, <1>3, <1>5 DEF Source
<1> QED BY <1>4, <1>6

-----------------------------------------------------------------------------

(* The loops of generateScrambledImage() stay inside the image, and the    *)
(* descramble table they make leads from the address a step writes to the  *)
(* one it reads: no later step overwrites the entry.                       *)
THEOREM TableLeadsBack ==
  ASSUME NEW c, Geometry(c), NEW s \in Steps(c)
  PROVE  /\ Dest(c, s) \in Addresses(c) /\ Source(c, s) \in Addresses(c)
         /\ Descramble(c)[Dest(c, s)] = Source(c, s)
<1>1. Dest(c, s) \in Addresses(c)
  BY DestWithin, WithinImage
<1>2. Source(c, s) \in Addresses(c)
  BY SourceWithin, WithinImage
<1>3. (CHOOSE t \in Steps(c) : Dest(c, t) = Dest(c, s)) = s
  BY StepsApart
<1>4. Descramble(c)[Dest(c, s)] = Source(c, CHOOSE t \in Steps(c) : Dest(c, t) = Dest(c, s))
  BY <1>1 DEF Descramble
<1> QED BY <1>1, <1>2, <1>3, <1>4

(* The table is a permutation of the addresses: it gives no pixel of the   *)
(* image to two addresses and leaves none out, so descrambling with it     *)
(* loses none.                                                             *)
THEOREM TableIsPermutation ==
  ASSUME NEW c, Geometry(c)
  PROVE  /\ \A d \in Addresses(c) : Descramble(c)[d] \in Addresses(c)
         /\ \A d, e \in Addresses(c) : Descramble(c)[d] = Descramble(c)[e] => d = e
         /\ \A a \in Addresses(c) : \E d \in Addresses(c) : Descramble(c)[d] = a
<1>1. ASSUME NEW d \in Addresses(c)
      PROVE  Descramble(c)[d] \in Addresses(c)
  BY EveryAddressWritten, TableLeadsBack
<1>2. ASSUME NEW d \in Addresses(c), NEW e \in Addresses(c),
             Descramble(c)[d] = Descramble(c)[e]
      PROVE  d = e
  <2>1. PICK s \in Steps(c) : Dest(c, s) = d
    BY EveryAddressWritten
  <2>2. PICK t \in Steps(c) : Dest(c, t) = e
    BY EveryAddressWritten
  <2>3. Source(c, s) = Source(c, t)
    BY <1>2, <2>1, <2>2, TableLeadsBack
  <2> QED BY <2>1, <2>2, <2>3, StepsApart
<1>3. ASSUME NEW a \in Addresses(c)
      PROVE  \E d \in Addresses(c) : Descramble(c)[d] = a
  <2>1. PICK s \in Steps(c) : Source(c, s) = a
    BY EveryAddressRead
  <2> QED BY <2>1, TableLeadsBack
<1> QED BY <1>1, <1>2, <1>3

-----------------------------------------------------------------------------

(* Recomputing the axis whose factor was set brings the size up to date. *)
LEMMA ResizedGeometry ==
  ASSUME NEW c \in Objects, NEW a \in Axes,
         \A b \in Axes \ {a} : c.size[b] = c.ppc[b] * c.cps[b] * c.spi[b]
  PROVE  Resized(c, a) \in Objects /\ Geometry(Resized(c, a))
<1> DEFINE n == c.ppc[a] * c.cps[a] * c.spi[a]
           d == Resized(c, a)
<1>1. n \in Nat
  BY DEF Objects
<1>2. d = [c EXCEPT !.size = [c.size EXCEPT ![a] = n]]
  BY DEF Resized, Objects
<1> HIDE DEF n
<1>3. d \in Objects /\ d.ppc = c.ppc /\ d.cps = c.cps /\ d.spi = c.spi
      /\ d.size = [c.size EXCEPT ![a] = n]
  BY <1>1, <1>2 DEF Objects
<1> HIDE DEF d
<1>4. \A b \in Axes : d.size[b] = d.ppc[b] * d.cps[b] * d.spi[b]
  BY <1>3 DEF n, Objects
<1>5. d.size \in [Axes -> Nat]
  BY <1>3 DEF Objects
<1>6. d.size = [b \in Axes |-> d.ppc[b] * d.cps[b] * d.spi[b]]
  BY <1>4, <1>5
<1>7. Geometry(d)
  BY <1>3, <1>6 DEF Geometry, Objects
<1> QED BY <1>3, <1>7 DEF d

(* The size of the images is the product of the geometry after every setter*)
(* of the geometry, whichever it is and whichever axis it sets: what the   *)
(* theorems above ask of an object holds as long as it exists.             *)
THEOREM SettersKeepGeometry ==
  ASSUME NEW c \in Objects, Geometry(c), NEW a \in Axes, NEW n \in Nat
  PROVE  /\ Geometry(setPixelsPerChip(c, a, n)) /\ Geometry(setChipsPerBlock(c, a, n))
         /\ Geometry(setBlocksPerStripe(c, a, n)) /\ Geometry(setStripesPerImage(c, a, n))
<1>1. \A b \in Axes : c.size[b] = c.ppc[b] * c.cps[b] * c.spi[b]
  BY DEF Geometry
<1>2. Geometry(setPixelsPerChip(c, a, n))
  <2> DEFINE d == [c EXCEPT !.ppc[a] = n]
  <2>1. d \in Objects /\ \A b \in Axes \ {a} : d.size[b] = d.ppc[b] * d.cps[b] * d.spi[b]
    BY <1>1 DEF Objects
  <2> HIDE DEF d
  <2>2. Geometry(Resized(d, a))
    BY <2>1, ResizedGeometry
  <2> QED BY <2>2 DEF d, setPixelsPerChip
<1>3. Geometry(setStripesPerImage(c, a, n))
  <2> DEFINE d == [c EXCEPT !.spi[a] = n]
  <2>1. d \in Objects /\ \A b \in Axes \ {a} : d.size[b] = d.ppc[b] * d.cps[b] * d.spi[b]
    BY <1>1 DEF Objects
  <2> HIDE DEF d
  <2>2. Geometry(Resized(d, a))
    BY <2>1, ResizedGeometry
  <2> QED BY <2>2 DEF d, setStripesPerImage
<1>4. ASSUME NEW d \in Objects,
             \A b \in Axes \ {a} : d.size[b] = d.ppc[b] * d.cps[b] * d.spi[b]
      PROVE  Geometry(Restriped(d, a))
  <2> DEFINE e == [d EXCEPT !.cps[a] = d.cpb[a] * d.bps[a]]
  <2>1. d.cpb[a] * d.bps[a] \in Nat
    BY DEF Objects
  <2>2. e \in Objects /\ \A b \in Axes \ {a} : e.size[b] = e.ppc[b] * e.cps[b] * e.spi[b]
    BY <1>4, <2>1 DEF Objects
  <2> HIDE DEF e
  <2>3. Geometry(Resized(e, a))
    BY <2>2, ResizedGeometry
  <2> QED BY <2>3 DEF e, Restriped
<1>5. Geometry(setChipsPerBlock(c, a, n))
  <2> DEFINE d == [c EXCEPT !.cpb[a] = n]
  <2>1. d \in Objects /\ \A b \in Axes \ {a} : d.size[b] = d.ppc[b] * d.cps[b] * d.spi[b]
    BY <1>1 DEF Objects
  <2> HIDE DEF d
  <2>2. Geometry(Restriped(d, a))
    BY <1>4, <2>1
  <2> QED BY <2>2 DEF d, setChipsPerBlock
<1>6. Geometry(setBlocksPerStripe(c, a, n))
  <2> DEFINE d == [c EXCEPT !.bps[a] = n]
  <2>1. d \in Objects /\ \A b \in Axes \ {a} : d.size[b] = d.ppc[b] * d.cps[b] * d.spi[b]
    BY <1>1 DEF Objects
  <2> HIDE DEF d
  <2>2. Geometry(Restriped(d, a))
    BY <1>4, <2>1
  <2> QED BY <2>2 DEF d, setBlocksPerStripe
<1> QED BY <1>2, <1>3, <1>5, <1>6

-----------------------------------------------------------------------------
(* Recovering the image *)

(* A value is 2048 q + 8 l + m. *)
LEMMA Parts ==
  ASSUME NEW v \in Nat, v < 32768
  PROVE  \E q \in 0 .. 15 :
           /\ (v \div 8) % 256 \in 0 .. 255 /\ v % 8 \in 0 .. 7
           /\ v = 2048 * q + 8 * ((v \div 8) % 256) + (v % 8)
<1> DEFINE t == v \div 8
           q == t \div 256
<1>1. v = 8 * t + (v % 8) /\ v % 8 \in 0 .. 7 /\ t \in Nat
  BY SMT
<1> HIDE DEF t
<1>2. t = 256 * q + (t % 256) /\ t % 256 \in 0 .. 255 /\ q \in Nat
  BY <1>1, SMT
<1> HIDE DEF q
<1> DEFINE l == t % 256
           m == v % 8
<1>3. l \in 0 .. 255 /\ m \in 0 .. 7 /\ q \in Nat /\ v = 2048 * q + 8 * l + m
  BY <1>1, <1>2
<1> HIDE DEF l, m
<1>4. q \in 0 .. 15
  BY <1>3
<1>5. l = (v \div 8) % 256
  BY DEF l, t
<1> QED BY <1>3, <1>4, <1>5 DEF m

(* The value a pixel decodes to is the one it had, less the low three bits *)
(* that the fine ADC does not count; its gain bits tell the gain.          *)
THEOREM ValueRecovered ==
  ASSUME NEW v \in Nat, v < 32768
  PROVE  /\ applyGains(v) \in Nat /\ applyGains(v) < 32768
         /\ Decode(applyGains(v)) = v - (v % 8)
         /\ Gain(applyGains(v)) = GainOf(v)
<1> DEFINE l == (v \div 8) % 256
           m == v % 8
           g == GainOf(v)
<1>1. PICK q \in 0 .. 15 : l \in 0 .. 255 /\ m \in 0 .. 7 /\ v = 2048 * q + 8 * l + m
  BY Parts
<1>2. g \in 0 .. 3
  BY DEF GainOf, GainThresholds
<1>3. applyGains(v) = g + l * 4 + (((v - 8 * l) \div 1024) % 32) * 1024
  BY DEF applyGains, LowGain, HighGain
<1> HIDE DEF l, m, g
<1>4. v - 8 * l = m + (2 * q) * 1024
  BY <1>1
<1>5. (v - 8 * l) \div 1024 = 2 * q
  BY <1>1, <1>4, SMT
<1>6. 2 * q \in 0 .. 31
  BY <1>1
<1> DEFINE c == 2 * q
<1>7. c \in 0 .. 31 /\ c % 32 = c
  BY <1>6, SMT
<1>8. applyGains(v) = g + l * 4 + c * 1024
  BY <1>3, <1>5, <1>7
<1>9. v = 1024 * c + 8 * l + m
  BY <1>1
<1> HIDE DEF c
<1> DEFINE p == applyGains(v)
<1> HIDE DEF p
(* two bits of gain, eight of fine ADC and five of coarse ADC come apart *)
<1>10. p % 4 = g /\ (p \div 4) % 256 = l /\ (p \div 1024) % 32 = c /\ p \in Nat /\ p < 32768
  <2>1. p = g + l * 4 + c * 1024 /\ g \in 0 .. 3 /\ l \in 0 .. 255 /\ c \in 0 .. 31
    BY <1>1, <1>2, <1>7, <1>8 DEF p
  <2> HIDE DEF p
  <2>2. p % 4 = g /\ p \div 4 = l + c * 256
    BY <2>1, SMT
  <2>3. (l + c * 256) % 256 = l
    BY <2>1, SMT
  <2>4. p \div 1024 = c
    BY <2>1, SMT
  <2>5. p \in Nat /\ p < 32768
    BY <2>1
  <2> QED BY <1>7, <2>2, <2>3, <2>4, <2>5
<1>11. Decode(p) = c * 1024 + l * 8
  BY <1>10 DEF Decode, LowGain, HighGain
<1>12. Decode(p) = v - m
  BY <1>1, <1>7, <1>9, <1>11
<1>13. Gain(p) = g
  BY <1>10 DEF Gain
<1> QED BY <1>10, <1>12, <1>13 DEF p, m, g

-----------------------------------------------------------------------------

(* Points that go to places of their own are all there afterwards, and     *)
(* what is not the place of any point is as it was.                        *)
LEMMA WrittenApart ==
  ASSUME NEW out, NEW n \in Nat, NEW target, NEW value,
         \A j, k \in 0 .. n - 1 : target[j] = target[k] => j = k
  PROVE  /\ \A k \in 0 .. n - 1 : target[k] \in DOMAIN out =>
              Written(out, n, target, value)[target[k]] = value[k]
         /\ \A a \in DOMAIN out : (\A k \in 0 .. n - 1 : target[k] # a) =>
              Written(out, n, target, value)[a] = out[a]
<1>1. ASSUME NEW k \in 0 .. n - 1, target[k] \in DOMAIN out
      PROVE  Written(out, n, target, value)[target[k]] = value[k]
  <2> DEFINE writers == {j \in 0 .. n - 1 : target[j] = target[k]}
  <2>1. writers = {k}
    OBVIOUS
  <2>2. k <= k
    OBVIOUS
  <2> HIDE DEF writers
  <2>3. (CHOOSE j \in writers : \A i \in writers : i <= j) = k
    BY <2>1, <2>2
  <2>4. Written(out, n, target, value)[target[k]] =
          IF writers = {} THEN out[target[k]]
          ELSE value[CHOOSE j \in writers : \A i \in writers : i <= j]
    BY <1>1 DEF Written, writers
  <2> QED BY <2>1, <2>3, <2>4
<1>2. ASSUME NEW a \in DOMAIN out, \A k \in 0 .. n - 1 : target[k] # a
      PROVE  Written(out, n, target, value)[a] = out[a]
  <2>1. {k \in 0 .. n - 1 : target[k] = a} = {}
    BY <1>2
  <2> QED BY <2>1 DEF Written
<1> QED BY <1>1, <1>2

(* A sub-frame inside an image of w columns and h rows. *)
Inside(r, w, h) ==
  /\ w \in Nat /\ h \in Nat
  /\ r.tlx \in Nat /\ r.brx \in r.tlx .. w - 1
  /\ r.tly \in Nat /\ r.bry \in r.tly .. h - 1

(* Its points have addresses of their own in the image. *)
LEMMA PointsApart ==
  ASSUME NEW r, NEW w, NEW h, Inside(r, w, h)
  PROVE  /\ PixelsOf(r) \in Nat
         /\ \A k \in 0 .. PixelsOf(r) - 1 : InFrame(r, k, w) \in 0 .. w * h - 1
         /\ \A j, k \in 0 .. PixelsOf(r) - 1 : InFrame(r, j, w) = InFrame(r, k, w) => j = k
<1> DEFINE v == WidthOf(r)
           u == HeightOf(r)
           X(k) == r.tlx + (k % v)
           Y(k) == r.tly + (k \div v)
<1>1. /\ v \in Nat \ {0} /\ u \in Nat \ {0} /\ r.tlx \in Nat /\ r.tly \in Nat
      /\ r.tlx + v <= w /\ r.tly + u <= h /\ w \in Nat /\ h \in Nat
  BY DEF Inside, WidthOf, HeightOf
<1>2. PixelsOf(r) = v * u /\ v * u \in Nat
  BY <1>1 DEF PixelsOf
<1>3. \A k : InFrame(r, k, w) = Y(k) * w + r.tlx + (k % v)
  BY DEF InFrame
<1> HIDE DEF v, u
<1>4. ASSUME NEW k \in 0 .. v * u - 1
      PROVE  /\ k % v \in 0 .. v - 1 /\ k \div v \in 0 .. u - 1
             /\ k = (k % v) + (k \div v) * v
             /\ X(k) \in 0 .. w - 1 /\ Y(k) \in 0 .. h - 1
             /\ InFrame(r, k, w) = X(k) + Y(k) * w
  <2>1. /\ k % v \in 0 .. v - 1 /\ k \div v \in 0 .. u - 1
        /\ k = (k % v) + (k \div v) * v
    BY <1>1, Division
  <2>2. X(k) \in 0 .. w - 1 /\ Y(k) \in 0 .. h - 1
    BY <1>1, <2>1
  <2>3. Y(k) * w \in Nat
    BY <1>1, <2>2
  <2>4. InFrame(r, k, w) = X(k) + Y(k) * w
    BY <1>1, <1>3, <2>1, <2>3
  <2> QED BY <2>1, <2>2, <2>4
<1>5. ASSUME NEW k \in 0 .. v * u - 1
      PROVE  InFrame(r, k, w) \in 0 .. w * h - 1
  <2> DEFINE a == X(k)
             d == Y(k)
  <2>1. a \in 0 .. w - 1 /\ d \in 0 .. h - 1 /\ InFrame(r, k, w) = a + d * w
    BY <1>4
  <2> HIDE DEF a, d
  <2>2. a + d * w \in 0 .. w * h - 1
    BY <1>1, <2>1, Place
  <2> QED BY <2>1, <2>2
<1>6. ASSUME NEW j \in 0 .. v * u - 1, NEW k \in 0 .. v * u - 1,
             InFrame(r, j, w) = InFrame(r, k, w)
      PROVE  j = k
  <2> DEFINE a == X(j)
             b == X(k)
             d == Y(j)
             e == Y(k)
  <2>1. a \in 0 .. w - 1 /\ b \in 0 .. w - 1 /\ d \in Nat /\ e \in Nat /\ a + d * w = b + e * w
    BY <1>4, <1>6
  <2> HIDE DEF a, b, d, e
  <2>2. a = b /\ d = e
    BY <1>1, <2>1, Digits
  <2>3. j % v = k % v /\ j \div v = k \div v
    BY <1>1, <1>4, <2>2 DEF a, b, d, e
  <2> QED BY <1>4, <2>3
<1> QED BY <1>2, <1>5, <1>6

(* Temporal mode, descramble 1, without a reset frame: a sub-frame of the  *)
(* scrambled image puts at their own places in the full image the values   *)
(* of the pixels that the configurator had scrambled to it, less their low *)
(* three bits, wherever the sub-frame lies, and leaves the other places    *)
(* alone: sub-frames that share no point do not disturb each other.        *)
THEOREM SubFrameRecovered ==
  ASSUME NEW c, Geometry(c), NEW raw, NEW out, NEW dark, NEW r,
         \A a \in Addresses(c) : raw[a] \in Nat /\ raw[a] < 32768,
         DOMAIN out = Addresses(c),
         \A a \in Addresses(c) : dark[a] = Unset,
         Inside(r, c.size["x"], c.size["y"])
  PROVE  LET table == Descramble(c)
             w     == c.size["x"]
             scrambled == [d \in Addresses(c) |-> applyGains(raw[table[d]])]
             section   == [k \in 0 .. PixelsOf(r) - 1 |-> scrambled[InFrame(r, k, w)]]
             result == unscrambleToFull(1, section, dark, out, r, w, table)
         IN  /\ \A k \in 0 .. PixelsOf(r) - 1 :
                  LET a == table[InFrame(r, k, w)] IN result[a] = raw[a] - (raw[a] % 8)
             /\ \A a \in Addresses(c) :
                  (\A k \in 0 .. PixelsOf(r) - 1 : table[InFrame(r, k, w)] # a) =>
                    result[a] = out[a]
<1> DEFINE table == Descramble(c)
           w     == c.size["x"]
           n     == PixelsOf(r)
           scrambled == [d \in Addresses(c) |-> applyGains(raw[table[d]])]
           section   == [k \in 0 .. n - 1 |-> scrambled[InFrame(r, k, w)]]
           target    == [k \in 0 .. n - 1 |-> table[InFrame(r, k, w)]]
           value     == [k \in 0 .. n - 1 |-> Corrected(section[k], dark[InFrame(r, k, w)])]
           result    == unscrambleToFull(1, section, dark, out, r, w, table)
<1>1. Addresses(c) = 0 .. w * c.size["y"] - 1
  BY DEF Addresses, Pixels
<1>2. /\ n \in Nat
      /\ \A k \in 0 .. n - 1 : InFrame(r, k, w) \in Addresses(c)
      /\ \A j, k \in 0 .. n - 1 : InFrame(r, j, w) = InFrame(r, k, w) => j = k
  BY <1>1, PointsApart
<1>3. /\ \A d \in Addresses(c) : table[d] \in Addresses(c)
      /\ \A d, e \in Addresses(c) : table[d] = table[e] => d = e
  BY TableIsPermutation
<1>4. result = Written(out, n, target, value)
  BY DEF unscrambleToFull
<1> HIDE DEF table, w, n
<1>5. \A j, k \in 0 .. n - 1 : target[j] = target[k] => j = k
  BY <1>2, <1>3
<1>6. ASSUME NEW k \in 0 .. n - 1
      PROVE  value[k] = raw[target[k]] - (raw[target[k]] % 8)
  <2>1. target[k] = table[InFrame(r, k, w)] /\ target[k] \in Addresses(c)
    BY <1>2, <1>3
  <2>2. section[k] = applyGains(raw[target[k]])
    BY <1>2, <2>1
  <2>3. value[k] = Decode(section[k])
    BY <1>2 DEF Corrected
  <2> HIDE DEF target, section
  <2> DEFINE v == raw[target[k]]
  <2>4. v \in Nat /\ v < 32768
    BY <2>1
  <2> HIDE DEF v
  <2>5. Decode(applyGains(v)) = v - (v % 8)
    BY <2>4, ValueRecovered
  <2> QED BY <2>2, <2>3, <2>5 DEF v
<1>7. \A k \in 0 .. n - 1 : target[k] \in Addresses(c) /\ target[k] = table[InFrame(r, k, w)]
  BY <1>2, <1>3
<1> HIDE DEF target, value, result
<1>8. /\ \A k \in 0 .. n - 1 : result[target[k]] = value[k]
      /\ \A a \in Addresses(c) : (\A k \in 0 .. n - 1 : target[k] # a) => result[a] = out[a]
  BY <1>2, <1>4, <1>5, <1>7, WrittenApart
<1>9. /\ \A k \in 0 .. n - 1 : LET a == table[InFrame(r, k, w)] IN
           result[a] = raw[a] - (raw[a] % 8)
      /\ \A a \in Addresses(c) :
           (\A k \in 0 .. n - 1 : table[InFrame(r, k, w)] # a) => result[a] = out[a]
  BY <1>6, <1>7, <1>8
<1> QED BY <1>9, SMTT(60) DEF table, w, n, result

-----------------------------------------------------------------------------
(* The registry of sub-frames                                              *)

LEMMA Bits ==
  /\ Bit(0) = 1 /\ Bit(1) = 2 /\ Bit(2) = 4 /\ Bit(3) = 8
  /\ Bit(4) = 16 /\ Bit(5) = 32 /\ Bit(6) = 64 /\ Bit(7) = 128
BY DEF Bit

LEMMA BitOf ==
  ASSUME NEW bit \in Nat \ {0}, NEW low \in 0 .. bit - 1, NEW b \in 0 .. 1, NEW high \in Nat
  PROVE  ((low + (b + 2 * high) * bit) \div bit) % 2 = b
<1> DEFINE q == b + 2 * high
<1>1. q \in Nat /\ q % 2 = b
  BY SMT
<1> HIDE DEF q
<1>2. (low + q * bit) \div bit = q
  BY <1>1, SMT
<1> QED BY <1>1, <1>2 DEF q

(* The mask tells which sub-frames there are: releaseAllSubFrames() finds  *)
(* the bits that setupSubFrame() added.                                    *)
LEMMA MaskTells ==
  ASSUME NEW ids \in SUBSET (0 .. 7)
  PROVE  /\ Mask(ids) \in Nat
         /\ {id \in 0 .. 7 : (Mask(ids) \div Bit(id)) % 2 = 1} = ids
<1> DEFINE b(i) == IF i \in ids THEN 1 ELSE 0
           m == Mask(ids)
<1>1. \A i : b(i) \in 0 .. 1 /\ (b(i) = 1 <=> i \in ids)
  OBVIOUS
<1>2. m = b(0) + 2 * b(1) + 4 * b(2) + 8 * b(3) + 16 * b(4) + 32 * b(5) + 64 * b(6) + 128 * b(7)
  <2>1. \A i \in 0 .. 7 : (IF i \in ids THEN Bit(i) ELSE 0) = Bit(i) * b(i)
    <3> SUFFICES ASSUME NEW i \in 0 .. 7
                 PROVE  (IF i \in ids THEN Bit(i) ELSE 0) = Bit(i) * b(i)
      OBVIOUS
    <3>1. Bit(i) \in Nat
      BY Bits
    <3> QED BY <3>1
  <2> HIDE DEF b
  <2>2. m = Bit(0) * b(0) + Bit(1) * b(1) + Bit(2) * b(2) + Bit(3) * b(3)
              + Bit(4) * b(4) + Bit(5) * b(5) + Bit(6) * b(6) + Bit(7) * b(7)
    BY <2>1 DEF Mask
  <2> QED BY <1>1, <2>2, Bits
<1> HIDE DEF b, m
<1>3. m \in Nat
  BY <1>1, <1>2
<1>4. \A i \in 0 .. 7 : (m \div Bit(i)) % 2 = b(i)
  <2>1. /\ b(0) \in Nat /\ b(0) <= 1
        /\ b(1) \in Nat /\ b(1) <= 1
        /\ b(2) \in Nat /\ b(2) <= 1
        /\ b(3) \in Nat /\ b(3) <= 1
        /\ b(4) \in Nat /\ b(4) <= 1
        /\ b(5) \in Nat /\ b(5) <= 1
        /\ b(6) \in Nat /\ b(6) <= 1
        /\ b(7) \in Nat /\ b(7) <= 1
    BY <1>1
  <2>2. /\ (m \div 1) % 2 = b(0) /\ (m \div 2) % 2 = b(1)
        /\ (m \div 4) % 2 = b(2) /\ (m \div 8) % 2 = b(3)
        /\ (m \div 16) % 2 = b(4) /\ (m \div 32) % 2 = b(5)
        /\ (m \div 64) % 2 = b(6) /\ (m \div 128) % 2 = b(7)
    <3>1. (m \div 1) % 2 = b(0)
      <4> DEFINE low == 0
                 high == 1 * b(1) + 2 * b(2) + 4 * b(3) + 8 * b(4) + 16 * b(5) + 32 * b(6) + 64 * b(7)
      <4>1. low \in Nat /\ low < 1 /\ high \in Nat
        BY <2>1
      <4>2. m = low + 1 * b(0) + 2 * high
        BY <1>2, <2>1
      <4> DEFINE x == b(0)
      <4>3. x \in 0 .. 1
        BY <2>1
      <4> HIDE DEF low, high, x
      <4>4. low \in 0 .. 1 - 1 /\ 1 \in Nat \ {0}
        BY <4>1
      <4>5. ((low + (x + 2 * high) * 1) \div 1) % 2 = x
        BY <4>1, <4>3, <4>4, BitOf
      <4>6. m = low + (x + 2 * high) * 1
        BY <4>1, <4>2, <4>3 DEF x
      <4> QED BY <4>5, <4>6 DEF x
    <3>2. (m \div 2) % 2 = b(1)
      <4> DEFINE low == 1 * b(0)
                 high == 1 * b(2) + 2 * b(3) + 4 * b(4) + 8 * b(5) + 16 * b(6) + 32 * b(7)
      <4>1. low \in Nat /\ low < 2 /\ high \in Nat
        BY <2>1
      <4>2. m = low + 2 * b(1) + 4 * high
        BY <1>2, <2>1
      <4> DEFINE x == b(1)
      <4>3. x \in 0 .. 1
        BY <2>1
      <4> HIDE DEF low, high, x
      <4>4. low \in 0 .. 2 - 1 /\ 2 \in Nat \ {0}
        BY <4>1
      <4>5. ((low + (x + 2 * high) * 2) \div 2) % 2 = x
        BY <4>1, <4>3, <4>4, BitOf
      <4>6. m = low + (x + 2 * high) * 2
        BY <4>1, <4>2, <4>3 DEF x
      <4> QED BY <4>5, <4>6 DEF x
    <3>3. (m \div 4) % 2 = b(2)
      <4> DEFINE low == 1 * b(0) + 2 * b(1)
                 high == 1 * b(3) + 2 * b(4) + 4 * b(5) + 8 * b(6) + 16 * b(7)
      <4>1. low \in Nat /\ low < 4 /\ high \in Nat
        BY <2>1
      <4>2. m = low + 4 * b(2) + 8 * high
        BY <1>2, <2>1
      <4> DEFINE x == b(2)
      <4>3. x \in 0 .. 1
        BY <2>1
      <4> HIDE DEF low, high, x
      <4>4. low \in 0 .. 4 - 1 /\ 4 \in Nat \ {0}
        BY <4>1
      <4>5. ((low + (x + 2 * high) * 4) \div 4) % 2 = x
        BY <4>1, <4>3, <4>4, BitOf
      <4>6. m = low + (x + 2 * high) * 4
        BY <4>1, <4>2, <4>3 DEF x
      <4> QED BY <4>5, <4>6 DEF x
    <3>4. (m \div 8) % 2 = b(3)
      <4> DEFINE low == 1 * b(0) + 2 * b(1) + 4 * b(2)
                 high == 1 * b(4) + 2 * b(5) + 4 * b(6) + 8 * b(7)
      <4>1. low \in Nat /\ low < 8 /\ high \in Nat
        BY <2>1
      <4>2. m = low + 8 * b(3) + 16 * high
        BY <1>2, <2>1
      <4> DEFINE x == b(3)
      <4>3. x \in 0 .. 1
        BY <2>1
      <4> HIDE DEF low, high, x
      <4>4. low \in 0 .. 8 - 1 /\ 8 \in Nat \ {0}
        BY <4>1
      <4>5. ((low + (x + 2 * high) * 8) \div 8) % 2 = x
        BY <4>1, <4>3, <4>4, BitOf
      <4>6. m = low + (x + 2 * high) * 8
        BY <4>1, <4>2, <4>3 DEF x
      <4> QED BY <4>5, <4>6 DEF x
    <3>5. (m \div 16) % 2 = b(4)
      <4> DEFINE low == 1 * b(0) + 2 * b(1) + 4 * b(2) + 8 * b(3)
                 high == 1 * b(5) + 2 * b(6) + 4 * b(7)
      <4>1. low \in Nat /\ low < 16 /\ high \in Nat
        BY <2>1
      <4>2. m = low + 16 * b(4) + 32 * high
        BY <1>2, <2>1
      <4> DEFINE x == b(4)
      <4>3. x \in 0 .. 1
        BY <2>1
      <4> HIDE DEF low, high, x
      <4>4. low \in 0 .. 16 - 1 /\ 16 \in Nat \ {0}
        BY <4>1
      <4>5. ((low + (x + 2 * high) * 16) \div 16) % 2 = x
        BY <4>1, <4>3, <4>4, BitOf
      <4>6. m = low + (x + 2 * high) * 16
        BY <4>1, <4>2, <4>3 DEF x
      <4> QED BY <4>5, <4>6 DEF x
    <3>6. (m \div 32) % 2 = b(5)
      <4> DEFINE low == 1 * b(0) + 2 * b(1) + 4 * b(2) + 8 * b(3) + 16 * b(4)
                 high == 1 * b(6) + 2 * b(7)
      <4>1. low \in Nat /\ low < 32 /\ high \in Nat
        BY <2>1
      <4>2. m = low + 32 * b(5) + 64 * high
        BY <1>2, <2>1
      <4> DEFINE x == b(5)
      <4>3. x \in 0 .. 1
        BY <2>1
      <4> HIDE DEF low, high, x
      <4>4. low \in 0 .. 32 - 1 /\ 32 \in Nat \ {0}
        BY <4>1
      <4>5. ((low + (x + 2 * high) * 32) \div 32) % 2 = x
        BY <4>1, <4>3, <4>4, BitOf
      <4>6. m = low + (x + 2 * high) * 32
        BY <4>1, <4>2, <4>3 DEF x
      <4> QED BY <4>5, <4>6 DEF x
    <3>7. (m \div 64) % 2 = b(6)
      <4> DEFINE low == 1 * b(0) + 2 * b(1) + 4 * b(2) + 8 * b(3) + 16 * b(4) + 32 * b(5)
                 high == 1 * b(7)
      <4>1. low \in Nat /\ low < 64 /\ high \in Nat
        BY <2>1
      <4>2. m = low + 64 * b(6) + 128 * high
        BY <1>2, <2>1
      <4> DEFINE x == b(6)
      <4>3. x \in 0 .. 1
        BY <2>1
      <4> HIDE DEF low, high, x
      <4>4. low \in 0 .. 64 - 1 /\ 64 \in Nat \ {0}
        BY <4>1
      <4>5. ((low + (x + 2 * high) * 64) \div 64) % 2 = x
        BY <4>1, <4>3, <4>4, BitOf
      <4>6. m = low + (x + 2 * high) * 64
        BY <4>1, <4>2, <4>3 DEF x
      <4> QED BY <4>5, <4>6 DEF x
    <3>8. (m \div 128) % 2 = b(7)
      <4> DEFINE low == 1 * b(0) + 2 * b(1) + 4 * b(2) + 8 * b(3) + 16 * b(4) + 32 * b(5) + 64 * b(6)
                 high == 0
      <4>1. low \in Nat /\ low < 128 /\ high \in Nat
        BY <2>1
      <4>2. m = low + 128 * b(7) + 256 * high
        BY <1>2, <2>1
      <4> DEFINE x == b(7)
      <4>3. x \in 0 .. 1
        BY <2>1
      <4> HIDE DEF low, high, x
      <4>4. low \in 0 .. 128 - 1 /\ 128 \in Nat \ {0}
        BY <4>1
      <4>5. ((low + (x + 2 * high) * 128) \div 128) % 2 = x
        BY <4>1, <4>3, <4>4, BitOf
      <4>6. m = low + (x + 2 * high) * 128
        BY <4>1, <4>2, <4>3 DEF x
      <4> QED BY <4>5, <4>6 DEF x
    <3> QED BY <3>1, <3>2, <3>3, <3>4, <3>5, <3>6, <3>7, <3>8
  <2> QED BY <2>2, Bits
<1> QED BY <1>1, <1>3, <1>4 DEF m

-----------------------------------------------------------------------------
(* The arrangements                                                        *)

(* Pixels of a sub-frame, the same for all of an arrangement *)
Share(layout, w, h) ==
  IF layout = "columns" THEN (w \div Channels) * h ELSE w * (h \div Channels)

LEMMA RegionInside ==
  ASSUME NEW layout, NEW ch \in 0 .. Channels - 1, NEW w \in Nat, NEW h \in Nat,
         ~Refused(Region(layout, ch, w, h))
  PROVE  /\ Inside(Region(layout, ch, w, h), w, h)
         /\ PixelsOf(Region(layout, ch, w, h)) = Share(layout, w, h)
         /\ PixelsOf(Region(layout, ch, w, h)) \in Nat \ {0}
<1> DEFINE r == Region(layout, ch, w, h)
           m == w \div Channels
           n == h \div Channels
<1>0. Channels \in Nat \ {0}
  BY ChainAssumption
<1>1. /\ m \in Nat /\ n \in Nat
      /\ Channels * m <= w /\ Channels * n <= h
  BY <1>0, SMT
<1>2. /\ (ch + 1) * m = ch * m + m /\ (ch + 1) * n = ch * n + n
      /\ ch * m + m <= Channels * m /\ ch * n + n <= Channels * n
      /\ ch * m \in Nat /\ ch * n \in Nat
  <2> HIDE DEF m, n
  <2>1. ch * m + m <= Channels * m /\ ch * n + n <= Channels * n
    BY <1>0, <1>1, Monotone
  <2> QED BY <1>0, <1>1, <2>1
<1>3. CASE layout = "columns"
  <2>1. r = [tlx |-> ch * m, tly |-> 0, brx |-> (ch + 1) * m - 1, bry |-> h - 1]
    BY <1>3 DEF Region
  <2>2. Share(layout, w, h) = m * h
    BY <1>3 DEF Share
  <2> HIDE DEF m, n, r
  <2>3. r.tlx < r.brx /\ r.tly < r.bry
    BY <1>1, <1>2, <2>1 DEF Refused, r
  <2>4. Inside(r, w, h)
    <3> DEFINE a == ch * m
               b == (ch + 1) * m
               c == Channels * m
    <3>1. a \in Nat /\ c \in Nat /\ b = a + m /\ a + m <= c /\ c <= w
      BY <1>0, <1>1, <1>2
    <3>2. r.tlx = a /\ r.brx = b - 1 /\ r.tly = 0 /\ r.bry = h - 1
      BY <2>1
    <3> HIDE DEF a, b, c
    <3>3. r.tlx \in Nat /\ r.tlx < r.brx /\ r.brx \in Nat /\ r.brx <= w - 1
      BY <1>1, <2>3, <3>1, <3>2
    <3>4. r.tly \in Nat /\ r.tly < r.bry /\ r.bry \in Nat /\ r.bry <= h - 1
      BY <1>1, <2>3, <3>1, <3>2
    <3> QED BY <3>3, <3>4 DEF Inside
  <2>5. WidthOf(r) = m /\ HeightOf(r) = h /\ m \in Nat \ {0} /\ h \in Nat \ {0}
    BY <1>1, <1>2, <2>1, <2>3 DEF WidthOf, HeightOf
  <2>6. m * h \in Nat \ {0}
    BY <2>5
  <2> QED BY <2>2, <2>4, <2>5, <2>6 DEF PixelsOf, r
<1>4. CASE layout # "columns"
  <2>1. r = [tlx |-> 0, tly |-> ch * n, brx |-> w - 1, bry |-> (ch + 1) * n - 1]
    BY <1>4 DEF Region
  <2>2. Share(layout, w, h) = w * n
    BY <1>4 DEF Share
  <2> HIDE DEF m, n, r
  <2>3. r.tlx < r.brx /\ r.tly < r.bry
    BY <1>1, <1>2, <2>1 DEF Refused, r
  <2>4. Inside(r, w, h)
    <3> DEFINE a == ch * n
               b == (ch + 1) * n
               c == Channels * n
    <3>1. a \in Nat /\ c \in Nat /\ b = a + n /\ a + n <= c /\ c <= h
      BY <1>0, <1>1, <1>2
    <3>2. r.tly = a /\ r.bry = b - 1 /\ r.tlx = 0 /\ r.brx = w - 1
      BY <2>1
    <3> HIDE DEF a, b, c
    <3>3. r.tlx \in Nat /\ r.tlx < r.brx /\ r.brx \in Nat /\ r.brx <= w - 1
      BY <1>1, <2>3, <3>1, <3>2
    <3>4. r.tly \in Nat /\ r.tly < r.bry /\ r.bry \in Nat /\ r.bry <= h - 1
      BY <1>1, <2>3, <3>1, <3>2
    <3> QED BY <3>3, <3>4 DEF Inside
  <2>5. WidthOf(r) = w /\ HeightOf(r) = n /\ n \in Nat \ {0} /\ w \in Nat \ {0}
    BY <1>1, <1>2, <2>1, <2>3 DEF WidthOf, HeightOf
  <2>6. w * n \in Nat \ {0}
    BY <2>5
  <2> QED BY <2>2, <2>4, <2>5, <2>6 DEF PixelsOf, r
<1> QED BY <1>3, <1>4

-----------------------------------------------------------------------------
(* Cutting an image into packets                                           *)

(* The sender cuts as many packets as the server has counted; each lies    *)
(* inside the image, and every pixel is in one.                            *)
LEMMA Cutting ==
  ASSUME NEW n \in Nat \ {0}, NEW size \in Nat \ {0}
  PROVE  /\ NumberOfPackets(n, size) = expectedPackets(n, size)
         /\ expectedPackets(n, size) \in Nat \ {0}
         /\ \A j \in 0 .. expectedPackets(n, size) - 1 :
              /\ j * size \in Nat
              /\ PacketLength(n, size, j) \in 1 .. size
              /\ j * size + PacketLength(n, size, j) <= n
         /\ \A k \in 0 .. n - 1 : \E j \in 0 .. expectedPackets(n, size) - 1 :
              k - j * size \in 0 .. PacketLength(n, size, j) - 1
<1> DEFINE q == n \div size
           r == n % size
           e == expectedPackets(n, size)
<1>1. q \in Nat /\ r \in 0 .. size - 1 /\ n = size * q + r
  BY SMT
<1>2. e = q + (IF r # 0 THEN 1 ELSE 0)
  BY DEF expectedPackets
<1> HIDE DEF q, r
<1>3. e \in Nat \ {0}
  BY <1>1, <1>2
<1>4. size * q = q * size /\ q * size \in Nat
  BY <1>1
<1>5. (n + size - 1) \div size = e
  <2>1. CASE r = 0
    <3>1. n + size - 1 = (size - 1) + q * size
      BY <1>1, <1>4, <2>1
    <3>2. ((size - 1) + q * size) \div size = q
      BY <1>1, SMT
    <3> QED BY <1>1, <1>2, <2>1, <3>1, <3>2
  <2>2. CASE r # 0
    <3>1. (q + 1) * size = q * size + size
      BY <1>1
    <3>2. n + size - 1 = (r - 1) + (q + 1) * size
      BY <1>1, <1>4, <3>1
    <3> DEFINE a == r - 1
               b == q + 1
    <3>3. a \in 0 .. size - 1 /\ b \in Nat
      BY <1>1, <2>2
    <3> HIDE DEF a, b
    <3>4. (a + b * size) \div size = b
      BY <3>3, SMT
    <3> QED BY <1>1, <1>2, <2>2, <3>2, <3>4 DEF a, b
  <2> QED BY <2>1, <2>2
<1> HIDE DEF e
<1>6. ASSUME NEW j \in 0 .. e - 1
      PROVE  /\ j * size \in Nat
             /\ PacketLength(n, size, j) \in 1 .. size
             /\ j * size + PacketLength(n, size, j) <= n
  <2>1. j * size \in Nat
    BY <1>3
  <2>2. j * size < n
    <3>1. CASE j < q
      <4>1. j * size + size <= q * size
        BY <1>1, <3>1, Monotone
      <4> QED BY <1>1, <1>4, <2>1, <4>1
    <3>2. CASE j >= q
      <4>1. j = q /\ r # 0
        BY <1>1, <1>2, <3>2
      <4> QED BY <1>1, <1>4, <4>1
    <3> QED BY <1>1, <3>1, <3>2
  <2> DEFINE p == j * size
  <2> HIDE DEF p
  <2>3. PacketLength(n, size, j) = IF n - p > size THEN size ELSE n - p
    BY DEF PacketLength, p
  <2>4. p \in Nat /\ p < n
    BY <2>1, <2>2 DEF p
  <2>5. PacketLength(n, size, j) \in 1 .. size /\ p + PacketLength(n, size, j) <= n
    BY <2>3, <2>4
  <2> QED BY <2>1, <2>5 DEF p
<1>7. ASSUME NEW k \in 0 .. n - 1
      PROVE  \E j \in 0 .. e - 1 : k - j * size \in 0 .. PacketLength(n, size, j) - 1
  <2> DEFINE j == k \div size
             i == k % size
  <2>1. j \in Nat /\ i \in 0 .. size - 1 /\ k = size * j + i
    BY SMT
  <2> HIDE DEF i, j
  <2>2. size * j = j * size /\ j * size \in Nat
    BY <2>1
  <2>3. j <= q
    <3>1. CASE q < j
      <4>1. q * size + size <= j * size
        BY <1>1, <2>1, <3>1, Monotone
      <4> QED BY <1>1, <1>4, <2>1, <2>2, <4>1
    <3> QED BY <1>1, <2>1, <3>1
  <2>4. j = q => r # 0
    BY <1>1, <1>4, <2>1, <2>2
  <2>5. j \in 0 .. e - 1
    BY <1>1, <1>2, <2>1, <2>3, <2>4
  <2> DEFINE p == j * size
  <2> HIDE DEF p
  <2>6. PacketLength(n, size, j) = IF n - p > size THEN size ELSE n - p
    BY DEF PacketLength, p
  <2>7. k - p \in 0 .. PacketLength(n, size, j) - 1
    BY <2>1, <2>2, <2>6 DEF p
  <2> QED BY <2>5, <2>7 DEF p
<1> QED BY <1>3, <1>5, <1>6, <1>7 DEF e, NumberOfPackets

LEMMA Smallest ==
  ASSUME NEW S, S \subseteq Nat, S # {}
  PROVE  \E n \in S : \A m \in S : n <= m
<1>1. PICK n \in S : \A m \in S : <<m, n>> \notin OpToRel(<, Nat)
  BY NatLessThanWellFounded, WFMin
<1>2. \A m \in S : ~(m < n)
  BY <1>1 DEF OpToRel
<1> QED BY <1>2

(* Induction up to N, over a set. *)
LEMMA Induction ==
  ASSUME NEW N \in Nat, NEW S, 0 \in S, \A i \in 0 .. N - 1 : i \in S => i + 1 \in S
  PROVE  \A i \in 0 .. N : i \in S
<1> DEFINE T == {i \in 0 .. N : i \notin S}
<1>1. SUFFICES ASSUME T # {} PROVE FALSE
  OBVIOUS
<1>2. PICK n \in T : \A m \in T : n <= m
  <2>1. T \subseteq Nat
    OBVIOUS
  <2> HIDE DEF T
  <2> QED BY <1>1, <2>1, Smallest
<1>3. n # 0 /\ n - 1 \in 0 .. N - 1
  BY <1>2
<1>4. n - 1 \notin T
  BY <1>2, <1>3
<1> QED BY <1>2, <1>3, <1>4

(* f starts with b and goes on with step. *)
Iterates(f, N, S, b, step) ==
  f \in [0 .. N -> S] /\ f[0] = b /\ \A i \in 1 .. N : f[i] = step[i][f[i - 1]]
StepsIn(step, N, S) == step \in [1 .. N -> [S -> S]]

(* Recursion up to N. *)
LEMMA Recursion ==
  ASSUME NEW N \in Nat, NEW S, NEW b \in S, NEW step, StepsIn(step, N, S)
  PROVE  \E f : Iterates(f, N, S, b, step)
<1> DEFINE Def(m, f) == f[0] = b /\ \A i \in 1 .. m : f[i] = step[i][f[i - 1]]
           T == {m \in 0 .. N : \E f \in [0 .. m -> S] : Def(m, f)}
<1> USE DEF StepsIn
<1>1. 0 \in T
  <2> DEFINE f == [i \in 0 .. 0 |-> b]
  <2>1. f \in [0 .. 0 -> S] /\ Def(0, f)
    OBVIOUS
  <2> HIDE DEF Def, f
  <2> QED BY <2>1
<1>2. ASSUME NEW m \in 0 .. N - 1, m \in T
      PROVE  m + 1 \in T
  <2>1. PICK f \in [0 .. m -> S] : Def(m, f)
    BY <1>2
  <2> DEFINE g == [i \in 0 .. m + 1 |-> IF i = m + 1 THEN step[m + 1][f[m]] ELSE f[i]]
  <2>2. g \in [0 .. m + 1 -> S]
    OBVIOUS
  <2>3. Def(m + 1, g)
    <3>1. g[0] = b
      BY <2>1
    <3>2. ASSUME NEW i \in 1 .. m + 1 PROVE g[i] = step[i][g[i - 1]]
      <4>1. CASE i = m + 1
        BY <4>1
      <4>2. CASE i # m + 1
        <5>1. i \in 1 .. m /\ i - 1 \in 0 .. m
          BY <4>2
        <5> QED BY <2>1, <5>1
      <4> QED BY <4>1, <4>2
    <3> QED BY <3>1, <3>2
  <2> HIDE DEF Def, g
  <2>4. m + 1 \in 0 .. N
    OBVIOUS
  <2> QED BY <2>2, <2>3, <2>4
<1> HIDE DEF T
<1>3. \A m \in 0 .. N : m \in T
  BY <1>1, <1>2, Induction
<1>4. N \in T
  BY <1>3
<1> QED BY <1>4 DEF T, Iterates

(* The packets of a frame are those of its sub-frames. *)
LEMMA SentAll ==
  ASSUME NEW n, NEW T, \A id \in DOMAIN subFrameMap : Packets(id, n) \in Seq(T)
  PROVE  /\ PacketsSent(n) \in Seq(T)
         /\ ToSet(PacketsSent(n)) =
              UNION {ToSet(Packets(id, n)) : id \in DOMAIN subFrameMap \cap 0 .. Channels - 1}
<1> DEFINE Def(f) == f = [id \in 0 .. Channels |->
             IF id = 0 THEN <<>>
             ELSE IF id - 1 \in DOMAIN subFrameMap THEN f[id - 1] \o Packets(id - 1, n)
             ELSE f[id - 1]]
           step == [id \in 1 .. Channels |-> [s \in Seq(T) |->
                     IF id - 1 \in DOMAIN subFrameMap THEN s \o Packets(id - 1, n) ELSE s]]
           below == CHOOSE f : Def(f)
<1>0. Channels \in Nat
  BY ChainAssumption
<1>1. \E f : Def(f)
  <2>1. StepsIn(step, Channels, Seq(T))
    <3>1. ASSUME NEW id \in 1 .. Channels, NEW s \in Seq(T)
          PROVE  (IF id - 1 \in DOMAIN subFrameMap THEN s \o Packets(id - 1, n) ELSE s) \in Seq(T)
      BY <3>1
    <3> QED BY <3>1 DEF StepsIn
  <2>2. <<>> \in Seq(T)
    OBVIOUS
  <2> HIDE DEF step
  <2>3. PICK f : Iterates(f, Channels, Seq(T), <<>>, step)
    BY <1>0, <2>1, <2>2, Recursion
  <2>4. ASSUME NEW i \in 1 .. Channels
        PROVE  f[i] = IF i - 1 \in DOMAIN subFrameMap THEN f[i - 1] \o Packets(i - 1, n)
                      ELSE f[i - 1]
    <3>1. f[i - 1] \in Seq(T)
      BY <1>0, <2>3 DEF Iterates
    <3> QED BY <2>3, <3>1 DEF step, Iterates
  <2>7. ASSUME NEW i \in 0 .. Channels
        PROVE  f[i] = IF i = 0 THEN <<>>
                      ELSE IF i - 1 \in DOMAIN subFrameMap THEN f[i - 1] \o Packets(i - 1, n)
                      ELSE f[i - 1]
    <3>1. CASE i = 0
      BY <2>3, <3>1 DEF Iterates
    <3>2. CASE i # 0
      <4>1. i \in 1 .. Channels
        BY <1>0, <3>2
      <4> QED BY <2>4, <3>2, <4>1
    <3> QED BY <3>1, <3>2
  <2>5. Def(f)
    BY <2>3, <2>7 DEF Iterates
  <2> QED BY <2>5
<1>2. PacketsSent(n) = below[Channels]
  BY DEF PacketsSent
<1>3. Def(below)
  <2> HIDE DEF Def
  <2> QED BY <1>1
<1> HIDE DEF below
<1>4. below[0] = <<>>
  BY <1>0, <1>3
<1>5. ASSUME NEW i \in 0 .. Channels - 1
      PROVE  below[i + 1] = IF i \in DOMAIN subFrameMap THEN below[i] \o Packets(i, n)
                            ELSE below[i]
  <2>1. i + 1 \in 0 .. Channels /\ i + 1 # 0 /\ (i + 1) - 1 = i
    BY <1>0
  <2> QED BY <1>3, <2>1
<1> HIDE DEF Def
<1> DEFINE Good(i) ==
             /\ below[i] \in Seq(T)
             /\ \A x : x \in ToSet(below[i]) <=>
                  \E id \in 0 .. i - 1 : id \in DOMAIN subFrameMap /\ x \in ToSet(Packets(id, n))
           S == {i \in 0 .. Channels : Good(i)}
<1>6. 0 \in S
  <2>1. 0 \in 0 .. Channels /\ 0 .. 0 - 1 = {}
    BY <1>0
  <2>2. below[0] \in Seq(T)
    BY <1>4
  <2>3. ToSet(below[0]) = {}
    BY <1>4 DEF ToSet
  <2> QED BY <2>1, <2>2, <2>3
<1>7. ASSUME NEW i \in 0 .. Channels - 1, i \in S
      PROVE  i + 1 \in S
  <2>1. Good(i)
    BY <1>7
  <2>2. i + 1 \in 0 .. Channels
    BY <1>0
  <2>3. CASE i \in DOMAIN subFrameMap
    <3> DEFINE s == below[i]
               t == Packets(i, n)
    <3>1. s \in Seq(T) /\ t \in Seq(T) /\ below[i + 1] = s \o t
      BY <1>5, <2>1, <2>3
    <3>2. \A x : x \in ToSet(s \o t) <=> x \in ToSet(s) \/ x \in ToSet(t)
      <4> HIDE DEF s, t
      <4>1. /\ s \o t \in Seq(T) /\ Len(s \o t) = Len(s) + Len(t)
            /\ Len(s) \in Nat /\ Len(t) \in Nat
            /\ \A k \in 1 .. Len(s) + Len(t) :
                 (s \o t)[k] = IF k <= Len(s) THEN s[k] ELSE t[k - Len(s)]
        BY <3>1
      <4>2. DOMAIN s = 1 .. Len(s) /\ DOMAIN t = 1 .. Len(t) /\ DOMAIN (s \o t) = 1 .. Len(s) + Len(t)
        BY <3>1, <4>1
      <4>3. ASSUME NEW k \in DOMAIN (s \o t)
            PROVE  (\E j \in DOMAIN s : s[j] = (s \o t)[k]) \/ (\E j \in DOMAIN t : t[j] = (s \o t)[k])
        BY <4>1, <4>2
      <4>4. ASSUME NEW k \in DOMAIN s
            PROVE  \E j \in DOMAIN (s \o t) : (s \o t)[j] = s[k]
        BY <4>1, <4>2
      <4>5. ASSUME NEW k \in DOMAIN t
            PROVE  \E j \in DOMAIN (s \o t) : (s \o t)[j] = t[k]
        <5>1. Len(s) + k \in 1 .. Len(s) + Len(t) /\ ~(Len(s) + k <= Len(s)) /\ (Len(s) + k) - Len(s) = k
          BY <4>1, <4>2
        <5> QED BY <4>1, <4>2, <5>1
      <4> QED BY <4>3, <4>4, <4>5 DEF ToSet
    <3> HIDE DEF s, t
    <3>3. below[i + 1] \in Seq(T)
      BY <3>1
    <3>4. \A x : x \in ToSet(below[i + 1]) <=>
            \E id \in 0 .. (i + 1) - 1 : id \in DOMAIN subFrameMap /\ x \in ToSet(Packets(id, n))
      BY <1>0, <2>1, <2>3, <3>1, <3>2 DEF s, t
    <3> QED BY <2>2, <3>3, <3>4
  <2>4. CASE i \notin DOMAIN subFrameMap
    <3>1. below[i + 1] = below[i]
      BY <1>5, <2>4
    <3>2. \A x : x \in ToSet(below[i + 1]) <=>
            \E id \in 0 .. (i + 1) - 1 : id \in DOMAIN subFrameMap /\ x \in ToSet(Packets(id, n))
      BY <1>0, <2>1, <2>4, <3>1
    <3> QED BY <2>1, <2>2, <3>1, <3>2
  <2> QED BY <2>3, <2>4
<1> HIDE DEF S
<1>8. \A i \in 0 .. Channels : i \in S
  BY <1>0, <1>6, <1>7, Induction
<1>9. Good(Channels)
  BY <1>0, <1>8 DEF S
<1> QED BY <1>2, <1>9

-----------------------------------------------------------------------------
(* The files                                                               *)

LEMMA SoundGeometry ==
  ASSUME NEW c, Sound(c)
  PROVE  /\ Geometry(c) /\ c.size["x"] \in Nat /\ c.size["y"] \in Nat
         /\ Addresses(c) = 0 .. c.size["x"] * c.size["y"] - 1
BY DEF Sound, Geometry, Objects, Axes, Addresses, Pixels

LEMMA ResizedSound ==
  ASSUME NEW c \in Objects, c.max <= 32767, NEW a \in Axes,
         \A b \in Axes \ {a} : c.size[b] = c.ppc[b] * c.cps[b] * c.spi[b],
         Usable(Resized(c, a))
  PROVE  Sound(Resized(c, a))
<1>1. Resized(c, a) \in Objects /\ Geometry(Resized(c, a))
  BY ResizedGeometry
<1>2. Resized(c, a).max = c.max
  BY DEF Resized, Objects
<1> QED BY <1>1, <1>2 DEF Sound, Geometry

LEMMA RestripedSound ==
  ASSUME NEW c \in Objects, c.max <= 32767, NEW a \in Axes,
         \A b \in Axes \ {a} : c.size[b] = c.ppc[b] * c.cps[b] * c.spi[b],
         Usable(Restriped(c, a))
  PROVE  Sound(Restriped(c, a))
<1> DEFINE n == c.cpb[a] * c.bps[a]
           d == [c EXCEPT !.cps[a] = n]
<1>1. n \in Nat
  BY DEF Objects
<1>4. Restriped(c, a) = Resized(d, a)
  BY DEF Restriped
<1> HIDE DEF n
<1>2. /\ d \in Objects /\ d.max = c.max
      /\ \A b \in Axes \ {a} : d.size[b] = d.ppc[b] * d.cps[b] * d.spi[b]
  BY <1>1 DEF Objects
<1> HIDE DEF d
<1> QED BY <1>2, <1>4, ResizedSound

(* Every parameter the configurator's driver writes leaves a sound object  *)
(* behind, if it is usable.                                                *)
LEMMA SettingSound ==
  ASSUME NEW c, Sound(c), NEW s \in Settings, Usable(WithSetting(c, s))
  PROVE  Sound(WithSetting(c, s))
<1> DEFINE a == s.axis
           v == s.value
<1>1. /\ c \in Objects /\ c.max <= 32767 /\ a \in Axes
      /\ \A b \in Axes : c.size[b] = c.ppc[b] * c.cps[b] * c.spi[b]
  BY ChainAssumption DEF Sound
<1>2. /\ s.param \in Numbers \cup {"Pattern"}
      /\ s.param = "Pattern" => v \in Patterns
      /\ s.param # "Pattern" => v \in Nat
  BY ChainAssumption
<1> HIDE DEF a, v
<1>3. CASE s.param = "PixelsPerChip"
  <2> DEFINE d == [c EXCEPT !.ppc[a] = v]
  <2>1. /\ d \in Objects /\ d.max = c.max
        /\ \A b \in Axes \ {a} : d.size[b] = d.ppc[b] * d.cps[b] * d.spi[b]
    BY <1>1, <1>2, <1>3 DEF Objects
  <2>2. WithSetting(c, s) = Resized(d, a)
    BY <1>3 DEF WithSetting, setPixelsPerChip, a, v
  <2> HIDE DEF d
  <2> QED BY <1>1, <2>1, <2>2, ResizedSound
<1>4. CASE s.param = "ChipsPerBlock"
  <2> DEFINE d == [c EXCEPT !.cpb[a] = v]
  <2>1. /\ d \in Objects /\ d.max = c.max
        /\ \A b \in Axes \ {a} : d.size[b] = d.ppc[b] * d.cps[b] * d.spi[b]
    BY <1>1, <1>2, <1>4 DEF Objects
  <2>2. WithSetting(c, s) = Restriped(d, a)
    BY <1>4 DEF WithSetting, setChipsPerBlock, a, v
  <2> HIDE DEF d
  <2> QED BY <1>1, <2>1, <2>2, RestripedSound
<1>5. CASE s.param = "BlocksPerStripe"
  <2> DEFINE d == [c EXCEPT !.bps[a] = v]
  <2>1. /\ d \in Objects /\ d.max = c.max
        /\ \A b \in Axes \ {a} : d.size[b] = d.ppc[b] * d.cps[b] * d.spi[b]
    BY <1>1, <1>2, <1>5 DEF Objects
  <2>2. WithSetting(c, s) = Restriped(d, a)
    BY <1>5 DEF WithSetting, setBlocksPerStripe, a, v
  <2> HIDE DEF d
  <2> QED BY <1>1, <2>1, <2>2, RestripedSound
<1>6. CASE s.param = "StripesPerImage"
  <2> DEFINE d == [c EXCEPT !.spi[a] = v]
  <2>1. /\ d \in Objects /\ d.max = c.max
        /\ \A b \in Axes \ {a} : d.size[b] = d.ppc[b] * d.cps[b] * d.spi[b]
    BY <1>1, <1>2, <1>6 DEF Objects
  <2>2. WithSetting(c, s) = Resized(d, a)
    BY <1>6 DEF WithSetting, setStripesPerImage, a, v
  <2> HIDE DEF d
  <2> QED BY <1>1, <2>1, <2>2, ResizedSound
<1>7. CASE s.param \in {"Repeat", "Pattern", "ImageCount", "NumberOfADCs", "MinValue", "MaxValue"}
  <2> DEFINE e == WithSetting(c, s)
  <2>1. e \in Objects /\ e.max <= 32767
        /\ e.size = c.size /\ e.ppc = c.ppc /\ e.cps = c.cps /\ e.spi = c.spi
    <3>1. CASE s.param = "Repeat"
      BY <1>1, <1>2, <3>1 DEF WithSetting, setRepeat, Objects, a, v
    <3>2. CASE s.param = "Pattern"
      BY <1>1, <1>2, <3>2 DEF WithSetting, setPattern, Objects, a, v
    <3>3. CASE s.param = "ImageCount"
      BY <1>1, <1>2, <3>3 DEF WithSetting, setNoOfImages, Objects, a, v
    <3>4. CASE s.param = "NumberOfADCs"
      BY <1>1, <1>2, <3>4 DEF WithSetting, setNumberOfADCs, Objects, a, v
    <3>5. CASE s.param = "MinValue"
      BY <1>1, <1>2, <3>5 DEF WithSetting, setMinValue, Objects, a, v
    <3>6. CASE s.param = "MaxValue"
      <4> DEFINE m == IF v > 32767 THEN 32767 ELSE v
      <4>1. m \in Nat /\ m <= 32767
        BY <1>2, <3>6
      <4>2. e = [c EXCEPT !.max = m]
        BY <3>6 DEF WithSetting, setMaxValue, v
      <4> HIDE DEF m, e
      <4> QED BY <1>1, <4>1, <4>2 DEF Objects
    <3> QED BY <1>7, <3>1, <3>2, <3>3, <3>4, <3>5, <3>6
  <2> HIDE DEF e
  <2> QED BY <2>1 DEF Sound, e
<1> QED BY <1>2, <1>3, <1>4, <1>5, <1>6, <1>7 DEF Numbers

(* What an object holds that read the file of c *)
ReadFrom(c) == readScrambledImage(generateConfiguration(c))

(* The configurator's object stays sound, and so is the one from which the *)
(* file was written, and the driver's was read.                            *)
FilesSound ==
  /\ Sound(config)
  /\ file # None => \E c \in Objects : Sound(c) /\ file = generateConfiguration(c)
  /\ driver # None => \E c \in Objects : Sound(c) /\ driver = ReadFrom(c)

LEMMA FilesSoundInit == ASSUME ChainInit PROVE FilesSound
BY ChainAssumption DEF ChainInit, FilesSound

LEMMA FilesSoundStep ==
  ASSUME FilesSound, [ChainNext]_chainVars
  PROVE  FilesSound'
<1>1. CASE WriteSetting
  <2>1. PICK s \in Settings : Usable(WithSetting(config, s)) /\ config' = WithSetting(config, s)
    BY <1>1 DEF WriteSetting
  <2>2. Sound(config')
    BY <2>1, SettingSound DEF FilesSound
  <2> QED BY <1>1, <2>2 DEF WriteSetting, FilesSound
<1>2. CASE RawFileWrite
  <2>1. Sound(config) /\ config \in Objects
    BY DEF FilesSound, Sound
  <2> QED BY <1>2, <2>1 DEF RawFileWrite, FilesSound
<1>3. CASE PercConfigFileRead
  BY <1>3 DEF PercConfigFileRead, FilesSound, readConfiguration, ReadFrom
<1>4. CASE RawFileRead
  BY <1>4 DEF RawFileRead, FilesSound
<1>5. CASE UNCHANGED <<config, file, driver>>
  BY <1>5 DEF FilesSound
<1> QED BY <1>1, <1>2, <1>3, <1>4, <1>5 DEF ChainNext, chainVars, files, StartTemporal,
      StartSpatial, StopAcquisition, SendFrame, PacketReceived, FrameComplete, ProcessFrame,
      SetDescramble

-----------------------------------------------------------------------------
(* The registry                                                            *)

W == driver.size["x"]
H == driver.size["y"]

(* The settings of the server *)
Server(t, w, h, i, n, d, id) ==
  [mode |-> t, width |-> w, height |-> h, dataIndex |-> i, size |-> n, descramble |-> d,
   currentSubFrame |-> id]

LEMMA ServerTemporal ==
  ASSUME NEW t, NEW w, NEW h, NEW i, NEW n, NEW d, NEW id
  PROVE  setToTemporalMode(Server(t, w, h, i, n, d, id)) = Server("temporal", w, h, i, n, d, 0)
<1> DEFINE s == Server(t, w, h, i, n, d, id)
           a == [s EXCEPT !.mode = "temporal"]
<1>1. setToTemporalMode(s) = [a EXCEPT !.currentSubFrame = 0]
  BY DEF setToTemporalMode
<1>2. a = Server("temporal", w, h, i, n, d, id)
  BY DEF Server
<1> HIDE DEF a
<1> QED BY <1>1, <1>2 DEF Server

LEMMA ServerSpatial ==
  ASSUME NEW t, NEW w, NEW h, NEW i, NEW n, NEW d, NEW id, NEW v
  PROVE  setToSpatialMode(Server(t, w, h, i, n, d, id), v) = Server("spatial", w, h, i, n, d, v)
<1> DEFINE s == Server(t, w, h, i, n, d, id)
           a == [s EXCEPT !.mode = "spatial"]
<1>1. setToSpatialMode(s, v) = [a EXCEPT !.currentSubFrame = v]
  BY DEF setToSpatialMode
<1>2. a = Server("spatial", w, h, i, n, d, id)
  BY DEF Server
<1> HIDE DEF a
<1> QED BY <1>1, <1>2 DEF Server

LEMMA ServerFull ==
  ASSUME NEW t, NEW w, NEW h, NEW i, NEW n, NEW d, NEW id, NEW u, NEW v, NEW x
  PROVE  setupFullFrame(Server(t, w, h, i, n, d, id), u, v, x) = Server(t, u, v, x, n, d, id)
<1> DEFINE s == Server(t, w, h, i, n, d, id)
           a == [s EXCEPT !.width = u]
           b == [a EXCEPT !.height = v]
<1>1. setupFullFrame(s, u, v, x) = [b EXCEPT !.dataIndex = x]
  BY DEF setupFullFrame
<1>2. a = Server(t, u, h, i, n, d, id)
  BY DEF Server
<1> HIDE DEF a
<1>3. b = Server(t, u, v, i, n, d, id)
  BY <1>2 DEF Server
<1> HIDE DEF b
<1> QED BY <1>1, <1>3 DEF Server

LEMMA ServerChannel ==
  ASSUME NEW t, NEW w, NEW h, NEW i, NEW n, NEW d, NEW id, NEW v
  PROVE  setupChannel(Server(t, w, h, i, n, d, id), v) = Server(t, w, h, i, v, d, id)
BY DEF setupChannel, Server

LEMMA ServerDescramble ==
  ASSUME NEW t, NEW w, NEW h, NEW i, NEW n, NEW d, NEW id, NEW v
  PROVE  setDescramble(Server(t, w, h, i, n, d, id), v) = Server(t, w, h, i, n, v, id)
BY DEF setDescramble, Server

ServerShape ==
  \E t, w, h, i, n, d, id :
    server = Server(t, w, h, i, n, d, id) /\ t \in {"temporal", "spatial"}

(* While an acquisition runs the sub-frames are those of an arrangement    *)
(* the driver accepted, or the one selected, and the full frame is set up  *)
(* for them.                                                               *)
ArrangedTemporal(layout) ==
  /\ server.mode = "temporal"
  /\ subFrameMap = [ch \in 0 .. Channels - 1 |-> Region(layout, ch, W, H)]
  /\ server.width = W /\ server.height = H
  /\ server.dataIndex = driver.descramble
ArrangedSpatial(layout, ch) ==
  /\ server.mode = "spatial" /\ server.currentSubFrame = ch
  /\ subFrameMap = [id \in {ch} |-> Region(layout, ch, W, H)]
  /\ WholeStripes => IsWhole(subFrameMap[ch], driver)
  /\ server.width = WidthOf(subFrameMap[ch]) /\ server.height = HeightOf(subFrameMap[ch])
  /\ server.dataIndex = Realigned(subFrameMap[ch], W, driver.descramble)
Accepted ==
  /\ driver # None /\ server.size \in PacketSizes
  /\ \A id \in DOMAIN subFrameMap : ~Refused(subFrameMap[id])
Arranged ==
  /\ acquiring =>
       /\ Accepted
       /\ \E layout \in Layouts :
            \/ ArrangedTemporal(layout)
            \/ \E ch \in 0 .. Channels - 1 : ArrangedSpatial(layout, ch)
  /\ ~acquiring => DOMAIN subFrameMap = {}

MaskMatches == serverMask = Mask(DOMAIN subFrameMap)

Registry == ServerShape /\ Arranged /\ MaskMatches

LEMMA ReadSize ==
  ASSUME FilesSound, driver # None
  PROVE  W \in Nat /\ H \in Nat
<1>1. PICK c \in Objects : Sound(c) /\ driver = ReadFrom(c)
  BY DEF FilesSound
<1>2. driver.size = c.size
  BY <1>1 DEF ReadFrom, readScrambledImage, generateConfiguration
<1> QED BY <1>1, <1>2, SoundGeometry DEF W, H

(* The sub-frames lie inside the image and have the same number of pixels. *)
LEMMA Shape ==
  ASSUME FilesSound, Registry, acquiring
  PROVE  /\ W \in Nat /\ H \in Nat /\ server.size \in Nat \ {0}
         /\ \A id \in DOMAIN subFrameMap :
              /\ id \in 0 .. Channels - 1
              /\ Inside(subFrameMap[id], W, H)
              /\ PixelsOf(subFrameMap[id]) \in Nat \ {0}
         /\ \A id, jd \in DOMAIN subFrameMap :
              PixelsOf(subFrameMap[id]) = PixelsOf(subFrameMap[jd])
         /\ server.mode = "temporal" => DOMAIN subFrameMap = 0 .. Channels - 1
         /\ server.mode = "spatial" => DOMAIN subFrameMap = {server.currentSubFrame}
<1>1. W \in Nat /\ H \in Nat /\ server.size \in Nat \ {0}
  BY ReadSize, ChainAssumption DEF Registry, Arranged, Accepted
<1>2. PICK layout \in Layouts :
        \/ ArrangedTemporal(layout)
        \/ \E ch \in 0 .. Channels - 1 : ArrangedSpatial(layout, ch)
  BY DEF Registry, Arranged
<1>3. /\ \A id \in DOMAIN subFrameMap :
           id \in 0 .. Channels - 1 /\ subFrameMap[id] = Region(layout, id, W, H)
      /\ server.mode = "temporal" => DOMAIN subFrameMap = 0 .. Channels - 1
      /\ server.mode = "spatial" => DOMAIN subFrameMap = {server.currentSubFrame}
  <2>1. CASE ArrangedTemporal(layout)
    BY <2>1 DEF ArrangedTemporal
  <2>2. ASSUME NEW ch \in 0 .. Channels - 1, ArrangedSpatial(layout, ch)
        PROVE  <1>3!:
    BY <2>2 DEF ArrangedSpatial
  <2> QED BY <1>2, <2>1, <2>2
<1>4. \A id \in DOMAIN subFrameMap : ~Refused(Region(layout, id, W, H))
  BY <1>3 DEF Registry, Arranged, Accepted
<1>5. \A id \in DOMAIN subFrameMap :
        /\ Inside(Region(layout, id, W, H), W, H)
        /\ PixelsOf(Region(layout, id, W, H)) = Share(layout, W, H)
        /\ PixelsOf(Region(layout, id, W, H)) \in Nat \ {0}
  BY <1>1, <1>3, <1>4, RegionInside
<1> QED BY <1>1, <1>3, <1>5

(* The ids fit the mask. *)
LEMMA Ids ==
  ASSUME Registry
  PROVE  DOMAIN subFrameMap \subseteq 0 .. 7
<1>1. CASE acquiring
  <2>1. PICK layout \in Layouts :
          \/ ArrangedTemporal(layout)
          \/ \E ch \in 0 .. Channels - 1 : ArrangedSpatial(layout, ch)
    BY <1>1 DEF Registry, Arranged
  <2>2. DOMAIN subFrameMap \subseteq 0 .. Channels - 1
    <3>1. CASE ArrangedTemporal(layout)
      BY <3>1 DEF ArrangedTemporal
    <3>2. ASSUME NEW ch \in 0 .. Channels - 1, ArrangedSpatial(layout, ch)
          PROVE  DOMAIN subFrameMap \subseteq 0 .. Channels - 1
      BY <3>2 DEF ArrangedSpatial
    <3> QED BY <2>1, <3>1, <3>2
  <2> QED BY <2>2, ChainAssumption
<1>2. CASE ~acquiring
  BY <1>2 DEF Registry, Arranged
<1> QED BY <1>1, <1>2

LEMMA RegistryInit == ASSUME ChainInit PROVE Registry
<1>1. Mask({}) = 0
  BY DEF Mask
<1>2. server = Server("temporal", 0, 0, Blank(0), 0, 0, 0)
  BY DEF ChainInit, Server
<1>3. ServerShape
  BY <1>2, Zenon DEF ServerShape
<1> QED BY <1>1, <1>3 DEF ChainInit, Registry, Arranged, MaskMatches

(* A start that is not refused registers the sub-frames it was given. *)
LEMMA Registered ==
  ASSUME Registry, ~acquiring, NEW regions, setupSubFrames(regions),
         DOMAIN regions \subseteq 0 .. 7
  PROVE  /\ subFrameMap' = [id \in DOMAIN regions |-> regions[id]]
         /\ MaskMatches'
<1>1. DOMAIN subFrameMap = {}
  BY DEF Registry, Arranged
<1>2. serverMask = 0
  BY <1>1 DEF Registry, MaskMatches, Mask
<1>3. subFrameMap' = [id \in DOMAIN regions |-> regions[id]]
  BY <1>1 DEF setupSubFrames
<1>4. Mask(DOMAIN regions) \in Nat
  BY MaskTells
<1>5. serverMask' = Mask(DOMAIN regions)
  BY <1>2, <1>4 DEF setupSubFrames
<1> QED BY <1>3, <1>5 DEF MaskMatches

(* What the calls of a start make of the server *)
LEMMA ModesSet ==
  ASSUME ServerShape, NEW w, NEW h, NEW index, NEW size, NEW ch
  PROVE  LET temporalFrame == setupFullFrame(setToTemporalMode(server), w, h, index)
             spatialFrame  == setupFullFrame(setToSpatialMode(server, ch), w, h, index)
             d == server.descramble
         IN  /\ temporalFrame = Server("temporal", w, h, index, server.size, d, 0)
             /\ setupChannel(temporalFrame, size) = Server("temporal", w, h, index, size, d, 0)
             /\ spatialFrame = Server("spatial", w, h, index, server.size, d, ch)
             /\ setupChannel(spatialFrame, size) = Server("spatial", w, h, index, size, d, ch)
<1>1. PICK t, u, v, i, n, d, id : server = Server(t, u, v, i, n, d, id)
  BY DEF ServerShape
<1>2. server.size = n /\ server.descramble = d
  BY <1>1 DEF Server
<1>3. /\ setToTemporalMode(server) = Server("temporal", u, v, i, n, d, 0)
      /\ setToSpatialMode(server, ch) = Server("spatial", u, v, i, n, d, ch)
  BY <1>1, ServerTemporal, ServerSpatial
<1>4. /\ setupFullFrame(setToTemporalMode(server), w, h, index) = Server("temporal", w, h, index, n, d, 0)
      /\ setupFullFrame(setToSpatialMode(server, ch), w, h, index) = Server("spatial", w, h, index, n, d, ch)
  BY <1>3, ServerFull
<1> QED BY <1>2, <1>4, ServerChannel

LEMMA DescrambleKeeps ==
  ASSUME ServerShape, NEW mode, server' = setDescramble(server, mode)
  PROVE  /\ ServerShape'
         /\ server'.mode = server.mode /\ server'.width = server.width
         /\ server'.height = server.height /\ server'.dataIndex = server.dataIndex
         /\ server'.size = server.size /\ server'.currentSubFrame = server.currentSubFrame
<1>1. PICK t, w, h, i, n, d, id :
        server = Server(t, w, h, i, n, d, id) /\ t \in {"temporal", "spatial"}
  BY DEF ServerShape
<1>2. server' = Server(t, w, h, i, n, mode, id)
  BY <1>1, ServerDescramble
<1>3. ServerShape'
  BY <1>1, <1>2, Zenon DEF ServerShape
<1> QED BY <1>1, <1>2, <1>3 DEF Server

LEMMA RegistryTemporal ==
  ASSUME Registry, NEW layout \in Layouts, NEW size \in PacketSizes, StartTemporal(layout, size)
  PROVE  Registry'
<1> DEFINE regions == [ch \in 0 .. Channels - 1 |-> Region(layout, ch, W, H)]
<1>1. /\ ~acquiring /\ driver # None
      /\ Start(setupTemporalImage, regions, PixelsOf(regions[0]), size)
      /\ UNCHANGED driver
  BY DEF StartTemporal, W, H, files
<1>2. /\ setupTemporalImage =
           Server("temporal", W, H, driver.descramble, server.size, server.descramble, 0)
      /\ setupChannel(setupTemporalImage, size) =
           Server("temporal", W, H, driver.descramble, size, server.descramble, 0)
  BY ModesSet DEF Registry, setupTemporalImage, copyDescrambleArray, W, H
<1> HIDE DEF regions
<1>3. CASE \E id \in DOMAIN regions : Refused(regions[id])
  <2>1. /\ server' = setupTemporalImage
        /\ UNCHANGED <<subFrameMap, serverMask, acquiring>>
    BY <1>1, <1>3 DEF Start
  <2>2. ServerShape'
    BY <1>2, <2>1, Zenon DEF ServerShape
  <2> QED BY <1>1, <2>1, <2>2 DEF Registry, Arranged, MaskMatches
<1>4. CASE ~ \E id \in DOMAIN regions : Refused(regions[id])
  <2>1. /\ server' = setupChannel(setupTemporalImage, size)
        /\ setupSubFrames(regions) /\ acquiring' = TRUE
    BY <1>1, <1>4 DEF Start, startAcquisition
  <2>2. ServerShape'
    BY <1>2, <2>1, Zenon DEF ServerShape
  <2>3. DOMAIN regions \subseteq 0 .. 7
    BY ChainAssumption DEF regions
  <2>4. subFrameMap' = regions /\ MaskMatches'
    BY <1>1, <2>1, <2>3, Registered DEF regions
  <2>5. W' = W /\ H' = H
    BY <1>1 DEF W, H
  <2>6. ArrangedTemporal(layout)'
    BY <1>1, <1>2, <2>1, <2>4, <2>5 DEF ArrangedTemporal, regions, Server
  <2>7. Accepted'
    BY <1>1, <1>2, <1>4, <2>1, <2>4 DEF Accepted, Server
  <2> QED BY <2>1, <2>2, <2>4, <2>6, <2>7 DEF Registry, Arranged
<1> QED BY <1>3, <1>4

LEMMA RegistrySpatial ==
  ASSUME Registry, NEW layout \in Layouts, NEW size \in PacketSizes, NEW ch \in 0 .. Channels - 1,
         StartSpatial(layout, ch, size)
  PROVE  Registry'
<1> DEFINE r == Region(layout, ch, W, H)
           regions == [id \in {ch} |-> r]
           index == Realigned(r, W, driver.descramble)
<1>1. /\ ~acquiring /\ driver # None
      /\ WholeStripes => Refused(r) \/ IsWhole(r, driver)
      /\ Start(setupSpatialImage(ch, r), regions, PixelsOf(r), size)
      /\ UNCHANGED driver
  BY DEF StartSpatial, W, H, files
<1>2. /\ setupSpatialImage(ch, r) =
           Server("spatial", WidthOf(r), HeightOf(r), index, server.size, server.descramble, ch)
      /\ setupChannel(setupSpatialImage(ch, r), size) =
           Server("spatial", WidthOf(r), HeightOf(r), index, size, server.descramble, ch)
  BY ModesSet DEF Registry, setupSpatialImage, copyDescrambleArray, W, H
<1>5. DOMAIN regions = {ch} /\ regions[ch] = r
  OBVIOUS
<1> HIDE DEF regions
<1>3. CASE Refused(r)
  <2>1. /\ server' = setupSpatialImage(ch, r)
        /\ UNCHANGED <<subFrameMap, serverMask, acquiring>>
    BY <1>1, <1>3, <1>5 DEF Start
  <2>2. ServerShape'
    BY <1>2, <2>1, Zenon DEF ServerShape
  <2> QED BY <1>1, <2>1, <2>2 DEF Registry, Arranged, MaskMatches
<1>4. CASE ~Refused(r)
  <2>1. /\ server' = setupChannel(setupSpatialImage(ch, r), size)
        /\ setupSubFrames(regions) /\ acquiring' = TRUE
    BY <1>1, <1>4, <1>5 DEF Start, startAcquisition
  <2>2. ServerShape'
    BY <1>2, <2>1, Zenon DEF ServerShape
  <2>3. DOMAIN regions \subseteq 0 .. 7
    BY <1>5, ChainAssumption
  <2>4. subFrameMap' = regions /\ MaskMatches'
    BY <1>1, <2>1, <2>3, Registered DEF regions
  <2>5. W' = W /\ H' = H
    BY <1>1 DEF W, H
  <2>6. ArrangedSpatial(layout, ch)'
    BY <1>1, <1>2, <1>4, <1>5, <2>1, <2>4, <2>5 DEF ArrangedSpatial, regions, Server
  <2>7. Accepted'
    BY <1>1, <1>2, <1>4, <1>5, <2>1, <2>4 DEF Accepted, Server
  <2> QED BY <2>1, <2>2, <2>4, <2>6, <2>7 DEF Registry, Arranged
<1> QED BY <1>3, <1>4

LEMMA RegistryStep ==
  ASSUME Registry, [ChainNext]_chainVars
  PROVE  Registry'
<1>1. ASSUME NEW layout \in Layouts, NEW size \in PacketSizes, StartTemporal(layout, size)
      PROVE  Registry'
  BY <1>1, RegistryTemporal
<1>2. ASSUME NEW layout \in Layouts, NEW size \in PacketSizes, NEW ch \in 0 .. Channels - 1,
             StartSpatial(layout, ch, size)
      PROVE  Registry'
  BY <1>2, RegistrySpatial
<1>3. CASE PercConfigFileRead
  <2>1. ~acquiring /\ UNCHANGED <<subFrameMap, serverMask, acquiring>>
    BY <1>3 DEF PercConfigFileRead
  <2>2. ServerShape'
    <3>1. PICK t, w, h, i, n, d, id :
            server = Server(t, w, h, i, n, d, id) /\ t \in {"temporal", "spatial"}
      BY DEF Registry, ServerShape
    <3>2. CASE file = None
      BY <1>3, <3>1, <3>2 DEF PercConfigFileRead, ServerShape
    <3>3. CASE file # None
      <4>1. server' = setupFullFrame(server, file.size["x"], file.size["y"], copyDescrambleArray(driver'))
        BY <1>3, <3>3 DEF PercConfigFileRead
      <4>2. server' = Server(t, file.size["x"], file.size["y"], copyDescrambleArray(driver'), n, d, id)
        BY <3>1, <4>1, ServerFull
      <4> QED BY <3>1, <4>2, Zenon DEF ServerShape
    <3> QED BY <3>2, <3>3
  <2> QED BY <2>1, <2>2 DEF Registry, Arranged, MaskMatches
<1>4. CASE StopAcquisition
  <2>1. acquiring /\ acquiring' = FALSE /\ server' = server /\ releaseAllSubFrames
    BY <1>4 DEF StopAcquisition
  <2>2. DOMAIN subFrameMap \in SUBSET (0 .. 7)
    BY Ids
  <2>3. /\ Mask(DOMAIN subFrameMap) \in Nat
        /\ {id \in 0 .. 7 : (serverMask \div Bit(id)) % 2 = 1} = DOMAIN subFrameMap
    BY <2>2, MaskTells DEF Registry, MaskMatches
  <2>4. DOMAIN subFrameMap' = {} /\ serverMask' = serverMask - Mask(DOMAIN subFrameMap)
    BY <2>1, <2>3 DEF releaseAllSubFrames
  <2>5. serverMask' = 0
    BY <2>3, <2>4 DEF Registry, MaskMatches
  <2>6. Mask({}) = 0
    BY DEF Mask
  <2>7. ServerShape'
    BY <2>1 DEF Registry, ServerShape
  <2> QED BY <2>1, <2>4, <2>5, <2>6, <2>7 DEF Registry, Arranged, MaskMatches
<1>5. ASSUME NEW mode, SetDescramble(mode)
      PROVE  Registry'
  <2>1. /\ server' = setDescramble(server, mode)
        /\ UNCHANGED <<driver, subFrameMap, serverMask, acquiring>>
    BY <1>5 DEF SetDescramble, files
  <2>2. ServerShape'
    BY <2>1, DescrambleKeeps DEF Registry
  <2>3. /\ server'.mode = server.mode /\ server'.width = server.width
        /\ server'.height = server.height /\ server'.dataIndex = server.dataIndex
        /\ server'.size = server.size /\ server'.currentSubFrame = server.currentSubFrame
    BY <2>1, DescrambleKeeps DEF Registry
  <2>4. W' = W /\ H' = H
    BY <2>1 DEF W, H
  <2>5. \A layout : ArrangedTemporal(layout) => ArrangedTemporal(layout)'
    BY <2>1, <2>3, <2>4 DEF ArrangedTemporal
  <2>6. \A layout, ch : ArrangedSpatial(layout, ch) => ArrangedSpatial(layout, ch)'
    BY <2>1, <2>3, <2>4 DEF ArrangedSpatial
  <2>7. Accepted => Accepted'
    BY <2>1, <2>3 DEF Accepted
  <2>8. Arranged'
    BY <2>1, <2>5, <2>6, <2>7 DEF Registry, Arranged
  <2> QED BY <2>1, <2>2, <2>8 DEF Registry, MaskMatches
<1>6. CASE UNCHANGED <<driver, setup>>
  <2>1. W' = W /\ H' = H /\ UNCHANGED <<driver, server, subFrameMap, serverMask, acquiring>>
    BY <1>6 DEF W, H, setup
  <2>2. ServerShape'
    BY <2>1 DEF Registry, ServerShape
  <2>5. \A layout : ArrangedTemporal(layout) => ArrangedTemporal(layout)'
    BY <2>1 DEF ArrangedTemporal
  <2>6. \A layout, ch : ArrangedSpatial(layout, ch) => ArrangedSpatial(layout, ch)'
    BY <2>1 DEF ArrangedSpatial
  <2>7. Accepted => Accepted'
    BY <2>1 DEF Accepted
  <2>8. Arranged'
    BY <2>1, <2>5, <2>6, <2>7 DEF Registry, Arranged
  <2> QED BY <2>1, <2>2, <2>8 DEF Registry, MaskMatches
<1> QED BY <1>1, <1>2, <1>3, <1>4, <1>5, <1>6 DEF ChainNext, chainVars, files, WriteSetting,
      RawFileWrite, RawFileRead, SendFrame, PacketReceived, FrameComplete, ProcessFrame

-----------------------------------------------------------------------------
(* Packets and buffers                                                     *)

(* The packet checker has a flag for each packet of each sub-frame. *)
CheckerFits ==
  acquiring =>
    /\ \A id \in DOMAIN subFrameMap :
         packets = expectedPackets(PixelsOf(subFrameMap[id]), server.size)
    /\ server.mode = "temporal" => parcels = Channels
    /\ server.mode = "spatial" => parcels = 1

(* The buffers have room for the pixels of their sub-frames. *)
BuffersFit ==
  acquiring =>
    /\ subFrames = [id \in DOMAIN subFrameMap |-> subFrames[id]]
    /\ \A id \in DOMAIN subFrameMap :
         subFrames[id] = [k \in 0 .. PixelsOf(subFrameMap[id]) - 1 |-> subFrames[id][k]]

(* On their way are the packets of the frame that is sent, and all of them. *)
Section(id) == copyScrambledSection(source, frameSent % source.images, subFrameMap[id])
Packet(id, j) ==
  [frameNumber |-> frameSent % 65536, subFrameNumber |-> id % 256,
   packetNumber |-> j % 65536, packetType |-> 0,
   payload |-> [i \in 0 .. PacketLength(PixelsOf(subFrameMap[id]), server.size, j) - 1 |->
                 Section(id)[j * server.size + i]]]
NetIsFrame ==
  /\ \A p \in net : \E id \in DOMAIN subFrameMap, j \in 0 .. packets - 1 : p = Packet(id, j)
  /\ net # {} =>
       /\ acquiring /\ source = driver
       /\ \A id \in DOMAIN subFrameMap, j \in 0 .. packets - 1 : Packet(id, j) \in net

Assembly == FilesSound /\ Registry /\ IInv /\ CheckerFits /\ BuffersFit /\ NetIsFrame

(* The number of packets, as the sender and the server count it *)
LEMMA PacketCount ==
  ASSUME FilesSound, Registry, CheckerFits, acquiring, NEW id \in DOMAIN subFrameMap
  PROVE  /\ packets \in Nat \ {0} /\ server.size \in Nat \ {0}
         /\ packets = expectedPackets(PixelsOf(subFrameMap[id]), server.size)
         /\ packets = NumberOfPackets(PixelsOf(subFrameMap[id]), server.size)
         /\ id \in 0 .. Channels - 1 /\ id % 256 = id
         /\ PixelsOf(subFrameMap[id]) \in Nat \ {0}
<1>1. /\ PixelsOf(subFrameMap[id]) \in Nat \ {0} /\ server.size \in Nat \ {0}
      /\ id \in 0 .. Channels - 1
  BY Shape
<1>2. packets = expectedPackets(PixelsOf(subFrameMap[id]), server.size)
  BY DEF CheckerFits
<1> DEFINE n == PixelsOf(subFrameMap[id])
<1>3. NumberOfPackets(n, server.size) = expectedPackets(n, server.size)
      /\ expectedPackets(n, server.size) \in Nat \ {0}
  <2> HIDE DEF n
  <2> QED BY <1>1, Cutting DEF n
<1>4. id % 256 = id
  BY <1>1, ChainAssumption, SMT
<1> QED BY <1>1, <1>2, <1>3, <1>4

(* A packet has a flag, and its payload fits. *)
LEMMA PacketFits ==
  ASSUME FilesSound, Registry, CheckerFits, acquiring,
         NEW id \in DOMAIN subFrameMap, NEW j \in 0 .. packets - 1
  PROVE  /\ Packet(id, j).subFrameNumber = id /\ Packet(id, j).packetNumber = j % 65536
         /\ Parcel(Packet(id, j)) \in 0 .. parcels - 1
         /\ j % 65536 \in 0 .. packets - 1
         /\ DOMAIN Packet(id, j).payload =
              0 .. PacketLength(PixelsOf(subFrameMap[id]), server.size, j) - 1
         /\ \A k \in DOMAIN Packet(id, j).payload :
              server.size * (j % 65536) + k \in 0 .. PixelsOf(subFrameMap[id]) - 1
<1> DEFINE n == PixelsOf(subFrameMap[id])
           size == server.size
           p == Packet(id, j)
           m == j % 65536
           len == PacketLength(n, size, j)
<1>1. /\ packets \in Nat \ {0} /\ size \in Nat \ {0} /\ n \in Nat \ {0}
      /\ packets = expectedPackets(n, size)
      /\ id \in 0 .. Channels - 1 /\ id % 256 = id
  BY PacketCount
<1>2. p.subFrameNumber = id /\ p.packetNumber = m /\ DOMAIN p.payload = 0 .. len - 1
  BY <1>1 DEF Packet
<1>3. m \in Nat /\ m <= j /\ j \in Nat /\ m \in 0 .. packets - 1
  BY <1>1, SMT
<1>4. Parcel(p) \in 0 .. parcels - 1
  <2>1. server.mode \in {"temporal", "spatial"}
    BY DEF Registry, ServerShape, Server
  <2>2. CASE server.mode = "temporal"
    BY <1>1, <1>2, <2>2 DEF Parcel, CheckerFits
  <2>3. CASE server.mode = "spatial"
    BY <2>3 DEF Parcel, CheckerFits
  <2> QED BY <2>1, <2>2, <2>3
<1> HIDE DEF n, size, p, m, len
<1>5. ASSUME NEW k \in 0 .. len - 1
      PROVE  size * m + k \in 0 .. n - 1
  <2>1. /\ \A i \in 0 .. packets - 1 : i * size \in Nat /\ PacketLength(n, size, i) \in 1 .. size
              /\ i * size + PacketLength(n, size, i) <= n
    BY <1>1, Cutting
  <2>2. size * m = m * size
    BY <1>1, <1>3
  <2>3. CASE m = j
    BY <1>1, <1>3, <2>1, <2>2, <2>3 DEF len
  <2>4. CASE m < j
    <3>1. m * size + size <= j * size
      BY <1>1, <1>3, <2>4, Monotone
    <3>2. j * size <= n /\ j * size \in Nat /\ len \in 1 .. size
      BY <1>1, <2>1 DEF len
    <3>3. m * size \in Nat
      BY <1>3, <2>1
    <3> QED BY <1>1, <2>2, <3>1, <3>2, <3>3
  <2> QED BY <1>3, <2>3, <2>4
<1> QED BY <1>2, <1>3, <1>4, <1>5 DEF n, size, p, m, len

LEMMA PayloadFits ==
  ASSUME Assembly
  PROVE  PayloadInside
<1> SUFFICES ASSUME NEW p \in net
             PROVE  /\ <<Parcel(p), p.packetNumber>> \in Positions
                    /\ \A k \in DOMAIN p.payload :
                         server.size * p.packetNumber + k \in DOMAIN subFrames[p.subFrameNumber]
  BY DEF PayloadInside
<1> USE DEF Assembly
<1>1. acquiring
  BY DEF NetIsFrame
<1>2. PICK id \in DOMAIN subFrameMap, j \in 0 .. packets - 1 : p = Packet(id, j)
  BY DEF NetIsFrame
<1>3. /\ p.subFrameNumber = id /\ p.packetNumber = j % 65536
      /\ Parcel(p) \in 0 .. parcels - 1 /\ p.packetNumber \in 0 .. packets - 1
      /\ \A k \in DOMAIN p.payload :
           server.size * (j % 65536) + k \in 0 .. PixelsOf(subFrameMap[id]) - 1
  BY <1>1, <1>2, PacketFits
<1>4. DOMAIN subFrames[id] = 0 .. PixelsOf(subFrameMap[id]) - 1
  BY <1>1 DEF BuffersFit
<1> QED BY <1>3, <1>4 DEF Positions

(* The beginning of an acquisition in temporal mode *)
LEMMA BegunTemporal ==
  ASSUME Assembly, NEW layout \in Layouts, NEW size \in PacketSizes, StartTemporal(layout, size)
  PROVE  IInv' /\ CheckerFits' /\ BuffersFit'
<1> DEFINE regions == [ch \in 0 .. Channels - 1 |-> Region(layout, ch, W, H)]
           n == PixelsOf(regions[0])
<1>1. /\ ~acquiring /\ driver # None
      /\ Start(setupTemporalImage, regions, n, size)
  BY DEF StartTemporal, W, H
<1>2. setupChannel(setupTemporalImage, size) =
        Server("temporal", W, H, driver.descramble, size, server.descramble, 0)
  BY ModesSet DEF Assembly, Registry, setupTemporalImage, copyDescrambleArray, W, H
<1>3. W \in Nat /\ H \in Nat /\ Channels \in Nat \ {0} /\ Channels <= MaxParcels /\ size \in Nat \ {0}
  BY <1>1, ReadSize, ChainAssumption DEF Assembly
<1>4. CASE \E id \in DOMAIN regions : Refused(regions[id])
  <2> HIDE DEF regions
  <2>1. UNCHANGED <<vars, acquiring>>
    BY <1>1, <1>4 DEF Start, checkerVars
  <2> QED BY <1>1, <2>1 DEF Assembly, CheckerFits, BuffersFit, IInv, TypeOK, CountIsExact,
        getCount, Flagged, Indices, vars
<1>5. CASE ~ \E id \in DOMAIN regions : Refused(regions[id])
  <2>1. \A id \in 0 .. Channels - 1 : PixelsOf(regions[id]) = n /\ n \in Nat \ {0}
    <3>1. ASSUME NEW id \in 0 .. Channels - 1
          PROVE  PixelsOf(regions[id]) = Share(layout, W, H) /\ PixelsOf(regions[id]) \in Nat \ {0}
      BY <1>3, <1>5, RegionInside
    <3>2. 0 \in 0 .. Channels - 1
      BY <1>3
    <3> QED BY <3>1, <3>2
  <2>2. DOMAIN regions = 0 .. Channels - 1 /\ Cardinality(DOMAIN regions) = Channels
    BY <1>3, FS_Interval
  <2> HIDE DEF regions, n
  <2>3. /\ server' = setupChannel(setupTemporalImage, size)
        /\ setupSubFrames(regions) /\ startAcquisition(regions, n, size)
    BY <1>1, <1>5 DEF Start
  <2>4. subFrameMap' = [id \in DOMAIN regions |-> regions[id]]
    <3>1. DOMAIN regions \subseteq 0 .. 7
      BY <2>2, ChainAssumption
    <3> QED BY <1>1, <2>3, <3>1, Registered DEF Assembly
  <2>5. server'.mode = "temporal" /\ server'.size = size
    BY <1>2, <2>3 DEF Server
  <2> DEFINE e == expectedPackets(n, size)
  <2>6. /\ init(Channels, e) /\ e <= MaxPackets
        /\ subFrames' = Buffers(regions) /\ acquiring' = TRUE
    BY <2>2, <2>3 DEF startAcquisition
  <2>7. n \in Nat \ {0}
    BY <1>3, <2>1
  <2>8. e \in Nat \ {0}
    BY <1>3, <2>7, Cutting
  <2>9. Channels \in 1 .. MaxParcels /\ e \in 1 .. MaxPackets
    <3> HIDE DEF e
    <3> QED BY <1>3, <2>6, <2>8, BoundsAssumption
  <2>10. IInv'
    BY <2>6, <2>9, InitStep
  <2>11. packets' = e /\ parcels' = Channels
    BY <2>6 DEF init
  <2>12. CheckerFits'
    BY <2>1, <2>2, <2>4, <2>5, <2>11 DEF CheckerFits
  <2>13. BuffersFit'
    BY <2>4, <2>6 DEF BuffersFit, Buffers, Blank
  <2> QED BY <2>10, <2>12, <2>13
<1> QED BY <1>4, <1>5

(* and in spatial mode *)
LEMMA BegunSpatial ==
  ASSUME Assembly, NEW layout \in Layouts, NEW size \in PacketSizes, NEW ch \in 0 .. Channels - 1,
         StartSpatial(layout, ch, size)
  PROVE  IInv' /\ CheckerFits' /\ BuffersFit'
<1> DEFINE r == Region(layout, ch, W, H)
           regions == [id \in {ch} |-> r]
           n == PixelsOf(r)
           index == Realigned(r, W, driver.descramble)
<1>1. /\ ~acquiring /\ driver # None
      /\ Start(setupSpatialImage(ch, r), regions, n, size)
  BY DEF StartSpatial, W, H
<1>2. setupChannel(setupSpatialImage(ch, r), size) =
        Server("spatial", WidthOf(r), HeightOf(r), index, size, server.descramble, ch)
  BY ModesSet DEF Assembly, Registry, setupSpatialImage, copyDescrambleArray, W, H
<1>3. W \in Nat /\ H \in Nat /\ size \in Nat \ {0}
  BY <1>1, ReadSize, ChainAssumption DEF Assembly
<1>4. CASE Refused(r)
  <2>1. UNCHANGED <<vars, acquiring>>
    BY <1>1, <1>4 DEF Start, checkerVars
  <2> QED BY <1>1, <2>1 DEF Assembly, CheckerFits, BuffersFit, IInv, TypeOK, CountIsExact,
        getCount, Flagged, Indices, vars
<1>5. CASE ~Refused(r)
  <2>1. n \in Nat \ {0}
    BY <1>3, <1>5, RegionInside
  <2>2. DOMAIN regions = {ch} /\ regions[ch] = r /\ Cardinality(DOMAIN regions) = 1
    BY FS_Singleton
  <2> HIDE DEF regions, n
  <2>3. /\ server' = setupChannel(setupSpatialImage(ch, r), size)
        /\ setupSubFrames(regions) /\ startAcquisition(regions, n, size)
    BY <1>1, <1>5, <2>2 DEF Start
  <2>4. subFrameMap' = [id \in DOMAIN regions |-> regions[id]]
    <3>1. DOMAIN regions \subseteq 0 .. 7
      BY <2>2, ChainAssumption
    <3> QED BY <1>1, <2>3, <3>1, Registered DEF Assembly
  <2>5. server'.mode = "spatial" /\ server'.size = size
    BY <1>2, <2>3 DEF Server
  <2> DEFINE e == expectedPackets(n, size)
  <2>6. /\ init(1, e) /\ e <= MaxPackets
        /\ subFrames' = Buffers(regions) /\ acquiring' = TRUE
    BY <2>2, <2>3 DEF startAcquisition
  <2>8. e \in Nat \ {0}
    BY <1>3, <2>1, Cutting
  <2>9. 1 \in 1 .. MaxParcels /\ e \in 1 .. MaxPackets
    <3> HIDE DEF e
    <3> QED BY <2>6, <2>8, BoundsAssumption
  <2>10. IInv'
    BY <2>6, <2>9, InitStep
  <2>11. packets' = e /\ parcels' = 1
    BY <2>6 DEF init
  <2>12. CheckerFits'
    BY <2>2, <2>4, <2>5, <2>11 DEF CheckerFits, n
  <2>13. BuffersFit'
    BY <2>4, <2>6 DEF BuffersFit, Buffers, Blank
  <2> QED BY <2>10, <2>12, <2>13
<1> QED BY <1>4, <1>5

(* What is sent are the packets of the frame. *)
LEMMA PacketsOfFrame ==
  ASSUME Assembly, SendFrame
  PROVE  NetIsFrame'
<1> DEFINE n == frameSent + 1
           q(id) == Packets(id, n)
<1>1. /\ acquiring /\ source = driver /\ frameSent' = n
      /\ net' = ToSet(PacketsSent(n))
      /\ UNCHANGED <<packets, source, driver, server, subFrameMap, acquiring>>
  BY DEF SendFrame, checkerVars, vars, files, setup
<1>2. ASSUME NEW id \in DOMAIN subFrameMap
      PROVE  /\ id \in 0 .. Channels - 1
             /\ packets \in Nat \ {0}
             /\ q(id) = [j \in 1 .. packets |-> Packet(id, j - 1)']
  <2>1. /\ id \in 0 .. Channels - 1 /\ packets \in Nat \ {0}
        /\ packets = NumberOfPackets(PixelsOf(subFrameMap[id]), server.size)
    BY <1>1, PacketCount DEF Assembly
  <2>2. Section(id)' = copyScrambledSection(source, n % source.images, subFrameMap[id])
    BY <1>1 DEF Section
  <2>3. ASSUME NEW j \in 1 .. packets
        PROVE  q(id)[j] = Packet(id, j - 1)'
    BY <1>1, <2>1, <2>2 DEF Packets, sendImage, Packet
  <2>4. q(id) = [j \in 1 .. packets |-> q(id)[j]]
    BY <2>1 DEF Packets, sendImage
  <2> HIDE DEF q
  <2> QED BY <2>1, <2>3, <2>4
<1> HIDE DEF q
<1> DEFINE T == UNION {{Packet(id, j)' : j \in 0 .. packets - 1} : id \in DOMAIN subFrameMap}
<1>3. \A id \in DOMAIN subFrameMap :
        q(id) \in Seq(T) /\ ToSet(q(id)) = {Packet(id, j)' : j \in 0 .. packets - 1}
  <2> SUFFICES ASSUME NEW id \in DOMAIN subFrameMap
               PROVE  q(id) \in Seq(T) /\ ToSet(q(id)) = {Packet(id, j)' : j \in 0 .. packets - 1}
    OBVIOUS
  <2> DEFINE P(j) == Packet(id, j)'
             U == {P(j) : j \in 0 .. packets - 1}
  <2>1. packets \in Nat \ {0} /\ q(id) = [j \in 1 .. packets |-> P(j - 1)]
    BY <1>2
  <2>2. U \subseteq T
    OBVIOUS
  <2> HIDE DEF P, T
  <2>3. \A j \in 1 .. packets : j - 1 \in 0 .. packets - 1
    BY <2>1
  <2>4. q(id) \in [1 .. packets -> U]
    BY <2>1, <2>3
  <2>5. q(id) \in [1 .. packets -> T]
    BY <2>2, <2>4
  <2>6. q(id) \in Seq(T)
    BY <2>1, <2>5
  <2>7. \A j \in 0 .. packets - 1 : j + 1 \in 1 .. packets /\ (j + 1) - 1 = j
    BY <2>1
  <2>8. ToSet(q(id)) = {P(j) : j \in 0 .. packets - 1}
    <3>1. DOMAIN q(id) = 1 .. packets /\ \A i \in 1 .. packets : q(id)[i] = P(i - 1)
      BY <2>1
    <3>2. \A x : x \in ToSet(q(id)) <=> \E i \in 1 .. packets : x = P(i - 1)
      BY <3>1 DEF ToSet
    <3>3. \A x : (\E i \in 1 .. packets : x = P(i - 1)) <=> \E j \in 0 .. packets - 1 : x = P(j)
      <4>1. ASSUME NEW i \in 1 .. packets
            PROVE  \E j \in 0 .. packets - 1 : P(i - 1) = P(j)
        BY <2>3
      <4>2. ASSUME NEW j \in 0 .. packets - 1
            PROVE  \E i \in 1 .. packets : P(j) = P(i - 1)
        <5>1. j + 1 \in 1 .. packets /\ P(j) = P((j + 1) - 1)
          BY <2>7
        <5> QED BY <5>1
      <4> QED BY <4>1, <4>2
    <3> QED BY <3>2, <3>3
  <2> QED BY <2>6, <2>8 DEF P
<1>4. \A id \in DOMAIN subFrameMap : Packets(id, n) \in Seq(T)
  BY <1>3 DEF q
<1>5. ToSet(PacketsSent(n)) =
        UNION {ToSet(q(id)) : id \in DOMAIN subFrameMap \cap 0 .. Channels - 1}
  <2> HIDE DEF T
  <2> QED BY <1>4, SentAll DEF q
<1>6. net' = UNION {{Packet(id, j)' : j \in 0 .. packets - 1} : id \in DOMAIN subFrameMap}
  <2>1. DOMAIN subFrameMap \cap 0 .. Channels - 1 = DOMAIN subFrameMap
    BY <1>2
  <2> DEFINE P(id) == {Packet(id, j)' : j \in 0 .. packets - 1}
  <2>2. \A id \in DOMAIN subFrameMap : ToSet(q(id)) = P(id)
    BY <1>3
  <2> HIDE DEF P
  <2>3. net' = UNION {ToSet(q(id)) : id \in DOMAIN subFrameMap}
    BY <1>1, <1>5, <2>1
  <2>4. net' = UNION {P(id) : id \in DOMAIN subFrameMap}
    BY <2>2, <2>3
  <2> QED BY <2>4 DEF P
<1> QED BY <1>1, <1>6 DEF NetIsFrame

(* A packet goes into a buffer and leaves it its size. *)
LEMMA PacketStored ==
  ASSUME Assembly, NEW p \in net, PacketReceived(p)
  PROVE  IInv' /\ CheckerFits' /\ BuffersFit' /\ NetIsFrame'
<1>1. acquiring
  BY DEF Assembly, NetIsFrame
<1>2. PICK id \in DOMAIN subFrameMap, j \in 0 .. packets - 1 : p = Packet(id, j)
  BY DEF Assembly, NetIsFrame
<1>3. /\ p.subFrameNumber = id /\ Parcel(p) \in 0 .. parcels - 1
      /\ p.packetNumber \in 0 .. packets - 1
  BY <1>1, <1>2, PacketFits DEF Assembly
<1>4. /\ set(Parcel(p), p.packetNumber)
      /\ subFrames' = [subFrames EXCEPT ![p.subFrameNumber] =
                         Stored(@, server.size * p.packetNumber, p.payload)]
      /\ UNCHANGED <<source, driver, server, subFrameMap, acquiring, net, frameSent>>
  BY DEF PacketReceived, files, setup, sender
<1>5. IInv'
  BY <1>3, <1>4, SetStep DEF Assembly
<1>6. UNCHANGED <<parcels, packets>>
  BY <1>4 DEF set, vars
<1>7. CheckerFits'
  BY <1>4, <1>6 DEF Assembly, CheckerFits
<1>8. BuffersFit'
  <2> DEFINE new == Stored(subFrames[id], server.size * p.packetNumber, p.payload)
  <2>1. DOMAIN subFrames = DOMAIN subFrameMap
    BY <1>1 DEF Assembly, BuffersFit
  <2>2. subFrames' = [i \in DOMAIN subFrameMap |-> IF i = id THEN new ELSE subFrames[i]]
    BY <1>2, <1>3, <1>4, <2>1
  <2>3. new = [k \in 0 .. PixelsOf(subFrameMap[id]) - 1 |-> new[k]]
    BY <1>1 DEF Assembly, BuffersFit, Stored
  <2> HIDE DEF new
  <2>4. \A i \in DOMAIN subFrameMap :
          subFrames[i] = [k \in 0 .. PixelsOf(subFrameMap[i]) - 1 |-> subFrames[i][k]]
    BY <1>1 DEF Assembly, BuffersFit
  <2>5. \A i \in DOMAIN subFrameMap :
          subFrames'[i] = [k \in 0 .. PixelsOf(subFrameMap[i]) - 1 |-> subFrames'[i][k]]
    BY <2>2, <2>3, <2>4
  <2>6. subFrames' = [i \in DOMAIN subFrameMap |-> subFrames'[i]]
    BY <2>2
  <2> QED BY <1>4, <2>5, <2>6 DEF BuffersFit
<1>9. NetIsFrame'
  <2>1. \A i, k : Packet(i, k)' = Packet(i, k)
    BY <1>4 DEF Packet, Section
  <2> QED BY <1>4, <1>6, <2>1 DEF Assembly, NetIsFrame
<1> QED BY <1>5, <1>7, <1>8, <1>9

LEMMA AssemblyInit == ASSUME ChainInit PROVE Assembly
<1>1. IInv
  <2>1. /\ Init /\ parcels = 1 /\ packets = 1
    BY DEF ChainInit
  <2>2. Init => IInv
    BY InitHolds
  <2> QED BY <2>1, <2>2
<1> QED BY <1>1, FilesSoundInit, RegistryInit DEF ChainInit, Assembly, CheckerFits, BuffersFit, NetIsFrame

LEMMA AssemblyStep ==
  ASSUME Assembly, [ChainNext]_chainVars
  PROVE  Assembly'
<1>1. FilesSound' /\ Registry'
  BY FilesSoundStep, RegistryStep DEF Assembly
<1>2. ~acquiring => net = {}
  BY DEF Assembly, NetIsFrame
<1> DEFINE Goal == IInv' /\ CheckerFits' /\ BuffersFit' /\ NetIsFrame'
<1>3. ASSUME UNCHANGED vars PROVE IInv'
  BY <1>3 DEF Assembly, IInv, TypeOK, CountIsExact, getCount, Flagged, Indices, vars
<1>4. ASSUME NEW layout \in Layouts, NEW size \in PacketSizes, StartTemporal(layout, size)
      PROVE  Goal
  <2>1. ~acquiring /\ net' = net
    BY <1>4 DEF StartTemporal, sender
  <2> QED BY <1>2, <1>4, <2>1, BegunTemporal DEF NetIsFrame
<1>5. ASSUME NEW layout \in Layouts, NEW size \in PacketSizes, NEW ch \in 0 .. Channels - 1,
             StartSpatial(layout, ch, size)
      PROVE  Goal
  <2>1. ~acquiring /\ net' = net
    BY <1>5 DEF StartSpatial, sender
  <2> QED BY <1>2, <1>5, <2>1, BegunSpatial DEF NetIsFrame
<1>6. ASSUME SendFrame
      PROVE  Goal
  <2>1. UNCHANGED <<vars, setup, subFrames>>
    BY <1>6 DEF SendFrame, checkerVars, reception
  <2> QED BY <1>3, <1>6, <2>1, PacketsOfFrame
          DEF Assembly, CheckerFits, BuffersFit, vars, setup
<1>7. ASSUME NEW p \in net, PacketReceived(p)
      PROVE  Goal
  BY <1>7, PacketStored
<1>8. ASSUME FrameComplete
      PROVE  Goal
  <2>1. ASSUME checkAll PROVE Goal
    <3>1. /\ resetAll /\ subFrames' = Buffers(subFrameMap)
          /\ UNCHANGED <<source, driver, server, subFrameMap, acquiring, net, frameSent>>
      BY <1>8, <2>1 DEF FrameComplete, files, setup, sender
    <3>2. IInv' /\ UNCHANGED <<parcels, packets>>
      BY <3>1, ResetAllStep DEF Assembly, resetAll
    <3> QED BY <3>1, <3>2 DEF Assembly, CheckerFits, BuffersFit, Buffers, Blank, NetIsFrame,
          Packet, Section
  <2>2. ASSUME ~checkAll PROVE Goal
    <3>1. UNCHANGED <<vars, source, driver, server, subFrameMap, acquiring, net, frameSent, subFrames>>
      BY <1>8, <2>2 DEF FrameComplete, checkerVars, files, setup, sender
    <3> QED BY <1>3, <3>1 DEF Assembly, CheckerFits, BuffersFit, NetIsFrame, Packet, Section, vars
  <2> QED BY <2>1, <2>2
<1>9. ASSUME StopAcquisition
      PROVE  Goal
  <2>1. UNCHANGED vars /\ acquiring' = FALSE /\ net' = {}
    BY <1>9 DEF StopAcquisition, checkerVars
  <2> QED BY <1>3, <2>1 DEF CheckerFits, BuffersFit, NetIsFrame
<1>10. ASSUME PercConfigFileRead \/ RawFileRead
      PROVE  Goal
  <2>1. UNCHANGED <<vars, acquiring, net>> /\ ~acquiring
    BY <1>10 DEF PercConfigFileRead, RawFileRead, checkerVars, setup, sender
  <2> QED BY <1>2, <1>3, <2>1 DEF CheckerFits, BuffersFit, NetIsFrame
<1>11. ASSUME NEW mode, SetDescramble(mode)
       PROVE  Goal
  <2>1. /\ server' = setDescramble(server, mode)
        /\ UNCHANGED <<vars, source, driver, subFrameMap, acquiring, net, frameSent, subFrames>>
    BY <1>11 DEF SetDescramble, checkerVars, files, sender, reception
  <2>2. server'.mode = server.mode /\ server'.size = server.size
    BY <2>1, DescrambleKeeps DEF Assembly, Registry
  <2> QED BY <1>3, <2>1, <2>2 DEF Assembly, CheckerFits, BuffersFit, NetIsFrame, Packet, Section, vars
<1>12. ASSUME ProcessFrame
      PROVE  Goal
  <2>1. /\ UNCHANGED <<vars, server, subFrameMap, acquiring, subFrames>>
        /\ net' = {}
    BY <1>12 DEF ProcessFrame, checkerVars, setup
  <2> QED BY <1>3, <2>1 DEF Assembly, CheckerFits, BuffersFit, NetIsFrame, vars
<1>13. ASSUME UNCHANGED chainVars \/ WriteSetting \/ RawFileWrite
       PROVE  Goal
  <2>1. UNCHANGED <<vars, source, driver, server, subFrameMap, acquiring, net, frameSent, subFrames>>
    BY <1>13 DEF chainVars, checkerVars, files, setup, sender, reception, WriteSetting, RawFileWrite
  <2> QED BY <1>3, <2>1 DEF Assembly, CheckerFits, BuffersFit, NetIsFrame, Packet, Section, vars
<1>14. Goal
  <2> HIDE DEF Goal
  <2> QED BY <1>4, <1>5, <1>6, <1>7, <1>8, <1>9, <1>10, <1>11, <1>12, <1>13 DEF ChainNext
<1> QED BY <1>1, <1>14 DEF Assembly

-----------------------------------------------------------------------------
(* Handing the buffers over                                                *)

(* Nothing is on its way while no acquisition runs. *)
Idle ==
  ~acquiring => net = {} /\ received = {} /\ image = None /\ io = "idle" /\ processFrame = None

(* A flag is set for the packets of the frame that have come, *)
PositionOf(p) == <<Parcel(p), p.packetNumber>>
FlagsMatch ==
  acquiring => \A pos \in Positions :
    check(pos[1], pos[2]) = 1 <=> processFrame = None /\ \E p \in received : PositionOf(p) = pos

(* and the io thread looks at them after each packet. *)
Turn ==
  /\ io \in {"idle", "check"} /\ received \subseteq net
  /\ io = "check" => processFrame = None
  /\ processFrame # None => net # {} /\ received = net
  /\ io = "idle" /\ processFrame = None /\ net # {} => received # net

Progress == Idle /\ FlagsMatch /\ Turn

(* Packet numbers have 16 bits: there are no more packets to a sub-frame. *)
Numbered == MaxPackets <= 65536

(* None is told from the buffers and the images, which are functions. *)
Atomic(v) == v # [x \in DOMAIN v |-> v[x]]

LEMMA Dimensions == ASSUME IInv PROVE parcels \in Nat \ {0} /\ packets \in Nat \ {0} /\ packets <= MaxPackets
BY BoundsAssumption DEF IInv, TypeOK

LEMMA FlagSet ==
  ASSUME IInv, NEW a \in 0 .. parcels - 1, NEW b \in 0 .. packets - 1, set(a, b),
         NEW pos \in Positions
  PROVE  check(pos[1], pos[2])' = IF pos = <<a, b>> THEN 1 ELSE check(pos[1], pos[2])
<1> DEFINE c == pos[1]
           d == pos[2]
           i == FlatIndex(a, b, packets)
           j == FlatIndex(c, d, packets)
<1>1. parcels \in Nat /\ packets \in Nat /\ checks \in [Indices -> {0, 1}]
  BY Dimensions DEF IInv, TypeOK
<1>2. c \in 0 .. parcels - 1 /\ d \in 0 .. packets - 1 /\ pos = <<c, d>>
  BY DEF Positions
<1>3. i \in Indices /\ j \in Indices
  BY <1>1, <1>2, IndexInRange DEF Indices
<1>4. i = j <=> a = c /\ b = d
  <2>1. a \in Nat /\ c \in Nat
    BY <1>1, <1>2
  <2> HIDE DEF c, d
  <2>2. b + a * packets = d + c * packets => b = d /\ a = c
    BY <1>1, <1>2, <2>1, Digits
  <2>3. i = b + a * packets /\ j = d + c * packets
    <3>1. a * packets \in Nat /\ c * packets \in Nat
      BY <1>1, <2>1
    <3> QED BY <1>2, <3>1 DEF FlatIndex
  <2> QED BY <2>2, <2>3
<1>5. packets' = packets /\ checks' = [checks EXCEPT ![i] = 1]
  <2>1. CASE checks[i] = 1 /\ UNCHANGED vars
    BY <1>1, <2>1 DEF vars
  <2>2. CASE checks[i] # 1 /\ checks' = [checks EXCEPT ![i] = 1] /\ UNCHANGED packets
    BY <2>2
  <2> QED BY <2>1, <2>2 DEF set
<1> HIDE DEF i, c, d
<1>6. check(c, d)' = checks'[FlatIndex(c, d, packets)] /\ check(c, d) = checks[FlatIndex(c, d, packets)]
  BY <1>5 DEF check
<1>7. check(c, d)' = IF i = j THEN 1 ELSE check(c, d)
  BY <1>1, <1>3, <1>5, <1>6
<1> QED BY <1>2, <1>4, <1>7 DEF c, d

LEMMA FlagsClear ==
  ASSUME NEW p \in Nat, NEW n \in Nat, parcels' = p, packets' = n, checks' = AllClear(p, n)
  PROVE  \A pos \in Positions' : check(pos[1], pos[2])' = 0
<1> SUFFICES ASSUME NEW pos \in Positions' PROVE check(pos[1], pos[2])' = 0
  OBVIOUS
<1>1. FlatIndex(pos[1], pos[2], n) \in 0 .. p * n - 1
  BY IndexInRange DEF Positions
<1> QED BY <1>1 DEF check, AllClear

(* The packets of a frame have flags of their own: as long as there are no *)
(* more than there are packet numbers. *)
LEMMA FlagsApart ==
  ASSUME Numbered, Assembly, NEW p \in net, NEW q \in net, PositionOf(p) = PositionOf(q)
  PROVE  p = q
<1>1. acquiring
  BY DEF Assembly, NetIsFrame
<1>2. PICK id \in DOMAIN subFrameMap, j \in 0 .. packets - 1 : p = Packet(id, j)
  BY DEF Assembly, NetIsFrame
<1>3. PICK jd \in DOMAIN subFrameMap, k \in 0 .. packets - 1 : q = Packet(jd, k)
  BY DEF Assembly, NetIsFrame
<1>4. packets \in Nat /\ packets <= 65536 /\ MaxPackets \in Nat
  BY Dimensions, BoundsAssumption DEF Assembly, Numbered
<1>5. /\ p.packetNumber = j % 65536 /\ q.packetNumber = k % 65536
      /\ p.subFrameNumber = id /\ q.subFrameNumber = jd
  BY <1>1, <1>2, <1>3, PacketFits DEF Assembly
<1>6. j % 65536 = j /\ k % 65536 = k
  BY <1>4, SMT
<1>7. j = k
  <2>1. p.packetNumber = q.packetNumber
    BY DEF PositionOf
  <2> QED BY <1>5, <1>6, <2>1
<1>8. id = jd
  <2>1. CASE server.mode = "temporal"
    BY <1>5, <2>1 DEF PositionOf, Parcel
  <2>2. CASE server.mode = "spatial"
    BY <1>1, <2>2, Shape DEF Assembly
  <2>3. server.mode \in {"temporal", "spatial"}
    BY DEF Assembly, Registry, ServerShape, Server
  <2> QED BY <2>1, <2>2, <2>3
<1> QED BY <1>2, <1>3, <1>7, <1>8

LEMMA FlagsUsed ==
  ASSUME Numbered, Assembly, net # {}, NEW pos \in Positions
  PROVE  \E p \in net : PositionOf(p) = pos
<1>1. /\ acquiring
      /\ \A id \in DOMAIN subFrameMap, j \in 0 .. packets - 1 : Packet(id, j) \in net
  BY DEF Assembly, NetIsFrame
<1>2. pos[1] \in 0 .. parcels - 1 /\ pos[2] \in 0 .. packets - 1 /\ pos = <<pos[1], pos[2]>>
  BY DEF Positions
<1> DEFINE j == pos[2]
<1>3. j % 65536 = j
  <2>1. packets \in Nat /\ packets <= 65536
    BY Dimensions, BoundsAssumption DEF Assembly, Numbered
  <2>2. j \in 0 .. packets - 1
    BY <1>2
  <2> HIDE DEF j
  <2> QED BY <2>1, <2>2, SMT
<1>4. CASE server.mode = "temporal"
  <2>1. pos[1] \in DOMAIN subFrameMap
    BY <1>1, <1>2, <1>4, Shape DEF Assembly, CheckerFits
  <2>2. Packet(pos[1], j) \in net
    BY <1>1, <1>2, <2>1
  <2>3. PositionOf(Packet(pos[1], j)) = pos
    BY <1>1, <1>2, <1>3, <1>4, <2>1, PacketFits DEF Assembly, PositionOf, Parcel
  <2> QED BY <2>2, <2>3
<1>5. CASE server.mode = "spatial"
  <2>1. parcels = 1 /\ pos[1] = 0
    BY <1>1, <1>2, <1>5 DEF Assembly, CheckerFits
  <2>2. server.currentSubFrame \in DOMAIN subFrameMap
    BY <1>1, <1>5, Shape DEF Assembly
  <2> DEFINE id == server.currentSubFrame
  <2>3. Packet(id, j) \in net
    BY <1>1, <1>2, <2>2
  <2>4. PositionOf(Packet(id, j)) = pos
    BY <1>1, <1>2, <1>3, <1>5, <2>1, <2>2, PacketFits DEF Assembly, PositionOf, Parcel
  <2> QED BY <2>3, <2>4
<1>6. server.mode \in {"temporal", "spatial"}
  BY DEF Assembly, Registry, ServerShape, Server
<1> QED BY <1>4, <1>5, <1>6

(* checkAll() succeeds when all packets of the frame have come. *)
LEMMA AllThere ==
  ASSUME Numbered, Assembly, Progress, net # {}, processFrame = None
  PROVE  checkAll <=> received = net
<1>1. acquiring /\ received \subseteq net
  BY DEF Assembly, NetIsFrame, Progress, Turn
<1>2. checkAll <=> \A pos \in Positions : \E p \in received : PositionOf(p) = pos
  BY <1>1, CounterTells DEF Assembly, CompleteIsExact, Progress, FlagsMatch
<1>3. ASSUME checkAll, NEW p \in net
      PROVE  p \in received
  <2>1. PositionOf(p) \in Positions
    BY PayloadFits DEF PayloadInside, PositionOf
  <2>2. PICK q \in received : PositionOf(q) = PositionOf(p)
    BY <1>2, <1>3, <2>1
  <2> QED BY <1>1, <2>2, FlagsApart
<1>4. ASSUME received = net
      PROVE  checkAll
  BY <1>2, <1>4, FlagsUsed
<1> QED BY <1>1, <1>3, <1>4

LEMMA ProgressInit == ASSUME ChainInit PROVE Progress
BY DEF ChainInit, Progress, Idle, FlagsMatch, Turn

LEMMA BegunInOrder ==
  ASSUME Assembly, Progress,
         UNCHANGED <<net, io, processFrame, image>>, ~acquiring,
         \/ UNCHANGED <<acquiring, received>>
         \/ /\ received' = {} /\ acquiring' = TRUE
            /\ parcels' \in Nat /\ packets' \in Nat /\ checks' = AllClear(parcels', packets')
  PROVE  Progress'
<1>1. net = {} /\ received = {} /\ image = None /\ io = "idle" /\ processFrame = None
  BY DEF Progress, Idle
<1>2. received' = {}
  BY <1>1
<1>3. FlagsMatch'
  <2>1. CASE ~acquiring'
    BY <2>1 DEF FlagsMatch
  <2>2. CASE parcels' \in Nat /\ packets' \in Nat /\ checks' = AllClear(parcels', packets')
    <3>1. \A pos \in Positions' : check(pos[1], pos[2])' = 0
      BY <2>2, FlagsClear
    <3> QED BY <1>2, <3>1 DEF FlagsMatch
  <2> QED BY <2>1, <2>2
<1> QED BY <1>1, <1>2, <1>3 DEF Progress, Idle, Turn

LEMMA PacketInOrder ==
  ASSUME Assembly, Progress, NEW p \in net, PacketReceived(p)
  PROVE  Progress'
<1>1. /\ io = "idle" /\ processFrame = None /\ io' = "check"
      /\ set(Parcel(p), p.packetNumber)
      /\ received' = received \cup {p}
      /\ UNCHANGED <<server, acquiring, net, processFrame, image>>
  BY DEF PacketReceived, setup, sender
<1>2. acquiring
  BY DEF Assembly, NetIsFrame
<1>3. PositionOf(p) \in Positions
  BY PayloadFits DEF PayloadInside, PositionOf
<1>4. Parcel(p) \in 0 .. parcels - 1 /\ p.packetNumber \in 0 .. packets - 1
  BY <1>3 DEF PositionOf, Positions
<1>5. Positions' = Positions
  BY <1>1 DEF set, vars, Positions
<1>6. \A q : PositionOf(q)' = PositionOf(q)
  BY <1>1 DEF PositionOf, Parcel
<1>7. \A pos \in Positions :
        check(pos[1], pos[2])' = IF pos = PositionOf(p) THEN 1 ELSE check(pos[1], pos[2])
  BY <1>1, <1>4, FlagSet DEF Assembly, PositionOf
<1>8. FlagsMatch'
  BY <1>1, <1>2, <1>5, <1>6, <1>7 DEF Progress, FlagsMatch
<1> QED BY <1>1, <1>2, <1>8 DEF Progress, Idle, Turn

(* A frame found complete is there, with all its packets. *)
LEMMA CompleteFrame ==
  ASSUME Numbered, Assembly, Progress, io = "check", checkAll
  PROVE  net # {} /\ received = net
<1>1. acquiring /\ processFrame = None /\ received \subseteq net
  BY DEF Progress, Idle, Turn
<1>2. \A pos \in Positions : check(pos[1], pos[2]) = 1
  BY CounterTells DEF Assembly, CompleteIsExact
<1>3. <<0, 0>> \in Positions
  BY Dimensions DEF Assembly, Positions
<1>4. received # {}
  BY <1>1, <1>2, <1>3 DEF Progress, FlagsMatch
<1> QED BY <1>1, <1>4, AllThere

LEMMA HandedOver ==
  ASSUME Numbered, Atomic(None), Assembly, Progress, FrameComplete
  PROVE  Progress'
<1>1. /\ io = "check" /\ io' = "idle"
      /\ UNCHANGED <<server, acquiring, net, received, image>>
  BY DEF FrameComplete, setup, sender
<1>2. acquiring /\ processFrame = None /\ received \subseteq net
  BY <1>1 DEF Progress, Idle, Turn
<1>3. \A q : PositionOf(q)' = PositionOf(q)
  BY <1>1 DEF PositionOf, Parcel
<1>4. CASE checkAll
  <2>1. resetAll /\ processFrame' = subFrames
    BY <1>4 DEF FrameComplete
  <2>2. processFrame' # None
    BY <1>2, <2>1 DEF Assembly, BuffersFit, Atomic
  <2>3. FlagsMatch'
    <3>1. parcels' = parcels /\ packets' = packets /\ checks' = AllClear(parcels, packets)
          /\ parcels \in Nat /\ packets \in Nat
      BY <2>1, Dimensions DEF resetAll, Assembly
    <3>2. \A pos \in Positions' : check(pos[1], pos[2])' = 0
      BY <3>1, FlagsClear
    <3> QED BY <2>2, <3>2 DEF FlagsMatch
  <2>5. net # {} /\ received = net
    BY <1>1, <1>4, CompleteFrame
  <2> QED BY <1>1, <1>2, <2>2, <2>3, <2>5 DEF Progress, Idle, Turn
<1>5. CASE ~checkAll
  <2>1. UNCHANGED <<vars, processFrame>>
    BY <1>5 DEF FrameComplete, checkerVars
  <2>2. net # {} => received # net
    BY <1>2, <1>5, AllThere
  <2>3. Positions' = Positions /\ \A a, b : check(a, b)' = check(a, b)
    BY <2>1 DEF vars, Positions, check
  <2>4. FlagsMatch'
    BY <1>1, <1>3, <2>1, <2>3 DEF Progress, FlagsMatch
  <2> QED BY <1>1, <1>2, <2>1, <2>2, <2>4 DEF Progress, Idle, Turn
<1> QED BY <1>4, <1>5

LEMMA ProgressStep ==
  ASSUME Numbered, Atomic(None), Assembly, Assembly', Progress, [ChainNext]_chainVars
  PROVE  Progress'
<1>1. ASSUME UNCHANGED <<vars, acquiring, received, processFrame>>,
             acquiring => UNCHANGED <<server>>
      PROVE  FlagsMatch'
  <2>1. Positions' = Positions /\ \A a, b : check(a, b)' = check(a, b)
    BY <1>1 DEF vars, Positions, check
  <2>2. acquiring => \A p : PositionOf(p)' = PositionOf(p)
    BY <1>1 DEF PositionOf, Parcel
  <2> QED BY <1>1, <2>1, <2>2 DEF Progress, FlagsMatch
<1>2. ASSUME NEW layout \in Layouts, NEW size \in PacketSizes, StartTemporal(layout, size)
      PROVE  Progress'
  <2> DEFINE regions == [ch \in 0 .. Channels - 1 |-> Region(layout, ch, W, H)]
             n == PixelsOf(regions[0])
  <2>1. /\ ~acquiring /\ Start(setupTemporalImage, regions, n, size)
        /\ UNCHANGED <<net, io, processFrame, image>>
    BY <1>2 DEF StartTemporal, W, H, sender
  <2> HIDE DEF regions, n
  <2>2. \/ UNCHANGED <<acquiring, received>>
        \/ /\ received' = {} /\ acquiring' = TRUE
           /\ init(Cardinality(DOMAIN regions), expectedPackets(n, size))
    BY <2>1 DEF Start, startAcquisition
  <2>3. parcels' \in Nat /\ packets' \in Nat
    BY DEF Assembly, IInv, TypeOK
  <2>4. \/ UNCHANGED <<acquiring, received>>
        \/ /\ received' = {} /\ acquiring' = TRUE
           /\ parcels' \in Nat /\ packets' \in Nat /\ checks' = AllClear(parcels', packets')
    BY <2>2, <2>3 DEF init
  <2> QED BY <2>1, <2>4, BegunInOrder
<1>3. ASSUME NEW layout \in Layouts, NEW size \in PacketSizes, NEW ch \in 0 .. Channels - 1,
             StartSpatial(layout, ch, size)
      PROVE  Progress'
  <2> DEFINE r == Region(layout, ch, W, H)
             regions == [id \in {ch} |-> r]
             n == PixelsOf(r)
  <2>1. /\ ~acquiring /\ Start(setupSpatialImage(ch, r), regions, n, size)
        /\ UNCHANGED <<net, io, processFrame, image>>
    BY <1>3 DEF StartSpatial, W, H, sender
  <2> HIDE DEF r, regions, n
  <2>2. \/ UNCHANGED <<acquiring, received>>
        \/ /\ received' = {} /\ acquiring' = TRUE
           /\ init(Cardinality(DOMAIN regions), expectedPackets(n, size))
    BY <2>1 DEF Start, startAcquisition
  <2>3. parcels' \in Nat /\ packets' \in Nat
    BY DEF Assembly, IInv, TypeOK
  <2>4. \/ UNCHANGED <<acquiring, received>>
        \/ /\ received' = {} /\ acquiring' = TRUE
           /\ parcels' \in Nat /\ packets' \in Nat /\ checks' = AllClear(parcels', packets')
    BY <2>2, <2>3 DEF init
  <2> QED BY <2>1, <2>4, BegunInOrder
<1>4. ASSUME SendFrame PROVE Progress'
  <2>1. /\ acquiring /\ net = {} /\ UNCHANGED <<vars, server, acquiring, io, received, processFrame, image>>
    BY <1>4 DEF SendFrame, checkerVars, setup, reception
  <2>2. processFrame = None /\ received = {}
    BY <2>1 DEF Progress, Turn
  <2>3. FlagsMatch'
    BY <1>1, <2>1
  <2> QED BY <2>1, <2>2, <2>3 DEF Progress, Idle, Turn
<1>5. ASSUME NEW p \in net, PacketReceived(p) PROVE Progress'
  BY <1>5, PacketInOrder
<1>6. ASSUME FrameComplete PROVE Progress'
  BY <1>6, HandedOver
<1>7. ASSUME StopAcquisition PROVE Progress'
  BY <1>7 DEF StopAcquisition, Progress, Idle, FlagsMatch, Turn
<1>8. ASSUME PercConfigFileRead \/ RawFileRead PROVE Progress'
  <2>1. /\ ~acquiring
        /\ UNCHANGED <<vars, acquiring, net, io, received, processFrame, image>>
    BY <1>8 DEF PercConfigFileRead, RawFileRead, checkerVars, setup, sender, reception
  <2> QED BY <1>1, <2>1 DEF Progress, Idle, Turn
<1>9. ASSUME NEW mode, SetDescramble(mode) PROVE Progress'
  <2>1. /\ server' = setDescramble(server, mode)
        /\ UNCHANGED <<vars, acquiring, net, io, received, processFrame, image>>
    BY <1>9 DEF SetDescramble, checkerVars, sender, reception
  <2>2. server'.mode = server.mode
    BY <2>1, DescrambleKeeps DEF Assembly, Registry
  <2>3. Positions' = Positions /\ \A a, b : check(a, b)' = check(a, b)
    BY <2>1 DEF vars, Positions, check
  <2>4. \A p : PositionOf(p)' = PositionOf(p)
    BY <2>2 DEF PositionOf, Parcel
  <2>5. FlagsMatch'
    BY <2>1, <2>3, <2>4 DEF Progress, FlagsMatch
  <2> QED BY <2>1, <2>5 DEF Progress, Idle, Turn
<1>10. ASSUME ProcessFrame PROVE Progress'
  <2>1. /\ processFrame # None /\ processFrame' = None /\ net' = {} /\ received' = {}
        /\ UNCHANGED <<vars, acquiring, io>>
    BY <1>10 DEF ProcessFrame, checkerVars, setup
  <2>2. Positions' = Positions /\ \A a, b : check(a, b)' = check(a, b)
    BY <2>1 DEF vars, Positions, check
  <2>3. FlagsMatch'
    BY <2>1, <2>2 DEF Progress, FlagsMatch
  <2> QED BY <2>1, <2>3 DEF Progress, Idle, Turn
<1>11. ASSUME UNCHANGED chainVars \/ WriteSetting \/ RawFileWrite PROVE Progress'
  <2>1. UNCHANGED <<vars, server, acquiring, net, io, received, processFrame, image>>
    BY <1>11 DEF chainVars, checkerVars, setup, sender, reception, WriteSetting, RawFileWrite
  <2> QED BY <1>1, <2>1 DEF Progress, Idle, Turn
<1> QED BY <1>2, <1>3, <1>4, <1>5, <1>6, <1>7, <1>8, <1>9, <1>10, <1>11 DEF ChainNext

-----------------------------------------------------------------------------

LEMMA AssemblyHolds == ChainSpec => []Assembly
BY AssemblyInit, AssemblyStep, PTL DEF ChainSpec

(* The registry of sub-frames and its mask agree. *)
THEOREM RegistryAgrees == ChainSpec => []RegistryMatches
<1>1. Assembly => RegistryMatches
  BY Shape DEF Assembly, Registry, Arranged, MaskMatches, RegistryMatches
<1> QED BY <1>1, AssemblyHolds, PTL

(* Every packet on its way has a flag in the checker, and its payload fits *)
(* into the buffer where the server puts it.                               *)
THEOREM PayloadsInside == ChainSpec => []PayloadInside
BY PayloadFits, AssemblyHolds, PTL

(* Used by the server the packet checker keeps what it promises: the        *)
(* operations are called with the arguments its own specification allows.  *)
THEOREM CheckerInUse == ChainSpec => [](TypeOK /\ CountIsExact /\ CompleteIsExact)
<1>1. Assembly => TypeOK /\ CountIsExact /\ CompleteIsExact
  BY CounterTells DEF Assembly, IInv
<1> QED BY <1>1, AssemblyHolds, PTL

LEMMA ProgressHolds ==
  ASSUME Numbered, Atomic(None)
  PROVE  ChainSpec => [](Assembly /\ Progress)
<1>1. ChainInit => Progress
  BY ProgressInit
<1>2. Assembly /\ Assembly' /\ Progress /\ [ChainNext]_chainVars => Progress'
  BY ProgressStep
<1> QED BY <1>1, <1>2, AssemblyHolds, PTL DEF ChainSpec

(* The buffers are handed over when the last packet of the frame has come, *)
(* neither before nor later.                                               *)
THEOREM HandedOverOnTime ==
  ASSUME Numbered, Atomic(None)
  PROVE  ChainSpec => []HandedOverWhenAllThere
<1>1. Assembly /\ Progress => HandedOverWhenAllThere
  BY DEF Progress, Turn, HandedOverWhenAllThere
<1> QED BY <1>1, ProgressHolds, PTL

-----------------------------------------------------------------------------
(* The contents of the buffers                                             *)

(* What has come is in its place, *)
Contents ==
  processFrame = None =>
    \A p \in received : \A k \in DOMAIN subFrames[p.subFrameNumber] :
      k - server.size * p.packetNumber \in DOMAIN p.payload =>
        subFrames[p.subFrameNumber][k] = Section(p.subFrameNumber)[k]

(* and what is handed over are the sections of the image that was sent. *)
HandedWhole ==
  processFrame # None => processFrame = [id \in DOMAIN subFrameMap |-> Section(id)]

Whole == Contents /\ HandedWhole

LEMMA PacketContents ==
  ASSUME Numbered, Assembly, acquiring, NEW id \in DOMAIN subFrameMap, NEW j \in 0 .. packets - 1,
         NEW k \in Int,
         k - server.size * Packet(id, j).packetNumber \in DOMAIN Packet(id, j).payload
  PROVE  Packet(id, j).payload[k - server.size * Packet(id, j).packetNumber] = Section(id)[k]
<1> DEFINE size == server.size
           i == k - size * j
<1>1. packets \in Nat /\ packets <= 65536 /\ size \in Nat
  BY Dimensions, BoundsAssumption, PacketCount DEF Assembly, Numbered
<1>2. j % 65536 = j /\ j \in Nat
  BY <1>1, SMT
<1>3. Packet(id, j).packetNumber = j
  BY <1>2, PacketFits DEF Assembly
<1>4. i \in DOMAIN Packet(id, j).payload
  BY <1>3
<1>5. Packet(id, j).payload[i] = Section(id)[j * size + i]
  BY <1>4 DEF Packet
<1>6. j * size + i = k
  <2> HIDE DEF size
  <2> QED BY <1>1, <1>2
<1> QED BY <1>3, <1>5, <1>6

LEMMA WholePacket ==
  ASSUME Numbered, Assembly, Progress, Whole, NEW p \in net, PacketReceived(p)
  PROVE  Whole'
<1> DEFINE id == p.subFrameNumber
           size == server.size
<1>1. /\ processFrame = None
      /\ subFrames' = [subFrames EXCEPT ![id] = Stored(@, size * p.packetNumber, p.payload)]
      /\ received' = received \cup {p}
      /\ UNCHANGED <<server, subFrameMap, frameSent, source, processFrame>>
  BY DEF PacketReceived, files, setup, sender
<1>2. acquiring
  BY DEF Assembly, NetIsFrame
<1>3. PICK i \in DOMAIN subFrameMap, j \in 0 .. packets - 1 : p = Packet(i, j)
  BY DEF Assembly, NetIsFrame
<1>4. id = i
  BY <1>2, <1>3, PacketFits DEF Assembly
<1>5. DOMAIN subFrames = DOMAIN subFrameMap
      /\ DOMAIN subFrames[id] = 0 .. PixelsOf(subFrameMap[id]) - 1
  BY <1>2, <1>3, <1>4 DEF Assembly, BuffersFit
<1>6. \A jd : Section(jd)' = Section(jd)
  BY <1>1 DEF Section
<1>7. subFrames'[id] = Stored(subFrames[id], size * p.packetNumber, p.payload)
      /\ \A jd \in DOMAIN subFrames : jd # id => subFrames'[jd] = subFrames[jd]
  BY <1>1, <1>3, <1>4, <1>5
<1>8. ASSUME NEW k \in DOMAIN subFrames[id], k - size * p.packetNumber \in DOMAIN p.payload
      PROVE  p.payload[k - size * p.packetNumber] = Section(id)[k]
  <2>1. k \in Int
    BY <1>5
  <2> QED BY <1>2, <1>3, <1>4, <1>8, <2>1, PacketContents
<1>9. ASSUME NEW q \in received, NEW k \in DOMAIN subFrames[q.subFrameNumber],
             k - size * q.packetNumber \in DOMAIN q.payload
      PROVE  subFrames[q.subFrameNumber][k] = Section(q.subFrameNumber)[k]
  BY <1>1, <1>9 DEF Whole, Contents
<1>10. \A q \in received : q.subFrameNumber \in DOMAIN subFrames
  <2> SUFFICES ASSUME NEW q \in received PROVE q.subFrameNumber \in DOMAIN subFrames
    OBVIOUS
  <2>1. q \in net
    BY DEF Progress, Turn
  <2>2. PICK jd \in DOMAIN subFrameMap, l \in 0 .. packets - 1 : q = Packet(jd, l)
    BY <2>1 DEF Assembly, NetIsFrame
  <2> QED BY <1>2, <1>5, <2>2, PacketFits DEF Assembly
<1>11. ASSUME NEW q \in received', NEW k \in DOMAIN subFrames'[q.subFrameNumber],
              k - size * q.packetNumber \in DOMAIN q.payload
       PROVE  subFrames'[q.subFrameNumber][k] = Section(q.subFrameNumber)[k]
  <2>1. DOMAIN subFrames'[id] = DOMAIN subFrames[id]
    BY <1>7 DEF Stored
  <2>2. CASE q.subFrameNumber = id
    <3>1. k \in DOMAIN subFrames[id]
      BY <2>1, <2>2
    <3>2. subFrames'[id][k] = IF k - size * p.packetNumber \in DOMAIN p.payload
                              THEN p.payload[k - size * p.packetNumber] ELSE subFrames[id][k]
      BY <1>7, <3>1 DEF Stored
    <3>3. CASE k - size * p.packetNumber \in DOMAIN p.payload
      BY <1>8, <2>2, <3>1, <3>2, <3>3
    <3>4. CASE k - size * p.packetNumber \notin DOMAIN p.payload
      <4>1. q \in received
        BY <1>1, <1>11, <3>4
      <4> QED BY <1>9, <1>11, <2>2, <3>1, <3>2, <3>4, <4>1
    <3> QED BY <3>3, <3>4
  <2>3. CASE q.subFrameNumber # id
    <3>1. q \in received
      BY <1>1, <2>3
    <3>2. subFrames'[q.subFrameNumber] = subFrames[q.subFrameNumber]
      BY <1>7, <1>10, <2>3, <3>1
    <3> QED BY <1>9, <1>11, <3>1, <3>2
  <2> QED BY <2>2, <2>3
<1>12. Contents'
  BY <1>1, <1>6, <1>11 DEF Contents
<1> QED BY <1>1, <1>12 DEF Whole, HandedWhole

LEMMA WholeFrame ==
  ASSUME Numbered, Atomic(None), Assembly, Progress, Whole, FrameComplete
  PROVE  Whole'
<1>1. /\ io = "check" /\ UNCHANGED <<server, subFrameMap, frameSent, source, received>>
  BY DEF FrameComplete, files, setup, sender
<1>2. acquiring /\ processFrame = None
  BY <1>1 DEF Progress, Idle, Turn
<1>3. \A jd : Section(jd)' = Section(jd)
  BY <1>1 DEF Section
<1>4. CASE checkAll
  <2>1. processFrame' = subFrames
    BY <1>4 DEF FrameComplete
  <2>2. subFrames = [id \in DOMAIN subFrameMap |-> subFrames[id]]
    BY <1>2 DEF Assembly, BuffersFit
  <2>3. processFrame' # None
    BY <2>1, <2>2 DEF Atomic
  <2>4. net # {} /\ received = net
    BY <1>1, <1>4, CompleteFrame
  <2>5. ASSUME NEW id \in DOMAIN subFrameMap
        PROVE  subFrames[id] = Section(id)
    <3> DEFINE n == PixelsOf(subFrameMap[id])
               size == server.size
    <3>1. /\ n \in Nat \ {0} /\ size \in Nat \ {0} /\ packets \in Nat
          /\ packets = expectedPackets(n, size)
      BY <1>2, PacketCount DEF Assembly
    <3>2. subFrames[id] = [k \in 0 .. n - 1 |-> subFrames[id][k]]
      BY <1>2 DEF Assembly, BuffersFit
    <3>3. Section(id) = [k \in 0 .. n - 1 |-> Section(id)[k]]
      BY DEF Section, copyScrambledSection, copySection
    <3>4. ASSUME NEW k \in 0 .. n - 1
          PROVE  subFrames[id][k] = Section(id)[k]
      <4> HIDE DEF n, size
      <4>1. PICK j \in 0 .. packets - 1 : k - j * size \in 0 .. PacketLength(n, size, j) - 1
        BY <3>1, Cutting
      <4>2. j % 65536 = j /\ j \in Nat
        <5>1. packets \in Nat /\ packets <= 65536
          BY Dimensions, BoundsAssumption DEF Assembly, Numbered
        <5> QED BY <5>1, SMT
      <4>3. j * size = size * j
        BY <3>1, <4>2
      <4> DEFINE p == Packet(id, j)
      <4>4. p \in received
        BY <2>4 DEF Assembly, NetIsFrame
      <4>5. p.subFrameNumber = id /\ p.packetNumber = j
            /\ DOMAIN p.payload = 0 .. PacketLength(n, size, j) - 1
        BY <1>2, <4>2, PacketFits DEF Assembly, n, size
      <4> HIDE DEF p
      <4>6. k - size * p.packetNumber \in DOMAIN p.payload
        BY <4>1, <4>3, <4>5
      <4>7. k \in DOMAIN subFrames[p.subFrameNumber]
        BY <3>2, <4>5
      <4> QED BY <1>2, <4>4, <4>5, <4>6, <4>7 DEF Whole, Contents, size
    <3> HIDE DEF n
    <3> QED BY <3>2, <3>3, <3>4
  <2>6. processFrame' = [id \in DOMAIN subFrameMap |-> Section(id)]
    BY <2>1, <2>2, <2>5
  <2> QED BY <1>1, <1>3, <2>3, <2>6 DEF Whole, Contents, HandedWhole
<1>5. CASE ~checkAll
  <2>1. UNCHANGED <<subFrames, processFrame>>
    BY <1>5 DEF FrameComplete
  <2> QED BY <1>1, <1>3, <2>1 DEF Whole, Contents, HandedWhole
<1> QED BY <1>4, <1>5

LEMMA WholeStep ==
  ASSUME Numbered, Atomic(None), Assembly, Progress, Whole, [ChainNext]_chainVars
  PROVE  Whole'
<1>1. ASSUME received' = {}, processFrame' = None
      PROVE  Whole'
  BY <1>1 DEF Whole, Contents, HandedWhole
<1>2. ASSUME NEW layout \in Layouts, NEW size \in PacketSizes, StartTemporal(layout, size)
      PROVE  Whole'
  <2>1. ~acquiring /\ UNCHANGED processFrame /\ (UNCHANGED received \/ received' = {})
    <3> DEFINE regions == [ch \in 0 .. Channels - 1 |-> Region(layout, ch, W, H)]
               n == PixelsOf(regions[0])
    <3>1. /\ ~acquiring /\ Start(setupTemporalImage, regions, n, size)
          /\ UNCHANGED processFrame
      BY <1>2 DEF StartTemporal, W, H
    <3> HIDE DEF regions, n
    <3> QED BY <3>1 DEF Start, startAcquisition
  <2> QED BY <1>1, <2>1 DEF Progress, Idle
<1>3. ASSUME NEW layout \in Layouts, NEW size \in PacketSizes, NEW ch \in 0 .. Channels - 1,
             StartSpatial(layout, ch, size)
      PROVE  Whole'
  <2>1. ~acquiring /\ UNCHANGED processFrame /\ (UNCHANGED received \/ received' = {})
    <3> DEFINE r == Region(layout, ch, W, H)
               regions == [id \in {ch} |-> r]
               n == PixelsOf(r)
    <3>1. /\ ~acquiring /\ Start(setupSpatialImage(ch, r), regions, n, size)
          /\ UNCHANGED processFrame
      BY <1>3 DEF StartSpatial, W, H
    <3> HIDE DEF r, regions, n
    <3> QED BY <3>1 DEF Start, startAcquisition
  <2> QED BY <1>1, <2>1 DEF Progress, Idle
<1>4. ASSUME SendFrame PROVE Whole'
  <2>1. net = {} /\ UNCHANGED <<received, processFrame>>
    BY <1>4 DEF SendFrame, reception
  <2> QED BY <1>1, <2>1 DEF Progress, Turn
<1>5. ASSUME NEW p \in net, PacketReceived(p) PROVE Whole'
  BY <1>5, WholePacket
<1>6. ASSUME FrameComplete PROVE Whole'
  BY <1>6, WholeFrame
<1>7. ASSUME StopAcquisition \/ ProcessFrame PROVE Whole'
  BY <1>1, <1>7 DEF StopAcquisition, ProcessFrame
<1>8. ASSUME PercConfigFileRead \/ RawFileRead PROVE Whole'
  <2>1. ~acquiring /\ UNCHANGED <<received, processFrame>>
    BY <1>8 DEF PercConfigFileRead, RawFileRead, reception
  <2> QED BY <1>1, <2>1 DEF Progress, Idle
<1>9. ASSUME NEW mode, SetDescramble(mode) PROVE Whole'
  <2>1. /\ server' = setDescramble(server, mode)
        /\ UNCHANGED <<source, subFrameMap, frameSent, subFrames, received, processFrame>>
    BY <1>9 DEF SetDescramble, files, sender, reception
  <2>2. server'.size = server.size
    BY <2>1, DescrambleKeeps DEF Assembly, Registry
  <2> QED BY <2>1, <2>2 DEF Whole, Contents, HandedWhole, Section
<1>10. ASSUME UNCHANGED chainVars \/ WriteSetting \/ RawFileWrite PROVE Whole'
  <2>1. UNCHANGED <<source, server, subFrameMap, frameSent, subFrames, received, processFrame>>
    BY <1>10 DEF chainVars, files, setup, sender, reception, WriteSetting, RawFileWrite
  <2> QED BY <2>1 DEF Whole, Contents, HandedWhole, Section
<1> QED BY <1>2, <1>3, <1>4, <1>5, <1>6, <1>7, <1>8, <1>9, <1>10 DEF ChainNext

-----------------------------------------------------------------------------
(* Values of the raw image                                                 *)

LEMMA Spot ==
  ASSUME NEW d \in Nat, NEW n \in Nat \ {0}, NEW i \in 0 .. n - 1
  PROVE  (d * i) \div n \in 0 .. d
<1> DEFINE p == d * i
           q == p \div n
           r == p % n
<1>1. p \in Nat
  OBVIOUS
<1>2. q \in Nat /\ r \in 0 .. n - 1 /\ p = n * q + r
  <2> HIDE DEF p
  <2> QED BY <1>1, SMT
<1> HIDE DEF q, r
<1>3. n * q = q * n /\ q * n \in Nat
  BY <1>2
<1>4. CASE q > d
  <2>1. d * n + n <= q * n
    BY <1>2, <1>4, Monotone
  <2>2. p <= d * n
    <3>1. CASE d = 0
      BY <3>1
    <3>2. CASE d # 0
      <4>1. i * d + d <= n * d
        BY <3>2, Monotone
      <4>2. i * d = d * i /\ n * d = d * n /\ d * i \in Nat /\ d * n \in Nat
        OBVIOUS
      <4> QED BY <4>1, <4>2
    <3> QED BY <3>1, <3>2
  <2>3. d * n \in Nat
    OBVIOUS
  <2> HIDE DEF p
  <2> QED BY <1>1, <1>2, <1>3, <2>1, <2>2, <2>3
<1>5. q \in 0 .. d
  BY <1>2, <1>4
<1> QED BY <1>5 DEF q

(* Pixels have 15 bits. *)
LEMMA RawValue ==
  ASSUME NEW c, Sound(c), NEW i \in 0 .. c.images - 1, NEW a \in Addresses(c)
  PROVE  generateRawImage(c)[i][a] \in Nat /\ generateRawImage(c)[i][a] < 32768
<1> DEFINE x == a % c.size["x"]
           y == a \div c.size["x"]
           min == c.min
           max == c.max
           s == ((max - min) * i) \div c.images
           v == IF InPattern(c, x, y) THEN max ELSE IF InSpot(c, x, y) THEN s ELSE min
<1>1. /\ min \in Nat /\ max \in Nat /\ min <= max /\ max <= 32767
      /\ c.images \in Nat \ {0} /\ i \in Nat
  BY DEF Sound, Usable, Objects
<1>2. generateRawImage(c)[i][a] = v % 65536
  BY DEF generateRawImage, RawPixel
<1>3. s \in 0 .. max - min
  <2> DEFINE d == max - min
  <2>1. d \in Nat
    BY <1>1
  <2> HIDE DEF d
  <2>2. (d * i) \div c.images \in 0 .. d
    BY <1>1, <2>1, Spot
  <2> QED BY <2>2 DEF d
<1> HIDE DEF s, min, max
<1>4. v \in Nat /\ v < 32768
  BY <1>1, <1>3
<1> HIDE DEF v
<1>5. v % 65536 = v
  BY <1>4, SMT
<1> QED BY <1>2, <1>4, <1>5

-----------------------------------------------------------------------------
(* Points of sub-frames                                                    *)

(* The addresses of a sub-frame's points are those of its columns and rows *)
LEMMA PointsOf ==
  ASSUME NEW r, NEW w, NEW h, Inside(r, w, h)
  PROVE  /\ \A k \in 0 .. PixelsOf(r) - 1 :
              /\ InFrame(r, k, w) \in 0 .. w * h - 1
              /\ InFrame(r, k, w) % w \in r.tlx .. r.brx
              /\ InFrame(r, k, w) \div w \in r.tly .. r.bry
              /\ k = (InFrame(r, k, w) \div w - r.tly) * WidthOf(r) + ((InFrame(r, k, w) % w) - r.tlx)
         /\ \A x \in r.tlx .. r.brx, y \in r.tly .. r.bry :
              /\ (y - r.tly) * WidthOf(r) + (x - r.tlx) \in 0 .. PixelsOf(r) - 1
              /\ InFrame(r, (y - r.tly) * WidthOf(r) + (x - r.tlx), w) = x + y * w
<1> DEFINE v == WidthOf(r)
           u == HeightOf(r)
           l == r.tlx
           t == r.tly
<1>1. /\ v \in Nat \ {0} /\ u \in Nat \ {0} /\ l \in Nat /\ t \in Nat
      /\ l + v <= w /\ t + u <= h /\ w \in Nat /\ h \in Nat
      /\ r.brx = l + v - 1 /\ r.bry = t + u - 1
  BY DEF Inside, WidthOf, HeightOf
<1>2. PixelsOf(r) = v * u
  BY DEF PixelsOf
<1>3. \A k : InFrame(r, k, w) = (t + k \div v) * w + l + (k % v)
  BY DEF InFrame
<1> HIDE DEF v, u, l, t
<1>4. ASSUME NEW k \in 0 .. v * u - 1
      PROVE  /\ InFrame(r, k, w) % w = l + (k % v)
             /\ InFrame(r, k, w) \div w = t + k \div v
             /\ k % v \in 0 .. v - 1 /\ k \div v \in 0 .. u - 1 /\ k = (k % v) + (k \div v) * v
  <2> DEFINE a == k % v
             b == k \div v
             x == l + a
             y == t + b
             q == y * w
  <2>1. a \in 0 .. v - 1 /\ b \in 0 .. u - 1 /\ k = a + b * v
    BY <1>1, Division
  <2> HIDE DEF a, b
  <2>2. x \in 0 .. w - 1 /\ y \in 0 .. h - 1 /\ w \in Nat \ {0}
    BY <1>1, <2>1
  <2>3. InFrame(r, k, w) = q + l + a
    BY <1>3 DEF a, b
  <2>4. q \in Nat
    BY <2>2
  <2> HIDE DEF q
  <2>5. InFrame(r, k, w) = x + q
    BY <1>1, <2>1, <2>3, <2>4
  <2> HIDE DEF x, y
  <2>6. InFrame(r, k, w) = x + y * w
    BY <2>5 DEF q
  <2>7. (x + y * w) % w = x /\ (x + y * w) \div w = y
    BY <2>2, SMT
  <2> QED BY <2>1, <2>6, <2>7 DEF a, b, x, y
<1>5. ASSUME NEW k \in 0 .. v * u - 1
      PROVE  /\ InFrame(r, k, w) % w \in r.tlx .. r.brx
             /\ InFrame(r, k, w) \div w \in r.tly .. r.bry
             /\ k = (InFrame(r, k, w) \div w - t) * v + ((InFrame(r, k, w) % w) - l)
  <2> DEFINE a == k % v
             b == k \div v
  <2>1. a \in 0 .. v - 1 /\ b \in 0 .. u - 1 /\ k = a + b * v
        /\ InFrame(r, k, w) % w = l + a /\ InFrame(r, k, w) \div w = t + b
    BY <1>4
  <2> HIDE DEF a, b
  <2>2. (t + b) - t = b /\ (l + a) - l = a /\ b * v \in Nat
    BY <1>1, <2>1
  <2>3. a + b * v = b * v + a
    BY <2>1, <2>2
  <2> QED BY <1>1, <2>1, <2>2, <2>3 DEF l, t
<1>6. ASSUME NEW x \in r.tlx .. r.brx, NEW y \in r.tly .. r.bry
      PROVE  /\ (y - t) * v + (x - l) \in 0 .. v * u - 1
             /\ InFrame(r, (y - t) * v + (x - l), w) = x + y * w
  <2> DEFINE a == x - l
             b == y - t
             k == a + b * v
  <2>1. a \in 0 .. v - 1 /\ b \in 0 .. u - 1 /\ x = l + a /\ y = t + b
    BY <1>1 DEF l, t
  <2> HIDE DEF a, b
  <2>2. k \in 0 .. v * u - 1
    BY <1>1, <2>1, Place
  <2>3. k % v = a /\ k \div v = b
    BY <1>1, <2>1, SMT
  <2>4. InFrame(r, k, w) = y * w + l + a
    BY <1>3, <2>1, <2>3
  <2>5. y * w \in Nat /\ b * v \in Nat
    BY <1>1, <2>1
  <2>6. k = b * v + a
    BY <2>1, <2>5
  <2>7. InFrame(r, k, w) = x + y * w
    <3> DEFINE q == y * w
    <3> HIDE DEF q
    <3>1. InFrame(r, k, w) = q + l + a /\ q \in Nat
      BY <2>4, <2>5 DEF q
    <3>2. InFrame(r, k, w) = x + q
      BY <1>1, <2>1, <3>1
    <3> QED BY <3>2 DEF q
  <2> HIDE DEF k
  <2> QED BY <2>2, <2>6, <2>7 DEF a, b
<1>7. \A k \in 0 .. v * u - 1 : InFrame(r, k, w) \in 0 .. w * h - 1
  BY <1>2, PointsApart
<1> QED BY <1>2, <1>5, <1>6, <1>7 DEF v, l, t

(* The sub-frames of an arrangement share no point, *)
LEMMA RegionsApart ==
  ASSUME NEW layout, NEW w \in Nat, NEW h \in Nat,
         \A ch \in 0 .. Channels - 1 : ~Refused(Region(layout, ch, w, h)),
         NEW i \in 0 .. Channels - 1, NEW j \in 0 .. Channels - 1,
         NEW k \in 0 .. PixelsOf(Region(layout, i, w, h)) - 1,
         NEW l \in 0 .. PixelsOf(Region(layout, j, w, h)) - 1,
         InFrame(Region(layout, i, w, h), k, w) = InFrame(Region(layout, j, w, h), l, w)
  PROVE  i = j
<1> DEFINE m == w \div Channels
           n == h \div Channels
           r == Region(layout, i, w, h)
           s == Region(layout, j, w, h)
           x == InFrame(r, k, w) % w
           y == InFrame(r, k, w) \div w
<1>1. Channels \in Nat \ {0} /\ i \in Nat /\ j \in Nat /\ m \in Nat /\ n \in Nat
  BY ChainAssumption, SMT
<1>2. Inside(r, w, h) /\ Inside(s, w, h)
  BY RegionInside
<1>3. /\ x \in r.tlx .. r.brx /\ y \in r.tly .. r.bry
      /\ x \in s.tlx .. s.brx /\ y \in s.tly .. s.bry
  BY <1>2, PointsOf
<1> HIDE DEF x, y
<1>4. CASE layout = "columns"
  <2>1. /\ r.tlx = i * m /\ r.brx = (i + 1) * m - 1
        /\ s.tlx = j * m /\ s.brx = (j + 1) * m - 1
    BY <1>4 DEF Region
  <2> HIDE DEF m, r, s
  <2> DEFINE a == i * m
             b == j * m
  <2>2. a \in Nat /\ b \in Nat /\ (i + 1) * m = a + m /\ (j + 1) * m = b + m
    BY <1>1
  <2> HIDE DEF a, b
  <2>3. x - a \in 0 .. m - 1 /\ x - b \in 0 .. m - 1 /\ (x - a) + a = (x - b) + b
    BY <1>1, <1>3, <2>1, <2>2 DEF a, b
  <2> QED BY <1>1, <2>3, Digits DEF a, b
<1>5. CASE layout # "columns"
  <2>1. /\ r.tly = i * n /\ r.bry = (i + 1) * n - 1
        /\ s.tly = j * n /\ s.bry = (j + 1) * n - 1
    BY <1>5 DEF Region
  <2> HIDE DEF n, r, s
  <2> DEFINE a == i * n
             b == j * n
  <2>2. a \in Nat /\ b \in Nat /\ (i + 1) * n = a + n /\ (j + 1) * n = b + n
    BY <1>1
  <2> HIDE DEF a, b
  <2>3. y - a \in 0 .. n - 1 /\ y - b \in 0 .. n - 1 /\ (y - a) + a = (y - b) + b
    BY <1>1, <1>3, <2>1, <2>2 DEF a, b
  <2> QED BY <1>1, <2>3, Digits DEF a, b
<1> QED BY <1>4, <1>5

LEMMA Cancelled ==
  ASSUME NEW a \in Nat, NEW b \in Nat, NEW n \in Nat \ {0}, a <= b, a * n = b * n
  PROVE  a = b
<1>1. a < b => a * n + n <= b * n
  BY Monotone
<1>2. a * n \in Nat
  OBVIOUS
<1> QED BY <1>1, <1>2

(* and if they have as many pixels as the image, each of its points is in  *)
(* one.                                                                    *)
LEMMA RegionsCover ==
  ASSUME NEW layout, NEW w \in Nat, NEW h \in Nat,
         \A ch \in 0 .. Channels - 1 : ~Refused(Region(layout, ch, w, h)),
         Channels * PixelsOf(Region(layout, 0, w, h)) = w * h,
         NEW a \in 0 .. w * h - 1
  PROVE  \E ch \in 0 .. Channels - 1 :
           \E k \in 0 .. PixelsOf(Region(layout, ch, w, h)) - 1 :
             InFrame(Region(layout, ch, w, h), k, w) = a
<1> DEFINE m == w \div Channels
           n == h \div Channels
           x == a % w
           y == a \div w
           r(ch) == Region(layout, ch, w, h)
<1>1. Channels \in Nat \ {0} /\ m \in Nat /\ n \in Nat /\ 0 \in 0 .. Channels - 1
  BY ChainAssumption, SMT
<1>2. Channels * m <= w /\ Channels * n <= h
  BY <1>1, SMT
<1>3. PixelsOf(r(0)) = Share(layout, w, h) /\ PixelsOf(r(0)) \in Nat \ {0}
  BY <1>1, RegionInside
<1>4. x \in 0 .. w - 1 /\ y \in 0 .. h - 1 /\ a = x + y * w
  BY Division
<1>5. w \in Nat \ {0} /\ h \in Nat \ {0}
  BY <1>4
<1> HIDE DEF x, y
<1>6. \E ch \in 0 .. Channels - 1 : x \in r(ch).tlx .. r(ch).brx /\ y \in r(ch).tly .. r(ch).bry
  <2>1. CASE layout = "columns"
    <3>1. \A ch : /\ r(ch).tlx = ch * m /\ r(ch).brx = (ch + 1) * m - 1
                  /\ r(ch).tly = 0 /\ r(ch).bry = h - 1
      BY <2>1 DEF Region
    <3>2. Channels * (m * h) = w * h
      BY <1>3, <2>1 DEF Share
    <3> HIDE DEF m, r
    <3>3. (Channels * m) * h = w * h /\ Channels * m \in Nat
      BY <1>1, <1>5, <3>2
    <3>4. Channels * m = w
      BY <1>2, <1>5, <3>3, Cancelled
    <3>5. m * Channels = w
      BY <1>1, <3>4
    <3>6. x \in 0 .. m * Channels - 1
      BY <1>4, <3>5
    <3>7. x % m \in 0 .. m - 1 /\ x \div m \in 0 .. Channels - 1 /\ x = (x % m) + (x \div m) * m
      BY <1>1, <3>6, Division
    <3> DEFINE ch == x \div m
               i == x % m
    <3>8. ch \in 0 .. Channels - 1 /\ i \in 0 .. m - 1 /\ x = i + ch * m
      BY <3>7
    <3> HIDE DEF ch, i
    <3>9. (ch + 1) * m = ch * m + m /\ ch * m \in Nat
      BY <1>1, <3>8
    <3>10. x \in ch * m .. (ch + 1) * m - 1
      <4> DEFINE p == ch * m
                 q == (ch + 1) * m
      <4>1. q = p + m /\ p \in Nat /\ x = i + p
        BY <3>8, <3>9
      <4> HIDE DEF p, q
      <4>2. x \in p .. q - 1
        BY <1>1, <3>8, <4>1
      <4> QED BY <4>2 DEF p, q
    <3> QED BY <1>4, <3>1, <3>8, <3>10
  <2>2. CASE layout # "columns"
    <3>1. \A ch : /\ r(ch).tly = ch * n /\ r(ch).bry = (ch + 1) * n - 1
                  /\ r(ch).tlx = 0 /\ r(ch).brx = w - 1
      BY <2>2 DEF Region
    <3>2. Channels * (w * n) = w * h
      BY <1>3, <2>2 DEF Share
    <3> HIDE DEF n, r
    <3>3. (Channels * n) * w = h * w /\ Channels * n \in Nat
      BY <1>1, <1>5, <3>2
    <3>4. Channels * n = h
      BY <1>2, <1>5, <3>3, Cancelled
    <3>5. n * Channels = h
      BY <1>1, <3>4
    <3>6. y \in 0 .. n * Channels - 1
      BY <1>4, <3>5
    <3>7. y % n \in 0 .. n - 1 /\ y \div n \in 0 .. Channels - 1 /\ y = (y % n) + (y \div n) * n
      BY <1>1, <3>6, Division
    <3> DEFINE ch == y \div n
               i == y % n
    <3>8. ch \in 0 .. Channels - 1 /\ i \in 0 .. n - 1 /\ y = i + ch * n
      BY <3>7
    <3> HIDE DEF ch, i
    <3>9. (ch + 1) * n = ch * n + n /\ ch * n \in Nat
      BY <1>1, <3>8
    <3>10. y \in ch * n .. (ch + 1) * n - 1
      <4> DEFINE p == ch * n
                 q == (ch + 1) * n
      <4>1. q = p + n /\ p \in Nat /\ y = i + p
        BY <3>8, <3>9
      <4> HIDE DEF p, q
      <4>2. y \in p .. q - 1
        BY <1>1, <3>8, <4>1
      <4> QED BY <4>2 DEF p, q
    <3> QED BY <1>4, <3>1, <3>8, <3>10
  <2> QED BY <2>1, <2>2
<1>7. PICK ch \in 0 .. Channels - 1 : x \in r(ch).tlx .. r(ch).brx /\ y \in r(ch).tly .. r(ch).bry
  BY <1>6
<1>8. Inside(r(ch), w, h)
  BY RegionInside
<1> HIDE DEF r
<1> DEFINE k == (y - r(ch).tly) * WidthOf(r(ch)) + (x - r(ch).tlx)
<1>9. k \in 0 .. PixelsOf(r(ch)) - 1 /\ InFrame(r(ch), k, w) = x + y * w
  BY <1>7, <1>8, PointsOf
<1> HIDE DEF k
<1> QED BY <1>4, <1>9 DEF r

-----------------------------------------------------------------------------
(* Painting an image part by part                                          *)

(* Parts of points, and where they go: no two points to the same place *)
Apart(N, A, n, target) ==
  /\ n \in [0 .. N - 1 -> Nat]
  /\ \A i \in 0 .. N - 1 : \A k \in 0 .. n[i] - 1 : target[i][k] \in A
  /\ \A i, j \in 0 .. N - 1 : \A k \in 0 .. n[i] - 1, l \in 0 .. n[j] - 1 :
       target[i][k] = target[j][l] => i = j /\ k = l

(* The images one after the other *)
Painting(f, N, blank, n, target, value) ==
  /\ f = [i \in 0 .. N |-> f[i]]
  /\ f[0] = blank
  /\ \A i \in 0 .. N - 1 : f[i + 1] = Written(f[i], n[i], target[i], value[i])

LEMMA WrittenTyped ==
  ASSUME NEW A, NEW V, NEW out \in [A -> V], NEW n \in Nat, NEW target, NEW value,
         \A j, k \in 0 .. n - 1 : target[j] = target[k] => j = k,
         \A k \in 0 .. n - 1 : value[k] \in V
  PROVE  Written(out, n, target, value) \in [A -> V]
<1> DEFINE new == Written(out, n, target, value)
<1>1. new = [a \in A |-> new[a]]
  BY DEF Written
<1>2. /\ \A k \in 0 .. n - 1 : target[k] \in DOMAIN out => new[target[k]] = value[k]
      /\ \A a \in DOMAIN out : (\A k \in 0 .. n - 1 : target[k] # a) => new[a] = out[a]
  BY WrittenApart
<1> HIDE DEF new
<1>3. \A a \in A : new[a] \in V
  BY <1>2
<1> QED BY <1>1, <1>3 DEF new

(* There are such images, *)
LEMMA Paintable ==
  ASSUME NEW N \in Nat, NEW A, NEW n, NEW target, NEW value, Apart(N, A, n, target),
         NEW blank, NEW z, blank \in [A -> {z}]
  PROVE  \E f : Painting(f, N, blank, n, target, value)
<1> DEFINE V == {z} \cup UNION {{value[i][k] : k \in 0 .. n[i] - 1} : i \in 0 .. N - 1}
           step == [i \in 1 .. N |-> [out \in [A -> V] |->
                     Written(out, n[i - 1], target[i - 1], value[i - 1])]]
<1>1. blank \in [A -> V]
  OBVIOUS
<1>2. ASSUME NEW i \in 1 .. N, NEW out \in [A -> V]
      PROVE  Written(out, n[i - 1], target[i - 1], value[i - 1]) \in [A -> V]
  <2>1. i - 1 \in 0 .. N - 1
    OBVIOUS
  <2> DEFINE j == i - 1
  <2>2. j \in 0 .. N - 1
    BY <2>1
  <2> HIDE DEF j
  <2>3. n[j] \in Nat
    BY <2>2 DEF Apart
  <2>4. \A k, l \in 0 .. n[j] - 1 : target[j][k] = target[j][l] => k = l
    BY <2>2 DEF Apart
  <2>5. \A k \in 0 .. n[j] - 1 : value[j][k] \in V
    BY <2>2
  <2> HIDE DEF V
  <2>6. Written(out, n[j], target[j], value[j]) \in [A -> V]
    BY <2>3, <2>4, <2>5, WrittenTyped
  <2> QED BY <2>6 DEF j
<1> DEFINE S == [A -> V]
<1>3. StepsIn(step, N, S)
  <2> HIDE DEF V
  <2> QED BY <1>2 DEF StepsIn
<1>4. blank \in S
  BY <1>1
<1> HIDE DEF S, step
<1>5. PICK f : Iterates(f, N, S, blank, step)
  BY <1>3, <1>4, Recursion
<1>6. ASSUME NEW i \in 0 .. N - 1
      PROVE  f[i + 1] = Written(f[i], n[i], target[i], value[i])
  <2>1. i + 1 \in 1 .. N /\ (i + 1) - 1 = i
    OBVIOUS
  <2>2. f[i] \in S
    BY <1>5 DEF Iterates
  <2>3. f[i + 1] = step[i + 1][f[i]]
    BY <1>5, <2>1 DEF Iterates
  <2> QED BY <2>1, <2>2, <2>3 DEF step, S
<1> QED BY <1>5, <1>6 DEF Painting, Iterates

(* and the last one has every point in its place. *)
LEMMA Painted ==
  ASSUME NEW N \in Nat, NEW A, NEW n, NEW target, NEW value, Apart(N, A, n, target),
         NEW blank, DOMAIN blank = A, NEW f, Painting(f, N, blank, n, target, value)
  PROVE  /\ DOMAIN f[N] = A
         /\ \A i \in 0 .. N - 1 : \A k \in 0 .. n[i] - 1 : f[N][target[i][k]] = value[i][k]
<1> DEFINE Good(m) ==
             /\ DOMAIN f[m] = A
             /\ \A i \in 0 .. m - 1 : \A k \in 0 .. n[i] - 1 : f[m][target[i][k]] = value[i][k]
           S == {m \in 0 .. N : Good(m)}
<1>1. 0 \in S
  BY DEF Painting
<1>2. ASSUME NEW m \in 0 .. N - 1, m \in S
      PROVE  m + 1 \in S
  <2>1. Good(m) /\ m + 1 \in 0 .. N
    BY <1>2
  <2>2. f[m + 1] = Written(f[m], n[m], target[m], value[m])
    BY DEF Painting
  <2>3. DOMAIN f[m + 1] = A
    BY <2>1, <2>2 DEF Written
  <2>4. /\ n[m] \in Nat
        /\ \A k, l \in 0 .. n[m] - 1 : target[m][k] = target[m][l] => k = l
        /\ \A k \in 0 .. n[m] - 1 : target[m][k] \in A
    BY DEF Apart
  <2>5. /\ \A k \in 0 .. n[m] - 1 : f[m + 1][target[m][k]] = value[m][k]
        /\ \A a \in A : (\A k \in 0 .. n[m] - 1 : target[m][k] # a) => f[m + 1][a] = f[m][a]
    BY <2>1, <2>2, <2>4, WrittenApart
  <2>6. ASSUME NEW i \in 0 .. m, NEW k \in 0 .. n[i] - 1
        PROVE  f[m + 1][target[i][k]] = value[i][k]
    <3>1. CASE i = m
      BY <2>5, <3>1
    <3>2. CASE i # m
      <4>1. i \in 0 .. m - 1 /\ i \in 0 .. N - 1
        BY <3>2
      <4>2. target[i][k] \in A /\ \A l \in 0 .. n[m] - 1 : target[m][l] # target[i][k]
        BY <3>2, <4>1 DEF Apart
      <4> QED BY <2>1, <2>5, <4>1, <4>2
    <3> QED BY <3>1, <3>2
  <2> QED BY <2>1, <2>3, <2>6
<1> HIDE DEF S
<1>3. \A m \in 0 .. N : m \in S
  BY <1>1, <1>2, Induction
<1> QED BY <1>3 DEF S

-----------------------------------------------------------------------------
(* The image in temporal mode                                              *)

LEMMA PixelDecoded ==
  ASSUME NEW v \in Nat, v < 32768, NEW z \in {0, Unset}
  PROVE  /\ SameValue(Corrected(applyGains(v), z), v)
         /\ SameValue(Decode(applyGains(v)), v)
         /\ Gain(applyGains(v)) = GainOf(v)
<1> DEFINE p == applyGains(v)
<1>1. Decode(p) = v - (v % 8) /\ Gain(p) = GainOf(v) /\ v % 8 \in Nat
  BY ValueRecovered, SMT
<1>2. Decode(0) = 0
  BY SMT DEF Decode, LowGain, HighGain
<1> HIDE DEF p
<1>3. Corrected(p, z) = Decode(p)
  <2> DEFINE x == Decode(p)
  <2>1. x \in Int
    BY <1>1
  <2> HIDE DEF x
  <2>2. x - 0 = x
    BY <2>1
  <2> QED BY <1>2, <2>2 DEF Corrected, x
<1> QED BY <1>1, <1>3 DEF SameValue, p

(* What the driver holds of the image sent in frame f *)
LEMMA DriverHolds ==
  ASSUME NEW c, Sound(c), driver = ReadFrom(c), NEW f \in Nat
  PROVE  LET i == f % driver.images IN
         /\ Geometry(c) /\ W \in Nat /\ H \in Nat
         /\ W = c.size["x"] /\ H = c.size["y"] /\ Addresses(c) = 0 .. W * H - 1
         /\ driver.descramble = Descramble(c)
         /\ driver.meta.ppc = c.ppc /\ driver.meta.cps = c.cps
         /\ \A a \in Addresses(c) : driver.raw[i][a] \in Nat /\ driver.raw[i][a] < 32768
         /\ \A d \in Addresses(c) :
              driver.scrambled[i][d] = applyGains(driver.raw[i][Descramble(c)[d]])
<1> DEFINE i == f % driver.images
<1>1. /\ driver.images = c.images /\ driver.size = c.size
      /\ driver.raw = generateRawImage(c) /\ driver.descramble = Descramble(c)
      /\ driver.scrambled = generateScrambledImage(c, generateRawImage(c))
      /\ driver.meta.ppc = c.ppc /\ driver.meta.cps = c.cps
  BY DEF ReadFrom, readScrambledImage, readMetaData, generateMetaData, generateConfiguration
<1>2. c.images \in Nat \ {0}
  BY DEF Sound, Usable, Objects
<1>3. i \in 0 .. c.images - 1
  BY <1>1, <1>2, SMT
<1> HIDE DEF i
<1>4. \A a \in Addresses(c) : driver.raw[i][a] \in Nat /\ driver.raw[i][a] < 32768
  BY <1>1, <1>3, RawValue
<1>5. \A d \in Addresses(c) : driver.scrambled[i][d] = applyGains(driver.raw[i][Descramble(c)[d]])
  BY <1>1, <1>3 DEF generateScrambledImage, generateRawImage
<1>6. Geometry(c) /\ W \in Nat /\ H \in Nat /\ W = c.size["x"] /\ H = c.size["y"]
      /\ Addresses(c) = 0 .. W * H - 1
  BY <1>1, SoundGeometry DEF W, H
<1> QED BY <1>1, <1>4, <1>5, <1>6 DEF i

(* The pixel v at address a of an image, which one should expect of mode   *)
Expected(mode, v, scrambled, raw) ==
  /\ mode = 0 => v = scrambled
  /\ mode = 1 => SameValue(v, raw)
  /\ mode = 2 => SameValue(Decode(v), raw) /\ Gain(v) = GainOf(raw)

LEMMA FullImageRight ==
  ASSUME Assembly, acquiring, server.mode = "temporal", Covered, source = driver,
         frameSent \in Nat, server.descramble \in 0 .. 2,
         processFrame = [id \in DOMAIN subFrameMap |-> Section(id)],
         NEW z \in {0, Unset}, NEW resetFrame,
         resetFrame = [k \in 0 .. server.width * server.height - 1 |-> z]
  PROVE  LET i == frameSent % driver.images IN
         /\ DOMAIN FullImage(resetFrame) = 0 .. W * H - 1
         /\ \A a \in 0 .. W * H - 1 :
              Expected(server.descramble, FullImage(resetFrame)[a], driver.scrambled[i][a],
                       driver.raw[i][a])
<1> DEFINE img == frameSent % driver.images
           mode == server.descramble
           table == driver.descramble
           A == 0 .. W * H - 1
           N == Channels
           n == [i \in 0 .. N - 1 |-> PixelsOf(subFrameMap[i])]
           target == [i \in 0 .. N - 1 |-> [k \in 0 .. PixelsOf(subFrameMap[i]) - 1 |->
                       LET ip == InFrame(subFrameMap[i], k, server.width) IN
                       IF mode = 0 THEN ip ELSE server.dataIndex[ip]]]
           value == [i \in 0 .. N - 1 |-> [k \in 0 .. PixelsOf(subFrameMap[i]) - 1 |->
                      IF mode = 1
                        THEN Corrected(processFrame[i][k],
                                       resetFrame[InFrame(subFrameMap[i], k, server.width)])
                        ELSE processFrame[i][k]]]
<1>1. driver # None
  BY DEF Assembly, Registry, Arranged, Accepted
<1>2. PICK c \in Objects : Sound(c) /\ driver = ReadFrom(c)
  BY <1>1 DEF Assembly, FilesSound
<1>3. /\ Geometry(c) /\ W \in Nat /\ H \in Nat /\ Addresses(c) = A
      /\ table = Descramble(c)
      /\ \A a \in A : driver.raw[img][a] \in Nat /\ driver.raw[img][a] < 32768
      /\ \A d \in A : driver.scrambled[img][d] = applyGains(driver.raw[img][table[d]])
  BY <1>2, DriverHolds
<1>4. /\ \A d \in A : table[d] \in A
      /\ \A d, e \in A : table[d] = table[e] => d = e
      /\ \A a \in A : \E d \in A : table[d] = a
  <2> HIDE DEF A, table
  <2> QED BY <1>3, TableIsPermutation
<1>5. PICK layout \in Layouts : ArrangedTemporal(layout)
  BY DEF Assembly, Registry, Arranged, ArrangedSpatial
<1>6. /\ subFrameMap = [ch \in 0 .. N - 1 |-> Region(layout, ch, W, H)]
      /\ server.width = W /\ server.height = H /\ server.dataIndex = table
      /\ \A ch \in 0 .. N - 1 : ~Refused(Region(layout, ch, W, H))
  BY <1>5 DEF ArrangedTemporal, Assembly, Registry, Arranged, Accepted
<1>7. N \in Nat \ {0} /\ 0 \in 0 .. N - 1
  BY ChainAssumption
<1>8. \A i \in 0 .. N - 1 :
        /\ Inside(subFrameMap[i], W, H) /\ n[i] = PixelsOf(subFrameMap[i])
        /\ n[i] \in Nat
        /\ \A k \in 0 .. n[i] - 1 : InFrame(subFrameMap[i], k, W) \in A
        /\ \A j, k \in 0 .. n[i] - 1 :
             InFrame(subFrameMap[i], j, W) = InFrame(subFrameMap[i], k, W) => j = k
  <2> SUFFICES ASSUME NEW i \in 0 .. N - 1
               PROVE  /\ Inside(subFrameMap[i], W, H) /\ n[i] = PixelsOf(subFrameMap[i])
                      /\ n[i] \in Nat
                      /\ \A k \in 0 .. n[i] - 1 : InFrame(subFrameMap[i], k, W) \in A
                      /\ \A j, k \in 0 .. n[i] - 1 :
                           InFrame(subFrameMap[i], j, W) = InFrame(subFrameMap[i], k, W) => j = k
    OBVIOUS
  <2>1. Inside(subFrameMap[i], W, H)
    BY <1>3, <1>6, RegionInside
  <2>2. n[i] = PixelsOf(subFrameMap[i])
    OBVIOUS
  <2> QED BY <2>1, <2>2, PointsApart
<1>9. \A i, j \in 0 .. N - 1 : \A k \in 0 .. n[i] - 1, l \in 0 .. n[j] - 1 :
        InFrame(subFrameMap[i], k, W) = InFrame(subFrameMap[j], l, W) => i = j
  BY <1>3, <1>6, RegionsApart
<1>10. \A a \in A : \E i \in 0 .. N - 1 : \E k \in 0 .. n[i] - 1 :
         InFrame(subFrameMap[i], k, W) = a
  <2>1. N * PixelsOf(Region(layout, 0, W, H)) = W * H
    BY <1>6, <1>7 DEF Covered
  <2>2. \A a \in A : \E ch \in 0 .. N - 1 :
          \E k \in 0 .. PixelsOf(Region(layout, ch, W, H)) - 1 :
            InFrame(Region(layout, ch, W, H), k, W) = a
    <3> SUFFICES ASSUME NEW a \in 0 .. W * H - 1
                 PROVE  \E ch \in 0 .. N - 1 :
                          \E k \in 0 .. PixelsOf(Region(layout, ch, W, H)) - 1 :
                            InFrame(Region(layout, ch, W, H), k, W) = a
      OBVIOUS
    <3>1. /\ W \in Nat /\ H \in Nat
          /\ \A ch \in 0 .. N - 1 : ~Refused(Region(layout, ch, W, H))
      BY <1>3, <1>6
    <3> QED BY <2>1, <3>1, RegionsCover
  <2>3. \A i \in 0 .. N - 1 : subFrameMap[i] = Region(layout, i, W, H)
                             /\ n[i] = PixelsOf(Region(layout, i, W, H))
    BY <1>6
  <2> HIDE DEF A, N, n
  <2> QED BY <2>2, <2>3
<1>11. \A i \in 0 .. N - 1 : \A k \in 0 .. n[i] - 1 :
         /\ target[i][k] = IF mode = 0 THEN InFrame(subFrameMap[i], k, W)
                           ELSE table[InFrame(subFrameMap[i], k, W)]
         /\ value[i][k] = IF mode = 1 THEN Corrected(processFrame[i][k], z) ELSE processFrame[i][k]
         /\ processFrame[i][k] = driver.scrambled[img][InFrame(subFrameMap[i], k, W)]
  <2> SUFFICES ASSUME NEW i \in 0 .. N - 1, NEW k \in 0 .. n[i] - 1
               PROVE  /\ target[i][k] = IF mode = 0 THEN InFrame(subFrameMap[i], k, W)
                                        ELSE table[InFrame(subFrameMap[i], k, W)]
                      /\ value[i][k] = IF mode = 1 THEN Corrected(processFrame[i][k], z)
                                       ELSE processFrame[i][k]
                      /\ processFrame[i][k] =
                           driver.scrambled[img][InFrame(subFrameMap[i], k, W)]
    OBVIOUS
  <2>1. k \in 0 .. PixelsOf(subFrameMap[i]) - 1
    BY <1>8
  <2>2. InFrame(subFrameMap[i], k, W) \in A
    BY <1>8
  <2>3. resetFrame[InFrame(subFrameMap[i], k, W)] = z
    BY <1>6, <2>2
  <2>4. processFrame[i] = Section(i)
    BY <1>6
  <2>5. Section(i)[k] = driver.scrambled[img][InFrame(subFrameMap[i], k, W)]
    BY <2>1 DEF Section, copyScrambledSection, copySection, W
  <2> QED BY <1>6, <2>1, <2>3, <2>4, <2>5
<1>12. ASSUME NEW i \in 0 .. N - 1, NEW out
       PROVE  unscrambleToFull(server.descramble, processFrame[i], resetFrame, out,
                               subFrameMap[i], server.width, server.dataIndex)
                = Written(out, n[i], target[i], value[i])
  BY DEF unscrambleToFull
<1> HIDE DEF n, target, value
<1>13. Apart(N, A, n, target)
  <2>1. n \in [0 .. N - 1 -> Nat]
    BY <1>8 DEF n
  <2> HIDE DEF A, table
  <2>2. ASSUME NEW i \in 0 .. N - 1, NEW k \in 0 .. n[i] - 1
        PROVE  target[i][k] \in A
    <3>1. InFrame(subFrameMap[i], k, W) \in A
      BY <1>8
    <3>2. target[i][k] = IF mode = 0 THEN InFrame(subFrameMap[i], k, W)
                         ELSE table[InFrame(subFrameMap[i], k, W)]
      BY <1>11
    <3> QED BY <1>4, <3>1, <3>2
  <2>3. ASSUME NEW i \in 0 .. N - 1, NEW j \in 0 .. N - 1, NEW k \in 0 .. n[i] - 1,
               NEW l \in 0 .. n[j] - 1, target[i][k] = target[j][l]
        PROVE  i = j /\ k = l
    <3>1. InFrame(subFrameMap[i], k, W) = InFrame(subFrameMap[j], l, W)
      <4> DEFINE d == InFrame(subFrameMap[i], k, W)
                 e == InFrame(subFrameMap[j], l, W)
      <4>1. d \in A /\ e \in A
        BY <1>8
      <4>2. /\ target[i][k] = IF mode = 0 THEN d ELSE table[d]
            /\ target[j][l] = IF mode = 0 THEN e ELSE table[e]
        BY <1>11
      <4> HIDE DEF d, e
      <4>3. d = e
        BY <1>4, <2>3, <4>1, <4>2
      <4> QED BY <4>3 DEF d, e
    <3>2. i = j
      BY <1>9, <3>1
    <3> QED BY <1>8, <3>1, <3>2
  <2> QED BY <2>1, <2>2, <2>3 DEF Apart
<1> DEFINE blank == Blank(server.width * server.height)
<1>14. blank \in [A -> {Unset}] /\ DOMAIN blank = A
  BY <1>6 DEF Blank
<1>21. \E f : Painting(f, N, blank, n, target, value)
  <2> HIDE DEF A, blank, N
  <2>1. N \in Nat /\ blank \in [A -> {Unset}]
    BY <1>7, <1>14
  <2> QED BY <1>13, <2>1, Paintable
<1> DEFINE Def(f) == f = [id \in 0 .. Channels |->
             IF id = 0 THEN Blank(server.width * server.height)
             ELSE unscrambleToFull(server.descramble, processFrame[id - 1], resetFrame, f[id - 1],
                                   subFrameMap[id - 1], server.width, server.dataIndex)]
           below == CHOOSE f : Def(f)
<1>15. FullImage(resetFrame) = below[N]
  BY DEF FullImage
<1>16. \E f : Def(f)
  <2>1. PICK f : Painting(f, N, blank, n, target, value)
    BY <1>21
  <2>2. ASSUME NEW i \in 0 .. N
        PROVE  f[i] = IF i = 0 THEN Blank(server.width * server.height)
                      ELSE unscrambleToFull(server.descramble, processFrame[i - 1], resetFrame,
                             f[i - 1], subFrameMap[i - 1], server.width, server.dataIndex)
    <3>1. CASE i = 0
      BY <2>1, <3>1 DEF Painting, blank
    <3>2. CASE i # 0
      <4> DEFINE j == i - 1
      <4>1. j \in 0 .. N - 1 /\ j + 1 = i
        BY <1>7, <3>2
      <4> HIDE DEF j
      <4>2. f[i] = Written(f[j], n[j], target[j], value[j])
        BY <2>1, <4>1 DEF Painting
      <4> QED BY <1>12, <3>2, <4>1, <4>2 DEF j
    <3> QED BY <3>1, <3>2
  <2>3. Def(f)
    BY <2>1, <2>2 DEF Painting
  <2> HIDE DEF Def
  <2> QED BY <2>3
<1>17. Def(below)
  <2> HIDE DEF Def
  <2> QED BY <1>16
<1> HIDE DEF below
<1>18. Painting(below, N, blank, n, target, value)
  <2>1. below[0] = blank
    BY <1>7, <1>17
  <2>2. ASSUME NEW i \in 0 .. N - 1
        PROVE  below[i + 1] = Written(below[i], n[i], target[i], value[i])
    <3>1. i + 1 \in 0 .. N /\ i + 1 # 0 /\ (i + 1) - 1 = i
      BY <1>7
    <3>2. below[i + 1] = unscrambleToFull(server.descramble, processFrame[i], resetFrame,
                           below[i], subFrameMap[i], server.width, server.dataIndex)
      BY <1>17, <3>1
    <3> QED BY <1>12, <3>2
  <2>3. below = [i \in 0 .. N |-> below[i]]
    BY <1>17
  <2> QED BY <2>1, <2>2, <2>3 DEF Painting
<1> DEFINE out == below[N]
<1>19. /\ DOMAIN out = A
       /\ \A i \in 0 .. N - 1 : \A k \in 0 .. n[i] - 1 : out[target[i][k]] = value[i][k]
  <2> HIDE DEF A, blank, Def, N
  <2> QED BY <1>7, <1>13, <1>14, <1>18, Painted
<1> HIDE DEF out, Def
<1>20. ASSUME NEW a \in A
       PROVE  Expected(mode, out[a], driver.scrambled[img][a], driver.raw[img][a])
  <2> HIDE DEF A, img
  <2>1. CASE mode = 0
    <3>1. PICK i \in 0 .. N - 1 : \E k \in 0 .. n[i] - 1 : InFrame(subFrameMap[i], k, W) = a
      BY <1>10
    <3>2. PICK k \in 0 .. n[i] - 1 : InFrame(subFrameMap[i], k, W) = a
      BY <3>1
    <3>3. /\ target[i][k] = IF mode = 0 THEN InFrame(subFrameMap[i], k, W)
                            ELSE table[InFrame(subFrameMap[i], k, W)]
          /\ value[i][k] = IF mode = 1 THEN Corrected(processFrame[i][k], z)
                           ELSE processFrame[i][k]
          /\ processFrame[i][k] = driver.scrambled[img][InFrame(subFrameMap[i], k, W)]
      BY <1>11
    <3>5. target[i][k] = a /\ value[i][k] = driver.scrambled[img][a]
      BY <2>1, <3>2, <3>3
    <3>4. out[a] = driver.scrambled[img][a]
      BY <1>19, <3>5
    <3> QED BY <2>1, <3>4 DEF Expected
  <2>2. CASE mode # 0
    <3>1. PICK d \in A : table[d] = a
      BY <1>4
    <3>2. PICK i \in 0 .. N - 1 : \E k \in 0 .. n[i] - 1 : InFrame(subFrameMap[i], k, W) = d
      BY <1>10
    <3>3. PICK k \in 0 .. n[i] - 1 : InFrame(subFrameMap[i], k, W) = d
      BY <3>2
    <3> DEFINE v == driver.raw[img][a]
    <3>4. v \in Nat /\ v < 32768
      BY <1>3
    <3>5. processFrame[i][k] = applyGains(v)
      BY <1>3, <1>11, <3>1, <3>3
    <3> HIDE DEF v
    <3>8. target[i][k] = a
          /\ value[i][k] = IF mode = 1 THEN Corrected(applyGains(v), z) ELSE applyGains(v)
      BY <1>11, <2>2, <3>1, <3>3, <3>5
    <3>6. out[a] = IF mode = 1 THEN Corrected(applyGains(v), z) ELSE applyGains(v)
      BY <1>19, <3>8
    <3>7. /\ SameValue(Corrected(applyGains(v), z), v)
          /\ SameValue(Decode(applyGains(v)), v) /\ Gain(applyGains(v)) = GainOf(v)
      BY <3>4, PixelDecoded
    <3> QED BY <2>2, <3>6, <3>7 DEF Expected, v
  <2> QED BY <2>1, <2>2
<1> QED BY <1>15, <1>19, <1>20 DEF out

-----------------------------------------------------------------------------
(* The image in spatial mode                                               *)

(* Address d is one of sub-frame r, in an image w pixels wide. *)
In(r, w, d) == d % w \in r.tlx .. r.brx /\ d \div w \in r.tly .. r.bry

(* The column and the row of the address with digits a, stripe and row *)
LEMMA WithinPlace ==
  ASSUME NEW c, Geometry(c), NEW s \in Steps(c), NEW a \in 0 .. StripeWidth(c) - 1
  PROVE  LET w == c.size["x"] IN
         /\ Within(c, a, s) % w = a + s.stripe * StripeWidth(c)
         /\ Within(c, a, s) \div w = s.row
<1> DEFINE m == StripeWidth(c)
           n == c.spi["x"]
           w == c.size["x"]
           x == a + s.stripe * m
           y == s.row
<1>1. m \in Nat /\ n \in Nat /\ w = m * n
  BY DEF Geometry, StripeWidth, Axes
<1>2. s.stripe \in 0 .. n - 1 /\ y \in Nat
  BY DEF Steps
<1>3. RowWidth(c) = w /\ w \in Nat
  BY <1>1 DEF RowWidth
<1> HIDE DEF m, n, w
<1>4. x \in 0 .. w - 1
  BY <1>1, <1>2, Place DEF m
<1>5. Within(c, a, s) = x + y * w
  BY <1>3 DEF Within, m
<1> HIDE DEF x, y
<1>6. (x + y * w) % w = x /\ (x + y * w) \div w = y
  BY <1>2, <1>3, <1>4, SMT
<1> QED BY <1>5, <1>6 DEF x, y, m, w

(* A sub-frame of whole stripes has all of a stripe's columns or none. *)
LEMMA StripeInside ==
  ASSUME NEW m \in Nat, NEW l \in Nat, NEW e \in Nat, l % m = 0, e % m = 0,
         NEW a \in 0 .. m - 1, NEW b \in 0 .. m - 1, NEW i \in Nat,
         a + i * m \in l .. e - 1
  PROVE  b + i * m \in l .. e - 1
<1>1. m \in Nat \ {0}
  OBVIOUS
<1> DEFINE p == l \div m
           q == e \div m
<1>2. p \in Nat /\ q \in Nat /\ l = p * m /\ e = q * m
  BY <1>1, SMT
<1> HIDE DEF p, q
<1> DEFINE s == i * m
           t == p * m
           u == q * m
<1>3. s \in Nat /\ t \in Nat /\ u \in Nat
  BY <1>2
<1>4. i < p => s + m <= t
  BY <1>2, Monotone
<1>5. p < i => t + m <= s
  BY <1>2, Monotone
<1>6. i < q => s + m <= u
  BY <1>2, Monotone
<1>7. q < i => u + m <= s
  BY <1>2, Monotone
<1>8. i = p => s = t
  OBVIOUS
<1>9. i = q => s = u
  OBVIOUS
<1> HIDE DEF s, t, u
<1>10. a + s \in t .. u - 1
  BY <1>2 DEF s, t, u
<1>11. t <= s /\ s + m <= u
  BY <1>2, <1>3, <1>4, <1>5, <1>6, <1>7, <1>8, <1>9, <1>10
<1>12. b + s \in t .. u - 1
  BY <1>3, <1>11
<1> QED BY <1>2, <1>12 DEF s, t, u

(* The table leads from the addresses of such a sub-frame to its own. *)
LEMMA StaysInside ==
  ASSUME NEW c, Geometry(c), NEW r, Inside(r, c.size["x"], c.size["y"]),
         r.tlx % StripeWidth(c) = 0, (r.brx + 1) % StripeWidth(c) = 0, NEW d \in Addresses(c)
  PROVE  In(r, c.size["x"], d) <=> In(r, c.size["x"], Descramble(c)[d])
<1> DEFINE m == StripeWidth(c)
           w == c.size["x"]
<1>1. PICK s \in Steps(c) : Dest(c, s) = d
  BY EveryAddressWritten
<1> DEFINE a == s.chip + s.pixel * c.cps["x"]
           b == s.pixel + s.chip * c.ppc["x"]
           i == s.stripe
<1>2. Descramble(c)[d] = Source(c, s)
  BY <1>1, TableLeadsBack
<1>3. a \in 0 .. m - 1 /\ d = Within(c, a, s)
  BY <1>1, DestWithin
<1>4. b \in 0 .. m - 1 /\ Descramble(c)[d] = Within(c, b, s)
  BY <1>2, SourceWithin
<1>5. m \in Nat /\ i \in Nat
  BY DEF Geometry, StripeWidth, Axes, Steps
<1> HIDE DEF a, b
<1>6. d % w = a + i * m /\ d \div w = s.row
  BY <1>3, WithinPlace
<1>7. Descramble(c)[d] % w = b + i * m /\ Descramble(c)[d] \div w = s.row
  BY <1>4, WithinPlace
<1> DEFINE l == r.tlx
           e == r.brx + 1
<1>8. l \in Nat /\ e \in Nat /\ r.brx = e - 1 /\ l % m = 0 /\ e % m = 0
  BY DEF Inside
<1> HIDE DEF m, l, e, i
<1>9. a + i * m \in l .. e - 1 <=> b + i * m \in l .. e - 1
  BY <1>3, <1>4, <1>5, <1>8, StripeInside
<1>10. r.tlx .. r.brx = l .. e - 1
  BY <1>8 DEF l
<1> QED BY <1>6, <1>7, <1>9, <1>10 DEF In

(* So the table setupSpatialImage() makes leads from the place of a point  *)
(* in the sub-frame to the place of the one it came from: no two to the    *)
(* same, and none left out.                                                *)
LEMMA RealignedInside ==
  ASSUME NEW c, Geometry(c), NEW r, Inside(r, c.size["x"], c.size["y"]),
         r.tlx % StripeWidth(c) = 0, (r.brx + 1) % StripeWidth(c) = 0
  PROVE  LET w == c.size["x"]
             n == PixelsOf(r)
             table == Descramble(c)
             local == Realigned(r, w, table)
         IN  /\ \A k \in 0 .. n - 1 :
                  /\ local[k] \in 0 .. n - 1
                  /\ InFrame(r, local[k], w) = table[InFrame(r, k, w)]
             /\ \A j, k \in 0 .. n - 1 : local[j] = local[k] => j = k
             /\ \A k \in 0 .. n - 1 : \E j \in 0 .. n - 1 : local[j] = k
<1> DEFINE w == c.size["x"]
           h == c.size["y"]
           n == PixelsOf(r)
           table == Descramble(c)
           local == Realigned(r, w, table)
           v == WidthOf(r)
           place(d) == (d \div w - r.tly) * v + ((d % w) - r.tlx)
<1>1. /\ Addresses(c) = 0 .. w * h - 1
      /\ w \in Nat /\ h \in Nat /\ r.tlx \in Nat /\ r.tly \in Nat /\ v \in Nat
  BY DEF Geometry, Addresses, Pixels, Inside, WidthOf, Axes
<1>2. \A k \in 0 .. n - 1 :
        /\ InFrame(r, k, w) \in Addresses(c) /\ In(r, w, InFrame(r, k, w))
        /\ k = place(InFrame(r, k, w))
  BY <1>1, PointsOf DEF In
<1>3. ASSUME NEW d \in Addresses(c), In(r, w, d)
      PROVE  place(d) \in 0 .. n - 1 /\ InFrame(r, place(d), w) = d
  <2> DEFINE x == d % w
             y == d \div w
  <2>1. x \in r.tlx .. r.brx /\ y \in r.tly .. r.bry
    BY <1>3 DEF In
  <2>2. d = x + y * w
    BY <1>1, Division
  <2> HIDE DEF x, y
  <2>3. /\ (y - r.tly) * v + (x - r.tlx) \in 0 .. n - 1
        /\ InFrame(r, (y - r.tly) * v + (x - r.tlx), w) = x + y * w
    BY <2>1, PointsOf
  <2> QED BY <2>2, <2>3 DEF x, y
<1>4. \A d \in Addresses(c) :
        /\ table[d] \in Addresses(c)
        /\ In(r, w, d) <=> In(r, w, table[d])
  BY StaysInside, TableIsPermutation
<1>5. \A d, e \in Addresses(c) : table[d] = table[e] => d = e
  BY TableIsPermutation
<1>6. \A a \in Addresses(c) : \E d \in Addresses(c) : table[d] = a
  BY TableIsPermutation
<1>7. ASSUME NEW k \in 0 .. n - 1
      PROVE  local[k] = place(table[InFrame(r, k, w)])
  <2> DEFINE d == table[InFrame(r, k, w)]
             q == (d \div w - r.tly) * v
             x == d % w
  <2>1. d \in Addresses(c)
    BY <1>2, <1>4
  <2> HIDE DEF d
  <2>2. x \in Int /\ d \div w - r.tly \in Int
    <3>1. d \in 0 .. w * h - 1
      BY <1>1, <2>1
    <3>2. d % w \in 0 .. w - 1 /\ d \div w \in 0 .. h - 1
      BY <1>1, <3>1, Division
    <3> QED BY <1>1, <3>2
  <2>3. q \in Int
    BY <1>1, <2>2
  <2>4. local[k] = q + x - r.tlx
    BY DEF Realigned, d
  <2> HIDE DEF q, x
  <2>5. local[k] = q + (x - r.tlx)
    BY <1>1, <2>2, <2>3, <2>4
  <2> QED BY <2>5 DEF q, x, d
<1> HIDE DEF place, table, local, n, w
<1>8. ASSUME NEW k \in 0 .. n - 1
      PROVE  /\ local[k] \in 0 .. n - 1
             /\ InFrame(r, local[k], w) = table[InFrame(r, k, w)]
  BY <1>2, <1>3, <1>4, <1>7
<1>9. ASSUME NEW j \in 0 .. n - 1, NEW k \in 0 .. n - 1, local[j] = local[k]
      PROVE  j = k
  <2>1. InFrame(r, j, w) = InFrame(r, k, w)
    BY <1>2, <1>5, <1>8, <1>9
  <2> QED BY <1>2, <2>1
<1>10. ASSUME NEW k \in 0 .. n - 1
       PROVE  \E j \in 0 .. n - 1 : local[j] = k
  <2>1. PICK d \in Addresses(c) : table[d] = InFrame(r, k, w)
    BY <1>2, <1>6
  <2>2. In(r, w, d)
    BY <1>2, <1>4, <2>1
  <2>3. place(d) \in 0 .. n - 1 /\ InFrame(r, place(d), w) = d
    BY <1>3, <2>2
  <2>4. local[place(d)] = k
    BY <1>2, <1>7, <2>1, <2>3
  <2> QED BY <2>3, <2>4
<1> QED BY <1>8, <1>9, <1>10 DEF table, local, n, w

LEMMA SubFrameImageRight ==
  ASSUME Assembly, WholeStripes, acquiring, server.mode = "spatial", source = driver,
         frameSent \in Nat, server.descramble \in 0 .. 2,
         processFrame = [id \in DOMAIN subFrameMap |-> Section(id)],
         NEW z \in {0, Unset}, NEW resetFrame,
         resetFrame = [k \in 0 .. server.width * server.height - 1 |-> z]
  PROVE  LET i == frameSent % driver.images
             r == subFrameMap[server.currentSubFrame]
         IN  /\ DOMAIN SubFrameImage(resetFrame) = 0 .. PixelsOf(r) - 1
             /\ \A k \in 0 .. PixelsOf(r) - 1 :
                  IF server.descramble = 0
                    THEN SubFrameImage(resetFrame)[k] = driver.scrambled[i][InFrame(r, k, W)]
                    ELSE SameValue(SubFrameImage(resetFrame)[k], driver.raw[i][InFrame(r, k, W)])
<1> DEFINE img == frameSent % driver.images
           mode == server.descramble
           table == driver.descramble
           A == 0 .. W * H - 1
           ch == server.currentSubFrame
           r == subFrameMap[ch]
           n == PixelsOf(r)
           local == Realigned(r, W, table)
           in == processFrame[ch]
           target == [k \in 0 .. n - 1 |-> IF mode = 0 THEN k ELSE server.dataIndex[k]]
           value == [k \in 0 .. n - 1 |->
                      IF mode = 0 THEN in[k] ELSE Corrected(in[k], resetFrame[k])]
           out == SubFrameImage(resetFrame)
<1>1. driver # None
  BY DEF Assembly, Registry, Arranged, Accepted
<1>2. PICK c \in Objects : Sound(c) /\ driver = ReadFrom(c)
  BY <1>1 DEF Assembly, FilesSound
<1>3. /\ Geometry(c) /\ W = c.size["x"] /\ H = c.size["y"] /\ Addresses(c) = A
      /\ table = Descramble(c)
      /\ driver.meta.ppc = c.ppc /\ driver.meta.cps = c.cps
      /\ \A a \in A : driver.raw[img][a] \in Nat /\ driver.raw[img][a] < 32768
      /\ \A d \in A : driver.scrambled[img][d] = applyGains(driver.raw[img][table[d]])
  BY <1>2, DriverHolds
<1>4. PICK layout \in Layouts, jd \in 0 .. Channels - 1 : ArrangedSpatial(layout, jd)
  BY DEF Assembly, Registry, Arranged, ArrangedTemporal
<1>5. /\ jd = ch /\ ch \in DOMAIN subFrameMap /\ IsWhole(r, driver)
      /\ server.width = WidthOf(r) /\ server.height = HeightOf(r)
      /\ server.dataIndex = local
  BY <1>4 DEF ArrangedSpatial
<1>6. Inside(r, W, H) /\ n \in Nat
  BY <1>5, Shape DEF Assembly
<1>7. r.tlx % StripeWidth(c) = 0 /\ (r.brx + 1) % StripeWidth(c) = 0
  BY <1>3, <1>5 DEF IsWhole, StripeWidth
<1>8. /\ \A k \in 0 .. n - 1 :
           /\ local[k] \in 0 .. n - 1
           /\ InFrame(r, local[k], W) = table[InFrame(r, k, W)]
      /\ \A j, k \in 0 .. n - 1 : local[j] = local[k] => j = k
      /\ \A k \in 0 .. n - 1 : \E j \in 0 .. n - 1 : local[j] = k
  BY <1>3, <1>6, <1>7, RealignedInside
<1>9. server.width * server.height = n
  BY <1>5 DEF PixelsOf
<1>10. \A k \in 0 .. n - 1 : InFrame(r, k, W) \in A
  BY <1>6, PointsOf
<1>11. ASSUME NEW k \in 0 .. n - 1
       PROVE  /\ in[k] = driver.scrambled[img][InFrame(r, k, W)]
              /\ resetFrame[k] = z
  <2>1. in = Section(ch)
    BY <1>5
  <2>2. Section(ch)[k] = driver.scrambled[img][InFrame(r, k, W)]
    BY DEF Section, copyScrambledSection, copySection, W
  <2> QED BY <1>9, <2>1, <2>2
<1>12. out = Written(Blank(n), n, target, value)
  BY <1>9 DEF SubFrameImage, unscramble
<1>13. \A k \in 0 .. n - 1 :
         /\ target[k] = IF mode = 0 THEN k ELSE local[k]
         /\ value[k] = IF mode = 0 THEN in[k] ELSE Corrected(in[k], z)
  <2> HIDE DEF local, in, n
  <2>1. ASSUME NEW k \in 0 .. n - 1
        PROVE  target[k] = IF mode = 0 THEN k ELSE local[k]
    BY <1>5
  <2>2. ASSUME NEW k \in 0 .. n - 1
        PROVE  value[k] = IF mode = 0 THEN in[k] ELSE Corrected(in[k], z)
    <3>1. value[k] = IF mode = 0 THEN in[k] ELSE Corrected(in[k], resetFrame[k])
      OBVIOUS
    <3> HIDE DEF value
    <3> QED BY <1>11, <3>1
  <2> QED BY <2>1, <2>2
<1>14. DOMAIN Blank(n) = 0 .. n - 1
  BY DEF Blank
<1> HIDE DEF out, target, value, in, local, table, n, img, A
<1>15. \A j, k \in 0 .. n - 1 : target[j] = target[k] => j = k
  BY <1>8, <1>13
<1>16. \A k \in 0 .. n - 1 : target[k] \in 0 .. n - 1 => out[target[k]] = value[k]
  BY <1>6, <1>12, <1>14, <1>15, WrittenApart
<1>17. DOMAIN out = 0 .. n - 1
  BY <1>12, <1>14 DEF Written
<1>18. ASSUME NEW k \in 0 .. n - 1
       PROVE  IF mode = 0 THEN out[k] = driver.scrambled[img][InFrame(r, k, W)]
              ELSE SameValue(out[k], driver.raw[img][InFrame(r, k, W)])
  <2>1. CASE mode = 0
    <3>1. target[k] = k /\ value[k] = in[k]
      BY <1>13, <2>1
    <3> QED BY <1>11, <1>16, <2>1, <3>1
  <2>2. CASE mode # 0
    <3>1. PICK j \in 0 .. n - 1 : local[j] = k
      BY <1>8
    <3> DEFINE v == driver.raw[img][InFrame(r, k, W)]
    <3>2. v \in Nat /\ v < 32768
      BY <1>3, <1>10
    <3>3. in[j] = applyGains(v)
      <4>1. in[j] = driver.scrambled[img][InFrame(r, j, W)] /\ InFrame(r, j, W) \in A
        BY <1>10, <1>11
      <4>2. driver.scrambled[img][InFrame(r, j, W)] =
              applyGains(driver.raw[img][table[InFrame(r, j, W)]])
        BY <1>3, <4>1
      <4> QED BY <1>8, <3>1, <4>1, <4>2
    <3> HIDE DEF v
    <3>4. target[j] = k /\ value[j] = Corrected(applyGains(v), z)
      BY <1>13, <2>2, <3>1, <3>3
    <3>5. out[k] = Corrected(applyGains(v), z)
      BY <1>16, <3>4
    <3> QED BY <2>2, <3>2, <3>5, PixelDecoded DEF v
  <2> QED BY <2>1, <2>2
<1> QED BY <1>17, <1>18 DEF out, n, img

-----------------------------------------------------------------------------
(* The images delivered                                                    *)

(* The frame number and the setting that processing uses *)
Ranges == frameSent \in Nat /\ server.descramble \in 0 .. 2

LEMMA RangesInit == ASSUME ChainInit PROVE Ranges
BY DEF ChainInit, Ranges

LEMMA BegunRanges ==
  ASSUME Ranges, ServerShape, UNCHANGED frameSent, NEW full, NEW regions, NEW n, NEW size,
         \/ full = setupTemporalImage
         \/ \E ch, r : full = setupSpatialImage(ch, r),
         Start(full, regions, n, size)
  PROVE  Ranges'
<1>1. server' = full \/ server' = setupChannel(full, size)
  BY DEF Start
<1>2. PICK t, w, h, i, m, d, id : server = Server(t, w, h, i, m, d, id)
  BY DEF ServerShape
<1>3. d \in 0 .. 2
  BY <1>2 DEF Ranges, Server
<1>4. \E t2, w2, h2, i2, id2 : full = Server(t2, w2, h2, i2, m, d, id2)
  <2>1. CASE full = setupTemporalImage
    BY <1>2, <2>1, ServerTemporal, ServerFull DEF setupTemporalImage
  <2>2. ASSUME NEW ch, NEW r, full = setupSpatialImage(ch, r)
        PROVE  <1>4!:
    BY <1>2, <2>2, ServerSpatial, ServerFull DEF setupSpatialImage
  <2> QED BY <2>1, <2>2
<1>5. PICK t2, w2, h2, i2, id2 : full = Server(t2, w2, h2, i2, m, d, id2)
  BY <1>4
<1>6. full.descramble = d
  BY <1>5 DEF Server
<1>7. setupChannel(full, size) = Server(t2, w2, h2, i2, size, d, id2)
  BY <1>5, ServerChannel
<1>8. setupChannel(full, size).descramble = d
  BY <1>7 DEF Server
<1> QED BY <1>1, <1>3, <1>6, <1>8 DEF Ranges

LEMMA RangesStep ==
  ASSUME ServerShape, Ranges, [ChainNext]_chainVars
  PROVE  Ranges'
<1>1. ASSUME NEW layout \in Layouts, NEW size \in PacketSizes, StartTemporal(layout, size)
      PROVE  Ranges'
  <2> DEFINE regions == [ch \in 0 .. Channels - 1 |-> Region(layout, ch, W, H)]
             n == PixelsOf(regions[0])
  <2>1. Start(setupTemporalImage, regions, n, size) /\ UNCHANGED frameSent
    BY <1>1 DEF StartTemporal, W, H, sender
  <2> HIDE DEF regions, n
  <2> QED BY <2>1, BegunRanges
<1>2. ASSUME NEW layout \in Layouts, NEW size \in PacketSizes, NEW ch \in 0 .. Channels - 1,
             StartSpatial(layout, ch, size)
      PROVE  Ranges'
  <2> DEFINE r == Region(layout, ch, W, H)
             regions == [id \in {ch} |-> r]
             n == PixelsOf(r)
  <2>1. Start(setupSpatialImage(ch, r), regions, n, size) /\ UNCHANGED frameSent
    BY <1>2 DEF StartSpatial, W, H, sender
  <2> HIDE DEF r, regions, n
  <2> QED BY <2>1, BegunRanges
<1>3. ASSUME PercConfigFileRead PROVE Ranges'
  <2>1. UNCHANGED frameSent
    BY <1>3 DEF PercConfigFileRead, sender
  <2>2. server' = server \/ \E u, v, x : server' = setupFullFrame(server, u, v, x)
    BY <1>3 DEF PercConfigFileRead
  <2>3. PICK t, w, h, i, m, d, id : server = Server(t, w, h, i, m, d, id)
    BY DEF ServerShape
  <2>4. ASSUME NEW u, NEW v, NEW x, server' = setupFullFrame(server, u, v, x)
        PROVE  server'.descramble = server.descramble
    <3>1. server' = Server(t, u, v, x, m, d, id)
      BY <2>3, <2>4, ServerFull
    <3> QED BY <2>3, <3>1 DEF Server
  <2> QED BY <2>1, <2>2, <2>4 DEF Ranges
<1>4. ASSUME SendFrame PROVE Ranges'
  <2>1. frameSent' = frameSent + 1 /\ UNCHANGED server
    BY <1>4 DEF SendFrame, setup
  <2> QED BY <2>1 DEF Ranges
<1>5. ASSUME NEW mode \in 0 .. 2, SetDescramble(mode) PROVE Ranges'
  <2>1. server' = setDescramble(server, mode) /\ UNCHANGED frameSent
    BY <1>5 DEF SetDescramble, sender
  <2>2. PICK t, w, h, i, m, d, id : server = Server(t, w, h, i, m, d, id)
    BY DEF ServerShape
  <2>3. server' = Server(t, w, h, i, m, mode, id)
    BY <2>1, <2>2, ServerDescramble
  <2> QED BY <2>1, <2>3 DEF Ranges, Server
<1>6. ASSUME UNCHANGED <<server, frameSent>> PROVE Ranges'
  BY <1>6 DEF Ranges
<1> QED BY <1>1, <1>2, <1>3, <1>4, <1>5, <1>6 DEF ChainNext, chainVars, files, setup, sender,
      WriteSetting, RawFileWrite, RawFileRead, StopAcquisition, PacketReceived, FrameComplete,
      ProcessFrame

(* What the frame thread works with *)
LEMMA Handed ==
  ASSUME Assembly, Progress, Whole, processFrame # None
  PROVE  /\ acquiring /\ source = driver
         /\ processFrame = [id \in DOMAIN subFrameMap |-> Section(id)]
BY DEF Assembly, NetIsFrame, Progress, Idle, Turn, Whole, HandedWhole

LEMMA TemporalProcessed ==
  ASSUME Assembly, Progress, Whole, Ranges, ProcessFrame
  PROVE  TemporalImageIsOriginal'
<1> DEFINE i == frameSent % driver.images
           mode == server.descramble
<1> SUFFICES ASSUME server'.mode = "temporal", Covered', NEW a \in DOMAIN image'.pixels
             PROVE  LET v == image'.pixels[a] IN
                    /\ image'.descramble = 0 =>
                         v = driver'.scrambled[image'.frame % driver'.images][a]
                    /\ image'.descramble = 1 => SameValue(v, Original'[a])
                    /\ image'.descramble = 2 =>
                         SameValue(Decode(v), Original'[a]) /\ Gain(v) = GainOf(Original'[a])
  BY DEF TemporalImageIsOriginal
<1>1. /\ processFrame # None
      /\ UNCHANGED <<driver, server, subFrameMap>>
  BY DEF ProcessFrame, files, setup
<1>2. /\ acquiring /\ source = driver
      /\ processFrame = [id \in DOMAIN subFrameMap |-> Section(id)]
  BY <1>1, Handed
<1>3. Covered /\ server.mode = "temporal"
  BY <1>1 DEF Covered
<1>4. PICK z \in {0, Unset} :
        image' = [frame |-> frameSent, descramble |-> server.descramble,
                  pixels |-> FullImage([k \in 0 .. server.width * server.height - 1 |-> z])]
  BY <1>3 DEF ProcessFrame
<1> DEFINE resetFrame == [k \in 0 .. server.width * server.height - 1 |-> z]
           out == FullImage(resetFrame)
<1>5. /\ DOMAIN out = 0 .. W * H - 1
      /\ \A b \in 0 .. W * H - 1 :
           Expected(server.descramble, out[b], driver.scrambled[i][b], driver.raw[i][b])
  <2> HIDE DEF resetFrame
  <2>1. resetFrame = [k \in 0 .. server.width * server.height - 1 |-> z]
    BY DEF resetFrame
  <2> QED BY <1>2, <1>3, <2>1, FullImageRight DEF Ranges
<1> HIDE DEF out
<1>6. image'.frame = frameSent /\ image'.descramble = mode /\ image'.pixels = out
  BY <1>4 DEF out
<1>7. Expected(mode, out[a], driver.scrambled[i][a], driver.raw[i][a]) /\ mode \in 0 .. 2
  BY <1>5, <1>6 DEF Ranges
<1>8. Original'[a] = driver.raw[i][a] /\ driver'.scrambled[image'.frame % driver'.images][a]
        = driver.scrambled[i][a]
  BY <1>1, <1>6 DEF Original
<1> HIDE DEF i, mode
<1> DEFINE v == image'.pixels[a]
           s == driver'.scrambled[image'.frame % driver'.images][a]
           o == Original'[a]
<1>9. Expected(mode, v, s, o) /\ image'.descramble = mode
  BY <1>6, <1>7, <1>8
<1> HIDE DEF v, s, o
<1> QED BY <1>9 DEF Expected, v, s, o

LEMMA SpatialProcessed ==
  ASSUME Assembly, Progress, Whole, Ranges, WholeStripes, ProcessFrame
  PROVE  SpatialImageIsOriginal'
<1> DEFINE i == frameSent % driver.images
           mode == server.descramble
<1> SUFFICES ASSUME server'.mode = "spatial", NEW id \in DOMAIN subFrameMap',
                    NEW k \in DOMAIN image'.pixels
             PROVE  LET a == InFrame(subFrameMap'[id], k, driver'.size["x"]) IN
                    IF image'.descramble = 0
                      THEN image'.pixels[k] =
                             driver'.scrambled[image'.frame % driver'.images][a]
                      ELSE SameValue(image'.pixels[k], Original'[a])
  BY Zenon DEF SpatialImageIsOriginal
<1>1. /\ processFrame # None
      /\ UNCHANGED <<driver, server, subFrameMap>>
  BY DEF ProcessFrame, files, setup
<1>2. /\ acquiring /\ source = driver
      /\ processFrame = [jd \in DOMAIN subFrameMap |-> Section(jd)]
  BY <1>1, Handed
<1>3. server.mode = "spatial" /\ id = server.currentSubFrame
  BY <1>1, <1>2, Shape DEF Assembly
<1>4. PICK z \in {0, Unset} :
        image' = [frame |-> frameSent, descramble |-> server.descramble,
                  pixels |-> SubFrameImage([j \in 0 .. server.width * server.height - 1 |-> z])]
  BY <1>3 DEF ProcessFrame
<1> DEFINE resetFrame == [j \in 0 .. server.width * server.height - 1 |-> z]
           out == SubFrameImage(resetFrame)
           r == subFrameMap[id]
<1>5. /\ DOMAIN out = 0 .. PixelsOf(r) - 1
      /\ \A j \in 0 .. PixelsOf(r) - 1 :
           IF mode = 0
             THEN out[j] = driver.scrambled[i][InFrame(r, j, W)]
             ELSE SameValue(out[j], driver.raw[i][InFrame(r, j, W)])
  <2> HIDE DEF resetFrame
  <2>1. resetFrame = [j \in 0 .. server.width * server.height - 1 |-> z]
    BY DEF resetFrame
  <2> QED BY <1>2, <1>3, <2>1, SubFrameImageRight DEF Ranges
<1> HIDE DEF out
<1>6. image'.frame = frameSent /\ image'.descramble = mode /\ image'.pixels = out
  BY <1>4 DEF out
<1> DEFINE a == InFrame(r, k, W)
<1>7. IF mode = 0 THEN image'.pixels[k] = driver.scrambled[i][a]
      ELSE SameValue(image'.pixels[k], driver.raw[i][a])
  BY <1>5, <1>6
<1>8. /\ Original' = driver.raw[i] /\ driver'.images = driver.images
      /\ driver'.scrambled[image'.frame % driver'.images] = driver.scrambled[i]
      /\ InFrame(subFrameMap'[id], k, driver'.size["x"]) = a
  BY <1>1, <1>6 DEF Original, W
<1> HIDE DEF a, i, mode
<1> QED BY <1>6, <1>7, <1>8

(* An image stays what it is until the next one or the end. *)
Images == TemporalImageIsOriginal /\ (WholeStripes => SpatialImageIsOriginal)

LEMMA ImagesStep ==
  ASSUME Assembly, Progress, Progress', Whole, Ranges, Images, [ChainNext]_chainVars
  PROVE  Images'
<1>1. ASSUME image' = None PROVE Images'
  BY <1>1 DEF Images, TemporalImageIsOriginal, SpatialImageIsOriginal
<1>2. CASE ~acquiring'
  BY <1>1, <1>2 DEF Progress, Idle
<1>3. CASE ProcessFrame
  BY <1>3, TemporalProcessed, SpatialProcessed DEF Images
<1>4. CASE ~acquiring /\ acquiring'
  <2>1. image = None
    BY <1>4 DEF Progress, Idle
  <2>2. UNCHANGED image
    BY <1>4 DEF ChainNext, chainVars, WriteSetting, RawFileWrite, PercConfigFileRead, RawFileRead,
         StartTemporal, StartSpatial, StopAcquisition, SendFrame, PacketReceived, FrameComplete,
         ProcessFrame, SetDescramble, setup
  <2> QED BY <1>1, <2>1, <2>2
<1>5. CASE acquiring /\ acquiring' /\ ~ProcessFrame
  <2>1. /\ UNCHANGED <<image, driver, subFrameMap>>
        /\ server' = server \/ \E mode \in 0 .. 2 : server' = setDescramble(server, mode)
    BY <1>5 DEF ChainNext, chainVars, WriteSetting, RawFileWrite, PercConfigFileRead, RawFileRead,
         StartTemporal, StartSpatial, StopAcquisition, SendFrame, PacketReceived, FrameComplete,
         SetDescramble, setup, files
  <2>2. server'.mode = server.mode /\ server'.width = server.width /\ server'.height = server.height
    BY <2>1, DescrambleKeeps DEF Assembly, Registry
  <2>3. Covered' = Covered /\ Original' = Original
    BY <2>1, <2>2 DEF Covered, Original
  <2>4. TemporalImageIsOriginal' = TemporalImageIsOriginal
    BY <2>1, <2>2, <2>3 DEF TemporalImageIsOriginal
  <2>5. SpatialImageIsOriginal => SpatialImageIsOriginal'
    BY <1>5, <2>1, <2>2, <2>3 DEF SpatialImageIsOriginal
  <2> QED BY <2>4, <2>5 DEF Images
<1> QED BY <1>2, <1>3, <1>4, <1>5

LEMMA WholeHolds ==
  ASSUME Numbered, Atomic(None)
  PROVE  ChainSpec => [](Assembly /\ Progress /\ Whole)
<1>1. ChainInit => Whole
  BY DEF ChainInit, Whole, Contents, HandedWhole
<1>2. Assembly /\ Progress /\ Whole /\ [ChainNext]_chainVars => Whole'
  BY WholeStep
<1> QED BY <1>1, <1>2, ProgressHolds, PTL DEF ChainSpec

LEMMA ImagesHold ==
  ASSUME Numbered, Atomic(None)
  PROVE  ChainSpec => []Images
<1>1. ChainInit => Ranges /\ Images
  BY RangesInit DEF ChainInit, Images, TemporalImageIsOriginal, SpatialImageIsOriginal
<1>2. Assembly /\ Ranges /\ [ChainNext]_chainVars => Ranges'
  BY RangesStep DEF Assembly, Registry
<1>3. Assembly /\ Progress /\ Progress' /\ Whole /\ Ranges /\ Images /\ [ChainNext]_chainVars
        => Images'
  BY ImagesStep
<1> QED BY <1>1, <1>2, <1>3, WholeHolds, PTL DEF ChainSpec

(* In temporal mode the client gets the raw image of the file, whatever    *)
(* the geometry, the arrangement that covers the image, the packet size    *)
(* and the order of the packets.                                           *)
THEOREM TemporalImageRight ==
  ASSUME Numbered, Atomic(None)
  PROVE  ChainSpec => []TemporalImageIsOriginal
<1>1. Images => TemporalImageIsOriginal
  BY DEF Images
<1> QED BY <1>1, ImagesHold, PTL

(* In spatial mode it gets that image inside the sub-frame, if this is one *)
(* of whole stripes.                                                       *)
THEOREM SpatialImageRight ==
  ASSUME Numbered, Atomic(None), WholeStripes
  PROVE  ChainSpec => []SpatialImageIsOriginal
<1>1. Images => SpatialImageIsOriginal
  BY DEF Images
<1> QED BY <1>1, ImagesHold, PTL

-----------------------------------------------------------------------------
(* The packet counter                                                      *)

Ring(N, x, v, e) == [history |-> N, index |-> x, wrap |-> v, entries |-> e]

Put(e, x, h) == [e EXCEPT ![x] = h]

(* The place of the entry i after the first, which is at x *)
At(N, x, i) == IF x + i - 1 < N THEN x + i - 1 ELSE x + i - 1 - N

(* The ring holds the last of the headers u. *)
Holds(N, x, v, e, u) ==
  /\ v = 0 => Len(u) = x /\ \A i \in 1 .. x : e[i - 1] = u[i]
  /\ v = 1 => N <= Len(u) /\ \A i \in 1 .. N : e[At(N, x, i)] = u[Len(u) - N + i]
Tells(c, N, T, u) ==
  \E x \in 0 .. N - 1, v \in {0, 1}, e \in [0 .. N - 1 -> T \cup {<<>>}] :
    c = Ring(N, x, v, e) /\ Holds(N, x, v, e, u)

LEMMA RingStep ==
  ASSUME NEW N \in Nat \ {0}, NEW x \in 0 .. N - 1, NEW v \in {0, 1}, NEW e, NEW h,
         NEW y, y = IF x + 1 = N THEN 0 ELSE x + 1, NEW w, w = IF x + 1 = N THEN 1 ELSE v,
         NEW d, d = Put(e, x, h)
  PROVE  addPacket(Ring(N, x, v, e), h) = Ring(N, y, w, d)
<1> DEFINE c == Ring(N, x, v, e)
           a == [c EXCEPT !.entries[c.index] = h]
           b == [a EXCEPT !.index = y]
<1>1. c.index = x /\ c.history = N /\ c.wrap = v /\ c.entries = e
  BY DEF Ring
<1>2. a = Ring(N, x, v, d)
  <2>1. [c EXCEPT !.entries = d] = Ring(N, x, v, d)
    BY DEF Ring
  <2>2. a = [c EXCEPT !.entries = d]
    BY <1>1 DEF Put
  <2> QED BY <2>1, <2>2
<1>3. addPacket(c, h) = [b EXCEPT !.wrap = w]
  BY <1>1 DEF addPacket
<1> HIDE DEF a
<1>4. b = Ring(N, y, v, d)
  BY <1>2 DEF Ring
<1> HIDE DEF b
<1>5. [b EXCEPT !.wrap = w] = Ring(N, y, w, d)
  BY <1>4 DEF Ring
<1> QED BY <1>3, <1>5

LEMMA AddTells ==
  ASSUME NEW N \in Nat \ {0}, NEW T, NEW u \in Seq(T), NEW h \in T, NEW c, Tells(c, N, T, u)
  PROVE  Tells(addPacket(c, h), N, T, Append(u, h))
<1>1. PICK x \in 0 .. N - 1, v \in {0, 1}, e \in [0 .. N - 1 -> T \cup {<<>>}] :
        c = Ring(N, x, v, e) /\ Holds(N, x, v, e, u)
  BY DEF Tells
<1> DEFINE y == IF x + 1 = N THEN 0 ELSE x + 1
           w == IF x + 1 = N THEN 1 ELSE v
           d == [e EXCEPT ![x] = h]
           t == Append(u, h)
           L == Len(u)
<1>2. addPacket(c, h) = Ring(N, y, w, d)
  <2>1. /\ y = IF x + 1 = N THEN 0 ELSE x + 1
        /\ w = IF x + 1 = N THEN 1 ELSE v
        /\ d = Put(e, x, h)
    BY DEF Put
  <2> HIDE DEF y, w, d
  <2>2. addPacket(Ring(N, x, v, e), h) = Ring(N, y, w, d)
    BY <2>1, RingStep
  <2> QED BY <1>1, <2>2
<1>3. y \in 0 .. N - 1 /\ w \in {0, 1} /\ d \in [0 .. N - 1 -> T \cup {<<>>}]
  BY <1>1
<1>4. /\ L \in Nat /\ Len(t) = L + 1 /\ t[L + 1] = h
      /\ \A i \in 1 .. L : t[i] = u[i]
  OBVIOUS
<1>5. d[x] = h /\ \A i \in 0 .. N - 1 : i # x => d[i] = e[i]
  BY <1>1
<1> HIDE DEF d, t, L
<1>6. CASE v = 0
  <2>1. L = x /\ \A i \in 1 .. x : e[i - 1] = u[i]
    BY <1>1, <1>6 DEF Holds, L
  <2>2. \A i \in 1 .. x + 1 : d[i - 1] = t[i]
    <3> SUFFICES ASSUME NEW i \in 1 .. x + 1 PROVE d[i - 1] = t[i]
      OBVIOUS
    <3>1. CASE i = x + 1
      BY <1>4, <1>5, <2>1, <3>1
    <3>2. CASE i # x + 1
      <4>1. i \in 1 .. x /\ i - 1 \in 0 .. N - 1 /\ i - 1 # x
        BY <3>2
      <4> QED BY <1>4, <1>5, <2>1, <4>1
    <3> QED BY <3>1, <3>2
  <2>3. CASE x + 1 = N
    <3>1. y = 0 /\ w = 1 /\ Len(t) = N
      BY <1>4, <2>1, <2>3
    <3>2. \A i \in 1 .. N : At(N, 0, i) = i - 1 /\ Len(t) - N + i = i
      BY <3>1 DEF At
    <3>3. Holds(N, y, w, d, t)
      <4> HIDE DEF y, w
      <4>1. \A i \in 1 .. N : d[At(N, y, i)] = t[Len(t) - N + i]
        BY <2>2, <2>3, <3>1, <3>2
      <4> QED BY <3>1, <4>1 DEF Holds
    <3> HIDE DEF y, w
    <3> QED BY <1>2, <1>3, <3>3 DEF Tells, t
  <2>4. CASE x + 1 # N
    <3>1. y = x + 1 /\ w = 0 /\ Len(t) = x + 1
      BY <1>4, <1>6, <2>1, <2>4
    <3> HIDE DEF y, w
    <3>2. Holds(N, y, w, d, t)
      BY <2>2, <3>1 DEF Holds
    <3> QED BY <1>2, <1>3, <3>2 DEF Tells, t
  <2> QED BY <2>3, <2>4
<1>7. CASE v = 1
  <2>1. N <= L /\ \A i \in 1 .. N : e[At(N, x, i)] = u[L - N + i]
    BY <1>1, <1>7 DEF Holds, L
  <2>2. w = 1
    BY <1>7
  <2>3. ASSUME NEW i \in 1 .. N
        PROVE  d[At(N, y, i)] = t[Len(t) - N + i]
    <3>1. CASE i = N
      <4>1. At(N, y, i) = x /\ Len(t) - N + i = L + 1
        BY <1>4, <3>1 DEF At
      <4> QED BY <1>4, <1>5, <4>1
    <3>2. CASE i # N
      <4>1. i + 1 \in 1 .. N
        BY <3>2
      <4>2. At(N, y, i) = At(N, x, i + 1) /\ At(N, y, i) \in 0 .. N - 1 /\ At(N, y, i) # x
        BY <3>2 DEF At
      <4>3. Len(t) - N + i = L - N + (i + 1) /\ L - N + (i + 1) \in 1 .. L
        BY <1>4, <2>1, <4>1
      <4>4. e[At(N, x, i + 1)] = u[L - N + (i + 1)]
        BY <2>1, <4>1
      <4> QED BY <1>4, <1>5, <4>2, <4>3, <4>4
    <3> QED BY <3>1, <3>2
  <2>4. N <= Len(t)
    BY <1>4, <2>1
  <2> HIDE DEF w, y
  <2>5. Holds(N, y, w, d, t)
    BY <2>2, <2>3, <2>4 DEF Holds
  <2> QED BY <1>2, <1>3, <2>5 DEF Tells, t
<1> QED BY <1>6, <1>7

(* What the ring tells is no more than it has room for. *)
LEMMA LatestTold ==
  ASSUME NEW N \in Nat \ {0}, NEW T, NEW u \in Seq(T), NEW c, Tells(c, N, T, u)
  PROVE  Latest(u, N) \in Seq(T) /\ Tells(c, N, T, Latest(u, N))
<1> DEFINE t == Latest(u, N)
           L == Len(u)
<1>1. L \in Nat
  OBVIOUS
<1>2. CASE L <= N
  BY <1>2 DEF Latest
<1>3. CASE L > N
  <2>1. t = SubSeq(u, L - N + 1, L)
    BY <1>3 DEF Latest
  <2>2. t \in Seq(T) /\ Len(t) = N /\ \A i \in 1 .. N : t[i] = u[L - N + i]
    BY <1>1, <1>3, <2>1
  <2>3. PICK x \in 0 .. N - 1, v \in {0, 1}, e \in [0 .. N - 1 -> T \cup {<<>>}] :
          c = Ring(N, x, v, e) /\ Holds(N, x, v, e, u)
    BY DEF Tells
  <2>4. v = 1
    BY <1>3, <2>3 DEF Holds
  <2> HIDE DEF t
  <2>5. \A i \in 1 .. N : Len(t) - N + i = i
    BY <2>2
  <2>6. Holds(N, x, v, e, t)
    <3>1. \A i \in 1 .. N : e[At(N, x, i)] = u[L - N + i]
      BY <2>3, <2>4 DEF Holds
    <3>2. \A i \in 1 .. N : e[At(N, x, i)] = t[Len(t) - N + i]
      BY <2>2, <2>5, <3>1
    <3> QED BY <2>2, <2>4, <3>2 DEF Holds
  <2>7. Tells(c, N, T, t)
    BY <2>3, <2>6 DEF Tells
  <2> QED BY <2>2, <2>7 DEF t
<1> QED BY <1>1, <1>2, <1>3

(* The report is what the ring tells. *)
LEMMA ReportTells ==
  ASSUME NEW N \in Nat \ {0}, NEW T, NEW u \in Seq(T), Len(u) <= N, NEW c, Tells(c, N, T, u)
  PROVE  report(c) = u
<1>1. PICK x \in 0 .. N - 1, v \in {0, 1}, e \in [0 .. N - 1 -> T \cup {<<>>}] :
        c = Ring(N, x, v, e) /\ Holds(N, x, v, e, u)
  BY DEF Tells
<1> DEFINE Part(first, n) == [i \in 1 .. n |-> e[first + i - 1]]
<1>2. c.index = x /\ c.history = N /\ c.wrap = v /\ c.entries = e
  BY <1>1 DEF Ring
<1>3. report(c) = IF v = 0 THEN Part(0, x) ELSE Part(x, N - x) \o Part(0, x)
  BY <1>2 DEF report
<1>4. Len(u) \in Nat /\ u = [i \in 1 .. Len(u) |-> u[i]]
  OBVIOUS
<1>5. CASE v = 0
  <2>1. Len(u) = x /\ \A i \in 1 .. x : e[i - 1] = u[i]
    BY <1>1, <1>5 DEF Holds
  <2>2. \A i \in 1 .. x : 0 + i - 1 = i - 1
    OBVIOUS
  <2> QED BY <1>3, <1>4, <1>5, <2>1, <2>2
<1>6. CASE v = 1
  <2>1. Len(u) = N /\ \A i \in 1 .. N : e[At(N, x, i)] = u[i]
    <3>1. Len(u) = N
      BY <1>1, <1>4, <1>6 DEF Holds
    <3>2. \A i \in 1 .. N : Len(u) - N + i = i
      BY <3>1
    <3> QED BY <1>1, <1>6, <3>1, <3>2 DEF Holds
  <2> DEFINE E == T \cup {<<>>}
             p == Part(x, N - x)
             q == Part(0, x)
  <2>2. p \in Seq(E) /\ Len(p) = N - x /\ \A i \in 1 .. N - x : p[i] = e[x + i - 1]
    <3>1. N - x \in Nat /\ \A i \in 1 .. N - x : x + i - 1 \in 0 .. N - 1
      OBVIOUS
    <3>2. p \in [1 .. N - x -> E]
      BY <3>1
    <3> QED BY <3>1, <3>2
  <2>3. q \in Seq(E) /\ Len(q) = x /\ \A i \in 1 .. x : q[i] = e[i - 1]
    <3>1. x \in Nat /\ \A i \in 1 .. x : 0 + i - 1 \in 0 .. N - 1 /\ 0 + i - 1 = i - 1
      OBVIOUS
    <3>2. q \in [1 .. x -> E]
      BY <3>1
    <3> QED BY <3>1, <3>2
  <2> HIDE DEF E, p, q, Part
  <2>4. /\ p \o q \in Seq(E) /\ Len(p \o q) = N
        /\ \A i \in 1 .. N : (p \o q)[i] = IF i <= N - x THEN p[i] ELSE q[i - (N - x)]
    BY <2>2, <2>3
  <2>5. ASSUME NEW i \in 1 .. N
        PROVE  (p \o q)[i] = u[i]
    <3>1. CASE i <= N - x
      <4>1. At(N, x, i) = x + i - 1
        BY <3>1 DEF At
      <4> QED BY <2>1, <2>2, <2>4, <3>1, <4>1
    <3>2. CASE i > N - x
      <4>1. At(N, x, i) = (i - (N - x)) - 1 /\ i - (N - x) \in 1 .. x
        BY <3>2 DEF At
      <4>2. (p \o q)[i] = q[i - (N - x)]
        BY <2>4, <3>2
      <4>3. q[i - (N - x)] = e[(i - (N - x)) - 1]
        BY <2>3, <4>1
      <4> QED BY <2>1, <4>1, <4>2, <4>3
    <3>3. N - x \in Int
      OBVIOUS
    <3> QED BY <3>1, <3>2, <3>3
  <2> DEFINE r == p \o q
  <2>6. r \in Seq(E) /\ Len(r) = N
    BY <2>4
  <2>7. \A i \in 1 .. N : r[i] = u[i]
    BY <2>5
  <2> HIDE DEF r
  <2>8. r = [i \in 1 .. N |-> r[i]]
    BY <2>6
  <2>9. r = u
    BY <1>4, <2>1, <2>7, <2>8
  <2> QED BY <1>3, <1>6, <2>9 DEF p, q, r
<1> QED BY <1>5, <1>6

Rings(N, T) ==
  {Ring(N, x, v, e) : x \in 0 .. N - 1, v \in {0, 1}, e \in [0 .. N - 1 -> T \cup {<<>>}]}

LEMMA AddKeeps ==
  ASSUME NEW N \in Nat \ {0}, NEW T, NEW k \in Rings(N, T), NEW h \in T
  PROVE  addPacket(k, h) \in Rings(N, T)
<1>1. PICK x \in 0 .. N - 1, v \in {0, 1}, e \in [0 .. N - 1 -> T \cup {<<>>}] :
        k = Ring(N, x, v, e)
  BY DEF Rings
<1> DEFINE y == IF x + 1 = N THEN 0 ELSE x + 1
           w == IF x + 1 = N THEN 1 ELSE v
           d == [e EXCEPT ![x] = h]
<1>2. y \in 0 .. N - 1 /\ w \in {0, 1} /\ d \in [0 .. N - 1 -> T \cup {<<>>}]
  OBVIOUS
<1>3. /\ y = IF x + 1 = N THEN 0 ELSE x + 1
      /\ w = IF x + 1 = N THEN 1 ELSE v
      /\ d = Put(e, x, h)
  BY DEF Put
<1> HIDE DEF y, w, d
<1>4. addPacket(Ring(N, x, v, e), h) = Ring(N, y, w, d)
  BY <1>3, RingStep
<1>5. addPacket(k, h) = Ring(N, y, w, d)
  BY <1>1, <1>4
<1> QED BY <1>2, <1>5 DEF Rings

(* The headers are added one after the other. *)
LEMMA AddsTell ==
  ASSUME NEW N \in Nat \ {0}, NEW T, NEW u \in Seq(T), NEW hs \in Seq(T),
         NEW c, Tells(c, N, T, u)
  PROVE  Tells(addPackets(c, hs), N, T, u \o hs)
<1> DEFINE L == Len(hs)
           C == Rings(N, T)
           Def(f) == f = [n \in 0 .. L |-> IF n = 0 THEN c ELSE addPacket(f[n - 1], hs[n])]
           step == [n \in 1 .. L |-> [k \in C |-> addPacket(k, hs[n])]]
           after == CHOOSE f : Def(f)
<1>1. L \in Nat /\ \A n \in 1 .. L : hs[n] \in T
  OBVIOUS
<1>2. c \in C
  BY DEF Tells, Rings
<1>3. \A k \in C, h \in T : addPacket(k, h) \in C
  <2> HIDE DEF Def, after, step
  <2> QED BY AddKeeps
<1> HIDE DEF L, C
<1>4. \E f : Def(f)
  <2>1. StepsIn(step, L, C)
    BY <1>1, <1>3 DEF StepsIn
  <2> HIDE DEF step
  <2>2. PICK f : Iterates(f, L, C, c, step)
    BY <1>1, <1>2, <2>1, Recursion
  <2>3. ASSUME NEW n \in 0 .. L
        PROVE  f[n] = IF n = 0 THEN c ELSE addPacket(f[n - 1], hs[n])
    <3>1. CASE n = 0
      BY <2>2, <3>1 DEF Iterates
    <3>2. CASE n # 0
      <4>1. n \in 1 .. L /\ n - 1 \in 0 .. L
        BY <1>1, <3>2
      <4>2. f[n - 1] \in C /\ f[n] = step[n][f[n - 1]]
        BY <2>2, <4>1 DEF Iterates
      <4> QED BY <3>2, <4>1, <4>2 DEF step
    <3> QED BY <3>1, <3>2
  <2>4. f = [n \in 0 .. L |-> f[n]]
    BY <2>2 DEF Iterates
  <2>5. Def(f)
    BY <2>3, <2>4
  <2> HIDE DEF Def
  <2> QED BY <2>5
<1>5. addPackets(c, hs) = after[L]
  BY DEF addPackets, L
<1>6. Def(after)
  <2> HIDE DEF Def
  <2> QED BY <1>4
<1> HIDE DEF after
<1> DEFINE t(n) == u \o SubSeq(hs, 1, n)
           S == {n \in 0 .. L : Tells(after[n], N, T, t(n))}
<1>7. 0 \in S
  <2>1. after[0] = c /\ 0 \in 0 .. L
    BY <1>1, <1>6
  <2>2. t(0) = u
    OBVIOUS
  <2> QED BY <2>1, <2>2
<1>8. ASSUME NEW n \in 0 .. L - 1, n \in S
      PROVE  n + 1 \in S
  <2>1. n + 1 \in 0 .. L /\ n + 1 \in 1 .. L /\ n + 1 # 0 /\ (n + 1) - 1 = n
    BY <1>1
  <2>2. after[n + 1] = addPacket(after[n], hs[n + 1])
    BY <1>6, <2>1
  <2>3. t(n) \in Seq(T) /\ hs[n + 1] \in T
    BY <1>1, <2>1 DEF L
  <2>4. t(n + 1) = Append(t(n), hs[n + 1])
    <3>1. n \in Nat /\ n + 1 \in 1 .. Len(hs)
      BY <2>1 DEF L
    <3>2. SubSeq(hs, 1, n + 1) = Append(SubSeq(hs, 1, n), hs[n + 1])
      BY <3>1
    <3> DEFINE s == SubSeq(hs, 1, n)
    <3>3. s \in Seq(T)
      BY <3>1
    <3> HIDE DEF s
    <3>4. u \o Append(s, hs[n + 1]) = Append(u \o s, hs[n + 1])
      BY <2>3, <3>3
    <3> QED BY <3>2, <3>4 DEF s
  <2>5. Tells(after[n], N, T, t(n))
    BY <1>8
  <2> HIDE DEF t, Def
  <2>6. Tells(after[n + 1], N, T, t(n + 1))
    BY <2>2, <2>3, <2>4, <2>5, AddTells
  <2> QED BY <2>1, <2>6
<1> HIDE DEF S, Def
<1>9. L \in S
  <2>1. \A n \in 0 .. L : n \in S
    BY <1>1, <1>7, <1>8, Induction
  <2> QED BY <1>1, <2>1
<1>10. t(L) = u \o hs
  BY DEF L
<1> QED BY <1>5, <1>9, <1>10 DEF S

-----------------------------------------------------------------------------

(* The counter tells what was sent. *)
SentTold ==
  \E T : /\ sent \in Seq(T) /\ Len(sent) <= History
         /\ Tells(packetCounter, History, T, sent)

LEMMA SentToldInit == ASSUME ChainInit PROVE SentTold
<1> DEFINE e == [i \in 0 .. History - 1 |-> <<>>]
<1>1. History \in Nat \ {0} /\ sent = <<>> /\ packetCounter = Ring(History, 0, 0, e)
  BY ChainAssumption DEF ChainInit, PacketCounter, Ring
<1>2. e \in [0 .. History - 1 -> {} \cup {<<>>}]
  OBVIOUS
<1> HIDE DEF e
<1>3. Holds(History, 0, 0, e, sent)
  BY <1>1 DEF Holds
<1>4. 0 \in 0 .. History - 1
  BY <1>1
<1>5. Tells(packetCounter, History, {}, sent)
  BY <1>1, <1>2, <1>3, <1>4 DEF Tells
<1>6. sent \in Seq({}) /\ Len(sent) <= History
  BY <1>1
<1> QED BY <1>5, <1>6 DEF SentTold

(* More elements may be allowed. *)
LEMMA TellsMore ==
  ASSUME NEW c, NEW N, NEW T, NEW U, NEW u, T \subseteq U, Tells(c, N, T, u)
  PROVE  Tells(c, N, U, u)
<1>1. PICK x \in 0 .. N - 1, v \in {0, 1}, e \in [0 .. N - 1 -> T \cup {<<>>}] :
        c = Ring(N, x, v, e) /\ Holds(N, x, v, e, u)
  BY DEF Tells
<1>2. e \in [0 .. N - 1 -> U \cup {<<>>}]
  OBVIOUS
<1> QED BY <1>1, <1>2 DEF Tells

LEMMA SentToldSent ==
  ASSUME Assembly, SentTold, SendFrame
  PROVE  SentTold'
<1> DEFINE n == frameSent + 1
           s == PacketsSent(n)
           headers == [j \in DOMAIN s |-> Header(s[j])]
<1>1. /\ acquiring
      /\ packetCounter' = addPackets(packetCounter, headers)
      /\ sent' = Latest(sent \o headers, History)
  BY DEF SendFrame
<1>2. PICK T : /\ sent \in Seq(T) /\ Len(sent) <= History
               /\ Tells(packetCounter, History, T, sent)
  BY DEF SentTold
<1> DEFINE V == UNION {{Packets(id, n)[j] : j \in 1 .. packets} : id \in DOMAIN subFrameMap}
           U == T \cup {headers[j] : j \in DOMAIN s}
<1>3. s \in Seq(V)
  <2>1. ASSUME NEW id \in DOMAIN subFrameMap
        PROVE  Packets(id, n) \in Seq(V)
    <3>1. packets \in Nat /\ packets = NumberOfPackets(PixelsOf(subFrameMap[id]), server.size)
      BY <1>1, PacketCount DEF Assembly
    <3> DEFINE q == Packets(id, n)
    <3>2. q = [j \in 1 .. packets |-> q[j]]
      BY <3>1 DEF Packets, sendImage
    <3> HIDE DEF q
    <3>3. \A j \in 1 .. packets : q[j] \in V
      BY DEF q
    <3> HIDE DEF V
    <3>4. q \in [1 .. packets -> V]
      BY <3>2, <3>3
    <3>5. q \in Seq(V)
      BY <3>1, <3>4
    <3> QED BY <3>5 DEF q
  <2> HIDE DEF V
  <2> QED BY <2>1, SentAll
<1> HIDE DEF V, s
<1>4. headers \in Seq(U)
  <2>1. DOMAIN s = 1 .. Len(s) /\ Len(s) \in Nat
    BY <1>3
  <2> DEFINE h(j) == Header(s[j])
  <2>2. headers = [j \in 1 .. Len(s) |-> h(j)]
    BY <2>1
  <2>3. \A j \in 1 .. Len(s) : h(j) \in U
    BY <2>1
  <2> HIDE DEF h, U
  <2>4. headers \in [1 .. Len(s) -> U]
    BY <2>2, <2>3
  <2> QED BY <2>1, <2>4
<1>5. T \subseteq U
  OBVIOUS
<1> HIDE DEF U, headers
<1>6. History \in Nat \ {0}
  BY ChainAssumption
<1>7. sent \in Seq(U) /\ sent \o headers \in Seq(U)
  BY <1>2, <1>4, <1>5
<1>8. Tells(packetCounter, History, U, sent)
  BY <1>2, <1>5, TellsMore
<1>9. Tells(packetCounter', History, U, sent \o headers)
  BY <1>1, <1>4, <1>6, <1>7, <1>8, AddsTell
<1>10. sent' \in Seq(U) /\ Tells(packetCounter', History, U, sent')
  BY <1>1, <1>6, <1>7, <1>9, LatestTold
<1>11. Len(sent') <= History
  <2> DEFINE u == sent \o headers
             L == Len(u)
  <2>1. u \in Seq(U) /\ L \in Nat
    BY <1>7
  <2> HIDE DEF u, L
  <2>2. CASE L <= History
    <3>1. L = Len(u)
      BY DEF L
    <3>2. sent' = u
      BY <1>1, <2>2, <3>1 DEF Latest, u
    <3> QED BY <2>2, <3>1, <3>2
  <2>3. CASE ~(L <= History)
    <3>1. sent' = SubSeq(u, L - History + 1, L)
      BY <1>1, <2>3 DEF Latest, u, L
    <3>2. L = Len(u)
      BY DEF L
    <3>3. Len(SubSeq(u, L - History + 1, L)) = History
      BY <1>6, <2>1, <2>3, <3>2
    <3>4. Len(sent') = History
      BY <3>1, <3>3, Zenon
    <3>5. History <= History
      BY <1>6
    <3> QED BY <3>4, <3>5, Zenon
  <2> QED BY <2>2, <2>3
<1> QED BY <1>10, <1>11 DEF SentTold

LEMMA SentToldStep ==
  ASSUME Assembly, SentTold, [ChainNext]_chainVars
  PROVE  SentTold'
<1>1. CASE SendFrame
  BY <1>1, SentToldSent
<1>2. CASE UNCHANGED <<packetCounter, sent>>
  BY <1>2 DEF SentTold
<1> QED BY <1>1, <1>2 DEF ChainNext, chainVars, sender, WriteSetting, RawFileWrite,
      PercConfigFileRead, RawFileRead, StartTemporal, StartSpatial, StopAcquisition,
      PacketReceived, FrameComplete, ProcessFrame, SetDescramble

(* The report lists the headers of the last packets, oldest first, also    *)
(* after the ring has come round.                                          *)
THEOREM ReportRight == ChainSpec => []ReportIsLast
<1>1. SentTold => ReportIsLast
  BY ChainAssumption, ReportTells DEF SentTold, ReportIsLast
<1>2. ChainInit => SentTold
  BY SentToldInit
<1>3. Assembly /\ SentTold /\ [ChainNext]_chainVars => SentTold'
  BY SentToldStep
<1> QED BY <1>1, <1>2, <1>3, AssemblyHolds, PTL DEF ChainSpec

=============================================================================
