------------------------ MODULE SubFrameBanks_proofs ------------------------
(***************************************************************************)
(* What the two pool operations guarantee, for any number of slots and any *)
(* set of marks the slots may hold.                                        *)
(***************************************************************************)
EXTENDS SubFrameBanks, SequenceTheorems, TLAPS

(* The pool is well formed: every free bank exists. *)
PoolOK(Marks) ==
  /\ Blank \in Marks
  /\ mem \in Seq([Slots -> Marks])
  /\ freeBuffers \in Seq(1 .. Len(mem))

LEMMA BlankBankIsTyped ==
  ASSUME NEW Marks, Blank \in Marks
  PROVE  BlankBank \in [Slots -> Marks]
BY DEF BlankBank

(* allocate() returns a bank that exists, keeps the contents of every      *)
(* other, and the free banks are some of those that were free.             *)
LEMMA AllocateKeepsPool ==
  ASSUME NEW Marks, PoolOK(Marks), NEW bank, Allocate(bank)
  PROVE  /\ PoolOK(Marks)'
         /\ Len(mem') \in Nat /\ Len(mem) \in Nat /\ Len(mem') >= Len(mem)
         /\ \A b \in 1 .. Len(mem) : mem'[b] = mem[b]
         /\ bank \in 1 .. Len(mem')
         /\ DOMAIN freeBuffers' \subseteq DOMAIN freeBuffers
         /\ \A i \in DOMAIN freeBuffers' : freeBuffers'[i] = freeBuffers[i]
<1>1. /\ BlankBank \in [Slots -> Marks]
      /\ Len(mem) \in Nat
      /\ Len(freeBuffers) \in Nat
      /\ DOMAIN freeBuffers = 1 .. Len(freeBuffers)
      /\ \A i \in 1 .. Len(freeBuffers) : freeBuffers[i] \in 1 .. Len(mem)
  BY BlankBankIsTyped, LenProperties, ElementOfSeq DEF PoolOK
<1>2. CASE /\ freeBuffers = <<>>
           /\ bank = Len(mem) + 1
           /\ mem' = Append(mem, BlankBank)
           /\ freeBuffers' = freeBuffers
  <2>1. /\ mem' \in Seq([Slots -> Marks])
        /\ Len(mem') = Len(mem) + 1
        /\ \A b \in 1 .. Len(mem) : mem'[b] = mem[b]
    BY <1>1, <1>2, AppendProperties DEF PoolOK
  <2>2. freeBuffers' \in Seq(1 .. Len(mem'))
    BY <1>2
  <2> QED
    BY <1>1, <1>2, <2>1, <2>2 DEF PoolOK
<1>3. CASE /\ freeBuffers # <<>>
           /\ bank = Last(freeBuffers)
           /\ freeBuffers' = Front(freeBuffers)
           /\ mem' = mem
  <2> DEFINE n == Len(freeBuffers)
  <2>1. n >= 1
    BY <1>1, <1>3, EmptySeq DEF PoolOK
  <2>2. /\ freeBuffers' \in Seq(1 .. Len(mem))
        /\ Len(freeBuffers') = n - 1
        /\ \A i \in 1 .. n - 1 : freeBuffers'[i] = freeBuffers[i]
    <3>1. \A i \in 1 .. n - 1 : freeBuffers[i] \in 1 .. Len(mem)
      BY <1>1
    <3>2. n - 1 \in Int /\ (n - 1) - 1 + 1 = n - 1
      BY <1>1
    <3>3. /\ SubSeq(freeBuffers, 1, n - 1) \in Seq(1 .. Len(mem))
          /\ Len(SubSeq(freeBuffers, 1, n - 1)) = IF 1 <= n - 1 THEN n - 1 - 1 + 1 ELSE 0
          /\ \A i \in 1 .. n - 1 - 1 + 1 : SubSeq(freeBuffers, 1, n - 1)[i] = freeBuffers[1 + i - 1]
      BY <3>1, <3>2, SubSeqProperties
    <3>4. \A i \in 1 .. n - 1 : freeBuffers[1 + i - 1] = freeBuffers[i]
      <4>1. \A i \in 1 .. n - 1 : 1 + i - 1 = i
        BY <1>1
      <4> QED
        BY <4>1
    <3> QED
      BY <1>1, <1>3, <2>1, <3>2, <3>3, <3>4 DEF Front
  <2>3. DOMAIN freeBuffers' = 1 .. n - 1
    BY <2>2, LenProperties
  <2>4. bank \in 1 .. Len(mem)
    BY <1>1, <1>3, <2>1 DEF Last
  <2> QED
    BY <1>1, <1>3, <2>1, <2>2, <2>3, <2>4 DEF PoolOK
<1> QED
  BY <1>2, <1>3 DEF Allocate

(* The bank allocate() returns is new and blank or was free, and is not    *)
(* free afterwards if no bank was on the stack twice.                      *)
LEMMA AllocateTakesFree ==
  ASSUME NEW Marks, PoolOK(Marks), NEW bank, Allocate(bank), FreeOnce
  PROVE  /\ FreeOnce' /\ ~ IsFree(bank)'
         /\ \A b : IsFree(b)' => IsFree(b)
         /\ \/ bank = Len(mem) + 1 /\ mem'[bank] = BlankBank
            \/ IsFree(bank)
<1>1. /\ DOMAIN freeBuffers' \subseteq DOMAIN freeBuffers
      /\ \A i \in DOMAIN freeBuffers' : freeBuffers'[i] = freeBuffers[i]
  BY AllocateKeepsPool
<1>2. FreeOnce' /\ \A b : IsFree(b)' => IsFree(b)
  BY <1>1 DEF FreeOnce, IsFree
<1>3. /\ BlankBank \in [Slots -> Marks]
      /\ Len(mem) \in Nat
      /\ Len(freeBuffers) \in Nat
      /\ DOMAIN freeBuffers = 1 .. Len(freeBuffers)
      /\ \A i \in 1 .. Len(freeBuffers) : freeBuffers[i] \in 1 .. Len(mem)
  BY BlankBankIsTyped, LenProperties, ElementOfSeq DEF PoolOK
<1>4. CASE /\ freeBuffers = <<>>
           /\ bank = Len(mem) + 1
           /\ mem' = Append(mem, BlankBank)
           /\ freeBuffers' = freeBuffers
  <2>1. mem'[bank] = BlankBank
    BY <1>3, <1>4, AppendProperties DEF PoolOK
  <2>2. ~ IsFree(bank)
    BY <1>3, <1>4, EmptySeq DEF IsFree
  <2> QED
    BY <1>2, <1>4, <2>1, <2>2
<1>5. CASE /\ freeBuffers # <<>>
           /\ bank = Last(freeBuffers)
           /\ freeBuffers' = Front(freeBuffers)
           /\ mem' = mem
  <2> DEFINE n == Len(freeBuffers)
  <2>1. n >= 1 /\ n \in DOMAIN freeBuffers
    BY <1>3, <1>5, EmptySeq DEF PoolOK
  <2>2. DOMAIN freeBuffers' = 1 .. n - 1
    <3>1. /\ n - 1 \in Int /\ 1 \in Int
          /\ \A i \in 1 .. n - 1 : freeBuffers[i] \in 1 .. Len(mem)
      BY <1>3
    <3>2. Len(SubSeq(freeBuffers, 1, n - 1)) = IF 1 <= n - 1 THEN n - 1 - 1 + 1 ELSE 0
      BY <3>1, SubSeqProperties
    <3>3. SubSeq(freeBuffers, 1, n - 1) \in Seq(1 .. Len(mem))
      BY <3>1, SubSeqProperties
    <3> QED
      BY <1>3, <1>5, <2>1, <3>2, <3>3, LenProperties DEF Front
  <2>3. bank = freeBuffers[n]
    BY <1>5 DEF Last
  <2>4. \A i \in 1 .. n - 1 : freeBuffers'[i] # bank
    <3>1. \A i \in 1 .. n - 1 : i \in DOMAIN freeBuffers /\ i # n
      <4>1. n \in Nat /\ DOMAIN freeBuffers = 1 .. n
        BY <1>3
      <4> HIDE DEF n
      <4>2. \A i \in 1 .. n - 1 : i \in 1 .. n /\ i # n
        BY <4>1
      <4> QED
        BY <4>1, <4>2
    <3> QED
      BY <1>1, <2>1, <2>2, <2>3, <3>1 DEF FreeOnce
  <2> QED
    BY <1>2, <2>1, <2>2, <2>3, <2>4 DEF IsFree
<1> QED
  BY <1>4, <1>5 DEF Allocate

(* free() blanks the bank, leaves every other alone and adds it to the     *)
(* free ones; no bank is free twice unless this one was free already.      *)
LEMMA ReleaseAddsFree ==
  ASSUME NEW Marks, PoolOK(Marks), NEW bank \in 1 .. Len(mem), Release(bank)
  PROVE  /\ PoolOK(Marks)'
         /\ Len(mem') = Len(mem) /\ Len(mem) \in Nat
         /\ mem'[bank] = BlankBank
         /\ \A b \in 1 .. Len(mem) : b # bank => mem'[b] = mem[b]
         /\ \A b : IsFree(b)' <=> IsFree(b) \/ b = bank
         /\ FreeOnce /\ ~ IsFree(bank) => FreeOnce'
<1>1. /\ BlankBank \in [Slots -> Marks]
      /\ Len(mem) \in Nat /\ DOMAIN mem = 1 .. Len(mem)
      /\ Len(freeBuffers) \in Nat
      /\ DOMAIN freeBuffers = 1 .. Len(freeBuffers)
  BY BlankBankIsTyped, LenProperties DEF PoolOK
<1>2. /\ mem' = [mem EXCEPT ![bank] = BlankBank]
      /\ freeBuffers' = Append(freeBuffers, bank)
  BY DEF Release
<1>3. /\ mem' \in Seq([Slots -> Marks])
      /\ Len(mem') = Len(mem)
      /\ mem'[bank] = BlankBank
      /\ \A b \in 1 .. Len(mem) : b # bank => mem'[b] = mem[b]
  BY <1>1, <1>2, ExceptSeq DEF PoolOK
<1>4. /\ freeBuffers' \in Seq(1 .. Len(mem))
      /\ Len(freeBuffers') = Len(freeBuffers) + 1
      /\ \A i \in 1 .. Len(freeBuffers) : freeBuffers'[i] = freeBuffers[i]
      /\ freeBuffers'[Len(freeBuffers) + 1] = bank
  BY <1>2, AppendProperties DEF PoolOK
<1>5. DOMAIN freeBuffers' = 1 .. Len(freeBuffers) + 1
  BY <1>4, LenProperties
<1>6. DOMAIN freeBuffers' = DOMAIN freeBuffers \cup {Len(freeBuffers) + 1}
  BY <1>1, <1>5
<1>7. \A b : IsFree(b)' <=> IsFree(b) \/ b = bank
  BY <1>1, <1>4, <1>6 DEF IsFree
<1>8. ASSUME FreeOnce, ~ IsFree(bank) PROVE FreeOnce'
  <2> SUFFICES ASSUME NEW i \in DOMAIN freeBuffers', NEW j \in DOMAIN freeBuffers', i # j
               PROVE  freeBuffers'[i] # freeBuffers'[j]
    BY DEF FreeOnce
  <2>1. CASE i \in DOMAIN freeBuffers /\ j \in DOMAIN freeBuffers
    BY <1>1, <1>4, <1>8, <2>1 DEF FreeOnce
  <2>2. CASE i = Len(freeBuffers) + 1 /\ j \in DOMAIN freeBuffers
    BY <1>1, <1>4, <1>8, <2>2 DEF IsFree
  <2>3. CASE j = Len(freeBuffers) + 1 /\ i \in DOMAIN freeBuffers
    BY <1>1, <1>4, <1>8, <2>3 DEF IsFree
  <2> QED
    BY <1>6, <2>1, <2>2, <2>3
<1> QED
  BY <1>1, <1>3, <1>4, <1>7, <1>8 DEF PoolOK

=============================================================================
