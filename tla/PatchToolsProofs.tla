-------------------------- MODULE PatchToolsProofs --------------------------
(***************************************************************************)
(* Proofs about xenoups, xenoppf and xenowips as PatchTools runs them,     *)
(* with patches of their own making and, for the last two, of other        *)
(* makers, for every pair of files and any number of runs; and about the   *)
(* driver that the tools share.                                            *)
(***************************************************************************)
EXTENDS PatchTools, SequenceTheorems, WellFoundedInduction, TLAPS

(* A set of numbers has a least one: what inductions below start from.     *)
LEMMA Least == ASSUME NEW T \in SUBSET Nat, T # {} PROVE \E x \in T : \A y \in T : x <= y
<1>1. \E x \in T : \A y \in T : ~ (<<y, x>> \in OpToRel(<, Nat))
  BY WFMin, NatLessThanWellFounded
<1>2. \E x \in T : \A y \in T : ~ (y < x)
  BY <1>1, Zenon DEF OpToRel
<1> QED
  BY <1>2

-----------------------------------------------------------------------------
(***************************************************************************)
(* How many bytes a number takes is a number: the recursion of NumberBytes *)
(* has one solution, which is pieced together from those up to each m.     *)
(***************************************************************************)
Base == U!Number!Base

Rest(m) == m \div Base - 1

LEMMA BaseType == Base \in Nat /\ Base > 1
BY UpsAssumption DEF U!Number!WidthAssumption, Base

BytesBy(g, m) == IF m < Base THEN 1 ELSE 1 + g[Rest(m)]

Upto(n) == {g \in [0 .. n -> Nat] : \A m \in 0 .. n : g[m] = BytesBy(g, m)}

LEMMA RestSmaller == ASSUME NEW m \in Nat, m >= Base PROVE Rest(m) \in 0 .. m - 1
<1>1. m \div Base \in Nat /\ m \div Base <= m /\ m \div Base >= 1
  BY BaseType
<1> QED
  BY <1>1 DEF Rest

LEMMA UptoExists == \A n \in Nat : Upto(n) # {}
<1> DEFINE T == {n \in Nat : Upto(n) = {}}
<1> SUFFICES ASSUME T # {} PROVE FALSE
  OBVIOUS
<1>1. PICK n \in T : \A y \in T : n <= y
  BY Least
<1>2. CASE n < Base
  <2>1. [m \in 0 .. n |-> 1] \in Upto(n)
    BY <1>1, <1>2, BaseType DEF Upto, BytesBy
  <2> QED
    BY <2>1, <1>1
<1>3. CASE n >= Base
  <2>1. n - 1 \in Nat /\ n - 1 \notin T
    BY <1>1, <1>3, BaseType
  <2>2. PICK g \in [0 .. n - 1 -> Nat] : \A m \in 0 .. n - 1 : g[m] = BytesBy(g, m)
    BY <2>1 DEF Upto
  <2> DEFINE h == [m \in 0 .. n |-> IF m = n THEN BytesBy(g, n) ELSE g[m]]
  <2>3. h \in [0 .. n -> Nat]
    BY <1>1, <1>3, <2>2, RestSmaller DEF BytesBy
  <2>4. ASSUME NEW m \in 0 .. n PROVE h[m] = BytesBy(h, m)
    <3>1. m >= Base => Rest(m) \in 0 .. m - 1
      BY RestSmaller, <1>1
    <3>2. m >= Base => h[Rest(m)] = g[Rest(m)]
      BY <3>1, <1>1
    <3>3. h[m] = BytesBy(g, m)
      BY <2>2, <2>4, <1>1
    <3> QED
      BY <3>2, <3>3, BaseType, <1>1 DEF BytesBy
  <2>5. h \in Upto(n)
    BY <2>3, <2>4 DEF Upto
  <2> QED
    BY <2>5, <1>1
<1> QED
  BY <1>2, <1>3, <1>1, BaseType

LEMMA UptoAgrees ==
  ASSUME NEW a \in Nat, NEW b \in Nat, NEW g \in Upto(a), NEW h \in Upto(b)
  PROVE  \A m \in 0 .. a : m <= b => g[m] = h[m]
<1> DEFINE T == {m \in 0 .. a : m <= b /\ g[m] # h[m]}
<1> SUFFICES ASSUME T # {} PROVE FALSE
  OBVIOUS
<1>1. T \in SUBSET Nat
  OBVIOUS
<1>2. PICK m \in T : \A y \in T : m <= y
  BY Least, <1>1
<1>3. m >= Base => g[Rest(m)] = h[Rest(m)]
  BY <1>2, RestSmaller
<1>4. m \in 0 .. a /\ m \in 0 .. b /\ g[m] # h[m]
  OBVIOUS
<1>5. g[m] = BytesBy(g, m) /\ h[m] = BytesBy(h, m)
  BY <1>4 DEF Upto
<1>6. BytesBy(g, m) = BytesBy(h, m)
  BY <1>3, <1>4, BaseType DEF BytesBy
<1> QED
  BY <1>4, <1>5, <1>6

LEMMA BytesExist ==
  \E f \in [Nat -> Nat] : f = [m \in Nat |-> IF m < Base THEN 1 ELSE 1 + f[Rest(m)]]
<1> DEFINE f == [m \in Nat |-> (CHOOSE g \in Upto(m) : TRUE)[m]]
<1>1. ASSUME NEW n \in Nat, NEW g \in Upto(n), NEW m \in 0 .. n PROVE f[m] = g[m]
  <2>1. PICK h \in Upto(m) : h = CHOOSE k \in Upto(m) : TRUE
    BY UptoExists
  <2>2. m \in Nat /\ m \in 0 .. m
    OBVIOUS
  <2>3. h[m] = g[m]
    BY <2>2, UptoAgrees
  <2> QED
    BY <2>1, <2>2, <2>3
<1>2. f = [m \in Nat |-> f[m]]
  OBVIOUS
<1> HIDE DEF f
<1>3. ASSUME NEW m \in Nat PROVE f[m] \in Nat /\ f[m] = BytesBy(f, m)
  <2>1. PICK g \in Upto(m) : TRUE
    BY UptoExists
  <2>2. g \in [0 .. m -> Nat] /\ g[m] = BytesBy(g, m)
    BY DEF Upto
  <2>3. f[m] = g[m]
    BY <1>1
  <2>4. m >= Base => f[Rest(m)] = g[Rest(m)]
    BY <1>1, RestSmaller
  <2> QED
    BY <2>2, <2>3, <2>4, BaseType DEF BytesBy
<1>4. f \in [Nat -> Nat]
  BY <1>2, <1>3
<1>5. f = [m \in Nat |-> IF m < Base THEN 1 ELSE 1 + f[Rest(m)]]
  BY <1>2, <1>3 DEF BytesBy
<1> QED
  BY <1>4, <1>5

LEMMA NumberBytesType == \A n \in Nat : U!Number!NumberBytes(n) \in Nat
<1> DEFINE bytes == CHOOSE f : f = [m \in Nat |-> IF m < Base THEN 1 ELSE 1 + f[Rest(m)]]
<1>1. bytes = [m \in Nat |-> IF m < Base THEN 1 ELSE 1 + bytes[Rest(m)]]
  BY BytesExist
<1>2. \A n \in Nat : U!Number!NumberBytes(n) = bytes[n]
  BY DEF U!Number!NumberBytes, U!Number!Rest, Base, Rest
<1> HIDE DEF bytes
<1>3. \A n \in Nat : bytes[n] \in Nat
  <2> DEFINE T == {n \in Nat : bytes[n] \notin Nat}
  <2> SUFFICES ASSUME T # {} PROVE FALSE
    OBVIOUS
  <2>1. PICK m \in T : \A y \in T : m <= y
    BY Least
  <2> QED
    BY <2>1, RestSmaller, <1>1, BaseType
<1> QED
  BY <1>2, <1>3

-----------------------------------------------------------------------------
(***************************************************************************)
(* The inductive invariant of xenoups.  The records lie one behind the     *)
(* other, from 0 on, at[k] being where the patcher is when it comes to     *)
(* record k: what a record skips is equal in the two files, as is the byte *)
(* behind its data, and its data is the xor of the bytes where it goes.    *)
(***************************************************************************)
UpsRecord == [at : Nat, relative : Nat, data : Seq(U!Byte \ {U!Zero})]

RecordIs(r, start) ==
  LET first == start + r.relative
      final == first + Len(r.data)
  IN /\ final <= U!readsize
     /\ \A x \in start .. first - 1 : U!PaddedOld[x] = U!PaddedNew[x]
     /\ \A k \in 1 .. Len(r.data) :
          r.data[k] = U!Xor(U!PaddedOld[first + k - 1], U!PaddedNew[first + k - 1])
     /\ final < U!readsize => U!PaddedOld[final] = U!PaddedNew[final]

Layout(at) ==
  /\ at \in [1 .. Len(ups) + 1 -> Nat]
  /\ at[1] = 0 /\ at[Len(ups) + 1] = i
  /\ \A k \in 1 .. Len(ups) :
       RecordIs(ups[k], at[k]) /\ at[k + 1] = at[k] + U!Skipped(ups[k])

(* The file a run starts from, and the one it is to make of it.            *)
FileFrom == IF forward THEN old ELSE new
FileTo   == IF forward THEN new ELSE old
From     == IF forward THEN U!PaddedOld ELSE U!PaddedNew
To       == IF forward THEN U!PaddedNew ELSE U!PaddedOld

UpsMakerInv ==
  /\ ups \in Seq(UpsRecord) /\ oldoff = i
  /\ mpc = "scan" => ppc = "idle"
  /\ mpc = "made" => U!NoRegion(U!PaddedOld, U!PaddedNew, U!readsize, i)

(* Up to where the patcher is, the memory is the new file, then the old.   *)
UpsRunInv ==
  /\ ppc \in {"dry", "extend"} => ptr = 0
  /\ ppc \in {"dry", "extend", "apply"} => before = <<disk, sizdisk>>
  /\ ppc \in {"extend", "apply", "cut"} => before = <<FileFrom, U!SizeFrom>>
  /\ ppc = "apply" =>
       image = [x \in U!Positions(U!readsize) |-> IF x < ptr THEN To[x] ELSE From[x]]
  /\ ppc = "cut" =>
       sizdisk = U!readsize /\ \A x \in U!Positions(U!SizeTo) : disk[x] = FileTo[x]

UpsInv ==
  /\ U!TypeOK /\ UpsMakerInv /\ UpsRunInv /\ U!Toggles
  /\ ppc = "idle" => record = 1
  /\ \E at : Layout(at) /\ (ppc = "apply" => ptr = at[record])

-----------------------------------------------------------------------------
LEMMA UpsInitInv == U!Init => UpsInv
<1> SUFFICES ASSUME U!Init PROVE UpsInv
  OBVIOUS
<1>1. sizold \in Nat /\ siznew \in Nat /\ sizdisk \in Nat
  <2>1. UpsSizes \subseteq Nat
    BY UpsAssumption DEF U!SizesAssumption
  <2> QED
    BY <2>1 DEF U!Init
<1>2. bodyend \in Nat
  <2>1. bodyend = 4 + U!Number!NumberBytes(sizold) + U!Number!NumberBytes(siznew)
    BY DEF U!Init
  <2> QED
    BY <1>1, <2>1, NumberBytesType
<1>3. U!TypeOK
  BY <1>1, <1>2 DEF U!Init, U!TypeOK
<1>4. UpsMakerInv
  BY DEF U!Init, UpsMakerInv
<1>5. UpsRunInv /\ U!Toggles
  BY DEF U!Init, UpsRunInv, U!Toggles
<1>6. Layout([k \in 1 .. 1 |-> 0])
  BY DEF U!Init, Layout
<1> QED
  BY <1>3, <1>4, <1>5, <1>6 DEF UpsInv, U!Init

(* The files in memory, which a record is compared with.                   *)
LEMMA PaddedTypes ==
  ASSUME U!TypeOK
  PROVE  /\ U!readsize \in Nat /\ sizold <= U!readsize /\ siznew <= U!readsize
         /\ U!readsize \in {sizold, siznew}
         /\ U!PaddedOld \in [0 .. U!readsize - 1 -> U!Byte]
         /\ U!PaddedNew \in [0 .. U!readsize - 1 -> U!Byte]
<1>1. sizold \in Nat /\ siznew \in Nat
  BY DEF U!TypeOK
<1>2. /\ U!readsize \in Nat /\ sizold <= U!readsize /\ siznew <= U!readsize
      /\ U!readsize \in {sizold, siznew}
  BY <1>1 DEF U!readsize, U!greatest
<1>3. old \in [0 .. sizold - 1 -> U!Byte] /\ new \in [0 .. siznew - 1 -> U!Byte]
  BY DEF U!TypeOK, U!File, U!Positions
<1>4. U!Zero \in U!Byte
  BY DEF U!Zero, U!Byte
<1>5. U!PaddedOld \in [0 .. U!readsize - 1 -> U!Byte]
  BY <1>1, <1>2, <1>3, <1>4 DEF U!PaddedOld, U!Padded, U!Positions
<1>6. U!PaddedNew \in [0 .. U!readsize - 1 -> U!Byte]
  BY <1>1, <1>2, <1>3, <1>4 DEF U!PaddedNew, U!Padded, U!Positions
<1> QED
  BY <1>2, <1>5, <1>6

(* One region of upsmake: all its bytes differ, and the next one does not. *)
LEMMA OneRegion ==
  ASSUME U!TypeOK, NEW address \in 0 .. U!readsize, NEW final \in 0 .. U!readsize,
         U!IsRegion(U!PaddedOld, U!PaddedNew, U!readsize, U!Gap, i, address, final)
  PROVE  /\ i <= address /\ address < final
         /\ \A x \in i .. address - 1 : U!PaddedOld[x] = U!PaddedNew[x]
         /\ \A x \in address .. final - 1 : U!PaddedOld[x] # U!PaddedNew[x]
         /\ final < U!readsize => U!PaddedOld[final] = U!PaddedNew[final]
<1>1. U!readsize \in Nat /\ i \in Nat
  BY PaddedTypes DEF U!TypeOK
<1>2. ASSUME NEW x \in 0 .. U!readsize - 1
      PROVE  U!WindowDiffers(U!PaddedOld, U!PaddedNew, U!readsize, U!Gap, x)
               <=> U!PaddedOld[x] # U!PaddedNew[x]
  <2>1. U!least(U!Gap, U!readsize - x) = 1
    BY <1>1 DEF U!least, U!Gap
  <2>2. x .. x + 1 - 1 = {x}
    BY <1>1
  <2> QED
    BY <2>1, <2>2 DEF U!WindowDiffers
<1> QED
  BY <1>1, <1>2 DEF U!IsRegion

LEMMA XorFacts ==
  ASSUME NEW a \in U!Byte, NEW b \in U!Byte
  PROVE  /\ U!Xor(a, b) \in U!Byte /\ (a # b => U!Xor(a, b) # U!Zero)
         /\ U!Xor(a, U!Xor(a, b)) = b /\ U!Xor(b, U!Xor(a, b)) = a
BY DEF U!Xor, U!Byte, U!Zero

LEMMA PaddedSame ==
  ASSUME UNCHANGED <<old, sizold, new, siznew>>
  PROVE  UNCHANGED <<U!readsize, U!PaddedOld, U!PaddedNew>>
BY DEF U!readsize, U!PaddedOld, U!PaddedNew, U!Padded

LEMMA LayoutSame ==
  ASSUME UNCHANGED <<old, sizold, new, siznew, i, ups>>, NEW at, Layout(at)
  PROVE  Layout(at)'
BY PaddedSame DEF Layout, RecordIs

-----------------------------------------------------------------------------
LEMMA UpsWriteRegion == ASSUME UpsInv, U!WriteRegion PROVE UpsInv'
<1>1. U!TypeOK /\ UpsMakerInv /\ mpc = "scan" /\ ppc = "idle" /\ record = 1
  BY DEF UpsInv, UpsMakerInv, U!WriteRegion
<1>2. /\ UNCHANGED <<old, sizold, new, siznew, mpc, intact, disk, sizdisk, ppc,
                     record, ptr, image, forward, ret, runs, before>>
      /\ UNCHANGED <<U!readsize, U!PaddedOld, U!PaddedNew>>
  BY PaddedSame DEF U!WriteRegion, U!diskvars, U!runvars
<1>3. PICK address, final, r :
        /\ address \in 0 .. U!readsize /\ final \in 0 .. U!readsize
        /\ U!IsRegion(U!PaddedOld, U!PaddedNew, U!readsize, U!Gap, i, address, final)
        /\ r = [at |-> bodyend, relative |-> address - oldoff,
                data |-> [k \in 1 .. final - address |->
                            U!Xor(U!PaddedOld[address + k - 1],
                                  U!PaddedNew[address + k - 1])]]
        /\ ups' = Append(ups, r) /\ bodyend' = bodyend + U!RecordBytes(r)
        /\ oldoff' = final + 1 /\ i' = final + 1
  BY DEF U!WriteRegion
<1>4. /\ address \in Nat /\ final \in Nat /\ final <= U!readsize
      /\ i \in Nat /\ oldoff = i /\ bodyend \in Nat /\ U!readsize \in Nat
  <2>1. i \in Nat /\ oldoff = i /\ bodyend \in Nat /\ U!readsize \in Nat
    BY <1>1, PaddedTypes DEF U!TypeOK, UpsMakerInv
  <2>2. address \in 0 .. U!readsize /\ final \in 0 .. U!readsize
    BY <1>3
  <2> QED
    BY <2>1, <2>2
<1>5. /\ i <= address /\ address < final
      /\ \A x \in i .. address - 1 : U!PaddedOld[x] = U!PaddedNew[x]
      /\ \A x \in address .. final - 1 : U!PaddedOld[x] # U!PaddedNew[x]
      /\ final < U!readsize => U!PaddedOld[final] = U!PaddedNew[final]
  BY <1>1, <1>3, OneRegion
<1>6. /\ r.relative = address - i /\ r.relative \in Nat
      /\ r.data \in Seq(U!Byte \ {U!Zero}) /\ Len(r.data) = final - address
      /\ r \in UpsRecord
      /\ \A k \in 1 .. Len(r.data) :
           r.data[k] = U!Xor(U!PaddedOld[address + k - 1], U!PaddedNew[address + k - 1])
  <2>1. final - address \in Nat
    BY <1>4, <1>5
  <2>2. ASSUME NEW k \in 1 .. final - address
        PROVE  U!Xor(U!PaddedOld[address + k - 1], U!PaddedNew[address + k - 1])
                 \in U!Byte \ {U!Zero}
    <3>1. /\ address + k - 1 \in address .. final - 1
          /\ address + k - 1 \in 0 .. U!readsize - 1
      BY <1>4, <1>5
    <3>2. /\ U!PaddedOld[address + k - 1] \in U!Byte
          /\ U!PaddedNew[address + k - 1] \in U!Byte
      BY <1>1, <3>1, PaddedTypes
    <3> QED
      BY <1>5, <3>1, <3>2, XorFacts
  <2>3. r.data = [k \in 1 .. final - address |->
                    U!Xor(U!PaddedOld[address + k - 1], U!PaddedNew[address + k - 1])]
    BY <1>3
  <2>4. r.data \in Seq(U!Byte \ {U!Zero}) /\ Len(r.data) = final - address
    BY <2>1, <2>2, <2>3
  <2>5. r.relative = address - i /\ r.at = bodyend
    BY <1>3, <1>4
  <2>6. r \in UpsRecord
    BY <1>3, <1>4, <1>5, <2>4, <2>5 DEF UpsRecord
  <2> QED
    BY <1>4, <1>5, <2>3, <2>4, <2>5, <2>6
<1>7. /\ ups' \in Seq(UpsRecord) /\ Len(ups') = Len(ups) + 1 /\ Len(ups) \in Nat
      /\ \A k \in 1 .. Len(ups) : ups'[k] = ups[k]
      /\ ups'[Len(ups) + 1] = r
  BY <1>1, <1>3, <1>6 DEF UpsMakerInv
<1>8. \E at : Layout(at)'
  <2>1. PICK at : Layout(at)
    BY DEF UpsInv
  <2>2. PICK at2 : at2 = [k \in 1 .. Len(ups) + 2 |->
                            IF k = Len(ups) + 2 THEN final + 1 ELSE at[k]]
    OBVIOUS
  <2>3. at2 \in [1 .. Len(ups') + 1 -> Nat] /\ at2[1] = 0 /\ at2[Len(ups') + 1] = i'
    BY <1>3, <1>4, <1>7, <2>1, <2>2 DEF Layout
  <2>4. ASSUME NEW k \in 1 .. Len(ups')
        PROVE  RecordIs(ups[k], at2[k])' /\ at2[k + 1] = at2[k] + U!Skipped(ups'[k])
    <3>1. CASE k \in 1 .. Len(ups)
      <4>1. ups'[k] = ups[k] /\ at2[k] = at[k] /\ at2[k + 1] = at[k + 1]
        BY <1>7, <2>2, <3>1
      <4>2. RecordIs(ups[k], at[k]) /\ at[k + 1] = at[k] + U!Skipped(ups[k])
        BY <2>1, <3>1 DEF Layout
      <4>3. RecordIs(ups[k], at2[k])'
        BY <1>2, <4>1, <4>2 DEF RecordIs
      <4> QED
        BY <4>1, <4>2, <4>3
    <3>2. CASE k = Len(ups) + 1
      <4>1. ups'[k] = r /\ at2[k] = i /\ at2[k + 1] = final + 1
        BY <1>7, <2>1, <2>2, <3>2 DEF Layout
      <4>2. RecordIs(r, i)
        <5>1. i + r.relative = address /\ address + Len(r.data) = final
          <6>1. r.relative = address - i /\ Len(r.data) = final - address
            BY <1>6
          <6> QED
            BY <1>4, <6>1
        <5> DEFINE first == i + r.relative
        <5>2. first + Len(r.data) = final
          BY <5>1
        <5>3. /\ \A x \in i .. first - 1 : U!PaddedOld[x] = U!PaddedNew[x]
              /\ \A j \in 1 .. Len(r.data) :
                   r.data[j] = U!Xor(U!PaddedOld[first + j - 1],
                                     U!PaddedNew[first + j - 1])
          BY <1>5, <1>6, <5>1
        <5>4. /\ first + Len(r.data) <= U!readsize
              /\ first + Len(r.data) < U!readsize =>
                   U!PaddedOld[first + Len(r.data)] = U!PaddedNew[first + Len(r.data)]
          BY <1>4, <1>5, <5>2
        <5> QED
          BY <5>3, <5>4, Zenon DEF RecordIs
      <4>3. final + 1 = i + U!Skipped(r)
        BY <1>4, <1>6 DEF U!Skipped
      <4>4. RecordIs(ups[k], at2[k])'
        BY <1>2, <4>1, <4>2 DEF RecordIs
      <4> QED
        BY <4>1, <4>3, <4>4
    <3> QED
      BY <1>7, <2>4, <3>1, <3>2
  <2>5. Layout(at2)'
    BY <2>3, <2>4 DEF Layout
  <2> QED
    BY <2>5
<1>9. U!TypeOK'
  <2>1. U!RecordBytes(r) \in Nat
    <3>1. U!Number!NumberBytes(r.relative) \in Nat
      BY <1>6, NumberBytesType
    <3>2. Len(r.data) \in Nat
      BY <1>4, <1>5, <1>6
    <3> QED
      BY <3>1, <3>2 DEF U!RecordBytes
  <2>2. \A k \in 1 .. Len(ups') :
          ups'[k].relative \in Nat /\ ups'[k].data \in Seq(U!Byte \ {U!Zero})
    <3> SUFFICES ASSUME NEW k \in 1 .. Len(ups')
                 PROVE  ups'[k] \in UpsRecord
      BY DEF UpsRecord
    <3> QED
      BY <1>7
  <2>3. i' \in Nat /\ oldoff' \in Nat /\ bodyend' \in Nat /\ record' \in 1 .. Len(ups') + 1
    BY <1>1, <1>2, <1>3, <1>4, <1>7, <2>1
  <2> QED
    BY <1>1, <1>2, <2>2, <2>3 DEF U!TypeOK, U!File, U!Positions
<1>10. UpsMakerInv' /\ UpsRunInv' /\ U!Toggles'
  BY <1>1, <1>2, <1>3, <1>7 DEF UpsMakerInv, UpsRunInv, U!Toggles
<1> QED
  BY <1>1, <1>2, <1>8, <1>9, <1>10 DEF UpsInv

(* What an action that leaves the patch and its files alone has to keep.   *)
LEMMA UpsPatcherStep ==
  ASSUME UpsInv, UNCHANGED U!makervars, U!TypeOK', UpsRunInv', U!Toggles',
         ppc' # "idle" /\ mpc = "made",
         ppc' = "apply" => \/ record' = 1 /\ ptr' = 0
                           \/ ppc = "apply" /\ record \in 1 .. Len(ups)
                              /\ record' = record + 1
                              /\ ptr' = ptr + U!Skipped(ups[record])
  PROVE  UpsInv'
<1>1. UNCHANGED <<old, sizold, new, siznew, mpc, i, oldoff, ups>>
  BY DEF U!makervars
<1>2. UpsMakerInv'
  BY <1>1, PaddedSame DEF UpsInv, UpsMakerInv, U!NoRegion
<1>3. PICK at : Layout(at) /\ (ppc = "apply" => ptr = at[record])
  BY DEF UpsInv
<1>4. Layout(at)'
  BY <1>1, <1>3, LayoutSame
<1>5. ppc' = "apply" => ptr' = at[record']
  BY <1>3 DEF Layout
<1>6. \E a : (Layout(a) /\ (ppc = "apply" => ptr = a[record]))'
  BY <1>4, <1>5
<1> QED
  BY <1>2, <1>6 DEF UpsInv

LEMMA UpsTypeStep ==
  ASSUME UpsInv, UNCHANGED <<U!makervars, intact>>,
         disk' \in [0 .. sizdisk' - 1 -> U!Byte], sizdisk' \in Nat,
         ptr' \in Nat, runs' \in Nat, forward' \in BOOLEAN,
         ppc' \in {"idle", "dry", "extend", "apply", "cut", "returned"},
         record' = 1 \/ record' \in 1 .. Len(ups) + 1, ret' \in {0, 1, 2, 4}
  PROVE  U!TypeOK'
<1>1. Len(ups) \in Nat /\ U!TypeOK
  BY DEF UpsInv, UpsMakerInv
<1>2. record' \in 1 .. Len(ups) + 1
  BY <1>1
<1>3. UNCHANGED <<old, sizold, new, siznew, mpc, i, oldoff, ups, bodyend, intact>>
  BY DEF U!makervars
<1>4. /\ (old \in U!File(sizold))' /\ (new \in U!File(siznew))'
      /\ (disk \in U!File(sizdisk))'
  BY <1>1, <1>3 DEF U!TypeOK, U!File, U!Positions
<1>5. ({sizold, siznew, sizdisk, i, oldoff, bodyend, ptr, runs} \subseteq Nat)'
  BY <1>1, <1>3 DEF U!TypeOK
<1>6. \A k \in 1 .. Len(ups') :
        ups'[k].relative \in Nat /\ ups'[k].data \in Seq(U!Byte \ {U!Zero})
  BY <1>1, <1>3 DEF U!TypeOK
<1>7. (mpc \in {"scan", "made"} /\ intact \in BOOLEAN)'
  BY <1>1, <1>3 DEF U!TypeOK
<1> QED
  BY <1>2, <1>3, <1>4, <1>5, <1>6, <1>7 DEF U!TypeOK

LEMMA UpsTypes ==
  ASSUME UpsInv
  PROVE  /\ disk \in [0 .. sizdisk - 1 -> U!Byte] /\ sizdisk \in Nat
         /\ ptr \in Nat /\ runs \in Nat /\ forward \in BOOLEAN
         /\ ret \in {0, 1, 2, 4} /\ record \in 1 .. Len(ups) + 1 /\ Len(ups) \in Nat
         /\ mpc \in {"scan", "made"}
BY DEF UpsInv, UpsMakerInv, U!TypeOK, U!File, U!Positions

LEMMA UpsWriteCrcs == ASSUME UpsInv, U!WriteCrcs PROVE UpsInv'
<1>1. /\ UNCHANGED <<old, sizold, new, siznew, i, oldoff, ups, bodyend, intact, disk,
                     sizdisk, ppc, record, ptr, image, forward, ret, runs, before>>
      /\ mpc = "scan" /\ mpc' = "made" /\ ppc = "idle"
      /\ U!NoRegion(U!PaddedOld, U!PaddedNew, U!readsize, i)
  BY DEF U!WriteCrcs, U!diskvars, U!runvars, UpsInv, UpsMakerInv
<1>2. UpsMakerInv'
  BY <1>1, PaddedSame DEF UpsInv, UpsMakerInv, U!NoRegion
<1>3. U!TypeOK'
  BY <1>1 DEF UpsInv, U!TypeOK, U!File, U!Positions
<1>4. PICK at : Layout(at)
  BY DEF UpsInv
<1>5. Layout(at)'
  BY <1>1, <1>4, LayoutSame
<1>6. UpsRunInv' /\ U!Toggles'
  BY <1>1 DEF UpsRunInv, U!Toggles
<1> QED
  BY <1>1, <1>2, <1>3, <1>5, <1>6 DEF UpsInv

LEMMA UpsStartDry == ASSUME UpsInv, U!StartDry PROVE UpsInv'
<1>1. /\ UNCHANGED <<U!makervars, intact, disk, sizdisk, image, forward>>
      /\ mpc = "made" /\ runs' = runs + 1 /\ before' = <<disk, sizdisk>>
      /\ record' = 1 /\ ptr' = 0
      /\ \/ ppc' = "dry" /\ ret' = ret
         \/ ppc' = "returned" /\ ret' = 2
  BY DEF U!StartDry, U!Return, U!diskvars
<1>2. U!TypeOK'
  BY <1>1, UpsTypes, UpsTypeStep
<1>3. UpsRunInv' /\ U!Toggles'
  BY <1>1 DEF UpsRunInv, U!Toggles, U!diskvars
<1> QED
  BY <1>1, <1>2, <1>3, UpsPatcherStep

LEMMA UpsDryRecord == ASSUME UpsInv, U!DryRecord PROVE UpsInv'
<1>1. /\ UNCHANGED <<U!makervars, intact, disk, sizdisk, ptr, image, forward, runs,
                     before>>
      /\ ppc = "dry" /\ record <= Len(ups)
      /\ \/ ppc' = "dry" /\ ret' = ret /\ record' = record + 1
         \/ ppc' = "returned" /\ ret' = 1 /\ record' = record
  BY DEF U!DryRecord, U!Return, U!diskvars, U!Advance
<1>2. mpc = "made" /\ before = <<disk, sizdisk>> /\ ptr = 0
  <2>1. ppc = "dry"
    BY <1>1
  <2> QED
    BY <2>1 DEF UpsInv, UpsMakerInv, UpsRunInv, U!TypeOK
<1>3. U!TypeOK'
  BY <1>1, UpsTypes, UpsTypeStep
<1>4. UpsRunInv' /\ U!Toggles'
  BY <1>1, <1>2 DEF UpsRunInv, U!Toggles, U!diskvars
<1> QED
  BY <1>1, <1>2, <1>3, <1>4, UpsPatcherStep

(* The file is one of the two, and the patcher knows which.                *)
LEMMA UpsIdentify == ASSUME UpsInv, U!Identify PROVE UpsInv'
<1>1. /\ UNCHANGED <<U!makervars, intact, disk, sizdisk, record, ptr, image, runs,
                     before>>
      /\ ppc = "dry"
      /\ \/ /\ U!IsOld \/ U!IsNew
            /\ ppc' = "extend" /\ forward' = ~U!IsNew /\ ret' = ret
         \/ ppc' = "returned" /\ ret' = 4 /\ forward' = forward
  BY DEF U!Identify, U!Return, U!diskvars
<1>2. mpc = "made" /\ before = <<disk, sizdisk>> /\ ptr = 0
  BY <1>1 DEF UpsInv, UpsMakerInv, UpsRunInv, U!TypeOK
<1>3. U!TypeOK'
  BY <1>1, UpsTypes, UpsTypeStep
<1>4. UNCHANGED <<old, sizold, new, siznew>>
  BY <1>1 DEF U!makervars
<1>5. ppc' = "extend" => (before = <<FileFrom, U!SizeFrom>>)'
  BY <1>1, <1>2, <1>4 DEF FileFrom, U!SizeFrom, U!IsOld, U!IsNew, U!diskvars
<1>6. UpsRunInv' /\ U!Toggles'
  BY <1>1, <1>2, <1>5 DEF UpsRunInv, U!Toggles, U!diskvars
<1> QED
  BY <1>1, <1>2, <1>3, <1>6, UpsPatcherStep

LEMMA UpsNoMemory == ASSUME UpsInv, U!NoMemory PROVE UpsInv'
<1>1. /\ UNCHANGED <<U!makervars, intact, disk, sizdisk, record, ptr, image, forward,
                     runs, before>>
      /\ ppc = "dry" /\ ppc' = "returned" /\ ret' = 4
  BY DEF U!NoMemory, U!Return, U!diskvars, U!runvars
<1>2. mpc = "made" /\ before = <<disk, sizdisk>>
  BY <1>1 DEF UpsInv, UpsMakerInv, UpsRunInv, U!TypeOK
<1>3. U!TypeOK'
  BY <1>1, UpsTypes, UpsTypeStep
<1>4. UpsRunInv' /\ U!Toggles'
  BY <1>1, <1>2 DEF UpsRunInv, U!Toggles, U!diskvars
<1> QED
  BY <1>1, <1>2, <1>3, <1>4, UpsPatcherStep

(* The memory holds the longer of the two files.                           *)
LEMMA ImageIsPadded ==
  ASSUME U!TypeOK
  PROVE  /\ U!ImageSize = U!readsize /\ U!SizeFrom \in Nat /\ U!SizeTo \in Nat
         /\ U!SizeFrom <= U!readsize /\ U!SizeTo <= U!readsize
         /\ U!readsize \in {U!SizeFrom, U!SizeTo}
         /\ From \in [0 .. U!readsize - 1 -> U!Byte]
         /\ To \in [0 .. U!readsize - 1 -> U!Byte]
         /\ FileTo \in [0 .. U!SizeTo - 1 -> U!Byte]
         /\ \A x \in 0 .. U!SizeTo - 1 : To[x] = FileTo[x]
<1>1. sizold \in Nat /\ siznew \in Nat
  BY DEF U!TypeOK
<1>2. /\ U!ImageSize = U!readsize /\ U!SizeFrom \in Nat /\ U!SizeTo \in Nat
      /\ U!SizeFrom <= U!readsize /\ U!SizeTo <= U!readsize
      /\ U!readsize \in {U!SizeFrom, U!SizeTo}
  BY <1>1 DEF U!ImageSize, U!readsize, U!SizeFrom, U!SizeTo, U!greatest
<1>3. /\ From \in [0 .. U!readsize - 1 -> U!Byte]
      /\ To \in [0 .. U!readsize - 1 -> U!Byte]
  BY PaddedTypes DEF From, To
<1>4. FileTo \in [0 .. U!SizeTo - 1 -> U!Byte]
  BY DEF U!TypeOK, U!File, U!Positions, FileTo, U!SizeTo
<1>5. \A x \in 0 .. U!SizeTo - 1 : To[x] = FileTo[x]
  BY <1>1, <1>2 DEF To, FileTo, U!SizeTo, U!PaddedOld, U!PaddedNew, U!Padded, U!Positions
<1> QED
  BY <1>2, <1>3, <1>4, <1>5

LEMMA UpsExtend == ASSUME UpsInv, U!Extend PROVE UpsInv'
<1>1. /\ UNCHANGED <<U!makervars, intact, disk, sizdisk, ptr, forward, ret, runs, before>>
      /\ ppc = "extend" /\ record' = 1 /\ ppc' = "apply"
      /\ image' = [x \in U!Positions(U!ImageSize) |-> IF x < sizdisk THEN disk[x] ELSE U!Zero]
  BY DEF U!Extend, U!diskvars
<1>2. U!TypeOK /\ mpc = "made" /\ before = <<disk, sizdisk>> /\ ptr = 0
      /\ before = <<FileFrom, U!SizeFrom>>
  BY <1>1 DEF UpsInv, UpsMakerInv, UpsRunInv, U!TypeOK
<1>3. U!TypeOK'
  BY <1>1, UpsTypes, UpsTypeStep
<1>4. UNCHANGED <<old, sizold, new, siznew, ptr, forward, From, To, FileFrom, FileTo,
                  U!readsize, U!SizeFrom, U!SizeTo>>
  BY <1>1, PaddedSame DEF U!makervars, From, To, FileFrom, FileTo, U!SizeFrom, U!SizeTo
<1>5. image' = [x \in U!Positions(U!readsize) |-> IF x < ptr THEN To[x] ELSE From[x]]
  <2>1. disk = FileFrom /\ sizdisk = U!SizeFrom /\ U!ImageSize = U!readsize
    BY <1>2, ImageIsPadded
  <2>2. ASSUME NEW x \in U!Positions(U!readsize)
        PROVE  /\ ~(x < ptr)
               /\ (IF x < sizdisk THEN disk[x] ELSE U!Zero) = From[x]
    BY <1>2, <2>1 DEF From, FileFrom, U!SizeFrom, U!PaddedOld, U!PaddedNew, U!Padded,
       U!Positions
  <2> QED
    BY <1>1, <2>1, <2>2
<1>6. UpsRunInv' /\ U!Toggles'
  BY <1>1, <1>2, <1>4, <1>5 DEF UpsRunInv, U!Toggles
<1> QED
  BY <1>1, <1>2, <1>3, <1>6, UpsPatcherStep

LEMMA UpsApplyRecord == ASSUME UpsInv, U!ApplyRecord PROVE UpsInv'
<1>1. PICK r, start, final :
      r = ups[record] /\ start = ptr + r.relative /\ final = start + Len(r.data)
  OBVIOUS
<1>2. /\ UNCHANGED <<U!makervars, intact, disk, sizdisk, ppc, forward, ret, runs, before>>
      /\ ppc = "apply" /\ record <= Len(ups)
      /\ ptr' = ptr + U!Skipped(r) /\ record' = record + 1
  BY <1>1 DEF U!ApplyRecord, U!diskvars, U!Advance, U!Current
<1>3. /\ U!TypeOK /\ mpc = "made" /\ before = <<disk, sizdisk>>
      /\ before = <<FileFrom, U!SizeFrom>>
      /\ image = [x \in U!Positions(U!readsize) |-> IF x < ptr THEN To[x] ELSE From[x]]
  BY <1>2 DEF UpsInv, UpsMakerInv, UpsRunInv, U!TypeOK
<1>4. record \in 1 .. Len(ups) /\ Len(ups) \in Nat /\ ptr \in Nat /\ U!readsize \in Nat
  BY <1>2, <1>3, UpsTypes, PaddedTypes
<1>5. r \in UpsRecord /\ r.relative \in Nat /\ Len(r.data) \in Nat
  <2>1. r \in UpsRecord
    BY <1>4, <1>1 DEF UpsInv, UpsMakerInv
  <2>2. r.relative \in Nat /\ r.data \in Seq(U!Byte \ {U!Zero})
    BY <2>1 DEF UpsRecord
  <2> QED
    BY <2>1, <2>2, LenProperties
<1>6. /\ final <= U!readsize
      /\ \A x \in ptr .. start - 1 : U!PaddedOld[x] = U!PaddedNew[x]
      /\ \A k \in 1 .. Len(r.data) :
           r.data[k] = U!Xor(U!PaddedOld[start + k - 1], U!PaddedNew[start + k - 1])
      /\ final < U!readsize => U!PaddedOld[final] = U!PaddedNew[final]
  <2>1. PICK at : Layout(at) /\ ptr = at[record]
    BY <1>2 DEF UpsInv
  <2>2. RecordIs(r, ptr)
    BY <1>4, <1>1, <2>1 DEF Layout
  <2> QED
    BY <1>1, <2>2, Zenon DEF RecordIs
<1>7. UNCHANGED <<old, sizold, new, siznew, ups, From, To, FileFrom, FileTo,
                  U!readsize, U!SizeFrom, U!SizeTo>>
  BY <1>2, PaddedSame DEF U!makervars, From, To, FileFrom, FileTo, U!SizeFrom, U!SizeTo
<1>8. start \in Nat /\ ptr <= start
  BY <1>4, <1>5, <1>1
<1>9. final \in Nat /\ Len(r.data) = final - start
  BY <1>5, <1>8, <1>1, SMTT(40)
<1>10. ptr' = final + 1
  <2>1. ptr' = ptr + r.relative + Len(r.data) + 1
    BY <1>2, <1>4, <1>5 DEF U!Skipped
  <2> QED
    BY <2>1, <1>1
<1>11. /\ image' = [x \in DOMAIN image |-> image'[x]]
      /\ \A x \in DOMAIN image :
           image'[x] = IF x \in start .. final - 1
                       THEN U!Xor(image[x], r.data[x - start + 1]) ELSE image[x]
  <2>1. image' = [x \in DOMAIN image |->
                    IF x \in U!Target .. U!Target + Len(U!Current.data) - 1
                    THEN U!Xor(image[x], U!Current.data[x - U!Target + 1]) ELSE image[x]]
    BY DEF U!ApplyRecord
  <2>2. U!Current = r /\ U!Target = start /\ U!Target + Len(U!Current.data) = final
    BY <1>1 DEF U!Current, U!Target
  <2> QED
    BY <1>5, <1>8, <1>9, <2>1, <2>2
<1>12. image' = [x \in U!Positions(U!readsize) |-> IF x < ptr' THEN To[x] ELSE From[x]]
  <2>1. ASSUME NEW x \in U!Positions(U!readsize)
        PROVE  (IF x \in start .. final - 1
                THEN U!Xor(image[x], r.data[x - start + 1]) ELSE image[x])
                 = IF x < ptr' THEN To[x] ELSE From[x]
    <3>1. image[x] = IF x < ptr THEN To[x] ELSE From[x]
      BY <1>3
    <3>2. x \in 0 .. U!readsize - 1
      BY DEF U!Positions
    <3>3. U!PaddedOld[x] = U!PaddedNew[x] => From[x] = To[x]
      BY DEF From, To
    <3>4. CASE x < ptr \/ x > final
      BY <1>4, <1>5, <1>8, <1>9, <1>10, <3>1, <3>2, <3>4
    <3>5. CASE x \in ptr .. start - 1 \/ x = final
      <4>1. x = final => From[x] = To[x]
        BY <1>4, <1>6, <1>9, <3>2, <3>3
      <4>2. x \in ptr .. start - 1 => From[x] = To[x]
        BY <1>6, <3>3
      <4> QED
        BY <1>4, <1>5, <1>8, <1>9, <1>10, <3>1, <3>2, <3>5, <4>1, <4>2
    <3>6. CASE x \in start .. final - 1
      <4>1. x - start + 1 \in 1 .. Len(r.data) /\ start + (x - start + 1) - 1 = x
        BY <1>8, <1>9, <3>2, <3>6
      <4>2. r.data[x - start + 1] = U!Xor(U!PaddedOld[x], U!PaddedNew[x])
        BY <1>6, <4>1
      <4>3. U!PaddedOld[x] \in U!Byte /\ U!PaddedNew[x] \in U!Byte
        BY <1>3, <3>2, PaddedTypes
      <4>4. U!Xor(From[x], r.data[x - start + 1]) = To[x]
        BY <4>2, <4>3, XorFacts DEF From, To
      <4>5. image[x] = From[x] /\ x < ptr'
        BY <1>4, <1>5, <1>8, <1>9, <1>10, <3>1, <3>2, <3>6
      <4> QED
        BY <3>6, <4>4, <4>5
    <3> QED
      BY <1>4, <1>8, <1>9, <3>2, <3>4, <3>5, <3>6
  <2> QED
    BY <1>11, <1>3, <2>1
<1>13. UpsRunInv' /\ U!Toggles'
  BY <1>2, <1>3, <1>7, <1>12 DEF UpsRunInv, U!Toggles
<1>14. U!TypeOK'
  BY <1>2, <1>4, <1>9, <1>10, UpsTypes, UpsTypeStep
<1> QED
  BY <1>2, <1>3, <1>4, <1>13, <1>14, <1>1, UpsPatcherStep

LEMMA UpsWriteBack == ASSUME UpsInv, U!WriteBack PROVE UpsInv'
<1>1. /\ UNCHANGED <<U!makervars, intact, record, ptr, image, forward, ret, runs, before>>
      /\ ppc = "apply" /\ record > Len(ups) /\ ppc' = "cut"
      /\ sizdisk' = U!greatest(sizdisk, U!SizeTo)
      /\ disk' = [x \in U!Positions(sizdisk') |-> IF x < U!SizeTo THEN image[x] ELSE disk[x]]
  BY DEF U!WriteBack, U!runvars
<1>2. /\ U!TypeOK /\ mpc = "made" /\ before = <<disk, sizdisk>>
      /\ before = <<FileFrom, U!SizeFrom>>
      /\ image = [x \in U!Positions(U!readsize) |-> IF x < ptr THEN To[x] ELSE From[x]]
      /\ U!NoRegion(U!PaddedOld, U!PaddedNew, U!readsize, i)
  BY <1>1 DEF UpsInv, UpsMakerInv, UpsRunInv, U!TypeOK
<1>3. ptr = i /\ i \in Nat
  <2>1. PICK at : Layout(at) /\ ptr = at[record]
    BY <1>1 DEF UpsInv
  <2>2. record = Len(ups) + 1
    BY <1>1, UpsTypes
  <2> QED
    BY <1>2, <2>1, <2>2 DEF Layout, U!TypeOK
<1>4. UNCHANGED <<old, sizold, new, siznew, forward, FileFrom, FileTo, U!readsize,
                  U!SizeFrom, U!SizeTo>>
  BY <1>1, PaddedSame DEF U!makervars, FileFrom, FileTo, U!SizeFrom, U!SizeTo
<1>5. sizdisk' = U!readsize
  <2>1. sizdisk = U!SizeFrom
    BY <1>2
  <2> QED
    BY <1>1, <1>2, <2>1, ImageIsPadded DEF U!greatest
<1>6. image \in [0 .. U!readsize - 1 -> U!Byte]
  BY <1>2, ImageIsPadded DEF U!Positions
<1>7. ASSUME NEW x \in U!Positions(U!SizeTo) PROVE disk'[x] = FileTo[x]
  <2>1. x \in 0 .. U!SizeTo - 1 /\ x \in 0 .. U!readsize - 1 /\ x < U!SizeTo
    BY <1>2, ImageIsPadded DEF U!Positions
  <2>2. disk'[x] = image[x]
    BY <1>1, <1>5, <2>1 DEF U!Positions
  <2>3. image[x] = IF x < ptr THEN To[x] ELSE From[x]
    BY <1>2, <2>1 DEF U!Positions
  <2>4. x >= i => From[x] = To[x]
    BY <1>2, <1>3, <2>1 DEF U!NoRegion, From, To
  <2>5. To[x] = FileTo[x]
    BY <1>2, <2>1, ImageIsPadded
  <2> QED
    BY <1>3, <2>1, <2>2, <2>3, <2>4, <2>5
<1>8. disk' \in [0 .. sizdisk' - 1 -> U!Byte] /\ sizdisk' \in Nat
  <2>1. U!readsize \in Nat /\ U!SizeFrom \in Nat /\ U!SizeTo \in Nat
        /\ U!readsize \in {U!SizeFrom, U!SizeTo}
    BY <1>2, ImageIsPadded
  <2>2. disk \in [0 .. U!SizeFrom - 1 -> U!Byte]
    BY <1>2 DEF U!TypeOK, U!File, U!Positions
  <2>3. ASSUME NEW x \in 0 .. U!readsize - 1
        PROVE  (IF x < U!SizeTo THEN image[x] ELSE disk[x]) \in U!Byte
    BY <1>6, <2>1, <2>2
  <2> QED
    BY <1>1, <1>5, <2>1, <2>3 DEF U!Positions
<1>9. UpsRunInv' /\ U!Toggles'
  BY <1>1, <1>2, <1>4, <1>5, <1>7 DEF UpsRunInv, U!Toggles
<1>10. U!TypeOK'
  BY <1>1, <1>8, UpsTypes, UpsTypeStep
<1> QED
  BY <1>1, <1>2, <1>9, <1>10, UpsPatcherStep

LEMMA UpsTruncate == ASSUME UpsInv, U!Truncate PROVE UpsInv'
<1>1. /\ UNCHANGED <<U!makervars, intact, record, ptr, image, forward, runs, before>>
      /\ ppc = "cut" /\ U!Cut /\ ppc' = "returned" /\ ret' = 0
  BY DEF U!Truncate, U!runvars, U!Return
<1>2. /\ U!TypeOK /\ mpc = "made" /\ before = <<FileFrom, U!SizeFrom>>
      /\ sizdisk = U!readsize /\ \A x \in U!Positions(U!SizeTo) : disk[x] = FileTo[x]
  BY <1>1 DEF UpsInv, UpsMakerInv, UpsRunInv, U!TypeOK
<1>3. /\ U!readsize \in Nat /\ U!SizeFrom \in Nat /\ U!SizeTo \in Nat
      /\ U!readsize \in {U!SizeFrom, U!SizeTo} /\ U!SizeTo <= U!readsize
      /\ FileTo \in [0 .. U!SizeTo - 1 -> U!Byte]
  BY <1>2, ImageIsPadded
<1>4. disk \in [0 .. U!readsize - 1 -> U!Byte]
  BY <1>2 DEF U!TypeOK, U!File, U!Positions
<1>5. sizdisk' = U!SizeTo /\ disk' = FileTo
  <2>1. CASE U!SizeFrom > U!SizeTo
    BY <1>1, <1>2, <1>3, <2>1 DEF U!Cut, U!Positions
  <2>2. CASE ~(U!SizeFrom > U!SizeTo)
    <3>1. U!readsize = U!SizeTo
      BY <1>2, <1>3, <2>2, ImageIsPadded
    <3>2. disk = FileTo
      BY <1>2, <1>3, <1>4, <3>1 DEF U!Positions
    <3> QED
      BY <1>1, <1>2, <2>2, <3>1, <3>2 DEF U!Cut, U!diskvars
  <2> QED
    BY <2>1, <2>2
<1>6. UNCHANGED <<old, sizold, new, siznew>>
  BY <1>1 DEF U!makervars
<1>7. UpsRunInv'
  BY <1>1 DEF UpsRunInv
<1>8. U!Toggles'
  BY <1>1, <1>2, <1>5, <1>6 DEF U!Toggles, U!IsOld, U!IsNew, U!diskvars, FileFrom, FileTo,
     U!SizeFrom, U!SizeTo
<1>9. U!TypeOK'
  BY <1>1, <1>3, <1>5, UpsTypes, UpsTypeStep
<1> QED
  BY <1>1, <1>2, <1>7, <1>8, <1>9, UpsPatcherStep

(* Every step of xenoups keeps its invariant, which holds at the start.    *)
LEMMA UpsNextInv == ASSUME UpsInv, U!Next PROVE UpsInv'
BY UpsWriteRegion, UpsWriteCrcs, UpsStartDry, UpsDryRecord, UpsIdentify, UpsNoMemory,
   UpsExtend, UpsApplyRecord, UpsWriteBack, UpsTruncate DEF U!Next

LEMMA UpsStutterInv == ASSUME UpsInv, UNCHANGED U!vars PROVE UpsInv'
<1>1. UNCHANGED <<old, sizold, new, siznew, mpc, i, oldoff, ups, bodyend, intact, disk,
                  sizdisk, ppc, record, ptr, image, forward, ret, runs, before>>
  BY DEF U!vars, U!makervars, U!diskvars, U!runvars
<1>2. UpsMakerInv'
  BY <1>1, PaddedSame DEF UpsInv, UpsMakerInv, U!NoRegion
<1>3. UpsRunInv'
  BY <1>1, PaddedSame DEF UpsInv, UpsRunInv, FileFrom, FileTo, From, To, U!SizeFrom, U!SizeTo
<1>4. U!TypeOK' /\ U!Toggles'
  BY <1>1 DEF UpsInv, U!TypeOK, U!File, U!Positions, U!Toggles, U!IsOld, U!IsNew, U!diskvars
<1>5. PICK at : Layout(at) /\ (ppc = "apply" => ptr = at[record])
  BY DEF UpsInv
<1>6. Layout(at)' /\ (ppc = "apply" => ptr = at[record])'
  BY <1>1, <1>5, LayoutSame
<1> QED
  BY <1>1, <1>2, <1>3, <1>4, <1>6 DEF UpsInv

(* No record reaches behind the memory.                                    *)
LEMMA UpsWithin == UpsInv => U!WithinImage
<1> SUFFICES ASSUME UpsInv, ppc = "apply" PROVE U!WithinImage
  BY DEF U!WithinImage
<1>1. U!TypeOK /\ DOMAIN image = 0 .. U!readsize - 1
  BY DEF UpsInv, UpsRunInv, U!Positions
<1>2. U!Positions(U!SizeTo) \subseteq DOMAIN image
  BY <1>1, ImageIsPadded DEF U!Positions
<1>3. ASSUME record <= Len(ups)
      PROVE  U!Target .. U!Target + Len(U!Current.data) - 1 \subseteq DOMAIN image
  <2>1. PICK at : Layout(at) /\ ptr = at[record]
    BY DEF UpsInv
  <2>2. record \in 1 .. Len(ups) /\ ptr \in Nat
    BY <1>3, UpsTypes
  <2>3. RecordIs(U!Current, ptr)
    BY <2>1, <2>2 DEF Layout, U!Current
  <2>4. U!Current.relative \in Nat /\ Len(U!Current.data) \in Nat
    BY <1>1, <2>2, LenProperties DEF U!Current, U!TypeOK
  <2>5. U!Target + Len(U!Current.data) <= U!readsize
    BY <2>3 DEF RecordIs, U!Target
  <2>6. U!Target \in Nat
    BY <2>2, <2>4 DEF U!Target
  <2> QED
    BY <1>1, <2>4, <2>5, <2>6, PaddedTypes
<1> QED
  BY <1>2, <1>3 DEF U!WithinImage

-----------------------------------------------------------------------------
(***************************************************************************)
(* xenoppf and xenowips.                                                   *)
(***************************************************************************)

(* A region of m bytes in chunks of at most c: none is empty, and together *)
(* they are all of it.                                                     *)
ChunkCount(m, c) == (m + c - 1) \div c

ChunkLen(m, c, k) == IF m - (k - 1) * c <= c THEN m - (k - 1) * c ELSE c

LEMMA ChunkStart ==
  ASSUME NEW m \in Nat, m > 0, NEW c \in Nat, c > 0, NEW k \in 1 .. ChunkCount(m, c)
  PROVE  (k - 1) * c \in 0 .. m - 1 /\ ChunkLen(m, c, k) \in 1 .. c
         /\ (k - 1) * c + ChunkLen(m, c, k) <= m
<1>1. ChunkCount(m, c) \in Nat /\ ChunkCount(m, c) * c <= m + c - 1
  BY DEF ChunkCount
<1>2. (k - 1) * c \in Nat
  OBVIOUS
<1>3. k * c <= ChunkCount(m, c) * c
  BY <1>1
<1>4. (k - 1) * c + c = k * c
  OBVIOUS
<1>5. (k - 1) * c <= m - 1
  BY <1>1, <1>2, <1>3, <1>4
<1> QED
  BY <1>2, <1>5 DEF ChunkLen

LEMMA ChunkOf ==
  ASSUME NEW m \in Nat, m > 0, NEW c \in Nat, c > 0, NEW d \in 0 .. m - 1
  PROVE  \E k \in 1 .. ChunkCount(m, c) :
           d \in (k - 1) * c .. (k - 1) * c + ChunkLen(m, c, k) - 1
<1> DEFINE q == d \div c
<1>1. q \in Nat /\ q * c <= d /\ d < (q + 1) * c
  OBVIOUS
<1>2. ChunkCount(m, c) \in Nat /\ m + c - 1 < (ChunkCount(m, c) + 1) * c
  BY DEF ChunkCount
<1> HIDE DEF q
<1>3. q + 1 <= ChunkCount(m, c)
  <2>1. q * c + c < (ChunkCount(m, c) + 1) * c
    BY <1>1, <1>2
  <2>2. (q + 1) * c < (ChunkCount(m, c) + 1) * c
    BY <1>1, <2>1
  <2> QED
    BY <1>1, <1>2, <2>2
<1>4. (q + 1) * c = q * c + c /\ q * c \in Nat
  BY <1>1
<1>5. d \in q * c .. q * c + ChunkLen(m, c, q + 1) - 1
  BY <1>1, <1>4 DEF ChunkLen
<1> QED
  BY <1>1, <1>2, <1>3, <1>5

-----------------------------------------------------------------------------
(***************************************************************************)
(* xenoppf.  What its proofs ask of a patch, of whatever maker: a record   *)
(* lies within the files the patch is between and holds bytes of the new   *)
(* one, and so many others of any value when the patch can be taken back.  *)
(***************************************************************************)
PpfRecord == [address : Nat, data : Seq(ByteValues), undo : Seq(ByteValues)]

PpfRecordIs(r) ==
  /\ r \in PpfRecord /\ Len(r.data) \in 1 .. ChunkMax /\ Len(r.undo) = Len(r.data)
  /\ r.address + Len(r.data) <= size
  /\ \A j \in 1 .. Len(r.data) : r.data[j] = new[r.address + j - 1]

(* x is of one of the first m records.                                     *)
InPpf(x, m) ==
  \E k \in 1 .. m : x \in ppf[k].address .. ppf[k].address + Len(ppf[k].data) - 1

PpfApplied(f, m) == [x \in DOMAIN f |-> IF InPpf(x, m) THEN new[x] ELSE f[x]]

PpfFiles ==
  /\ size \in Nat /\ old \in P!File(size) /\ new \in P!File(size)
  /\ sizdisk \in Nat /\ disk \in P!File(sizdisk)

PpfMakerInv ==
  /\ PpfFiles /\ i \in Nat /\ mpc \in {"scan", "made"}
  /\ mode \in 0 .. 3 /\ blockcheck \in BOOLEAN /\ undo \in BOOLEAN /\ stub \in BOOLEAN
  /\ ppf \in Seq(PpfRecord)
  /\ \A k \in 1 .. Len(ppf) : PpfRecordIs(ppf[k])
  /\ \A x \in 0 .. size - 1 :
       x < i \/ mpc = "made" => old[x] = new[x] \/ InPpf(x, Len(ppf))

(* Any files, and no patch yet or one made by anybody.                     *)
PpfAnyStart == P!AnyFiles /\ PpfMakerInv

PpfRunInv ==
  /\ ppc \in {"idle", "dry", "apply", "back", "returned", "crashed"}
  /\ record \in 1 .. Len(ppf) + 1 /\ isReverse \in -1 .. 1
  /\ ret \in {0, 1, 2, 4} /\ applied \in {0, 1}
  /\ mpc = "scan" => ppc = "idle"
  /\ ppc = "idle" => record = 1
  /\ ppc # "returned" => before = <<disk, sizdisk>>
  /\ ppc \in {"idle", "dry", "apply"} => applied = 0
  /\ applied # 0 => undo
  /\ ppc = "apply" => image = PpfApplied(disk, record - 1)
  /\ ppc = "back" /\ applied = 0 => image = P!AllRecords(disk)
  /\ isReverse # -1 => undo
  /\ ppc \in {"apply", "back"} /\ undo /\ isReverse # 0 => image = disk
  /\ P!FitsItsFile /\ P!TakesNothingBack
  /\ ppc = "returned" =>
       \/ ret = 0 /\ applied = 0 /\ disk = P!AllRecords(before[1]) /\ sizdisk = before[2]
       \/ (ret # 0 \/ applied # 0) /\ before = <<disk, sizdisk>>

PpfInv == PpfMakerInv /\ PpfRunInv

-----------------------------------------------------------------------------
LEMMA ChunkMaxType == ChunkMax \in Nat /\ ChunkMax > 0 /\ Window \in Nat /\ Window > 0
BY PpfAssumption DEF P!ChunkAssumption, P!WindowAssumption

(* What Bytes makes of a file.                                             *)
LEMMA BytesFacts ==
  ASSUME NEW f, NEW s, NEW n \in Nat, NEW B, \A j \in 1 .. n : f[s + j - 1] \in B
  PROVE  LET b == [j \in 1 .. n |-> f[s + j - 1]]
         IN b \in Seq(B) /\ Len(b) = n /\ \A j \in 1 .. n : b[j] = f[s + j - 1]
OBVIOUS

LEMMA PpfOwnStart == P!OwnInit => PpfAnyStart
<1> SUFFICES ASSUME P!OwnInit PROVE PpfAnyStart
  OBVIOUS
<1>1. P!AnyFiles /\ ppf = <<>> /\ mpc = "scan" /\ i = 0
  BY DEF P!OwnInit, P!AnyFiles
<1>2. PpfFiles
  BY PpfAssumption DEF P!OwnInit, P!AnyFiles, PpfFiles, P!SizesAssumption
<1>3. ppf \in Seq(PpfRecord) /\ Len(ppf) = 0
  BY <1>1
<1>4. size \in Nat
  BY <1>2 DEF PpfFiles
<1>5. /\ blockcheck \in BOOLEAN /\ undo \in BOOLEAN /\ stub \in BOOLEAN
      /\ mpc \in {"scan", "made"}
  BY Zenon DEF P!OwnInit
<1>8. mode \in 0 .. 3 /\ i \in Nat
  BY <1>1 DEF P!OwnInit
<1>6. \A x \in 0 .. size - 1 : ~(x < i \/ mpc = "made")
  BY <1>1, <1>4
<1>7. \A k \in 1 .. Len(ppf) : PpfRecordIs(ppf[k])
  BY <1>3
<1> QED
  BY <1>1, <1>2, <1>3, <1>5, <1>6, <1>7, <1>8, Zenon DEF PpfAnyStart, PpfMakerInv

LEMMA PpfStartInv == PpfAnyStart => PpfInv
<1> SUFFICES ASSUME PpfAnyStart PROVE PpfInv
  OBVIOUS
<1>1. PpfMakerInv /\ Len(ppf) \in Nat
  BY DEF PpfAnyStart, PpfMakerInv
<1>2. PpfRunInv
  BY <1>1 DEF PpfAnyStart, P!AnyFiles, PpfRunInv, P!FitsItsFile, P!TakesNothingBack, P!diskvars
<1> QED
  BY <1>1, <1>2 DEF PpfInv

(* The region that ends before Window equal bytes.                         *)
LEMMA PpfOneRegion ==
  ASSUME size \in Nat, i \in Nat, NEW address \in 0 .. size, NEW final \in 0 .. size,
         P!IsRegion(old, new, size, Window, i, address, final)
  PROVE  /\ i <= address /\ address < final
         /\ \A x \in i .. address - 1 : old[x] = new[x]
         /\ final < size => old[final] = new[final]
<1>1. /\ i <= address /\ address < final
      /\ \A x \in i .. address - 1 : old[x] = new[x]
      /\ ~P!WindowDiffers(old, new, size, Window, final)
  BY DEF P!IsRegion
<1>2. ASSUME final < size PROVE old[final] = new[final]
  <2>1. final \in final .. final + P!least(Window, size - final) - 1
    BY <1>2, ChunkMaxType DEF P!least
  <2> QED
    BY <1>1, <2>1 DEF P!WindowDiffers
<1> QED
  BY <1>1, <1>2

LEMMA PpfRecordsOf ==
  ASSUME PpfFiles, NEW address \in 0 .. size, NEW final \in 0 .. size, address < final
  PROVE  /\ P!Records(address, final) \in Seq(PpfRecord)
         /\ \A k \in 1 .. Len(P!Records(address, final)) :
              PpfRecordIs(P!Records(address, final)[k])
         /\ \A x \in address .. final - 1 :
              \E k \in 1 .. Len(P!Records(address, final)) :
                LET r == P!Records(address, final)[k]
                IN  x \in r.address .. r.address + Len(r.data) - 1
<1> DEFINE m == final - address
           N == ChunkCount(m, ChunkMax)
           start(k) == address + (k - 1) * ChunkMax
           len(k) == ChunkLen(m, ChunkMax, k)
           r(k) == [address |-> start(k), data |-> P!Bytes(new, start(k), len(k)),
                    undo |-> P!Bytes(old, start(k), len(k))]
<1>1. size \in Nat /\ m \in Nat /\ m > 0 /\ ChunkMax \in Nat /\ ChunkMax > 0 /\ N \in Nat
      /\ address \in Nat /\ final <= size
  BY ChunkMaxType DEF PpfFiles, ChunkCount
<1>2. ASSUME NEW k \in 1 .. N
      PROVE  /\ start(k) \in address .. final - 1 /\ len(k) \in 1 .. ChunkMax
             /\ start(k) + len(k) <= final
             /\ P!Chunk(final - start(k)) = len(k)
  <2>1. (k - 1) * ChunkMax \in 0 .. m - 1 /\ ChunkLen(m, ChunkMax, k) \in 1 .. ChunkMax
        /\ (k - 1) * ChunkMax + ChunkLen(m, ChunkMax, k) <= m
    BY <1>1, ChunkStart
  <2>2. PICK d : d = (k - 1) * ChunkMax
    OBVIOUS
  <2>3. final - start(k) = m - d
    BY <1>1, <2>1, <2>2
  <2>4. P!Chunk(final - start(k)) = len(k)
    BY <2>3, <2>2 DEF P!Chunk, P!least, ChunkLen
  <2> QED
    BY <1>1, <2>1, <2>2, <2>4
<1>3. P!Records(address, final) = [k \in 1 .. N |-> r(k)]
  BY <1>2 DEF P!Records, ChunkCount
<1>4. ASSUME NEW k \in 1 .. N
      PROVE  PpfRecordIs(r(k)) /\ Len(r(k).data) = len(k) /\ r(k).address = start(k)
  <2> DEFINE s == start(k)
             n == len(k)
  <2>1. s \in Nat /\ n \in 1 .. ChunkMax /\ s + n <= size
    BY <1>1, <1>2
  <2> HIDE DEF s, n
  <2>2. /\ P!Bytes(new, s, n) \in Seq(ByteValues) /\ Len(P!Bytes(new, s, n)) = n
        /\ P!Bytes(old, s, n) \in Seq(ByteValues) /\ Len(P!Bytes(old, s, n)) = n
        /\ \A j \in 1 .. n : P!Bytes(new, s, n)[j] = new[s + j - 1]
    <3>1. \A j \in 1 .. n : s + j - 1 \in 0 .. size - 1
      BY <1>1, <2>1
    <3>2. \A j \in 1 .. n : new[s + j - 1] \in ByteValues /\ old[s + j - 1] \in ByteValues
      BY <3>1 DEF PpfFiles, P!File, P!Positions
    <3>3. n \in Nat
      BY <1>1, <2>1
    <3> QED
      BY <3>2, <3>3, BytesFacts DEF P!Bytes
  <2>3. PpfRecordIs([address |-> s, data |-> P!Bytes(new, s, n),
                     undo |-> P!Bytes(old, s, n)])
    BY <1>1, <2>1, <2>2 DEF PpfRecordIs, PpfRecord
  <2> QED
    BY <2>2, <2>3 DEF s, n
<1>5. ASSUME NEW x \in address .. final - 1
      PROVE  \E k \in 1 .. N : x \in start(k) .. start(k) + len(k) - 1
  <2>1. x - address \in 0 .. m - 1
    BY <1>1
  <2>2. PICK k \in 1 .. N :
          x - address \in (k - 1) * ChunkMax .. (k - 1) * ChunkMax + len(k) - 1
    BY <1>1, <2>1, ChunkOf
  <2>3. PICK d : d = (k - 1) * ChunkMax
    OBVIOUS
  <2>4. d \in Nat /\ len(k) \in Nat
    BY <1>1, <1>2, <2>3
  <2>5. x \in address + d .. address + d + len(k) - 1
    BY <1>1, <2>2, <2>3, <2>4
  <2> QED
    BY <2>3, <2>5
<1> HIDE DEF r, start, len, N
<1>6. Len(P!Records(address, final)) = N
  BY <1>1, <1>3
<1>7. \A k \in 1 .. N : P!Records(address, final)[k] = r(k) /\ r(k) \in PpfRecord
  BY <1>3, <1>4 DEF PpfRecordIs
<1>8. P!Records(address, final) \in Seq(PpfRecord)
  BY <1>1, <1>3, <1>7
<1> QED
  BY <1>4, <1>5, <1>6, <1>7, <1>8

-----------------------------------------------------------------------------
LEMMA PpfWriteRegion == ASSUME PpfInv, P!WriteRegion PROVE PpfInv'
<1>1. /\ UNCHANGED <<P!filevars, P!headvars, mpc, disk, sizdisk, ppc, record, isReverse,
                     image, ret, applied, before>>
      /\ UNCHANGED <<old, new, size, mode, blockcheck, undo, stub>>
      /\ mpc = "scan"
  BY DEF P!WriteRegion, P!diskvars, P!runvars, P!filevars, P!headvars
<1>2. PICK address \in 0 .. size, final \in 0 .. size :
        /\ P!IsRegion(old, new, size, Window, i, address, final)
        /\ ppf' = ppf \o P!Records(address, final) /\ i' = final + 1
  BY DEF P!WriteRegion
<1>3. PICK R : R = P!Records(address, final)
  OBVIOUS
<1>4. PpfFiles /\ size \in Nat /\ i \in Nat /\ ppf \in Seq(PpfRecord) /\ Len(ppf) \in Nat
  BY DEF PpfInv, PpfMakerInv, PpfFiles
<1>5. /\ i <= address /\ address < final
      /\ \A x \in i .. address - 1 : old[x] = new[x]
      /\ final < size => old[final] = new[final]
  BY <1>2, <1>4, PpfOneRegion
<1>6. /\ R \in Seq(PpfRecord) /\ Len(R) \in Nat
      /\ \A k \in 1 .. Len(R) : PpfRecordIs(R[k])
      /\ \A x \in address .. final - 1 :
           \E k \in 1 .. Len(R) : x \in R[k].address .. R[k].address + Len(R[k].data) - 1
  <2>1. /\ R \in Seq(PpfRecord) /\ \A k \in 1 .. Len(R) : PpfRecordIs(R[k])
        /\ \A x \in address .. final - 1 :
             \E k \in 1 .. Len(R) : x \in R[k].address .. R[k].address + Len(R[k].data) - 1
    BY <1>3, <1>4, <1>5, PpfRecordsOf, Zenon
  <2> QED
    BY <2>1, LenProperties
<1>7. /\ ppf' \in Seq(PpfRecord) /\ Len(ppf') = Len(ppf) + Len(R)
      /\ \A k \in 1 .. Len(ppf) : ppf'[k] = ppf[k]
      /\ \A k \in 1 .. Len(R) : ppf'[Len(ppf) + k] = R[k]
  BY <1>2, <1>3, <1>4, <1>6
<1>8. ASSUME NEW k \in 1 .. Len(ppf') PROVE PpfRecordIs(ppf[k])'
  <2>1. PICK r : r = ppf'[k] /\ PpfRecordIs(r)
    <3>1. CASE k \in 1 .. Len(ppf)
      BY <1>7, <3>1 DEF PpfInv, PpfMakerInv
    <3>2. CASE k - Len(ppf) \in 1 .. Len(R)
      <4>1. k = Len(ppf) + (k - Len(ppf))
        BY <1>4
      <4> QED
        BY <1>6, <1>7, <3>2, <4>1
    <3> QED
      BY <1>4, <1>6, <1>7, <3>1, <3>2
  <2> QED
    BY <1>1, <2>1 DEF PpfRecordIs
<1>9. ASSUME NEW x \in 0 .. size - 1, x < final + 1
      PROVE  old[x] = new[x] \/ InPpf(x, Len(ppf))'
  <2>1. CASE x < i
    <3>1. old[x] = new[x] \/ InPpf(x, Len(ppf))
      BY <2>1 DEF PpfInv, PpfMakerInv
    <3>2. ASSUME InPpf(x, Len(ppf)) PROVE InPpf(x, Len(ppf))'
      <4>1. PICK k \in 1 .. Len(ppf) :
              x \in ppf[k].address .. ppf[k].address + Len(ppf[k].data) - 1
        BY <3>2 DEF InPpf
      <4>2. ppf'[k] = ppf[k] /\ k \in 1 .. Len(ppf')
        BY <1>4, <1>6, <1>7
      <4> QED
        BY <4>1, <4>2 DEF InPpf
    <3> QED
      BY <3>1, <3>2
  <2>2. CASE x \in i .. address - 1
    BY <1>5, <2>2
  <2>4. CASE x = final
    BY <1>4, <1>5, <2>4
  <2>3. CASE x \in address .. final - 1
    <3>1. PICK k \in 1 .. Len(R) : x \in R[k].address .. R[k].address + Len(R[k].data) - 1
      BY <1>6, <2>3
    <3>2. PICK l : l = Len(ppf) + k
      OBVIOUS
    <3>3. ppf'[l] = R[k] /\ l \in 1 .. Len(ppf')
      BY <1>4, <1>6, <1>7, <3>2
    <3> QED
      BY <3>1, <3>3 DEF InPpf
  <2> QED
    BY <1>4, <1>5, <1>9, <2>1, <2>2, <2>3, <2>4
<1>10. PpfMakerInv'
  <2>1. PpfFiles'
    BY <1>1, <1>4 DEF PpfFiles, P!File, P!Positions
  <2>2. i' \in Nat
    BY <1>2, <1>4
  <2>3. /\ mpc' \in {"scan", "made"} /\ blockcheck' \in BOOLEAN /\ undo' \in BOOLEAN
        /\ stub' \in BOOLEAN /\ mode' \in 0 .. 3
    BY <1>1, Zenon DEF PpfInv, PpfMakerInv
  <2>4. \A x \in 0 .. size' - 1 :
          x < i' \/ mpc' = "made" => old'[x] = new'[x] \/ InPpf(x, Len(ppf))'
    BY <1>1, <1>2, <1>9
  <2> QED
    BY <1>7, <1>8, <2>1, <2>2, <2>3, <2>4 DEF PpfMakerInv
<1>11. PpfRunInv'
  <2>1. ppc = "idle" /\ record = 1 /\ before = <<disk, sizdisk>> /\ applied = 0
        /\ isReverse \in -1 .. 1 /\ ret \in {0, 1, 2, 4} /\ (isReverse # -1 => undo)
        /\ P!TakesNothingBack
    BY <1>1 DEF PpfInv, PpfRunInv
  <2> QED
    BY <1>1, <1>4, <1>6, <1>7, <2>1 DEF PpfRunInv, P!FitsItsFile, P!TakesNothingBack
<1> QED
  BY <1>10, <1>11 DEF PpfInv

LEMMA PpfFinish == ASSUME PpfInv, P!Finish PROVE PpfInv'
<1>1. /\ UNCHANGED <<old, new, size, mode, blockcheck, undo, stub, i, ppf, disk, sizdisk,
                     ppc, record, isReverse, image, ret, applied, before>>
      /\ mpc = "scan" /\ mpc' = "made" /\ P!NoRegion(old, new, size, i)
  BY DEF P!Finish, P!diskvars, P!runvars, P!filevars, P!headvars
<1>2. PpfMakerInv'
  <2>1. \A x \in 0 .. size - 1 : old[x] = new[x] \/ InPpf(x, Len(ppf))
    BY <1>1 DEF PpfInv, PpfMakerInv, P!NoRegion
  <2> QED
    BY <1>1, <2>1 DEF PpfInv, PpfMakerInv, PpfFiles, P!File, P!Positions, PpfRecordIs, InPpf
<1>3. ppc = "idle"
  BY <1>1 DEF PpfInv, PpfRunInv
<1>4. PpfRunInv'
  BY <1>1, <1>3 DEF PpfInv, PpfRunInv, P!FitsItsFile, P!TakesNothingBack
<1> QED
  BY <1>2, <1>4 DEF PpfInv

(* The steps of the patcher leave the patch as it is.                      *)
LEMMA PpfMakerSame ==
  ASSUME PpfMakerInv, UNCHANGED <<P!makervars, sizdisk>>, disk' \in P!File(sizdisk)
  PROVE  PpfMakerInv'
<1>1. UNCHANGED <<old, new, size, mode, blockcheck, undo, stub, mpc, i, ppf, sizdisk>>
  BY DEF P!makervars, P!filevars, P!headvars
<1>2. PpfFiles'
  BY <1>1 DEF PpfMakerInv, PpfFiles, P!File, P!Positions
<1>3. ASSUME NEW x, InPpf(x, Len(ppf)) PROVE InPpf(x, Len(ppf))'
  BY <1>1, <1>3 DEF InPpf
<1>4. ASSUME NEW k \in 1 .. Len(ppf') PROVE PpfRecordIs(ppf[k])'
  BY <1>1 DEF PpfMakerInv, PpfRecordIs
<1> QED
  BY <1>1, <1>2, <1>3, <1>4 DEF PpfMakerInv

LEMMA PpfAppliedSame ==
  ASSUME UNCHANGED <<new, ppf>>, NEW f
  PROVE  /\ P!AllRecords(f)' = P!AllRecords(f') /\ \A m : PpfApplied(f, m)' = PpfApplied(f', m)
BY DEF P!AllRecords, PpfApplied, InPpf

(* A file with records put in is still one, and all records are what there *)
(* are up to the last.                                                     *)
LEMMA PpfAppliedFile ==
  ASSUME PpfMakerInv
  PROVE  /\ \A m \in 0 .. Len(ppf) : PpfApplied(disk, m) \in P!File(sizdisk)
         /\ P!AllRecords(disk) = PpfApplied(disk, Len(ppf))
<1>1. ASSUME NEW m \in 0 .. Len(ppf), NEW x, InPpf(x, m) PROVE new[x] \in ByteValues
  <2>1. PICK k \in 1 .. m : x \in ppf[k].address .. ppf[k].address + Len(ppf[k].data) - 1
    BY <1>1 DEF InPpf
  <2>2. PpfRecordIs(ppf[k]) /\ size \in Nat
    BY DEF PpfMakerInv, PpfFiles
  <2>3. ppf[k].address \in Nat /\ ppf[k].address + Len(ppf[k].data) <= size
        /\ Len(ppf[k].data) \in Nat
    BY <2>2 DEF PpfRecordIs, PpfRecord
  <2>4. x \in 0 .. size - 1
    BY <2>1, <2>2, <2>3
  <2> QED
    BY <2>4 DEF PpfMakerInv, PpfFiles, P!File, P!Positions
<1>2. disk \in [0 .. sizdisk - 1 -> ByteValues]
  BY DEF PpfMakerInv, PpfFiles, P!File, P!Positions
<1> QED
  BY <1>1, <1>2 DEF PpfApplied, P!AllRecords, InPpf, P!File, P!Positions

(* A step of the patcher that does not touch the file on disk.             *)
LEMMA PpfMemoryStep ==
  ASSUME PpfInv, ppc # "returned", mpc = "made",
         UNCHANGED <<P!makervars, P!diskvars, before>>,
         ppc' \in {"dry", "apply", "back", "returned", "crashed"},
         record' \in 1 .. Len(ppf) + 1, isReverse' \in -1 .. 1,
         ret' \in {0, 1, 2, 4}, applied' \in {0, 1},
         ppc' \in {"dry", "apply"} => applied' = 0,
         applied' # 0 => undo,
         ppc' = "apply" => image' = PpfApplied(disk, record' - 1),
         ppc' = "back" /\ applied' = 0 => image' = P!AllRecords(disk),
         isReverse' # -1 => undo,
         ppc' \in {"apply", "back"} /\ undo /\ isReverse' # 0 => image' = disk,
         ppc' = "crashed" => P!ReadsFile \/ sizdisk # size,
         ppc' = "returned" => ret' # 0
  PROVE  PpfInv'
<1>1. /\ UNCHANGED <<old, new, size, mode, blockcheck, undo, stub, mpc, i, ppf, disk,
                     sizdisk, before>>
      /\ before = <<disk, sizdisk>>
  BY DEF P!makervars, P!filevars, P!headvars, P!diskvars, PpfInv, PpfRunInv
<1>2. PpfMakerInv'
  BY <1>1, PpfMakerSame DEF PpfInv, PpfMakerInv, PpfFiles
<1>3. ppc' = "apply" => (image = PpfApplied(disk, record - 1))'
  BY <1>1, PpfAppliedSame
<1>4. ppc' = "back" /\ applied' = 0 => (image = P!AllRecords(disk))'
  BY <1>1, PpfAppliedSame
<1>5. P!FitsItsFile'
  BY <1>1 DEF P!FitsItsFile, P!ReadsFile
<1>6. PpfRunInv'
  BY <1>1, <1>3, <1>4, <1>5 DEF PpfRunInv, P!TakesNothingBack
<1> QED
  BY <1>2, <1>6 DEF PpfInv

(* The types of what a step of the patcher reads.                          *)
LEMMA PpfTypes ==
  ASSUME PpfInv
  PROVE  /\ record \in 1 .. Len(ppf) + 1 /\ isReverse \in -1 .. 1 /\ Len(ppf) \in Nat
         /\ ret \in {0, 1, 2, 4} /\ applied \in {0, 1}
         /\ size \in Nat /\ sizdisk \in Nat
         /\ ppc # "idle" => mpc = "made"
         /\ ppc # "returned" => before = <<disk, sizdisk>>
         /\ isReverse # -1 => undo
         /\ ppc \in {"apply", "back"} /\ undo /\ isReverse # 0 => image = disk
BY DEF PpfInv, PpfMakerInv, PpfFiles, PpfRunInv

LEMMA PpfNotPpf == ASSUME PpfInv, P!NotPpf PROVE PpfInv'
<1>1. /\ UNCHANGED <<P!makervars, P!diskvars, record, isReverse, image, applied, before>>
      /\ mpc = "made" /\ ppc = "idle" /\ ppc' = "returned" /\ ret' = 2
  BY DEF P!NotPpf, P!Return, P!runvars
<1>2. applied = 0
  BY <1>1 DEF PpfInv, PpfRunInv
<1> QED
  BY <1>1, <1>2, PpfTypes, PpfMemoryStep

LEMMA PpfStart == ASSUME PpfInv, P!Start PROVE PpfInv'
<1>1. /\ UNCHANGED <<P!makervars, P!diskvars, record, isReverse, image, applied, before, ret>>
      /\ mpc = "made" /\ ppc = "idle" /\ ppc' = IF P!ReadsFile THEN "crashed" ELSE "dry"
  BY DEF P!Start, P!runvars
<1>2. applied = 0
  BY <1>1 DEF PpfInv, PpfRunInv
<1> QED
  BY <1>1, <1>2, PpfTypes, PpfMemoryStep

LEMMA PpfDryRecord == ASSUME PpfInv, P!DryRecord PROVE PpfInv'
<1>1. /\ UNCHANGED <<P!makervars, P!diskvars, isReverse, image, applied, before, ret, ppc>>
      /\ ppc = "dry" /\ record # Len(ppf) + 1 /\ record' = record + 1
  BY DEF P!DryRecord, P!AtEnd, P!Advance
<1>2. applied = 0
  BY <1>1 DEF PpfInv, PpfRunInv
<1>3. record' \in 1 .. Len(ppf) + 1
  BY <1>1, PpfTypes
<1> QED
  BY <1>1, <1>2, <1>3, PpfTypes, PpfMemoryStep

LEMMA PpfDryFails == ASSUME PpfInv, P!DryTruncated \/ P!NoMemory PROVE PpfInv'
<1>1. /\ UNCHANGED <<P!makervars, P!diskvars, record, isReverse, image, applied, before>>
      /\ ppc = "dry" /\ ppc' = "returned" /\ ret' \in {1, 4}
  BY DEF P!DryTruncated, P!NoMemory, P!Return, P!runvars
<1>2. applied = 0
  BY <1>1 DEF PpfInv, PpfRunInv
<1> QED
  BY <1>1, <1>2, PpfTypes, PpfMemoryStep

LEMMA PpfLoad == ASSUME PpfInv, P!Load PROVE PpfInv'
<1>1. /\ UNCHANGED <<P!makervars, P!diskvars, isReverse, applied, before, ret>>
      /\ ppc = "dry" /\ ppc' = "apply" /\ image' = disk /\ record' = 1
  BY DEF P!Load
<1>2. applied = 0
  BY <1>1 DEF PpfInv, PpfRunInv
<1>3. image' = PpfApplied(disk, record' - 1)
  <2>1. disk = [x \in DOMAIN disk |-> disk[x]]
    BY DEF PpfInv, PpfMakerInv, PpfFiles, P!File
  <2>2. \A x : ~InPpf(x, record' - 1)
    BY <1>1 DEF InPpf
  <2> QED
    BY <1>1, <2>1, <2>2 DEF PpfApplied
<1>4. record' \in 1 .. Len(ppf) + 1
  BY <1>1, PpfTypes
<1> QED
  BY <1>1, <1>2, <1>3, <1>4, PpfTypes, PpfMemoryStep

LEMMA PpfOverrun == ASSUME PpfInv, P!Overrun PROVE PpfInv'
<1>1. /\ UNCHANGED <<P!makervars, P!diskvars, record, isReverse, image, applied, before, ret>>
      /\ ppc = "apply" /\ record # Len(ppf) + 1 /\ ppc' = "crashed"
      /\ ppf[record].address + Len(ppf[record].data) > sizdisk
  BY DEF P!Overrun, P!runvars, P!AtEnd, P!RecordEnd, P!Current
<1>2. applied = 0
  BY <1>1 DEF PpfInv, PpfRunInv
<1>3. record \in 1 .. Len(ppf)
  BY <1>1, PpfTypes
<1>4. ppf[record].address + Len(ppf[record].data) <= size
  BY <1>3 DEF PpfInv, PpfMakerInv, PpfRecordIs
<1>5. sizdisk # size
  <2>1. ppf[record].address \in Nat /\ Len(ppf[record].data) \in Nat
    BY <1>3 DEF PpfInv, PpfMakerInv, PpfRecordIs, PpfRecord
  <2> QED
    BY <1>1, <1>4, <2>1, PpfTypes
<1> QED
  BY <1>1, <1>2, <1>5, PpfTypes, PpfMemoryStep

LEMMA PpfDirection == ASSUME isReverse \in -1 .. 1 PROVE P!Direction \in -1 .. 1
BY DEF P!Direction

LEMMA PpfApplyRecord == ASSUME PpfInv, P!ApplyRecord PROVE PpfInv'
<1>1. /\ UNCHANGED <<P!makervars, P!diskvars, applied, before, ret, ppc>>
      /\ ppc = "apply" /\ record # Len(ppf) + 1 /\ record' = record + 1
      /\ image' = P!Patched /\ isReverse' = IF undo THEN P!Direction ELSE isReverse
  BY DEF P!ApplyRecord, P!Applicable, P!AtEnd, P!Advance
<1>2. applied = 0 /\ image = PpfApplied(disk, record - 1)
  BY <1>1 DEF PpfInv, PpfRunInv
<1>3. record \in 1 .. Len(ppf) /\ record' \in 1 .. Len(ppf) + 1 /\ isReverse' \in -1 .. 1
  BY <1>1, PpfTypes, PpfDirection
<1>4. PICK r : r = ppf[record] /\ PpfRecordIs(r)
  BY <1>3 DEF PpfInv, PpfMakerInv
<1>5. r.address \in Nat /\ Len(r.data) \in Nat
      /\ \A j \in 1 .. Len(r.data) : r.data[j] = new[r.address + j - 1]
  BY <1>4 DEF PpfRecordIs, PpfRecord
<1>6. image' = PpfApplied(disk, record' - 1)
  <2>1. /\ image' = [x \in DOMAIN disk |-> image'[x]]
        /\ \A x \in DOMAIN disk :
             image'[x] = IF x \in r.address .. r.address + Len(r.data) - 1
                         THEN r.data[x - r.address + 1] ELSE image[x]
    <3>1. DOMAIN image = DOMAIN disk
      BY <1>2 DEF PpfApplied
    <3>2. P!Current = r /\ P!RecordEnd = r.address + Len(r.data)
      BY <1>4 DEF P!Current, P!RecordEnd
    <3>3. /\ image' = [x \in DOMAIN image |-> image'[x]]
          /\ \A x \in DOMAIN image :
               image'[x] = IF x \in P!Current.address .. P!RecordEnd - 1
                           THEN P!Current.data[x - P!Current.address + 1] ELSE image[x]
      BY <1>1 DEF P!Patched
    <3>4. image' = [x \in DOMAIN disk |-> image'[x]]
      BY <3>1, <3>3
    <3>5. ASSUME NEW x \in DOMAIN disk
          PROVE  image'[x] = IF x \in r.address .. r.address + Len(r.data) - 1
                             THEN r.data[x - r.address + 1] ELSE image[x]
      BY <1>5, <3>1, <3>2, <3>3
    <3> QED
      BY <3>4, <3>5, Zenon
  <2>2. ASSUME NEW x \in r.address .. r.address + Len(r.data) - 1
        PROVE  r.data[x - r.address + 1] = new[x]
    <3>1. x - r.address + 1 \in 1 .. Len(r.data) /\ r.address + (x - r.address + 1) - 1 = x
      BY <1>5
    <3> QED
      BY <1>5, <3>1
  <2>3. ASSUME NEW x
        PROVE  InPpf(x, record' - 1)
                 <=> InPpf(x, record - 1) \/ x \in r.address .. r.address + Len(r.data) - 1
    <3>1. \A k : k \in 1 .. record' - 1 <=> k \in 1 .. record - 1 \/ k = record
      BY <1>1, <1>3
    <3> QED
      BY <1>4, <3>1 DEF InPpf
  <2>4. \A x \in DOMAIN disk : image[x] = IF InPpf(x, record - 1) THEN new[x] ELSE disk[x]
    BY <1>2 DEF PpfApplied
  <2> QED
    BY <2>1, <2>2, <2>3, <2>4 DEF PpfApplied
<1>7. ASSUME undo, isReverse' # 0 PROVE image' = disk
  <2>1. P!Direction = 1 /\ P!Here = P!Current.data
    BY <1>1, <1>7, PpfTypes DEF P!ApplyRecord, P!Matches, P!Direction
  <2>2. image = disk
    BY <1>1, <1>7, <2>1, PpfTypes DEF P!Direction
  <2>3. P!Here = [j \in 1 .. Len(r.data) |-> image[r.address + j - 1]] /\ P!Current = r
    BY <1>4 DEF P!Here, P!Bytes, P!Current
  <2>4. ASSUME NEW x \in r.address .. r.address + Len(r.data) - 1
        PROVE  r.data[x - r.address + 1] = image[x]
    <3>1. x - r.address + 1 \in 1 .. Len(r.data) /\ r.address + (x - r.address + 1) - 1 = x
      BY <1>5
    <3> QED
      BY <2>1, <2>3, <3>1
  <2>5. image' = [x \in DOMAIN image |-> image[x]]
    <3>1. /\ image' = [x \in DOMAIN image |-> image'[x]]
          /\ \A x \in DOMAIN image :
               image'[x] = IF x \in r.address .. P!RecordEnd - 1
                           THEN r.data[x - r.address + 1] ELSE image[x]
      BY <1>1, <2>3 DEF P!Patched
    <3>2. P!RecordEnd = r.address + Len(r.data)
      BY <2>3 DEF P!RecordEnd
    <3>3. \A x \in DOMAIN image : image'[x] = image[x]
      <4> SUFFICES ASSUME NEW x \in DOMAIN image PROVE image'[x] = image[x]
        OBVIOUS
      <4>1. CASE x \in r.address .. P!RecordEnd - 1
        <5>1. image'[x] = r.data[x - r.address + 1]
          BY <3>1, <4>1
        <5>2. x \in r.address .. r.address + Len(r.data) - 1
          BY <1>5, <3>2, <4>1
        <5> QED
          BY <2>4, <5>1, <5>2, Zenon
      <4>2. CASE x \notin r.address .. P!RecordEnd - 1
        BY <3>1, <4>2
      <4> QED
        BY <4>1, <4>2
    <3> QED
      BY <3>1, <3>3, Zenon
  <2>6. disk = [x \in DOMAIN disk |-> disk[x]]
    BY DEF PpfInv, PpfMakerInv, PpfFiles, P!File
  <2> QED
    BY <2>2, <2>5, <2>6
<1>8. isReverse' # -1 => undo
  BY <1>1, PpfTypes
<1> QED
  BY <1>1, <1>2, <1>3, <1>6, <1>7, <1>8, PpfTypes, PpfMemoryStep

LEMMA PpfMismatch == ASSUME PpfInv, P!Mismatch PROVE PpfInv'
<1>1. /\ UNCHANGED <<P!makervars, P!diskvars, record, image, before, ret>>
      /\ ppc = "apply" /\ ppc' = "back" /\ undo /\ applied' = 1 /\ isReverse' = P!Direction
  BY DEF P!Mismatch, P!Applicable
<1>2. isReverse' \in -1 .. 1
  BY <1>1, PpfTypes, PpfDirection
<1>3. isReverse' # 0 => image = disk
  BY <1>1, PpfTypes DEF P!Direction
<1> QED
  BY <1>1, <1>2, <1>3, PpfTypes, PpfMemoryStep

LEMMA PpfAllApplied == ASSUME PpfInv, P!Applied PROVE PpfInv'
<1>1. /\ UNCHANGED <<P!makervars, P!diskvars, record, isReverse, image, applied, before, ret>>
      /\ ppc = "apply" /\ record = Len(ppf) + 1 /\ ppc' = "back"
  BY DEF P!Applied, P!runvars, P!AtEnd
<1>2. applied = 0 /\ image = PpfApplied(disk, record - 1) /\ record - 1 = Len(ppf)
  BY <1>1, PpfTypes DEF PpfInv, PpfRunInv
<1>3. image' = P!AllRecords(disk)
  BY <1>1, <1>2, PpfAppliedFile DEF PpfInv
<1> QED
  BY <1>1, <1>2, <1>3, PpfTypes, PpfMemoryStep

LEMMA PpfReport == ASSUME PpfInv, P!Report PROVE PpfInv'
<1>1. /\ UNCHANGED <<P!makervars, sizdisk, record, isReverse, image, applied, before>>
      /\ ppc = "back" /\ ppc' = "returned" /\ ret' = 0
      /\ disk' = IF applied = 0 THEN image ELSE disk
  BY DEF P!Report, P!Return, P!WriteBack, P!runvars
<1>2. applied = 0 => image = P!AllRecords(disk)
  BY <1>1 DEF PpfInv, PpfRunInv
<1>3. disk' \in P!File(sizdisk)
  <2>1. P!AllRecords(disk) \in P!File(sizdisk)
    BY PpfAppliedFile, PpfTypes DEF PpfInv
  <2> QED
    BY <1>1, <1>2, <2>1 DEF PpfInv, PpfMakerInv, PpfFiles
<1>4. PpfMakerInv'
  BY <1>1, <1>3, PpfMakerSame DEF PpfInv
<1>5. UNCHANGED <<new, ppf, undo, mpc>>
  BY <1>1 DEF P!makervars, P!filevars, P!headvars
<1>6. P!AllRecords(before[1])' = P!AllRecords(before[1])
  BY <1>1, <1>5, PpfAppliedSame
<1>7. PpfRunInv'
  BY <1>1, <1>2, <1>5, <1>6, PpfTypes DEF PpfInv, PpfRunInv, P!FitsItsFile, P!TakesNothingBack
<1> QED
  BY <1>4, <1>7 DEF PpfInv

(* Every step of xenoppf keeps its invariant.                              *)
LEMMA PpfNextInv == ASSUME PpfInv, P!Next PROVE PpfInv'
BY PpfWriteRegion, PpfFinish, PpfNotPpf, PpfStart, PpfDryRecord, PpfDryFails, PpfLoad,
   PpfOverrun, PpfApplyRecord, PpfMismatch, PpfAllApplied, PpfReport DEF P!Next

LEMMA PpfStutterInv == ASSUME PpfInv, UNCHANGED P!vars PROVE PpfInv'
<1>1. UNCHANGED <<P!makervars, P!diskvars, disk, sizdisk, ppc, record, isReverse, image,
                  ret, applied, before>>
  BY DEF P!vars, P!runvars, P!diskvars
<1>2. UNCHANGED <<new, ppf, size, mode, blockcheck, undo, mpc>>
  BY <1>1 DEF P!makervars, P!filevars, P!headvars
<1>3. PpfMakerInv'
  BY <1>1, PpfMakerSame DEF PpfInv, PpfMakerInv, PpfFiles
<1>4. /\ P!AllRecords(disk)' = P!AllRecords(disk)
      /\ P!AllRecords(before[1])' = P!AllRecords(before[1])
      /\ PpfApplied(disk, record - 1)' = PpfApplied(disk, record - 1)
  BY <1>1, <1>2, PpfAppliedSame
<1>5. P!FitsItsFile' /\ P!TakesNothingBack'
  BY <1>1, <1>2 DEF PpfInv, PpfRunInv, P!FitsItsFile, P!ReadsFile, P!TakesNothingBack
<1>6. PpfRunInv'
  BY <1>1, <1>2, <1>4, <1>5 DEF PpfInv, PpfRunInv
<1> QED
  BY <1>3, <1>6 DEF PpfInv

(* What the invariant says of a patch: it turns the old file into the new  *)
(* one, any file is changed by all of its records or by none, and none is  *)
(* taken back.                                                             *)
LEMMA PpfMeaning ==
  PpfInv => P!TypeOK /\ P!RoundTrip /\ P!AllOrNothing /\ P!TakesNothingBack /\ P!FitsItsFile
<1> SUFFICES ASSUME PpfInv
             PROVE  /\ P!TypeOK /\ P!RoundTrip /\ P!AllOrNothing
                    /\ P!TakesNothingBack /\ P!FitsItsFile
  OBVIOUS
<1>1. PpfMakerInv /\ PpfRunInv
  BY DEF PpfInv
<1>2. P!TypeOK
  BY <1>1 DEF PpfMakerInv, PpfFiles, PpfRunInv, PpfRecordIs, PpfRecord, P!TypeOK
<1>3. ASSUME ppc = "returned", ret = 0, ~undo, before \in {<<old, size>>, <<new, size>>}
      PROVE  disk = new
  <2>1. disk = P!AllRecords(before[1]) /\ mpc = "made"
    BY <1>1, <1>3, PpfTypes DEF PpfRunInv
  <2>2. old \in [0 .. size - 1 -> ByteValues] /\ new \in [0 .. size - 1 -> ByteValues]
    BY <1>1 DEF PpfMakerInv, PpfFiles, P!File, P!Positions
  <2>3. \A x \in 0 .. size - 1 : old[x] = new[x] \/ InPpf(x, Len(ppf))
    BY <1>1, <2>1 DEF PpfMakerInv
  <2>4. before[1] \in {old, new}
    BY <1>3
  <2> QED
    BY <2>1, <2>2, <2>3, <2>4 DEF P!AllRecords, InPpf
<1>4. P!AllOrNothing
  BY <1>1 DEF PpfRunInv, P!AllOrNothing
<1> QED
  BY <1>1, <1>2, <1>3, <1>4 DEF P!RoundTrip, PpfRunInv

-----------------------------------------------------------------------------
(***************************************************************************)
(* xenowips.  A record that moves, of whatever maker, lies within the      *)
(* files the patch is between and holds bytes of the new one; in a patch   *)
(* of another maker, the only ones that have a header, its step leads from *)
(* where the record before is to where it is meant to go.  Whether there   *)
(* is an "end", and where, is left open, as is where such records are.     *)
(***************************************************************************)
MoveKinds == {"relative", "absolute"}

WipsRecord == [kind : MoveKinds \cup {"end", "unknown"}, step : Int, address : Nat,
               data : Seq(ByteValues)]

WipsRecordIs(r) ==
  /\ r \in WipsRecord /\ Len(r.data) <= ChunkMax
  /\ r.kind \notin MoveKinds => r.data = <<>>
  /\ r.kind \in MoveKinds =>
       /\ r.address + Len(r.data) <= size
       /\ \A j \in 1 .. Len(r.data) : r.data[j] = new[r.address + j - 1]

(* Where the record before the m-th one is, from which its step counts.    *)
WipsOffset(m) == IF m = 1 THEN 0 ELSE wips[m - 1].address

WipsStepIs(k) ==
  /\ wips[k].kind = "relative" => WipsOffset(k) + wips[k].step = wips[k].address
  /\ wips[k].kind = "absolute" => wips[k].step = wips[k].address

InWips(x, m) ==
  \E k \in 1 .. m : x \in wips[k].address .. wips[k].address + Len(wips[k].data) - 1

WipsApplied(f, m) == [x \in DOMAIN f |-> IF InWips(x, m) THEN new[x] ELSE f[x]]

WipsFiles ==
  /\ size \in Nat /\ old \in W!File(size) /\ new \in W!File(size)
  /\ sizdisk \in Nat /\ disk \in W!File(sizdisk)

WipsMakerInv ==
  /\ WipsFiles /\ i \in Nat /\ current_end \in 0 .. size /\ mpc \in {"scan", "made"}
  /\ header \in BOOLEAN /\ checked \in BOOLEAN
  /\ mpc = "scan" => ~header
  /\ wips \in Seq(WipsRecord)
  /\ \A k \in 1 .. Len(wips) : WipsRecordIs(wips[k])
  /\ header => \A k \in 1 .. Len(wips) : WipsStepIs(k)
  /\ ~header => \A x \in 0 .. size - 1 :
                  x < i \/ mpc = "made" => old[x] = new[x] \/ InWips(x, Len(wips))

(* Any files, and no patch yet or one made by anybody.                     *)
WipsAnyStart == W!AnyFiles /\ WipsMakerInv

(* Up to where the patcher is all records move, and the offset it has is   *)
(* the address of the last of them.                                        *)
WipsAtRecord ==
  /\ offset = WipsOffset(record) /\ applied = 0
  /\ \A k \in 1 .. record - 1 : wips[k].kind \in MoveKinds

(* What a well formed patch comes to.                                      *)
WipsWhole ==
  /\ ppc = "back" => IF applied = 0 THEN image = W!AllRecords(disk)
                                    ELSE before # <<old, size>>
  /\ ppc = "crashed" => sizdisk = 0
  /\ ppc = "returned" /\ ret = 0 =>
       IF applied = 0 THEN disk = W!AllRecords(before[1])
                      ELSE disk = before[1] /\ before # <<old, size>>

WipsRunInv ==
  /\ ppc \in {"idle", "dry", "check", "apply", "back", "returned", "crashed", "stuck"}
  /\ record \in 1 .. Len(wips) + 1 /\ offset \in Nat /\ length \in 0 .. ChunkMax
  /\ ret \in {0, 1, 2, 4} /\ applied \in 0 .. 2
  /\ mpc = "scan" => ppc = "idle"
  /\ ~header => ppc = "idle" \/ (ppc = "returned" /\ ret # 0)
  /\ ppc = "idle" => record = 1
  /\ ppc # "returned" \/ ret # 0 => before = <<disk, sizdisk>>
  /\ ppc \in {"idle", "dry", "check", "apply"} => WipsAtRecord
  /\ ppc = "check" => record = 1 /\ image = disk
  /\ ppc = "apply" => image = WipsApplied(disk, record - 1) /\ sizdisk \in {0, size}
  /\ ppc = "back" => image \in W!File(sizdisk)
  /\ ppc \in {"check", "apply", "back"} \/ (ppc = "returned" /\ ret = 0) =>
       ~(checked /\ before # <<old, size>>)
  /\ W!WellFormed => WipsWhole

WipsInv == WipsMakerInv /\ WipsRunInv

-----------------------------------------------------------------------------
LEMMA WipsOwnStart == W!OwnInit => WipsAnyStart
<1> SUFFICES ASSUME W!OwnInit PROVE WipsAnyStart
  OBVIOUS
<1>1. W!AnyFiles /\ wips = <<>> /\ mpc = "scan" /\ i = 0 /\ header = FALSE /\ checked = FALSE
  BY DEF W!OwnInit, W!AnyFiles
<1>2. WipsFiles
  BY WipsAssumption DEF W!OwnInit, W!AnyFiles, WipsFiles, W!SizesAssumption
<1>3. wips \in Seq(WipsRecord) /\ \A k \in 1 .. Len(wips) : WipsRecordIs(wips[k])
  BY <1>1
<1>4. size \in Nat
  BY <1>2 DEF WipsFiles
<1>5. i \in Nat /\ current_end \in 0 .. size
  BY <1>1, <1>4 DEF W!AnyFiles
<1>6. \A x \in 0 .. size - 1 : ~(x < i \/ mpc = "made")
  BY <1>1, <1>4
<1> QED
  BY <1>1, <1>2, <1>3, <1>5, <1>6, Zenon DEF WipsAnyStart, WipsMakerInv

LEMMA WipsStartInv == WipsAnyStart => WipsInv
<1> SUFFICES ASSUME WipsAnyStart PROVE WipsInv
  OBVIOUS
<1>1. WipsMakerInv /\ Len(wips) \in Nat
  BY DEF WipsAnyStart, WipsMakerInv
<1>2. /\ before = <<disk, sizdisk>> /\ ppc = "idle" /\ record = 1 /\ offset = 0
      /\ length = 0 /\ ret = 0 /\ applied = 0
  BY DEF WipsAnyStart, W!AnyFiles, W!diskvars
<1>3. WipsAtRecord /\ WipsWhole
  BY <1>2 DEF WipsAtRecord, WipsOffset, WipsWhole
<1>4. WipsRunInv
  BY <1>1, <1>2, <1>3, ChunkMaxType DEF WipsRunInv
<1> QED
  BY <1>1, <1>4 DEF WipsInv

LEMMA WipsOneRegion ==
  ASSUME size \in Nat, i \in Nat, NEW address \in 0 .. size, NEW final \in 0 .. size,
         W!IsRegion(old, new, size, Window, i, address, final)
  PROVE  /\ i <= address /\ address < final
         /\ \A x \in i .. address - 1 : old[x] = new[x]
         /\ final < size => old[final] = new[final]
<1>1. /\ i <= address /\ address < final
      /\ \A x \in i .. address - 1 : old[x] = new[x]
      /\ ~W!WindowDiffers(old, new, size, Window, final)
  BY DEF W!IsRegion
<1>2. ASSUME final < size PROVE old[final] = new[final]
  <2>1. final \in final .. final + W!least(Window, size - final) - 1
    BY <1>2, ChunkMaxType DEF W!least
  <2> QED
    BY <1>1, <2>1 DEF W!WindowDiffers
<1> QED
  BY <1>1, <1>2

LEMMA WipsRecordsOf ==
  ASSUME WipsFiles, current_end \in 0 .. size,
         NEW address \in 0 .. size, NEW final \in 0 .. size, address < final
  PROVE  /\ W!Records(address, final) \in Seq(WipsRecord)
         /\ \A k \in 1 .. Len(W!Records(address, final)) :
              WipsRecordIs(W!Records(address, final)[k])
         /\ \A x \in address .. final - 1 :
              \E k \in 1 .. Len(W!Records(address, final)) :
                LET r == W!Records(address, final)[k]
                IN  x \in r.address .. r.address + Len(r.data) - 1
<1> DEFINE m == final - address
           N == ChunkCount(m, ChunkMax)
           start(k) == address + (k - 1) * ChunkMax
           len(k) == ChunkLen(m, ChunkMax, k)
           r(k) == [kind |-> "relative", step |-> start(k) - current_end,
                    address |-> start(k), data |-> W!Bytes(new, start(k), len(k))]
<1>1. size \in Nat /\ m \in Nat /\ m > 0 /\ ChunkMax \in Nat /\ ChunkMax > 0 /\ N \in Nat
      /\ address \in Nat /\ final <= size
  BY ChunkMaxType DEF WipsFiles, ChunkCount
<1>2. ASSUME NEW k \in 1 .. N
      PROVE  /\ start(k) \in address .. final - 1 /\ len(k) \in 1 .. ChunkMax
             /\ start(k) + len(k) <= final
             /\ W!Chunk(final - start(k)) = len(k)
  <2>1. (k - 1) * ChunkMax \in 0 .. m - 1 /\ ChunkLen(m, ChunkMax, k) \in 1 .. ChunkMax
        /\ (k - 1) * ChunkMax + ChunkLen(m, ChunkMax, k) <= m
    BY <1>1, ChunkStart
  <2>2. PICK d : d = (k - 1) * ChunkMax
    OBVIOUS
  <2>3. final - start(k) = m - d
    BY <1>1, <2>1, <2>2
  <2>4. W!Chunk(final - start(k)) = len(k)
    BY <2>3, <2>2 DEF W!Chunk, W!least, ChunkLen
  <2> QED
    BY <1>1, <2>1, <2>2, <2>4
<1>3. W!Records(address, final) = [k \in 1 .. N |-> r(k)]
  BY <1>2 DEF W!Records, ChunkCount
<1>4. ASSUME NEW k \in 1 .. N
      PROVE  WipsRecordIs(r(k)) /\ Len(r(k).data) = len(k) /\ r(k).address = start(k)
  <2> DEFINE s == start(k)
             n == len(k)
  <2>1. s \in Nat /\ n \in 1 .. ChunkMax /\ s + n <= size /\ s - current_end \in Int
    BY <1>1, <1>2
  <2> HIDE DEF s, n
  <2>2. /\ W!Bytes(new, s, n) \in Seq(ByteValues) /\ Len(W!Bytes(new, s, n)) = n
        /\ \A j \in 1 .. n : W!Bytes(new, s, n)[j] = new[s + j - 1]
    <3>1. \A j \in 1 .. n : s + j - 1 \in 0 .. size - 1
      BY <1>1, <2>1
    <3>2. \A j \in 1 .. n : new[s + j - 1] \in ByteValues
      BY <3>1 DEF WipsFiles, W!File, W!Positions
    <3>3. n \in Nat
      BY <1>1, <2>1
    <3> QED
      BY <3>2, <3>3, BytesFacts DEF W!Bytes
  <2>3. WipsRecordIs([kind |-> "relative", step |-> s - current_end, address |-> s,
                      data |-> W!Bytes(new, s, n)])
    BY <1>1, <2>1, <2>2 DEF WipsRecordIs, WipsRecord, MoveKinds
  <2> QED
    BY <2>2, <2>3 DEF s, n
<1>5. ASSUME NEW x \in address .. final - 1
      PROVE  \E k \in 1 .. N : x \in start(k) .. start(k) + len(k) - 1
  <2>1. x - address \in 0 .. m - 1
    BY <1>1
  <2>2. PICK k \in 1 .. N :
          x - address \in (k - 1) * ChunkMax .. (k - 1) * ChunkMax + len(k) - 1
    BY <1>1, <2>1, ChunkOf
  <2>3. PICK d : d = (k - 1) * ChunkMax
    OBVIOUS
  <2>4. d \in Nat /\ len(k) \in Nat
    BY <1>1, <1>2, <2>3
  <2>5. x \in address + d .. address + d + len(k) - 1
    BY <1>1, <2>2, <2>3, <2>4
  <2> QED
    BY <2>3, <2>5
<1> HIDE DEF r, start, len, N
<1>6. Len(W!Records(address, final)) = N
  BY <1>1, <1>3
<1>7. \A k \in 1 .. N : W!Records(address, final)[k] = r(k) /\ r(k) \in WipsRecord
  BY <1>3, <1>4 DEF WipsRecordIs
<1>8. W!Records(address, final) \in Seq(WipsRecord)
  BY <1>1, <1>3, <1>7
<1> QED
  BY <1>4, <1>5, <1>6, <1>7, <1>8

-----------------------------------------------------------------------------
LEMMA WipsWriteRegion == ASSUME WipsInv, W!WriteRegion PROVE WipsInv'
<1>1. /\ UNCHANGED <<old, new, size, mpc, header, checked, disk, sizdisk, ppc, record,
                     offset, length, image, ret, applied, before>>
      /\ mpc = "scan"
  BY DEF W!WriteRegion, W!diskvars, W!runvars, W!filevars
<1>2. PICK address \in 0 .. size, final \in 0 .. size :
        /\ W!IsRegion(old, new, size, Window, i, address, final)
        /\ wips' = wips \o W!Records(address, final)
        /\ i' = final + 1 /\ current_end' = final
  BY DEF W!WriteRegion
<1>3. PICK R : R = W!Records(address, final)
  OBVIOUS
<1>4. WipsFiles /\ size \in Nat /\ i \in Nat /\ wips \in Seq(WipsRecord)
      /\ Len(wips) \in Nat /\ current_end \in 0 .. size /\ ~header
  BY <1>1 DEF WipsInv, WipsMakerInv, WipsFiles
<1>5. /\ i <= address /\ address < final
      /\ \A x \in i .. address - 1 : old[x] = new[x]
      /\ final < size => old[final] = new[final]
  BY <1>2, <1>4, WipsOneRegion
<1>6. /\ R \in Seq(WipsRecord) /\ Len(R) \in Nat
      /\ \A k \in 1 .. Len(R) : WipsRecordIs(R[k])
      /\ \A x \in address .. final - 1 :
           \E k \in 1 .. Len(R) : x \in R[k].address .. R[k].address + Len(R[k].data) - 1
  <2>1. /\ R \in Seq(WipsRecord) /\ \A k \in 1 .. Len(R) : WipsRecordIs(R[k])
        /\ \A x \in address .. final - 1 :
             \E k \in 1 .. Len(R) : x \in R[k].address .. R[k].address + Len(R[k].data) - 1
    BY <1>3, <1>4, <1>5, WipsRecordsOf, Zenon
  <2> QED
    BY <2>1, LenProperties
<1>7. /\ wips' \in Seq(WipsRecord) /\ Len(wips') = Len(wips) + Len(R)
      /\ \A k \in 1 .. Len(wips) : wips'[k] = wips[k]
      /\ \A k \in 1 .. Len(R) : wips'[Len(wips) + k] = R[k]
  BY <1>2, <1>3, <1>4, <1>6
<1>8. ASSUME NEW k \in 1 .. Len(wips') PROVE WipsRecordIs(wips[k])'
  <2>1. PICK r : r = wips'[k] /\ WipsRecordIs(r)
    <3>1. CASE k \in 1 .. Len(wips)
      BY <1>7, <3>1 DEF WipsInv, WipsMakerInv
    <3>2. CASE k - Len(wips) \in 1 .. Len(R)
      <4>1. k = Len(wips) + (k - Len(wips))
        BY <1>4
      <4> QED
        BY <1>6, <1>7, <3>2, <4>1
    <3> QED
      BY <1>4, <1>6, <1>7, <3>1, <3>2
  <2> QED
    BY <1>1, <2>1 DEF WipsRecordIs
<1>9. ASSUME NEW x \in 0 .. size - 1, x < final + 1
      PROVE  old[x] = new[x] \/ InWips(x, Len(wips))'
  <2>1. CASE x < i
    <3>1. old[x] = new[x] \/ InWips(x, Len(wips))
      BY <1>4, <2>1 DEF WipsInv, WipsMakerInv
    <3>2. ASSUME InWips(x, Len(wips)) PROVE InWips(x, Len(wips))'
      <4>1. PICK k \in 1 .. Len(wips) :
              x \in wips[k].address .. wips[k].address + Len(wips[k].data) - 1
        BY <3>2 DEF InWips
      <4>2. k \in 1 .. Len(wips')
        BY <1>4, <1>6, <1>7
      <4>3. wips'[k] = wips[k]
        BY <1>7
      <4> QED
        BY <4>1, <4>2, <4>3 DEF InWips
    <3> QED
      BY <3>1, <3>2
  <2>2. CASE x \in i .. address - 1
    BY <1>5, <2>2
  <2>3. CASE x = final
    BY <1>4, <1>5, <2>3
  <2>4. CASE x \in address .. final - 1
    <3>1. PICK k \in 1 .. Len(R) : x \in R[k].address .. R[k].address + Len(R[k].data) - 1
      BY <1>6, <2>4
    <3>2. PICK l : l = Len(wips) + k
      OBVIOUS
    <3>3. wips'[l] = R[k] /\ l \in 1 .. Len(wips')
      BY <1>4, <1>6, <1>7, <3>2
    <3> QED
      BY <3>1, <3>3 DEF InWips
  <2> QED
    BY <1>4, <1>5, <1>9, <2>1, <2>2, <2>3, <2>4
<1>10. WipsMakerInv'
  <2>1. WipsFiles'
    BY <1>1, <1>4 DEF WipsFiles, W!File, W!Positions
  <2>2. i' \in Nat /\ current_end' \in 0 .. size'
    BY <1>1, <1>2, <1>4
  <2>3. mpc' \in {"scan", "made"} /\ header' \in BOOLEAN /\ checked' \in BOOLEAN /\ ~header'
    BY <1>1, <1>4, Zenon DEF WipsInv, WipsMakerInv
  <2>4. \A x \in 0 .. size' - 1 :
          x < i' \/ mpc' = "made" => old'[x] = new'[x] \/ InWips(x, Len(wips))'
    BY <1>1, <1>2, <1>9
  <2> QED
    BY <1>7, <1>8, <2>1, <2>2, <2>3, <2>4 DEF WipsMakerInv
<1>11. WipsRunInv'
  <2>1. /\ ppc = "idle" /\ record = 1 /\ before = <<disk, sizdisk>> /\ applied = 0
        /\ offset = 0 /\ length \in 0 .. ChunkMax /\ ret \in {0, 1, 2, 4}
    BY <1>1 DEF WipsInv, WipsRunInv, WipsAtRecord, WipsOffset
  <2>2. WipsAtRecord' /\ WipsWhole'
    BY <1>1, <2>1 DEF WipsAtRecord, WipsOffset, WipsWhole
  <2> QED
    BY <1>1, <1>4, <1>6, <1>7, <2>1, <2>2 DEF WipsRunInv
<1> QED
  BY <1>10, <1>11 DEF WipsInv

LEMMA WipsFinish == ASSUME WipsInv, W!Finish PROVE WipsInv'
<1>1. /\ UNCHANGED <<old, new, size, i, current_end, wips, header, checked, disk, sizdisk,
                     ppc, record, offset, length, image, ret, applied, before>>
      /\ mpc = "scan" /\ mpc' = "made" /\ W!NoRegion(old, new, size, i)
  BY DEF W!Finish, W!diskvars, W!runvars, W!filevars
<1>2. ~header /\ ppc = "idle"
  BY <1>1 DEF WipsInv, WipsMakerInv, WipsRunInv
<1>3. \A x \in 0 .. size - 1 : old[x] = new[x] \/ InWips(x, Len(wips))
  BY <1>1, <1>2 DEF WipsInv, WipsMakerInv, W!NoRegion
<1>4. WipsFiles'
  BY <1>1 DEF WipsInv, WipsMakerInv, WipsFiles, W!File, W!Positions
<1>5. \A k \in 1 .. Len(wips') : WipsRecordIs(wips[k])'
  BY <1>1 DEF WipsInv, WipsMakerInv, WipsRecordIs
<1>6. WipsMakerInv'
  BY <1>1, <1>2, <1>3, <1>4, <1>5 DEF WipsInv, WipsMakerInv, InWips
<1>7. WipsAtRecord' /\ WipsWhole'
  BY <1>1, <1>2 DEF WipsInv, WipsRunInv, WipsAtRecord, WipsOffset, WipsWhole
<1>8. WipsRunInv'
  BY <1>1, <1>2, <1>7 DEF WipsInv, WipsRunInv
<1> QED
  BY <1>6, <1>8 DEF WipsInv

(* The steps of the patcher leave the patch as it is.                      *)
LEMMA WipsMakerSame ==
  ASSUME WipsMakerInv, UNCHANGED <<W!makervars, sizdisk>>, disk' \in W!File(sizdisk)
  PROVE  WipsMakerInv'
<1>1. UNCHANGED <<old, new, size, mpc, i, current_end, wips, header, checked, sizdisk>>
  BY DEF W!makervars, W!filevars
<1>2. WipsFiles'
  BY <1>1 DEF WipsMakerInv, WipsFiles, W!File, W!Positions
<1>3. ASSUME NEW x, InWips(x, Len(wips)) PROVE InWips(x, Len(wips))'
  BY <1>1, <1>3 DEF InWips
<1>4. ASSUME NEW k \in 1 .. Len(wips') PROVE WipsRecordIs(wips[k])'
  BY <1>1 DEF WipsMakerInv, WipsRecordIs
<1>5. header' => \A k \in 1 .. Len(wips') : WipsStepIs(k)'
  BY <1>1 DEF WipsMakerInv, WipsStepIs, WipsOffset
<1> QED
  BY <1>1, <1>2, <1>3, <1>4, <1>5 DEF WipsMakerInv

LEMMA WipsAppliedSame ==
  ASSUME UNCHANGED <<new, wips>>, NEW f
  PROVE  /\ W!AllRecords(f)' = W!AllRecords(f') /\ \A m : WipsApplied(f, m)' = WipsApplied(f', m)
BY DEF W!AllRecords, WipsApplied, InWips

LEMMA WipsAppliedFile ==
  ASSUME WipsMakerInv
  PROVE  /\ \A m \in 0 .. Len(wips) : WipsApplied(disk, m) \in W!File(sizdisk)
         /\ W!AllRecords(disk) = WipsApplied(disk, Len(wips))
<1>1. ASSUME NEW m \in 0 .. Len(wips), NEW x, InWips(x, m) PROVE new[x] \in ByteValues
  <2>1. PICK k \in 1 .. m : x \in wips[k].address .. wips[k].address + Len(wips[k].data) - 1
    BY <1>1 DEF InWips
  <2>2. WipsRecordIs(wips[k]) /\ size \in Nat
    BY DEF WipsMakerInv, WipsFiles
  <2>3. wips[k].address \in Nat /\ Len(wips[k].data) \in Nat
    BY <2>2 DEF WipsRecordIs, WipsRecord
  <2>4. wips[k].data # <<>>
    BY <2>1, <2>3
  <2>5. wips[k].address + Len(wips[k].data) <= size
    BY <2>2, <2>4 DEF WipsRecordIs
  <2>6. x \in 0 .. size - 1
    BY <2>1, <2>2, <2>3, <2>5
  <2> QED
    BY <2>6 DEF WipsMakerInv, WipsFiles, W!File, W!Positions
<1>2. disk \in [0 .. sizdisk - 1 -> ByteValues]
  BY DEF WipsMakerInv, WipsFiles, W!File, W!Positions
<1> QED
  BY <1>1, <1>2 DEF WipsApplied, W!AllRecords, InWips, W!File, W!Positions

(* The types of what a step of the patcher reads.                          *)
LEMMA WipsTypes ==
  ASSUME WipsInv
  PROVE  /\ record \in 1 .. Len(wips) + 1 /\ Len(wips) \in Nat
         /\ offset \in Nat /\ length \in 0 .. ChunkMax
         /\ ret \in {0, 1, 2, 4} /\ applied \in 0 .. 2
         /\ size \in Nat /\ sizdisk \in Nat
         /\ ppc # "idle" => mpc = "made"
         /\ ppc \in {"dry", "check", "apply", "back", "crashed", "stuck"} => header
         /\ ppc # "returned" => before = <<disk, sizdisk>>
         /\ ppc \in {"idle", "dry", "check", "apply"} => applied = 0
BY DEF WipsInv, WipsMakerInv, WipsFiles, WipsRunInv, WipsAtRecord

(* A step of the patcher that does not touch the file on disk.             *)
LEMMA WipsMemoryStep ==
  ASSUME WipsInv, ppc # "returned", mpc = "made",
         UNCHANGED <<W!makervars, W!diskvars, before>>,
         header \/ ppc' = "returned",
         ppc' \in {"dry", "check", "apply", "back", "returned", "crashed", "stuck"},
         record' \in 1 .. Len(wips) + 1, offset' \in Nat, length' \in 0 .. ChunkMax,
         ret' \in {0, 1, 2, 4}, applied' \in 0 .. 2,
         ppc' = "returned" => ret' # 0,
         ppc' \in {"dry", "check", "apply"} =>
           /\ offset' = WipsOffset(record') /\ applied' = 0
           /\ \A k \in 1 .. record' - 1 : wips[k].kind \in MoveKinds,
         ppc' = "check" => record' = 1 /\ image' = disk,
         ppc' = "apply" => image' = WipsApplied(disk, record' - 1) /\ sizdisk \in {0, size},
         ppc' = "back" => image' \in W!File(sizdisk),
         ppc' \in {"check", "apply", "back"} => ~W!WrongFile,
         W!WellFormed /\ ppc' = "back" =>
           IF applied' = 0 THEN image' = W!AllRecords(disk) ELSE W!diskvars # <<old, size>>,
         W!WellFormed /\ ppc' = "crashed" => sizdisk = 0
  PROVE  WipsInv'
<1>1. /\ UNCHANGED <<old, new, size, mpc, i, current_end, wips, header, checked, disk,
                     sizdisk, before>>
      /\ before = <<disk, sizdisk>> /\ W!diskvars = <<disk, sizdisk>>
  BY DEF W!makervars, W!filevars, W!diskvars, WipsInv, WipsRunInv
<1>2. WipsMakerInv'
  BY <1>1, WipsMakerSame DEF WipsInv, WipsMakerInv, WipsFiles
<1>3. ppc' = "apply" => (image = WipsApplied(disk, record - 1))'
  BY <1>1, WipsAppliedSame
<1>4. W!AllRecords(disk)' = W!AllRecords(disk)
  BY <1>1, WipsAppliedSame
<1>5. W!WellFormed' = W!WellFormed
  BY <1>1 DEF W!WellFormed, W!Last
<1>6. W!WellFormed => WipsWhole'
  BY <1>1, <1>4 DEF WipsWhole
<1>7. ppc' \in {"idle", "dry", "check", "apply"} => WipsAtRecord'
  BY <1>1 DEF WipsAtRecord, WipsOffset
<1>8. ppc' = "back" => (image \in W!File(sizdisk))'
  BY <1>1 DEF W!File, W!Positions
<1>9. ppc' \in {"check", "apply", "back"} \/ (ppc' = "returned" /\ ret' = 0) =>
        ~(checked' /\ before' # <<old', size'>>)
  BY <1>1 DEF W!WrongFile
<1>10. WipsRunInv'
  BY <1>1, <1>3, <1>5, <1>6, <1>7, <1>8, <1>9 DEF WipsRunInv
<1> QED
  BY <1>2, <1>10 DEF WipsInv

(* A record that moves goes where its maker meant it to go.                *)
LEMMA WipsTarget ==
  ASSUME WipsInv, ppc \in {"dry", "apply"}, W!Moves
  PROVE  /\ record \in 1 .. Len(wips) /\ W!Target = wips[record].address
         /\ wips[record].kind \in MoveKinds /\ WipsRecordIs(wips[record])
         /\ wips[record].address \in Nat /\ Len(wips[record].data) \in 0 .. ChunkMax
<1>1. record \in 1 .. Len(wips) /\ wips[record].kind \in MoveKinds
  BY WipsTypes DEF W!Moves, W!AtEnd, W!Current, MoveKinds
<1>2. offset = WipsOffset(record) /\ header
  BY WipsTypes DEF WipsInv, WipsRunInv, WipsAtRecord
<1>3. WipsStepIs(record) /\ WipsRecordIs(wips[record])
  BY <1>1, <1>2 DEF WipsInv, WipsMakerInv
<1>4. W!Target = wips[record].address
  BY <1>1, <1>2, <1>3 DEF W!Target, W!Current, WipsStepIs, MoveKinds
<1>5. wips[record].address \in Nat /\ Len(wips[record].data) \in 0 .. ChunkMax
  BY <1>3, ChunkMaxType, LenProperties DEF WipsRecordIs, WipsRecord
<1> QED
  BY <1>1, <1>3, <1>4, <1>5

(* In a well formed patch the patcher comes to the "end" at its end, and   *)
(* to no record of an unknown kind.                                        *)
LEMMA WipsWellFormed ==
  ASSUME WipsInv, ppc = "apply", W!WellFormed
  PROVE  /\ ~W!Astray
         /\ W!Ends => record = Len(wips)
<1>1. /\ record \in 1 .. Len(wips) + 1 /\ Len(wips) \in Nat /\ wips # <<>>
      /\ wips \in Seq(WipsRecord)
      /\ \A k \in 1 .. record - 1 : wips[k].kind \in MoveKinds
  BY WipsTypes DEF WipsInv, WipsMakerInv, WipsRunInv, WipsAtRecord, W!WellFormed
<1>2. Len(wips) > 0
  BY <1>1
<1>3. /\ wips[Len(wips)].kind = "end"
      /\ \A k \in 1 .. Len(wips) - 1 : wips[k].kind \in MoveKinds
  BY DEF W!WellFormed, W!Last, MoveKinds
<1>4. record # Len(wips) + 1
  <2>1. ASSUME record = Len(wips) + 1 PROVE wips[Len(wips)].kind \in MoveKinds
    BY <1>1, <1>2, <2>1
  <2> QED
    BY <1>3, <2>1 DEF MoveKinds
<1>5. record \in 1 .. Len(wips) - 1 \/ record = Len(wips)
  BY <1>1, <1>4
<1>6. wips[record].kind # "unknown"
  BY <1>3, <1>5 DEF MoveKinds
<1>7. record # Len(wips) => wips[record].kind # "end"
  BY <1>3, <1>5 DEF MoveKinds
<1> QED
  BY <1>4, <1>6, <1>7 DEF W!Astray, W!AtEnd, W!Ends, W!Current

LEMMA WipsNotWips == ASSUME WipsInv, W!NotWips PROVE WipsInv'
<1>1. /\ UNCHANGED <<W!makervars, W!diskvars, record, offset, length, image, applied, before>>
      /\ mpc = "made" /\ ppc = "idle" /\ ppc' = "returned" /\ ret' = 2
  BY DEF W!NotWips, W!Return, W!Unchanged, W!runvars
<1> QED
  BY <1>1, WipsTypes, WipsMemoryStep

LEMMA WipsStartDry == ASSUME WipsInv, W!StartDry PROVE WipsInv'
<1>1. /\ UNCHANGED <<W!makervars, W!diskvars, record, offset, length, image, ret, applied,
                     before>>
      /\ mpc = "made" /\ ppc = "idle" /\ ppc' = "dry" /\ header
  BY DEF W!StartDry, W!Unchanged, W!runvars
<1>2. WipsAtRecord
  BY <1>1 DEF WipsInv, WipsRunInv
<1>3. offset' = WipsOffset(record') /\ \A k \in 1 .. record' - 1 : wips[k].kind \in MoveKinds
  BY <1>1, <1>2 DEF WipsAtRecord, WipsOffset
<1> QED
  BY <1>1, <1>3, WipsTypes, WipsMemoryStep

(* One record further on.                                                  *)
LEMMA WipsAdvance ==
  ASSUME WipsInv, ppc \in {"dry", "apply"}, W!Moves, W!Advance
  PROVE  /\ record' = record + 1 /\ record' \in 1 .. Len(wips) + 1
         /\ offset' = WipsOffset(record') /\ offset' \in Nat /\ length' \in 0 .. ChunkMax
         /\ \A k \in 1 .. record' - 1 : wips[k].kind \in MoveKinds
<1>1. /\ record \in 1 .. Len(wips) /\ W!Target = wips[record].address
      /\ wips[record].kind \in MoveKinds
      /\ wips[record].address \in Nat /\ Len(wips[record].data) \in 0 .. ChunkMax
  BY WipsTarget
<1>2. /\ record' = record + 1 /\ offset' = wips[record].address
      /\ length' = Len(wips[record].data)
  BY <1>1 DEF W!Advance, W!Current
<1>3. offset' = WipsOffset(record')
  BY <1>1, <1>2 DEF WipsOffset
<1>4. \A k \in 1 .. record - 1 : wips[k].kind \in MoveKinds
  BY DEF WipsInv, WipsRunInv, WipsAtRecord
<1>5. ASSUME NEW k \in 1 .. record' - 1 PROVE wips[k].kind \in MoveKinds
  <2>1. k \in 1 .. record - 1 \/ k = record
    BY <1>1, <1>2
  <2> QED
    BY <1>1, <1>4, <2>1
<1> QED
  BY <1>1, <1>2, <1>3, <1>5, WipsTypes

LEMMA WipsDryRecord == ASSUME WipsInv, W!DryRecord PROVE WipsInv'
<1>1. /\ UNCHANGED <<W!makervars, W!diskvars, image, ret, applied, before, ppc>>
      /\ ppc = "dry" /\ W!Moves /\ W!Advance
  BY DEF W!DryRecord, W!Unchanged
<1> QED
  BY <1>1, WipsAdvance, WipsTypes, WipsMemoryStep

LEMMA WipsFails == ASSUME WipsInv, W!Fail \/ W!NoMemory PROVE WipsInv'
<1>1. /\ UNCHANGED <<W!makervars, W!diskvars, record, offset, length, image, applied, before>>
      /\ ppc = "dry" /\ ppc' = "returned" /\ ret' \in {1, 4}
  BY DEF W!Fail, W!NoMemory, W!Unchanged, W!Return, W!runvars
<1> QED
  BY <1>1, WipsTypes, WipsMemoryStep

LEMMA WipsLoad == ASSUME WipsInv, ppc = "dry", W!Load PROVE WipsInv'
<1>1. /\ UNCHANGED <<W!makervars, W!diskvars, applied, before>>
      /\ image' = disk /\ record' = 1 /\ offset' = 0 /\ length' = 0
      /\ \/ W!WrongFile /\ ppc' = "returned" /\ ret' = 4
         \/ ~W!WrongFile /\ ppc' = "check" /\ ret' = ret
  BY DEF W!Load, W!Return, W!Unchanged
<1>2. offset' = WipsOffset(record') /\ record' \in 1 .. Len(wips) + 1
      /\ \A k \in 1 .. record' - 1 : wips[k].kind \in MoveKinds
  BY <1>1, WipsTypes DEF WipsOffset
<1> QED
  BY <1>1, <1>2, WipsTypes, ChunkMaxType, WipsMemoryStep

LEMMA WipsRightFile ==
  ASSUME WipsInv, ppc \in {"check", "apply", "back"} PROVE ~W!WrongFile
BY WipsTypes DEF WipsInv, WipsRunInv, W!WrongFile, W!diskvars

LEMMA WipsCheckSize == ASSUME WipsInv, W!CheckSize PROVE WipsInv'
<1>1. /\ UNCHANGED <<W!makervars, W!diskvars, record, offset, length, image, ret, before>>
      /\ ppc = "check"
      /\ \/ W!SizeDiffers /\ ppc' = "back" /\ applied' = 2
         \/ ~W!SizeDiffers /\ ppc' = "apply" /\ applied' = applied
  BY DEF W!CheckSize, W!Unchanged, W!runvars
<1>2. record = 1 /\ image = disk /\ offset = WipsOffset(record)
  BY <1>1 DEF WipsInv, WipsRunInv, WipsAtRecord
<1>3. disk \in W!File(sizdisk) /\ image' \in W!File(sizdisk)
  BY <1>1, <1>2 DEF WipsInv, WipsMakerInv, WipsFiles
<1>4. image' = WipsApplied(disk, record' - 1)
  <2>1. disk = [x \in DOMAIN disk |-> disk[x]]
    BY <1>3 DEF W!File
  <2>2. \A x : ~InWips(x, record' - 1)
    BY <1>1, <1>2 DEF InWips
  <2> QED
    BY <1>1, <1>2, <2>1, <2>2 DEF WipsApplied
<1>5. offset' = WipsOffset(record') /\ \A k \in 1 .. record' - 1 : wips[k].kind \in MoveKinds
  BY <1>1, <1>2 DEF WipsOffset
<1>6. W!SizeDiffers => W!diskvars # <<old, size>>
  BY DEF W!SizeDiffers, W!diskvars
<1>7. ~W!SizeDiffers => sizdisk \in {0, size}
  BY DEF W!SizeDiffers
<1> QED
  BY <1>1, <1>3, <1>4, <1>5, <1>6, <1>7, WipsRightFile, WipsTypes, WipsMemoryStep

LEMMA WipsOverrun == ASSUME WipsInv, W!Overrun PROVE WipsInv'
<1>1. /\ UNCHANGED <<W!makervars, W!diskvars, record, offset, length, image, ret, applied,
                     before>>
      /\ ppc = "apply" /\ W!Moves /\ W!RecordEnd > sizdisk /\ ppc' = "crashed"
  BY DEF W!Overrun, W!Unchanged, W!runvars
<1>2. W!RecordEnd = wips[record].address + Len(wips[record].data)
  BY <1>1, WipsTarget DEF W!RecordEnd, W!Current
<1>3. wips[record].address + Len(wips[record].data) <= size
  BY <1>1, WipsTarget DEF WipsRecordIs
<1>4. sizdisk \in {0, size}
  BY <1>1 DEF WipsInv, WipsRunInv
<1>5. sizdisk = 0
  BY <1>1, <1>2, <1>3, <1>4, WipsTarget, WipsTypes
<1> QED
  BY <1>1, <1>5, WipsTypes, WipsMemoryStep

LEMMA WipsApplyRecord == ASSUME WipsInv, W!ApplyRecord PROVE WipsInv'
<1>1. /\ UNCHANGED <<W!makervars, W!diskvars, ppc, ret, applied, before>>
      /\ ppc = "apply" /\ W!Moves /\ W!Advance
  BY DEF W!ApplyRecord, W!Unchanged
<1>2. image = WipsApplied(disk, record - 1) /\ sizdisk \in {0, size}
  BY <1>1 DEF WipsInv, WipsRunInv
<1>3. PICK r : r = wips[record]
  OBVIOUS
<1>4. /\ record \in 1 .. Len(wips) /\ W!Target = r.address /\ W!Current = r
      /\ r.address \in Nat /\ Len(r.data) \in Nat
      /\ \A j \in 1 .. Len(r.data) : r.data[j] = new[r.address + j - 1]
      /\ W!RecordEnd = r.address + Len(r.data)
  BY <1>1, <1>3, WipsTarget DEF WipsRecordIs, W!Current, W!RecordEnd
<1>5. record' = record + 1
  BY <1>1 DEF W!Advance
<1>6. image' = WipsApplied(disk, record' - 1)
  <2>1. DOMAIN image = DOMAIN disk
    BY <1>2 DEF WipsApplied
  <2>2. /\ image' = [x \in DOMAIN image |-> image'[x]]
        /\ \A x \in DOMAIN image :
             image'[x] = IF x \in W!Target .. W!RecordEnd - 1
                         THEN W!Current.data[x - W!Target + 1] ELSE image[x]
    BY DEF W!ApplyRecord
  <2>3. image' = [x \in DOMAIN disk |-> image'[x]]
    BY <2>1, <2>2
  <2>4. ASSUME NEW x \in DOMAIN disk
        PROVE  image'[x] = IF x \in r.address .. r.address + Len(r.data) - 1
                           THEN r.data[x - r.address + 1] ELSE image[x]
    BY <1>4, <2>1, <2>2, SMTT(40)
  <2>5. ASSUME NEW x \in r.address .. r.address + Len(r.data) - 1
        PROVE  r.data[x - r.address + 1] = new[x]
    <3>1. x - r.address + 1 \in 1 .. Len(r.data) /\ r.address + (x - r.address + 1) - 1 = x
      BY <1>4, SMTT(40)
    <3> QED
      BY <1>4, <3>1
  <2>6. ASSUME NEW x
        PROVE  InWips(x, record' - 1)
                 <=> InWips(x, record - 1) \/ x \in r.address .. r.address + Len(r.data) - 1
    <3>1. \A k : k \in 1 .. record' - 1 <=> k \in 1 .. record - 1 \/ k = record
      BY <1>4, <1>5
    <3> QED
      BY <1>3, <3>1 DEF InWips
  <2>7. \A x \in DOMAIN disk : image[x] = IF InWips(x, record - 1) THEN new[x] ELSE disk[x]
    BY <1>2 DEF WipsApplied
  <2> QED
    BY <2>3, <2>4, <2>5, <2>6, <2>7 DEF WipsApplied
<1> QED
  BY <1>1, <1>2, <1>6, WipsAdvance, WipsRightFile, WipsTypes, WipsMemoryStep

LEMMA WipsAllApplied == ASSUME WipsInv, W!Applied PROVE WipsInv'
<1>1. /\ UNCHANGED <<W!makervars, W!diskvars, record, offset, length, image, ret, applied,
                     before>>
      /\ ppc = "apply" /\ W!Ends /\ ppc' = "back"
  BY DEF W!Applied, W!Unchanged, W!runvars
<1>2. image = WipsApplied(disk, record - 1) /\ WipsMakerInv
  BY <1>1 DEF WipsInv, WipsRunInv
<1>3. record - 1 \in 0 .. Len(wips)
  BY WipsTypes
<1>4. image' \in W!File(sizdisk)
  BY <1>1, <1>2, <1>3, WipsAppliedFile
<1>5. ASSUME W!WellFormed PROVE image' = W!AllRecords(disk)
  <2>1. record = Len(wips) /\ record \in 1 .. Len(wips)
    BY <1>1, <1>5, WipsWellFormed, WipsTypes
  <2>2. wips[record].kind = "end" /\ WipsRecordIs(wips[record])
    BY <1>1, <1>2, <2>1 DEF W!Ends, W!Current, WipsMakerInv
  <2>3. wips[record].data = <<>> /\ wips[record].address \in Nat
    BY <2>2 DEF WipsRecordIs, WipsRecord, MoveKinds
  <2>4. \A x : x \notin wips[record].address .. wips[record].address + Len(wips[record].data) - 1
    BY <2>3
  <2>5. \A k : k \in 1 .. Len(wips) <=> k \in 1 .. record - 1 \/ k = record
    BY <2>1
  <2>6. \A x : InWips(x, Len(wips)) <=> InWips(x, record - 1)
    BY <2>4, <2>5 DEF InWips
  <2>7. WipsApplied(disk, Len(wips)) = WipsApplied(disk, record - 1)
    BY <2>6 DEF WipsApplied
  <2> QED
    BY <1>1, <1>2, <2>7, WipsAppliedFile
<1> QED
  BY <1>1, <1>4, <1>5, WipsRightFile, WipsTypes, WipsMemoryStep

LEMMA WipsStuck == ASSUME WipsInv, W!Stuck PROVE WipsInv'
<1>1. /\ UNCHANGED <<W!makervars, W!diskvars, record, offset, length, image, ret, applied,
                     before>>
      /\ ppc \in {"dry", "apply"} /\ ppc' = "stuck"
  BY DEF W!Stuck, W!Unchanged, W!runvars
<1> QED
  BY <1>1, WipsTypes, WipsMemoryStep

LEMMA WipsApplyAstray == ASSUME WipsInv, W!ApplyAstray PROVE WipsInv'
<1>1. /\ UNCHANGED <<W!makervars, W!diskvars, record, offset, length, ret, before>>
      /\ ppc = "apply" /\ W!Astray
      /\ \/ image' \in W!File(sizdisk) /\ applied' \in {0, 1} /\ ppc' = "back"
         \/ ppc' = "crashed" /\ applied' = applied
  BY DEF W!ApplyAstray, W!Unchanged, W!runvars
<1>2. ~W!WellFormed
  BY <1>1, WipsWellFormed
<1> QED
  BY <1>1, <1>2, WipsRightFile, WipsTypes, WipsMemoryStep

LEMMA WipsReport == ASSUME WipsInv, W!Report PROVE WipsInv'
<1>1. /\ UNCHANGED <<W!makervars, sizdisk, record, offset, length, image, applied, before>>
      /\ ppc = "back" /\ ppc' = "returned" /\ ret' = 0
      /\ disk' = IF applied = 0 THEN image ELSE disk
  BY DEF W!Report, W!Return, W!WriteBack, W!runvars
<1>2. /\ image \in W!File(sizdisk) /\ WipsMakerInv /\ before = <<disk, sizdisk>>
      /\ W!WellFormed => IF applied = 0 THEN image = W!AllRecords(disk)
                                        ELSE before # <<old, size>>
      /\ ~(checked /\ before # <<old, size>>)
  BY <1>1 DEF WipsInv, WipsRunInv, WipsWhole
<1>3. disk' \in W!File(sizdisk)
  BY <1>1, <1>2 DEF WipsMakerInv, WipsFiles
<1>4. WipsMakerInv'
  BY <1>1, <1>2, <1>3, WipsMakerSame
<1>5. UNCHANGED <<old, new, size, wips, mpc, header, checked>>
  BY <1>1 DEF W!makervars, W!filevars
<1>6. W!WellFormed' = W!WellFormed
  BY <1>5 DEF W!WellFormed, W!Last
<1>7. W!AllRecords(before[1])' = W!AllRecords(before[1])
  BY <1>1, <1>5, WipsAppliedSame
<1>8. W!WellFormed' => WipsWhole'
  BY <1>1, <1>2, <1>5, <1>6, <1>7 DEF WipsWhole
<1>9. WipsRunInv'
  BY <1>1, <1>2, <1>5, <1>8, WipsTypes DEF WipsRunInv
<1> QED
  BY <1>4, <1>9 DEF WipsInv

(* Every step of xenowips keeps its invariant.                             *)
LEMMA WipsNextInv == ASSUME WipsInv, W!Next PROVE WipsInv'
<1>1. CASE W!DryEnd
  BY <1>1, WipsLoad DEF W!DryEnd
<1>2. CASE W!DryAstray
  BY <1>2, WipsLoad, WipsFails DEF W!DryAstray
<1> QED
  BY <1>1, <1>2, WipsWriteRegion, WipsFinish, WipsNotWips, WipsStartDry, WipsDryRecord,
     WipsFails, WipsCheckSize, WipsOverrun, WipsApplyRecord, WipsAllApplied, WipsStuck,
     WipsApplyAstray, WipsReport DEF W!Next

LEMMA WipsStutterInv == ASSUME WipsInv, UNCHANGED W!vars PROVE WipsInv'
<1>1. UNCHANGED <<W!makervars, disk, sizdisk, ppc, record, offset, length, image,
                  ret, applied, before>>
  BY DEF W!vars, W!runvars, W!diskvars
<1>2. UNCHANGED <<old, new, size, wips, mpc, header, checked>>
  BY <1>1 DEF W!makervars, W!filevars
<1>3. WipsMakerInv'
  BY <1>1, WipsMakerSame DEF WipsInv, WipsMakerInv, WipsFiles
<1>4. /\ W!AllRecords(disk)' = W!AllRecords(disk)
      /\ W!AllRecords(before[1])' = W!AllRecords(before[1])
      /\ WipsApplied(disk, record - 1)' = WipsApplied(disk, record - 1)
  BY <1>1, <1>2, WipsAppliedSame
<1>5. W!WellFormed' = W!WellFormed
  BY <1>2 DEF W!WellFormed, W!Last
<1>6. WipsWhole' = WipsWhole /\ WipsAtRecord' = WipsAtRecord
  BY <1>1, <1>2, <1>4 DEF WipsWhole, WipsAtRecord, WipsOffset
<1>7. (image \in W!File(sizdisk))' = (image \in W!File(sizdisk))
  BY <1>1 DEF W!File, W!Positions
<1>8. WipsRunInv'
  BY <1>1, <1>2, <1>4, <1>5, <1>6, <1>7 DEF WipsInv, WipsRunInv
<1> QED
  BY <1>3, <1>8 DEF WipsInv

(* What the invariant says of a patch: xenowips' own hold all that         *)
(* differs, well formed ones are applied whole or not at all, and a file   *)
(* other than the one whose CRC a patch has is left alone.                 *)
LEMMA WipsMeaning ==
  WipsInv => W!TypeOK /\ W!Complete /\ W!Patches /\ W!WrongFileUntouched /\ W!WithinImage
<1> SUFFICES ASSUME WipsInv
             PROVE  W!TypeOK /\ W!Complete /\ W!Patches /\ W!WrongFileUntouched
                    /\ W!WithinImage
  OBVIOUS
<1>1. WipsMakerInv /\ WipsRunInv
  BY DEF WipsInv
<1>2. W!TypeOK
  BY <1>1 DEF WipsMakerInv, WipsFiles, WipsRunInv, WipsRecordIs, WipsRecord, MoveKinds,
     W!TypeOK
<1>3. ASSUME mpc = "made", ~header PROVE W!AllRecords(old) = new
  <2>1. old \in [0 .. size - 1 -> ByteValues] /\ new \in [0 .. size - 1 -> ByteValues]
    BY <1>1 DEF WipsMakerInv, WipsFiles, W!File, W!Positions
  <2>2. \A x \in 0 .. size - 1 : old[x] = new[x] \/ InWips(x, Len(wips))
    BY <1>1, <1>3 DEF WipsMakerInv
  <2> QED
    BY <2>1, <2>2 DEF W!AllRecords, InWips
<1>4. W!Patches
  BY <1>1 DEF WipsRunInv, WipsWhole, W!Patches
<1>5. W!WrongFileUntouched
  BY <1>1 DEF WipsRunInv, W!WrongFileUntouched, W!diskvars
<1>6. W!WithinImage
  BY <1>1 DEF WipsRunInv, WipsWhole, W!WithinImage
<1> QED
  BY <1>2, <1>3, <1>4, <1>5, <1>6 DEF W!Complete

-----------------------------------------------------------------------------
(***************************************************************************)
(* The driver.  It starts with any files and, for xenoppf and xenowips,    *)
(* with no patch or with one that anybody made.                            *)
(***************************************************************************)
AnyStart ==
  /\ NotCalled
  /\ (UpsOnly /\ U!Init) \/ (PpfOnly /\ PpfAnyStart) \/ (WipsOnly /\ WipsAnyStart)

AnySpec == AnyStart /\ [][Next]_vars

ToolInv ==
  /\ applet = "xenoups"  => UpsInv
  /\ applet = "xenoppf"  => PpfInv
  /\ applet = "xenowips" => WipsInv

(* What a call to patch exits with is what the patcher returned.           *)
DriverInv ==
  /\ applet \in Applets /\ phase \in {"exited", "starts", "runs"}
  /\ call \in {"none", "make", "patch"}
  /\ exit \in {-1, 0, 1, 2} \cup {17, 18, 20, 34}
  /\ phase = "exited" /\ call = "patch" => ppc = "returned" /\ exit = ExitCode(ret, 16)
  /\ ToolInv

(* The program's own patches are among those that anybody makes.           *)
LEMMA OwnIsAny == Spec => AnySpec
<1>1. Init => AnyStart
  BY PpfOwnStart, WipsOwnStart DEF Init, AnyStart
<1> QED
  BY <1>1 DEF Spec, AnySpec

LEMMA DriverStart == AnyStart => DriverInv
<1> SUFFICES ASSUME AnyStart PROVE DriverInv
  OBVIOUS
<1>1. phase = "exited" /\ call = "none" /\ exit = 0 /\ applet \in Applets
  BY DEF AnyStart, NotCalled, UpsOnly, PpfOnly, WipsOnly, Applets
<1>2. ToolInv
  BY UpsInitInv, PpfStartInv, WipsStartInv DEF AnyStart, UpsOnly, PpfOnly, WipsOnly, ToolInv
<1> QED
  BY <1>1, <1>2 DEF DriverInv

(* What no tool touches, or another tool has, changes nothing.             *)
LEMMA ToolInvStutter == ASSUME ToolInv, UNCHANGED <<applet, toolvars>> PROVE ToolInv'
<1>1. UNCHANGED U!vars /\ UNCHANGED P!vars /\ UNCHANGED W!vars
  BY DEF toolvars, common, onlyUps, shared, onlyPpf, onlyWips,
     U!vars, U!makervars, U!diskvars, U!runvars,
     P!vars, P!makervars, P!filevars, P!headvars, P!diskvars, P!runvars,
     W!vars, W!makervars, W!filevars, W!diskvars, W!runvars
<1> QED
  BY <1>1, UpsStutterInv, PpfStutterInv, WipsStutterInv DEF ToolInv

LEMMA RetType == ASSUME DriverInv PROVE ret \in {0, 1, 2, 4}
BY PpfTypes, WipsTypes DEF DriverInv, ToolInv, Applets, UpsInv, U!TypeOK

LEMMA DriverStep == ASSUME DriverInv, [Next]_vars PROVE DriverInv'
<1>1. CASE Usage
  <2>1. ToolInv'
    BY <1>1, ToolInvStutter DEF Usage, DriverInv
  <2>2. exit' \in {-1, 1} /\ call' = "none" /\ UNCHANGED <<applet, phase>>
    BY <1>1 DEF Usage
  <2> QED
    BY <2>1, <2>2 DEF DriverInv
<1>2. CASE Call
  <2>1. ToolInv'
    BY <1>2, ToolInvStutter DEF Call, DriverInv
  <2>2. call' \in {"make", "patch"}
    <3>1. ASSUME NEW c \in Calls PROVE c.does \in {"usage", "make", "patch"}
      BY DEF Calls, Mode
    <3> QED
      BY <1>2, <3>1 DEF Call
  <2> QED
    BY <1>2, <2>1, <2>2 DEF Call, DriverInv
<1>3. CASE CannotOpen
  <2>1. ToolInv'
    BY <1>3, ToolInvStutter DEF CannotOpen, DriverInv
  <2> QED
    BY <1>3, <2>1 DEF CannotOpen, DriverInv
<1>4. CASE CannotMake
  <2>1. ToolInv'
    BY <1>4, ToolInvStutter DEF CannotMake, DriverInv
  <2> QED
    BY <1>4, <2>1 DEF CannotMake, DriverInv, ExitCode
<1>5. CASE Run
  <2>1. ToolInv'
    <3>1. CASE XenoUps
      BY <1>5, <3>1, UpsNextInv DEF Run, XenoUps, DriverInv, ToolInv
    <3>2. CASE XenoPpf
      BY <1>5, <3>2, PpfNextInv DEF Run, XenoPpf, DriverInv, ToolInv
    <3>3. CASE XenoWips
      BY <1>5, <3>3, WipsNextInv DEF Run, XenoWips, DriverInv, ToolInv
    <3> QED
      BY <1>5, <3>1, <3>2, <3>3 DEF Run
  <2> QED
    BY <1>5, <2>1 DEF Run, DriverInv
<1>6. CASE Exit
  <2>1. ToolInv'
    BY <1>6, ToolInvStutter DEF Exit, DriverInv
  <2>2. UNCHANGED <<applet, call, ppc, ret>>
    BY <1>6 DEF Exit, toolvars, common
  <2>3. exit' \in {0, 17, 18, 20}
    BY <1>6, RetType DEF Exit, ExitCode
  <2> QED
    BY <1>6, <2>1, <2>2, <2>3 DEF Exit, Finished, DriverInv, ExitCode
<1>7. CASE UNCHANGED vars
  <2>1. ToolInv'
    BY <1>7, ToolInvStutter DEF DriverInv, vars, callvars
  <2> QED
    BY <1>7, <2>1 DEF DriverInv, vars, callvars, toolvars, common, ExitCode
<1> QED
  BY <1>1, <1>2, <1>3, <1>4, <1>5, <1>6, <1>7 DEF Next

LEMMA DriverInvariant == AnySpec => []DriverInv
BY DriverStart, DriverStep, PTL DEF AnySpec

LEMMA DriverMeaning ==
  DriverInv => TypeOK /\ FailureLeavesFile /\ UpsToggles /\ PpfPatches /\ WipsPatches
               /\ WithinMemory
<1> SUFFICES ASSUME DriverInv
             PROVE  TypeOK /\ FailureLeavesFile /\ UpsToggles /\ PpfPatches /\ WipsPatches
                    /\ WithinMemory
  OBVIOUS
<1>1. TypeOK
  BY PpfMeaning, WipsMeaning DEF DriverInv, ToolInv, UpsInv, TypeOK
<1>2. FailureLeavesFile
  <2>1. ASSUME phase = "exited", call = "patch", exit # 0 PROVE before = <<disk, sizdisk>>
    <3>1. ppc = "returned" /\ ret # 0 /\ applet \in Applets
      BY <2>1 DEF DriverInv, ExitCode
    <3>2. CASE applet = "xenoups"
      BY <3>1, <3>2 DEF DriverInv, ToolInv, UpsInv, U!Toggles, U!diskvars
    <3>3. CASE applet = "xenoppf"
      BY <3>1, <3>3 DEF DriverInv, ToolInv, PpfInv, PpfRunInv
    <3>4. CASE applet = "xenowips"
      BY <3>1, <3>4 DEF DriverInv, ToolInv, WipsInv, WipsRunInv
    <3> QED
      BY <3>1, <3>2, <3>3, <3>4 DEF Applets
  <2> QED
    BY <2>1 DEF FailureLeavesFile
<1>3. UpsToggles /\ PpfPatches /\ WipsPatches
  BY PpfMeaning, WipsMeaning DEF DriverInv, ToolInv, UpsInv, UpsToggles, PpfPatches,
     WipsPatches
<1>4. WithinMemory
  BY UpsWithin, PpfMeaning, WipsMeaning DEF DriverInv, ToolInv, WithinMemory
<1> QED
  BY <1>1, <1>2, <1>3, <1>4

-----------------------------------------------------------------------------
(* The variables of the driver and of the tool that is used have their     *)
(* types: what main, the makers and the patchers pass to one another.      *)
THEOREM TypeCorrect == AnySpec => []TypeOK
BY DriverInvariant, DriverMeaning, PTL

(* A call to patch that exits with an error has left the file as it was,   *)
(* whichever the tool, the files and the maker of the patch: only a run    *)
(* that has come to the end in memory is written back.                     *)
THEOREM FailuresLeaveFiles == AnySpec => []FailureLeavesFile
BY DriverInvariant, DriverMeaning, PTL

(* xenoups between any two files, of any sizes: its patch turns each into  *)
(* the other, however often it is applied, and any other file is refused.  *)
THEOREM UpsTogglesCorrect == AnySpec => []UpsToggles
BY DriverInvariant, DriverMeaning, PTL

(* xenoppf: its patches turn the old file into the new one, and patches of *)
(* any version and maker change a file by all of their records or by none. *)
THEOREM PpfPatchesCorrect == AnySpec => []PpfPatches
BY DriverInvariant, DriverMeaning, PTL

(* xenowips: its records hold all that differs, well formed patches of any *)
(* maker are applied whole or not at all, and not to a file whose CRC is   *)
(* another one.                                                            *)
THEOREM WipsPatchesCorrect == AnySpec => []WipsPatches
BY DriverInvariant, DriverMeaning, PTL

(* No record is written outside the memory a file was read into, but for   *)
(* the cases that the code leaves open: a file of another size in xenoppf, *)
(* an empty one in xenowips.                                               *)
THEOREM WithinMemoryCorrect == AnySpec => []WithinMemory
BY DriverInvariant, DriverMeaning, PTL

(* All of it for the patches that the tools make themselves.               *)
THEOREM OwnPatchesCorrect ==
  Spec => [](TypeOK /\ FailureLeavesFile /\ UpsToggles /\ PpfPatches /\ WipsPatches
             /\ WithinMemory)
BY OwnIsAny, DriverInvariant, DriverMeaning, PTL

=============================================================================
