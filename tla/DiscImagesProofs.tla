-------------------------- MODULE DiscImagesProofs --------------------------
(***************************************************************************)
(* Proofs about disc images in blocks (BlockImages as DiscImages has it):  *)
(* for blocks, images and alignments of every size, and any number of      *)
(* calls, reads deliver the image, writes change what they are to change,  *)
(* and an image that is not aligned is unpacked to itself.                 *)
(***************************************************************************)
EXTENDS DiscImages, SequenceTheorems, WellFoundedInduction, TLAPS

-----------------------------------------------------------------------------
(* Multiples and quotients.                                                *)
LEMMA Multiples ==
  ASSUME NEW b \in Nat, NEW n \in Int, NEW m \in Int
  PROVE  /\ n * b \in Int /\ (n + 1) * b = n * b + b
         /\ n < m => n * b + b <= m * b
  OBVIOUS

LEMMA Quotients ==
  ASSUME NEW b \in Nat \ {0}, NEW p \in Nat
  PROVE  p \div b \in Nat /\ (p \div b) * b <= p /\ p < (p \div b) * b + b
  OBVIOUS

LEMMA NoRemainder ==
  ASSUME NEW b \in Nat \ {0}, NEW n \in Nat
  PROVE  (n * b) % b = 0
  OBVIOUS

(* The number of blocks, and of whole ones.                                *)
LEMMA RoundedUp ==
  ASSUME NEW b \in Nat \ {0}, NEW t \in Nat
  PROVE  LET whole == t \div b
             up    == (t + b - 1) \div b
         IN \/ up = whole /\ whole * b = t
            \/ up = whole + 1 /\ whole * b < t
<1> DEFINE whole == t \div b
           up    == (t + b - 1) \div b
<1>1. /\ whole \in Nat /\ up \in Nat
      /\ whole * b <= t /\ t < whole * b + b
      /\ up * b <= t + b - 1 /\ t + b - 1 < up * b + b
  BY Quotients
<1> HIDE DEF whole, up
<1>2. CASE whole * b = t
  <2>1. ~(up < whole)
    BY <1>1, <1>2, Multiples
  <2>2. ~(whole < up)
    BY <1>1, <1>2, Multiples
  <2> QED BY <1>1, <1>2, <2>1, <2>2 DEF up, whole
<1>3. CASE whole * b < t
  <2>1. ~(up < whole + 1)
    BY <1>1, <1>3, Multiples
  <2>2. (whole + 1) * b = whole * b + b
    BY <1>1, Multiples
  <2>3. ~(whole + 1 < up)
    <3> SUFFICES ASSUME whole + 1 < up PROVE FALSE
      OBVIOUS
    <3>1. (whole + 1) * b + b <= up * b
      BY <1>1, Multiples
    <3> DEFINE w == whole * b
               u == up * b
               x == (whole + 1) * b
    <3>2. w \in Int /\ u \in Int /\ x = w + b /\ x + b <= u /\ u <= t + b - 1 /\ t < w + b
      BY <1>1, <2>2, <3>1, Multiples
    <3> HIDE DEF w, u, x
    <3> QED BY <3>2
  <2> QED BY <1>1, <1>3, <2>1, <2>3 DEF up, whole
<1> QED BY <1>1, <1>2, <1>3

-----------------------------------------------------------------------------
(* What is known of the sizes of an image.                                 *)
SizesInv ==
  /\ format \in Formats /\ total_bytes \in Nat
  /\ align \in Nat /\ 2^align \in Nat \ {0}
  /\ format # "cso" => align = 0

LEMMA BlockSizes ==
  ASSUME SizesInv
  PROVE  B!block_size \in Nat \ {0}
  BY BlocksAssumption DEF SizesInv, B!SizesAssumption, B!block_size

(* Blocks follow each other, and the last one may be one in part.          *)
LEMMA Geometry ==
  ASSUME SizesInv
  PROVE  /\ B!First(0) = 0
         /\ \A n \in Int : B!First(n) \in Int /\ B!First(n + 1) = B!First(n) + B!block_size
         /\ \A n, m \in Int : n < m => B!First(n) + B!block_size <= B!First(m)
         /\ \A p \in Nat : /\ p \div B!block_size \in Nat
                           /\ B!First(p \div B!block_size) <= p
                           /\ p < B!First(p \div B!block_size) + B!block_size
<1> DEFINE b == B!block_size
<1>1. b \in Nat \ {0}
  BY BlockSizes
<1> HIDE DEF b
<1>2. \A n : B!First(n) = n * b
  BY DEF B!First, b
<1>3. B!First(0) = 0
  BY <1>1, <1>2
<1>4. \A n \in Int : B!First(n) \in Int /\ B!First(n + 1) = B!First(n) + b
  BY <1>1, <1>2, Multiples
<1>5. \A n, m \in Int : n < m => B!First(n) + b <= B!First(m)
  <2> TAKE n, m \in Int
  <2> QED BY <1>1, <1>2, Multiples
<1>6. \A p \in Nat : /\ p \div b \in Nat
                     /\ B!First(p \div b) <= p /\ p < B!First(p \div b) + b
  BY <1>1, <1>2, Quotients
<1> QED BY <1>3, <1>4, <1>5, <1>6 DEF b

LEMMA Counts ==
  ASSUME SizesInv
  PROVE  /\ B!max_sector \in Int /\ B!max_sector >= -1
         /\ B!total_block \in Nat
         /\ \/ B!total_block = B!max_sector + 1 /\ B!First(B!max_sector + 1) = total_bytes
            \/ B!total_block = B!max_sector + 2 /\ B!First(B!max_sector + 1) < total_bytes
         /\ total_bytes < B!First(B!max_sector + 1) + B!block_size
<1> DEFINE b == B!block_size
           whole == total_bytes \div b
           up    == (total_bytes + b - 1) \div b
<1>1. b \in Nat \ {0} /\ total_bytes \in Nat
  BY BlockSizes DEF SizesInv
<1>2. B!First(whole) = whole * b /\ B!total_block = up
  BY DEF B!First, B!total_block
<1>3. B!max_sector = whole - 1
  BY DEF B!max_sector
<1> HIDE DEF b
<1>4. whole \in Nat /\ total_bytes < whole * b + b
  BY <1>1, Quotients
<1>5. \/ up = whole /\ whole * b = total_bytes
      \/ up = whole + 1 /\ whole * b < total_bytes
  BY <1>1, RoundedUp
<1> HIDE DEF whole, up
<1>6. B!max_sector + 1 = whole
  BY <1>3, <1>4
<1> QED BY <1>2, <1>3, <1>4, <1>5, <1>6 DEF b

(* The lengths of blocks: whole ones, and the rest.                        *)
LEMMA BlockLengths ==
  ASSUME SizesInv, NEW n \in 0 .. B!total_block - 1
  PROVE  /\ B!Length(n) \in 1 .. B!block_size
         /\ B!First(n) \in Nat /\ B!First(n) + B!Length(n) <= total_bytes
         /\ n <= B!max_sector => B!Length(n) = B!block_size
<1>1. B!block_size \in Nat \ {0} /\ total_bytes \in Nat
  BY BlockSizes DEF SizesInv
<1> DEFINE b == B!block_size
           f == B!First(n)
           e == B!First(B!max_sector + 1)
<1>2. /\ B!max_sector \in Int /\ B!total_block \in Nat /\ e <= total_bytes
      /\ \/ B!total_block = B!max_sector + 1
         \/ B!total_block = B!max_sector + 2 /\ e < total_bytes
  <2>1. B!max_sector + 1 \in Int
    BY Counts
  <2>2. e \in Int
    BY <2>1, Geometry
  <2> QED BY <1>1, <2>2, Counts
<1>3. n \in Int /\ n >= 0 /\ f \in Int /\ e \in Int
  BY <1>1, <1>2, Geometry
<1>a. f >= 0
  <2>1. CASE n = 0
    BY <2>1, Geometry
  <2>2. CASE n > 0
    BY <1>1, <1>3, <2>2, Geometry
  <2> QED BY <1>3, <2>1, <2>2
<1>4. n <= B!max_sector => f + b <= e
  BY <1>2, Geometry
<1>5. n > B!max_sector => n = B!max_sector + 1 /\ e < total_bytes
  BY <1>2
<1>6. /\ f \in Int /\ f >= 0 /\ f < total_bytes
      /\ n <= B!max_sector => f + b <= total_bytes
  BY <1>1, <1>2, <1>3, <1>a, <1>4, <1>5
<1> QED BY <1>1, <1>6 DEF B!Length, B!least

LEMMA LastLength ==
  ASSUME SizesInv, NEW n \in 0 .. B!total_block - 1, n > B!max_sector
  PROVE  B!First(n) + B!Length(n) = total_bytes
<1>1. PICK m, f : m = B!max_sector + 1 /\ f = B!First(m)
  OBVIOUS
<1>2. m \in Int /\ total_bytes \in Nat /\ B!block_size \in Nat \ {0}
  BY <1>1, Counts, BlockSizes DEF SizesInv
<1>3. n = m /\ f < total_bytes /\ total_bytes < f + B!block_size
  BY <1>1, Counts
<1>4. f \in Int
  BY <1>1, <1>2, Geometry
<1> QED BY <1>1, <1>2, <1>3, <1>4 DEF B!Length, B!least

-----------------------------------------------------------------------------
(* The index: blocks one after another, each where the format can say.     *)
IndexInv ==
  /\ index \in Seq([at : Nat, plain : BOOLEAN]) /\ ftell \in Nat
  /\ (IF Len(index) = 0 THEN ftell ELSE index[1].at) = HeadLen
  /\ ftell % 2^align = 0 /\ \A i \in 1 .. Len(index) : index[i].at % 2^align = 0
  /\ \A i, j \in 1 .. Len(index) : i < j => index[i].at < index[j].at
  /\ pc = "make" => /\ Len(index) <= B!total_block
                    /\ \A i \in 1 .. Len(index) : index[i].at < ftell
  /\ pc # "make" => Len(index) = B!total_block + 1

EndOf(n) == IF n + 2 <= Len(index) THEN index[n + 2].at ELSE ftell

(* A block has its place, and its data, which are what the image has there *)
(* but for what a write has lost.                                          *)
Has(n, k) == k <= Len(B!Data(n)) /\ B!Data(n)[k] = image[B!First(n) + k - 1]

Kept(n) ==
  /\ B!now_pos(n) \in DOMAIN body
  /\ B!now_pos(n) + body[B!now_pos(n)].length <= EndOf(n)
  /\ B!Plain(n) => body[B!now_pos(n)].length = B!Length(n)
  /\ Len(B!Data(n)) <= B!block_size
  /\ \A k \in 1 .. B!Length(n) :
       IF B!First(n) + k - 1 \in lost THEN B!Written(n) ELSE Has(n, k)

StoreInv ==
  /\ body \in [DOMAIN body -> [data : Seq(Int), length : Nat]]
  /\ image \in [0 .. total_bytes - 1 -> Int]
  /\ pc = "make" => lost = {}
  /\ \A n \in 0 .. B!total_block - 1 : n < Len(index) => Kept(n)

(* How far a read or a write is.                                           *)
Progress == IF sector_num = B!start_sec THEN 0 ELSE B!First(sector_num) - pos

InCall ==
  /\ pos \in Nat /\ size \in Nat \ {0} /\ pos + size <= total_bytes
  /\ B!end_sec \in Int /\ sector_num \in B!start_sec .. B!end_sec
  /\ ret = Progress

ReadInv ==
  pc = "read" =>
    /\ op = "read" /\ InCall /\ B!end_sec <= B!max_sector
    /\ out \in Seq(Int) /\ Len(out) = ret
    /\ \A k \in 1 .. ret : pos + k - 1 \notin lost => out[k] = image[pos + k - 1]

WriteInv ==
  pc = "write" =>
    /\ op = "write" /\ InCall
    /\ \A p \in pos .. pos + ret - 1 : image[p] = B!Other(p)

(* Of the whole blocks nothing is lost.                                    *)
Intact == \A p \in lost : p >= B!First(B!max_sector + 1)

(* Where an unpacker of an image that is not aligned is.                   *)
UnpackInv ==
  pc = "unpack" =>
    /\ op = "unpack" /\ sector_num \in 0 .. B!total_block
    /\ inpos \in Int /\ counter \in Int
    /\ align = 0 =>
         /\ inpos = B!now_pos(sector_num) /\ counter = inpos
         /\ out \in Seq(Int)
         /\ Intact =>
              /\ sector_num <= B!max_sector + 1 => Len(out) = B!First(sector_num)
              /\ sector_num = B!max_sector + 2 =>
                   Len(out) = B!First(B!max_sector + 1)
                              + (IF format = "lzo" THEN B!block_size
                                 ELSE Len(B!Data(B!max_sector + 1)))
              /\ \A p \in 0 .. B!First(B!max_sector + 1) - 1 :
                   p < B!First(sector_num) => out[p + 1] = image[p]

WritesDone ==
  pc = "idle" /\ op = "write" /\ ret >= 0 =>
    ret = size /\ \A p \in pos .. pos + size - 1 : image[p] = B!Other(p)

CallInv ==
  /\ pc \in {"make", "idle", "read", "write", "unpack"}
  /\ op \in {"make", "read", "write", "unpack"} /\ ret \in Int /\ ops \in 0 .. MaxCalls
  /\ pc = "make" => op = "make"
  /\ decompbuf \in [0 .. 2 * B!block_size - 1 -> Int]

BlocksInv ==
  /\ SizesInv /\ IndexInv /\ StoreInv /\ CallInv
  /\ ReadInv /\ WriteInv /\ UnpackInv
  /\ B!ReadsTrue /\ WritesDone /\ B!Unpacks

-----------------------------------------------------------------------------
(* The sizes stay what they are.                                           *)
LEMMA SizesStay ==
  ASSUME SizesInv, UNCHANGED <<format, total_bytes, align>>
  PROVE  /\ SizesInv'
         /\ B!block_size' = B!block_size /\ B!total_block' = B!total_block
         /\ B!max_sector' = B!max_sector
         /\ \A n : B!First(n)' = B!First(n) /\ B!Length(n)' = B!Length(n)
  BY DEF SizesInv, B!block_size, B!total_block, B!max_sector, B!First, B!Length, B!least

(* What the image has at a block.                                          *)
LEMMA Contents ==
  ASSUME SizesInv, image \in [0 .. total_bytes - 1 -> Int], NEW n \in 0 .. B!total_block - 1
  PROVE  /\ B!Content(n) \in Seq(Int) /\ Len(B!Content(n)) = B!Length(n)
         /\ \A k \in 1 .. B!Length(n) : /\ B!First(n) + k - 1 \in 0 .. total_bytes - 1
                                        /\ B!Content(n)[k] = image[B!First(n) + k - 1]
<1>1. /\ B!Length(n) \in Nat /\ B!First(n) \in Nat /\ total_bytes \in Nat
      /\ B!First(n) + B!Length(n) <= total_bytes
  BY BlockSizes, BlockLengths DEF SizesInv
<1>2. \A k \in 1 .. B!Length(n) : B!First(n) + k - 1 \in 0 .. total_bytes - 1
  BY <1>1
<1>3. \A k \in 1 .. B!Length(n) : image[B!First(n) + k - 1] \in Int
  BY <1>2
<1> QED BY <1>1, <1>2, <1>3, SMTT(40) DEF B!Content

LEMMA AlignedUp ==
  ASSUME SizesInv, NEW p \in Nat
  PROVE  /\ B!Aligned(p) \in Nat /\ B!Aligned(p) >= p
         /\ B!Aligned(p) % 2^align = 0
<1> DEFINE a == 2^align
           q == (p + a - 1) \div a
<1>1. a \in Nat \ {0}
  BY DEF SizesInv
<1>2. B!Aligned(p) = q * a
  BY DEF B!Aligned
<1> HIDE DEF a
<1>3. p + a - 1 \in Nat
  BY <1>1
<1>4. q \in Nat /\ p + a - 1 < q * a + a
  BY <1>1, <1>3, Quotients
<1> HIDE DEF q
<1>5. q * a \in Nat
  BY <1>1, <1>4
<1>6. (q * a) % a = 0
  BY <1>1, <1>4, NoRemainder
<1> QED BY <1>1, <1>2, <1>4, <1>5, <1>6 DEF a

LEMMA Appended ==
  ASSUME NEW S, NEW s \in Seq(S), NEW e \in S
  PROVE  /\ Len(s) \in Nat /\ \A i \in 1 .. Len(s) : s[i] \in S
         /\ Append(s, e) \in Seq(S) /\ Len(Append(s, e)) = Len(s) + 1
         /\ \A i \in 1 .. Len(s) : Append(s, e)[i] = s[i]
         /\ Append(s, e)[Len(s) + 1] = e
  OBVIOUS

-----------------------------------------------------------------------------
(* The maker puts each block behind the last.                              *)
LEMMA MakeBlockKeeps ==
  ASSUME SizesInv, IndexInv, StoreInv, B!MakeBlock
  PROVE  SizesInv' /\ IndexInv' /\ StoreInv'
<1>1. PICK compsize, plain, length :
        /\ compsize \in 1 .. B!block_size + 1
        /\ plain = (format = "cso" /\ compsize > Limit)
        /\ length = B!StoredLength(compsize, B!Length(Len(index)), plain)
        /\ index' = Append(index, [at |-> ftell, plain |-> plain])
        /\ body' = [a \in DOMAIN body \cup {ftell} |->
                      IF a = ftell THEN [data |-> B!Content(Len(index)), length |-> length]
                                   ELSE body[a]]
        /\ ftell' = B!Aligned(ftell + length)
  BY DEF B!MakeBlock
<1>0. PICK n : n = Len(index)
  OBVIOUS
<1>2. /\ SizesInv' /\ B!block_size' = B!block_size /\ B!total_block' = B!total_block
      /\ B!max_sector' = B!max_sector /\ pc = "make" /\ pc' = "make" /\ lost' = lost
      /\ image' = image /\ total_bytes' = total_bytes /\ align' = align
      /\ \A m : B!First(m)' = B!First(m) /\ B!Length(m)' = B!Length(m)
  BY SizesStay DEF B!MakeBlock
<1>3. /\ n \in Nat /\ ftell \in Nat /\ n \in 0 .. B!total_block - 1
      /\ index \in Seq([at : Nat, plain : BOOLEAN]) /\ Len(index) = n
  BY <1>0, Counts DEF IndexInv, B!MakeBlock
<1>a. \A i \in 1 .. n : index[i].at \in Nat /\ index[i].at < ftell
  <2>1. \A i \in 1 .. n : index[i] \in [at : Nat, plain : BOOLEAN]
    <3> DEFINE S == [at : Nat, plain : BOOLEAN]
    <3>1. index \in Seq(S) /\ Len(index) = n
      BY <1>3
    <3> HIDE DEF S
    <3>2. \A i \in 1 .. n : index[i] \in S
      BY <3>1
    <3> QED BY <3>2 DEF S
  <2>2. \A i \in 1 .. n : index[i].at < ftell
    BY <1>2, <1>3 DEF IndexInv
  <2> QED BY <2>1, <2>2
<1>4. plain \in BOOLEAN
  BY <1>1
<1>5. /\ length \in Nat /\ length >= 1
      /\ plain => length = B!Length(n)
  BY <1>1, <1>3, BlockSizes, BlockLengths DEF B!StoredLength
<1>6. ftell' \in Nat /\ ftell' >= ftell + length /\ ftell' % 2^align = 0
  BY <1>1, <1>3, <1>5, AlignedUp
<1>7. /\ index' \in Seq([at : Nat, plain : BOOLEAN]) /\ Len(index') = n + 1
      /\ \A i \in 1 .. n : index'[i] = index[i]
      /\ index'[n + 1] = [at |-> ftell, plain |-> plain]
  <2> DEFINE S == [at : Nat, plain : BOOLEAN]
             e == [at |-> ftell, plain |-> plain]
  <2>1. index \in Seq(S) /\ Len(index) = n /\ e \in S /\ index' = Append(index, e)
    BY <1>1, <1>3, <1>4
  <2> HIDE DEF S, e
  <2>2. /\ index' \in Seq(S) /\ Len(index') = n + 1
        /\ \A i \in 1 .. n : index'[i] = index[i]
        /\ index'[n + 1] = e
    BY <2>1, Appended
  <2> QED BY <2>2 DEF S, e
<1>8. IndexInv'
  <2>1. index'[n + 1].at = ftell
    BY <1>7
  <2>2. \A i \in 1 .. n : index'[i].at = index[i].at /\ index[i].at \in Nat /\ index[i].at < ftell
    BY <1>a, <1>7
  <2>3. \A i \in 1 .. Len(index') : index'[i].at % 2^align' = 0
    <3>1. \A i \in 1 .. n : index[i].at % 2^align = 0
      BY <1>3 DEF IndexInv
    <3>2. ftell % 2^align = 0 /\ align' = align
      BY <1>2 DEF IndexInv
    <3>3. \A i \in 1 .. Len(index') : i \in 1 .. n \/ i = n + 1
      BY <1>3, <1>7
    <3>4. \A i \in 1 .. Len(index') : index'[i].at % 2^align = 0
      BY <2>1, <2>2, <3>1, <3>2, <3>3
    <3> QED BY <3>2, <3>4
  <2>4. \A i, j \in 1 .. Len(index') : i < j => index'[i].at < index'[j].at
    <3>1. \A i \in 1 .. Len(index') : i \in 1 .. n \/ i = n + 1
      BY <1>3, <1>7
    <3>2. \A i, j \in 1 .. n : i < j => index[i].at < index[j].at
      BY <1>3 DEF IndexInv
    <3> QED BY <1>3, <2>1, <2>2, <3>1, <3>2
  <2>5. \A i \in 1 .. Len(index') : index'[i].at < ftell'
    <3>1. \A i \in 1 .. Len(index') : i \in 1 .. n \/ i = n + 1
      BY <1>3, <1>7
    <3>2. ftell < ftell'
      BY <1>3, <1>5, <1>6
    <3> QED BY <1>3, <1>6, <2>1, <2>2, <3>1, <3>2
  <2>7. index'[1].at = HeadLen
    BY <1>3, <1>7, <2>1, <2>2 DEF IndexInv
  <2>6. Len(index') <= B!total_block'
    BY <1>2, <1>3, <1>7, Counts
  <2> QED BY <1>2, <1>3, <1>6, <1>7, <2>3, <2>4, <2>5, <2>6, <2>7 DEF IndexInv
<1>9. /\ B!Content(n) \in Seq(Int) /\ Len(B!Content(n)) = B!Length(n)
      /\ B!Length(n) \in 1 .. B!block_size
  BY <1>3, Contents, BlockLengths DEF StoreInv
<1>10. /\ DOMAIN body' = DOMAIN body \cup {ftell}
       /\ body'[ftell] = [data |-> B!Content(n), length |-> length]
       /\ \A a \in DOMAIN body : a # ftell => body'[a] = body[a]
       /\ body' \in [DOMAIN body' -> [data : Seq(Int), length : Nat]]
  BY <1>0, <1>1, <1>5, <1>9 DEF StoreInv
<1>12. ASSUME NEW m \in 0 .. B!total_block - 1, m < n
       PROVE  Kept(m)'
  <2>1. Kept(m) /\ m \in Nat /\ m + 1 \in 1 .. n
    BY <1>3, <1>12 DEF StoreInv
  <2>2. /\ B!now_pos(m)' = B!now_pos(m) /\ B!Plain(m)' = B!Plain(m)
        /\ B!now_pos(m) < ftell /\ B!now_pos(m) \in Nat
    BY <1>a, <1>2, <1>3, <1>7, <2>1 DEF B!now_pos, B!Plain
  <2>3. EndOf(m)' = EndOf(m)
    <3>1. CASE m + 2 <= n
      <4>1. m + 2 \in 1 .. n /\ m + 2 <= n + 1
        BY <1>3, <2>1, <3>1
      <4>2. index'[m + 2] = index[m + 2]
        BY <1>7, <4>1
      <4> QED BY <1>3, <1>7, <3>1, <4>1, <4>2 DEF EndOf
    <3>2. CASE ~(m + 2 <= n)
      <4>1. m + 2 = n + 1
        BY <1>3, <2>1, <3>2
      <4>2. index'[m + 2].at = ftell /\ m + 2 <= Len(index')
        BY <1>3, <1>7, <4>1
      <4> QED BY <1>3, <3>2, <4>2 DEF EndOf
    <3> QED BY <3>1, <3>2
  <2>4. body'[B!now_pos(m)] = body[B!now_pos(m)] /\ B!now_pos(m) \in DOMAIN body'
    BY <1>10, <2>1, <2>2, <1>3 DEF Kept
  <2>5. B!Data(m)' = B!Data(m)
    BY <2>2, <2>4 DEF B!Data
  <2>6. B!Written(m)' = B!Written(m) /\ \A k : Has(m, k)' = Has(m, k)
    BY <1>2, <2>5 DEF B!Written, B!Other, Has
  <2> QED BY <1>2, <2>1, <2>2, <2>3, <2>4, <2>5, <2>6 DEF Kept
<1>13. Kept(n)'
  <2>1. B!now_pos(n)' = ftell /\ B!Plain(n)' = plain
    BY <1>2, <1>3, <1>7 DEF B!now_pos, B!Plain
  <2>2. EndOf(n)' = ftell'
    BY <1>3, <1>7 DEF EndOf
  <2>3. B!Data(n)' = B!Content(n)
    BY <2>1, <1>10 DEF B!Data
  <2>4. body'[B!now_pos(n)'].length = length
    BY <2>1, <1>10
  <2>5. lost' = {}
    BY <1>2 DEF StoreInv
  <2>6. \A k \in 1 .. B!Length(n) : Has(n, k)'
    <3>1. \A k \in 1 .. B!Length(n) : B!Content(n)[k] = image[B!First(n) + k - 1]
      BY <1>3, Contents DEF StoreInv
    <3> QED BY <1>2, <1>9, <2>3, <3>1 DEF Has
  <2> QED
    BY <1>2, <1>3, <1>5, <1>6, <1>9, <1>10, <2>1, <2>2, <2>3, <2>4, <2>5, <2>6, BlockSizes
    DEF Kept
<1>14. StoreInv'
  BY <1>2, <1>3, <1>7, <1>10, <1>12, <1>13 DEF StoreInv
<1> QED BY <1>2, <1>8, <1>14

LEMMA WriteIndexKeeps ==
  ASSUME SizesInv, IndexInv, StoreInv, B!WriteIndex
  PROVE  SizesInv' /\ IndexInv' /\ StoreInv'
<1>0. PICK n : n = Len(index)
  OBVIOUS
<1>1. /\ SizesInv' /\ B!block_size' = B!block_size /\ B!total_block' = B!total_block
      /\ B!max_sector' = B!max_sector /\ pc = "make" /\ pc' = "idle" /\ lost' = lost
      /\ image' = image /\ body' = body /\ total_bytes' = total_bytes
      /\ align' = align /\ ftell' = ftell
      /\ \A m : B!First(m)' = B!First(m) /\ B!Length(m)' = B!Length(m)
  BY SizesStay DEF B!WriteIndex
<1>2. /\ n \in Nat /\ ftell \in Nat /\ n = B!total_block /\ Len(index) = n
      /\ index \in Seq([at : Nat, plain : BOOLEAN])
      /\ index' = Append(index, [at |-> ftell, plain |-> FALSE])
  BY <1>0, Counts DEF IndexInv, B!WriteIndex
<1>3. /\ \A i \in 1 .. n : index[i].at < ftell /\ index[i].at % 2^align = 0
      /\ ftell % 2^align = 0
  BY <1>1, <1>2 DEF IndexInv
<1>4. /\ index' \in Seq([at : Nat, plain : BOOLEAN]) /\ Len(index') = n + 1
      /\ \A i \in 1 .. n : index'[i] = index[i]
      /\ index'[n + 1] = [at |-> ftell, plain |-> FALSE]
  <2> DEFINE S == [at : Nat, plain : BOOLEAN]
             e == [at |-> ftell, plain |-> FALSE]
  <2>1. index \in Seq(S) /\ Len(index) = n /\ e \in S /\ index' = Append(index, e)
    BY <1>2
  <2> HIDE DEF S, e
  <2>2. /\ index' \in Seq(S) /\ Len(index') = n + 1
        /\ \A i \in 1 .. n : index'[i] = index[i]
        /\ index'[n + 1] = e
    BY <2>1, Appended
  <2> QED BY <2>2 DEF S, e
<1>5. \A i \in 1 .. Len(index') : i \in 1 .. n \/ i = n + 1
  BY <1>2, <1>4
<1>6. IndexInv'
  <2>1. index'[n + 1].at = ftell
    BY <1>4
  <2>2. \A i \in 1 .. Len(index') : index'[i].at % 2^align = 0
    BY <1>3, <1>4, <1>5, <2>1
  <2>3. \A i, j \in 1 .. Len(index') : i < j => index'[i].at < index'[j].at
    BY <1>2, <1>3, <1>4, <1>5, <2>1 DEF IndexInv
  <2>4. /\ ftell' \in Nat /\ ftell' % 2^align' = 0
        /\ \A i \in 1 .. Len(index') : index'[i].at % 2^align' = 0
    BY <1>1, <1>2, <1>3, <2>2
  <2>5. index'[1].at = HeadLen
    BY <1>2, <1>4, <2>1 DEF IndexInv
  <2> QED BY <1>1, <1>2, <1>4, <2>3, <2>4, <2>5 DEF IndexInv
<1>8. ASSUME NEW m \in 0 .. B!total_block - 1
      PROVE  Kept(m)'
  <2>1. Kept(m) /\ m \in Nat /\ m + 1 \in 1 .. n
    BY <1>2, <1>8 DEF StoreInv
  <2>2. B!now_pos(m)' = B!now_pos(m) /\ B!Plain(m)' = B!Plain(m)
    BY <1>4, <2>1 DEF B!now_pos, B!Plain
  <2>3. EndOf(m)' = EndOf(m)
    BY <1>2, <1>4, <2>1 DEF EndOf
  <2>4. B!Data(m)' = B!Data(m)
    BY <1>1, <2>2 DEF B!Data
  <2>5. B!Written(m)' = B!Written(m) /\ \A k : Has(m, k)' = Has(m, k)
    BY <1>1, <2>4 DEF B!Written, B!Other, Has
  <2> QED BY <1>1, <2>1, <2>2, <2>3, <2>4, <2>5 DEF Kept
<1>9. StoreInv'
  BY <1>1, <1>8 DEF StoreInv
<1> QED BY <1>1, <1>6, <1>9

(* What leaves the file alone leaves all of this alone.                    *)
LEMMA FilesStay ==
  ASSUME SizesInv, IndexInv, StoreInv, UNCHANGED B!filevars, lost' = lost,
         pc # "make", pc' # "make"
  PROVE  SizesInv' /\ IndexInv' /\ StoreInv'
<1>1. /\ SizesInv' /\ B!block_size' = B!block_size /\ B!total_block' = B!total_block
      /\ B!max_sector' = B!max_sector
      /\ image' = image /\ body' = body /\ total_bytes' = total_bytes
      /\ align' = align /\ ftell' = ftell /\ index' = index
      /\ \A m : B!First(m)' = B!First(m) /\ B!Length(m)' = B!Length(m)
  BY SizesStay DEF B!filevars
<1>2. IndexInv'
  BY <1>1 DEF IndexInv
<1>3. \A m : /\ B!now_pos(m)' = B!now_pos(m)
             /\ B!Data(m)' = B!Data(m) /\ B!Plain(m)' = B!Plain(m) /\ EndOf(m)' = EndOf(m)
  BY <1>1 DEF B!now_pos, B!Data, B!Plain, EndOf
<1>6. \A m : B!Written(m)' = B!Written(m) /\ \A k : Has(m, k)' = Has(m, k)
  BY <1>1, <1>3 DEF B!Written, B!Other, Has
<1>4. \A m : Kept(m)' = Kept(m)
  BY <1>1, <1>3, <1>6 DEF Kept
<1>5. StoreInv'
  BY <1>1, <1>4 DEF StoreInv
<1> QED BY <1>1, <1>2, <1>5

-----------------------------------------------------------------------------
(* Once it is made: where blocks are, and the space they have.             *)
LEMMA Places ==
  ASSUME SizesInv, IndexInv, StoreInv, pc # "make", NEW n \in 0 .. B!total_block - 1
  PROVE  /\ Kept(n) /\ B!now_pos(n) \in Nat /\ B!next_pos(n) \in Nat
         /\ B!now_pos(n) < B!next_pos(n) /\ EndOf(n) = B!next_pos(n)
         /\ B!Space(n) \in Nat \ {0}
         /\ body[B!now_pos(n)].length \in Nat /\ body[B!now_pos(n)].length <= B!Space(n)
         /\ B!Data(n) \in Seq(Int) /\ Len(B!Data(n)) \in Nat
         /\ B!next_pos(n) = B!now_pos(n + 1)
         /\ \A m \in 0 .. B!total_block - 1 : m # n => B!now_pos(m) # B!now_pos(n)
<1>1. B!total_block \in Nat /\ Len(index) = B!total_block + 1
  BY Counts DEF IndexInv
<1>2. \A i \in 1 .. Len(index) : index[i].at \in Nat
  <2> DEFINE S == [at : Nat, plain : BOOLEAN]
  <2>1. index \in Seq(S)
    BY DEF IndexInv
  <2> HIDE DEF S
  <2>2. \A i \in 1 .. Len(index) : index[i] \in S
    BY <2>1
  <2> QED BY <2>2 DEF S
<1>3. \A i, j \in 1 .. Len(index) : i < j => index[i].at < index[j].at
  BY DEF IndexInv
<1>4. /\ B!now_pos(n) \in Nat /\ B!next_pos(n) \in Nat
      /\ B!now_pos(n) < B!next_pos(n) /\ B!next_pos(n) = B!now_pos(n + 1)
      /\ EndOf(n) = B!next_pos(n)
  BY <1>1, <1>2, <1>3 DEF B!now_pos, B!next_pos, EndOf
<1>5. Kept(n)
  BY <1>1 DEF StoreInv
<1>6. B!now_pos(n) \in DOMAIN body
  BY <1>5 DEF Kept
<1>7. body[B!now_pos(n)] \in [data : Seq(Int), length : Nat]
  BY <1>6 DEF StoreInv
<1>8. /\ body[B!now_pos(n)].length \in Nat /\ B!Data(n) \in Seq(Int)
  BY <1>7 DEF B!Data
<1>9. Len(B!Data(n)) \in Nat
  BY <1>8
<1>10. B!Space(n) \in Nat \ {0} /\ body[B!now_pos(n)].length <= B!Space(n)
  BY <1>4, <1>5, <1>8 DEF B!Space, Kept
<1>11. \A m \in 0 .. B!total_block - 1 : m # n => B!now_pos(m) # B!now_pos(n)
  <2> SUFFICES ASSUME NEW m \in 0 .. B!total_block - 1, m # n
               PROVE  B!now_pos(m) # B!now_pos(n)
    OBVIOUS
  <2>1. m + 1 \in 1 .. Len(index) /\ n + 1 \in 1 .. Len(index)
    BY <1>1
  <2>2. m + 1 < n + 1 \/ n + 1 < m + 1
    BY <1>1
  <2> QED BY <1>2, <1>3, <2>1, <2>2 DEF B!now_pos
<1> QED BY <1>4, <1>5, <1>8, <1>9, <1>10, <1>11

-----------------------------------------------------------------------------
(* The blocks where a part of the image begins and ends.                   *)
LEMMA Edges ==
  ASSUME SizesInv, NEW p \in Nat, NEW s \in Nat \ {0}, p + s <= total_bytes
  PROVE  LET first == p \div B!block_size
             last  == B!end_of(p, s)
         IN /\ first \in Nat /\ last \in Nat /\ first <= last /\ last <= B!total_block - 1
            /\ B!First(first) \in Nat /\ B!First(last) \in Nat
            /\ B!First(first) <= p /\ p < B!First(first) + B!block_size
            /\ B!First(last) <= p + s - 1 /\ p + s - 1 < B!First(last) + B!block_size
<1> DEFINE first == p \div B!block_size
           last  == B!end_of(p, s)
           b     == B!block_size
<1>1. b \in Nat \ {0} /\ total_bytes \in Nat /\ p + s - 1 \in Nat
  BY BlockSizes DEF SizesInv
<1>2. /\ first \in Nat /\ B!First(first) <= p /\ p < B!First(first) + b
  BY Geometry
<1>3. last \in Nat /\ B!First(last) <= p + s - 1 /\ p + s - 1 < B!First(last) + b
  BY <1>1, Geometry DEF B!end_of
<1>4. B!max_sector + 1 \in Int /\ B!max_sector + 2 \in Int /\ B!total_block \in Nat
  BY Counts
<1> HIDE DEF first, last, b
<1>5. ASSUME NEW n \in Nat
      PROVE  B!First(n) \in Nat
  <2>1. n = 0 \/ 0 < n
    BY <1>5
  <2>2. B!First(n) \in Int /\ B!First(0) = 0
    BY <1>5, Geometry
  <2>3. 0 < n => B!First(0) + b <= B!First(n)
    BY <1>5, Geometry DEF b
  <2> QED BY <1>1, <2>1, <2>2, <2>3
<1>6. B!First(first) \in Nat /\ B!First(last) \in Nat
  BY <1>2, <1>3, <1>5
<1>7. first <= last
  <2>1. last < first => B!First(last) + b <= B!First(first)
    BY <1>2, <1>3, Geometry DEF b
  <2> QED BY <1>1, <1>2, <1>3, <1>6, <2>1
<1>8. last <= B!total_block - 1
  <2>1. B!First(B!total_block) \in Int /\ B!First(B!total_block) >= total_bytes
    <3>1. CASE B!total_block = B!max_sector + 1
      <4>1. B!First(B!total_block) = total_bytes
        BY <3>1, Counts
      <4> QED BY <1>1, <4>1
    <3>2. CASE B!total_block = B!max_sector + 2
      <4>1. /\ B!First(B!total_block) = B!First(B!max_sector + 1) + b
            /\ B!First(B!max_sector + 1) \in Int
        <5>1. B!total_block = (B!max_sector + 1) + 1
          BY <1>4, <3>2, Counts
        <5> QED BY <1>4, <5>1, Geometry DEF b
      <4>2. total_bytes < B!First(B!max_sector + 1) + b
        BY Counts DEF b
      <4> QED BY <1>1, <4>1, <4>2
    <3> QED BY <3>1, <3>2, Counts
  <2>2. B!total_block <= last => B!First(B!total_block) <= B!First(last)
    <3>1. B!total_block < last => B!First(B!total_block) + b <= B!First(last)
      BY <1>3, <1>4, Geometry DEF b
    <3> QED BY <1>1, <1>3, <1>4, <1>6, <2>1, <3>1
  <2> QED BY <1>1, <1>3, <1>4, <1>6, <2>1, <2>2
<1> QED BY <1>2, <1>3, <1>6, <1>7, <1>8 DEF first, last, b

(* The part of the block at hand: it goes on where the call is, and after  *)
(* the last block the call is done.                                        *)
LEMMA Parts ==
  ASSUME SizesInv, InCall, op = "read" \/ op = "write"
  PROVE  /\ B!start_pos \in Nat /\ B!start_pos < B!block_size
         /\ B!end_pos \in Nat /\ B!start_pos < B!end_pos /\ B!end_pos <= 2 * B!block_size
         /\ op = "write" \/ pos + size <= B!First(B!max_sector + 1) => B!end_pos <= B!block_size
         /\ ret \in Nat /\ pos + ret = B!First(sector_num) + B!start_pos
         /\ sector_num \in Nat /\ B!First(sector_num) \in Nat /\ B!start_sec \in Nat
         /\ sector_num <= B!total_block - 1
         /\ sector_num = B!end_sec => ret + (B!end_pos - B!start_pos) = size
         /\ ret + (B!end_pos - B!start_pos) <= size
         /\ sector_num # B!end_sec =>
              /\ B!end_pos = B!block_size /\ sector_num < B!end_sec
              /\ pos + ret + (B!end_pos - B!start_pos) = B!First(sector_num + 1)
              /\ sector_num + 1 # B!start_sec
         /\ B!IsEdge \/ (B!start_pos = 0 /\ B!end_pos = B!block_size)
<1> DEFINE b == B!block_size
           f == B!start_sec
           e == B!end_sec
           l == B!end_of(pos, size)
           m == B!max_sector
           F(n) == B!First(n)
<1>1. /\ b \in Nat \ {0} /\ total_bytes \in Nat /\ pos \in Nat /\ size \in Nat \ {0}
      /\ pos + size <= total_bytes
      /\ e \in Int /\ sector_num \in f .. e /\ ret = Progress
  BY BlockSizes DEF SizesInv, InCall
<1>2. /\ f \in Nat /\ l \in Nat /\ f <= l /\ l <= B!total_block - 1
      /\ F(f) \in Nat /\ F(l) \in Nat /\ F(f) <= pos /\ pos < F(f) + b
      /\ F(l) <= pos + size - 1 /\ pos + size - 1 < F(l) + b
  BY <1>1, Edges DEF B!start_sec
<1>3. /\ m \in Int /\ F(m + 1) \in Int /\ total_bytes < F(m + 1) + b /\ F(m + 1) <= total_bytes
      /\ F(m) \in Int /\ F(m + 1) = F(m) + b /\ B!total_block \in Nat
  <2>1. m \in Int /\ m + 1 \in Int
    BY Counts
  <2>2. F(m + 1) \in Int /\ F(m) \in Int /\ F(m + 1) = F(m) + b
    BY <2>1, Geometry
  <2> QED BY <1>1, <2>1, <2>2, Counts
<1>4. e = l \/ (op = "read" /\ e = m /\ m < l)
  <2>1. CASE op = "write"
    BY <2>1 DEF B!end_sec
  <2>2. CASE op = "read"
    <3>1. e = IF l < m THEN l ELSE m
      BY <2>2 DEF B!end_sec, B!least
    <3> HIDE DEF e, l, m
    <3> QED BY <1>2, <1>3, <2>2, <3>1
  <2> QED BY <2>1, <2>2
<1>5. sector_num \in Nat /\ f <= sector_num /\ sector_num <= e /\ e <= l /\ e \in Nat
  BY <1>1, <1>2, <1>3, <1>4
<1>6. /\ F(sector_num) \in Int /\ F(sector_num + 1) = F(sector_num) + b
      /\ F(e) \in Int
      /\ f < sector_num => F(f) + b <= F(sector_num)
      /\ sector_num < e => F(sector_num) + b <= F(e)
      /\ e < l => F(e) + b <= F(l)
      /\ m + 1 <= l => F(m + 1) <= F(l)
  <2>1. sector_num \in Int /\ f \in Int /\ l \in Int /\ e \in Int /\ m + 1 \in Int
    BY <1>2, <1>3, <1>5
  <2>2. /\ F(sector_num) \in Int /\ F(sector_num + 1) = F(sector_num) + b
        /\ F(e) \in Int
    BY <2>1, Geometry
  <2>3. /\ f < sector_num => F(f) + b <= F(sector_num)
        /\ sector_num < e => F(sector_num) + b <= F(e)
        /\ e < l => F(e) + b <= F(l)
        /\ m + 1 < l => F(m + 1) + b <= F(l)
    BY <2>1, Geometry
  <2> QED BY <1>1, <1>2, <1>3, <2>1, <2>2, <2>3
<1>7. /\ B!start_pos = IF sector_num = f THEN pos - F(f) ELSE 0
      /\ B!end_pos = IF sector_num = e THEN pos + size - F(e) ELSE b
      /\ Progress = IF sector_num = f THEN 0 ELSE F(sector_num) - pos
      /\ B!IsEdge <=> (sector_num = f \/ sector_num = e)
  BY DEF B!start_pos, B!end_pos, Progress, B!IsEdge
<1> HIDE DEF b, f, e, l, m, F
<1>8. F(sector_num) \in Nat
  <2>1. CASE sector_num = f
    BY <1>2, <2>1
  <2>2. CASE f < sector_num
    BY <1>1, <1>2, <1>6, <2>2
  <2> QED BY <1>2, <1>5, <2>1, <2>2
<1>9. F(e) <= pos + size - 1 /\ (e = l => pos + size - F(e) <= b)
  BY <1>1, <1>2, <1>3, <1>5, <1>6
<1>10. e # l => pos + size - F(e) <= 2 * b /\ op = "read" /\ F(m + 1) <= pos + size - 1
  BY <1>1, <1>2, <1>3, <1>4, <1>6
<1>11. /\ B!start_pos \in Nat /\ B!start_pos < b
       /\ B!end_pos \in Nat /\ B!end_pos <= 2 * b
       /\ op = "write" \/ pos + size <= F(m + 1) => B!end_pos <= b
  <2>1. B!start_pos \in Nat /\ B!start_pos < b
    BY <1>1, <1>2, <1>7
  <2>2. B!end_pos \in Nat /\ B!end_pos <= 2 * b
    BY <1>1, <1>2, <1>6, <1>7, <1>9, <1>10
  <2>3. ASSUME op = "write" \/ pos + size <= F(m + 1)
        PROVE  B!end_pos <= b
    <3>1. e = l
      BY <1>1, <1>3, <1>10, <2>3
    <3> QED BY <1>1, <1>7, <1>9, <3>1
  <2> QED BY <2>1, <2>2, <2>3
<1>12. B!start_pos < B!end_pos
  <2>1. CASE sector_num = f /\ sector_num = e
    BY <1>1, <1>2, <1>7, <2>1
  <2>2. CASE sector_num # f
    BY <1>1, <1>6, <1>7, <1>9, <1>11, <2>2
  <2>3. CASE sector_num # e
    BY <1>1, <1>7, <1>11, <2>3
  <2> QED BY <2>1, <2>2, <2>3
<1>13. ret \in Nat /\ pos + ret = F(sector_num) + B!start_pos
  BY <1>1, <1>2, <1>5, <1>6, <1>7
<1>14. sector_num = e => ret + (B!end_pos - B!start_pos) = size
  BY <1>1, <1>7, <1>8, <1>11, <1>13
<1>15. sector_num # e => /\ B!end_pos = b /\ sector_num < e
                         /\ pos + ret + (B!end_pos - B!start_pos) = F(sector_num + 1)
                         /\ sector_num + 1 # f
  <2>1. ASSUME sector_num # e
        PROVE  B!end_pos = b /\ sector_num < e /\ sector_num + 1 # f
    BY <1>2, <1>5, <1>7, <2>1
  <2>2. B!end_pos = b => pos + ret + (B!end_pos - B!start_pos) = F(sector_num + 1)
    BY <1>1, <1>6, <1>8, <1>11, <1>13
  <2> QED BY <2>1, <2>2
<1>18. ret + (B!end_pos - B!start_pos) <= size
  <2>1. CASE sector_num = e
    BY <1>1, <1>14, <2>1
  <2>2. CASE sector_num # e
    <3>1. F(sector_num + 1) <= pos + size - 1
      BY <1>1, <1>5, <1>6, <1>9, <2>2
    <3>2. pos + (ret + (B!end_pos - B!start_pos)) <= pos + size
      BY <1>1, <1>6, <1>8, <1>11, <1>13, <1>15, <2>2, <3>1
    <3> QED BY <1>1, <1>11, <1>13, <3>2
  <2> QED BY <2>1, <2>2
<1>16. B!IsEdge \/ (B!start_pos = 0 /\ B!end_pos = b)
  BY <1>7
<1>17. sector_num <= B!total_block - 1
  BY <1>2, <1>3, <1>5
<1> QED
  BY <1>2, <1>5, <1>8, <1>11, <1>12, <1>13, <1>14, <1>15, <1>16, <1>17, <1>18 DEF b, f, e, m, F

-----------------------------------------------------------------------------
(* What a write is to change of a block, by what it is told and by where   *)
(* the code begins and ends.                                               *)
LEMMA WantedIs ==
  ASSUME SizesInv, InCall, op = "write", image \in [0 .. total_bytes - 1 -> Int]
  PROVE  /\ \A p : p \in B!Here <=> /\ p \in 0 .. total_bytes - 1
                                    /\ B!First(sector_num) <= p
                                    /\ p < B!First(sector_num) + B!block_size
         /\ \A p : p \in B!Wanted <=> /\ p \in 0 .. total_bytes - 1
                                      /\ B!First(sector_num) + B!start_pos <= p
                                      /\ p < B!First(sector_num) + B!end_pos
<1>0. PICK n, b, sp, ep, f : /\ n = sector_num /\ b = B!block_size /\ f = B!First(n)
                             /\ sp = B!start_pos /\ ep = B!end_pos
  OBVIOUS
<1>1. /\ b \in Nat \ {0} /\ sp \in Nat /\ ep \in Nat /\ sp < ep /\ ep <= b
      /\ n \in Nat /\ f \in Nat /\ ret \in Nat /\ pos + ret = f + sp
      /\ ret + (ep - sp) <= size /\ pos \in Nat /\ size \in Nat
      /\ total_bytes \in Nat
  BY <1>0, Parts, BlockSizes DEF InCall, SizesInv
<1>2. B!First(n + 1) = f + b
  BY <1>0, <1>1, Geometry
<1>3. /\ sp = IF n = B!start_sec THEN pos - f ELSE 0
      /\ ep = IF n = B!end_sec THEN pos + size - f ELSE b
  BY <1>0 DEF B!start_pos, B!end_pos
<1>4. /\ B!Here = {p \in 0 .. total_bytes - 1 : f <= p /\ p < f + b}
      /\ B!Wanted = {p \in B!Here : pos <= p /\ p < pos + size}
  BY <1>0, <1>2 DEF B!Here, B!Wanted
<1>5. \A p \in 0 .. total_bytes - 1 :
        (f <= p /\ p < f + b /\ pos <= p /\ p < pos + size) <=> (f + sp <= p /\ p < f + ep)
  <2> TAKE p \in 0 .. total_bytes - 1
  <2>1. f <= p /\ pos <= p <=> f + sp <= p
    BY <1>1, <1>3
  <2>2. p < f + b /\ p < pos + size <=> p < f + ep
    <3>1. f + ep <= pos + size
      BY <1>1
    <3> QED BY <1>1, <1>3, <3>1
  <2> QED BY <2>1, <2>2
<1> QED BY <1>0, <1>4, <1>5

(* What a block leaves in the buffer.                                      *)
LEMMA Loads ==
  ASSUME SizesInv, decompbuf \in [0 .. 2 * B!block_size - 1 -> Int],
         NEW data \in Seq(Int), Len(data) <= B!block_size
  PROVE  /\ B!Loaded(data) \in [0 .. 2 * B!block_size - 1 -> Int]
         /\ \A k \in 1 .. Len(data) : B!Loaded(data)[k - 1] = data[k]
<1> DEFINE b == B!block_size
<1>1. b \in Nat \ {0}
  BY BlockSizes
<1>2. B!Loaded(data) = [k \in 0 .. 2 * b - 1 |->
                          IF k < Len(data) THEN data[k + 1] ELSE decompbuf[k]]
  BY DEF B!Loaded
<1> HIDE DEF b
<1>3. Len(data) \in Nat /\ \A k \in 1 .. Len(data) : data[k] \in Int
  OBVIOUS
<1>4. \A k \in 0 .. 2 * b - 1 : (IF k < Len(data) THEN data[k + 1] ELSE decompbuf[k]) \in Int
  BY <1>1, <1>3 DEF b
<1>5. \A k \in 1 .. Len(data) : /\ k - 1 \in 0 .. 2 * b - 1 /\ k - 1 < Len(data)
                                /\ (k - 1) + 1 = k
  BY <1>1, <1>3 DEF b
<1>6. \A k \in 1 .. Len(data) : B!Loaded(data)[k - 1] = data[k]
  BY <1>2, <1>5
<1> QED BY <1>2, <1>4, <1>6 DEF b

(* A call begins: what it is told, and where it is then.                   *)
LEMMA ReadBegins ==
  ASSUME BlocksInv, B!Read
  PROVE  BlocksInv'
<1>1. /\ pc = "idle" /\ op' = "read" /\ out' = <<>> /\ ops < MaxCalls /\ ops' = ops + 1
      /\ decompbuf' = decompbuf /\ lost' = lost /\ UNCHANGED B!filevars
      /\ \/ ret' = -1 /\ pc' = "idle" /\ sector_num' > B!max_sector
         \/ ret' = 0 /\ pc' = "read" /\ ~(sector_num' > B!max_sector)
  BY DEF B!Read, B!Begin
<1>2. PICK p, s : /\ p \in 0 .. total_bytes + 1 /\ s \in 0 .. total_bytes + 1
                  /\ s # 0 /\ pos' = p
                  /\ size' = (IF p + s > total_bytes THEN total_bytes - p ELSE s)
                  /\ sector_num' = p \div B!block_size
  BY DEF B!Read
<1>3. SizesInv' /\ IndexInv' /\ StoreInv'
  BY <1>1, FilesStay DEF BlocksInv
<1>4. /\ SizesInv /\ B!block_size' = B!block_size /\ B!max_sector' = B!max_sector
      /\ total_bytes' = total_bytes
      /\ \A m : B!First(m)' = B!First(m)
  BY <1>1, SizesStay DEF B!filevars, BlocksInv
<1>5. CallInv'
  BY <1>1, <1>4, BlocksAssumption DEF CallInv, BlocksInv, B!LimitAssumption
<1>6. ReadInv'
  <2> SUFFICES ASSUME pc' = "read"
               PROVE  ReadInv'
    BY DEF ReadInv
  <2>1. /\ ret' = 0 /\ ~(sector_num' > B!max_sector)
    BY <1>1
  <2>2. /\ total_bytes \in Nat /\ B!max_sector \in Int /\ p \in Nat
        /\ B!First(B!max_sector + 1) <= total_bytes
        /\ B!First(B!max_sector + 1) \in Int
    <3>1. total_bytes \in Nat /\ B!max_sector \in Int /\ p \in Nat
      BY <1>2, <1>4, Counts DEF SizesInv
    <3>2. B!First(B!max_sector + 1) \in Int
      BY <1>4, <3>1, Geometry
    <3> QED BY <1>4, <3>1, <3>2, Counts
  <2>3. /\ sector_num' \in Nat /\ B!First(sector_num') \in Int
        /\ p < B!First(sector_num') + B!block_size
        /\ sector_num' <= B!max_sector
    BY <1>2, <1>4, <2>1, <2>2, Geometry
  <2>4. B!First(sector_num') + B!block_size <= B!First(B!max_sector + 1)
    BY <1>4, <2>2, <2>3, Geometry
  <2>5. p < total_bytes
    BY <1>4, <2>2, <2>3, <2>4, BlockSizes
  <2>6. size' \in Nat \ {0} /\ p + size' <= total_bytes
    BY <1>2, <2>2, <2>5
  <2>7. /\ B!start_sec' = sector_num'
        /\ B!end_sec' = B!least(B!end_of(p, size'), B!max_sector)
    BY <1>1, <1>2, <1>4 DEF B!start_sec, B!end_sec, B!end_of
  <2>8. B!end_of(p, size') \in Nat /\ sector_num' <= B!end_of(p, size')
    BY <1>2, <1>4, <2>2, <2>6, Edges
  <2>9. B!end_sec' \in Int /\ sector_num' <= B!end_sec' /\ B!end_sec' <= B!max_sector
    BY <2>2, <2>3, <2>7, <2>8 DEF B!least
  <2>10. InCall'
    BY <1>2, <1>4, <2>1, <2>2, <2>3, <2>6, <2>7, <2>9 DEF InCall, Progress
  <2>11. out' \in Seq(Int) /\ Len(out') = 0
    BY <1>1
  <2> QED BY <1>1, <1>4, <2>1, <2>9, <2>10, <2>11 DEF ReadInv
<1>7. WriteInv' /\ UnpackInv' /\ WritesDone' /\ B!Unpacks'
  BY <1>1 DEF WriteInv, UnpackInv, WritesDone, B!Unpacks, B!Done
<1>8. B!ReadsTrue'
  BY <1>1 DEF B!ReadsTrue
<1> QED BY <1>3, <1>5, <1>6, <1>7, <1>8 DEF BlocksInv

LEMMA WriteBegins ==
  ASSUME BlocksInv, B!Write
  PROVE  BlocksInv'
<1>1. /\ pc = "idle" /\ op' = "write" /\ out' = <<>> /\ ops < MaxCalls /\ ops' = ops + 1
      /\ decompbuf' = decompbuf /\ lost' = lost /\ UNCHANGED B!filevars
      /\ ret' = 0 /\ pc' = "write"
  BY DEF B!Write, B!Begin
<1>2. PICK p, s : /\ p \in 0 .. total_bytes /\ s \in 0 .. total_bytes
                  /\ s # 0 /\ p + s <= total_bytes /\ pos' = p /\ size' = s
                  /\ sector_num' = p \div B!block_size
  BY DEF B!Write
<1>3. SizesInv' /\ IndexInv' /\ StoreInv'
  BY <1>1, FilesStay DEF BlocksInv
<1>4. /\ SizesInv /\ B!block_size' = B!block_size /\ B!max_sector' = B!max_sector
      /\ total_bytes' = total_bytes /\ total_bytes \in Nat
      /\ \A m : B!First(m)' = B!First(m)
  BY <1>1, SizesStay DEF B!filevars, BlocksInv, SizesInv
<1>5. CallInv'
  BY <1>1, <1>4, BlocksAssumption DEF CallInv, BlocksInv, B!LimitAssumption
<1>6. WriteInv'
  <2>1. /\ B!start_sec' = sector_num' /\ B!end_sec' = B!end_of(p, s)
    BY <1>1, <1>2, <1>4 DEF B!start_sec, B!end_sec, B!end_of
  <2>2. p \in Nat /\ s \in Nat \ {0}
    BY <1>2, <1>4
  <2>3. /\ B!end_of(p, s) \in Nat /\ sector_num' \in Nat /\ sector_num' <= B!end_of(p, s)
    BY <1>2, <1>4, <2>2, Edges
  <2>4. InCall'
    BY <1>1, <1>2, <1>4, <2>1, <2>2, <2>3 DEF InCall, Progress
  <2>5. \A q \in pos' .. pos' + ret' - 1 : FALSE
    BY <1>1, <1>2, <2>2
  <2> QED BY <1>1, <2>4, <2>5 DEF WriteInv
<1>7. ReadInv' /\ UnpackInv' /\ WritesDone' /\ B!Unpacks' /\ B!ReadsTrue'
  BY <1>1 DEF ReadInv, UnpackInv, WritesDone, B!Unpacks, B!Done, B!ReadsTrue
<1> QED BY <1>3, <1>5, <1>6, <1>7 DEF BlocksInv

LEMMA UnpackBegins ==
  ASSUME BlocksInv, B!Unpack
  PROVE  BlocksInv'
<1>1. /\ pc = "idle" /\ op' = "unpack" /\ out' = <<>> /\ ops < MaxCalls /\ ops' = ops + 1
      /\ decompbuf' = decompbuf /\ lost' = lost /\ UNCHANGED B!filevars
      /\ ret' = 0 /\ pc' = "unpack"
      /\ sector_num' = 0 /\ inpos' = HeadLen /\ counter' = HeadLen
  BY DEF B!Unpack, B!Begin
<1>3. SizesInv' /\ IndexInv' /\ StoreInv'
  BY <1>1, FilesStay DEF BlocksInv
<1>4. /\ SizesInv /\ B!block_size' = B!block_size /\ B!max_sector' = B!max_sector
      /\ B!total_block' = B!total_block
      /\ total_bytes' = total_bytes /\ total_bytes \in Nat
      /\ \A m : B!First(m)' = B!First(m)
  BY <1>1, SizesStay DEF B!filevars, BlocksInv, SizesInv
<1>5. CallInv'
  BY <1>1, <1>4, BlocksAssumption DEF CallInv, BlocksInv, B!LimitAssumption
<1>6. UnpackInv'
  <2>1. /\ B!total_block \in Nat /\ B!max_sector \in Int /\ B!max_sector >= -1
        /\ Len(index) = B!total_block + 1 /\ index[1].at = HeadLen
        /\ HeadLen \in Nat
    BY <1>1, <1>4, Counts, BlocksAssumption DEF BlocksInv, IndexInv, B!HeadAssumption
  <2>2. B!now_pos(0)' = HeadLen
    BY <1>1, <2>1 DEF B!filevars, B!now_pos
  <2>3. B!First(0) = 0
    BY <1>4, Geometry
  <2>4. out' \in Seq(Int) /\ Len(out') = 0
    BY <1>1
  <2>5. \A p \in 0 .. B!First(B!max_sector + 1) - 1 : ~(p < 0)
    BY <2>1, <1>4, Geometry
  <2> QED BY <1>1, <1>4, <2>1, <2>2, <2>3, <2>4, <2>5 DEF UnpackInv
<1>7. ReadInv' /\ WriteInv' /\ WritesDone' /\ B!Unpacks' /\ B!ReadsTrue'
  BY <1>1 DEF ReadInv, WriteInv, WritesDone, B!Unpacks, B!Done, B!ReadsTrue
<1> QED BY <1>3, <1>5, <1>6, <1>7 DEF BlocksInv

-----------------------------------------------------------------------------
(* Each step of a read adds what the image has next.                       *)
LEMMA Joined ==
  ASSUME NEW S, NEW s \in Seq(S), NEW t \in Seq(S)
  PROVE  /\ Len(s) \in Nat /\ Len(t) \in Nat
         /\ s \o t \in Seq(S) /\ Len(s \o t) = Len(s) + Len(t)
         /\ \A k \in 1 .. Len(s) : (s \o t)[k] = s[k]
         /\ \A k \in 1 .. Len(t) : (s \o t)[Len(s) + k] = t[k]
  OBVIOUS

LEMMA PartsAdd ==
  ASSUME NEW p \in Nat, NEW r \in Nat, NEW f \in Nat, NEW a \in Nat, NEW e \in Nat,
         a <= e, p + r = f + a
  PROVE  /\ r + (e - a) \in Nat /\ p + (r + (e - a)) = f + e
         /\ \A q \in p .. p + (r + (e - a)) - 1 :
              q \in p .. p + r - 1 \/ (f + a <= q /\ q < f + e)
  OBVIOUS

LEMMA ReadBlockKeeps ==
  ASSUME BlocksInv, B!ReadBlock
  PROVE  BlocksInv'
<1> DEFINE n == sector_num
           b == B!block_size
           sp == B!start_pos
           ep == B!end_pos
<1>1. /\ pc = "read" /\ UNCHANGED <<op, pos, size, inpos, counter, ops, lost>>
      /\ UNCHANGED B!filevars
      /\ decompbuf' = B!Loaded(B!Data(n))
      /\ out' = out \o [k \in 1 .. ep - sp |-> decompbuf'[sp + k - 1]]
      /\ ret' = ret + (ep - sp) /\ sector_num' = n + 1
      /\ pc' = IF n = B!end_sec THEN "idle" ELSE pc
  BY DEF B!ReadBlock, B!NextSector, B!callvars
<1>2. /\ op = "read" /\ InCall /\ B!end_sec <= B!max_sector
      /\ out \in Seq(Int) /\ Len(out) = ret
      /\ \A k \in 1 .. ret : pos + k - 1 \notin lost => out[k] = image[pos + k - 1]
      /\ SizesInv
  BY <1>1 DEF BlocksInv, ReadInv
<1>3. SizesInv' /\ IndexInv' /\ StoreInv'
  BY <1>1, FilesStay DEF BlocksInv
<1>4. /\ B!block_size' = B!block_size /\ B!max_sector' = B!max_sector
      /\ B!total_block' = B!total_block
      /\ total_bytes' = total_bytes /\ image' = image
      /\ \A m : B!First(m)' = B!First(m)
  BY <1>1, <1>2, SizesStay DEF B!filevars
<1>5. /\ b \in Nat \ {0} /\ sp \in Nat /\ ep \in Nat /\ sp <= ep /\ ep <= 2 * b
      /\ ret \in Nat /\ pos \in Nat /\ size \in Nat /\ pos + ret = B!First(n) + sp
      /\ n \in Nat /\ B!First(n) \in Nat /\ n <= B!total_block - 1 /\ n <= B!max_sector
      /\ B!total_block \in Nat /\ B!start_sec \in Nat
      /\ pos + size <= B!First(B!max_sector + 1) => ep <= b
      /\ n = B!end_sec => ret + (ep - sp) = size
      /\ n # B!end_sec => /\ ep = b /\ n < B!end_sec
                          /\ pos + ret + (ep - sp) = B!First(n + 1)
                          /\ n + 1 # B!start_sec
  BY <1>2, Parts, BlockSizes, Counts, SMTT(40) DEF InCall
<1> HIDE DEF sp, ep, b
<1>6. /\ B!Data(n) \in Seq(Int) /\ Len(B!Data(n)) <= b /\ Kept(n)
  BY <1>1, <1>2, <1>5, Places DEF BlocksInv, Kept, b
<1>7. /\ decompbuf' \in [0 .. 2 * b - 1 -> Int]
      /\ \A k \in 1 .. Len(B!Data(n)) : decompbuf'[k - 1] = B!Data(n)[k]
  BY <1>1, <1>2, <1>6, Loads DEF BlocksInv, CallInv, b
<1> DEFINE L == ep - sp
<1>8. L \in Nat /\ \A k \in 1 .. L : decompbuf'[sp + k - 1] \in Int
  <2>1. \A k \in 1 .. L : sp + k - 1 \in 0 .. 2 * b - 1
    BY <1>5
  <2> QED BY <1>5, <1>7, <2>1
<1>9. /\ out' \in Seq(Int) /\ Len(out') = ret + L
      /\ \A k \in 1 .. ret : out'[k] = out[k]
      /\ \A k \in 1 .. L : out'[ret + k] = decompbuf'[sp + k - 1]
  <2> DEFINE t == [k \in 1 .. L |-> decompbuf'[sp + k - 1]]
  <2>1. out' = out \o t
    BY <1>1 DEF sp, ep
  <2>2. t \in Seq(Int) /\ Len(t) = L /\ \A k \in 1 .. L : t[k] = decompbuf'[sp + k - 1]
    BY <1>8
  <2> HIDE DEF t, L
  <2>3. /\ out \o t \in Seq(Int) /\ Len(out \o t) = Len(out) + Len(t)
        /\ \A k \in 1 .. Len(out) : (out \o t)[k] = out[k]
        /\ \A k \in 1 .. Len(t) : (out \o t)[Len(out) + k] = t[k]
    <3>1. out \in Seq(Int)
      BY <1>2
    <3>2. t \in Seq(Int)
      BY <2>2
    <3> QED BY <3>1, <3>2, Joined
  <2> QED BY <1>2, <2>1, <2>2, <2>3
<1>10. ASSUME ep <= b
       PROVE  \A k \in 1 .. ret + L : pos + k - 1 \notin lost => out'[k] = image[pos + k - 1]
  <2>2. \A k \in 1 .. b : B!First(n) + k - 1 \notin lost => Has(n, k)
    <3>1. n \in 0 .. B!total_block - 1
      BY <1>5
    <3>2. B!Length(n) = b
      BY <1>2, <1>5, <3>1, BlockLengths DEF b
    <3> QED BY <1>6, <3>2 DEF Kept
  <2>3. ASSUME NEW k \in 1 .. L, pos + (ret + k) - 1 \notin lost
        PROVE  out'[ret + k] = image[pos + (ret + k) - 1]
    <3>1. /\ sp + k \in 1 .. b /\ sp + k - 1 = (sp + k) - 1
          /\ B!First(n) + (sp + k) - 1 = pos + (ret + k) - 1
      BY <1>5, <1>8, <1>10
    <3>2. /\ sp + k <= Len(B!Data(n))
          /\ B!Data(n)[sp + k] = image[B!First(n) + (sp + k) - 1]
      BY <2>2, <2>3, <3>1 DEF Has
    <3>3. sp + k \in 1 .. Len(B!Data(n))
      BY <1>6, <3>1, <3>2
    <3>4. decompbuf'[(sp + k) - 1] = B!Data(n)[sp + k]
      BY <1>7, <3>3
    <3> QED BY <1>9, <3>1, <3>2, <3>4
  <2>4. ASSUME NEW k \in 1 .. ret + L, ~(k \in 1 .. ret)
        PROVE  k - ret \in 1 .. L /\ ret + (k - ret) = k
    BY <1>5, <1>8, <2>4
  <2>5. \A k \in 1 .. ret : pos + k - 1 \notin lost => out'[k] = image[pos + k - 1]
    BY <1>2, <1>9
  <2>6. \A k \in 1 .. ret + L :
          ~(k \in 1 .. ret) /\ pos + k - 1 \notin lost => out'[k] = image[pos + k - 1]
    <3> SUFFICES ASSUME NEW k \in 1 .. ret + L, ~(k \in 1 .. ret), pos + k - 1 \notin lost
                 PROVE  out'[k] = image[pos + k - 1]
      OBVIOUS
    <3>1. out'[ret + (k - ret)] = image[pos + (ret + (k - ret)) - 1]
      BY <2>3, <2>4
    <3> QED BY <2>4, <3>1
  <2> QED BY <2>5, <2>6
<1>11. CallInv'
  <2>1. pc' \in {"idle", "read"} /\ ret' \in Int
    BY <1>1, <1>5
  <2> QED BY <1>1, <1>2, <1>4, <1>7, <2>1 DEF CallInv, BlocksInv, b
<1>12. CASE n = B!end_sec
  <2>1. pc' = "idle" /\ op' = "read" /\ ret' = size /\ ret' = ret + L
    BY <1>1, <1>2, <1>5, <1>12 DEF sp, ep
  <2>2. ASSUME pos + size <= B!First(B!max_sector + 1)
        PROVE  /\ Len(out') = size
               /\ \A k \in 1 .. size : pos + k - 1 \notin lost => out'[k] = image[pos + k - 1]
    BY <1>2, <1>5, <1>9, <1>10, <1>12, <2>2
  <2>3. B!ReadsTrue'
    BY <1>1, <1>4, <2>1, <2>2 DEF B!ReadsTrue
  <2>4. ReadInv' /\ WriteInv' /\ UnpackInv' /\ WritesDone' /\ B!Unpacks'
    BY <2>1 DEF ReadInv, WriteInv, UnpackInv, WritesDone, B!Unpacks, B!Done
  <2> QED BY <1>3, <1>11, <2>3, <2>4 DEF BlocksInv
<1>13. CASE n # B!end_sec
  <2>1. pc' = "read" /\ op' = "read" /\ ret' = ret + L
    BY <1>1, <1>2, <1>13 DEF sp, ep
  <2>2. B!start_sec' = B!start_sec /\ B!end_sec' = B!end_sec
    BY <1>1, <1>4 DEF B!start_sec, B!end_sec, B!end_of
  <2>3. B!First(n + 1) \in Int
    BY <1>2, <1>5, Geometry
  <2>4. InCall'
    <3>1. n + 1 \in B!start_sec .. B!end_sec
      BY <1>2, <1>5, <1>13 DEF InCall
    <3>2. ret + L = B!First(n + 1) - pos
      BY <1>5, <1>8, <1>13, <2>3
    <3> QED BY <1>1, <1>2, <1>4, <1>5, <1>13, <2>1, <2>2, <3>1, <3>2 DEF InCall, Progress
  <2>5. ReadInv'
    <3>1. \A k \in 1 .. ret + L : pos + k - 1 \notin lost => out'[k] = image[pos + k - 1]
      BY <1>5, <1>10, <1>13
    <3>2. pos' = pos /\ image' = image /\ lost' = lost
      BY <1>1, <1>4
    <3> QED BY <1>2, <1>4, <1>9, <2>1, <2>2, <2>4, <3>1, <3>2 DEF ReadInv
  <2>6. B!ReadsTrue' /\ WriteInv' /\ UnpackInv' /\ WritesDone' /\ B!Unpacks'
    BY <2>1 DEF B!ReadsTrue, WriteInv, UnpackInv, WritesDone, B!Unpacks, B!Done
  <2> QED BY <1>3, <1>11, <2>5, <2>6 DEF BlocksInv
<1> QED BY <1>12, <1>13

-----------------------------------------------------------------------------
(* What the buffer has when a block is written back: what is new, and      *)
(* around it what the image has.                                           *)
LEMMA PatchedBuffer ==
  ASSUME BlocksInv, pc = "write"
  PROVE  /\ B!Patched \in [0 .. 2 * B!block_size - 1 -> Int]
         /\ \A k \in 0 .. 2 * B!block_size - 1 :
              B!start_pos <= k /\ k < B!end_pos =>
                B!Patched[k] = B!Other(B!First(sector_num) + k)
         /\ sector_num <= B!max_sector =>
              \A k \in 0 .. B!block_size - 1 :
                ~(B!start_pos <= k /\ k < B!end_pos) /\ B!First(sector_num) + k \notin lost =>
                  B!Patched[k] = image[B!First(sector_num) + k]
<1> DEFINE n == sector_num
           b == B!block_size
           sp == B!start_pos
           ep == B!end_pos
<1>1. /\ SizesInv /\ IndexInv /\ StoreInv /\ op = "write" /\ InCall
      /\ decompbuf \in [0 .. 2 * b - 1 -> Int]
  BY DEF BlocksInv, WriteInv, CallInv
<1>2. /\ b \in Nat \ {0} /\ sp \in Nat /\ ep \in Nat /\ sp <= ep /\ ep <= b
      /\ n \in Nat /\ B!First(n) \in Nat /\ n <= B!total_block - 1 /\ B!total_block \in Nat
      /\ B!IsEdge \/ (sp = 0 /\ ep = b)
  BY <1>1, Parts, BlockSizes, Counts
<1>3. n \in 0 .. B!total_block - 1
  BY <1>2
<1> HIDE DEF sp, ep, b
<1>4. B!Data(n) \in Seq(Int) /\ Len(B!Data(n)) <= b /\ Kept(n)
  BY <1>1, <1>3, Places DEF Kept, b
<1>5. /\ B!Loaded(B!Data(n)) \in [0 .. 2 * b - 1 -> Int]
      /\ \A k \in 1 .. Len(B!Data(n)) : B!Loaded(B!Data(n))[k - 1] = B!Data(n)[k]
  BY <1>1, <1>4, Loads DEF b
<1>6. B!Under \in [0 .. 2 * b - 1 -> Int]
  BY <1>1, <1>5 DEF B!Under
<1>7. B!Patched = [k \in 0 .. 2 * b - 1 |->
                     IF sp <= k /\ k < ep THEN B!Other(B!First(n) + k) ELSE B!Under[k]]
  BY <1>1 DEF B!Patched, sp, ep
<1>8. \A k \in 0 .. 2 * b - 1 : B!Other(B!First(n) + k) \in Int
  BY <1>2 DEF B!Other
<1>9. B!Patched \in [0 .. 2 * b - 1 -> Int]
  BY <1>6, <1>7, <1>8
<1>10. \A k \in 0 .. 2 * b - 1 : sp <= k /\ k < ep => B!Patched[k] = B!Other(B!First(n) + k)
  BY <1>7
<1>11. ASSUME n <= B!max_sector, NEW k \in 0 .. b - 1, ~(sp <= k /\ k < ep),
              B!First(n) + k \notin lost
       PROVE  B!Patched[k] = image[B!First(n) + k]
  <2>1. B!IsEdge
    BY <1>2, <1>11
  <2>2. B!Under = B!Loaded(B!Data(n))
    BY <1>11, <2>1 DEF B!Under
  <2>3. k \in 0 .. 2 * b - 1 /\ k + 1 \in 1 .. b /\ (k + 1) - 1 = k
    BY <1>2
  <2>4. B!Patched[k] = B!Loaded(B!Data(n))[k]
    BY <1>7, <1>11, <2>2, <2>3
  <2>6. B!Length(n) = b
    BY <1>1, <1>3, <1>11, BlockLengths DEF b
  <2>8. B!First(n) + (k + 1) - 1 = B!First(n) + k
    BY <1>2, <2>3
  <2>7. k + 1 <= Len(B!Data(n)) /\ B!Data(n)[k + 1] = image[B!First(n) + k]
    <3>1. Has(n, k + 1)
      BY <1>4, <1>11, <2>3, <2>6, <2>8 DEF Kept
    <3> QED BY <2>8, <3>1 DEF Has
  <2>9. B!Loaded(B!Data(n))[(k + 1) - 1] = B!Data(n)[k + 1]
    <3>1. k + 1 \in 1 .. Len(B!Data(n))
      BY <1>4, <2>3, <2>7
    <3> QED BY <1>5, <3>1
  <2> QED BY <2>3, <2>4, <2>7, <2>9
<1>12. n <= B!max_sector =>
         \A k \in 0 .. b - 1 :
           ~(sp <= k /\ k < ep) /\ B!First(n) + k \notin lost =>
             B!Patched[k] = image[B!First(n) + k]
  BY <1>11
<1> QED BY <1>9, <1>10, <1>12 DEF b, sp, ep

(* A block is written back: the others keep theirs, and the image is what  *)
(* it was but for what is new.                                             *)
LEMMA StoreKeeps ==
  ASSUME BlocksInv, pc = "write", NEW data \in Seq(Int), B!Store(data),
         Len(data) <= B!block_size,
         decompbuf' = B!Patched, UNCHANGED <<op, pos, size, ops>>,
         \A k \in 1 .. Len(data) : data[k] = B!Patched[k - 1]
  PROVE  BlocksInv'
<1>0. PICK n, b, sp, ep : n = sector_num /\ b = B!block_size /\ sp = B!start_pos /\ ep = B!end_pos
  OBVIOUS
<1>1. /\ SizesInv /\ IndexInv /\ StoreInv /\ op = "write" /\ InCall
      /\ \A p \in pos .. pos + ret - 1 : image[p] = B!Other(p)
  BY DEF BlocksInv, WriteInv, CallInv
<1>2. /\ b \in Nat \ {0} /\ sp \in Nat /\ ep \in Nat /\ sp < ep /\ ep <= b
      /\ n \in Nat /\ B!First(n) \in Nat /\ n <= B!total_block - 1 /\ B!total_block \in Nat
      /\ B!start_sec \in Nat /\ B!max_sector \in Int
      /\ ret \in Nat /\ pos \in Nat /\ size \in Nat /\ pos + ret = B!First(n) + sp
      /\ n = B!end_sec => ret + (ep - sp) = size
      /\ n # B!end_sec => /\ ep = b /\ n < B!end_sec
                          /\ pos + ret + (ep - sp) = B!First(n + 1)
                          /\ n + 1 # B!start_sec
  BY <1>0, <1>1, Parts, BlockSizes, Counts DEF InCall
<1>3. n \in 0 .. B!total_block - 1
  BY <1>2
<1>4. /\ body' = [body EXCEPT ![B!now_pos(n)].data = data]
      /\ image' = [p \in DOMAIN image |-> IF p \in B!Wanted THEN B!Other(p) ELSE image[p]]
      /\ lost' = (lost \ B!Wanted)
                    \cup ({p \in B!Here : p >= B!First(n) + Len(data)}
                          \cup (IF n > B!max_sector THEN B!Here \ B!Wanted ELSE {}))
      /\ ret' = ret + (ep - sp) /\ sector_num' = n + 1
      /\ pc' = (IF n = B!end_sec THEN "idle" ELSE pc)
      /\ UNCHANGED <<format, total_bytes, align, index, ftell>>
  BY <1>0 DEF B!Store, B!LostBy, B!NextSector
<1>5. /\ SizesInv' /\ B!block_size' = B!block_size /\ B!max_sector' = B!max_sector
      /\ B!total_block' = B!total_block /\ total_bytes' = total_bytes
      /\ \A m : B!First(m)' = B!First(m) /\ B!Length(m)' = B!Length(m)
  BY <1>1, <1>4, SizesStay
<1>6. pc' # "make" /\ pc' \in {"idle", "write"}
  BY <1>4
<1>7. IndexInv'
  BY <1>1, <1>4, <1>5, <1>6 DEF IndexInv
<1>8. /\ image \in [0 .. total_bytes - 1 -> Int] /\ total_bytes \in Nat
      /\ body \in [DOMAIN body -> [data : Seq(Int), length : Nat]]
      /\ B!now_pos(n) \in DOMAIN body
  BY <1>1, <1>3, Places DEF StoreInv, SizesInv, Kept
<1>9. /\ DOMAIN body' = DOMAIN body
      /\ body'[B!now_pos(n)].data = data
      /\ body'[B!now_pos(n)].length = body[B!now_pos(n)].length
      /\ \A a \in DOMAIN body : a # B!now_pos(n) => body'[a] = body[a]
      /\ body' \in [DOMAIN body' -> [data : Seq(Int), length : Nat]]
  BY <1>4, <1>8
<1>10. /\ image' \in [0 .. total_bytes - 1 -> Int]
       /\ \A p \in 0 .. total_bytes - 1 :
            image'[p] = IF B!First(n) + sp <= p /\ p < B!First(n) + ep
                        THEN B!Other(p) ELSE image[p]
  <2>1. \A p \in 0 .. total_bytes - 1 : B!Other(p) \in Int
    BY <1>8 DEF B!Other
  <2>2. \A p \in 0 .. total_bytes - 1 :
          p \in B!Wanted <=> B!First(n) + sp <= p /\ p < B!First(n) + ep
    BY <1>0, <1>1, <1>8, WantedIs
  <2> QED BY <1>4, <1>8, <2>1, <2>2
<1>21. /\ \A p : p \in B!Here <=> /\ p \in 0 .. total_bytes - 1
                                 /\ B!First(n) <= p /\ p < B!First(n) + b
       /\ \A p : p \in B!Wanted <=> /\ p \in 0 .. total_bytes - 1
                                   /\ B!First(n) + sp <= p /\ p < B!First(n) + ep
  BY <1>0, <1>1, <1>8, WantedIs
<1>11. \A m : /\ B!now_pos(m)' = B!now_pos(m) /\ B!Plain(m)' = B!Plain(m)
              /\ EndOf(m)' = EndOf(m)
  BY <1>4 DEF B!now_pos, B!Plain, EndOf
<1>12. \A m \in 0 .. B!total_block - 1 :
         Kept(m) /\ (m # n => B!now_pos(m) # B!now_pos(n))
  BY <1>1, <1>3, Places
<1>13. ASSUME NEW m \in 0 .. B!total_block - 1, m # n
       PROVE  Kept(m)'
  <2>1. Kept(m) /\ B!now_pos(m) \in DOMAIN body /\ body'[B!now_pos(m)] = body[B!now_pos(m)]
    BY <1>9, <1>12, <1>13 DEF Kept
  <2>2. B!Data(m)' = B!Data(m)
    BY <1>11, <2>1 DEF B!Data
  <2>3. \A k \in 1 .. B!Length(m) :
          LET p == B!First(m) + k - 1
          IN  image'[p] = image[p] /\ (p \in lost' <=> p \in lost)
    <3>1. B!Length(m) \in 1 .. b /\ B!First(m) \in Nat
      BY <1>0, <1>1, <1>13, BlockLengths
    <3>2. m < n => B!First(m) + b <= B!First(n)
      BY <1>0, <1>1, <1>2, Geometry
    <3>3. n < m => B!First(n) + b <= B!First(m)
      BY <1>0, <1>1, <1>2, Geometry
    <3>4. \A k \in 1 .. B!Length(m) :
            ~(B!First(n) + sp <= B!First(m) + k - 1 /\ B!First(m) + k - 1 < B!First(n) + ep)
      <4> SUFFICES ASSUME NEW k \in 1 .. B!Length(m)
                   PROVE  ~(/\ B!First(n) + sp <= B!First(m) + k - 1
                            /\ B!First(m) + k - 1 < B!First(n) + ep)
        OBVIOUS
      <4>1. /\ k \in Nat /\ 1 <= k /\ k <= b
            /\ b \in Nat /\ sp \in Nat /\ ep \in Nat /\ ep <= b
            /\ B!First(n) \in Nat /\ B!First(m) \in Nat
        BY <1>2, <3>1
      <4>2. CASE m < n
        BY <3>2, <4>1, <4>2
      <4>3. CASE n < m
        BY <3>3, <4>1, <4>3
      <4> QED BY <1>2, <1>13, <4>2, <4>3
    <3>5. \A k \in 1 .. B!Length(m) : B!First(m) + k - 1 \in 0 .. total_bytes - 1
      BY <1>1, <1>8, <1>13, Contents
    <3>6. \A k \in 1 .. B!Length(m) : image'[B!First(m) + k - 1] = image[B!First(m) + k - 1]
      BY <1>10, <3>4, <3>5
    <3>7. \A k \in 1 .. B!Length(m) : B!First(m) + k - 1 \notin B!Here
      <4> SUFFICES ASSUME NEW k \in 1 .. B!Length(m)
                   PROVE  ~(/\ B!First(n) <= B!First(m) + k - 1
                            /\ B!First(m) + k - 1 < B!First(n) + b)
        BY <1>21
      <4>1. k \in Nat /\ 1 <= k /\ k <= b /\ B!First(n) \in Nat /\ B!First(m) \in Nat
        BY <1>2, <3>1
      <4> QED BY <1>2, <1>13, <3>2, <3>3, <4>1
    <3>8. B!Wanted \subseteq B!Here
      BY DEF B!Wanted
    <3> QED BY <1>4, <3>6, <3>7, <3>8
  <2>4. B!Written(m) => B!Written(m)'
    <3> SUFFICES ASSUME NEW p \in B!First(m) .. B!First(m) + B!Length(m) - 1,
                        image[p] = B!Other(p)
                 PROVE  B!Written(m)'
      BY DEF B!Written
    <3>1. B!Length(m) \in Nat /\ B!First(m) \in Nat
      BY <1>0, <1>1, <1>2, <1>13, BlockLengths
    <3>2. PICK k : k \in 1 .. B!Length(m) /\ p = B!First(m) + k - 1
      <4>1. /\ (p - B!First(m)) + 1 \in 1 .. B!Length(m)
            /\ p = B!First(m) + ((p - B!First(m)) + 1) - 1
        BY <3>1
      <4> QED BY <4>1
    <3>3. image'[p] = B!Other(p)
      BY <2>3, <3>2
    <3> QED BY <1>5, <3>3 DEF B!Written, B!Other
  <2>5. \A k \in 1 .. B!Length(m) : Has(m, k)' <=> Has(m, k)
    BY <1>5, <2>2, <2>3 DEF Has
  <2> QED BY <1>5, <1>9, <1>11, <2>1, <2>2, <2>3, <2>4, <2>5 DEF Kept
<1>14. Kept(n)'
  <2>1. Kept(n)
    BY <1>3, <1>12
  <2>2. B!Data(n)' = data
    BY <1>9, <1>11 DEF B!Data
  <2>3. B!Length(n) \in 1 .. b /\ B!First(n) + B!Length(n) <= total_bytes
        /\ (n <= B!max_sector => B!Length(n) = b)
    BY <1>0, <1>1, <1>3, BlockLengths
  <2>6. total_bytes \in Nat
    BY <1>8
  <2>4. ASSUME NEW k \in 1 .. B!Length(n), B!First(n) + k - 1 \in lost'
        PROVE  B!Written(n)'
    <3>1. PICK p : p = pos + ret
      OBVIOUS
    <3>2. pos + size <= total_bytes /\ ret < size
      <4>1. ret + (ep - sp) <= size
        BY <1>0, <1>1, Parts
      <4> QED BY <1>1, <1>2, <4>1 DEF InCall
    <3>3. p = B!First(n) + sp /\ p \in 0 .. total_bytes - 1
      BY <1>2, <2>6, <3>1, <3>2
    <3>4. p < B!First(n) + B!Length(n)
      <4>1. CASE n <= B!max_sector
        BY <1>2, <2>3, <3>3, <4>1
      <4>2. CASE n > B!max_sector
        <5>1. B!First(n) + B!Length(n) = total_bytes
          BY <1>1, <1>3, <4>2, LastLength
        <5> QED BY <2>6, <3>3, <5>1
      <4> QED BY <1>2, <4>1, <4>2
    <3>5. image'[p] = B!Other(p)
      <4>1. B!First(n) + sp <= p /\ p < B!First(n) + ep
        BY <1>2, <3>3
      <4> QED BY <1>10, <3>3, <4>1
    <3>6. p \in B!First(n) .. B!First(n) + B!Length(n) - 1
      BY <1>2, <2>3, <3>3, <3>4
    <3> QED BY <1>5, <3>5, <3>6 DEF B!Written, B!Other
  <2>5. ASSUME NEW k \in 1 .. B!Length(n), B!First(n) + k - 1 \notin lost'
        PROVE  Has(n, k)'
    <3>1. PICK p : p = B!First(n) + (k - 1)
      OBVIOUS
    <3>2. /\ p = B!First(n) + k - 1 /\ p \in 0 .. total_bytes - 1
          /\ k - 1 \in 0 .. b - 1 /\ k - 1 \in 0 .. 2 * b - 1 /\ k \in Nat
          /\ B!First(n) <= p /\ p < B!First(n) + b
      BY <1>2, <2>3, <2>6, <3>1
    <3>3. p \in B!Here
      BY <1>21, <3>2
    <3>4. /\ p < B!First(n) + Len(data)
          /\ p \notin B!Wanted => p \notin lost /\ n <= B!max_sector
      <4>1. Len(data) \in Nat /\ p \in Nat
        BY <3>2
      <4>2. p \notin lost'
        BY <2>5, <3>2
      <4>3. ~(p >= B!First(n) + Len(data))
        BY <1>4, <3>3, <4>2
      <4>4. p \notin B!Wanted => p \notin lost
        BY <1>4, <4>2
      <4>5. p \notin B!Wanted => ~(n > B!max_sector)
        BY <1>4, <3>3, <4>2
      <4> QED BY <1>2, <4>1, <4>3, <4>4, <4>5
    <3>5. k \in 1 .. Len(data) /\ data[k] = B!Patched[k - 1]
      <4>1. k \in 1 .. Len(data)
        <5>1. Len(data) \in Nat /\ 1 <= k
          OBVIOUS
        <5> QED BY <1>2, <3>1, <3>2, <3>4, <5>1
      <4> QED BY <4>1
    <3>6. p \in B!Wanted <=> sp <= k - 1 /\ k - 1 < ep
      <4>1. p \in B!Wanted <=> B!First(n) + sp <= p /\ p < B!First(n) + ep
        BY <1>21, <3>2
      <4> QED BY <1>2, <3>1, <3>2, <4>1
    <3>7. CASE p \in B!Wanted
      <4>1. B!Patched[k - 1] = B!Other(p)
        BY <1>0, <3>1, <3>2, <3>6, <3>7, PatchedBuffer
      <4>2. image'[p] = B!Other(p)
        BY <1>4, <1>8, <3>2, <3>7
      <4> QED BY <1>5, <2>2, <3>2, <3>5, <4>1, <4>2 DEF Has
    <3>8. CASE p \notin B!Wanted
      <4>1. B!Patched[k - 1] = image[p]
        BY <1>0, <3>1, <3>2, <3>4, <3>6, <3>8, PatchedBuffer
      <4>2. image'[p] = image[p]
        BY <1>4, <1>8, <3>2, <3>8
      <4> QED BY <1>5, <2>2, <3>2, <3>5, <4>1, <4>2 DEF Has
    <3> QED BY <3>7, <3>8
  <2> QED BY <1>5, <1>9, <1>11, <2>1, <2>2, <2>4, <2>5 DEF Kept
<1>15. StoreInv'
  BY <1>5, <1>6, <1>9, <1>10, <1>13, <1>14 DEF StoreInv
<1>16. CallInv'
  <2>1. ret' \in Int
    BY <1>2, <1>4, SMTT(40)
  <2>2. decompbuf' \in [0 .. 2 * B!block_size' - 1 -> Int]
    BY <1>5, PatchedBuffer
  <2> QED BY <1>1, <1>6, <2>1, <2>2 DEF CallInv, BlocksInv
<1>20. /\ pos \in Nat /\ ret \in Nat /\ ret' \in Nat /\ sp \in Nat /\ ep \in Nat
       /\ B!First(n) \in Nat
       /\ pos + ret = B!First(n) + sp /\ pos + ret' = B!First(n) + ep
       /\ \A p \in pos .. pos + ret' - 1 :
            p \in pos .. pos + ret - 1 \/ (B!First(n) + sp <= p /\ p < B!First(n) + ep)
  <2>1. /\ pos \in Nat /\ ret \in Nat /\ B!First(n) \in Nat /\ sp \in Nat /\ ep \in Nat
        /\ sp <= ep /\ pos + ret = B!First(n) + sp
    BY <1>2
  <2>2. /\ ret + (ep - sp) \in Nat /\ pos + (ret + (ep - sp)) = B!First(n) + ep
        /\ \A q \in pos .. pos + (ret + (ep - sp)) - 1 :
             q \in pos .. pos + ret - 1 \/ (B!First(n) + sp <= q /\ q < B!First(n) + ep)
    BY <2>1, PartsAdd
  <2> QED BY <1>4, <2>1, <2>2
<1>22. /\ ret' <= size /\ pos + size <= total_bytes /\ size \in Nat /\ total_bytes \in Nat
  BY <1>0, <1>1, <1>2, <1>4, <1>8, Parts DEF InCall
<1>17. \A p \in pos .. pos + ret' - 1 : image'[p] = B!Other(p)
  <2> SUFFICES ASSUME NEW p \in pos .. pos + ret' - 1
               PROVE  image'[p] = B!Other(p)
    OBVIOUS
  <2>1. p \in 0 .. total_bytes - 1
    <3>1. B!First(n) + ep <= total_bytes
      BY <1>20, <1>22
    <3> QED BY <1>20, <1>8, <3>1, SMTT(40)
  <2>2. p \in pos .. pos + ret - 1 \/ (B!First(n) + sp <= p /\ p < B!First(n) + ep)
    BY <1>20
  <2> QED BY <1>1, <1>10, <2>1, <2>2
<1>18. CASE n = B!end_sec
  <2>1. pc' = "idle" /\ op' = "write" /\ ret' = size
    BY <1>1, <1>2, <1>4, <1>18
  <2>2. WritesDone'
    BY <1>17, <2>1 DEF WritesDone, B!Other
  <2>3. ReadInv' /\ WriteInv' /\ UnpackInv' /\ B!ReadsTrue' /\ B!Unpacks'
    BY <2>1 DEF ReadInv, WriteInv, UnpackInv, B!ReadsTrue, B!Unpacks, B!Done
  <2> QED BY <1>5, <1>7, <1>15, <1>16, <2>2, <2>3 DEF BlocksInv
<1>19. CASE n # B!end_sec
  <2>1. pc' = "write" /\ op' = "write"
    BY <1>1, <1>4, <1>19
  <2>2. B!start_sec' = B!start_sec /\ B!end_sec' = B!end_sec
    BY <1>5 DEF B!start_sec, B!end_sec, B!end_of
  <2>3. B!First(n + 1) \in Int
    BY <1>1, <1>2, Geometry
  <2>4. InCall'
    <3>1. n + 1 \in B!start_sec .. B!end_sec
      BY <1>0, <1>1, <1>2, <1>19 DEF InCall
    <3>2. ret' = B!First(n + 1) - pos
      <4>1. pos + ret' = B!First(n + 1)
        BY <1>2, <1>4, <1>19, SMTT(40)
      <4> QED BY <1>20, <2>3, <4>1
    <3> QED BY <1>1, <1>2, <1>4, <1>5, <1>19, <2>2, <3>1, <3>2 DEF InCall, Progress
  <2>5. WriteInv'
    BY <1>17, <2>1, <2>4 DEF WriteInv, B!Other
  <2>6. ReadInv' /\ WritesDone' /\ UnpackInv' /\ B!ReadsTrue' /\ B!Unpacks'
    BY <2>1 DEF ReadInv, WritesDone, UnpackInv, B!ReadsTrue, B!Unpacks, B!Done
  <2> QED BY <1>5, <1>7, <1>15, <1>16, <2>5, <2>6 DEF BlocksInv
<1> QED BY <1>18, <1>19

LEMMA BlocksOfBuffers ==
  ASSUME NEW b \in Nat, NEW buffer \in [0 .. 2 * b - 1 -> Int], NEW n \in Nat, n <= b
  PROVE  /\ B!BlockOf(buffer, n) \in Seq(Int) /\ Len(B!BlockOf(buffer, n)) = n
         /\ \A k \in 1 .. n : B!BlockOf(buffer, n)[k] = buffer[k - 1]
<1>1. \A k \in 1 .. n : k - 1 \in 0 .. 2 * b - 1
  OBVIOUS
<1>2. \A k \in 1 .. n : buffer[k - 1] \in Int
  BY <1>1
<1> QED BY <1>2 DEF B!BlockOf

(* A plain block has the space of its data.                                *)
LEMMA WritePlainKeeps ==
  ASSUME BlocksInv, B!WritePlain
  PROVE  BlocksInv'
<1> DEFINE n == sector_num
           b == B!block_size
           L == B!least(b, B!Space(n))
           data == B!BlockOf(B!Patched, L)
<1>1. /\ pc = "write" /\ B!Plain(n) /\ decompbuf' = B!Patched
      /\ B!Store(data) /\ UNCHANGED <<op, pos, size, ops>>
  BY DEF B!WritePlain, B!callvars
<1>2. /\ SizesInv /\ IndexInv /\ StoreInv /\ op = "write" /\ InCall
      /\ pc # "make"
  BY <1>1 DEF BlocksInv, WriteInv, StoreInv
<1>3. b \in Nat \ {0} /\ n \in 0 .. B!total_block - 1 /\ B!max_sector \in Int
  BY <1>2, Parts, BlockSizes, Counts
<1>4. /\ B!Space(n) \in Nat \ {0} /\ Kept(n)
      /\ body[B!now_pos(n)].length <= B!Space(n)
  BY <1>2, <1>3, Places
<1> HIDE DEF b, n
<1>5. L \in Nat /\ L <= b
  BY <1>3, <1>4 DEF B!least
<1> HIDE DEF L
<1>7. B!Patched \in [0 .. 2 * b - 1 -> Int]
  BY <1>1, PatchedBuffer DEF b
<1>8. /\ data \in Seq(Int) /\ Len(data) = L
      /\ \A k \in 1 .. L : data[k] = B!Patched[k - 1]
  BY <1>3, <1>5, <1>7, BlocksOfBuffers
<1> HIDE DEF data
<1> QED BY <1>1, <1>5, <1>8, StoreKeeps DEF b

(* What did not fit into the buffer is lost.                               *)
LEMMA WriteDeflatedKeeps ==
  ASSUME BlocksInv, B!WriteDeflated
  PROVE  BlocksInv'
<1>0. PICK b : b = B!block_size
  OBVIOUS
<1>1. b \in Nat \ {0}
  BY <1>0, BlockSizes DEF BlocksInv
<1>2. PICK taken : taken \in 0 .. b /\ B!Store(B!BlockOf(B!Patched, taken))
  BY <1>0, <1>1 DEF B!WriteDeflated
<1>3. /\ pc = "write" /\ decompbuf' = B!Patched /\ UNCHANGED <<op, pos, size, ops>>
  BY DEF B!WriteDeflated, B!callvars
<1> DEFINE data == B!BlockOf(B!Patched, taken)
<1>4. B!Patched \in [0 .. 2 * b - 1 -> Int]
  BY <1>0, <1>3, PatchedBuffer
<1>5. taken \in Nat /\ taken <= b
  BY <1>1, <1>2
<1>6. /\ data \in Seq(Int) /\ Len(data) = taken
      /\ \A k \in 1 .. taken : data[k] = B!Patched[k - 1]
  BY <1>1, <1>4, <1>5, BlocksOfBuffers
<1>7. B!Store(data)
  BY <1>2
<1> HIDE DEF data
<1> QED BY <1>0, <1>3, <1>5, <1>6, <1>7, StoreKeeps

(* A call that ends with an error has changed no file with it.             *)
LEMMA FailuresKeep ==
  ASSUME BlocksInv, B!WriteTooLong \/ B!UnpackFails
  PROVE  BlocksInv'
<1>1. /\ UNCHANGED B!filevars /\ lost' = lost /\ ops' = ops /\ op' = op /\ pc' = "idle"
      /\ \/ pc = "write" /\ ret' = -1 /\ decompbuf' = B!Patched
         \/ pc = "unpack" /\ ret' = 10 /\ decompbuf' = decompbuf
  BY DEF B!WriteTooLong, B!UnpackFails, B!Return, B!callvars
<1>2. SizesInv' /\ IndexInv' /\ StoreInv' /\ SizesInv
  BY <1>1, FilesStay DEF BlocksInv
<1>3. B!block_size' = B!block_size
  BY <1>1, <1>2, SizesStay DEF B!filevars
<1>4. decompbuf' \in [0 .. 2 * B!block_size - 1 -> Int]
  BY <1>1, PatchedBuffer DEF BlocksInv, CallInv
<1>5. CallInv'
  BY <1>1, <1>3, <1>4 DEF BlocksInv, CallInv
<1>6. ReadInv' /\ WriteInv' /\ UnpackInv'
  BY <1>1 DEF ReadInv, WriteInv, UnpackInv
<1>7. B!ReadsTrue' /\ WritesDone' /\ B!Unpacks'
  <2>1. pc = "write" => op = "write"
    BY DEF BlocksInv, WriteInv
  <2>2. pc = "unpack" => op = "unpack"
    BY DEF BlocksInv, UnpackInv
  <2> QED BY <1>1, <2>1, <2>2 DEF B!ReadsTrue, WritesDone, B!Unpacks, B!Done
<1> QED BY <1>2, <1>5, <1>6, <1>7 DEF BlocksInv

-----------------------------------------------------------------------------
(* Where an image is not aligned, the unpacker is where each block begins, *)
(* by the index and by its own count.                                      *)
LEMMA OnItsWay ==
  ASSUME BlocksInv, pc = "unpack", sector_num < B!total_block
  PROVE  /\ B!Skipped \in Int /\ B!Taken \in Int
         /\ align = 0 => /\ B!Skipped = 0 /\ B!Taken = B!Space(sector_num) /\ B!OnTrack
                         /\ inpos + B!Taken = B!now_pos(sector_num + 1)
<1> DEFINE n == sector_num
           now == B!now_pos(n)
           a == 2^align
<1>1. /\ SizesInv /\ IndexInv /\ StoreInv /\ pc # "make" /\ n \in 0 .. B!total_block
      /\ inpos \in Int /\ counter \in Int
      /\ align = 0 => inpos = now /\ counter = inpos
  BY DEF BlocksInv, UnpackInv
<1>2. n \in 0 .. B!total_block - 1
  BY <1>1, Counts
<1>3. /\ now \in Nat /\ B!next_pos(n) \in Nat /\ B!next_pos(n) = B!now_pos(n + 1)
      /\ B!Space(n) = B!next_pos(n) - now
  BY <1>1, <1>2, Places DEF B!Space
<1>4. a \in Nat \ {0} /\ (align = 0 => a = 1)
  <2>1. 2^0 = 1
    OBVIOUS
  <2> QED BY <1>1, <2>1 DEF SizesInv
<1>5. now \div a \in Int
  <2> HIDE DEF a, now
  <2> QED BY <1>3, <1>4, Quotients
<1>6. /\ B!Skipped = IF format = "cso" /\ now > counter THEN now - counter ELSE 0
      /\ B!Taken = B!next_pos(n) - (IF format = "cso" THEN now \div a ELSE now)
  BY DEF B!Skipped, B!Taken
<1>7. B!OnTrack <=> inpos + B!Skipped = now /\ B!Taken = B!Space(n)
  BY DEF B!OnTrack
<1> HIDE DEF a, now, n
<1>8. a = 1 => now \div a = now
  BY <1>3
<1>9. B!Skipped \in Int /\ B!Taken \in Int
  BY <1>1, <1>3, <1>5, <1>6
<1>10. ASSUME align = 0
       PROVE  /\ B!Skipped = 0 /\ B!Taken = B!Space(n)
              /\ inpos + B!Taken = B!now_pos(n + 1)
  BY <1>1, <1>3, <1>4, <1>6, <1>8, <1>10
<1>11. align = 0 => B!OnTrack
  BY <1>1, <1>7, <1>10
<1> QED BY <1>9, <1>10, <1>11 DEF n

(* Each block adds what the image has next; the last one in part what it   *)
(* has, or a whole block.                                                  *)
LEMMA UnpackBlockKeeps ==
  ASSUME BlocksInv, B!UnpackBlock \/ B!UnpackAstray
  PROVE  BlocksInv'
<1>0. PICK n, b, ms, U : /\ n = sector_num /\ b = B!block_size /\ ms = B!max_sector
                         /\ U = B!Unpacked
  OBVIOUS
<1>1. /\ pc = "unpack" /\ n < B!total_block /\ UNCHANGED <<pc, op, pos, size, ret, ops, lost>>
      /\ UNCHANGED B!filevars
      /\ inpos' = inpos + B!Skipped + B!Taken /\ counter' = counter + B!Taken
      /\ sector_num' = n + 1
      /\ \/ /\ decompbuf' = B!Loaded(B!Data(n))
            /\ out' = out \o B!BlockOf(decompbuf', U)
         \/ ~B!OnTrack /\ decompbuf' = decompbuf
  BY <1>0 DEF B!UnpackBlock, B!UnpackAstray, B!Advance, B!callvars
<1>2. /\ SizesInv /\ IndexInv /\ StoreInv /\ pc # "make" /\ n \in 0 .. B!total_block
      /\ inpos \in Int /\ counter \in Int /\ op = "unpack"
      /\ decompbuf \in [0 .. 2 * b - 1 -> Int]
  BY <1>0, <1>1 DEF BlocksInv, UnpackInv, CallInv
<1>3. /\ n \in 0 .. B!total_block - 1 /\ n \in Nat /\ B!total_block \in Nat
      /\ b \in Nat \ {0} /\ ms \in Int
  BY <1>0, <1>1, <1>2, Counts, BlockSizes
<1>4. SizesInv' /\ IndexInv' /\ StoreInv'
  BY <1>1, <1>2, FilesStay
<1>5. /\ B!block_size' = b /\ B!max_sector' = ms /\ B!total_block' = B!total_block
      /\ total_bytes' = total_bytes /\ image' = image /\ index' = index /\ body' = body
      /\ align' = align /\ format' = format
      /\ \A m : B!First(m)' = B!First(m)
  BY <1>0, <1>1, <1>2, SizesStay DEF B!filevars
<1>6. /\ B!Data(n) \in Seq(Int) /\ Len(B!Data(n)) <= b /\ Kept(n) /\ Len(B!Data(n)) \in Nat
  BY <1>0, <1>2, <1>3, Places DEF Kept
<1>7. /\ B!Loaded(B!Data(n)) \in [0 .. 2 * b - 1 -> Int]
      /\ \A k \in 1 .. Len(B!Data(n)) : B!Loaded(B!Data(n))[k - 1] = B!Data(n)[k]
  BY <1>0, <1>2, <1>6, Loads
<1>8. decompbuf' \in [0 .. 2 * b - 1 -> Int]
  BY <1>1, <1>2, <1>7
<1>9. CallInv'
  BY <1>1, <1>2, <1>5, <1>8 DEF CallInv, BlocksInv
<1>10. /\ B!Skipped \in Int /\ B!Taken \in Int
       /\ align = 0 => /\ B!Skipped = 0 /\ B!OnTrack
                       /\ inpos + B!Taken = B!now_pos(n + 1)
  BY <1>0, <1>1, OnItsWay
<1>11. U = IF format = "lzo" THEN b ELSE Len(B!Data(n))
  BY <1>0 DEF B!Unpacked
<1>12. U \in Nat /\ U <= b
  BY <1>3, <1>6, <1>11
<1>13. /\ B!BlockOf(decompbuf', U) \in Seq(Int) /\ Len(B!BlockOf(decompbuf', U)) = U
       /\ \A k \in 1 .. U : B!BlockOf(decompbuf', U)[k] = decompbuf'[k - 1]
  BY <1>3, <1>8, <1>12, BlocksOfBuffers
<1>14. ASSUME align = 0
       PROVE  /\ inpos' = B!now_pos(n + 1) /\ counter' = inpos'
              /\ out \in Seq(Int) /\ out' \in Seq(Int) /\ Len(out') = Len(out) + U
              /\ \A k \in 1 .. Len(out) : out'[k] = out[k]
              /\ \A k \in 1 .. U : out'[Len(out) + k] = B!Loaded(B!Data(n))[k - 1]
  <2>1. inpos = counter /\ out \in Seq(Int)
    BY <1>1, <1>14 DEF BlocksInv, UnpackInv
  <2>2. inpos' = B!now_pos(n + 1) /\ counter' = inpos'
    BY <1>1, <1>2, <1>10, <1>14, <2>1
  <2>3. out' = out \o B!BlockOf(decompbuf', U) /\ decompbuf' = B!Loaded(B!Data(n))
    BY <1>1, <1>10, <1>14
  <2> DEFINE t == B!BlockOf(decompbuf', U)
  <2>4. t \in Seq(Int) /\ Len(t) = U
    BY <1>13
  <2>5. /\ out \o t \in Seq(Int) /\ Len(out \o t) = Len(out) + Len(t)
        /\ \A k \in 1 .. Len(out) : (out \o t)[k] = out[k]
        /\ \A k \in 1 .. Len(t) : (out \o t)[Len(out) + k] = t[k]
    <3> HIDE DEF t
    <3>1. out \in Seq(Int)
      BY <2>1
    <3>2. t \in Seq(Int)
      BY <2>4
    <3> QED BY <3>1, <3>2, Joined
  <2> QED BY <1>13, <2>1, <2>2, <2>3, <2>4, <2>5
<1>15. ASSUME align = 0, Intact
       PROVE  /\ n + 1 <= ms + 1 => Len(out') = B!First(n + 1)
              /\ n + 1 = ms + 2 =>
                   Len(out') = B!First(ms + 1)
                               + (IF format = "lzo" THEN b ELSE Len(B!Data(ms + 1)))
              /\ \A p \in 0 .. B!First(ms + 1) - 1 :
                   p < B!First(n + 1) => out'[p + 1] = image[p]
  <2>1. /\ n <= ms + 1 => Len(out) = B!First(n)
        /\ \A p \in 0 .. B!First(ms + 1) - 1 : p < B!First(n) => out[p + 1] = image[p]
    BY <1>0, <1>1, <1>15 DEF BlocksInv, UnpackInv
  <2>2. /\ B!First(n) \in Nat /\ B!First(n + 1) = B!First(n) + b /\ B!First(ms + 1) \in Int
        /\ n <= ms \/ n = ms + 1
    <3>1. B!First(n) \in Nat
      BY <1>2, <1>3, BlockLengths
    <3>2. B!First(n + 1) = B!First(n) + b /\ B!First(ms + 1) \in Int
      <4>1. n \in Int /\ ms + 1 \in Int
        BY <1>3
      <4> QED BY <1>0, <1>2, <4>1, Geometry
    <3>3. n <= ms \/ n = ms + 1
      BY <1>0, <1>2, <1>3, Counts
    <3> QED BY <3>1, <3>2, <3>3
  <2>3. Len(out) = B!First(n)
    BY <1>3, <2>1, <2>2
  <2>4. ASSUME n <= ms
        PROVE  /\ U = b /\ Len(B!Data(n)) = b
               /\ \A k \in 1 .. b : B!Data(n)[k] = image[B!First(n) + k - 1]
    <3>1. B!Length(n) = b
      BY <1>0, <1>2, <1>3, <2>4, BlockLengths
    <3>2. B!First(n) + b <= B!First(ms + 1)
      BY <1>2, <1>3, <2>4, Geometry, <1>0
    <3>3. \A k \in 1 .. b : B!First(n) + k - 1 \notin lost
      <4> SUFFICES ASSUME NEW k \in 1 .. b
                   PROVE  ~(B!First(n) + k - 1 >= B!First(ms + 1))
        BY <1>0, <1>15 DEF Intact
      <4> QED BY <1>3, <2>2, <3>2
    <3>4. \A k \in 1 .. b : Has(n, k)
      BY <1>6, <3>1, <3>3 DEF Kept
    <3>5. b \in 1 .. b
      BY <1>3
    <3>6. Len(B!Data(n)) = b
      BY <1>3, <1>6, <3>4, <3>5 DEF Has
    <3> QED BY <1>11, <3>4, <3>6 DEF Has
  <2>5. n + 1 <= ms + 1 => Len(out') = B!First(n + 1)
    BY <1>3, <1>14, <1>15, <2>2, <2>3, <2>4
  <2>6. n + 1 = ms + 2 =>
          Len(out') = B!First(ms + 1) + (IF format = "lzo" THEN b ELSE Len(B!Data(ms + 1)))
    <3>1. n + 1 = ms + 2 => n = ms + 1
      BY <1>3
    <3> QED BY <1>11, <1>14, <1>15, <2>3, <3>1
  <2>7. ASSUME NEW p \in 0 .. B!First(ms + 1) - 1, p < B!First(n + 1)
        PROVE  out'[p + 1] = image[p]
    <3>1. CASE p < B!First(n)
      <4>1. p + 1 \in 1 .. Len(out)
        BY <2>2, <2>3, <2>7, <3>1
      <4> QED BY <1>14, <1>15, <2>1, <2>7, <3>1, <4>1
    <3>2. CASE ~(p < B!First(n))
      <4>1. n <= ms
        BY <2>2, <2>7, <3>2
      <4> DEFINE k == p - B!First(n) + 1
      <4>2. /\ k \in 1 .. b /\ Len(out) + k = p + 1 /\ B!First(n) + k - 1 = p
        BY <1>3, <2>2, <2>3, <2>7, <3>2
      <4> HIDE DEF k
      <4>3. /\ out'[Len(out) + k] = B!Loaded(B!Data(n))[k - 1]
            /\ B!Loaded(B!Data(n))[k - 1] = B!Data(n)[k]
        BY <1>7, <1>14, <1>15, <2>4, <4>1, <4>2
      <4> QED BY <2>4, <4>1, <4>2, <4>3
    <3> QED BY <3>1, <3>2
  <2> QED BY <2>5, <2>6, <2>7
<1>16. UnpackInv'
  <2>1. n + 1 \in 0 .. B!total_block /\ inpos' \in Int /\ counter' \in Int
    BY <1>1, <1>2, <1>3, <1>10
  <2>2. \A m : B!now_pos(m)' = B!now_pos(m) /\ B!Data(m)' = B!Data(m)
    BY <1>5 DEF B!now_pos, B!Data
  <2>3. ASSUME align = 0
        PROVE  inpos' = B!now_pos(n + 1)' /\ counter' = inpos' /\ out' \in Seq(Int)
    BY <1>14, <2>2, <2>3
  <2>4. Intact' = Intact
    BY <1>0, <1>1, <1>5 DEF Intact
  <2> QED BY <1>1, <1>2, <1>5, <1>15, <2>1, <2>2, <2>3, <2>4 DEF UnpackInv
<1>17. ReadInv' /\ WriteInv' /\ B!ReadsTrue' /\ WritesDone' /\ B!Unpacks'
  BY <1>1 DEF ReadInv, WriteInv, B!ReadsTrue, WritesDone, B!Unpacks, B!Done
<1> QED BY <1>4, <1>9, <1>16, <1>17 DEF BlocksInv

LEMMA UnpackEndKeeps ==
  ASSUME BlocksInv, B!UnpackEnd
  PROVE  BlocksInv'
<1>1. /\ pc = "unpack" /\ sector_num = B!total_block /\ UNCHANGED <<op, out, decompbuf, ops, lost>>
      /\ UNCHANGED B!filevars /\ pc' = "idle" /\ ret' = 0
  BY DEF B!UnpackEnd, B!Return, B!callvars
<1>2. SizesInv /\ IndexInv /\ StoreInv /\ op = "unpack"
  BY <1>1 DEF BlocksInv, UnpackInv
<1>3. SizesInv' /\ IndexInv' /\ StoreInv'
  BY <1>1, <1>2, FilesStay
<1>4. /\ B!block_size' = B!block_size /\ B!max_sector' = B!max_sector
      /\ B!total_block' = B!total_block /\ total_bytes' = total_bytes
      /\ image' = image /\ index' = index /\ body' = body /\ align' = align /\ format' = format
      /\ \A m : B!First(m)' = B!First(m) /\ B!Length(m)' = B!Length(m)
  BY <1>1, <1>2, SizesStay DEF B!filevars
<1>5. CallInv'
  BY <1>1, <1>4 DEF BlocksInv, CallInv
<1>6. ASSUME align = 0, Intact
      PROVE  /\ B!TailAsMade =>
                  Len(out) = IF format = "lzo" THEN B!First(B!total_block) ELSE total_bytes
             /\ \A p \in 0 .. B!First(B!max_sector + 1) - 1 : out[p + 1] = image[p]
  <2>0. PICK ms, tb, b : ms = B!max_sector /\ tb = B!total_block /\ b = B!block_size
    OBVIOUS
  <2>1. /\ tb <= ms + 1 => Len(out) = B!First(tb)
        /\ tb = ms + 2 =>
             Len(out) = B!First(ms + 1)
                        + (IF format = "lzo" THEN b ELSE Len(B!Data(ms + 1)))
        /\ \A p \in 0 .. B!First(ms + 1) - 1 : p < B!First(tb) => out[p + 1] = image[p]
    BY <1>1, <1>6, <2>0 DEF BlocksInv, UnpackInv
  <2>2. /\ ms \in Int /\ tb \in Nat /\ b \in Nat \ {0} /\ total_bytes \in Nat
        /\ \/ tb = ms + 1 /\ B!First(ms + 1) = total_bytes
           \/ tb = ms + 2 /\ B!First(ms + 1) < total_bytes
        /\ total_bytes < B!First(ms + 1) + b
    BY <1>2, <2>0, Counts, BlockSizes DEF SizesInv
  <2>3. /\ B!First(ms + 1) \in Int /\ B!First((ms + 1) + 1) = B!First(ms + 1) + b
    BY <1>2, <2>0, <2>2, Geometry
  <2>4. CASE tb = ms + 1
    <3>1. B!First(tb) = B!First(ms + 1) /\ B!First(ms + 1) = total_bytes
      BY <2>2, <2>4
    <3> QED BY <2>0, <2>1, <2>2, <2>4, <3>1
  <2>5. CASE tb = ms + 2
    <3>1. /\ (ms + 1) + 1 = tb /\ ms + 1 \in B!max_sector + 1 .. B!total_block - 1
          /\ B!First(tb) = B!First(ms + 1) + b
      BY <2>0, <2>2, <2>3, <2>5
    <3>2. B!First(ms + 1) < total_bytes
      BY <2>2, <2>5
    <3>3. B!Length(ms + 1) = total_bytes - B!First(ms + 1)
      BY <2>0, <2>2, <2>3 DEF B!Length, B!least
    <3>4. ASSUME B!TailAsMade
          PROVE  Len(out) = IF format = "lzo" THEN B!First(tb) ELSE total_bytes
      <4>1. Len(B!Data(ms + 1)) = total_bytes - B!First(ms + 1)
        BY <3>1, <3>3, <3>4 DEF B!TailAsMade
      <4> QED BY <2>1, <2>2, <2>3, <2>5, <3>1, <4>1
    <3>5. \A p \in 0 .. B!First(ms + 1) - 1 : out[p + 1] = image[p]
      BY <2>1, <2>2, <2>3, <3>1
    <3> QED BY <2>0, <3>4, <3>5
  <2> QED BY <2>2, <2>4, <2>5
<1>7. B!Unpacks'
  <2>1. B!TailAsMade' = B!TailAsMade
    BY <1>4 DEF B!TailAsMade, B!Data, B!now_pos
  <2> QED BY <1>1, <1>4, <1>6, <2>1 DEF B!Unpacks, Intact
<1>8. ReadInv' /\ WriteInv' /\ UnpackInv' /\ B!ReadsTrue' /\ WritesDone'
  BY <1>1, <1>2 DEF ReadInv, WriteInv, UnpackInv, B!ReadsTrue, WritesDone
<1> QED BY <1>3, <1>5, <1>7, <1>8 DEF BlocksInv

-----------------------------------------------------------------------------
LEMMA BlocksStart == ASSUME B!Init PROVE BlocksInv
<1> USE DEF B!Init
<1>1. SizesInv
  <2>1. align = 0 \/ align \in Aligns
    OBVIOUS
  <2>2. align \in Nat /\ (format # "cso" => align = 0)
    BY <2>1, BlocksAssumption DEF B!SizesAssumption
  <2>3. 2^0 = 1
    OBVIOUS
  <2>4. 2^align \in Nat \ {0}
    <3>1. CASE align = 0
      BY <2>3, <3>1
    <3>2. CASE align \in Aligns
      BY <3>2, BlocksAssumption DEF B!HeadAssumption
    <3> QED BY <2>1, <3>1, <3>2
  <2> QED BY <2>2, <2>4, BlocksAssumption DEF SizesInv, B!SizesAssumption
<1>2. HeadLen \in Nat /\ HeadLen % 2^align = 0
  <2>1. CASE align \in Aligns
    BY <2>1, BlocksAssumption DEF B!HeadAssumption
  <2>2. CASE align = 0
    <3>1. 2^0 = 1
      OBVIOUS
    <3>2. HeadLen \in Nat /\ HeadLen % 1 = 0
      BY BlocksAssumption DEF B!HeadAssumption
    <3> QED BY <2>2, <3>1, <3>2
  <2> QED BY <2>1, <2>2
<1>3. IndexInv
  <2>1. index = <<>> /\ Len(index) = 0 /\ index \in Seq([at : Nat, plain : BOOLEAN])
    OBVIOUS
  <2>2. B!total_block \in Nat
    BY <1>1, Counts
  <2> QED BY <1>2, <2>1, <2>2 DEF IndexInv
<1>4. StoreInv
  <2>1. body \in [DOMAIN body -> [data : Seq(Int), length : Nat]]
    OBVIOUS
  <2>2. image \in [0 .. total_bytes - 1 -> Int]
    BY <1>1 DEF SizesInv, B!Byte
  <2>3. \A n \in 0 .. B!total_block - 1 : ~(n < Len(index))
    BY <1>1, Counts
  <2> QED BY <2>1, <2>2, <2>3 DEF StoreInv
<1>5. CallInv
  BY <1>1, BlockSizes, BlocksAssumption DEF CallInv, B!LimitAssumption, B!Stale
<1> QED
  BY <1>1, <1>3, <1>4, <1>5
  DEF BlocksInv, ReadInv, WriteInv, UnpackInv, B!ReadsTrue, WritesDone, B!Unpacks, B!Done

LEMMA MakerKeeps ==
  ASSUME BlocksInv, B!MakeBlock \/ B!WriteIndex
  PROVE  BlocksInv'
<1>1. SizesInv' /\ IndexInv' /\ StoreInv'
  BY MakeBlockKeeps, WriteIndexKeeps DEF BlocksInv
<1>2. /\ pc = "make" /\ (pc' = "make" \/ pc' = "idle") /\ op = "make"
      /\ UNCHANGED <<op, ret, ops, decompbuf, format, total_bytes, align>>
  BY DEF B!MakeBlock, B!WriteIndex, B!callvars, BlocksInv, CallInv
<1>3. B!block_size' = B!block_size
  BY <1>2, SizesStay DEF BlocksInv
<1>4. CallInv'
  BY <1>2, <1>3 DEF BlocksInv, CallInv
<1> QED
  BY <1>1, <1>2, <1>4
  DEF BlocksInv, ReadInv, WriteInv, UnpackInv, B!ReadsTrue, WritesDone, B!Unpacks, B!Done

LEMMA BlocksStep == ASSUME BlocksInv, B!Next PROVE BlocksInv'
  BY MakerKeeps, ReadBegins, ReadBlockKeeps, WriteBegins, WritePlainKeeps, WriteDeflatedKeeps,
     FailuresKeep, UnpackBegins, UnpackBlockKeeps, UnpackEndKeeps
  DEF B!Next

(* Room for every block, and the calls as they should be.                  *)
LEMMA BlocksMeaning ==
  ASSUME BlocksInv
  PROVE  B!TypeOK /\ B!ReadsTrue /\ B!BlocksTrue /\ B!Unpacks
<1>1. B!TypeOK
  <2>1. pc # "make" => \A n \in 0 .. B!total_block - 1 : body[B!now_pos(n)].length <= B!Space(n)
    BY Places DEF BlocksInv
  <2>2. \A n \in DOMAIN index : index[n].at % 2^align = 0
    BY DEF BlocksInv, IndexInv
  <2> QED BY <2>1, <2>2 DEF BlocksInv, CallInv, B!TypeOK
<1>2. B!BlocksTrue
  <2>1. ASSUME pc # "make", NEW n \in 0 .. B!total_block - 1,
               NEW k \in 1 .. B!block_size, k <= B!Length(n)
        PROVE  IF B!First(n) + k - 1 \in lost
               THEN B!Written(n)
               ELSE k <= Len(B!Data(n)) /\ B!Data(n)[k] = image[B!First(n) + k - 1]
    <3>1. B!Length(n) \in Nat /\ B!block_size \in Nat
      BY BlockLengths, BlockSizes DEF BlocksInv
    <3>2. k \in 1 .. B!Length(n) /\ Kept(n)
      BY <2>1, <3>1, Places DEF BlocksInv
    <3> QED BY <3>2 DEF Kept, Has
  <2> QED BY <2>1 DEF BlocksInv, B!BlocksTrue, WritesDone
<1> QED BY <1>1, <1>2 DEF BlocksInv

LEMMA BlocksStutter ==
  ASSUME BlocksInv, UNCHANGED <<shared, onlyBlocks>>
  PROVE  BlocksInv'
<1>1. /\ UNCHANGED <<pc, op, pos, size, ret, ops>>
      /\ UNCHANGED <<format, total_bytes, align, index, body, ftell, image, sector_num, out,
                     decompbuf, inpos, counter, lost>>
  BY DEF shared, onlyBlocks
<1>2. /\ SizesInv' = SizesInv /\ B!block_size' = B!block_size /\ B!total_block' = B!total_block
      /\ B!max_sector' = B!max_sector
      /\ \A n : B!First(n)' = B!First(n) /\ B!Length(n)' = B!Length(n)
  BY <1>1 DEF SizesInv, B!block_size, B!total_block, B!max_sector, B!First, B!Length, B!least
<1>3. \A n : /\ B!now_pos(n)' = B!now_pos(n) /\ B!Data(n)' = B!Data(n)
             /\ B!Plain(n)' = B!Plain(n) /\ EndOf(n)' = EndOf(n)
  BY <1>1, <1>2 DEF B!now_pos, B!Data, B!Plain, EndOf
<1>4. /\ B!start_sec' = B!start_sec /\ B!end_sec' = B!end_sec
      /\ B!TailAsMade' = B!TailAsMade /\ Intact' = Intact
      /\ \A n : B!Written(n)' = B!Written(n) /\ \A k : Has(n, k)' = Has(n, k)
  BY <1>1, <1>2, <1>3
  DEF B!start_sec, B!end_sec, B!end_of, B!least, B!TailAsMade, Intact, B!Written, B!Other, Has
<1>5. /\ \A n : Kept(n)' = Kept(n)
      /\ InCall' = InCall
  BY <1>1, <1>2, <1>3, <1>4 DEF Kept, InCall, Progress
<1>6. IndexInv' /\ StoreInv' /\ CallInv'
  BY <1>1, <1>2, <1>5 DEF BlocksInv, IndexInv, StoreInv, CallInv
<1>7. ReadInv' /\ WriteInv' /\ UnpackInv'
  BY <1>1, <1>2, <1>3, <1>4, <1>5 DEF BlocksInv, ReadInv, WriteInv, UnpackInv, B!Other
<1>8. B!ReadsTrue' /\ WritesDone' /\ B!Unpacks'
  BY <1>1, <1>2, <1>4
  DEF BlocksInv, B!ReadsTrue, WritesDone, B!Unpacks, B!Done, B!Other
<1> QED BY <1>2, <1>6, <1>7, <1>8 DEF BlocksInv

LayerInv == layer = "blocks" => BlocksInv

(* The images in blocks keep their invariant while the layer is theirs.    *)
THEOREM LayerInvariant == Spec => []LayerInv
<1>1. Init => LayerInv
  BY BlocksStart DEF Init, LayerInv
<1>2. LayerInv /\ [Next]_vars => LayerInv'
  <2> SUFFICES ASSUME LayerInv, [Next]_vars, layer' = "blocks"
               PROVE  BlocksInv'
    BY DEF LayerInv
  <2>1. CASE Blocks
    BY <2>1, BlocksStep DEF Blocks, LayerInv
  <2>2. CASE Tree
    BY <2>2 DEF Tree
  <2>3. CASE UNCHANGED vars
    BY <2>3, BlocksStutter DEF vars, LayerInv
  <2> QED BY <2>1, <2>2, <2>3 DEF Next
<1> QED BY <1>1, <1>2, PTL DEF Spec

(***************************************************************************)
(* Reads that end within the whole blocks deliver the image, but for bytes *)
(* that a write has lost, and return their length (cso_read_fp,            *)
(* dax_read_fp, jiso_read_fp), for blocks and images of every size,        *)
(* whatever was written before.                                            *)
(***************************************************************************)
THEOREM ReadsTrueCorrect == Spec => []ReadsTrue
<1>1. LayerInv => ReadsTrue
  BY BlocksMeaning DEF LayerInv, ReadsTrue
<1> QED BY <1>1, LayerInvariant, PTL

(***************************************************************************)
(* After any part of a write every byte of the image is stored, those of   *)
(* the last block in part included, where a write was to change it and     *)
(* where not, but for those lost: only in a block that was written to,     *)
(* where deflate had no room or the last block was not read (cso_write_fp).*)
(* A write that does not fail has had its turn at all it was to change.    *)
(***************************************************************************)
THEOREM BlocksTrueCorrect == Spec => []BlocksTrue
<1>1. LayerInv => BlocksTrue
  BY BlocksMeaning DEF LayerInv, BlocksTrue
<1> QED BY <1>1, LayerInvariant, PTL

(***************************************************************************)
(* An image that is not aligned, of whose whole blocks no byte is lost, is *)
(* unpacked to itself, to whole blocks by lzo (xenociso, xenodaxcr,        *)
(* xenojiso).                                                              *)
(***************************************************************************)
THEOREM UnpacksCorrect == Spec => []Unpacks
<1>1. LayerInv => Unpacks
  BY BlocksMeaning DEF LayerInv, Unpacks
<1> QED BY <1>1, LayerInvariant, PTL

-----------------------------------------------------------------------------
(***************************************************************************)
(* Files in disc images of every shape: iso_get_file_info finds the file a *)
(* path names, no write or add changes another file, and what is written   *)
(* or added arrives (IsoTree).                                             *)
(*                                                                         *)
(* First what a lookup returns: the walk through the path table reaches    *)
(* the directory a path leads to if no name begins another one.  Then the  *)
(* invariant: TreeInv says where a call is, how the image compares with    *)
(* the one before it, and that other files are the same; ArriveInv says    *)
(* for each phase of a write or an add what every record, the volume and   *)
(* the data are.                                                           *)
(***************************************************************************)
(* A set of numbers has a least one.                                       *)
LEMMA Least == ASSUME NEW S \in SUBSET Nat, S # {} PROVE \E x \in S : \A y \in S : x <= y
<1>1. \E x \in S : \A y \in S : ~ (<<y, x>> \in OpToRel(<, Nat))
  BY WFMin, NatLessThanWellFounded
<1>2. \E x \in S : \A y \in S : ~ (y < x)
  BY <1>1, Zenon DEF OpToRel
<1> QED
  BY <1>2

-----------------------------------------------------------------------------
(***************************************************************************)
(* The pass over the path table, entry by entry.                           *)
(***************************************************************************)
Name  == Seq(Letters)
Table == Seq([name : Name, parent : Nat])
Path  == Seq(Name)

At(n, p) == [befor_dir_num |-> n, rest |-> p]

PassUpto(table, dirs, m, f) ==
  /\ DOMAIN f = 0 .. m /\ f = [n \in DOMAIN f |-> f[n]]
  /\ f[0] = At(1, dirs)
  /\ \A n \in 1 .. m : f[n] = T!Step(f[n - 1], n, table[n])

LEMMA PassExists ==
  ASSUME NEW table, NEW dirs, Len(table) \in Nat
  PROVE  \A m \in Nat : m <= Len(table) => \E f : PassUpto(table, dirs, m, f)
<1> DEFINE S == {m \in Nat : m <= Len(table) /\ ~ \E f : PassUpto(table, dirs, m, f)}
<1> SUFFICES ASSUME S # {} PROVE FALSE
  OBVIOUS
<1>1. PICK m \in S : \A y \in S : m <= y
  BY Least
<1>2. CASE m = 0
  <2>1. PassUpto(table, dirs, 0, [n \in 0 .. 0 |-> At(1, dirs)])
    BY DEF PassUpto
  <2> QED
    BY <1>2, <2>1
<1>3. CASE m > 0
  <2>1. m - 1 \in Nat /\ m - 1 <= Len(table) /\ m - 1 \notin S
    BY <1>1, <1>3
  <2>2. PICK f : PassUpto(table, dirs, m - 1, f)
    BY <2>1
  <2> DEFINE g == [n \in 0 .. m |-> IF n = m THEN T!Step(f[m - 1], m, table[m]) ELSE f[n]]
  <2>3. DOMAIN g = 0 .. m /\ g = [n \in DOMAIN g |-> g[n]]
    OBVIOUS
  <2>4. \A n \in 0 .. m - 1 : g[n] = f[n]
    BY <1>1
  <2>5. g[m] = T!Step(g[m - 1], m, table[m])
    BY <1>1, <1>3, <2>4
  <2>6. g[0] = At(1, dirs)
    BY <1>1, <1>3, <2>2, <2>4 DEF PassUpto
  <2> HIDE DEF g
  <2>7. ASSUME NEW n \in 1 .. m PROVE g[n] = T!Step(g[n - 1], n, table[n])
    <3>1. CASE n = m
      BY <2>5, <3>1
    <3>2. CASE n # m
      <4>1. n \in 1 .. m - 1 /\ n \in 0 .. m - 1 /\ n - 1 \in 0 .. m - 1
        BY <1>1, <3>2
      <4>2. f[n] = T!Step(f[n - 1], n, table[n])
        BY <2>2, <4>1 DEF PassUpto
      <4> QED
        BY <2>4, <4>1, <4>2
    <3> QED
      BY <3>1, <3>2
  <2>8. PassUpto(table, dirs, m, g)
    BY <2>3, <2>6, <2>7 DEF PassUpto
  <2> QED
    BY <2>8
<1> QED
  BY <1>1, <1>2, <1>3

(* The walk is the last state of a pass.                                   *)
LEMMA WalkIs ==
  ASSUME NEW table, NEW dirs, Len(table) \in Nat
  PROVE  \E f : PassUpto(table, dirs, Len(table), f) /\ T!Walk(table, dirs) = f[Len(table)]
<1> DEFINE F(f, n) == IF n = 0 THEN At(1, dirs) ELSE T!Step(f[n - 1], n, table[n])
           w == CHOOSE f : f = [n \in 0 .. Len(table) |-> F(f, n)]
<1>1. PICK f : PassUpto(table, dirs, Len(table), f)
  <2>1. Len(table) <= Len(table)
    OBVIOUS
  <2> QED
    BY <2>1, PassExists
<1>2. f = [n \in 0 .. Len(table) |-> F(f, n)]
  <2>1. \A n \in 0 .. Len(table) : f[n] = F(f, n)
    BY <1>1 DEF PassUpto
  <2> QED
    BY <1>1, <2>1, Zenon DEF PassUpto
<1>3. w = [n \in 0 .. Len(table) |-> F(w, n)]
  BY <1>2, Zenon
<1>4. T!Walk(table, dirs) = w[Len(table)]
  BY Zenon DEF T!Walk, At
<1> HIDE DEF w
<1>5. PassUpto(table, dirs, Len(table), w)
  <2>1. DOMAIN w = 0 .. Len(table) /\ w = [n \in DOMAIN w |-> w[n]]
    BY <1>3
  <2>2. \A n \in 0 .. Len(table) : w[n] = F(w, n)
    BY <1>3
  <2>3. w[0] = At(1, dirs)
    BY <2>2
  <2>4. \A n \in 1 .. Len(table) : w[n] = T!Step(w[n - 1], n, table[n])
    BY <2>2
  <2> QED
    BY <2>1, <2>3, <2>4 DEF PassUpto
<1> QED
  BY <1>4, <1>5

-----------------------------------------------------------------------------
(* No part of a path matches the root.                                     *)
Rootless(table, p) == \A j \in DOMAIN p : ~T!Matches(table[1].name, p[j])

(* A directory in directory a that passes for x.                           *)
Child(table, a, x, n) ==
  /\ n \in 2 .. Len(table)
  /\ table[n].parent = a /\ T!Matches(table[n].name, x)

(* What is looked for in a directory comes behind it.                      *)
Ordered(table) ==
  /\ table \in Table /\ table # <<>>
  /\ \A n \in 2 .. Len(table) : table[n].parent \in 1 .. n - 1

LEMMA StepIs ==
  ASSUME NEW b, NEW p, NEW n, NEW e
  PROVE  T!Step(At(b, p), n, e) =
           IF p # <<>> /\ e.parent = b /\ T!Matches(e.name, Head(p)) THEN At(n, Tail(p)) ELSE At(b, p)
BY DEF T!Step, At

(* Two passes, the one with a part more to find.                           *)
Follows(table, x, n, now, more) ==
  \E b \in 1 .. Len(table), p \in Path :
    /\ now = At(b, p)
    /\ p # <<>> => more = At(b, Append(p, x))
    /\ p = <<>> =>
         \/ more = At(b, <<x>>) /\ \A m : Child(table, b, x, m) => n < m
         \/ \E c \in 1 .. Len(table) :
              /\ more = At(c, <<>>) /\ Child(table, b, x, c)
              /\ \A m : Child(table, b, x, m) => c <= m

LEMMA FollowsStart ==
  ASSUME NEW table, Ordered(table), NEW dirs \in Path, NEW x \in Name
  PROVE  Follows(table, x, 0, At(1, dirs), At(1, Append(dirs, x)))
<1>1. 1 \in 1 .. Len(table)
  BY DEF Ordered, Table
<1>2. dirs = <<>> => Append(dirs, x) = <<x>>
  BY DEF Path
<1>3. \A m : Child(table, 1, x, m) => 0 < m
  BY DEF Child
<1> QED
  BY <1>1, <1>2, <1>3 DEF Follows

LEMMA FollowsStep ==
  ASSUME NEW table, Ordered(table), NEW x \in Name, ~T!Matches(table[1].name, x),
         NEW n \in 1 .. Len(table), NEW now, NEW more, Follows(table, x, n - 1, now, more),
         n = 1 => now.rest = <<>> \/ ~T!Matches(table[1].name, Head(now.rest))
  PROVE  Follows(table, x, n, T!Step(now, n, table[n]), T!Step(more, n, table[n]))
<1> DEFINE e == table[n]
<1>1. PICK b \in 1 .. Len(table), p \in Path :
    /\ now = At(b, p)
    /\ p # <<>> => more = At(b, Append(p, x))
    /\ p = <<>> =>
         \/ more = At(b, <<x>>) /\ \A m : Child(table, b, x, m) => n - 1 < m
         \/ \E c \in 1 .. Len(table) :
              /\ more = At(c, <<>>) /\ Child(table, b, x, c)
              /\ \A m : Child(table, b, x, m) => c <= m
  BY DEF Follows
<1>2. Len(table) \in Nat /\ \A m \in 2 .. Len(table) : table[m].parent \in 1 .. m - 1
  BY DEF Ordered, Table
<1>3. n = 1 /\ p # <<>> => ~T!Matches(e.name, Head(p))
  BY <1>1 DEF At
<1>4. CASE p # <<>> /\ e.parent = b /\ T!Matches(e.name, Head(p))
  <2> DEFINE t == Tail(p)
  <2>1. t \in Path /\ Append(p, x) # <<>> /\ Head(Append(p, x)) = Head(p)
        /\ Tail(Append(p, x)) = Append(t, x)
    BY <1>4 DEF Path
  <2> HIDE DEF t
  <2>2. t = <<>> => Append(t, x) = <<x>>
    BY <2>1 DEF Path
  <2>3. T!Step(now, n, e) = At(n, t) /\ T!Step(more, n, e) = At(n, Append(t, x))
    BY <1>1, <1>4, <2>1, StepIs DEF t
  <2>4. \A m : Child(table, n, x, m) => n < m
    BY <1>2 DEF Child
  <2> QED
    BY <2>1, <2>2, <2>3, <2>4 DEF Follows
<1>5. CASE p # <<>> /\ ~(e.parent = b /\ T!Matches(e.name, Head(p)))
  <2>1. Append(p, x) # <<>> /\ Head(Append(p, x)) = Head(p)
    BY <1>5 DEF Path
  <2>2. T!Step(now, n, e) = now /\ T!Step(more, n, e) = more
    BY <1>1, <1>5, <2>1, StepIs
  <2> QED
    BY <1>1, <1>5, <2>2 DEF Follows
<1>6. CASE p = <<>>
  <2>1. T!Step(now, n, e) = now
    BY <1>1, <1>6, StepIs
  <2>2. ASSUME more = At(b, <<x>>), \A m : Child(table, b, x, m) => n - 1 < m
        PROVE  Follows(table, x, n, now, T!Step(more, n, e))
    <3>1. <<x>> # <<>> /\ Head(<<x>>) = x /\ Tail(<<x>>) = <<>>
      OBVIOUS
    <3>2. CASE Child(table, b, x, n)
      <4>1. T!Step(more, n, e) = At(n, <<>>)
        BY <2>2, <3>1, <3>2, StepIs DEF Child
      <4>2. \A m : Child(table, b, x, m) => n <= m
        BY <2>2 DEF Child
      <4> QED
        BY <1>1, <1>6, <3>2, <4>1, <4>2 DEF Follows
    <3>3. CASE ~Child(table, b, x, n)
      <4>1. ~(e.parent = b /\ T!Matches(e.name, x))
        <5>1. n = 1 => ~T!Matches(e.name, x)
          OBVIOUS
        <5>2. n # 1 => n \in 2 .. Len(table)
          BY <1>2
        <5> QED
          BY <3>3, <5>1, <5>2 DEF Child
      <4>2. T!Step(more, n, e) = more
        BY <2>2, <3>1, <4>1, StepIs
      <4>3. \A m : Child(table, b, x, m) => n < m
        <5> SUFFICES ASSUME NEW m, Child(table, b, x, m) PROVE n < m
          OBVIOUS
        <5>1. n - 1 < m /\ m # n
          BY <2>2, <3>3
        <5>2. m \in Nat
          BY <1>2 DEF Child
        <5> QED
          BY <5>1, <5>2
      <4> QED
        BY <1>1, <1>6, <2>2, <4>2, <4>3 DEF Follows
    <3> QED
      BY <3>2, <3>3
  <2>3. ASSUME NEW c \in 1 .. Len(table), more = At(c, <<>>), Child(table, b, x, c),
               \A m : Child(table, b, x, m) => c <= m
        PROVE  Follows(table, x, n, now, T!Step(more, n, e))
    <3>1. T!Step(more, n, e) = more
      BY <2>3, StepIs
    <3> QED
      BY <1>1, <1>6, <2>3, <3>1 DEF Follows
  <2> QED
    BY <1>1, <1>6, <2>1, <2>2, <2>3
<1> QED
  BY <1>4, <1>5, <1>6

(***************************************************************************)
(* One part more: if the rest was found, it is the first directory there   *)
(* that passes for it, or nothing.                                         *)
(***************************************************************************)
LEMMA OnePartMore ==
  ASSUME NEW table, Ordered(table), NEW dirs \in Path, NEW x \in Name,
         Rootless(table, Append(dirs, x))
  PROVE  Follows(table, x, Len(table), T!Walk(table, dirs), T!Walk(table, Append(dirs, x)))
<1>1. Len(table) \in Nat
  BY DEF Ordered, Table
<1>2. PICK f : /\ PassUpto(table, dirs, Len(table), f)
               /\ T!Walk(table, dirs) = f[Len(table)]
  BY <1>1, WalkIs
<1>3. PICK g : /\ PassUpto(table, Append(dirs, x), Len(table), g)
               /\ T!Walk(table, Append(dirs, x)) = g[Len(table)]
  BY <1>1, WalkIs
<1>4. /\ ~T!Matches(table[1].name, x)
      /\ dirs # <<>> => ~T!Matches(table[1].name, Head(dirs))
  <2>1. /\ Len(Append(dirs, x)) = Len(dirs) + 1 /\ Append(dirs, x)[Len(dirs) + 1] = x
        /\ Len(dirs) + 1 \in DOMAIN Append(dirs, x)
        /\ dirs # <<>> => 1 \in DOMAIN Append(dirs, x) /\ Append(dirs, x)[1] = Head(dirs)
    BY DEF Path
  <2> QED
    BY <2>1 DEF Rootless
<1>5. \A n \in Nat : n <= Len(table) => Follows(table, x, n, f[n], g[n])
  <2> DEFINE S == {n \in Nat : n <= Len(table) /\ ~Follows(table, x, n, f[n], g[n])}
  <2> SUFFICES ASSUME S # {} PROVE FALSE
    OBVIOUS
  <2>1. PICK n \in S : \A y \in S : n <= y
    BY Least
  <2>2. n # 0
    <3>1. Follows(table, x, 0, f[0], g[0])
      BY <1>2, <1>3, FollowsStart DEF PassUpto
    <3> QED
      BY <2>1, <3>1
  <2>3. n - 1 \in Nat /\ n - 1 <= Len(table) /\ n - 1 \notin S /\ n \in 1 .. Len(table)
    BY <1>1, <2>1, <2>2
  <2>4. Follows(table, x, n - 1, f[n - 1], g[n - 1])
    BY <2>3
  <2>5. f[n] = T!Step(f[n - 1], n, table[n]) /\ g[n] = T!Step(g[n - 1], n, table[n])
    BY <1>2, <1>3, <2>3 DEF PassUpto
  <2>6. n = 1 => f[n - 1].rest = dirs
    BY <1>2 DEF PassUpto, At
  <2>7. Follows(table, x, n, f[n], g[n])
    BY <1>4, <2>3, <2>4, <2>5, <2>6, FollowsStep
  <2> QED
    BY <2>1, <2>7
<1> QED
  BY <1>1, <1>2, <1>3, <1>5

(* No part: the root.                                                      *)
LEMMA NoPart ==
  ASSUME NEW table, Ordered(table)
  PROVE  T!Walk(table, <<>>) = At(1, <<>>)
<1>1. Len(table) \in Nat
  BY DEF Ordered, Table
<1>2. PICK f : /\ PassUpto(table, <<>>, Len(table), f)
               /\ T!Walk(table, <<>>) = f[Len(table)]
  BY <1>1, WalkIs
<1>3. \A n \in Nat : n <= Len(table) => f[n] = At(1, <<>>)
  <2> DEFINE S == {n \in Nat : n <= Len(table) /\ f[n] # At(1, <<>>)}
  <2> SUFFICES ASSUME S # {} PROVE FALSE
    OBVIOUS
  <2>1. PICK n \in S : \A y \in S : n <= y
    BY Least
  <2>2. n # 0
    BY <1>2, <2>1 DEF PassUpto
  <2>3. n - 1 \in Nat /\ n - 1 <= Len(table) /\ n - 1 \notin S /\ n \in 1 .. Len(table)
    BY <1>1, <2>1, <2>2
  <2>4. f[n] = T!Step(At(1, <<>>), n, table[n])
    BY <1>2, <2>3 DEF PassUpto
  <2> QED
    BY <2>1, <2>4, StepIs
<1> QED
  BY <1>1, <1>2, <1>3

-----------------------------------------------------------------------------
(***************************************************************************)
(* What is found and what is there.                                        *)
(***************************************************************************)
Sound(img) ==
  T!IsImage(img) /\ T!TableTrue(img) /\ T!DirsTrue(img) /\ T!NamesOnce(img)

LEMMA Tables ==
  ASSUME NEW table \in Table
  PROVE  /\ Len(table) \in Nat /\ DOMAIN table = 1 .. Len(table)
         /\ table # <<>> => Len(table) > 0
         /\ \A n \in 1 .. Len(table) : table[n] \in [name : Name, parent : Nat]
<1> DEFINE E == [name : Name, parent : Nat]
<1>1. table \in Seq(E)
  BY DEF Table
<1> HIDE DEF E
<1>2. Len(table) \in Nat /\ DOMAIN table = 1 .. Len(table)
  BY <1>1
<1>3. table # <<>> => Len(table) > 0
  BY <1>1, EmptySeq
<1>4. \A n \in 1 .. Len(table) : table[n] \in E
  BY <1>1
<1> QED
  BY <1>2, <1>3, <1>4 DEF E

LEMMA Shape ==
  ASSUME NEW img, T!IsImage(img)
  PROVE  /\ img.table \in Table /\ img.table # <<>> /\ Len(img.table) \in Nat
         /\ Len(img.table) > 0 /\ DOMAIN img.table = 1 .. Len(img.table)
         /\ \A n \in 1 .. Len(img.table) : img.table[n] \in [name : Name, parent : Nat]
         /\ img.dir \in Seq(Seq(T!Entry)) /\ DOMAIN img.dir = 1 .. Len(img.table)
         /\ \A d \in 1 .. Len(img.table) :
              /\ img.dir[d] \in Seq(T!Entry) /\ Len(img.dir[d]) \in Nat
              /\ DOMAIN img.dir[d] = 1 .. Len(img.dir[d])
              /\ \A k \in 1 .. Len(img.dir[d]) :
                   /\ img.dir[d][k] \in [name : Name, pos : Nat, size : Int, isdir : BOOLEAN]
                   /\ <<d, k>> \in T!Records(img)
<1>1. /\ img.table \in Table /\ img.table # <<>>
      /\ img.dir \in Seq(Seq(T!Entry)) /\ Len(img.dir) = Len(img.table)
  BY DEF T!IsImage, Table, Name, T!Name
<1>2. /\ Len(img.table) \in Nat /\ Len(img.table) > 0 /\ DOMAIN img.table = 1 .. Len(img.table)
      /\ \A n \in 1 .. Len(img.table) : img.table[n] \in [name : Name, parent : Nat]
      /\ DOMAIN img.dir = 1 .. Len(img.table)
  <2>1. DOMAIN img.dir = 1 .. Len(img.dir)
    BY <1>1
  <2> QED
    BY <1>1, <2>1, Tables
<1>3. ASSUME NEW d \in 1 .. Len(img.table)
      PROVE  /\ img.dir[d] \in Seq(T!Entry) /\ Len(img.dir[d]) \in Nat
             /\ DOMAIN img.dir[d] = 1 .. Len(img.dir[d])
             /\ \A k \in 1 .. Len(img.dir[d]) : img.dir[d][k] \in T!Entry
  BY <1>1, <1>2
<1>4. ASSUME NEW d \in 1 .. Len(img.table), NEW k \in 1 .. Len(img.dir[d])
      PROVE  <<d, k>> \in T!Records(img)
  <2>1. Len(img.dir[d]) <= MaxRecords /\ MaxRecords \in Nat
    BY <1>2, TreeAssumption DEF T!IsImage, T!SizeAssumption
  <2>2. k \in 1 .. MaxRecords /\ d \in 1 .. Len(img.dir)
    BY <1>1, <1>3, <2>1
  <2>3. k \in DOMAIN img.dir[d]
    BY <1>3
  <2> QED
    BY <2>2, <2>3 DEF T!Records
<1> QED
  BY <1>1, <1>2, <1>3, <1>4 DEF T!Entry, T!Name, Name

LEMMA Listed ==
  ASSUME NEW img
  PROVE  \A r \in T!Records(img) :
           /\ r = <<r[1], r[2]>> /\ r[1] \in 1 .. Len(img.dir) /\ r[2] \in DOMAIN img.dir[r[1]]
           /\ T!Rec(img, r) = img.dir[r[1]][r[2]]
BY DEF T!Records, T!Rec

LEMMA MatchesItself == ASSUME NEW name \in Name PROVE T!Matches(name, name)
<1>1. SubSeq(name, 1, Len(name)) = name
  BY DEF Name
<1> QED
  BY <1>1 DEF T!Matches, T!IsPrefixOf, Name

LEMMA SoundTable ==
  ASSUME NEW img, Sound(img)
  PROVE  /\ Ordered(img.table)
         /\ \A n \in 2 .. Len(img.table) : img.table[n].name \in T!Names(img)
<1>1. Ordered(img.table)
  BY Shape DEF Sound, Ordered, T!TableTrue
<1>2. ASSUME NEW n \in 2 .. Len(img.table) PROVE img.table[n].name \in T!Names(img)
  <2> DEFINE a == img.table[n].parent
  <2>1. a \in 1 .. Len(img.table)
    BY <1>1, Shape DEF Ordered, Sound
  <2>2. PICK k \in DOMAIN img.dir[a] : img.dir[a][k].isdir /\ img.dir[a][k].pos = n
    <3>1. \A m \in 2 .. Len(img.table) :
            \E k \in DOMAIN img.dir[img.table[m].parent] :
              /\ img.dir[img.table[m].parent][k].isdir
              /\ img.dir[img.table[m].parent][k].pos = m
      BY Zenon DEF Sound, T!DirsTrue
    <3> QED
      BY <3>1
  <2>3. img.table[n] = [name |-> img.dir[a][k].name, parent |-> a]
    <3>1. \A d \in DOMAIN img.dir : \A l \in DOMAIN img.dir[d] :
            img.dir[d][l].isdir =>
              img.table[img.dir[d][l].pos] = [name |-> img.dir[d][l].name, parent |-> d]
      BY Zenon DEF Sound, T!DirsTrue
    <3>2. a \in DOMAIN img.dir
      BY <2>1, Shape DEF Sound
    <3> QED
      BY <2>2, <3>1, <3>2
  <2>4. <<a, k>> \in T!Records(img)
    BY <2>1, Shape DEF Sound
  <2>5. T!Rec(img, <<a, k>>).name = img.table[n].name
    BY <2>3 DEF T!Rec
  <2> QED
    BY <2>4, <2>5 DEF T!Names
<1> QED
  BY <1>1, <1>2

Lead(table, dirs, n) ==
  \E c \in [0 .. Len(dirs) -> 1 .. Len(table)] :
    /\ c[0] = 1 /\ c[Len(dirs)] = n
    /\ \A j \in 1 .. Len(dirs) : table[c[j]].name = dirs[j] /\ table[c[j]].parent = c[j - 1]

LEMMA LeadMore ==
  ASSUME NEW table \in Table, NEW dirs \in Path, NEW x \in Name, NEW n
  PROVE  Lead(table, Append(dirs, x), n) <=>
           /\ n \in 1 .. Len(table) /\ table[n].name = x /\ Lead(table, dirs, table[n].parent)
<1> DEFINE l == Len(dirs)
           more == Append(dirs, x)
<1>1. /\ l \in Nat /\ Len(more) = l + 1 /\ more[l + 1] = x
      /\ \A j \in 1 .. l : more[j] = dirs[j]
  BY DEF Path
<1> HIDE DEF l, more
<1>2. ASSUME Lead(table, more, n)
      PROVE  n \in 1 .. Len(table) /\ table[n].name = x /\ Lead(table, dirs, table[n].parent)
  <2>1. PICK c \in [0 .. l + 1 -> 1 .. Len(table)] :
         /\ c[0] = 1 /\ c[l + 1] = n
         /\ \A j \in 1 .. l + 1 : table[c[j]].name = more[j] /\ table[c[j]].parent = c[j - 1]
    BY <1>1, <1>2 DEF Lead
  <2> DEFINE b == [j \in 0 .. l |-> c[j]]
  <2>2. b \in [0 .. l -> 1 .. Len(table)]
    BY <1>1
  <2>3. n \in 1 .. Len(table) /\ table[n].name = x /\ table[n].parent = c[l]
    <3>1. l + 1 \in 1 .. l + 1 /\ l + 1 \in 0 .. l + 1 /\ (l + 1) - 1 = l
      BY <1>1
    <3> QED
      BY <1>1, <2>1, <3>1
  <2>4. b[0] = 1 /\ b[l] = table[n].parent
    BY <1>1, <2>1, <2>3
  <2>5. ASSUME NEW j \in 1 .. l PROVE table[b[j]].name = dirs[j] /\ table[b[j]].parent = b[j - 1]
    <3>1. b[j] = c[j] /\ b[j - 1] = c[j - 1] /\ j \in 1 .. l + 1
      BY <1>1
    <3> QED
      BY <1>1, <2>1, <3>1
  <2> HIDE DEF b
  <2>6. Lead(table, dirs, table[n].parent)
    BY <2>2, <2>4, <2>5 DEF Lead, l
  <2> QED
    BY <2>3, <2>6
<1>3. ASSUME n \in 1 .. Len(table), table[n].name = x, Lead(table, dirs, table[n].parent)
      PROVE  Lead(table, more, n)
  <2>1. PICK c \in [0 .. l -> 1 .. Len(table)] :
         /\ c[0] = 1 /\ c[l] = table[n].parent
         /\ \A j \in 1 .. l : table[c[j]].name = dirs[j] /\ table[c[j]].parent = c[j - 1]
    BY <1>3 DEF Lead, l
  <2> DEFINE b == [j \in 0 .. l + 1 |-> IF j = l + 1 THEN n ELSE c[j]]
  <2>2. b \in [0 .. l + 1 -> 1 .. Len(table)]
    BY <1>1, <1>3
  <2>3. b[0] = 1 /\ b[l + 1] = n /\ b[l] = c[l]
    BY <1>1, <2>1
  <2>4. ASSUME NEW j \in 1 .. l PROVE table[b[j]].name = more[j] /\ table[b[j]].parent = b[j - 1]
    <3>1. b[j] = c[j] /\ b[j - 1] = c[j - 1]
      BY <1>1
    <3> QED
      BY <1>1, <2>1, <3>1
  <2> HIDE DEF b
  <2>5. table[b[l + 1]].name = more[l + 1] /\ table[b[l + 1]].parent = b[(l + 1) - 1]
    BY <1>1, <1>3, <2>1, <2>3
  <2>6. \A j \in 1 .. l + 1 : table[b[j]].name = more[j] /\ table[b[j]].parent = b[j - 1]
    BY <1>1, <2>4, <2>5
  <2> QED
    BY <1>1, <2>2, <2>3, <2>6 DEF Lead
<1> QED
  BY <1>2, <1>3 DEF more

(* A path is its last part behind the others.                              *)
LEMMA PathParts ==
  ASSUME NEW p \in Path, p # <<>>
  PROVE  /\ T!Parents(p) \in Path /\ T!File(p) \in Name
         /\ p = Append(T!Parents(p), T!File(p))
         /\ Len(p) \in Nat /\ Len(p) > 0 /\ Len(T!Parents(p)) = Len(p) - 1
         /\ DOMAIN p = 1 .. Len(p) /\ p[Len(p)] = T!File(p)
         /\ \A j \in DOMAIN T!Parents(p) : j \in DOMAIN p /\ T!Parents(p)[j] = p[j]
<1> DEFINE q == SubSeq(p, 1, Len(p) - 1)
<1>1. p \in Seq(Name) /\ Len(p) \in Nat /\ DOMAIN p = 1 .. Len(p) /\ Len(p) > 0
  <2>1. p \in Seq(Name)
    BY DEF Path
  <2> QED
    BY <2>1, EmptySeq
<1>2. /\ q \in Seq(Name) /\ Len(q) = Len(p) - 1 /\ DOMAIN q = 1 .. Len(p) - 1
      /\ \A j \in 1 .. Len(p) - 1 : q[j] = p[j]
  BY <1>1
<1>3. p[Len(p)] \in Name
  BY <1>1
<1> HIDE DEF q
<1>4. p = Append(q, p[Len(p)])
  <2> DEFINE z == p[Len(p)]
             w == Append(q, z)
  <2>0. z \in Name
    BY <1>3
  <2> HIDE DEF z
  <2>1. w \in Seq(Name) /\ Len(w) = Len(p)
    <3>1. w \in Seq(Name) /\ Len(w) = Len(q) + 1
      BY <1>2, <2>0, AppendProperties
    <3> QED
      BY <1>1, <1>2, <3>1
  <2>2. \A j \in 1 .. Len(p) - 1 : w[j] = p[j]
    BY <1>1, <1>2, <2>0
  <2>3. w[Len(p)] = z
    BY <1>1, <1>2, <2>0
  <2> HIDE DEF w
  <2>4. \A j \in 1 .. Len(p) : w[j] = p[j]
    BY <1>1, <2>2, <2>3 DEF z
  <2>5. w = p
    BY <1>1, <2>1, <2>4, SeqEqual
  <2> QED
    BY <2>5 DEF w, z
<1> QED
  BY <1>1, <1>2, <1>3, <1>4 DEF T!Parents, T!File, q, Path

Reached(table, dirs, n) == T!Walk(table, dirs) = At(n, <<>>)

LEMMA ReachedMore ==
  ASSUME NEW table, Ordered(table), NEW dirs \in Path, NEW x \in Name,
         Rootless(table, Append(dirs, x)), NEW n
  PROVE  Reached(table, Append(dirs, x), n) <=>
           \E a : /\ Reached(table, dirs, a) /\ Child(table, a, x, n)
                  /\ \A m : Child(table, a, x, m) => n <= m
<1> DEFINE now  == T!Walk(table, dirs)
           more == T!Walk(table, Append(dirs, x))
<1>1. PICK b \in 1 .. Len(table), p \in Path :
    /\ now = At(b, p)
    /\ p # <<>> => more = At(b, Append(p, x))
    /\ p = <<>> =>
         \/ more = At(b, <<x>>) /\ \A m : Child(table, b, x, m) => Len(table) < m
         \/ \E c \in 1 .. Len(table) :
              /\ more = At(c, <<>>) /\ Child(table, b, x, c)
              /\ \A m : Child(table, b, x, m) => c <= m
  BY OnePartMore DEF Follows
<1>9. /\ \A a : Reached(table, dirs, a) <=> now = At(a, <<>>)
      /\ \A a : Reached(table, Append(dirs, x), a) <=> more = At(a, <<>>)
  BY DEF Reached
<1> HIDE DEF now, more
<1>2. \A a, c, q, r : At(a, q) = At(c, r) <=> a = c /\ q = r
  BY DEF At
<1>3. Append(p, x) # <<>> /\ <<x>> # <<>>
  BY DEF Path
<1>4. \A a, m : Child(table, a, x, m) => m \in Nat /\ m <= Len(table)
  BY DEF Child, Ordered, Table
<1>5. Len(table) \in Nat
  BY DEF Ordered, Table
<1>6. \A m, c : Child(table, b, x, m) /\ Child(table, b, x, c) /\ c <= m /\ m <= c => m = c
  BY <1>4
<1>7. CASE p # <<>>
  <2>1. \A a : ~Reached(table, dirs, a)
    BY <1>1, <1>2, <1>7, <1>9
  <2>2. more = At(b, Append(p, x))
    BY <1>1, <1>7
  <2>3. ~Reached(table, Append(dirs, x), n)
    <3> SUFFICES ASSUME Reached(table, Append(dirs, x), n) PROVE FALSE
      OBVIOUS
    <3>1. At(b, Append(p, x)) = At(n, <<>>)
      BY <1>9, <2>2
    <3>2. At(b, Append(p, x)).rest = At(n, <<>>).rest
      BY <3>1
    <3> QED
      BY <1>3, <3>2 DEF At
  <2> QED
    BY <2>1, <2>3
<1>8. CASE p = <<>>
  <2>1. \A a : Reached(table, dirs, a) <=> a = b
    BY <1>1, <1>2, <1>8, <1>9
  <2>2. CASE more = At(b, <<x>>) /\ \A m : Child(table, b, x, m) => Len(table) < m
    <3>1. ~Reached(table, Append(dirs, x), n)
      <4>1. more = At(b, <<x>>)
        BY <2>2
      <4> SUFFICES ASSUME Reached(table, Append(dirs, x), n) PROVE FALSE
        OBVIOUS
      <4>2. At(b, <<x>>) = At(n, <<>>)
        BY <1>9, <4>1
      <4>3. At(b, <<x>>).rest = At(n, <<>>).rest
        BY <4>2
      <4> QED
        BY <1>3, <4>3 DEF At
    <3>2. ~Child(table, b, x, n)
      BY <1>4, <1>5, <2>2
    <3> QED
      BY <2>1, <3>1, <3>2
  <2>3. ASSUME NEW c \in 1 .. Len(table), more = At(c, <<>>), Child(table, b, x, c),
               \A m : Child(table, b, x, m) => c <= m
        PROVE  Reached(table, Append(dirs, x), n) <=>
                 Child(table, b, x, n) /\ \A m : Child(table, b, x, m) => n <= m
    <3>1. Reached(table, Append(dirs, x), n) <=> n = c
      BY <1>2, <1>9, <2>3
    <3> QED
      BY <1>6, <2>3, <3>1
  <2> QED
    BY <1>1, <1>8, <2>1, <2>2, <2>3
<1> QED
  BY <1>7, <1>8

LEMMA ReachedIn ==
  ASSUME NEW table, Ordered(table), NEW dirs \in Path, Rootless(table, dirs), NEW n,
         Reached(table, dirs, n)
  PROVE  n \in 1 .. Len(table)
<1>1. CASE dirs = <<>>
  <2>1. n = 1
    BY <1>1, NoPart DEF Reached, At
  <2> QED
    BY <2>1 DEF Ordered, Table
<1>2. CASE dirs # <<>>
  <2>1. \E a : Child(table, a, T!File(dirs), n)
    <3>1. /\ T!Parents(dirs) \in Path /\ T!File(dirs) \in Name
          /\ dirs = Append(T!Parents(dirs), T!File(dirs))
      BY <1>2, PathParts
    <3>2. Reached(table, Append(T!Parents(dirs), T!File(dirs)), n)
      BY <3>1
    <3>3. Rootless(table, Append(T!Parents(dirs), T!File(dirs)))
      BY <3>1
    <3> QED
      BY <3>1, <3>2, <3>3, ReachedMore
  <2> QED
    BY <2>1 DEF Child
<1> QED
  BY <1>1, <1>2

(***************************************************************************)
(* No name in the image passes for another part of the path: then what is  *)
(* reached is what the names lead to.                                      *)
(***************************************************************************)
Tells(img, p) ==
  \A j \in DOMAIN p : \A a \in T!Names(img) : T!Matches(a, p[j]) => a = p[j]

LEMMA LeadMoreReached ==
  ASSUME NEW img, Sound(img), NEW q \in Path, NEW x \in Name,
         Rootless(img.table, Append(q, x)), ~T!Matches(img.table[1].name, x),
         \A a \in T!Names(img) : T!Matches(a, x) => a = x,
         \A n : Lead(img.table, q, n) <=> Reached(img.table, q, n), NEW n
  PROVE  Lead(img.table, Append(q, x), n) <=> Reached(img.table, Append(q, x), n)
<1> DEFINE table == img.table
<1>1. Ordered(table) /\ \A m \in 2 .. Len(table) : table[m].name \in T!Names(img)
  BY SoundTable
<1>2. /\ table \in Table /\ Len(table) \in Nat
      /\ \A m \in 1 .. Len(table) : table[m] \in [name : Name, parent : Nat]
  BY Shape DEF Sound
<1>3. \A k, m \in 2 .. Len(table) : table[k] = table[m] => k = m
  BY DEF Sound, T!TableTrue
<1> HIDE DEF table
<1>4. Lead(table, Append(q, x), n) <=>
        n \in 1 .. Len(table) /\ table[n].name = x /\ Reached(table, q, table[n].parent)
  BY <1>2, LeadMore DEF table
<1>5. Reached(table, Append(q, x), n) <=>
        \E a : /\ Reached(table, q, a) /\ Child(table, a, x, n)
               /\ \A m : Child(table, a, x, m) => n <= m
  BY <1>1, ReachedMore DEF table
<1>6. \A a, m : Child(table, a, x, m) <=>
                  m \in 2 .. Len(table) /\ table[m].parent = a /\ table[m].name = x
  BY <1>1, MatchesItself DEF Child
<1>7. ASSUME NEW a, NEW k, NEW m, Child(table, a, x, k), Child(table, a, x, m) PROVE k = m
  <2>1. /\ k \in 2 .. Len(table) /\ table[k].parent = a /\ table[k].name = x
        /\ m \in 2 .. Len(table) /\ table[m].parent = a /\ table[m].name = x
    BY <1>6, <1>7
  <2>2. table[k] \in [name : Name, parent : Nat] /\ table[m] \in [name : Name, parent : Nat]
    BY <1>2, <2>1
  <2>3. table[k] = table[m]
    BY <2>1, <2>2
  <2> QED
    BY <1>3, <2>1, <2>3
<1>8. n \in 1 .. Len(table) /\ table[n].name = x => n \in 2 .. Len(table)
  <2>1. table[1].name # x
    BY MatchesItself DEF table
  <2> QED
    BY <1>2, <2>1
<1>9. n \in 2 .. Len(table) => n <= n /\ n \in 1 .. Len(table)
  BY <1>2
<1>10. ASSUME NEW a, Child(table, a, x, n) PROVE \A m : Child(table, a, x, m) => n <= m
  BY <1>6, <1>7, <1>9, <1>10
<1>11. ASSUME n \in 1 .. Len(table), table[n].name = x, Reached(table, q, table[n].parent)
       PROVE  Reached(table, Append(q, x), n)
  <2>1. Child(table, table[n].parent, x, n)
    BY <1>6, <1>8, <1>11
  <2> QED
    BY <1>5, <1>10, <1>11, <2>1
<1>12. ASSUME NEW a, Reached(table, q, a), Child(table, a, x, n)
       PROVE  n \in 1 .. Len(table) /\ table[n].name = x /\ Reached(table, q, table[n].parent)
  BY <1>6, <1>9, <1>12
<1> QED
  BY <1>4, <1>5, <1>11, <1>12 DEF table

LEMMA LeadReached ==
  ASSUME NEW img, Sound(img)
  PROVE  \A dirs \in Path : Rootless(img.table, dirs) /\ Tells(img, dirs) =>
           \A n : Lead(img.table, dirs, n) <=> Reached(img.table, dirs, n)
<1> DEFINE Bad(dirs) == /\ Rootless(img.table, dirs) /\ Tells(img, dirs)
                        /\ \E n : ~(Lead(img.table, dirs, n) <=> Reached(img.table, dirs, n))
           S == {l \in Nat : \E dirs \in Path : Len(dirs) = l /\ Bad(dirs)}
<1>1. \A dirs \in Path : Len(dirs) \in Nat
  BY DEF Path
<1> SUFFICES ASSUME S # {} PROVE FALSE
  BY <1>1
<1>2. PICK l \in S : \A y \in S : l <= y
  BY Least
<1>3. PICK dirs \in Path : Len(dirs) = l /\ Bad(dirs)
  BY <1>2
<1>4. CASE dirs = <<>>
  <2>1. Len(img.table) \in Nat /\ Len(img.table) > 0
    BY Shape DEF Sound
  <2>2. \A n : Reached(img.table, dirs, n) <=> n = 1
    <3>1. T!Walk(img.table, dirs) = At(1, <<>>)
      BY <1>4, NoPart, SoundTable
    <3>2. \A n : At(1, <<>>) = At(n, <<>>) <=> n = 1
      BY DEF At
    <3> QED
      BY <3>1, <3>2, Zenon DEF Reached
  <2>3. \A n : Lead(img.table, dirs, n) => n = 1
    BY <1>4 DEF Lead
  <2>4. Lead(img.table, dirs, 1)
    <3> DEFINE c == [j \in 0 .. 0 |-> 1]
    <3>1. Len(dirs) = 0
      BY <1>4
    <3>2. c \in [0 .. Len(dirs) -> 1 .. Len(img.table)] /\ c[0] = 1
      BY <2>1, <3>1
    <3> HIDE DEF c
    <3>3. \A j \in 1 .. Len(dirs) : FALSE
      BY <3>1
    <3> QED
      BY <3>1, <3>2, <3>3, Zenon DEF Lead
  <2> QED
    BY <1>3, <2>2, <2>3, <2>4
<1>5. CASE dirs # <<>>
  <2> DEFINE q == T!Parents(dirs)
             x == T!File(dirs)
  <2>1. /\ q \in Path /\ x \in Name /\ dirs = Append(q, x) /\ l \in Nat
        /\ Len(q) = l - 1 /\ l > 0 /\ l \in DOMAIN dirs /\ dirs[l] = x
        /\ \A j \in DOMAIN q : j \in DOMAIN dirs /\ q[j] = dirs[j]
    BY <1>3, <1>5, PathParts
  <2> HIDE DEF q, x
  <2>2. Rootless(img.table, q) /\ Tells(img, q)
    BY <1>3, <2>1 DEF Rootless, Tells
  <2>3. l - 1 \in Nat /\ l - 1 \notin S
    BY <1>2, <2>1
  <2>4. \A n : Lead(img.table, q, n) <=> Reached(img.table, q, n)
    BY <2>1, <2>2, <2>3
  <2>5. /\ ~T!Matches(img.table[1].name, x)
        /\ \A a \in T!Names(img) : T!Matches(a, x) => a = x
    BY <1>3, <2>1 DEF Rootless, Tells
  <2>6. Rootless(img.table, Append(q, x))
    BY <1>3, <2>1
  <2>7. \A n : Lead(img.table, Append(q, x), n) <=> Reached(img.table, Append(q, x), n)
    BY <2>1, <2>4, <2>5, <2>6, LeadMoreReached
  <2> QED
    BY <1>3, <2>1, <2>7
<1> QED
  BY <1>4, <1>5

-----------------------------------------------------------------------------
(***************************************************************************)
(* What iso_get_file_info returns.                                         *)
(***************************************************************************)
Hit(img, p, n, k) ==
  /\ Reached(img.table, T!Parents(p), n)
  /\ k \in DOMAIN img.dir[n] /\ T!Matches(img.dir[n][k].name, T!File(p))
  /\ \A l \in DOMAIN img.dir[n] : T!Matches(img.dir[n][l].name, T!File(p)) => k <= l

Stat(img, n, k) ==
  [dir |-> n, record |-> k, pos |-> img.dir[n][k].pos, size |-> img.dir[n][k].size]

LEMMA WalkType ==
  ASSUME NEW table, Ordered(table), NEW p \in Path, p # <<>>, Rootless(table, p)
  PROVE  \E b \in 1 .. Len(table), q \in Path : T!Walk(table, T!Parents(p)) = At(b, q)
<1>1. /\ T!Parents(p) \in Path /\ T!File(p) \in Name
      /\ p = Append(T!Parents(p), T!File(p))
  BY PathParts
<1>2. Rootless(table, Append(T!Parents(p), T!File(p)))
  BY <1>1
<1>3. Follows(table, T!File(p), Len(table), T!Walk(table, T!Parents(p)),
              T!Walk(table, Append(T!Parents(p), T!File(p))))
  BY <1>1, <1>2, OnePartMore
<1> QED
  BY <1>3 DEF Follows

LEMMA TMinIs ==
  ASSUME NEW S \in SUBSET Nat, S # {}
  PROVE  T!Min(S) \in S /\ \A y \in S : T!Min(S) <= y
<1>1. \E x \in S : \A y \in S : x <= y
  BY Least
<1> QED
  BY <1>1, Zenon DEF T!Min

LEMMA LookupIs ==
  ASSUME NEW img, Sound(img), NEW p \in Path, p # <<>>, Rootless(img.table, p)
  PROVE  \/ /\ T!iso_get_file_info(img, p) = T!NotFound
            /\ \A n, k : ~Hit(img, p, n, k)
         \/ \E n \in 1 .. Len(img.table) : \E k \in 1 .. Len(img.dir[n]) :
              /\ T!iso_get_file_info(img, p) = Stat(img, n, k)
              /\ Hit(img, p, n, k)
<1> DEFINE w == T!Walk(img.table, T!Parents(p))
           found == {k \in DOMAIN img.dir[w.befor_dir_num] :
                       T!Matches(img.dir[w.befor_dir_num][k].name, T!File(p))}
           k == T!Min(found)
<1>1. T!iso_get_file_info(img, p) =
        IF w.rest # <<>> \/ found = {} THEN T!NotFound ELSE Stat(img, w.befor_dir_num, k)
  BY DEF T!iso_get_file_info, Stat
<1>2. PICK b \in 1 .. Len(img.table), q \in Path : w = At(b, q)
  BY WalkType, SoundTable
<1>3. w.befor_dir_num = b /\ w.rest = q
  BY <1>2 DEF At
<1>4. \A n : Reached(img.table, T!Parents(p), n) <=> n = b /\ q = <<>>
  <2>1. \A n : Reached(img.table, T!Parents(p), n) <=> At(b, q) = At(n, <<>>)
    BY <1>2 DEF Reached
  <2> QED
    BY <2>1 DEF At
<1> HIDE DEF w
<1>5. DOMAIN img.dir[b] = 1 .. Len(img.dir[b]) /\ Len(img.dir[b]) \in Nat
  BY Shape DEF Sound
<1>6. CASE q # <<>>
  BY <1>1, <1>3, <1>4, <1>6 DEF Hit
<1>7. CASE found = {}
  <2>1. \A n, l : ~Hit(img, p, n, l)
    BY <1>3, <1>4, <1>7 DEF Hit
  <2> QED
    BY <1>1, <1>7, <2>1
<1>8. CASE q = <<>> /\ found # {}
  <2>1. found \in SUBSET Nat
    BY <1>3, <1>5
  <2>2. k \in found /\ \A l \in found : k <= l
    BY <1>8, <2>1, TMinIs
  <2>3. Hit(img, p, b, k)
    BY <1>3, <1>4, <1>8, <2>2 DEF Hit
  <2>4. k \in 1 .. Len(img.dir[b])
    BY <1>3, <1>5, <2>2
  <2> QED
    BY <1>1, <1>3, <1>8, <2>3, <2>4
<1> QED
  BY <1>6, <1>7, <1>8

LEMMA HitOnce ==
  ASSUME NEW img, Sound(img), NEW p, NEW n, NEW k, NEW m, NEW l, n \in 1 .. Len(img.table),
         Hit(img, p, n, k), Hit(img, p, m, l)
  PROVE  n = m /\ k = l
<1>1. n = m
  BY DEF Hit, Reached, At
<1>2. DOMAIN img.dir[n] = 1 .. Len(img.dir[n]) /\ Len(img.dir[n]) \in Nat
  BY Shape DEF Sound
<1>3. k <= l /\ l <= k /\ k \in Nat /\ l \in Nat
  BY <1>1, <1>2 DEF Hit
<1> QED
  BY <1>1, <1>3

LEMMA ExactIs ==
  ASSUME NEW img, Sound(img), NEW p \in Path, p # <<>>
  PROVE  \A r : r \in T!Exact(img, p) <=>
           /\ r \in T!Records(img) /\ img.dir[r[1]][r[2]].name = T!File(p)
           /\ Lead(img.table, T!Parents(p), r[1])
<1> DEFINE q == T!Parents(p)
<1>1. /\ Len(p) \in Nat /\ Len(q) = Len(p) - 1 /\ \A j \in 1 .. Len(q) : q[j] = p[j]
      /\ q \in Path
  <2>1. DOMAIN q = 1 .. Len(q)
    BY PathParts DEF Path
  <2> QED
    BY <2>1, PathParts
<1> HIDE DEF q
<1>2. \A n : Lead(img.table, q, n) <=>
        \E c \in [0 .. Len(p) - 1 -> 1 .. Len(img.table)] :
          /\ c[0] = 1 /\ c[Len(p) - 1] = n
          /\ \A j \in 1 .. Len(p) - 1 : /\ img.table[c[j]].name = p[j]
                                        /\ img.table[c[j]].parent = c[j - 1]
  <2> DEFINE l == Len(q)
  <2>1. \A n : Lead(img.table, q, n) <=>
          \E c \in [0 .. l -> 1 .. Len(img.table)] :
            /\ c[0] = 1 /\ c[l] = n
            /\ \A j \in 1 .. l : img.table[c[j]].name = q[j] /\ img.table[c[j]].parent = c[j - 1]
    BY Zenon DEF Lead
  <2>2. \A j \in 1 .. l : q[j] = p[j]
    BY <1>1
  <2>3. l = Len(p) - 1
    BY <1>1
  <2> HIDE DEF l
  <2>4. ASSUME NEW c
        PROVE  (\A j \in 1 .. l : img.table[c[j]].name = q[j] /\ img.table[c[j]].parent = c[j - 1])
               <=> \A j \in 1 .. l : img.table[c[j]].name = p[j] /\ img.table[c[j]].parent = c[j - 1]
    BY <2>2
  <2>5. \A n : Lead(img.table, q, n) <=>
          \E c \in [0 .. l -> 1 .. Len(img.table)] :
            /\ c[0] = 1 /\ c[l] = n
            /\ \A j \in 1 .. l : img.table[c[j]].name = p[j] /\ img.table[c[j]].parent = c[j - 1]
    BY <2>1, <2>4
  <2> QED
    BY <2>3, <2>5
<1>3. \A r : r \in T!Exact(img, p) <=>
         /\ r \in T!Records(img) /\ T!Rec(img, r).name = T!File(p)
         /\ \E c \in [0 .. Len(p) - 1 -> 1 .. Len(img.table)] :
              /\ c[0] = 1
              /\ \A j \in 1 .. Len(p) - 1 : /\ img.table[c[j]].name = p[j]
                                            /\ img.table[c[j]].parent = c[j - 1]
              /\ c[Len(p) - 1] = r[1]
  BY Zenon DEF T!Exact
<1> QED
  BY <1>2, <1>3 DEF q, T!Rec

LEMMA UnlikeTells ==
  ASSUME NEW img, NEW p \in Path, p # <<>>, T!Unlike(img, p)
  PROVE  Tells(img, p) /\ Tells(img, T!Parents(p))
<1>1. Tells(img, p)
  BY DEF Tells, T!Unlike
<1> QED
  BY <1>1, PathParts DEF Tells

LEMMA RootlessParents ==
  ASSUME NEW table, NEW p \in Path, p # <<>>, Rootless(table, p)
  PROVE  Rootless(table, T!Parents(p))
BY PathParts DEF Rootless

(* What is found is what is there.                                         *)
LEMMA FoundIsExact ==
  ASSUME NEW img, Sound(img), NEW p \in Path, p # <<>>, Rootless(img.table, p),
         T!Unlike(img, p)
  PROVE  /\ T!iso_get_file_info(img, p) = T!NotFound => T!Exact(img, p) = {}
         /\ \A n, k : Hit(img, p, n, k) /\ n \in 1 .. Len(img.table) =>
              T!Exact(img, p) = {<<n, k>>}
<1>1. /\ Tells(img, p) /\ Tells(img, T!Parents(p)) /\ Rootless(img.table, T!Parents(p))
      /\ T!Parents(p) \in Path
  BY UnlikeTells, RootlessParents, PathParts
<1>2. \A n : Lead(img.table, T!Parents(p), n) <=> Reached(img.table, T!Parents(p), n)
  BY <1>1, LeadReached
<1>3. \A a \in T!Names(img) : T!Matches(a, T!File(p)) => a = T!File(p)
  <2>1. Len(p) \in DOMAIN p /\ p[Len(p)] = T!File(p)
    BY PathParts
  <2> QED
    BY <1>1, <2>1 DEF Tells
<1>4. ASSUME NEW n, NEW k, Hit(img, p, n, k), n \in 1 .. Len(img.table)
      PROVE  <<n, k>> \in T!Exact(img, p)
  <2>1. k \in 1 .. Len(img.dir[n]) /\ <<n, k>> \in T!Records(img)
    BY <1>4, Shape DEF Hit, Sound
  <2>2. img.dir[n][k].name \in T!Names(img)
    BY <2>1 DEF T!Names, T!Rec
  <2>3. img.dir[n][k].name = T!File(p)
    BY <1>3, <1>4, <2>2 DEF Hit
  <2> QED
    BY <1>2, <1>4, <2>1, <2>3, ExactIs DEF Hit
<1>5. ASSUME NEW r \in T!Exact(img, p)
      PROVE  r = <<r[1], r[2]>> /\ Hit(img, p, r[1], r[2])
  <2> DEFINE n == r[1]
             k == r[2]
  <2>1. /\ r \in T!Records(img) /\ img.dir[n][k].name = T!File(p)
        /\ Reached(img.table, T!Parents(p), n)
    BY <1>2, <1>5, ExactIs
  <2>2. r = <<n, k>> /\ n \in 1 .. Len(img.dir) /\ k \in DOMAIN img.dir[n]
    BY <2>1, Listed
  <2>3. n \in DOMAIN img.dir /\ DOMAIN img.dir[n] = 1 .. Len(img.dir[n])
        /\ Len(img.dir[n]) \in Nat
    <3>1. Len(img.dir) = Len(img.table)
      BY DEF Sound, T!IsImage
    <3> QED
      BY <2>2, <3>1, Shape DEF Sound
  <2>4. T!File(p) \in Name
    BY PathParts
  <2>5. T!Matches(img.dir[n][k].name, T!File(p))
    BY <2>1, <2>4, MatchesItself
  <2>6. ASSUME NEW l \in DOMAIN img.dir[n], T!Matches(img.dir[n][l].name, T!File(p))
        PROVE  k <= l
    <3>1. <<n, l>> \in T!Records(img)
      BY <2>2, <2>3, Shape DEF Sound, T!IsImage
    <3>2. img.dir[n][l].name = T!File(p)
      BY <1>3, <2>6, <3>1 DEF T!Names, T!Rec
    <3>3. k = l
      BY <2>1, <2>2, <2>3, <3>2 DEF Sound, T!NamesOnce
    <3> QED
      BY <2>3, <3>3
  <2> QED
    BY <2>1, <2>2, <2>5, <2>6 DEF Hit
<1>6. T!iso_get_file_info(img, p) = T!NotFound => T!Exact(img, p) = {}
  <2>1. ASSUME NEW n, NEW k, T!iso_get_file_info(img, p) = Stat(img, n, k), n \in 1 .. Len(img.table)
        PROVE  T!iso_get_file_info(img, p) # T!NotFound
    BY <2>1 DEF Stat, T!NotFound
  <2> QED
    BY <1>5, <2>1, LookupIs
<1>7. ASSUME NEW n, NEW k, Hit(img, p, n, k), n \in 1 .. Len(img.table)
      PROVE  T!Exact(img, p) = {<<n, k>>}
  <2>1. <<n, k>> \in T!Exact(img, p)
    BY <1>4, <1>7
  <2>2. ASSUME NEW r \in T!Exact(img, p) PROVE r = <<n, k>>
    <3>1. r = <<r[1], r[2]>> /\ Hit(img, p, r[1], r[2])
      BY <1>5
    <3>2. n = r[1] /\ k = r[2]
      BY <1>7, <3>1, HitOnce
    <3> QED
      BY <3>1, <3>2
  <2> QED
    BY <2>1, <2>2
<1> QED
  BY <1>6, <1>7

(* A directory that is found is the one the path leads to.                 *)
LEMMA DirectoryIs ==
  ASSUME NEW img, Sound(img), NEW p \in Path, p # <<>>, Rootless(img.table, p),
         NEW a \in 1 .. Len(img.table), NEW k, Hit(img, p, a, k), img.dir[a][k].isdir
  PROVE  Reached(img.table, p, img.dir[a][k].pos)
<1> DEFINE table == img.table
           n == img.dir[a][k].pos
           q == T!Parents(p)
           x == T!File(p)
<1>1. Ordered(table) /\ table \in Table /\ Len(table) \in Nat
  BY SoundTable, Shape DEF Sound
<1>2. /\ \A d \in DOMAIN img.dir : \A l \in DOMAIN img.dir[d] :
           img.dir[d][l].isdir =>
             /\ img.dir[d][l].pos \in 2 .. Len(table)
             /\ table[img.dir[d][l].pos] = [name |-> img.dir[d][l].name, parent |-> d]
             /\ \A m \in DOMAIN img.dir[d] :
                  m < l /\ img.dir[d][m].isdir => img.dir[d][m].pos < img.dir[d][l].pos
      /\ \A m \in 2 .. Len(table) : \E l \in DOMAIN img.dir[table[m].parent] :
           img.dir[table[m].parent][l].isdir /\ img.dir[table[m].parent][l].pos = m
  BY Zenon DEF Sound, T!DirsTrue
<1>3. /\ a \in DOMAIN img.dir /\ k \in DOMAIN img.dir[a] /\ k \in Nat
      /\ DOMAIN img.dir[a] = 1 .. Len(img.dir[a]) /\ Len(img.dir[a]) \in Nat
  BY Shape DEF Sound, Hit
<1>4. q \in Path /\ x \in Name /\ p = Append(q, x)
  BY PathParts
<1>5. /\ Reached(table, q, a) /\ T!Matches(img.dir[a][k].name, x)
      /\ \A l \in DOMAIN img.dir[a] : T!Matches(img.dir[a][l].name, x) => k <= l
  BY DEF Hit
<1> HIDE DEF q, x, table
<1>6. n \in 2 .. Len(table) /\ table[n] = [name |-> img.dir[a][k].name, parent |-> a]
  BY <1>2, <1>3
<1>7. Child(table, a, x, n)
  BY <1>5, <1>6 DEF Child
<1>8. ASSUME NEW m, Child(table, a, x, m) PROVE n <= m
  <2>1. m \in 2 .. Len(table) /\ table[m].parent = a /\ T!Matches(table[m].name, x)
    BY <1>8 DEF Child
  <2>2. PICK l \in DOMAIN img.dir[a] : img.dir[a][l].isdir /\ img.dir[a][l].pos = m
    BY <1>2, <2>1
  <2>3. T!Matches(img.dir[a][l].name, x)
    <3>1. table[m] = [name |-> img.dir[a][l].name, parent |-> a]
      BY <1>2, <1>3, <2>2
    <3> QED
      BY <2>1, <3>1
  <2>4. k <= l /\ l \in Nat
    BY <1>3, <1>5, <2>3
  <2>5. k < l => n < m
    BY <1>2, <1>3, <2>2
  <2>6. k = l => n = m
    BY <2>2
  <2>7. m \in Nat /\ n \in Nat
    BY <1>1, <1>6, <2>1
  <2> QED
    BY <1>3, <2>4, <2>5, <2>6, <2>7
<1>9. Rootless(table, Append(q, x))
  BY <1>4 DEF table
<1>10. Reached(table, Append(q, x), n)
  BY <1>1, <1>4, <1>5, <1>7, <1>8, <1>9, ReachedMore
<1> QED
  BY <1>4, <1>10 DEF table

-----------------------------------------------------------------------------
(***************************************************************************)
(* Images in which the same is found.                                      *)
(***************************************************************************)
Alike(a, b) ==
  /\ a.table = b.table
  /\ \A d \in 1 .. Len(a.table) :
       /\ Len(a.dir[d]) = Len(b.dir[d])
       /\ \A k \in 1 .. Len(a.dir[d]) : /\ a.dir[d][k].name = b.dir[d][k].name
                                        /\ a.dir[d][k].isdir = b.dir[d][k].isdir

(* The one has all records of the other and perhaps more.                  *)
Grown(a, b) ==
  /\ a.table = b.table
  /\ \A d \in 1 .. Len(a.table) :
       /\ Len(a.dir[d]) <= Len(b.dir[d])
       /\ \A k \in 1 .. Len(a.dir[d]) : /\ a.dir[d][k].name = b.dir[d][k].name
                                        /\ a.dir[d][k].isdir = b.dir[d][k].isdir

LEMMA AlikeHits ==
  ASSUME NEW a, NEW b, T!IsImage(a), T!IsImage(b), Alike(a, b), NEW p,
         NEW n \in 1 .. Len(a.table), NEW k
  PROVE  Hit(a, p, n, k) <=> Hit(b, p, n, k)
<1>1. /\ DOMAIN a.dir[n] = 1 .. Len(a.dir[n]) /\ DOMAIN b.dir[n] = 1 .. Len(b.dir[n])
      /\ Len(a.dir[n]) = Len(b.dir[n]) /\ a.table = b.table
  BY Shape DEF Alike
<1>2. \A l \in 1 .. Len(a.dir[n]) : a.dir[n][l].name = b.dir[n][l].name
  BY DEF Alike
<1> QED
  BY <1>1, <1>2 DEF Hit

LEMMA AlikeFinds ==
  ASSUME NEW a, NEW b, Sound(a), Sound(b), Alike(a, b), NEW p \in Path, p # <<>>,
         Rootless(a.table, p)
  PROVE  /\ T!iso_get_file_info(a, p) = T!NotFound <=> T!iso_get_file_info(b, p) = T!NotFound
         /\ T!iso_get_file_info(a, p) # T!NotFound =>
              /\ T!iso_get_file_info(a, p).dir = T!iso_get_file_info(b, p).dir
              /\ T!iso_get_file_info(a, p).record = T!iso_get_file_info(b, p).record
<1>1. a.table = b.table /\ T!IsImage(a) /\ T!IsImage(b)
  BY DEF Alike, Sound
<1>2. ASSUME NEW i, NEW n \in 1 .. Len(a.table), NEW k
      PROVE  Stat(i, n, k) # T!NotFound /\ Stat(i, n, k).dir = n /\ Stat(i, n, k).record = k
  BY DEF Stat, T!NotFound
<1>3. \/ /\ T!iso_get_file_info(a, p) = T!NotFound
         /\ \A n, k : ~Hit(a, p, n, k)
      \/ \E n \in 1 .. Len(a.table) : \E k \in 1 .. Len(a.dir[n]) :
           /\ T!iso_get_file_info(a, p) = Stat(a, n, k)
           /\ Hit(a, p, n, k)
  BY LookupIs
<1>4. \/ /\ T!iso_get_file_info(b, p) = T!NotFound
         /\ \A n, k : ~Hit(b, p, n, k)
      \/ \E n \in 1 .. Len(b.table) : \E k \in 1 .. Len(b.dir[n]) :
           /\ T!iso_get_file_info(b, p) = Stat(b, n, k)
           /\ Hit(b, p, n, k)
  BY <1>1, LookupIs
<1>5. CASE T!iso_get_file_info(a, p) = T!NotFound
  BY <1>1, <1>2, <1>3, <1>4, <1>5, AlikeHits
<1>6. ASSUME NEW n \in 1 .. Len(a.table), NEW k, T!iso_get_file_info(a, p) = Stat(a, n, k), Hit(a, p, n, k)
      PROVE  T!iso_get_file_info(b, p) = Stat(b, n, k)
  <2>1. Hit(b, p, n, k)
    BY <1>1, <1>6, AlikeHits
  <2>2. PICK m \in 1 .. Len(b.table) : \E l :
          T!iso_get_file_info(b, p) = Stat(b, m, l) /\ Hit(b, p, m, l)
    BY <1>4, <2>1
  <2> QED
    BY <2>1, <2>2, HitOnce
<1> QED
  BY <1>2, <1>3, <1>5, <1>6

-----------------------------------------------------------------------------
(***************************************************************************)
(* What the writes make of an image.                                       *)
(***************************************************************************)
LEMMA SameTable ==
  ASSUME NEW a, NEW b, T!TableTrue(a), a.table = b.table
  PROVE  T!TableTrue(b)
<1> DEFINE t == a.table
           u == b.table
<1>1. t = u
  OBVIOUS
<1>2. /\ \A n \in 2 .. Len(t) : t[n].parent \in 1 .. n - 1
      /\ \A m, n \in 2 .. Len(t) : t[m] = t[n] => m = n
      /\ \A p \in Paths \cup {BootPath} : \A j \in DOMAIN p : ~T!Matches(t[1].name, p[j])
  BY Zenon DEF T!TableTrue
<1> HIDE DEF t, u
<1>3. /\ \A n \in 2 .. Len(u) : u[n].parent \in 1 .. n - 1
      /\ \A m, n \in 2 .. Len(u) : u[m] = u[n] => m = n
      /\ \A p \in Paths \cup {BootPath} : \A j \in DOMAIN p : ~T!Matches(u[1].name, p[j])
  BY <1>1, <1>2, Zenon
<1> QED
  BY <1>3, Zenon DEF T!TableTrue, u

(* Records that keep their names, and directories theirs.                  *)
LEMMA AlikeSound ==
  ASSUME NEW a, NEW b, Sound(a), T!IsImage(b), Alike(a, b),
         \A d \in 1 .. Len(a.table) : \A k \in 1 .. Len(a.dir[d]) :
           a.dir[d][k].isdir => b.dir[d][k] = a.dir[d][k]
  PROVE  Sound(b)
<1>1. T!TableTrue(b)
  BY SameTable DEF Alike, Sound
<1>2. /\ DOMAIN a.dir = 1 .. Len(a.table) /\ DOMAIN b.dir = 1 .. Len(a.table)
      /\ a.table = b.table /\ Ordered(a.table) /\ Len(a.table) \in Nat
      /\ \A d \in 1 .. Len(a.table) : /\ DOMAIN a.dir[d] = 1 .. Len(a.dir[d])
                                      /\ DOMAIN b.dir[d] = DOMAIN a.dir[d]
  BY Shape, SoundTable DEF Alike, Sound
<1>3. \A d \in 1 .. Len(a.table) : \A k \in 1 .. Len(a.dir[d]) :
        b.dir[d][k].isdir = a.dir[d][k].isdir /\ b.dir[d][k].name = a.dir[d][k].name
  BY DEF Alike
<1>4. T!NamesOnce(b)
  <2> SUFFICES ASSUME NEW d \in DOMAIN b.dir, NEW k \in DOMAIN b.dir[d], NEW l \in DOMAIN b.dir[d],
                      b.dir[d][k].name = b.dir[d][l].name
               PROVE  k = l
    BY Zenon DEF T!NamesOnce
  <2>1. /\ d \in DOMAIN a.dir /\ k \in DOMAIN a.dir[d] /\ l \in DOMAIN a.dir[d]
        /\ a.dir[d][k].name = a.dir[d][l].name
    BY <1>2, <1>3
  <2> QED
    BY <2>1, Zenon DEF Sound, T!NamesOnce
<1>5. ASSUME NEW d \in DOMAIN b.dir, NEW k \in DOMAIN b.dir[d], b.dir[d][k].isdir
      PROVE  /\ b.dir[d][k].pos \in 2 .. Len(b.table)
             /\ b.table[b.dir[d][k].pos] = [name |-> b.dir[d][k].name, parent |-> d]
             /\ \A l \in DOMAIN b.dir[d] :
                  l < k /\ b.dir[d][l].isdir => b.dir[d][l].pos < b.dir[d][k].pos
  <2>1. d \in DOMAIN a.dir /\ k \in DOMAIN a.dir[d] /\ a.dir[d][k].isdir
        /\ b.dir[d][k] = a.dir[d][k]
    <3>1. d \in 1 .. Len(a.table) /\ k \in 1 .. Len(a.dir[d])
      BY <1>2
    <3>2. a.dir[d][k].isdir
      BY <1>3, <1>5, <3>1
    <3> QED
      BY <1>2, <3>1, <3>2
  <2>2. /\ a.dir[d][k].pos \in 2 .. Len(a.table)
        /\ a.table[a.dir[d][k].pos] = [name |-> a.dir[d][k].name, parent |-> d]
        /\ \A l \in DOMAIN a.dir[d] :
             l < k /\ a.dir[d][l].isdir => a.dir[d][l].pos < a.dir[d][k].pos
    BY <2>1, Zenon DEF Sound, T!DirsTrue
  <2>3. ASSUME NEW l \in DOMAIN b.dir[d], l < k, b.dir[d][l].isdir
        PROVE  b.dir[d][l].pos < b.dir[d][k].pos
    <3>1. l \in DOMAIN a.dir[d] /\ a.dir[d][l].isdir /\ b.dir[d][l] = a.dir[d][l]
      <4>1. d \in 1 .. Len(a.table) /\ l \in 1 .. Len(a.dir[d])
        BY <1>2
      <4>2. a.dir[d][l].isdir
        BY <1>3, <2>3, <4>1
      <4> QED
        BY <1>2, <4>1, <4>2
    <3> QED
      BY <2>1, <2>2, <2>3, <3>1
  <2> QED
    BY <1>2, <2>1, <2>2, <2>3
<1>6. ASSUME NEW n \in 2 .. Len(b.table)
      PROVE  \E k \in DOMAIN b.dir[b.table[n].parent] :
               b.dir[b.table[n].parent][k].isdir /\ b.dir[b.table[n].parent][k].pos = n
  <2>1. PICK k \in DOMAIN a.dir[a.table[n].parent] :
          a.dir[a.table[n].parent][k].isdir /\ a.dir[a.table[n].parent][k].pos = n
    <3>1. n \in 2 .. Len(a.table)
      BY <1>2
    <3> QED
      BY <3>1, Zenon DEF Sound, T!DirsTrue
  <2>2. a.table[n].parent \in 1 .. Len(a.table)
    BY <1>2 DEF Ordered
  <2>3. /\ k \in DOMAIN b.dir[a.table[n].parent]
        /\ b.dir[a.table[n].parent][k] = a.dir[a.table[n].parent][k]
    BY <1>2, <2>1, <2>2
  <2> QED
    BY <1>2, <2>1, <2>3
<1>7. T!DirsTrue(b)
  BY <1>5, <1>6, Zenon DEF T!DirsTrue
<1> QED
  BY <1>1, <1>4, <1>7 DEF Sound

(* Writes to data, and a larger volume.                                    *)
LEMMA SameTreeSound ==
  ASSUME NEW a, NEW b, Sound(a), DOMAIN b = DOMAIN a, b.table = a.table, b.dir = a.dir,
         b.volume \in Nat, 0 .. b.volume - 1 \subseteq DOMAIN b.data
  PROVE  Sound(b) /\ Alike(a, b)
<1>1. T!IsImage(b)
  BY DEF Sound, T!IsImage
<1>2. Alike(a, b)
  BY DEF Alike
<1> QED
  BY <1>1, <1>2, AlikeSound

(* A field of a file's record.                                             *)
LEMMA SetRecordKeeps ==
  ASSUME NEW n \in 1 .. Len(iso.table), NEW k \in 1 .. Len(iso.dir[n]), NEW at,
         at.dir = n, at.record = k, Sound(iso), ~iso.dir[n][k].isdir,
         NEW field \in {"pos", "size"}, NEW v \in Int, field = "pos" => v \in Nat,
         T!SetRecord(at, field, v)
  PROVE  /\ Sound(iso') /\ Alike(iso, iso') /\ iso'.data = iso.data /\ iso'.volume = iso.volume
         /\ iso'.dir[n][k].pos = (IF field = "pos" THEN v ELSE iso.dir[n][k].pos)
         /\ iso'.dir[n][k].size = (IF field = "size" THEN v ELSE iso.dir[n][k].size)
         /\ \A d \in 1 .. Len(iso.table) : \A l \in 1 .. Len(iso.dir[d]) :
              <<d, l>> # <<n, k>> => iso'.dir[d][l] = iso.dir[d][l]
<1> DEFINE e == [iso.dir[n][k] EXCEPT ![field] = v]
           s == [iso.dir[n] EXCEPT ![k] = e]
           dir == [iso.dir EXCEPT ![n] = s]
<1>1. /\ DOMAIN iso = {"table", "dir", "data", "volume"}
      /\ iso.dir \in Seq(Seq(T!Entry)) /\ n \in 1 .. Len(iso.dir) /\ Len(iso.dir) = Len(iso.table)
      /\ iso.dir[n] \in Seq(T!Entry)
      /\ DOMAIN iso.dir = 1 .. Len(iso.table) /\ DOMAIN iso.dir[n] = 1 .. Len(iso.dir[n])
  BY Shape DEF Sound, T!IsImage
<1>2. iso' = [iso EXCEPT !.dir = dir]
  BY DEF T!SetRecord
<1>3. /\ e \in T!Entry /\ e.name = iso.dir[n][k].name /\ e.isdir = iso.dir[n][k].isdir
      /\ e.pos = (IF field = "pos" THEN v ELSE iso.dir[n][k].pos)
      /\ e.size = (IF field = "size" THEN v ELSE iso.dir[n][k].size)
  <2>1. iso.dir[n][k] \in [name : T!Name, pos : Nat, size : Int, isdir : BOOLEAN]
    BY Shape DEF Sound, T!Name, Name
  <2>2. CASE field = "pos"
    BY <2>1, <2>2 DEF T!Entry
  <2>3. CASE field = "size"
    BY <2>1, <2>3 DEF T!Entry
  <2> QED
    BY <2>2, <2>3
<1> HIDE DEF e
<1>4. /\ s \in Seq(T!Entry) /\ Len(s) = Len(iso.dir[n]) /\ s[k] = e
      /\ \A l \in 1 .. Len(iso.dir[n]) : l # k => s[l] = iso.dir[n][l]
  BY <1>1, <1>3, ExceptSeq
<1> HIDE DEF s
<1>5. /\ dir \in Seq(Seq(T!Entry)) /\ Len(dir) = Len(iso.dir) /\ dir[n] = s
      /\ \A d \in 1 .. Len(iso.dir) : d # n => dir[d] = iso.dir[d]
  <2> DEFINE S == Seq(T!Entry)
  <2>1. iso.dir \in Seq(S) /\ s \in S
    BY <1>1, <1>4
  <2> HIDE DEF S
  <2>2. dir \in Seq(S) /\ Len(dir) = Len(iso.dir)
    BY <1>1, <2>1, ExceptSeq
  <2> QED
    BY <1>1, <2>2 DEF S
<1> HIDE DEF dir
<1>6. /\ DOMAIN iso' = DOMAIN iso /\ iso'.table = iso.table /\ iso'.data = iso.data
      /\ iso'.volume = iso.volume /\ iso'.dir = dir
  BY <1>1, <1>2
<1>7. \A d \in 1 .. Len(iso.table) :
        /\ Len(iso'.dir[d]) = Len(iso.dir[d])
        /\ \A l \in 1 .. Len(iso.dir[d]) :
             IF d = n /\ l = k THEN iso'.dir[d][l] = e ELSE iso'.dir[d][l] = iso.dir[d][l]
  BY <1>1, <1>4, <1>5, <1>6
<1>8. T!IsImage(iso')
  <2>1. \A d \in DOMAIN iso'.dir : Len(iso'.dir[d]) <= MaxRecords
    <3>1. DOMAIN iso'.dir = 1 .. Len(iso'.dir)
      BY <1>5, <1>6
    <3>2. DOMAIN iso'.dir = 1 .. Len(iso.table)
      BY <1>1, <1>5, <1>6, <3>1
    <3>3. \A d \in DOMAIN iso.dir : Len(iso.dir[d]) <= MaxRecords
      BY DEF Sound, T!IsImage
    <3> QED
      BY <1>1, <1>7, <3>2, <3>3
  <2> QED
    BY <1>1, <1>5, <1>6, <2>1 DEF Sound, T!IsImage
<1>9. Alike(iso, iso')
  BY <1>3, <1>6, <1>7 DEF Alike
<1>10. ASSUME NEW d \in 1 .. Len(iso.table), NEW l \in 1 .. Len(iso.dir[d]), iso.dir[d][l].isdir
       PROVE  iso'.dir[d][l] = iso.dir[d][l]
  <2>1. ~(d = n /\ l = k)
    BY <1>10
  <2> QED
    BY <1>7, <2>1
<1>11. Sound(iso')
  BY <1>8, <1>9, <1>10, AlikeSound
<1>12. \A d \in 1 .. Len(iso.table) : \A l \in 1 .. Len(iso.dir[d]) :
         <<d, l>> # <<n, k>> => iso'.dir[d][l] = iso.dir[d][l]
  BY <1>7
<1>13. iso'.dir[n][k] = e
  BY <1>7
<1> QED
  BY <1>3, <1>6, <1>9, <1>11, <1>12, <1>13

LEMMA PutDataKeeps ==
  ASSUME Sound(iso), NEW p \in Nat, NEW n \in Nat, T!PutData(p, n)
  PROVE  /\ Sound(iso') /\ Alike(iso, iso') /\ iso'.dir = iso.dir /\ iso'.volume = iso.volume
         /\ DOMAIN iso'.data = DOMAIN iso.data
         /\ \A s \in DOMAIN iso.data :
              iso'.data[s] = IF s \in p .. p + n - 1 THEN T!NewData(s - p) ELSE iso.data[s]
<1> DEFINE new == [s \in DOMAIN iso.data |->
                     IF s \in p .. p + n - 1 THEN T!NewData(s - p) ELSE iso.data[s]]
<1>1. iso' = [iso EXCEPT !.data = new]
  BY DEF T!PutData, T!SectorsFrom
<1>2. DOMAIN new = DOMAIN iso.data
  OBVIOUS
<1>3. \A s \in DOMAIN iso.data :
         new[s] = IF s \in p .. p + n - 1 THEN T!NewData(s - p) ELSE iso.data[s]
  OBVIOUS
<1> HIDE DEF new
<1>4. DOMAIN iso = {"table", "dir", "data", "volume"}
  BY DEF Sound, T!IsImage
<1>5. /\ DOMAIN iso' = DOMAIN iso /\ iso'.table = iso.table /\ iso'.dir = iso.dir
      /\ iso'.volume = iso.volume /\ iso'.data = new
  BY <1>1, <1>4
<1>6. iso'.volume \in Nat /\ 0 .. iso'.volume - 1 \subseteq DOMAIN iso'.data
  BY <1>2, <1>5 DEF Sound, T!IsImage
<1>7. Sound(iso') /\ Alike(iso, iso')
  BY <1>5, <1>6, SameTreeSound
<1> QED
  BY <1>2, <1>3, <1>5, <1>7

(* A record behind those of a directory, of a name that is not there.      *)
LEMMA AppendKeeps ==
  ASSUME Sound(iso), NEW d \in 1 .. Len(iso.table), NEW e \in T!Entry, ~e.isdir,
         Len(iso.dir[d]) < MaxRecords,
         \A k \in 1 .. Len(iso.dir[d]) : iso.dir[d][k].name # e.name,
         iso' = [iso EXCEPT !.dir[d] = Append(@, e)]
  PROVE  /\ Sound(iso') /\ Grown(iso, iso') /\ iso'.data = iso.data /\ iso'.volume = iso.volume
         /\ \A m \in 1 .. Len(iso.table) : \A l \in 1 .. Len(iso.dir[m]) :
              iso'.dir[m][l] = iso.dir[m][l]
         /\ Len(iso'.dir[d]) = Len(iso.dir[d]) + 1 /\ iso'.dir[d][Len(iso.dir[d]) + 1] = e
         /\ \A m \in 1 .. Len(iso.table) : m # d => iso'.dir[m] = iso.dir[m]
<1> DEFINE s   == Append(iso.dir[d], e)
           dir == [iso.dir EXCEPT ![d] = s]
           len == Len(iso.dir[d])
<1>1. /\ DOMAIN iso = {"table", "dir", "data", "volume"} /\ iso.table = iso.table
      /\ iso.dir \in Seq(Seq(T!Entry)) /\ Len(iso.dir) = Len(iso.table)
      /\ d \in 1 .. Len(iso.dir)
      /\ iso.dir[d] \in Seq(T!Entry) /\ DOMAIN iso.dir = 1 .. Len(iso.table)
      /\ Ordered(iso.table) /\ Len(iso.table) \in Nat
      /\ \A m \in 1 .. Len(iso.table) :
           DOMAIN iso.dir[m] = 1 .. Len(iso.dir[m]) /\ Len(iso.dir[m]) \in Nat
  BY Shape, SoundTable DEF Sound, T!IsImage
<1>2. iso' = [iso EXCEPT !.dir = dir]
  OBVIOUS
<1>3. /\ s \in Seq(T!Entry) /\ Len(s) = len + 1 /\ DOMAIN s = 1 .. len + 1 /\ s[len + 1] = e
      /\ \A l \in 1 .. len : s[l] = iso.dir[d][l]
  <2>1. s \in Seq(T!Entry) /\ Len(s) = len + 1
    BY <1>1, AppendProperties
  <2> QED
    BY <1>1, <2>1
<1> HIDE DEF s
<1>4. /\ dir \in Seq(Seq(T!Entry)) /\ Len(dir) = Len(iso.dir) /\ dir[d] = s
      /\ DOMAIN dir = 1 .. Len(iso.table)
      /\ \A m \in 1 .. Len(iso.dir) : m # d => dir[m] = iso.dir[m]
  <2> DEFINE S == Seq(T!Entry)
  <2>1. iso.dir \in Seq(S) /\ s \in S
    BY <1>1, <1>3
  <2> HIDE DEF S
  <2>2. dir \in Seq(S) /\ Len(dir) = Len(iso.dir)
    BY <1>1, <2>1, ExceptSeq
  <2> QED
    BY <1>1, <2>2 DEF S
<1> HIDE DEF dir
<1>5. /\ DOMAIN iso' = DOMAIN iso /\ iso'.table = iso.table /\ iso'.data = iso.data
      /\ iso'.volume = iso.volume /\ iso'.dir = dir
  BY <1>1, <1>2
<1>6. /\ len \in Nat /\ DOMAIN iso'.dir[d] = 1 .. len + 1 /\ Len(iso'.dir[d]) = len + 1
      /\ iso'.dir[d][len + 1] = e
      /\ \A m \in 1 .. Len(iso.table) : m # d => iso'.dir[m] = iso.dir[m]
      /\ \A m \in 1 .. Len(iso.table) : \A l \in 1 .. Len(iso.dir[m]) :
           iso'.dir[m][l] = iso.dir[m][l]
  BY <1>1, <1>3, <1>4, <1>5
<1> HIDE DEF len
<1>a. ASSUME NEW m \in 1 .. Len(iso.table), NEW l \in DOMAIN iso'.dir[m]
      PROVE  \/ l \in DOMAIN iso.dir[m] /\ iso'.dir[m][l] = iso.dir[m][l]
             \/ m = d /\ l = len + 1 /\ iso'.dir[m][l] = e
  <2>1. CASE m = d
    BY <1>1, <1>6, <1>a, <2>1 DEF len
  <2>2. CASE m # d
    BY <1>1, <1>6, <1>a, <2>2
  <2> QED
    BY <2>1, <2>2
<1>b. ASSUME NEW m \in 1 .. Len(iso.table), NEW l \in DOMAIN iso.dir[m]
      PROVE  l \in DOMAIN iso'.dir[m] /\ iso'.dir[m][l] = iso.dir[m][l] /\ (m = d => l < len + 1)
  <2>1. CASE m = d
    BY <1>1, <1>6, <1>b, <2>1 DEF len
  <2>2. CASE m # d
    BY <1>1, <1>6, <1>b, <2>2
  <2> QED
    BY <2>1, <2>2
<1>7. T!IsImage(iso')
  <2>1. \A m \in DOMAIN iso'.dir : Len(iso'.dir[m]) <= MaxRecords
    <3>1. DOMAIN iso'.dir = 1 .. Len(iso.table)
      BY <1>4, <1>5
    <3>2. \A m \in DOMAIN iso.dir : Len(iso.dir[m]) <= MaxRecords
      BY DEF Sound, T!IsImage
    <3>3. MaxRecords \in Nat
      BY TreeAssumption DEF T!SizeAssumption
    <3>4. len + 1 <= MaxRecords
      BY <1>6, <3>3 DEF len
    <3> SUFFICES ASSUME NEW m \in 1 .. Len(iso.table) PROVE Len(iso'.dir[m]) <= MaxRecords
      BY <3>1
    <3>5. CASE m = d
      BY <1>6, <3>4, <3>5
    <3>6. CASE m # d
      BY <1>1, <1>6, <3>2, <3>6
    <3> QED
      BY <3>5, <3>6
  <2> QED
    BY <1>1, <1>4, <1>5, <2>1 DEF Sound, T!IsImage
<1>8. T!TableTrue(iso')
  BY <1>5, SameTable DEF Sound
<1>9. T!NamesOnce(iso')
  <2> SUFFICES ASSUME NEW m \in DOMAIN iso'.dir, NEW k \in DOMAIN iso'.dir[m], NEW l \in DOMAIN iso'.dir[m],
                      iso'.dir[m][k].name = iso'.dir[m][l].name
               PROVE  k = l
    BY Zenon DEF T!NamesOnce
  <2>1. m \in 1 .. Len(iso.table) /\ m \in DOMAIN iso.dir
    BY <1>1, <1>4, <1>5
  <2>2. \A j \in DOMAIN iso.dir[d] : iso.dir[d][j].name # e.name
    BY <1>1
  <2>3. CASE k \in DOMAIN iso.dir[m] /\ l \in DOMAIN iso.dir[m]
    <3>1. iso.dir[m][k].name = iso.dir[m][l].name
      BY <1>b, <2>1, <2>3
    <3> QED
      BY <2>1, <2>3, <3>1, Zenon DEF Sound, T!NamesOnce
  <2> QED
    BY <1>a, <2>1, <2>2, <2>3
<1>10. T!DirsTrue(iso')
  <2>1. ASSUME NEW m \in DOMAIN iso'.dir, NEW k \in DOMAIN iso'.dir[m], iso'.dir[m][k].isdir
        PROVE  /\ iso'.dir[m][k].pos \in 2 .. Len(iso'.table)
               /\ iso'.table[iso'.dir[m][k].pos] = [name |-> iso'.dir[m][k].name, parent |-> m]
               /\ \A l \in DOMAIN iso'.dir[m] :
                    l < k /\ iso'.dir[m][l].isdir => iso'.dir[m][l].pos < iso'.dir[m][k].pos
    <3>1. m \in 1 .. Len(iso.table) /\ m \in DOMAIN iso.dir
      BY <1>1, <1>4, <1>5
    <3>2. k \in DOMAIN iso.dir[m] /\ iso'.dir[m][k] = iso.dir[m][k] /\ iso.dir[m][k].isdir
      BY <1>a, <2>1, <3>1
    <3>3. /\ iso.dir[m][k].pos \in 2 .. Len(iso.table)
          /\ iso.table[iso.dir[m][k].pos] = [name |-> iso.dir[m][k].name, parent |-> m]
          /\ \A l \in DOMAIN iso.dir[m] :
               l < k /\ iso.dir[m][l].isdir => iso.dir[m][l].pos < iso.dir[m][k].pos
      BY <3>1, <3>2, Zenon DEF Sound, T!DirsTrue
    <3>4. ASSUME NEW l \in DOMAIN iso'.dir[m], l < k, iso'.dir[m][l].isdir
          PROVE  iso'.dir[m][l].pos < iso'.dir[m][k].pos
      <4>1. l \in DOMAIN iso.dir[m] /\ iso'.dir[m][l] = iso.dir[m][l] /\ iso.dir[m][l].isdir
        BY <1>a, <3>1, <3>4
      <4> QED
        BY <3>2, <3>3, <3>4, <4>1
    <3> QED
      BY <1>5, <3>2, <3>3, <3>4
  <2>2. ASSUME NEW n \in 2 .. Len(iso'.table)
        PROVE  \E k \in DOMAIN iso'.dir[iso'.table[n].parent] :
                 iso'.dir[iso'.table[n].parent][k].isdir /\ iso'.dir[iso'.table[n].parent][k].pos = n
    <3>1. PICK k \in DOMAIN iso.dir[iso.table[n].parent] :
            iso.dir[iso.table[n].parent][k].isdir /\ iso.dir[iso.table[n].parent][k].pos = n
      <4>1. n \in 2 .. Len(iso.table)
        BY <1>5
      <4> QED
        BY <4>1, Zenon DEF Sound, T!DirsTrue
    <3>2. iso.table[n].parent \in 1 .. Len(iso.table)
      <4>1. n \in 2 .. Len(iso.table) /\ Len(iso.table) \in Nat
        BY <1>1, <1>5
      <4>2. iso.table[n].parent \in 1 .. n - 1
        BY <1>1, <4>1 DEF Ordered
      <4> QED
        BY <4>1, <4>2
    <3>3. /\ k \in DOMAIN iso'.dir[iso.table[n].parent]
          /\ iso'.dir[iso.table[n].parent][k] = iso.dir[iso.table[n].parent][k]
      BY <1>b, <3>1, <3>2
    <3> QED
      BY <1>5, <3>1, <3>3
  <2> QED
    BY <2>1, <2>2, Zenon DEF T!DirsTrue
<1>11. Grown(iso, iso')
  <2>1. ASSUME NEW m \in 1 .. Len(iso.table)
        PROVE  /\ Len(iso.dir[m]) <= Len(iso'.dir[m])
               /\ \A k \in 1 .. Len(iso.dir[m]) : /\ iso.dir[m][k].name = iso'.dir[m][k].name
                                                  /\ iso.dir[m][k].isdir = iso'.dir[m][k].isdir
    <3>1. CASE m = d
      BY <1>6, <3>1 DEF len
    <3>2. CASE m # d
      BY <1>1, <1>6, <3>2
    <3> QED
      BY <3>1, <3>2
  <2> QED
    BY <1>5, <2>1 DEF Grown
<1> QED
  BY <1>5, <1>6, <1>7, <1>8, <1>9, <1>10, <1>11 DEF Sound, len

-----------------------------------------------------------------------------
(***************************************************************************)
(* Where a call is.                                                        *)
(***************************************************************************)
Known == Paths \cup {BootPath}

Plain(img, found) == found # T!NotFound => ~img.dir[found.dir][found.record].isdir

Within(img, found) ==
  found # T!NotFound => /\ found.dir \in 1 .. Len(img.table)
                        /\ found.record \in 1 .. Len(img.dir[found.dir])

TreeTypes ==
  /\ pc \in {"idle", "writesize", "writedata", "place", "bootsize", "enter", "entersize", "data"}
  /\ op \in {"none", "find", "write", "add"}
  /\ path \in Known /\ size \in Sizes \cup {0} /\ ret \in {0, -1} /\ pos \in Nat
  /\ Sound(iso) /\ Sound(before) /\ Grown(before, iso) /\ DOMAIN iso.data = DOMAIN before.data
  /\ pc \notin {"idle", "data"} => Alike(before, iso)
  /\ Within(before, stat)

FindCall == iso = before /\ stat = T!iso_get_file_info(before, path)

WriteCall ==
  /\ stat = T!iso_get_file_info(before, path) /\ Plain(before, stat)
  /\ pc # "idle" \/ ret = 0 => stat # T!NotFound

AddCall ==
  /\ boot = T!iso_get_file_info(before, BootPath) /\ Plain(before, boot)
  /\ Plain(before, T!iso_get_file_info(before, path))
  /\ LET parent == T!iso_get_file_info(before, T!Parents(path))
     IN T!Parents(path) # <<>> /\ parent # T!NotFound =>
          before.dir[parent.dir][parent.record].isdir
  /\ 0 .. before.volume + T!file_sector - 1 \subseteq DOMAIN before.data
  /\ pc = "place" => iso = before
  /\ pc # "place" => pos = IF T!use_boot_bin_flag THEN boot.pos ELSE before.volume
  /\ pc = "entersize" =>
       LET file == T!iso_get_file_info(before, path)
       IN file # T!NotFound /\ stat.dir = file.dir /\ stat.record = file.record

CallsInv ==
  /\ pc \in {"writesize", "writedata"} => op = "write"
  /\ pc \in {"place", "bootsize", "enter", "entersize", "data"} => op = "add"
  /\ op = "find" => FindCall
  /\ op = "write" => WriteCall
  /\ op = "add" /\ (pc # "idle" \/ ret = 0) => AddCall

TreeInv == TreeTypes /\ CallsInv /\ T!OthersKept

-----------------------------------------------------------------------------
LEMMA KnownPath ==
  ASSUME NEW p \in Known
  PROVE  /\ p \in Path /\ p # <<>>
         /\ \A img : Sound(img) => Rootless(img.table, p)
<1>1. p \in Path /\ p # <<>>
  BY TreeAssumption DEF T!PathAssumption, Known, Path, Name, T!Name
<1>2. ASSUME NEW img, Sound(img) PROVE Rootless(img.table, p)
  BY <1>2, Zenon DEF Sound, T!TableTrue, Rootless, Known
<1> QED
  BY <1>1, <1>2

LEMMA SizeTypes ==
  ASSUME NEW n \in Nat
  PROVE  SectorSize \in Nat \ {0} /\ T!Sectors(n) \in Nat
<1>1. SectorSize \in Nat \ {0}
  BY TreeAssumption DEF T!SizeAssumption
<1>2. n + SectorSize - 1 \in Nat
  BY <1>1
<1>3. T!Sectors(n) = (n + SectorSize - 1) \div SectorSize
  BY DEF T!Sectors
<1> QED
  BY <1>1, <1>2, <1>3

LEMMA FileSectors == ASSUME TreeTypes PROVE size \in Nat /\ T!file_sector \in Nat
<1>1. size \in Nat
  BY TreeAssumption DEF TreeTypes, T!SizeAssumption
<1> QED
  BY <1>1, SizeTypes DEF T!file_sector

(* What a call finds.                                                      *)
LEMMA FoundAt ==
  ASSUME NEW img, Sound(img), NEW p \in Path, p # <<>>, Rootless(img.table, p),
         NEW st, st = T!iso_get_file_info(img, p), st # T!NotFound
  PROVE  /\ st.dir \in 1 .. Len(img.table) /\ st.record \in 1 .. Len(img.dir[st.dir])
         /\ st = Stat(img, st.dir, st.record) /\ Hit(img, p, st.dir, st.record)
         /\ st.pos \in Nat /\ st.size \in Int
<1>1. PICK n \in 1 .. Len(img.table) : \E k \in 1 .. Len(img.dir[n]) :
        st = Stat(img, n, k) /\ Hit(img, p, n, k)
  BY LookupIs
<1>2. PICK k \in 1 .. Len(img.dir[n]) : st = Stat(img, n, k) /\ Hit(img, p, n, k)
  BY <1>1
<1>3. st.dir = n /\ st.record = k /\ st.pos = img.dir[n][k].pos /\ st.size = img.dir[n][k].size
  BY <1>2 DEF Stat
<1>4. img.dir[n][k] \in [name : Name, pos : Nat, size : Int, isdir : BOOLEAN]
  BY Shape DEF Sound
<1> QED
  BY <1>2, <1>3, <1>4

LEMMA Found ==
  ASSUME NEW img, Sound(img), NEW p \in Known, NEW st, st = T!iso_get_file_info(img, p),
         st # T!NotFound
  PROVE  /\ st.dir \in 1 .. Len(img.table) /\ st.record \in 1 .. Len(img.dir[st.dir])
         /\ st = Stat(img, st.dir, st.record) /\ Hit(img, p, st.dir, st.record)
         /\ st.pos \in Nat /\ st.size \in Int
BY KnownPath, FoundAt

(* ... is where the path says, if names are unlike.                        *)
LEMMA FoundThere ==
  ASSUME NEW img, Sound(img), NEW p \in Known, T!Unlike(img, p)
  PROVE  LET st == T!iso_get_file_info(img, p)
         IN T!Exact(img, p) = IF st = T!NotFound THEN {} ELSE {<<st.dir, st.record>>}
<1> DEFINE st == T!iso_get_file_info(img, p)
<1>1. p \in Path /\ p # <<>> /\ Rootless(img.table, p)
  BY KnownPath
<1>2. CASE st = T!NotFound
  BY <1>1, <1>2, FoundIsExact
<1>3. CASE st # T!NotFound
  <2>1. st.dir \in 1 .. Len(img.table) /\ Hit(img, p, st.dir, st.record)
    BY <1>3, Found
  <2> QED
    BY <1>1, <1>3, <2>1, FoundIsExact
<1> QED
  BY <1>2, <1>3

LEMMA FilesFound == ASSUME TreeTypes, op = "find" => FindCall PROVE T!FindsExact
<1> SUFFICES ASSUME op = "find", T!Unlike(iso, path)
             PROVE  IF stat = T!NotFound THEN T!Exact(iso, path) = {}
                    ELSE T!Exact(iso, path) = {<<stat.dir, stat.record>>}
  BY DEF T!FindsExact
<1>1. Sound(iso) /\ path \in Known /\ stat = T!iso_get_file_info(iso, path)
  BY DEF TreeTypes, FindCall
<1> QED
  BY <1>1, FoundThere

-----------------------------------------------------------------------------
(* The files there were are still there, in their places.                  *)
LEMMA StillThere ==
  ASSUME NEW r \in T!Records(before), Sound(before), Grown(before, iso)
  PROVE  /\ r = <<r[1], r[2]>> /\ r[1] \in 1 .. Len(before.table) /\ r[2] \in 1 .. Len(before.dir[r[1]])
         /\ r[1] \in 1 .. Len(iso.table)
<1>1. r = <<r[1], r[2]>> /\ r[1] \in 1 .. Len(before.dir) /\ r[2] \in DOMAIN before.dir[r[1]]
  BY Listed
<1>2. Len(before.dir) = Len(before.table)
  BY DEF Sound, T!IsImage
<1>3. before.table = iso.table
  BY DEF Grown
<1>4. DOMAIN before.dir[r[1]] = 1 .. Len(before.dir[r[1]])
  BY <1>1, <1>2, Shape DEF Sound
<1> QED
  BY <1>1, <1>2, <1>3, <1>4

LEMMA OthersStay ==
  ASSUME T!OthersKept, UNCHANGED before, T!Given' => T!Given, T!Mine' = T!Mine,
         T!Given => \A r \in T!FilesOf(before) \ T!Mine :
           /\ T!Rec(iso', r) = T!Rec(iso, r)
           /\ \A s \in T!Extent(before, r) : iso'.data[s] = iso.data[s]
  PROVE  T!OthersKept'
<1> SUFFICES ASSUME T!Given', NEW r \in T!FilesOf(before)' \ T!Mine'
             PROVE  T!Same(r)'
  BY Zenon DEF T!OthersKept
<1>1. T!Given /\ r \in T!FilesOf(before) \ T!Mine
  BY DEF T!FilesOf, T!Records, T!Rec
<1>2. T!Same(r)
  BY <1>1, Zenon DEF T!OthersKept
<1>3. /\ T!Rec(iso', r) = T!Rec(iso, r)
      /\ \A s \in T!Extent(before, r) : iso'.data[s] = iso.data[s]
  BY <1>1
<1>4. T!Rec(iso, r) = T!Rec(before, r) /\ T!Read(iso, r) = T!Read(before, r)
  BY <1>2 DEF T!Same
<1>5. T!Extent(iso, r) = T!Extent(before, r) /\ T!Extent(iso', r) = T!Extent(before, r)
  BY <1>3, <1>4 DEF T!Extent
<1>6. T!Read(iso', r) = T!Read(iso, r)
  BY <1>3, <1>5 DEF T!Read
<1> QED
  BY <1>3, <1>4, <1>6 DEF T!Same

LEMMA GivenStays ==
  ASSUME UNCHANGED <<op, path, size, boot, before>>, op = "write" => stat' = stat
  PROVE  (T!Given' <=> T!Given) /\ T!Mine' = T!Mine
<1>1. T!Mine' = T!Mine
  BY DEF T!Mine
<1>2. T!Room' <=> T!Room
  <2>1. CASE op = "write"
    BY <2>1 DEF T!Room, T!file_sector
  <2>2. CASE op = "add"
    BY <2>2 DEF T!Room, T!file_sector, T!use_boot_bin_flag
  <2>3. CASE op # "write" /\ op # "add"
    BY <2>3 DEF T!Room
  <2> QED
    BY <2>1, <2>2, <2>3
<1>3. /\ T!Apart(before)' <=> T!Apart(before)
      /\ T!Unlike(before, path)' <=> T!Unlike(before, path)
      /\ T!Unlike(before, BootPath)' <=> T!Unlike(before, BootPath)
  BY DEF T!Apart, T!FilesOf, T!Records, T!Rec, T!Extent, T!Unlike, T!Names
<1> QED
  BY <1>1, <1>2, <1>3 DEF T!Given

LEMMA AlikeSelf ==
  ASSUME NEW a, Sound(a)
  PROVE  Alike(a, a) /\ Grown(a, a)
<1>1. \A d \in 1 .. Len(a.table) : Len(a.dir[d]) \in Nat
  BY Shape DEF Sound
<1> QED
  BY <1>1 DEF Alike, Grown

LEMMA AlikeGrown ==
  ASSUME NEW a, NEW b, NEW c, Sound(a), Sound(b), Sound(c), Grown(a, b)
  PROVE  /\ Alike(a, b) /\ Alike(b, c) => Alike(a, c)
         /\ Alike(b, c) => Grown(a, c)
         /\ Grown(b, c) => Grown(a, c)
<1>1. /\ a.table = b.table
      /\ \A d \in 1 .. Len(a.table) : /\ Len(a.dir[d]) \in Nat /\ Len(b.dir[d]) \in Nat
                                      /\ Len(a.dir[d]) <= Len(b.dir[d])
      /\ \A d \in 1 .. Len(c.table) : Len(c.dir[d]) \in Nat
  BY Shape DEF Sound, Grown
<1>2. ASSUME Alike(a, b), Alike(b, c) PROVE Alike(a, c)
  BY <1>1, <1>2 DEF Alike
<1>3. ASSUME Alike(b, c) \/ Grown(b, c) PROVE Grown(a, c)
  <2>1. /\ b.table = c.table
        /\ \A d \in 1 .. Len(b.table) :
             /\ Len(b.dir[d]) <= Len(c.dir[d])
             /\ \A k \in 1 .. Len(b.dir[d]) : /\ b.dir[d][k].name = c.dir[d][k].name
                                              /\ b.dir[d][k].isdir = c.dir[d][k].isdir
    <3>1. CASE Alike(b, c)
      BY <1>1, <3>1 DEF Alike
    <3>2. CASE Grown(b, c)
      BY <3>2 DEF Grown
    <3> QED
      BY <1>3, <3>1, <3>2
  <2>2. \A d \in 1 .. Len(a.table) :
          /\ Len(a.dir[d]) <= Len(c.dir[d])
          /\ \A k \in 1 .. Len(a.dir[d]) : k \in 1 .. Len(b.dir[d])
    <3> TAKE d \in 1 .. Len(a.table)
    <3>1. /\ Len(a.dir[d]) \in Nat /\ Len(b.dir[d]) \in Nat /\ Len(c.dir[d]) \in Nat
          /\ Len(a.dir[d]) <= Len(b.dir[d]) /\ Len(b.dir[d]) <= Len(c.dir[d])
      BY <1>1, <2>1
    <3> QED
      BY <3>1
  <2>3. \A d \in 1 .. Len(a.table) : \A k \in 1 .. Len(a.dir[d]) :
          /\ a.dir[d][k].name = b.dir[d][k].name /\ a.dir[d][k].isdir = b.dir[d][k].isdir
    BY DEF Grown
  <2> QED
    BY <1>1, <2>1, <2>2, <2>3 DEF Grown
<1> QED
  BY <1>2, <1>3

(* The first step of a call, which changes nothing.                        *)
LEMMA CallBegins ==
  ASSUME TreeTypes, NEW call \in {"find", "write", "add"}, T!Begin(call), iso' = iso
  PROVE  /\ Sound(iso') /\ Sound(before') /\ Grown(before', iso') /\ Alike(before', iso')
         /\ DOMAIN iso'.data = DOMAIN before'.data
         /\ path' \in Known /\ op' = call /\ before' = iso' /\ pc = "idle"
         /\ Within(iso, stat) /\ T!OthersKept'
<1>1. /\ before' = iso' /\ path' \in Known /\ op' = call /\ pc = "idle" /\ Sound(iso) /\ Sound(before)
      /\ Grown(before, iso)
  BY DEF T!Begin, TreeTypes, Known
<1>2. Alike(iso, iso) /\ Grown(iso, iso)
  BY <1>1, AlikeSelf
<1>3. T!OthersKept'
  <2>1. \A r : T!Same(r)'
    BY <1>1 DEF T!Same, T!Rec, T!Read, T!Extent
  <2> QED
    BY <2>1, Zenon DEF T!OthersKept
<1>4. Within(iso, stat)
  <2>1. /\ before.table = iso.table
        /\ \A d \in 1 .. Len(before.table) : /\ Len(before.dir[d]) \in Nat /\ Len(iso.dir[d]) \in Nat
                                             /\ Len(before.dir[d]) <= Len(iso.dir[d])
    BY <1>1, Shape DEF Grown, Sound
  <2>2. Within(before, stat)
    BY DEF TreeTypes
  <2>3. ASSUME stat # T!NotFound
        PROVE  stat.dir \in 1 .. Len(iso.table) /\ stat.record \in 1 .. Len(iso.dir[stat.dir])
    <3>1. stat.dir \in 1 .. Len(before.table) /\ stat.record \in 1 .. Len(before.dir[stat.dir])
      BY <2>2, <2>3 DEF Within
    <3> DEFINE d == stat.dir
               x == Len(before.dir[d])
               y == Len(iso.dir[d])
    <3>2. d \in 1 .. Len(iso.table) /\ x \in Nat /\ y \in Nat /\ x <= y
      BY <2>1, <3>1
    <3>3. stat.record \in 1 .. x
      BY <3>1
    <3> HIDE DEF x, y
    <3>4. stat.record \in 1 .. y
      BY <3>2, <3>3
    <3> QED
      BY <3>2, <3>4 DEF y
  <2> QED
    BY <2>3 DEF Within
<1> QED
  BY <1>1, <1>2, <1>3, <1>4

LEMMA FindKeeps == ASSUME TreeInv, T!Find PROVE TreeInv'
<1>1. /\ T!Begin("find") /\ stat' = T!iso_get_file_info(iso, path') /\ iso' = iso /\ pc' = pc
      /\ size' = size /\ pos' = pos /\ ret' \in {0, -1}
  BY DEF T!Find
<1>2. /\ Sound(iso') /\ Sound(before') /\ Grown(before', iso') /\ Alike(before', iso')
      /\ DOMAIN iso'.data = DOMAIN before'.data
      /\ path' \in Known /\ op' = "find" /\ before' = iso' /\ pc = "idle" /\ T!OthersKept'
  BY <1>1, CallBegins DEF TreeInv
<1>3. stat' = T!iso_get_file_info(before', path')
  BY <1>1, <1>2
<1>4. Within(before', stat')
  BY <1>2, <1>3, Found DEF Within
<1>5. TreeTypes'
  BY <1>1, <1>2, <1>4 DEF TreeInv, TreeTypes
<1>6. CallsInv'
  BY <1>1, <1>2, <1>3 DEF CallsInv, FindCall
<1> QED
  BY <1>2, <1>5, <1>6 DEF TreeInv

LEMMA WriteKeeps == ASSUME TreeInv, T!Write PROVE TreeInv'
<1>1. /\ T!Begin("write") /\ stat' = T!iso_get_file_info(iso, path') /\ iso' = iso
      /\ size' \in Sizes /\ pos' = pos /\ T!NoDirectory(stat')
      /\ IF stat' = T!NotFound THEN ret' = -1 /\ pc' = pc ELSE pc' = "writesize" /\ ret' = ret
  BY DEF T!Write
<1>2. /\ Sound(iso') /\ Sound(before') /\ Grown(before', iso') /\ Alike(before', iso')
      /\ DOMAIN iso'.data = DOMAIN before'.data
      /\ path' \in Known /\ op' = "write" /\ before' = iso' /\ pc = "idle" /\ T!OthersKept'
  BY <1>1, CallBegins DEF TreeInv
<1>3. stat' = T!iso_get_file_info(before', path')
  BY <1>1, <1>2
<1>4. Within(before', stat')
  BY <1>2, <1>3, Found DEF Within
<1>5. Plain(before', stat')
  BY <1>1, <1>2 DEF Plain, T!NoDirectory, T!IsDirectory
<1>6. (pc' = "idle" \/ pc' = "writesize") /\ (pc' # "idle" \/ ret' = 0 => stat' # T!NotFound) /\ ret' \in {0, -1}
  BY <1>1, <1>2 DEF TreeInv, TreeTypes
<1>7. TreeTypes'
  BY <1>1, <1>2, <1>4, <1>6 DEF TreeInv, TreeTypes
<1>8. CallsInv'
  BY <1>2, <1>3, <1>5, <1>6 DEF CallsInv, WriteCall
<1> QED
  BY <1>2, <1>7, <1>8 DEF TreeInv

LEMMA AddKeeps == ASSUME TreeInv, T!Add PROVE TreeInv'
<1>1. /\ T!Begin("add") /\ T!NoDirectory(T!iso_get_file_info(iso, path')) /\ iso' = iso
      /\ LET parent == T!iso_get_file_info(iso, T!Parents(path'))
         IN T!Parents(path') # <<>> /\ parent # T!NotFound => T!IsDirectory(parent)
      /\ size' \in Sizes /\ pos' = pos /\ stat' = stat /\ ret' = ret /\ pc' = "place"
      /\ boot' = T!iso_get_file_info(iso, BootPath) /\ T!NoDirectory(boot')
      /\ 0 .. iso.volume + T!Sectors(size') - 1 \subseteq DOMAIN iso.data
  BY DEF T!Add
<1>2. /\ Sound(iso') /\ Sound(before') /\ Grown(before', iso') /\ Alike(before', iso')
      /\ DOMAIN iso'.data = DOMAIN before'.data
      /\ path' \in Known /\ op' = "add" /\ before' = iso' /\ pc = "idle" /\ T!OthersKept'
      /\ Within(iso, stat)
  BY <1>1, CallBegins DEF TreeInv
<1>3. TreeTypes'
  BY <1>1, <1>2 DEF TreeInv, TreeTypes, Within
<1>4. AddCall'
  <2>1. /\ boot' = T!iso_get_file_info(before', BootPath)
        /\ 0 .. before'.volume + T!file_sector' - 1 \subseteq DOMAIN before'.data
    BY <1>1, <1>2 DEF T!file_sector
  <2>2. Plain(before', boot') /\ Plain(before', T!iso_get_file_info(before', path'))
    BY <1>1, <1>2 DEF Plain, T!NoDirectory, T!IsDirectory
  <2>3. LET parent == T!iso_get_file_info(before', T!Parents(path'))
        IN T!Parents(path') # <<>> /\ parent # T!NotFound =>
             before'.dir[parent.dir][parent.record].isdir
    BY <1>1, <1>2 DEF T!IsDirectory
  <2> QED
    BY <1>1, <1>2, <2>1, <2>2, <2>3 DEF AddCall
<1>5. CallsInv'
  BY <1>1, <1>2, <1>4 DEF CallsInv
<1> QED
  BY <1>2, <1>3, <1>5 DEF TreeInv

-----------------------------------------------------------------------------
(***************************************************************************)
(* The steps within a call.                                                *)
(***************************************************************************)
(* A record of the call's file, or of BOOT.BIN, is changed.                *)
LEMMA RecordStep ==
  ASSUME TreeInv, pc \notin {"idle", "data"}, NEW p \in Known, p = path \/ (p = BootPath /\ op = "add"),
         NEW st, st = T!iso_get_file_info(before, p), st # T!NotFound, Plain(before, st),
         NEW at, at.dir = st.dir, at.record = st.record,
         NEW field \in {"pos", "size"}, NEW v \in Int, field = "pos" => v \in Nat,
         T!SetRecord(at, field, v), UNCHANGED <<op, path, size, boot, before>>,
         op = "write" => stat' = stat
  PROVE  /\ Sound(iso') /\ Alike(before, iso') /\ Grown(before, iso')
         /\ DOMAIN iso'.data = DOMAIN before.data /\ iso'.volume = iso.volume
         /\ T!OthersKept'
<1> DEFINE n == st.dir
           k == st.record
<1>1. /\ Sound(iso) /\ Sound(before) /\ Alike(before, iso) /\ Grown(before, iso)
      /\ DOMAIN iso.data = DOMAIN before.data /\ T!OthersKept
  BY DEF TreeInv, TreeTypes
<1>2. /\ n \in 1 .. Len(before.table) /\ k \in 1 .. Len(before.dir[n]) /\ ~before.dir[n][k].isdir
  BY <1>1, Found DEF Plain
<1>3. n \in 1 .. Len(iso.table) /\ k \in 1 .. Len(iso.dir[n]) /\ ~iso.dir[n][k].isdir
  BY <1>1, <1>2 DEF Alike
<1>4. /\ Sound(iso') /\ Alike(iso, iso') /\ iso'.data = iso.data /\ iso'.volume = iso.volume
      /\ \A d \in 1 .. Len(iso.table) : \A l \in 1 .. Len(iso.dir[d]) :
           <<d, l>> # <<n, k>> => iso'.dir[d][l] = iso.dir[d][l]
  <2>1. at.dir = n /\ at.record = k /\ Sound(iso)
    BY <1>1
  <2> HIDE DEF n, k
  <2> QED
    BY <1>3, <2>1, SetRecordKeeps
<1>5. Alike(before, iso') /\ Grown(before, iso')
  BY <1>1, <1>4, AlikeGrown
<1>6. (T!Given' <=> T!Given) /\ T!Mine' = T!Mine
  BY GivenStays
<1>7. ASSUME T!Given, NEW r \in T!FilesOf(before) \ T!Mine
      PROVE  /\ T!Rec(iso', r) = T!Rec(iso, r)
             /\ \A s \in T!Extent(before, r) : iso'.data[s] = iso.data[s]
  <2>1. <<n, k>> \in T!Mine
    <3>1. T!Unlike(before, p)
      BY <1>7 DEF T!Given
    <3>2. <<n, k>> \in T!Exact(before, p)
      BY <1>1, <3>1, FoundThere
    <3> QED
      BY <3>2 DEF T!Mine
  <2>2. r \in T!Records(before)
    BY <1>7 DEF T!FilesOf
  <2>3. /\ r = <<r[1], r[2]>> /\ r[1] \in 1 .. Len(iso.table) /\ r[2] \in 1 .. Len(iso.dir[r[1]])
    BY <1>1, <2>2, StillThere DEF Alike
  <2>4. <<r[1], r[2]>> # <<n, k>>
    BY <1>7, <2>1, <2>3
  <2>5. iso'.dir[r[1]][r[2]] = iso.dir[r[1]][r[2]]
    BY <1>4, <2>3, <2>4
  <2> QED
    BY <1>4, <2>5 DEF T!Rec
<1>8. T!OthersKept'
  BY <1>1, <1>6, <1>7, OthersStay
<1> QED
  BY <1>1, <1>4, <1>5, <1>8

(* Data are written to sectors of no other file.                           *)
LEMMA DataStep ==
  ASSUME TreeInv, NEW p \in Nat, NEW n \in Nat, T!PutData(p, n),
         UNCHANGED <<op, path, size, boot, before, stat>>,
         T!Given => \A r \in T!FilesOf(before) \ T!Mine : \A s \in T!Extent(before, r) : s \notin p .. p + n - 1
  PROVE  /\ Sound(iso') /\ Alike(iso, iso') /\ Grown(before, iso')
         /\ DOMAIN iso'.data = DOMAIN before.data /\ iso'.volume = iso.volume
         /\ T!OthersKept'
<1>1. /\ Sound(iso) /\ Sound(before) /\ Grown(before, iso)
      /\ DOMAIN iso.data = DOMAIN before.data /\ T!OthersKept
  BY DEF TreeInv, TreeTypes
<1>2. /\ Sound(iso') /\ Alike(iso, iso') /\ iso'.dir = iso.dir /\ iso'.volume = iso.volume
      /\ DOMAIN iso'.data = DOMAIN iso.data
      /\ \A s \in DOMAIN iso.data :
           iso'.data[s] = IF s \in p .. p + n - 1 THEN T!NewData(s - p) ELSE iso.data[s]
  BY <1>1, PutDataKeeps
<1>3. Grown(before, iso')
  BY <1>1, <1>2, AlikeGrown
<1>4. (T!Given' <=> T!Given) /\ T!Mine' = T!Mine
  BY GivenStays
<1>5. ASSUME T!Given, NEW r \in T!FilesOf(before) \ T!Mine
      PROVE  /\ T!Rec(iso', r) = T!Rec(iso, r)
             /\ \A s \in T!Extent(before, r) : iso'.data[s] = iso.data[s]
  <2>1. T!Extent(before, r) \subseteq 0 .. before.volume - 1
    BY <1>5 DEF T!Given, T!Apart
  <2>2. 0 .. before.volume - 1 \subseteq DOMAIN before.data
    BY <1>1 DEF Sound, T!IsImage
  <2>3. \A s \in T!Extent(before, r) : s \in DOMAIN iso.data /\ s \notin p .. p + n - 1
    BY <1>1, <1>5, <2>1, <2>2
  <2> QED
    BY <1>2, <2>3 DEF T!Rec
<1>6. T!OthersKept'
  BY <1>1, <1>4, <1>5, OthersStay
<1> QED
  BY <1>1, <1>2, <1>3, <1>6

LEMMA WriteSizeKeeps == ASSUME TreeInv, T!WriteSize PROVE TreeInv'
<1>1. /\ pc = "writesize" /\ T!SetRecord(stat, "size", size) /\ pc' = "writedata"
      /\ UNCHANGED <<op, path, size, stat, boot, pos, ret, ops, before>>
  BY DEF T!WriteSize
<1>2. op = "write" /\ WriteCall /\ stat # T!NotFound /\ path \in Known /\ size \in Int
  BY <1>1, FileSectors DEF TreeInv, CallsInv, WriteCall, TreeTypes
<1>3. /\ Sound(iso') /\ Alike(before, iso') /\ Grown(before, iso')
      /\ DOMAIN iso'.data = DOMAIN before.data /\ T!OthersKept'
  BY <1>1, <1>2, RecordStep DEF WriteCall
<1>4. TreeTypes'
  BY <1>1, <1>3 DEF TreeInv, TreeTypes, Within
<1>5. CallsInv'
  BY <1>1, <1>2 DEF CallsInv, WriteCall, Plain
<1> QED
  BY <1>3, <1>4, <1>5 DEF TreeInv

(* Where a file is written, no other one is.                               *)
LEMMA WriteFree ==
  ASSUME TreeTypes, WriteCall, op = "write", stat # T!NotFound, T!Given
  PROVE  LET P == stat.pos .. stat.pos + T!file_sector - 1 IN
         /\ P \subseteq 0 .. before.volume - 1
         /\ \A r \in T!FilesOf(before) \ T!Mine : \A s \in T!Extent(before, r) : s \notin P
<1> DEFINE n == T!file_sector
           m == T!Sectors(stat.size)
           q == <<stat.dir, stat.record>>
<1>1. Sound(before) /\ path \in Known /\ n \in Nat /\ before.volume \in Nat
  BY FileSectors DEF TreeTypes, Sound, T!IsImage
<1>2. /\ stat.dir \in 1 .. Len(before.table) /\ stat.record \in 1 .. Len(before.dir[stat.dir])
      /\ stat = Stat(before, stat.dir, stat.record) /\ stat.pos \in Nat /\ stat.size \in Int
      /\ ~before.dir[stat.dir][stat.record].isdir
  BY <1>1, Found DEF WriteCall, Plain
<1>3. q \in T!FilesOf(before) /\ T!Rec(before, q) = before.dir[stat.dir][stat.record]
  BY <1>1, <1>2, Shape DEF Sound, T!FilesOf, T!Rec
<1>4. q \in T!Mine
  <2>1. T!Unlike(before, path)
    BY DEF T!Given
  <2> QED
    BY <1>1, <2>1, FoundThere DEF WriteCall, T!Mine
<1>5. T!Extent(before, q) = stat.pos .. stat.pos + m - 1
  <2>1. stat.pos = before.dir[stat.dir][stat.record].pos /\ stat.size = before.dir[stat.dir][stat.record].size
    BY <1>2 DEF Stat
  <2> QED
    BY <1>3, <2>1 DEF T!Extent, T!SectorsFrom
<1>6. n <= m /\ m \in Int
  <2>1. n <= m
    BY DEF T!Given, T!Room
  <2> QED
    BY <1>2, <2>1, TreeAssumption DEF T!Sectors, T!SizeAssumption
<1>7. /\ T!Extent(before, q) \subseteq 0 .. before.volume - 1
      /\ \A r \in T!FilesOf(before) \ T!Mine : T!Extent(before, r) \cap T!Extent(before, q) = {}
  BY <1>3, <1>4 DEF T!Given, T!Apart
<1> HIDE DEF n, m, q
<1>8. stat.pos .. stat.pos + n - 1 \subseteq stat.pos .. stat.pos + m - 1
  BY <1>1, <1>2, <1>6
<1>9. stat.pos .. stat.pos + n - 1 \subseteq T!Extent(before, q)
  BY <1>5, <1>8
<1> QED
  BY <1>7, <1>9 DEF n

LEMMA WriteDataKeeps == ASSUME TreeInv, T!WriteData PROVE TreeInv'
<1>1. /\ pc = "writedata" /\ T!PutData(stat.pos, T!Sectors(size)) /\ pc' = "idle" /\ ret' = 0
      /\ UNCHANGED <<op, path, size, stat, boot, pos, ops, before>>
  BY DEF T!WriteData, T!Return
<1>2. /\ op = "write" /\ WriteCall /\ stat # T!NotFound /\ path \in Known /\ Sound(before)
      /\ T!Sectors(size) \in Nat /\ T!Sectors(size) = T!file_sector /\ TreeTypes
  BY <1>1, FileSectors DEF TreeInv, CallsInv, WriteCall, TreeTypes, T!file_sector
<1>3. stat.pos \in Nat
  BY <1>2, Found DEF WriteCall
<1>4. T!Given => \A r \in T!FilesOf(before) \ T!Mine : \A s \in T!Extent(before, r) :
                   s \notin stat.pos .. stat.pos + T!Sectors(size) - 1
  BY <1>2, WriteFree
<1>5. /\ Sound(iso') /\ Grown(before, iso')
      /\ DOMAIN iso'.data = DOMAIN before.data /\ T!OthersKept'
  BY <1>1, <1>2, <1>3, <1>4, DataStep
<1>6. TreeTypes'
  BY <1>1, <1>5 DEF TreeInv, TreeTypes, Within
<1>7. CallsInv'
  BY <1>1, <1>2 DEF CallsInv, WriteCall, Plain
<1> QED
  BY <1>5, <1>6, <1>7 DEF TreeInv

-----------------------------------------------------------------------------
LEMMA NothingWritten ==
  ASSUME T!OthersKept, iso'.dir = iso.dir, iso'.data = iso.data,
         UNCHANGED <<op, path, size, boot, before>>, op = "write" => stat' = stat
  PROVE  T!OthersKept'
<1>1. (T!Given' <=> T!Given) /\ T!Mine' = T!Mine
  BY GivenStays
<1>2. \A r : /\ T!Rec(iso', r) = T!Rec(iso, r)
             /\ \A s \in T!Extent(before, r) : iso'.data[s] = iso.data[s]
  BY DEF T!Rec
<1> QED
  BY <1>1, <1>2, OthersStay

LEMMA TakeBootKeeps == ASSUME TreeInv, T!TakeBoot PROVE TreeInv'
<1>1. /\ pc = "place" /\ T!use_boot_bin_flag /\ pos' = boot.pos /\ pc' = "bootsize"
      /\ IF boot = T!NotFound THEN iso' = iso ELSE T!SetRecord(boot, "pos", T!MoveBoot)
      /\ UNCHANGED <<op, path, size, stat, boot, ret, ops, before>>
  BY DEF T!TakeBoot
<1>2. /\ op = "add" /\ AddCall /\ Sound(before) /\ BootPath \in Known
      /\ Sound(iso) /\ Alike(before, iso) /\ Grown(before, iso)
      /\ DOMAIN iso.data = DOMAIN before.data /\ T!OthersKept
  BY <1>1 DEF TreeInv, CallsInv, TreeTypes, Known
<1>3. boot.pos \in Nat /\ T!MoveBoot \in Nat
  <2>1. boot.pos \in Nat
    <3>1. CASE boot = T!NotFound
      BY <3>1 DEF T!NotFound
    <3>2. CASE boot # T!NotFound
      BY <1>2, <3>2, Found DEF AddCall
    <3> QED
      BY <3>1, <3>2
  <2>2. T!file_sector \in Nat
    BY FileSectors DEF TreeInv
  <2> QED
    BY <2>1, <2>2 DEF T!MoveBoot
<1>4. /\ Sound(iso') /\ Alike(before, iso') /\ Grown(before, iso')
      /\ DOMAIN iso'.data = DOMAIN before.data /\ T!OthersKept'
  <2>1. CASE boot = T!NotFound
    BY <1>1, <1>2, <2>1, NothingWritten
  <2>2. CASE boot # T!NotFound
    <3>1. T!SetRecord(boot, "pos", T!MoveBoot) /\ T!MoveBoot \in Int
      BY <1>1, <1>3, <2>2
    <3>2. boot = T!iso_get_file_info(before, BootPath) /\ Plain(before, boot)
      BY <1>2 DEF AddCall
    <3> QED
      BY <1>1, <1>2, <1>3, <2>2, <3>1, <3>2, RecordStep
  <2> QED
    BY <2>1, <2>2
<1>5. TreeTypes'
  BY <1>1, <1>3, <1>4 DEF TreeInv, TreeTypes, Within
<1>6. AddCall'
  BY <1>1, <1>2 DEF AddCall, Plain, T!file_sector, T!use_boot_bin_flag
<1>7. CallsInv'
  BY <1>1, <1>2, <1>6 DEF CallsInv
<1> QED
  BY <1>4, <1>5, <1>7 DEF TreeInv

LEMMA ShrinkBootKeeps == ASSUME TreeInv, T!ShrinkBoot PROVE TreeInv'
<1> DEFINE less == boot.size - T!file_sector * SectorSize
<1>1. /\ pc = "bootsize" /\ pc' = "enter"
      /\ IF boot = T!NotFound THEN iso' = iso ELSE T!SetRecord(boot, "size", less)
      /\ UNCHANGED <<op, path, size, stat, boot, pos, ret, ops, before>>
  BY DEF T!ShrinkBoot
<1>2. /\ op = "add" /\ AddCall /\ Sound(before) /\ BootPath \in Known
      /\ Sound(iso) /\ Alike(before, iso) /\ Grown(before, iso)
      /\ DOMAIN iso.data = DOMAIN before.data /\ T!OthersKept
  BY <1>1 DEF TreeInv, CallsInv, TreeTypes, Known
<1>3. /\ Sound(iso') /\ Alike(before, iso') /\ Grown(before, iso')
      /\ DOMAIN iso'.data = DOMAIN before.data /\ T!OthersKept'
  <2>1. CASE boot = T!NotFound
    BY <1>1, <1>2, <2>1, NothingWritten
  <2>2. CASE boot # T!NotFound
    <3>1. less \in Int
      <4>1. boot.size \in Int
        BY <1>2, <2>2, Found DEF AddCall
      <4>2. T!file_sector \in Nat /\ SectorSize \in Nat
        BY FileSectors, TreeAssumption DEF TreeInv, T!SizeAssumption
      <4>3. T!file_sector * SectorSize \in Int
        BY <4>2
      <4> QED
        BY <4>1, <4>3
    <3>2. boot = T!iso_get_file_info(before, BootPath) /\ Plain(before, boot)
      BY <1>2 DEF AddCall
    <3> HIDE DEF less
    <3> QED
      BY <1>1, <1>2, <2>2, <3>1, <3>2, RecordStep
  <2> QED
    BY <2>1, <2>2
<1>4. TreeTypes'
  BY <1>1, <1>3 DEF TreeInv, TreeTypes, Within
<1>5. AddCall'
  BY <1>1, <1>2 DEF AddCall, Plain, T!file_sector, T!use_boot_bin_flag
<1>6. CallsInv'
  BY <1>1, <1>2, <1>5 DEF CallsInv
<1> QED
  BY <1>3, <1>4, <1>6 DEF TreeInv

LEMMA AtTheEndKeeps == ASSUME TreeInv, T!AtTheEnd PROVE TreeInv'
<1>1. /\ pc = "place" /\ ~T!use_boot_bin_flag /\ pos' = iso.volume /\ pc' = "enter"
      /\ iso' = [iso EXCEPT !.volume = iso.volume + T!file_sector]
      /\ UNCHANGED <<op, path, size, stat, boot, ret, ops, before>>
  BY DEF T!AtTheEnd, T!End
<1>2. /\ op = "add" /\ AddCall /\ Sound(before) /\ iso = before
      /\ DOMAIN iso.data = DOMAIN before.data /\ T!OthersKept
  BY <1>1 DEF TreeInv, CallsInv, TreeTypes, AddCall
<1>3. T!file_sector \in Nat /\ iso.volume \in Nat /\ DOMAIN iso = {"table", "dir", "data", "volume"}
  BY <1>2, FileSectors DEF TreeInv, Sound, T!IsImage
<1>4. /\ DOMAIN iso' = DOMAIN iso /\ iso'.table = iso.table /\ iso'.dir = iso.dir
      /\ iso'.data = iso.data /\ iso'.volume = iso.volume + T!file_sector
  BY <1>1, <1>3
<1>5. Sound(iso') /\ Alike(iso, iso')
  <2>1. iso'.volume \in Nat /\ 0 .. iso'.volume - 1 \subseteq DOMAIN iso'.data
    BY <1>2, <1>3, <1>4 DEF AddCall
  <2> QED
    BY <1>2, <1>4, <2>1, SameTreeSound
<1>6. Alike(before, iso') /\ Grown(before, iso')
  BY <1>2, <1>5, AlikeSelf, AlikeGrown
<1>7. T!OthersKept'
  BY <1>1, <1>2, <1>4, NothingWritten
<1>8. TreeTypes'
  BY <1>1, <1>2, <1>3, <1>4, <1>5, <1>6 DEF TreeInv, TreeTypes, Within
<1>9. AddCall'
  BY <1>1, <1>2 DEF AddCall, Plain, T!file_sector, T!use_boot_bin_flag
<1>10. CallsInv'
  BY <1>1, <1>2, <1>9 DEF CallsInv
<1> QED
  BY <1>7, <1>8, <1>10 DEF TreeInv

LEMMA DieKeeps == ASSUME TreeInv, T!Die PROVE TreeInv'
<1>1. /\ pc # "idle" /\ pc' = "idle" /\ ret' = -1
      /\ UNCHANGED <<iso, op, path, size, stat, boot, pos, ops, before>>
  BY DEF T!Die, T!Return
<1>2. T!OthersKept'
  BY <1>1, NothingWritten DEF TreeInv
<1>3. TreeTypes'
  BY <1>1 DEF TreeInv, TreeTypes, Within
<1>4. CallsInv'
  BY <1>1 DEF TreeInv, TreeTypes, CallsInv, FindCall, WriteCall, Plain
<1> QED
  BY <1>2, <1>3, <1>4 DEF TreeInv

(* Where the new record goes: to the directory of the path, if it is there.*)
LEMMA ParentIs ==
  ASSUME NEW img, Sound(img), Sound(before), Alike(before, img), AddCall, path \in Known,
         T!Parents(path) # <<>> => T!iso_get_file_info(img, T!Parents(path)) # T!NotFound,
         NEW d, d = T!ParentOf(img, path)
  PROVE  Reached(img.table, T!Parents(path), d) /\ d \in 1 .. Len(img.table)
<1> DEFINE q == T!Parents(path)
           here == T!iso_get_file_info(img, q)
           there == T!iso_get_file_info(before, q)
<1>1. /\ path \in Path /\ path # <<>> /\ Rootless(img.table, path)
      /\ q \in Path /\ Rootless(img.table, q) /\ Ordered(img.table) /\ before.table = img.table
  BY KnownPath, PathParts, RootlessParents, SoundTable DEF Alike
<1>2. CASE q = <<>>
  <2>1. d = 1
    BY <1>2 DEF T!ParentOf
  <2>2. Reached(img.table, q, 1)
    BY <1>1, <1>2, NoPart DEF Reached
  <2> QED
    BY <1>1, <2>1, <2>2, ReachedIn
<1>3. CASE q # <<>>
  <2>1. d = here.pos
    BY <1>3 DEF T!ParentOf
  <2>2. here # T!NotFound
    BY <1>3
  <2>3. there # T!NotFound /\ there.dir = here.dir /\ there.record = here.record
    BY <1>1, <1>3, <2>2, AlikeFinds
  <2>4. before.dir[here.dir][here.record].isdir
    BY <1>3, <2>3 DEF AddCall
  <2> DEFINE a == here.dir
             k == here.record
  <2>5. /\ a \in 1 .. Len(img.table) /\ k \in 1 .. Len(img.dir[a])
        /\ here = Stat(img, a, k) /\ Hit(img, q, a, k)
    <3>1. here = T!iso_get_file_info(img, q)
      OBVIOUS
    <3> HIDE DEF here, q
    <3> QED
      BY <1>1, <1>3, <2>2, <3>1, FoundAt
  <2>6. img.dir[a][k].isdir
    <3>1. a \in 1 .. Len(before.table) /\ k \in 1 .. Len(before.dir[a])
      BY <1>1, <2>5 DEF Alike
    <3>2. before.dir[a][k].isdir = img.dir[a][k].isdir
      BY <3>1 DEF Alike
    <3> HIDE DEF a, k, here
    <3> QED
      BY <2>4, <3>2 DEF a, k
  <2>7. d = img.dir[a][k].pos
    BY <2>1, <2>5 DEF Stat
  <2> HIDE DEF a, k, q
  <2>8. Reached(img.table, q, img.dir[a][k].pos)
    BY <1>1, <1>3, <2>5, <2>6, DirectoryIs
  <2>9. Reached(img.table, q, d)
    BY <2>7, <2>8
  <2> QED
    BY <1>1, <2>9, ReachedIn DEF q
<1> QED
  BY <1>2, <1>3

(* What is not found has no record that passes for it.                     *)
LEMMA NothingMatches ==
  ASSUME NEW img, Sound(img), NEW p \in Known, T!iso_get_file_info(img, p) = T!NotFound,
         NEW d \in 1 .. Len(img.table), Reached(img.table, T!Parents(p), d)
  PROVE  \A k \in 1 .. Len(img.dir[d]) : ~T!Matches(img.dir[d][k].name, T!File(p))
<1>1. p \in Path /\ p # <<>> /\ Rootless(img.table, p)
  BY KnownPath
<1>2. \A n, k : ~Hit(img, p, n, k)
  <2>1. \A n, k : Stat(img, n, k) # T!NotFound \/ n = 0
    BY DEF Stat, T!NotFound
  <2>2. \A n \in 1 .. Len(img.table) : n # 0
    OBVIOUS
  <2> QED
    BY <1>1, <2>1, <2>2, LookupIs
<1>3. DOMAIN img.dir[d] = 1 .. Len(img.dir[d]) /\ Len(img.dir[d]) \in Nat
  BY Shape DEF Sound
<1> SUFFICES ASSUME NEW k \in 1 .. Len(img.dir[d]), T!Matches(img.dir[d][k].name, T!File(p))
             PROVE  FALSE
  OBVIOUS
<1> DEFINE S == {l \in 1 .. Len(img.dir[d]) : T!Matches(img.dir[d][l].name, T!File(p))}
<1>4. k \in S /\ S \in SUBSET Nat
  BY <1>3
<1>5. PICK l \in S : \A m \in S : l <= m
  BY <1>4, Least
<1>6. Hit(img, p, d, l)
  BY <1>3, <1>5 DEF Hit
<1> QED
  BY <1>2, <1>6

LEMMA NameIsNew ==
  ASSUME NEW img, Sound(img), NEW p \in Known, T!iso_get_file_info(img, p) = T!NotFound,
         NEW d \in 1 .. Len(img.table), Reached(img.table, T!Parents(p), d)
  PROVE  \A k \in 1 .. Len(img.dir[d]) : img.dir[d][k].name # T!File(p)
<1>1. T!File(p) \in Name
  BY KnownPath, PathParts
<1> QED
  BY <1>1, MatchesItself, NothingMatches

LEMMA EnterNewKeeps == ASSUME TreeInv, T!EnterNew PROVE TreeInv'
<1> DEFINE d == T!ParentOf(iso, path)
<1>1. /\ pc = "enter" /\ T!iso_get_file_info(iso, path) = T!NotFound /\ pc' = "data"
      /\ iso' = IF T!HasRoom(iso, d) THEN [iso EXCEPT !.dir[d] = Append(@, T!Record)] ELSE iso
      /\ UNCHANGED <<op, path, size, stat, boot, pos, ret, ops, before>>
  BY DEF T!EnterNew
<1>2. /\ op = "add" /\ AddCall /\ Sound(before) /\ path \in Known /\ pos \in Nat
      /\ Sound(iso) /\ Alike(before, iso) /\ Grown(before, iso)
      /\ DOMAIN iso.data = DOMAIN before.data /\ T!OthersKept
  BY <1>1 DEF TreeInv, CallsInv, TreeTypes
<1>3. /\ Sound(iso') /\ Grown(before, iso')
      /\ DOMAIN iso'.data = DOMAIN before.data /\ T!OthersKept'
  <2>1. CASE ~T!HasRoom(iso, d)
    BY <1>1, <1>2, <2>1, NothingWritten
  <2>2. CASE T!HasRoom(iso, d)
    <3>1. d # 0 /\ Len(iso.dir[d]) < MaxRecords /\ iso' = [iso EXCEPT !.dir[d] = Append(@, T!Record)]
      BY <1>1, <2>2 DEF T!HasRoom
    <3>2. Reached(iso.table, T!Parents(path), d) /\ d \in 1 .. Len(iso.table)
      <4>1. T!Parents(path) # <<>> => T!iso_get_file_info(iso, T!Parents(path)) # T!NotFound
        BY <3>1 DEF T!ParentOf, T!NotFound
      <4> QED
        BY <1>2, <4>1, ParentIs
    <3>3. \A k \in 1 .. Len(iso.dir[d]) : iso.dir[d][k].name # T!File(path)
      BY <1>1, <1>2, <3>2, NameIsNew
    <3>4. T!Record \in T!Entry /\ ~T!Record.isdir /\ T!Record.name = T!File(path)
      <4>1. T!File(path) \in T!Name /\ size \in Nat
        BY <1>2, KnownPath, PathParts, FileSectors DEF TreeInv, Name, T!Name
      <4> QED
        BY <1>2, <4>1 DEF T!Record, T!Entry
    <3> HIDE DEF d
    <3>5. /\ Sound(iso') /\ Grown(iso, iso') /\ iso'.data = iso.data
          /\ \A m \in 1 .. Len(iso.table) : \A l \in 1 .. Len(iso.dir[m]) :
               iso'.dir[m][l] = iso.dir[m][l]
      <4> DEFINE e == T!Record
      <4>1. /\ e \in T!Entry /\ ~e.isdir /\ iso' = [iso EXCEPT !.dir[d] = Append(@, e)]
            /\ \A k \in 1 .. Len(iso.dir[d]) : iso.dir[d][k].name # e.name
        BY <3>1, <3>3, <3>4
      <4> HIDE DEF e
      <4> QED
        BY <1>2, <3>1, <3>2, <4>1, AppendKeeps
    <3>6. Grown(before, iso')
      BY <1>2, <3>5, AlikeGrown
    <3>7. (T!Given' <=> T!Given) /\ T!Mine' = T!Mine
      BY <1>1, GivenStays
    <3>8. ASSUME NEW r \in T!FilesOf(before)
          PROVE  T!Rec(iso', r) = T!Rec(iso, r)
      <4>1. r \in T!Records(before)
        BY DEF T!FilesOf
      <4>2. r[1] \in 1 .. Len(iso.table) /\ r[2] \in 1 .. Len(iso.dir[r[1]])
        BY <1>2, <4>1, StillThere DEF Alike
      <4> QED
        BY <3>5, <4>2 DEF T!Rec
    <3>9. T!OthersKept'
      BY <1>1, <1>2, <3>5, <3>7, <3>8, OthersStay
    <3> QED
      BY <1>2, <3>5, <3>6, <3>9
  <2> QED
    BY <2>1, <2>2
<1>4. TreeTypes'
  BY <1>1, <1>3 DEF TreeInv, TreeTypes, Within
<1>5. AddCall'
  BY <1>1, <1>2 DEF AddCall, Plain, T!file_sector, T!use_boot_bin_flag
<1>6. CallsInv'
  BY <1>1, <1>2, <1>5 DEF CallsInv
<1> QED
  BY <1>3, <1>4, <1>6 DEF TreeInv

LEMMA EnterPosKeeps == ASSUME TreeInv, T!EnterPos PROVE TreeInv'
<1> DEFINE file == T!iso_get_file_info(before, path)
<1>1. /\ pc = "enter" /\ stat' = T!iso_get_file_info(iso, path) /\ stat' # T!NotFound
      /\ T!SetRecord(stat', "pos", pos) /\ pc' = "entersize"
      /\ UNCHANGED <<op, path, size, boot, pos, ret, ops, before>>
  BY DEF T!EnterPos
<1>2. /\ op = "add" /\ AddCall /\ Sound(before) /\ path \in Known /\ pos \in Nat
      /\ Sound(iso) /\ Alike(before, iso)
  BY <1>1 DEF TreeInv, CallsInv, TreeTypes
<1>3. file # T!NotFound /\ stat'.dir = file.dir /\ stat'.record = file.record
  <2>1. path \in Path /\ path # <<>> /\ Rootless(before.table, path)
    BY <1>2, KnownPath
  <2> QED
    BY <1>1, <1>2, <2>1, AlikeFinds
<1>4. Plain(before, file)
  BY <1>2 DEF AddCall
<1>5. /\ Sound(iso') /\ Alike(before, iso') /\ Grown(before, iso')
      /\ DOMAIN iso'.data = DOMAIN before.data /\ T!OthersKept'
  <2> HIDE DEF file
  <2>1. file = T!iso_get_file_info(before, path) /\ pos \in Int /\ op # "write"
    BY <1>2 DEF file
  <2> QED
    BY <1>1, <1>2, <1>3, <1>4, <2>1, RecordStep
<1>6. Within(before', stat')
  BY <1>1, <1>2, <1>3, Found DEF Within
<1>7. TreeTypes'
  BY <1>1, <1>5, <1>6 DEF TreeInv, TreeTypes
<1>8. AddCall'
  BY <1>1, <1>2, <1>3 DEF AddCall, Plain, T!file_sector, T!use_boot_bin_flag
<1>9. CallsInv'
  BY <1>1, <1>2, <1>8 DEF CallsInv
<1> QED
  BY <1>5, <1>7, <1>9 DEF TreeInv

LEMMA EnterSizeKeeps == ASSUME TreeInv, T!EnterSize PROVE TreeInv'
<1> DEFINE file == T!iso_get_file_info(before, path)
<1>1. /\ pc = "entersize" /\ T!SetRecord(stat, "size", size) /\ pc' = "data"
      /\ UNCHANGED <<op, path, size, stat, boot, pos, ret, ops, before>>
  BY DEF T!EnterSize
<1>2. /\ op = "add" /\ AddCall /\ Sound(before) /\ path \in Known
      /\ Plain(before, file) /\ file # T!NotFound /\ stat.dir = file.dir /\ stat.record = file.record
  BY <1>1 DEF TreeInv, CallsInv, TreeTypes, AddCall
<1>3. /\ Sound(iso') /\ Alike(before, iso') /\ Grown(before, iso')
      /\ DOMAIN iso'.data = DOMAIN before.data /\ T!OthersKept'
  <2> HIDE DEF file
  <2>1. file = T!iso_get_file_info(before, path) /\ size \in Int
    BY FileSectors DEF file, TreeInv
  <2> QED
    BY <1>1, <1>2, <2>1, RecordStep
<1>4. TreeTypes'
  BY <1>1, <1>3 DEF TreeInv, TreeTypes, Within
<1>5. AddCall'
  BY <1>1, <1>2 DEF AddCall, Plain, T!file_sector, T!use_boot_bin_flag
<1>6. CallsInv'
  BY <1>1, <1>2, <1>5 DEF CallsInv
<1> QED
  BY <1>3, <1>4, <1>6 DEF TreeInv

(* As many bytes as there are fit into the sectors of the file.            *)
LEMMA FitsIn ==
  ASSUME NEW n \in Nat, NEW x \in Int, n * SectorSize <= x
  PROVE  T!Sectors(x) \in Int /\ n <= T!Sectors(x)
<1> DEFINE s == SectorSize
           q == (x + s - 1) \div s
<1>1. s \in Nat \ {0}
  BY TreeAssumption DEF T!SizeAssumption
<1>2. T!Sectors(x) = q
  BY DEF T!Sectors
<1> HIDE DEF s
<1>3. n * s \in Nat
  BY <1>1
<1>4. x + s - 1 \in Nat /\ n * s <= x
  BY <1>1, <1>3 DEF s
<1>5. q \in Nat /\ x + s - 1 < q * s + s
  BY <1>1, <1>4, Quotients
<1> HIDE DEF q
<1>6. ~(q < n)
  <2> SUFFICES ASSUME q < n PROVE FALSE
    OBVIOUS
  <2>1. q * s + s <= n * s /\ q * s \in Int
    BY <1>1, <1>5, Multiples
  <2> DEFINE a == q * s
             b == n * s
  <2>2. a \in Int /\ b \in Int /\ a + s <= b /\ b <= x /\ x + s - 1 < a + s
    BY <1>3, <1>4, <1>5, <2>1
  <2> HIDE DEF a, b
  <2> QED
    BY <1>1, <2>2
<1> QED
  BY <1>2, <1>5, <1>6

LEMMA NoSectors == ASSUME NEW n \in Nat, n * SectorSize <= 0 PROVE n = 0
<1>1. SectorSize \in Nat \ {0}
  BY TreeAssumption DEF T!SizeAssumption
<1> SUFFICES ASSUME n # 0 PROVE FALSE
  OBVIOUS
<1>2. 0 * SectorSize + SectorSize <= n * SectorSize /\ 0 * SectorSize = 0 /\ n * SectorSize \in Int
  BY <1>1, Multiples
<1> QED
  BY <1>1, <1>2

(* What is taken from BOOT.BIN is its own.                                 *)
LEMMA BootGives ==
  ASSUME TreeTypes, AddCall, op = "add", T!Given, T!use_boot_bin_flag, boot # T!NotFound
  PROVE  LET q == <<boot.dir, boot.record>> IN
         /\ q \in T!FilesOf(before) /\ q \in T!Mine
         /\ T!Extent(before, q) = boot.pos .. boot.pos + T!Sectors(boot.size) - 1
         /\ boot.pos \in Nat /\ boot.size \in Int
         /\ T!Sectors(boot.size) \in Int /\ T!file_sector <= T!Sectors(boot.size)
<1> DEFINE n == T!file_sector
           q == <<boot.dir, boot.record>>
<1>1. Sound(before) /\ BootPath \in Known /\ n \in Nat
  BY FileSectors DEF TreeTypes, Known
<1>2. /\ boot.dir \in 1 .. Len(before.table) /\ boot.record \in 1 .. Len(before.dir[boot.dir])
      /\ boot = Stat(before, boot.dir, boot.record) /\ boot.pos \in Nat /\ boot.size \in Int
      /\ ~before.dir[boot.dir][boot.record].isdir
  BY <1>1, Found DEF AddCall, Plain
<1>3. q \in T!FilesOf(before) /\ T!Rec(before, q) = before.dir[boot.dir][boot.record]
  BY <1>1, <1>2, Shape DEF Sound, T!FilesOf, T!Rec
<1>4. q \in T!Mine
  <2>1. T!Unlike(before, BootPath)
    BY DEF T!Given
  <2> QED
    BY <1>1, <2>1, FoundThere DEF AddCall, T!Mine
<1>5. T!Extent(before, q) = boot.pos .. boot.pos + T!Sectors(boot.size) - 1
  <2>1. boot.pos = before.dir[boot.dir][boot.record].pos /\ boot.size = before.dir[boot.dir][boot.record].size
    BY <1>2 DEF Stat
  <2> QED
    BY <1>3, <2>1 DEF T!Extent, T!SectorsFrom
<1>6. n * SectorSize <= boot.size
  BY DEF T!Given, T!Room
<1>7. n <= T!Sectors(boot.size) /\ T!Sectors(boot.size) \in Int
  BY <1>1, <1>2, <1>6, FitsIn
<1> QED
  BY <1>2, <1>3, <1>4, <1>5, <1>7

(* Where a file is added, no other one is.                                 *)
LEMMA AddFree ==
  ASSUME TreeTypes, AddCall, op = "add", pc # "place", T!Given
  PROVE  LET P == pos .. pos + T!file_sector - 1 IN
         /\ T!use_boot_bin_flag => P \subseteq 0 .. before.volume - 1
         /\ P \subseteq 0 .. before.volume + T!file_sector - 1
         /\ \A r \in T!FilesOf(before) \ T!Mine : \A s \in T!Extent(before, r) : s \notin P
<1> DEFINE n == T!file_sector
           P == pos .. pos + n - 1
<1>1. Sound(before) /\ n \in Nat /\ before.volume \in Nat /\ pos \in Nat
  BY FileSectors DEF TreeTypes, Sound, T!IsImage
<1>2. pos = IF T!use_boot_bin_flag THEN boot.pos ELSE before.volume
  BY DEF AddCall
<1>3. \A r \in T!FilesOf(before) : T!Extent(before, r) \subseteq 0 .. before.volume - 1
  BY DEF T!Given, T!Apart
<1>4. CASE ~T!use_boot_bin_flag
  <2>1. pos = before.volume
    BY <1>2, <1>4
  <2> HIDE DEF n
  <2>2. P \subseteq 0 .. before.volume + n - 1 /\ \A s \in 0 .. before.volume - 1 : s \notin P
    BY <1>1, <2>1
  <2>3. \A r \in T!FilesOf(before) : \A s \in T!Extent(before, r) : s \notin P
    BY <1>3, <2>2
  <2> QED
    BY <1>4, <2>2, <2>3, Zenon DEF n
<1>5. CASE T!use_boot_bin_flag
  <2>1. CASE boot = T!NotFound
    <3>1. n * SectorSize <= 0
      BY <1>5, <2>1 DEF T!Given, T!Room, T!NotFound
    <3>2. n = 0
      BY <1>1, <3>1, NoSectors
    <3>3. P = {}
      BY <1>1, <3>2
    <3> QED
      BY <3>3
  <2>2. CASE boot # T!NotFound
    <3> DEFINE q == <<boot.dir, boot.record>>
               m == T!Sectors(boot.size)
    <3>1. /\ q \in T!FilesOf(before) /\ q \in T!Mine
          /\ T!Extent(before, q) = boot.pos .. boot.pos + m - 1
          /\ boot.pos \in Nat /\ m \in Int /\ n <= m
      BY <1>5, <2>2, BootGives
    <3>2. \A r \in T!FilesOf(before) \ T!Mine : T!Extent(before, r) \cap T!Extent(before, q) = {}
      BY <3>1 DEF T!Given, T!Apart
    <3>3. pos = boot.pos
      BY <1>2, <1>5
    <3> HIDE DEF n, m, q
    <3>4. pos .. pos + n - 1 \subseteq boot.pos .. boot.pos + m - 1
      BY <1>1, <3>1, <3>3
    <3>5. pos .. pos + n - 1 \subseteq T!Extent(before, q)
      BY <3>1, <3>4
    <3>6. T!Extent(before, q) \subseteq 0 .. before.volume - 1
      BY <1>3, <3>1
    <3>7. 0 .. before.volume - 1 \subseteq 0 .. before.volume + n - 1
      BY <1>1
    <3> QED
      BY <3>2, <3>5, <3>6, <3>7 DEF n
  <2> QED
    BY <2>1, <2>2
<1> QED
  BY <1>4, <1>5

LEMMA AddDataKeeps == ASSUME TreeInv, T!AddData PROVE TreeInv'
<1> DEFINE n == T!file_sector
<1>1. /\ pc = "data" /\ T!PutData(pos, n) /\ pc' = "idle" /\ ret' = 0
      /\ UNCHANGED <<op, path, size, stat, boot, pos, ops, before>>
  BY DEF T!AddData, T!Return
<1>2. op = "add" /\ AddCall /\ TreeTypes /\ pos \in Nat /\ n \in Nat
  BY <1>1, FileSectors DEF TreeInv, CallsInv, TreeTypes
<1>3. T!Given => \A r \in T!FilesOf(before) \ T!Mine : \A s \in T!Extent(before, r) :
                   s \notin pos .. pos + n - 1
  BY <1>1, <1>2, AddFree
<1>4. /\ Sound(iso') /\ Grown(before, iso')
      /\ DOMAIN iso'.data = DOMAIN before.data /\ T!OthersKept'
  <2> HIDE DEF n
  <2> QED
    BY <1>1, <1>2, <1>3, DataStep
<1>5. TreeTypes'
  BY <1>1, <1>4 DEF TreeInv, TreeTypes, Within
<1>6. AddCall'
  BY <1>1, <1>2 DEF AddCall, Plain, T!file_sector, T!use_boot_bin_flag
<1>7. CallsInv'
  BY <1>1, <1>2, <1>6 DEF CallsInv
<1> QED
  BY <1>4, <1>5, <1>7 DEF TreeInv

-----------------------------------------------------------------------------
LEMMA TreeStarts == ASSUME T!Init PROVE TreeInv
<1>1. /\ iso \in Images /\ pc = "idle" /\ op = "none" /\ path = BootPath /\ size = 0
      /\ stat = T!NotFound /\ pos = 0 /\ ret = 0 /\ before = iso
  BY DEF T!Init
<1>2. Sound(iso)
  BY <1>1, TreeAssumption DEF T!ImagesAssumption, Sound
<1>3. Grown(iso, iso)
  BY <1>2, AlikeSelf
<1>4. TreeTypes
  BY <1>1, <1>2, <1>3 DEF TreeTypes, Within, Known
<1>5. CallsInv
  BY <1>1 DEF CallsInv
<1>6. T!OthersKept
  BY <1>1 DEF T!OthersKept, T!Same
<1> QED
  BY <1>4, <1>5, <1>6 DEF TreeInv

LEMMA TreeStep == ASSUME TreeInv, T!Next PROVE TreeInv'
BY FindKeeps, WriteKeeps, WriteSizeKeeps, WriteDataKeeps, AddKeeps, TakeBootKeeps, ShrinkBootKeeps,
   AtTheEndKeeps, EnterNewKeeps, EnterPosKeeps, EnterSizeKeeps, AddDataKeeps, DieKeeps
DEF T!Next

LEMMA TreeStutter ==
  ASSUME TreeInv, UNCHANGED <<shared, onlyTree>>
  PROVE  TreeInv'
<1>1. UNCHANGED <<pc, op, pos, size, ret, ops, iso, path, stat, boot, before>>
  BY DEF shared, onlyTree
<1>2. T!OthersKept'
  BY <1>1, NothingWritten DEF TreeInv
<1>3. TreeTypes'
  BY <1>1 DEF TreeInv, TreeTypes, Within
<1>4. AddCall' <=> AddCall
  BY <1>1 DEF AddCall, Plain, T!file_sector, T!use_boot_bin_flag
<1>5. CallsInv'
  BY <1>1, <1>4 DEF TreeInv, CallsInv, FindCall, WriteCall, Plain
<1> QED
  BY <1>2, <1>3, <1>5 DEF TreeInv

-----------------------------------------------------------------------------
(* Sectors of what is left of a file from which whole sectors are taken.   *)
LEMMA SectorsLeft ==
  ASSUME NEW x \in Int, NEW n \in Nat
  PROVE  T!Sectors(x) \in Int /\ T!Sectors(x - n * SectorSize) = T!Sectors(x) - n
<1> DEFINE s == SectorSize
           q == (x + s - 1) \div s
           r == (x - n * s + s - 1) \div s
<1>1. s \in Nat \ {0}
  BY TreeAssumption DEF T!SizeAssumption
<1>2. T!Sectors(x) = q /\ T!Sectors(x - n * SectorSize) = r
  BY DEF T!Sectors
<1> HIDE DEF s
<1> DEFINE m == n * s
<1>3. m \in Int
  BY <1>1
<1>4. q \in Int /\ q * s <= x + s - 1 /\ x + s - 1 < q * s + s
  BY <1>1
<1>5. r \in Int /\ r * s <= x - m + s - 1 /\ x - m + s - 1 < r * s + s
  <2> HIDE DEF m
  <2> QED
    BY <1>1, <1>3 DEF m
<1>6. (r + n) * s = r * s + m
  BY <1>1, <1>5
<1> HIDE DEF q, r, m
<1>7. /\ (r + n) * s <= x + s - 1 /\ x + s - 1 < (r + n) * s + s
      /\ r + n \in Int /\ (r + n) * s \in Int /\ q * s \in Int
  BY <1>1, <1>3, <1>4, <1>5, <1>6
<1>8. ~(q < r + n)
  <2> SUFFICES ASSUME q < r + n PROVE FALSE
    OBVIOUS
  <2>1. q * s + s <= (r + n) * s
    BY <1>1, <1>4, <1>7, Multiples
  <2> QED
    BY <1>1, <1>4, <1>7, <2>1
<1>9. ~(r + n < q)
  <2> SUFFICES ASSUME r + n < q PROVE FALSE
    OBVIOUS
  <2>1. (r + n) * s + s <= q * s
    BY <1>1, <1>4, <1>7, Multiples
  <2> QED
    BY <1>1, <1>4, <1>7, <2>1
<1> QED
  BY <1>2, <1>4, <1>5, <1>8, <1>9

-----------------------------------------------------------------------------
(***************************************************************************)
(* What a call has made of the records so far.                             *)
(***************************************************************************)
FileWas == T!iso_get_file_info(before, path)

Its(st, d, k) == st # T!NotFound /\ st.dir = d /\ st.record = k

PosNow(d, k) ==
  IF Its(FileWas, d, k) /\ pc \in {"entersize", "data", "idle"} THEN pos
  ELSE IF Its(boot, d, k) /\ T!use_boot_bin_flag /\ pc # "place" THEN boot.pos + T!file_sector
  ELSE before.dir[d][k].pos

SizeNow(d, k) ==
  IF Its(FileWas, d, k) /\ pc \in {"data", "idle"} THEN size
  ELSE IF Its(boot, d, k) /\ T!use_boot_bin_flag /\ pc \notin {"place", "bootsize"}
       THEN boot.size - T!file_sector * SectorSize
  ELSE before.dir[d][k].size

Recorded ==
  \A d \in 1 .. Len(before.table) : \A k \in 1 .. Len(before.dir[d]) :
    iso.dir[d][k].pos = PosNow(d, k) /\ iso.dir[d][k].size = SizeNow(d, k)

EnteredIn(d) ==
  /\ d \in 1 .. Len(before.table) /\ Reached(before.table, T!Parents(path), d)
  /\ Len(iso.dir[d]) = Len(before.dir[d]) + 1 /\ iso.dir[d][Len(before.dir[d]) + 1] = T!Record
  /\ \A m \in 1 .. Len(before.table) : m # d => Len(iso.dir[m]) = Len(before.dir[m])

HasPlace == T!HasRoom(before, T!ParentOf(before, path))

ListedNow ==
  IF FileWas = T!NotFound /\ pc \in {"data", "idle"} /\ HasPlace
  THEN EnteredIn(T!ParentOf(before, path)) ELSE Alike(before, iso)

VolumeNow == IF T!use_boot_bin_flag \/ pc = "place" THEN before.volume
             ELSE before.volume + T!file_sector

Written(p) == \A n \in 0 .. T!file_sector - 1 : iso.data[p + n] = T!NewData(n)

AddAt ==
  /\ Recorded /\ ListedNow /\ iso.volume = VolumeNow
  /\ pc = "bootsize" => T!use_boot_bin_flag
  /\ pc = "idle" /\ T!Given => Written(pos)

WriteAt ==
  /\ Alike(before, iso) /\ iso.volume = before.volume
  /\ \A d \in 1 .. Len(before.table) : \A k \in 1 .. Len(before.dir[d]) :
       /\ iso.dir[d][k].pos = before.dir[d][k].pos
       /\ iso.dir[d][k].size = IF Its(stat, d, k) /\ pc # "writesize" THEN size
                               ELSE before.dir[d][k].size
  /\ pc = "idle" /\ T!Given => Written(stat.pos)

ArriveInv ==
  /\ op = "write" /\ (pc # "idle" \/ ret = 0) => WriteAt
  /\ op = "add" /\ (pc # "idle" \/ ret = 0) => AddAt

-----------------------------------------------------------------------------
LEMMA RecordIs ==
  ASSUME TreeInv, pc \notin {"idle", "data"}, NEW st, st # T!NotFound, Within(before, st),
         Plain(before, st), NEW at, at.dir = st.dir, at.record = st.record,
         NEW field \in {"pos", "size"}, NEW v \in Int, field = "pos" => v \in Nat,
         T!SetRecord(at, field, v)
  PROVE  /\ Alike(before, iso') /\ iso'.volume = iso.volume
         /\ \A d \in 1 .. Len(before.table) : \A k \in 1 .. Len(before.dir[d]) :
              /\ iso'.dir[d][k].pos = IF Its(st, d, k) /\ field = "pos" THEN v
                                      ELSE iso.dir[d][k].pos
              /\ iso'.dir[d][k].size = IF Its(st, d, k) /\ field = "size" THEN v
                                       ELSE iso.dir[d][k].size
<1> DEFINE n == st.dir
           k == st.record
<1>1. /\ Sound(before) /\ Sound(iso) /\ Alike(before, iso)
      /\ n \in 1 .. Len(before.table) /\ k \in 1 .. Len(before.dir[n])
      /\ ~before.dir[n][k].isdir
  BY DEF TreeInv, TreeTypes, Within, Plain
<1>2. /\ n \in 1 .. Len(iso.table) /\ k \in 1 .. Len(iso.dir[n])
      /\ ~iso.dir[n][k].isdir
      /\ iso.table = before.table /\ \A d \in 1 .. Len(before.table) : Len(iso.dir[d]) = Len(before.dir[d])
  <2>1. before.dir[n][k].isdir = iso.dir[n][k].isdir
    BY <1>1 DEF Alike
  <2> QED
    BY <1>1, <2>1 DEF Alike
<1>3. at.dir = n /\ at.record = k
  OBVIOUS
<1> HIDE DEF n, k
<1>4. /\ Sound(iso') /\ Alike(iso, iso') /\ iso'.volume = iso.volume
      /\ iso'.dir[n][k].pos = (IF field = "pos" THEN v ELSE iso.dir[n][k].pos)
      /\ iso'.dir[n][k].size = (IF field = "size" THEN v ELSE iso.dir[n][k].size)
      /\ \A d \in 1 .. Len(iso.table) : \A l \in 1 .. Len(iso.dir[d]) :
           <<d, l>> # <<n, k>> => iso'.dir[d][l] = iso.dir[d][l]
  BY <1>1, <1>2, <1>3, SetRecordKeeps
<1>5. Alike(before, iso')
  BY <1>1, <1>4, AlikeSelf, AlikeGrown DEF TreeInv, TreeTypes
<1>6. ASSUME NEW d \in 1 .. Len(before.table), NEW l \in 1 .. Len(before.dir[d])
      PROVE  /\ iso'.dir[d][l].pos = IF Its(st, d, l) /\ field = "pos" THEN v
                                     ELSE iso.dir[d][l].pos
             /\ iso'.dir[d][l].size = IF Its(st, d, l) /\ field = "size" THEN v
                                      ELSE iso.dir[d][l].size
  <2>1. Its(st, d, l) <=> d = n /\ l = k
    BY DEF Its, n, k
  <2>2. CASE d = n /\ l = k
    BY <1>4, <2>1, <2>2
  <2>3. CASE ~(d = n /\ l = k)
    <3>1. iso'.dir[d][l] = iso.dir[d][l]
      BY <1>2, <1>4, <2>3
    <3> QED
      BY <2>1, <2>3, <3>1
  <2> QED
    BY <2>2, <2>3
<1> QED
  BY <1>4, <1>5, <1>6

(* What a call writes as its data.                                         *)
LEMMA DataIs ==
  ASSUME Sound(iso), NEW p \in Nat, T!file_sector \in Nat, T!PutData(p, T!file_sector),
         UNCHANGED <<path, size>>, \A n \in 0 .. T!file_sector - 1 : p + n \in DOMAIN iso.data
  PROVE  /\ iso'.dir = iso.dir /\ iso'.volume = iso.volume /\ Alike(iso, iso') /\ Sound(iso')
         /\ \A n \in 0 .. T!file_sector' - 1 : iso'.data[p + n] = T!NewData(n)'
<1> DEFINE m == T!file_sector
<1>1. T!file_sector' = m /\ \A n : T!NewData(n)' = T!NewData(n)
  BY DEF T!file_sector, T!NewData
<1>2. T!PutData(p, m)
  OBVIOUS
<1> HIDE DEF m
<1>3. /\ Sound(iso') /\ Alike(iso, iso') /\ iso'.dir = iso.dir /\ iso'.volume = iso.volume
      /\ \A s \in DOMAIN iso.data :
           iso'.data[s] = IF s \in p .. p + m - 1 THEN T!NewData(s - p) ELSE iso.data[s]
  BY <1>2, PutDataKeeps DEF m
<1>4. ASSUME NEW n \in 0 .. m - 1 PROVE iso'.data[p + n] = T!NewData(n)
  <2>1. p + n \in DOMAIN iso.data /\ p + n \in p .. p + m - 1 /\ p + n - p = n
    BY DEF m
  <2> QED
    BY <1>3, <2>1
<1> QED
  BY <1>1, <1>3, <1>4

LEMMA WriteArrives ==
  ASSUME TreeInv, TreeInv', ArriveInv, T!Write \/ T!WriteSize \/ T!WriteData
  PROVE  ArriveInv'
<1>1. CASE T!Write
  <2>1. /\ op' = "write" /\ before' = iso /\ pc = "idle"
        /\ UNCHANGED <<iso, boot, pos>> /\ iso' = before' /\ Sound(before')
        /\ IF stat' = T!NotFound THEN ret' = -1 /\ pc' = pc ELSE pc' = "writesize" /\ ret' = ret
    BY <1>1 DEF T!Write, T!Begin, TreeInv, TreeTypes
  <2>2. Alike(before', iso')
    BY <2>1, AlikeSelf
  <2>3. pc' # "idle" \/ ret' = 0 => pc' = "writesize"
    BY <2>1
  <2>4. pc' = "writesize" => WriteAt'
    BY <2>1, <2>2 DEF WriteAt
  <2> QED
    BY <2>1, <2>3, <2>4 DEF ArriveInv
<1>2. CASE T!WriteSize
  <2>1. /\ pc = "writesize" /\ T!SetRecord(stat, "size", size) /\ pc' = "writedata"
        /\ UNCHANGED <<op, path, size, stat, boot, pos, ret, ops, before>>
    BY <1>2 DEF T!WriteSize
  <2>2. /\ op = "write" /\ WriteCall /\ stat # T!NotFound /\ size \in Int /\ Within(before, stat)
        /\ WriteAt
    BY <2>1, FileSectors DEF TreeInv, CallsInv, WriteCall, TreeTypes, ArriveInv
  <2>3. /\ Alike(before, iso') /\ iso'.volume = iso.volume
        /\ \A d \in 1 .. Len(before.table) : \A k \in 1 .. Len(before.dir[d]) :
             /\ iso'.dir[d][k].pos = iso.dir[d][k].pos
             /\ iso'.dir[d][k].size = IF Its(stat, d, k) THEN size ELSE iso.dir[d][k].size
    BY <2>1, <2>2, RecordIs, SMTT(30) DEF WriteCall
  <2>4. WriteAt'
    BY <2>1, <2>2, <2>3 DEF WriteAt, Its
  <2> QED
    BY <2>1, <2>2, <2>4 DEF ArriveInv
<1>3. CASE T!WriteData
  <2>1. /\ pc = "writedata" /\ T!PutData(stat.pos, T!file_sector) /\ pc' = "idle" /\ ret' = 0
        /\ UNCHANGED <<op, path, size, stat, boot, pos, ops, before>>
    BY <1>3 DEF T!WriteData, T!Return, T!file_sector
  <2>2. /\ op = "write" /\ WriteCall /\ stat # T!NotFound /\ path \in Known /\ Sound(before)
        /\ Sound(iso) /\ T!file_sector \in Nat /\ TreeTypes /\ WriteAt
    BY <2>1, FileSectors DEF TreeInv, CallsInv, WriteCall, TreeTypes, ArriveInv
  <2>3. stat.pos \in Nat
    BY <2>2, Found DEF WriteCall
  <2>4. /\ Sound(iso') /\ Alike(iso, iso') /\ iso'.dir = iso.dir /\ iso'.volume = iso.volume
    BY <2>1, <2>2, <2>3, PutDataKeeps
  <2>5. T!Given' <=> T!Given
    BY <2>1, GivenStays
  <2>6. ASSUME T!Given PROVE Written(stat.pos)'
    <3> DEFINE m == T!file_sector
               p == stat.pos
    <3>1. p .. p + m - 1 \subseteq 0 .. before.volume - 1
      BY <2>2, <2>6, WriteFree
    <3>2. 0 .. before.volume - 1 \subseteq DOMAIN iso.data
      BY <2>2 DEF TreeTypes, Sound, T!IsImage
    <3>3. \A n \in 0 .. m - 1 : p + n \in DOMAIN iso.data
      <4> SUFFICES ASSUME NEW n \in 0 .. m - 1 PROVE p + n \in p .. p + m - 1
        BY <3>1, <3>2
      <4> HIDE DEF m, p
      <4> QED
        BY <2>2, <2>3 DEF m, p
    <3>4. \A n \in 0 .. T!file_sector' - 1 : iso'.data[p + n] = T!NewData(n)'
      BY <2>1, <2>2, <2>3, <3>3, DataIs
    <3> QED
      BY <2>1, <3>4 DEF Written
  <2>7. Alike(before, iso')
    BY <2>2, <2>4, AlikeGrown DEF WriteAt, TreeTypes
  <2>8. WriteAt'
    BY <2>1, <2>2, <2>4, <2>5, <2>6, <2>7 DEF WriteAt, Its
  <2> QED
    BY <2>1, <2>2, <2>8 DEF ArriveInv
<1> QED
  BY <1>1, <1>2, <1>3

(* What an add is about stays while it goes on.                            *)
LEMMA AddStays ==
  ASSUME UNCHANGED <<op, path, size, boot, before>>
  PROVE  /\ FileWas' = FileWas /\ T!use_boot_bin_flag' = T!use_boot_bin_flag
         /\ T!file_sector' = T!file_sector /\ HasPlace' = HasPlace
         /\ T!ParentOf(before, path)' = T!ParentOf(before, path)
         /\ \A d, k : Its(FileWas, d, k)' = Its(FileWas, d, k) /\ Its(boot, d, k)' = Its(boot, d, k)
BY DEF FileWas, T!use_boot_bin_flag, T!file_sector, HasPlace, Its

LEMMA BootArrives ==
  ASSUME TreeInv, TreeInv', ArriveInv, T!TakeBoot \/ T!ShrinkBoot
  PROVE  ArriveInv'
<1>1. CASE T!TakeBoot
  <2>1. /\ pc = "place" /\ T!use_boot_bin_flag /\ pos' = boot.pos /\ pc' = "bootsize"
        /\ IF boot = T!NotFound THEN iso' = iso ELSE T!SetRecord(boot, "pos", T!MoveBoot)
        /\ UNCHANGED <<op, path, size, stat, boot, ret, ops, before>>
    BY <1>1 DEF T!TakeBoot
  <2>2. op = "add" /\ AddCall /\ AddAt /\ BootPath \in Known /\ Sound(before) /\ Alike(before, iso)
    BY <2>1 DEF TreeInv, CallsInv, TreeTypes, ArriveInv, Known
  <2>3. /\ Alike(before, iso') /\ iso'.volume = iso.volume
        /\ \A d \in 1 .. Len(before.table) : \A k \in 1 .. Len(before.dir[d]) :
             /\ iso'.dir[d][k].pos = IF Its(boot, d, k) THEN boot.pos + T!file_sector
                                     ELSE iso.dir[d][k].pos
             /\ iso'.dir[d][k].size = iso.dir[d][k].size
    <3>1. CASE boot = T!NotFound
      BY <2>1, <2>2, <3>1 DEF Its
    <3>2. CASE boot # T!NotFound
      <4>1. T!SetRecord(boot, "pos", T!MoveBoot) /\ T!MoveBoot = boot.pos + T!file_sector
        BY <2>1, <3>2 DEF T!MoveBoot
      <4>2. boot.pos \in Nat /\ T!file_sector \in Nat /\ Within(before, boot) /\ Plain(before, boot)
        BY <2>2, <3>2, Found, FileSectors DEF AddCall, TreeInv, Within
      <4>3. T!MoveBoot \in Nat /\ T!MoveBoot \in Int
        BY <4>1, <4>2
      <4> QED
        BY <2>1, <3>2, <4>1, <4>2, <4>3, RecordIs
    <3> QED
      BY <3>1, <3>2
  <2>4. Recorded'
    BY <2>1, <2>2, <2>3, AddStays DEF AddAt, Recorded, PosNow, SizeNow
  <2>5. AddAt'
    BY <2>1, <2>2, <2>3, <2>4, AddStays DEF AddAt, ListedNow, VolumeNow
  <2> QED
    BY <2>1, <2>2, <2>5 DEF ArriveInv
<1>2. CASE T!ShrinkBoot
  <2> DEFINE less == boot.size - T!file_sector * SectorSize
  <2>1. /\ pc = "bootsize" /\ pc' = "enter"
        /\ IF boot = T!NotFound THEN iso' = iso ELSE T!SetRecord(boot, "size", less)
        /\ UNCHANGED <<op, path, size, stat, boot, pos, ret, ops, before>>
    BY <1>2 DEF T!ShrinkBoot
  <2>2. op = "add" /\ AddCall /\ AddAt /\ BootPath \in Known /\ Sound(before) /\ Alike(before, iso)
    BY <2>1 DEF TreeInv, CallsInv, TreeTypes, ArriveInv, Known
  <2>3. /\ Alike(before, iso') /\ iso'.volume = iso.volume
        /\ \A d \in 1 .. Len(before.table) : \A k \in 1 .. Len(before.dir[d]) :
             /\ iso'.dir[d][k].pos = iso.dir[d][k].pos
             /\ iso'.dir[d][k].size = IF Its(boot, d, k) THEN less ELSE iso.dir[d][k].size
    <3>1. CASE boot = T!NotFound
      BY <2>1, <2>2, <3>1 DEF Its
    <3>2. CASE boot # T!NotFound
      <4>1. boot.size \in Int /\ T!file_sector \in Nat /\ SectorSize \in Nat
            /\ Within(before, boot) /\ Plain(before, boot)
        BY <2>2, <3>2, Found, FileSectors, TreeAssumption DEF AddCall, TreeInv, Within, T!SizeAssumption
      <4>2. T!file_sector * SectorSize \in Int
        BY <4>1
      <4>3. less \in Int /\ T!SetRecord(boot, "size", less)
        BY <2>1, <3>2, <4>1, <4>2
      <4> HIDE DEF less
      <4> QED
        BY <2>1, <3>2, <4>1, <4>3, RecordIs, SMTT(60)
    <3> QED
      BY <3>1, <3>2
  <2>4. Recorded'
    BY <2>1, <2>2, <2>3, AddStays DEF AddAt, Recorded, PosNow, SizeNow
  <2>5. AddAt'
    BY <2>1, <2>2, <2>3, <2>4, AddStays DEF AddAt, ListedNow, VolumeNow
  <2> QED
    BY <2>1, <2>2, <2>5 DEF ArriveInv
<1> QED
  BY <1>1, <1>2

LEMMA AddArrives ==
  ASSUME TreeInv, TreeInv', ArriveInv, T!Add \/ T!AtTheEnd
  PROVE  ArriveInv'
<1>1. CASE T!Add
  <2>1. /\ op' = "add" /\ before' = iso /\ iso' = before' /\ pc' = "place" /\ Sound(before')
    BY <1>1 DEF T!Add, T!Begin, TreeInv, TreeTypes
  <2>2. Alike(before', iso')
    BY <2>1, AlikeSelf
  <2>3. AddAt'
    BY <2>1, <2>2 DEF AddAt, Recorded, PosNow, SizeNow, ListedNow, VolumeNow
  <2> QED
    BY <2>1, <2>3 DEF ArriveInv
<1>2. CASE T!AtTheEnd
  <2>1. /\ pc = "place" /\ ~T!use_boot_bin_flag /\ pos' = iso.volume /\ pc' = "enter"
        /\ iso' = [iso EXCEPT !.volume = iso.volume + T!file_sector]
        /\ UNCHANGED <<op, path, size, stat, boot, ret, ops, before>>
    BY <1>2 DEF T!AtTheEnd, T!End
  <2>2. /\ op = "add" /\ AddAt /\ Sound(before) /\ iso = before
        /\ DOMAIN iso = {"table", "dir", "data", "volume"}
    BY <2>1 DEF TreeInv, CallsInv, TreeTypes, AddCall, ArriveInv, Sound, T!IsImage
  <2>3. /\ iso'.dir = before.dir /\ iso'.volume = before.volume + T!file_sector
    BY <2>1, <2>2
  <2>4. Alike(before, iso')
    BY <2>1 DEF TreeInv, TreeTypes
  <2>5. Recorded'
    BY <2>1, <2>3, AddStays DEF Recorded, PosNow, SizeNow
  <2>6. AddAt'
    BY <2>1, <2>3, <2>4, <2>5, AddStays DEF AddAt, ListedNow, VolumeNow
  <2> QED
    BY <2>1, <2>2, <2>6 DEF ArriveInv
<1> QED
  BY <1>1, <1>2

(* The new record is behind those of the path's directory, if it has room. *)
LEMMA EnterNewArrives == ASSUME TreeInv, TreeInv', ArriveInv, T!EnterNew PROVE ArriveInv'
<1> DEFINE d == T!ParentOf(iso, path)
           c == T!ParentOf(before, path)
           q == T!Parents(path)
<1>1. /\ pc = "enter" /\ T!iso_get_file_info(iso, path) = T!NotFound /\ pc' = "data"
      /\ iso' = IF T!HasRoom(iso, d) THEN [iso EXCEPT !.dir[d] = Append(@, T!Record)] ELSE iso
      /\ UNCHANGED <<op, path, size, stat, boot, pos, ret, ops, before>>
  BY DEF T!EnterNew
<1>2. /\ op = "add" /\ AddCall /\ AddAt /\ Sound(before) /\ path \in Known /\ pos \in Nat
      /\ Sound(iso) /\ Alike(before, iso) /\ iso.table = before.table
  BY <1>1 DEF TreeInv, CallsInv, TreeTypes, ArriveInv, Alike
<1>3. path \in Path /\ path # <<>> /\ Rootless(before.table, path) /\ q \in Path /\ Rootless(before.table, q)
  BY <1>2, KnownPath, PathParts, RootlessParents
<1>4. FileWas = T!NotFound
  BY <1>1, <1>2, <1>3, AlikeFinds DEF FileWas
<1>5. c = d /\ (d # 0 => Reached(before.table, q, d) /\ d \in 1 .. Len(before.table))
  <2>1. q # <<>> => /\ T!iso_get_file_info(before, q) = T!NotFound
                         <=> T!iso_get_file_info(iso, q) = T!NotFound
    BY <1>2, <1>3, AlikeFinds
  <2>2. CASE q # <<>> /\ T!iso_get_file_info(before, q) = T!NotFound
    BY <2>1, <2>2 DEF T!ParentOf, T!NotFound
  <2>3. CASE ~(q # <<>> /\ T!iso_get_file_info(before, q) = T!NotFound)
    <3>1. Reached(iso.table, q, d) /\ d \in 1 .. Len(iso.table)
      BY <1>2, <2>1, <2>3, ParentIs
    <3>2. Reached(before.table, q, c)
      BY <1>2, <2>3, AlikeSelf, ParentIs
    <3> HIDE DEF c, d, q
    <3>3. At(c, <<>>) = At(d, <<>>)
      BY <1>2, <3>1, <3>2 DEF Reached
    <3>4. At(c, <<>>).befor_dir_num = c /\ At(d, <<>>).befor_dir_num = d
      BY DEF At
    <3> QED
      BY <1>2, <3>1, <3>3, <3>4
  <2> QED
    BY <2>2, <2>3
<1>6. HasPlace <=> T!HasRoom(iso, d)
  <2>1. d # 0 => Len(iso.dir[d]) = Len(before.dir[d])
    BY <1>2, <1>5 DEF Alike
  <2> QED
    BY <1>5, <2>1 DEF HasPlace, T!HasRoom
<1> HIDE DEF c, d, q
<1>7. \A m, k : PosNow(m, k)' = PosNow(m, k) /\ SizeNow(m, k)' = SizeNow(m, k)
  <2> TAKE m, k
  <2>1. FileWas' = T!NotFound /\ T!use_boot_bin_flag' = T!use_boot_bin_flag /\ T!file_sector' = T!file_sector
    BY <1>1, <1>4, AddStays
  <2>2. ~Its(FileWas, m, k) /\ ~Its(FileWas, m, k)'
    BY <1>4, <2>1 DEF Its
  <2>3. Its(boot, m, k)' <=> Its(boot, m, k)
    BY <1>1 DEF Its
  <2> QED
    BY <1>1, <2>1, <2>2, <2>3 DEF PosNow, SizeNow
<1>8. CASE ~HasPlace
  <2>1. iso' = iso
    BY <1>1, <1>6, <1>8
  <2>2. Recorded'
    BY <1>1, <1>2, <1>7, <2>1 DEF AddAt, Recorded
  <2>3. AddAt'
    BY <1>1, <1>2, <1>8, <2>1, <2>2, AddStays DEF AddAt, ListedNow, VolumeNow
  <2> QED
    BY <1>1, <1>2, <2>3 DEF ArriveInv
<1>9. CASE HasPlace
  <2>1. /\ d # 0 /\ Len(iso.dir[d]) < MaxRecords /\ iso' = [iso EXCEPT !.dir[d] = Append(@, T!Record)]
        /\ Reached(before.table, q, d) /\ d \in 1 .. Len(before.table) /\ d \in 1 .. Len(iso.table)
    BY <1>1, <1>2, <1>5, <1>6, <1>9 DEF T!HasRoom
  <2>2. \A k \in 1 .. Len(iso.dir[d]) : iso.dir[d][k].name # T!File(path)
    BY <1>1, <1>2, <2>1, NameIsNew DEF q
  <2>3. T!Record \in T!Entry /\ ~T!Record.isdir /\ T!Record.name = T!File(path)
    <3>1. T!File(path) \in T!Name /\ size \in Nat
      BY <1>2, KnownPath, PathParts, FileSectors DEF TreeInv, Name, T!Name
    <3> QED
      BY <1>2, <3>1 DEF T!Record, T!Entry
  <2>4. /\ iso'.volume = iso.volume
        /\ \A m \in 1 .. Len(iso.table) : \A l \in 1 .. Len(iso.dir[m]) :
             iso'.dir[m][l] = iso.dir[m][l]
        /\ Len(iso'.dir[d]) = Len(iso.dir[d]) + 1 /\ iso'.dir[d][Len(iso.dir[d]) + 1] = T!Record
        /\ \A m \in 1 .. Len(iso.table) : m # d => iso'.dir[m] = iso.dir[m]
    <3> DEFINE e == T!Record
    <3>1. /\ e \in T!Entry /\ ~e.isdir /\ iso' = [iso EXCEPT !.dir[d] = Append(@, e)]
          /\ \A k \in 1 .. Len(iso.dir[d]) : iso.dir[d][k].name # e.name
      BY <2>1, <2>2, <2>3
    <3> HIDE DEF e
    <3>2. /\ iso'.volume = iso.volume
          /\ \A m \in 1 .. Len(iso.table) : \A l \in 1 .. Len(iso.dir[m]) :
               iso'.dir[m][l] = iso.dir[m][l]
          /\ Len(iso'.dir[d]) = Len(iso.dir[d]) + 1 /\ iso'.dir[d][Len(iso.dir[d]) + 1] = e
          /\ \A m \in 1 .. Len(iso.table) : m # d => iso'.dir[m] = iso.dir[m]
      BY <1>2, <2>1, <3>1, AppendKeeps
    <3> QED
      BY <3>2 DEF e
  <2>5. \A m \in 1 .. Len(before.table) : Len(iso.dir[m]) = Len(before.dir[m])
    BY <1>2 DEF Alike
  <2>6. \A m \in 1 .. Len(before.table) : \A l \in 1 .. Len(before.dir[m]) :
          iso'.dir[m][l] = iso.dir[m][l]
    <3> TAKE m \in 1 .. Len(before.table)
    <3> TAKE l \in 1 .. Len(before.dir[m])
    <3>1. m \in 1 .. Len(iso.table) /\ l \in 1 .. Len(iso.dir[m])
      BY <1>2, <2>5
    <3> QED
      BY <2>4, <3>1
  <2>7. Recorded'
    <3>1. ASSUME NEW m \in 1 .. Len(before.table), NEW l \in 1 .. Len(before.dir[m])
          PROVE  iso'.dir[m][l].pos = PosNow(m, l)' /\ iso'.dir[m][l].size = SizeNow(m, l)'
      <4>1. iso.dir[m][l].pos = PosNow(m, l) /\ iso.dir[m][l].size = SizeNow(m, l)
        BY <1>2 DEF AddAt, Recorded
      <4> QED
        BY <1>7, <2>6, <4>1
    <3> QED
      BY <1>1, <3>1 DEF Recorded
  <2>8. EnteredIn(c)'
    <3>1. T!Record' = T!Record
      BY <1>1 DEF T!Record
    <3>2. /\ Len(iso'.dir[d]) = Len(before.dir[d]) + 1
          /\ iso'.dir[d][Len(before.dir[d]) + 1] = T!Record
      BY <2>1, <2>4, <2>5
    <3>3. \A m \in 1 .. Len(before.table) : m # d => Len(iso'.dir[m]) = Len(before.dir[m])
      BY <1>2, <2>4, <2>5
    <3>4. c' = c /\ q' = q
      BY <1>1 DEF c, q
    <3> QED
      BY <1>1, <1>5, <2>1, <3>1, <3>2, <3>3, <3>4 DEF EnteredIn, q
  <2>9. AddAt'
    BY <1>1, <1>2, <1>4, <1>5, <1>9, <2>4, <2>7, <2>8, AddStays
    DEF AddAt, ListedNow, VolumeNow, c
  <2> QED
    BY <1>1, <1>2, <2>9 DEF ArriveInv
<1> QED
  BY <1>8, <1>9

LEMMA EnterOldArrives ==
  ASSUME TreeInv, TreeInv', ArriveInv, T!EnterPos \/ T!EnterSize
  PROVE  ArriveInv'
<1>1. CASE T!EnterPos
  <2>1. /\ pc = "enter" /\ stat' = T!iso_get_file_info(iso, path) /\ stat' # T!NotFound
        /\ T!SetRecord(stat', "pos", pos) /\ pc' = "entersize"
        /\ UNCHANGED <<op, path, size, boot, pos, ret, ops, before>>
    BY <1>1 DEF T!EnterPos
  <2>2. /\ op = "add" /\ AddCall /\ AddAt /\ Sound(before) /\ path \in Known /\ pos \in Nat
        /\ Plain(before, FileWas)
    BY <2>1 DEF TreeInv, CallsInv, TreeTypes, ArriveInv, AddCall, FileWas
  <2>3. FileWas # T!NotFound /\ stat'.dir = FileWas.dir /\ stat'.record = FileWas.record
    BY <2>1, <2>2 DEF TreeInv, CallsInv, AddCall, FileWas
  <2>4. Within(before, FileWas) /\ pos \in Int
    BY <2>2, <2>3, Found DEF Within, FileWas
  <2>5. /\ Alike(before, iso') /\ iso'.volume = iso.volume
        /\ \A d \in 1 .. Len(before.table) : \A k \in 1 .. Len(before.dir[d]) :
             /\ iso'.dir[d][k].pos = IF Its(FileWas, d, k) THEN pos ELSE iso.dir[d][k].pos
             /\ iso'.dir[d][k].size = iso.dir[d][k].size
    BY <2>1, <2>2, <2>3, <2>4, RecordIs
  <2>6. Recorded'
    BY <2>1, <2>2, <2>5, AddStays DEF AddAt, Recorded, PosNow, SizeNow
  <2>7. AddAt'
    BY <2>1, <2>2, <2>5, <2>6, AddStays DEF AddAt, ListedNow, VolumeNow
  <2> QED
    BY <2>1, <2>2, <2>7 DEF ArriveInv
<1>2. CASE T!EnterSize
  <2>1. /\ pc = "entersize" /\ T!SetRecord(stat, "size", size) /\ pc' = "data"
        /\ UNCHANGED <<op, path, size, stat, boot, pos, ret, ops, before>>
    BY <1>2 DEF T!EnterSize
  <2>2. /\ op = "add" /\ AddCall /\ AddAt /\ Sound(before) /\ path \in Known /\ size \in Int
        /\ Plain(before, FileWas)
        /\ FileWas # T!NotFound /\ stat.dir = FileWas.dir /\ stat.record = FileWas.record
    BY <2>1, FileSectors DEF TreeInv, CallsInv, TreeTypes, ArriveInv, AddCall, FileWas
  <2>3. Within(before, FileWas)
    BY <2>2, Found DEF Within, FileWas
  <2>4. /\ Alike(before, iso') /\ iso'.volume = iso.volume
        /\ \A d \in 1 .. Len(before.table) : \A k \in 1 .. Len(before.dir[d]) :
             /\ iso'.dir[d][k].pos = iso.dir[d][k].pos
             /\ iso'.dir[d][k].size = IF Its(FileWas, d, k) THEN size ELSE iso.dir[d][k].size
    BY <2>1, <2>2, <2>3, RecordIs
  <2>5. Recorded'
    BY <2>1, <2>2, <2>4, AddStays DEF AddAt, Recorded, PosNow, SizeNow
  <2>6. AddAt'
    BY <2>1, <2>2, <2>4, <2>5, AddStays DEF AddAt, ListedNow, VolumeNow
  <2> QED
    BY <2>1, <2>2, <2>6 DEF ArriveInv
<1> QED
  BY <1>1, <1>2

LEMMA AddDataArrives == ASSUME TreeInv, TreeInv', ArriveInv, T!AddData PROVE ArriveInv'
<1>1. /\ pc = "data" /\ T!PutData(pos, T!file_sector) /\ pc' = "idle" /\ ret' = 0
      /\ UNCHANGED <<op, path, size, stat, boot, pos, ops, before>>
  BY DEF T!AddData, T!Return
<1>2. /\ op = "add" /\ AddCall /\ AddAt /\ Sound(before) /\ Sound(iso) /\ TreeTypes
      /\ pos \in Nat /\ T!file_sector \in Nat
  BY <1>1, FileSectors DEF TreeInv, CallsInv, TreeTypes, ArriveInv
<1>3. /\ Sound(iso') /\ Alike(iso, iso') /\ iso'.dir = iso.dir /\ iso'.volume = iso.volume
  BY <1>1, <1>2, PutDataKeeps
<1>4. T!Given' <=> T!Given
  BY <1>1, GivenStays
<1>5. ASSUME T!Given PROVE Written(pos)'
  <2> DEFINE m == T!file_sector
  <2>1. pos .. pos + m - 1 \subseteq 0 .. before.volume + m - 1
    BY <1>1, <1>2, <1>5, AddFree
  <2>2. 0 .. before.volume + m - 1 \subseteq DOMAIN iso.data
    BY <1>2 DEF TreeTypes, AddCall
  <2>3. \A n \in 0 .. m - 1 : pos + n \in DOMAIN iso.data
    <3> SUFFICES ASSUME NEW n \in 0 .. m - 1 PROVE pos + n \in pos .. pos + m - 1
      BY <2>1, <2>2
    <3> HIDE DEF m
    <3> QED
      BY <1>2 DEF m
  <2>4. \A n \in 0 .. T!file_sector' - 1 : iso'.data[pos + n] = T!NewData(n)'
    BY <1>1, <1>2, <2>3, DataIs
  <2> QED
    BY <1>1, <2>4 DEF Written
<1>6. Recorded'
  BY <1>1, <1>2, <1>3, AddStays DEF AddAt, Recorded, PosNow, SizeNow
<1>7. ListedNow'
  <2>1. T!Record' = T!Record /\ T!Parents(path)' = T!Parents(path)
    BY <1>1 DEF T!Record
  <2>2. \A d : EnteredIn(d)' = EnteredIn(d)
    BY <1>1, <1>3, <2>1 DEF EnteredIn
  <2>3. Alike(before, iso) => Alike(before, iso')
    BY <1>3 DEF Alike
  <2> QED
    BY <1>1, <1>2, <2>2, <2>3, AddStays DEF AddAt, ListedNow
<1>8. AddAt'
  BY <1>1, <1>2, <1>3, <1>4, <1>5, <1>6, <1>7, AddStays DEF AddAt, VolumeNow
<1> QED
  BY <1>1, <1>2, <1>8 DEF ArriveInv

LEMMA ArriveStep == ASSUME TreeInv, TreeInv', ArriveInv, T!Next PROVE ArriveInv'
<1>1. CASE T!Find
  <2>1. op' = "find"
    BY <1>1 DEF T!Find, T!Begin
  <2> QED
    BY <2>1 DEF ArriveInv
<1>2. CASE T!Die
  <2>1. pc' = "idle" /\ ret' = -1
    BY <1>2 DEF T!Die, T!Return
  <2> QED
    BY <2>1 DEF ArriveInv
<1> QED
  BY <1>1, <1>2, WriteArrives, AddArrives, BootArrives, EnterNewArrives, EnterOldArrives,
     AddDataArrives DEF T!Next

LEMMA ArriveStarts == ASSUME T!Init PROVE ArriveInv
BY DEF T!Init, ArriveInv

LEMMA ArriveStutter ==
  ASSUME ArriveInv, UNCHANGED <<shared, onlyTree>>
  PROVE  ArriveInv'
<1>1. UNCHANGED <<pc, op, pos, size, ret, ops, iso, path, stat, boot, before>>
  BY DEF shared, onlyTree
<1>2. (T!Given' <=> T!Given)
  BY <1>1, GivenStays
<1>3. /\ \A n : T!NewData(n)' = T!NewData(n)
      /\ \A p : Written(p)' = Written(p)
  BY <1>1 DEF T!NewData, Written, T!file_sector
<1>4. WriteAt' <=> WriteAt
  BY <1>1, <1>2, <1>3 DEF WriteAt, Its
<1>5. Recorded' <=> Recorded
  BY <1>1, AddStays DEF Recorded, PosNow, SizeNow
<1>6. ListedNow' <=> ListedNow
  <2>1. T!Record' = T!Record
    BY <1>1 DEF T!Record
  <2>2. \A d : EnteredIn(d)' = EnteredIn(d)
    BY <1>1, <2>1 DEF EnteredIn
  <2> QED
    BY <1>1, <2>2, AddStays DEF ListedNow
<1>7. AddAt' <=> AddAt
  BY <1>1, <1>2, <1>3, <1>5, <1>6, AddStays DEF AddAt, VolumeNow
<1> QED
  BY <1>1, <1>4, <1>7 DEF ArriveInv

-----------------------------------------------------------------------------
(***************************************************************************)
(* The image when a call is complete.                                      *)
(***************************************************************************)
Arrived ==
  LET now == T!iso_get_file_info(iso, path)
  IN now # T!NotFound /\ now.size = size /\ Written(now.pos) /\ T!Apart(iso)

(* One file has new sectors; of the others none is there.                  *)
LEMMA ApartStays ==
  ASSUME NEW x, NEW P, T!Apart(before), before.volume \in Int, iso.volume \in Int,
         before.volume <= iso.volume, P \subseteq 0 .. iso.volume - 1,
         x \in T!FilesOf(iso) => T!Extent(iso, x) \subseteq P,
         \A r \in T!FilesOf(iso) : r # x =>
           /\ r \in T!FilesOf(before) /\ T!Extent(iso, r) \subseteq T!Extent(before, r)
           /\ T!Extent(iso, r) \cap P = {}
  PROVE  T!Apart(iso)
<1>1. 0 .. before.volume - 1 \subseteq 0 .. iso.volume - 1
  OBVIOUS
<1>2. ASSUME NEW r \in T!FilesOf(iso) PROVE T!Extent(iso, r) \subseteq 0 .. iso.volume - 1
  BY <1>1, <1>2 DEF T!Apart
<1>3. ASSUME NEW r \in T!FilesOf(iso), NEW q \in T!FilesOf(iso), r # q
      PROVE  T!Extent(iso, r) \cap T!Extent(iso, q) = {}
  <2>1. CASE r # x /\ q # x
    <3>1. T!Extent(before, r) \cap T!Extent(before, q) = {}
      BY <1>3, <2>1 DEF T!Apart
    <3> QED
      BY <2>1, <3>1
  <2>2. CASE r = x \/ q = x
    BY <1>3, <2>2
  <2> QED
    BY <2>1, <2>2
<1> QED
  BY <1>2, <1>3 DEF T!Apart

LEMMA ExtentIs ==
  ASSUME NEW img, NEW d, NEW k
  PROVE  T!Extent(img, <<d, k>>) =
           img.dir[d][k].pos .. img.dir[d][k].pos + T!Sectors(img.dir[d][k].size) - 1
BY DEF T!Extent, T!SectorsFrom, T!Rec

(* The files of an image, by directory and record.                         *)
LEMMA FilesAre ==
  ASSUME NEW img, Sound(img)
  PROVE  /\ \A r \in T!FilesOf(img) :
              /\ r = <<r[1], r[2]>> /\ r[1] \in 1 .. Len(img.table)
              /\ r[2] \in 1 .. Len(img.dir[r[1]]) /\ ~img.dir[r[1]][r[2]].isdir
         /\ \A d \in 1 .. Len(img.table) : \A k \in 1 .. Len(img.dir[d]) :
              ~img.dir[d][k].isdir => <<d, k>> \in T!FilesOf(img)
<1>1. /\ Len(img.dir) = Len(img.table)
      /\ \A d \in 1 .. Len(img.table) :
           /\ DOMAIN img.dir[d] = 1 .. Len(img.dir[d])
           /\ \A k \in 1 .. Len(img.dir[d]) : <<d, k>> \in T!Records(img)
  BY Shape DEF Sound, T!IsImage
<1>2. ASSUME NEW r \in T!FilesOf(img)
      PROVE  /\ r = <<r[1], r[2]>> /\ r[1] \in 1 .. Len(img.table)
             /\ r[2] \in 1 .. Len(img.dir[r[1]]) /\ ~img.dir[r[1]][r[2]].isdir
  <2>1. r \in T!Records(img) /\ ~T!Rec(img, r).isdir
    BY DEF T!FilesOf
  <2> QED
    BY <1>1, <2>1, Listed
<1>3. ASSUME NEW d \in 1 .. Len(img.table), NEW k \in 1 .. Len(img.dir[d]), ~img.dir[d][k].isdir
      PROVE  <<d, k>> \in T!FilesOf(img)
  BY <1>1, <1>3 DEF T!FilesOf, T!Rec
<1> QED
  BY <1>2, <1>3

(* Whose record is none of the call's.                                     *)
LEMMA NotMine ==
  ASSUME TreeTypes, T!Given, NEW d, NEW k, ~Its(FileWas, d, k),
         op = "add" => boot = T!iso_get_file_info(before, BootPath) /\ ~Its(boot, d, k)
  PROVE  <<d, k>> \notin T!Mine
<1>1. Sound(before) /\ path \in Known /\ BootPath \in Known /\ T!Unlike(before, path)
      /\ (op = "add" => T!Unlike(before, BootPath))
  BY DEF TreeTypes, Known, T!Given
<1>2. <<d, k>> \notin T!Exact(before, path)
  BY <1>1, FoundThere DEF FileWas, Its
<1>3. op = "add" => <<d, k>> \notin T!Exact(before, BootPath)
  BY <1>1, FoundThere DEF Its
<1> QED
  BY <1>2, <1>3 DEF T!Mine

LEMMA WriteDone ==
  ASSUME TreeInv, WriteAt, op = "write", pc = "idle", ret = 0, T!Given
  PROVE  Arrived
<1> DEFINE n == T!file_sector
           a == stat.dir
           k == stat.record
           P == stat.pos .. stat.pos + n - 1
<1>1. /\ Sound(before) /\ Sound(iso) /\ Alike(before, iso) /\ path \in Known /\ WriteCall /\ TreeTypes
      /\ stat # T!NotFound /\ iso.volume = before.volume /\ Written(stat.pos) /\ stat = FileWas
      /\ n \in Nat /\ before.volume \in Nat /\ T!Apart(before)
  BY FileSectors DEF TreeInv, TreeTypes, CallsInv, WriteCall, WriteAt, FileWas, Sound, T!IsImage, T!Given
<1>2. /\ a \in 1 .. Len(before.table) /\ k \in 1 .. Len(before.dir[a])
      /\ stat = Stat(before, a, k) /\ stat.pos \in Nat /\ stat.size \in Int
  BY <1>1, Found DEF WriteCall
<1>3. stat.pos = before.dir[a][k].pos
  <2> HIDE DEF a, k
  <2> QED
    BY <1>2 DEF Stat
<1>4. iso.dir[a][k].pos = stat.pos /\ iso.dir[a][k].size = size
  BY <1>1, <1>2, <1>3 DEF WriteAt, Its
<1> DEFINE now == T!iso_get_file_info(iso, path)
<1>5. now # T!NotFound /\ now.dir = a /\ now.record = k
  <2>1. path \in Path /\ path # <<>> /\ Rootless(before.table, path)
    BY <1>1, KnownPath
  <2>2. FileWas = T!iso_get_file_info(before, path)
    BY DEF FileWas
  <2> QED
    BY <1>1, <2>1, <2>2, AlikeFinds
<1>6. now.pos = stat.pos /\ now.size = size
  <2>1. now = Stat(iso, a, k)
    <3>1. now = T!iso_get_file_info(iso, path)
      OBVIOUS
    <3> HIDE DEF now, a, k
    <3> QED
      BY <1>1, <1>5, <3>1, Found
  <2> HIDE DEF now, a, k
  <2> QED
    BY <1>4, <2>1 DEF Stat
<1>7. /\ P \subseteq 0 .. before.volume - 1
      /\ \A r \in T!FilesOf(before) \ T!Mine : \A s \in T!Extent(before, r) : s \notin P
  BY <1>1, WriteFree
<1>8. T!Extent(iso, <<a, k>>) = P
  BY <1>4, ExtentIs DEF T!file_sector
<1>9. ASSUME NEW r \in T!FilesOf(iso), r # <<a, k>>
      PROVE  /\ r \in T!FilesOf(before) /\ T!Extent(iso, r) \subseteq T!Extent(before, r)
             /\ T!Extent(iso, r) \cap P = {}
  <2> DEFINE d == r[1]
             l == r[2]
  <2>1. r = <<d, l>> /\ d \in 1 .. Len(iso.table) /\ l \in 1 .. Len(iso.dir[d]) /\ ~iso.dir[d][l].isdir
    BY <1>1, FilesAre
  <2>2. d \in 1 .. Len(before.table) /\ l \in 1 .. Len(before.dir[d]) /\ ~before.dir[d][l].isdir
    <3>1. d \in 1 .. Len(before.table) /\ l \in 1 .. Len(before.dir[d])
      BY <1>1, <2>1 DEF Alike
    <3>2. before.dir[d][l].isdir = iso.dir[d][l].isdir
      BY <1>1, <3>1 DEF Alike
    <3> QED
      BY <2>1, <3>1, <3>2
  <2>3. ~Its(stat, d, l)
    BY <1>9, <2>1 DEF Its
  <2> HIDE DEF a, k, d, l
  <2>4. iso.dir[d][l].pos = before.dir[d][l].pos /\ iso.dir[d][l].size = before.dir[d][l].size
    BY <2>2, <2>3 DEF WriteAt
  <2>5. T!Extent(iso, <<d, l>>) = T!Extent(before, <<d, l>>)
    BY <2>4, ExtentIs
  <2>6. <<d, l>> \in T!FilesOf(before)
    BY <1>1, <2>2, FilesAre
  <2>7. <<d, l>> \notin T!Mine
    BY <1>1, <2>3, NotMine
  <2> QED
    BY <1>7, <2>1, <2>5, <2>6, <2>7
<1> HIDE DEF P, now, a, k
<1>10. T!Apart(iso)
  <2>1. before.volume \in Int /\ iso.volume \in Int /\ before.volume <= iso.volume
        /\ P \subseteq 0 .. iso.volume - 1
    BY <1>1, <1>7
  <2> QED
    BY <1>1, <1>8, <1>9, <2>1, ApartStays
<1> QED
  BY <1>1, <1>5, <1>6, <1>10 DEF Arrived, now

(* What is left of BOOT.BIN is behind the file that took its sectors.      *)
LEMMA BootLeft ==
  ASSUME TreeTypes, AddCall, AddAt, op = "add", pc = "idle", T!Given, T!use_boot_bin_flag,
         NEW d, NEW k, Its(boot, d, k), ~Its(FileWas, d, k)
  PROVE  /\ T!Extent(iso, <<d, k>>) \subseteq T!Extent(before, <<d, k>>)
         /\ T!Extent(iso, <<d, k>>) \cap pos .. pos + T!file_sector - 1 = {}
<1> DEFINE n == T!file_sector
           m == T!Sectors(boot.size)
<1>1. boot # T!NotFound /\ boot.dir = d /\ boot.record = k
  BY DEF Its
<1>2. /\ T!Extent(before, <<d, k>>) = boot.pos .. boot.pos + m - 1
      /\ boot.pos \in Nat /\ boot.size \in Int /\ m \in Int /\ n <= m /\ n \in Nat
  BY <1>1, BootGives, FileSectors
<1>3. pos = boot.pos
  BY DEF AddCall
<1>4. d \in 1 .. Len(before.table) /\ k \in 1 .. Len(before.dir[d])
  <2>1. Sound(before) /\ BootPath \in Known
    BY DEF TreeTypes, Known
  <2> QED
    BY <1>1, <2>1, Found DEF AddCall
<1>5. iso.dir[d][k].pos = boot.pos + n /\ iso.dir[d][k].size = boot.size - n * SectorSize
  BY <1>4 DEF AddAt, Recorded, PosNow, SizeNow
<1>6. T!Sectors(boot.size - n * SectorSize) = m - n
  <2> HIDE DEF n
  <2> QED
    BY <1>2, SectorsLeft
<1>7. T!Extent(iso, <<d, k>>) = boot.pos + n .. boot.pos + n + (m - n) - 1
  BY <1>5, <1>6, ExtentIs
<1> HIDE DEF n, m
<1>8. boot.pos + n .. boot.pos + n + (m - n) - 1 \subseteq boot.pos .. boot.pos + m - 1
  BY <1>2
<1>9. (boot.pos + n .. boot.pos + n + (m - n) - 1) \cap (boot.pos .. boot.pos + n - 1) = {}
  BY <1>2
<1> QED
  BY <1>2, <1>3, <1>7, <1>8, <1>9 DEF n

(* Each other file is where it was, or in a part of it, and not there.     *)
LEMMA AddApart ==
  ASSUME TreeTypes, AddCall, AddAt, op = "add", pc = "idle", T!Given,
         NEW d \in 1 .. Len(before.table), NEW k \in 1 .. Len(before.dir[d]),
         ~before.dir[d][k].isdir, ~Its(FileWas, d, k)
  PROVE  /\ <<d, k>> \in T!FilesOf(before)
         /\ T!Extent(iso, <<d, k>>) \subseteq T!Extent(before, <<d, k>>)
         /\ T!Extent(iso, <<d, k>>) \cap pos .. pos + T!file_sector - 1 = {}
<1> DEFINE n == T!file_sector
           P == pos .. pos + n - 1
<1>1. /\ Sound(before) /\ n \in Nat /\ before.volume \in Nat
      /\ boot = T!iso_get_file_info(before, BootPath)
  BY FileSectors DEF TreeTypes, Sound, T!IsImage, AddCall
<1>2. <<d, k>> \in T!FilesOf(before)
  BY <1>1, FilesAre
<1>3. CASE Its(boot, d, k) /\ T!use_boot_bin_flag
  BY <1>2, <1>3, BootLeft
<1>4. CASE ~(Its(boot, d, k) /\ T!use_boot_bin_flag)
  <2>1. iso.dir[d][k].pos = before.dir[d][k].pos /\ iso.dir[d][k].size = before.dir[d][k].size
    BY <1>4 DEF AddAt, Recorded, PosNow, SizeNow
  <2>2. T!Extent(iso, <<d, k>>) = T!Extent(before, <<d, k>>)
    BY <2>1, ExtentIs
  <2>3. T!Extent(before, <<d, k>>) \cap P = {}
    <3>1. CASE Its(boot, d, k)
      <4>1. pos = before.volume
        BY <1>4, <3>1 DEF AddCall
      <4>2. T!Extent(before, <<d, k>>) \subseteq 0 .. before.volume - 1
        BY <1>2 DEF T!Given, T!Apart
      <4> HIDE DEF n
      <4>3. (0 .. before.volume - 1) \cap P = {}
        BY <1>1, <4>1
      <4> QED
        BY <4>2, <4>3
    <3>2. CASE ~Its(boot, d, k)
      <4>1. <<d, k>> \notin T!Mine
        BY <1>1, <3>2, NotMine
      <4>2. \A s \in T!Extent(before, <<d, k>>) : s \notin P
        BY <1>2, <4>1, AddFree
      <4> QED
        BY <4>2
    <3> QED
      BY <3>1, <3>2
  <2> QED
    BY <1>2, <2>2, <2>3
<1> QED
  BY <1>3, <1>4

(* The file that is added has its sectors within the volume.               *)
LEMMA AddWithin ==
  ASSUME TreeTypes, AddCall, AddAt, op = "add", pc = "idle", T!Given
  PROVE  /\ pos .. pos + T!file_sector - 1 \subseteq 0 .. iso.volume - 1
         /\ before.volume \in Int /\ iso.volume \in Int /\ before.volume <= iso.volume
         /\ T!Apart(before)
<1>1. before.volume \in Nat /\ T!file_sector \in Nat /\ T!Apart(before)
  BY FileSectors DEF TreeTypes, Sound, T!IsImage, T!Given
<1>2. iso.volume = VolumeNow
  BY DEF AddAt
<1>3. CASE T!use_boot_bin_flag
  <2>1. iso.volume = before.volume
    BY <1>2, <1>3 DEF VolumeNow
  <2> QED
    BY <1>1, <1>3, <2>1, AddFree
<1>4. CASE ~T!use_boot_bin_flag
  <2>1. iso.volume = before.volume + T!file_sector
    BY <1>2, <1>4 DEF VolumeNow
  <2>2. before.volume <= iso.volume /\ iso.volume \in Int
    BY <1>1, <2>1
  <2> QED
    BY <1>1, <2>1, <2>2, AddFree
<1> QED
  BY <1>3, <1>4

LEMMA AddDoneOld ==
  ASSUME TreeInv, AddAt, op = "add", pc = "idle", ret = 0, T!Given, FileWas # T!NotFound
  PROVE  Arrived
<1> DEFINE n == T!file_sector
           a == FileWas.dir
           k == FileWas.record
           P == pos .. pos + n - 1
<1>1. /\ Sound(before) /\ Sound(iso) /\ Alike(before, iso) /\ path \in Known /\ AddCall /\ TreeTypes
      /\ Written(pos)
  BY DEF TreeInv, TreeTypes, CallsInv, AddAt, ListedNow
<1>2. /\ a \in 1 .. Len(before.table) /\ k \in 1 .. Len(before.dir[a])
  BY <1>1, Found DEF FileWas
<1>3. iso.dir[a][k].pos = pos /\ iso.dir[a][k].size = size
  <2>1. Its(FileWas, a, k)
    BY DEF Its
  <2> HIDE DEF a, k
  <2> QED
    BY <1>2, <2>1 DEF AddAt, Recorded, PosNow, SizeNow
<1> DEFINE now == T!iso_get_file_info(iso, path)
<1>4. now # T!NotFound /\ now.dir = a /\ now.record = k
  <2>1. path \in Path /\ path # <<>> /\ Rootless(before.table, path)
    BY <1>1, KnownPath
  <2>2. FileWas = T!iso_get_file_info(before, path)
    BY DEF FileWas
  <2> QED
    BY <1>1, <2>1, <2>2, AlikeFinds
<1>5. now.pos = pos /\ now.size = size
  <2>1. now = Stat(iso, a, k)
    <3>1. now = T!iso_get_file_info(iso, path)
      OBVIOUS
    <3> HIDE DEF now, a, k
    <3> QED
      BY <1>1, <1>4, <3>1, Found
  <2> HIDE DEF now, a, k
  <2> QED
    BY <1>3, <2>1 DEF Stat
<1>6. T!Extent(iso, <<a, k>>) = P
  BY <1>3, ExtentIs DEF T!file_sector
<1>7. ASSUME NEW r \in T!FilesOf(iso), r # <<a, k>>
      PROVE  /\ r \in T!FilesOf(before) /\ T!Extent(iso, r) \subseteq T!Extent(before, r)
             /\ T!Extent(iso, r) \cap P = {}
  <2> DEFINE d == r[1]
             l == r[2]
  <2>1. r = <<d, l>> /\ d \in 1 .. Len(iso.table) /\ l \in 1 .. Len(iso.dir[d]) /\ ~iso.dir[d][l].isdir
    BY <1>1, FilesAre
  <2>2. d \in 1 .. Len(before.table) /\ l \in 1 .. Len(before.dir[d]) /\ ~before.dir[d][l].isdir
    <3>1. d \in 1 .. Len(before.table) /\ l \in 1 .. Len(before.dir[d])
      BY <1>1, <2>1 DEF Alike
    <3>2. before.dir[d][l].isdir = iso.dir[d][l].isdir
      BY <1>1, <3>1 DEF Alike
    <3> QED
      BY <2>1, <3>1, <3>2
  <2>3. ~Its(FileWas, d, l)
    BY <1>7, <2>1 DEF Its
  <2> HIDE DEF d, l
  <2> QED
    BY <1>1, <2>1, <2>2, <2>3, AddApart
<1> HIDE DEF P, now, a, k
<1>8. T!Apart(iso)
  BY <1>1, <1>6, <1>7, AddWithin, ApartStays DEF P
<1> QED
  BY <1>1, <1>4, <1>5, <1>8 DEF Arrived, now

LEMMA AddDoneNew ==
  ASSUME TreeInv, AddAt, op = "add", pc = "idle", ret = 0, T!Given, FileWas = T!NotFound, HasPlace
  PROVE  Arrived
<1> DEFINE n == T!file_sector
           a == T!ParentOf(before, path)
           k == Len(before.dir[a]) + 1
           P == pos .. pos + n - 1
           q == T!Parents(path)
<1>1. /\ Sound(before) /\ Sound(iso) /\ Grown(before, iso) /\ path \in Known /\ AddCall /\ TreeTypes
      /\ Written(pos) /\ EnteredIn(a) /\ iso.table = before.table
  BY DEF TreeInv, TreeTypes, CallsInv, AddAt, ListedNow, Grown
<1>2. /\ a \in 1 .. Len(before.table) /\ Reached(before.table, q, a)
      /\ Len(iso.dir[a]) = k /\ iso.dir[a][k] = T!Record
      /\ \A m \in 1 .. Len(before.table) : m # a => Len(iso.dir[m]) = Len(before.dir[m])
  BY <1>1 DEF EnteredIn
<1>3. /\ T!Record.name = T!File(path) /\ T!Record.pos = pos /\ T!Record.size = size
      /\ ~T!Record.isdir
  BY DEF T!Record
<1>4. /\ \A m \in 1 .. Len(before.table) :
           Len(before.dir[m]) \in Nat /\ DOMAIN iso.dir[m] = 1 .. Len(iso.dir[m])
  BY <1>1, Shape DEF Sound
<1>5. /\ path \in Path /\ path # <<>> /\ Rootless(iso.table, path) /\ T!File(path) \in Name
  BY <1>1, KnownPath, PathParts
<1> HIDE DEF a, n, q
<1>6. Hit(iso, path, a, k)
  <2>1. \A l \in 1 .. Len(before.dir[a]) : ~T!Matches(before.dir[a][l].name, T!File(path))
    BY <1>1, <1>2, NothingMatches DEF FileWas, q
  <2>2. \A l \in 1 .. Len(before.dir[a]) : iso.dir[a][l].name = before.dir[a][l].name
    BY <1>1, <1>2 DEF Grown
  <2>3. T!Matches(iso.dir[a][k].name, T!File(path))
    BY <1>2, <1>3, <1>5, MatchesItself
  <2>4. ASSUME NEW l \in DOMAIN iso.dir[a], T!Matches(iso.dir[a][l].name, T!File(path))
        PROVE  k <= l
    <3> DEFINE K == Len(before.dir[a])
    <3>1. l \notin 1 .. K
      BY <2>1, <2>2, <2>4
    <3>2. K \in Nat /\ l \in 1 .. k /\ k = K + 1
      BY <1>2, <1>4, <2>4
    <3> HIDE DEF K, k
    <3> QED
      BY <3>1, <3>2
  <2>5. k \in DOMAIN iso.dir[a]
    BY <1>2, <1>4
  <2> QED
    BY <1>1, <1>2, <2>3, <2>4, <2>5 DEF Hit, q
<1> DEFINE now == T!iso_get_file_info(iso, path)
<1> HIDE DEF k
<1>7. now # T!NotFound /\ now.pos = pos /\ now.size = size
  <2>1. PICK m \in 1 .. Len(iso.table) : \E l \in 1 .. Len(iso.dir[m]) :
          now = Stat(iso, m, l) /\ Hit(iso, path, m, l)
    BY <1>1, <1>5, <1>6, LookupIs
  <2>2. PICK l \in 1 .. Len(iso.dir[m]) : now = Stat(iso, m, l) /\ Hit(iso, path, m, l)
    BY <2>1
  <2>3. m = a /\ l = k
    BY <1>1, <1>2, <1>6, <2>2, HitOnce
  <2> HIDE DEF now
  <2>4. now.dir = a /\ now.pos = iso.dir[a][k].pos /\ now.size = iso.dir[a][k].size
    BY <2>2, <2>3 DEF Stat
  <2>5. a # 0 /\ T!NotFound.dir = 0
    BY <1>2 DEF T!NotFound
  <2> QED
    BY <1>2, <1>3, <2>4, <2>5
<1>8. T!Extent(iso, <<a, k>>) = P
  BY <1>2, <1>3, ExtentIs DEF n, T!file_sector
<1>9. ASSUME NEW r \in T!FilesOf(iso), r # <<a, k>>
      PROVE  /\ r \in T!FilesOf(before) /\ T!Extent(iso, r) \subseteq T!Extent(before, r)
             /\ T!Extent(iso, r) \cap P = {}
  <2> DEFINE d == r[1]
             l == r[2]
  <2>1. r = <<d, l>> /\ d \in 1 .. Len(iso.table) /\ l \in 1 .. Len(iso.dir[d]) /\ ~iso.dir[d][l].isdir
    BY <1>1, FilesAre
  <2>2. ~(d = a /\ l = k)
    BY <1>9, <2>1
  <2> HIDE DEF d, l
  <2>3. d \in 1 .. Len(before.table) /\ l \in 1 .. Len(before.dir[d])
    <3>1. d \in 1 .. Len(before.table) /\ l \in 1 .. Len(iso.dir[d])
      BY <1>1, <2>1
    <3>2. CASE d # a
      <4>1. Len(iso.dir[d]) = Len(before.dir[d])
        BY <1>2, <3>1, <3>2
      <4> QED
        BY <3>1, <4>1
    <3>3. CASE d = a
      <4> DEFINE K == Len(before.dir[a])
      <4>1. K \in Nat /\ l \in 1 .. k /\ l # k
        BY <1>2, <1>4, <2>2, <3>1, <3>3
      <4>2. k = K + 1
        BY DEF k
      <4> HIDE DEF K
      <4>3. l \in 1 .. K
        BY <4>1, <4>2
      <4> QED
        BY <3>1, <3>3, <4>3 DEF K
    <3> QED
      BY <3>2, <3>3
  <2>4. before.dir[d][l].isdir = iso.dir[d][l].isdir
    BY <1>1, <2>3 DEF Grown
  <2>5. ~before.dir[d][l].isdir
    BY <2>1, <2>4
  <2>6. ~Its(FileWas, d, l)
    BY DEF Its
  <2> QED
    BY <1>1, <2>1, <2>3, <2>5, <2>6, AddApart DEF n
<1> HIDE DEF P, now
<1>10. T!Apart(iso)
  BY <1>1, <1>8, <1>9, AddWithin, ApartStays DEF P, n
<1> QED
  BY <1>1, <1>7, <1>10 DEF Arrived, now

(* What was written or added is found, with its data.                      *)
LEMMA FilesArrive == ASSUME TreeInv, ArriveInv PROVE T!Arrives
<1> SUFFICES ASSUME pc = "idle", ret = 0, op = "write" \/ op = "add", T!Given,
                    op = "add" => ~T!NoPlace
             PROVE  Arrived
  BY DEF T!Arrives, T!Complete, Arrived, Written
<1>1. CASE op = "write"
  BY <1>1, WriteDone DEF ArriveInv
<1>2. CASE op = "add"
  <2>1. FileWas # T!NotFound \/ HasPlace
    <3>1. Sound(before) /\ path \in Known /\ T!Unlike(before, path)
      BY DEF TreeInv, TreeTypes, T!Given
    <3>2. FileWas = T!NotFound => T!Exact(before, path) = {}
      BY <3>1, FoundThere DEF FileWas
    <3> QED
      BY <1>2, <3>2 DEF T!NoPlace, HasPlace
  <2> QED
    BY <1>2, <2>1, AddDoneOld, AddDoneNew DEF ArriveInv
<1> QED
  BY <1>1, <1>2

LEMMA TreeTypesHold == ASSUME TreeInv PROVE T!TypeOK
<1>1. /\ Sound(iso) /\ Sound(before) /\ Within(before, stat)
      /\ iso.table = before.table
  BY DEF TreeInv, TreeTypes, Grown
<1>2. stat = T!NotFound \/ stat.record \in DOMAIN before.dir[stat.dir]
  BY <1>1, Shape DEF Sound, Within
<1>3. \A d \in DOMAIN iso.dir : Len(iso.dir[d]) <= MaxRecords
  BY <1>1 DEF Sound, T!IsImage
<1> QED
  BY <1>2, <1>3 DEF TreeInv, TreeTypes, Known, T!TypeOK

-----------------------------------------------------------------------------
FilesInv == layer = "tree" => TreeInv /\ ArriveInv

(* The tree of files keeps its invariant while the layer is its own.       *)
THEOREM FilesInvariant == Spec => []FilesInv
<1>1. Init => FilesInv
  BY TreeStarts, ArriveStarts DEF Init, FilesInv
<1>2. FilesInv /\ [Next]_vars => FilesInv'
  <2> SUFFICES ASSUME FilesInv, [Next]_vars, layer' = "tree"
               PROVE  TreeInv' /\ ArriveInv'
    BY DEF FilesInv
  <2>1. CASE Tree
    BY <2>1, TreeStep, ArriveStep DEF Tree, FilesInv
  <2>2. CASE Blocks
    BY <2>2 DEF Blocks
  <2>3. CASE UNCHANGED vars
    BY <2>3, TreeStutter, ArriveStutter DEF vars, FilesInv
  <2> QED
    BY <2>1, <2>2, <2>3 DEF Next
<1> QED
  BY <1>1, <1>2, PTL DEF Spec

(***************************************************************************)
(* The variables of both layers have their types, and each block of an     *)
(* image its room.                                                         *)
(***************************************************************************)
THEOREM TypesCorrect == Spec => []TypeOK
<1>1. Spec => [](layer \in {"blocks", "tree"})
  <2>1. Init => layer \in {"blocks", "tree"}
    BY DEF Init
  <2>2. layer \in {"blocks", "tree"} /\ [Next]_vars => (layer \in {"blocks", "tree"})'
    BY DEF Next, Blocks, Tree, vars
  <2> QED
    BY <2>1, <2>2, PTL DEF Spec
<1>2. layer \in {"blocks", "tree"} /\ LayerInv /\ FilesInv => TypeOK
  BY BlocksMeaning, TreeTypesHold DEF LayerInv, FilesInv, TypeOK
<1> QED
  BY <1>1, <1>2, LayerInvariant, FilesInvariant, PTL

(***************************************************************************)
(* iso_get_file_info finds the file whose directories and name are those   *)
(* of the path, and nothing if there is none, in path tables and           *)
(* directories of every size, whatever calls were cut off before.          *)
(***************************************************************************)
THEOREM FindsExactCorrect == Spec => []FindsExact
<1>1. FilesInv => FindsExact
  BY FilesFound DEF FilesInv, TreeInv, CallsInv, FindsExact
<1> QED
  BY <1>1, FilesInvariant, PTL

(***************************************************************************)
(* Neither iso_write nor iso_file_add, done or cut off at any step, changes*)
(* the record or the data of any file but the call's own and BOOT.BIN.     *)
(***************************************************************************)
THEOREM OthersKeptCorrect == Spec => []OthersKept
<1>1. FilesInv => OthersKept
  BY DEF FilesInv, TreeInv, OthersKept
<1> QED
  BY <1>1, FilesInvariant, PTL

(***************************************************************************)
(* After an iso_write or iso_file_add that returns 0 the file is found, in *)
(* its length and with its data, and files are still apart.                *)
(***************************************************************************)
THEOREM ArrivesCorrect == Spec => []Arrives
<1>1. FilesInv => Arrives
  BY FilesArrive DEF FilesInv, Arrives
<1> QED
  BY <1>1, FilesInvariant, PTL

=============================================================================
