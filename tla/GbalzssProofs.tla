---------------------------- MODULE GbalzssProofs ---------------------------
(***************************************************************************)
(* Proofs about lib/gbalzss.c: for every text and every size of the ring,  *)
(* the trees stay search trees, the match found is the longest, and the    *)
(* decoder gives the text back.                                            *)
(*                                                                         *)
(* The argument, a conjunct of EncInv each: the ring holds the text from   *)
(* Oldest to what has been read (BufferInv); the nodes are trees, ordered  *)
(* by their strings, with a rank for each that rises towards the root, and *)
(* the set of those above it, as witnesses (TreeInv); of strings that are  *)
(* alike the newest has a node (KeptInv); what the walk of InsertNode has  *)
(* left aside matches no better (Sought, a part of TreeInv), so that its   *)
(* match is in the end the best (BestInv); a match is with a string that   *)
(* is still held (MatchInv); the codes say the text from place to place,   *)
(* and the decoder's ring holds what they have said (DecodeInv).           *)
(***************************************************************************)
EXTENDS Gbalzss, FiniteSetTheorems, WellFoundedInduction, TLAPS

(* A set of numbers has a least one.                                       *)
LEMMA Least == ASSUME NEW T \in SUBSET Nat, T # {} PROVE \E x \in T : \A y \in T : x <= y
<1>1. \E x \in T : \A y \in T : ~ (<<y, x>> \in OpToRel(<, Nat))
  BY WFMin, NatLessThanWellFounded
<1>2. \E x \in T : \A y \in T : ~ (y < x)
  BY <1>1, Zenon DEF OpToRel
<1> QED
  BY <1>2

-----------------------------------------------------------------------------
Roots == N + 1 .. N + Bytes

Live(d) == {x \in Node : d[x] # NIL}

Fathers(d) == Live(d) \cup Roots

TreeTypes(l, rr, d) ==
  /\ l \in [0 .. N -> 0 .. N] /\ rr \in [0 .. N + Bytes -> 0 .. N]
  /\ d \in [0 .. N -> 0 .. N + Bytes]

IsSon(l, rr, d, y) == rr[d[y]] = y \/ (d[y] \in Node /\ l[d[y]] = y)

Shape(l, rr, d) ==
  /\ TreeTypes(l, rr, d)
  /\ \A y \in Live(d) : d[y] \in Fathers(d) /\ IsSon(l, rr, d, y)
  /\ \A x \in Live(d) : l[x] # NIL => l[x] \in Live(d) /\ d[l[x]] = x /\ l[x] # rr[x]
  /\ \A x \in Fathers(d) : rr[x] # NIL => rr[x] \in Live(d) /\ d[rr[x]] = x

LEMMA Places ==
  /\ N \in Nat /\ Bytes \in Nat \ {0} /\ N >= 2 * F /\ F \in Nat \ {0}
  /\ Node \subseteq 0 .. N /\ Roots \subseteq 0 .. N + Bytes /\ Node \cap Roots = {}
  /\ NIL \in 0 .. N /\ NIL \notin Node /\ NIL \notin Roots
  /\ 0 .. N = Node \cup {NIL} /\ 0 .. N \subseteq 0 .. N + Bytes
BY RingAssumption DEF Node, Roots, NIL

(* A new leaf.                                                             *)
Hung(l, rr, d, x, q, l2, r2, d2) ==
  /\ d2 = [d EXCEPT ![q] = x]
  /\ \/ rr[x] = NIL /\ r2 = [rr EXCEPT ![x] = q] /\ l2 = l
     \/ x \in Node /\ l[x] = NIL /\ l2 = [l EXCEPT ![x] = q] /\ r2 = rr

LEMMA AttachShape ==
  ASSUME NEW l, NEW rr, NEW d, Shape(l, rr, d), NEW q \in Node, d[q] = NIL,
         l[q] = NIL, rr[q] = NIL, NEW x \in Fathers(d), NEW l2, NEW r2, NEW d2,
         Hung(l, rr, d, x, q, l2, r2, d2)
  PROVE  Shape(l2, r2, d2) /\ Live(d2) = Live(d) \cup {q}
<1>1. TreeTypes(l, rr, d)
  BY DEF Shape
<1>2. x \in 0 .. N + Bytes /\ q \in 0 .. N /\ q # NIL /\ x # NIL /\ x # q
  BY Places DEF Fathers, Live
<1>3. TreeTypes(l2, r2, d2)
  <2>1. d2 \in [0 .. N -> 0 .. N + Bytes]
    BY <1>1, <1>2 DEF TreeTypes, Hung
  <2>2. l2 \in [0 .. N -> 0 .. N]
    BY <1>1, <1>2, Places DEF TreeTypes, Hung
  <2>3. r2 \in [0 .. N + Bytes -> 0 .. N]
    BY <1>1, <1>2 DEF TreeTypes, Hung
  <2> QED
    BY <2>1, <2>2, <2>3 DEF TreeTypes
<1>4. \A z \in 0 .. N : d2[z] = IF z = q THEN x ELSE d[z]
  BY <1>1 DEF TreeTypes, Hung
<1>5. Live(d2) = Live(d) \cup {q}
  BY <1>2, <1>4, Places DEF Live
<1>6. Fathers(d2) = Fathers(d) \cup {q}
  BY <1>5 DEF Fathers
<1>7. /\ \A z \in 0 .. N + Bytes : z # x => r2[z] = rr[z]
      /\ \A z \in 0 .. N : z # x => l2[z] = l[z]
      /\ r2[x] = IF r2 = rr THEN rr[x] ELSE q
      /\ x \in Node => l2[x] = IF l2 = l THEN l[x] ELSE q
      /\ r2[x] = q \/ (x \in Node /\ l2[x] = q)
  BY <1>1, <1>2, Places DEF TreeTypes, Hung
<1>8. ASSUME NEW y \in Live(d2) PROVE d2[y] \in Fathers(d2) /\ IsSon(l2, r2, d2, y)
  <2>1. CASE y = q
    BY <2>1, <1>2, <1>4, <1>6, <1>7 DEF IsSon
  <2>2. CASE y # q
    <3>1. y \in Live(d) /\ d2[y] = d[y] /\ d[y] \in Fathers(d) /\ IsSon(l, rr, d, y) /\ y # NIL
      BY <2>2, <1>4, <1>5, Places DEF Shape, Live
    <3>2. CASE d[y] # x
      <4>1. d[y] \in 0 .. N + Bytes /\ d[y] \in Fathers(d2)
        BY <3>1, <1>6, Places DEF Fathers, Live
      <4>2. r2[d[y]] = rr[d[y]] /\ (d[y] \in Node => l2[d[y]] = l[d[y]])
        BY <4>1, <3>2, <1>7, Places
      <4> QED
        BY <3>1, <4>1, <4>2 DEF IsSon
    <3>3. CASE d[y] = x
      BY <3>1, <3>3, <1>6, <1>7, Places DEF IsSon, Fathers, Live, Hung
    <3> QED
      BY <3>2, <3>3
  <2> QED
    BY <2>1, <2>2
<1>9. ASSUME NEW y \in Live(d2), l2[y] # NIL
      PROVE  l2[y] \in Live(d2) /\ d2[l2[y]] = y /\ l2[y] # r2[y]
  <2>1. CASE y = q
    BY <2>1, <1>2, <1>7, <1>9
  <2>2. CASE y # q /\ l2[y] = q
    <3>1. y = x /\ l[y] = NIL /\ r2 = rr /\ y \in Live(d)
      <4>1. y \in Live(d) /\ y \in 0 .. N
        BY <2>2, <1>5, Places DEF Live
      <4>2. l[y] # q
        BY <4>1, <1>2 DEF Shape, Live
      <4> QED
        BY <4>1, <4>2, <2>2, <1>2, <1>7 DEF Hung
    <3>2. r2[y] # q
      <4>1. y \in Fathers(d)
        BY <3>1 DEF Fathers
      <4>2. rr[y] # q
        BY <4>1, <1>2 DEF Shape, Live
      <4> QED
        BY <3>1, <4>2
    <3> QED
      BY <2>2, <3>1, <3>2, <1>2, <1>4, <1>5
  <2>3. CASE y # q /\ l2[y] # q
    <3>1. y \in Live(d) /\ y \in 0 .. N /\ y \in Node
      BY <2>3, <1>5, Places DEF Live
    <3>2. l[y] = l2[y]
      BY <2>3, <3>1, <1>7
    <3>3. l[y] \in Live(d) /\ d[l[y]] = y /\ l[y] # rr[y]
      BY <3>1, <3>2, <1>9 DEF Shape
    <3>4. r2[y] = rr[y] \/ r2[y] = q
      BY <3>1, <1>7, Places
    <3>5. l[y] \in 0 .. N
      BY <3>3, Places DEF Live
    <3>6. d2[l[y]] = y /\ l[y] \in Live(d2)
      BY <2>3, <3>2, <3>3, <3>5, <1>4, <1>5
    <3> QED
      BY <2>3, <3>2, <3>3, <3>4, <3>6
  <2> QED
    BY <2>1, <2>2, <2>3
<1>10. ASSUME NEW y \in Fathers(d2), r2[y] # NIL PROVE r2[y] \in Live(d2) /\ d2[r2[y]] = y
  <2>0. y \in 0 .. N + Bytes
    BY Places DEF Fathers, Live
  <2>1. CASE y = q
    BY <2>0, <2>1, <1>2, <1>7, <1>10
  <2>2. CASE y # q /\ r2[y] = q
    <3>1. y \in Fathers(d)
      BY <2>2, <1>6
    <3>2. rr[y] # q
      BY <3>1, <1>2 DEF Shape, Live
    <3>3. y = x
      BY <3>2, <2>0, <2>2, <1>7
    <3> QED
      BY <2>2, <3>3, <1>4, <1>5, <1>2
  <2>3. CASE y # q /\ r2[y] # q
    <3>1. y \in Fathers(d)
      BY <2>3, <1>6
    <3>2. rr[y] = r2[y]
      BY <2>0, <2>3, <1>7
    <3>3. rr[y] \in Live(d) /\ d[rr[y]] = y
      BY <3>1, <3>2, <1>10 DEF Shape
    <3> QED
      BY <2>3, <3>2, <3>3, <1>4, <1>5, Places DEF Live
  <2> QED
    BY <2>1, <2>2, <2>3
<1> QED
  BY <1>3, <1>5, <1>8, <1>9, <1>10 DEF Shape

(* A node in the place of another, as far as its father is concerned.      *)
Put(l, rr, d, q, o, l2, r2, d2) ==
  /\ d2 = [d EXCEPT ![q] = d[o], ![o] = NIL]
  /\ IF rr[d[o]] = o THEN r2 = [rr EXCEPT ![d[o]] = q] /\ l2 = l
                     ELSE l2 = [l EXCEPT ![d[o]] = q] /\ r2 = rr

LEMMA PutIs ==
  ASSUME NEW l, NEW rr, NEW d, TreeTypes(l, rr, d), NEW o \in Node, NEW q \in 0 .. N, q # o,
         NEW x, x = d[o], rr[x] = o \/ x \in Node, NEW l2, NEW r2, NEW d2,
         Put(l, rr, d, q, o, l2, r2, d2)
  PROVE  /\ TreeTypes(l2, r2, d2)
         /\ d2[o] = NIL /\ d2[q] = x /\ \A z \in 0 .. N : z # o /\ z # q => d2[z] = d[z]
         /\ \A z \in 0 .. N + Bytes : r2[z] = IF z = x /\ rr[x] = o THEN q ELSE rr[z]
         /\ \A z \in 0 .. N : l2[z] = IF z = x /\ rr[x] # o THEN q ELSE l[z]
<1>1. o \in 0 .. N /\ x \in 0 .. N + Bytes /\ (rr[x] # o => x \in 0 .. N) /\ NIL \in 0 .. N + Bytes
  BY Places DEF TreeTypes
<1>2. d2 = [d EXCEPT ![q] = x, ![o] = NIL]
  BY DEF Put
<1>3. d2 \in [0 .. N -> 0 .. N + Bytes]
  BY <1>1, <1>2 DEF TreeTypes
<1>4. d2[o] = NIL /\ d2[q] = x /\ \A z \in 0 .. N : z # o /\ z # q => d2[z] = d[z]
  BY <1>1, <1>2 DEF TreeTypes
<1>5. CASE rr[x] = o
  <2>1. r2 = [rr EXCEPT ![x] = q] /\ l2 = l
    BY <1>5 DEF Put
  <2> QED
    BY <1>1, <1>3, <1>4, <1>5, <2>1 DEF TreeTypes
<1>6. CASE rr[x] # o
  <2>1. l2 = [l EXCEPT ![x] = q] /\ r2 = rr
    BY <1>6 DEF Put
  <2> QED
    BY <1>1, <1>3, <1>4, <1>6, <2>1 DEF TreeTypes
<1> QED
  BY <1>5, <1>6

(* A node with one son at most goes, the son takes its place.              *)
OnlySon(l, rr, o, q) == (rr[o] = NIL /\ q = l[o]) \/ (l[o] = NIL /\ q = rr[o])

LEMMA OnlySonIs ==
  ASSUME NEW l, NEW rr, NEW d, Shape(l, rr, d), NEW o \in Live(d), d[o] # o,
         NEW q, OnlySon(l, rr, o, q)
  PROVE  /\ o \in Node /\ q \in 0 .. N /\ q # o /\ d[o] \in Fathers(d)
         /\ rr[d[o]] = o \/ d[o] \in Node
         /\ q # NIL => q \in Live(d) /\ d[q] = o
         /\ \A y \in Live(d) : d[y] = o => y = q
<1>1. TreeTypes(l, rr, d)
  BY DEF Shape
<1>2. o \in Node /\ o # NIL /\ o \in Fathers(d) /\ o \in 0 .. N /\ o \in 0 .. N + Bytes
  BY Places DEF Live, Fathers
<1>3. d[o] \in Fathers(d) /\ (rr[d[o]] = o \/ d[o] \in Node)
  BY DEF Shape, IsSon
<1>4. q \in 0 .. N
  BY <1>1, <1>2 DEF TreeTypes, OnlySon
<1>5. q # NIL => q \in Live(d) /\ d[q] = o
  BY <1>2 DEF Shape, OnlySon
<1>6. q # o
  BY <1>2, <1>5
<1>7. ASSUME NEW y \in Live(d), d[y] = o PROVE y = q
  <2>1. y # NIL /\ (rr[o] = y \/ l[o] = y)
    BY <1>7, Places DEF Shape, IsSon, Live
  <2> QED
    BY <2>1 DEF OnlySon
<1> QED
  BY <1>2, <1>3, <1>4, <1>5, <1>6, <1>7

LEMMA UnlinkShape ==
  ASSUME NEW l, NEW rr, NEW d, Shape(l, rr, d), NEW o \in Live(d), d[o] # o,
         NEW q, OnlySon(l, rr, o, q), NEW l2, NEW r2, NEW d2, Put(l, rr, d, q, o, l2, r2, d2)
  PROVE  Shape(l2, r2, d2) /\ Live(d2) = Live(d) \ {o}
<1> DEFINE x == d[o]
<1>1. TreeTypes(l, rr, d)
  BY DEF Shape
<1>2. /\ o \in Node /\ q \in 0 .. N /\ q # o /\ x \in Fathers(d)
      /\ rr[x] = o \/ x \in Node
      /\ q # NIL => q \in Live(d) /\ d[q] = o
      /\ \A y \in Live(d) : d[y] = o => y = q
  BY OnlySonIs
<1>3. x # o /\ x \in 0 .. N + Bytes /\ x # NIL /\ o # NIL /\ o \in 0 .. N
  BY <1>2, Places DEF Fathers, Live
<1> HIDE DEF x
<1>4. /\ TreeTypes(l2, r2, d2)
      /\ d2[o] = NIL /\ d2[q] = x /\ \A z \in 0 .. N : z # o /\ z # q => d2[z] = d[z]
      /\ \A z \in 0 .. N + Bytes : r2[z] = IF z = x /\ rr[x] = o THEN q ELSE rr[z]
      /\ \A z \in 0 .. N : l2[z] = IF z = x /\ rr[x] # o THEN q ELSE l[z]
  BY <1>1, <1>2, PutIs DEF x
<1>5. Live(d2) = Live(d) \ {o}
  <2>1. ASSUME NEW z \in Node PROVE d2[z] # NIL <=> d[z] # NIL /\ z # o
    <3>1. z \in 0 .. N /\ z # NIL
      BY Places
    <3>2. CASE z = o
      BY <3>2, <1>4
    <3>3. CASE z = q
      BY <3>1, <3>3, <1>2, <1>3, <1>4 DEF Live
    <3>4. CASE z # o /\ z # q
      BY <3>1, <3>4, <1>4
    <3> QED
      BY <3>2, <3>3, <3>4
  <2> QED
    BY <2>1 DEF Live
<1>6. Fathers(d2) = Fathers(d) \ {o}
  BY <1>2, <1>5, Places DEF Fathers
<1>7. rr[x] = o \/ (x \in Node /\ l[x] = o)
  BY DEF Shape, IsSon, x
<1>8. ASSUME NEW y \in Live(d2) PROVE d2[y] \in Fathers(d2) /\ IsSon(l2, r2, d2, y)
  <2>0. y \in Live(d) /\ y # o /\ y \in 0 .. N /\ y # NIL
    BY <1>5, Places DEF Live
  <2>1. CASE y = q
    <3>1. d2[y] = x /\ x \in Fathers(d2)
      BY <2>1, <1>2, <1>3, <1>4, <1>6
    <3>2. r2[x] = q \/ (x \in Node /\ l2[x] = q)
      BY <1>2, <1>3, <1>4, Places
    <3> QED
      BY <2>1, <3>1, <3>2 DEF IsSon
  <2>2. CASE y # q
    <3>1. d2[y] = d[y] /\ d[y] \in Fathers(d) /\ d[y] # o /\ IsSon(l, rr, d, y)
      BY <2>0, <2>2, <1>2, <1>4 DEF Shape
    <3>2. d[y] \in 0 .. N + Bytes /\ d[y] \in Fathers(d2)
      BY <3>1, <1>6, Places DEF Fathers, Live
    <3>3. CASE rr[d[y]] = y
      <4>1. r2[d[y]] = y
        BY <2>0, <3>2, <3>3, <1>4
      <4> QED
        BY <3>1, <3>2, <4>1 DEF IsSon
    <3>4. CASE d[y] \in Node /\ l[d[y]] = y
      <4>1. d[y] = x => rr[x] = o
        BY <2>0, <3>4, <1>7
      <4>2. l2[d[y]] = y
        BY <3>4, <4>1, <1>4, Places
      <4> QED
        BY <3>1, <3>2, <3>4, <4>2 DEF IsSon
    <3> QED
      BY <3>1, <3>3, <3>4 DEF IsSon
  <2> QED
    BY <2>1, <2>2
<1>9. ASSUME NEW y \in Live(d2), l2[y] # NIL
      PROVE  l2[y] \in Live(d2) /\ d2[l2[y]] = y /\ l2[y] # r2[y]
  <2>0. y \in Live(d) /\ y # o /\ y \in 0 .. N /\ y # NIL /\ y \in 0 .. N + Bytes /\ y \in Fathers(d)
    BY <1>5, Places DEF Live, Fathers
  <2>1. CASE y = x /\ rr[x] # o
    <3>1. l2[y] = q /\ r2[y] = rr[y] /\ q # NIL
      BY <2>0, <2>1, <1>4, <1>9
    <3>2. rr[y] # q
      BY <3>1, <2>0, <1>2 DEF Shape
    <3> QED
      BY <2>1, <3>1, <3>2, <1>2, <1>4, <1>5
  <2>2. CASE ~(y = x /\ rr[x] # o)
    <3>1. l2[y] = l[y]
      BY <2>0, <2>2, <1>4
    <3>2. l[y] \in Live(d) /\ d[l[y]] = y /\ l[y] # rr[y]
      BY <2>0, <3>1, <1>9 DEF Shape
    <3>3. l[y] # o
      BY <2>2, <3>2 DEF x
    <3>4. l[y] # q
      BY <2>0, <3>2, <1>2, <1>9, <3>1
    <3>5. l[y] # r2[y]
      BY <2>0, <3>2, <3>4, <1>4
    <3> QED
      BY <3>1, <3>2, <3>3, <3>4, <3>5, <1>4, <1>5, Places DEF Live
  <2> QED
    BY <2>1, <2>2
<1>10. ASSUME NEW y \in Fathers(d2), r2[y] # NIL PROVE r2[y] \in Live(d2) /\ d2[r2[y]] = y
  <2>0. y \in Fathers(d) /\ y # o /\ y \in 0 .. N + Bytes
    BY <1>6, Places DEF Live, Fathers
  <2>1. CASE y = x /\ rr[x] = o
    <3>1. r2[y] = q /\ q # NIL
      BY <2>0, <2>1, <1>4, <1>10
    <3> QED
      BY <2>1, <3>1, <1>2, <1>4, <1>5
  <2>2. CASE ~(y = x /\ rr[x] = o)
    <3>1. r2[y] = rr[y]
      BY <2>0, <2>2, <1>4
    <3>2. rr[y] \in Live(d) /\ d[rr[y]] = y
      BY <2>0, <3>1, <1>10 DEF Shape
    <3>3. rr[y] # o
      BY <2>2, <3>2 DEF x
    <3>4. rr[y] # q
      BY <2>0, <3>2, <1>2, <1>10, <3>1
    <3> QED
      BY <3>1, <3>2, <3>3, <3>4, <1>4, <1>5, Places DEF Live
  <2> QED
    BY <2>1, <2>2
<1> QED
  BY <1>4, <1>5, <1>8, <1>9, <1>10 DEF Shape

(* A new node gets the sons of another and takes its place.                *)
Sons(l, rr, d, q, o, l1, r1, d1) ==
  /\ l1 = [l EXCEPT ![q] = l[o]] /\ r1 = [rr EXCEPT ![q] = rr[o]]
  /\ d1 = [d EXCEPT ![l[o]] = q, ![rr[o]] = q]

LEMMA ReplaceIs ==
  ASSUME NEW l, NEW rr, NEW d, Shape(l, rr, d), NEW o \in Live(d), d[o] # o,
         NEW q \in Node, d[q] = NIL, NEW l1, NEW r1, NEW d1, Sons(l, rr, d, q, o, l1, r1, d1),
         NEW l2, NEW r2, NEW d2, Put(l1, r1, d1, q, o, l2, r2, d2), NEW x, x = d[o]
  PROVE  /\ TreeTypes(l2, r2, d2)
         /\ x \in Fathers(d) /\ x # q /\ x # o /\ q # o /\ o \in Node
         /\ d2[o] = NIL /\ d2[q] = x
         /\ \A z \in Node : z # o /\ z # q => d2[z] = IF d[z] = o THEN q ELSE d[z]
         /\ \A z \in 0 .. N + Bytes : r2[z] = IF z = x /\ rr[x] = o THEN q
                                              ELSE IF z = q THEN rr[o] ELSE rr[z]
         /\ \A z \in 0 .. N : l2[z] = IF z = x /\ rr[x] # o THEN q
                                      ELSE IF z = q THEN l[o] ELSE l[z]
<1>1. TreeTypes(l, rr, d)
  BY DEF Shape
<1>2. /\ o \in Node /\ o # NIL /\ o \in Fathers(d) /\ o \in 0 .. N /\ o \in 0 .. N + Bytes
      /\ q \in 0 .. N /\ q # NIL /\ q \in 0 .. N + Bytes /\ q \notin Live(d) /\ q # o
      /\ q \notin Fathers(d)
  BY Places DEF Live, Fathers
<1>3. x \in Fathers(d) /\ (rr[x] = o \/ (x \in Node /\ l[x] = o))
  BY DEF Shape, IsSon
<1>4. x # q /\ x # o /\ x # NIL /\ x \in 0 .. N + Bytes
  BY <1>2, <1>3, Places DEF Fathers, Live
<1>5. l[o] \in 0 .. N /\ rr[o] \in 0 .. N
  BY <1>1, <1>2 DEF TreeTypes
<1>6. /\ l[o] # NIL => l[o] \in Live(d) /\ d[l[o]] = o
      /\ rr[o] # NIL => rr[o] \in Live(d) /\ d[rr[o]] = o
  BY <1>2 DEF Shape
<1>7. l[o] # o /\ rr[o] # o /\ l[o] # q /\ rr[o] # q
  BY <1>2, <1>6
<1>8. l1 \in [0 .. N -> 0 .. N] /\ r1 \in [0 .. N + Bytes -> 0 .. N]
  BY <1>1, <1>5 DEF Sons, TreeTypes
<1>9. d1 \in [0 .. N -> 0 .. N + Bytes]
  BY <1>1, <1>2, <1>5 DEF Sons, TreeTypes
<1>10. /\ \A z \in 0 .. N : l1[z] = IF z = q THEN l[o] ELSE l[z]
       /\ \A z \in 0 .. N + Bytes : r1[z] = IF z = q THEN rr[o] ELSE rr[z]
  BY <1>1, <1>2 DEF Sons, TreeTypes
<1>11. \A z \in 0 .. N : d1[z] = IF z = l[o] \/ z = rr[o] THEN q ELSE d[z]
  BY <1>1, <1>5 DEF Sons, TreeTypes
<1>12. x = d1[o] /\ r1[x] = rr[x] /\ TreeTypes(l1, r1, d1)
  BY <1>2, <1>4, <1>7, <1>8, <1>9, <1>10, <1>11 DEF TreeTypes
<1>13. /\ TreeTypes(l2, r2, d2)
       /\ d2[o] = NIL /\ d2[q] = x /\ \A z \in 0 .. N : z # o /\ z # q => d2[z] = d1[z]
       /\ \A z \in 0 .. N + Bytes : r2[z] = IF z = x /\ r1[x] = o THEN q ELSE r1[z]
       /\ \A z \in 0 .. N : l2[z] = IF z = x /\ r1[x] # o THEN q ELSE l1[z]
  <2>1. r1[x] = o \/ x \in Node
    BY <1>3, <1>12
  <2> QED
    BY <1>2, <1>12, <2>1, PutIs
<1>14. ASSUME NEW z \in Node, z # o, z # q PROVE d2[z] = IF d[z] = o THEN q ELSE d[z]
  <2>1. z \in 0 .. N /\ z # NIL /\ d2[z] = d1[z]
    BY <1>13, <1>14, Places
  <2>2. z = l[o] \/ z = rr[o] <=> d[z] = o
    <3>1. d[z] = o => z \in Live(d)
      BY <1>2 DEF Live
    <3>2. d[z] = o => z = l[o] \/ z = rr[o]
      BY <3>1 DEF Shape, IsSon
    <3> QED
      BY <2>1, <3>2, <1>6
  <2> QED
    BY <2>1, <2>2, <1>11
<1> QED
  BY <1>2, <1>3, <1>4, <1>10, <1>12, <1>13, <1>14

LEMMA ReplaceShape ==
  ASSUME NEW l, NEW rr, NEW d, Shape(l, rr, d), NEW o \in Live(d), d[o] # o,
         NEW q \in Node, d[q] = NIL, NEW l1, NEW r1, NEW d1, Sons(l, rr, d, q, o, l1, r1, d1),
         NEW l2, NEW r2, NEW d2, Put(l1, r1, d1, q, o, l2, r2, d2)
  PROVE  Shape(l2, r2, d2) /\ Live(d2) = (Live(d) \ {o}) \cup {q}
<1> DEFINE x == d[o]
<1>1. TreeTypes(l, rr, d)
  BY DEF Shape
<1>2. /\ TreeTypes(l2, r2, d2)
      /\ x \in Fathers(d) /\ x # q /\ x # o /\ q # o /\ o \in Node
      /\ d2[o] = NIL /\ d2[q] = x
      /\ \A z \in Node : z # o /\ z # q => d2[z] = IF d[z] = o THEN q ELSE d[z]
      /\ \A z \in 0 .. N + Bytes : r2[z] = IF z = x /\ rr[x] = o THEN q
                                           ELSE IF z = q THEN rr[o] ELSE rr[z]
      /\ \A z \in 0 .. N : l2[z] = IF z = x /\ rr[x] # o THEN q
                                   ELSE IF z = q THEN l[o] ELSE l[z]
  BY ReplaceIs
<1>3. rr[x] = o \/ (x \in Node /\ l[x] = o)
  BY DEF Shape, IsSon
<1>4. x \in Node /\ l[x] = o => rr[x] # o
  <2>1. x \in Node => x \in Live(d)
    BY <1>2, Places DEF Fathers
  <2> QED
    BY <2>1, Places DEF Shape, Live
<1> HIDE DEF x
<1>5. Live(d2) = (Live(d) \ {o}) \cup {q}
  <2>1. x # NIL /\ q # NIL
    BY <1>2, Places DEF Fathers, Live
  <2> QED
    BY <1>2, <2>1, Places DEF Live
<1>6. Fathers(d2) = (Fathers(d) \ {o}) \cup {q}
  BY <1>2, <1>5, Places DEF Fathers
<1>7. q \notin Live(d) /\ q \notin Fathers(d) /\ q # NIL /\ q \in 0 .. N /\ q \in 0 .. N + Bytes
  BY Places DEF Fathers, Live
<1>8. ASSUME NEW y \in Live(d2) PROVE d2[y] \in Fathers(d2) /\ IsSon(l2, r2, d2, y)
  <2>1. CASE y = q
    <3>1. x \in Fathers(d2) /\ x \in 0 .. N + Bytes
      BY <1>2, <1>6, Places DEF Fathers, Live
    <3>2. r2[x] = q \/ (x \in Node /\ l2[x] = q)
      BY <3>1, <1>2, <1>3, Places
    <3> QED
      BY <2>1, <3>1, <3>2, <1>2 DEF IsSon
  <2>2. CASE y # q
    <3>1. y \in Live(d) /\ y # o /\ y \in Node /\ y # NIL
      BY <2>2, <1>5, Places DEF Live
    <3>2. d[y] \in Fathers(d) /\ d[y] \in 0 .. N + Bytes /\ (rr[d[y]] = y \/ (d[y] \in Node /\ l[d[y]] = y))
      BY <3>1, Places DEF Shape, IsSon, Fathers, Live
    <3>3. CASE d[y] = o
      <4>1. d2[y] = q
        BY <2>2, <3>1, <3>3, <1>2
      <4>2. r2[q] = rr[o] /\ l2[q] = l[o]
        BY <1>2, <1>7
      <4> QED
        BY <3>2, <3>3, <4>1, <4>2, <1>6 DEF IsSon
    <3>4. CASE d[y] # o
      <4>1. d2[y] = d[y] /\ d[y] # q
        BY <2>2, <3>1, <3>2, <3>4, <1>2, <1>7
      <4>2. r2[d[y]] = y \/ (d[y] \in Node /\ l2[d[y]] = y)
        BY <3>1, <3>2, <4>1, <1>2, <1>3, Places
      <4> QED
        BY <3>2, <3>4, <4>1, <4>2, <1>6 DEF IsSon
    <3> QED
      BY <3>3, <3>4
  <2> QED
    BY <2>1, <2>2
<1>9. ASSUME NEW y \in Live(d2), l2[y] # NIL
      PROVE  l2[y] \in Live(d2) /\ d2[l2[y]] = y /\ l2[y] # r2[y]
  <2>0. y \in 0 .. N /\ y # o /\ y \in 0 .. N + Bytes
    BY <1>2, <1>5, Places DEF Live
  <2>1. CASE y = q
    <3>1. l2[q] = l[o] /\ r2[q] = rr[o]
      BY <1>2, <1>7
    <3>2. l[o] \in Live(d) /\ d[l[o]] = o /\ l[o] # rr[o]
      BY <2>1, <3>1, <1>9 DEF Shape
    <3>3. l[o] # o /\ l[o] # q /\ l[o] \in Node
      BY <3>2, <1>7 DEF Live
    <3> QED
      BY <2>1, <3>1, <3>2, <3>3, <1>2, <1>5
  <2>2. CASE y # q
    <3>1. y \in Live(d) /\ y \in Fathers(d)
      BY <2>2, <1>5 DEF Fathers
    <3>2. CASE y = x /\ rr[x] # o
      <4>1. l2[y] = q /\ r2[y] = rr[y]
        BY <2>0, <2>2, <3>2, <1>2
      <4>2. rr[y] # q
        BY <3>1, <1>7 DEF Shape
      <4> QED
        BY <3>2, <4>1, <4>2, <1>2, <1>5
    <3>3. CASE ~(y = x /\ rr[x] # o)
      <4>1. l2[y] = l[y]
        BY <2>0, <2>2, <3>3, <1>2
      <4>2. l[y] \in Live(d) /\ d[l[y]] = y /\ l[y] # rr[y]
        BY <3>1, <4>1, <1>9 DEF Shape
      <4>3. l[y] # o /\ l[y] # q /\ l[y] \in Node
        BY <3>3, <4>2, <1>4, <1>7 DEF Live, x
      <4>4. l[y] # r2[y]
        BY <2>0, <2>2, <4>2, <4>3, <1>2
      <4>5. d2[l[y]] = y
        BY <2>0, <4>2, <4>3, <1>2
      <4> QED
        BY <4>1, <4>2, <4>3, <4>4, <4>5, <1>5
    <3> QED
      BY <3>2, <3>3
  <2> QED
    BY <2>1, <2>2
<1>10. ASSUME NEW y \in Fathers(d2), r2[y] # NIL PROVE r2[y] \in Live(d2) /\ d2[r2[y]] = y
  <2>0. y # o /\ y \in 0 .. N + Bytes
    BY <1>2, <1>6, Places DEF Live, Fathers
  <2>1. CASE y = q
    <3>1. r2[q] = rr[o]
      BY <1>2, <1>7
    <3>2. rr[o] \in Live(d) /\ d[rr[o]] = o
      BY <2>1, <3>1, <1>10 DEF Shape, Fathers
    <3>3. rr[o] # o /\ rr[o] # q /\ rr[o] \in Node
      BY <3>2, <1>7 DEF Live
    <3> QED
      BY <2>1, <3>1, <3>2, <3>3, <1>2, <1>5
  <2>2. CASE y # q
    <3>1. y \in Fathers(d)
      BY <2>2, <1>6
    <3>2. CASE y = x /\ rr[x] = o
      <4>1. r2[y] = q
        BY <2>0, <3>2, <1>2
      <4> QED
        BY <3>2, <4>1, <1>2, <1>5
    <3>3. CASE ~(y = x /\ rr[x] = o)
      <4>1. r2[y] = rr[y]
        BY <2>0, <2>2, <3>3, <1>2
      <4>2. rr[y] \in Live(d) /\ d[rr[y]] = y
        BY <3>1, <4>1, <1>10 DEF Shape
      <4>3. rr[y] # o /\ rr[y] # q /\ rr[y] \in Node
        BY <3>3, <4>2, <1>7 DEF Live, x
      <4>5. d2[rr[y]] = y
        BY <2>0, <4>2, <4>3, <1>2
      <4> QED
        BY <4>1, <4>2, <4>3, <4>5, <1>5
    <3> QED
      BY <3>2, <3>3
  <2> QED
    BY <2>1, <2>2
<1> QED
  BY <1>2, <1>5, <1>8, <1>9, <1>10 DEF Shape

-----------------------------------------------------------------------------
(* Sons are one further from a root than their fathers, or more.           *)
Ranked(d, dp, m) ==
  /\ m \in Nat /\ dp \in [0 .. N + Bytes -> 0 .. m]
  /\ \A y \in Live(d) : dp[d[y]] < dp[y]

(* The nodes above each one, with itself and the root.                     *)
Lines(d, up) ==
  /\ up \in [0 .. N + Bytes -> SUBSET (Node \cup Roots)]
  /\ \A x \in Roots : up[x] = {x}
  /\ \A y \in Live(d) : up[y] = {y} \cup up[d[y]]

LEMMA NotOwnFather ==
  ASSUME NEW d, NEW dp, NEW m, Ranked(d, dp, m), NEW y \in Live(d), d[y] \in 0 .. N + Bytes
  PROVE  d[y] # y
<1>1. dp[d[y]] < dp[y] /\ dp[d[y]] \in Nat
  BY DEF Ranked
<1> QED
  BY <1>1

LEMMA UpIs ==
  ASSUME NEW l, NEW rr, NEW d, Shape(l, rr, d), NEW dp, NEW m, Ranked(d, dp, m),
         NEW up, Lines(d, up)
  PROVE  \A y \in Fathers(d) :
           /\ y \in up[y] /\ up[y] \subseteq Fathers(d)
           /\ \A x \in up[y] : up[x] \subseteq up[y] /\ (x # y => dp[x] < dp[y])
           /\ \A x \in up[y] \ {y} : (x \in Node /\ l[x] \in up[y]) \/ rr[x] \in up[y]
<1> DEFINE Good(y) ==
      /\ y \in up[y] /\ up[y] \subseteq Fathers(d)
      /\ \A x \in up[y] : up[x] \subseteq up[y] /\ (x # y => dp[x] < dp[y])
      /\ \A x \in up[y] \ {y} : (x \in Node /\ l[x] \in up[y]) \/ rr[x] \in up[y]
<1> DEFINE T == {n \in 0 .. m : \E y \in Fathers(d) : dp[y] = n /\ ~Good(y)}
<1>1. m \in Nat /\ \A y \in Fathers(d) : dp[y] \in 0 .. m
  BY Places DEF Ranked, Fathers, Live
<1> SUFFICES ASSUME T # {} PROVE FALSE
  <2>1. ASSUME NEW y \in Fathers(d), ~Good(y) PROVE dp[y] \in T
    BY <1>1, <2>1
  <2> HIDE DEF T
  <2>2. \A y \in Fathers(d) : Good(y)
    BY <2>1
  <2> QED
    BY <2>2
<1>2. T \in SUBSET Nat
  BY <1>1
<1>3. PICK n \in T : \A n2 \in T : n <= n2
  BY <1>2, Least, Zenon
<1>4. PICK y \in Fathers(d) : dp[y] = n /\ ~Good(y)
  BY <1>3
<1>5. ASSUME NEW z \in Fathers(d), dp[z] < dp[y] PROVE Good(z)
  <2>1. dp[z] \notin T
    BY <1>1, <1>3, <1>4, <1>5
  <2>2. dp[z] \in 0 .. m
    BY <1>1
  <2> HIDE DEF Good
  <2> QED
    BY <2>1, <2>2
<1>6. y \notin Roots
  <2>1. ASSUME y \in Roots PROVE Good(y)
    <3>1. up[y] = {y}
      BY <2>1 DEF Lines
    <3> QED
      BY <3>1
  <2> QED
    BY <2>1, <1>4
<1>7. y \in Live(d) /\ d[y] \in Fathers(d) /\ dp[d[y]] < dp[y] /\ IsSon(l, rr, d, y)
  BY <1>6 DEF Fathers, Shape, Ranked
<1>8. Good(d[y])
  BY <1>5, <1>7
<1>9. up[y] = {y} \cup up[d[y]]
  BY <1>7 DEF Lines
<1>10. Good(y)
  <2>1. y \in up[y] /\ up[y] \subseteq Fathers(d)
    BY <1>8, <1>9
  <2>2. ASSUME NEW x \in up[y] PROVE up[x] \subseteq up[y] /\ (x # y => dp[x] < dp[y])
    <3>1. CASE x = y
      BY <3>1
    <3>2. CASE x # y
      <4>1. x \in up[d[y]] /\ up[x] \subseteq up[d[y]] /\ (x # d[y] => dp[x] < dp[d[y]])
        BY <3>2, <1>8, <1>9
      <4>2. dp[x] \in 0 .. m /\ dp[y] \in 0 .. m /\ dp[d[y]] \in 0 .. m
        BY <2>1, <2>2, <1>1, <1>7
      <4> QED
        BY <4>1, <4>2, <1>7, <1>9
    <3> QED
      BY <3>1, <3>2
  <2>3. ASSUME NEW x \in up[y] \ {y} PROVE (x \in Node /\ l[x] \in up[y]) \/ rr[x] \in up[y]
    <3>1. CASE x = d[y]
      BY <3>1, <2>1, <1>7 DEF IsSon
    <3>2. CASE x # d[y]
      <4>1. x \in up[d[y]] \ {d[y]}
        BY <3>2, <2>3, <1>9
      <4> QED
        BY <4>1, <1>8, <1>9
    <3> QED
      BY <3>1, <3>2
  <2> QED
    BY <2>1, <2>2, <2>3
<1> QED
  BY <1>4, <1>10

(* What is left of a node is no greater, what is right of it no smaller.   *)
Ordered(lt, l, rr, d, up) ==
  \A y \in Live(d) : \A x \in (up[y] \cap Live(d)) \ {y} :
    /\ l[x] \in up[y] => <<x, y>> \notin lt
    /\ rr[x] \in up[y] => <<y, x>> \notin lt

(* A node would be in order below x, as far as the nodes above x go.       *)
Fits(lt, l, rr, d, up, x, q) ==
  \A a \in (up[x] \cap Live(d)) \ {x} :
    /\ l[a] \in up[x] => <<a, q>> \notin lt
    /\ rr[a] \in up[x] => <<q, a>> \notin lt

Sound(lt, l, rr, d, dp, m, up) ==
  Shape(l, rr, d) /\ Ranked(d, dp, m) /\ Lines(d, up) /\ Ordered(lt, l, rr, d, up)

LEMMA AttachSound ==
  ASSUME NEW lt, NEW l, NEW rr, NEW d, NEW dp, NEW m, NEW up, Sound(lt, l, rr, d, dp, m, up),
         NEW q \in Node, d[q] = NIL, l[q] = NIL, rr[q] = NIL,
         NEW x \in Fathers(d), NEW l2, NEW r2, NEW d2,
         Hung(l, rr, d, x, q, l2, r2, d2),
         Fits(lt, l, rr, d, up, x, q),
         x \in Node /\ l2[x] = q => <<x, q>> \notin lt,
         x \in Node /\ r2[x] = q => <<q, x>> \notin lt
  PROVE  Sound(lt, l2, r2, d2, [dp EXCEPT ![q] = dp[x] + 1], m + 1,
               [up EXCEPT ![q] = {q} \cup up[x]])
<1> DEFINE dp2 == [dp EXCEPT ![q] = dp[x] + 1]
<1> DEFINE up2 == [up EXCEPT ![q] = {q} \cup up[x]]
<1>1. Shape(l, rr, d) /\ Ranked(d, dp, m) /\ Lines(d, up) /\ Ordered(lt, l, rr, d, up)
  BY DEF Sound
<1>2. Shape(l2, r2, d2) /\ Live(d2) = Live(d) \cup {q}
  BY <1>1, AttachShape
<1>3. TreeTypes(l, rr, d)
  BY <1>1 DEF Shape
<1>4. /\ q \in 0 .. N /\ q \in 0 .. N + Bytes /\ q # NIL /\ q \notin Roots /\ q \notin Live(d)
      /\ x \in 0 .. N + Bytes /\ x # q /\ q \notin Fathers(d)
  BY Places DEF Fathers, Live
<1>5. d2[q] = x /\ \A z \in Live(d) : d2[z] = d[z]
  BY <1>3, <1>4, Places DEF TreeTypes, Live, Hung
<1>6. Ranked(d2, dp2, m + 1)
  <2>1. m + 1 \in Nat /\ dp \in [0 .. N + Bytes -> 0 .. m]
    BY <1>1 DEF Ranked
  <2>2. dp2 \in [0 .. N + Bytes -> 0 .. m + 1]
    <3>1. dp[x] + 1 \in 0 .. m + 1 /\ dp \in [0 .. N + Bytes -> 0 .. m + 1]
      BY <2>1, <1>1, <1>4 DEF Ranked
    <3> QED
      BY <3>1
  <2>3. dp2[q] = dp[x] + 1 /\ dp2[x] = dp[x] /\ dp[x] \in 0 .. m
    BY <2>1, <1>4
  <2>4. ASSUME NEW y \in Live(d) PROVE dp2[d2[y]] < dp2[y]
    <3>1. d[y] \in Fathers(d) /\ dp[d[y]] < dp[y] /\ d2[y] = d[y] /\ y # q
      BY <1>1, <1>4, <1>5 DEF Shape, Ranked
    <3>2. d[y] # q /\ d[y] \in 0 .. N + Bytes /\ y \in 0 .. N + Bytes
      BY <3>1, <1>4, Places DEF Fathers, Live
    <3>3. dp2[d[y]] = dp[d[y]] /\ dp2[y] = dp[y]
      BY <2>1, <3>1, <3>2
    <3> QED
      BY <3>1, <3>3
  <2> HIDE DEF dp2
  <2>5. dp2[d2[q]] < dp2[q]
    BY <2>3, <1>5
  <2> QED
    BY <2>1, <2>2, <2>4, <2>5, <1>2 DEF Ranked
<1>7. up \in [0 .. N + Bytes -> SUBSET (Node \cup Roots)] /\ up[x] \subseteq Node \cup Roots
  BY <1>1, <1>4 DEF Lines
<1>8. up2[q] = {q} \cup up[x] /\ \A z \in 0 .. N + Bytes : z # q => up2[z] = up[z]
  BY <1>4, <1>7
<1>9. Lines(d2, up2)
  <2>1. up2 \in [0 .. N + Bytes -> SUBSET (Node \cup Roots)]
    BY <1>7
  <2> HIDE DEF up2
  <2>2. ASSUME NEW z \in Roots PROVE up2[z] = {z}
    BY <1>1, <1>4, <1>8, Places DEF Lines
  <2>3. ASSUME NEW y \in Live(d2) PROVE up2[y] = {y} \cup up2[d2[y]]
    <3>1. CASE y = q
      BY <3>1, <1>4, <1>5, <1>8
    <3>2. CASE y # q
      <4>1. y \in Live(d) /\ d2[y] = d[y] /\ d[y] \in Fathers(d)
        BY <3>2, <1>1, <1>2, <1>5 DEF Shape
      <4>2. d[y] # q /\ d[y] \in 0 .. N + Bytes /\ y \in 0 .. N + Bytes
        BY <4>1, <1>4, Places DEF Fathers, Live
      <4> QED
        BY <3>2, <4>1, <4>2, <1>1, <1>8 DEF Lines
    <3> QED
      BY <3>1, <3>2
  <2> QED
    BY <2>1, <2>2, <2>3 DEF Lines
<1>10. \A y \in Fathers(d) : y \in up[y] /\ up[y] \subseteq Fathers(d)
  BY <1>1, UpIs
<1> HIDE DEF dp2, up2
<1>11. /\ \A z \in 0 .. N + Bytes : z # x => r2[z] = rr[z]
       /\ \A z \in 0 .. N : z # x => l2[z] = l[z]
       /\ r2[x] = rr[x] \/ r2[x] = q
       /\ x \in Node => l2[x] = l[x] \/ l2[x] = q
  BY <1>3, <1>4, Places DEF TreeTypes, Hung
<1>12. ASSUME NEW y \in Live(d2), NEW a \in (up2[y] \cap Live(d2)) \ {y}
       PROVE  /\ l2[a] \in up2[y] => <<a, y>> \notin lt
              /\ r2[a] \in up2[y] => <<y, a>> \notin lt
  <2>0. a \in 0 .. N /\ a \in 0 .. N + Bytes
    BY Places DEF Live
  <2>1. CASE y = q
    <3>1. a \in up[x] /\ a \in Live(d) /\ up2[y] = {q} \cup up[x]
      BY <2>1, <1>2, <1>8
    <3>2. CASE a = x
      <4>1. x \in Node /\ x \notin Roots
        BY <3>1, <3>2, Places DEF Live
      <4>2. l[x] \notin up[x] /\ rr[x] \notin up[x]
        <5>1. ASSUME NEW z \in Live(d), d[z] = x PROVE z \notin up[x]
          <6>0. z \in 0 .. N + Bytes /\ dp \in [0 .. N + Bytes -> 0 .. m] /\ m \in Nat
            BY <1>1, Places DEF Ranked, Live
          <6>3. dp[x] \in 0 .. m /\ dp[z] \in 0 .. m
            BY <6>0, <1>4
          <6>1. dp[x] < dp[z] /\ dp[x] \in Nat /\ dp[z] \in Nat /\ z # x
            BY <5>1, <6>0, <6>3, <1>1 DEF Ranked
          <6>2. z \in up[x] => dp[z] < dp[x]
            BY <6>1, <1>1, UpIs
          <6> QED
            BY <6>1, <6>2
        <5>2. NIL \notin up[x]
          BY <1>10, Places DEF Fathers, Live
        <5>3. (l[x] # NIL => l[x] \in Live(d) /\ d[l[x]] = x) /\ (rr[x] # NIL => rr[x] \in Live(d) /\ d[rr[x]] = x)
          BY <3>1, <3>2, <1>1 DEF Shape
        <5> QED
          BY <5>1, <5>2, <5>3
      <4> QED
        BY <2>1, <3>1, <3>2, <4>1, <4>2, <1>11
    <3>3. CASE a # x
      <4>1. l2[a] = l[a] /\ r2[a] = rr[a]
        BY <2>0, <3>3, <1>11
      <4>2. l[a] # q /\ rr[a] # q
        BY <3>1, <1>1, <1>4 DEF Shape, Fathers
      <4> QED
        BY <2>1, <3>1, <3>3, <4>1, <4>2 DEF Fits
    <3> QED
      BY <3>2, <3>3
  <2>2. CASE y # q
    <3>1. y \in Live(d) /\ y \in 0 .. N + Bytes
      BY <2>2, <1>2, Places DEF Live
    <3>2. up2[y] = up[y] /\ up[y] \subseteq Fathers(d)
      BY <2>2, <3>1, <1>8, <1>10 DEF Fathers
    <3>3. a \in (up[y] \cap Live(d)) \ {y} /\ a \in Node
      BY <3>2, <1>2, <1>4 DEF Live
    <3>4. (l2[a] = l[a] \/ l2[a] = q) /\ (r2[a] = rr[a] \/ r2[a] = q) /\ q \notin up[y]
      BY <2>0, <3>2, <3>3, <1>4, <1>11
    <3> QED
      BY <3>1, <3>2, <3>3, <3>4, <1>1 DEF Ordered
  <2> QED
    BY <2>1, <2>2
<1>13. Ordered(lt, l2, r2, d2, up2)
  BY <1>12 DEF Ordered
<1>14. Sound(lt, l2, r2, d2, dp2, m + 1, up2)
  BY <1>2, <1>6, <1>9, <1>13 DEF Sound
<1> QED
  BY <1>14 DEF dp2, up2

LEMMA UnlinkSound ==
  ASSUME NEW lt, NEW l, NEW rr, NEW d, NEW dp, NEW m, NEW up, Sound(lt, l, rr, d, dp, m, up),
         NEW o \in Live(d), NEW q, OnlySon(l, rr, o, q),
         NEW l2, NEW r2, NEW d2, Put(l, rr, d, q, o, l2, r2, d2)
  PROVE  Sound(lt, l2, r2, d2, dp, m, [y \in 0 .. N + Bytes |-> up[y] \ {o}])
<1> DEFINE up2 == [y \in 0 .. N + Bytes |-> up[y] \ {o}]
<1> DEFINE x == d[o]
<1>1. Shape(l, rr, d) /\ Ranked(d, dp, m) /\ Lines(d, up) /\ Ordered(lt, l, rr, d, up)
  BY DEF Sound
<1>2. TreeTypes(l, rr, d)
  BY <1>1 DEF Shape
<1>3. d[o] # o
  <2>1. d[o] \in 0 .. N + Bytes
    BY <1>1, Places DEF Shape, Fathers, Live
  <2> QED
    BY <1>1, <2>1, NotOwnFather
<1>4. /\ o \in Node /\ q \in 0 .. N /\ q # o /\ x \in Fathers(d)
      /\ rr[x] = o \/ x \in Node
      /\ q # NIL => q \in Live(d) /\ d[q] = o
      /\ \A y \in Live(d) : d[y] = o => y = q
  BY <1>1, <1>3, OnlySonIs
<1>5. Shape(l2, r2, d2) /\ Live(d2) = Live(d) \ {o}
  BY <1>1, <1>3, UnlinkShape
<1>6. x # o
  BY <1>3
<1>7. d[o] = x
  OBVIOUS
<1> HIDE DEF x
<1>8. /\ d2[q] = x /\ \A z \in 0 .. N : z # o /\ z # q => d2[z] = d[z]
      /\ \A z \in 0 .. N + Bytes : r2[z] = IF z = x /\ rr[x] = o THEN q ELSE rr[z]
      /\ \A z \in 0 .. N : l2[z] = IF z = x /\ rr[x] # o THEN q ELSE l[z]
  BY <1>2, <1>4, <1>7, PutIs
<1>9. \A z \in Fathers(d) : z \in 0 .. N + Bytes
  BY Places DEF Fathers, Live
<1>10. /\ dp \in [0 .. N + Bytes -> 0 .. m] /\ m \in Nat
       /\ up \in [0 .. N + Bytes -> SUBSET (Node \cup Roots)]
  BY <1>1 DEF Ranked, Lines
<1>11. \A z \in Fathers(d) : dp[z] \in 0 .. m
  BY <1>9, <1>10
<1>12. ASSUME NEW y \in Live(d2) PROVE d2[y] = (IF y = q THEN x ELSE d[y]) /\ y \in Live(d) /\ y # o
  BY <1>5, <1>8, Places DEF Live
<1>13. Ranked(d2, dp, m)
  <2>1. ASSUME NEW y \in Live(d2) PROVE dp[d2[y]] < dp[y]
    <3>1. y \in Live(d) /\ d2[y] = (IF y = q THEN x ELSE d[y]) /\ dp[d[y]] < dp[y] /\ d[y] \in Fathers(d)
      BY <1>1, <1>12 DEF Ranked, Shape
    <3>2. CASE y = q
      <4>1. d[q] = o /\ dp[x] < dp[o] /\ o \in Fathers(d) /\ q \in Fathers(d)
        BY <3>1, <3>2, <1>1, <1>4, <1>7, Places DEF Ranked, Live, Fathers
      <4>2. dp[x] \in 0 .. m /\ dp[o] \in 0 .. m /\ dp[q] \in 0 .. m
        BY <4>1, <1>4, <1>11
      <4> QED
        BY <3>1, <3>2, <4>1, <4>2
    <3>3. CASE y # q
      BY <3>1, <3>3
    <3> QED
      BY <3>2, <3>3
  <2> QED
    BY <2>1, <1>10 DEF Ranked
<1>14. \A y \in 0 .. N + Bytes : up2[y] = up[y] \ {o}
  OBVIOUS
<1>15. Lines(d2, up2)
  <2>1. up2 \in [0 .. N + Bytes -> SUBSET (Node \cup Roots)]
    BY <1>10
  <2> HIDE DEF up2
  <2>2. ASSUME NEW z \in Roots PROVE up2[z] = {z}
    BY <1>1, <1>4, <1>14, Places DEF Lines
  <2>3. ASSUME NEW y \in Live(d2) PROVE up2[y] = {y} \cup up2[d2[y]]
    <3>1. /\ y \in Live(d) /\ y # o /\ d2[y] = (IF y = q THEN x ELSE d[y])
          /\ d[y] \in Fathers(d) /\ y \in Fathers(d)
      BY <1>1, <1>12 DEF Shape, Fathers
    <3>2. up[y] = {y} \cup up[d[y]] /\ up[o] = {o} \cup up[x]
      BY <3>1, <1>1, <1>7 DEF Lines
    <3>3. up2[y] = up[y] \ {o} /\ up2[d2[y]] = up[d2[y]] \ {o}
      BY <3>1, <1>4, <1>9, <1>14
    <3>4. CASE y = q
      BY <3>1, <3>2, <3>3, <3>4, <1>4, Places DEF Live
    <3>5. CASE y # q
      BY <3>1, <3>2, <3>3, <3>5
    <3> QED
      BY <3>4, <3>5
  <2> QED
    BY <2>1, <2>2, <2>3 DEF Lines
<1>16. \A y \in Fathers(d) : y \in up[y] /\ up[y] \subseteq Fathers(d) /\ \A z \in up[y] : up[z] \subseteq up[y]
  BY <1>1, UpIs
<1>17. q \in Live(d) => o \in up[q]
  <2>1. ASSUME q \in Live(d) PROVE o \in up[q]
    <3>1. d[q] = o /\ o \in Fathers(d)
      BY <2>1, <1>4, Places DEF Live, Fathers
    <3>2. up[q] = {q} \cup up[o]
      BY <2>1, <3>1, <1>1 DEF Lines
    <3> QED
      BY <3>1, <3>2, <1>16
  <2> QED
    BY <2>1
<1>18. rr[x] = o \/ (x \in Node /\ l[x] = o)
  BY <1>1, <1>7 DEF Shape, IsSon
<1> HIDE DEF up2
<1>19. ASSUME NEW y \in Live(d2), NEW a \in (up2[y] \cap Live(d2)) \ {y}
       PROVE  /\ l2[a] \in up2[y] => <<a, y>> \notin lt
              /\ r2[a] \in up2[y] => <<y, a>> \notin lt
  <2>1. y \in Live(d) /\ y \in Fathers(d) /\ up2[y] = up[y] \ {o} /\ up[y] \subseteq Fathers(d)
    BY <1>9, <1>12, <1>14, <1>16 DEF Fathers
  <2>2. a \in (up[y] \cap Live(d)) \ {y} /\ a \in 0 .. N /\ a \in 0 .. N + Bytes
    BY <2>1, <1>12, Places DEF Live
  <2>3. NIL \notin up[y]
    BY <2>1, Places DEF Fathers, Live
  <2>4. q \in up[y] => o \in up[y]
    <3>1. ASSUME q \in up[y] PROVE o \in up[y]
      <4>1. q \in Live(d)
        BY <2>3, <3>1, <1>4
      <4>2. up[q] \subseteq up[y]
        BY <2>1, <3>1, <1>16
      <4> QED
        BY <4>1, <4>2, <1>17
    <3> QED
      BY <3>1
  <2>5. l2[a] \in up2[y] => l[a] \in up[y]
    BY <2>1, <2>2, <2>4, <1>8, <1>18
  <2>6. r2[a] \in up2[y] => rr[a] \in up[y]
    BY <2>1, <2>2, <2>4, <1>8
  <2> QED
    BY <2>1, <2>2, <2>5, <2>6, <1>1 DEF Ordered
<1>20. Sound(lt, l2, r2, d2, dp, m, up2)
  BY <1>5, <1>13, <1>15, <1>19 DEF Sound, Ordered
<1> QED
  BY <1>20 DEF up2

(* A node would be in order above what is below o.                         *)
Parts(lt, l, rr, d, up, o, q) ==
  \A y \in Live(d) \ {o} :
    /\ l[o] \in up[y] => <<q, y>> \notin lt
    /\ rr[o] \in up[y] => <<y, q>> \notin lt

Instead(up, x, o, q) ==
  [y \in 0 .. N + Bytes |-> IF y = q THEN {q} \cup up[x]
                            ELSE IF o \in up[y] THEN (up[y] \ {o}) \cup {q} ELSE up[y]]

LEMMA ReplaceSound ==
  ASSUME NEW lt, NEW l, NEW rr, NEW d, NEW dp, NEW m, NEW up, Sound(lt, l, rr, d, dp, m, up),
         NEW o \in Live(d), NEW q \in Node, d[q] = NIL,
         NEW l1, NEW r1, NEW d1, Sons(l, rr, d, q, o, l1, r1, d1),
         NEW l2, NEW r2, NEW d2, Put(l1, r1, d1, q, o, l2, r2, d2),
         Fits(lt, l, rr, d, up, o, q), Parts(lt, l, rr, d, up, o, q)
  PROVE  /\ Sound(lt, l2, r2, d2, [dp EXCEPT ![q] = dp[o]], m, Instead(up, d[o], o, q))
         /\ Live(d2) = (Live(d) \ {o}) \cup {q}
<1> DEFINE dp2 == [dp EXCEPT ![q] = dp[o]]
<1> DEFINE x == d[o]
<1> DEFINE up2 == Instead(up, x, o, q)
<1>1. Shape(l, rr, d) /\ Ranked(d, dp, m) /\ Lines(d, up) /\ Ordered(lt, l, rr, d, up)
  BY DEF Sound
<1>3. d[o] # o
  <2>1. d[o] \in 0 .. N + Bytes
    BY <1>1, Places DEF Shape, Fathers, Live
  <2> QED
    BY <1>1, <2>1, NotOwnFather
<1>2. x = d[o]
  OBVIOUS
<1> HIDE DEF x
<1>4. /\ TreeTypes(l2, r2, d2)
      /\ x \in Fathers(d) /\ x # q /\ x # o /\ q # o /\ o \in Node
      /\ d2[o] = NIL /\ d2[q] = x
      /\ \A z \in Node : z # o /\ z # q => d2[z] = IF d[z] = o THEN q ELSE d[z]
      /\ \A z \in 0 .. N + Bytes : r2[z] = IF z = x /\ rr[x] = o THEN q
                                           ELSE IF z = q THEN rr[o] ELSE rr[z]
      /\ \A z \in 0 .. N : l2[z] = IF z = x /\ rr[x] # o THEN q
                                   ELSE IF z = q THEN l[o] ELSE l[z]
  BY <1>1, <1>2, <1>3, ReplaceIs
<1>5. Shape(l2, r2, d2) /\ Live(d2) = (Live(d) \ {o}) \cup {q}
  BY <1>1, <1>3, ReplaceShape
<1>6. /\ q \in 0 .. N /\ q \in 0 .. N + Bytes /\ q # NIL /\ q \notin Roots /\ q \notin Live(d)
      /\ q \notin Fathers(d) /\ o \in 0 .. N /\ o \in 0 .. N + Bytes /\ o \in Fathers(d)
      /\ o \notin Roots /\ o # NIL
  BY Places DEF Fathers, Live
<1>9. \A z \in Fathers(d) : z \in 0 .. N + Bytes
  BY Places DEF Fathers, Live
<1>10. /\ dp \in [0 .. N + Bytes -> 0 .. m] /\ m \in Nat
       /\ up \in [0 .. N + Bytes -> SUBSET (Node \cup Roots)]
  BY <1>1 DEF Ranked, Lines
<1>11. \A z \in Fathers(d) : dp[z] \in 0 .. m
  BY <1>9, <1>10
<1>12. dp2 \in [0 .. N + Bytes -> 0 .. m] /\ dp2[q] = dp[o] /\ \A z \in 0 .. N + Bytes : z # q => dp2[z] = dp[z]
  BY <1>6, <1>10, <1>11
<1> HIDE DEF dp2
<1>13. ASSUME NEW y \in Live(d2), y # q
       PROVE /\ y \in Live(d) /\ y # o /\ y \in Fathers(d) /\ d[y] \in Fathers(d) /\ d[y] # q
             /\ d2[y] = IF d[y] = o THEN q ELSE d[y]
  BY <1>1, <1>4, <1>5, <1>6, <1>13 DEF Live, Fathers, Shape
<1>14. Ranked(d2, dp2, m)
  <2>1. ASSUME NEW y \in Live(d2) PROVE dp2[d2[y]] < dp2[y]
    <3>1. CASE y = q
      <4>1. dp2[x] = dp[x] /\ dp[x] < dp[o]
        BY <1>1, <1>2, <1>4, <1>9, <1>12 DEF Ranked
      <4> QED
        BY <3>1, <4>1, <1>4, <1>12
    <3>2. CASE y # q
      <4>1. /\ y \in Live(d) /\ y # o /\ y \in Fathers(d) /\ d[y] \in Fathers(d) /\ d[y] # q
            /\ d2[y] = IF d[y] = o THEN q ELSE d[y]
        BY <3>2, <1>13
      <4>2. dp2[y] = dp[y] /\ dp[d[y]] < dp[y] /\ dp2[d[y]] = dp[d[y]]
        BY <3>2, <4>1, <1>1, <1>9, <1>12 DEF Ranked
      <4> QED
        BY <4>1, <4>2, <1>12
    <3> QED
      BY <3>1, <3>2
  <2> QED
    BY <2>1, <1>10, <1>12 DEF Ranked
<1>15. /\ up2[q] = {q} \cup up[x]
       /\ \A y \in 0 .. N + Bytes : y # q =>
            up2[y] = IF o \in up[y] THEN (up[y] \ {o}) \cup {q} ELSE up[y]
  BY <1>6 DEF Instead
<1>16. \A y \in Fathers(d) : /\ y \in up[y] /\ up[y] \subseteq Fathers(d)
                             /\ \A z \in up[y] : up[z] \subseteq up[y] /\ (z # y => dp[z] < dp[y])
  BY <1>1, UpIs
<1>17. o \notin up[x] /\ q \notin up[x] /\ up[o] = {o} \cup up[x]
  <2>1. dp[x] < dp[o] /\ up[o] = {o} \cup up[x]
    BY <1>1, <1>2 DEF Ranked, Lines
  <2>2. dp[x] \in 0 .. m /\ dp[o] \in 0 .. m
    BY <1>4, <1>6, <1>11
  <2>3. o \in up[x] => dp[o] < dp[x]
    BY <1>4, <1>16
  <2> QED
    BY <2>1, <2>2, <2>3, <1>4, <1>6, <1>16
<1>18. Lines(d2, up2)
  <2>1. up2 \in [0 .. N + Bytes -> SUBSET (Node \cup Roots)]
    <3>1. up[x] \in SUBSET (Node \cup Roots)
      BY <1>4, <1>9, <1>10
    <3> QED
      BY <3>1, <1>10 DEF Instead
  <2> HIDE DEF up2
  <2>2. ASSUME NEW z \in Roots PROVE up2[z] = {z}
    BY <1>1, <1>6, <1>15, Places DEF Lines
  <2>3. ASSUME NEW y \in Live(d2) PROVE up2[y] = {y} \cup up2[d2[y]]
    <3>1. CASE y = q
      BY <3>1, <1>4, <1>9, <1>15, <1>17
    <3>2. CASE y # q
      <4>1. /\ y \in Live(d) /\ y # o /\ y \in Fathers(d) /\ d[y] \in Fathers(d) /\ d[y] # q
            /\ d2[y] = IF d[y] = o THEN q ELSE d[y]
        BY <3>2, <1>13
      <4>2. up[y] = {y} \cup up[d[y]]
        BY <4>1, <1>1 DEF Lines
      <4>3. up2[y] = IF o \in up[y] THEN (up[y] \ {o}) \cup {q} ELSE up[y]
        BY <3>2, <4>1, <1>9, <1>15
      <4>4. CASE d[y] = o
        BY <4>1, <4>2, <4>3, <4>4, <1>15, <1>17
      <4>5. CASE d[y] # o
        <5>1. up2[d[y]] = IF o \in up[d[y]] THEN (up[d[y]] \ {o}) \cup {q} ELSE up[d[y]]
          BY <4>1, <1>9, <1>15
        <5> QED
          BY <4>1, <4>2, <4>3, <4>5, <5>1
      <4> QED
        BY <4>4, <4>5
    <3> QED
      BY <3>1, <3>2
  <2> QED
    BY <2>1, <2>2, <2>3 DEF Lines
<1>19. rr[x] = o \/ (x \in Node /\ l[x] = o)
  BY <1>1, <1>2 DEF Shape, IsSon
<1>20. \A z \in Live(d) : l[z] # q /\ rr[z] # q
  BY <1>1, <1>6 DEF Shape, Fathers
<1> HIDE DEF up2
<1>21. ASSUME NEW y \in Live(d2), NEW a \in (up2[y] \cap Live(d2)) \ {y}
       PROVE  /\ l2[a] \in up2[y] => <<a, y>> \notin lt
              /\ r2[a] \in up2[y] => <<y, a>> \notin lt
  <2>0. a \in 0 .. N /\ a \in 0 .. N + Bytes /\ a # o /\ a \in Live(d2) /\ y # o
    BY <1>4, <1>5, Places DEF Live
  <2>1. CASE y = q
    <3>1. up2[y] = {q} \cup up[x] /\ a \in up[x] /\ a \in up[o] /\ a \in Live(d) /\ a # q
      BY <2>0, <2>1, <1>5, <1>15, <1>17
    <3>2. l2[a] \in up2[y] => l[a] \in up[o]
      BY <2>0, <3>1, <1>4, <1>6, <1>16, <1>17, <1>19, <1>20
    <3>3. r2[a] \in up2[y] => rr[a] \in up[o]
      BY <2>0, <3>1, <1>4, <1>6, <1>16, <1>17, <1>20
    <3> QED
      BY <2>0, <2>1, <3>1, <3>2, <3>3 DEF Fits
  <2>2. CASE y # q
    <3>1. y \in Live(d) /\ y \in Fathers(d) /\ y \in 0 .. N + Bytes
      BY <2>2, <1>9, <1>13
    <3>2. up2[y] = IF o \in up[y] THEN (up[y] \ {o}) \cup {q} ELSE up[y]
      BY <2>2, <3>1, <1>15
    <3>3. up[y] \subseteq Fathers(d) /\ q \notin up[y]
      BY <3>1, <1>6, <1>16
    <3>4. CASE a = q
      <4>1. o \in up[y] /\ l2[a] = l[o] /\ r2[a] = rr[o]
        BY <2>0, <3>2, <3>3, <3>4, <1>4
      <4>2. l[o] # q /\ rr[o] # q
        BY <1>20
      <4>3. (l2[a] \in up2[y] => l[o] \in up[y]) /\ (r2[a] \in up2[y] => rr[o] \in up[y])
        BY <3>2, <4>1, <4>2
      <4> QED
        BY <2>0, <3>1, <3>4, <4>3 DEF Parts
    <3>5. CASE a # q
      <4>1. a \in up[y] /\ a \in Live(d) /\ a # y
        BY <2>0, <3>2, <3>5, <1>5
      <4>2. l2[a] \in up2[y] => l[a] \in up[y]
        BY <2>0, <3>2, <3>3, <3>5, <4>1, <1>4, <1>19, <1>20
      <4>3. r2[a] \in up2[y] => rr[a] \in up[y]
        BY <2>0, <3>2, <3>3, <3>5, <4>1, <1>4, <1>20
      <4> QED
        BY <3>1, <4>1, <4>2, <4>3, <1>1 DEF Ordered
    <3> QED
      BY <3>4, <3>5
  <2> QED
    BY <2>1, <2>2
<1>22. Sound(lt, l2, r2, d2, dp2, m, up2)
  BY <1>5, <1>14, <1>18, <1>21 DEF Sound, Ordered
<1> QED
  BY <1>5, <1>22, <1>2 DEF up2, dp2

-----------------------------------------------------------------------------
(* Rightmost: the recursion has a solution, also where nodes are stale.    *)
LastEq(rr, f) == f = [x \in Node |-> IF rr[x] = NIL THEN x ELSE f[rr[x]]]

LastOf(rr) == CHOOSE f : LastEq(rr, f)

LEMMA RightmostIsLast == \A q : Rightmost(q) = LastOf(rson)[q]
BY Zenon DEF Rightmost, LastOf, LastEq

Closed(rr, C) == \A z \in C : rr[z] \in Node => rr[z] \in C

Reach(rr, x) == {y \in Node : \A C \in SUBSET Node : x \in C /\ Closed(rr, C) => y \in C}

Ends(rr, x) == {e \in Reach(rr, x) : rr[e] = NIL}

LEMMA LastIs ==
  ASSUME NEW rr, rr \in [0 .. N + Bytes -> 0 .. N]
  PROVE  LastEq(rr, LastOf(rr))
<1>1. ASSUME NEW x \in Node, rr[x] = NIL PROVE Ends(rr, x) = {x}
  <2>1. {x} \in SUBSET Node /\ x \in {x} /\ Closed(rr, {x})
    BY <1>1, Places DEF Closed
  <2>2. x \in Reach(rr, x) /\ Reach(rr, x) \subseteq {x}
    BY <2>1 DEF Reach
  <2> QED
    BY <1>1, <2>2 DEF Ends
<1>2. ASSUME NEW x \in Node, rr[x] \in Node PROVE Ends(rr, x) = Ends(rr, rr[x])
  <2>1. Reach(rr, rr[x]) \subseteq Reach(rr, x)
    <3>1. ASSUME NEW C \in SUBSET Node, x \in C, Closed(rr, C) PROVE rr[x] \in C
      BY <3>1, <1>2 DEF Closed
    <3> QED
      BY <3>1 DEF Reach
  <2>2. ASSUME NEW y \in Reach(rr, x), y # x PROVE y \in Reach(rr, rr[x])
    <3>1. ASSUME NEW C \in SUBSET Node, rr[x] \in C, Closed(rr, C) PROVE y \in C
      <4>1. C \cup {x} \in SUBSET Node /\ x \in C \cup {x} /\ Closed(rr, C \cup {x})
        BY <3>1 DEF Closed
      <4>2. y \in C \cup {x}
        BY <4>1 DEF Reach
      <4> QED
        BY <2>2, <4>2
    <3>2. y \in Node
      BY DEF Reach
    <3> QED
      BY <3>1, <3>2 DEF Reach
  <2>3. rr[x] # NIL
    BY <1>2, Places
  <2> QED
    BY <2>1, <2>2, <2>3 DEF Ends
<1> DEFINE g == [x \in Node |-> CHOOSE e : e \in Ends(rr, x)]
<1>3. \A x \in Node : g[x] = CHOOSE e : e \in Ends(rr, x)
  OBVIOUS
<1>4. \A x \in Node : rr[x] = NIL \/ rr[x] \in Node
  BY Places
<1> HIDE DEF g
<1>5. ASSUME NEW x \in Node PROVE g[x] = IF rr[x] = NIL THEN x ELSE g[rr[x]]
  <2>1. CASE rr[x] = NIL
    <3>1. Ends(rr, x) = {x}
      BY <1>1, <2>1
    <3>2. g[x] \in {x}
      BY <1>3, <3>1
    <3> QED
      BY <2>1, <3>2
  <2>2. CASE rr[x] \in Node
    <3>1. Ends(rr, x) = Ends(rr, rr[x])
      BY <1>2, <2>2
    <3>2. g[x] = g[rr[x]]
      BY <1>3, <2>2, <3>1, Zenon
    <3> QED
      BY <2>2, <3>2, Places
  <2> QED
    BY <1>4, <2>1, <2>2
<1>6. g = [x \in Node |-> g[x]]
  BY DEF g
<1>7. [x \in Node |-> g[x]] = [x \in Node |-> IF rr[x] = NIL THEN x ELSE g[rr[x]]]
  BY <1>5, Zenon
<1>8. LastEq(rr, g)
  BY <1>6, <1>7, Zenon DEF LastEq
<1> QED
  BY <1>8, Zenon DEF LastOf

(* Not less is transitive.                                                 *)
Linear(lt) ==
  /\ \A a \in Node : <<a, a>> \notin lt
  /\ \A a, b, c \in Node : <<a, b>> \notin lt /\ <<b, c>> \notin lt => <<a, c>> \notin lt

RightEnd(lt, l, rr, d, up, x, e) ==
  /\ e \in Live(d) /\ rr[e] = NIL /\ x \in up[e]
  /\ e # x => d[e] \in Live(d) /\ rr[d[e]] = e /\ x \in up[d[e]]
  /\ \A y \in Live(d) : x \in up[y] => <<e, y>> \notin lt

LEMMA LastIsRightEnd ==
  ASSUME NEW lt, Linear(lt), NEW l, NEW rr, NEW d, NEW dp, NEW m, NEW up,
         Sound(lt, l, rr, d, dp, m, up)
  PROVE  \A x \in Live(d) : RightEnd(lt, l, rr, d, up, x, LastOf(rr)[x])
<1> DEFINE Good(x) == RightEnd(lt, l, rr, d, up, x, LastOf(rr)[x])
<1> DEFINE T == {n \in 0 .. m : \E x \in Live(d) : m - dp[x] = n /\ ~Good(x)}
<1>1. Shape(l, rr, d) /\ Ranked(d, dp, m) /\ Lines(d, up) /\ Ordered(lt, l, rr, d, up)
  BY DEF Sound
<1>2. m \in Nat /\ (\A y \in Live(d) : m - dp[y] \in 0 .. m) /\ (\A y \in Live(d) : dp[y] \in 0 .. m)
  BY <1>1, Places DEF Ranked, Live
<1> SUFFICES ASSUME T # {} PROVE FALSE
  <2>1. ASSUME NEW y \in Live(d), ~Good(y) PROVE m - dp[y] \in T
    BY <1>2, <2>1
  <2> HIDE DEF T
  <2>2. \A y \in Live(d) : Good(y)
    BY <2>1
  <2> QED
    BY <2>2
<1>3. T \in SUBSET Nat
  BY <1>2
<1>4. PICK n \in T : \A n2 \in T : n <= n2
  BY <1>3, Least, Zenon
<1>5. PICK x \in Live(d) : m - dp[x] = n /\ ~Good(x)
  BY <1>4
<1>6. ASSUME NEW z \in Live(d), dp[x] < dp[z] PROVE Good(z)
  <2>1. m - dp[z] < m - dp[x]
    BY <1>2, <1>6
  <2>2. m - dp[z] \notin T
    BY <1>2, <1>4, <1>5, <2>1
  <2>3. m - dp[z] \in 0 .. m
    BY <1>2
  <2> HIDE DEF Good
  <2> QED
    BY <2>2, <2>3
<1>7. x \in Node /\ x \in Fathers(d) /\ TreeTypes(l, rr, d)
  BY <1>1 DEF Live, Fathers, Shape
<1>8. LastOf(rr)[x] = IF rr[x] = NIL THEN x ELSE LastOf(rr)[rr[x]]
  <2>1. LastEq(rr, LastOf(rr))
    BY <1>7, LastIs DEF TreeTypes
  <2> HIDE DEF Good
  <2> QED
    BY <2>1, <1>7, Zenon DEF LastEq
<1>9. \A y \in Live(d) : /\ y \in up[y] /\ up[y] \subseteq Fathers(d)
                         /\ \A z \in up[y] : up[z] \subseteq up[y] /\ (z # y => dp[z] < dp[y])
                         /\ \A z \in up[y] \ {y} : (z \in Node /\ l[z] \in up[y]) \/ rr[z] \in up[y]
  BY <1>1, UpIs DEF Fathers
<1>10. ASSUME NEW e \in Live(d), NEW y \in Live(d), x \in up[y], <<e, x>> \notin lt,
              rr[x] \in up[y] => <<e, y>> \notin lt
       PROVE  <<e, y>> \notin lt
  <2>1. CASE y = x
    BY <2>1, <1>10
  <2>2. CASE y # x /\ l[x] \in up[y]
    <3>1. <<x, y>> \notin lt
      BY <2>2, <1>1, <1>10 DEF Ordered
    <3> QED
      BY <3>1, <1>10 DEF Linear, Live
  <2>3. CASE y # x /\ rr[x] \in up[y]
    BY <2>3, <1>10
  <2> QED
    BY <2>1, <2>2, <2>3, <1>9, <1>10
<1>11. CASE rr[x] = NIL
  <2>1. LastOf(rr)[x] = x
    BY <1>8, <1>11
  <2>2. ASSUME NEW y \in Live(d), x \in up[y] PROVE <<x, y>> \notin lt
    <3>1. rr[x] \notin up[y]
      BY <1>9, <1>11, Places DEF Fathers, Live
    <3>2. <<x, x>> \notin lt
      BY <1>7 DEF Linear
    <3> QED
      BY <2>2, <3>1, <3>2, <1>10
  <2>3. RightEnd(lt, l, rr, d, up, x, x)
    BY <2>2, <1>9, <1>11 DEF RightEnd
  <2> QED
    BY <2>1, <2>3, <1>5
<1>12. CASE rr[x] # NIL
  <2>1. rr[x] \in Live(d) /\ d[rr[x]] = x
    BY <1>1, <1>7, <1>12 DEF Shape
  <2>2. dp[x] < dp[rr[x]] /\ up[rr[x]] = {rr[x]} \cup up[x]
    BY <1>1, <2>1 DEF Ranked, Lines
  <2>3. PICK e : e = LastOf(rr)[x]
    OBVIOUS
  <2>4. RightEnd(lt, l, rr, d, up, rr[x], e)
    BY <2>1, <2>2, <2>3, <1>6, <1>8, <1>12
  <2>5. e \in Live(d) /\ rr[e] = NIL /\ rr[x] \in up[e] /\ e # x
    BY <2>4, <1>12 DEF RightEnd
  <2>6. up[rr[x]] \subseteq up[e] /\ x \in up[rr[x]]
    BY <2>2, <2>5, <1>9
  <2>7. d[e] \in Live(d) /\ rr[d[e]] = e /\ x \in up[d[e]]
    <3>1. CASE e = rr[x]
      BY <3>1, <2>1, <1>9
    <3>2. CASE e # rr[x]
      <4>1. d[e] \in Live(d) /\ rr[d[e]] = e /\ rr[x] \in up[d[e]]
        BY <3>2, <2>4 DEF RightEnd
      <4> QED
        BY <4>1, <2>6, <1>9
    <3> QED
      BY <3>1, <3>2
  <2>8. <<e, x>> \notin lt
    BY <2>5, <2>6, <1>1 DEF Ordered
  <2>9. ASSUME NEW y \in Live(d), x \in up[y] PROVE <<e, y>> \notin lt
    BY <2>4, <2>5, <2>8, <2>9, <1>10 DEF RightEnd
  <2>10. RightEnd(lt, l, rr, d, up, x, e)
    BY <2>5, <2>6, <2>7, <2>9 DEF RightEnd
  <2> QED
    BY <2>3, <2>10, <1>5
<1> QED
  BY <1>11, <1>12

-----------------------------------------------------------------------------
(* The operations on trees that are records.                               *)
Rec(l, rr, d) == [l |-> l, r |-> rr, d |-> d]

LEMMA InPlaceIs ==
  ASSUME NEW l, NEW rr, NEW d, NEW t, t = Rec(l, rr, d), NEW q, NEW o
  PROVE  \E l2, r2, d2 : InPlace(t, q, o) = Rec(l2, r2, d2) /\ Put(l, rr, d, q, o, l2, r2, d2)
<1>0. t.d = d /\ t.r = rr /\ t.l = l
  BY DEF Rec
<1>1. PICK x : x = d[o]
  OBVIOUS
<1>2. PICK under : under = [t EXCEPT !.d[q] = x, !.d[o] = NIL]
  OBVIOUS
<1>3. PICK d2 : d2 = [d EXCEPT ![q] = x, ![o] = NIL]
  OBVIOUS
<1>4. under = Rec(l, rr, d2)
  <2>1. under.l = l
    BY <1>2 DEF Rec
  <2>2. under.r = rr
    BY <1>2 DEF Rec
  <2>3. under.d = d2
    BY <1>2, <1>3 DEF Rec
  <2>4. under = [l |-> under.l, r |-> under.r, d |-> under.d]
    BY <1>2 DEF Rec
  <2> QED
    BY <2>1, <2>2, <2>3, <2>4 DEF Rec
<1>5. CASE rr[x] = o
  <2>1. PICK z : z = [under EXCEPT !.r[x] = q]
    OBVIOUS
  <2>2. InPlace(t, q, o) = z
    BY <2>1, <1>0, <1>1, <1>2, <1>5 DEF InPlace
  <2>3. z.l = l
    BY <2>1, <1>4 DEF Rec
  <2>4. z.r = [rr EXCEPT ![x] = q]
    BY <2>1, <1>4 DEF Rec
  <2>5. z.d = d2
    BY <2>1, <1>4 DEF Rec
  <2>6. z = [l |-> z.l, r |-> z.r, d |-> z.d]
    BY <2>1, <1>4 DEF Rec
  <2>7. InPlace(t, q, o) = Rec(l, [rr EXCEPT ![x] = q], d2)
    BY <2>2, <2>3, <2>4, <2>5, <2>6 DEF Rec
  <2>8. Put(l, rr, d, q, o, l, [rr EXCEPT ![x] = q], d2)
    BY <1>1, <1>3, <1>5 DEF Put
  <2> QED
    BY <2>7, <2>8
<1>6. CASE rr[x] # o
  <2>1. PICK z : z = [under EXCEPT !.l[x] = q]
    OBVIOUS
  <2>2. InPlace(t, q, o) = z
    BY <2>1, <1>0, <1>1, <1>2, <1>6 DEF InPlace
  <2>3. z.l = [l EXCEPT ![x] = q]
    BY <2>1, <1>4 DEF Rec
  <2>4. z.r = rr
    BY <2>1, <1>4 DEF Rec
  <2>5. z.d = d2
    BY <2>1, <1>4 DEF Rec
  <2>6. z = [l |-> z.l, r |-> z.r, d |-> z.d]
    BY <2>1, <1>4 DEF Rec
  <2>7. InPlace(t, q, o) = Rec([l EXCEPT ![x] = q], rr, d2)
    BY <2>2, <2>3, <2>4, <2>5, <2>6 DEF Rec
  <2>8. Put(l, rr, d, q, o, [l EXCEPT ![x] = q], rr, d2)
    BY <1>1, <1>3, <1>6 DEF Put
  <2> QED
    BY <2>7, <2>8
<1> QED
  BY <1>5, <1>6

LEMMA WithSonsIs ==
  ASSUME NEW l, NEW rr, NEW d, NEW t, t = Rec(l, rr, d), NEW q, NEW a, NEW b,
         NEW z, z = WithSons(t, q, a, b)
  PROVE  z = Rec([l EXCEPT ![q] = a], [rr EXCEPT ![q] = b], [d EXCEPT ![a] = q, ![b] = q])
<1>1. z.l = [l EXCEPT ![q] = a]
  BY DEF Rec, WithSons
<1>2. z.r = [rr EXCEPT ![q] = b]
  BY DEF Rec, WithSons
<1>3. z.d = [d EXCEPT ![a] = q, ![b] = q]
  BY DEF Rec, WithSons
<1>4. z = [l |-> z.l, r |-> z.r, d |-> z.d]
  BY DEF Rec, WithSons
<1> QED
  BY <1>1, <1>2, <1>3, <1>4 DEF Rec

(* How the code takes a node away from its place and gives it two sons.    *)
Moved(l, rr, d, o, q, lD, rD, dD) ==
  IF q = l[o] THEN lD = l /\ rD = [rr EXCEPT ![q] = rr[o]] /\ dD = [d EXCEPT ![rr[o]] = q]
  ELSE /\ lD = [l EXCEPT ![q] = l[o]]
       /\ rD = [[rr EXCEPT ![d[q]] = l[q]] EXCEPT ![q] = rr[o]]
       /\ dD = [[d EXCEPT ![l[q]] = d[q]] EXCEPT ![l[o]] = q, ![rr[o]] = q]

LEMMA DetachedIs ==
  ASSUME NEW l, NEW rr, NEW d, NEW t, t = Rec(l, rr, d), NEW q, NEW z, z = Detached(t, q)
  PROVE  \E lD, rD, dD : z = Rec(lD, rD, dD) /\ Moved(l, rr, d, s, q, lD, rD, dD)
<1>1. t.d = d /\ t.r = rr /\ t.l = l
  BY DEF Rec
<1>2. PICK a, b : a = l[s] /\ b = rr[s]
  OBVIOUS
<1>3. CASE q = a
  <2>1. z = [t EXCEPT !.r[q] = b, !.d[b] = q]
    BY <1>1, <1>2, <1>3 DEF Detached
  <2>2. z.l = l
    BY <2>1 DEF Rec
  <2>3. z.r = [rr EXCEPT ![q] = b]
    BY <2>1 DEF Rec
  <2>4. z.d = [d EXCEPT ![b] = q]
    BY <2>1 DEF Rec
  <2>5. z = [l |-> z.l, r |-> z.r, d |-> z.d]
    BY <2>1 DEF Rec
  <2>6. z = Rec(l, [rr EXCEPT ![q] = b], [d EXCEPT ![b] = q])
    BY <2>2, <2>3, <2>4, <2>5 DEF Rec
  <2>7. Moved(l, rr, d, s, q, l, [rr EXCEPT ![q] = b], [d EXCEPT ![b] = q])
    BY <1>2, <1>3 DEF Moved
  <2> QED
    BY <2>6, <2>7
<1>4. CASE q # a
  <2>1. PICK x, y : x = d[q] /\ y = l[q]
    OBVIOUS
  <2>2. PICK u : u = [t EXCEPT !.r[x] = y, !.d[y] = x]
    OBVIOUS
  <2>3. z = WithSons(u, q, a, b)
    BY <2>1, <2>2, <1>1, <1>2, <1>4 DEF Detached
  <2>4. u.l = l
    BY <2>2 DEF Rec
  <2>5. u.r = [rr EXCEPT ![x] = y]
    BY <2>2 DEF Rec
  <2>6. u.d = [d EXCEPT ![y] = x]
    BY <2>2 DEF Rec
  <2>7. u = [l |-> u.l, r |-> u.r, d |-> u.d]
    BY <2>2 DEF Rec
  <2>8. u = Rec(u.l, u.r, u.d)
    BY <2>7 DEF Rec
  <2>9. z.l = [u.l EXCEPT ![q] = a]
    BY <2>3, <2>7 DEF WithSons
  <2>10. z.r = [u.r EXCEPT ![q] = b]
    BY <2>3, <2>7 DEF WithSons
  <2>11. z.d = [u.d EXCEPT ![a] = q, ![b] = q]
    BY <2>3, <2>7 DEF WithSons
  <2>12. z = [l |-> z.l, r |-> z.r, d |-> z.d]
    BY <2>3, <2>7 DEF WithSons
  <2>13. z = Rec(z.l, z.r, z.d)
    BY <2>12 DEF Rec
  <2>14. PICK lD, rD, dD : lD = z.l /\ rD = z.r /\ dD = z.d
    OBVIOUS
  <2>15. Moved(l, rr, d, s, q, lD, rD, dD)
    <3>1. lD = [l EXCEPT ![q] = a]
      BY <2>4, <2>9, <2>14
    <3>2. rD = [[rr EXCEPT ![x] = y] EXCEPT ![q] = b]
      BY <2>5, <2>10, <2>14
    <3>3. dD = [[d EXCEPT ![y] = x] EXCEPT ![a] = q, ![b] = q]
      BY <2>6, <2>11, <2>14
    <3> QED
      BY <2>1, <3>1, <3>2, <3>3, <1>2, <1>4 DEF Moved
  <2> QED
    BY <2>13, <2>14, <2>15
<1> QED
  BY <1>3, <1>4

(* Cells of what is not in a tree do not matter.                           *)
LEMMA SoundSame ==
  ASSUME NEW lt, NEW l, NEW rr, NEW d, NEW dp, NEW m, NEW up, Sound(lt, l, rr, d, dp, m, up),
         NEW l2, NEW r2, NEW d2, TreeTypes(l2, r2, d2), \A z \in Node : d2[z] = d[z],
         \A z \in Live(d) : l2[z] = l[z], \A z \in Fathers(d) : r2[z] = rr[z]
  PROVE  Sound(lt, l2, r2, d2, dp, m, up) /\ Live(d2) = Live(d)
<1>1. Shape(l, rr, d) /\ Ranked(d, dp, m) /\ Lines(d, up) /\ Ordered(lt, l, rr, d, up)
  BY DEF Sound
<1>2. Live(d2) = Live(d) /\ Fathers(d2) = Fathers(d) /\ \A y \in Live(d) : d2[y] = d[y] /\ y \in Fathers(d)
  BY DEF Live, Fathers
<1>3. \A x \in Fathers(d) : x \in Node => x \in Live(d)
  BY Places DEF Fathers
<1>4. ASSUME NEW y \in Live(d) PROVE d2[y] \in Fathers(d) /\ IsSon(l2, r2, d2, y)
  <2>1. d2[y] = d[y] /\ d[y] \in Fathers(d) /\ IsSon(l, rr, d, y)
    BY <1>1, <1>2 DEF Shape
  <2> QED
    BY <2>1, <1>3 DEF IsSon
<1>5. \A y \in Live(d) : l2[y] # NIL => l2[y] \in Live(d) /\ d2[l2[y]] = y /\ l2[y] # r2[y]
  BY <1>1, <1>2 DEF Shape
<1>6. \A y \in Fathers(d) : r2[y] # NIL => r2[y] \in Live(d) /\ d2[r2[y]] = y
  BY <1>1, <1>2 DEF Shape
<1>7. Shape(l2, r2, d2)
  BY <1>2, <1>4, <1>5, <1>6 DEF Shape
<1>8. Ranked(d2, dp, m)
  BY <1>1, <1>2 DEF Ranked
<1>9. Lines(d2, up)
  BY <1>1, <1>2 DEF Lines
<1>10. Ordered(lt, l2, r2, d2, up)
  BY <1>1, <1>2 DEF Ordered
<1> QED
  BY <1>2, <1>7, <1>8, <1>9, <1>10 DEF Sound

(* Nodes on one line have one root.                                        *)
LEMMA SameRoot ==
  ASSUME NEW l, NEW rr, NEW d, Shape(l, rr, d), NEW dp, NEW m, Ranked(d, dp, m),
         NEW up, Lines(d, up)
  PROVE  \A y \in Fathers(d) : \A x \in up[y] : up[x] \cap Roots = up[y] \cap Roots
<1> DEFINE Good(y) == \A x \in up[y] : up[x] \cap Roots = up[y] \cap Roots
<1> DEFINE T == {n \in 0 .. m : \E y \in Fathers(d) : dp[y] = n /\ ~Good(y)}
<1>1. m \in Nat /\ \A y \in Fathers(d) : dp[y] \in 0 .. m
  BY Places DEF Ranked, Fathers, Live
<1> SUFFICES ASSUME T # {} PROVE FALSE
  <2>1. ASSUME NEW y \in Fathers(d), ~Good(y) PROVE dp[y] \in T
    BY <1>1, <2>1
  <2> HIDE DEF T
  <2>2. \A y \in Fathers(d) : Good(y)
    BY <2>1
  <2> QED
    BY <2>2
<1>2. T \in SUBSET Nat
  BY <1>1
<1>3. PICK n \in T : \A n2 \in T : n <= n2
  BY <1>2, Least, Zenon
<1>4. PICK y \in Fathers(d) : dp[y] = n /\ ~Good(y)
  BY <1>3
<1>5. ASSUME NEW z \in Fathers(d), dp[z] < dp[y] PROVE Good(z)
  <2>1. dp[z] \notin T
    BY <1>1, <1>3, <1>4, <1>5
  <2>2. dp[z] \in 0 .. m
    BY <1>1
  <2> HIDE DEF Good
  <2> QED
    BY <2>1, <2>2
<1>6. y \notin Roots
  <2>1. ASSUME y \in Roots PROVE Good(y)
    <3>1. up[y] = {y}
      BY <2>1 DEF Lines
    <3> QED
      BY <3>1
  <2> QED
    BY <2>1, <1>4
<1>7. y \in Live(d) /\ d[y] \in Fathers(d) /\ dp[d[y]] < dp[y]
  BY <1>6 DEF Fathers, Shape, Ranked
<1>8. Good(d[y])
  BY <1>5, <1>7
<1>9. up[y] = {y} \cup up[d[y]] /\ d[y] \in up[d[y]]
  <2>1. \A z \in Fathers(d) : z \in up[z]
    BY UpIs
  <2> QED
    BY <2>1, <1>7 DEF Lines
<1>10. up[y] \cap Roots = up[d[y]] \cap Roots
  BY <1>6, <1>9
<1>11. Good(y)
  BY <1>8, <1>9, <1>10
<1> QED
  BY <1>4, <1>11

(* What goes has two sons, and the rightmost node on its left comes in.    *)
TwoSons(lt, l, rr, d, dp, m, up, o, q) ==
  /\ Sound(lt, l, rr, d, dp, m, up) /\ Linear(lt)
  /\ o \in Live(d) /\ l[o] # NIL /\ rr[o] # NIL
  /\ RightEnd(lt, l, rr, d, up, l[o], q)

Around(l, rr, d, up, o, q) ==
  /\ o \in Node /\ q \in Live(d) /\ q \in Node /\ q # o /\ rr[q] = NIL
  /\ l[o] \in Live(d) /\ rr[o] \in Live(d) /\ l[o] # rr[o] /\ d[l[o]] = o /\ d[rr[o]] = o
  /\ d[o] \in Fathers(d) /\ d[o] # q /\ d[o] # o /\ d[o] \in up[o]
  /\ o \in up[q] /\ up[o] \subseteq up[q] /\ l[o] \in up[q] /\ q \notin up[o]
  /\ q # l[o] => d[q] \notin up[o] /\ d[q] # o /\ d[q] # q /\ d[q] \in Live(d) /\ rr[d[q]] = q
  /\ q = l[o] => d[q] = o /\ rr[o] # q
  /\ l[q] # o /\ q # rr[o] /\ l[q] # rr[o] /\ l[q] # l[o] /\ l[q] # q
  /\ l[q] # NIL => l[q] \in Live(d) /\ d[l[q]] = q

LEMMA TwoSonsIs ==
  ASSUME NEW lt, NEW l, NEW rr, NEW d, NEW dp, NEW m, NEW up, NEW o, NEW q,
         TwoSons(lt, l, rr, d, dp, m, up, o, q)
  PROVE  Around(l, rr, d, up, o, q)
<1>1. Shape(l, rr, d) /\ Ranked(d, dp, m) /\ Lines(d, up) /\ o \in Live(d)
  BY DEF TwoSons, Sound
<1>2. m \in Nat /\ \A y \in Fathers(d) : dp[y] \in 0 .. m
  BY <1>1, Places DEF Ranked, Fathers, Live
<1>3. Live(d) \subseteq Fathers(d) /\ Live(d) \subseteq Node
  BY DEF Fathers, Live
<1>4. \A y \in Fathers(d) :
        /\ y \in up[y] /\ up[y] \subseteq Fathers(d)
        /\ \A x \in up[y] : up[x] \subseteq up[y] /\ (x # y => dp[x] < dp[y])
  BY <1>1, UpIs
<1>5. \A y \in Live(d) : up[y] = {y} \cup up[d[y]] /\ d[y] \in Fathers(d) /\ dp[d[y]] < dp[y]
  BY <1>1 DEF Lines, Shape, Ranked
<1>6. PICK a : a = l[o]
  OBVIOUS
<1>7. a \in Live(d) /\ d[a] = o /\ rr[o] \in Live(d) /\ d[rr[o]] = o /\ a # rr[o]
  BY <1>1, <1>3, <1>6 DEF TwoSons, Shape
<1>8. q \in Live(d) /\ rr[q] = NIL /\ a \in up[q]
  BY <1>6 DEF TwoSons, RightEnd
<1>9. q # a => d[q] \in Live(d) /\ rr[d[q]] = q /\ a \in up[d[q]]
  BY <1>6 DEF TwoSons, RightEnd
<1>10. \A y \in Live(d) : dp[y] \in Nat /\ dp[d[y]] \in Nat
  BY <1>2, <1>3, <1>5
<1>11. dp[o] < dp[a] /\ o \in up[a] /\ up[a] \subseteq up[q] /\ dp[o] \in Nat /\ dp[a] \in Nat
  BY <1>1, <1>3, <1>4, <1>5, <1>7, <1>8, <1>10
<1>12. dp[o] < dp[q] /\ dp[q] \in Nat
  <2>1. a # q => dp[a] < dp[q]
    BY <1>3, <1>4, <1>8
  <2>2. dp[q] \in Nat
    BY <1>8, <1>10
  <2> QED
    BY <1>11, <2>1, <2>2
<1>13. a \notin up[o]
  <2>1. a \in up[o] => a = o \/ dp[a] < dp[o]
    BY <1>1, <1>3, <1>4
  <2> QED
    BY <2>1, <1>11
<1>14. q \notin up[o] /\ q # o
  <2>1. q \in up[o] => q = o \/ dp[q] < dp[o]
    BY <1>1, <1>3, <1>4
  <2> QED
    BY <2>1, <1>11, <1>12
<1>15. o \in up[q] /\ up[o] \subseteq up[q]
  BY <1>3, <1>4, <1>8, <1>11
<1>16. d[o] \in Fathers(d) /\ dp[d[o]] < dp[o] /\ d[o] \in up[o] /\ dp[d[o]] \in Nat
  BY <1>1, <1>4, <1>5, <1>10
<1>17. d[o] # o /\ d[o] # q
  BY <1>11, <1>12, <1>16
<1>18. dp[d[q]] < dp[q] /\ d[q] # q
  <2>1. dp[d[q]] < dp[q] /\ dp[d[q]] \in Nat
    BY <1>5, <1>8, <1>10
  <2> QED
    BY <2>1, <1>12
<1>19. ASSUME q # a PROVE d[q] \notin up[o] /\ d[q] # o
  <2>1. d[q] \in up[o] => up[d[q]] \subseteq up[o]
    BY <1>1, <1>3, <1>4
  <2> QED
    BY <2>1, <1>9, <1>13, <1>19
<1>20. l[q] # NIL => l[q] \in Live(d) /\ d[l[q]] = q
  BY <1>1, <1>8 DEF Shape
<1>21. l[q] # o /\ l[q] # rr[o] /\ l[q] # a /\ l[q] # q
  <2>1. o # NIL /\ rr[o] # NIL /\ a # NIL /\ q # NIL
    BY <1>1, <1>3, <1>7, <1>8, Places
  <2> QED
    BY <2>1, <1>7, <1>14, <1>17, <1>18, <1>20
<1>22. q # rr[o]
  BY <1>7, <1>19
<1>23. o \in Node /\ q \in Node
  BY <1>1, <1>3, <1>8
<1>24. q = a => d[q] = o /\ rr[o] # q
  BY <1>7
<1> QED
  BY <1>6, <1>7, <1>8, <1>9, <1>11, <1>14, <1>15, <1>16, <1>17, <1>18, <1>19, <1>20, <1>21, <1>22,
     <1>23, <1>24 DEF Around

(* The node that comes in has gone from its place.                         *)
Taken(l, rr, d, o, q, lA, rA, dA) ==
  /\ TreeTypes(lA, rA, dA) /\ Live(dA) = Live(d) \ {q} /\ o \in Live(dA)
  /\ dA[q] = NIL /\ dA[o] = d[o]
  /\ \A z \in 0 .. N : z # q => dA[z] = IF z = l[q] THEN d[q] ELSE d[z]
  /\ \A z \in 0 .. N + Bytes : rA[z] = IF z = d[q] /\ q # l[o] THEN l[q] ELSE rr[z]
  /\ \A z \in 0 .. N : lA[z] = IF z = o /\ q = l[o] THEN l[q] ELSE l[z]

LEMMA TakenIs ==
  ASSUME NEW lt, NEW l, NEW rr, NEW d, NEW dp, NEW m, NEW up, NEW o, NEW q,
         TwoSons(lt, l, rr, d, dp, m, up, o, q),
         NEW lA, NEW rA, NEW dA, Put(l, rr, d, l[q], q, lA, rA, dA)
  PROVE  /\ Taken(l, rr, d, o, q, lA, rA, dA)
         /\ Sound(lt, lA, rA, dA, dp, m, [y \in 0 .. N + Bytes |-> up[y] \ {q}])
<1>1. Sound(lt, l, rr, d, dp, m, up) /\ Shape(l, rr, d) /\ TreeTypes(l, rr, d) /\ o \in Live(d)
  BY DEF TwoSons, Sound, Shape
<1>2. Around(l, rr, d, up, o, q)
  BY TwoSonsIs
<1>3. PICK h : h = l[q]
  OBVIOUS
<1>4. q \in Live(d) /\ OnlySon(l, rr, q, h) /\ d[q] # q
  <2>1. q = l[o] => d[q] # q
    BY <1>2 DEF Around
  <2> QED
    BY <2>1, <1>2, <1>3 DEF Around, OnlySon
<1>5. Put(l, rr, d, h, q, lA, rA, dA)
  BY <1>3
<1>6. Sound(lt, lA, rA, dA, dp, m, [y \in 0 .. N + Bytes |-> up[y] \ {q}])
  BY <1>1, <1>4, <1>5, UnlinkSound
<1>7. Shape(lA, rA, dA) /\ Live(dA) = Live(d) \ {q}
  BY <1>1, <1>4, <1>5, UnlinkShape
<1>8. PICK x : x = d[q]
  OBVIOUS
<1>9. q \in Node /\ h \in 0 .. N /\ h # q /\ (rr[x] = q \/ x \in Node)
  BY <1>1, <1>4, <1>8, OnlySonIs
<1>10. /\ TreeTypes(lA, rA, dA)
       /\ dA[q] = NIL /\ dA[h] = x /\ \A z \in 0 .. N : z # q /\ z # h => dA[z] = d[z]
       /\ \A z \in 0 .. N + Bytes : rA[z] = IF z = x /\ rr[x] = q THEN h ELSE rr[z]
       /\ \A z \in 0 .. N : lA[z] = IF z = x /\ rr[x] # q THEN h ELSE l[z]
  BY <1>1, <1>5, <1>8, <1>9, PutIs
<1>11. rr[x] = q <=> q # l[o]
  BY <1>2, <1>8 DEF Around
<1>12. q = l[o] => x = o
  BY <1>2, <1>8 DEF Around
<1>13. o \in 0 .. N /\ o # q /\ o # h
  BY <1>2, <1>3, Places DEF Around
<1>14. o \in Live(dA) /\ dA[o] = d[o]
  BY <1>1, <1>7, <1>10, <1>13
<1>15. \A z \in 0 .. N : z # q => dA[z] = IF z = h THEN x ELSE d[z]
  BY <1>10
<1>16. \A z \in 0 .. N + Bytes : rA[z] = IF z = x /\ q # l[o] THEN h ELSE rr[z]
  BY <1>10, <1>11
<1>17. \A z \in 0 .. N : lA[z] = IF z = o /\ q = l[o] THEN h ELSE l[z]
  BY <1>10, <1>11, <1>12
<1> QED
  BY <1>3, <1>6, <1>7, <1>8, <1>10, <1>14, <1>15, <1>16, <1>17 DEF Taken

LEMMA TakenFits ==
  ASSUME NEW lt, NEW l, NEW rr, NEW d, NEW dp, NEW m, NEW up, NEW o, NEW q,
         TwoSons(lt, l, rr, d, dp, m, up, o, q),
         NEW lA, NEW rA, NEW dA, Taken(l, rr, d, o, q, lA, rA, dA),
         NEW upA, upA = [y \in 0 .. N + Bytes |-> up[y] \ {q}]
  PROVE  Fits(lt, lA, rA, dA, upA, o, q) /\ Parts(lt, lA, rA, dA, upA, o, q)
<1>1. /\ Shape(l, rr, d) /\ Ranked(d, dp, m) /\ Lines(d, up) /\ Ordered(lt, l, rr, d, up)
      /\ o \in Live(d) /\ Linear(lt) /\ RightEnd(lt, l, rr, d, up, l[o], q)
  BY DEF TwoSons, Sound
<1>2. Around(l, rr, d, up, o, q)
  BY TwoSonsIs
<1>3. /\ Live(dA) = Live(d) \ {q}
      /\ \A z \in 0 .. N + Bytes : rA[z] = IF z = d[q] /\ q # l[o] THEN l[q] ELSE rr[z]
      /\ \A z \in 0 .. N : lA[z] = IF z = o /\ q = l[o] THEN l[q] ELSE l[z]
  BY DEF Taken
<1>4. Live(d) \subseteq 0 .. N /\ Live(d) \subseteq 0 .. N + Bytes /\ Live(d) \subseteq Fathers(d)
  BY Places DEF Live, Fathers
<1>5. \A y \in Live(d) : upA[y] = up[y] \ {q}
  BY <1>4
<1>6. \A y \in Fathers(d) : \A x \in up[y] : up[x] \subseteq up[y]
  BY <1>1, UpIs
<1>7. \A y \in Fathers(d) : y \in up[y] /\ up[y] \subseteq Fathers(d)
  BY <1>1, UpIs
<1>8. ASSUME NEW a \in (upA[o] \cap Live(dA)) \ {o}
      PROVE  (lA[a] \in upA[o] => <<a, q>> \notin lt) /\ (rA[a] \in upA[o] => <<q, a>> \notin lt)
  <2>1. a \in up[o] /\ a \in Live(d) /\ a # o /\ a # q
    BY <1>1, <1>3, <1>5, <1>8
  <2>2. a \in up[q] /\ q \in Live(d)
    BY <2>1, <1>2 DEF Around
  <2>3. (l[a] \in up[q] => <<a, q>> \notin lt) /\ (rr[a] \in up[q] => <<q, a>> \notin lt)
    BY <2>1, <2>2, <1>1 DEF Ordered
  <2>4. lA[a] = l[a]
    BY <2>1, <1>3, <1>4
  <2>5. rA[a] = rr[a]
    <3>1. q # l[o] => d[q] # a
      BY <2>1, <1>2 DEF Around
    <3> QED
      BY <2>1, <3>1, <1>3, <1>4
  <2>6. upA[o] \subseteq up[q]
    BY <1>1, <1>2, <1>5 DEF Around
  <2> QED
    BY <2>3, <2>4, <2>5, <2>6
<1>9. ASSUME NEW y \in Live(dA) \ {o}
      PROVE  (lA[o] \in upA[y] => <<q, y>> \notin lt) /\ (rA[o] \in upA[y] => <<y, q>> \notin lt)
  <2>1. y \in Live(d) /\ y # q /\ y # o /\ upA[y] \subseteq up[y] /\ y \in Fathers(d)
    BY <1>3, <1>4, <1>5, <1>9
  <2>2. ASSUME l[o] \in up[y] PROVE <<q, y>> \notin lt
    BY <2>1, <2>2, <1>1 DEF RightEnd
  <2>3. ASSUME lA[o] \in up[y] PROVE l[o] \in up[y]
    <3>1. CASE q # l[o]
      BY <2>3, <3>1, <1>1, <1>3, <1>4
    <3>2. CASE q = l[o]
      <4>1. l[q] \in up[y]
        BY <2>3, <3>2, <1>1, <1>3, <1>4
      <4>2. l[q] # NIL
        BY <4>1, <2>1, <1>7, Places DEF Fathers, Live
      <4>3. l[q] \in Live(d) /\ d[l[q]] = q /\ q \in Fathers(d)
        BY <4>2, <1>2, <1>4 DEF Around
      <4>4. up[l[q]] = {l[q]} \cup up[q]
        BY <4>3, <1>1 DEF Lines
      <4>5. q \in up[q]
        BY <4>3, <1>7
      <4>6. up[l[q]] \subseteq up[y]
        BY <4>1, <2>1, <1>6
      <4> QED
        BY <4>4, <4>5, <4>6, <3>2
    <3> QED
      BY <3>1, <3>2
  <2>4. rA[o] = rr[o]
    <3>1. q # l[o] => d[q] # o
      BY <1>2 DEF Around
    <3> QED
      BY <3>1, <1>1, <1>3, <1>4
  <2>5. ASSUME rr[o] \in up[y] PROVE <<y, q>> \notin lt
    <3>1. rr[o] \in Live(d) /\ d[rr[o]] = o /\ q \in Live(d) /\ o \in up[q] /\ q # o /\ l[o] \in up[q]
      BY <1>2 DEF Around
    <3>2. up[rr[o]] = {rr[o]} \cup up[o] /\ o \in up[o] /\ up[rr[o]] \subseteq up[y]
      BY <3>1, <2>1, <2>5, <1>1, <1>4, <1>6, <1>7 DEF Lines
    <3>3. o \in (up[y] \cap Live(d)) \ {y}
      BY <3>2, <2>1, <1>1
    <3>4. <<y, o>> \notin lt
      BY <3>3, <2>1, <2>5, <1>1 DEF Ordered
    <3>5. <<o, q>> \notin lt
      BY <3>1, <1>1 DEF Ordered
    <3>6. y \in Node /\ o \in Node /\ q \in Node
      BY <2>1, <3>1, <1>1 DEF Live
    <3> QED
      BY <3>4, <3>5, <3>6, <1>1 DEF Linear
  <2> QED
    BY <2>1, <2>2, <2>3, <2>4, <2>5
<1> QED
  BY <1>8, <1>9 DEF Fits, Parts

LEMMA MovedIs ==
  ASSUME NEW l, NEW rr, NEW d, NEW up, NEW o, NEW q, TreeTypes(l, rr, d), Around(l, rr, d, up, o, q),
         NEW lD, NEW rD, NEW dD, Moved(l, rr, d, o, q, lD, rD, dD)
  PROVE  /\ TreeTypes(lD, rD, dD) /\ dD[o] = d[o]
         /\ \A z \in 0 .. N : lD[z] = IF z = q THEN IF q = l[o] THEN l[q] ELSE l[o] ELSE l[z]
         /\ \A z \in 0 .. N + Bytes : rD[z] = IF z = q THEN rr[o]
                                              ELSE IF z = d[q] /\ q # l[o] THEN l[q] ELSE rr[z]
         /\ \A z \in 0 .. N : dD[z] = IF z = rr[o] \/ (z = l[o] /\ q # l[o]) THEN q
                                      ELSE IF z = l[q] /\ q # l[o] THEN d[q] ELSE d[z]
<1>1. PICK a, b, h, x : a = l[o] /\ b = rr[o] /\ h = l[q] /\ x = d[q]
  OBVIOUS
<1>2. /\ o \in 0 .. N /\ q \in 0 .. N /\ a \in 0 .. N /\ b \in 0 .. N /\ h \in 0 .. N
      /\ x \in 0 .. N + Bytes /\ q \in 0 .. N + Bytes
  <2>1. o \in Node /\ q \in Node
    BY DEF Around
  <2> QED
    BY <2>1, <1>1, Places DEF TreeTypes
<1>3. o # q /\ o # a /\ o # b /\ o # h /\ a # b /\ h # a /\ h # b /\ h # q /\ b # q
  <2>1. d[o] # o /\ d[a] = o /\ d[b] = o
    BY <1>1 DEF Around
  <2> QED
    BY <2>1, <1>1 DEF Around
<1>4. q # a => x # q
  BY <1>1 DEF Around
<1>5. CASE q = a
  <2>1. lD = l /\ rD = [rr EXCEPT ![q] = b] /\ dD = [d EXCEPT ![b] = q]
    BY <1>1, <1>5 DEF Moved
  <2>2. TreeTypes(lD, rD, dD)
    BY <2>1, <1>2 DEF TreeTypes
  <2>3. /\ \A z \in 0 .. N : lD[z] = l[z]
        /\ \A z \in 0 .. N + Bytes : rD[z] = IF z = q THEN b ELSE rr[z]
        /\ \A z \in 0 .. N : dD[z] = IF z = b THEN q ELSE d[z]
    BY <2>1, <1>2 DEF TreeTypes
  <2>4. dD[o] = d[o]
    BY <2>3, <1>2, <1>3
  <2> QED
    BY <2>2, <2>3, <2>4, <1>1, <1>5
<1>6. CASE q # a
  <2>1. /\ lD = [l EXCEPT ![q] = a]
        /\ rD = [[rr EXCEPT ![x] = h] EXCEPT ![q] = b]
        /\ dD = [[d EXCEPT ![h] = x] EXCEPT ![a] = q, ![b] = q]
    BY <1>1, <1>6 DEF Moved
  <2>2. lD \in [0 .. N -> 0 .. N] /\ \A z \in 0 .. N : lD[z] = IF z = q THEN a ELSE l[z]
    BY <2>1, <1>2 DEF TreeTypes
  <2>3. /\ rD \in [0 .. N + Bytes -> 0 .. N]
        /\ \A z \in 0 .. N + Bytes : rD[z] = IF z = q THEN b ELSE IF z = x THEN h ELSE rr[z]
    BY <2>1, <1>2 DEF TreeTypes
  <2>4. PICK d1 : d1 = [d EXCEPT ![h] = x]
    OBVIOUS
  <2>5. d1 \in [0 .. N -> 0 .. N + Bytes] /\ \A z \in 0 .. N : d1[z] = IF z = h THEN x ELSE d[z]
    BY <2>4, <1>2 DEF TreeTypes
  <2>6. dD = [d1 EXCEPT ![a] = q, ![b] = q]
    BY <2>1, <2>4
  <2>7. dD \in [0 .. N -> 0 .. N + Bytes]
    BY <2>5, <2>6, <1>2
  <2>8. \A z \in 0 .. N : dD[z] = IF z = a \/ z = b THEN q ELSE d1[z]
    BY <2>5, <2>6, <1>2
  <2>9. TreeTypes(lD, rD, dD)
    BY <2>2, <2>3, <2>7 DEF TreeTypes
  <2>10. dD[o] = d[o]
    BY <2>5, <2>8, <1>2, <1>3
  <2>11. \A z \in 0 .. N : dD[z] = IF z = b \/ z = a THEN q ELSE IF z = h THEN x ELSE d[z]
    BY <2>5, <2>8
  <2> QED
    BY <2>2, <2>3, <2>9, <2>10, <2>11, <1>1, <1>6
<1> QED
  BY <1>5, <1>6

LEMMA HeirSame ==
  ASSUME NEW lt, NEW l, NEW rr, NEW d, NEW dp, NEW m, NEW up, NEW o, NEW q,
         TwoSons(lt, l, rr, d, dp, m, up, o, q),
         NEW lA, NEW rA, NEW dA, Taken(l, rr, d, o, q, lA, rA, dA), Shape(lA, rA, dA),
         NEW l1, NEW r1, NEW d1, Sons(lA, rA, dA, q, o, l1, r1, d1),
         NEW lB, NEW rB, NEW dB, Put(l1, r1, d1, q, o, lB, rB, dB),
         NEW lD, NEW rD, NEW dD, Moved(l, rr, d, o, q, lD, rD, dD),
         NEW l2, NEW r2, NEW d2, Put(lD, rD, dD, q, o, l2, r2, d2)
  PROVE  /\ TreeTypes(l2, r2, d2) /\ \A z \in Node : d2[z] = dB[z]
         /\ \A z \in Node : z # o => l2[z] = lB[z]
         /\ \A z \in 0 .. N + Bytes : r2[z] = rB[z]
<1>1. Shape(l, rr, d) /\ TreeTypes(l, rr, d)
  BY DEF TwoSons, Sound, Shape
<1>2. Around(l, rr, d, up, o, q)
  BY TwoSonsIs
<1>3. PICK x : x = d[o]
  OBVIOUS
<1>4. /\ dA[q] = NIL /\ dA[o] = x /\ o \in Live(dA)
      /\ \A z \in 0 .. N : z # q => dA[z] = IF z = l[q] THEN d[q] ELSE d[z]
      /\ \A z \in 0 .. N + Bytes : rA[z] = IF z = d[q] /\ q # l[o] THEN l[q] ELSE rr[z]
      /\ \A z \in 0 .. N : lA[z] = IF z = o /\ q = l[o] THEN l[q] ELSE l[z]
  BY <1>3 DEF Taken
<1>5. /\ q \in Node /\ o \in Node /\ x # q /\ x # o /\ o # q
      /\ x \in Fathers(d) /\ (rr[x] = o \/ x \in Node)
  BY <1>1, <1>2, <1>3 DEF Around, TwoSons, Shape, IsSon
<1>6. /\ dB[o] = NIL /\ dB[q] = x
      /\ \A z \in Node : z # o /\ z # q => dB[z] = IF dA[z] = o THEN q ELSE dA[z]
      /\ \A z \in 0 .. N + Bytes : rB[z] = IF z = x /\ rA[x] = o THEN q
                                           ELSE IF z = q THEN rA[o] ELSE rA[z]
      /\ \A z \in 0 .. N : lB[z] = IF z = x /\ rA[x] # o THEN q
                                   ELSE IF z = q THEN lA[o] ELSE lA[z]
  BY <1>4, <1>5, ReplaceIs
<1>7. /\ TreeTypes(lD, rD, dD) /\ dD[o] = x
      /\ \A z \in 0 .. N : lD[z] = IF z = q THEN IF q = l[o] THEN l[q] ELSE l[o] ELSE l[z]
      /\ \A z \in 0 .. N + Bytes : rD[z] = IF z = q THEN rr[o]
                                           ELSE IF z = d[q] /\ q # l[o] THEN l[q] ELSE rr[z]
      /\ \A z \in 0 .. N : dD[z] = IF z = rr[o] \/ (z = l[o] /\ q # l[o]) THEN q
                                   ELSE IF z = l[q] /\ q # l[o] THEN d[q] ELSE d[z]
  BY <1>1, <1>2, <1>3, MovedIs
<1>8. x \in 0 .. N + Bytes /\ o \in 0 .. N /\ q \in 0 .. N /\ o \in 0 .. N + Bytes
  BY <1>5, Places DEF Fathers, Live
<1>9. rD[x] = rr[x] /\ rA[x] = rr[x]
  <2>1. q # l[o] => d[q] # x
    BY <1>2, <1>3 DEF Around
  <2> QED
    BY <2>1, <1>4, <1>5, <1>7, <1>8
<1>10. /\ TreeTypes(l2, r2, d2)
       /\ d2[o] = NIL /\ d2[q] = x /\ \A z \in 0 .. N : z # o /\ z # q => d2[z] = dD[z]
       /\ \A z \in 0 .. N + Bytes : r2[z] = IF z = x /\ rD[x] = o THEN q ELSE rD[z]
       /\ \A z \in 0 .. N : l2[z] = IF z = x /\ rD[x] # o THEN q ELSE lD[z]
  <2>1. rD[x] = o \/ x \in Node
    BY <1>5, <1>9
  <2>2. x = dD[o]
    BY <1>7
  <2> QED
    BY <1>5, <1>7, <1>8, <2>1, <2>2, PutIs
<1>11. rA[o] = rr[o] /\ lA[o] = IF q = l[o] THEN l[q] ELSE l[o]
  <2>1. q # l[o] => d[q] # o
    BY <1>2 DEF Around
  <2> QED
    BY <2>1, <1>4, <1>8
<1>12. \A z \in 0 .. N + Bytes : r2[z] = rB[z]
  BY <1>4, <1>6, <1>7, <1>9, <1>10, <1>11
<1>13. \A z \in 0 .. N : z # o => l2[z] = lB[z]
  BY <1>4, <1>6, <1>7, <1>9, <1>10, <1>11
<1>14. ASSUME NEW z \in Node, z # o, z # q PROVE d2[z] = dB[z]
  <2>1. z \in 0 .. N /\ z # NIL /\ o # NIL
    BY <1>5, Places
  <2>2. d[z] = o <=> z = l[o] \/ z = rr[o]
    <3>1. d[z] = o => z \in Live(d)
      BY <2>1 DEF Live
    <3>2. d[z] = o => z = l[o] \/ z = rr[o]
      BY <2>1, <3>1, <1>1 DEF Shape, IsSon
    <3> QED
      BY <3>2, <1>2 DEF Around
  <2>3. CASE z = l[q]
    <3>1. z # rr[o] /\ z # l[o] /\ d[z] = q
      BY <2>1, <2>3, <1>2 DEF Around
    <3>2. dA[z] = d[q]
      BY <2>1, <2>3, <1>4, <1>14
    <3>3. q = l[o] <=> d[q] = o
      BY <1>2 DEF Around
    <3> QED
      BY <2>1, <2>3, <3>1, <3>2, <3>3, <1>6, <1>7, <1>10, <1>14
  <2>4. CASE z # l[q]
    <3>1. dA[z] = d[z]
      BY <2>1, <2>4, <1>4, <1>14
    <3>2. dB[z] = IF d[z] = o THEN q ELSE d[z]
      BY <3>1, <1>6, <1>14
    <3>3. d2[z] = IF z = rr[o] \/ z = l[o] THEN q ELSE d[z]
      BY <2>1, <2>4, <1>7, <1>10, <1>14
    <3> QED
      BY <2>2, <3>2, <3>3
  <2> QED
    BY <2>3, <2>4
<1>15. \A z \in Node : d2[z] = dB[z]
  BY <1>6, <1>10, <1>14
<1> QED
  BY <1>10, <1>12, <1>13, <1>15, Places

SameRoots(d2, up, up2) == \A y \in Live(d2) : up2[y] \cap Roots = up[y] \cap Roots

LEMMA HeirSound ==
  ASSUME NEW lt, NEW l, NEW rr, NEW d, NEW dp, NEW m, NEW up, NEW o, NEW q,
         TwoSons(lt, l, rr, d, dp, m, up, o, q),
         NEW lD, NEW rD, NEW dD, Moved(l, rr, d, o, q, lD, rD, dD),
         NEW l2, NEW r2, NEW d2, Put(lD, rD, dD, q, o, l2, r2, d2)
  PROVE  \E dp2, up2 : /\ Sound(lt, l2, r2, d2, dp2, m, up2)
                       /\ Live(d2) = Live(d) \ {o} /\ SameRoots(d2, up, up2)
<1>1. /\ Shape(l, rr, d) /\ TreeTypes(l, rr, d) /\ Ranked(d, dp, m) /\ Lines(d, up)
      /\ o \in Live(d) /\ o \in Node
  BY DEF TwoSons, Sound, Shape, Live
<1>2. Around(l, rr, d, up, o, q)
  BY TwoSonsIs
<1>3. PICK lA, rA, dA : Put(l, rr, d, l[q], q, lA, rA, dA)
  BY InPlaceIs
<1>4. PICK upA : upA = [y \in 0 .. N + Bytes |-> up[y] \ {q}]
  OBVIOUS
<1>5. Taken(l, rr, d, o, q, lA, rA, dA)
  BY <1>3, TakenIs
<1>6. Sound(lt, lA, rA, dA, dp, m, upA)
  BY <1>3, <1>4, TakenIs
<1>7. Fits(lt, lA, rA, dA, upA, o, q) /\ Parts(lt, lA, rA, dA, upA, o, q)
  BY <1>4, <1>5, TakenFits
<1>8. \E l1, r1, d1 : Sons(lA, rA, dA, q, o, l1, r1, d1)
  BY DEF Sons
<1>9. PICK l1, r1, d1 : Sons(lA, rA, dA, q, o, l1, r1, d1)
  BY <1>8
<1>10. PICK lB, rB, dB : Put(l1, r1, d1, q, o, lB, rB, dB)
  BY InPlaceIs
<1>11. o \in Live(dA) /\ q \in Node /\ dA[q] = NIL /\ Live(dA) = Live(d) \ {q} /\ dA[o] = d[o]
  BY <1>2, <1>5 DEF Taken, Around
<1>12. PICK dp2, up2 : dp2 = [dp EXCEPT ![q] = dp[o]] /\ up2 = Instead(upA, dA[o], o, q)
  OBVIOUS
<1>13. Sound(lt, lB, rB, dB, dp2, m, up2) /\ Live(dB) = (Live(dA) \ {o}) \cup {q}
  <2>1. /\ Sound(lt, lB, rB, dB, [dp EXCEPT ![q] = dp[o]], m, Instead(upA, dA[o], o, q))
        /\ Live(dB) = (Live(dA) \ {o}) \cup {q}
    BY <1>6, <1>7, <1>9, <1>10, <1>11, ReplaceSound
  <2> QED
    BY <2>1, <1>12
<1>14. Shape(lA, rA, dA)
  BY <1>6 DEF Sound
<1>15. /\ TreeTypes(l2, r2, d2) /\ \A z \in Node : d2[z] = dB[z]
       /\ \A z \in Node : z # o => l2[z] = lB[z]
       /\ \A z \in 0 .. N + Bytes : r2[z] = rB[z]
  BY <1>5, <1>9, <1>10, <1>14, HeirSame
<1>16. q # o /\ q \in Live(d)
  BY <1>2 DEF Around
<1>17. Live(dB) = Live(d) \ {o}
  BY <1>11, <1>13, <1>16
<1>18. /\ \A z \in Live(dB) : z \in Node /\ z # o
       /\ \A z \in Fathers(dB) : z \in 0 .. N + Bytes
  BY <1>17, Places DEF Live, Fathers
<1>19. Sound(lt, l2, r2, d2, dp2, m, up2) /\ Live(d2) = Live(dB)
  <2>1. \A z \in Live(dB) : l2[z] = lB[z]
    BY <1>15, <1>18
  <2>2. \A z \in Fathers(dB) : r2[z] = rB[z]
    BY <1>15, <1>18
  <2> QED
    BY <2>1, <2>2, <1>13, <1>15, SoundSame
<1>20. \A y \in Live(d) : y \in 0 .. N + Bytes /\ upA[y] = up[y] \ {q}
  BY <1>4, Places DEF Live
<1>21. up[q] \cap Roots = up[o] \cap Roots
  <2>1. o \in up[q] /\ q \in Fathers(d)
    BY <1>2, <1>16 DEF Around, Fathers
  <2> QED
    BY <2>1, <1>1, SameRoot
<1>22. q \notin Roots /\ o \notin Roots
  BY <1>1, <1>11, Places
<1>23. ASSUME NEW y \in Live(d) PROVE up2[y] \cap Roots = up[y] \cap Roots
  <2>1. up2[y] = IF y = q THEN {q} \cup upA[d[o]]
                 ELSE IF o \in upA[y] THEN (upA[y] \ {o}) \cup {q} ELSE upA[y]
    BY <1>11, <1>12, <1>20 DEF Instead
  <2>2. CASE y = q
    <3>1. d[o] \in 0 .. N + Bytes
      BY <1>2, Places DEF Around, Fathers, Live
    <3>2. upA[d[o]] = up[d[o]] \ {q}
      BY <3>1, <1>4
    <3>3. up[o] = {o} \cup up[d[o]]
      BY <1>1 DEF Lines
    <3> QED
      BY <2>1, <2>2, <3>2, <3>3, <1>21, <1>22
  <2>3. CASE y # q
    BY <2>1, <2>3, <1>20, <1>22
  <2> QED
    BY <2>2, <2>3
<1>24. SameRoots(d2, up, up2)
  BY <1>17, <1>19, <1>23 DEF SameRoots
<1> QED
  BY <1>17, <1>19, <1>24

Deleted(lt, up, m, l2, r2, d2, dp2, up2) ==
  /\ DeleteNode = Rec(l2, r2, d2) /\ Sound(lt, l2, r2, d2, dp2, m, up2)
  /\ Live(d2) = Live(dad) \ {s} /\ SameRoots(d2, up, up2)

LEMMA DeleteSound ==
  ASSUME NEW lt, Linear(lt), NEW dp, NEW m, NEW up, Sound(lt, lson, rson, dad, dp, m, up), s \in Node
  PROVE  \E l2, r2, d2, dp2, up2 : Deleted(lt, up, m, l2, r2, d2, dp2, up2)
<1>1. Tree = Rec(lson, rson, dad)
  BY DEF Tree, Rec
<1>2. Shape(lson, rson, dad) /\ TreeTypes(lson, rson, dad)
  BY DEF Sound, Shape
<1>3. CASE dad[s] = NIL
  <2>1. DeleteNode = Rec(lson, rson, dad)
    BY <1>1, <1>3 DEF DeleteNode
  <2>2. Live(dad) = Live(dad) \ {s}
    BY <1>3 DEF Live
  <2>3. SameRoots(dad, up, up)
    BY DEF SameRoots
  <2> QED
    BY <2>1, <2>2, <2>3 DEF Deleted
<1>4. CASE dad[s] # NIL
  <2>1. s \in Live(dad)
    BY <1>4 DEF Live
  <2>2. CASE lson[s] = NIL \/ rson[s] = NIL
    <3>1. PICK q : q = Heir
      OBVIOUS
    <3>2. OnlySon(lson, rson, s, q)
      BY <2>2, <3>1 DEF Heir, OnlySon
    <3>3. DeleteNode = InPlace(Tree, q, s)
      BY <1>4, <2>2, <3>1 DEF DeleteNode
    <3>4. PICK l2, r2, d2 : InPlace(Tree, q, s) = Rec(l2, r2, d2) /\ Put(lson, rson, dad, q, s, l2, r2, d2)
      BY <1>1, InPlaceIs
    <3>5. PICK up2 : up2 = [y \in 0 .. N + Bytes |-> up[y] \ {s}]
      OBVIOUS
    <3>6. Sound(lt, l2, r2, d2, dp, m, up2)
      BY <2>1, <3>2, <3>4, <3>5, UnlinkSound
    <3>7. dad[s] # s
      <4>1. dad[s] \in 0 .. N + Bytes
        BY <1>2, <2>1, Places DEF Shape, Fathers, Live
      <4> QED
        BY <2>1, <4>1, NotOwnFather DEF Sound
    <3>8. Live(d2) = Live(dad) \ {s}
      BY <1>2, <2>1, <3>2, <3>4, <3>7, UnlinkShape
    <3>9. SameRoots(d2, up, up2)
      <4>1. \A y \in Live(d2) : up2[y] = up[y] \ {s}
        BY <3>5, Places DEF Live
      <4> QED
        BY <4>1, Places DEF SameRoots
    <3> QED
      BY <3>3, <3>4, <3>6, <3>8, <3>9 DEF Deleted
  <2>3. CASE lson[s] # NIL /\ rson[s] # NIL
    <3>1. PICK q : q = LastOf(rson)[lson[s]]
      OBVIOUS
    <3>2. Heir = q
      BY <2>3, <3>1, RightmostIsLast DEF Heir
    <3>3. lson[s] \in Live(dad)
      BY <1>2, <2>1, <2>3 DEF Shape
    <3>4. RightEnd(lt, lson, rson, dad, up, lson[s], q)
      BY <3>1, <3>3, LastIsRightEnd
    <3>5. TwoSons(lt, lson, rson, dad, dp, m, up, s, q)
      BY <2>1, <2>3, <3>4 DEF TwoSons
    <3>6. PICK z : z = Detached(Tree, q)
      OBVIOUS
    <3>7. \E lD, rD, dD : z = Rec(lD, rD, dD) /\ Moved(lson, rson, dad, s, q, lD, rD, dD)
      BY <1>1, <3>6, DetachedIs
    <3>8. PICK lD, rD, dD : z = Rec(lD, rD, dD) /\ Moved(lson, rson, dad, s, q, lD, rD, dD)
      BY <3>7
    <3>9. PICK l2, r2, d2 : InPlace(z, q, s) = Rec(l2, r2, d2) /\ Put(lD, rD, dD, q, s, l2, r2, d2)
      BY <3>8, InPlaceIs
    <3>10. DeleteNode = InPlace(z, q, s)
      BY <1>4, <2>3, <3>2, <3>6, Zenon DEF DeleteNode
    <3>11. PICK dp2, up2 : /\ Sound(lt, l2, r2, d2, dp2, m, up2)
                           /\ Live(d2) = Live(dad) \ {s} /\ SameRoots(d2, up, up2)
      BY <3>5, <3>8, <3>9, HeirSound
    <3> QED
      BY <3>9, <3>10, <3>11 DEF Deleted
  <2> QED
    BY <2>2, <2>3
<1> QED
  BY <1>3, <1>4

-----------------------------------------------------------------------------
(* The ring.                                                               *)
LEMMA RingIs == \A n \in Int : Ring(n) \in Node /\ n \div N \in Int /\ n = N * (n \div N) + Ring(n)
BY RingAssumption DEF Ring, Node

(* Only 0 is a multiple of N within N of 0.                                *)
LEMMA Multiple == ASSUME NEW a \in Int, N * a < N, N * a > -N PROVE a = 0
<1>1. N \in Nat /\ N > 0
  BY RingAssumption
<1>2. CASE a >= 1
  BY <1>1, <1>2
<1>3. CASE a <= -1
  BY <1>1, <1>3
<1> QED
  BY <1>2, <1>3

LEMMA RingUnique == ASSUME NEW n \in Int, NEW q \in Int, NEW c \in Node, n = N * q + c PROVE Ring(n) = c
<1>1. PICK x \in Int : x = n \div N
  BY RingIs
<1>2. PICK y \in Node : y = Ring(n)
  BY RingIs
<1>3. N * q + c = N * x + y
  BY <1>1, <1>2, RingIs
<1>4. N \in Int /\ c \in Int /\ y \in Int /\ y - c < N /\ c - y < N
  BY RingAssumption DEF Node
<1>5. N * (q - x) = y - c
  BY <1>3, <1>4
<1>6. q - x = 0
  BY <1>4, <1>5, Multiple
<1>7. N * (q - x) = 0
  BY <1>4, <1>6
<1> QED
  BY <1>2, <1>4, <1>5, <1>7

LEMMA RingAdds == \A a, b \in Int : Ring(Ring(a) + b) = Ring(a + b)
<1> SUFFICES ASSUME NEW a \in Int, NEW b \in Int PROVE Ring(Ring(a) + b) = Ring(a + b)
  OBVIOUS
<1>0. N \in Int /\ Node \subseteq Int
  BY RingAssumption DEF Node
<1>1. PICK x \in Int : x = a \div N
  BY RingIs
<1>2. PICK c \in Node : c = Ring(a)
  BY RingIs
<1>3. a = N * x + c /\ c + b \in Int
  BY <1>0, <1>1, <1>2, RingIs
<1>4. PICK y \in Int : y = (c + b) \div N
  BY <1>3, RingIs
<1>5. PICK e \in Node : e = Ring(c + b)
  BY <1>3, RingIs
<1>6. c + b = N * y + e
  BY <1>3, <1>4, <1>5, RingIs
<1>7. e \in Int /\ c \in Int
  BY <1>0
<1>8. PICK z \in Int : z = x + y
  OBVIOUS
<1>9. N * z = N * x + N * y
  BY <1>0, <1>8
<1>10. a + b = N * z + e
  BY <1>0, <1>3, <1>6, <1>7, <1>9
<1>11. Ring(a + b) = e
  BY <1>10, RingUnique
<1> QED
  BY <1>2, <1>5, <1>11

LEMMA RingApart ==
  ASSUME NEW a \in Int, NEW b \in Int, Ring(a) = Ring(b), a - b < N, b - a < N
  PROVE  a = b
<1>0. N \in Int /\ Node \subseteq Int
  BY RingAssumption DEF Node
<1>1. PICK x \in Int : x = a \div N
  BY RingIs
<1>2. PICK y \in Int : y = b \div N
  BY RingIs
<1>3. PICK c \in Node : c = Ring(a)
  BY RingIs
<1>4. a = N * x + c /\ b = N * y + c /\ c \in Int
  BY <1>0, <1>1, <1>2, <1>3, RingIs
<1>5. PICK z \in Int : z = x - y
  OBVIOUS
<1>6. N * z = N * x - N * y
  BY <1>0, <1>5
<1>7. N * z = a - b
  BY <1>0, <1>4, <1>6
<1>8. z = 0
  BY <1>0, <1>7, Multiple
<1>9. N * z = 0
  BY <1>0, <1>8
<1> QED
  BY <1>7, <1>9

LEMMA RingSteps ==
  \A c \in Node, x \in Int : x < N /\ x > -N =>
    Ring(c + x) = IF c + x < 0 THEN c + x + N ELSE IF c + x >= N THEN c + x - N ELSE c + x
BY RingAssumption DEF Ring, Node

LEMMA RingRound == \A n \in Int : Ring(n + N) = Ring(n)
<1> SUFFICES ASSUME NEW n \in Int PROVE Ring(n + N) = Ring(n)
  OBVIOUS
<1>0. N \in Int /\ Node \subseteq Int
  BY RingAssumption DEF Node
<1>1. PICK x \in Int : x = n \div N
  BY RingIs
<1>2. PICK c \in Node : c = Ring(n)
  BY RingIs
<1>3. n = N * x + c /\ c \in Int /\ n + N \in Int
  BY <1>0, <1>1, <1>2, RingIs
<1>4. PICK z \in Int : z = x + 1
  OBVIOUS
<1>5. N * z = N * x + N
  BY <1>0, <1>4
<1>6. n + N = N * z + c
  BY <1>0, <1>3, <1>5
<1> QED
  BY <1>2, <1>3, <1>6, RingUnique

(* The cell where the string starts that is j bytes into the text.         *)
Place(j) == Ring(N - F + j)

LEMMA PlaceIs ==
  /\ \A j \in Int : Place(j) \in Node
  /\ \A j, n \in Int : Ring(Place(j) + n) = Place(j + n)
  /\ Place(0) = N - F
<1>1. N \in Nat /\ F \in Nat /\ N - F \in Int /\ F < N /\ F > 0
  BY RingAssumption
<1>2. \A j \in Int : N - F + j \in Int
  BY <1>1
<1>3. \A j \in Int : Place(j) \in Node
  BY <1>2, RingIs DEF Place
<1>4. ASSUME NEW j \in Int, NEW n \in Int PROVE Ring(Place(j) + n) = Place(j + n)
  <2>1. PICK a : a = N - F + j
    OBVIOUS
  <2>2. a \in Int /\ a + n = N - F + (j + n)
    BY <1>1, <2>1
  <2>3. Ring(Ring(a) + n) = Ring(a + n)
    BY <2>2, RingAdds
  <2> QED
    BY <2>1, <2>2, <2>3 DEF Place
<1>5. N - F \in 0 .. N - 1 /\ N - F + 0 = N - F
  BY <1>1
<1>6. Ring(N - F) = N - F
  BY <1>1, <1>5 DEF Ring
<1> QED
  BY <1>3, <1>4, <1>5, <1>6 DEF Place

LEMMA PlaceApart ==
  ASSUME NEW a \in Int, NEW b \in Int, Place(a) = Place(b), a - b < N, b - a < N
  PROVE  a = b
<1>1. N \in Nat /\ F \in Nat
  BY RingAssumption
<1>2. PICK x, y : x = N - F + a /\ y = N - F + b
  OBVIOUS
<1>3. x \in Int /\ y \in Int /\ x - y < N /\ y - x < N
  BY <1>1, <1>2
<1>4. Ring(x) = Ring(y)
  BY <1>2 DEF Place
<1>5. x = y
  BY <1>3, <1>4, RingApart
<1> QED
  BY <1>1, <1>2, <1>5

(* A cell and its copy behind the ring.                                    *)
LEMMA AheadIs ==
  ASSUME NEW x \in Node, NEW n \in 0 .. F - 1
  PROVE  /\ x + n \in Copies(Ring(x + n)) /\ x + n \in 0 .. N + F - 2 /\ Ring(x + n) \in Node
<1>1. N \in Nat /\ F \in Nat /\ F > 0 /\ 2 * F <= N
  BY RingAssumption
<1>2. x \in 0 .. N - 1 /\ n \in Int /\ n < N /\ n > -N
  BY <1>1 DEF Node
<1>3. Ring(x + n) = IF x + n < 0 THEN x + n + N ELSE IF x + n >= N THEN x + n - N ELSE x + n
  BY <1>2, RingSteps
<1> QED
  BY <1>1, <1>2, <1>3 DEF Copies, Node

LEMMA CopiesApart ==
  ASSUME NEW x \in Node, NEW y \in Node, x # y
  PROVE  Copies(x) \cap Copies(y) = {}
BY RingAssumption DEF Copies, Node

-----------------------------------------------------------------------------
(* The order of the strings.                                               *)
Buffers == [0 .. N + F - 2 -> Byte]

Before(buf, x, y) ==
  \E n \in 0 .. F - 1 : buf[x + n] < buf[y + n] /\ \A n2 \in 0 .. n - 1 : buf[x + n2] = buf[y + n2]

Less(buf) == {z \in Node \X Node : Before(buf, z[1], z[2])}

Alike(buf, x, y, n) == \A n2 \in 0 .. n - 1 : buf[x + n2] = buf[y + n2]

LEMMA LessIs == ASSUME NEW buf, NEW x \in Node, NEW y \in Node
                PROVE  <<x, y>> \in Less(buf) <=> Before(buf, x, y)
BY DEF Less

LEMMA BufferIs ==
  ASSUME NEW buf \in Buffers, NEW x \in Node, NEW n \in 0 .. F - 1
  PROVE  buf[x + n] \in Byte /\ buf[x + n] \in Int
<1>1. x + n \in 0 .. N + F - 2
  BY AheadIs
<1>2. buf[x + n] \in Byte
  BY <1>1 DEF Buffers
<1> QED
  BY <1>2, RingAssumption DEF Byte

LEMMA NotBefore ==
  ASSUME NEW buf \in Buffers, NEW x \in Node, NEW y \in Node, NEW c \in 0 .. F - 1,
         Alike(buf, x, y, c), buf[y + c] < buf[x + c]
  PROVE  <<x, y>> \notin Less(buf)
<1> SUFFICES ASSUME Before(buf, x, y) PROVE FALSE
  BY LessIs
<1>1. PICK n \in 0 .. F - 1 : buf[x + n] < buf[y + n] /\ \A n2 \in 0 .. n - 1 : buf[x + n2] = buf[y + n2]
  BY DEF Before
<1>2. buf[x + n] \in Int /\ buf[y + n] \in Int /\ buf[x + c] \in Int /\ buf[y + c] \in Int
  BY BufferIs
<1>3. F \in Nat
  BY RingAssumption
<1>4. CASE n < c
  <2>1. n \in 0 .. c - 1
    BY <1>3, <1>4
  <2> QED
    BY <2>1, <1>1, <1>2 DEF Alike
<1>5. CASE n = c
  BY <1>1, <1>2, <1>5
<1>6. CASE n > c
  <2>1. c \in 0 .. n - 1
    BY <1>3, <1>6
  <2> QED
    BY <2>1, <1>1, <1>2
<1> QED
  BY <1>3, <1>4, <1>5, <1>6

LEMMA AlikeSame ==
  ASSUME NEW buf \in Buffers, NEW x \in Node, NEW y \in Node, Alike(buf, x, y, F)
  PROVE  /\ <<x, y>> \notin Less(buf) /\ <<y, x>> \notin Less(buf)
         /\ \A z \in Node : /\ <<x, z>> \in Less(buf) <=> <<y, z>> \in Less(buf)
                            /\ <<z, x>> \in Less(buf) <=> <<z, y>> \in Less(buf)
<1>1. \A n \in 0 .. F - 1 : buf[x + n] = buf[y + n]
  BY DEF Alike
<1>2. \A n \in 0 .. F - 1, z \in Node : buf[z + n] \in Int
  BY BufferIs
<1>3. \A n \in 0 .. F - 1 : 0 .. n - 1 \subseteq 0 .. F - 1
  BY RingAssumption
<1>4. ~Before(buf, x, y) /\ ~Before(buf, y, x)
  BY <1>1, <1>2 DEF Before
<1>5. ASSUME NEW z \in Node PROVE Before(buf, x, z) <=> Before(buf, y, z)
  BY <1>1, <1>3 DEF Before
<1>6. ASSUME NEW z \in Node PROVE Before(buf, z, x) <=> Before(buf, z, y)
  BY <1>1, <1>3 DEF Before
<1> QED
  BY <1>4, <1>5, <1>6, LessIs

LEMMA LessSame ==
  ASSUME NEW buf, NEW buf2, NEW Y \in SUBSET Node,
         \A y \in Y : \A n \in 0 .. F - 1 : buf2[y + n] = buf[y + n]
  PROVE  \A x, y \in Y : <<x, y>> \in Less(buf2) <=> <<x, y>> \in Less(buf)
<1>1. \A n \in 0 .. F - 1 : 0 .. n - 1 \subseteq 0 .. F - 1
  BY RingAssumption
<1>2. ASSUME NEW x \in Y, NEW y \in Y PROVE Before(buf2, x, y) <=> Before(buf, x, y)
  BY <1>1 DEF Before
<1> QED
  BY <1>2, LessIs

LEMMA LessLinear == ASSUME NEW buf \in Buffers PROVE Linear(Less(buf))
<1>0. F \in Nat
  BY RingAssumption
<1>1. \A n \in 0 .. F - 1, z \in Node : buf[z + n] \in Int
  BY BufferIs
<1>2. ASSUME NEW a \in Node PROVE <<a, a>> \notin Less(buf)
  <2>1. ~Before(buf, a, a)
    BY <1>1 DEF Before
  <2> QED
    BY <2>1, LessIs
<1>3. ASSUME NEW a \in Node, NEW b \in Node, NEW c \in Node, Before(buf, a, c)
      PROVE  Before(buf, a, b) \/ Before(buf, b, c)
  <2>1. PICK n \in 0 .. F - 1 : buf[a + n] < buf[c + n] /\ \A n2 \in 0 .. n - 1 : buf[a + n2] = buf[c + n2]
    BY <1>3 DEF Before
  <2> DEFINE T == {x \in 0 .. n : ~(buf[a + x] = buf[b + x] /\ buf[b + x] = buf[c + x])}
  <2>2. n \in 0 .. n /\ 0 .. n \subseteq 0 .. F - 1 /\ 0 .. n \subseteq Nat
    BY <1>0
  <2>3. n \in T
    BY <2>1, <2>2, <1>1
  <2>4. T \in SUBSET Nat
    BY <2>2
  <2>5. PICK x \in T : \A y \in T : x <= y
    BY <2>3, <2>4, Least, Zenon
  <2>6. x \in 0 .. n /\ ~(buf[a + x] = buf[b + x] /\ buf[b + x] = buf[c + x])
    OBVIOUS
  <2>7. ASSUME NEW y \in 0 .. x - 1 PROVE buf[a + y] = buf[b + y] /\ buf[b + y] = buf[c + y]
    <3>1. y \in 0 .. n /\ ~(x <= y)
      BY <2>6, <1>0
    <3>2. y \notin T
      BY <3>1, <2>5
    <3> QED
      BY <3>1, <3>2
  <2> HIDE DEF T
  <2>8. x \in 0 .. F - 1 /\ buf[a + x] \in Int /\ buf[b + x] \in Int /\ buf[c + x] \in Int
    BY <2>2, <2>6, <1>1
  <2>9. buf[a + x] <= buf[c + x]
    <3>1. CASE x = n
      BY <3>1, <2>1, <2>8
    <3>2. CASE x < n
      <4>1. x \in 0 .. n - 1
        BY <3>2, <2>6, <1>0
      <4> QED
        BY <4>1, <2>1, <2>8
    <3> QED
      BY <3>1, <3>2, <2>6, <1>0
  <2>10. buf[a + x] < buf[b + x] \/ buf[b + x] < buf[c + x]
    BY <2>6, <2>8, <2>9
  <2> QED
    BY <2>7, <2>8, <2>10 DEF Before
<1>4. \A a, b, c \in Node : <<a, b>> \notin Less(buf) /\ <<b, c>> \notin Less(buf) => <<a, c>> \notin Less(buf)
  BY <1>3, LessIs
<1> QED
  BY <1>2, <1>4 DEF Linear

(* Only the order of the nodes counts.                                     *)
LEMMA SoundFor ==
  ASSUME NEW lt, NEW lt2, NEW l, NEW rr, NEW d, NEW dp, NEW m, NEW up,
         Sound(lt, l, rr, d, dp, m, up),
         \A x, y \in Live(d) : <<x, y>> \in lt2 <=> <<x, y>> \in lt
  PROVE  Sound(lt2, l, rr, d, dp, m, up)
<1>1. Shape(l, rr, d) /\ Ranked(d, dp, m) /\ Lines(d, up) /\ Ordered(lt, l, rr, d, up)
  BY DEF Sound
<1>2. Ordered(lt2, l, rr, d, up)
  BY <1>1 DEF Ordered
<1> QED
  BY <1>1, <1>2 DEF Sound

LEMMA CommonIs ==
  ASSUME text_buf \in Buffers, r \in Node, NEW q \in Node, text_buf[q] = text_buf[r]
  PROVE  /\ Common(q) \in 1 .. F /\ Alike(text_buf, r, q, Common(q))
         /\ Common(q) # F => Common(q) \in 1 .. F - 1 /\ text_buf[r + Common(q)] # text_buf[q + Common(q)]
<1>0. F \in Nat \ {0} /\ r + 0 = r /\ q + 0 = q
  BY RingAssumption DEF Node
<1> DEFINE T == {n \in 1 .. F - 1 : text_buf[r + n] # text_buf[q + n]}
<1>1. PICK c : c = Common(q)
  OBVIOUS
<1>2. CASE T = {}
  <2>1. c = F
    BY <1>1, <1>2 DEF Common
  <2>2. \A n \in 1 .. F - 1 : text_buf[r + n] = text_buf[q + n]
    BY <1>2
  <2>3. \A n \in 0 .. F - 1 : n = 0 \/ n \in 1 .. F - 1
    BY <1>0
  <2>4. \A n \in 0 .. F - 1 : text_buf[r + n] = text_buf[q + n]
    BY <2>2, <2>3, <1>0
  <2> QED
    BY <2>1, <2>4, <1>0, <1>1 DEF Alike
<1>3. CASE T # {}
  <2>1. T \in SUBSET Nat
    BY <1>0
  <2>2. \E n \in T : \A n2 \in T : n <= n2
    BY <2>1, <1>3, Least, Zenon
  <2>3. c = CHOOSE n \in T : \A n2 \in T : n <= n2
    BY <1>1, <1>3, Zenon DEF Common
  <2>4. c \in T /\ \A n2 \in T : c <= n2
    BY <2>2, <2>3, Zenon
  <2>5. c \in 1 .. F - 1 /\ text_buf[r + c] # text_buf[q + c]
    BY <2>4
  <2>6. ASSUME NEW n \in 0 .. c - 1 PROVE text_buf[r + n] = text_buf[q + n]
    <3>1. CASE n = 0
      BY <3>1, <1>0
    <3>2. CASE n # 0
      <4>1. n \in 1 .. F - 1 /\ ~(c <= n)
        BY <3>2, <2>5, <1>0
      <4>2. n \notin T
        BY <4>1, <2>4
      <4> QED
        BY <4>1, <4>2
    <3> QED
      BY <3>1, <3>2
  <2>7. c \in 1 .. F /\ c # F
    BY <2>5, <1>0
  <2> QED
    BY <2>5, <2>6, <2>7, <1>1 DEF Alike
<1> QED
  BY <1>2, <1>3

-----------------------------------------------------------------------------
(* Where the text is in the buffer.                                        *)
Passed == next - 1 - len

Codes == [pair : {FALSE}, byte : Byte] \cup [pair : {TRUE}, length : 1 .. F, disp : Node]

Types ==
  /\ infile \in Seq(Byte) /\ VRAMSafe \in BOOLEAN
  /\ pc \in {"begin", "insert", "pass", "decode"}
  /\ text_buf \in Buffers
  /\ p \in 0 .. N + Bytes /\ cmp \in Int
  /\ match_position \in Node /\ match_length \in 0 .. F
  /\ codes \in Seq(Codes)

Positions ==
  /\ next \in Nat /\ len \in 0 .. F /\ Passed \in Nat /\ Passed <= Len(infile)
  /\ len = least(F, Len(infile) - Passed)
  /\ r = Place(Passed) /\ s = Ring(Passed)
  /\ i \in 0 .. len
  /\ pc = "begin" => Passed = 0 /\ i = 0 /\ codes = <<>>
  /\ pc \in {"begin", "insert"} => len > 0
  /\ pc = "decode" => i = 0 /\ len = 0

Chars(buf, from, to) ==
  \A j \in from .. to - 1 : \A x \in Copies(Place(j)) : buf[x] = infile[j + 1]

(* The start of the oldest string that is kept.                            *)
Oldest == Passed - Held

BufferInv == Types /\ Positions /\ Chars(text_buf, Oldest, Passed + len)

-----------------------------------------------------------------------------
(* The trees.                                                              *)
Rooted(buf, d, up) == \A y \in Live(d) : up[y] \cap Roots = {Root(buf[y])}

(* The string at r is below p, on the side that cmp tells.                 *)
Walk(up) ==
  /\ p \in Fathers(dad) /\ up[p] \cap Roots = {Root(text_buf[r])}
  /\ lson[r] = NIL /\ rson[r] = NIL
  /\ Fits(Less(text_buf), lson, rson, dad, up, p, r)
  /\ p \in Node => /\ cmp >= 0 => <<r, p>> \notin Less(text_buf)
                   /\ cmp < 0 => <<p, r>> \notin Less(text_buf)
  /\ p \in Roots => cmp >= 0
  /\ match_length < F

(* What is not below p has no more in common with it than was found.       *)
Sought(up) ==
  ~VRAMSafe =>
    /\ p \in Node => Common(p) <= match_length
    /\ \A x \in Live(dad) : text_buf[x] = text_buf[r] =>
         Common(x) <= match_length \/ (p \in up[x] /\ p # x)

Newest == IF pc \in {"pass", "decode"} THEN Passed ELSE Passed - 1

TreesAre(dp, m, up) ==
  /\ Sound(Less(text_buf), lson, rson, dad, dp, m, up)
  /\ Rooted(text_buf, dad, up)
  /\ Live(dad) \subseteq {Place(j) : j \in Oldest .. Newest}
  /\ pc = "insert" => Walk(up) /\ Sought(up)

TreeInv == \E dp, m, up : TreesAre(dp, m, up)

LEMMA HeldIs ==
  ASSUME BufferInv
  PROVE  /\ Held \in 0 .. N - F /\ Held <= Passed /\ Oldest \in Nat /\ Oldest <= Passed
         /\ Passed >= N - F => Oldest = Passed - (N - F)
         /\ Passed < N - F => Oldest = 0
         /\ r \in Node /\ s \in Node /\ Passed \in Nat /\ len \in 0 .. F
<1>1. N \in Nat /\ F \in Nat /\ F > 0 /\ 2 * F <= N
  BY RingAssumption
<1>2. Passed \in Nat /\ len \in 0 .. F /\ r = Place(Passed) /\ s = Ring(Passed)
  BY DEF BufferInv, Positions
<1>3. Held = least(Passed, N - F)
  BY DEF Held, Passed
<1>4. r \in Node /\ s \in Node
  BY <1>2, PlaceIs, RingIs
<1> QED
  BY <1>1, <1>2, <1>3, <1>4 DEF Oldest, least

LEMMA FreshPlace ==
  ASSUME BufferInv, NEW j \in Oldest .. Passed - 1
  PROVE  Place(j) # r
<1>1. N \in Nat /\ F \in Nat /\ F > 0 /\ 2 * F <= N
  BY RingAssumption
<1>2. /\ Held \in 0 .. N - F /\ Held <= Passed /\ Passed \in Nat /\ Oldest \in Nat
  BY HeldIs
<1>3. r = Place(Passed) /\ Oldest = Passed - Held
  BY DEF BufferInv, Positions, Oldest
<1>4. PICK t : t = Passed
  OBVIOUS
<1>5. j \in Int /\ t \in Int /\ t - j < N /\ j - t < N /\ j # t
  BY <1>1, <1>2, <1>3, <1>4
<1> QED
  BY <1>3, <1>4, <1>5, PlaceApart

LEMMA BeginWalk ==
  ASSUME NEW up, Lines(dad', up), Rooted(text_buf', dad', up),
         text_buf'[r'] \in Byte, p' = Root(text_buf'[r']), cmp' = 1, match_length' = 0,
         lson'[r'] = NIL, rson'[r'] = NIL
  PROVE  Walk(up)' /\ Sought(up)'
<1>1. p' \in Roots /\ p' \notin Node
  BY RingAssumption DEF Root, Roots, Node, Byte
<1>2. up[p'] = {p'}
  BY <1>1 DEF Lines
<1>3. Fits(Less(text_buf'), lson', rson', dad', up, p', r')
  BY <1>2 DEF Fits
<1>4. p' \in Fathers(dad')
  BY <1>1 DEF Fathers
<1>5. up[p'] \cap Roots = {Root(text_buf'[r'])}
  BY <1>1, <1>2
<1>6. match_length' < F /\ cmp' >= 0
  BY RingAssumption
<1>7. Walk(up)'
  BY <1>1, <1>3, <1>4, <1>5, <1>6 DEF Walk
<1>8. ASSUME NEW x \in Live(dad'), text_buf'[x] = text_buf'[r'] PROVE p' \in up[x] /\ p' # x
  <2>1. up[x] \cap Roots = {p'}
    BY <1>8 DEF Rooted
  <2> QED
    BY <2>1, <1>1 DEF Live
<1>9. Sought(up)'
  BY <1>1, <1>8 DEF Sought
<1> QED
  BY <1>7, <1>9

Cleared(l, rr, q, l2, r2) == l2 = [l EXCEPT ![q] = NIL] /\ r2 = [rr EXCEPT ![q] = NIL]

LEMMA NoSonsSound ==
  ASSUME NEW lt, NEW l, NEW rr, NEW d, NEW dp, NEW m, NEW up, Sound(lt, l, rr, d, dp, m, up),
         NEW q \in Node, q \notin Live(d),
         NEW l2, NEW r2, Cleared(l, rr, q, l2, r2)
  PROVE  Sound(lt, l2, r2, d, dp, m, up) /\ l2[q] = NIL /\ r2[q] = NIL
<1>1. TreeTypes(l, rr, d)
  BY DEF Sound, Shape
<1>2. q \in 0 .. N /\ q \in 0 .. N + Bytes /\ NIL \in 0 .. N /\ q \notin Roots
  BY Places
<1>3. TreeTypes(l2, r2, d) /\ l2[q] = NIL /\ r2[q] = NIL
  BY <1>1, <1>2 DEF TreeTypes, Cleared
<1>4. Live(d) \subseteq 0 .. N /\ Fathers(d) \subseteq 0 .. N + Bytes
  BY Places DEF Live, Fathers
<1>5. \A z \in Live(d) : l2[z] = l[z]
  BY <1>1, <1>4 DEF TreeTypes, Cleared
<1>6. \A z \in Fathers(d) : r2[z] = rr[z]
  BY <1>1, <1>2, <1>4 DEF TreeTypes, Fathers, Cleared
<1>7. PICK d2 : d2 = d
  OBVIOUS
<1>8. (\A z \in Node : d2[z] = d[z]) /\ TreeTypes(l2, r2, d2)
  BY <1>3, <1>7
<1>9. Sound(lt, l2, r2, d2, dp, m, up)
  BY <1>5, <1>6, <1>8, SoundSame
<1> QED
  BY <1>3, <1>7, <1>9

LEMMA ByteAt == ASSUME NEW buf \in Buffers, NEW x \in Node PROVE buf[x] \in Byte
<1>1. x \in 0 .. N + F - 2
  BY RingAssumption DEF Node
<1> QED
  BY <1>1 DEF Buffers

(* What Pass does to the text in the buffer.                               *)
LEMMA PassCounts ==
  ASSUME BufferInv, Pass
  PROVE  /\ Passed' = Passed + 1 /\ Passed' \in Nat /\ Passed' <= Len(infile)
         /\ len \in 1 .. F /\ len' \in 0 .. F /\ next' \in Nat
         /\ len' = least(F, Len(infile) - Passed')
         /\ i' \in 0 .. len' /\ infile' = infile
         /\ next <= Len(infile) => len = F /\ len' = F /\ next = Passed + F + 1
         /\ next > Len(infile) => len' = len - 1
<1>1. /\ infile \in Seq(Byte) /\ next \in Nat /\ len \in 0 .. F /\ Passed \in Nat
      /\ Passed <= Len(infile) /\ len = least(F, Len(infile) - Passed) /\ i \in 0 .. len
  BY DEF BufferInv, Types, Positions
<1>2. PICK u, t, e, l, b : u = Len(infile) /\ t = Passed /\ e = next /\ l = len /\ b = i
  OBVIOUS
<1>3. /\ u \in Nat /\ t \in Nat /\ e \in Nat /\ l \in 0 .. F /\ t <= u /\ l = least(F, u - t)
      /\ b \in 0 .. l /\ F \in Nat
  BY <1>1, <1>2, RingAssumption
<1>4. t = e - 1 - l
  BY <1>2 DEF Passed
<1>5. e = t + l + 1
  BY <1>3, <1>4
<1>6. b > 0 /\ i' = b - 1 /\ infile' = infile
  BY <1>2 DEF Pass, filevars
<1>7. l \in 1 .. F
  BY <1>3, <1>6
<1>8. CASE e <= u
  <2>1. next' = e + 1 /\ len' = l
    BY <1>2, <1>8 DEF Pass
  <2>2. (e + 1) - 1 - l = t + 1
    BY <1>3, <1>5
  <2>3. Passed' = t + 1
    BY <2>1, <2>2 DEF Passed
  <2>4. l = F
    BY <1>3, <1>5, <1>7, <1>8 DEF least
  <2>5. l = least(F, u - (t + 1)) /\ t + 1 <= u /\ b - 1 \in 0 .. l /\ e + 1 \in Nat
        /\ t + 1 \in Nat /\ e = t + F + 1
    BY <2>4, <1>3, <1>5, <1>6, <1>8 DEF least
  <2>6. ~(e > u)
    BY <1>3, <1>8
  <2>7. Passed' = Passed + 1 /\ Passed' \in Nat /\ Passed' <= Len(infile)
    BY <2>3, <2>5, <1>2
  <2>8. len \in 1 .. F /\ len' \in 0 .. F /\ i' \in 0 .. len' /\ infile' = infile
    BY <2>1, <2>5, <1>2, <1>3, <1>6, <1>7
  <2>9. next' \in Nat /\ len' = least(F, Len(infile) - Passed')
    BY <2>1, <2>3, <2>5, <1>2
  <2>10. len = F /\ len' = F /\ next = Passed + F + 1 /\ ~(next > Len(infile))
    BY <2>1, <2>4, <2>5, <2>6, <1>2
  <2> QED
    BY <2>7, <2>8, <2>9, <2>10
<1>9. CASE ~(e <= u)
  <2>1. next' = e /\ len' = l - 1
    BY <1>2, <1>9 DEF Pass
  <2>2. e - 1 - (l - 1) = t + 1
    BY <1>3, <1>5
  <2>3. Passed' = t + 1
    BY <2>1, <2>2 DEF Passed
  <2>4. l = u - t
    BY <1>3, <1>5, <1>7, <1>9 DEF least
  <2>5. l - 1 = least(F, u - (t + 1)) /\ t + 1 <= u /\ b - 1 \in 0 .. l - 1 /\ l - 1 \in 0 .. F
        /\ t + 1 \in Nat
    BY <2>4, <1>3, <1>6, <1>7 DEF least
  <2> QED
    BY <2>1, <2>3, <2>5, <1>2, <1>3, <1>6, <1>7, <1>9
<1> QED
  BY <1>8, <1>9

LEMMA PassPlaces ==
  ASSUME BufferInv, Pass
  PROVE  /\ r' = Place(Passed') /\ s' = Ring(Passed')
         /\ s = Place(Passed + F)
         /\ Oldest' \in Nat /\ Oldest <= Oldest' /\ Oldest' <= Passed'
         /\ \A j \in Oldest .. Oldest' - 1 : Place(j) = s
         /\ \A j \in Oldest' .. Passed + F - 1 : Place(j) # s
<1>1. N \in Nat /\ F \in Nat /\ F > 0 /\ 2 * F <= N
  BY RingAssumption
<1>2. PICK t : t = Passed
  OBVIOUS
<1>3. t \in Nat /\ Passed' = t + 1 /\ r = Place(t) /\ s = Ring(t)
  BY <1>2, PassCounts DEF BufferInv, Positions
<1>4. r' = Ring(r + 1) /\ s' = Ring(s + 1)
  BY DEF Pass
<1>5. r' = Place(t + 1)
  BY <1>3, <1>4, PlaceIs
<1>6. s' = Ring(t + 1)
  BY <1>3, <1>4, RingAdds
<1>7. s = Place(t + F)
  <2>1. N - F + (t + F) = t + N
    BY <1>1, <1>3
  <2> QED
    BY <2>1, <1>3, RingRound DEF Place
<1>8. Oldest = IF t < N - F THEN 0 ELSE t - (N - F)
  BY <1>1, <1>2, <1>3, HeldIs
<1>9. Oldest' = IF t + 1 < N - F THEN 0 ELSE t + 1 - (N - F)
  <2>1. Held' = least(Passed', N - F)
    BY DEF Held, Passed
  <2>2. Oldest' = Passed' - Held'
    BY DEF Oldest
  <2> QED
    BY <2>1, <2>2, <1>1, <1>3 DEF least
<1>10. Oldest' \in Nat /\ Oldest <= Oldest' /\ Oldest' <= t + 1 /\ Oldest \in Nat
  BY <1>1, <1>3, <1>8, <1>9
<1>11. ASSUME NEW j \in Oldest .. Oldest' - 1 PROVE Place(j) = s
  <2>1. N - F + j = t
    BY <1>1, <1>3, <1>8, <1>9, <1>11
  <2> QED
    BY <2>1, <1>3 DEF Place
<1>12. ASSUME NEW j \in Oldest' .. t + F - 1 PROVE Place(j) # s
  <2>1. j \in Int /\ t + F \in Int /\ j # t + F /\ j - (t + F) < N /\ (t + F) - j < N
    BY <1>1, <1>3, <1>9, <1>12
  <2> QED
    BY <2>1, <1>7, PlaceApart
<1> QED
  BY <1>2, <1>3, <1>5, <1>6, <1>7, <1>10, <1>11, <1>12

LEMMA PassBuffer ==
  ASSUME BufferInv, Pass
  PROVE  /\ text_buf' \in Buffers
         /\ \A j \in Oldest' .. Passed : \A n \in 0 .. F - 1 :
              text_buf'[Place(j) + n] = text_buf[Place(j) + n]
         /\ Chars(text_buf, Oldest, Passed + len)
         /\ Chars(text_buf, Oldest, Passed + len)' /\ Passed' + len' >= Passed + len
<1>1. N \in Nat /\ F \in Nat /\ F > 0 /\ 2 * F <= N
  BY RingAssumption
<1>2. /\ Passed' = Passed + 1 /\ len \in 1 .. F /\ len' \in 0 .. F /\ infile' = infile
      /\ next <= Len(infile) => len = F /\ len' = F /\ next = Passed + F + 1
      /\ next > Len(infile) => len' = len - 1
  BY PassCounts
<1>3. /\ s = Place(Passed + F) /\ Oldest' \in Nat /\ Oldest <= Oldest'
      /\ \A j \in Oldest' .. Passed + F - 1 : Place(j) # s
  BY PassPlaces
<1>4. /\ infile \in Seq(Byte) /\ text_buf \in Buffers /\ next \in Nat
      /\ Chars(text_buf, Oldest, Passed + len)
  BY DEF BufferInv, Types, Positions
<1>5. PICK t : t = Passed
  OBVIOUS
<1>6. t \in Nat /\ Oldest \in Nat /\ s \in Node /\ Len(infile) \in Nat
  BY <1>4, <1>5, HeldIs
<1>7. \A j \in Int : Place(j) \in Node
  BY PlaceIs
<1>8. CASE next <= Len(infile)
  <2>1. text_buf' = Cell(infile[next])
    BY <1>8 DEF Pass
  <2>2. PICK c : c = infile[next]
    OBVIOUS
  <2>3. len = F /\ len' = F /\ next = t + F + 1
    BY <1>2, <1>5, <1>8
  <2>4. c \in Byte
    <3>1. next \in 1 .. Len(infile)
      BY <1>1, <1>4, <1>6, <1>8, <2>3
    <3> QED
      BY <2>2, <3>1, <1>4
  <2>5. text_buf' = [x \in 0 .. N + F - 2 |-> IF x \in Copies(s) THEN c ELSE text_buf[x]]
    <3>1. DOMAIN text_buf = 0 .. N + F - 2
      BY <1>4 DEF Buffers
    <3> QED
      BY <2>1, <2>2, <3>1 DEF Cell
  <2>6. text_buf' \in Buffers
    BY <2>4, <2>5, <1>4 DEF Buffers
  <2>7. ASSUME NEW j \in Oldest' .. t, NEW n \in 0 .. F - 1
        PROVE  text_buf'[Place(j) + n] = text_buf[Place(j) + n]
    <3>1. j \in Int /\ j + n \in Oldest' .. t + F - 1 /\ n \in Int
      BY <2>7, <1>1, <1>3, <1>6
    <3>2. Place(j) + n \in Copies(Ring(Place(j) + n)) /\ Place(j) + n \in 0 .. N + F - 2
      BY <3>1, <1>7, AheadIs
    <3>3. Ring(Place(j) + n) = Place(j + n)
      BY <3>1, PlaceIs
    <3>4. Place(j + n) # s /\ Place(j + n) \in Node
      BY <3>1, <1>3, <1>5, <1>7
    <3>5. Copies(Place(j + n)) \cap Copies(s) = {}
      BY <3>4, <1>6, CopiesApart
    <3> QED
      BY <3>2, <3>3, <3>5, <2>5
  <2>8. ASSUME NEW j \in Oldest' .. (t + 1 + F) - 1, NEW x \in Copies(Place(j))
        PROVE  text_buf'[x] = infile[j + 1]
    <3>1. Place(j) \in Node /\ j \in Int
      BY <2>8, <1>3, <1>6, <1>7
    <3>2. x \in 0 .. N + F - 2
      BY <2>8, <3>1, <1>1 DEF Copies, Node
    <3>3. CASE j = t + F
      <4>1. x \in Copies(s)
        BY <2>8, <3>3, <1>3, <1>5
      <4> QED
        BY <2>2, <2>3, <2>5, <3>2, <3>3, <4>1
    <3>4. CASE j # t + F
      <4>1. j \in Oldest' .. t + F - 1 /\ j \in Oldest .. (t + F) - 1
        BY <2>8, <3>4, <1>1, <1>3, <1>6
      <4>2. Place(j) # s
        BY <4>1, <1>3, <1>5
      <4>3. x \notin Copies(s)
        BY <2>8, <3>1, <4>2, <1>6, CopiesApart
      <4>4. text_buf[x] = infile[j + 1]
        <5>1. Chars(text_buf, Oldest, t + F)
          BY <2>3, <1>4, <1>5
        <5> QED
          BY <2>8, <4>1, <5>1 DEF Chars
      <4> QED
        BY <2>5, <3>2, <4>3, <4>4
    <3> QED
      BY <3>3, <3>4
  <2>9. Chars(text_buf', Oldest', t + 1 + F)
    BY <2>8 DEF Chars
  <2>10. Chars(text_buf, Oldest, Passed + len)'
    BY <2>3, <2>9, <1>2, <1>5 DEF Chars
  <2>11. Passed' + len' >= Passed + len
    BY <2>3, <1>1, <1>2, <1>5, <1>6
  <2> QED
    BY <2>6, <2>7, <2>10, <2>11, <1>4, <1>5
<1>9. CASE ~(next <= Len(infile))
  <2>1. text_buf' = text_buf
    BY <1>9 DEF Pass
  <2>2. next > Len(infile)
    BY <1>4, <1>6, <1>9
  <2>3. Passed' + len' = Passed + len
    BY <2>2, <1>1, <1>2, <1>5, <1>6
  <2>4. PICK to, from : to = Passed + len /\ from = Oldest'
    OBVIOUS
  <2>8. to \in Int /\ from \in Int /\ Oldest <= from /\ Chars(text_buf, Oldest, to)
    BY <2>4, <1>1, <1>2, <1>3, <1>4, <1>5, <1>6
  <2>9. ASSUME NEW j \in from .. to - 1 PROVE j \in Oldest .. to - 1
    BY <2>8, <2>9, <1>6
  <2>5. Chars(text_buf, from, to)
    BY <2>8, <2>9 DEF Chars
  <2>6. Chars(text_buf, Oldest, Passed + len)'
    <3>1. Chars(text_buf, Oldest, Passed + len)' <=> Chars(text_buf, from, to)
      BY <2>1, <2>3, <2>4, <1>2 DEF Chars
    <3> QED
      BY <2>5, <3>1
  <2>7. Passed' + len' >= Passed + len
    BY <2>3, <2>4, <2>8
  <2> QED
    BY <2>1, <2>6, <2>7, <1>4
<1> QED
  BY <1>8, <1>9

LEMMA PassTree ==
  ASSUME Pass, NEW l2, NEW r2, NEW d2, DeleteNode = Rec(l2, r2, d2)
  PROVE  /\ dad' = d2
         /\ len' > 0 => /\ Cleared(l2, r2, r', lson', rson') /\ pc' = "insert"
                        /\ p' = Root(text_buf'[r']) /\ cmp' = 1 /\ match_length' = 0
         /\ ~(len' > 0) => lson' = l2 /\ rson' = r2 /\ UNCHANGED <<pc, walkvars>>
<1>1. PICK t : t = DeleteNode
  OBVIOUS
<1>2. t.l = l2 /\ t.r = r2 /\ t.d = d2
  BY <1>1 DEF Rec
<1>3. r' = Ring(r + 1)
  BY DEF Pass
<1>4. CASE len' > 0
  <2>1. /\ pc' = "insert" /\ BeginInsert(text_buf', r')
        /\ SetTree([t EXCEPT !.l[r'] = NIL, !.r[r'] = NIL])
    BY <1>1, <1>3, <1>4 DEF Pass
  <2>2. PICK z : z = [t EXCEPT !.l[r'] = NIL, !.r[r'] = NIL]
    OBVIOUS
  <2>3. z.l = [l2 EXCEPT ![r'] = NIL]
    BY <1>1, <1>2, <2>2 DEF Rec
  <2>4. z.r = [r2 EXCEPT ![r'] = NIL]
    BY <1>1, <1>2, <2>2 DEF Rec
  <2>5. z.d = d2
    BY <1>1, <1>2, <2>2 DEF Rec
  <2>6. lson' = z.l /\ rson' = z.r /\ dad' = z.d
    BY <2>1, <2>2 DEF SetTree
  <2>7. Cleared(l2, r2, r', lson', rson') /\ dad' = d2
    BY <2>3, <2>4, <2>5, <2>6 DEF Cleared
  <2> QED
    BY <2>1, <2>7, <1>4 DEF BeginInsert
<1>5. CASE ~(len' > 0)
  <2>1. SetTree(t) /\ UNCHANGED <<pc, walkvars>>
    BY <1>1, <1>5 DEF Pass
  <2> QED
    BY <2>1, <1>2, <1>5 DEF SetTree
<1> QED
  BY <1>4, <1>5

LEMMA PassDelete ==
  ASSUME BufferInv, Pass, NEW dp, NEW m, NEW up, TreesAre(dp, m, up)
  PROVE  \E l2, r2, d2, dp2, up2 :
           /\ DeleteNode = Rec(l2, r2, d2) /\ Sound(Less(text_buf'), l2, r2, d2, dp2, m, up2)
           /\ Rooted(text_buf', d2, up2) /\ Live(d2) \subseteq {Place(j) : j \in Oldest' .. Passed}
           /\ Live(d2) = Live(dad) \ {s}
<1>1. text_buf \in Buffers /\ s \in Node /\ Passed \in Nat /\ pc = "pass"
  BY HeldIs DEF BufferInv, Types, Pass
<1>2. Linear(Less(text_buf))
  BY <1>1, LessLinear
<1>3. /\ Sound(Less(text_buf), lson, rson, dad, dp, m, up) /\ Rooted(text_buf, dad, up)
      /\ Live(dad) \subseteq {Place(j) : j \in Oldest .. Passed}
  BY <1>1 DEF TreesAre, Newest
<1>4. PICK l2, r2, d2, dp2, up2 : Deleted(Less(text_buf), up, m, l2, r2, d2, dp2, up2)
  BY <1>1, <1>2, <1>3, DeleteSound
<1>5. /\ DeleteNode = Rec(l2, r2, d2) /\ Sound(Less(text_buf), l2, r2, d2, dp2, m, up2)
      /\ Live(d2) = Live(dad) \ {s} /\ SameRoots(d2, up, up2)
  BY <1>4 DEF Deleted
<1>6. Oldest' \in Nat /\ Oldest \in Nat /\ \A j \in Oldest .. Oldest' - 1 : Place(j) = s
  BY PassPlaces, HeldIs
<1>7. ASSUME NEW y \in Live(d2) PROVE \E j \in Oldest' .. Passed : y = Place(j)
  <2>1. PICK j \in Oldest .. Passed : y = Place(j)
    BY <1>3, <1>5, <1>7
  <2>2. j \notin Oldest .. Oldest' - 1
    BY <2>1, <1>5, <1>6, <1>7
  <2>4. PICK a, b, t : a = Oldest /\ b = Oldest' /\ t = Passed
    OBVIOUS
  <2>5. a \in Nat /\ b \in Nat /\ t \in Nat /\ j \in a .. t /\ j \notin a .. b - 1
    BY <2>1, <2>2, <2>4, <1>1, <1>6
  <2>3. j \in b .. t
    BY <2>5
  <2> QED
    BY <2>1, <2>3, <2>4
<1>8. ASSUME NEW y \in Live(d2), NEW n \in 0 .. F - 1 PROVE text_buf'[y + n] = text_buf[y + n]
  <2>1. PICK j \in Oldest' .. Passed : y = Place(j)
    BY <1>7
  <2> QED
    BY <2>1, PassBuffer
<1>9. ASSUME NEW y \in Live(d2) PROVE text_buf'[y] = text_buf[y]
  <2>1. 0 \in 0 .. F - 1 /\ y + 0 = y
    BY RingAssumption DEF Live, Node
  <2> QED
    BY <2>1, <1>8
<1>10. Live(d2) \in SUBSET Node
  BY DEF Live
<1>11. \A x, y \in Live(d2) : <<x, y>> \in Less(text_buf') <=> <<x, y>> \in Less(text_buf)
  BY <1>8, <1>10, LessSame
<1>12. Sound(Less(text_buf'), l2, r2, d2, dp2, m, up2)
  BY <1>5, <1>11, SoundFor
<1>13. Rooted(text_buf', d2, up2)
  BY <1>3, <1>5, <1>9 DEF Rooted, SameRoots
<1> QED
  BY <1>5, <1>7, <1>12, <1>13

LEMMA TreesPass ==
  ASSUME BufferInv, Pass, TreeInv
  PROVE  TreeInv' /\ Live(dad') = Live(dad) \ {s}
<1>1. PICK dp, m, up : TreesAre(dp, m, up)
  BY DEF TreeInv
<1>2. PICK l2, r2, d2, dp2, up2 :
           /\ DeleteNode = Rec(l2, r2, d2) /\ Sound(Less(text_buf'), l2, r2, d2, dp2, m, up2)
           /\ Rooted(text_buf', d2, up2) /\ Live(d2) \subseteq {Place(j) : j \in Oldest' .. Passed}
           /\ Live(d2) = Live(dad) \ {s}
  BY <1>1, PassDelete
<1>3. /\ dad' = d2
      /\ len' > 0 => /\ Cleared(l2, r2, r', lson', rson') /\ pc' = "insert"
                     /\ p' = Root(text_buf'[r']) /\ cmp' = 1 /\ match_length' = 0
      /\ ~(len' > 0) => lson' = l2 /\ rson' = r2 /\ UNCHANGED <<pc, walkvars>>
  BY <1>2, PassTree
<1>4. PICK t : t = Passed
  OBVIOUS
<1>5. t \in Nat /\ Passed' = t + 1 /\ r' = Place(t + 1) /\ Oldest' \in Nat /\ pc = "pass"
  BY <1>4, HeldIs, PassCounts, PassPlaces DEF Pass
<1>6. r' \in Node /\ text_buf'[r'] \in Byte
  <2>1. r' \in Node
    BY <1>5, PlaceIs
  <2>2. text_buf' \in Buffers
    BY PassBuffer
  <2> QED
    BY <2>1, <2>2, ByteAt
<1>7. ASSUME len' > 0 PROVE TreeInv'
  <2>1. r' \notin Live(d2)
    <3>1. ASSUME r' \in Live(d2) PROVE FALSE
      <4>1. PICK j \in Oldest' .. t : Place(t + 1) = Place(j)
        BY <3>1, <1>2, <1>4, <1>5
      <4>2. Oldest' >= t + 1 - (N - F)
        <5>1. Held' = least(Passed', N - F)
          BY DEF Held, Passed
        <5>2. Oldest' = Passed' - Held'
          BY DEF Oldest
        <5> QED
          BY <5>1, <5>2, <1>5, RingAssumption DEF least
      <4>3. /\ j \in Int /\ t + 1 \in Int /\ j # t + 1
            /\ j - (t + 1) < N /\ (t + 1) - j < N
        BY <4>1, <4>2, <1>5, RingAssumption
      <4> QED
        BY <4>1, <4>3, PlaceApart
    <3> QED
      BY <3>1
  <2>2. Sound(Less(text_buf'), lson', rson', dad', dp2, m, up2) /\ lson'[r'] = NIL /\ rson'[r'] = NIL
    BY <2>1, <1>2, <1>3, <1>6, <1>7, NoSonsSound
  <2>3. Lines(dad', up2) /\ Rooted(text_buf', dad', up2)
    BY <2>2, <1>2, <1>3 DEF Sound
  <2>4. Walk(up2)' /\ Sought(up2)'
    BY <2>2, <2>3, <1>3, <1>6, <1>7, BeginWalk
  <2>5. Newest' = t
    BY <1>3, <1>5, <1>7 DEF Newest
  <2>6. Live(dad') \subseteq {Place(j) : j \in Oldest' .. Newest'}
    BY <2>5, <1>2, <1>3, <1>4
  <2>7. TreesAre(dp2, m, up2)'
    BY <2>2, <2>3, <2>4, <2>6 DEF TreesAre
  <2> QED
    BY <2>7 DEF TreeInv
<1>8. ASSUME ~(len' > 0) PROVE TreeInv'
  <2>1. lson' = l2 /\ rson' = r2 /\ pc' = "pass"
    BY <1>3, <1>5, <1>8
  <2>2. Newest' = t + 1
    BY <2>1, <1>5 DEF Newest
  <2>3. Oldest' .. t \subseteq Oldest' .. t + 1
    BY <1>5
  <2>4. Live(dad') \subseteq {Place(j) : j \in Oldest' .. Newest'}
    BY <2>2, <2>3, <1>2, <1>3, <1>4
  <2>5. TreesAre(dp2, m, up2)'
    BY <2>1, <2>4, <1>2, <1>3 DEF TreesAre
  <2> QED
    BY <2>5 DEF TreeInv
<1>9. TreeInv'
  BY <1>7, <1>8
<1> QED
  BY <1>2, <1>3, <1>9

(* Where the search is and where it goes next.                             *)
Inserting(dp, m, up) == BufferInv /\ TreesAre(dp, m, up) /\ pc = "insert"

LEMMA InsertIs ==
  ASSUME NEW dp, NEW m, NEW up, Inserting(dp, m, up)
  PROVE  /\ r \in Node /\ r \notin Live(dad) /\ text_buf \in Buffers
         /\ \A x \in Live(dad) : \E j \in Oldest .. Passed - 1 : x = Place(j)
         /\ p \in Fathers(dad) /\ (~Right => p \in Node /\ p \in Live(dad))
         /\ Sound(Less(text_buf), lson, rson, dad, dp, m, up) /\ Rooted(text_buf, dad, up)
         /\ Walk(up) /\ Sought(up)
<1>1. /\ BufferInv /\ pc = "insert" /\ Sound(Less(text_buf), lson, rson, dad, dp, m, up)
      /\ Rooted(text_buf, dad, up) /\ Walk(up) /\ Sought(up)
      /\ Live(dad) \subseteq {Place(j) : j \in Oldest .. Passed - 1}
  BY DEF Inserting, TreesAre, Newest
<1>2. r \in Node /\ text_buf \in Buffers
  BY <1>1, HeldIs DEF BufferInv, Types
<1>3. \A x \in Live(dad) : \E j \in Oldest .. Passed - 1 : x = Place(j)
  BY <1>1
<1>4. r \notin Live(dad)
  BY <1>1, <1>3, FreshPlace
<1>5. p \in Fathers(dad) /\ (p \in Roots => cmp >= 0)
  BY <1>1 DEF Walk
<1>6. ~Right => p \in Node /\ p \in Live(dad)
  BY <1>5 DEF Right, Fathers, Live
<1> QED
  BY <1>1, <1>2, <1>3, <1>4, <1>5, <1>6

LEMMA SonIs ==
  ASSUME NEW dp, NEW m, NEW up, Inserting(dp, m, up), son # NIL
  PROVE  /\ son \in Live(dad) /\ son \in Node /\ dad[son] = p /\ son # r /\ p # son
         /\ up[son] = {son} \cup up[p]
         /\ text_buf[son] = text_buf[r] /\ up[son] \cap Roots = {Root(text_buf[r])}
         /\ Right => son = rson[p] /\ (p \in Node => lson[p] # son)
         /\ ~Right => son = lson[p] /\ rson[p] # son
<1>1. /\ r \in Node /\ r \notin Live(dad) /\ text_buf \in Buffers
      /\ p \in Fathers(dad) /\ (~Right => p \in Node /\ p \in Live(dad))
      /\ Sound(Less(text_buf), lson, rson, dad, dp, m, up) /\ Rooted(text_buf, dad, up) /\ Walk(up)
  BY InsertIs
<1>2. Shape(lson, rson, dad) /\ Ranked(dad, dp, m) /\ Lines(dad, up)
  BY <1>1 DEF Sound
<1>3. PICK q : q = son
  OBVIOUS
<1>4. q \in Live(dad) /\ dad[q] = p
  <2>1. CASE Right
    <3>1. q = rson[p] /\ q # NIL
      BY <2>1, <1>3 DEF son
    <3> QED
      BY <3>1, <1>1, <1>2 DEF Shape
  <2>2. CASE ~Right
    <3>1. q = lson[p] /\ q # NIL
      BY <2>2, <1>3 DEF son
    <3> QED
      BY <2>2, <3>1, <1>1, <1>2 DEF Shape
  <2> QED
    BY <2>1, <2>2
<1>5. q \in Node /\ q # r
  BY <1>1, <1>4 DEF Live
<1>6. p # q
  <2>1. dad[q] \in 0 .. N + Bytes
    BY <1>1, <1>4, Places DEF Fathers, Live
  <2> QED
    BY <2>1, <1>2, <1>4, NotOwnFather
<1>7. up[q] = {q} \cup up[p]
  BY <1>2, <1>4 DEF Lines
<1>8. up[q] \cap Roots = {Root(text_buf[r])}
  BY <1>1, <1>5, <1>7, Places DEF Walk
<1>9. up[q] \cap Roots = {Root(text_buf[q])}
  BY <1>1, <1>4 DEF Rooted
<1>10. text_buf[q] = text_buf[r]
  <2>1. text_buf[q] \in Int /\ text_buf[r] \in Int
    BY <1>1, <1>5, ByteAt DEF Byte
  <2>2. Root(text_buf[r]) = Root(text_buf[q])
    BY <1>8, <1>9
  <2> QED
    BY <2>1, <2>2, RingAssumption DEF Root
<1>11. CASE Right
  <2>1. q = rson[p]
    BY <1>3, <1>11 DEF son
  <2>2. p \in Node => lson[p] # q
    <3>1. p \in Node => p \in Live(dad)
      BY <1>1, Places DEF Fathers
    <3> QED
      BY <3>1, <2>1, <1>2, <1>4, Places DEF Shape, Live
  <2> QED
    BY <2>1, <2>2, <1>3, <1>4, <1>5, <1>6, <1>7, <1>8, <1>10, <1>11
<1>12. CASE ~Right
  <2>1. q = lson[p]
    BY <1>3, <1>12 DEF son
  <2>2. rson[p] # q
    BY <2>1, <1>1, <1>2, <1>4, <1>12, Places DEF Shape, Live
  <2> QED
    BY <2>1, <2>2, <1>3, <1>4, <1>5, <1>6, <1>7, <1>8, <1>10, <1>12
<1> QED
  BY <1>11, <1>12

LEMMA SonFits ==
  ASSUME NEW dp, NEW m, NEW up, Inserting(dp, m, up), son # NIL
  PROVE  Fits(Less(text_buf), lson, rson, dad, up, son, r)
<1>1. /\ Sound(Less(text_buf), lson, rson, dad, dp, m, up) /\ Walk(up) /\ p \in Fathers(dad)
      /\ ~Right => p \in Node
  BY InsertIs
<1>2. /\ Shape(lson, rson, dad) /\ Ranked(dad, dp, m) /\ Lines(dad, up)
      /\ Fits(Less(text_buf), lson, rson, dad, up, p, r)
  BY <1>1 DEF Sound, Walk
<1>3. PICK q : q = son
  OBVIOUS
<1>4. /\ q \in Live(dad) /\ dad[q] = p /\ up[q] = {q} \cup up[p] /\ q # NIL
      /\ Right => q = rson[p] /\ (p \in Node => lson[p] # q)
      /\ ~Right => q = lson[p] /\ rson[p] # q
  BY <1>3, SonIs
<1>5. ASSUME NEW y \in Live(dad), dad[y] = p PROVE y \notin up[p]
  <2>1. dp[p] < dp[y] /\ dp[p] \in Nat /\ dp[y] \in Nat /\ p # y
    <3>1. dp[dad[y]] < dp[y]
      BY <1>2 DEF Ranked
    <3>2. dp[p] \in 0 .. m /\ dp[y] \in 0 .. m /\ m \in Nat
      BY <1>1, <1>2, Places DEF Ranked, Fathers, Live
    <3> QED
      BY <3>1, <3>2, <1>5
  <2>2. \A x \in up[p] : x # p => dp[x] < dp[p]
    BY <1>1, <1>2, UpIs
  <2> QED
    BY <2>1, <2>2
<1>6. NIL \notin up[p]
  <2>1. up[p] \subseteq Fathers(dad)
    BY <1>1, <1>2, UpIs
  <2> QED
    BY <2>1, Places DEF Fathers, Live
<1>7. ASSUME NEW a \in (up[q] \cap Live(dad)) \ {q}
      PROVE  /\ lson[a] \in up[q] => <<a, r>> \notin Less(text_buf)
             /\ rson[a] \in up[q] => <<r, a>> \notin Less(text_buf)
  <2>1. a \in up[p] /\ a \in Live(dad) /\ a \in Node /\ a \in Fathers(dad)
    BY <1>4, <1>7 DEF Live, Fathers
  <2>2. lson[a] # NIL => lson[a] \in Live(dad) /\ dad[lson[a]] = a
    BY <2>1, <1>2 DEF Shape
  <2>3. rson[a] # NIL => rson[a] \in Live(dad) /\ dad[rson[a]] = a
    BY <2>1, <1>2 DEF Shape
  <2>4. CASE a = p
    <3>1. lson[a] \in up[q] => lson[a] = q
      BY <2>2, <2>4, <1>4, <1>5, <1>6
    <3>2. rson[a] \in up[q] => rson[a] = q
      BY <2>3, <2>4, <1>4, <1>5, <1>6
    <3>3. lson[a] \in up[q] => ~Right
      BY <3>1, <2>1, <2>4, <1>4
    <3>4. rson[a] \in up[q] => Right
      BY <3>2, <2>4, <1>4
    <3>5. (Right <=> cmp >= 0) /\ cmp \in Int
      BY DEF Right, Inserting, BufferInv, Types
    <3> QED
      BY <3>3, <3>4, <3>5, <2>1, <2>4, <1>1 DEF Walk
  <2>5. CASE a # p
    <3>1. lson[a] # q /\ rson[a] # q
      BY <2>2, <2>3, <2>5, <1>4
    <3>2. (lson[a] \in up[q] => lson[a] \in up[p]) /\ (rson[a] \in up[q] => rson[a] \in up[p])
      BY <3>1, <1>4
    <3> QED
      BY <3>2, <2>1, <2>5, <1>2 DEF Fits
  <2> QED
    BY <2>4, <2>5
<1> QED
  BY <1>3, <1>7 DEF Fits

(* A string beyond another has no more in common with the one sought.      *)
LEMMA NoMoreInCommon ==
  ASSUME text_buf \in Buffers, r \in Node, NEW q \in Node, NEW x \in Node,
         text_buf[q] = text_buf[r], text_buf[x] = text_buf[r],
         \/ <<q, x>> \notin Less(text_buf) /\ <<r, q>> \notin Less(text_buf)
         \/ <<x, q>> \notin Less(text_buf) /\ <<q, r>> \notin Less(text_buf)
  PROVE  Common(x) <= Common(q)
<1>0. F \in Nat
  BY RingAssumption
<1>1. PICK b, c : b = Common(x) /\ c = Common(q)
  OBVIOUS
<1>2. b \in 1 .. F /\ Alike(text_buf, r, x, b)
  BY <1>1, CommonIs
<1>3. /\ c \in 1 .. F /\ Alike(text_buf, r, q, c)
      /\ c # F => c \in 1 .. F - 1 /\ text_buf[r + c] # text_buf[q + c]
  BY <1>1, CommonIs
<1> SUFFICES ASSUME c < b PROVE FALSE
  BY <1>0, <1>1, <1>2, <1>3
<1>4. c \in 0 .. F - 1 /\ c \in 0 .. b - 1 /\ 0 .. c - 1 \subseteq 0 .. b - 1 /\ c # F
  BY <1>0, <1>2, <1>3
<1>5. text_buf[r + c] \in Int /\ text_buf[q + c] \in Int /\ text_buf[x + c] \in Int
  BY <1>4, BufferIs
<1>6. text_buf[r + c] = text_buf[x + c] /\ text_buf[r + c] # text_buf[q + c]
  BY <1>2, <1>3, <1>4 DEF Alike
<1>7. \A n \in 0 .. c - 1 : text_buf[r + n] = text_buf[q + n] /\ text_buf[q + n] = text_buf[x + n]
  BY <1>2, <1>3, <1>4 DEF Alike
<1>8. CASE text_buf[q + c] < text_buf[r + c]
  <2>1. Before(text_buf, q, x) /\ Before(text_buf, q, r)
    BY <1>4, <1>6, <1>7, <1>8 DEF Before
  <2> QED
    BY <2>1, LessIs
<1>9. CASE text_buf[r + c] < text_buf[q + c]
  <2>1. Before(text_buf, x, q) /\ Before(text_buf, r, q)
    BY <1>4, <1>6, <1>7, <1>9 DEF Before
  <2> QED
    BY <2>1, LessIs
<1> QED
  BY <1>5, <1>6, <1>8, <1>9

LEMMA OtherSide ==
  ASSUME NEW dp, NEW m, NEW up, Inserting(dp, m, up), ~VRAMSafe,
         NEW x \in Live(dad), text_buf[x] = text_buf[r], p \in up[x], p # x, son \notin up[x]
  PROVE  Common(x) <= match_length
<1>1. /\ Sound(Less(text_buf), lson, rson, dad, dp, m, up) /\ Walk(up) /\ Sought(up)
      /\ Rooted(text_buf, dad, up) /\ r \in Node /\ text_buf \in Buffers
  BY InsertIs
<1>2. /\ Shape(lson, rson, dad) /\ Ranked(dad, dp, m) /\ Lines(dad, up)
      /\ Ordered(Less(text_buf), lson, rson, dad, up)
  BY <1>1 DEF Sound
<1>3. x \in Fathers(dad) /\ x \in Node
  BY DEF Fathers, Live
<1>4. (p \in Node /\ lson[p] \in up[x]) \/ rson[p] \in up[x]
  BY <1>2, <1>3, UpIs
<1>5. (Right <=> cmp >= 0) /\ cmp \in Int /\ match_length \in 0 .. F
  BY DEF Right, Inserting, BufferInv, Types
<1>6. /\ Right => p \in Node /\ lson[p] \in up[x]
      /\ ~Right => p \in Node /\ rson[p] \in up[x]
  BY <1>4, InsertIs DEF son
<1>7. p \in Node /\ p \in Live(dad) /\ p \in (up[x] \cap Live(dad)) \ {x}
  BY <1>1, <1>6, Places DEF Walk, Fathers
<1>8. (lson[p] \in up[x] => <<p, x>> \notin Less(text_buf)) /\ (rson[p] \in up[x] => <<x, p>> \notin Less(text_buf))
  BY <1>2, <1>7 DEF Ordered
<1>9. (cmp >= 0 => <<r, p>> \notin Less(text_buf)) /\ (cmp < 0 => <<p, r>> \notin Less(text_buf))
  BY <1>1, <1>7 DEF Walk
<1>10. \/ <<p, x>> \notin Less(text_buf) /\ <<r, p>> \notin Less(text_buf)
       \/ <<x, p>> \notin Less(text_buf) /\ <<p, r>> \notin Less(text_buf)
  BY <1>5, <1>6, <1>8, <1>9
<1>11. text_buf[p] = text_buf[r]
  <2>1. up[p] \cap Roots = {Root(text_buf[r])} /\ up[p] \cap Roots = {Root(text_buf[p])}
    BY <1>1, <1>7 DEF Walk, Rooted
  <2>2. text_buf[p] \in Int /\ text_buf[r] \in Int
    BY <1>1, <1>7, ByteAt DEF Byte
  <2>3. Root(text_buf[r]) = Root(text_buf[p])
    BY <2>1
  <2> QED
    BY <2>2, <2>3, RingAssumption DEF Root
<1>12. PICK b, c : b = Common(x) /\ c = Common(p)
  OBVIOUS
<1>13. b <= c
  BY <1>1, <1>3, <1>7, <1>10, <1>11, <1>12, NoMoreInCommon
<1>14. c <= match_length
  BY <1>1, <1>7, <1>12 DEF Sought
<1>15. b \in 1 .. F
  BY <1>1, <1>3, <1>12, CommonIs
<1>16. c \in 1 .. F
  BY <1>1, <1>7, <1>11, <1>12, CommonIs
<1> QED
  BY <1>5, <1>12, <1>13, <1>14, <1>15, <1>16

LEMMA CompareIs ==
  ASSUME text_buf \in Buffers, r \in Node, NEW q \in Node, text_buf[q] = text_buf[r], NEW c,
         c = IF Common(q) = F THEN 0 ELSE text_buf[r + Common(q)] - text_buf[q + Common(q)]
  PROVE  /\ c \in Int
         /\ c >= 0 => <<r, q>> \notin Less(text_buf)
         /\ c < 0 => <<q, r>> \notin Less(text_buf)
<1>1. PICK b : b = Common(q)
  OBVIOUS
<1>2. /\ b \in 1 .. F /\ Alike(text_buf, r, q, b)
      /\ b # F => b \in 1 .. F - 1 /\ text_buf[r + b] # text_buf[q + b]
  BY <1>1, CommonIs
<1>3. CASE b = F
  <2>1. c = 0
    BY <1>1, <1>3
  <2>2. Alike(text_buf, r, q, F)
    BY <1>2, <1>3
  <2>3. <<r, q>> \notin Less(text_buf)
    BY <2>2, AlikeSame
  <2> QED
    BY <2>1, <2>3
<1>4. CASE b # F
  <2>1. b \in 0 .. F - 1
    BY <1>2, <1>4
  <2>2. text_buf[r + b] \in Int /\ text_buf[q + b] \in Int
    BY <2>1, BufferIs
  <2>3. c = text_buf[r + b] - text_buf[q + b]
    BY <1>1, <1>4
  <2>4. Alike(text_buf, q, r, b)
    BY <1>2 DEF Alike
  <2>5. ASSUME c >= 0 PROVE <<r, q>> \notin Less(text_buf)
    <3>1. text_buf[q + b] < text_buf[r + b]
      BY <2>2, <2>3, <2>5, <1>2, <1>4
    <3> QED
      BY <2>1, <3>1, <1>2, NotBefore
  <2>6. ASSUME c < 0 PROVE <<q, r>> \notin Less(text_buf)
    <3>1. text_buf[r + b] < text_buf[q + b]
      BY <2>2, <2>3, <2>6
    <3> QED
      BY <2>1, <2>4, <3>1, NotBefore
  <2> QED
    BY <2>2, <2>3, <2>5, <2>6
<1> QED
  BY <1>3, <1>4

LEMMA DescendIs ==
  ASSUME Descend
  PROVE  /\ pc = "insert" /\ son # NIL /\ p' = son
         /\ cmp' = IF Common(son) = F THEN 0
                   ELSE text_buf[r + Common(son)] - text_buf[son + Common(son)]
         /\ IF Better(son) THEN match_position' = son /\ match_length' = Common(son)
                           ELSE UNCHANGED <<match_position, match_length>>
         /\ infile' = infile /\ VRAMSafe' = VRAMSafe /\ text_buf' = text_buf /\ len' = len
         /\ s' = s /\ r' = r /\ next' = next /\ i' = i /\ codes' = codes
         /\ Passed' = Passed /\ Oldest' = Oldest /\ Held' = Held
<1>1. /\ pc = "insert" /\ son # NIL /\ p' = son
      /\ cmp' = IF Common(son) = F THEN 0
                ELSE text_buf[r + Common(son)] - text_buf[son + Common(son)]
      /\ IF Better(son) THEN match_position' = son /\ match_length' = Common(son)
                        ELSE UNCHANGED <<match_position, match_length>>
      /\ UNCHANGED <<filevars, text_buf, placevars, i, codes, decvars>>
  BY DEF Descend
<1>2. /\ infile' = infile /\ VRAMSafe' = VRAMSafe /\ text_buf' = text_buf /\ len' = len
      /\ s' = s /\ r' = r /\ next' = next /\ i' = i /\ codes' = codes
  BY <1>1 DEF filevars, placevars
<1>3. Passed' = Passed /\ Held' = Held
  BY <1>2 DEF Passed, Held
<1>4. Oldest' = Oldest
  BY <1>3 DEF Oldest
<1> QED
  BY <1>1, <1>2, <1>3, <1>4

LEMMA TreesWalk ==
  ASSUME BufferInv, TreeInv, Descend, ~(Better(son) /\ Common(son) = F)
  PROVE  TreeInv'
<1>1. PICK dp, m, up : TreesAre(dp, m, up)
  BY DEF TreeInv
<1>2. Inserting(dp, m, up) /\ son # NIL
  BY <1>1, DescendIs DEF Inserting
<1>3. UNCHANGED <<lson, rson, dad, pc>>
  BY DEF Descend, treevars
<1>4. PICK q : q = son
  OBVIOUS
<1>5. /\ p' = q /\ r' = r /\ text_buf' = text_buf /\ VRAMSafe' = VRAMSafe
      /\ cmp' = IF Common(q) = F THEN 0 ELSE text_buf[r + Common(q)] - text_buf[q + Common(q)]
      /\ IF Better(q) THEN match_length' = Common(q) ELSE match_length' = match_length
  BY <1>4, DescendIs
<1>6. /\ q \in Live(dad) /\ q \in Node /\ up[q] = {q} \cup up[p]
      /\ text_buf[q] = text_buf[r] /\ up[q] \cap Roots = {Root(text_buf[r])}
  BY <1>2, <1>4, SonIs
<1>7. /\ r \in Node /\ text_buf \in Buffers /\ Walk(up) /\ Sought(up)
      /\ Sound(Less(text_buf), lson, rson, dad, dp, m, up) /\ Rooted(text_buf, dad, up)
  BY <1>2, InsertIs
<1>8. Fits(Less(text_buf), lson, rson, dad, up, q, r)
  BY <1>2, <1>4, SonFits
<1>9. PICK b : b = Common(q)
  OBVIOUS
<1>10. b \in 1 .. F
  BY <1>6, <1>7, <1>9, CommonIs
<1>11. match_length \in 0 .. F /\ match_length < F /\ F \in Nat
  BY <1>2, <1>7, RingAssumption DEF Inserting, BufferInv, Types, Walk
<1>12. Better(q) <=> b > match_length /\ Allowed(q)
  BY <1>9 DEF Better
<1>13. match_length' < F /\ match_length <= match_length' /\ match_length' \in 0 .. F
  <2>1. CASE Better(q)
    <3>1. match_length' = b /\ b # F /\ b > match_length
      BY <2>1, <1>4, <1>5, <1>9, <1>12
    <3> QED
      BY <3>1, <1>10, <1>11
  <2>2. CASE ~Better(q)
    BY <2>2, <1>5, <1>11
  <2> QED
    BY <2>1, <2>2
<1>14. /\ cmp' >= 0 => <<r, q>> \notin Less(text_buf)
       /\ cmp' < 0 => <<q, r>> \notin Less(text_buf)
  BY <1>5, <1>6, <1>7, CompareIs
<1>15. Walk(up)'
  <2>1. q \in Fathers(dad) /\ q \notin Roots
    BY <1>6, Places DEF Fathers
  <2>2. lson[r] = NIL /\ rson[r] = NIL
    BY <1>7 DEF Walk
  <2> QED
    BY <2>1, <2>2, <1>3, <1>5, <1>6, <1>8, <1>13, <1>14 DEF Walk
<1>16. ASSUME ~VRAMSafe PROVE b <= match_length'
  <2>1. Allowed(q)
    BY <1>16 DEF Allowed
  <2>2. CASE Better(q)
    BY <2>2, <1>5, <1>9, <1>10
  <2>3. CASE ~Better(q)
    BY <2>1, <2>3, <1>5, <1>10, <1>11, <1>12
  <2> QED
    BY <2>2, <2>3
<1>17. ASSUME ~VRAMSafe, NEW x \in Live(dad), text_buf[x] = text_buf[r]
       PROVE  Common(x) <= match_length' \/ (q \in up[x] /\ q # x)
  <2>1. PICK c : c = Common(x)
    OBVIOUS
  <2>2. c \in 1 .. F
    BY <2>1, <1>7, <1>17, CommonIs DEF Live
  <2>3. CASE c <= match_length
    BY <2>1, <2>2, <2>3, <1>11, <1>13
  <2>4. CASE ~(c <= match_length)
    <3>1. p \in up[x] /\ p # x
      BY <2>1, <2>4, <1>7, <1>17 DEF Sought
    <3>2. q \in up[x]
      BY <2>1, <2>4, <3>1, <1>2, <1>4, <1>17, OtherSide
    <3>3. x = q => c <= match_length'
      BY <2>1, <1>9, <1>16, <1>17
    <3> QED
      BY <2>1, <3>2, <3>3
  <2> QED
    BY <2>3, <2>4
<1>18. Common(p)' = b /\ \A x : Common(x)' = Common(x)
  BY <1>5, <1>9 DEF Common
<1>19. Sought(up)'
  <2>1. \A x \in Live(dad) : ~VRAMSafe /\ text_buf[x] = text_buf[r] => Common(x) <= match_length' \/ (q \in up[x] /\ q # x)
    BY <1>17
  <2> QED
    BY <2>1, <1>3, <1>5, <1>16, <1>18 DEF Sought
<1>20. Live(dad') \subseteq {Place(j) : j \in Oldest' .. Newest'}
  <2>1. Oldest' = Oldest /\ Newest' = Newest
    BY <1>3, DescendIs DEF Newest
  <2> QED
    BY <2>1, <1>1, <1>3 DEF TreesAre
<1>21. Sound(Less(text_buf'), lson', rson', dad', dp, m, up) /\ Rooted(text_buf', dad', up)
  BY <1>3, <1>5, <1>7
<1> QED
  BY <1>15, <1>19, <1>20, <1>21 DEF TreeInv, TreesAre

LEMMA ReplaceTree ==
  ASSUME Descend, Better(son), Common(son) = F
  PROVE  \E l1, r1, d1 : /\ Sons(lson, rson, dad, r, son, l1, r1, d1)
                         /\ Put(l1, r1, d1, r, son, lson', rson', dad') /\ pc' = "pass"
<1>1. PICK q, a, b : q = son /\ a = lson[q] /\ b = rson[q]
  OBVIOUS
<1>2. PICK z : z = WithSons(Tree, r, a, b)
  OBVIOUS
<1>3. SetTree(InPlace(z, r, q)) /\ pc' = "pass"
  BY <1>1, <1>2 DEF Descend
<1>4. Tree = Rec(lson, rson, dad)
  BY DEF Tree, Rec
<1>5. PICK l1, r1, d1 : l1 = z.l /\ r1 = z.r /\ d1 = z.d
  OBVIOUS
<1>6. l1 = [lson EXCEPT ![r] = a]
  BY <1>2, <1>4, <1>5 DEF WithSons, Rec
<1>7. r1 = [rson EXCEPT ![r] = b]
  BY <1>2, <1>4, <1>5 DEF WithSons, Rec
<1>8. d1 = [dad EXCEPT ![a] = r, ![b] = r]
  BY <1>2, <1>4, <1>5 DEF WithSons, Rec
<1>9. z = [l |-> z.l, r |-> z.r, d |-> z.d]
  BY <1>2, <1>4 DEF WithSons, Rec
<1>10. z = Rec(l1, r1, d1)
  BY <1>5, <1>9 DEF Rec
<1>11. Sons(lson, rson, dad, r, q, l1, r1, d1)
  BY <1>1, <1>6, <1>7, <1>8 DEF Sons
<1>12. PICK l2, r2, d2 : InPlace(z, r, q) = Rec(l2, r2, d2) /\ Put(l1, r1, d1, r, q, l2, r2, d2)
  BY <1>10, InPlaceIs
<1>13. lson' = l2 /\ rson' = r2 /\ dad' = d2
  BY <1>3, <1>12 DEF SetTree, Rec
<1> QED
  BY <1>1, <1>3, <1>11, <1>12, <1>13

LEMMA TreesReplace ==
  ASSUME BufferInv, TreeInv, Descend, Better(son), Common(son) = F
  PROVE  TreeInv' /\ Live(dad') = (Live(dad) \ {son}) \cup {r}
<1>1. PICK dp, m, up : TreesAre(dp, m, up)
  BY DEF TreeInv
<1>2. Inserting(dp, m, up) /\ son # NIL
  BY <1>1, DescendIs DEF Inserting
<1>3. PICK q : q = son
  OBVIOUS
<1>4. PICK l1, r1, d1 : /\ Sons(lson, rson, dad, r, q, l1, r1, d1)
                        /\ Put(l1, r1, d1, r, q, lson', rson', dad') /\ pc' = "pass"
  BY <1>3, ReplaceTree
<1>5. /\ r' = r /\ text_buf' = text_buf /\ Oldest' = Oldest /\ Passed' = Passed
  BY DescendIs
<1>6. /\ q \in Live(dad) /\ q \in Node /\ up[q] = {q} \cup up[p] /\ dad[q] = p /\ q # r
      /\ text_buf[q] = text_buf[r] /\ up[q] \cap Roots = {Root(text_buf[r])}
  BY <1>2, <1>3, SonIs
<1>7. /\ r \in Node /\ r \notin Live(dad) /\ text_buf \in Buffers /\ Walk(up) /\ p \in Fathers(dad)
      /\ Sound(Less(text_buf), lson, rson, dad, dp, m, up) /\ Rooted(text_buf, dad, up)
      /\ \A x \in Live(dad) : \E j \in Oldest .. Passed - 1 : x = Place(j)
  BY <1>2, InsertIs
<1>8. Fits(Less(text_buf), lson, rson, dad, up, q, r)
  BY <1>2, <1>3, SonFits
<1>9. Alike(text_buf, r, q, F)
  BY <1>3, <1>6, <1>7, CommonIs
<1>10. \A y \in Node : /\ <<r, y>> \in Less(text_buf) <=> <<q, y>> \in Less(text_buf)
                       /\ <<y, r>> \in Less(text_buf) <=> <<y, q>> \in Less(text_buf)
  BY <1>6, <1>7, <1>9, AlikeSame
<1>11. /\ Shape(lson, rson, dad) /\ Ranked(dad, dp, m) /\ Lines(dad, up)
       /\ Ordered(Less(text_buf), lson, rson, dad, up)
  BY <1>7 DEF Sound
<1>12. \A y \in Fathers(dad) : y \in up[y] /\ up[y] \subseteq Fathers(dad)
  BY <1>11, UpIs
<1>13. \A y \in Fathers(dad) : \A x \in up[y] : up[x] \subseteq up[y]
  BY <1>11, UpIs
<1>14. ASSUME NEW y \in Live(dad) \ {q}
       PROVE  /\ lson[q] \in up[y] => <<r, y>> \notin Less(text_buf)
              /\ rson[q] \in up[y] => <<y, r>> \notin Less(text_buf)
  <2>1. y \in Fathers(dad) /\ y \in Node /\ NIL \notin up[y]
    BY <1>12, Places DEF Fathers, Live
  <2>2. ASSUME NEW x \in up[y], x = lson[q] \/ x = rson[q] PROVE q \in up[y]
    <3>1. x # NIL
      BY <2>1
    <3>2. x \in Live(dad) /\ dad[x] = q
      BY <2>2, <3>1, <1>6, <1>11 DEF Shape, Fathers
    <3>3. up[x] = {x} \cup up[q] /\ q \in up[q]
      BY <3>2, <1>6, <1>11, <1>12 DEF Lines, Fathers
    <3> QED
      BY <2>1, <3>3, <1>13
  <2>3. (lson[q] \in up[y] \/ rson[q] \in up[y]) => q \in (up[y] \cap Live(dad)) \ {y}
    BY <2>2, <1>6
  <2>4. /\ lson[q] \in up[y] => <<q, y>> \notin Less(text_buf)
        /\ rson[q] \in up[y] => <<y, q>> \notin Less(text_buf)
    BY <2>3, <1>11 DEF Ordered
  <2> QED
    BY <2>1, <2>4, <1>10
<1>15. Parts(Less(text_buf), lson, rson, dad, up, q, r)
  BY <1>14 DEF Parts
<1>16. dad[r] = NIL
  BY <1>7 DEF Live
<1>17. PICK up2 : up2 = Instead(up, dad[q], q, r)
  OBVIOUS
<1>18. /\ Sound(Less(text_buf), lson', rson', dad', [dp EXCEPT ![r] = dp[q]], m, Instead(up, dad[q], q, r))
       /\ Live(dad') = (Live(dad) \ {q}) \cup {r}
  BY <1>4, <1>6, <1>7, <1>8, <1>15, <1>16, ReplaceSound
<1>19. PICK dp2 : dp2 = [dp EXCEPT ![r] = dp[q]]
  OBVIOUS
<1>20. Sound(Less(text_buf'), lson', rson', dad', dp2, m, up2)
  BY <1>5, <1>17, <1>18, <1>19
<1>21. ASSUME NEW y \in Live(dad') PROVE up2[y] \cap Roots = {Root(text_buf'[y])}
  <2>1. y \in 0 .. N + Bytes /\ q \notin Roots /\ r \notin Roots
    BY <1>6, <1>7, Places DEF Live
  <2>2. up2[y] = IF y = r THEN {r} \cup up[p]
                 ELSE IF q \in up[y] THEN (up[y] \ {q}) \cup {r} ELSE up[y]
    BY <2>1, <1>6, <1>17 DEF Instead
  <2>3. CASE y = r
    <3>1. up[p] \cap Roots = {Root(text_buf[r])}
      BY <1>7 DEF Walk
    <3> QED
      BY <2>1, <2>2, <2>3, <3>1, <1>5
  <2>4. CASE y # r
    <3>1. y \in Live(dad)
      BY <2>4, <1>18
    <3>2. up[y] \cap Roots = {Root(text_buf[y])}
      BY <3>1, <1>7 DEF Rooted
    <3> QED
      BY <2>1, <2>2, <2>4, <3>2, <1>5
  <2> QED
    BY <2>3, <2>4
<1>22. Live(dad') \subseteq {Place(j) : j \in Oldest' .. Newest'}
  <2>1. Newest' = Passed /\ r = Place(Passed) /\ Oldest \in Nat /\ Passed \in Nat /\ Oldest <= Passed
    BY <1>4, <1>5, HeldIs DEF Newest, BufferInv, Positions
  <2>2. Oldest .. Passed - 1 \subseteq Oldest .. Passed /\ Passed \in Oldest .. Passed
    BY <2>1
  <2> QED
    BY <2>1, <2>2, <1>5, <1>7, <1>18
<1>23. Rooted(text_buf', dad', up2)
  BY <1>21 DEF Rooted
<1>24. TreeInv'
  BY <1>4, <1>20, <1>22, <1>23 DEF TreeInv, TreesAre
<1> QED
  BY <1>3, <1>18, <1>24

LEMMA AttachIs ==
  ASSUME Attach
  PROVE  /\ pc = "insert" /\ pc' = "pass" /\ son = NIL
         /\ (Right \/ p \in Node) => Hung(lson, rson, dad, p, r, lson', rson', dad')
         /\ infile' = infile /\ VRAMSafe' = VRAMSafe /\ text_buf' = text_buf /\ len' = len
         /\ s' = s /\ r' = r /\ next' = next /\ i' = i /\ codes' = codes /\ p' = p /\ cmp' = cmp
         /\ match_position' = match_position /\ match_length' = match_length
         /\ Passed' = Passed /\ Oldest' = Oldest /\ Held' = Held
<1>1. /\ infile' = infile /\ VRAMSafe' = VRAMSafe /\ text_buf' = text_buf /\ len' = len
      /\ s' = s /\ r' = r /\ next' = next /\ i' = i /\ codes' = codes /\ p' = p /\ cmp' = cmp
      /\ match_position' = match_position /\ match_length' = match_length
  BY DEF Attach, filevars, placevars, walkvars
<1>2. Passed' = Passed /\ Held' = Held
  BY <1>1 DEF Passed, Held
<1>3. Oldest' = Oldest
  BY <1>2 DEF Oldest
<1>4. pc = "insert" /\ pc' = "pass" /\ son = NIL /\ dad' = [dad EXCEPT ![r] = p]
  BY DEF Attach
<1>5. CASE Right
  <2>1. rson' = [rson EXCEPT ![p] = r] /\ lson' = lson
    BY <1>5 DEF Attach
  <2>2. rson[p] = NIL
    BY <1>4, <1>5 DEF son
  <2>3. Hung(lson, rson, dad, p, r, lson', rson', dad')
    BY <2>1, <2>2, <1>4, Zenon DEF Hung
  <2> QED
    BY <2>3, <1>1, <1>2, <1>3, <1>4
<1>6. CASE ~Right
  <2>1. lson' = [lson EXCEPT ![p] = r] /\ rson' = rson
    BY <1>6 DEF Attach
  <2>2. lson[p] = NIL
    BY <1>4, <1>6 DEF son
  <2>3. p \in Node => Hung(lson, rson, dad, p, r, lson', rson', dad')
    BY <2>1, <2>2, <1>4, Zenon DEF Hung
  <2> QED
    BY <2>3, <1>1, <1>2, <1>3, <1>4, <1>6
<1> QED
  BY <1>5, <1>6

LEMMA AttachSide ==
  ASSUME Attach, TreeTypes(lson, rson, dad), r \in Node, p \in 0 .. N + Bytes, ~Right => p \in Node,
         rson[p] # r, p \in Node => lson[p] # r
  PROVE  /\ p \in Node /\ lson'[p] = r => ~Right
         /\ p \in Node /\ rson'[p] = r => Right
<1>1. p \in Node => p \in 0 .. N /\ p \in 0 .. N + Bytes
  BY Places
<1>2. CASE Right
  <2>1. lson' = lson
    BY <1>2 DEF Attach
  <2> QED
    BY <2>1, <1>1, <1>2
<1>3. CASE ~Right
  <2>1. rson' = rson
    BY <1>3 DEF Attach
  <2> QED
    BY <2>1, <1>1, <1>3
<1> QED
  BY <1>2, <1>3

LEMMA TreesAttach ==
  ASSUME BufferInv, TreeInv, Attach
  PROVE  TreeInv' /\ Live(dad') = Live(dad) \cup {r}
<1>1. PICK dp, m, up : TreesAre(dp, m, up)
  BY DEF TreeInv
<1>2. Inserting(dp, m, up)
  BY <1>1, AttachIs DEF Inserting
<1>3. /\ r' = r /\ text_buf' = text_buf /\ Oldest' = Oldest /\ Passed' = Passed /\ pc' = "pass"
      /\ (Right \/ p \in Node) => Hung(lson, rson, dad, p, r, lson', rson', dad')
  BY AttachIs
<1>4. /\ r \in Node /\ r \notin Live(dad) /\ text_buf \in Buffers /\ Walk(up) /\ p \in Fathers(dad)
      /\ (~Right => p \in Node /\ p \in Live(dad))
      /\ Sound(Less(text_buf), lson, rson, dad, dp, m, up) /\ Rooted(text_buf, dad, up)
      /\ \A x \in Live(dad) : \E j \in Oldest .. Passed - 1 : x = Place(j)
  BY <1>2, InsertIs
<1>5. Hung(lson, rson, dad, p, r, lson', rson', dad')
  BY <1>3, <1>4
<1>6. /\ lson[r] = NIL /\ rson[r] = NIL /\ Fits(Less(text_buf), lson, rson, dad, up, p, r)
      /\ p \in Node => /\ cmp >= 0 => <<r, p>> \notin Less(text_buf)
                       /\ cmp < 0 => <<p, r>> \notin Less(text_buf)
      /\ up[p] \cap Roots = {Root(text_buf[r])}
  BY <1>4 DEF Walk
<1>7. Shape(lson, rson, dad) /\ TreeTypes(lson, rson, dad)
  BY <1>4 DEF Sound, Shape
<1>8. p \in 0 .. N + Bytes /\ r # NIL /\ dad[r] = NIL
  BY <1>4, Places DEF Fathers, Live
<1>9. rson[p] # r /\ (p \in Node => lson[p] # r)
  <2>1. p \in Node => p \in Live(dad)
    BY <1>4, Places DEF Fathers
  <2> QED
    BY <2>1, <1>4, <1>7, <1>8 DEF Shape
<1>10. (p \in Node /\ lson'[p] = r => ~Right) /\ (p \in Node /\ rson'[p] = r => Right)
  BY <1>4, <1>7, <1>8, <1>9, AttachSide
<1>11. (Right <=> cmp >= 0) /\ cmp \in Int
  BY <1>2 DEF Right, Inserting, BufferInv, Types
<1>12. /\ p \in Node /\ lson'[p] = r => <<p, r>> \notin Less(text_buf)
       /\ p \in Node /\ rson'[p] = r => <<r, p>> \notin Less(text_buf)
  BY <1>6, <1>10, <1>11
<1>13. Sound(Less(text_buf), lson', rson', dad', [dp EXCEPT ![r] = dp[p] + 1], m + 1,
             [up EXCEPT ![r] = {r} \cup up[p]])
  BY <1>4, <1>5, <1>6, <1>8, <1>12, AttachSound
<1>14. PICK dp2, m2, up2 : /\ dp2 = [dp EXCEPT ![r] = dp[p] + 1] /\ m2 = m + 1
                           /\ up2 = [up EXCEPT ![r] = {r} \cup up[p]]
  OBVIOUS
<1>15. Sound(Less(text_buf'), lson', rson', dad', dp2, m2, up2)
  BY <1>3, <1>13, <1>14
<1>16. Live(dad') = Live(dad) \cup {r}
  BY <1>4, <1>5, <1>6, <1>7, <1>8, AttachShape
<1>17. ASSUME NEW y \in Live(dad') PROVE up2[y] \cap Roots = {Root(text_buf'[y])}
  <2>1. up \in [0 .. N + Bytes -> SUBSET (Node \cup Roots)] /\ r \in 0 .. N + Bytes /\ r \notin Roots
    BY <1>4, Places DEF Sound, Lines
  <2>2. CASE y = r
    <3>1. up2[y] = {r} \cup up[p]
      BY <2>1, <2>2, <1>14
    <3> QED
      BY <2>1, <2>2, <3>1, <1>3, <1>6
  <2>3. CASE y # r
    <3>1. y \in Live(dad) /\ y \in 0 .. N + Bytes
      BY <2>3, <1>16, Places DEF Live
    <3>2. up2[y] = up[y]
      BY <2>1, <2>3, <3>1, <1>14
    <3> QED
      BY <3>1, <3>2, <1>3, <1>4 DEF Rooted
  <2> QED
    BY <2>2, <2>3
<1>18. Live(dad') \subseteq {Place(j) : j \in Oldest' .. Newest'}
  <2>1. Newest' = Passed /\ r = Place(Passed) /\ Oldest \in Nat /\ Passed \in Nat /\ Oldest <= Passed
    BY <1>2, <1>3, HeldIs DEF Newest, Inserting, BufferInv, Positions
  <2>2. Oldest .. Passed - 1 \subseteq Oldest .. Passed /\ Passed \in Oldest .. Passed
    BY <2>1
  <2> QED
    BY <2>1, <2>2, <1>3, <1>4, <1>16
<1>19. Rooted(text_buf', dad', up2)
  BY <1>17 DEF Rooted
<1>20. TreeInv'
  BY <1>3, <1>15, <1>18, <1>19 DEF TreeInv, TreesAre
<1> QED
  BY <1>16, <1>20

LEMMA TreesBegin ==
  ASSUME BufferInv, TreeInv, Begin
  PROVE  TreeInv'
<1>1. PICK dp, m, up : TreesAre(dp, m, up)
  BY DEF TreeInv
<1>2. /\ pc = "begin" /\ pc' = "insert" /\ dad' = dad /\ text_buf' = text_buf /\ VRAMSafe' = VRAMSafe
      /\ r' = r /\ len' = len /\ next' = next
      /\ p' = Root(text_buf'[r']) /\ cmp' = 1 /\ match_length' = 0
      /\ Cleared(lson, rson, r, lson', rson')
  BY DEF Begin, BeginInsert, NoSons, placevars, filevars, Cleared
<1>3. Passed' = Passed /\ Held' = Held
  BY <1>2 DEF Passed, Held
<1>4. Oldest' = Oldest
  BY <1>3 DEF Oldest
<1>5. Newest' = Newest /\ Newest = Passed - 1
  BY <1>2, <1>3 DEF Newest
<1>6. r \in Node /\ text_buf \in Buffers
  BY HeldIs DEF BufferInv, Types
<1>7. /\ Sound(Less(text_buf), lson, rson, dad, dp, m, up) /\ Rooted(text_buf, dad, up)
      /\ \A x \in Live(dad) : \E j \in Oldest .. Passed - 1 : x = Place(j)
  BY <1>1, <1>5 DEF TreesAre
<1>8. r \notin Live(dad)
  BY <1>7, FreshPlace
<1>9. Sound(Less(text_buf), lson', rson', dad, dp, m, up) /\ lson'[r] = NIL /\ rson'[r] = NIL
  BY <1>2, <1>6, <1>7, <1>8, NoSonsSound
<1>10. Sound(Less(text_buf'), lson', rson', dad', dp, m, up) /\ Rooted(text_buf', dad', up)
  BY <1>2, <1>7, <1>9
<1>11. Lines(dad', up) /\ text_buf'[r'] \in Byte /\ lson'[r'] = NIL /\ rson'[r'] = NIL
  BY <1>2, <1>6, <1>9, <1>10, ByteAt DEF Sound
<1>12. Walk(up)' /\ Sought(up)'
  BY <1>2, <1>10, <1>11, BeginWalk
<1>13. Live(dad') \subseteq {Place(j) : j \in Oldest' .. Newest'}
  BY <1>2, <1>3, <1>4, <1>5, <1>7
<1> QED
  BY <1>10, <1>12, <1>13 DEF TreeInv, TreesAre

LEMMA TreesSame ==
  ASSUME TreeInv, UNCHANGED <<text_buf, lson, rson, dad, next, len>>, Newest' = Newest, pc' # "insert"
  PROVE  TreeInv'
<1>1. PICK dp, m, up : TreesAre(dp, m, up)
  BY DEF TreeInv
<1>2. Passed' = Passed /\ Held' = Held
  BY DEF Passed, Held
<1>3. Oldest' = Oldest
  BY <1>2 DEF Oldest
<1> QED
  BY <1>1, <1>3 DEF TreeInv, TreesAre

LEMMA TreesStep ==
  ASSUME BufferInv, TreeInv, Next
  PROVE  TreeInv'
<1>1. CASE Begin
  BY <1>1, TreesBegin
<1>2. CASE Attach
  BY <1>2, TreesAttach
<1>3. CASE Descend
  BY <1>3, TreesWalk, TreesReplace
<1>4. CASE Pass
  BY <1>4, TreesPass
<1>5. CASE Emit
  <2>1. pc' = "pass" /\ pc = "pass" /\ UNCHANGED <<text_buf, lson, rson, dad, next, len>>
    BY <1>5 DEF Emit, treevars, placevars
  <2>2. Newest' = Newest
    BY <2>1 DEF Newest, Passed
  <2> QED
    BY <2>1, <2>2, TreesSame
<1>6. CASE Finish
  <2>1. pc' = "decode" /\ pc = "pass" /\ UNCHANGED <<text_buf, lson, rson, dad, next, len>>
    BY <1>6 DEF Finish, encvars, treevars, placevars
  <2>2. Newest' = Newest
    BY <2>1 DEF Newest, Passed
  <2> QED
    BY <2>1, <2>2, TreesSame
<1>7. CASE DecodeByte \/ CopyByte
  <2>1. pc' = "decode" /\ pc = "decode" /\ UNCHANGED <<text_buf, lson, rson, dad, next, len>>
    BY <1>7 DEF DecodeByte, CopyByte, encvars, treevars, placevars
  <2>2. Newest' = Newest
    BY <2>1 DEF Newest, Passed
  <2> QED
    BY <2>1, <2>2, TreesSame
<1> QED
  BY <1>1, <1>2, <1>3, <1>4, <1>5, <1>6, <1>7 DEF Next

LEMMA TreesInit == Init => TreeInv
<1> SUFFICES ASSUME Init PROVE TreeInv
  OBVIOUS
<1>1. /\ lson = [x \in 0 .. N |-> NIL] /\ rson = [x \in 0 .. N + Bytes |-> NIL]
      /\ dad = [x \in 0 .. N |-> NIL] /\ pc \in {"begin", "decode"}
  BY DEF Init
<1>2. Live(dad) = {} /\ Fathers(dad) = Roots
  BY <1>1, Places DEF Live, Fathers
<1>3. Shape(lson, rson, dad)
  <2>1. TreeTypes(lson, rson, dad)
    BY <1>1, Places DEF TreeTypes
  <2>2. \A x \in Roots : rson[x] = NIL
    BY <1>1, Places
  <2> QED
    BY <2>1, <2>2, <1>2 DEF Shape
<1>4. PICK dp, up : dp = [x \in 0 .. N + Bytes |-> 0] /\ up = [x \in 0 .. N + Bytes |-> {x} \cap Roots]
  OBVIOUS
<1>5. Ranked(dad, dp, 0)
  BY <1>2, <1>4 DEF Ranked
<1>6. Lines(dad, up)
  BY <1>2, <1>4, Places DEF Lines
<1>7. Sound(Less(text_buf), lson, rson, dad, dp, 0, up)
  BY <1>2, <1>3, <1>5, <1>6 DEF Sound, Ordered
<1>8. Rooted(text_buf, dad, up)
  BY <1>2 DEF Rooted
<1> QED
  BY <1>1, <1>2, <1>7, <1>8 DEF TreeInv, TreesAre

-----------------------------------------------------------------------------
(* The buffer.                                                             *)
LEMMA BufferInit == Init => BufferInv
<1> SUFFICES ASSUME Init PROVE BufferInv
  OBVIOUS
<1>1. N \in Nat /\ F \in Nat /\ F > 0 /\ 2 * F <= N /\ Bytes \in Nat /\ Bytes > 0
  BY RingAssumption
<1>2. PICK u : u = Len(infile)
  OBVIOUS
<1>3. infile \in Seq(Byte) /\ u \in Nat
  <2>1. infile \in BoundedSeq(Byte, TextSize)
    BY DEF Init, Texts
  <2>2. infile \in UNION {[1 .. n -> Byte] : n \in 0 .. TextSize}
    BY <2>1 DEF BoundedSeq, SeqOf
  <2>3. PICK n \in 0 .. TextSize : infile \in [1 .. n -> Byte]
    BY <2>2
  <2>4. n \in Nat
    BY RingAssumption
  <2>5. infile \in Seq(Byte)
    BY <2>3, <2>4
  <2> QED
    BY <2>5, <1>2
<1>4. /\ len = least(F, u) /\ next = len + 1 /\ s = 0 /\ r = N - F /\ i = 0 /\ codes = <<>>
      /\ p = NIL /\ cmp = 1 /\ match_position = 0 /\ match_length = 0 /\ VRAMSafe \in BOOLEAN
      /\ pc = IF len = 0 THEN "decode" ELSE "begin"
  BY <1>2 DEF Init
<1>5. len \in 0 .. F /\ len <= u /\ next \in Nat
  BY <1>1, <1>3, <1>4 DEF least
<1>6. Passed = 0
  BY <1>1, <1>4, <1>5 DEF Passed
<1>7. Held = 0 /\ Oldest = 0
  <2>1. Held = least(Passed, N - F)
    BY DEF Held, Passed
  <2>2. least(0, N - F) = 0
    BY <1>1 DEF least
  <2>3. Held = 0
    BY <2>1, <2>2, <1>6
  <2> QED
    BY <2>3, <1>6 DEF Oldest
<1>8. PICK stale \in Byte :
        text_buf = [x \in 0 .. N + F - 2 |->
                      IF x \in r .. r + len - 1 THEN infile[x - r + 1]
                      ELSE IF x >= r THEN stale ELSE Fill]
  BY DEF Init
<1>9. \A x \in r .. r + len - 1 : infile[x - r + 1] \in Byte
  <2>1. \A x \in r .. r + len - 1 : x - r + 1 \in 1 .. u
    BY <1>1, <1>3, <1>4, <1>5
  <2> QED
    BY <2>1, <1>2, <1>3
<1>10. Fill \in Byte
  BY <1>1 DEF Fill, Byte
<1>11. text_buf \in Buffers
  BY <1>8, <1>9, <1>10 DEF Buffers
<1>12. Types
  <2>1. NIL \in 0 .. N + Bytes /\ 0 \in Node /\ 0 \in 0 .. F
    BY <1>1 DEF NIL, Node
  <2> QED
    BY <2>1, <1>3, <1>4, <1>11 DEF Types
<1>13. Positions
  <2>1. r = Place(Passed) /\ s = Ring(Passed)
    BY <1>1, <1>4, <1>6, PlaceIs DEF Ring
  <2>2. len = least(F, u - 0)
    BY <1>3, <1>4
  <2> QED
    BY <2>1, <2>2, <1>2, <1>3, <1>4, <1>5, <1>6 DEF Positions
<1>14. ASSUME NEW j \in 0 .. len - 1, NEW x \in Copies(Place(j)) PROVE text_buf[x] = infile[j + 1]
  <2>1. Place(j) = r + j
    <3>1. r + j \in 0 .. N - 1
      BY <1>1, <1>4, <1>5, <1>14
    <3> QED
      BY <3>1, <1>1, <1>4, <1>14 DEF Place, Ring
  <2>2. x = r + j
    <3>1. r + j >= F - 1
      BY <1>1, <1>4, <1>5, <1>14
    <3> QED
      BY <2>1, <3>1, <1>1, <1>4, <1>14 DEF Copies
  <2>3. x \in 0 .. N + F - 2 /\ x \in r .. r + len - 1 /\ x - r + 1 = j + 1
    BY <2>2, <1>1, <1>4, <1>5, <1>14
  <2> QED
    BY <2>3, <1>8
<1>15. Chars(text_buf, 0, len)
  BY <1>14 DEF Chars
<1>16. Passed + len = len
  BY <1>5, <1>6
<1> QED
  BY <1>7, <1>12, <1>13, <1>15, <1>16 DEF BufferInv

LEMMA SonTypes ==
  ASSUME TreeInv, BufferInv, pc = "insert", son # NIL
  PROVE  son \in Node /\ text_buf[son] = text_buf[r] /\ r \in Node /\ text_buf \in Buffers
<1>1. PICK dp, m, up : TreesAre(dp, m, up)
  BY DEF TreeInv
<1>2. Inserting(dp, m, up)
  BY <1>1 DEF Inserting
<1> QED
  BY <1>2, SonIs, InsertIs

LEMMA RootIs == ASSUME NEW b \in Byte PROVE Root(b) \in 0 .. N + Bytes
BY RingAssumption DEF Root, Byte

LEMMA LongestIs ==
  ASSUME BufferInv, len > 0
  PROVE  /\ Longest \in 0 .. F /\ Longest <= len /\ Longest <= match_length
         /\ Longest > THRESHOLD => Longest > 0 /\ match_length > 0
<1>1. match_length \in 0 .. F /\ len \in 0 .. F
  BY DEF BufferInv, Types, Positions
<1> QED
  BY <1>1, RingAssumption DEF Longest, least

LEMMA SameBuffer ==
  ASSUME BufferInv, UNCHANGED <<infile, VRAMSafe, text_buf, len, s, r, next>>, Types',
         i' \in 0 .. len, pc' # "begin", pc' = "insert" => len > 0, pc' = "decode" => i' = 0 /\ len = 0
  PROVE  BufferInv'
<1>1. Passed' = Passed /\ Held' = Held
  BY DEF Passed, Held
<1>2. Oldest' = Oldest
  BY <1>1 DEF Oldest
<1>3. Positions'
  BY <1>1 DEF BufferInv, Positions
<1>4. Chars(text_buf, Oldest, Passed + len)'
  BY <1>1, <1>2 DEF BufferInv, Chars
<1> QED
  BY <1>3, <1>4 DEF BufferInv

LEMMA BufferStep ==
  ASSUME BufferInv, TreeInv, Next
  PROVE  BufferInv'
<1>0. /\ Types /\ Positions /\ r \in Node /\ s \in Node /\ text_buf \in Buffers
      /\ N \in Nat /\ F \in Nat /\ F > 0 /\ Node \subseteq Int
  BY HeldIs, RingAssumption DEF BufferInv, Types, Node
<1>1. CASE Begin
  <2>1. /\ UNCHANGED <<infile, VRAMSafe, text_buf, len, s, r, next, i, codes, match_position>>
        /\ pc' = "insert" /\ pc = "begin" /\ p' = Root(text_buf[r]) /\ cmp' = 1 /\ match_length' = 0
    BY <1>1 DEF Begin, BeginInsert, filevars, placevars
  <2>2. p' \in 0 .. N + Bytes
    BY <2>1, <1>0, ByteAt, RootIs
  <2>3. Types'
    BY <2>1, <2>2, <1>0 DEF Types
  <2> QED
    BY <2>1, <2>3, <1>0, SameBuffer DEF Positions
<1>2. CASE Attach
  <2>1. /\ UNCHANGED <<infile, VRAMSafe, text_buf, len, s, r, next, i, codes, match_position,
                       match_length, p, cmp>>
        /\ pc' = "pass" /\ pc = "insert"
    BY <1>2, AttachIs
  <2>2. Types'
    BY <2>1, <1>0 DEF Types
  <2> QED
    BY <2>1, <2>2, <1>0, SameBuffer DEF Positions
<1>3. CASE Descend
  <2>1. /\ UNCHANGED <<infile, VRAMSafe, text_buf, len, s, r, next, i, codes>>
        /\ pc = "insert" /\ son # NIL /\ p' = son /\ pc' \in {"insert", "pass"}
    BY <1>3, DescendIs DEF Descend
  <2>2. PICK q : q = son
    OBVIOUS
  <2>3. q \in Node /\ text_buf[q] = text_buf[r]
    BY <2>1, <2>2, SonTypes
  <2>4. /\ p' = q /\ cmp' = IF Common(q) = F THEN 0 ELSE text_buf[r + Common(q)] - text_buf[q + Common(q)]
        /\ IF Better(q) THEN match_position' = q /\ match_length' = Common(q)
                        ELSE UNCHANGED <<match_position, match_length>>
    BY <2>2, <1>3, DescendIs
  <2>5. cmp' \in Int
    BY <2>3, <2>4, <1>0, CompareIs
  <2>6. match_position' \in Node /\ match_length' \in 0 .. F
    <3>1. Common(q) \in 1 .. F
      BY <2>3, <1>0, CommonIs
    <3>2. Common(q) \in 0 .. F
      BY <3>1
    <3> QED
      BY <2>3, <2>4, <3>2, <1>0 DEF Types
  <2>7. p' \in 0 .. N + Bytes
    BY <2>3, <2>4, Places
  <2>8. Types'
    BY <2>1, <2>5, <2>6, <2>7, <1>0 DEF Types
  <2> QED
    BY <2>1, <2>8, <1>0, SameBuffer DEF Positions
<1>4. CASE Pass
  <2>1. /\ pc = "pass" /\ VRAMSafe' = VRAMSafe /\ codes' = codes /\ infile' = infile
    BY <1>4 DEF Pass, filevars
  <2>2. PICK dp, m, up : TreesAre(dp, m, up)
    BY DEF TreeInv
  <2>3. PICK l2, r2, d2, dp2, up2 : DeleteNode = Rec(l2, r2, d2) /\ Live(d2) = Live(dad) \ {s}
    BY <2>2, <1>4, PassDelete
  <2>4. /\ len' > 0 => /\ pc' = "insert" /\ p' = Root(text_buf'[r']) /\ cmp' = 1 /\ match_length' = 0
        /\ ~(len' > 0) => UNCHANGED <<pc, walkvars>>
    BY <2>3, <1>4, PassTree
  <2>5. /\ Passed' = Passed + 1 /\ Passed' \in Nat /\ Passed' <= Len(infile')
        /\ len' \in 0 .. F /\ next' \in Nat /\ len' = least(F, Len(infile') - Passed') /\ i' \in 0 .. len'
    BY <2>1, <1>4, PassCounts
  <2>6. r' = Place(Passed') /\ s' = Ring(Passed')
    BY <1>4, PassPlaces
  <2>7. text_buf' \in Buffers /\ Chars(text_buf, Oldest, Passed + len)'
    BY <1>4, PassBuffer
  <2>8. r' \in Node
    BY <2>5, <2>6, PlaceIs
  <2>9. match_position' = match_position
    BY <1>4 DEF Pass, BeginInsert, walkvars
  <2>10. Types' /\ pc' \in {"insert", "pass"} /\ (pc' = "insert" => len' > 0)
    <3>1. CASE len' > 0
      <4>1. p' \in 0 .. N + Bytes
        BY <2>4, <2>7, <2>8, <3>1, ByteAt, RootIs
      <4> QED
        BY <2>1, <2>4, <2>7, <2>9, <3>1, <4>1, <1>0 DEF Types
    <3>2. CASE ~(len' > 0)
      <4>1. pc' = pc /\ p' = p /\ cmp' = cmp /\ match_length' = match_length
        BY <2>4, <3>2 DEF walkvars
      <4> QED
        BY <2>1, <2>7, <2>9, <4>1, <1>0 DEF Types
    <3> QED
      BY <3>1, <3>2
  <2>11. Positions'
    BY <2>5, <2>6, <2>10 DEF Positions
  <2> QED
    BY <2>7, <2>10, <2>11 DEF BufferInv
<1>5. CASE Emit
  <2>1. /\ UNCHANGED <<infile, VRAMSafe, text_buf, len, s, r, next, match_position, match_length, p, cmp, pc>>
        /\ pc = "pass" /\ len > 0
    BY <1>5 DEF Emit, filevars, placevars, walkvars
  <2>2. Longest \in 0 .. F /\ Longest <= len
    BY <2>1, LongestIs
  <2>3. CASE Longest <= THRESHOLD
    <3>1. codes' = Append(codes, [pair |-> FALSE, byte |-> text_buf[r]]) /\ i' = 1
      BY <2>3, <1>5 DEF Emit
    <3>2. text_buf[r] \in Byte
      BY <1>0, ByteAt
    <3>3. [pair |-> FALSE, byte |-> text_buf[r]] \in Codes
      BY <3>2 DEF Codes
    <3>4. codes' \in Seq(Codes)
      BY <3>1, <3>3, <1>0 DEF Types
    <3>5. Types'
      BY <2>1, <3>4, <1>0 DEF Types
    <3>6. i' \in 0 .. len
      BY <2>1, <3>1, <1>0 DEF Positions
    <3> QED
      BY <2>1, <3>5, <3>6, SameBuffer
  <2>4. CASE ~(Longest <= THRESHOLD)
    <3>1. PICK d : d = Ring(r - match_position - 1)
      OBVIOUS
    <3>2. codes' = Append(codes, [pair |-> TRUE, length |-> Longest, disp |-> d]) /\ i' = Longest
      BY <2>4, <3>1, <1>5 DEF Emit
    <3>3. r - match_position - 1 \in Int
      BY <1>0 DEF Types
    <3>4. d \in Node
      BY <3>1, <3>3, RingIs
    <3>5. Longest \in 1 .. F
      BY <2>2, <2>4, RingAssumption
    <3>6. [pair |-> TRUE, length |-> Longest, disp |-> d] \in Codes
      BY <3>4, <3>5 DEF Codes
    <3>7. codes' \in Seq(Codes)
      BY <3>2, <3>6, <1>0 DEF Types
    <3>8. Types'
      BY <2>1, <3>7, <1>0 DEF Types
    <3>9. i' \in 0 .. len
      BY <2>2, <3>2, <1>0 DEF Positions
    <3> QED
      BY <2>1, <3>8, <3>9, SameBuffer
  <2> QED
    BY <2>3, <2>4
<1>6. CASE Finish
  <2>1. /\ UNCHANGED <<infile, VRAMSafe, text_buf, len, s, r, next, match_position, match_length, p, cmp,
                       i, codes>>
        /\ pc' = "decode" /\ len = 0 /\ i = 0
    BY <1>6 DEF Finish, encvars, filevars, placevars, walkvars
  <2>2. Types'
    BY <2>1, <1>0 DEF Types
  <2> QED
    BY <2>1, <2>2, <1>0, SameBuffer DEF Positions
<1>7. CASE DecodeByte \/ CopyByte
  <2>1. /\ UNCHANGED <<infile, VRAMSafe, text_buf, len, s, r, next, match_position, match_length, p, cmp,
                       i, codes, pc>>
        /\ pc = "decode"
    BY <1>7 DEF DecodeByte, CopyByte, encvars, filevars, placevars, walkvars
  <2>2. Types'
    BY <2>1, <1>0 DEF Types
  <2> QED
    BY <2>1, <2>2, <1>0, SameBuffer DEF Positions
<1> QED
  BY <1>1, <1>2, <1>3, <1>4, <1>5, <1>6, <1>7 DEF Next

-----------------------------------------------------------------------------
(* The match that was found.                                               *)
LEMMA RingBetween ==
  ASSUME NEW a \in Int, NEW d \in 1 .. N - 1
  PROVE  Ring(Place(a) - Place(a - d)) = d /\ Ring(Place(a) - Place(a - d) - 1) = d - 1
<1>0. N \in Nat /\ d \in Int /\ Node \subseteq Int /\ a - d \in Int /\ d \in Node /\ d - 1 \in Node
  BY RingAssumption DEF Node
<1>1. PICK x \in Node, y \in Node : x = Place(a) /\ y = Place(a - d)
  BY <1>0, PlaceIs
<1>2. x \in Int /\ y \in Int
  BY <1>0
<1>3. Ring(y + d) = x
  <2>1. Ring(Place(a - d) + d) = Place((a - d) + d)
    BY <1>0, PlaceIs
  <2>2. (a - d) + d = a
    BY <1>0
  <2> QED
    BY <2>1, <2>2, <1>1
<1>4. y + d \in Int
  BY <1>0, <1>2
<1>5. PICK z \in Int : z = (y + d) \div N
  BY <1>4, RingIs
<1>6. y + d = N * z + x
  BY <1>3, <1>4, <1>5, RingIs
<1>7. PICK w \in Int : w = -z
  OBVIOUS
<1>8. N * w = -(N * z) /\ N * z \in Int
  BY <1>0, <1>7
<1>9. PICK v \in Int : v = x - y
  BY <1>2
<1>10. v = N * w + d
  BY <1>0, <1>2, <1>6, <1>8, <1>9
<1>11. Ring(v) = d
  BY <1>0, <1>10, RingUnique
<1>12. Ring(v - 1) = d - 1
  <2>1. PICK y2 \in Int : y2 = N * w
    BY <1>7, <1>8
  <2>2. v = y2 + d
    BY <2>1, <1>10
  <2>3. v - 1 = y2 + (d - 1) /\ v - 1 \in Int
    BY <2>2, <1>0, <1>9
  <2>4. v - 1 = N * w + (d - 1)
    BY <2>3, <2>1
  <2> QED
    BY <2>3, <2>4, <1>0, RingUnique
<1> QED
  BY <1>1, <1>9, <1>11, <1>12

Matches ==
  \E d \in 1 .. Held : /\ match_position = Place(Passed - d) /\ (VRAMSafe => d >= 2)
                       /\ Alike(text_buf, r, match_position, match_length)

MatchInv ==
  (pc = "insert" \/ (pc = "pass" /\ len > 0)) /\ match_length > 0 => Matches

LEMMA MatchSame ==
  ASSUME MatchInv, BufferInv, pc = "insert" \/ (pc = "pass" /\ len > 0),
         UNCHANGED <<VRAMSafe, text_buf, r, next, len, match_position, match_length>>
  PROVE  MatchInv'
<1>1. Passed' = Passed /\ Held' = Held
  BY DEF Passed, Held
<1>2. Matches' <=> Matches
  BY <1>1 DEF Matches
<1> QED
  BY <1>2 DEF MatchInv

LEMMA MatchDescend ==
  ASSUME MatchInv, BufferInv, TreeInv, Descend
  PROVE  MatchInv'
<1>1. /\ UNCHANGED <<VRAMSafe, text_buf, r, next, len>> /\ pc = "insert" /\ son # NIL
      /\ Passed' = Passed /\ Held' = Held /\ Oldest' = Oldest
  BY DescendIs
<1>2. PICK q : q = son
  OBVIOUS
<1>3. IF Better(q) THEN match_position' = q /\ match_length' = Common(q)
                   ELSE UNCHANGED <<match_position, match_length>>
  BY <1>2, DescendIs
<1>4. CASE ~Better(q)
  BY <1>1, <1>3, <1>4, MatchSame
<1>5. CASE Better(q)
  <2>1. q \in Node /\ text_buf[q] = text_buf[r] /\ r \in Node /\ text_buf \in Buffers
    BY <1>1, <1>2, SonTypes
  <2>2. PICK j \in Oldest .. Passed - 1 : q = Place(j)
    <3>1. PICK dp, m, up : TreesAre(dp, m, up)
      BY DEF TreeInv
    <3>2. Inserting(dp, m, up)
      BY <3>1, <1>1 DEF Inserting
    <3>3. q \in Live(dad)
      BY <3>2, <1>1, <1>2, SonIs
    <3> QED
      BY <3>2, <3>3, InsertIs
  <2>3. /\ Held \in 0 .. N - F /\ Held <= Passed /\ Passed \in Nat /\ Oldest = Passed - Held
        /\ N \in Nat /\ F \in Nat /\ F > 0 /\ 2 * F <= N
    BY HeldIs, RingAssumption DEF Oldest
  <2>4. PICK t : t = Passed
    OBVIOUS
  <2>5. PICK d : d = t - j
    OBVIOUS
  <2>6. d \in 1 .. Held /\ d \in 1 .. N - 1 /\ j = t - d /\ t \in Int /\ d \in Int
    BY <2>2, <2>3, <2>4, <2>5
  <2>7. r = Place(t)
    BY <2>4 DEF BufferInv, Positions
  <2>8. Ring(r - q) = d
    BY <2>2, <2>6, <2>7, RingBetween
  <2>9. VRAMSafe => d >= 2
    <3>1. Allowed(q)
      BY <1>5 DEF Better
    <3>2. VRAMSafe => ~(d <= 1)
      BY <2>8, <3>1 DEF Allowed
    <3> QED
      BY <2>6, <3>2
  <2>10. Alike(text_buf, r, q, Common(q))
    BY <2>1, CommonIs
  <2>11. q = Place(t - d)
    BY <2>2, <2>6
  <2>12. /\ match_position' = Place(Passed' - d) /\ (VRAMSafe' => d >= 2)
         /\ Alike(text_buf', r', match_position', match_length')
    BY <2>4, <2>9, <2>10, <2>11, <1>1, <1>3, <1>5
  <2>13. d \in 1 .. Held'
    BY <2>6, <1>1
  <2>14. Matches'
    BY <2>12, <2>13 DEF Matches
  <2> QED
    BY <2>14 DEF MatchInv
<1> QED
  BY <1>4, <1>5

LEMMA MatchStep ==
  ASSUME MatchInv, BufferInv, TreeInv, Next
  PROVE  MatchInv'
<1>1. CASE Begin
  <2>1. match_length' = 0
    BY <1>1 DEF Begin, BeginInsert
  <2> QED
    BY <2>1 DEF MatchInv
<1>2. CASE Attach
  <2>1. pc = "insert" /\ UNCHANGED <<VRAMSafe, text_buf, r, next, len, match_position, match_length>>
    BY <1>2, AttachIs
  <2> QED
    BY <2>1, MatchSame
<1>3. CASE Descend
  BY <1>3, MatchDescend
<1>4. CASE Pass
  <2>1. len' > 0 => match_length' = 0
    BY <1>4 DEF Pass, BeginInsert
  <2>2. ~(len' > 0) => pc' = "pass"
    BY <1>4 DEF Pass
  <2>3. CASE len' > 0
    BY <2>1, <2>3 DEF MatchInv
  <2>4. CASE ~(len' > 0)
    BY <2>2, <2>4 DEF MatchInv
  <2> QED
    BY <2>3, <2>4
<1>5. CASE Emit
  <2>1. /\ pc = "pass" /\ len > 0
        /\ UNCHANGED <<VRAMSafe, text_buf, r, next, len, match_position, match_length>>
    BY <1>5 DEF Emit, filevars, placevars, walkvars
  <2> QED
    BY <2>1, MatchSame
<1>6. CASE Finish
  <2>1. pc' = "decode"
    BY <1>6 DEF Finish
  <2> QED
    BY <2>1 DEF MatchInv
<1>7. CASE DecodeByte \/ CopyByte
  <2>1. pc' = "decode"
    BY <1>7 DEF DecodeByte, CopyByte
  <2> QED
    BY <2>1 DEF MatchInv
<1> QED
  BY <1>1, <1>2, <1>3, <1>4, <1>5, <1>6, <1>7 DEF Next

LEMMA MatchInit == Init => MatchInv
BY DEF Init, MatchInv

-----------------------------------------------------------------------------
(* What the codes say.                                                     *)
LEMMA CharAt ==
  ASSUME BufferInv, NEW j \in Int, NEW e \in 0 .. F - 1, j >= Oldest, j + e < Passed + len
  PROVE  text_buf[Place(j) + e] = infile[(j + e) + 1]
<1>1. Oldest \in Nat /\ Passed \in Nat /\ len \in 0 .. F /\ F \in Nat
  BY HeldIs, RingAssumption
<1>2. Place(j) \in Node /\ Ring(Place(j) + e) = Place(j + e)
  BY PlaceIs
<1>3. Place(j) + e \in Copies(Place(j + e))
  BY <1>2, AheadIs
<1>4. PICK z : z = Passed + len
  OBVIOUS
<1>5. Chars(text_buf, Oldest, z)
  BY <1>4 DEF BufferInv
<1>6. z \in Nat /\ j + e < z
  BY <1>1, <1>4
<1>7. j + e \in Oldest .. z - 1
  BY <1>1, <1>6
<1> QED
  BY <1>3, <1>5, <1>7 DEF Chars

Size(c) == IF c.pair THEN c.length ELSE 1

(* The code c says what the text is from j on.                             *)
Says(c, j) ==
  IF c.pair
  THEN /\ c.disp + 1 <= j /\ c.disp + 1 <= N - F /\ (VRAMSafe => c.disp >= 1)
       /\ \A n \in 1 .. c.length : infile[j + n] = infile[(j + n) - (c.disp + 1)]
  ELSE c.byte = infile[j + 1]

(* The nth code says what the text is from st[n] on.                       *)
Told(st) ==
  /\ st \in [1 .. Len(codes) + 1 -> Nat] /\ st[1] = 0 /\ st[Len(codes) + 1] = Passed + i
  /\ \A n \in 1 .. Len(codes) + 1 : st[n] <= Passed + i
  /\ \A n \in 1 .. Len(codes) : st[n + 1] = st[n] + Size(codes[n]) /\ Says(codes[n], st[n])

LEMMA CodeIs ==
  ASSUME NEW c \in Codes
  PROVE  /\ c.pair \in BOOLEAN /\ Size(c) \in 1 .. F
         /\ c.pair => c.length \in 1 .. F /\ c.disp \in Node
         /\ ~c.pair => c.byte \in Byte
<1>1. CASE c \in [pair : {FALSE}, byte : Byte]
  <2>1. c.pair = FALSE /\ c.byte \in Byte
    BY <1>1
  <2>2. Size(c) = 1 /\ 1 \in 1 .. F
    BY <2>1, RingAssumption DEF Size
  <2> QED
    BY <2>1, <2>2, Zenon
<1>2. CASE c \in [pair : {TRUE}, length : 1 .. F, disp : Node]
  <2>1. c.pair = TRUE /\ c.length \in 1 .. F /\ c.disp \in Node
    BY <1>2
  <2> QED
    BY <2>1 DEF Size
<1> QED
  BY <1>1, <1>2 DEF Codes

LEMMA PairIs ==
  ASSUME BufferInv, MatchInv, pc = "pass", len > 0, match_length > 0
  PROVE  \E d \in 1 .. Held :
           /\ Ring(r - match_position - 1) = d - 1 /\ (VRAMSafe => d >= 2)
           /\ d <= Passed /\ d <= N - F
           /\ \A n \in 1 .. Longest : infile[Passed + n] = infile[(Passed + n) - d]
<1>1. PICK d \in 1 .. Held : /\ match_position = Place(Passed - d) /\ (VRAMSafe => d >= 2)
                             /\ Alike(text_buf, r, match_position, match_length)
  BY DEF MatchInv, Matches
<1>2. /\ Held \in 0 .. N - F /\ Held <= Passed /\ Passed \in Nat /\ Oldest = Passed - Held
      /\ N \in Nat /\ F \in Nat /\ F > 0 /\ 2 * F <= N /\ len \in 0 .. F
  BY HeldIs, RingAssumption DEF Oldest
<1>3. PICK t : t = Passed
  OBVIOUS
<1>4. t \in Int /\ d \in 1 .. N - 1 /\ d <= t /\ d <= N - F /\ t - d >= Oldest /\ t - d \in Int /\ d \in Int
  BY <1>2, <1>3
<1>5. r = Place(t)
  BY <1>3 DEF BufferInv, Positions
<1>6. Ring(r - match_position - 1) = d - 1
  BY <1>1, <1>3, <1>4, <1>5, RingBetween
<1>7. Longest \in 0 .. F /\ Longest <= len /\ Longest <= match_length /\ match_length \in 0 .. F
  BY LongestIs DEF BufferInv, Types
<1>8. ASSUME NEW n \in 1 .. Longest PROVE infile[t + n] = infile[(t + n) - d]
  <2>1. PICK e : e = n - 1
    OBVIOUS
  <2>2. /\ e \in 0 .. F - 1 /\ e \in 0 .. match_length - 1 /\ t + e < t + len /\ (t - d) + e < t + len
        /\ (t + e) + 1 = t + n /\ ((t - d) + e) + 1 = (t + n) - d /\ t >= Oldest
    BY <2>1, <1>2, <1>3, <1>4, <1>7
  <2>3. text_buf[Place(t) + e] = infile[(t + e) + 1]
    BY <2>2, <1>3, <1>4, CharAt
  <2>4. text_buf[Place(t - d) + e] = infile[((t - d) + e) + 1]
    BY <2>2, <1>3, <1>4, CharAt
  <2>5. text_buf[Place(t) + e] = text_buf[Place(t - d) + e]
    BY <2>2, <1>1, <1>3, <1>5 DEF Alike
  <2> QED
    BY <2>2, <2>3, <2>4, <2>5
<1> QED
  BY <1>1, <1>3, <1>4, <1>6, <1>8

LEMMA ToldSame ==
  ASSUME NEW st, Told(st), UNCHANGED <<infile, VRAMSafe, codes>>, Passed' + i' = Passed + i
  PROVE  Told(st)'
<1>1. \A c, j : Says(c, j)' <=> Says(c, j)
  BY DEF Says
<1> QED
  BY <1>1 DEF Told

LEMMA SaidNext ==
  ASSUME BufferInv, MatchInv, Emit
  PROVE  \E c \in Codes : codes' = Append(codes, c) /\ i' = Size(c) /\ Says(c, Passed)
<1>1. pc = "pass" /\ len > 0
  BY DEF Emit
<1>2. /\ Passed \in Nat /\ N \in Nat /\ F \in Nat /\ F > 0 /\ len \in 0 .. F /\ text_buf \in Buffers
      /\ Oldest <= Passed /\ Oldest \in Nat /\ r = Place(Passed) /\ r \in Node /\ Node = 0 .. N - 1
  BY HeldIs, RingAssumption DEF BufferInv, Positions, Types, Node
<1>3. CASE Longest <= THRESHOLD
  <2>1. PICK b : b = text_buf[r]
    OBVIOUS
  <2>2. b = infile[Passed + 1]
    <3>1. 0 \in 0 .. F - 1 /\ Passed + 0 = Passed /\ Place(Passed) + 0 = r /\ Passed + 0 < Passed + len
      BY <1>1, <1>2
    <3>2. Passed \in Int /\ Passed >= Oldest
      BY <1>2
    <3> QED
      BY <3>1, <3>2, <2>1, CharAt
  <2>3. b \in Byte
    BY <2>1, <1>2, ByteAt
  <2>4. PICK c : c = [pair |-> FALSE, byte |-> b]
    OBVIOUS
  <2>5. c \in Codes /\ c.pair = FALSE /\ c.byte = b
    BY <2>3, <2>4 DEF Codes
  <2>6. codes' = Append(codes, c) /\ i' = 1
    BY <2>1, <2>4, <1>3 DEF Emit
  <2>7. Size(c) = 1 /\ Says(c, Passed)
    BY <2>2, <2>5 DEF Size, Says
  <2> QED
    BY <2>5, <2>6, <2>7
<1>4. CASE ~(Longest <= THRESHOLD)
  <2>1. Longest \in 1 .. F /\ match_length > 0
    BY <1>1, <1>4, LongestIs, RingAssumption
  <2>2. PICK d \in 1 .. Held :
           /\ Ring(r - match_position - 1) = d - 1 /\ (VRAMSafe => d >= 2)
           /\ d <= Passed /\ d <= N - F
           /\ \A n \in 1 .. Longest : infile[Passed + n] = infile[(Passed + n) - d]
    BY <1>1, <2>1, PairIs
  <2>3. d - 1 \in Node /\ d \in Int /\ (d - 1) + 1 = d
    BY <2>2, <1>2, HeldIs
  <2>4. PICK c : c = [pair |-> TRUE, length |-> Longest, disp |-> d - 1]
    OBVIOUS
  <2>5. c \in Codes /\ c.pair = TRUE /\ c.length = Longest /\ c.disp = d - 1
    BY <2>1, <2>3, <2>4 DEF Codes
  <2>6. codes' = Append(codes, c) /\ i' = Longest
    BY <2>2, <2>4, <1>4 DEF Emit
  <2>7. Size(c) = Longest
    BY <2>5 DEF Size
  <2>8. c.disp + 1 = d /\ (VRAMSafe => c.disp >= 1)
    BY <2>2, <2>3, <2>5
  <2>9. Says(c, Passed)
    BY <2>2, <2>5, <2>8 DEF Says
  <2> QED
    BY <2>5, <2>6, <2>7, <2>9
<1> QED
  BY <1>3, <1>4

LEMMA ToldEmit ==
  ASSUME BufferInv, MatchInv, Emit, NEW st, Told(st)
  PROVE  \E st2 : Told(st2)' /\ \A n \in 1 .. Len(codes) + 1 : st2[n] = st[n]
<1>1. PICK c \in Codes : codes' = Append(codes, c) /\ i' = Size(c) /\ Says(c, Passed)
  BY SaidNext
<1>2. /\ UNCHANGED <<infile, VRAMSafe, len, next>> /\ i = 0 /\ Passed \in Nat /\ codes \in Seq(Codes)
  BY HeldIs DEF Emit, filevars, placevars, BufferInv, Types
<1>3. Passed' = Passed
  BY <1>2 DEF Passed
<1>4. PICK u \in Nat : u = Len(codes)
  BY <1>2
<1>5. /\ Len(codes') = u + 1 /\ codes'[u + 1] = c /\ \A n \in 1 .. u : codes'[n] = codes[n]
  BY <1>1, <1>2, <1>4
<1>6. PICK t : t = Passed
  OBVIOUS
<1>7. t \in Nat /\ Size(c) \in 1 .. F /\ F \in Nat
  BY <1>2, <1>6, CodeIs, RingAssumption
<1>8. /\ st \in [1 .. u + 1 -> Nat] /\ st[1] = 0 /\ st[u + 1] = t
      /\ \A n \in 1 .. u + 1 : st[n] <= t
      /\ \A n \in 1 .. u : st[n + 1] = st[n] + Size(codes[n]) /\ Says(codes[n], st[n])
  BY <1>2, <1>4, <1>6, <1>7 DEF Told
<1>9. PICK z : z = t + Size(c)
  OBVIOUS
<1>10. z \in Nat /\ t <= z
  BY <1>7, <1>9
<1>11. PICK st2 : st2 = [n \in 1 .. (u + 1) + 1 |-> IF n = (u + 1) + 1 THEN z ELSE st[n]]
  OBVIOUS
<1>12. /\ st2 \in [1 .. (u + 1) + 1 -> Nat] /\ st2[(u + 1) + 1] = z /\ st2[1] = 0
       /\ \A n \in 1 .. u + 1 : st2[n] = st[n]
  BY <1>8, <1>10, <1>11
<1>17. \A n \in 1 .. (u + 1) + 1 : st2[n] <= z
  <2> SUFFICES ASSUME NEW n \in 1 .. (u + 1) + 1 PROVE st2[n] <= z
    OBVIOUS
  <2>1. CASE n = (u + 1) + 1
    BY <2>1, <1>10, <1>12
  <2>2. CASE n # (u + 1) + 1
    <3>1. n \in 1 .. u + 1
      BY <2>2
    <3>2. st[n] <= t /\ st[n] \in Nat
      BY <3>1, <1>8
    <3> QED
      BY <3>1, <3>2, <1>7, <1>10, <1>12
  <2> QED
    BY <2>1, <2>2
<1>13. ASSUME NEW n \in 1 .. u + 1
       PROVE  st2[n + 1] = st2[n] + Size(codes'[n]) /\ Says(codes'[n], st2[n])
  <2>1. CASE n = u + 1
    BY <2>1, <1>1, <1>5, <1>6, <1>8, <1>9, <1>12
  <2>2. CASE n # u + 1
    <3>1. n \in 1 .. u /\ n + 1 \in 1 .. u + 1 /\ n \in 1 .. u + 1
      BY <2>2
    <3> QED
      BY <3>1, <1>5, <1>8, <1>12
  <2> QED
    BY <2>1, <2>2
<1>14. \A c2, j : Says(c2, j)' <=> Says(c2, j)
  BY <1>2 DEF Says
<1>15. Passed' + i' = z
  <2>1. Passed' = t
    BY <1>3, <1>6
  <2>2. i' = Size(c)
    BY <1>1
  <2> QED
    BY <2>1, <2>2, <1>9
<1>16. Told(st2)'
  <2>1. ASSUME NEW n \in 1 .. u + 1
        PROVE  st2[n + 1] = st2[n] + Size(codes[n])' /\ Says(codes[n], st2[n])'
    <3>1. st2[n + 1] = st2[n] + Size(codes[n])'
      BY <1>13 DEF Size
    <3>2. Says(codes'[n], st2[n])
      BY <1>13
    <3>3. Says(codes[n], st2[n])'
      BY <3>2, <1>2 DEF Says
    <3> QED
      BY <3>1, <3>3
  <2> QED
    BY <2>1, <1>5, <1>12, <1>15, <1>17 DEF Told
<1> QED
  BY <1>4, <1>12, <1>16

-----------------------------------------------------------------------------
(* The decoder, when j bytes of the text are decoded.                      *)
Decoded(j) ==
  /\ at = Place(j) /\ window \in [Node -> Byte]
  /\ \A e \in 1 .. N : e <= j => window[Place(j - e)] = infile[(j - e) + 1]
  /\ outfile \in Seq(Byte) /\ Len(outfile) = least(j, decomp_size)
  /\ \A n \in 1 .. Len(outfile) : outfile[n] = infile[n]

Where(st) ==
  /\ read \in 1 .. Len(codes) + 1 /\ k \in Nat
  /\ read <= Len(codes) => k < Size(codes[read])
  /\ read = Len(codes) + 1 => k = 0
  /\ pc # "decode" => read = 1 /\ k = 0
  /\ Decoded(st[read] + k)

DecodeInv == \E st : Told(st) /\ Where(st)

LEMMA WriteByteIs ==
  ASSUME BufferInv, NEW j \in Nat, j < Len(infile), Decoded(j), WriteByte(infile[j + 1]), infile' = infile
  PROVE  Decoded(j + 1)'
<1>1. infile \in Seq(Byte) /\ N \in Nat /\ F \in Nat /\ SizeModulus \in Nat \ {0}
  BY RingAssumption DEF BufferInv, Types
<1>2. PICK c : c = infile[j + 1]
  OBVIOUS
<1>3. c \in Byte
  BY <1>1, <1>2
<1>4. PICK a \in Node : a = Place(j)
  BY PlaceIs
<1>5. /\ at = a /\ window \in [Node -> Byte]
      /\ window' = [window EXCEPT ![a] = c] /\ at' = Ring(a + 1)
      /\ outfile' = IF Len(outfile) < decomp_size THEN Append(outfile, c) ELSE outfile
  BY <1>2, <1>4 DEF Decoded, WriteByte
<1>6. at' = Place(j + 1)
  BY <1>4, <1>5, PlaceIs
<1>7. window' \in [Node -> Byte] /\ window'[a] = c /\ \A x \in Node \ {a} : window'[x] = window[x]
  BY <1>3, <1>5
<1>8. ASSUME NEW e \in 1 .. N, e <= j + 1
      PROVE  window'[Place((j + 1) - e)] = infile[((j + 1) - e) + 1]
  <2>1. CASE e = 1
    <3>1. (j + 1) - e = j
      BY <2>1
    <3> QED
      BY <3>1, <1>2, <1>4, <1>7
  <2>2. CASE e # 1
    <3>1. PICK d : d = e - 1
      OBVIOUS
    <3>2. d \in 1 .. N /\ d < N /\ d <= j /\ (j + 1) - e = j - d /\ j - d \in Int /\ d \in Int
      BY <2>2, <3>1, <1>1, <1>8
    <3>3. Place(j - d) # a
      <4>1. (j - d) - j < N /\ j - (j - d) < N /\ j - d # j
        BY <3>2, <1>1
      <4> QED
        BY <4>1, <3>2, <1>4, PlaceApart
    <3>4. window[Place(j - d)] = infile[(j - d) + 1]
      BY <3>2 DEF Decoded
    <3>5. Place(j - d) \in Node
      BY <3>2, PlaceIs
    <3> QED
      BY <3>2, <3>3, <3>4, <3>5, <1>7
  <2> QED
    BY <2>1, <2>2
<1>9. PICK u : u = decomp_size
  OBVIOUS
<1>10. u \in Nat
  BY <1>1, <1>9 DEF decomp_size
<1>11. decomp_size' = u
  BY <1>9 DEF decomp_size
<1>12. /\ outfile \in Seq(Byte) /\ Len(outfile) = least(j, u)
       /\ \A n \in 1 .. Len(outfile) : outfile[n] = infile[n]
  BY <1>9 DEF Decoded
<1>13. /\ outfile' \in Seq(Byte) /\ Len(outfile') = least(j + 1, u)
       /\ \A n \in 1 .. Len(outfile') : outfile'[n] = infile[n]
  <2>1. CASE j < u
    <3>1. Len(outfile) = j
      BY <2>1, <1>12 DEF least
    <3>2. outfile' = Append(outfile, c)
      BY <3>1, <2>1, <1>5, <1>9
    <3>3. outfile' \in Seq(Byte) /\ Len(outfile') = j + 1
      BY <3>1, <3>2, <1>3, <1>12
    <3>4. \A n \in 1 .. j + 1 : outfile'[n] = infile[n]
      BY <3>1, <3>2, <1>2, <1>12
    <3> QED
      BY <3>3, <3>4, <2>1, <1>10 DEF least
  <2>2. CASE ~(j < u)
    <3>1. Len(outfile) = u
      BY <2>2, <1>10, <1>12 DEF least
    <3>2. outfile' = outfile
      BY <3>1, <1>5, <1>9, <1>10
    <3>3. least(j + 1, u) = u
      BY <2>2, <1>10 DEF least
    <3> QED
      BY <3>1, <3>2, <3>3, <1>12
  <2> QED
    BY <2>1, <2>2
<1> QED
  BY <1>6, <1>7, <1>8, <1>11, <1>13 DEF Decoded

(* What is told ends where the text ends.                                  *)
LEMMA ToldEnds ==
  ASSUME BufferInv, NEW st, Told(st), pc = "decode"
  PROVE  \A n \in 1 .. Len(codes) + 1 : st[n] <= Len(infile) /\ (n = Len(codes) + 1 => st[n] = Len(infile))
<1>1. /\ i = 0 /\ len = 0 /\ Passed \in Nat /\ Passed <= Len(infile) /\ len = least(F, Len(infile) - Passed)
      /\ infile \in Seq(Byte)
  BY DEF BufferInv, Positions, Types
<1>2. F \in Nat /\ F > 0
  BY RingAssumption
<1>3. PICK t, u \in Nat : t = Passed /\ u = Len(infile)
  BY <1>1
<1>4. t = u
  BY <1>1, <1>2, <1>3 DEF least
<1>5. Passed + i = u
  BY <1>1, <1>3, <1>4
<1> QED
  BY <1>3, <1>5 DEF Told

LEMMA DecodeByteStep ==
  ASSUME BufferInv, DecodeByte, NEW st, Told(st), Where(st)
  PROVE  Where(st)'
<1>1. /\ pc = "decode" /\ read <= Len(codes) /\ ~codes[read].pair /\ WriteByte(codes[read].byte)
      /\ read' = read + 1 /\ UNCHANGED <<infile, VRAMSafe, codes, pc, k>>
  BY DEF DecodeByte, encvars, filevars
<1>2. PICK u \in Nat : u = Len(codes)
  BY DEF BufferInv, Types
<1>3. codes \in Seq(Codes) /\ infile \in Seq(Byte)
  BY DEF BufferInv, Types
<1>4. PICK c : c = codes[read]
  OBVIOUS
<1>5. PICK a : a = read
  OBVIOUS
<1>6. a \in 1 .. u /\ k \in Nat /\ k < Size(c) /\ c.pair = FALSE
  BY <1>1, <1>2, <1>4, <1>5, <1>3, CodeIs DEF Where
<1>7. Size(c) = 1 /\ k = 0
  BY <1>6 DEF Size
<1>8. PICK j : j = st[a]
  OBVIOUS
<1>9. /\ j \in Nat /\ st[a + 1] = j + 1 /\ Says(c, j) /\ st[a + 1] <= Len(infile)
  <2>1. a + 1 \in 1 .. u + 1 /\ a \in 1 .. u + 1
    BY <1>6
  <2>2. /\ st \in [1 .. u + 1 -> Nat]
        /\ \A n \in 1 .. u : st[n + 1] = st[n] + Size(codes[n]) /\ Says(codes[n], st[n])
    BY <1>2 DEF Told
  <2>3. \A n \in 1 .. u + 1 : st[n] <= Len(infile)
    BY <1>1, <1>2, ToldEnds
  <2> QED
    BY <2>1, <2>2, <2>3, <1>4, <1>5, <1>6, <1>7, <1>8
<1>10. c.byte = infile[j + 1]
  BY <1>6, <1>9 DEF Says
<1>11. Decoded(j)
  <2>1. st[read] + k = j
    BY <1>5, <1>7, <1>8, <1>9
  <2> QED
    BY <2>1 DEF Where
<1>12. j < Len(infile)
  <2>1. Len(infile) \in Nat
    BY <1>3
  <2> QED
    BY <2>1, <1>9
<1>13. WriteByte(infile[j + 1])
  BY <1>1, <1>4, <1>10
<1>14. Decoded(j + 1)'
  BY <1>1, <1>9, <1>11, <1>12, <1>13, WriteByteIs
<1>15. read' = a + 1 /\ k' = 0 /\ codes' = codes /\ pc' = "decode"
  BY <1>1, <1>5, <1>7
<1>16. (st[read] + k)' = j + 1
  BY <1>9, <1>15
<1>17. Decoded(st[read] + k)'
  BY <1>14, <1>16
<1>18. a + 1 <= u => 0 < Size(codes[a + 1])
  <2>1. a + 1 <= u => codes[a + 1] \in Codes
    BY <1>2, <1>3, <1>6
  <2> QED
    BY <2>1, CodeIs, RingAssumption
<1> QED
  BY <1>2, <1>6, <1>15, <1>17, <1>18 DEF Where, Size

LEMMA CopyByteStep ==
  ASSUME BufferInv, CopyByte, NEW st, Told(st), Where(st)
  PROVE  Where(st)'
<1>1. /\ pc = "decode" /\ read <= Len(codes) /\ codes[read].pair
      /\ WriteByte(window[Ring(at - codes[read].disp - 1)])
      /\ IF k + 1 = codes[read].length THEN k' = 0 /\ read' = read + 1
                                       ELSE k' = k + 1 /\ UNCHANGED read
      /\ UNCHANGED <<infile, VRAMSafe, codes, pc>>
  BY DEF CopyByte, encvars, filevars
<1>2. PICK u \in Nat : u = Len(codes)
  BY DEF BufferInv, Types
<1>3. codes \in Seq(Codes) /\ infile \in Seq(Byte) /\ N \in Nat /\ F \in Nat /\ F > 0 /\ 2 * F <= N
  BY RingAssumption DEF BufferInv, Types
<1>4. PICK c : c = codes[read]
  OBVIOUS
<1>5. PICK a : a = read
  OBVIOUS
<1>6. a \in 1 .. u /\ k \in Nat /\ k < Size(c) /\ c \in Codes /\ c.pair
  BY <1>1, <1>2, <1>4, <1>5, <1>3 DEF Where
<1>7. PICK g, d : g = c.length /\ d = c.disp + 1
  OBVIOUS
<1>8. Size(c) = g /\ g \in 1 .. F /\ k < g /\ d \in 1 .. N /\ c.disp \in Node /\ Node = 0 .. N - 1
  BY <1>3, <1>6, <1>7, CodeIs DEF Size, Node
<1>9. PICK b : b = st[a]
  OBVIOUS
<1>10. b \in Nat /\ st[a + 1] = b + g /\ Says(c, b) /\ st[a + 1] <= Len(infile)
  <2>1. a + 1 \in 1 .. u + 1 /\ a \in 1 .. u + 1
    BY <1>6
  <2>2. /\ st \in [1 .. u + 1 -> Nat]
        /\ \A n \in 1 .. u : st[n + 1] = st[n] + Size(codes[n]) /\ Says(codes[n], st[n])
    BY <1>2 DEF Told
  <2>3. \A n \in 1 .. u + 1 : st[n] <= Len(infile)
    BY <1>1, <1>2, ToldEnds
  <2> QED
    BY <2>1, <2>2, <2>3, <1>4, <1>5, <1>6, <1>8, <1>9
<1>11. /\ d <= b /\ d <= N - F
       /\ \A n \in 1 .. g : infile[b + n] = infile[(b + n) - d]
  BY <1>6, <1>7, <1>10 DEF Says
<1>12. PICK j : j = b + k
  OBVIOUS
<1>13. j \in Nat /\ j < Len(infile) /\ d <= j /\ d \in Int
  <2>1. Len(infile) \in Nat
    BY <1>3
  <2> QED
    BY <2>1, <1>6, <1>8, <1>10, <1>11, <1>12
<1>14. Decoded(j)
  BY <1>5, <1>9, <1>12 DEF Where
<1>15. window[Ring(at - codes[read].disp - 1)] = infile[j + 1]
  <2>1. PICK x \in Node : x = Place(j)
    BY <1>13, PlaceIs
  <2>2. at - codes[read].disp - 1 = Place(j) + (-d)
    <3>1. at = x /\ x \in Int /\ c.disp \in Int
      BY <2>1, <1>8, <1>14, <1>3 DEF Decoded
    <3> QED
      BY <3>1, <2>1, <1>4, <1>7
  <2>3. Ring(Place(j) + (-d)) = Place(j + (-d)) /\ j + (-d) = j - d
    BY <1>13, PlaceIs
  <2>4. window[Place(j - d)] = infile[(j - d) + 1]
    BY <1>8, <1>13, <1>14 DEF Decoded
  <2>5. k + 1 \in 1 .. g /\ b + (k + 1) = j + 1 /\ (j + 1) - d = (j - d) + 1
    BY <1>6, <1>8, <1>10, <1>12, <1>13
  <2>6. infile[j + 1] = infile[(j - d) + 1]
    BY <2>5, <1>11
  <2> QED
    BY <2>2, <2>3, <2>4, <2>6
<1>16. WriteByte(infile[j + 1])
  BY <1>1, <1>15
<1>17. Decoded(j + 1)'
  BY <1>1, <1>13, <1>14, <1>16, WriteByteIs
<1>18. codes' = codes /\ pc' = "decode" /\ pc = "decode"
  BY <1>1
<1>19. CASE k + 1 = g
  <2>1. read' = a + 1 /\ k' = 0
    BY <1>19, <1>1, <1>4, <1>5, <1>7
  <2>2. (st[read] + k)' = j + 1
    BY <2>1, <1>6, <1>8, <1>10, <1>12, <1>19
  <2>3. Decoded(st[read] + k)'
    BY <2>2, <1>17
  <2>4. a + 1 <= u => 0 < Size(codes[a + 1])
    <3>1. a + 1 <= u => codes[a + 1] \in Codes
      BY <1>2, <1>3, <1>6
    <3> QED
      BY <3>1, CodeIs, RingAssumption
  <2> QED
    BY <2>1, <2>3, <2>4, <1>2, <1>6, <1>18 DEF Where, Size
<1>20. CASE k + 1 # g
  <2>1. read' = a /\ k' = k + 1
    BY <1>20, <1>1, <1>4, <1>5, <1>7
  <2>2. (st[read] + k)' = j + 1
    <3>1. (st[read] + k)' = b + (k + 1)
      BY <2>1, <1>9
    <3> QED
      BY <3>1, <1>6, <1>10, <1>12
  <2>3. Decoded(st[read] + k)'
    BY <2>2, <1>17
  <2>4. k + 1 < Size(c) /\ k + 1 \in Nat
    BY <1>6, <1>8, <1>20
  <2> QED
    BY <2>1, <2>3, <2>4, <1>2, <1>4, <1>5, <1>6, <1>18 DEF Where, Size
<1> QED
  BY <1>19, <1>20

LEMMA DecodeStep ==
  ASSUME BufferInv, MatchInv, DecodeInv, Next
  PROVE  DecodeInv'
<1>1. PICK st : Told(st) /\ Where(st)
  BY DEF DecodeInv
<1>2. ASSUME UNCHANGED <<infile, VRAMSafe, codes, decvars>>, Passed' + i' = Passed + i, pc # "decode"
      PROVE  DecodeInv'
  <2>1. Told(st)'
    BY <1>1, <1>2, ToldSame
  <2>2. UNCHANGED <<window, at, read, k, outfile>>
    BY <1>2 DEF decvars
  <2>3. Decoded(st[read] + k)'
    BY <2>2, <1>1, <1>2 DEF Where, Decoded, decomp_size
  <2>4. Where(st)'
    BY <2>2, <2>3, <1>1, <1>2 DEF Where
  <2> QED
    BY <2>1, <2>4 DEF DecodeInv
<1>3. CASE Begin \/ Attach \/ Descend \/ Finish
  <2>1. UNCHANGED <<infile, VRAMSafe, codes, decvars, next, len, i>> /\ pc # "decode"
    BY <1>3 DEF Begin, Attach, Descend, Finish, filevars, placevars, encvars
  <2> QED
    BY <2>1, <1>2 DEF Passed
<1>4. CASE Pass
  <2>1. UNCHANGED <<infile, VRAMSafe, codes, decvars>> /\ pc # "decode" /\ i' = i - 1
    BY <1>4 DEF Pass, filevars
  <2>2. PICK t \in Nat : t = Passed
    BY HeldIs
  <2>3. Passed' = t + 1 /\ i \in Int
    BY <2>2, <1>4, PassCounts DEF BufferInv, Positions
  <2>4. Passed' + i' = Passed + i
    BY <2>1, <2>2, <2>3
  <2> QED
    BY <2>1, <2>4, <1>2
<1>5. CASE Emit
  <2>1. PICK st2 : Told(st2)' /\ \A n \in 1 .. Len(codes) + 1 : st2[n] = st[n]
    BY <1>1, <1>5, ToldEmit
  <2>2. UNCHANGED <<infile, window, at, read, k, outfile, pc>> /\ pc = "pass"
    BY <1>5 DEF Emit, filevars, decvars
  <2>3. PICK c \in Codes : codes' = Append(codes, c)
    BY <1>5, SaidNext
  <2>4. codes \in Seq(Codes)
    BY DEF BufferInv, Types
  <2>5. read = 1 /\ k = 0 /\ 1 \in 1 .. Len(codes) + 1
    BY <2>2, <2>4, <1>1 DEF Where
  <2>6. Decoded(st2[read] + k)'
    <3>1. st2[1] = st[1]
      BY <2>1, <2>5
    <3>2. Decoded(st2[read] + k)
      BY <3>1, <2>5, <1>1 DEF Where
    <3> QED
      BY <3>2, <2>2 DEF Decoded, decomp_size
  <2>7. codes'[1] \in Codes /\ Len(codes') = Len(codes) + 1
    BY <2>3, <2>4
  <2>8. 0 < Size(codes'[1])
    BY <2>7, CodeIs, RingAssumption
  <2>9. Where(st2)'
    <3>1. Len(codes') \in Nat /\ Len(codes') >= 1
      BY <2>4, <2>7
    <3>2. read' = 1 /\ k' = 0 /\ pc' # "decode" /\ Size(codes[read])' = Size(codes'[1])
      BY <2>2, <2>5 DEF Size
    <3> QED
      BY <3>1, <3>2, <2>6, <2>8 DEF Where
  <2> QED
    BY <2>1, <2>9 DEF DecodeInv
<1>6. CASE DecodeByte \/ CopyByte
  <2>1. Where(st)'
    BY <1>1, <1>6, DecodeByteStep, CopyByteStep
  <2>2. UNCHANGED <<infile, VRAMSafe, codes, next, len, i>>
    BY <1>6 DEF DecodeByte, CopyByte, filevars, encvars, placevars
  <2>3. Told(st)'
    BY <2>2, <1>1, ToldSame DEF Passed
  <2> QED
    BY <2>1, <2>3 DEF DecodeInv
<1> QED
  BY <1>3, <1>4, <1>5, <1>6 DEF Next

LEMMA DecodeInit == Init => DecodeInv
<1> SUFFICES ASSUME Init PROVE DecodeInv
  OBVIOUS
<1>1. PICK st : st = [n \in 1 .. 1 |-> 0]
  OBVIOUS
<1>2. /\ codes = <<>> /\ i = 0 /\ read = 1 /\ k = 0 /\ outfile = <<>> /\ at = N - F
      /\ infile \in Seq(Byte) /\ len = least(F, Len(infile)) /\ next = len + 1
  BY BufferInit DEF Init, BufferInv, Types
<1>3. F \in Nat /\ N \in Nat /\ F > 0 /\ Bytes \in Nat \ {0} /\ SizeModulus \in Nat \ {0}
  BY RingAssumption
<1>4. Passed = 0
  BY <1>2, <1>3 DEF Passed, least
<1>5. Len(codes) = 0 /\ st \in [1 .. 1 -> Nat] /\ st[1] = 0 /\ 1 .. 0 = {}
  BY <1>1, <1>2
<1>6. Told(st)
  <2>1. \A n \in 1 .. 1 : st[n] <= 0
    BY <1>1
  <2> QED
    BY <2>1, <1>2, <1>4, <1>5 DEF Told
<1>7. window \in [Node -> Byte]
  <2>1. PICK stale \in Byte : window = [x \in Node |-> IF x >= r THEN stale ELSE Fill]
    BY DEF Init
  <2>2. Fill \in Byte
    BY <1>3 DEF Fill, Byte
  <2> QED
    BY <2>1, <2>2
<1>8. least(0, decomp_size) = 0
  <2>1. decomp_size \in Nat
    BY <1>2, <1>3 DEF decomp_size
  <2> QED
    BY <2>1 DEF least
<1>9. Decoded(0)
  <2>1. \A e \in 1 .. N : ~(e <= 0)
    BY <1>3
  <2>2. Len(outfile) = 0 /\ outfile \in Seq(Byte)
    BY <1>2
  <2>3. at = Place(0)
    BY <1>2, PlaceIs
  <2>4. \A n \in 1 .. Len(outfile) : outfile[n] = infile[n]
    BY <2>2
  <2>5. Len(outfile) = least(0, decomp_size)
    BY <2>2, <1>8
  <2>6. \A e \in 1 .. N : e <= 0 => window[Place(0 - e)] = infile[(0 - e) + 1]
    BY <2>1
  <2> QED
    BY <2>2, <2>3, <2>4, <2>5, <2>6, <1>7 DEF Decoded
<1>10. Where(st)
  <2>1. st[read] + k = 0
    BY <1>2, <1>5
  <2> QED
    BY <2>1, <1>2, <1>5, <1>9 DEF Where
<1> QED
  BY <1>6, <1>10 DEF DecodeInv

-----------------------------------------------------------------------------
(* What the trees keep: of strings that are alike, the newest.             *)
Kept(buf, d, from, to) ==
  \A j \in from .. to : \E j2 \in j .. to : Place(j2) \in Live(d) /\ Alike(buf, Place(j), Place(j2), F)

KeptInv == len > 0 => Kept(text_buf, dad, Oldest, Newest)

LEMMA KeptGrows ==
  ASSUME NEW buf, NEW d, NEW d2, NEW from \in Int, NEW t \in Int, Kept(buf, d, from, t - 1),
         Place(t) \in Live(d2), \A x \in Live(d) : x \in Live(d2) \/ Alike(buf, Place(t), x, F)
  PROVE  Kept(buf, d2, from, t)
<1> SUFFICES ASSUME NEW j \in from .. t
             PROVE  \E j2 \in j .. t : Place(j2) \in Live(d2) /\ Alike(buf, Place(j), Place(j2), F)
  BY DEF Kept
<1>1. j \in Int /\ t \in j .. t
  OBVIOUS
<1>2. CASE j = t
  <2>1. Alike(buf, Place(j), Place(t), F)
    BY <1>2 DEF Alike
  <2> QED
    BY <2>1, <1>1
<1>3. CASE j # t
  <2>1. j \in from .. t - 1
    BY <1>3
  <2>2. PICK j2 \in j .. t - 1 : Place(j2) \in Live(d) /\ Alike(buf, Place(j), Place(j2), F)
    BY <2>1 DEF Kept
  <2>3. j2 \in j .. t
    BY <2>2
  <2>4. CASE Place(j2) \in Live(d2)
    BY <2>2, <2>3, <2>4
  <2>5. CASE Alike(buf, Place(t), Place(j2), F)
    <3>1. Alike(buf, Place(j), Place(t), F)
      BY <2>2, <2>5 DEF Alike
    <3> QED
      BY <3>1, <1>1
  <2> QED
    BY <2>2, <2>4, <2>5
<1> QED
  BY <1>2, <1>3

LEMMA KeptAttach ==
  ASSUME BufferInv, TreeInv, KeptInv, Attach
  PROVE  KeptInv'
<1>1. /\ pc = "insert" /\ pc' = "pass" /\ text_buf' = text_buf /\ Oldest' = Oldest /\ Passed' = Passed /\ len' = len
  BY AttachIs
<1>2. PICK t \in Nat : t = Passed
  BY HeldIs
<1>3. Newest = t - 1 /\ Newest' = t
  BY <1>1, <1>2 DEF Newest
<1>4. r = Place(t) /\ Oldest \in Int
  BY <1>2, HeldIs DEF BufferInv, Positions
<1>5. Live(dad') = Live(dad) \cup {r}
  BY TreesAttach
<1>6. ASSUME len > 0 PROVE Kept(text_buf, dad', Oldest, t)
  <2>1. Kept(text_buf, dad, Oldest, t - 1)
    BY <1>3, <1>6 DEF KeptInv
  <2> QED
    BY <2>1, <1>2, <1>4, <1>5, KeptGrows
<1> QED
  BY <1>1, <1>3, <1>6 DEF KeptInv

LEMMA KeptReplace ==
  ASSUME BufferInv, TreeInv, KeptInv, Descend, Better(son), Common(son) = F
  PROVE  KeptInv'
<1>1. /\ pc = "insert" /\ son # NIL /\ text_buf' = text_buf /\ Oldest' = Oldest /\ Passed' = Passed /\ len' = len
  BY DescendIs
<1>2. pc' = "pass"
  BY DEF Descend
<1>3. PICK t \in Nat : t = Passed
  BY HeldIs
<1>4. Newest = t - 1 /\ Newest' = t
  BY <1>1, <1>2, <1>3 DEF Newest
<1>5. r = Place(t) /\ Oldest \in Int
  BY <1>3, HeldIs DEF BufferInv, Positions
<1>6. PICK q : q = son
  OBVIOUS
<1>7. Live(dad') = (Live(dad) \ {q}) \cup {r}
  BY <1>6, TreesReplace
<1>8. Alike(text_buf, r, q, F)
  BY <1>1, <1>6, SonTypes, CommonIs
<1>9. ASSUME len > 0 PROVE Kept(text_buf, dad', Oldest, t)
  <2>1. Kept(text_buf, dad, Oldest, t - 1)
    BY <1>4, <1>9 DEF KeptInv
  <2>2. \A x \in Live(dad) : x \in Live(dad') \/ Alike(text_buf, Place(t), x, F)
    BY <1>5, <1>7, <1>8
  <2> QED
    BY <2>1, <2>2, <1>3, <1>5, <1>7, KeptGrows
<1> QED
  BY <1>1, <1>4, <1>9 DEF KeptInv

LEMMA KeptPass ==
  ASSUME BufferInv, TreeInv, KeptInv, Pass
  PROVE  KeptInv'
<1> SUFFICES ASSUME len' > 0 PROVE KeptInv'
  BY DEF KeptInv
<1>1. pc = "pass" /\ pc' = "insert"
  BY DEF Pass
<1>2. PICK t \in Nat : t = Passed
  BY HeldIs
<1>3. Passed' = t + 1 /\ len > 0
  BY <1>2, PassCounts, RingAssumption
<1>4. Newest = t /\ Newest' = t
  BY <1>1, <1>2, <1>3 DEF Newest
<1>5. Live(dad') = Live(dad) \ {s}
  BY TreesPass
<1>6. /\ Oldest' \in Nat /\ Oldest <= Oldest' /\ Oldest \in Nat
      /\ \A j \in Oldest' .. Passed + F - 1 : Place(j) # s
  BY PassPlaces, HeldIs
<1>7. \A j \in Oldest' .. t : \A n \in 0 .. F - 1 : text_buf'[Place(j) + n] = text_buf[Place(j) + n]
  BY <1>2, PassBuffer
<1>8. Kept(text_buf, dad, Oldest, t)
  BY <1>3, <1>4 DEF KeptInv
<1>9. ASSUME NEW j \in Oldest' .. t
      PROVE  \E j2 \in j .. t : Place(j2) \in Live(dad') /\ Alike(text_buf', Place(j), Place(j2), F)
  <2>1. j \in Oldest .. t /\ j \in Int
    BY <1>6, <1>9
  <2>2. PICK j2 \in j .. t : Place(j2) \in Live(dad) /\ Alike(text_buf, Place(j), Place(j2), F)
    BY <2>1, <1>8 DEF Kept
  <2>3. j2 \in Oldest' .. t
    BY <2>1, <2>2, <1>6, <1>9
  <2>4. j2 \in Oldest' .. Passed + F - 1
    BY <2>3, <1>2, <1>6, RingAssumption
  <2>5. Place(j2) \in Live(dad')
    BY <2>2, <2>4, <1>5, <1>6
  <2>6. Alike(text_buf', Place(j), Place(j2), F)
    BY <2>2, <2>3, <1>7, <1>9 DEF Alike
  <2> QED
    BY <2>5, <2>6
<1>10. Kept(text_buf, dad, Oldest, Newest)'
  BY <1>4, <1>9 DEF Kept
<1> QED
  BY <1>10 DEF KeptInv

LEMMA KeptSame ==
  ASSUME KeptInv, UNCHANGED <<text_buf, dad, next, len>>, Newest' = Newest \/ len = 0
  PROVE  KeptInv'
<1>1. Passed' = Passed /\ Held' = Held
  BY DEF Passed, Held
<1>2. Oldest' = Oldest
  BY <1>1 DEF Oldest
<1>3. CASE len = 0
  BY <1>3 DEF KeptInv
<1>4. CASE Newest' = Newest
  <2>1. Kept(text_buf, dad, Oldest, Newest)' <=> Kept(text_buf, dad, Oldest, Newest)
    BY <1>2, <1>4 DEF Kept
  <2> QED
    BY <2>1 DEF KeptInv
<1> QED
  BY <1>3, <1>4

LEMMA KeptStep ==
  ASSUME BufferInv, TreeInv, KeptInv, Next
  PROVE  KeptInv'
<1>1. CASE Begin
  <2>1. UNCHANGED <<text_buf, dad, next, len>> /\ pc = "begin" /\ pc' = "insert"
    BY <1>1 DEF Begin, placevars
  <2>2. Newest' = Newest
    BY <2>1 DEF Newest, Passed
  <2> QED
    BY <2>1, <2>2, KeptSame
<1>2. CASE Attach
  BY <1>2, KeptAttach
<1>3. CASE Descend
  <2>1. CASE Better(son) /\ Common(son) = F
    BY <1>3, <2>1, KeptReplace
  <2>2. CASE ~(Better(son) /\ Common(son) = F)
    <3>1. UNCHANGED <<text_buf, dad, next, len, pc>>
      BY <1>3, <2>2 DEF Descend, treevars, placevars
    <3>2. Newest' = Newest
      BY <3>1 DEF Newest, Passed
    <3> QED
      BY <3>1, <3>2, KeptSame
  <2> QED
    BY <2>1, <2>2
<1>4. CASE Pass
  BY <1>4, KeptPass
<1>5. CASE Emit \/ Finish \/ DecodeByte \/ CopyByte
  <2>1. UNCHANGED <<text_buf, dad, next, len>> /\ (pc' = pc \/ (pc = "pass" /\ pc' = "decode"))
    BY <1>5 DEF Emit, Finish, DecodeByte, CopyByte, encvars, treevars, placevars
  <2>2. Newest' = Newest
    BY <2>1 DEF Newest, Passed
  <2> QED
    BY <2>1, <2>2, KeptSame
<1> QED
  BY <1>1, <1>2, <1>3, <1>4, <1>5 DEF Next

LEMMA KeptInit == Init => KeptInv
<1> SUFFICES ASSUME Init, len > 0 PROVE Kept(text_buf, dad, Oldest, Newest)
  BY DEF KeptInv
<1>1. pc = "begin" /\ next = len + 1
  BY DEF Init
<1>2. BufferInv
  BY BufferInit
<1>3. len \in Nat /\ Oldest \in Nat
  BY <1>2, HeldIs
<1>4. Newest = -1
  BY <1>1, <1>3 DEF Newest, Passed
<1> QED
  BY <1>3, <1>4 DEF Kept

(* The match is as long as any that is still there.                        *)
Best == \A j \in Oldest .. Passed - 1 : text_buf[Place(j)] = text_buf[r] => Common(Place(j)) <= match_length

BestInv == pc = "pass" /\ len > 0 /\ ~VRAMSafe => Best

FirstOf(differing) ==
  IF differing = {} THEN F ELSE CHOOSE n \in differing : \A m2 \in differing : n <= m2

LEMMA CommonIsFirst == \A q : Common(q) = FirstOf({n \in 1 .. F - 1 : text_buf[r + n] # text_buf[q + n]})
BY Zenon DEF Common, FirstOf

LEMMA CommonAlike ==
  ASSUME NEW q, NEW x, Alike(text_buf, q, x, F)
  PROVE  Common(q) = Common(x)
<1>1. \A n \in 1 .. F - 1 : text_buf[q + n] = text_buf[x + n]
  BY RingAssumption DEF Alike
<1>2. {n \in 1 .. F - 1 : text_buf[r + n] # text_buf[q + n]} = {n \in 1 .. F - 1 : text_buf[r + n] # text_buf[x + n]}
  BY <1>1
<1> QED
  BY <1>2, CommonIsFirst, Zenon

LEMMA BestSame ==
  ASSUME BestInv, UNCHANGED <<text_buf, r, next, len, VRAMSafe, match_length>>, pc = "pass"
  PROVE  BestInv'
<1>1. Passed' = Passed /\ Held' = Held
  BY DEF Passed, Held
<1>2. Oldest' = Oldest
  BY <1>1 DEF Oldest
<1>3. \A q : Common(q)' = Common(q)
  BY DEF Common
<1>4. Best' <=> Best
  BY <1>1, <1>2, <1>3 DEF Best
<1> QED
  BY <1>4 DEF BestInv

LEMMA BestAttach ==
  ASSUME BufferInv, TreeInv, KeptInv, Attach, ~VRAMSafe
  PROVE  Best'
<1>1. /\ pc = "insert" /\ son = NIL /\ text_buf' = text_buf /\ r' = r /\ match_length' = match_length
      /\ Oldest' = Oldest /\ Passed' = Passed
  BY AttachIs
<1>2. PICK dp, m, up : TreesAre(dp, m, up)
  BY DEF TreeInv
<1>3. Inserting(dp, m, up)
  BY <1>1, <1>2 DEF Inserting
<1>4. /\ Sought(up) /\ text_buf \in Buffers /\ r \in Node
      /\ Sound(Less(text_buf), lson, rson, dad, dp, m, up)
  BY <1>3, InsertIs
<1>5. Shape(lson, rson, dad) /\ Ranked(dad, dp, m) /\ Lines(dad, up)
  BY <1>4 DEF Sound
<1>6. Newest = Passed - 1 /\ len > 0
  BY <1>1 DEF Newest, BufferInv, Positions
<1>7. Oldest \in Int /\ Passed \in Int
  BY HeldIs
<1>8. ASSUME NEW x \in Live(dad), text_buf[x] = text_buf[r] PROVE Common(x) <= match_length
  <2>1. CASE Common(x) <= match_length
    BY <2>1
  <2>2. CASE p \in up[x] /\ p # x
    <3>1. NIL \notin up[x]
      <4>1. up[x] \subseteq Fathers(dad)
        BY <1>5, UpIs DEF Fathers
      <4> QED
        BY <4>1, Places DEF Fathers, Live
    <3>2. son \notin up[x]
      BY <3>1, <1>1
    <3> QED
      BY <2>2, <3>2, <1>3, <1>8, OtherSide
  <2> QED
    BY <2>1, <2>2, <1>4, <1>8 DEF Sought
<1>9. ASSUME NEW j \in Oldest .. Passed - 1, text_buf[Place(j)] = text_buf[r]
      PROVE  Common(Place(j)) <= match_length
  <2>1. PICK j2 \in j .. Passed - 1 : Place(j2) \in Live(dad) /\ Alike(text_buf, Place(j), Place(j2), F)
    BY <1>6, <1>9 DEF KeptInv, Kept
  <2>2. PICK q, x : q = Place(j) /\ x = Place(j2)
    OBVIOUS
  <2>3. q \in Node /\ x \in Node /\ x \in Live(dad) /\ Alike(text_buf, q, x, F)
    BY <2>1, <2>2, <1>7, <1>9, PlaceIs DEF Live
  <2>4. text_buf[x] = text_buf[q]
    <3>1. q + 0 = q /\ x + 0 = x /\ 0 \in 0 .. F - 1
      BY <2>3, RingAssumption DEF Node
    <3>2. text_buf[q + 0] = text_buf[x + 0]
      BY <2>3, <3>1 DEF Alike
    <3> QED
      BY <3>1, <3>2
  <2>5. Common(x) <= match_length
    BY <2>2, <2>3, <2>4, <1>8, <1>9
  <2>6. Common(q) = Common(x)
    BY <2>3, CommonAlike
  <2> QED
    BY <2>2, <2>5, <2>6
<1>10. \A q : Common(q)' = Common(q)
  BY <1>1 DEF Common
<1> QED
  BY <1>1, <1>9, <1>10 DEF Best

LEMMA BestReplace ==
  ASSUME BufferInv, Descend, Better(son), Common(son) = F
  PROVE  Best'
<1>1. /\ text_buf' = text_buf /\ r' = r /\ match_length' = Common(son)
      /\ Oldest' = Oldest /\ Passed' = Passed
  BY DescendIs
<1>2. text_buf \in Buffers /\ r \in Node /\ F \in Nat /\ Oldest \in Int /\ Passed \in Int
  BY HeldIs, RingAssumption DEF BufferInv, Types
<1>3. ASSUME NEW j \in Oldest .. Passed - 1, text_buf[Place(j)] = text_buf[r]
      PROVE  Common(Place(j)) <= F
  <2>1. PICK q : q = Place(j)
    OBVIOUS
  <2>2. q \in Node
    BY <2>1, <1>2, <1>3, PlaceIs
  <2>3. Common(q) \in 1 .. F
    BY <2>1, <2>2, <1>2, <1>3, CommonIs
  <2> QED
    BY <2>1, <2>3, <1>2
<1>4. \A q : Common(q)' = Common(q)
  BY <1>1 DEF Common
<1> QED
  BY <1>1, <1>3, <1>4 DEF Best

LEMMA BestStep ==
  ASSUME BufferInv, TreeInv, KeptInv, BestInv, Next
  PROVE  BestInv'
<1>1. CASE Begin
  <2>1. pc' = "insert"
    BY <1>1 DEF Begin
  <2> QED
    BY <2>1 DEF BestInv
<1>2. CASE Attach
  <2>1. VRAMSafe' = VRAMSafe
    BY <1>2, AttachIs
  <2> QED
    BY <2>1, <1>2, BestAttach DEF BestInv
<1>3. CASE Descend
  <2>1. CASE Better(son) /\ Common(son) = F
    BY <1>3, <2>1, BestReplace DEF BestInv
  <2>2. CASE ~(Better(son) /\ Common(son) = F)
    <3>1. pc' = "insert"
      BY <1>3, <2>2 DEF Descend
    <3> QED
      BY <3>1 DEF BestInv
  <2> QED
    BY <2>1, <2>2
<1>4. CASE Pass
  <2>1. len' > 0 => pc' = "insert"
    BY <1>4 DEF Pass
  <2> QED
    BY <2>1 DEF BestInv
<1>5. CASE Emit
  <2>1. UNCHANGED <<text_buf, r, next, len, VRAMSafe, match_length>> /\ pc = "pass"
    BY <1>5 DEF Emit, filevars, placevars, walkvars
  <2> QED
    BY <2>1, BestSame
<1>6. CASE Finish \/ DecodeByte \/ CopyByte
  <2>1. pc' = "decode"
    BY <1>6 DEF Finish, DecodeByte, CopyByte
  <2> QED
    BY <2>1 DEF BestInv
<1> QED
  BY <1>1, <1>2, <1>3, <1>4, <1>5, <1>6 DEF Next

LEMMA BestInit == Init => BestInv
BY DEF Init, BestInv

-----------------------------------------------------------------------------
EncInv == BufferInv /\ TreeInv /\ MatchInv /\ DecodeInv /\ KeptInv /\ BestInv

LEMMA Stutters == ASSUME EncInv, UNCHANGED vars PROVE EncInv'
<1>1. /\ UNCHANGED <<infile, VRAMSafe, pc, text_buf, lson, rson, dad, len, s, r, next, p, cmp>>
      /\ UNCHANGED <<match_position, match_length, i, codes, window, at, read, k, outfile>>
  BY DEF vars, filevars, encvars, treevars, placevars, walkvars, decvars
<1>2. Passed' = Passed /\ Held' = Held
  BY <1>1 DEF Passed, Held
<1>3. Oldest' = Oldest /\ Newest' = Newest
  BY <1>1, <1>2 DEF Oldest, Newest
<1>4. BufferInv'
  <2>1. Types'
    BY <1>1 DEF EncInv, BufferInv, Types
  <2>2. Positions'
    BY <1>1, <1>2 DEF EncInv, BufferInv, Positions
  <2>3. Chars(text_buf, Oldest, Passed + len)'
    BY <1>1, <1>2, <1>3 DEF EncInv, BufferInv, Chars
  <2> QED
    BY <2>1, <2>2, <2>3 DEF BufferInv
<1>5. TreeInv'
  <2>1. PICK dp, m, up : TreesAre(dp, m, up)
    BY DEF EncInv, TreeInv
  <2>2. \A x : Common(x)' = Common(x)
    BY <1>1 DEF Common
  <2>3. Sought(up) => Sought(up)'
    BY <1>1, <2>2 DEF Sought
  <2>4. Walk(up) => Walk(up)'
    BY <1>1 DEF Walk
  <2>5. TreesAre(dp, m, up)'
    <3>1. Sound(Less(text_buf), lson, rson, dad, dp, m, up)'
      BY <2>1, <1>1 DEF TreesAre
    <3>2. Rooted(text_buf, dad, up)'
      BY <2>1, <1>1 DEF TreesAre
    <3>3. (Live(dad) \subseteq {Place(j) : j \in Oldest .. Newest})'
      BY <2>1, <1>1, <1>3 DEF TreesAre
    <3>4. (pc = "insert" => Walk(up) /\ Sought(up))'
      BY <2>1, <2>3, <2>4, <1>1 DEF TreesAre
    <3> QED
      BY <3>1, <3>2, <3>3, <3>4 DEF TreesAre
  <2> QED
    BY <2>5 DEF TreeInv
<1>6. MatchInv'
  BY <1>1, <1>2 DEF EncInv, MatchInv, Matches
<1>7. DecodeInv'
  <2>1. PICK st : Told(st) /\ Where(st)
    BY DEF EncInv, DecodeInv
  <2>2. Told(st)'
    BY <2>1, <1>1, <1>2, ToldSame
  <2>3. Decoded(st[read] + k)'
    BY <2>1, <1>1 DEF Where, Decoded, decomp_size
  <2>4. Where(st)'
    BY <2>1, <2>3, <1>1 DEF Where
  <2> QED
    BY <2>2, <2>4 DEF DecodeInv
<1>8. KeptInv'
  BY <1>1, <1>3, KeptSame DEF EncInv
<1>9. BestInv'
  <2>1. CASE pc = "pass"
    BY <2>1, <1>1, BestSame DEF EncInv
  <2>2. CASE pc # "pass"
    BY <2>2, <1>1 DEF BestInv
  <2> QED
    BY <2>1, <2>2
<1> QED
  BY <1>4, <1>5, <1>6, <1>7, <1>8, <1>9 DEF EncInv

LEMMA EncInit == Init => EncInv
BY BufferInit, TreesInit, MatchInit, DecodeInit, KeptInit, BestInit DEF EncInv

LEMMA EncStep == EncInv /\ [Next]_vars => EncInv'
<1> SUFFICES ASSUME EncInv, [Next]_vars PROVE EncInv'
  OBVIOUS
<1>1. CASE Next
  BY <1>1, BufferStep, TreesStep, MatchStep, DecodeStep, KeptStep, BestStep DEF EncInv
<1>2. CASE UNCHANGED vars
  BY <1>2, Stutters
<1> QED
  BY <1>1, <1>2

LEMMA EncHolds == Spec => []EncInv
BY EncInit, EncStep, PTL DEF Spec

LEMMA DecodesNow == EncInv => Decodes
<1> SUFFICES ASSUME EncInv PROVE Decodes
  OBVIOUS
<1>1. PICK st : Told(st) /\ Where(st)
  BY DEF EncInv, DecodeInv
<1>2. /\ infile \in Seq(Byte) /\ codes \in Seq(Codes) /\ Passed \in Nat /\ i \in Nat /\ F \in Nat
      /\ SizeModulus \in Nat \ {0}
  BY RingAssumption DEF EncInv, BufferInv, Types, Positions
<1>3. PICK u \in Nat : u = Len(infile)
  BY <1>2
<1>4. PICK m : m = decomp_size
  OBVIOUS
<1>5. m \in Nat /\ m <= u
  BY <1>2, <1>3, <1>4 DEF decomp_size
<1>6. /\ outfile \in Seq(Byte) /\ Len(outfile) = least(st[read] + k, m)
      /\ \A n \in 1 .. Len(outfile) : outfile[n] = infile[n]
  BY <1>1, <1>4 DEF Where, Decoded
<1>7. PICK w \in Nat : w = Len(outfile)
  BY <1>6
<1>8. w <= m
  BY <1>1, <1>5, <1>6, <1>7, <1>2 DEF least, Where, Told
<1>9. outfile = SubSeq(infile, 1, w)
  <2>1. w <= u /\ w \in 0 .. Len(infile)
    BY <1>3, <1>5, <1>8
  <2>2. Len(SubSeq(infile, 1, w)) = w /\ \A n \in 1 .. w : SubSeq(infile, 1, w)[n] = infile[n]
    BY <2>1, <1>2
  <2>3. SubSeq(infile, 1, w) \in Seq(Byte)
    BY <2>1, <1>2
  <2> QED
    BY <2>2, <2>3, <1>6, <1>7
<1>10. ASSUME pc = "decode", read = Len(codes) + 1 PROVE Len(outfile) = decomp_size
  <2>1. Len(codes) + 1 \in 1 .. Len(codes) + 1
    BY <1>2
  <2>2. st[read] = u /\ k = 0
    BY <2>1, <1>1, <1>3, <1>10, ToldEnds DEF EncInv, Where
  <2>3. least(u + 0, m) = m
    BY <1>3, <1>5 DEF least
  <2> QED
    BY <2>2, <2>3, <1>4, <1>6
<1>11. HalfwordSafe
  <2> SUFFICES ASSUME NEW n \in DOMAIN codes, VRAMSafe, codes[n].pair PROVE codes[n].disp >= 1
    BY DEF HalfwordSafe
  <2>1. n \in 1 .. Len(codes)
    BY <1>2
  <2>2. Says(codes[n], st[n])
    BY <2>1, <1>1 DEF Told
  <2> QED
    BY <2>2 DEF Says
<1> QED
  BY <1>7, <1>9, <1>10, <1>11 DEF Decodes

(***************************************************************************)
(* Decodes, for every text and every ring: what the decoder of gbalzss.c   *)
(* has written at any time is the text the encoder was given, from its     *)
(* start on, and at the end all of it that the header has a size for; no   *)
(* pair of the VRAM safe mode reaches the byte just before.                *)
(***************************************************************************)
THEOREM DecodesCorrect == Spec => []Decodes
BY EncHolds, DecodesNow, PTL

-----------------------------------------------------------------------------
(* Above: the recursion has a solution, and from a node it goes to the     *)
(* root, since there are no more than N nodes on the way.                  *)
Higher(d, C) == C \cup {d[q] : q \in C \cap Live(d)}

AboveEq(d, x, n, f) == f = [n2 \in 0 .. n |-> IF n2 = 0 THEN {x} ELSE Higher(d, f[n2 - 1])]

AboveOf(d, x) == CHOOSE f : AboveEq(d, x, N, f)

LEMMA AboveIsOf == \A x : Above(x) = AboveOf(dad, x)[N]
BY Zenon DEF Above, AboveOf, AboveEq, Higher, InTree, Live

AboveAt(d, x, n, f) ==
  \A n2 \in 0 .. n : f[n2] = IF n2 = 0 THEN {x} ELSE Higher(d, f[n2 - 1])

LEMMA AboveEqAt ==
  ASSUME NEW d, NEW x, NEW n, NEW f, AboveEq(d, x, n, f)
  PROVE  AboveAt(d, x, n, f)
<1>1. PICK g : g = [n3 \in 0 .. n |-> IF n3 = 0 THEN {x} ELSE Higher(d, f[n3 - 1])]
  OBVIOUS
<1>2. g = f
  BY <1>1, Zenon DEF AboveEq
<1>3. \A n2 \in 0 .. n : g[n2] = IF n2 = 0 THEN {x} ELSE Higher(d, f[n2 - 1])
  BY <1>1
<1> QED
  BY <1>2, <1>3 DEF AboveAt

LEMMA AboveExists == \A d, x : \A n \in Nat : \E f : AboveEq(d, x, n, f)
<1> SUFFICES ASSUME NEW d, NEW x PROVE \A n \in Nat : \E f : AboveEq(d, x, n, f)
  OBVIOUS
<1> DEFINE U == {n \in Nat : ~ \E f : AboveEq(d, x, n, f)}
<1> SUFFICES ASSUME U # {} PROVE FALSE
  OBVIOUS
<1>1. U \in SUBSET Nat
  OBVIOUS
<1>2. PICK n \in U : \A n2 \in U : n <= n2
  BY <1>1, Least, Zenon
<1>3. n \in Nat /\ ~ \E f : AboveEq(d, x, n, f)
  OBVIOUS
<1>4. CASE n = 0
  <2>1. PICK f : f = [n2 \in 0 .. 0 |-> {x}]
    OBVIOUS
  <2>2. \A n2 \in 0 .. 0 : {x} = IF n2 = 0 THEN {x} ELSE Higher(d, f[n2 - 1])
    OBVIOUS
  <2>3. AboveEq(d, x, 0, f)
    BY <2>1, <2>2, Zenon DEF AboveEq
  <2> QED
    BY <2>3, <1>3, <1>4
<1>5. CASE n # 0
  <2>1. PICK m : m = n - 1
    OBVIOUS
  <2>2. m \in Nat /\ n = m + 1
    BY <2>1, <1>3, <1>5
  <2>3. m \notin U
    BY <2>2, <1>2, <1>3
  <2>4. PICK f : AboveEq(d, x, m, f)
    BY <2>2, <2>3
  <2>5. PICK g : g = [n2 \in 0 .. n |-> IF n2 = 0 THEN {x} ELSE Higher(d, f[n2 - 1])]
    OBVIOUS
  <2>6. ASSUME NEW n2 \in 0 .. m PROVE g[n2] = f[n2]
    <3>1. n2 \in 0 .. n
      BY <2>2
    <3>2. g[n2] = IF n2 = 0 THEN {x} ELSE Higher(d, f[n2 - 1])
      BY <3>1, <2>5
    <3>3. AboveAt(d, x, m, f)
      BY <2>4, AboveEqAt
    <3> QED
      BY <3>2, <3>3 DEF AboveAt
  <2>7. ASSUME NEW n2 \in 0 .. n
        PROVE  (IF n2 = 0 THEN {x} ELSE Higher(d, f[n2 - 1])) = IF n2 = 0 THEN {x} ELSE Higher(d, g[n2 - 1])
    <3>1. CASE n2 = 0
      BY <3>1
    <3>2. CASE n2 # 0
      <4>1. n2 - 1 \in 0 .. m
        BY <3>2, <2>2
      <4>2. g[n2 - 1] = f[n2 - 1]
        BY <4>1, <2>6
      <4> QED
        BY <4>2
    <3> QED
      BY <3>1, <3>2
  <2>8. g = [n2 \in 0 .. n |-> IF n2 = 0 THEN {x} ELSE Higher(d, g[n2 - 1])]
    BY <2>5, <2>7, Zenon
  <2>9. AboveEq(d, x, n, g)
    BY <2>8, Zenon DEF AboveEq
  <2> QED
    BY <2>9, <1>3
<1> QED
  BY <1>4, <1>5

LEMMA AboveSteps ==
  ASSUME NEW d, NEW x
  PROVE  /\ AboveOf(d, x)[0] = {x}
         /\ \A n \in 1 .. N : AboveOf(d, x)[n] = Higher(d, AboveOf(d, x)[n - 1])
<1>0. N \in Nat
  BY RingAssumption
<1>1. PICK f : f = AboveOf(d, x)
  OBVIOUS
<1>2. AboveEq(d, x, N, f)
  BY <1>0, <1>1, AboveExists, Zenon DEF AboveOf
<1>3. f[0] = {x} /\ \A n \in 1 .. N : f[n] = Higher(d, f[n - 1])
  <2>1. 0 \in 0 .. N /\ \A n \in 1 .. N : n \in 0 .. N /\ n # 0
    BY <1>0
  <2>2. AboveAt(d, x, N, f)
    BY <1>2, AboveEqAt
  <2> QED
    BY <2>1, <2>2 DEF AboveAt
<1> QED
  BY <1>1, <1>3

(* Every set on the way is above x, and has n + 1 nodes or is closed.      *)
Goes(d, up, x, C, n) ==
  /\ C \subseteq up[x] /\ x \in C
  /\ Higher(d, C) = C \/ Cardinality(C \cap Node) >= n + 1

LEMMA GoesHigher ==
  ASSUME NEW l, NEW rr, NEW d, Shape(l, rr, d), NEW dp, NEW m, Ranked(d, dp, m), NEW up, Lines(d, up),
         NEW x \in Live(d), NEW C, NEW n \in Nat, Goes(d, up, x, C, n)
  PROVE  Goes(d, up, x, Higher(d, C), n + 1)
<1>1. \A y \in Fathers(d) : y \in up[y] /\ up[y] \subseteq Fathers(d) /\ \A z \in up[y] : up[z] \subseteq up[y]
  BY UpIs
<1>2. x \in Fathers(d) /\ C \subseteq Fathers(d)
  BY <1>1 DEF Goes, Fathers
<1>3. PICK H : H = Higher(d, C)
  OBVIOUS
<1>4. C \subseteq H /\ x \in H
  BY <1>3 DEF Higher, Goes
<1>5. H \subseteq up[x]
  <2>1. ASSUME NEW q \in C \cap Live(d) PROVE d[q] \in up[x]
    <3>1. q \in up[x] /\ up[q] \subseteq up[x]
      BY <1>1, <1>2, <2>1 DEF Goes
    <3>2. d[q] \in Fathers(d) /\ up[q] = {q} \cup up[d[q]]
      BY DEF Shape, Lines
    <3> QED
      BY <3>1, <3>2, <1>1
  <2> QED
    BY <2>1, <1>3 DEF Higher, Goes
<1>6. CASE H = C
  <2>1. Higher(d, H) = H
    BY <1>3, <1>6
  <2> QED
    BY <2>1, <1>3, <1>4, <1>5 DEF Goes
<1>7. CASE H # C
  <2>1. Cardinality(C \cap Node) >= n + 1
    BY <1>3, <1>7 DEF Goes
  <2>2. CASE H \cap Node = C \cap Node
    <3>1. H \cap Live(d) = C \cap Live(d)
      BY <2>2 DEF Live
    <3>2. Higher(d, H) = H
      BY <3>1, <1>3 DEF Higher
    <3> QED
      BY <3>2, <1>3, <1>4, <1>5 DEF Goes
  <2>3. CASE H \cap Node # C \cap Node
    <3>1. PICK A, B : A = C \cap Node /\ B = H \cap Node
      OBVIOUS
    <3>2. PICK z \in B : z \notin A
      BY <3>1, <2>3, <1>4
    <3>3. A \in SUBSET Node /\ B \in SUBSET Node /\ A \cup {z} \in SUBSET B
      BY <3>1, <3>2, <1>4
    <3>4. IsFiniteSet(Node)
      BY RingAssumption, FS_Interval DEF Node
    <3>5. IsFiniteSet(A) /\ IsFiniteSet(B)
      BY <3>3, <3>4, FS_Subset
    <3>6. Cardinality(A \cup {z}) = Cardinality(A) + 1
      BY <3>2, <3>5, FS_AddElement
    <3>7. Cardinality(A \cup {z}) <= Cardinality(B)
      BY <3>3, <3>5, FS_Subset
    <3>8. Cardinality(A) \in Nat /\ Cardinality(B) \in Nat
      BY <3>5, FS_CardinalityType
    <3>9. Cardinality(B) >= (n + 1) + 1
      BY <3>1, <3>6, <3>7, <3>8, <2>1
    <3> QED
      BY <3>1, <3>9, <1>3, <1>4, <1>5 DEF Goes
  <2> QED
    BY <2>2, <2>3
<1> QED
  BY <1>6, <1>7

LEMMA AboveGoes ==
  ASSUME NEW l, NEW rr, NEW d, Shape(l, rr, d), NEW dp, NEW m, Ranked(d, dp, m), NEW up, Lines(d, up),
         NEW x \in Live(d), NEW f, f[0] = {x}, \A n \in 1 .. N : f[n] = Higher(d, f[n - 1])
  PROVE  \A n \in 0 .. N : Goes(d, up, x, f[n], n)
<1>0. N \in Nat
  BY RingAssumption
<1> DEFINE U == {n \in 0 .. N : ~Goes(d, up, x, f[n], n)}
<1> SUFFICES ASSUME U # {} PROVE FALSE
  OBVIOUS
<1>1. U \in SUBSET Nat
  OBVIOUS
<1>2. PICK n \in U : \A n2 \in U : n <= n2
  BY <1>1, Least, Zenon
<1>3. n \in 0 .. N /\ ~Goes(d, up, x, f[n], n)
  OBVIOUS
<1>4. CASE n = 0
  <2>1. x \in up[x]
    BY UpIs DEF Fathers
  <2>2. {x} \cap Node = {x} \cup {}
    BY DEF Live
  <2>3. Cardinality({x} \cap Node) = 1
    <3>1. Cardinality({} \cup {x}) = IF x \in {} THEN Cardinality({}) ELSE Cardinality({}) + 1
      BY FS_EmptySet, FS_AddElement
    <3>2. {x} \cap Node = {} \cup {x}
      BY <2>2
    <3>3. Cardinality({}) = 0 /\ x \notin {}
      BY FS_EmptySet
    <3>4. Cardinality({} \cup {x}) = 1
      BY <3>1, <3>3
    <3> QED
      BY <3>2, <3>4, Zenon
  <2>4. Goes(d, up, x, {x}, 0)
    BY <2>1, <2>3 DEF Goes
  <2> QED
    BY <2>4, <1>3, <1>4
<1>5. CASE n # 0
  <2>1. PICK n2 : n2 = n - 1
    OBVIOUS
  <2>2. n2 \in Nat /\ n2 \in 0 .. N /\ n \in 1 .. N /\ n = n2 + 1 /\ ~(n <= n2)
    BY <2>1, <1>0, <1>3, <1>5
  <2>3. Goes(d, up, x, f[n2], n2)
    BY <2>2, <1>2
  <2>4. f[n] = Higher(d, f[n2])
    BY <2>1, <2>2
  <2>5. Goes(d, up, x, Higher(d, f[n2]), n2 + 1)
    BY <2>2, <2>3, GoesHigher
  <2> QED
    BY <2>2, <2>4, <2>5, <1>3
<1> QED
  BY <1>4, <1>5

(* A set with the father of each of its nodes has all that is above them.  *)
LEMMA ClosedUp ==
  ASSUME NEW l, NEW rr, NEW d, Shape(l, rr, d), NEW dp, NEW m, Ranked(d, dp, m), NEW up, Lines(d, up),
         NEW C \in SUBSET Fathers(d), Higher(d, C) = C
  PROVE  \A z \in C : up[z] \subseteq C
<1> DEFINE U == {n \in 0 .. m : \E z \in C : dp[z] = n /\ ~(up[z] \subseteq C)}
<1>1. m \in Nat /\ \A z \in C : dp[z] \in 0 .. m
  BY Places DEF Ranked, Fathers, Live
<1> SUFFICES ASSUME NEW z0 \in C, ~(up[z0] \subseteq C) PROVE FALSE
  OBVIOUS
<1>2. U \in SUBSET Nat /\ U # {}
  BY <1>1
<1>3. PICK n \in U : \A n2 \in U : n <= n2
  BY <1>2, Least, Zenon
<1>4. PICK z \in C : dp[z] = n /\ ~(up[z] \subseteq C)
  OBVIOUS
<1>5. CASE z \in Roots
  BY <1>4, <1>5 DEF Lines
<1>6. CASE z \in Live(d)
  <2>1. d[z] \in Higher(d, C)
    BY <1>6 DEF Higher
  <2>2. d[z] \in C /\ dp[d[z]] < dp[z] /\ up[z] = {z} \cup up[d[z]]
    BY <2>1, <1>6 DEF Ranked, Lines
  <2>3. dp[d[z]] \in 0 .. m /\ dp[z] \in 0 .. m
    BY <2>2, <1>1
  <2>4. dp[d[z]] \notin U
    BY <2>2, <2>3, <1>3, <1>4
  <2>5. up[d[z]] \subseteq C
    BY <2>2, <2>3, <2>4
  <2> QED
    BY <2>2, <2>5, <1>4
<1> QED
  BY <1>5, <1>6 DEF Fathers

LEMMA AboveIsUp ==
  ASSUME NEW dp, NEW m, NEW up, Shape(lson, rson, dad), Ranked(dad, dp, m), Lines(dad, up), NEW x \in Live(dad)
  PROVE  Above(x) = up[x]
<1>0. N \in Nat
  BY RingAssumption
<1>1. PICK f : f = AboveOf(dad, x)
  OBVIOUS
<1>2. f[0] = {x} /\ \A n \in 1 .. N : f[n] = Higher(dad, f[n - 1])
  BY <1>1, AboveSteps
<1>3. PICK C : C = f[N]
  OBVIOUS
<1>4. Goes(dad, up, x, C, N)
  BY <1>0, <1>2, <1>3, AboveGoes
<1>5. ~(Cardinality(C \cap Node) >= N + 1)
  <2>1. IsFiniteSet(Node) /\ Cardinality(Node) = N
    <3>1. Cardinality(0 .. N - 1) = IF 0 > N - 1 THEN 0 ELSE (N - 1) - 0 + 1
      BY <1>0, FS_Interval
    <3>2. IsFiniteSet(0 .. N - 1)
      BY <1>0, FS_Interval
    <3> QED
      BY <3>1, <3>2, <1>0 DEF Node
  <2>2. C \cap Node \in SUBSET Node
    OBVIOUS
  <2>3. Cardinality(C \cap Node) <= Cardinality(Node) /\ IsFiniteSet(C \cap Node)
    BY <2>1, <2>2, FS_Subset
  <2>4. Cardinality(C \cap Node) \in Nat
    BY <2>3, FS_CardinalityType
  <2> QED
    BY <2>1, <2>3, <2>4, <1>0
<1>6. Higher(dad, C) = C /\ C \subseteq up[x] /\ x \in C
  BY <1>4, <1>5 DEF Goes
<1>7. C \in SUBSET Fathers(dad)
  BY <1>6, UpIs DEF Fathers
<1>8. up[x] \subseteq C
  BY <1>6, <1>7, ClosedUp
<1>9. Above(x) = C
  BY <1>1, <1>3, AboveIsOf
<1> QED
  BY <1>6, <1>8, <1>9

LEMMA TreesSoundNow == EncInv => TreesSound
<1> SUFFICES ASSUME EncInv, pc = "pass" PROVE TreesSound
  BY DEF TreesSound
<1>1. PICK dp, m, up : TreesAre(dp, m, up)
  BY DEF EncInv, TreeInv
<1>2. /\ Shape(lson, rson, dad) /\ Ranked(dad, dp, m) /\ Lines(dad, up)
      /\ Ordered(Less(text_buf), lson, rson, dad, up) /\ Rooted(text_buf, dad, up)
      /\ Live(dad) \subseteq {Place(j) : j \in Oldest .. Passed}
  BY <1>1 DEF TreesAre, Sound, Newest
<1>3. InTree = Live(dad)
  BY DEF InTree, Live
<1>4. PICK t \in Nat : t = Passed
  BY HeldIs DEF EncInv
<1>5. Held \in Nat /\ Oldest = t - Held /\ r = Place(t) /\ N \in Nat
  BY <1>4, HeldIs, RingAssumption DEF EncInv, BufferInv, Positions, Oldest
<1>6. ASSUME NEW y \in Live(dad) PROVE y \in {Ring(r - d) : d \in 0 .. Held}
  <2>1. PICK j \in Oldest .. Passed : y = Place(j)
    BY <1>2
  <2>2. PICK d : d = t - j
    OBVIOUS
  <2>3. d \in 0 .. Held /\ j = t + (-d) /\ -d \in Int
    BY <2>1, <2>2, <1>4, <1>5
  <2>4. Ring(Place(t) + (-d)) = Place(t + (-d))
    BY <2>3, PlaceIs
  <2>5. Place(t) + (-d) = Place(t) - d
    <3>1. Place(t) \in Node /\ Node = 0 .. N - 1 /\ d \in Int
      BY <2>3, PlaceIs DEF Node
    <3> QED
      BY <3>1, <1>5
  <2> QED
    BY <2>1, <2>3, <2>4, <2>5, <1>5
<1>7. ASSUME NEW y \in Live(dad)
      PROVE  /\ y = rson[dad[y]] \/ (dad[y] < N /\ y = lson[dad[y]])
             /\ Root(text_buf[y]) \in Above(y)
             /\ \A x \in (Live(dad) \cap Above(y)) \ {y} :
                  /\ lson[x] \in Above(y) => ~Smaller(x, y)
                  /\ rson[x] \in Above(y) => ~Smaller(y, x)
  <2>1. Above(y) = up[y]
    BY <1>2, AboveIsUp
  <2>2. y = rson[dad[y]] \/ (dad[y] < N /\ y = lson[dad[y]])
    <3>1. IsSon(lson, rson, dad, y)
      BY <1>2 DEF Shape
    <3>2. CASE rson[dad[y]] = y
      BY <3>2
    <3>3. CASE dad[y] \in Node /\ lson[dad[y]] = y
      BY <3>3, <1>5 DEF Node
    <3> QED
      BY <3>1, <3>2, <3>3 DEF IsSon
  <2>3. Root(text_buf[y]) \in up[y]
    BY <1>2 DEF Rooted
  <2>4. ASSUME NEW x \in (Live(dad) \cap up[y]) \ {y}
        PROVE  (lson[x] \in up[y] => ~Smaller(x, y)) /\ (rson[x] \in up[y] => ~Smaller(y, x))
    <3>1. x \in Node /\ y \in Node
      BY DEF Live
    <3>2. /\ lson[x] \in up[y] => <<x, y>> \notin Less(text_buf)
          /\ rson[x] \in up[y] => <<y, x>> \notin Less(text_buf)
      BY <1>2 DEF Ordered
    <3>3. Smaller(x, y) <=> Before(text_buf, x, y)
      BY DEF Smaller, Before
    <3>4. Smaller(y, x) <=> Before(text_buf, y, x)
      BY DEF Smaller, Before
    <3> QED
      BY <3>1, <3>2, <3>3, <3>4, LessIs
  <2> QED
    BY <2>1, <2>2, <2>3, <2>4
<1> QED
  BY <1>3, <1>6, <1>7 DEF TreesSound

(***************************************************************************)
(* TreesSound, for every text and every ring: between two insertions each  *)
(* node of the trees of gbalzss.c is a string the ring still holds and a   *)
(* son of its father, goes up to the root of its first byte, and is not    *)
(* less or greater than the nodes above it allow, whatever has been        *)
(* deleted or replaced since it was inserted.                              *)
(***************************************************************************)
THEOREM TreesSoundCorrect == Spec => []TreesSound
BY EncHolds, TreesSoundNow, PTL

LEMMA FindsNow == EncInv => FindsLongest
<1> SUFFICES ASSUME EncInv, pc = "pass", len > 0, ~VRAMSafe, NEW d \in 1 .. Held,
                    text_buf[Ring(r - d)] = text_buf[r]
             PROVE  match_length >= Common(Ring(r - d))
  BY DEF FindsLongest
<1>1. Best
  BY DEF EncInv, BestInv
<1>2. PICK t \in Nat : t = Passed
  BY HeldIs DEF EncInv
<1>3. /\ Held \in Nat /\ Oldest = t - Held /\ r = Place(t) /\ N \in Nat /\ r \in Node /\ Node = 0 .. N - 1
      /\ text_buf \in Buffers /\ match_length \in 0 .. F
  BY <1>2, HeldIs, RingAssumption DEF EncInv, BufferInv, Positions, Types, Oldest, Node
<1>4. PICK j : j = t - d
  OBVIOUS
<1>5. j \in Oldest .. Passed - 1 /\ j = t + (-d) /\ -d \in Int /\ r - d = r + (-d)
  BY <1>2, <1>3, <1>4
<1>6. Ring(r - d) = Place(j)
  BY <1>3, <1>5, PlaceIs
<1>7. PICK c : c = Common(Place(j))
  OBVIOUS
<1>8. c <= match_length
  BY <1>1, <1>5, <1>6, <1>7 DEF Best
<1>9. c \in 1 .. F
  <2>1. Place(j) \in Node
    BY <1>2, <1>4, PlaceIs
  <2> QED
    BY <2>1, <1>3, <1>6, <1>7, CommonIs
<1> QED
  BY <1>3, <1>6, <1>7, <1>8, <1>9, RingAssumption

(***************************************************************************)
(* FindsLongest, for every text and every ring: unless pairs are to be     *)
(* VRAM safe, the match InsertNode of gbalzss.c finds on its one way down  *)
(* a tree is as long as that with any string of the ring, those included   *)
(* that the trees have no node of any more.                                *)
(***************************************************************************)
THEOREM FindsLongestCorrect == Spec => []FindsLongest
BY EncHolds, FindsNow, PTL

=============================================================================
