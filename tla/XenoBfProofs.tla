----------------------------- MODULE XenoBfProofs ---------------------------
(***************************************************************************)
(* Proofs about xenobf: for every text, the search for a closing bracket   *)
(* stays in the program, and in plain mode the calls of execute run the    *)
(* flat program of Brainfuck.                                              *)
(*                                                                         *)
(* The argument: where execute or a search is, as many brackets are open   *)
(* as there are calls and brackets the search has still to close; and none *)
(* of the calls has ever been where fewer were open than when it began.    *)
(***************************************************************************)
EXTENDS XenoBf, SequenceTheorems, WellFoundedInduction, TLAPS

(* A set of numbers has a least one.                                       *)
LEMMA Least == ASSUME NEW T \in SUBSET Nat, T # {} PROVE \E x \in T : \A y \in T : x <= y
<1>1. \E x \in T : \A y \in T : ~ (<<y, x>> \in OpToRel(<, Nat))
  BY WFMin, NatLessThanWellFounded
<1>2. \E x \in T : \A y \in T : ~ (y < x)
  BY <1>1, Zenon DEF OpToRel
<1> QED
  BY <1>2

(* A function that says what n steps from a base come to.                  *)
IteratesTo(f, base, step, m) ==
  f[0] = base /\ \A k \in 1 .. m : f[k] = step[<<f[k - 1], k>>]

LEMMA Iterates ==
  ASSUME NEW S, NEW base \in S, NEW n \in Nat, NEW step \in [S \X (1 .. n) -> S]
  PROVE  \E f \in [0 .. n -> S] : IteratesTo(f, base, step, n)
<1> DEFINE T == {m \in 0 .. n : ~\E f \in [0 .. m -> S] : IteratesTo(f, base, step, m)}
<1> SUFFICES ASSUME T # {} PROVE FALSE
  OBVIOUS
<1>0. T \in SUBSET Nat
  OBVIOUS
<1>1. PICK m \in T : \A y \in T : m <= y
  BY <1>0, Least
<1>2. \E f \in [0 .. 0 -> S] : IteratesTo(f, base, step, 0)
  <2> DEFINE f == [k \in 0 .. 0 |-> base]
  <2>1. f \in [0 .. 0 -> S] /\ f[0] = base
    OBVIOUS
  <2>2. IteratesTo(f, base, step, 0)
    BY <2>1 DEF IteratesTo
  <2> QED
    BY <2>1, <2>2
<1>3. m \in 1 .. n
  <2>1. 0 \notin T
    BY <1>2
  <2>2. m \in 0 .. n /\ m \in T
    BY <1>1
  <2> HIDE DEF T
  <2> QED
    BY <2>1, <2>2
<1>4. m - 1 \in 0 .. n /\ m - 1 \notin T
  BY <1>1, <1>3
<1>5. PICK f \in [0 .. m - 1 -> S] : IteratesTo(f, base, step, m - 1)
  BY <1>4
<1> DEFINE g == [k \in 0 .. m |-> IF k = m THEN step[<<f[m - 1], m>>] ELSE f[k]]
<1>6. step[<<f[m - 1], m>>] \in S
  BY <1>3, <1>5
<1>7. g \in [0 .. m -> S]
  BY <1>3, <1>5, <1>6
<1>8. ASSUME NEW k \in 1 .. m PROVE g[k] = step[<<g[k - 1], k>>]
  <2>1. k - 1 \in 0 .. m - 1 /\ k \in 0 .. m /\ k - 1 \in 0 .. m /\ k - 1 # m
    BY <1>3
  <2>2. g[k - 1] = f[k - 1]
    BY <2>1
  <2>3. CASE k = m
    BY <2>1, <2>2, <2>3
  <2>4. CASE k # m
    <3>1. k \in 1 .. m - 1
      BY <1>3, <2>4
    <3> QED
      BY <2>1, <2>2, <2>4, <3>1, <1>5 DEF IteratesTo
  <2> QED
    BY <2>3, <2>4
<1>9. g[0] = base
  BY <1>3, <1>5 DEF IteratesTo
<1>10. IteratesTo(g, base, step, m)
  BY <1>8, <1>9 DEF IteratesTo
<1> QED
  BY <1>1, <1>7, <1>10

-----------------------------------------------------------------------------
Chars == STRING

(* How many brackets are open behind each command of a program.            *)
Weight(char) == Machine!Weight(char)

Levels(q) ==
  {d \in [0 .. Len(q) -> Int] :
     d[0] = 0 /\ \A k \in 1 .. Len(q) : d[k] = d[k - 1] + Weight(q[k])}

Level(q) == CHOOSE d \in Levels(q) : TRUE

LEMMA WeightIs ==
  ASSUME NEW char
  PROVE  /\ Weight(char) \in {-1, 0, 1}
         /\ Weight(char) = -1 <=> char = "]"
         /\ Weight(char) = 1 <=> char = "["
BY DEF Weight, Machine!Weight

LEMMA LevelsExist == ASSUME NEW q \in Seq(Chars) PROVE Levels(q) # {}
<1> DEFINE n == Len(q)
<1> DEFINE step == [z \in Int \X (1 .. n) |-> z[1] + Weight(q[z[2]])]
<1>1. n \in Nat
  OBVIOUS
<1>2. step \in [Int \X (1 .. n) -> Int]
  BY WeightIs
<1> HIDE DEF step
<1>3. PICK f \in [0 .. n -> Int] : IteratesTo(f, 0, step, n)
  <2>1. 0 \in Int
    OBVIOUS
  <2> QED
    BY <1>1, <1>2, <2>1, Iterates, Zenon
<1>4. ASSUME NEW k \in 1 .. n PROVE f[k] = f[k - 1] + Weight(q[k])
  <2>1. <<f[k - 1], k>> \in Int \X (1 .. n)
    BY <1>1
  <2> QED
    BY <1>3, <2>1 DEF step, IteratesTo
<1> QED
  BY <1>3, <1>4 DEF Levels, IteratesTo

LEMMA LevelIs ==
  ASSUME NEW q \in Seq(Chars)
  PROVE  /\ Level(q) \in [0 .. Len(q) -> Int] /\ Level(q)[0] = 0
         /\ \A k \in 1 .. Len(q) : Level(q)[k] = Level(q)[k - 1] + Weight(q[k])
BY LevelsExist DEF Level, Levels

LEMMA LevelStep ==
  ASSUME NEW q \in Seq(Chars), NEW k \in Nat, k < Len(q)
  PROVE  Level(q)[k + 1] = Level(q)[k] + Weight(q[k + 1]) /\ Level(q)[k] \in Int
<1>1. k + 1 \in 1 .. Len(q) /\ k \in 0 .. Len(q) /\ k + 1 - 1 = k
  OBVIOUS
<1>2. Level(q)[k + 1] = Level(q)[k + 1 - 1] + Weight(q[k + 1])
  BY <1>1, LevelIs
<1> QED
  BY <1>1, <1>2, LevelIs

LEMMA LevelsAgree ==
  ASSUME NEW q \in Seq(Chars), NEW r \in Seq(Chars), NEW d \in Levels(q), NEW e \in Levels(r),
         NEW n \in Nat, n <= Len(q), n <= Len(r), \A k \in 1 .. n : q[k] = r[k]
  PROVE  \A k \in 0 .. n : d[k] = e[k]
<1> DEFINE T == {k \in 0 .. n : d[k] # e[k]}
<1> SUFFICES ASSUME T # {} PROVE FALSE
  OBVIOUS
<1>0. T \in SUBSET Nat
  OBVIOUS
<1>1. PICK m \in T : \A y \in T : m <= y
  BY <1>0, Least
<1>2. m # 0
  BY DEF Levels
<1>3. m - 1 \in 0 .. n /\ m - 1 \notin T /\ m \in 1 .. Len(q) /\ m \in 1 .. Len(r) /\ m \in 1 .. n
  BY <1>1, <1>2
<1>4. d[m] = d[m - 1] + Weight(q[m]) /\ e[m] = e[m - 1] + Weight(r[m])
  BY <1>3 DEF Levels
<1> QED
  BY <1>3, <1>4

LEMMA LevelOnly ==
  ASSUME NEW q \in Seq(Chars), NEW d \in Levels(q)
  PROVE  d = Level(q)
<1>1. Level(q) \in Levels(q)
  BY LevelsExist DEF Level
<1>2. \A k \in 0 .. Len(q) : d[k] = Level(q)[k]
  BY <1>1, LevelsAgree
<1> QED
  BY <1>1, <1>2 DEF Levels

LEMMA LevelAppend ==
  ASSUME NEW q \in Seq(Chars), NEW char \in Chars
  PROVE  /\ \A k \in 0 .. Len(q) : Level(Append(q, char))[k] = Level(q)[k]
         /\ Level(Append(q, char))[Len(q) + 1] = Level(q)[Len(q)] + Weight(char)
<1> DEFINE w == Append(q, char)
<1>1. w \in Seq(Chars) /\ Len(w) = Len(q) + 1 /\ (\A k \in 1 .. Len(q) : w[k] = q[k])
      /\ w[Len(q) + 1] = char
  OBVIOUS
<1> HIDE DEF w
<1>2. Level(w) \in Levels(w) /\ Level(q) \in Levels(q)
  BY <1>1, LevelsExist DEF Level
<1>3. \A k \in 0 .. Len(q) : Level(w)[k] = Level(q)[k]
  BY <1>1, <1>2, LevelsAgree
<1>4. Level(w)[Len(q) + 1] = Level(w)[Len(q)] + Weight(char)
  BY <1>1, LevelIs
<1> QED
  BY <1>3, <1>4 DEF w

-----------------------------------------------------------------------------
(* The inductive invariant: what has been read,                            *)
OneCall == <<[x |-> 0, i |-> 0]>>

LEMMA OneCallIs == /\ OneCall \in Seq([x : Nat, i : Nat]) /\ Len(OneCall) = 1
                   /\ OneCall[1].x = 0 /\ OneCall[1].i = 0
<1>1. [x |-> 0, i |-> 0] \in [x : Nat, i : Nat]
  OBVIOUS
<1>2. OneCall = <<[x |-> 0, i |-> 0]>> /\ OneCall[1] = [x |-> 0, i |-> 0]
  BY DEF OneCall
<1>3. OneCall \in Seq([x : Nat, i : Nat]) /\ Len(OneCall) = 1
  BY <1>1, <1>2
<1> QED
  BY <1>2, <1>3

Open_ == Level(p)[Len(p)]

ReadInv ==
  /\ source \in Seq(Chars) /\ p \in Seq(Chars) /\ braincrash \in BOOLEAN
  /\ read \in 1 .. Len(source) + 1 /\ comment \in BOOLEAN
  /\ Len(p) <= read - 1
  /\ \A k \in 1 .. Len(p) : p[k] \in Plain \/ (braincrash /\ p[k] \in Operations)
  /\ i = Open_
  /\ stage = "read" => frames = OneCall /\ marker = 0
  /\ stage # "read" => read = Len(source) + 1
  /\ stage \notin {"read", "error"} => i = 0

(* and the calls of execute, each of which begins where the one before is. *)
PlaceOf(n) == frames[n].x + frames[n].i

FrameInv(n) ==
  /\ PlaceOf(n) <= Len(p)
  /\ Level(p)[PlaceOf(n)] = n - 1 + (IF n < Len(frames) THEN 1 ELSE marker)
  /\ \A k \in frames[n].x .. PlaceOf(n) : Level(p)[k] >= n - 1

CallsInv ==
  /\ frames \in Seq([x : Nat, i : Nat]) /\ Len(frames) >= 1 /\ marker \in Nat
  /\ frames[1].x = 0
  /\ \A n \in 1 .. Len(frames) - 1 :
       /\ frames[n + 1].x = PlaceOf(n)
       /\ PlaceOf(n) >= 1 /\ p[PlaceOf(n)] = "["
  /\ \A n \in 1 .. Len(frames) : FrameInv(n)

Inv == ReadInv /\ CallsInv /\ stage # "lost"

LEMMA InitInv == Init => Inv
<1> SUFFICES ASSUME Init PROVE Inv
  OBVIOUS
<1>1. p = <<>> /\ p \in Seq(Chars) /\ Len(p) = 0
  BY DEF Init
<1>2. Level(p)[0] = 0
  BY <1>1, LevelIs
<1>3. source \in Seq(Chars)
  BY TextsAssumption DEF Init, Chars
<1>4. frames = OneCall /\ marker = 0 /\ i = 0 /\ read = 1 /\ stage = "read" /\ comment = FALSE
      /\ braincrash \in BOOLEAN
  BY DEF Init, OneCall
<1>8. Len(source) \in Nat
  BY <1>3
<1>9. ReadInv
  <2>1. read \in 1 .. Len(source) + 1 /\ Len(p) <= read - 1
    BY <1>1, <1>4, <1>8
  <2>4. comment \in BOOLEAN
    BY <1>4
  <2>2. i = Open_
    BY <1>1, <1>2, <1>4 DEF Open_
  <2>3. \A k \in 1 .. Len(p) : p[k] \in Plain \/ (braincrash /\ p[k] \in Operations)
    BY <1>1
  <2> QED
    BY <1>1, <1>3, <1>4, <2>1, <2>2, <2>3, <2>4 DEF ReadInv
<1>5. /\ frames \in Seq([x : Nat, i : Nat]) /\ Len(frames) = 1
      /\ frames[1].x = 0 /\ frames[1].i = 0 /\ marker = 0
  BY <1>4, OneCallIs
<1>6. \A n \in 1 .. Len(frames) : FrameInv(n)
  BY <1>1, <1>2, <1>5 DEF FrameInv, PlaceOf
<1>7. CallsInv
  BY <1>5, <1>6 DEF CallsInv
<1> QED
  BY <1>4, <1>9, <1>7 DEF Inv

LEMMA ReadCharInv == ASSUME Inv, ReadChar PROVE Inv'
<1> USE DEF Inv
<1>1. /\ source' = source /\ braincrash' = braincrash /\ frames' = frames /\ marker' = marker
      /\ stage' = stage /\ read' = read + 1 /\ stage = "read" /\ read <= Len(source)
      /\ comment' \in BOOLEAN
  BY DEF ReadChar, filevars, runvars
<1>2. source[read] \in Chars /\ read \in 1 .. Len(source)
  BY <1>1 DEF ReadInv
<1>3. /\ frames \in Seq([x : Nat, i : Nat]) /\ Len(frames) = 1
      /\ frames[1].x = 0 /\ frames[1].i = 0 /\ marker = 0
  BY <1>1, OneCallIs DEF ReadInv
<1>4. p' \in Seq(Chars) /\ Len(p') <= read /\ i' = Level(p')[Len(p')] /\ Level(p')[0] = 0
      /\ \A k \in 1 .. Len(p') : p'[k] \in Plain \/ (braincrash' /\ p'[k] \in Operations)
  <2>1. CASE Keeps
    <3>1. p' = Append(p, c) /\ c \in Chars /\ p \in Seq(Chars)
      <4>1. p' = Append(p, c)
        BY <2>1 DEF ReadChar
      <4> QED
        BY <1>2, <4>1 DEF c, ReadInv
    <3>2. i' = i + Weight(c)
      <4>1. i \in Int
        <5>1. p \in Seq(Chars) /\ Len(p) \in 0 .. Len(p) /\ i = Level(p)[Len(p)]
          BY DEF ReadInv, Open_
        <5> QED
          BY <5>1, LevelIs
      <4>2. i' = IF c = "[" THEN i + 1 ELSE IF c = "]" THEN i - 1 ELSE i
        BY <2>1 DEF ReadChar
      <4>3. CASE c = "["
        BY <4>1, <4>2, <4>3, WeightIs
      <4>4. CASE c = "]"
        BY <4>1, <4>2, <4>4, WeightIs
      <4>5. CASE c # "[" /\ c # "]"
        <5>1. Weight(c) = 0
          BY <4>5, WeightIs
        <5> QED
          BY <4>1, <4>2, <4>5, <5>1
      <4> QED
        BY <4>3, <4>4, <4>5
    <3>3. /\ Len(p') = Len(p) + 1 /\ p' \in Seq(Chars)
          /\ (\A k \in 1 .. Len(p) : p'[k] = p[k]) /\ p'[Len(p) + 1] = c
      BY <3>1
    <3>4. c \in Plain \/ (braincrash /\ c \in Operations)
      BY <2>1 DEF Keeps
    <3>5. Level(p')[Len(p')] = Level(p)[Len(p)] + Weight(c)
      BY <3>1, <3>3, LevelAppend
    <3>6. Level(p')[0] = 0
      BY <3>3, LevelIs
    <3> QED
      BY <1>1, <3>2, <3>3, <3>4, <3>5, <3>6 DEF ReadInv, Open_
  <2>2. CASE ~Keeps
    <3>1. p' = p /\ i' = i
      BY <2>2 DEF ReadChar
    <3>2. Level(p)[0] = 0
      BY LevelIs DEF ReadInv
    <3> QED
      BY <1>1, <3>1, <3>2 DEF ReadInv, Open_
  <2> QED
    BY <2>1, <2>2
<1>5. ReadInv'
  BY <1>1, <1>2, <1>4 DEF ReadInv, Open_
<1>6. \A n \in 1 .. Len(frames') : FrameInv(n)'
  BY <1>1, <1>3, <1>4 DEF FrameInv, PlaceOf
<1>7. CallsInv'
  BY <1>1, <1>3, <1>6 DEF CallsInv
<1> QED
  BY <1>1, <1>5, <1>7

(* What the steps of a run have in common.                                 *)
LEMMA RunRead ==
  ASSUME Inv, UNCHANGED filevars, UNCHANGED loadvars, stage \notin {"read", "error"},
         stage' \notin {"read", "error"}
  PROVE  ReadInv'
BY DEF Inv, ReadInv, Open_, filevars, loadvars

(* Where the innermost call is, and that it is at a command.               *)
LEMMA TopIs ==
  ASSUME Inv
  PROVE  /\ top = frames[Len(frames)] /\ Position = PlaceOf(Len(frames)) /\ Position \in 0 .. Len(p)
         /\ Len(frames) \in Nat /\ Len(frames) >= 1 /\ Len(p) \in Nat
         /\ Level(p)[Position] = Len(frames) - 1 + marker
         /\ \A char : Fetched = char /\ char \notin {"end", "unknown"}
              => Position < Len(p) /\ p[Position + 1] = char
<1>1. Len(frames) \in 1 .. Len(frames) /\ Len(frames) \in Nat /\ Len(p) \in Nat
  BY DEF Inv, CallsInv, ReadInv
<1>2. top = frames[Len(frames)] /\ Position = PlaceOf(Len(frames))
  BY Zenon DEF top, Last, Position, PlaceOf
<1>3. FrameInv(Len(frames)) /\ frames[Len(frames)].x \in Nat /\ frames[Len(frames)].i \in Nat
  <2>1. \A n \in 1 .. Len(frames) : FrameInv(n)
    BY DEF Inv, CallsInv
  <2>2. frames \in Seq([x : Nat, i : Nat])
    BY DEF Inv, CallsInv
  <2>3. frames[Len(frames)] \in [x : Nat, i : Nat]
    BY <1>1, <2>2, ElementOfSeq
  <2> QED
    BY <1>1, <2>1, <2>3
<1> QED
  BY <1>1, <1>2, <1>3 DEF FrameInv, Fetched, PlaceOf

(* Calls: what a step does to the innermost one.                           *)
CallSet == [x : Nat, i : Nat]

LEMMA CallTypes ==
  ASSUME Inv
  PROVE  /\ frames \in Seq(CallSet) /\ Len(frames) \in Nat /\ Len(frames) >= 1
         /\ \A n \in 1 .. Len(frames) : frames[n] \in CallSet
         /\ \A n \in 1 .. Len(frames) : frames[n].x \in Nat /\ frames[n].i \in Nat
<1>1. frames \in Seq(CallSet) /\ Len(frames) \in Nat /\ Len(frames) >= 1
  BY DEF Inv, CallsInv, CallSet
<1>2. \A n \in 1 .. Len(frames) : frames[n] \in CallSet
  BY <1>1, ElementOfSeq
<1> QED
  BY <1>1, <1>2 DEF CallSet

LEMMA AdvancedIs ==
  ASSUME Inv
  PROVE  /\ Advanced(frames) \in Seq(CallSet) /\ Len(Advanced(frames)) = Len(frames)
         /\ \A n \in 1 .. Len(frames) - 1 : Advanced(frames)[n] = frames[n]
         /\ Advanced(frames)[Len(frames)].x = frames[Len(frames)].x
         /\ Advanced(frames)[Len(frames)].i = frames[Len(frames)].i + 1
<1> DEFINE z == Len(frames)
<1> DEFINE e == [frames[z] EXCEPT !.i = @ + 1]
<1>1. z \in 1 .. Len(frames) /\ z \in Nat
  BY CallTypes
<1>2. frames[z] \in CallSet
  BY <1>1, CallTypes
<1>3. e \in CallSet /\ e.x = frames[z].x /\ e.i = frames[z].i + 1
  BY <1>2 DEF CallSet
<1>4. Advanced(frames) = [frames EXCEPT ![z] = e]
  BY DEF Advanced
<1> HIDE DEF e, z
<1>5. /\ [frames EXCEPT ![z] = e] \in Seq(CallSet)
      /\ Len([frames EXCEPT ![z] = e]) = Len(frames)
      /\ \A j \in 1 .. Len(frames) : [frames EXCEPT ![z] = e][j] = IF j = z THEN e ELSE frames[j]
  BY <1>1, <1>3, CallTypes, ExceptSeq
<1>6. \A n \in 1 .. Len(frames) - 1 : n \in 1 .. Len(frames) /\ n # Len(frames)
  BY CallTypes
<1> QED
  BY <1>1, <1>3, <1>4, <1>5, <1>6 DEF z

LEMMA CallAt ==
  ASSUME Inv, NEW n \in 1 .. Len(frames)
  PROVE  FrameInv(n)
BY DEF Inv, CallsInv

LEMMA CallChain ==
  ASSUME Inv, NEW n \in 1 .. Len(frames) - 1
  PROVE  frames[n + 1].x = PlaceOf(n) /\ PlaceOf(n) >= 1 /\ p[PlaceOf(n)] = "["
BY DEF Inv, CallsInv

LEMMA CallStart ==
  ASSUME Inv
  PROVE  top.x \in 0 .. Position /\ Level(p)[top.x] = Len(frames) - 1
<1>1. top = frames[Len(frames)] /\ Len(frames) \in Nat /\ Len(frames) >= 1
      /\ Position = frames[Len(frames)].x + frames[Len(frames)].i
  BY TopIs DEF PlaceOf
<1>2. frames[Len(frames)].x \in Nat /\ frames[Len(frames)].i \in Nat
  BY <1>1, CallTypes
<1>3. CASE Len(frames) = 1
  <2>1. frames[1].x = 0 /\ Level(p)[0] = 0
    BY LevelIs DEF Inv, CallsInv, ReadInv
  <2> QED
    BY <1>1, <1>2, <1>3, <2>1
<1>4. CASE Len(frames) > 1
  <2> DEFINE n == Len(frames) - 1
  <2>1. n \in 1 .. Len(frames) - 1 /\ n \in 1 .. Len(frames) /\ n < Len(frames) /\ n + 1 = Len(frames)
    BY <1>1, <1>4
  <2>2. frames[n + 1].x = PlaceOf(n)
    BY <2>1, CallChain
  <2>3. Level(p)[PlaceOf(n)] = n - 1 + 1
    BY <2>1, CallAt DEF FrameInv
  <2> QED
    BY <1>1, <1>2, <2>1, <2>2, <2>3
<1>5. Len(frames) = 1 \/ Len(frames) > 1
  <2>1. PICK z : z = Len(frames)
    OBVIOUS
  <2>2. z \in Nat /\ z >= 1
    BY <1>1, <2>1
  <2>3. z = 1 \/ z > 1
    BY <2>2
  <2> QED
    BY <2>1, <2>3
<1> QED
  BY <1>3, <1>4, <1>5, Zenon

(* A step that leaves the calls before the innermost alone.                *)
LEMMA CallsStay ==
  ASSUME Inv, p' = p, marker' \in Nat, frames' \in Seq(CallSet),
         NEW z \in 1 .. Len(frames), Len(frames') = z,
         \A n \in 1 .. z - 1 : frames'[n] = frames[n],
         frames'[z].x = frames[z].x, FrameInv(z)'
  PROVE  CallsInv'
<1>1. z \in Nat /\ z >= 1 /\ z <= Len(frames) /\ Len(frames) \in Nat
  BY CallTypes
<1>2. \A n \in 1 .. z - 1 : PlaceOf(n)' = PlaceOf(n)
  BY DEF PlaceOf
<1>3. \A n \in 1 .. z - 1 : n \in 1 .. Len(frames) /\ n < Len(frames) /\ n < Len(frames')
                            /\ n \in 1 .. Len(frames) - 1
  BY <1>1
<1>4. ASSUME NEW n \in 1 .. z PROVE FrameInv(n)'
  <2>1. CASE n \in 1 .. z - 1
    <3>1. FrameInv(n)
      BY <1>3, <2>1, CallAt
    <3> QED
      BY <1>2, <1>3, <2>1, <3>1 DEF FrameInv
  <2>2. n = z \/ n \in 1 .. z - 1
    BY <1>1
  <2> QED
    BY <2>1, <2>2
<1>5. ASSUME NEW n \in 1 .. z PROVE frames'[n].x = frames[n].x
  <2>1. n = z \/ n \in 1 .. z - 1
    BY <1>1
  <2> QED
    BY <2>1
<1>6. ASSUME NEW n \in 1 .. z - 1
      PROVE  frames'[n + 1].x = PlaceOf(n)' /\ PlaceOf(n)' >= 1 /\ p'[PlaceOf(n)'] = "["
  <2>1. n + 1 \in 1 .. z /\ n \in 1 .. Len(frames) - 1
    BY <1>1
  <2> QED
    BY <1>2, <1>5, <2>1, CallChain
<1>7. frames'[1].x = 0
  <2>1. frames[1].x = 0
    BY DEF Inv, CallsInv
  <2>2. 1 \in 1 .. z
    BY <1>1
  <2> QED
    BY <1>5, <2>1, <2>2
<1>8. Len(frames') >= 1
  BY <1>1
<1> QED
  BY <1>4, <1>6, <1>7, <1>8, Zenon DEF CallsInv, CallSet

LEMMA OneFurther ==
  ASSUME Inv, frames' = Advanced(frames), p' = p, marker' \in Nat,
         Position < Len(p), Weight(p[Position + 1]) = marker' - marker
  PROVE  CallsInv' /\ Position' = Position + 1
<1>0. PICK z : z = Len(frames)
  OBVIOUS
<1>1. /\ frames' \in Seq(CallSet) /\ Len(frames') = z
      /\ \A n \in 1 .. z - 1 : frames'[n] = frames[n]
      /\ frames'[z].x = frames[z].x /\ frames'[z].i = frames[z].i + 1
  BY <1>0, AdvancedIs
<1>2. z \in Nat /\ z >= 1 /\ marker \in Nat /\ Len(p) \in Nat /\ p \in Seq(Chars)
  BY <1>0, TopIs DEF Inv, CallsInv, ReadInv
<1>3. frames[z].x \in Nat /\ frames[z].i \in Nat
  BY <1>0, <1>2, CallTypes
<1>4. Position = PlaceOf(z) /\ Position \in Nat /\ Level(p)[Position] = z - 1 + marker
  BY <1>0, TopIs
<1>5. Level(p)[Position + 1] = z - 1 + marker'
  <2>2. Level(p)[Position + 1] = Level(p)[Position] + Weight(p[Position + 1])
    BY <1>2, <1>4, LevelStep, Zenon
  <2> QED
    BY <1>2, <1>4, <2>2
<1>6. PlaceOf(z)' = Position + 1
  <2>1. PlaceOf(z)' = frames'[z].x + frames'[z].i
    BY DEF PlaceOf
  <2>2. Position = frames[z].x + frames[z].i
    BY <1>4 DEF PlaceOf
  <2>3. PlaceOf(z)' = frames[z].x + (frames[z].i + 1)
    BY <1>1, <2>1
  <2> QED
    BY <1>3, <2>2, <2>3
<1>7. FrameInv(z)'
  <2>1. ~(z < Len(frames'))
    BY <1>1, <1>2
  <2>2. \A k \in frames[z].x .. Position + 1 : k = Position + 1 \/ k \in frames[z].x .. Position
    BY <1>2, <1>3, <1>4
  <2>3. \A k \in frames[z].x .. Position : Level(p)[k] >= z - 1
    <3>1. FrameInv(z)
      BY <1>0, <1>2, CallAt
    <3>2. \A k \in frames[z].x .. PlaceOf(z) : Level(p)[k] >= z - 1
      BY <3>1, Zenon DEF FrameInv
    <3> QED
      BY <1>4, <3>2, Zenon
  <2>4. z - 1 + marker' >= z - 1
    <3>1. PICK m : m = marker'
      OBVIOUS
    <3>2. m \in Nat /\ z \in Nat
      BY <1>2, <3>1
    <3>3. z - 1 + m >= z - 1
      BY <3>2
    <3> QED
      BY <3>1, <3>3
  <2>5. \A k \in frames[z].x .. Position + 1 : Level(p)[k] >= z - 1
    BY <1>5, <2>2, <2>3, <2>4
  <2>6. Position + 1 <= Len(p)
    BY <1>2, <1>4
  <2> QED
    BY <1>1, <1>5, <1>6, <2>1, <2>5, <2>6 DEF FrameInv
<1>8. CallsInv'
  BY <1>0, <1>1, <1>2, <1>7, CallsStay
<1>9. Position' = PlaceOf(z)'
  <2>1. top' = frames'[Len(frames')]
    BY DEF top, Last
  <2>2. top' = frames'[z]
    BY <1>1, <2>1
  <2> QED
    BY <2>2 DEF Position, PlaceOf
<1> QED
  BY <1>6, <1>8, <1>9

(* Over a closing bracket execute starts over.                             *)
LEMMA StartsOver ==
  ASSUME Inv, Restart, p' = p, marker = 0, marker' = 0
  PROVE  CallsInv' /\ Position' = top.x
<1>0. PICK z : z = Len(frames)
  OBVIOUS
<1> DEFINE e == [frames[z] EXCEPT !.i = 0]
<1>1. z \in 1 .. Len(frames) /\ z \in Nat /\ z >= 1
  BY <1>0, CallTypes
<1>2. frames[z] \in CallSet /\ frames \in Seq(CallSet) /\ frames[z].x \in Nat
  BY <1>1, CallTypes
<1>3. e \in CallSet /\ e.x = frames[z].x /\ e.i = 0
  BY <1>2 DEF CallSet
<1>4. frames' = [frames EXCEPT ![z] = e]
  BY <1>0 DEF Restart
<1> HIDE DEF e
<1>5. /\ [frames EXCEPT ![z] = e] \in Seq(CallSet)
      /\ Len([frames EXCEPT ![z] = e]) = Len(frames)
      /\ \A j \in 1 .. Len(frames) : [frames EXCEPT ![z] = e][j] = IF j = z THEN e ELSE frames[j]
  BY <1>1, <1>2, <1>3, ExceptSeq
<1>6. frames' \in Seq(CallSet) /\ Len(frames') = z /\ frames'[z] = e
      /\ \A n \in 1 .. z - 1 : frames'[n] = frames[n]
  <2>1. \A n \in 1 .. z - 1 : n \in 1 .. Len(frames) /\ n # z
    BY <1>0, <1>1
  <2> QED
    BY <1>0, <1>1, <1>4, <1>5, <2>1
<1>7. top = frames[z]
  BY <1>0, TopIs
<1>8. PlaceOf(z)' = frames[z].x
  <2>1. PlaceOf(z)' = frames[z].x + 0
    BY <1>3, <1>6 DEF PlaceOf
  <2> QED
    BY <1>2, <2>1
<1>9. frames[z].x \in Nat /\ frames[z].x <= Len(p) /\ Level(p)[frames[z].x] = z - 1
  <2>1. top.x \in 0 .. Position /\ Level(p)[top.x] = z - 1 /\ Position \in 0 .. Len(p) /\ Len(p) \in Nat
    BY <1>0, CallStart, TopIs
  <2> QED
    BY <1>7, <2>1
<1>10. FrameInv(z)'
  <2>1. ~(z < Len(frames'))
    BY <1>1, <1>6
  <2>2. \A k \in frames[z].x .. frames[z].x : Level(p)[k] >= z - 1
    <3>1. \A k \in frames[z].x .. frames[z].x : k = frames[z].x
      BY <1>9
    <3> QED
      BY <1>1, <1>9, <3>1
  <2>3. z - 1 = z - 1 + 0
    BY <1>1
  <2> QED
    BY <1>3, <1>6, <1>8, <1>9, <2>1, <2>2, <2>3 DEF FrameInv
<1>11. CallsInv'
  BY <1>1, <1>3, <1>6, <1>10, CallsStay
<1>12. Position' = PlaceOf(z)'
  <2>1. top' = frames'[z]
    BY <1>6 DEF top, Last
  <2> QED
    BY <2>1 DEF Position, PlaceOf
<1> QED
  BY <1>7, <1>8, <1>11, <1>12

(* A call that ends leaves its caller where the call began.                *)
LEMMA CallEnds ==
  ASSUME Inv, Len(frames) > 1, frames' = Front(frames), p' = p, marker' = 1
  PROVE  CallsInv' /\ Position' = top.x
<1>0. PICK y : y = Len(frames) - 1
  OBVIOUS
<1>1. y \in Nat /\ y >= 1 /\ y \in 1 .. Len(frames) /\ y + 1 = Len(frames) /\ y < Len(frames)
      /\ y \in 1 .. Len(frames) - 1
  BY <1>0, CallTypes
<1>2. frames \in Seq(CallSet)
  BY CallTypes
<1>3. frames' \in Seq(CallSet) /\ Len(frames') = y /\ \A n \in 1 .. y : frames'[n] = frames[n]
  BY <1>0, <1>1, <1>2 DEF Front
<1>4. PlaceOf(y)' = PlaceOf(y)
  BY <1>1, <1>3 DEF PlaceOf
<1>5. FrameInv(y)'
  <2>1. FrameInv(y) /\ ~(y < Len(frames'))
    BY <1>1, <1>3, CallAt
  <2> QED
    BY <1>1, <1>3, <1>4, <2>1 DEF FrameInv
<1>6. \A n \in 1 .. y - 1 : frames'[n] = frames[n]
  BY <1>1, <1>3
<1>7. CallsInv'
  BY <1>1, <1>3, <1>5, <1>6, CallsStay
<1>8. frames[y + 1].x = PlaceOf(y)
  BY <1>1, CallChain
<1>9. Position' = PlaceOf(y)'
  <2>1. top' = frames'[y]
    BY <1>3 DEF top, Last
  <2> QED
    BY <2>1 DEF Position, PlaceOf
<1> QED
  BY <1>1, <1>4, <1>7, <1>8, <1>9, TopIs

(* An opening bracket begins a call behind itself.                         *)
LEMMA CallBegins ==
  ASSUME Inv, Call, p' = p, marker = 0, marker' = 0, Position < Len(p), p[Position + 1] = "["
  PROVE  CallsInv' /\ Position' = Position + 1
<1>0. PICK z : z = Len(frames)
  OBVIOUS
<1> DEFINE ad == Advanced(frames)
<1>1. PICK at : at = Position
  OBVIOUS
<1>2. PICK new : new = [x |-> at + 1, i |-> 0]
  OBVIOUS
<1>3. z \in Nat /\ z >= 1 /\ Len(p) \in Nat /\ p \in Seq(Chars) /\ z \in 1 .. Len(frames)
  BY <1>0, TopIs DEF Inv, CallsInv, ReadInv
<1>4. at \in Nat /\ at = PlaceOf(z) /\ Level(p)[at] = z - 1 /\ at < Len(p)
  BY <1>0, <1>1, <1>3, TopIs
<1>5. new \in CallSet /\ new.x = at + 1 /\ new.i = 0
  BY <1>2, <1>4 DEF CallSet
<1>6. ad \in Seq(CallSet) /\ Len(ad) = z /\ (\A n \in 1 .. z - 1 : ad[n] = frames[n])
      /\ ad[z].x = frames[z].x /\ ad[z].i = frames[z].i + 1
  BY <1>0, AdvancedIs
<1>7. frames' = Append(ad, new)
  BY <1>1, <1>2 DEF Call
<1> HIDE DEF ad
<1>8. frames' \in Seq(CallSet) /\ Len(frames') = z + 1 /\ frames'[z + 1] = new
      /\ \A n \in 1 .. z : frames'[n] = ad[n]
  BY <1>3, <1>5, <1>6, <1>7
<1>9. frames[z].x \in Nat /\ frames[z].i \in Nat /\ at = frames[z].x + frames[z].i
  BY <1>0, <1>3, <1>4, CallTypes DEF PlaceOf
<1>10. \A n \in 1 .. z - 1 : PlaceOf(n)' = PlaceOf(n) /\ n \in 1 .. z /\ n < Len(frames) /\ n < Len(frames')
                            /\ n \in 1 .. Len(frames) - 1
  BY <1>0, <1>3, <1>6, <1>8 DEF PlaceOf
<1>11. PlaceOf(z)' = at + 1
  <2>1. frames'[z].x = frames[z].x /\ frames'[z].i = frames[z].i + 1
    BY <1>3, <1>6, <1>8
  <2>2. PlaceOf(z)' = frames[z].x + (frames[z].i + 1)
    BY <2>1 DEF PlaceOf
  <2> QED
    BY <1>9, <2>2
<1>12. PlaceOf(z + 1)' = at + 1
  <2>1. PlaceOf(z + 1)' = at + 1 + 0
    BY <1>5, <1>8 DEF PlaceOf
  <2> QED
    BY <1>4, <2>1
<1>13. Level(p)[at + 1] = z
  <2>1. Level(p)[at + 1] = Level(p)[at] + Weight(p[at + 1])
    BY <1>3, <1>4, LevelStep
  <2>2. Weight(p[at + 1]) = 1
    BY <1>1, WeightIs
  <2> QED
    BY <1>3, <1>4, <2>1, <2>2
<1>14. FrameInv(z)'
  <2>1. z < Len(frames')
    BY <1>3, <1>8
  <2>2. \A k \in frames[z].x .. at + 1 : k = at + 1 \/ k \in frames[z].x .. at
    BY <1>9
  <2>3. \A k \in frames[z].x .. at : Level(p)[k] >= z - 1
    <3>1. FrameInv(z)
      BY <1>3, CallAt
    <3>2. \A k \in frames[z].x .. PlaceOf(z) : Level(p)[k] >= z - 1
      BY <3>1, Zenon DEF FrameInv
    <3> QED
      BY <1>4, <3>2, Zenon
  <2>4. \A k \in frames[z].x .. at + 1 : Level(p)[k] >= z - 1
    <3>1. z >= z - 1
      BY <1>3
    <3> QED
      BY <1>13, <2>2, <2>3, <3>1
  <2>5. at + 1 <= Len(p) /\ z = z - 1 + 1
    BY <1>3, <1>4
  <2>6. frames'[z].x = frames[z].x
    BY <1>3, <1>6, <1>8
  <2> QED
    BY <1>11, <1>13, <2>1, <2>4, <2>5, <2>6 DEF FrameInv
<1>15. FrameInv(z + 1)'
  <2>1. ~(z + 1 < Len(frames')) /\ z + 1 - 1 = z /\ z + 0 = z
    BY <1>3, <1>8
  <2>2. \A k \in at + 1 .. at + 1 : Level(p)[k] >= z
    <3>1. \A k \in at + 1 .. at + 1 : k = at + 1
      BY <1>4
    <3> QED
      BY <1>3, <1>13, <3>1
  <2>3. at + 1 <= Len(p)
    BY <1>3, <1>4
  <2>4. frames'[z + 1].x = at + 1
    BY <1>5, <1>8
  <2>5. PICK n : n = z + 1
    OBVIOUS
  <2>6. n - 1 = z /\ n - 1 + 0 = z
    BY <1>3, <2>5
  <2>7. FrameInv(n)'
    BY <1>12, <1>13, <2>1, <2>2, <2>3, <2>4, <2>5, <2>6 DEF FrameInv
  <2> QED
    BY <2>5, <2>7
<1>16. ASSUME NEW n \in 1 .. z - 1 PROVE FrameInv(n)'
  <2>1. FrameInv(n)
    BY <1>0, <1>10, CallAt
  <2>2. frames'[n].x = frames[n].x
    BY <1>6, <1>8, <1>10
  <2> QED
    BY <1>10, <2>1, <2>2 DEF FrameInv
<1>17. \A n \in 1 .. z + 1 : FrameInv(n)'
  <2>1. \A n \in 1 .. z + 1 : n \in 1 .. z - 1 \/ n = z \/ n = z + 1
    BY <1>3
  <2> QED
    BY <1>14, <1>15, <1>16, <2>1
<1>18. frames'[1].x = 0
  <2>1. frames[1].x = 0
    BY DEF Inv, CallsInv
  <2>2. 1 \in 1 .. z /\ (z = 1 \/ 1 \in 1 .. z - 1)
    BY <1>3
  <2> QED
    BY <1>6, <1>8, <2>1, <2>2
<1>19. ASSUME NEW n \in 1 .. z
       PROVE  frames'[n + 1].x = PlaceOf(n)' /\ PlaceOf(n)' >= 1 /\ p'[PlaceOf(n)'] = "["
  <2>1. CASE n = z
    <3>1. frames'[z + 1].x = at + 1 /\ at + 1 >= 1
      BY <1>4, <1>5, <1>8
    <3> QED
      BY <1>1, <1>11, <2>1, <3>1
  <2>2. CASE n # z
    <3>1. n \in 1 .. z - 1 /\ n + 1 \in 1 .. z /\ (n + 1 = z \/ n + 1 \in 1 .. z - 1)
      BY <1>3, <2>2
    <3>2. frames'[n + 1].x = frames[n + 1].x
      BY <1>6, <1>8, <3>1
    <3> QED
      BY <1>10, <3>1, <3>2, CallChain
  <2> QED
    BY <2>1, <2>2
<1>20. CallsInv'
  <2>1. Len(frames') - 1 = z /\ Len(frames') >= 1
    BY <1>3, <1>8
  <2>2. marker' \in Nat
    OBVIOUS
  <2> QED
    BY <1>8, <1>17, <1>18, <1>19, <2>1, <2>2, Zenon DEF CallsInv, CallSet
<1>21. Position' = PlaceOf(z + 1)'
  <2>1. top' = frames'[z + 1]
    BY <1>8 DEF top, Last
  <2> QED
    BY <2>1 DEF Position, PlaceOf
<1> QED
  BY <1>1, <1>12, <1>20, <1>21

-----------------------------------------------------------------------------
(* One action at a time.                                                   *)
LEMMA CallsSame ==
  ASSUME Inv, UNCHANGED runvars, p' = p
  PROVE  CallsInv' /\ Position' = Position /\ Len(frames') = Len(frames)
<1>1. frames' = frames /\ marker' = marker /\ CallsInv
  BY DEF Inv, runvars
<1>2. Position' = Position
  BY <1>1 DEF Position, top, Last
<1>3. \A n : PlaceOf(n)' = PlaceOf(n)
  BY <1>1 DEF PlaceOf
<1>4. \A n : FrameInv(n)' <=> FrameInv(n)
  BY <1>1, <1>3 DEF FrameInv
<1> QED
  BY <1>1, <1>2, <1>3, <1>4 DEF CallsInv

LEMMA StartRunInv == ASSUME Inv, StartRun PROVE Inv'
<1>1. UNCHANGED filevars /\ UNCHANGED loadvars /\ UNCHANGED runvars /\ stage' \in {"error", "run"}
      /\ stage = "read" /\ read = Len(source) + 1
  BY DEF StartRun
<1>2. stage' = "run" => i = 0
  BY DEF StartRun, Unbalanced
<1>3. ReadInv'
  BY <1>1, <1>2 DEF Inv, ReadInv, Open_, filevars, loadvars
<1>4. CallsInv'
  BY <1>1, CallsSame DEF loadvars
<1> QED
  BY <1>1, <1>3, <1>4 DEF Inv

LEMMA CommandInv ==
  ASSUME Inv, NEW char \in Plain \ {"[", "]"}, Executes(char), Step
  PROVE  Inv' /\ Position' = Position + 1
<1>1. stage = "run" /\ marker = 0 /\ Fetched = char /\ frames' = Advanced(frames) /\ marker' = 0
      /\ UNCHANGED filevars /\ UNCHANGED loadvars /\ stage' = "run"
  BY DEF Executes, Step
<1>2. char \notin {"end", "unknown"}
  BY DEF Plain
<1>3. Position < Len(p) /\ p[Position + 1] = char
  BY <1>1, <1>2, TopIs
<1>4. Weight(char) = 0
  BY WeightIs
<1>5. Weight(p[Position + 1]) = marker' - marker
  BY <1>1, <1>3, <1>4
<1>6. CallsInv' /\ Position' = Position + 1
  BY <1>1, <1>3, <1>5, OneFurther DEF loadvars
<1>7. ReadInv'
  BY <1>1, RunRead
<1> QED
  BY <1>1, <1>6, <1>7 DEF Inv

LEMMA OpenInv == ASSUME Inv, Open PROVE Inv' /\ Position' = Position + 1
<1>1. stage = "run" /\ marker = 0 /\ Fetched = "[" /\ UNCHANGED filevars /\ UNCHANGED loadvars
      /\ stage' = "run"
  BY DEF Open, Executes
<1>2. Position < Len(p) /\ p[Position + 1] = "[" /\ p' = p
  BY <1>1, TopIs DEF loadvars
<1>3. CASE Search
  <2>1. frames' = Advanced(frames) /\ marker' = 1 /\ Weight(p[Position + 1]) = 1
    BY <1>2, <1>3, WeightIs DEF Search
  <2>2. Weight(p[Position + 1]) = marker' - marker
    BY <1>1, <2>1
  <2> QED
    BY <1>1, <1>2, <2>1, <2>2, OneFurther, RunRead DEF Inv
<1>4. CASE Call
  <2>1. marker' = 0
    BY <1>1, <1>4 DEF Call
  <2> QED
    BY <1>1, <1>2, <1>4, <2>1, CallBegins, RunRead DEF Inv
<1>5. Search \/ Call
  BY DEF Open
<1> QED
  BY <1>3, <1>4, <1>5

LEMMA ReturnInv ==
  ASSUME Inv, Return, UNCHANGED filevars, UNCHANGED loadvars, stage = "run"
  PROVE  Inv' /\ (Len(frames) > 1 => Position' = top.x)
<1>1. CASE Len(frames) > 1
  <2>1. frames' = Front(frames) /\ marker' = 1 /\ stage' = stage /\ p' = p
    BY <1>1 DEF Return, loadvars
  <2> QED
    BY <1>1, <2>1, CallEnds, RunRead DEF Inv
<1>2. CASE ~(Len(frames) > 1)
  <2>1. stage' = "done" /\ UNCHANGED runvars /\ p' = p
    BY <1>2 DEF Return, loadvars
  <2> QED
    BY <1>2, <2>1, CallsSame, RunRead DEF Inv
<1> QED
  BY <1>1, <1>2

LEMMA CloseInv ==
  ASSUME Inv, Close
  PROVE  Inv' /\ (tape[a] # 0 \/ Len(frames) > 1 => Position' = top.x)
<1>1. stage = "run" /\ marker = 0 /\ UNCHANGED filevars /\ UNCHANGED loadvars
  BY DEF Close, Executes
<1>2. CASE tape[a] # 0
  <2>1. Restart /\ marker' = 0 /\ stage' = stage /\ p' = p
    BY <1>1, <1>2 DEF Close, loadvars
  <2> QED
    BY <1>1, <2>1, StartsOver, RunRead DEF Inv
<1>3. CASE ~(tape[a] # 0)
  <2>1. Return
    BY <1>3 DEF Close
  <2> QED
    BY <1>1, <1>3, <2>1, ReturnInv
<1> QED
  BY <1>2, <1>3

LEMMA SearchCharInv ==
  ASSUME Inv, SearchChar
  PROVE  Inv' /\ Position' = Position + 1 /\ marker' = marker + Weight(p[Position + 1])
<1>1. stage = "run" /\ marker > 0 /\ Position < Len(p) /\ frames' = Advanced(frames)
      /\ UNCHANGED filevars /\ UNCHANGED loadvars /\ stage' = "run" /\ p' = p
      /\ marker' = Marker(marker, p[Position + 1])
  BY DEF SearchChar, loadvars, Fetched
<1>2. PICK m : m = marker
  OBVIOUS
<1>3. m \in Nat /\ m > 0
  BY <1>1, <1>2 DEF Inv, CallsInv
<1>4. PICK w : w = Weight(p[Position + 1])
  OBVIOUS
<1>5. w \in {-1, 0, 1}
  BY <1>4, WeightIs
<1>6. marker' = m + w
  <2>1. CASE p[Position + 1] = "["
    BY <1>1, <1>2, <1>4, <2>1, WeightIs DEF Marker
  <2>2. CASE p[Position + 1] = "]"
    <3>1. w = -1
      BY <1>4, <2>2, WeightIs
    <3>2. marker' = m - 1
      BY <1>1, <1>2, <2>2 DEF Marker
    <3> QED
      BY <1>3, <3>1, <3>2
  <2>3. CASE p[Position + 1] # "[" /\ p[Position + 1] # "]"
    <3>1. w = 0
      BY <1>4, <1>5, <2>3, WeightIs
    <3>2. marker' = m
      BY <1>1, <1>2, <2>3 DEF Marker
    <3> QED
      BY <1>3, <3>1, <3>2
  <2> QED
    BY <2>1, <2>2, <2>3
<1>7. m + w \in Nat /\ w = m + w - m
  BY <1>3, <1>5
<1>8. marker' \in Nat /\ Weight(p[Position + 1]) = marker' - marker
  <2>1. PICK m1 : m1 = m + w
    OBVIOUS
  <2>2. m1 \in Nat /\ w = m1 - m
    BY <1>3, <1>5, <1>7, <2>1
  <2> QED
    BY <1>2, <1>4, <1>6, <2>1, <2>2
<1>9. CallsInv' /\ Position' = Position + 1
  BY <1>1, <1>8, OneFurther
<1>10. ReadInv'
  BY <1>1, RunRead
<1> QED
  BY <1>1, <1>2, <1>4, <1>6, <1>9, <1>10 DEF Inv

LEMMA StillInv ==
  ASSUME Inv, UNCHANGED filevars, UNCHANGED loadvars, UNCHANGED runvars,
         stage \in {"run", "dump"}, stage' \notin {"read", "error", "lost"}
  PROVE  Inv' /\ Position' = Position
<1>1. ReadInv'
  BY RunRead
<1>2. CallsInv' /\ Position' = Position
  BY CallsSame DEF loadvars
<1> QED
  BY <1>1, <1>2 DEF Inv

LEMMA EndInv == ASSUME Inv, End PROVE Inv' /\ (Len(frames) > 1 => Position' = top.x)
<1>1. stage = "run" /\ UNCHANGED filevars /\ UNCHANGED loadvars
  BY DEF End
<1>2. CASE Len(frames) = 1 /\ braincrash
  BY <1>1, <1>2, StillInv DEF End
<1>3. CASE ~(Len(frames) = 1 /\ braincrash)
  BY <1>1, <1>3, ReturnInv DEF End
<1> QED
  BY <1>2, <1>3

(* In a program whose brackets add up fewer are open at its end than where *)
(* a search is.                                                            *)
LEMMA NotLost == ASSUME Inv, stage = "run", marker > 0 PROVE Position < Len(p)
<1>1. PICK z : z = Len(frames)
  OBVIOUS
<1>2. PICK m : m = marker
  OBVIOUS
<1>3. PICK at : at = Position
  OBVIOUS
<1>4. z \in Nat /\ z >= 1 /\ m \in Nat /\ m > 0 /\ at \in 0 .. Len(p) /\ Level(p)[at] = z - 1 + m
      /\ Len(p) \in Nat
  BY <1>1, <1>2, <1>3, TopIs DEF Inv, CallsInv
<1>5. Level(p)[Len(p)] = 0
  BY DEF Inv, ReadInv, Open_
<1>6. at # Len(p)
  <2>1. z - 1 + m # 0
    BY <1>4
  <2> QED
    BY <1>4, <1>5, <2>1
<1>7. at < Len(p)
  BY <1>4, <1>6
<1> QED
  BY <1>3, <1>7

LEMMA AstrayInv == ASSUME Inv, Astray PROVE Inv' /\ marker = 0 /\ Fetched = "unknown" /\ stage' = "astray"
<1>1. stage = "run" /\ UNCHANGED filevars /\ UNCHANGED loadvars /\ UNCHANGED runvars
  BY DEF Astray
<1>2. ~(marker > 0 /\ Position >= Len(p))
  <2>1. SUFFICES ASSUME marker > 0 PROVE ~(Position >= Len(p))
    OBVIOUS
  <2>2. PICK at : at = Position
    OBVIOUS
  <2>3. at < Len(p) /\ at \in Nat /\ Len(p) \in Nat
    BY <1>1, <2>1, <2>2, NotLost, TopIs
  <2>4. ~(at >= Len(p))
    BY <2>3
  <2> QED
    BY <2>2, <2>4
<1>3. marker = 0 /\ Fetched = "unknown" /\ stage' = "astray"
  BY <1>2 DEF Astray
<1> QED
  BY <1>1, <1>3, StillInv

LEMMA Stutter == ASSUME Inv, UNCHANGED vars PROVE Inv' /\ Position' = Position
<1>1. UNCHANGED filevars /\ UNCHANGED loadvars /\ UNCHANGED runvars /\ stage' = stage
  BY DEF vars
<1>2. CallsInv' /\ Position' = Position
  BY <1>1, CallsSame DEF loadvars
<1>3. ReadInv'
  BY <1>1 DEF Inv, ReadInv, Open_, filevars, loadvars, runvars
<1> QED
  BY <1>1, <1>2, <1>3 DEF Inv

LEMMA InvStep == ASSUME Inv, [Next]_vars PROVE Inv'
<1>1. CASE ReadChar
  BY <1>1, ReadCharInv
<1>2. CASE StartRun
  BY <1>2, StartRunInv
<1>3. CASE Right \/ Left \/ Inc \/ Dec \/ In \/ Out
  <2>1. Step /\ \E char \in {">", "<", "+", "-", ",", "."} : Executes(char)
    BY <1>3 DEF Right, Left, Inc, Dec, In, Out
  <2>2. {">", "<", "+", "-", ",", "."} \subseteq Plain \ {"[", "]"}
    BY DEF Plain
  <2> QED
    BY <2>1, <2>2, CommandInv
<1>4. CASE Open
  BY <1>4, OpenInv
<1>5. CASE Close
  BY <1>5, CloseInv
<1>6. CASE SearchChar
  BY <1>6, SearchCharInv
<1>7. CASE End
  BY <1>7, EndInv
<1>8. CASE Dump
  BY <1>8, StillInv DEF Dump
<1>9. CASE Operation
  BY <1>9, ReturnInv DEF Operation
<1>10. CASE Leave
  BY <1>10, StillInv DEF Leave
<1>11. CASE Astray
  BY <1>11, AstrayInv
<1>12. CASE UNCHANGED vars
  BY <1>12, Stutter
<1> QED
  BY <1>1, <1>2, <1>3, <1>4, <1>5, <1>6, <1>7, <1>8, <1>9, <1>10, <1>11, <1>12, Zenon DEF Next

LEMMA InvAlways == Spec => []Inv
<1>1. Init => Inv
  BY InitInv
<1>2. Inv /\ [Next]_vars => Inv'
  BY InvStep
<1> QED
  BY <1>1, <1>2, PTL DEF Spec

(* For every text, and any size of cells and tape, the search for a        *)
(* closing bracket finds one before the program ends (NEXTLOOP and the     *)
(* loop of case '[' in execute), although main compares numbers only.      *)
THEOREM SearchStaysCorrect == Spec => []SearchStays
<1>1. Inv => SearchStays
  BY DEF Inv, SearchStays
<1> QED
  BY <1>1, InvAlways, PTL

-----------------------------------------------------------------------------
(* What the recursive functions come to, each the only one of its kind.    *)
DepthOf(d, q) == [k \in 0 .. Len(q) |-> IF k = 0 THEN 0 ELSE d[k - 1] + Weight(q[k])]

LEMMA DepthIs ==
  ASSUME Machine!Program = p, p \in Seq(Chars)
  PROVE  Machine!Depth = Level(p)
<1>1. Machine!Depth = CHOOSE d : d = DepthOf(d, p)
  BY DEF Machine!Depth, Weight, DepthOf
<1>2. Level(p) = DepthOf(Level(p), p)
  BY LevelIs DEF DepthOf
<1>3. Machine!Depth = DepthOf(Machine!Depth, p)
  BY <1>1, <1>2
<1>4. ASSUME NEW d, NEW e, d = DepthOf(d, p), e = DepthOf(e, p) PROVE d = e
  <2> DEFINE T == {k \in 0 .. Len(p) : d[k] # e[k]}
  <2>1. T \in SUBSET Nat
    OBVIOUS
  <2>2. ASSUME T # {} PROVE FALSE
    <3>1. PICK k \in T : \A y \in T : k <= y
      BY <2>1, <2>2, Least
    <3>2. d[0] = 0 /\ e[0] = 0
      BY <1>4 DEF DepthOf
    <3>3. k - 1 \in 0 .. Len(p) /\ k - 1 \notin T /\ k # 0 /\ k \in 0 .. Len(p)
      BY <3>1, <3>2
    <3>4. d[k] = d[k - 1] + Weight(p[k])
      BY <1>4, <3>3 DEF DepthOf
    <3>5. e[k] = e[k - 1] + Weight(p[k])
      BY <1>4, <3>3 DEF DepthOf
    <3> QED
      BY <3>1, <3>3, <3>4, <3>5
  <2>3. \A k \in 0 .. Len(p) : d[k] = e[k]
    BY <2>2
  <2>4. d = [k \in 0 .. Len(p) |-> d[k]] /\ e = [k \in 0 .. Len(p) |-> e[k]]
    BY <1>4 DEF DepthOf
  <2> QED
    BY <2>3, <2>4
<1> QED
  BY <1>2, <1>3, <1>4

LEMMA MarkerIs == ASSUME NEW m \in Int, NEW char PROVE Marker(m, char) = m + Weight(char)
<1>1. CASE char = "["
  BY <1>1, WeightIs DEF Marker
<1>2. CASE char = "]"
  BY <1>2, WeightIs DEF Marker
<1>3. CASE char # "[" /\ char # "]"
  <2>1. Weight(char) = 0
    BY <1>3, WeightIs
  <2> QED
    BY <1>3, <2>1 DEF Marker
<1> QED
  BY <1>1, <1>2, <1>3

OpenOf(o, at, m) == [k \in at .. Len(p) |-> IF k = at THEN m ELSE Marker(o[k - 1], p[k])]

LEMMA StillOpenIs ==
  ASSUME p \in Seq(Chars), NEW at \in 0 .. Len(p), NEW m \in Nat
  PROVE  \A k \in at .. Len(p) : StillOpen(at, m)[k] = m + Level(p)[k] - Level(p)[at]
<1> DEFINE d == Level(p)
<1> DEFINE g == [k \in at .. Len(p) |-> m + d[k] - d[at]]
<1>1. d \in [0 .. Len(p) -> Int] /\ Len(p) \in Nat
      /\ \A k \in 1 .. Len(p) : d[k] = d[k - 1] + Weight(p[k])
  BY LevelIs
<1> HIDE DEF d
<1>2. StillOpen(at, m) = CHOOSE o : o = OpenOf(o, at, m)
  BY DEF StillOpen, OpenOf
<1>3. ASSUME NEW k \in at .. Len(p) PROVE g[k] = IF k = at THEN m ELSE Marker(g[k - 1], p[k])
  <2>1. CASE k = at
    <3>1. d[at] \in Int
      BY <1>1
    <3> QED
      BY <2>1, <3>1
  <2>2. CASE k # at
    <3>0. k - 1 \in at .. Len(p) /\ k \in 1 .. Len(p) /\ k - 1 \in 0 .. Len(p)
      BY <1>1, <2>2
    <3>1. k - 1 \in at .. Len(p) /\ k \in 1 .. Len(p) /\ d[k - 1] \in Int /\ d[at] \in Int
      BY <1>1, <3>0
    <3>2. g[k - 1] = m + d[k - 1] - d[at] /\ g[k - 1] \in Int
      BY <3>1
    <3>3. Marker(g[k - 1], p[k]) = m + d[k - 1] - d[at] + Weight(p[k])
      BY <3>2, MarkerIs
    <3>4. d[k] = d[k - 1] + Weight(p[k]) /\ Weight(p[k]) \in Int
      BY <1>1, <3>1, WeightIs
    <3> QED
      BY <2>2, <3>1, <3>3, <3>4
  <2> QED
    BY <2>1, <2>2
<1>4. g = OpenOf(g, at, m)
  BY <1>3 DEF OpenOf
<1>5. StillOpen(at, m) = OpenOf(StillOpen(at, m), at, m)
  BY <1>2, <1>4
<1> DEFINE f == StillOpen(at, m)
<1> DEFINE T == {k \in at .. Len(p) : f[k] # g[k]}
<1>6. T \in SUBSET Nat
  OBVIOUS
<1>7. ASSUME T # {} PROVE FALSE
  <2> HIDE DEF f, g
  <2>1. PICK k \in T : \A y \in T : k <= y
    BY <1>6, <1>7, Least
  <2>2. at \in at .. Len(p) /\ f[at] = m /\ g[at] = m
    BY <1>1, <1>4, <1>5 DEF OpenOf, f
  <2>3. k - 1 \in at .. Len(p) /\ k - 1 \notin T /\ k # at /\ k \in at .. Len(p)
    BY <2>1, <2>2
  <2>4. f[k] = Marker(f[k - 1], p[k])
    BY <1>5, <2>3 DEF OpenOf, f
  <2>5. g[k] = Marker(g[k - 1], p[k])
    BY <1>4, <2>3 DEF OpenOf
  <2> QED
    BY <2>1, <2>3, <2>4, <2>5
<1> QED
  BY <1>7 DEF d

(* The first place where the level is down to l, from one where it is not  *)
(* below.                                                                  *)
FirstAt(q, at, l, j) ==
  j \in at .. Len(q) /\ Level(q)[j] = l /\ \A k \in at .. j - 1 : Level(q)[k] > l

LEMMA FirstExists ==
  ASSUME NEW q \in Seq(Chars), NEW at \in 0 .. Len(q), NEW l \in Int,
         Level(q)[at] >= l, Level(q)[Len(q)] <= l
  PROVE  \E j : FirstAt(q, at, l, j)
<1> DEFINE d == Level(q)
<1>1. d \in [0 .. Len(q) -> Int] /\ Len(q) \in Nat
      /\ \A k \in 1 .. Len(q) : d[k] = d[k - 1] + Weight(q[k])
  BY LevelIs
<1>2. d[at] >= l /\ d[Len(q)] <= l
  OBVIOUS
<1> HIDE DEF d
<1> DEFINE T == {k \in at .. Len(q) : d[k] <= l}
<1>3. T \in SUBSET Nat
  OBVIOUS
<1>4. Len(q) \in T
  BY <1>1, <1>2
<1>5. PICK j \in T : \A y \in T : j <= y
  BY <1>3, <1>4, Least
<1>6. j \in at .. Len(q) /\ d[j] <= l /\ d[j] \in Int
  BY <1>1, <1>5
<1>7. \A k \in at .. j - 1 : d[k] > l
  <2>1. SUFFICES ASSUME NEW k \in at .. j - 1 PROVE d[k] > l
    OBVIOUS
  <2>2. k \in at .. Len(q) /\ k \in 0 .. Len(q) /\ ~(j <= k)
    BY <1>1, <1>6
  <2>3. k \notin T
    BY <1>5, <2>2
  <2>4. d[k] \in Int
    BY <1>1, <2>2
  <2> QED
    BY <2>2, <2>3, <2>4
<1>8. d[j] = l
  <2>1. CASE j = at
    BY <1>2, <1>6, <2>1
  <2>2. CASE j # at
    <3>1. j - 1 \in at .. j - 1 /\ j \in 1 .. Len(q) /\ j - 1 \in 0 .. Len(q)
      BY <1>6, <2>2
    <3>2. d[j - 1] > l /\ d[j - 1] \in Int /\ d[j] = d[j - 1] + Weight(q[j])
      BY <1>1, <1>7, <3>1
    <3>3. Weight(q[j]) \in {-1, 0, 1}
      BY WeightIs
    <3> QED
      BY <1>6, <3>2, <3>3
  <2> QED
    BY <2>1, <2>2
<1>9. FirstAt(q, at, l, j)
  BY <1>6, <1>7, <1>8 DEF FirstAt, d
<1> QED
  BY <1>9

LEMMA FirstOnly ==
  ASSUME NEW q \in Seq(Chars), NEW at \in Nat, NEW l \in Int, NEW j, NEW k,
         FirstAt(q, at, l, j), FirstAt(q, at, l, k)
  PROVE  j = k
<1>1. j \in Int /\ k \in Int /\ j >= at /\ k >= at
  BY DEF FirstAt
<1>2. ~(j < k)
  <2>1. SUFFICES ASSUME j < k PROVE FALSE
    OBVIOUS
  <2>2. j \in at .. k - 1
    BY <1>1, <2>1
  <2>3. Level(q)[j] > l /\ Level(q)[j] = l
    BY <2>2 DEF FirstAt
  <2> QED
    BY <2>3
<1>3. ~(k < j)
  <2>1. SUFFICES ASSUME k < j PROVE FALSE
    OBVIOUS
  <2>2. k \in at .. j - 1
    BY <1>1, <2>1
  <2>3. Level(q)[k] > l /\ Level(q)[k] = l
    BY <2>2 DEF FirstAt
  <2> QED
    BY <2>3
<1> QED
  BY <1>1, <1>2, <1>3

LEMMA FirstBefore ==
  ASSUME NEW q \in Seq(Chars), NEW at \in Nat, NEW l \in Int, NEW j,
         FirstAt(q, at + 1, l, j), Level(q)[at] > l
  PROVE  FirstAt(q, at, l, j)
<1>1. j \in at + 1 .. Len(q) /\ j \in at .. Len(q)
  BY DEF FirstAt
<1>2. \A k \in at .. j - 1 : k = at \/ k \in at + 1 .. j - 1
  BY <1>1
<1> QED
  BY <1>1, <1>2 DEF FirstAt

(* Where the flat program is.                                              *)
PcOf(at, m) == IF m = 0 THEN at + 1 ELSE Found(at, m) + 1

LEMMA PcIs ==
  ASSUME p \in Seq(Chars), NEW at \in 0 .. Len(p), NEW m \in Nat, NEW l \in Int,
         Level(p)[at] = l + m, NEW j, FirstAt(p, at, l, j)
  PROVE  PcOf(at, m) = j + 1 /\ j \in Nat
<1>1. j \in at .. Len(p) /\ Level(p)[j] = l /\ (\A k \in at .. j - 1 : Level(p)[k] > l) /\ j \in Nat
  BY DEF FirstAt
<1>2. CASE m = 0
  <2>1. j = at
    <3>1. SUFFICES ASSUME j # at PROVE FALSE
      OBVIOUS
    <3>2. at \in at .. j - 1
      BY <1>1, <3>1
    <3>3. Level(p)[at] > l
      BY <1>1, <3>2
    <3> QED
      BY <1>2, <3>3
  <2> QED
    BY <1>1, <1>2, <2>1 DEF PcOf
<1>3. CASE m # 0
  <2> DEFINE ends == {k \in at .. Len(p) : StillOpen(at, m)[k] = 0}
  <2>1. \A k \in at .. Len(p) : StillOpen(at, m)[k] = m + Level(p)[k] - Level(p)[at]
    BY StillOpenIs
  <2>2. Level(p) \in [0 .. Len(p) -> Int]
    BY LevelIs
  <2>3. \A k \in at .. Len(p) : StillOpen(at, m)[k] = 0 <=> Level(p)[k] = l
    <3>1. SUFFICES ASSUME NEW k \in at .. Len(p)
                   PROVE  StillOpen(at, m)[k] = 0 <=> Level(p)[k] = l
      OBVIOUS
    <3>2. Level(p)[k] \in Int /\ StillOpen(at, m)[k] = m + Level(p)[k] - (l + m)
      BY <2>1, <2>2
    <3> QED
      BY <3>2
  <2>4. j \in ends
    BY <1>1, <2>3
  <2>5. \A k \in ends : j <= k
    <3>1. SUFFICES ASSUME NEW k \in ends, k < j PROVE FALSE
      BY <1>1
    <3>2. k \in at .. j - 1
      BY <1>1, <3>1
    <3>3. Level(p)[k] > l /\ Level(p)[k] = l
      BY <1>1, <2>3, <3>1, <3>2
    <3> QED
      BY <3>3
  <2>6. \A k \in ends : (\A h \in ends : k <= h) => k = j
    <3>1. \A k \in ends : k \in Int
      OBVIOUS
    <3> QED
      BY <1>1, <2>4, <2>5, <3>1
  <2>7. Found(at, m) = j
    <3>1. Found(at, m) = IF ends = {} THEN Len(p) ELSE CHOOSE k \in ends : \A h \in ends : k <= h
      BY DEF Found
    <3> HIDE DEF ends
    <3> QED
      BY <2>4, <2>5, <2>6, <3>1
  <2> QED
    BY <1>1, <1>3, <2>7 DEF PcOf
<1> QED
  BY <1>2, <1>3

LEMMA ClosingIs ==
  ASSUME Machine!Program = p, p \in Seq(Chars), NEW at \in 0 .. Len(p) - 1, NEW l \in Int,
         Level(p)[at] = l + 1, NEW j, FirstAt(p, at, l, j)
  PROVE  Machine!ClosingOf(at + 1, 1) = j
<1> DEFINE d == Level(p)
<1>1. d \in [0 .. Len(p) -> Int] /\ Len(p) \in Nat /\ d[at] = l + 1
  BY LevelIs
<1>2. Machine!Depth = d
  BY DepthIs
<1>3. j \in at .. Len(p) /\ d[j] = l /\ \A k \in at .. j - 1 : d[k] > l
  BY DEF FirstAt
<1> HIDE DEF d
<1> DEFINE Closes(k) == d[k] - d[at] = -1 /\ \A m \in at + 1 .. k - 1 : d[m] - d[at] > -1
<1>4. (at + 1) - 1 = at
  BY <1>1
<1>5. Machine!ClosingOf(at + 1, 1) = CHOOSE k \in at + 1 .. Len(p) : Closes(k)
  BY <1>2, <1>4 DEF Machine!ClosingOf, Machine!Balance
<1>6. j \in at + 1 .. Len(p)
  <2>1. j # at
    BY <1>1, <1>3
  <2> QED
    BY <1>1, <1>3, <2>1
<1>7. \A m \in 0 .. Len(p) : d[m] \in Int /\ (d[m] - d[at] = -1 <=> d[m] = l)
                             /\ (d[m] - d[at] > -1 <=> d[m] > l)
  <2>1. SUFFICES ASSUME NEW m \in 0 .. Len(p)
                 PROVE  d[m] \in Int /\ (d[m] - d[at] = -1 <=> d[m] = l)
                        /\ (d[m] - d[at] > -1 <=> d[m] > l)
    OBVIOUS
  <2>2. d[m] \in Int
    BY <1>1
  <2> QED
    BY <1>1, <2>2
<1>8. Closes(j)
  <2>1. j \in 0 .. Len(p) /\ \A m \in at + 1 .. j - 1 : m \in 0 .. Len(p) /\ m \in at .. j - 1
    BY <1>1, <1>6
  <2> QED
    BY <1>3, <1>7, <2>1
<1>9. ASSUME NEW k \in at + 1 .. Len(p), Closes(k) PROVE k = j
  <2>1. k \in 0 .. Len(p) /\ j \in 0 .. Len(p) /\ k \in Int /\ j \in Int
    BY <1>1, <1>6
  <2>2. d[k] = l
    BY <1>7, <1>9, <2>1
  <2>3. ~(k < j)
    <3>1. SUFFICES ASSUME k < j PROVE FALSE
      OBVIOUS
    <3>2. k \in at .. j - 1
      BY <1>6, <3>1
    <3> QED
      BY <1>3, <2>2, <3>2
  <2>4. ~(j < k)
    <3>1. SUFFICES ASSUME j < k PROVE FALSE
      OBVIOUS
    <3>2. j \in at + 1 .. k - 1
      BY <1>6, <3>1
    <3>3. d[j] > l
      BY <1>7, <1>9, <2>1, <3>2
    <3> QED
      BY <1>3, <3>3
  <2> QED
    BY <2>1, <2>3, <2>4
<1> HIDE DEF Closes
<1> QED
  BY <1>5, <1>6, <1>8, <1>9

(* What a closing bracket closes is where the call it is in begins.        *)
LEMMA OpeningIs ==
  ASSUME Inv, Machine!Program = p, Position < Len(p), p[Position + 1] = "]", marker = 0
  PROVE  Machine!OpeningOf(Position + 1) = top.x /\ (top.x # 0 <=> Len(frames) > 1)
<1> DEFINE d == Level(p)
<1>1. PICK z : z = Len(frames)
  OBVIOUS
<1>2. PICK at : at = Position
  OBVIOUS
<1>3. PICK x : x = top.x
  OBVIOUS
<1>4. p \in Seq(Chars) /\ Len(p) \in Nat /\ d \in [0 .. Len(p) -> Int]
      /\ \A k \in 1 .. Len(p) : d[k] = d[k - 1] + Weight(p[k])
  BY LevelIs DEF Inv, ReadInv
<1>5. z \in Nat /\ z >= 1 /\ at \in 0 .. Len(p) /\ at < Len(p) /\ d[at] = z - 1
  <2>1. z \in Nat /\ z >= 1 /\ at \in 0 .. Len(p) /\ d[at] = z - 1 + 0
    BY <1>1, <1>2, TopIs
  <2> QED
    BY <1>2, <2>1
<1>6. x \in 0 .. at /\ d[x] = z - 1
  BY <1>1, <1>2, <1>3, CallStart
<1>7. \A k \in x .. at : d[k] >= z - 1
  <2>1. FrameInv(z) /\ top = frames[z] /\ at = PlaceOf(z)
    BY <1>1, <1>2, <1>5, CallAt, TopIs
  <2>2. \A k \in frames[z].x .. PlaceOf(z) : d[k] >= z - 1
    BY <2>1, Zenon DEF FrameInv
  <2> QED
    BY <1>3, <2>1, <2>2
<1>8. Machine!Depth = d
  BY <1>4, DepthIs
<1>9. d[at + 1] = z - 2
  <2>1. at + 1 \in 1 .. Len(p) /\ (at + 1) - 1 = at
    BY <1>4, <1>5
  <2>2. d[at + 1] = d[at] + Weight(p[at + 1])
    <3>1. PICK k : k = at + 1
      OBVIOUS
    <3>2. k \in 1 .. Len(p) /\ k - 1 = at
      BY <1>5, <2>1, <3>1
    <3>3. d[k] = d[k - 1] + Weight(p[k])
      BY <1>4, <3>2
    <3> QED
      BY <3>1, <3>2, <3>3
  <2>3. Weight(p[at + 1]) = -1
    BY <1>2, WeightIs
  <2> QED
    BY <1>5, <2>2, <2>3
<1>10. (z = 1 => x = 0) /\ (z > 1 => x >= 1 /\ p[x] = "[")
  <2>1. z = 1 => x = 0
    <3>1. top = frames[z] /\ frames[1].x = 0
      BY <1>1, TopIs DEF Inv, CallsInv
    <3> QED
      BY <1>3, <3>1
  <2>2. z > 1 => x >= 1 /\ p[x] = "["
    <3>1. SUFFICES ASSUME z > 1 PROVE x >= 1 /\ p[x] = "["
      OBVIOUS
    <3>2. PICK y : y = z - 1
      OBVIOUS
    <3>3. y \in 1 .. Len(frames) - 1 /\ y + 1 = z
      BY <1>1, <1>5, <3>1, <3>2
    <3>4. frames[y + 1].x = PlaceOf(y) /\ PlaceOf(y) >= 1 /\ p[PlaceOf(y)] = "["
      BY <3>3, CallChain
    <3> QED
      BY <1>1, <1>3, <3>3, <3>4, TopIs
  <2> QED
    BY <2>1, <2>2
<1> HIDE DEF d
<1> DEFINE Opens(j) == p[j] = "[" /\ d[at + 1] - d[j - 1] = 0
                       /\ \A m \in j .. (at + 1) - 1 : d[m] - d[j - 1] > 0
<1> DEFINE openings == {j \in 1 .. (at + 1) - 1 : Opens(j)}
<1>11. Machine!OpeningOf(at + 1) = IF openings = {} THEN 0 ELSE CHOOSE j \in openings : TRUE
  <2> DEFINE ops == {j \in 1 .. (at + 1) - 1 :
                       Machine!Program[j] = "[" /\ Machine!Balance(j, at + 1) = 0
                       /\ \A m \in j .. (at + 1) - 1 : Machine!Balance(j, m) > 0}
  <2>1. openings = ops
    BY <1>8 DEF Machine!Balance
  <2>2. Machine!OpeningOf(at + 1) = IF ops = {} THEN 0 ELSE CHOOSE j \in ops : TRUE
    BY DEF Machine!OpeningOf
  <2> HIDE DEF openings, ops
  <2> QED
    BY <2>1, <2>2
<1>12. \A k \in 0 .. Len(p) : d[k] \in Int
  BY <1>4
<1>13. ASSUME NEW j \in 1 .. at, Opens(j) PROVE j = x /\ z > 1
  <2>1. j - 1 \in 0 .. at /\ j \in 0 .. at /\ j - 1 \in 0 .. Len(p) /\ d[j - 1] \in Int
        /\ d[at + 1] - d[j - 1] = 0
    <3>1. j - 1 \in 0 .. at /\ j \in 0 .. at /\ j - 1 \in 0 .. Len(p)
      BY <1>4, <1>5
    <3> QED
      BY <1>12, <1>13, <3>1
  <2>2. d[j - 1] = z - 2
    BY <1>5, <1>9, <2>1
  <2>3. ~(j - 1 >= x)
    <3>1. SUFFICES ASSUME j - 1 >= x PROVE FALSE
      OBVIOUS
    <3>2. j - 1 \in x .. at
      BY <1>5, <1>6, <2>1, <3>1
    <3>3. d[j - 1] >= z - 1
      BY <1>7, <3>2
    <3> QED
      BY <1>5, <2>2, <3>3
  <2>4. j <= x /\ x >= 1
    BY <1>5, <1>6, <2>1, <2>3
  <2>5. z > 1
    BY <1>5, <1>10, <2>4
  <2>6. ~(j < x)
    <3>1. SUFFICES ASSUME j < x PROVE FALSE
      OBVIOUS
    <3>2. x - 1 \in j .. (at + 1) - 1 /\ x \in 1 .. Len(p) /\ x - 1 \in 0 .. Len(p)
      BY <1>4, <1>5, <1>6, <3>1
    <3>3. d[x - 1] - d[j - 1] > 0 /\ d[x - 1] \in Int
      BY <1>12, <1>13, <3>2
    <3>4. d[x] = d[x - 1] + Weight(p[x])
      BY <1>4, <3>2
    <3>5. Weight(p[x]) = 1
      BY <1>10, <2>5, WeightIs
    <3> QED
      BY <1>5, <1>6, <2>2, <3>3, <3>4, <3>5
  <2> QED
    BY <1>6, <2>1, <2>4, <2>5, <2>6
<1>14. ASSUME z > 1 PROVE x \in 1 .. at /\ Opens(x)
  <2>1. x \in 1 .. at /\ p[x] = "[" /\ x \in 1 .. Len(p) /\ x - 1 \in 0 .. Len(p)
    BY <1>4, <1>5, <1>6, <1>10, <1>14
  <2>2. d[x - 1] = z - 2
    <3>1. d[x] = d[x - 1] + Weight(p[x]) /\ Weight(p[x]) = 1
      BY <1>4, <2>1, WeightIs
    <3>2. d[x - 1] \in Int
      BY <1>12, <2>1
    <3> QED
      BY <1>5, <1>6, <3>1, <3>2
  <2>3. d[at + 1] - d[x - 1] = 0
    BY <1>5, <1>9, <2>2
  <2>4. ASSUME NEW m \in x .. (at + 1) - 1 PROVE d[m] - d[x - 1] > 0
    <3>1. m \in x .. at /\ m \in 0 .. Len(p)
      BY <1>4, <1>5, <1>6
    <3>2. d[m] >= z - 1 /\ d[m] \in Int
      BY <1>7, <1>12, <3>1
    <3> QED
      BY <1>5, <2>2, <3>2
  <2> QED
    BY <2>1, <2>3, <2>4
<1>15. (at + 1) - 1 = at
  BY <1>5
<1> HIDE DEF Opens
<1>16. Machine!OpeningOf(at + 1) = x
  <2>1. CASE z > 1
    <3>1. x \in openings /\ \A j \in openings : j = x
      BY <1>13, <1>14, <1>15, <2>1
    <3> HIDE DEF openings
    <3> QED
      BY <1>11, <3>1
  <2>2. CASE ~(z > 1)
    <3>1. openings = {}
      BY <1>13, <1>15, <2>2
    <3>2. z = 1
      BY <1>5, <2>2
    <3> QED
      BY <1>10, <1>11, <3>1, <3>2
  <2> QED
    BY <2>1, <2>2
<1>17. x # 0 <=> z > 1
  BY <1>5, <1>6, <1>10
<1> QED
  BY <1>1, <1>2, <1>3, <1>16, <1>17

-----------------------------------------------------------------------------
(* What is the program of a text, as it is read.                           *)
Commented(s, k) ==
  \E j \in 1 .. k - 1 : s[j] = "!" /\ \A m \in j .. k - 1 : s[m] # "newline"

CodeOf(f, s) ==
  [k \in 0 .. Len(s) |->
     IF k = 0 THEN <<>>
     ELSE IF s[k] \in Plain /\ ~Commented(s, k) THEN Append(f[k - 1], s[k]) ELSE f[k - 1]]

Code(s) == CHOOSE f : f = CodeOf(f, s)

LEMMA CodeExists ==
  ASSUME NEW s \in Seq(Chars)
  PROVE  \E f \in [0 .. Len(s) -> Seq(Chars)] : f = CodeOf(f, s)
<1> DEFINE n == Len(s)
<1> DEFINE step == [z \in Seq(Chars) \X (1 .. n) |->
                      IF s[z[2]] \in Plain /\ ~Commented(s, z[2])
                      THEN Append(z[1], s[z[2]]) ELSE z[1]]
<1>1. n \in Nat /\ \A k \in 1 .. n : s[k] \in Chars
  OBVIOUS
<1>2. step \in [Seq(Chars) \X (1 .. n) -> Seq(Chars)]
  <2>1. ASSUME NEW z \in Seq(Chars) \X (1 .. n)
        PROVE  (IF s[z[2]] \in Plain /\ ~Commented(s, z[2])
                THEN Append(z[1], s[z[2]]) ELSE z[1]) \in Seq(Chars)
    <3>1. z[1] \in Seq(Chars) /\ s[z[2]] \in Chars
      BY <1>1
    <3>2. Append(z[1], s[z[2]]) \in Seq(Chars)
      BY <3>1, AppendProperties
    <3> QED
      BY <3>1, <3>2
  <2> QED
    BY <2>1
<1> HIDE DEF step
<1>3. PICK f \in [0 .. n -> Seq(Chars)] : IteratesTo(f, <<>>, step, n)
  <2>1. <<>> \in Seq(Chars)
    OBVIOUS
  <2> QED
    BY <1>1, <1>2, <2>1, Iterates, Zenon
<1>4. ASSUME NEW k \in 0 .. n
      PROVE  f[k] = IF k = 0 THEN <<>>
                    ELSE IF s[k] \in Plain /\ ~Commented(s, k) THEN Append(f[k - 1], s[k])
                         ELSE f[k - 1]
  <2>1. CASE k = 0
    BY <1>3, <2>1 DEF IteratesTo
  <2>2. CASE k # 0
    <3>1. k \in 1 .. n /\ k - 1 \in 0 .. n
      BY <1>1, <2>2
    <3>2. f[k] = step[<<f[k - 1], k>>]
      BY <1>3, <3>1 DEF IteratesTo
    <3>3. <<f[k - 1], k>> \in Seq(Chars) \X (1 .. n)
      BY <1>3, <3>1
    <3>4. <<f[k - 1], k>>[1] = f[k - 1] /\ <<f[k - 1], k>>[2] = k
      OBVIOUS
    <3> QED
      BY <2>2, <3>2, <3>3, <3>4, Zenon DEF step
  <2> QED
    BY <2>1, <2>2
<1>5. f = [k \in 0 .. n |-> f[k]]
  BY <1>3
<1>6. f = CodeOf(f, s)
  BY <1>4, <1>5, Zenon DEF CodeOf
<1> QED
  BY <1>3, <1>6

LEMMA CodeIs ==
  ASSUME NEW s \in Seq(Chars)
  PROVE  /\ Code(s)[0] = <<>>
         /\ \A k \in 1 .. Len(s) :
              Code(s)[k] = IF s[k] \in Plain /\ ~Commented(s, k)
                           THEN Append(Code(s)[k - 1], s[k]) ELSE Code(s)[k - 1]
<1>1. Code(s) = CodeOf(Code(s), s)
  BY CodeExists DEF Code
<1>2. Len(s) \in Nat
  OBVIOUS
<1>3. CodeOf(Code(s), s)[0] = <<>>
  BY <1>2 DEF CodeOf
<1>4. ASSUME NEW k \in 1 .. Len(s)
      PROVE  CodeOf(Code(s), s)[k] = IF s[k] \in Plain /\ ~Commented(s, k)
                                     THEN Append(Code(s)[k - 1], s[k]) ELSE Code(s)[k - 1]
  <2>1. k \in 0 .. Len(s) /\ k # 0
    BY <1>2
  <2> QED
    BY <2>1, Zenon DEF CodeOf
<1> QED
  BY <1>1, <1>3, <1>4, Zenon

LEMMA ProgramIs == ASSUME ~braincrash PROVE Machine!Program = Code(source)[Len(source)]
<1>1. Plainly(source, <<>>) = source
  BY DEF Plainly
<1>2. Machine!Commands = Plain
  BY DEF Machine!Commands, Plain
<1>3. \A k : Machine!InComment(k) <=> Commented(source, k)
  BY <1>1, Zenon DEF Machine!InComment, Commented
<1> QED
  BY <1>1, <1>2, <1>3, Zenon DEF Machine!Program, Code, CodeOf

-----------------------------------------------------------------------------
(* In plain mode the program read is the text's, and nothing is dumped.    *)
PlainInv ==
  /\ stage = "dump" => braincrash
  /\ ~braincrash => p = Code(source)[read - 1] /\ (comment <=> Commented(source, read))

LEMMA CommentedIs ==
  ASSUME NEW s, NEW k \in Nat \ {0}
  PROVE  Commented(s, k + 1) <=> IF Commented(s, k) THEN s[k] # "newline" ELSE s[k] = "!"
<1>1. k + 1 - 1 = k /\ k \in k .. k /\ k \in 1 .. k /\ 1 .. k - 1 \subseteq 1 .. k
      /\ \A m \in k .. k : m = k
  OBVIOUS
<1>2. \A j \in 1 .. k : j = k \/ j \in 1 .. k - 1
  OBVIOUS
<1>3. \A j \in 1 .. k - 1 : \A m \in j .. k : m = k \/ m \in j .. k - 1
  OBVIOUS
<1>4. \A j \in 1 .. k - 1 : k \in j .. k /\ j .. k - 1 \subseteq j .. k
  OBVIOUS
<1>5. Commented(s, k + 1) <=> \E j \in 1 .. k : s[j] = "!" /\ \A m \in j .. k : s[m] # "newline"
  BY <1>1 DEF Commented
<1>6. CASE Commented(s, k)
  <2>1. PICK j \in 1 .. k - 1 : s[j] = "!" /\ \A m \in j .. k - 1 : s[m] # "newline"
    BY <1>6 DEF Commented
  <2>2. s[k] # "newline" => Commented(s, k + 1)
    BY <1>1, <1>3, <1>5, <2>1, Zenon
  <2>3. Commented(s, k + 1) => s[k] # "newline"
    BY <1>1, <1>2, <1>4, <1>5
  <2> QED
    BY <1>6, <2>2, <2>3
<1>7. CASE ~Commented(s, k)
  <2>1. s[k] = "!" => Commented(s, k + 1)
    BY <1>1, <1>5
  <2>2. Commented(s, k + 1) => s[k] = "!"
    <3>1. SUFFICES ASSUME Commented(s, k + 1), s[k] # "!" PROVE Commented(s, k)
      BY <1>7
    <3>2. PICK j \in 1 .. k : s[j] = "!" /\ \A m \in j .. k : s[m] # "newline"
      BY <1>5, <3>1
    <3>3. j \in 1 .. k - 1
      BY <1>2, <3>1, <3>2
    <3> QED
      BY <1>4, <3>2, <3>3 DEF Commented
  <2> QED
    BY <1>7, <2>1, <2>2
<1> QED
  BY <1>6, <1>7

LEMMA PlainInit == Init => PlainInv
<1> SUFFICES ASSUME Init PROVE PlainInv
  OBVIOUS
<1>1. source \in Seq(Chars) /\ p = <<>> /\ read = 1 /\ comment = FALSE /\ stage = "read"
  BY TextsAssumption DEF Init, Chars
<1>2. Code(source)[0] = <<>>
  BY <1>1, CodeIs
<1>3. ~Commented(source, 1)
  BY DEF Commented
<1>4. read - 1 = 0
  BY <1>1
<1> QED
  BY <1>1, <1>2, <1>3, <1>4 DEF PlainInv

LEMMA PlainRead == ASSUME Inv, PlainInv, ReadChar PROVE PlainInv'
<1>1. source' = source /\ braincrash' = braincrash /\ stage' = stage /\ read' = read + 1
      /\ read <= Len(source)
  BY DEF ReadChar, filevars
<1>2. source \in Seq(Chars) /\ read \in 1 .. Len(source) /\ read \in Nat \ {0} /\ comment \in BOOLEAN
  BY <1>1 DEF Inv, ReadInv
<1>3. ASSUME ~braincrash PROVE p' = Code(source)[read] /\ (comment' <=> Commented(source, read + 1))
  <2>1. p = Code(source)[read - 1] /\ (comment <=> Commented(source, read))
    BY <1>3 DEF PlainInv
  <2>2. Keeps <=> source[read] \in Plain /\ ~Commented(source, read)
    BY <1>3, <2>1 DEF Keeps, c
  <2>3. p' = IF Keeps THEN Append(p, source[read]) ELSE p
    BY DEF ReadChar, c
  <2>4. Code(source)[read] = IF source[read] \in Plain /\ ~Commented(source, read)
                             THEN Append(Code(source)[read - 1], source[read])
                             ELSE Code(source)[read - 1]
    BY <1>2, CodeIs
  <2>5. p' = Code(source)[read]
    BY <2>1, <2>2, <2>3, <2>4, Zenon
  <2>6. comment' = IF comment THEN source[read] # "newline" ELSE source[read] = "!"
    BY DEF ReadChar, c
  <2>7. Commented(source, read + 1) <=> IF Commented(source, read) THEN source[read] # "newline"
                                        ELSE source[read] = "!"
    BY <1>2, CommentedIs
  <2> QED
    BY <2>1, <2>5, <2>6, <2>7
<1>4. read' - 1 = read
  BY <1>1, <1>2
<1>5. ~braincrash => p' = Code(source')[read' - 1]
  BY <1>1, <1>3, <1>4
<1>6. ~braincrash => (comment' <=> Commented(source', read'))
  BY <1>1, <1>3
<1> QED
  BY <1>1, <1>5, <1>6 DEF PlainInv

LEMMA PlainStep == ASSUME Inv, PlainInv, [Next]_vars PROVE PlainInv'
<1>1. CASE ReadChar
  BY <1>1, PlainRead
<1>2. ASSUME UNCHANGED filevars, UNCHANGED loadvars, stage' = "dump" => braincrash
      PROVE  PlainInv'
  <2>1. source' = source /\ braincrash' = braincrash /\ read' = read /\ comment' = comment /\ p' = p
    BY <1>2 DEF filevars, loadvars
  <2> QED
    BY <1>2, <2>1 DEF PlainInv
<1>3. UNCHANGED vars \/ ReadChar \/ (UNCHANGED filevars /\ UNCHANGED loadvars)
  BY Zenon DEF Next, StartRun, Right, Left, Inc, Dec, In, Out, Step, Open, Close, SearchChar, End,
               Dump, Operation, Leave, Astray
<1>4. stage' = "dump" => braincrash \/ ReadChar
  <2>1. CASE ReadChar \/ UNCHANGED vars
    BY <2>1 DEF PlainInv, vars
  <2>2. CASE StartRun
    BY <2>2 DEF StartRun
  <2>3. CASE Right \/ Left \/ Inc \/ Dec \/ In \/ Out \/ Open \/ SearchChar
    BY <2>3 DEF Right, Left, Inc, Dec, In, Out, Step, Open, SearchChar, Executes, PlainInv
  <2>4. CASE Close \/ Operation
    BY <2>4 DEF Close, Operation, Return, Executes
  <2>5. CASE End
    BY <2>5 DEF End, Return
  <2>6. CASE Dump \/ Leave \/ Astray
    BY <2>6 DEF Dump, Leave, Astray, PlainInv
  <2> QED
    BY <2>1, <2>2, <2>3, <2>4, <2>5, <2>6, Zenon DEF Next
<1>5. CASE UNCHANGED vars
  <2>1. UNCHANGED filevars /\ UNCHANGED loadvars /\ stage' = stage
    BY <1>5 DEF vars
  <2> QED
    BY <1>2, <2>1 DEF PlainInv
<1> QED
  BY <1>1, <1>2, <1>3, <1>4, <1>5

-----------------------------------------------------------------------------
(* What the flat program's variables are in plain mode.                    *)
FlatPc == Plainly(IF marker = 0 THEN Position + 1 ELSE Found(Position, marker) + 1, 1)

FlatStatus ==
  Plainly(CASE stage = "error" -> "refused"
            [] stage = "done" -> "halted"
            [] stage = "astray" /\ Len(p) = Len(source) -> "halted"
            [] stage = "crashed" -> "crashed"
            [] stage \in {"read", "run"} -> "run", "run")

FlatTape == Plainly(tape, [k \in Cells |-> 0])

FlatA == Plainly(a, 0)

FlatOut == Plainly(out, [n |-> 0, byte |-> 0])

LEMMA FlatIs ==
  ASSUME ~braincrash
  PROVE  /\ FlatPc = PcOf(Position, marker) /\ FlatTape = tape /\ FlatA = a /\ FlatOut = out
         /\ Plainly(source, <<>>) = source
         /\ stage \in {"read", "run"} => FlatStatus = "run"
         /\ stage = "error" => FlatStatus = "refused"
         /\ stage = "done" => FlatStatus = "halted"
         /\ stage = "crashed" => FlatStatus = "crashed"
         /\ stage = "astray" /\ Len(p) = Len(source) => FlatStatus = "halted"
BY DEF FlatPc, FlatTape, FlatA, FlatOut, FlatStatus, Plainly, PcOf

LEMMA FlatIsNext ==
  ASSUME ~braincrash, braincrash' = braincrash, p' = p, source' = source
  PROVE  /\ FlatPc' = PcOf(Position', marker') /\ FlatTape' = tape' /\ FlatA' = a'
         /\ FlatOut' = out' /\ Plainly(source, <<>>)' = source
         /\ stage' \in {"read", "run"} => FlatStatus' = "run"
         /\ stage' = "error" => FlatStatus' = "refused"
         /\ stage' = "done" => FlatStatus' = "halted"
         /\ stage' = "crashed" => FlatStatus' = "crashed"
         /\ stage' = "astray" /\ Len(p) = Len(source) => FlatStatus' = "halted"
BY DEF FlatPc, FlatTape, FlatA, FlatOut, FlatStatus, Plainly, PcOf, Found, StillOpen

LEMMA PlainRun ==
  ASSUME Inv, PlainInv, ~braincrash, stage = "run"
  PROVE  /\ Machine!Program = p /\ p \in Seq(Chars) /\ Len(p) \in Nat /\ Len(p) <= Len(source)
         /\ Machine!Accepted /\ FlatStatus = "run" /\ FlatPc = PcOf(Position, marker)
         /\ Level(p)[Len(p)] = 0
<1>1. p \in Seq(Chars) /\ source \in Seq(Chars) /\ Len(p) \in Nat /\ Len(source) \in Nat
  BY DEF Inv, ReadInv
<1>2. read = Len(source) + 1 /\ i = 0 /\ i = Level(p)[Len(p)] /\ Len(p) <= read - 1
  BY DEF Inv, ReadInv, Open_
<1>3. read - 1 = Len(source)
  BY <1>1, <1>2
<1>4. p = Code(source)[Len(source)]
  BY <1>3 DEF PlainInv
<1>5. Machine!Program = p
  BY <1>4, ProgramIs
<1>6. Machine!Depth[Len(p)] = 0
  BY <1>1, <1>2, <1>5, DepthIs
<1>7. Machine!Accepted
  BY <1>5, <1>6 DEF Machine!Accepted
<1> QED
  BY <1>1, <1>2, <1>3, <1>5, <1>7, FlatIs

LEMMA RunningIs ==
  ASSUME Inv, PlainInv, ~braincrash, NEW char \in Plain, Executes(char)
  PROVE  /\ Machine!Running(char) /\ FlatPc = Position + 1 /\ Position < Len(p)
         /\ p[Position + 1] = char /\ stage = "run" /\ marker = 0
<1>1. stage = "run" /\ marker = 0 /\ Fetched = char /\ char \notin {"end", "unknown"}
  BY DEF Executes, Plain
<1>2. Position < Len(p) /\ p[Position + 1] = char /\ Position \in Nat /\ Len(p) \in Nat
  BY <1>1, TopIs
<1>3. Machine!Program = p /\ Machine!Accepted /\ FlatStatus = "run" /\ FlatPc = PcOf(Position, marker)
  BY <1>1, PlainRun
<1>4. FlatPc = Position + 1
  BY <1>1, <1>3 DEF PcOf
<1>5. Position + 1 <= Len(p)
  BY <1>2
<1>6. Machine!Running(char)
  BY <1>2, <1>3, <1>4, <1>5 DEF Machine!Running, FlatPc, FlatStatus
<1> QED
  BY <1>1, <1>2, <1>4, <1>6

LEMMA StepFlat ==
  ASSUME Inv, PlainInv, ~braincrash, NEW char \in Plain \ {"[", "]"}, Executes(char), Step
  PROVE  Machine!Running(char) /\ Machine!Step
<1>1. /\ Machine!Running(char) /\ FlatPc = Position + 1
      /\ stage = "run" /\ marker = 0
  BY RunningIs
<1>2. Position' = Position + 1 /\ Position \in Nat
  BY CommandInv, TopIs
<1>3. braincrash' = braincrash /\ p' = p /\ source' = source /\ stage' = "run" /\ marker' = 0
  BY <1>1 DEF Step, filevars, loadvars
<1>4. FlatPc' = PcOf(Position', marker') /\ Plainly(source, <<>>)' = source /\ FlatStatus' = "run"
  BY <1>3, FlatIsNext
<1>5. FlatStatus = "run" /\ Plainly(source, <<>>) = source
  BY <1>1, FlatIs
<1>6. FlatPc' = FlatPc + 1
  BY <1>1, <1>2, <1>3, <1>4 DEF PcOf
<1>7. Machine!Step
  BY <1>4, <1>5, <1>6 DEF Machine!Step, FlatPc, FlatStatus
<1> QED
  BY <1>1, <1>7

LEMMA CommandFlat ==
  ASSUME Inv, PlainInv, ~braincrash, Right \/ Left \/ Inc \/ Dec \/ In \/ Out
  PROVE  Machine!BfNext
<1>1. Step /\ stage = "run"
  BY DEF Right, Left, Inc, Dec, In, Out, Executes
<1>2. braincrash' = braincrash /\ p' = p /\ source' = source
  BY <1>1 DEF Step, filevars, loadvars
<1>3. FlatTape = tape /\ FlatA = a /\ FlatOut = out /\ FlatTape' = tape' /\ FlatA' = a' /\ FlatOut' = out'
  BY <1>2, FlatIs, FlatIsNext
<1>4. {">", "<", "+", "-", ".", ","} \subseteq Plain \ {"[", "]"}
  BY DEF Plain
<1>5. CASE Right
  <2>1. Executes(">") /\ a' = a + 1 /\ tape' = tape /\ out' = out
    BY <1>5 DEF Right
  <2>2. Machine!Running(">") /\ Machine!Step
    BY <1>1, <1>4, <2>1, StepFlat
  <2>3. Machine!Right
    BY <1>3, <2>1, <2>2 DEF Machine!Right, FlatTape, FlatA, FlatOut
  <2> QED
    BY <2>3 DEF Machine!BfNext
<1>6. CASE Left
  <2>1. Executes("<") /\ a' = a - 1 /\ tape' = tape /\ out' = out
    BY <1>6 DEF Left
  <2>2. Machine!Running("<") /\ Machine!Step
    BY <1>1, <1>4, <2>1, StepFlat
  <2>3. Machine!Left
    BY <1>3, <2>1, <2>2 DEF Machine!Left, FlatTape, FlatA, FlatOut
  <2> QED
    BY <2>3 DEF Machine!BfNext
<1>7. ASSUME NEW v, Put(v), a' = a PROVE Machine!Put(v % 2 ^ CellBits)
  <2>1. a \in Cells /\ tape' = [tape EXCEPT ![a] = v % 2 ^ CellBits]
    BY <1>7 DEF Put, OnTape
  <2>2. Machine!OnTape
    BY <1>3, <2>1 DEF Machine!OnTape, FlatA
  <2>3. FlatTape' = [FlatTape EXCEPT ![FlatA] = v % 2 ^ CellBits] /\ FlatA' = FlatA
    BY <1>3, <1>7, <2>1
  <2> QED
    BY <2>2, <2>3 DEF Machine!Put, FlatA, FlatTape
<1>8. CASE Inc
  <2>1. Executes("+") /\ Put(tape[a] + 1) /\ a' = a /\ out' = out
    BY <1>8 DEF Inc
  <2>2. Machine!Running("+") /\ Machine!Step
    BY <1>1, <1>4, <2>1, StepFlat
  <2>3. Machine!Put((FlatTape[FlatA] + 1) % 2 ^ CellBits)
    BY <1>3, <1>7, <2>1
  <2>4. Machine!Inc
    BY <1>3, <2>1, <2>2, <2>3 DEF Machine!Inc, FlatTape, FlatA, FlatOut
  <2> QED
    BY <2>4 DEF Machine!BfNext
<1>9. CASE Dec
  <2>1. Executes("-") /\ Put(tape[a] - 1) /\ a' = a /\ out' = out
    BY <1>9 DEF Dec
  <2>2. Machine!Running("-") /\ Machine!Step
    BY <1>1, <1>4, <2>1, StepFlat
  <2>3. Machine!Put((FlatTape[FlatA] - 1) % 2 ^ CellBits)
    BY <1>3, <1>7, <2>1
  <2>4. Machine!Dec
    BY <1>3, <2>1, <2>2, <2>3 DEF Machine!Dec, FlatTape, FlatA, FlatOut
  <2> QED
    BY <2>4 DEF Machine!BfNext
<1>10. CASE In
  <2>1. Executes(",") /\ a' = a /\ out' = out
    BY <1>10 DEF In
  <2>2. PICK byte \in 0 .. 2 ^ CellBits - 1 : Put(byte)
    BY <1>10 DEF In
  <2>3. Machine!Running(",") /\ Machine!Step
    BY <1>1, <1>4, <2>1, StepFlat
  <2>4. byte % 2 ^ CellBits \in Machine!Cell
    <3>1. PICK n : n = 2 ^ CellBits
      OBVIOUS
    <3>2. n \in Nat \ {0}
      BY <3>1, CellAssumption
    <3>3. byte \in Int
      BY <3>1, <3>2
    <3>4. byte % n \in 0 .. n - 1
      BY <3>2, <3>3
    <3> QED
      BY <3>1, <3>4 DEF Machine!Cell
  <2>5. \E v \in Machine!Cell : Machine!Put(v)
    BY <1>7, <2>1, <2>2, <2>4
  <2>6. Machine!In
    BY <1>3, <2>1, <2>3, <2>5 DEF Machine!In, FlatOut
  <2> QED
    BY <2>6 DEF Machine!BfNext
<1>11. CASE Out
  <2>1. Executes(".") /\ a' = a /\ tape' = tape /\ a \in Cells
        /\ out' = [n |-> 1 - out.n, byte |-> tape[a]]
    BY <1>11 DEF Out, PutChar, OnTape
  <2>2. Machine!Running(".") /\ Machine!Step
    BY <1>1, <1>4, <2>1, StepFlat
  <2>3. FlatOut' = [n |-> 1 - FlatOut.n, byte |-> FlatTape[FlatA]] /\ FlatA \in Cells
        /\ FlatTape' = FlatTape /\ FlatA' = FlatA
    BY <1>3, <2>1
  <2>4. Machine!Out
    BY <2>2, <2>3 DEF Machine!Out, Machine!OnTape, FlatTape, FlatA, FlatOut
  <2> QED
    BY <2>4 DEF Machine!BfNext
<1> QED
  BY <1>5, <1>6, <1>8, <1>9, <1>10, <1>11

LEMMA JumpFlat ==
  ASSUME ~braincrash, stage = "run", stage' = "run", UNCHANGED filevars, UNCHANGED loadvars,
         UNCHANGED cellvars, NEW k, PcOf(Position', marker') = k
  PROVE  Machine!Jump(k)
<1>1. braincrash' = braincrash /\ p' = p /\ source' = source /\ tape' = tape /\ a' = a /\ out' = out
  BY DEF filevars, loadvars, cellvars
<1>2. FlatPc' = k /\ FlatTape' = FlatTape /\ FlatA' = FlatA /\ FlatOut' = FlatOut
      /\ FlatStatus' = FlatStatus /\ Plainly(source, <<>>)' = Plainly(source, <<>>)
  BY <1>1, FlatIs, FlatIsNext
<1> QED
  BY <1>2 DEF Machine!Jump, FlatPc, FlatTape, FlatA, FlatOut, FlatStatus

LEMMA OpenFlat == ASSUME Inv, PlainInv, ~braincrash, Open PROVE Machine!BfNext
<1>1. Executes("[") /\ a \in Cells /\ "[" \in Plain /\ stage' = stage
      /\ UNCHANGED filevars /\ UNCHANGED loadvars /\ UNCHANGED cellvars
  BY DEF Open, OnTape, Plain
<1>2. /\ Machine!Running("[") /\ FlatPc = Position + 1 /\ Position < Len(p) /\ p[Position + 1] = "["
      /\ stage = "run" /\ marker = 0
  BY <1>1, RunningIs
<1>3. Position' = Position + 1 /\ Inv'
  BY OpenInv
<1>4. PICK at : at = Position
  OBVIOUS
<1>5. at \in Nat /\ Machine!Program = p /\ p \in Seq(Chars) /\ Len(p) \in Nat /\ at < Len(p)
  BY <1>2, <1>4, PlainRun, TopIs
<1>6. FlatTape = tape /\ FlatA = a /\ Machine!OnTape
  BY <1>1, FlatIs DEF Machine!OnTape, FlatA
<1>7. CASE tape[a] # 0
  <2>1. marker' = 0
    BY <1>2, <1>7 DEF Open, Call
  <2>2. PcOf(Position', marker') = FlatPc + 1
    BY <1>2, <1>3, <2>1 DEF PcOf
  <2>3. Machine!Jump(FlatPc + 1)
    BY <1>1, <1>2, <2>2, JumpFlat
  <2>4. Machine!Open
    BY <1>2, <1>6, <1>7, <2>3 DEF Machine!Open, FlatPc, FlatTape, FlatA
  <2> QED
    BY <2>4 DEF Machine!BfNext
<1>8. CASE ~(tape[a] # 0)
  <2>1. marker' = 1 /\ Len(frames') = Len(frames) /\ p' = p
    BY <1>1, <1>8, AdvancedIs DEF Open, Search, loadvars
  <2>2. PICK l : l = Len(frames) - 1
    OBVIOUS
  <2>3. l \in Nat
    BY <2>2, TopIs
  <2>4. PICK b : b = at + 1
    OBVIOUS
  <2>5. Level(p)[b] = l + 1 /\ Level(p)[at] = l
    <3>1. Level(p)[b] = Level(p)[at] + Weight(p[b])
      BY <1>5, <2>4, LevelStep
    <3>2. Weight(p[b]) = 1
      BY <1>2, <1>4, <2>4, WeightIs
    <3>3. Level(p)[at] = l + 0
      BY <1>2, <1>4, <2>2, TopIs
    <3> QED
      BY <2>3, <3>1, <3>2, <3>3
  <2>6. Level(p)[Len(p)] = 0
    BY <1>2, PlainRun
  <2>7. b \in 0 .. Len(p) - 1 /\ b \in 0 .. Len(p)
    <3>1. b # Len(p)
      BY <2>3, <2>5, <2>6
    <3> QED
      BY <1>5, <2>4, <3>1
  <2>8. PICK j : FirstAt(p, b, l, j)
    <3>1. Level(p)[b] >= l /\ Level(p)[Len(p)] <= l /\ l \in Int
      BY <2>3, <2>5, <2>6
    <3> QED
      BY <1>5, <2>7, <3>1, FirstExists
  <2>9. PcOf(b, 1) = j + 1
    BY <1>5, <2>3, <2>5, <2>7, <2>8, PcIs
  <2>10. Machine!ClosingOf(b + 1, 1) = j
    BY <1>5, <2>3, <2>5, <2>7, <2>8, ClosingIs
  <2>11. FlatPc + 1 = b + 1
    BY <1>2, <1>4, <2>4
  <2>12. PcOf(Position', marker') = Machine!ClosingOf(FlatPc + 1, 1) + 1
    BY <1>3, <1>4, <2>1, <2>4, <2>9, <2>10, <2>11
  <2>13. Machine!Jump(Machine!ClosingOf(FlatPc + 1, 1) + 1)
    BY <1>1, <1>2, <2>12, JumpFlat
  <2>14. Machine!Open
    BY <1>2, <1>6, <1>8, <2>13 DEF Machine!Open, FlatPc, FlatTape, FlatA
  <2> QED
    BY <2>14 DEF Machine!BfNext
<1> QED
  BY <1>7, <1>8

(* The end of the program, and of the run.                                 *)
LEMMA HaltFlat ==
  ASSUME Inv, PlainInv, ~braincrash, stage = "run", UNCHANGED filevars, UNCHANGED loadvars,
         UNCHANGED cellvars, UNCHANGED runvars, FlatStatus' = "halted",
         \/ FlatPc = Len(p) + 1
         \/ Machine!Running("]") /\ a \in Cells /\ tape[a] = 0 /\ Machine!OpeningOf(FlatPc) = 0
  PROVE  Machine!BfNext
<1>1. braincrash' = braincrash /\ p' = p /\ source' = source /\ tape' = tape /\ a' = a /\ out' = out
      /\ marker' = marker
  BY DEF filevars, loadvars, cellvars, runvars
<1>2. Position' = Position
  BY CallsSame DEF loadvars
<1>3. FlatPc' = FlatPc /\ FlatTape' = FlatTape /\ FlatA' = FlatA /\ FlatOut' = FlatOut
      /\ Plainly(source, <<>>)' = Plainly(source, <<>>)
  BY <1>1, <1>2, FlatIs, FlatIsNext
<1>4. FlatStatus = "run" /\ Machine!Accepted /\ Machine!Program = p /\ FlatA = a /\ FlatTape = tape
  BY PlainRun, FlatIs
<1>5. \/ FlatPc = Len(Machine!Program) + 1
      \/ Machine!Running("]") /\ Machine!OnTape /\ FlatTape[FlatA] = 0 /\ Machine!OpeningOf(FlatPc) = 0
  BY <1>4 DEF Machine!OnTape, FlatA
<1>6. Machine!Halt
  BY <1>3, <1>4, <1>5 DEF Machine!Halt, FlatPc, FlatTape, FlatA, FlatOut, FlatStatus
<1> QED
  BY <1>6 DEF Machine!BfNext

LEMMA CloseFlat == ASSUME Inv, PlainInv, ~braincrash, Close PROVE Machine!BfNext
<1>1. Executes("]") /\ a \in Cells /\ "]" \in Plain
      /\ UNCHANGED filevars /\ UNCHANGED loadvars /\ UNCHANGED cellvars
  BY DEF Close, OnTape, Plain
<1>2. /\ Machine!Running("]") /\ FlatPc = Position + 1 /\ Position < Len(p) /\ p[Position + 1] = "]"
      /\ stage = "run" /\ marker = 0
  BY <1>1, RunningIs
<1>3. Inv' /\ (tape[a] # 0 \/ Len(frames) > 1 => Position' = top.x)
  BY CloseInv
<1>4. PICK at : at = Position
  OBVIOUS
<1>5. PICK x : x = top.x
  OBVIOUS
<1>6. at \in Nat /\ Machine!Program = p /\ p \in Seq(Chars) /\ Len(p) \in Nat /\ at < Len(p)
  BY <1>2, <1>4, PlainRun, TopIs
<1>7. FlatTape = tape /\ FlatA = a /\ Machine!OnTape
  BY <1>1, FlatIs DEF Machine!OnTape, FlatA
<1>8. Machine!OpeningOf(FlatPc) = x /\ (x # 0 <=> Len(frames) > 1)
  BY <1>2, <1>5, <1>6, OpeningIs
<1>9. x \in 0 .. at /\ Level(p)[x] = Len(frames) - 1
  BY <1>4, <1>5, CallStart
<1>10. CASE tape[a] # 0
  <2>1. marker' = 0 /\ stage' = "run"
    BY <1>2, <1>10 DEF Close
  <2>2. PcOf(Position', marker') = Machine!OpeningOf(FlatPc) + 1
    BY <1>3, <1>5, <1>8, <1>10, <2>1 DEF PcOf
  <2>3. Machine!Jump(Machine!OpeningOf(FlatPc) + 1)
    BY <1>1, <1>2, <2>1, <2>2, JumpFlat
  <2>4. Machine!Close
    BY <1>2, <1>7, <1>10, <2>3 DEF Machine!Close, FlatPc, FlatTape, FlatA
  <2> QED
    BY <2>4 DEF Machine!BfNext
<1>11. CASE tape[a] = 0 /\ Len(frames) > 1
  <2>1. marker' = 1 /\ stage' = "run"
    BY <1>2, <1>11 DEF Close, Return
  <2>2. PICK l : l = Len(frames) - 2
    OBVIOUS
  <2>3. l \in Nat /\ Len(frames) - 1 = l + 1
    BY <1>11, <2>2, TopIs
  <2>4. PICK j : j = at + 1
    OBVIOUS
  <2>5. \A k \in x .. at : Level(p)[k] > l
    <3>1. PICK z : z = Len(frames)
      OBVIOUS
    <3>2. z \in Nat /\ z >= 1 /\ FrameInv(z) /\ top = frames[z] /\ at = PlaceOf(z)
      <4>1. Len(frames) \in 1 .. Len(frames)
        BY TopIs
      <4> QED
        BY <1>4, <3>1, <4>1, CallAt, TopIs
    <3>3. \A k \in frames[z].x .. PlaceOf(z) : Level(p)[k] >= z - 1
      BY <3>2, Zenon DEF FrameInv
    <3>4. \A k \in x .. at : Level(p)[k] >= l + 1
      BY <1>5, <2>3, <3>1, <3>2, <3>3
    <3>5. \A k \in x .. at : Level(p)[k] \in Int
      <4>1. Level(p) \in [0 .. Len(p) -> Int] /\ \A k \in x .. at : k \in 0 .. Len(p)
        BY <1>6, <1>9, LevelIs
      <4> QED
        BY <4>1
    <3> QED
      BY <2>3, <3>4, <3>5
  <2>6. Level(p)[j] = l
    <3>1. Level(p)[j] = Level(p)[at] + Weight(p[j])
      BY <1>6, <2>4, LevelStep
    <3>2. Weight(p[j]) = -1
      BY <1>2, <1>4, <2>4, WeightIs
    <3>3. Level(p)[at] = Len(frames) - 1 + 0
      BY <1>2, <1>4, TopIs
    <3> QED
      BY <2>3, <3>1, <3>2, <3>3
  <2>7. FirstAt(p, x, l, j)
    <3>1. j \in x .. Len(p) /\ x .. j - 1 = x .. at
      BY <1>6, <1>9, <2>4
    <3> QED
      BY <2>5, <2>6, <3>1 DEF FirstAt
  <2>8. PcOf(x, 1) = j + 1
    <3>1. x \in 0 .. Len(p) /\ Level(p)[x] = l + 1 /\ l \in Int
      BY <1>6, <1>9, <2>3
    <3> QED
      BY <1>6, <2>7, <3>1, PcIs
  <2>9. PcOf(Position', marker') = FlatPc + 1
    BY <1>2, <1>3, <1>4, <1>5, <1>11, <2>1, <2>4, <2>8
  <2>10. Machine!Jump(FlatPc + 1)
    BY <1>1, <1>2, <2>1, <2>9, JumpFlat
  <2>11. Machine!OpeningOf(FlatPc) # 0
    BY <1>8, <1>11
  <2>12. Machine!Close
    BY <1>2, <1>7, <1>11, <2>10, <2>11 DEF Machine!Close, FlatPc, FlatTape, FlatA
  <2> QED
    BY <2>12 DEF Machine!BfNext
<1>12. CASE tape[a] = 0 /\ ~(Len(frames) > 1)
  <2>1. stage' = "done" /\ UNCHANGED runvars /\ braincrash' = braincrash /\ p' = p /\ source' = source
    BY <1>1, <1>12 DEF Close, Return, filevars, loadvars
  <2>2. FlatStatus' = "halted"
    BY <2>1, FlatIsNext
  <2>3. Machine!OpeningOf(FlatPc) = 0
    BY <1>8, <1>12
  <2> QED
    BY <1>1, <1>2, <1>12, <2>1, <2>2, <2>3, HaltFlat
<1> QED
  BY <1>10, <1>11, <1>12

LEMMA SearchFlat ==
  ASSUME Inv, PlainInv, ~braincrash, SearchChar
  PROVE  UNCHANGED <<FlatPc, FlatTape, FlatA, FlatOut, FlatStatus, Plainly(source, <<>>)>>
<1>1. stage = "run" /\ marker > 0 /\ Position < Len(p) /\ stage' = "run" /\ p' = p
      /\ UNCHANGED filevars /\ UNCHANGED cellvars
  BY DEF SearchChar, loadvars
<1>2. Inv' /\ Position' = Position + 1 /\ marker' = marker + Weight(p[Position + 1])
  BY SearchCharInv
<1>3. PICK at : at = Position
  OBVIOUS
<1>4. PICK m : m = marker
  OBVIOUS
<1>5. PICK l : l = Len(frames) - 1
  OBVIOUS
<1>6. at \in Nat /\ p \in Seq(Chars) /\ Len(p) \in Nat /\ at < Len(p) /\ m \in Nat /\ m > 0
      /\ l \in Nat /\ Level(p)[at] = l + m /\ Level(p)[Len(p)] = 0
  BY <1>1, <1>3, <1>4, <1>5, PlainRun, TopIs DEF Inv, CallsInv
<1>7. PICK w : w = Weight(p[at + 1])
  OBVIOUS
<1>8. PICK b : b = at + 1
  OBVIOUS
<1>9. w \in {-1, 0, 1} /\ b \in 0 .. Len(p) /\ at \in 0 .. Len(p) /\ m + w \in Nat
  BY <1>6, <1>7, <1>8, WeightIs
<1>10. Level(p)[b] = l + (m + w)
  <2>1. Level(p)[b] = Level(p)[at] + w
    BY <1>6, <1>7, <1>8, LevelStep
  <2> QED
    BY <1>6, <1>9, <2>1
<1>11. PICK j : FirstAt(p, b, l, j)
  <2>1. Level(p)[b] >= l /\ Level(p)[Len(p)] <= l /\ l \in Int
    BY <1>6, <1>9, <1>10
  <2> QED
    BY <1>6, <1>9, <2>1, FirstExists
<1>12. FirstAt(p, at, l, j)
  <2>1. Level(p)[at] > l
    BY <1>6
  <2> QED
    BY <1>6, <1>8, <1>11, <2>1, FirstBefore
<1>13. PcOf(at, m) = j + 1
  BY <1>6, <1>9, <1>12, PcIs
<1>14. PcOf(b, m + w) = j + 1
  BY <1>6, <1>9, <1>10, <1>11, PcIs
<1>15. PcOf(Position', marker') = PcOf(Position, marker)
  BY <1>2, <1>3, <1>4, <1>7, <1>8, <1>13, <1>14
<1>16. braincrash' = braincrash /\ source' = source /\ tape' = tape /\ a' = a /\ out' = out
  BY <1>1 DEF filevars, cellvars
<1> QED
  BY <1>1, <1>15, <1>16, FlatIs, FlatIsNext

LEMMA EndFlat ==
  ASSUME Inv, PlainInv, ~braincrash, End \/ Astray
  PROVE  Machine!BfNext
<1>1. stage = "run" /\ marker = 0 /\ Fetched \in {"end", "unknown"}
      /\ UNCHANGED filevars /\ UNCHANGED loadvars /\ UNCHANGED cellvars
  BY AstrayInv DEF End, Astray
<1>2. PICK at : at = Position
  OBVIOUS
<1>3. p \in Seq(Chars) /\ Len(p) \in Nat /\ Len(p) <= Len(source) /\ Level(p)[Len(p)] = 0
      /\ FlatPc = at + 1 /\ at \in 0 .. Len(p)
  BY <1>1, <1>2, PlainRun, TopIs DEF PcOf
<1>4. ~(at < Len(p))
  <2>1. SUFFICES ASSUME at < Len(p) PROVE FALSE
    OBVIOUS
  <2>2. at + 1 \in 1 .. Len(p)
    BY <1>3, <2>1
  <2>3. p[at + 1] \in Plain
    BY <2>2 DEF Inv, ReadInv
  <2>4. p[at + 1] \in {"end", "unknown"}
    BY <1>1, <1>2, <2>1 DEF Fetched
  <2> QED
    BY <2>3, <2>4 DEF Plain
<1>5. at = Len(p)
  BY <1>3, <1>4
<1>6. Len(frames) = 1
  <2>1. PICK z : z = Len(frames)
    OBVIOUS
  <2>2. z \in Nat /\ Level(p)[at] = z - 1 + 0
    BY <1>1, <1>2, <2>1, TopIs
  <2>3. z = 1
    BY <1>3, <1>5, <2>2
  <2> QED
    BY <2>1, <2>3
<1>7. braincrash' = braincrash /\ p' = p /\ source' = source
  BY <1>1 DEF filevars, loadvars
<1>8. UNCHANGED runvars /\ FlatStatus' = "halted"
  <2>1. CASE End
    <3>1. stage' = "done" /\ UNCHANGED runvars
      BY <1>6, <2>1 DEF End, Return
    <3> QED
      BY <1>7, <3>1, FlatIsNext
  <2>2. CASE Astray
    <3>1. stage' = "astray" /\ UNCHANGED runvars /\ Fetched = "unknown"
      BY <2>2, AstrayInv DEF Astray
    <3>2. ~(Position < Len(source))
      BY <1>2, <1>4, <3>1 DEF Fetched
    <3>3. Len(source) \in Nat
      BY DEF Inv, ReadInv
    <3>4. ~(Len(p) < Len(source))
      BY <1>2, <1>5, <3>2
    <3>5. Len(p) = Len(source)
      BY <1>3, <3>3, <3>4
    <3> QED
      BY <1>7, <3>1, <3>5, FlatIsNext
  <2> QED
    BY <2>1, <2>2
<1>9. FlatPc = Len(p) + 1
  BY <1>3, <1>5
<1> QED
  BY <1>1, <1>8, <1>9, HaltFlat

LEMMA LeaveFlat == ASSUME Inv, PlainInv, ~braincrash, Leave PROVE Machine!BfNext
<1>1. UNCHANGED filevars /\ UNCHANGED loadvars /\ UNCHANGED cellvars /\ UNCHANGED runvars
      /\ stage' = "crashed"
  BY DEF Leave
<1>2. stage # "dump"
  BY DEF PlainInv
<1>3. stage = "run" /\ ~OnTape
  <2>1. SUFFICES ASSUME stage = "run", Fetched \in Operations PROVE FALSE
    BY <1>2 DEF Leave
  <2>2. Fetched \notin {"end", "unknown"}
    BY <2>1 DEF Operations
  <2>3. Position < Len(p) /\ p[Position + 1] \in Operations
    BY <2>1, <2>2, TopIs
  <2>4. Position + 1 \in 1 .. Len(p)
    <3>1. Position \in 0 .. Len(p) /\ Len(p) \in Nat
      BY TopIs
    <3> QED
      BY <2>3, <3>1
  <2>5. p[Position + 1] \in Plain
    BY <2>4 DEF Inv, ReadInv
  <2> QED
    BY <2>3, <2>5 DEF Plain, Operations
<1>4. braincrash' = braincrash /\ p' = p /\ source' = source /\ tape' = tape /\ a' = a /\ out' = out
      /\ marker' = marker
  BY <1>1 DEF filevars, loadvars, cellvars, runvars
<1>5. Position' = Position
  BY <1>1, CallsSame DEF loadvars
<1>6. FlatPc' = FlatPc /\ FlatTape' = FlatTape /\ FlatA' = FlatA /\ FlatOut' = FlatOut
      /\ Plainly(source, <<>>)' = Plainly(source, <<>>) /\ FlatStatus' = "crashed"
  BY <1>1, <1>4, <1>5, FlatIs, FlatIsNext
<1>7. FlatStatus = "run" /\ Machine!Accepted /\ FlatA = a
  BY <1>3, PlainRun, FlatIs
<1>8. ~Machine!OnTape
  BY <1>3, <1>7 DEF OnTape, Machine!OnTape, FlatA
<1>9. Machine!Leave
  BY <1>6, <1>7, <1>8 DEF Machine!Leave, FlatPc, FlatTape, FlatA, FlatOut, FlatStatus
<1> QED
  BY <1>9 DEF Machine!BfNext

FlatVars == <<Plainly(source, <<>>), FlatPc, FlatTape, FlatA, FlatOut, FlatStatus>>

LEMMA FlatVarsAre == ASSUME UNCHANGED FlatVars PROVE UNCHANGED Machine!bfvars
BY DEF FlatVars, Machine!bfvars, FlatPc, FlatTape, FlatA, FlatOut, FlatStatus

LEMMA ReadFlat ==
  ASSUME Inv, PlainInv, ~braincrash, ReadChar
  PROVE  UNCHANGED Machine!bfvars
<1>1. braincrash' = braincrash /\ source' = source /\ tape' = tape /\ a' = a /\ out' = out
      /\ frames' = frames /\ marker' = marker /\ stage' = stage /\ stage = "read"
  BY DEF ReadChar, filevars, cellvars, runvars
<1>2. marker = 0 /\ Position' = Position
  BY <1>1 DEF Inv, ReadInv, Position, top, Last
<1>3. FlatPc = Position + 1 /\ FlatPc' = FlatPc
  BY <1>1, <1>2 DEF FlatPc, Plainly
<1>4. FlatStatus = "run" /\ FlatStatus' = "run"
  BY <1>1 DEF FlatStatus, Plainly
<1>5. UNCHANGED FlatVars
  BY <1>1, <1>3, <1>4 DEF FlatVars, FlatTape, FlatA, FlatOut, Plainly
<1> QED
  BY <1>5, FlatVarsAre

LEMMA StartFlat ==
  ASSUME Inv, PlainInv, ~braincrash, StartRun
  PROVE  Machine!BfNext \/ UNCHANGED Machine!bfvars
<1>1. UNCHANGED filevars /\ UNCHANGED loadvars /\ UNCHANGED cellvars /\ UNCHANGED runvars
      /\ stage = "read" /\ read = Len(source) + 1 /\ stage' = IF i # 0 THEN "error" ELSE "run"
  BY DEF StartRun, Unbalanced
<1>2. braincrash' = braincrash /\ p' = p /\ source' = source /\ tape' = tape /\ a' = a /\ out' = out
      /\ marker' = marker
  BY <1>1 DEF filevars, loadvars, cellvars, runvars
<1>3. Position' = Position
  BY <1>1, CallsSame DEF loadvars
<1>4. FlatPc' = FlatPc /\ FlatTape' = FlatTape /\ FlatA' = FlatA /\ FlatOut' = FlatOut
      /\ Plainly(source, <<>>)' = Plainly(source, <<>>) /\ FlatStatus = "run"
  BY <1>1, <1>2, <1>3, FlatIs, FlatIsNext
<1>5. CASE i = 0
  <2>1. FlatStatus' = "run"
    BY <1>1, <1>2, <1>5, FlatIsNext
  <2>2. UNCHANGED FlatVars
    BY <1>4, <2>1 DEF FlatVars
  <2> QED
    BY <2>2, FlatVarsAre
<1>6. CASE i # 0
  <2>1. FlatStatus' = "refused"
    BY <1>1, <1>2, <1>6, FlatIsNext
  <2>2. p \in Seq(Chars) /\ i = Level(p)[Len(p)] /\ Len(source) \in Nat
    BY DEF Inv, ReadInv, Open_
  <2>3. read - 1 = Len(source)
    BY <1>1, <2>2
  <2>4. Machine!Program = p
    BY <2>3, ProgramIs DEF PlainInv
  <2>5. ~Machine!Accepted
    BY <1>6, <2>2, <2>4, DepthIs DEF Machine!Accepted
  <2>6. Machine!Refuse
    BY <1>4, <2>1, <2>5 DEF Machine!Refuse, FlatPc, FlatTape, FlatA, FlatOut, FlatStatus
  <2> QED
    BY <2>6 DEF Machine!BfNext
<1> QED
  BY <1>5, <1>6

LEMMA StutterFlat == ASSUME UNCHANGED vars PROVE UNCHANGED Machine!bfvars
<1>1. UNCHANGED <<source, braincrash, p, tape, a, out, frames, marker, stage>>
  BY DEF vars, filevars, loadvars, cellvars, runvars
<1>2. Position' = Position
  BY <1>1 DEF Position, top, Last
<1>3. Found(Position, marker)' = Found(Position, marker)
  BY <1>1, <1>2 DEF Found, StillOpen
<1>4. FlatPc' = FlatPc
  BY <1>1, <1>2, <1>3 DEF FlatPc, Plainly
<1>5. FlatStatus' = FlatStatus
  BY <1>1 DEF FlatStatus, Plainly
<1>6. UNCHANGED FlatVars
  BY <1>1, <1>4, <1>5 DEF FlatVars, FlatTape, FlatA, FlatOut, Plainly
<1> QED
  BY <1>6, FlatVarsAre

(* In braincrash mode the flat program has nothing to do.                  *)
LEMMA CrashFlat ==
  ASSUME braincrash, braincrash' = braincrash
  PROVE  UNCHANGED Machine!bfvars
<1>1. UNCHANGED FlatVars
  BY DEF FlatVars, FlatPc, FlatTape, FlatA, FlatOut, FlatStatus, Plainly
<1> QED
  BY <1>1, FlatVarsAre

LEMMA FlatStep ==
  ASSUME Inv, PlainInv, [Next]_vars
  PROVE  [Machine!BfNext]_(Machine!bfvars)
<1>1. CASE braincrash
  <2>1. braincrash' = braincrash
    BY Zenon DEF Next, ReadChar, StartRun, Right, Left, Inc, Dec, In, Out, Step, Open, Close,
                 SearchChar, End, Dump, Operation, Leave, Astray, vars, filevars
  <2> QED
    BY <1>1, <2>1, CrashFlat
<1>2. CASE ~braincrash
  <2>1. CASE ReadChar
    BY <1>2, <2>1, ReadFlat
  <2>2. CASE StartRun
    BY <1>2, <2>2, StartFlat
  <2>3. CASE Right \/ Left \/ Inc \/ Dec \/ In \/ Out
    BY <1>2, <2>3, CommandFlat
  <2>4. CASE Open
    BY <1>2, <2>4, OpenFlat
  <2>5. CASE Close
    BY <1>2, <2>5, CloseFlat
  <2>6. CASE SearchChar
    <3>1. UNCHANGED FlatVars
      BY <1>2, <2>6, SearchFlat DEF FlatVars
    <3> QED
      BY <3>1, FlatVarsAre
  <2>7. CASE End \/ Astray
    BY <1>2, <2>7, EndFlat
  <2>8. CASE Leave
    BY <1>2, <2>8, LeaveFlat
  <2>9. CASE Dump
    BY <1>2, <2>9 DEF Dump, PlainInv
  <2>10. CASE Operation
    <3>1. stage = "run" /\ Fetched \in Operations
      BY <2>10 DEF Operation
    <3>2. Fetched \notin {"end", "unknown"}
      BY <3>1 DEF Operations
    <3>3. Position < Len(p) /\ p[Position + 1] \in Operations /\ Position \in 0 .. Len(p) /\ Len(p) \in Nat
      BY <3>1, <3>2, TopIs
    <3>4. Position + 1 \in 1 .. Len(p)
      BY <3>3
    <3>5. p[Position + 1] \in Plain
      BY <1>2, <3>4 DEF Inv, ReadInv
    <3> QED
      BY <3>3, <3>5 DEF Plain, Operations
  <2>11. CASE UNCHANGED vars
    BY <2>11, StutterFlat
  <2> QED
    BY <2>1, <2>2, <2>3, <2>4, <2>5, <2>6, <2>7, <2>8, <2>9, <2>10, <2>11, Zenon DEF Next
<1> QED
  BY <1>1, <1>2

LEMMA FlatInit ==
  ASSUME Init
  PROVE  FlatPc = 1 /\ FlatStatus = "run" /\ FlatTape = [x \in Cells |-> 0] /\ FlatA = 0
<1>1. frames = OneCall /\ marker = 0 /\ stage = "read" /\ a = 0
  BY DEF Init, OneCall
<1>2. top.x = 0 /\ top.i = 0
  BY <1>1, OneCallIs DEF top, Last
<1>3. FlatPc = 1
  BY <1>1, <1>2 DEF FlatPc, Position, Plainly
<1>4. FlatStatus = "run"
  BY <1>1 DEF FlatStatus, Plainly
<1>5. FlatTape = [x \in Cells |-> 0]
  <2>1. CASE braincrash
    BY <2>1 DEF FlatTape, Plainly
  <2>2. CASE ~braincrash
    <3>1. tape = [x \in Cells |-> 0]
      BY <2>2 DEF Init
    <3> QED
      BY <2>2, <3>1 DEF FlatTape, Plainly
  <2> QED
    BY <2>1, <2>2
<1>6. FlatA = 0
  BY <1>1 DEF FlatA, Plainly
<1> QED
  BY <1>3, <1>4, <1>5, <1>6

(* The calls of execute, which return in the middle of the program and     *)
(* leave their callers to search the bracket they have just closed, run    *)
(* the flat program: every step of xenobf in plain mode is one of its      *)
(* steps, or none, for every text and any size of cells and tape.          *)
THEOREM InterpretsCorrect == Spec => Interprets
<1>1. Init => FlatPc = 1 /\ FlatStatus = "run" /\ FlatTape = [x \in Cells |-> 0] /\ FlatA = 0
  BY FlatInit
<1>2. Init => PlainInv
  BY PlainInit
<1>3. Inv /\ PlainInv /\ [Next]_vars => PlainInv'
  BY PlainStep
<1>4. Inv /\ PlainInv /\ [Next]_vars => [Machine!BfNext]_(Machine!bfvars)
  BY FlatStep
<1>5. Spec => [](Inv /\ PlainInv)
  BY <1>2, <1>3, InvAlways, PTL DEF Spec
<1>6. Spec => [][Machine!BfNext]_(Machine!bfvars)
  BY <1>4, <1>5, PTL DEF Spec
<1> QED
  BY <1>1, <1>6, PTL DEF Spec, Interprets, Machine!Interprets, FlatPc, FlatStatus, FlatTape, FlatA

=============================================================================
