---------------------------- MODULE IniFileProofs ---------------------------
(***************************************************************************)
(* Proofs about INI files: for all names, values, files and requests, what *)
(* ini_puts leaves is the file before with one key changed, whole, and     *)
(* nothing but a death between remove and rename takes it away.            *)
(*                                                                         *)
(* The argument: what a file says of a key is settled text by text.  After *)
(* a part u of it, a section s has not begun, is open, or is over; what    *)
(* the rest v says of the key counts accordingly (GetsJoined).  ini_puts   *)
(* replaces lines by lines that differ in nothing for the keys that are    *)
(* not to change, so what is written and what is left to read say together *)
(* at each step what the file has said.                                    *)
(***************************************************************************)
EXTENDS IniFile, FiniteSetTheorems, SequenceTheorems, WellFoundedInduction, TLAPS

(* A set of numbers has a least one.                                       *)
LEMMA Least == ASSUME NEW T \in SUBSET Nat, T # {} PROVE \E x \in T : \A y \in T : x <= y
<1>1. \E x \in T : \A y \in T : ~ (<<y, x>> \in OpToRel(<, Nat))
  BY WFMin, NatLessThanWellFounded
<1>2. \E x \in T : \A y \in T : ~ (y < x)
  BY <1>1, Zenon DEF OpToRel
<1> QED
  BY <1>2

LEMMA MinIs ==
  ASSUME NEW T \in SUBSET Nat, T # {}
  PROVE  Min(T) \in T /\ \A y \in T : Min(T) <= y
<1>1. \E x \in T : \A y \in T : x <= y
  BY Least
<1> QED
  BY <1>1, Zenon DEF Min

LEMMA MinOnly ==
  ASSUME NEW T \in SUBSET Nat, NEW a \in T, \A y \in T : a <= y
  PROVE  Min(T) = a
<1> DEFINE m == Min(T)
<1>1. m \in T /\ \A y \in T : m <= y
  BY MinIs
<1> HIDE DEF m
<1>2. m <= a /\ a <= m /\ m \in Int /\ a \in Int
  BY <1>1
<1>3. m = a
  BY <1>2
<1> QED
  BY <1>3 DEF m

-----------------------------------------------------------------------------
(* Joining contents.                                                       *)
Clean(c) == c = <<>> \/ ~IsText(c[Len(c)])

LEMMA TextTypes ==
  /\ LineTerm \in Texts /\ LineTerm.kind = "end"
  /\ Cut \in Texts /\ Cut.kind = "cut" /\ Cut # LineTerm
  /\ \A t : IsText(t) <=> t # LineTerm /\ t # Cut
  /\ \A s \in Names : Text("section", s, Null) \in Texts
  /\ \A k \in Names, v \in Values \cup {Null} : Text("key", k, v) \in Texts
BY NamesAssumption DEF LineTerm, Cut, IsText, Text, Texts

LEMMA Joined ==
  ASSUME NEW u \in Content, NEW v \in Content
  PROVE  /\ u \o v \in Content /\ Len(u \o v) = Len(u) + Len(v)
         /\ Len(u) \in Nat /\ Len(v) \in Nat
         /\ \A n \in 1 .. Len(u) : (u \o v)[n] = u[n] /\ n \in 1 .. Len(u \o v)
         /\ \A n \in 1 .. Len(v) : (u \o v)[Len(u) + n] = v[n] /\ Len(u) + n \in 1 .. Len(u \o v)
         /\ \A n \in 1 .. Len(u \o v) : n \in 1 .. Len(u) \/ \E m \in 1 .. Len(v) : n = Len(u) + m
<1>1. /\ u \o v \in Content /\ Len(u \o v) = Len(u) + Len(v)
      /\ Len(u) \in Nat /\ Len(v) \in Nat
  BY DEF Content
<1>2. /\ \A n \in 1 .. Len(u) : (u \o v)[n] = u[n]
      /\ \A n \in 1 .. Len(v) : (u \o v)[Len(u) + n] = v[n]
  BY DEF Content
<1>3. /\ \A n \in 1 .. Len(u) : n \in 1 .. Len(u \o v)
      /\ \A n \in 1 .. Len(v) : Len(u) + n \in 1 .. Len(u \o v)
  BY <1>1
<1>4. ASSUME NEW n \in 1 .. Len(u \o v), n \notin 1 .. Len(u)
      PROVE  \E m \in 1 .. Len(v) : n = Len(u) + m
  <2>1. n - Len(u) \in 1 .. Len(v) /\ n = Len(u) + (n - Len(u))
    BY <1>1, <1>4
  <2> QED
    BY <2>1
<1> QED
  BY <1>1, <1>2, <1>3, <1>4

LEMMA TidyJoined ==
  ASSUME NEW u, NEW v, Tidy(u), Tidy(v),
         Clean(u) \/ v = <<>> \/ ~IsText(v[1])
  PROVE  Tidy(u \o v)
<1>1. /\ u \in Content /\ v \in Content
  BY DEF Tidy
<1> DEFINE w == u \o v
<1>2. /\ w \in Content /\ Len(w) = Len(u) + Len(v) /\ Len(u) \in Nat /\ Len(v) \in Nat
      /\ \A n \in 1 .. Len(u) : w[n] = u[n]
      /\ \A n \in 1 .. Len(v) : w[Len(u) + n] = v[n]
      /\ \A n \in 1 .. Len(w) : n \in 1 .. Len(u) \/ \E m \in 1 .. Len(v) : n = Len(u) + m
  BY <1>1, Joined
<1>3. DOMAIN u = 1 .. Len(u) /\ DOMAIN v = 1 .. Len(v) /\ DOMAIN w = 1 .. Len(w)
  BY <1>1, <1>2 DEF Content
<1> HIDE DEF w
<1>4. ASSUME NEW n \in DOMAIN w, n > 1, IsText(w[n]) PROVE ~IsText(w[n - 1])
  <2>1. CASE n \in 1 .. Len(u)
    <3>1. n - 1 \in 1 .. Len(u)
      BY <1>2, <1>4, <2>1
    <3> QED
      BY <1>2, <1>3, <1>4, <2>1, <3>1 DEF Tidy
  <2>2. ASSUME NEW m \in 1 .. Len(v), n = Len(u) + m PROVE ~IsText(w[n - 1])
    <3>1. CASE m = 1
      <4>1. IsText(v[1]) /\ v # <<>>
        BY <1>2, <1>4, <2>2, <3>1
      <4>2. Len(u) # 0
        BY <1>2, <1>4, <2>2, <3>1
      <4>3. Clean(u) /\ u # <<>> /\ n - 1 = Len(u) /\ Len(u) \in 1 .. Len(u)
        BY <1>2, <2>2, <3>1, <4>1, <4>2
      <4> QED
        BY <1>2, <4>3 DEF Clean
    <3>2. CASE m # 1
      <4>1. m - 1 \in 1 .. Len(v) /\ n - 1 = Len(u) + (m - 1) /\ m > 1
        BY <1>2, <2>2, <3>2
      <4>2. w[n] = v[m] /\ w[n - 1] = v[m - 1]
        BY <1>2, <2>2, <4>1
      <4> QED
        BY <1>3, <1>4, <4>1, <4>2 DEF Tidy
    <3> QED
      BY <3>1, <3>2
  <2> QED
    BY <1>2, <1>3, <2>1, <2>2
<1>5. ASSUME NEW n \in DOMAIN w, w[n].kind = "key"
      PROVE  w[n].value \in Values /\ Read[w[n].value] = w[n].value
  <2>1. CASE n \in 1 .. Len(u)
    BY <1>2, <1>3, <1>5, <2>1 DEF Tidy
  <2>2. ASSUME NEW m \in 1 .. Len(v), n = Len(u) + m
        PROVE  w[n].value \in Values /\ Read[w[n].value] = w[n].value
    BY <1>2, <1>3, <1>5, <2>2 DEF Tidy
  <2> QED
    BY <1>2, <1>3, <2>1, <2>2
<1>6. ASSUME NEW n \in DOMAIN w, w[n] = Cut
      PROVE  n > 1 /\ IsText(w[n - 1]) /\ Bare[w[n - 1].name] = w[n - 1].name
  <2>1. CASE n \in 1 .. Len(u)
    <3>1. n > 1 /\ IsText(u[n - 1]) /\ Bare[u[n - 1].name] = u[n - 1].name
      BY <1>2, <1>3, <1>6, <2>1 DEF Tidy
    <3>2. n - 1 \in 1 .. Len(u)
      BY <1>2, <2>1, <3>1
    <3> QED
      BY <1>2, <3>1, <3>2
  <2>2. ASSUME NEW m \in 1 .. Len(v), n = Len(u) + m
        PROVE  n > 1 /\ IsText(w[n - 1]) /\ Bare[w[n - 1].name] = w[n - 1].name
    <3>1. m > 1 /\ IsText(v[m - 1]) /\ Bare[v[m - 1].name] = v[m - 1].name
      BY <1>2, <1>3, <1>6, <2>2 DEF Tidy
    <3>2. m - 1 \in 1 .. Len(v) /\ n - 1 = Len(u) + (m - 1) /\ n > 1
      BY <1>2, <2>2, <3>1
    <3> QED
      BY <1>2, <3>1, <3>2
  <2> QED
    BY <1>2, <1>3, <1>6, <2>1, <2>2
<1> QED
  BY <1>2, <1>4, <1>5, <1>6 DEF Tidy, w

LEMMA EmptyTidy == Tidy(<<>>) /\ Clean(<<>>)
BY DEF Tidy, Clean, Content

LEMMA CleanJoined ==
  ASSUME NEW u \in Content, NEW v \in Content, Clean(v), Clean(u) \/ v # <<>>
  PROVE  Clean(u \o v)
<1>1. CASE v = <<>>
  BY <1>1 DEF Content
<1>2. CASE v # <<>>
  <2>1. Len(v) \in 1 .. Len(v)
    BY <1>2 DEF Content
  <2>2. (u \o v)[Len(u \o v)] = v[Len(v)]
    BY <2>1, Joined
  <2> QED
    BY <1>2, <2>2 DEF Clean
<1> QED
  BY <1>1, <1>2

LEMMA RestIs ==
  ASSUME NEW c \in Content, NEW m \in 1 .. Len(c)
  PROVE  /\ SubSeq(c, m + 1, Len(c)) \in Content
         /\ Len(SubSeq(c, m + 1, Len(c))) = Len(c) - m
         /\ \A n \in 1 .. Len(c) - m : SubSeq(c, m + 1, Len(c))[n] = c[m + n]
BY DEF Content

(* A part from the start of a line is tidy.                                *)
LEMMA TidyPart ==
  ASSUME NEW c, Tidy(c), NEW a \in 1 .. Len(c) + 1, NEW b \in 0 .. Len(c),
         a > 1 => ~IsText(c[a - 1])
  PROVE  Tidy(SubSeq(c, a, b))
<1> DEFINE d == SubSeq(c, a, b)
<1>1. c \in Content /\ Len(c) \in Nat /\ DOMAIN c = 1 .. Len(c)
  BY DEF Tidy, Content
<1>2. CASE a > b
  <2>1. d = <<>>
    BY <1>1, <1>2 DEF Content
  <2> QED
    BY <2>1, EmptyTidy
<1>3. CASE a <= b
  <2>1. /\ d \in Content /\ Len(d) = b - a + 1 /\ DOMAIN d = 1 .. Len(d)
        /\ \A n \in 1 .. b - a + 1 : d[n] = c[a + n - 1]
    BY <1>1, <1>3 DEF Content
  <2>2. \A n \in DOMAIN d : a + n - 1 \in DOMAIN c
    BY <1>1, <1>3, <2>1
  <2> HIDE DEF d
  <2>3. ASSUME NEW n \in DOMAIN d, n > 1, IsText(d[n]) PROVE ~IsText(d[n - 1])
    <3>1. n \in 1 .. b - a + 1 /\ n - 1 \in 1 .. b - a + 1
      BY <1>1, <1>3, <2>1, <2>3
    <3>2. a + n - 1 > 1 /\ a + n - 1 \in DOMAIN c /\ a + (n - 1) - 1 = (a + n - 1) - 1
      BY <2>2, <2>3, <3>1
    <3>3. d[n] = c[a + n - 1] /\ d[n - 1] = c[(a + n - 1) - 1]
      BY <2>1, <3>1, <3>2
    <3> QED
      BY <2>3, <3>2, <3>3 DEF Tidy
  <2>4. ASSUME NEW n \in DOMAIN d, d[n].kind = "key"
        PROVE  d[n].value \in Values /\ Read[d[n].value] = d[n].value
    BY <2>1, <2>2, <2>4 DEF Tidy
  <2>5. ASSUME NEW n \in DOMAIN d, d[n] = Cut
        PROVE  n > 1 /\ IsText(d[n - 1]) /\ Bare[d[n - 1].name] = d[n - 1].name
    <3>1. n \in 1 .. b - a + 1 /\ a + n - 1 \in DOMAIN c /\ c[a + n - 1] = Cut
      BY <2>1, <2>2, <2>5
    <3>2. /\ a + n - 1 > 1 /\ IsText(c[(a + n - 1) - 1])
          /\ Bare[c[(a + n - 1) - 1].name] = c[(a + n - 1) - 1].name
      BY <3>1 DEF Tidy
    <3>3. n > 1
      <4> SUFFICES ASSUME n = 1 PROVE FALSE
        BY <1>1, <1>3, <3>1
      <4>1. a > 1 /\ (a + n - 1) - 1 = a - 1
        BY <1>1, <3>2
      <4> QED
        BY <3>2, <4>1
    <3>4. n - 1 \in 1 .. b - a + 1 /\ a + (n - 1) - 1 = (a + n - 1) - 1
      BY <1>1, <1>3, <3>1, <3>3
    <3>5. d[n - 1] = c[(a + n - 1) - 1]
      BY <2>1, <3>4
    <3> QED
      BY <3>2, <3>3, <3>5
  <2> QED
    BY <2>1, <2>3, <2>4, <2>5 DEF Tidy, d
<1> QED
  BY <1>1, <1>2, <1>3

-----------------------------------------------------------------------------
(***************************************************************************)
(* Where a section begins, what lines are under it, and what of it a part  *)
(* of a file has seen.  The lines before the first section are under       *)
(* NoName.                                                                 *)
(***************************************************************************)
IsStart(c, s, a) ==
  IF s = NoName THEN a = 0
  ELSE /\ a \in 1 .. Len(c) /\ IsSection(c[a], s)
       /\ \A m \in 1 .. Len(c) : IsSection(c[m], s) => a <= m

Under(c, s, n) ==
  \E a \in 0 .. Len(c) :
    /\ IsStart(c, s, a) /\ a < n
    /\ \A m \in 1 .. Len(c) : c[m].kind = "section" /\ a < m => n < m

Entered(c, s) == s = NoName \/ \E m \in 1 .. Len(c) : IsSection(c[m], s)

Open(c, s) ==
  \E a \in 0 .. Len(c) :
    IsStart(c, s, a) /\ \A m \in 1 .. Len(c) : c[m].kind = "section" => m <= a

LEMMA OpenEntered == ASSUME NEW c, NEW s, Open(c, s) PROVE Entered(c, s)
BY DEF Open, Entered, IsStart

LEMMA AreaIs ==
  ASSUME NEW c, Tidy(c), NEW s, NEW n \in Lines(c)
  PROVE  n \in Area(c, s) <=> Under(c, s, n)
<1> DEFINE Of    == {m \in Sections(c) : IsSection(c[m], s)}
           start == IF s = NoName THEN 0 ELSE FirstOr(Of, Len(c) + 1)
           Later == {m \in Sections(c) : m > start}
           final == FirstOr(Later, Len(c) + 1)
<1>1. /\ Len(c) \in Nat /\ DOMAIN c = 1 .. Len(c) /\ c \in Content
  BY DEF Tidy, Content
<1>2. /\ Sections(c) = {m \in 1 .. Len(c) : c[m].kind = "section"}
      /\ n \in 1 .. Len(c)
  BY <1>1, TextTypes DEF Tidy, Sections, Lines, IsText
<1>3. Area(c, s) = {m \in Lines(c) : start < m /\ m < final}
  BY DEF Area
<1>4. Of \in SUBSET Nat /\ Of = {m \in 1 .. Len(c) : IsSection(c[m], s)}
  BY <1>2 DEF IsSection
<1>5. /\ start \in Nat
      /\ start <= Len(c) => IsStart(c, s, start)
      /\ \A a : IsStart(c, s, a) => a = start
      /\ start > Len(c) => \A a : ~IsStart(c, s, a)
  <2>1. CASE s = NoName
    BY <1>1, <2>1 DEF IsStart
  <2>2. CASE s # NoName /\ Of = {}
    BY <1>1, <1>4, <2>2 DEF IsStart, FirstOr
  <2>3. CASE s # NoName /\ Of # {}
    <3>1. start = Min(Of)
      BY <2>3 DEF FirstOr
    <3>2. Min(Of) \in Of /\ \A m \in Of : Min(Of) <= m
      BY <1>4, <2>3, MinIs
    <3>3. start \in 1 .. Len(c) /\ start \in Of /\ \A m \in Of : start <= m
      BY <1>4, <3>1, <3>2
    <3> HIDE DEF start
    <3>4. IsStart(c, s, start)
      BY <1>4, <2>3, <3>3 DEF IsStart
    <3>5. ASSUME NEW a, IsStart(c, s, a) PROVE a = start
      <4>1. a \in 1 .. Len(c) /\ a \in Of /\ \A m \in Of : a <= m
        BY <1>4, <2>3, <3>5 DEF IsStart
      <4>2. a <= start /\ start <= a
        BY <3>3, <4>1
      <4> QED
        BY <1>1, <3>3, <4>1, <4>2
    <3> QED
      BY <1>1, <3>3, <3>4, <3>5
  <2> QED
    BY <2>1, <2>2, <2>3
<1> HIDE DEF start
<1>6. Later \in SUBSET Nat /\ Later = {m \in 1 .. Len(c) : c[m].kind = "section" /\ start < m}
  BY <1>2, <1>5
<1>7. n < final <=> \A m \in Later : n < m
  <2>1. CASE Later = {}
    BY <1>1, <1>2, <2>1 DEF FirstOr
  <2>2. CASE Later # {}
    <3>1. final = Min(Later)
      BY <2>2 DEF FirstOr
    <3>2. Min(Later) \in Later /\ \A m \in Later : Min(Later) <= m
      BY <1>6, <2>2, MinIs
    <3> HIDE DEF final
    <3>3. final \in Later /\ (\A m \in Later : final <= m) /\ final \in Nat
      BY <1>6, <3>1, <3>2
    <3> QED
      BY <1>2, <1>6, <3>3
  <2> QED
    BY <2>1, <2>2
<1> HIDE DEF final
<1>8. n \in Area(c, s) <=> start < n /\ \A m \in Later : n < m
  BY <1>3, <1>7
<1>9. ASSUME start < n, \A m \in Later : n < m PROVE Under(c, s, n)
  <2>1. start \in 0 .. Len(c)
    BY <1>1, <1>2, <1>5, <1>9
  <2>2. IsStart(c, s, start)
    BY <1>5, <2>1
  <2>3. \A m \in 1 .. Len(c) : c[m].kind = "section" /\ start < m => n < m
    BY <1>6, <1>9
  <2> QED
    BY <1>9, <2>1, <2>2, <2>3 DEF Under
<1>10. ASSUME Under(c, s, n) PROVE start < n /\ \A m \in Later : n < m
  <2>1. PICK a \in 0 .. Len(c) :
          /\ IsStart(c, s, a) /\ a < n
          /\ \A m \in 1 .. Len(c) : c[m].kind = "section" /\ a < m => n < m
    BY <1>10 DEF Under
  <2>2. a = start
    BY <1>5, <2>1
  <2> QED
    BY <1>6, <2>1, <2>2
<1> QED
  BY <1>8, <1>9, <1>10

LEMMA FoundIs ==
  ASSUME NEW c, Tidy(c), NEW s, NEW k
  PROVE  Found(c, s, k) = {n \in 1 .. Len(c) : IsKey(c[n], k) /\ Under(c, s, n)}
<1>1. DOMAIN c = 1 .. Len(c) /\ c \in Content
  BY DEF Tidy, Content
<1>2. Area(c, s) \subseteq Lines(c) /\ Lines(c) \subseteq 1 .. Len(c)
  BY <1>1 DEF Area, Lines
<1>3. ASSUME NEW n \in 1 .. Len(c), IsKey(c[n], k) PROVE n \in Lines(c)
  <2>1. IsText(c[n])
    BY <1>3, TextTypes DEF IsKey
  <2>2. n = 1 \/ n > 1
    BY <1>1 DEF Content
  <2>3. n = 1 \/ ~IsText(c[n - 1])
    BY <1>1, <2>1, <2>2 DEF Tidy
  <2> QED
    BY <1>1, <2>1, <2>3 DEF Lines
<1>4. ASSUME NEW n PROVE n \in Found(c, s, k) <=> n \in 1 .. Len(c) /\ IsKey(c[n], k) /\ Under(c, s, n)
  BY <1>2, <1>3, AreaIs DEF Found
<1> QED
  BY <1>4


(***************************************************************************)
(* What a part, and what the rest, count for in the whole.                 *)
(***************************************************************************)
LEMMA StartJoined ==
  ASSUME NEW u \in Content, NEW v \in Content, NEW s, NEW a \in 0 .. Len(u)
  PROVE  IsStart(u \o v, s, a) <=> IsStart(u, s, a)
<1> DEFINE w == u \o v
<1>1. /\ Len(w) = Len(u) + Len(v) /\ Len(u) \in Nat /\ Len(v) \in Nat
      /\ \A n \in 1 .. Len(u) : w[n] = u[n]
      /\ \A n \in 1 .. Len(w) : n \in 1 .. Len(u) \/ \E m \in 1 .. Len(v) : n = Len(u) + m
  BY Joined
<1> HIDE DEF w
<1>2. 1 .. Len(u) \subseteq 1 .. Len(w)
  BY <1>1
<1>3. CASE s = NoName
  BY <1>3 DEF IsStart, w
<1>4. CASE s # NoName
  <2>1. ASSUME a \in 1 .. Len(u), IsSection(u[a], s),
               \A m \in 1 .. Len(u) : IsSection(u[m], s) => a <= m
        PROVE  \A m \in 1 .. Len(w) : IsSection(w[m], s) => a <= m
    BY <1>1, <2>1
  <2>2. IsStart(u, s, a) => IsStart(w, s, a)
    BY <1>1, <1>2, <1>4, <2>1 DEF IsStart
  <2>3. ASSUME IsStart(w, s, a) PROVE IsStart(u, s, a)
    <3>1. a \in 1 .. Len(u)
      BY <1>1, <1>4, <2>3 DEF IsStart
    <3> QED
      BY <1>1, <1>2, <1>4, <2>3, <3>1 DEF IsStart
  <2> QED
    BY <2>2, <2>3 DEF w
<1> QED
  BY <1>3, <1>4

LEMMA EnteredJoined ==
  ASSUME NEW u \in Content, NEW v \in Content, NEW s
  PROVE  Entered(u \o v, s) <=> Entered(u, s) \/ Entered(v, s)
<1> DEFINE w == u \o v
<1>1. /\ Len(w) = Len(u) + Len(v) /\ Len(u) \in Nat /\ Len(v) \in Nat
      /\ \A n \in 1 .. Len(u) : w[n] = u[n]
      /\ \A n \in 1 .. Len(v) : w[Len(u) + n] = v[n]
      /\ \A n \in 1 .. Len(w) : n \in 1 .. Len(u) \/ \E m \in 1 .. Len(v) : n = Len(u) + m
  BY Joined
<1> HIDE DEF w
<1>2. /\ \A n \in 1 .. Len(u) : n \in 1 .. Len(w)
      /\ \A n \in 1 .. Len(v) : Len(u) + n \in 1 .. Len(w)
  BY <1>1
<1>3. Entered(u, s) \/ Entered(v, s) => Entered(w, s)
  BY <1>1, <1>2 DEF Entered
<1>4. Entered(w, s) => Entered(u, s) \/ Entered(v, s)
  BY <1>1 DEF Entered
<1> QED
  BY <1>3, <1>4 DEF w

(* A line of the first part is under what it was under.                    *)
LEMMA UnderFirst ==
  ASSUME NEW u \in Content, NEW v \in Content, NEW s, NEW n \in 1 .. Len(u)
  PROVE  Under(u \o v, s, n) <=> Under(u, s, n)
<1> DEFINE w == u \o v
<1>1. /\ Len(w) = Len(u) + Len(v) /\ Len(u) \in Nat /\ Len(v) \in Nat
      /\ \A m \in 1 .. Len(u) : w[m] = u[m] /\ m \in 1 .. Len(w)
      /\ \A m \in 1 .. Len(w) : m \in 1 .. Len(u) \/ \E j \in 1 .. Len(v) : m = Len(u) + j
  BY Joined
<1> HIDE DEF w
<1>2. \A a \in 0 .. Len(u) : IsStart(w, s, a) <=> IsStart(u, s, a)
  BY StartJoined DEF w
<1>3. ASSUME Under(w, s, n) PROVE Under(u, s, n)
  <2>1. PICK a \in 0 .. Len(w) :
          /\ IsStart(w, s, a) /\ a < n
          /\ \A m \in 1 .. Len(w) : w[m].kind = "section" /\ a < m => n < m
    BY <1>3 DEF Under
  <2>2. a \in 0 .. Len(u)
    BY <1>1, <2>1
  <2>3. \A m \in 1 .. Len(u) : u[m].kind = "section" /\ a < m => n < m
    BY <1>1, <2>1
  <2> QED
    BY <1>2, <2>1, <2>2, <2>3 DEF Under
<1>4. ASSUME Under(u, s, n) PROVE Under(w, s, n)
  <2>1. PICK a \in 0 .. Len(u) :
          /\ IsStart(u, s, a) /\ a < n
          /\ \A m \in 1 .. Len(u) : u[m].kind = "section" /\ a < m => n < m
    BY <1>4 DEF Under
  <2>2. a \in 0 .. Len(w)
    BY <1>1, <2>1
  <2>3. ASSUME NEW m \in 1 .. Len(w), w[m].kind = "section", a < m PROVE n < m
    <3>1. CASE m \in 1 .. Len(u)
      BY <1>1, <2>1, <2>3, <3>1
    <3>2. CASE \E j \in 1 .. Len(v) : m = Len(u) + j
      BY <1>1, <3>2
    <3> QED
      BY <1>1, <3>1, <3>2
  <2> QED
    BY <1>2, <2>1, <2>2, <2>3 DEF Under
<1> QED
  BY <1>3, <1>4 DEF w

(* A line of the rest is under what is open, or what begins in the rest.   *)
LEMMA UnderRest ==
  ASSUME NEW u \in Content, NEW v \in Content, NEW s, NEW n \in 1 .. Len(v)
  PROVE  Under(u \o v, s, Len(u) + n) <=>
           (Open(u, s) /\ Under(v, NoName, n)) \/ (~Entered(u, s) /\ Under(v, s, n))
<1> DEFINE w == u \o v
           l == Len(u)
<1>1. /\ Len(w) = l + Len(v) /\ l \in Nat /\ Len(v) \in Nat
      /\ \A m \in 1 .. l : w[m] = u[m] /\ m \in 1 .. Len(w)
      /\ \A m \in 1 .. Len(v) : w[l + m] = v[m] /\ l + m \in 1 .. Len(w)
      /\ \A m \in 1 .. Len(w) : m \in 1 .. l \/ \E j \in 1 .. Len(v) : m = l + j
  BY Joined
<1>2. \A a \in 0 .. l : IsStart(w, s, a) <=> IsStart(u, s, a)
  BY StartJoined
<1> HIDE DEF w, l
<1>3. ASSUME Under(w, s, l + n)
      PROVE  (Open(u, s) /\ Under(v, NoName, n)) \/ (~Entered(u, s) /\ Under(v, s, n))
  <2>1. PICK a \in 0 .. Len(w) :
          /\ IsStart(w, s, a) /\ a < l + n
          /\ \A m \in 1 .. Len(w) : w[m].kind = "section" /\ a < m => l + n < m
    BY <1>3 DEF Under
  <2>2. CASE a \in 0 .. l
    <3>1. \A m \in 1 .. l : u[m].kind = "section" => m <= a
      <4> SUFFICES ASSUME NEW m \in 1 .. l, u[m].kind = "section", a < m PROVE FALSE
        BY <1>1, <2>2
      <4>1. l + n < m
        BY <1>1, <2>1
      <4> QED
        BY <1>1, <4>1
    <3>2. Open(u, s)
      BY <1>2, <2>1, <2>2, <3>1 DEF Open, l
    <3>3. \A m \in 1 .. Len(v) : v[m].kind = "section" /\ 0 < m => n < m
      <4> SUFFICES ASSUME NEW m \in 1 .. Len(v), v[m].kind = "section" PROVE n < m
        OBVIOUS
      <4>1. l + n < l + m
        <5>1. a < l + m
          BY <1>1, <2>2
        <5> QED
          BY <1>1, <2>1, <5>1
      <4> QED
        BY <1>1, <4>1
    <3>4. Under(v, NoName, n)
      <4>1. 0 \in 0 .. Len(v) /\ 0 < n /\ IsStart(v, NoName, 0)
        BY <1>1 DEF IsStart
      <4> QED
        BY <3>3, <4>1 DEF Under
    <3> QED
      BY <3>2, <3>4
  <2>3. ASSUME NEW b \in 1 .. Len(v), a = l + b
        PROVE  ~Entered(u, s) /\ Under(v, s, n)
    <3>1. s # NoName /\ IsSection(v[b], s) /\ \A m \in 1 .. Len(w) : IsSection(w[m], s) => a <= m
      <4>1. a # 0
        BY <1>1, <2>3
      <4>2. s # NoName
        BY <2>1, <4>1 DEF IsStart
      <4>3. IsSection(w[a], s) /\ \A m \in 1 .. Len(w) : IsSection(w[m], s) => a <= m
        BY <2>1, <4>2 DEF IsStart
      <4>4. w[a] = v[b]
        BY <1>1, <2>3
      <4> QED
        BY <4>2, <4>3, <4>4
    <3>2. ~Entered(u, s)
      <4> SUFFICES ASSUME NEW m \in 1 .. l, IsSection(u[m], s) PROVE FALSE
        BY <3>1 DEF Entered, l
      <4>1. a <= m
        BY <1>1, <3>1
      <4> QED
        BY <1>1, <2>3, <4>1
    <3>3. IsStart(v, s, b)
      <4> SUFFICES ASSUME NEW m \in 1 .. Len(v), IsSection(v[m], s) PROVE b <= m
        BY <2>3, <3>1 DEF IsStart
      <4>1. a <= l + m
        BY <1>1, <3>1
      <4> QED
        BY <1>1, <2>3, <4>1
    <3>4. \A m \in 1 .. Len(v) : v[m].kind = "section" /\ b < m => n < m
      <4> SUFFICES ASSUME NEW m \in 1 .. Len(v), v[m].kind = "section", b < m PROVE n < m
        OBVIOUS
      <4>1. a < l + m
        BY <1>1, <2>3
      <4>2. l + n < l + m
        BY <1>1, <2>1, <4>1
      <4> QED
        BY <1>1, <4>2
    <3>5. b \in 0 .. Len(v) /\ b < n
      BY <1>1, <2>1, <2>3
    <3> QED
      BY <3>2, <3>3, <3>4, <3>5 DEF Under
  <2>4. a \in 0 .. l \/ \E b \in 1 .. Len(v) : a = l + b
    <3>1. a \in 0 .. l \/ a \in 1 .. Len(w)
      BY <1>1
    <3> QED
      BY <1>1, <3>1
  <2> QED
    BY <2>2, <2>3, <2>4
<1>4. ASSUME Open(u, s), Under(v, NoName, n) PROVE Under(w, s, l + n)
  <2>1. PICK a \in 0 .. l :
          IsStart(u, s, a) /\ \A m \in 1 .. l : u[m].kind = "section" => m <= a
    BY <1>4 DEF Open, l
  <2>2. \A m \in 1 .. Len(v) : v[m].kind = "section" => n < m
    <3>1. PICK b \in 0 .. Len(v) :
            /\ IsStart(v, NoName, b)
            /\ \A m \in 1 .. Len(v) : v[m].kind = "section" /\ b < m => n < m
      BY <1>4 DEF Under
    <3>2. b = 0
      BY <3>1 DEF IsStart
    <3> QED
      BY <1>1, <3>1, <3>2
  <2>3. a \in 0 .. Len(w) /\ a < l + n /\ IsStart(w, s, a)
    BY <1>1, <1>2, <2>1
  <2>4. ASSUME NEW m \in 1 .. Len(w), w[m].kind = "section", a < m PROVE l + n < m
    <3>1. CASE m \in 1 .. l
      <4>1. m <= a
        BY <1>1, <2>1, <2>4, <3>1
      <4>2. m \in Int /\ a \in Int /\ a < m
        BY <2>4, <3>1
      <4> QED
        BY <4>1, <4>2
    <3>2. ASSUME NEW j \in 1 .. Len(v), m = l + j PROVE l + n < m
      <4>1. n < j
        BY <1>1, <2>2, <2>4, <3>2
      <4> QED
        BY <1>1, <3>2, <4>1
    <3> QED
      BY <1>1, <3>1, <3>2
  <2> QED
    BY <2>3, <2>4 DEF Under
<1>5. ASSUME ~Entered(u, s), Under(v, s, n) PROVE Under(w, s, l + n)
  <2>1. PICK b \in 0 .. Len(v) :
          /\ IsStart(v, s, b) /\ b < n
          /\ \A m \in 1 .. Len(v) : v[m].kind = "section" /\ b < m => n < m
    BY <1>5 DEF Under
  <2>2. s # NoName /\ \A m \in 1 .. l : ~IsSection(u[m], s)
    BY <1>5 DEF Entered, l
  <2>3. /\ b \in 1 .. Len(v) /\ IsSection(v[b], s)
        /\ \A m \in 1 .. Len(v) : IsSection(v[m], s) => b <= m
    BY <2>1, <2>2 DEF IsStart
  <2>4. IsStart(w, s, l + b)
    <3> SUFFICES ASSUME NEW m \in 1 .. Len(w), IsSection(w[m], s) PROVE l + b <= m
      BY <1>1, <2>2, <2>3 DEF IsStart
    <3>1. CASE m \in 1 .. l
      BY <1>1, <2>2, <3>1
    <3>2. ASSUME NEW j \in 1 .. Len(v), m = l + j PROVE l + b <= m
      <4>1. b <= j
        BY <1>1, <2>3, <3>2
      <4> QED
        BY <1>1, <2>3, <3>2, <4>1
    <3> QED
      BY <1>1, <3>1, <3>2
  <2>5. l + b \in 0 .. Len(w) /\ l + b < l + n
    BY <1>1, <2>1
  <2>6. ASSUME NEW m \in 1 .. Len(w), w[m].kind = "section", l + b < m PROVE l + n < m
    <3>1. CASE m \in 1 .. l
      BY <1>1, <2>3, <2>6, <3>1
    <3>2. ASSUME NEW j \in 1 .. Len(v), m = l + j PROVE l + n < m
      <4>1. b < j
        BY <1>1, <2>3, <2>6, <3>2
      <4>2. n < j
        BY <1>1, <2>1, <2>6, <3>2, <4>1
      <4> QED
        BY <1>1, <3>2, <4>2
    <3> QED
      BY <1>1, <3>1, <3>2
  <2> QED
    BY <2>4, <2>5, <2>6 DEF Under
<1> QED
  BY <1>3, <1>4, <1>5 DEF w, l


(* Before the first section: no section has been seen.                     *)
LEMMA OpenFront ==
  ASSUME NEW c \in Content
  PROVE  /\ Open(c, NoName) <=> \A m \in 1 .. Len(c) : c[m].kind # "section"
         /\ Entered(c, NoName)
<1>1. Len(c) \in Nat
  BY DEF Content
<1>2. ASSUME Open(c, NoName), NEW m \in 1 .. Len(c) PROVE c[m].kind # "section"
  <2>1. PICK a \in 0 .. Len(c) :
          IsStart(c, NoName, a) /\ \A j \in 1 .. Len(c) : c[j].kind = "section" => j <= a
    BY <1>2 DEF Open
  <2>2. a = 0
    BY <2>1 DEF IsStart
  <2> QED
    BY <1>1, <2>1, <2>2
<1>3. ASSUME \A m \in 1 .. Len(c) : c[m].kind # "section" PROVE Open(c, NoName)
  <2>1. 0 \in 0 .. Len(c) /\ IsStart(c, NoName, 0)
    BY <1>1 DEF IsStart
  <2> QED
    BY <1>3, <2>1 DEF Open
<1> QED
  BY <1>2, <1>3 DEF Entered

LEMMA OpenJoined ==
  ASSUME NEW u \in Content, NEW v \in Content, NEW s
  PROVE  Open(u \o v, s) <=>
           (Open(u, s) /\ Open(v, NoName)) \/ (~Entered(u, s) /\ Open(v, s))
<1> DEFINE w == u \o v
           l == Len(u)
<1>1. /\ Len(w) = l + Len(v) /\ l \in Nat /\ Len(v) \in Nat
      /\ \A m \in 1 .. l : w[m] = u[m] /\ m \in 1 .. Len(w)
      /\ \A m \in 1 .. Len(v) : w[l + m] = v[m] /\ l + m \in 1 .. Len(w)
      /\ \A m \in 1 .. Len(w) : m \in 1 .. l \/ \E j \in 1 .. Len(v) : m = l + j
  BY Joined
<1>2. \A a \in 0 .. l : IsStart(w, s, a) <=> IsStart(u, s, a)
  BY StartJoined
<1>3. Open(v, NoName) <=> \A m \in 1 .. Len(v) : v[m].kind # "section"
  BY OpenFront
<1> HIDE DEF w, l
<1>4. ASSUME Open(w, s)
      PROVE  (Open(u, s) /\ Open(v, NoName)) \/ (~Entered(u, s) /\ Open(v, s))
  <2>1. PICK a \in 0 .. Len(w) :
          IsStart(w, s, a) /\ \A m \in 1 .. Len(w) : w[m].kind = "section" => m <= a
    BY <1>4 DEF Open
  <2>2. CASE a \in 0 .. l
    <3>1. \A m \in 1 .. l : u[m].kind = "section" => m <= a
      BY <1>1, <2>1
    <3>2. \A m \in 1 .. Len(v) : v[m].kind # "section"
      <4> SUFFICES ASSUME NEW m \in 1 .. Len(v), v[m].kind = "section" PROVE FALSE
        OBVIOUS
      <4>1. l + m <= a
        BY <1>1, <2>1
      <4> QED
        BY <1>1, <2>2, <4>1
    <3> QED
      BY <1>2, <1>3, <2>1, <2>2, <3>1, <3>2 DEF Open, l
  <2>3. ASSUME NEW b \in 1 .. Len(v), a = l + b
        PROVE  ~Entered(u, s) /\ Open(v, s)
    <3>1. s # NoName /\ IsSection(v[b], s) /\ \A m \in 1 .. Len(w) : IsSection(w[m], s) => a <= m
      <4>1. a # 0
        BY <1>1, <2>3
      <4>2. s # NoName
        BY <2>1, <4>1 DEF IsStart
      <4>3. IsSection(w[a], s) /\ \A m \in 1 .. Len(w) : IsSection(w[m], s) => a <= m
        BY <2>1, <4>2 DEF IsStart
      <4>4. w[a] = v[b]
        BY <1>1, <2>3
      <4> QED
        BY <4>2, <4>3, <4>4
    <3>2. ~Entered(u, s)
      <4> SUFFICES ASSUME NEW m \in 1 .. l, IsSection(u[m], s) PROVE FALSE
        BY <3>1 DEF Entered, l
      <4>1. a <= m
        BY <1>1, <3>1
      <4> QED
        BY <1>1, <2>3, <4>1
    <3>3. IsStart(v, s, b)
      <4> SUFFICES ASSUME NEW m \in 1 .. Len(v), IsSection(v[m], s) PROVE b <= m
        BY <2>3, <3>1 DEF IsStart
      <4>1. a <= l + m
        BY <1>1, <3>1
      <4> QED
        BY <1>1, <2>3, <4>1
    <3>4. \A m \in 1 .. Len(v) : v[m].kind = "section" => m <= b
      <4> SUFFICES ASSUME NEW m \in 1 .. Len(v), v[m].kind = "section" PROVE m <= b
        OBVIOUS
      <4>1. l + m <= a
        BY <1>1, <2>1
      <4> QED
        BY <1>1, <2>3, <4>1
    <3>5. b \in 0 .. Len(v)
      BY <1>1, <2>3
    <3> QED
      BY <3>2, <3>3, <3>4, <3>5 DEF Open
  <2>4. a \in 0 .. l \/ \E b \in 1 .. Len(v) : a = l + b
    <3>1. a \in 0 .. l \/ a \in 1 .. Len(w)
      BY <1>1
    <3> QED
      BY <1>1, <3>1
  <2> QED
    BY <2>2, <2>3, <2>4
<1>5. ASSUME Open(u, s), Open(v, NoName) PROVE Open(w, s)
  <2>1. PICK a \in 0 .. l :
          IsStart(u, s, a) /\ \A m \in 1 .. l : u[m].kind = "section" => m <= a
    BY <1>5 DEF Open, l
  <2>2. \A m \in 1 .. Len(w) : w[m].kind = "section" => m <= a
    BY <1>1, <1>3, <1>5, <2>1
  <2>3. a \in 0 .. Len(w) /\ IsStart(w, s, a)
    BY <1>1, <1>2, <2>1
  <2> QED
    BY <2>2, <2>3 DEF Open
<1>6. ASSUME ~Entered(u, s), Open(v, s) PROVE Open(w, s)
  <2>1. PICK b \in 0 .. Len(v) :
          IsStart(v, s, b) /\ \A m \in 1 .. Len(v) : v[m].kind = "section" => m <= b
    BY <1>6 DEF Open
  <2>2. s # NoName /\ \A m \in 1 .. l : ~IsSection(u[m], s)
    BY <1>6 DEF Entered, l
  <2>3. /\ b \in 1 .. Len(v) /\ IsSection(v[b], s)
        /\ \A m \in 1 .. Len(v) : IsSection(v[m], s) => b <= m
    BY <2>1, <2>2 DEF IsStart
  <2>4. IsStart(w, s, l + b)
    <3> SUFFICES ASSUME NEW m \in 1 .. Len(w), IsSection(w[m], s) PROVE l + b <= m
      BY <1>1, <2>2, <2>3 DEF IsStart
    <3>1. CASE m \in 1 .. l
      BY <1>1, <2>2, <3>1
    <3>2. ASSUME NEW j \in 1 .. Len(v), m = l + j PROVE l + b <= m
      <4>1. b <= j
        BY <1>1, <2>3, <3>2
      <4> QED
        BY <1>1, <2>3, <3>2, <4>1
    <3> QED
      BY <1>1, <3>1, <3>2
  <2>5. l + b \in 0 .. Len(w)
    BY <1>1, <2>3
  <2>6. ASSUME NEW m \in 1 .. Len(w), w[m].kind = "section" PROVE m <= l + b
    <3>1. CASE m \in 1 .. l
      BY <1>1, <2>3, <3>1
    <3>2. ASSUME NEW j \in 1 .. Len(v), m = l + j PROVE m <= l + b
      <4>1. j <= b
        BY <1>1, <2>1, <2>6, <3>2
      <4> QED
        BY <1>1, <2>3, <3>2, <4>1
    <3> QED
      BY <1>1, <3>1, <3>2
  <2> QED
    BY <2>4, <2>5, <2>6 DEF Open
<1> QED
  BY <1>4, <1>5, <1>6 DEF w

LEMMA FoundJoined ==
  ASSUME NEW u, NEW v, Tidy(u), Tidy(v), Tidy(u \o v), NEW s, NEW k
  PROVE  /\ \A n \in 1 .. Len(u) : n \in Found(u \o v, s, k) <=> n \in Found(u, s, k)
         /\ \A n \in 1 .. Len(v) :
              Len(u) + n \in Found(u \o v, s, k) <=>
                \/ Open(u, s) /\ n \in Found(v, NoName, k)
                \/ ~Entered(u, s) /\ n \in Found(v, s, k)
<1>1. u \in Content /\ v \in Content
  BY DEF Tidy
<1>2. /\ \A m \in 1 .. Len(u) : (u \o v)[m] = u[m] /\ m \in 1 .. Len(u \o v)
      /\ \A m \in 1 .. Len(v) : (u \o v)[Len(u) + m] = v[m] /\ Len(u) + m \in 1 .. Len(u \o v)
  BY <1>1, Joined
<1>3. ASSUME NEW n \in 1 .. Len(u)
      PROVE  n \in Found(u \o v, s, k) <=> n \in Found(u, s, k)
  <2>1. Found(u \o v, s, k) =
          {m \in 1 .. Len(u \o v) : IsKey((u \o v)[m], k) /\ Under(u \o v, s, m)}
    BY FoundIs
  <2>2. Found(u, s, k) = {m \in 1 .. Len(u) : IsKey(u[m], k) /\ Under(u, s, m)}
    BY FoundIs
  <2>3. Under(u \o v, s, n) <=> Under(u, s, n)
    BY <1>1, UnderFirst
  <2>4. (u \o v)[n] = u[n] /\ n \in 1 .. Len(u \o v)
    BY <1>2
  <2> QED
    BY <2>1, <2>2, <2>3, <2>4
<1>4. ASSUME NEW n \in 1 .. Len(v)
      PROVE  Len(u) + n \in Found(u \o v, s, k) <=>
                \/ Open(u, s) /\ n \in Found(v, NoName, k)
                \/ ~Entered(u, s) /\ n \in Found(v, s, k)
  <2>1. Under(u \o v, s, Len(u) + n) <=>
           (Open(u, s) /\ Under(v, NoName, n)) \/ (~Entered(u, s) /\ Under(v, s, n))
    BY <1>1, UnderRest
  <2>2. IsKey((u \o v)[Len(u) + n], k) <=> IsKey(v[n], k)
    BY <1>2
  <2>3. /\ n \in Found(v, NoName, k) <=> IsKey(v[n], k) /\ Under(v, NoName, n)
        /\ n \in Found(v, s, k) <=> IsKey(v[n], k) /\ Under(v, s, n)
    BY FoundIs
  <2>4. Len(u) + n \in Found(u \o v, s, k) <=>
          IsKey((u \o v)[Len(u) + n], k) /\ Under(u \o v, s, Len(u) + n)
    <3>1. Found(u \o v, s, k) =
            {m \in 1 .. Len(u \o v) : IsKey((u \o v)[m], k) /\ Under(u \o v, s, m)}
      BY FoundIs
    <3>2. Len(u) + n \in 1 .. Len(u \o v)
      BY <1>2
    <3> QED
      BY <3>1, <3>2
  <2> QED
    BY <2>1, <2>2, <2>3, <2>4
<1> QED
  BY <1>3, <1>4

(* A key that is there has a value, and one that is not has none.          *)
LEMMA GetsIs ==
  ASSUME NEW c, Tidy(c), NEW s, NEW k
  PROVE  /\ Found(c, s, k) = {} => ini_gets(c, s, k) = Null
         /\ Found(c, s, k) # {} =>
              /\ Min(Found(c, s, k)) \in Found(c, s, k)
              /\ \A n \in Found(c, s, k) : Min(Found(c, s, k)) <= n
              /\ ini_gets(c, s, k) = c[Min(Found(c, s, k))].value
              /\ ini_gets(c, s, k) \in Values /\ ini_gets(c, s, k) # Null
              /\ Read[ini_gets(c, s, k)] = ini_gets(c, s, k)
         /\ Found(c, s, k) \in SUBSET (1 .. Len(c)) /\ 1 .. Len(c) \in SUBSET Nat
<1> DEFINE F == Found(c, s, k)
<1>1. c # Absent /\ DOMAIN c = 1 .. Len(c) /\ Len(c) \in Nat
  BY ContentsAssumption DEF Tidy, Content
<1>2. F \in SUBSET (1 .. Len(c)) /\ F \in SUBSET Nat /\ \A n \in F : IsKey(c[n], k)
  BY <1>1, FoundIs
<1>3. CASE F = {}
  BY <1>1, <1>2, <1>3 DEF ini_gets
<1>4. CASE F # {}
  <2>1. Min(F) \in F /\ \A n \in F : Min(F) <= n
    BY <1>2, <1>4, MinIs
  <2> HIDE DEF F
  <2>2. ini_gets(c, s, k) = c[Min(F)].value
    BY <1>1, <1>4 DEF ini_gets, F
  <2>3. /\ c[Min(F)].value \in Values
        /\ Read[c[Min(F)].value] = c[Min(F)].value
    BY <1>1, <1>2, <2>1 DEF Tidy, IsKey
  <2> QED
    BY <1>1, <1>2, <1>4, <2>1, <2>2, <2>3, NamesAssumption DEF F
<1> QED
  BY <1>3, <1>4

LEMMA GetsJoined ==
  ASSUME NEW u, NEW v, Tidy(u), Tidy(v), Tidy(u \o v), NEW s, NEW k
  PROVE  ini_gets(u \o v, s, k) =
           IF ini_gets(u, s, k) # Null THEN ini_gets(u, s, k)
           ELSE IF Open(u, s) THEN ini_gets(v, NoName, k)
           ELSE IF Entered(u, s) THEN Null
           ELSE ini_gets(v, s, k)
<1> DEFINE w  == u \o v
           F  == Found(w, s, k)
           Fu == Found(u, s, k)
           Fv == IF Open(u, s) THEN Found(v, NoName, k)
                 ELSE IF Entered(u, s) THEN {} ELSE Found(v, s, k)
<1>1. u \in Content /\ v \in Content
  BY DEF Tidy
<1>2. /\ Len(w) = Len(u) + Len(v) /\ Len(u) \in Nat /\ Len(v) \in Nat
      /\ \A m \in 1 .. Len(u) : w[m] = u[m] /\ m \in 1 .. Len(w)
      /\ \A m \in 1 .. Len(v) : w[Len(u) + m] = v[m] /\ Len(u) + m \in 1 .. Len(w)
      /\ \A m \in 1 .. Len(w) : m \in 1 .. Len(u) \/ \E j \in 1 .. Len(v) : m = Len(u) + j
  BY <1>1, Joined
<1>3. /\ \A n \in 1 .. Len(u) : n \in F <=> n \in Fu
      /\ \A n \in 1 .. Len(v) : Len(u) + n \in F <=> n \in Fv
  BY FoundJoined, OpenEntered
<1>4. /\ F \in SUBSET (1 .. Len(w)) /\ Fu \in SUBSET (1 .. Len(u)) /\ Fv \in SUBSET (1 .. Len(v))
      /\ F \in SUBSET Nat /\ Fu \in SUBSET Nat /\ Fv \in SUBSET Nat
  BY GetsIs
<1>5. CASE Fu # {}
  <2>1. Min(Fu) \in Fu /\ \A n \in Fu : Min(Fu) <= n
    BY <1>4, <1>5, MinIs
  <2>2. /\ ini_gets(u, s, k) # Null /\ ini_gets(u, s, k) = u[Min(Fu)].value
    BY <1>5, GetsIs
  <2> DEFINE a == Min(Fu)
  <2> HIDE DEF F, Fu, Fv, w, a
  <2>3. a \in F /\ a \in 1 .. Len(u) /\ \A n \in F : a <= n
    <3>1. a \in Fu /\ a \in 1 .. Len(u)
      BY <1>4, <2>1 DEF a
    <3>2. ASSUME NEW n \in F PROVE a <= n
      <4>1. CASE n \in 1 .. Len(u)
        BY <1>3, <2>1, <3>2, <4>1 DEF a
      <4>2. CASE n \notin 1 .. Len(u)
        BY <1>2, <1>4, <3>1, <3>2, <4>2
      <4> QED
        BY <4>1, <4>2
    <3> QED
      BY <1>3, <3>1, <3>2
  <2>4. Min(F) = a
    BY <1>4, <2>3, MinOnly
  <2>5. ini_gets(w, s, k) = w[Min(F)].value
    BY <2>3, GetsIs DEF F, w
  <2> QED
    BY <1>2, <2>2, <2>3, <2>4, <2>5 DEF w, a
<1>6. CASE Fu = {} /\ Fv = {}
  <2>1. F = {}
    BY <1>2, <1>3, <1>4, <1>6
  <2>2. ini_gets(w, s, k) = Null /\ ini_gets(u, s, k) = Null
    BY <1>6, <2>1, GetsIs
  <2>3. /\ Open(u, s) => ini_gets(v, NoName, k) = Null
        /\ ~Entered(u, s) => ini_gets(v, s, k) = Null
    BY <1>6, OpenEntered, GetsIs
  <2> QED
    BY <2>2, <2>3
<1>7. CASE Fu = {} /\ Fv # {}
  <2>1. Min(Fv) \in Fv /\ \A n \in Fv : Min(Fv) <= n
    BY <1>4, <1>7, MinIs
  <2>2. /\ ini_gets(u, s, k) = Null
        /\ Open(u, s) => ini_gets(v, NoName, k) = v[Min(Fv)].value
        /\ ~Open(u, s) => ~Entered(u, s) /\ ini_gets(v, s, k) = v[Min(Fv)].value
    BY <1>7, GetsIs
  <2> DEFINE a == Min(Fv)
  <2> HIDE DEF F, Fu, Fv, w, a
  <2>3. /\ a \in 1 .. Len(v) /\ Len(u) + a \in F
        /\ \A n \in F : Len(u) + a <= n
    <3>1. a \in Fv /\ a \in 1 .. Len(v)
      BY <1>4, <2>1 DEF a
    <3>2. ASSUME NEW n \in F PROVE Len(u) + a <= n
      <4>1. n \notin 1 .. Len(u)
        BY <1>3, <1>7, <3>2
      <4>2. PICK j \in 1 .. Len(v) : n = Len(u) + j
        BY <1>2, <1>4, <4>1
      <4>3. j \in Fv
        BY <1>3, <4>2
      <4>4. a <= j
        BY <2>1, <4>3 DEF a
      <4> QED
        BY <1>2, <3>1, <4>2, <4>4
    <3> QED
      BY <1>3, <3>1, <3>2
  <2>4. Min(F) = Len(u) + a
    BY <1>4, <2>3, MinOnly
  <2>5. ini_gets(w, s, k) = w[Min(F)].value
    BY <2>3, GetsIs DEF F, w
  <2> QED
    BY <1>2, <2>2, <2>3, <2>4, <2>5 DEF w, a
<1> QED
  BY <1>5, <1>6, <1>7


-----------------------------------------------------------------------------
(***************************************************************************)
(* Parts that count for the same: for what section s says of key k.        *)
(***************************************************************************)
Same(c, d, s, k) ==
  /\ Entered(c, s) <=> Entered(d, s)
  /\ Open(c, s) <=> Open(d, s)
  /\ ini_gets(c, s, k) = ini_gets(d, s, k)

(* The same wherever they stand.                                           *)
Alike(c, d, s, k) == Same(c, d, s, k) /\ Same(c, d, NoName, k)

LEMMA SameTrivial ==
  /\ \A c, s, k : Same(c, c, s, k) /\ Alike(c, c, s, k)
  /\ \A c, d, e, s, k : Same(c, d, s, k) /\ Same(d, e, s, k) => Same(c, e, s, k)
  /\ \A c, d, e, s, k : Alike(c, d, s, k) /\ Alike(d, e, s, k) => Alike(c, e, s, k)
  /\ \A c, d, s, k : Same(c, d, s, k) => Same(d, c, s, k)
<1>1. \A c, d, e, s, k : Same(c, d, s, k) /\ Same(d, e, s, k) => Same(c, e, s, k)
  BY DEF Same
<1>2. \A c, d, s, k : Same(c, d, s, k) => Same(d, c, s, k)
  BY DEF Same
<1>3. \A c, s, k : Same(c, c, s, k)
  BY DEF Same
<1> QED
  BY <1>1, <1>2, <1>3 DEF Alike

LEMMA SameJoined ==
  ASSUME NEW u, NEW v, Tidy(u), Tidy(v), Tidy(u \o v),
         NEW x, NEW y, Tidy(x), Tidy(y), Tidy(x \o y),
         NEW s, NEW k, Same(u, x, s, k), Alike(v, y, s, k)
  PROVE  Same(u \o v, x \o y, s, k)
<1>1. u \in Content /\ v \in Content /\ x \in Content /\ y \in Content
  BY DEF Tidy
<1>2. Entered(u \o v, s) <=> Entered(x \o y, s)
  BY <1>1, EnteredJoined DEF Same, Alike
<1>3. Open(u \o v, s) <=> Open(x \o y, s)
  BY <1>1, OpenJoined DEF Same, Alike
<1>4. ini_gets(u \o v, s, k) = ini_gets(x \o y, s, k)
  <2>1. ini_gets(u \o v, s, k) =
           IF ini_gets(u, s, k) # Null THEN ini_gets(u, s, k)
           ELSE IF Open(u, s) THEN ini_gets(v, NoName, k)
           ELSE IF Entered(u, s) THEN Null
           ELSE ini_gets(v, s, k)
    BY GetsJoined
  <2>2. ini_gets(x \o y, s, k) =
           IF ini_gets(x, s, k) # Null THEN ini_gets(x, s, k)
           ELSE IF Open(x, s) THEN ini_gets(y, NoName, k)
           ELSE IF Entered(x, s) THEN Null
           ELSE ini_gets(y, s, k)
    BY GetsJoined
  <2> QED
    BY <2>1, <2>2 DEF Same, Alike
<1> QED
  BY <1>2, <1>3, <1>4 DEF Same

(* A line: a text and its end, which may be missing or be further on than  *)
(* the buffer, or an end alone.                                            *)
IsLine(x) ==
  /\ Tidy(x) /\ Len(x) \in {1, 2}
  /\ Len(x) = 2 => x[2] \in {LineTerm, Cut} /\ IsText(x[1])

LEMMA OfLine ==
  ASSUME NEW x, IsLine(x), NEW s, NEW k
  PROVE  /\ x[1].kind = "section" =>
              /\ Entered(x, s) <=> s = NoName \/ IsSection(x[1], s)
              /\ Open(x, s) <=> s # NoName /\ IsSection(x[1], s)
              /\ ini_gets(x, s, k) = Null
         /\ x[1].kind # "section" =>
              /\ Entered(x, s) <=> s = NoName
              /\ Open(x, s) <=> s = NoName
              /\ ini_gets(x, s, k) = IF s = NoName /\ IsKey(x[1], k) THEN x[1].value ELSE Null
<1>1. /\ x \in Content /\ Tidy(x) /\ Len(x) \in Nat /\ 1 \in 1 .. Len(x)
      /\ \A m \in 1 .. Len(x) : m = 1 \/ (m = 2 /\ x[m] \in {LineTerm, Cut})
  <2>1. Tidy(x) /\ Len(x) \in {1, 2} /\ (Len(x) = 2 => x[2] \in {LineTerm, Cut})
    BY DEF IsLine
  <2>3. x \in Content
    BY <2>1 DEF Tidy
  <2>2. \A m \in 1 .. Len(x) : m = 1 \/ (m = 2 /\ Len(x) = 2)
    <3>1. CASE Len(x) = 1
      BY <3>1
    <3>2. CASE Len(x) = 2
      BY <3>2
    <3> QED
      BY <2>1, <3>1, <3>2
  <2> QED
    BY <2>1, <2>2, <2>3
<1>2. \A m \in 1 .. Len(x) : m # 1 => x[m].kind # "section" /\ x[m].kind # "key"
  BY <1>1, TextTypes
<1>3. Found(x, s, k) = {n \in 1 .. Len(x) : IsKey(x[n], k) /\ Under(x, s, n)}
  BY <1>1, FoundIs
<1>4. CASE x[1].kind = "section"
  <2>1. Found(x, s, k) = {}
    BY <1>1, <1>2, <1>3, <1>4 DEF IsKey
  <2>2. ini_gets(x, s, k) = Null
    BY <1>1, <2>1, GetsIs
  <2>3. Entered(x, s) <=> s = NoName \/ IsSection(x[1], s)
    BY <1>1, <1>2 DEF Entered, IsSection
  <2>4. Open(x, s) <=> s # NoName /\ IsSection(x[1], s)
    <3>1. CASE s = NoName
      BY <1>1, <1>4, <3>1, OpenFront
    <3>2. CASE s # NoName /\ IsSection(x[1], s)
      <4>1. 1 \in 0 .. Len(x) /\ IsStart(x, s, 1)
        BY <1>1, <3>2 DEF IsStart
      <4>2. \A m \in 1 .. Len(x) : x[m].kind = "section" => m <= 1
        BY <1>1, <1>2
      <4> QED
        BY <3>2, <4>1, <4>2 DEF Open
    <3>3. CASE s # NoName /\ ~IsSection(x[1], s)
      BY <2>3, <3>3, OpenEntered
    <3> QED
      BY <3>1, <3>2, <3>3
  <2> QED
    BY <1>4, <2>2, <2>3, <2>4
<1>5. CASE x[1].kind # "section"
  <2>1. Entered(x, s) <=> s = NoName
    BY <1>1, <1>2, <1>5 DEF Entered, IsSection
  <2>2. Open(x, s) <=> s = NoName
    <3>1. CASE s = NoName
      BY <1>1, <1>2, <1>5, <3>1, OpenFront
    <3>2. CASE s # NoName
      BY <2>1, <3>2, OpenEntered
    <3> QED
      BY <3>1, <3>2
  <2>3. Under(x, s, 1) <=> s = NoName
    <3>1. ASSUME s = NoName PROVE Under(x, s, 1)
      <4>1. 0 \in 0 .. Len(x) /\ IsStart(x, s, 0) /\ 0 < 1
        BY <1>1, <3>1 DEF IsStart
      <4>2. \A m \in 1 .. Len(x) : x[m].kind # "section"
        BY <1>1, <1>2, <1>5
      <4> QED
        BY <4>1, <4>2 DEF Under
    <3>2. ASSUME Under(x, s, 1) PROVE s = NoName
      <4>1. PICK a \in 0 .. Len(x) : IsStart(x, s, a) /\ a < 1
        BY <3>2 DEF Under
      <4> QED
        BY <1>1, <4>1 DEF IsStart
    <3> QED
      BY <3>1, <3>2
  <2>4. CASE s = NoName /\ IsKey(x[1], k)
    <3>1. Found(x, s, k) = {1}
      BY <1>1, <1>2, <1>3, <2>3, <2>4 DEF IsKey
    <3>2. Min(Found(x, s, k)) = 1
      BY <1>1, <3>1, GetsIs
    <3> QED
      BY <1>1, <1>5, <2>1, <2>2, <2>4, <3>1, <3>2, GetsIs
  <2>5. CASE ~(s = NoName /\ IsKey(x[1], k))
    <3>1. Found(x, s, k) = {}
      BY <1>1, <1>2, <1>3, <2>3, <2>5 DEF IsKey
    <3> QED
      BY <1>1, <1>5, <2>1, <2>2, <2>5, <3>1, GetsIs
  <2> QED
    BY <2>4, <2>5
<1> QED
  BY <1>4, <1>5

LEMMA OfEmpty ==
  ASSUME NEW s, NEW k
  PROVE  /\ Entered(<<>>, s) <=> s = NoName
         /\ Open(<<>>, s) <=> s = NoName
         /\ ini_gets(<<>>, s, k) = Null
<1>1. Tidy(<<>>) /\ <<>> \in Content /\ Len(<<>>) = 0
  BY EmptyTidy DEF Content
<1>2. Entered(<<>>, s) <=> s = NoName
  BY <1>1 DEF Entered
<1>3. Open(<<>>, s) <=> s = NoName
  BY <1>1, <1>2, OpenFront, OpenEntered
<1>4. Found(<<>>, s, k) = {}
  BY <1>1, GetsIs
<1> QED
  BY <1>1, <1>2, <1>3, <1>4, GetsIs

(* An empty line counts for nothing.                                       *)
LEMMA BlankLine ==
  /\ IsLine(<<LineTerm>>) /\ Tidy(<<LineTerm>>) /\ Clean(<<LineTerm>>)
  /\ \A s, k : Alike(<<LineTerm>>, <<>>, s, k)
<1>1. IsLine(<<LineTerm>>) /\ Tidy(<<LineTerm>>) /\ Clean(<<LineTerm>>)
  BY TextTypes DEF IsLine, Tidy, Content, Clean
<1>2. <<LineTerm>>[1].kind # "section" /\ <<LineTerm>>[1].kind # "key"
  BY TextTypes
<1>3. ASSUME NEW s, NEW k PROVE Same(<<LineTerm>>, <<>>, s, k)
  <2>1. /\ Entered(<<LineTerm>>, s) <=> s = NoName
        /\ Open(<<LineTerm>>, s) <=> s = NoName
        /\ ini_gets(<<LineTerm>>, s, k) = Null
    BY <1>1, <1>2, OfLine DEF IsKey
  <2> QED
    BY <2>1, OfEmpty DEF Same
<1> QED
  BY <1>1, <1>3 DEF Alike


-----------------------------------------------------------------------------
(* The remarks of a file are those of its parts.                           *)
LEMMA RemarksJoined ==
  ASSUME NEW u \in Content, NEW v \in Content
  PROVE  /\ \A n \in 1 .. Len(u) : n \in Remarks(u \o v) <=> n \in Remarks(u)
         /\ \A n \in 1 .. Len(v) : Len(u) + n \in Remarks(u \o v) <=> n \in Remarks(v)
         /\ Remarks(u) \in SUBSET (1 .. Len(u)) /\ Remarks(v) \in SUBSET (1 .. Len(v))
         /\ \A n \in Remarks(u \o v) : \/ n \in Remarks(u)
                                       \/ \E m \in Remarks(v) : n = Len(u) + m
<1>1. /\ DOMAIN u = 1 .. Len(u) /\ DOMAIN v = 1 .. Len(v)
      /\ DOMAIN (u \o v) = 1 .. Len(u \o v) /\ u \o v \in Content
  BY Joined DEF Content
<1>2. /\ Len(u \o v) = Len(u) + Len(v) /\ Len(u) \in Nat /\ Len(v) \in Nat
      /\ \A m \in 1 .. Len(u) : (u \o v)[m] = u[m] /\ m \in 1 .. Len(u \o v)
      /\ \A m \in 1 .. Len(v) : (u \o v)[Len(u) + m] = v[m] /\ Len(u) + m \in 1 .. Len(u \o v)
      /\ \A m \in 1 .. Len(u \o v) : m \in 1 .. Len(u) \/ \E j \in 1 .. Len(v) : m = Len(u) + j
  BY Joined
<1>3. \A n \in 1 .. Len(u) : n \in Remarks(u \o v) <=> n \in Remarks(u)
  BY <1>1, <1>2 DEF Remarks
<1>4. \A n \in 1 .. Len(v) : Len(u) + n \in Remarks(u \o v) <=> n \in Remarks(v)
  BY <1>1, <1>2 DEF Remarks
<1>5. Remarks(u) \in SUBSET (1 .. Len(u)) /\ Remarks(v) \in SUBSET (1 .. Len(v))
  BY <1>1 DEF Remarks
<1>6. ASSUME NEW n \in Remarks(u \o v)
      PROVE  n \in Remarks(u) \/ \E m \in Remarks(v) : n = Len(u) + m
  <2>1. n \in 1 .. Len(u \o v)
    BY <1>1 DEF Remarks
  <2> QED
    BY <1>2, <1>3, <1>4, <1>6, <2>1
<1> QED
  BY <1>3, <1>4, <1>5, <1>6

Carries(f, c, d) ==
  /\ f \in [Remarks(c) -> Remarks(d)]
  /\ \A m \in Remarks(d) : \E n \in Remarks(c) : f[n] = m
  /\ \A m, n \in Remarks(c) : m < n => f[m] < f[n]
  /\ \A n \in Remarks(c) : d[f[n]] = c[n]

LEMMA SameRemarksIs ==
  \A c, d : SameRemarks(c, d) <=> \E f : Carries(f, c, d)
BY Zenon DEF SameRemarks, Carries

LEMMA RemarksSame ==
  /\ \A c \in Content : SameRemarks(c, c)
  /\ \A c, d : Remarks(c) = {} /\ Remarks(d) = {} => SameRemarks(c, d)
<1>1. ASSUME NEW c \in Content PROVE SameRemarks(c, c)
  <2> DEFINE f == [n \in Remarks(c) |-> n]
  <2>1. Carries(f, c, c)
    BY DEF Carries
  <2> QED
    BY <2>1, SameRemarksIs
<1>2. ASSUME NEW c, NEW d, Remarks(c) = {}, Remarks(d) = {} PROVE SameRemarks(c, d)
  <2> DEFINE f == [n \in {} |-> n]
  <2>1. Carries(f, c, d)
    BY <1>2 DEF Carries
  <2> QED
    BY <2>1, SameRemarksIs
<1> QED
  BY <1>1, <1>2

LEMMA RemarksChain ==
  ASSUME NEW c, NEW d, NEW e, SameRemarks(c, d), SameRemarks(d, e)
  PROVE  SameRemarks(c, e)
<1>1. PICK f : Carries(f, c, d)
  BY SameRemarksIs
<1>2. PICK g : Carries(g, d, e)
  BY SameRemarksIs
<1> DEFINE h == [n \in Remarks(c) |-> g[f[n]]]
<1>3. /\ \A n \in Remarks(c) : f[n] \in Remarks(d)
      /\ \A n \in Remarks(d) : g[n] \in Remarks(e)
  BY <1>1, <1>2 DEF Carries
<1>4. h \in [Remarks(c) -> Remarks(e)] /\ \A n \in Remarks(c) : h[n] = g[f[n]]
  BY <1>3
<1> HIDE DEF h
<1>5. \A m \in Remarks(e) : \E n \in Remarks(c) : h[n] = m
  <2> SUFFICES ASSUME NEW m \in Remarks(e) PROVE \E n \in Remarks(c) : h[n] = m
    OBVIOUS
  <2>1. PICK j \in Remarks(d) : g[j] = m
    BY <1>2 DEF Carries
  <2>2. PICK n \in Remarks(c) : f[n] = j
    BY <1>1 DEF Carries
  <2> QED
    BY <1>4, <2>1, <2>2
<1>6. \A m, n \in Remarks(c) : m < n => h[m] < h[n]
  BY <1>1, <1>2, <1>3, <1>4 DEF Carries
<1>7. \A n \in Remarks(c) : e[h[n]] = c[n]
  BY <1>1, <1>2, <1>3, <1>4 DEF Carries
<1>8. Carries(h, c, e)
  BY <1>4, <1>5, <1>6, <1>7 DEF Carries
<1> QED
  BY <1>8, SameRemarksIs

LEMMA RemarksOfBoth ==
  ASSUME NEW u \in Content, NEW v \in Content, NEW x \in Content, NEW y \in Content,
         SameRemarks(u, x), SameRemarks(v, y)
  PROVE  SameRemarks(u \o v, x \o y)
<1> DEFINE w == u \o v
           z == x \o y
<1>1. PICK f : Carries(f, u, x)
  BY SameRemarksIs
<1>2. PICK g : Carries(g, v, y)
  BY SameRemarksIs
<1>3. /\ \A n \in 1 .. Len(u) : n \in Remarks(w) <=> n \in Remarks(u)
      /\ \A n \in 1 .. Len(v) : Len(u) + n \in Remarks(w) <=> n \in Remarks(v)
      /\ Remarks(u) \in SUBSET (1 .. Len(u)) /\ Remarks(v) \in SUBSET (1 .. Len(v))
      /\ \A n \in Remarks(w) : n \in Remarks(u) \/ \E m \in Remarks(v) : n = Len(u) + m
  BY RemarksJoined
<1>4. /\ \A n \in 1 .. Len(x) : n \in Remarks(z) <=> n \in Remarks(x)
      /\ \A n \in 1 .. Len(y) : Len(x) + n \in Remarks(z) <=> n \in Remarks(y)
      /\ Remarks(x) \in SUBSET (1 .. Len(x)) /\ Remarks(y) \in SUBSET (1 .. Len(y))
      /\ \A n \in Remarks(z) : n \in Remarks(x) \/ \E m \in Remarks(y) : n = Len(x) + m
  BY RemarksJoined
<1>5. /\ Len(u) \in Nat /\ Len(v) \in Nat /\ Len(x) \in Nat /\ Len(y) \in Nat
      /\ \A n \in 1 .. Len(u) : w[n] = u[n]
      /\ \A n \in 1 .. Len(v) : w[Len(u) + n] = v[n]
      /\ \A n \in 1 .. Len(x) : z[n] = x[n]
      /\ \A n \in 1 .. Len(y) : z[Len(x) + n] = y[n]
  BY Joined
<1> HIDE DEF w, z
<1> DEFINE h == [n \in Remarks(w) |-> IF n \in 1 .. Len(u) THEN f[n] ELSE Len(x) + g[n - Len(u)]]
<1>6. /\ \A n \in Remarks(u) : f[n] \in Remarks(x) /\ f[n] \in 1 .. Len(x) /\ x[f[n]] = u[n]
      /\ \A n \in Remarks(v) : g[n] \in Remarks(y) /\ g[n] \in 1 .. Len(y) /\ y[g[n]] = v[n]
  BY <1>1, <1>2, <1>4 DEF Carries
<1>7. \A n \in Remarks(u) : n \in Remarks(w) /\ h[n] = f[n]
  BY <1>3
<1>8. ASSUME NEW n \in Remarks(v) PROVE Len(u) + n \in Remarks(w) /\ h[Len(u) + n] = Len(x) + g[n]
  <2>1. n \in 1 .. Len(v) /\ Len(u) + n \in Remarks(w)
    BY <1>3
  <2>2. Len(u) + n \notin 1 .. Len(u) /\ (Len(u) + n) - Len(u) = n
    BY <1>5, <2>1
  <2> QED
    BY <2>1, <2>2
<1>9. DOMAIN h = Remarks(w) /\ h = [n \in Remarks(w) |-> h[n]]
  OBVIOUS
<1> HIDE DEF h
<1>10. \A n \in Remarks(w) : h[n] \in Remarks(z) /\ z[h[n]] = w[n]
  <2> SUFFICES ASSUME NEW n \in Remarks(w) PROVE h[n] \in Remarks(z) /\ z[h[n]] = w[n]
    OBVIOUS
  <2>1. CASE n \in Remarks(u)
    BY <1>3, <1>4, <1>5, <1>6, <1>7, <2>1
  <2>2. ASSUME NEW m \in Remarks(v), n = Len(u) + m PROVE h[n] \in Remarks(z) /\ z[h[n]] = w[n]
    <3>1. m \in 1 .. Len(v) /\ h[n] = Len(x) + g[m] /\ g[m] \in Remarks(y)
          /\ g[m] \in 1 .. Len(y) /\ y[g[m]] = v[m]
      BY <1>3, <1>6, <1>8, <2>2
    <3>2. w[n] = v[m] /\ z[h[n]] = y[g[m]] /\ h[n] \in Remarks(z)
      BY <1>4, <1>5, <2>2, <3>1
    <3> QED
      BY <3>1, <3>2
  <2> QED
    BY <1>3, <2>1, <2>2
<1>11. h \in [Remarks(w) -> Remarks(z)]
  BY <1>9, <1>10
<1>12. \A m \in Remarks(z) : \E n \in Remarks(w) : h[n] = m
  <2> SUFFICES ASSUME NEW m \in Remarks(z) PROVE \E n \in Remarks(w) : h[n] = m
    OBVIOUS
  <2>1. CASE m \in Remarks(x)
    <3>1. PICK n \in Remarks(u) : f[n] = m
      BY <1>1, <2>1 DEF Carries
    <3> QED
      BY <1>7, <3>1
  <2>2. ASSUME NEW j \in Remarks(y), m = Len(x) + j PROVE \E n \in Remarks(w) : h[n] = m
    <3>1. PICK n \in Remarks(v) : g[n] = j
      BY <1>2 DEF Carries
    <3> QED
      BY <1>8, <2>2, <3>1
  <2> QED
    BY <1>4, <2>1, <2>2
<1>13. \A m, n \in Remarks(w) : m < n => h[m] < h[n]
  <2> SUFFICES ASSUME NEW m \in Remarks(w), NEW n \in Remarks(w), m < n PROVE h[m] < h[n]
    OBVIOUS
  <2>1. CASE m \in Remarks(u) /\ n \in Remarks(u)
    BY <1>1, <1>7, <2>1 DEF Carries
  <2>2. ASSUME m \in Remarks(u), NEW j \in Remarks(v), n = Len(u) + j PROVE h[m] < h[n]
    <3>1. h[m] \in 1 .. Len(x) /\ h[n] = Len(x) + g[j] /\ g[j] \in 1 .. Len(y)
      BY <1>6, <1>7, <1>8, <2>2
    <3> QED
      BY <1>5, <3>1
  <2>3. ASSUME NEW i \in Remarks(v), m = Len(u) + i, NEW j \in Remarks(v), n = Len(u) + j
        PROVE  h[m] < h[n]
    <3>1. i \in Nat /\ j \in Nat /\ i < j
      <4>1. i \in 1 .. Len(v) /\ j \in 1 .. Len(v)
        BY <1>3
      <4> QED
        BY <1>5, <2>3, <4>1
    <3>2. g[i] < g[j]
      BY <1>2, <3>1 DEF Carries
    <3>3. g[i] \in 1 .. Len(y) /\ g[j] \in 1 .. Len(y)
      BY <1>6
    <3>4. h[m] = Len(x) + g[i] /\ h[n] = Len(x) + g[j]
      BY <1>8, <2>3
    <3> QED
      BY <1>5, <3>2, <3>3, <3>4
  <2>4. ASSUME NEW i \in Remarks(v), m = Len(u) + i, n \in Remarks(u) PROVE FALSE
    <3>1. i \in 1 .. Len(v) /\ n \in 1 .. Len(u)
      BY <1>3, <2>4
    <3> QED
      BY <1>5, <2>4, <3>1
  <2> QED
    BY <1>3, <2>1, <2>2, <2>3, <2>4
<1>14. Carries(h, w, z)
  BY <1>10, <1>11, <1>12, <1>13 DEF Carries
<1> QED
  BY <1>14, SameRemarksIs DEF w, z


-----------------------------------------------------------------------------
(* Reading a line.                                                         *)
RestOf(c) == SubSeq(c, Len(LineOf(c)) + 1, Len(c))

LEMMA LineSplit ==
  ASSUME NEW c, Tidy(c), c # <<>>
  PROVE  /\ IsLine(LineOf(c)) /\ Tidy(RestOf(c)) /\ c = LineOf(c) \o RestOf(c)
         /\ Clean(LineOf(c)) \/ RestOf(c) = <<>>
<1> DEFINE E == {n \in DOMAIN c : ~IsText(c[n])}
           m == FirstOr(E, Len(c))
<1>1. /\ c \in Content /\ Len(c) \in Nat /\ Len(c) > 0 /\ DOMAIN c = 1 .. Len(c)
  BY DEF Tidy, Content
<1>2. LineOf(c) = SubSeq(c, 1, m)
  BY DEF LineOf
<1>3. /\ m \in 1 .. Len(c) /\ m <= 2
      /\ m = 2 => IsText(c[1]) /\ ~IsText(c[2])
      /\ ~IsText(c[m]) \/ m = Len(c)
  <2>1. CASE E = {}
    <3>1. m = Len(c) /\ \A n \in 1 .. Len(c) : IsText(c[n])
      BY <1>1, <2>1 DEF FirstOr
    <3>2. Len(c) = 1
      <4> SUFFICES ASSUME Len(c) > 1 PROVE FALSE
        BY <1>1
      <4>1. 2 \in DOMAIN c /\ 2 > 1 /\ 2 - 1 = 1 /\ 1 \in DOMAIN c
        BY <1>1
      <4> QED
        BY <1>1, <3>1, <4>1 DEF Tidy
    <3> QED
      BY <3>1, <3>2
  <2>2. CASE E # {}
    <3>1. E \in SUBSET Nat
      BY <1>1
    <3>2. m = Min(E)
      BY <2>2 DEF FirstOr
    <3>3. m \in E /\ \A n \in E : m <= n
      BY <2>2, <3>1, <3>2, MinIs
    <3> HIDE DEF m
    <3>4. m \in 1 .. Len(c) /\ ~IsText(c[m])
      BY <1>1, <3>3
    <3>5. m > 1 => IsText(c[1])
      BY <1>1, <3>3, <3>4
    <3>6. m <= 2
      <4> SUFFICES ASSUME m > 2 PROVE FALSE
        BY <3>4
      <4>1. 2 \in DOMAIN c /\ 2 > 1 /\ 2 - 1 = 1 /\ 1 \in DOMAIN c
        BY <1>1, <3>4
      <4>2. IsText(c[1]) /\ IsText(c[2])
        BY <1>1, <3>3, <3>4, <4>1
      <4> QED
        BY <4>1, <4>2 DEF Tidy
    <3> QED
      BY <3>4, <3>5, <3>6
  <2> QED
    BY <2>1, <2>2
<1> HIDE DEF m
<1>10. m \in 1 .. Len(c)
  BY <1>3
<1>4. /\ LineOf(c) \in Content /\ Len(LineOf(c)) = m
      /\ \A n \in 1 .. m : LineOf(c)[n] = c[n]
  <2>1. m \in Nat /\ 1 <= m /\ m <= Len(c)
    BY <1>1, <1>10
  <2>2. /\ SubSeq(c, 1, m) \in Seq(Texts) /\ Len(SubSeq(c, 1, m)) = m
        /\ \A n \in 1 .. m : SubSeq(c, 1, m)[n] = c[n]
    BY <1>1, <2>1 DEF Content
  <2> QED
    BY <1>2, <2>2 DEF Content
<1>5. Tidy(LineOf(c))
  <2>1. 1 \in 1 .. Len(c) + 1 /\ m \in 0 .. Len(c) /\ ~(1 > 1)
    BY <1>1, <1>10
  <2> QED
    BY <1>2, <2>1, TidyPart
<1>6. IsLine(LineOf(c))
  BY <1>3, <1>4, <1>5, TextTypes DEF IsLine
<1>7. Tidy(RestOf(c)) /\ (m = Len(c) => RestOf(c) = <<>>)
  <2>1. RestOf(c) = SubSeq(c, m + 1, Len(c))
    BY <1>4 DEF RestOf
  <2>2. m + 1 \in 1 .. Len(c) + 1 /\ Len(c) \in 0 .. Len(c)
    BY <1>1, <1>10
  <2>3. m = Len(c) => RestOf(c) = <<>>
    BY <1>1, <2>1 DEF Content
  <2>4. CASE m = Len(c)
    BY <2>3, <2>4, EmptyTidy
  <2>5. CASE m # Len(c)
    <3>1. ~IsText(c[m])
      BY <1>3, <2>5
    <3>3. (m + 1) - 1 = m
      BY <1>1, <1>10
    <3> QED
      BY <2>1, <2>2, <2>5, <3>1, <3>3, TidyPart
  <2> QED
    BY <2>3, <2>4, <2>5
<1>8. Clean(LineOf(c)) \/ RestOf(c) = <<>>
  BY <1>3, <1>4, <1>7 DEF Clean
<1>9. c = LineOf(c) \o RestOf(c)
  <2>1. /\ RestOf(c) \in Content /\ Len(RestOf(c)) = Len(c) - m
        /\ \A n \in 1 .. Len(c) - m : RestOf(c)[n] = c[m + n]
    BY <1>1, <1>4, <1>10, RestIs DEF RestOf
  <2>2. Len(LineOf(c) \o RestOf(c)) = Len(c)
    <3>1. Len(LineOf(c) \o RestOf(c)) = Len(LineOf(c)) + Len(RestOf(c))
      BY <1>4, <2>1, Joined
    <3>2. Len(LineOf(c)) = m /\ Len(RestOf(c)) = Len(c) - m
      BY <1>4, <2>1
    <3> QED
      BY <1>1, <1>10, <3>1, <3>2
  <2>3. ASSUME NEW n \in 1 .. Len(c) PROVE (LineOf(c) \o RestOf(c))[n] = c[n]
    <3>1. CASE n \in 1 .. m
      BY <1>1, <1>4, <1>10, <2>1, <3>1, Joined
    <3>2. CASE n \notin 1 .. m
      <4>1. n - m \in 1 .. Len(c) - m /\ m + (n - m) = n
        BY <1>1, <1>10, <3>2
      <4>2. (LineOf(c) \o RestOf(c))[m + (n - m)] = RestOf(c)[n - m]
        <5>1. n - m \in 1 .. Len(RestOf(c))
          BY <2>1, <4>1
        <5>2. (LineOf(c) \o RestOf(c))[Len(LineOf(c)) + (n - m)] = RestOf(c)[n - m]
          BY <1>4, <2>1, <5>1, Joined
        <5> QED
          BY <1>4, <5>2
      <4> QED
        BY <2>1, <4>1, <4>2
    <3> QED
      BY <3>1, <3>2
  <2>4. LineOf(c) \o RestOf(c) \in Seq(Texts) /\ c \in Seq(Texts)
    BY <1>1, <1>4, <2>1 DEF Content
  <2> QED
    BY <1>1, <2>2, <2>3, <2>4, SeqEqual
<1> QED
  BY <1>6, <1>7, <1>8, <1>9

(* What is copied of a line counts for what the line counts.               *)
CopyOf(x) ==
  IF ~IsText(x[1]) THEN <<>>
  ELSE [x EXCEPT ![1].name = IF x[1].kind = "key" THEN Bare[@] ELSE @]

LEMMA CopyIs ==
  ASSUME NEW x, IsLine(x)
  PROVE  /\ Tidy(CopyOf(x)) /\ (Clean(x) => Clean(CopyOf(x)))
         /\ \A s, k : Alike(CopyOf(x), x, s, k)
         /\ SameRemarks(CopyOf(x), x)
         /\ IsText(x[1]) => /\ IsLine(CopyOf(x)) /\ CopyOf(x)[1].kind = x[1].kind
                            /\ IsText(CopyOf(x)[1])
<1>1. x \in Content /\ DOMAIN x = 1 .. Len(x) /\ Tidy(x) /\ Len(x) \in {1, 2} /\ x \in Seq(Texts)
  BY DEF IsLine, Tidy, Content
<1>2. CASE ~IsText(x[1])
  <2>1. x = <<LineTerm>>
    <3>1. Len(x) = 1 /\ x[1] = LineTerm
      <4>1. Len(x) = 1 /\ 1 \in DOMAIN x
        BY <1>1, <1>2 DEF IsLine
      <4>2. x[1] # Cut
        BY <1>1, <4>1 DEF Tidy
      <4> QED
        BY <1>2, <4>1, <4>2, TextTypes
    <3> QED
      BY <1>1, <3>1
  <2>2. CopyOf(x) = <<>>
    BY <1>2 DEF CopyOf
  <2>3. ASSUME NEW s, NEW k PROVE Alike(<<>>, x, s, k)
    BY <2>1, BlankLine, SameTrivial DEF Alike
  <2>4. Remarks(<<>>) = {} /\ Remarks(x) = {}
    BY <1>1, <2>1, TextTypes DEF Remarks
  <2> QED
    BY <1>2, <2>2, <2>3, <2>4, EmptyTidy, RemarksSame
<1>3. CASE IsText(x[1])
  <2> DEFINE y == CopyOf(x)
             t == x[1]
             b == [x[1] EXCEPT !.name = IF x[1].kind = "key" THEN Bare[@] ELSE @]
  <2>1. t \in Texts /\ x[1] = t
    BY <1>1
  <2>2. /\ b \in Texts /\ b.kind = t.kind /\ b.value = t.value
        /\ b.name = IF t.kind = "key" THEN Bare[t.name] ELSE t.name
        /\ (t.kind # "key" => b = t) /\ t.name \in Names
    <3>1. b \in Texts
      BY <2>1, FoldAssumption DEF Texts
    <3>2. t.kind # "key" => b = t
      BY <2>1 DEF Texts
    <3> QED
      BY <2>1, <3>1, <3>2 DEF Texts
  <2>3. y = [x EXCEPT ![1] = b]
    BY <1>3 DEF CopyOf
  <2> HIDE DEF b, y, t
  <2>4. /\ y \in Content /\ Len(y) = Len(x) /\ y[1] = b
        /\ \A m \in 1 .. Len(x) : m # 1 => y[m] = x[m]
    BY <1>1, <2>2, <2>3 DEF Content
  <2>5. DOMAIN y = 1 .. Len(x)
    BY <1>1, <2>3
  <2>6. IsText(y[1])
    <3>1. CASE t.kind = "key"
      BY <2>2, <2>4, <3>1, TextTypes
    <3>2. CASE t.kind # "key"
      BY <1>3, <2>1, <2>2, <2>4, <3>2
    <3> QED
      BY <3>1, <3>2
  <2>7. Tidy(y)
    <3>1. ASSUME NEW m \in DOMAIN y, m > 1, IsText(y[m]) PROVE ~IsText(y[m - 1])
      <4>1. Len(x) = 2 /\ m = 2 /\ y[m] = x[2] /\ x[2] \in {LineTerm, Cut}
        BY <1>1, <2>4, <2>5, <3>1 DEF IsLine
      <4> QED
        BY <3>1, <4>1, TextTypes
    <3>2. ASSUME NEW m \in DOMAIN y, y[m].kind = "key"
          PROVE  y[m].value \in Values /\ Read[y[m].value] = y[m].value
      <4>1. CASE m = 1
        BY <1>1, <2>1, <2>2, <2>4, <2>5, <3>2, <4>1 DEF Tidy
      <4>2. CASE m # 1
        BY <1>1, <2>4, <2>5, <3>2, <4>2 DEF Tidy
      <4> QED
        BY <4>1, <4>2
    <3>3. ASSUME NEW m \in DOMAIN y, y[m] = Cut
          PROVE  m > 1 /\ IsText(y[m - 1]) /\ Bare[y[m - 1].name] = y[m - 1].name
      <4>1. m \in 1 .. Len(x) /\ m # 1
        BY <2>5, <2>6, <3>3, TextTypes
      <4>2. m = 2 /\ Len(x) = 2
        BY <1>1, <4>1
      <4>3. x[2] = Cut /\ 2 \in DOMAIN x /\ 2 - 1 = 1
        BY <1>1, <2>4, <3>3, <4>1, <4>2
      <4>4. Bare[x[1].name] = x[1].name
        BY <1>1, <4>3 DEF Tidy
      <4>5. b.name = t.name
        BY <2>1, <2>2, <4>4
      <4> QED
        BY <2>1, <2>4, <2>6, <4>2, <4>3, <4>4, <4>5
    <3> QED
      BY <2>4, <3>1, <3>2, <3>3 DEF Tidy
  <2>8. IsLine(y)
    BY <1>1, <2>4, <2>5, <2>6, <2>7 DEF IsLine
  <2>9. Clean(x) => Clean(y)
    <3> SUFFICES ASSUME Clean(x) PROVE ~IsText(y[Len(y)])
      BY DEF Clean
    <3>1. x # <<>>
      BY <1>1
    <3>2. ~IsText(x[Len(x)]) /\ Len(x) # 1
      BY <1>3, <3>1 DEF Clean
    <3> QED
      BY <1>1, <2>4, <3>2
  <2>10. ASSUME NEW s, NEW k PROVE Same(y, x, s, k)
    <3>1. IsSection(y[1], s) <=> IsSection(x[1], s)
      BY <2>1, <2>2, <2>4 DEF IsSection
    <3>2. IsKey(y[1], k) <=> IsKey(x[1], k)
      BY <2>1, <2>2, <2>4, FoldAssumption DEF IsKey, SameName
    <3>3. y[1].kind = x[1].kind /\ y[1].value = x[1].value
      BY <2>1, <2>2, <2>4
    <3>4. CASE x[1].kind = "section"
      BY <2>8, <3>1, <3>3, <3>4, OfLine DEF Same
    <3>5. CASE x[1].kind # "section"
      BY <2>8, <3>2, <3>3, <3>5, OfLine DEF Same
    <3> QED
      BY <3>4, <3>5
  <2>11. SameRemarks(y, x)
    <3>1. CASE x[1].kind = "comment"
      <4>1. b = t
        BY <2>1, <2>2, <3>1
      <4>2. y = x
        BY <1>1, <2>1, <2>3, <4>1
      <4> QED
        BY <1>1, <4>2, RemarksSame
    <3>2. CASE x[1].kind # "comment"
      <4>1. \A m \in 1 .. Len(x) : m # 1 => x[m].kind # "comment"
        BY <1>1, TextTypes DEF IsLine
      <4>2. Remarks(x) = {} /\ Remarks(y) = {}
        BY <1>1, <2>1, <2>2, <2>4, <2>5, <3>2, <4>1 DEF Remarks
      <4> QED
        BY <4>2, RemarksSame
    <3> QED
      BY <3>1, <3>2
  <2> QED
    BY <1>3, <2>1, <2>2, <2>4, <2>6, <2>7, <2>8, <2>9, <2>10, <2>11 DEF Alike, y
<1> QED
  BY <1>2, <1>3


-----------------------------------------------------------------------------
(* What is written anew.                                                   *)
LEMMA EntryIs ==
  ASSUME NEW k \in Names, NEW v \in Values
  PROVE  /\ IsLine(Entry(k, v)) /\ Tidy(Entry(k, v)) /\ Clean(Entry(k, v))
         /\ Remarks(Entry(k, v)) = {}
         /\ Entry(k, v)[1] = Text("key", k, Read[v]) /\ IsText(Entry(k, v)[1])
         /\ Open(Entry(k, v), NoName)
         /\ \A j : ini_gets(Entry(k, v), NoName, j) =
                     IF j # Null /\ Fold[Bare[k]] = Fold[j] THEN Read[v] ELSE Null
         /\ \A s, j : s # NoName => ini_gets(Entry(k, v), s, j) = Null
<1> DEFINE x == Entry(k, v)
           t == Text("key", k, Read[v])
<1>1. t \in Texts /\ t.kind = "key" /\ t.name = k /\ t.value = Read[v]
      /\ Read[v] \in Values /\ Read[Read[v]] = Read[v]
  BY TextTypes, ReadAssumption DEF Text
<1>2. x = <<t, LineTerm>>
  BY DEF Entry
<1> HIDE DEF x, t
<1>3. /\ x \in Content /\ Len(x) = 2 /\ DOMAIN x = 1 .. 2 /\ x[1] = t /\ x[2] = LineTerm
  BY <1>1, <1>2, TextTypes DEF Content
<1>4. t # LineTerm /\ t.kind # "comment" /\ t.kind # "section" /\ LineTerm.kind # "comment"
      /\ LineTerm.kind # "key"
  BY <1>1, TextTypes
<1>5. Tidy(x)
  <2>1. \A n \in DOMAIN x : n > 1 /\ IsText(x[n]) => ~IsText(x[n - 1])
    BY <1>3, TextTypes
  <2>2. \A n \in DOMAIN x : x[n].kind = "key" => x[n].value \in Values /\ Read[x[n].value] = x[n].value
    BY <1>1, <1>3, <1>4
  <2>3. \A n \in DOMAIN x : x[n] # Cut
    BY <1>1, <1>3, TextTypes
  <2> QED
    BY <1>3, <2>1, <2>2, <2>3 DEF Tidy
<1>6. IsLine(x) /\ Clean(x) /\ IsText(x[1])
  BY <1>1, <1>3, <1>4, <1>5, TextTypes DEF IsLine, Clean
<1>7. Remarks(x) = {}
  BY <1>3, <1>4 DEF Remarks
<1>8. \A j : IsKey(x[1], j) <=> j # Null /\ Fold[Bare[k]] = Fold[j]
  BY <1>1, <1>3 DEF IsKey, SameName
<1>9. x[1].kind # "section" /\ x[1].value = Read[v]
  BY <1>1, <1>3, <1>4
<1>10. /\ Open(x, NoName)
       /\ \A j : ini_gets(x, NoName, j) = IF j # Null /\ Fold[Bare[k]] = Fold[j] THEN Read[v] ELSE Null
       /\ \A s, j : s # NoName => ini_gets(x, s, j) = Null
  BY <1>6, <1>8, <1>9, OfLine
<1> QED
  BY <1>3, <1>5, <1>6, <1>7, <1>10 DEF x, t

LEMMA SectionIs ==
  ASSUME NEW s \in Names
  PROVE  /\ IsLine(Section(s)) /\ Tidy(Section(s)) /\ Clean(Section(s))
         /\ Remarks(Section(s)) = {}
         /\ Section(s)[1] = Text("section", s, Null) /\ IsText(Section(s)[1])
         /\ Section(s)[1].kind = "section" /\ Section(s)[1].name = s
<1> DEFINE x == Section(s)
           t == Text("section", s, Null)
<1>1. t \in Texts /\ t.kind = "section" /\ t.name = s
  BY TextTypes DEF Text
<1>2. x = <<t, LineTerm>>
  BY DEF Section
<1> HIDE DEF x, t
<1>3. /\ x \in Content /\ Len(x) = 2 /\ DOMAIN x = 1 .. 2 /\ x[1] = t /\ x[2] = LineTerm
  BY <1>1, <1>2, TextTypes DEF Content
<1>4. t # LineTerm /\ t.kind # "comment" /\ t.kind # "key" /\ LineTerm.kind # "comment"
      /\ LineTerm.kind # "key"
  BY <1>1, TextTypes
<1>5. Tidy(x)
  <2>1. \A n \in DOMAIN x : n > 1 /\ IsText(x[n]) => ~IsText(x[n - 1])
    BY <1>3, TextTypes
  <2>2. \A n \in DOMAIN x : x[n].kind # "key" /\ x[n] # Cut
    BY <1>1, <1>3, <1>4, TextTypes
  <2> QED
    BY <1>3, <2>1, <2>2 DEF Tidy
<1>6. IsLine(x) /\ Clean(x) /\ IsText(x[1])
  BY <1>1, <1>3, <1>4, <1>5, TextTypes DEF IsLine, Clean
<1>7. Remarks(x) = {}
  BY <1>3, <1>4 DEF Remarks
<1> QED
  BY <1>1, <1>3, <1>5, <1>6, <1>7 DEF x, t

LEMMA Associative ==
  ASSUME NEW u \in Content, NEW v \in Content, NEW w \in Content
  PROVE  (u \o v) \o w = u \o (v \o w)
<1>1. u \in Seq(Texts) /\ v \in Seq(Texts) /\ w \in Seq(Texts)
  BY DEF Content
<1> QED
  BY <1>1, ConcatAssociative, SMTT(60)

LEMMA EmptyJoined ==
  ASSUME NEW c \in Content
  PROVE  c \o <<>> = c /\ <<>> \o c = c
BY ConcatEmptySeq DEF Content

-----------------------------------------------------------------------------
(* Only one section is open, but for the case of its name.                 *)
LEMMA OneOpen ==
  ASSUME NEW u \in Content, NEW s, NEW r, Open(u, s), Open(u, r)
  PROVE  SameName(s, r)
<1>1. PICK a \in 0 .. Len(u) :
        IsStart(u, s, a) /\ \A m \in 1 .. Len(u) : u[m].kind = "section" => m <= a
  BY DEF Open
<1>2. PICK b \in 0 .. Len(u) :
        IsStart(u, r, b) /\ \A m \in 1 .. Len(u) : u[m].kind = "section" => m <= b
  BY DEF Open
<1>3. Len(u) \in Nat
  BY DEF Content
<1>4. CASE s = NoName /\ r = NoName
  BY <1>4 DEF SameName
<1>5. CASE s = NoName /\ r # NoName
  <2>1. a = 0 /\ b \in 1 .. Len(u) /\ u[b].kind = "section"
    BY <1>1, <1>2, <1>5 DEF IsStart, IsSection
  <2> QED
    BY <1>1, <1>3, <2>1
<1>6. CASE s # NoName /\ r = NoName
  <2>1. b = 0 /\ a \in 1 .. Len(u) /\ u[a].kind = "section"
    BY <1>1, <1>2, <1>6 DEF IsStart, IsSection
  <2> QED
    BY <1>2, <1>3, <2>1
<1>7. CASE s # NoName /\ r # NoName
  <2>1. /\ a \in 1 .. Len(u) /\ u[a].kind = "section" /\ Fold[u[a].name] = Fold[s]
        /\ b \in 1 .. Len(u) /\ u[b].kind = "section" /\ Fold[u[b].name] = Fold[r]
    BY <1>1, <1>2, <1>7 DEF IsStart, IsSection, SameName
  <2>2. a <= b /\ b <= a
    BY <1>1, <1>2, <2>1
  <2>3. a = b
    BY <1>3, <2>1, <2>2
  <2> QED
    BY <2>1, <2>3 DEF SameName
<1> QED
  BY <1>4, <1>5, <1>6, <1>7

(* A part without sections counts only for what is open.                   *)
LEMMA PlainIs ==
  ASSUME NEW x, Tidy(x), Open(x, NoName), NEW s, NEW k, s # NoName
  PROVE  ~Entered(x, s) /\ ~Open(x, s) /\ ini_gets(x, s, k) = Null
<1>1. x \in Content
  BY DEF Tidy
<1>2. \A m \in 1 .. Len(x) : ~IsSection(x[m], s)
  BY <1>1, OpenFront DEF IsSection
<1>3. ~Entered(x, s) /\ ~Open(x, s)
  BY <1>2, OpenEntered DEF Entered
<1>4. \A n : ~Under(x, s, n)
  BY <1>2 DEF Under, IsStart
<1>5. Found(x, s, k) = {}
  BY <1>4, FoundIs
<1> QED
  BY <1>3, <1>5, GetsIs

LEMMA InSection ==
  ASSUME NEW u, Tidy(u), NEW x, Tidy(x), Tidy(u \o x), NEW y, Tidy(y), Tidy(u \o y),
         Open(x, NoName), Open(y, NoName), NEW s, NEW k,
         Open(u, s) => ini_gets(x, NoName, k) = ini_gets(y, NoName, k)
  PROVE  Same(u \o x, u \o y, s, k)
<1>1. u \in Content /\ x \in Content /\ y \in Content
  BY DEF Tidy
<1>2. s # NoName => /\ ~Entered(x, s) /\ ~Open(x, s) /\ ini_gets(x, s, k) = Null
                    /\ ~Entered(y, s) /\ ~Open(y, s) /\ ini_gets(y, s, k) = Null
  BY PlainIs
<1>3. Entered(u, NoName)
  BY DEF Entered
<1>4. Entered(u \o x, s) <=> Entered(u \o y, s)
  BY <1>1, <1>2, <1>3, EnteredJoined
<1>5. Open(u \o x, s) <=> Open(u \o y, s)
  <2>1. Open(u \o x, s) <=> Open(u, s)
    BY <1>1, <1>2, <1>3, OpenJoined
  <2>2. Open(u \o y, s) <=> Open(u, s)
    BY <1>1, <1>2, <1>3, OpenJoined
  <2> QED
    BY <2>1, <2>2
<1>6. ini_gets(u \o x, s, k) = ini_gets(u \o y, s, k)
  <2>1. ini_gets(u \o x, s, k) =
           IF ini_gets(u, s, k) # Null THEN ini_gets(u, s, k)
           ELSE IF Open(u, s) THEN ini_gets(x, NoName, k)
           ELSE IF Entered(u, s) THEN Null
           ELSE ini_gets(x, s, k)
    BY GetsJoined
  <2>2. ini_gets(u \o y, s, k) =
           IF ini_gets(u, s, k) # Null THEN ini_gets(u, s, k)
           ELSE IF Open(u, s) THEN ini_gets(y, NoName, k)
           ELSE IF Entered(u, s) THEN Null
           ELSE ini_gets(y, s, k)
    BY GetsJoined
  <2> QED
    BY <1>2, <1>3, <2>1, <2>2
<1> QED
  BY <1>4, <1>5, <1>6 DEF Same

(* What is added at the end for others.                                    *)
LEMMA AtEnd ==
  ASSUME NEW u, Tidy(u), NEW z, Tidy(z), Tidy(u \o z), NEW s, NEW k,
         Open(u, s) => ini_gets(z, NoName, k) = Null,
         ~Entered(u, s) => ini_gets(z, s, k) = Null
  PROVE  ini_gets(u \o z, s, k) = ini_gets(u, s, k)
<1>1. ini_gets(u \o z, s, k) =
           IF ini_gets(u, s, k) # Null THEN ini_gets(u, s, k)
           ELSE IF Open(u, s) THEN ini_gets(z, NoName, k)
           ELSE IF Entered(u, s) THEN Null
           ELSE ini_gets(z, s, k)
  BY GetsJoined
<1> QED
  BY <1>1

(* A key that is there at most once.                                       *)
Single(c, s, k) == \A m, n \in Found(c, s, k) : m = n

LEMMA SingleRest ==
  ASSUME NEW u, NEW v, Tidy(u), Tidy(v), Tidy(u \o v), NEW s, NEW k, Single(u \o v, s, k)
  PROVE  /\ Open(u, s) => Single(v, NoName, k)
         /\ ~Entered(u, s) => Single(v, s, k)
         /\ Open(u, s) /\ Found(u, s, k) # {} => ini_gets(v, NoName, k) = Null
<1>1. /\ \A n \in 1 .. Len(u) : n \in Found(u \o v, s, k) <=> n \in Found(u, s, k)
      /\ \A n \in 1 .. Len(v) :
              Len(u) + n \in Found(u \o v, s, k) <=>
                \/ Open(u, s) /\ n \in Found(v, NoName, k)
                \/ ~Entered(u, s) /\ n \in Found(v, s, k)
  BY FoundJoined
<1>2. /\ Found(v, NoName, k) \in SUBSET (1 .. Len(v)) /\ Found(v, s, k) \in SUBSET (1 .. Len(v))
      /\ Found(u, s, k) \in SUBSET (1 .. Len(u))
      /\ Len(u) \in Nat /\ Len(v) \in Nat
  BY GetsIs DEF Tidy, Content
<1>3. ASSUME Open(u, s), NEW m \in Found(v, NoName, k), NEW n \in Found(v, NoName, k)
      PROVE  m = n
  <2>1. Len(u) + m \in Found(u \o v, s, k) /\ Len(u) + n \in Found(u \o v, s, k)
    BY <1>1, <1>2, <1>3
  <2>2. Len(u) + m = Len(u) + n
    BY <2>1 DEF Single
  <2> QED
    BY <1>2, <2>2
<1>4. ASSUME ~Entered(u, s), NEW m \in Found(v, s, k), NEW n \in Found(v, s, k)
      PROVE  m = n
  <2>1. Len(u) + m \in Found(u \o v, s, k) /\ Len(u) + n \in Found(u \o v, s, k)
    BY <1>1, <1>2, <1>4
  <2>2. Len(u) + m = Len(u) + n
    BY <2>1 DEF Single
  <2> QED
    BY <1>2, <2>2
<1>5. ASSUME Open(u, s), NEW m \in Found(u, s, k), NEW n \in Found(v, NoName, k) PROVE FALSE
  <2>1. m \in Found(u \o v, s, k) /\ Len(u) + n \in Found(u \o v, s, k)
    BY <1>1, <1>2, <1>5
  <2>2. m = Len(u) + n
    BY <2>1 DEF Single
  <2>3. m \in 1 .. Len(u) /\ n \in 1 .. Len(v)
    BY <1>2
  <2> QED
    BY <1>2, <2>2, <2>3
<1>6. ASSUME Open(u, s), Found(u, s, k) # {} PROVE ini_gets(v, NoName, k) = Null
  <2>1. Found(v, NoName, k) = {}
    BY <1>5, <1>6
  <2> QED
    BY <2>1, GetsIs
<1> QED
  BY <1>3, <1>4, <1>6 DEF Single

LEMMA NotTwice ==
  ASSUME NEW c, Tidy(c), NEW s, NEW k, ~(Cardinality(Found(c, s, k)) > 1)
  PROVE  Single(c, s, k)
<1> DEFINE F == Found(c, s, k)
<1> SUFFICES ASSUME NEW m \in F, NEW n \in F, m # n PROVE FALSE
  BY DEF Single
<1>1. F \in SUBSET (1 .. Len(c)) /\ Len(c) \in Nat
  BY GetsIs DEF Tidy, Content
<1> HIDE DEF F
<1>2. IsFiniteSet(F)
  <2>1. IsFiniteSet(1 .. Len(c))
    BY <1>1, FS_Interval
  <2> QED
    BY <1>1, <2>1, FS_Subset
<1>3. {m, n} \in SUBSET F /\ Cardinality({m, n}) = 2
  <2>4. n \notin {m}
    OBVIOUS
  <2>1. IsFiniteSet({m}) /\ Cardinality({m}) = 1
    BY FS_Singleton
  <2>2. {m, n} = {m} \cup {n}
    OBVIOUS
  <2>3. Cardinality({m} \cup {n}) = 2
    <3>1. Cardinality({m} \cup {n}) = IF n \in {m} THEN Cardinality({m}) ELSE Cardinality({m}) + 1
      BY <2>1, FS_AddElement
    <3> QED
      BY <2>1, <2>4, <3>1
  <2> QED
    BY <2>2, <2>3
<1>4. Cardinality({m, n}) <= Cardinality(F) /\ Cardinality(F) \in Nat
  BY <1>2, <1>3, FS_Subset, FS_CardinalityType
<1>5. Cardinality(F) > 1
  BY <1>3, <1>4
<1> QED
  BY <1>5 DEF F


-----------------------------------------------------------------------------
(***************************************************************************)
(* The inductive invariant.  First what types need: what is written ends   *)
(* its last line as long as there is more to copy.                         *)
(***************************************************************************)
TypeInv ==
  /\ TypeOK
  /\ pc = "open" => rfp = <<>> /\ wfp = <<>>
  /\ pc \in {"section", "key", "rest"} => Clean(wfp) \/ rfp = <<>>
  /\ pc \in {"remove", "rename"} /\ Distinct => disk[Temp] # Absent

Kept(c) == \A s, k \in Names : Changed(s, k) \/ ini_gets(c, s, k) = ini_gets(Old, s, k)

KeptAll(c) == Kept(c) /\ (req.key # Null => SameRemarks(c, Old))

(* While the section is looked for, its first line is still to be read.    *)
SectionInv ==
  /\ req.section # NoName /\ ~Entered(wfp, req.section)
  /\ KeptAll(wfp \o rfp)
  /\ ~Twice => Single(rfp, req.section, req.key)

(* While the key is looked for, its section is what is being copied.       *)
KeyInv ==
  /\ Open(wfp, req.section) /\ ini_gets(wfp, req.section, req.key) = Null
  /\ KeptAll(wfp \o rfp)
  /\ ~Twice => Single(rfp, NoName, req.key)

(* While a section is erased, it is as if its first line had been copied.  *)
EraseInv ==
  /\ Clean(wfp) /\ (req.section = NoName => wfp = <<>>)
  /\ Open(wfp \o Header, req.section)
  /\ Kept((wfp \o Header) \o rfp)

(* What the call has left, or, when the disk was full, a beginning of it.  *)
Left(c) == Good(c) \/ (full /\ Begun(c))

(* What is written and what is left to read are together what the call is  *)
(* to leave, or will be.                                                   *)
Promised ==
  CASE pc = "section" -> SectionInv
    [] pc = "key"     -> IF req.key = Null THEN EraseInv ELSE KeyInv
    [] pc = "rest"    -> Good(wfp \o rfp)
    [] pc = "close"   -> Good(wfp)
    [] OTHER          -> Left(disk[Temp])

CopyInv ==
  /\ before[File] # Absent
  /\ disk[File] = IF pc = "rename" THEN Absent ELSE before[File]
  /\ Promised

Working == {"section", "key", "rest", "close", "remove", "rename"}

IniInv ==
  /\ TypeInv
  /\ \A f \in Files : before[f] = Absent \/ Tidy(before[f])
  /\ pc = "open" => disk = before
  /\ pc = "closenew" => before[File] = Absent /\ IsSet /\ wfp = Header \o Added
  /\ pc \in Working /\ Distinct => CopyInv
  /\ Stores /\ NeverInPart

-----------------------------------------------------------------------------
LEMMA TidyBoth ==
  ASSUME NEW u, Tidy(u), Clean(u), NEW y, Tidy(y), NEW r, Tidy(r), Clean(y) \/ r = <<>>
  PROVE  /\ Tidy(u \o y) /\ Tidy((u \o y) \o r)
         /\ Clean(u \o y) \/ r = <<>>
         /\ Clean(y) => Clean(u \o y)
<1>1. u \in Content /\ y \in Content /\ r \in Content
  BY DEF Tidy
<1>2. Tidy(u \o y)
  BY TidyJoined
<1>3. Clean(y) => Clean(u \o y)
  BY <1>1, CleanJoined
<1>4. Tidy((u \o y) \o r)
  BY <1>2, <1>3, TidyJoined
<1> QED
  BY <1>2, <1>3, <1>4

(* A line is taken from what is to be read.                                *)
LEMMA LineTaken ==
  ASSUME NEW u, Tidy(u), Clean(u), NEW c, Tidy(c), c # <<>>
  PROVE  /\ IsLine(LineOf(c)) /\ Tidy(LineOf(c)) /\ Tidy(RestOf(c))
         /\ Clean(LineOf(c)) \/ RestOf(c) = <<>>
         /\ Tidy(u \o LineOf(c)) /\ Tidy((u \o LineOf(c)) \o RestOf(c))
         /\ u \o c = (u \o LineOf(c)) \o RestOf(c)
         /\ c = LineOf(c) \o RestOf(c)
<1>1. /\ IsLine(LineOf(c)) /\ Tidy(RestOf(c)) /\ c = LineOf(c) \o RestOf(c)
      /\ Clean(LineOf(c)) \/ RestOf(c) = <<>>
  BY LineSplit
<1>2. Tidy(LineOf(c))
  BY <1>1 DEF IsLine
<1>3. Tidy(u \o LineOf(c)) /\ Tidy((u \o LineOf(c)) \o RestOf(c))
  <2> DEFINE l == LineOf(c)
             r == RestOf(c)
  <2>1. Tidy(l) /\ Tidy(r)
    BY <1>1, <1>2
  <2>5. r # <<>> => Clean(l)
    BY <1>1
  <2> HIDE DEF l, r
  <2>2. Tidy(u \o l)
    BY <2>1, TidyJoined
  <2>3. r # <<>> => Clean(u \o l)
    BY <2>1, <2>5, CleanJoined DEF Tidy
  <2>4. Tidy((u \o l) \o r)
    BY <2>1, <2>2, <2>3, TidyJoined
  <2> QED
    BY <2>2, <2>4 DEF l, r
<1>4. u \in Content /\ LineOf(c) \in Content /\ RestOf(c) \in Content
  BY <1>1, <1>2 DEF Tidy
<1>5. (u \o LineOf(c)) \o RestOf(c) = u \o (LineOf(c) \o RestOf(c))
  BY <1>4, Associative
<1> QED
  BY <1>1, <1>2, <1>3, <1>5

(* The copy of it, after an empty line or none.                            *)
LEMMA CopyWritten ==
  ASSUME NEW x, IsLine(x), NEW z \in {<<>>, <<LineTerm>>}
  PROVE  /\ Tidy(z \o CopyOf(x)) /\ (Clean(x) => Clean(z \o CopyOf(x)))
         /\ \A s, k : Alike(z \o CopyOf(x), x, s, k)
         /\ SameRemarks(z \o CopyOf(x), x)
<1> DEFINE y == CopyOf(x)
<1>1. /\ Tidy(y) /\ (Clean(x) => Clean(y)) /\ SameRemarks(y, x)
      /\ \A s, k : Alike(y, x, s, k)
  BY CopyIs
<1> HIDE DEF y
<1>2. y \in Content /\ <<LineTerm>> \in Content /\ <<>> \in Content
  BY <1>1, BlankLine, EmptyTidy DEF Tidy
<1>3. Tidy(z) /\ Clean(z) /\ z \in Content
  BY BlankLine, EmptyTidy DEF Tidy
<1>4. Tidy(z \o y)
  BY <1>1, <1>3, TidyJoined
<1>5. Clean(y) => Clean(z \o y)
  BY <1>2, <1>3, CleanJoined
<1>6. <<>> \o y = y
  BY <1>2, EmptyJoined
<1>7. \A s, k : Alike(z, <<>>, s, k)
  BY BlankLine, SameTrivial
<1>8. \A s, k : Same(z \o y, y, s, k)
  <2> TAKE s, k
  <2>1. Same(z, <<>>, s, k) /\ Alike(y, y, s, k)
    BY <1>7, SameTrivial DEF Alike
  <2>2. Same(z \o y, <<>> \o y, s, k)
    BY <1>1, <1>3, <1>4, <1>6, <2>1, EmptyTidy, SameJoined
  <2> QED
    BY <1>6, <2>2
<1>9. \A s, k : Alike(z \o y, x, s, k)
  BY <1>1, <1>8, SameTrivial DEF Alike
<1>10. SameRemarks(z, <<>>)
  <2>1. Remarks(<<>>) = {}
    BY DEF Remarks
  <2>2. Remarks(<<LineTerm>>) = {}
    BY TextTypes DEF Remarks
  <2> QED
    BY <2>1, <2>2, RemarksSame
<1>11. SameRemarks(z \o y, <<>> \o y)
  BY <1>2, <1>3, <1>10, RemarksSame, RemarksOfBoth
<1>12. SameRemarks(z \o y, x)
  BY <1>1, <1>6, <1>11, RemarksChain
<1> QED
  BY <1>1, <1>4, <1>5, <1>9, <1>12 DEF y


-----------------------------------------------------------------------------
(***************************************************************************)
(* Types: no step glues a text to another.                                 *)
(***************************************************************************)
LEMMA Given ==
  ASSUME req \in Requests
  PROVE  /\ req.file \in Files /\ req.section \in Names
         /\ req.key \in Names \cup {Null} /\ req.value \in Values \cup {Null}
         /\ File \in Files /\ Temp \in Files
         /\ IsSet => req.key \in Names /\ req.value \in Values
         /\ Tidy(Added) /\ Clean(Added) /\ Tidy(Header) /\ Clean(Header)
         /\ Tidy(EndLine) /\ Clean(EndLine)
<1>1. /\ req.file \in Files /\ req.section \in Names
      /\ req.key \in Names \cup {Null} /\ req.value \in Values \cup {Null}
  BY RequestsAssumption
<1>2. File \in Files /\ Temp \in Files
  BY <1>1, TempAssumption DEF File, Temp
<1>3. IsSet => req.key \in Names /\ req.value \in Values
  BY <1>1 DEF IsSet
<1>4. Tidy(Added) /\ Clean(Added)
  BY <1>3, EntryIs, EmptyTidy DEF Added
<1>5. Tidy(Header) /\ Clean(Header)
  BY <1>1, SectionIs, EmptyTidy DEF Header
<1>6. Tidy(EndLine) /\ Clean(EndLine)
  BY BlankLine, EmptyTidy DEF EndLine
<1> QED
  BY <1>1, <1>2, <1>3, <1>4, <1>5, <1>6

(* What dies, or is closed, in part is tidy.                               *)
LEMMA PartsTidy ==
  ASSUME NEW w, Tidy(w), NEW n \in 0 .. Len(w)
  PROVE  /\ Tidy(SubSeq(w, 1, n)) /\ SubSeq(w, 1, n) \in Content
         /\ SubSeq(w, 1, n) # Absent
<1>1. 1 \in 1 .. Len(w) + 1
  BY DEF Tidy, Content
<1>2. Tidy(SubSeq(w, 1, n))
  BY <1>1, TidyPart
<1> QED
  BY <1>2, ContentsAssumption DEF Tidy

LEMMA WrittenTypes ==
  ASSUME TypeOK, NEW f \in Files, NEW d \in Flushed, Written(f, d)
  PROVE  /\ disk' \in [Files -> Content \cup {Absent}]
         /\ \A g \in Files : disk'[g] = Absent \/ Tidy(disk'[g])
         /\ disk'[f] = d /\ d # Absent
         /\ \A g \in Files : g # f => disk'[g] = disk[g]
<1>1. PICK n \in 0 .. Len(wfp) : d = SubSeq(wfp, 1, n)
  BY DEF Flushed
<1>2. Tidy(d) /\ d \in Content /\ d # Absent
  BY <1>1, PartsTidy DEF TypeOK
<1>3. disk \in [Files -> Content \cup {Absent}] /\ \A g \in Files : disk[g] = Absent \/ Tidy(disk[g])
  BY DEF TypeOK
<1>4. disk' = [disk EXCEPT ![f] = d]
  BY DEF Written
<1>6. disk'[f] = d /\ \A g \in Files : g # f => disk'[g] = disk[g]
  BY <1>3, <1>4
<1>7. disk' \in [Files -> Content \cup {Absent}]
  BY <1>2, <1>3, <1>4
<1>8. \A g \in Files : disk'[g] = Absent \/ Tidy(disk'[g])
  BY <1>2, <1>3, <1>6
<1> QED
  BY <1>2, <1>6, <1>7, <1>8

LEMMA ClosedTypes ==
  ASSUME TypeOK, NEW f \in Files, Closed(f)
  PROVE  /\ disk' \in [Files -> Content \cup {Absent}]
         /\ \A g \in Files : disk'[g] = Absent \/ Tidy(disk'[g])
         /\ disk'[f] \in Flushed /\ disk'[f] # Absent
         /\ \A g \in Files : g # f => disk'[g] = disk[g]
         /\ full' \/ disk'[f] = wfp
<1>1. PICK d \in Flushed : Written(f, d) /\ full' = (d # wfp)
  BY DEF Closed
<1>2. /\ disk' \in [Files -> Content \cup {Absent}]
      /\ \A g \in Files : disk'[g] = Absent \/ Tidy(disk'[g])
      /\ disk'[f] = d /\ d # Absent
      /\ \A g \in Files : g # f => disk'[g] = disk[g]
  BY <1>1, WrittenTypes
<1>3. full' \/ d = wfp
  BY <1>1
<1> QED
  BY <1>2, <1>3

(* What is read next, when something is.                                   *)
LEMMA Reading ==
  ASSUME TypeInv, pc \in {"section", "key", "rest"}, rfp # <<>>
  PROVE  /\ Tidy(wfp) /\ Clean(wfp) /\ Tidy(rfp)
         /\ IsLine(Line) /\ Tidy(Line) /\ Tidy(RestOf(rfp))
         /\ RestOf(rfp) # <<>> => Clean(Line)
         /\ Tidy(wfp \o Line) /\ Tidy((wfp \o Line) \o RestOf(rfp))
         /\ wfp \o rfp = (wfp \o Line) \o RestOf(rfp) /\ rfp = Line \o RestOf(rfp)
         /\ Copied = CopyOf(Line)
         /\ SkipLine => rfp' = RestOf(rfp)
<1>1. Tidy(wfp) /\ Clean(wfp) /\ Tidy(rfp)
  BY DEF TypeInv, TypeOK
<1>2. Line = LineOf(rfp)
  BY DEF Line
<1>3. /\ IsLine(Line) /\ Tidy(Line) /\ Tidy(RestOf(rfp))
      /\ RestOf(rfp) # <<>> => Clean(Line)
      /\ Tidy(wfp \o Line) /\ Tidy((wfp \o Line) \o RestOf(rfp))
      /\ wfp \o rfp = (wfp \o Line) \o RestOf(rfp)
      /\ rfp = Line \o RestOf(rfp)
  BY <1>1, <1>2, LineTaken
<1>4. Copied = CopyOf(Line)
  BY DEF Copied, CopyOf, IsBlank, Head1
<1>5. SkipLine => rfp' = RestOf(rfp)
  BY <1>2 DEF SkipLine, RestOf
<1> QED
  BY <1>1, <1>3, <1>4, <1>5

LEMMA Wrote ==
  ASSUME TypeInv, pc \in {"section", "key", "rest"}, rfp # <<>>, SkipLine,
         NEW y, Tidy(y), RestOf(rfp) # <<>> => Clean(y)
  PROVE  /\ Tidy(wfp \o y) /\ Tidy((wfp \o y) \o RestOf(rfp))
         /\ RestOf(rfp) # <<>> => Clean(wfp \o y)
<1> DEFINE r == RestOf(rfp)
<1>1. Tidy(wfp) /\ Clean(wfp) /\ Tidy(r)
  BY Reading
<1>2. r # <<>> => Clean(y)
  OBVIOUS
<1> HIDE DEF r
<1>3. Tidy(wfp \o y)
  BY <1>1, TidyJoined
<1>4. r # <<>> => Clean(wfp \o y)
  BY <1>1, <1>2, CleanJoined DEF Tidy
<1>5. Tidy((wfp \o y) \o r)
  BY <1>1, <1>3, <1>4, TidyJoined
<1> QED
  BY <1>3, <1>4, <1>5 DEF r

(* A step that only copies.                                                *)
LEMMA CopyTypes ==
  ASSUME TypeInv, UNCHANGED <<disk, req, ret, puts>>, Tidy(wfp'), Tidy(rfp'),
         pc' \in {"section", "key", "rest", "close"},
         pc' # "close" => (rfp' # <<>> => Clean(wfp'))
  PROVE  TypeInv'
<1>1. TypeOK'
  BY DEF TypeInv, TypeOK
<1> QED
  BY <1>1 DEF TypeInv

LEMMA CopyingTypes ==
  ASSUME TypeInv,
         CopySection \/ AppendSection \/ AppendKey \/ CopyKey \/ ReplaceKey \/ NextSection \/ CopyRest
  PROVE  TypeInv'
<1> DEFINE r == RestOf(rfp)
<1>1. req \in Requests /\ Tidy(wfp) /\ Tidy(rfp)
  BY DEF TypeInv, TypeOK
<1>2. /\ Tidy(Added) /\ Clean(Added) /\ Tidy(Header) /\ Clean(Header)
      /\ Tidy(EndLine) /\ Clean(EndLine)
  BY <1>1, Given
<1>3. ASSUME pc \in {"section", "key", "rest"}, rfp # <<>>, NEW z \in {<<>>, <<LineTerm>>}
      PROVE  /\ Tidy(z \o Copied) /\ Tidy(Copied)
             /\ r # <<>> => Clean(z \o Copied) /\ Clean(Copied)
  <2>1. IsLine(Line) /\ Copied = CopyOf(Line) /\ (r # <<>> => Clean(Line))
    BY <1>3, Reading
  <2> QED
    BY <2>1, CopyWritten, CopyIs
<1>4. ASSUME pc \in {"section", "key", "rest"}, rfp # <<>>, SkipLine,
             UNCHANGED <<disk, req, ret, puts>>, pc' \in {"section", "key", "rest"},
             NEW y, Tidy(y), r # <<>> => Clean(y), wfp' = wfp \o y
      PROVE  TypeInv'
  <2>1. Tidy(wfp \o y) /\ (r # <<>> => Clean(wfp \o y))
    BY <1>4, Wrote
  <2>2. rfp' = r /\ Tidy(r)
    BY <1>4, Reading
  <2> HIDE DEF r
  <2>3. Tidy(wfp') /\ Tidy(rfp') /\ (rfp' # <<>> => Clean(wfp'))
    BY <1>4, <2>1, <2>2
  <2> QED
    BY <1>4, <2>3, CopyTypes
<1>5. ASSUME rfp = <<>>, UNCHANGED <<disk, req, ret, puts, rfp>>, pc' = "close",
             NEW y, Tidy(y), wfp' = wfp \o (EndLine \o y), ~IsSet => y = <<>>
      PROVE  TypeInv'
  <2>1. Tidy(EndLine \o y)
    BY <1>2, <1>5, TidyJoined
  <2>2. Tidy(wfp \o (EndLine \o y))
    <3>1. CASE IsSet
      <4>1. EndLine = <<LineTerm>> /\ y \in Content /\ LineTerm \in Texts
        BY <1>5, <3>1, TextTypes DEF EndLine, Tidy
      <4>2. (EndLine \o y)[1] = LineTerm
        BY <4>1 DEF Content
      <4> QED
        BY <1>1, <2>1, <4>2, TidyJoined, TextTypes
    <3>2. CASE ~IsSet
      <4>1. EndLine \o y = <<>>
        BY <1>5, <3>2 DEF EndLine
      <4> QED
        BY <1>1, <4>1, EmptyTidy, TidyJoined
    <3> QED
      BY <3>1, <3>2
  <2>3. Tidy(wfp') /\ Tidy(rfp')
    BY <1>1, <1>5, <2>2
  <2> QED
    BY <1>5, <2>3, CopyTypes
<1>6. CASE CopySection
  <2> USE DEF CopySection
  <2>1. CASE Matches /\ req.key = Null
    <3>1. Clean(wfp) /\ Tidy(r) /\ rfp' = r
      BY <1>6, Reading
    <3>2. wfp' = wfp /\ pc' = "key"
      BY <1>6, <2>1
    <3> QED
      BY <1>1, <1>6, <3>1, <3>2, CopyTypes
  <2>2. CASE ~(Matches /\ req.key = Null)
    <3> DEFINE z == NewLineBefore(wfp # <<>>)
    <3>1. z \in {<<>>, <<LineTerm>>}
      BY DEF NewLineBefore
    <3>2. wfp' = wfp \o (z \o Copied)
      BY <1>6, <2>2 DEF Write
    <3> HIDE DEF z
    <3> QED
      BY <1>3, <1>4, <1>6, <3>1, <3>2
  <2> QED
    BY <2>1, <2>2
<1>7. CASE AppendSection
  <2> DEFINE y == (IF IsSet THEN Header ELSE <<>>) \o Added
  <2>1. Tidy(IF IsSet THEN Header ELSE <<>>) /\ Clean(IF IsSet THEN Header ELSE <<>>)
    BY <1>2, EmptyTidy
  <2>2. Tidy(y)
    BY <1>2, <2>1, TidyJoined
  <2>3. ~IsSet => y = <<>>
    BY DEF Added
  <2>4. wfp' = wfp \o (EndLine \o y)
    <3>1. /\ EndLine \in Content /\ (IF IsSet THEN Header ELSE <<>>) \in Content /\ Added \in Content
      BY <1>2, <2>1 DEF Tidy
    <3>2. (EndLine \o (IF IsSet THEN Header ELSE <<>>)) \o Added = EndLine \o y
      BY <3>1, Associative
    <3> QED
      BY <1>7, <3>2 DEF AppendSection, Write
  <2> HIDE DEF y
  <2> QED
    BY <1>5, <1>7, <2>2, <2>3, <2>4 DEF AppendSection
<1>8. CASE AppendKey
  <2>1. ~IsSet => Added = <<>>
    BY DEF Added
  <2> QED
    BY <1>2, <1>5, <1>8, <2>1 DEF AppendKey, Write
<1>9. CASE CopyKey
  <2> USE DEF CopyKey
  <2>1. CASE req.key = Null
    <3>1. Clean(wfp) /\ Tidy(r) /\ rfp' = r
      BY <1>9, Reading
    <3> QED
      BY <1>1, <1>9, <2>1, <3>1, CopyTypes
  <2>2. CASE req.key # Null
    <3>1. wfp' = wfp \o Copied /\ pc' = "key"
      BY <1>9, <2>2 DEF Write
    <3> QED
      BY <1>3, <1>4, <1>9, <3>1
  <2> QED
    BY <2>1, <2>2
<1>10. CASE ReplaceKey
  BY <1>2, <1>4, <1>10 DEF ReplaceKey, Write
<1>11. CASE NextSection
  <2> DEFINE a == IF IsSet THEN Added \o <<LineTerm>> ELSE <<>>
  <2>1. pc = "key" /\ rfp # <<>>
    BY <1>11 DEF NextSection
  <2>2. Tidy(Copied) /\ (r # <<>> => Clean(Copied))
    BY <1>3, <2>1
  <2>3. Tidy(a) /\ Clean(a)
    <3>1. Tidy(Added \o <<LineTerm>>)
      BY <1>2, BlankLine, TidyJoined
    <3>2. Clean(Added \o <<LineTerm>>)
      BY <1>2, BlankLine, CleanJoined DEF Tidy
    <3> QED
      BY <3>1, <3>2, EmptyTidy
  <2>4. Tidy(a \o Copied)
    BY <2>2, <2>3, TidyJoined
  <2>5. Clean(Copied) => Clean(a \o Copied)
    BY <2>2, <2>3, CleanJoined DEF Tidy
  <2>6. wfp' = wfp \o (a \o Copied)
    BY <1>11 DEF NextSection, Write, InsertKey
  <2> HIDE DEF a
  <2> QED
    BY <1>4, <1>11, <2>2, <2>4, <2>5, <2>6 DEF NextSection
<1>12. CASE CopyRest
  <2> DEFINE z == NewLineBefore(TRUE)
  <2>1. z \in {<<>>, <<LineTerm>>}
    BY DEF NewLineBefore
  <2>2. wfp' = wfp \o (z \o Copied)
    BY <1>12 DEF CopyRest, Write
  <2> HIDE DEF z
  <2> QED
    BY <1>3, <1>4, <1>12, <2>1, <2>2 DEF CopyRest
<1> QED
  BY <1>6, <1>7, <1>8, <1>9, <1>10, <1>11, <1>12


LEMMA TypesFirst == ASSUME Init PROVE TypeInv
<1>1. disk \in [Files -> Content \cup {Absent}] /\ \A f \in Files : disk[f] = Absent \/ Tidy(disk[f])
  BY ContentsAssumption DEF Init, Tidy
<1> QED
  BY <1>1, EmptyTidy, MaxPutsAssumption DEF Init, TypeInv, TypeOK

LEMMA TypesStep == ASSUME TypeInv, [Next]_vars PROVE TypeInv'
<1>1. /\ disk \in [Files -> Content \cup {Absent}]
      /\ \A f \in Files : disk[f] = Absent \/ Tidy(disk[f])
      /\ Tidy(rfp) /\ Tidy(wfp) /\ req \in Requests /\ ret \in {0, 1} /\ puts \in 0 .. MaxPuts
  BY DEF TypeInv, TypeOK
<1>2. /\ File \in Files /\ Temp \in Files /\ Tidy(Added) /\ Clean(Added)
      /\ Tidy(Header) /\ Clean(Header)
  BY <1>1, Given
<1>3. CASE Call
  <2>1. puts' \in 0 .. MaxPuts
    BY <1>1, <1>3, MaxPutsAssumption DEF Call
  <2> QED
    BY <1>1, <1>3, <2>1, EmptyTidy DEF Call, TypeInv, TypeOK
<1>4. CASE Create
  <2>1. CASE IsSet
    <3>1. disk' \in [Files -> Content \cup {Absent}] /\ \A f \in Files : disk'[f] = Absent \/ Tidy(disk'[f])
      BY <1>1, <1>2, <1>4, <2>1, EmptyTidy DEF Create, Tidy
    <3>2. Tidy(wfp')
      BY <1>2, <1>4, <2>1, TidyJoined DEF Create
    <3> QED
      BY <1>1, <1>4, <2>1, <3>1, <3>2 DEF Create, TypeInv, TypeOK
  <2>2. CASE ~IsSet
    BY <1>1, <1>4, <2>2 DEF Create, Return, TypeInv, TypeOK
  <2> QED
    BY <2>1, <2>2
<1>5. CASE Bail
  BY <1>1, <1>5 DEF Bail, Return, TypeInv, TypeOK
<1>6. CASE OpenTemp
  <2>1. disk' = [disk EXCEPT ![Temp] = <<>>] /\ Tidy(<<>>) /\ <<>> \in Content /\ Clean(<<>>)
    BY <1>6, EmptyTidy DEF OpenTemp, Tidy
  <2>2. disk' \in [Files -> Content \cup {Absent}] /\ \A f \in Files : disk'[f] = Absent \/ Tidy(disk'[f])
    BY <1>1, <1>2, <2>1
  <2>3. disk'[File] # Absent
    <3>1. disk[File] # Absent /\ <<>> # Absent
      BY <1>6, <2>1, ContentsAssumption DEF OpenTemp
    <3> QED
      BY <1>1, <1>2, <2>1, <3>1
  <2>4. Tidy(rfp')
    <3>1. Tidy(disk[File]) /\ Tidy(disk'[File])
      BY <1>1, <1>2, <1>6, <2>2, <2>3 DEF OpenTemp
    <3> QED
      BY <1>6, <3>1 DEF OpenTemp
  <2>5. wfp' = <<>> /\ pc' \in {"key", "section"}
    BY <1>6 DEF OpenTemp, TypeInv
  <2> QED
    BY <1>1, <1>6, <2>1, <2>2, <2>4, <2>5 DEF OpenTemp, TypeInv, TypeOK
<1>7. CASE OpenFails
  BY <1>1, <1>7 DEF OpenFails, Return, TypeInv, TypeOK
<1>8. CASE CopySection \/ AppendSection \/ AppendKey \/ CopyKey \/ ReplaceKey \/ NextSection \/ CopyRest
  BY <1>8, CopyingTypes
<1>9. CASE CloseNew
  <2>1. disk' \in [Files -> Content \cup {Absent}] /\ \A g \in Files : disk'[g] = Absent \/ Tidy(disk'[g])
    BY <1>2, <1>9, ClosedTypes DEF CloseNew, TypeInv
  <2> QED
    BY <1>1, <1>9, <2>1 DEF CloseNew, Return, TypeInv, TypeOK
<1>10. CASE Close
  <2>1. /\ disk' \in [Files -> Content \cup {Absent}] /\ \A g \in Files : disk'[g] = Absent \/ Tidy(disk'[g])
        /\ disk'[Temp] # Absent
    BY <1>2, <1>10, ClosedTypes DEF Close, TypeInv
  <2>2. Temp' = Temp
    BY <1>10 DEF Close, Temp, File
  <2> QED
    BY <1>1, <1>10, <2>1, <2>2 DEF Close, TypeInv, TypeOK
<1>11. CASE RemoveOld
  <2>1. disk' = [disk EXCEPT ![File] = Absent] /\ req' = req
    BY <1>11 DEF RemoveOld, Removed
  <2>2. disk' \in [Files -> Content \cup {Absent}] /\ \A f \in Files : disk'[f] = Absent \/ Tidy(disk'[f])
    BY <1>1, <1>2, <2>1
  <2>3. Temp' = Temp /\ (Distinct' <=> Distinct)
    BY <2>1 DEF Temp, File, Distinct
  <2>4. Distinct => disk'[Temp] # Absent
    BY <1>1, <1>2, <1>11, <2>1 DEF RemoveOld, TypeInv, Distinct, Temp
  <2> QED
    BY <1>1, <1>11, <2>2, <2>3, <2>4 DEF RemoveOld, TypeInv, TypeOK
<1>12. CASE Rename
  <2>1. CASE disk[Temp] = Absent
    BY <1>1, <1>12, <2>1 DEF Rename, Return, TypeInv, TypeOK
  <2>2. CASE disk[Temp] # Absent
    <3>1. disk' = [disk EXCEPT ![File] = disk[Temp], ![Temp] = Absent]
      BY <1>12, <2>2 DEF Rename
    <3>2. Tidy(disk[Temp]) /\ disk[Temp] \in Content
      BY <1>1, <1>2, <2>2 DEF Tidy
    <3>3. disk' \in [Files -> Content \cup {Absent}] /\ \A f \in Files : disk'[f] = Absent \/ Tidy(disk'[f])
      BY <1>1, <1>2, <3>1, <3>2
    <3> QED
      BY <1>1, <1>12, <3>3 DEF Rename, Return, TypeInv, TypeOK
  <2> QED
    BY <2>1, <2>2
<1>13. CASE Die
  <2>1. disk' \in [Files -> Content \cup {Absent}] /\ \A g \in Files : disk'[g] = Absent \/ Tidy(disk'[g])
    <3>1. (\E d \in Flushed : Written(File, d) \/ Written(Temp, d)) \/ disk' = disk
      BY <1>13 DEF Die
    <3> QED
      BY <1>1, <1>2, <3>1, WrittenTypes DEF TypeInv
  <2> QED
    BY <1>1, <1>13, <2>1 DEF Die, TypeInv, TypeOK
<1>14. CASE UNCHANGED vars
  BY <1>14 DEF vars, TypeInv, TypeOK, Distinct, Temp, File
<1> QED
  BY <1>3, <1>4, <1>5, <1>6, <1>7, <1>8, <1>9, <1>10, <1>11, <1>12, <1>13, <1>14 DEF Next

(* ini_puts never glues a line to another, whatever it is called with and  *)
(* wherever it dies, and what it is to rename is there.                    *)
THEOREM TypeCorrect == Spec => []TypeOK
<1>1. Init => TypeInv
  BY TypesFirst
<1>2. TypeInv /\ [Next]_vars => TypeInv'
  BY TypesStep
<1>3. TypeInv => TypeOK
  BY DEF TypeInv
<1> QED
  BY <1>1, <1>2, <1>3, PTL DEF Spec


-----------------------------------------------------------------------------
(***************************************************************************)
(* What the call is to leave.  A key that skipleading would take a part of *)
(* is written and never found again: such keys are left out.               *)
(***************************************************************************)
PlainKeys == \A r \in Requests : r.key # Null => SameName(Bare[r.key], r.key)

LEMMA Stays ==
  ASSUME UNCHANGED <<req, before>>
  PROVE  /\ \A c : Good(c)' <=> Good(c)
         /\ \A c : (KeptAll(c)' <=> KeptAll(c)) /\ (Kept(c)' <=> Kept(c))
         /\ File' = File /\ Temp' = Temp /\ (Distinct' <=> Distinct)
         /\ (IsSet' <=> IsSet) /\ Header' = Header /\ Added' = Added
         /\ Old' = Old /\ (Twice' <=> Twice)
<1>1. /\ File' = File /\ Temp' = Temp /\ (Distinct' <=> Distinct)
      /\ (IsSet' <=> IsSet) /\ Header' = Header /\ Added' = Added
  BY DEF File, Temp, Distinct, IsSet, Header, Added
<1>2. Old' = Old
  BY <1>1 DEF Old
<1>3. Twice' <=> Twice
  BY <1>2 DEF Twice
<1>4. \A s, k : Changed(s, k)' <=> Changed(s, k)
  BY DEF Changed
<1>5. \A c : Kept(c)' <=> Kept(c)
  BY <1>2, <1>4 DEF Kept
<1>6. \A c : KeptAll(c)' <=> KeptAll(c)
  BY <1>2, <1>5 DEF KeptAll
<1>7. \A c : Good(c)' <=> Good(c)
  BY <1>1, <1>2, <1>3, <1>4 DEF Good
<1> QED
  BY <1>1, <1>2, <1>3, <1>5, <1>6, <1>7

LEMMA StaysBegun ==
  ASSUME UNCHANGED <<req, before, wfp>>
  PROVE  \A c : Begun(c)' <=> Begun(c)
<1>1. Flushed' = Flushed
  BY DEF Flushed
<1>2. Good(wfp)' <=> Good(wfp)
  BY Stays
<1> QED
  BY <1>1, <1>2 DEF Begun

LEMMA StaysOthers ==
  ASSUME UNCHANGED <<req, before>>, OthersUntouched,
         \A f \in Files : f # File /\ f # Temp => disk'[f] = disk[f]
  PROVE  OthersUntouched'
BY Stays DEF OthersUntouched

(* The file is as it was.                                                  *)
LEMMA AsItWas ==
  ASSUME UNCHANGED <<req, before>>, Distinct => disk'[File] = before[File]
  PROVE  NeverInPart'
BY Stays DEF NeverInPart

LEMMA StaysWhole ==
  ASSUME UNCHANGED <<disk, req, before, wfp, full>>
  PROVE  NeverInPart' <=> NeverInPart
<1>1. /\ \A c : (Good(c)' <=> Good(c)) /\ (Begun(c)' <=> Begun(c))
      /\ File' = File /\ Temp' = Temp /\ (Distinct' <=> Distinct)
  BY Stays, StaysBegun
<1>2. /\ Good(disk[File])' <=> Good(disk[File])
      /\ Good(disk[Temp])' <=> Good(disk[Temp])
      /\ Begun(disk[File])' <=> Begun(disk[File])
      /\ Begun(disk[Temp])' <=> Begun(disk[Temp])
  BY <1>1
<1> QED
  BY <1>1, <1>2 DEF NeverInPart

(* What is said of keys and remarks, and what of the key of the request.   *)
LEMMA GoodIs ==
  ASSUME NEW c
  PROVE  Good(c) <=>
           /\ KeptAll(c)
           /\ IsSet => ini_gets(c, req.section, req.key) = Read[req.value]
           /\ req.key # Null /\ ~IsSet /\ ~Twice => ini_gets(c, req.section, req.key) = Null
BY DEF Good, KeptAll, Kept

LEMMA KeptBy ==
  ASSUME NEW c, NEW d, KeptAll(d), req.key # Null => SameRemarks(c, d),
         \A s, k \in Names : Changed(s, k) \/ ini_gets(c, s, k) = ini_gets(d, s, k)
  PROVE  KeptAll(c)
<1>1. Kept(c)
  BY DEF KeptAll, Kept
<1>2. req.key # Null => SameRemarks(c, Old)
  BY RemarksChain DEF KeptAll
<1> QED
  BY <1>1, <1>2 DEF KeptAll

LEMMA SameKept ==
  ASSUME NEW c, NEW d, SameRemarks(c, d), \A s, k : Same(c, d, s, k)
  PROVE  /\ KeptAll(d) => KeptAll(c)
         /\ Good(d) => Good(c)
<1>1. \A s, k : ini_gets(c, s, k) = ini_gets(d, s, k)
  BY DEF Same
<1>2. KeptAll(d) => KeptAll(c)
  BY <1>1, KeptBy
<1> QED
  BY <1>1, <1>2, GoodIs

LEMMA NotEntered ==
  ASSUME NEW c, Tidy(c), NEW s, NEW k, ~Entered(c, s)
  PROVE  ini_gets(c, s, k) = Null /\ ~Open(c, s) /\ Found(c, s, k) = {}
<1>1. ~Open(c, s)
  BY OpenEntered
<1>2. s # NoName /\ \A a : ~IsStart(c, s, a)
  BY DEF Entered, IsStart
<1>3. Found(c, s, k) = {}
  BY <1>2, FoundIs DEF Under
<1> QED
  BY <1>1, <1>3, GetsIs

(* A part for another that counts for the same.                            *)
LEMMA Splice ==
  ASSUME NEW u, NEW x, NEW y, NEW r, Tidy(u), Tidy(x), Tidy(y), Tidy(r),
         Tidy(u \o x), Tidy(u \o y), Tidy((u \o x) \o r), Tidy((u \o y) \o r),
         NEW s, NEW k, Alike(y, x, s, k)
  PROVE  Same(u \o y, u \o x, s, k) /\ Same((u \o y) \o r, (u \o x) \o r, s, k)
<1>1. Same(u \o y, u \o x, s, k)
  BY SameTrivial, SameJoined
<1>2. Alike(r, r, s, k)
  BY SameTrivial
<1> QED
  BY <1>1, <1>2, SameJoined

LEMMA RemarksSpliced ==
  ASSUME NEW u \in Content, NEW x \in Content, NEW y \in Content, NEW r \in Content,
         u \o x \in Content, u \o y \in Content, SameRemarks(y, x)
  PROVE  SameRemarks((u \o y) \o r, (u \o x) \o r)
<1>1. SameRemarks(u \o y, u \o x)
  BY RemarksSame, RemarksOfBoth
<1> QED
  BY <1>1, RemarksSame, RemarksOfBoth

LEMMA Copying ==
  ASSUME TypeInv, pc \in {"section", "key", "rest"}, rfp # <<>>, SkipLine,
         NEW z \in {<<>>, <<LineTerm>>}
  PROVE  /\ \A s, k : Same(wfp \o (z \o Copied), wfp \o Line, s, k)
         /\ \A s, k : Same((wfp \o (z \o Copied)) \o RestOf(rfp), wfp \o rfp, s, k)
         /\ SameRemarks((wfp \o (z \o Copied)) \o RestOf(rfp), wfp \o rfp)
<1> DEFINE y == z \o Copied
           r == RestOf(rfp)
<1>1. /\ Tidy(wfp) /\ Tidy(Line) /\ Tidy(r) /\ IsLine(Line) /\ (r # <<>> => Clean(Line))
      /\ Tidy(wfp \o Line) /\ Tidy((wfp \o Line) \o r)
      /\ wfp \o rfp = (wfp \o Line) \o r /\ Copied = CopyOf(Line)
  BY Reading
<1>2. /\ Tidy(y) /\ (Clean(Line) => Clean(y)) /\ SameRemarks(y, Line)
      /\ \A s, k : Alike(y, Line, s, k)
  BY <1>1, CopyWritten
<1>3. Tidy(wfp \o y) /\ Tidy((wfp \o y) \o r)
  BY <1>1, <1>2, Wrote
<1> HIDE DEF y, r
<1>4. \A s, k : Same(wfp \o y, wfp \o Line, s, k) /\ Same((wfp \o y) \o r, (wfp \o Line) \o r, s, k)
  BY <1>1, <1>2, <1>3, Splice
<1>5. /\ wfp \in Content /\ Line \in Content /\ y \in Content /\ r \in Content
      /\ wfp \o Line \in Content /\ wfp \o y \in Content
  BY <1>1, <1>2, <1>3 DEF Tidy
<1>6. SameRemarks((wfp \o y) \o r, (wfp \o Line) \o r)
  BY <1>2, <1>5, RemarksSpliced
<1> QED
  BY <1>1, <1>4, <1>6 DEF y, r

(* The first text of a line says what it is.                               *)
LEMMA LineMatches ==
  /\ Matches <=> IsSection(Line[1], req.section)
  /\ MatchesKey <=> IsKey(Line[1], req.key)
BY TextTypes DEF Matches, MatchesKey, IsSection, IsKey, IsBlank, IsText, Head1


-----------------------------------------------------------------------------
(* The section is looked for.                                              *)
LEMMA SearchSection ==
  ASSUME TypeInv, CopySection, SectionInv, TypeInv'
  PROVE  /\ pc' = "section" => SectionInv'
         /\ pc' = "key" /\ req.key # Null => KeyInv'
         /\ pc' = "key" /\ req.key = Null => EraseInv'
<1> DEFINE r == RestOf(rfp)
           S == req.section
           K == req.key
           z == NewLineBefore(wfp # <<>>)
<1>1. pc = "section" /\ rfp # <<>> /\ SkipLine /\ UNCHANGED <<req, before>>
  BY DEF CopySection
<1>2. /\ Tidy(wfp) /\ Clean(wfp) /\ Tidy(rfp) /\ IsLine(Line) /\ Tidy(Line) /\ Tidy(r)
      /\ Tidy(wfp \o Line) /\ Tidy((wfp \o Line) \o r)
      /\ wfp \o rfp = (wfp \o Line) \o r /\ rfp = Line \o r
      /\ rfp' = r
  BY <1>1, Reading
<1>3. /\ wfp \in Content /\ Line \in Content /\ r \in Content
  BY <1>2 DEF Tidy
<1>4. S # NoName /\ ~Entered(wfp, S) /\ KeptAll(wfp \o rfp) /\ (~Twice => Single(rfp, S, K))
  BY DEF SectionInv
<1>5. ini_gets(wfp, S, K) = Null /\ ~Open(wfp, S)
  BY <1>2, <1>4, NotEntered
<1>6. z \in {<<>>, <<LineTerm>>}
  BY DEF NewLineBefore
<1>7. /\ \A s, k : Same(wfp \o (z \o Copied), wfp \o Line, s, k)
      /\ \A s, k : Same((wfp \o (z \o Copied)) \o r, wfp \o rfp, s, k)
      /\ SameRemarks((wfp \o (z \o Copied)) \o r, wfp \o rfp)
  BY <1>1, <1>6, Copying
<1>8. KeptAll((wfp \o (z \o Copied)) \o r)
  BY <1>4, <1>7, SameKept
<1>9. (wfp' = wfp \o (z \o Copied)) \/ (Matches /\ K = Null)
  BY DEF CopySection, Write
<1>10. Tidy(Line \o r)
  BY <1>2
<1> HIDE DEF r, z
<1>11. ASSUME ~Matches PROVE pc' = "section" /\ SectionInv'
  <2>1. ~Entered(Line, S)
    BY <1>2, <1>4, <1>11, OfLine, LineMatches
  <2>2. ~Entered(wfp \o Line, S)
    BY <1>3, <1>4, <2>1, EnteredJoined
  <2>3. ~Entered(wfp', S)
    BY <1>7, <1>9, <1>11, <2>2 DEF Same
  <2>4. ~Twice => Single(rfp', S, K)
    BY <1>2, <1>4, <1>10, <2>1, SingleRest
  <2>5. KeptAll(wfp' \o rfp')
    BY <1>2, <1>8, <1>9, <1>11
  <2>6. pc' = "section"
    BY <1>11 DEF CopySection
  <2> QED
    BY <1>1, <1>4, <2>3, <2>4, <2>5, <2>6, Stays DEF SectionInv
<1>12. ASSUME Matches PROVE Entered(Line, S) /\ Open(Line, S) /\ ini_gets(Line, S, K) = Null
  <2>1. IsSection(Line[1], S) /\ Line[1].kind = "section"
    BY <1>12, LineMatches DEF IsSection
  <2> QED
    BY <1>2, <1>4, <2>1, OfLine
<1>13. ASSUME Matches, K # Null PROVE pc' = "key" /\ KeyInv'
  <2>1. Open(wfp \o Line, S)
    BY <1>3, <1>4, <1>12, <1>13, OpenJoined
  <2>2. ini_gets(wfp \o Line, S, K) = Null
    BY <1>2, <1>4, <1>5, <1>12, <1>13, GetsJoined
  <2>3. Open(wfp', S) /\ ini_gets(wfp', S, K) = Null
    BY <1>7, <1>9, <1>13, <2>1, <2>2 DEF Same
  <2>4. ~Twice => Single(rfp', NoName, K)
    BY <1>2, <1>4, <1>10, <1>12, <1>13, SingleRest
  <2>5. KeptAll(wfp' \o rfp')
    BY <1>2, <1>8, <1>9, <1>13
  <2>6. pc' = "key"
    BY <1>13 DEF CopySection
  <2> QED
    BY <1>1, <2>3, <2>4, <2>5, <2>6, Stays DEF KeyInv
<1>14. ASSUME Matches, K = Null PROVE pc' = "key" /\ EraseInv'
  <2>1. pc' = "key" /\ wfp' = wfp
    BY <1>14 DEF CopySection
  <2>2. S \in Names
    BY Given DEF TypeInv, TypeOK
  <2>3. Header = Section(S)
    BY <1>4 DEF Header
  <2>4. /\ IsLine(Header) /\ Tidy(Header) /\ Clean(Header)
        /\ Header[1].kind = "section" /\ Header[1].name = S
    BY <2>2, <2>3, SectionIs
  <2>5. Line[1].kind = "section" /\ SameName(Line[1].name, S)
    BY <1>14, LineMatches DEF IsSection
  <2>6. \A s, k : Alike(Header, Line, s, k)
    <3> SUFFICES ASSUME NEW s, NEW k PROVE Same(Header, Line, s, k)
      BY DEF Alike
    <3>1. IsSection(Header[1], s) <=> IsSection(Line[1], s)
      BY <2>4, <2>5 DEF IsSection, SameName
    <3> QED
      BY <1>2, <2>4, <2>5, <3>1, OfLine DEF Same
  <2>7. Tidy(wfp \o Header) /\ Clean(wfp \o Header)
    <3>1. Header \in Content
      BY <2>4 DEF Tidy
    <3> QED
      BY <1>2, <1>3, <2>4, <3>1, TidyJoined, CleanJoined
  <2>8. Tidy((wfp \o Header) \o r)
    BY <1>2, <2>7, TidyJoined
  <2>9. \A s, k : Same((wfp \o Header) \o r, (wfp \o Line) \o r, s, k)
    BY <1>2, <2>4, <2>6, <2>7, <2>8, Splice
  <2>10. Kept((wfp \o Header) \o r)
    <3>1. Kept((wfp \o Line) \o r)
      BY <1>2, <1>4 DEF KeptAll
    <3> QED
      BY <2>9, <3>1 DEF Kept, Same
  <2>11. Open(wfp \o Header, S)
    <3>1. IsSection(Header[1], S)
      BY <2>4 DEF IsSection, SameName
    <3>2. Open(Header, S)
      BY <1>4, <2>4, <3>1, OfLine
    <3> QED
      BY <1>3, <1>4, <2>4, <3>2, OpenJoined DEF Tidy
  <2>12. Kept((wfp' \o Header) \o rfp')
    BY <1>2, <2>1, <2>10
  <2> QED
    BY <1>1, <1>2, <1>4, <2>1, <2>11, <2>12, Stays DEF EraseInv
<1> QED
  BY <1>11, <1>13, <1>14

LEMMA CopyingRest ==
  ASSUME TypeInv, CopyRest, Good(wfp \o rfp)
  PROVE  Good(wfp' \o rfp')
<1> DEFINE z == NewLineBefore(TRUE)
<1>1. pc = "rest" /\ rfp # <<>> /\ SkipLine /\ wfp' = wfp \o (z \o Copied)
  BY DEF CopyRest, Write
<1>2. z \in {<<>>, <<LineTerm>>}
  BY DEF NewLineBefore
<1> HIDE DEF z
<1>3. rfp' = RestOf(rfp)
  BY <1>1, Reading
<1>4. Good((wfp \o (z \o Copied)) \o RestOf(rfp))
  BY <1>1, <1>2, Copying, SameKept
<1> QED
  BY <1>1, <1>3, <1>4


-----------------------------------------------------------------------------
(* What the new line, alone or under a new section, counts for.            *)
LEMMA AddedIs ==
  ASSUME TypeInv, PlainKeys
  PROVE  /\ Open(Added, NoName) /\ SameRemarks(Added, <<>>) /\ Remarks(Added) = {}
         /\ \A k \in Names : req.key # Null /\ ~SameName(k, req.key) => ini_gets(Added, NoName, k) = Null
         /\ IsSet => /\ ini_gets(Added, NoName, req.key) = Read[req.value]
                     /\ Read[req.value] # Null
         /\ ~IsSet => Added = <<>>
         /\ \A s, k : s # NoName => ini_gets(Added, s, k) = Null /\ ~Entered(Added, s) /\ ~Open(Added, s)
<1>1. req \in Requests
  BY DEF TypeInv, TypeOK
<1>2. /\ IsSet => req.key \in Names /\ req.value \in Values
      /\ Tidy(Added)
  BY <1>1, Given
<1>3. Remarks(<<>>) = {}
  BY DEF Remarks
<1>4. CASE IsSet
  <2>1. /\ req.key \in Names /\ req.value \in Values /\ Added = Entry(req.key, req.value)
        /\ req.key # Null /\ Fold[Bare[req.key]] = Fold[req.key]
    BY <1>1, <1>2, <1>4 DEF Added, IsSet, PlainKeys, SameName
  <2>2. /\ Remarks(Added) = {} /\ Open(Added, NoName)
        /\ \A j : ini_gets(Added, NoName, j) =
                    IF j # Null /\ Fold[Bare[req.key]] = Fold[j] THEN Read[req.value] ELSE Null
    BY <2>1, EntryIs
  <2>3. Read[req.value] # Null
    BY <2>1, ReadAssumption, NamesAssumption
  <2>4. \A k \in Names : ~SameName(k, req.key) => ini_gets(Added, NoName, k) = Null
    BY <2>1, <2>2 DEF SameName
  <2>5. ini_gets(Added, NoName, req.key) = Read[req.value]
    BY <2>1, <2>2
  <2>6. SameRemarks(Added, <<>>)
    BY <1>3, <2>2, RemarksSame
  <2> QED
    BY <1>2, <1>4, <2>2, <2>3, <2>4, <2>5, <2>6, PlainIs
<1>5. CASE ~IsSet
  <2>1. Added = <<>>
    BY <1>5 DEF Added
  <2>2. \A s, k : /\ Entered(Added, s) <=> s = NoName
                  /\ Open(Added, s) <=> s = NoName
                  /\ ini_gets(Added, s, k) = Null
    BY <2>1, OfEmpty
  <2>3. SameRemarks(Added, <<>>)
    BY <1>3, <2>1, RemarksSame
  <2> QED
    BY <1>3, <1>5, <2>1, <2>2, <2>3
<1> QED
  BY <1>4, <1>5

LEMMA WrittenAnew ==
  ASSUME TypeInv, PlainKeys, IsSet
  PROVE  /\ Tidy(Header \o Added) /\ SameRemarks(Header \o Added, <<>>)
         /\ \A s, k \in Names : ~Changed(s, k) => ini_gets(Header \o Added, s, k) = Null
         /\ ini_gets(Header \o Added, req.section, req.key) = Read[req.value]
         /\ req.section # NoName => \A k : ini_gets(Header \o Added, NoName, k) = Null
<1> DEFINE S == req.section
           K == req.key
<1>1. /\ req \in Requests /\ S \in Names /\ K # Null
  BY Given DEF TypeInv, TypeOK, IsSet
<1>2. Tidy(Header) /\ Clean(Header) /\ Tidy(Added)
  BY <1>1, Given
<1>3. Tidy(Header \o Added) /\ Header \in Content /\ Added \in Content
  <2>1. Header \in Content /\ Added \in Content
    BY <1>2 DEF Tidy
  <2> QED
    BY <1>2, <2>1, TidyJoined
<1>4. /\ SameRemarks(Added, <<>>)
      /\ \A k \in Names : ~SameName(k, K) => ini_gets(Added, NoName, k) = Null
      /\ ini_gets(Added, NoName, K) = Read[req.value] /\ Read[req.value] # Null
      /\ \A s, k : s # NoName => ini_gets(Added, s, k) = Null
  BY <1>1, AddedIs
<1>5. <<>> \in Content /\ <<>> \o <<>> = <<>>
  BY EmptyTidy DEF Tidy
<1>6. CASE S = NoName
  <2>1. Header \o Added = Added
    BY <1>3, <1>6, EmptyJoined DEF Header
  <2>2. ASSUME NEW s \in Names, NEW k \in Names, ~Changed(s, k) PROVE ini_gets(Added, s, k) = Null
    <3>1. s = NoName => ~SameName(k, K)
      BY <1>6, <2>2 DEF Changed, SameName
    <3> QED
      BY <1>4, <3>1
  <2> QED
    BY <1>3, <1>4, <1>6, <2>1, <2>2
<1>7. CASE S # NoName
  <2>1. /\ IsLine(Header) /\ Remarks(Header) = {} /\ Header[1].kind = "section" /\ Header[1].name = S
    BY <1>1, <1>7, SectionIs DEF Header
  <2>2. \A s, k : /\ Entered(Header, s) <=> s = NoName \/ SameName(S, s)
                  /\ Open(Header, s) <=> s # NoName /\ SameName(S, s)
                  /\ ini_gets(Header, s, k) = Null
    BY <2>1, OfLine DEF IsSection
  <2>3. \A s, k : ini_gets(Header \o Added, s, k) =
                    IF s # NoName /\ SameName(S, s) THEN ini_gets(Added, NoName, k) ELSE Null
    BY <1>2, <1>3, <1>4, <2>2, GetsJoined
  <2>4. SameRemarks(Header, <<>>)
    <3>1. Remarks(<<>>) = {}
      BY DEF Remarks
    <3> QED
      BY <2>1, <3>1, RemarksSame
  <2>5. SameRemarks(Header \o Added, <<>>)
    BY <1>3, <1>4, <1>5, <2>4, RemarksOfBoth
  <2>6. ASSUME NEW s \in Names, NEW k \in Names, ~Changed(s, k)
        PROVE  ini_gets(Header \o Added, s, k) = Null
    <3>1. SameName(S, s) => ~SameName(k, K)
      BY <2>6 DEF Changed, SameName
    <3> QED
      BY <1>4, <2>3, <3>1
  <2>7. SameName(S, S)
    BY DEF SameName
  <2> QED
    BY <1>3, <1>4, <1>7, <2>3, <2>5, <2>6, <2>7
<1> QED
  BY <1>6, <1>7

(* The same after the line that ends the last one.                         *)
LEMMA Ended ==
  ASSUME NEW w, Tidy(w)
  PROVE  /\ Tidy(<<LineTerm>> \o w)
         /\ \A s, k : ini_gets(<<LineTerm>> \o w, s, k) = ini_gets(w, s, k)
         /\ SameRemarks(<<LineTerm>> \o w, w)
<1>1. Tidy(<<LineTerm>>) /\ Clean(<<LineTerm>>) /\ \A s, k : Alike(<<LineTerm>>, <<>>, s, k)
  BY BlankLine
<1>2. Tidy(<<LineTerm>> \o w)
  BY <1>1, TidyJoined
<1>3. w \in Content /\ <<LineTerm>> \in Content /\ <<>> \in Content
  BY <1>1, EmptyTidy DEF Tidy
<1>4. <<>> \o w = w
  BY <1>3, EmptyJoined
<1>5. ASSUME NEW s, NEW k PROVE ini_gets(<<LineTerm>> \o w, s, k) = ini_gets(w, s, k)
  <2>1. Same(<<LineTerm>>, <<>>, s, k) /\ Alike(w, w, s, k)
    BY <1>1, SameTrivial DEF Alike
  <2>2. Same(<<LineTerm>> \o w, <<>> \o w, s, k)
    BY <1>1, <1>2, <1>4, <2>1, EmptyTidy, SameJoined
  <2> QED
    BY <1>4, <2>2 DEF Same
<1>6. SameRemarks(<<LineTerm>>, <<>>)
  <2>1. Remarks(<<LineTerm>>) = {} /\ Remarks(<<>>) = {}
    BY TextTypes DEF Remarks
  <2> QED
    BY <2>1, RemarksSame
<1>7. SameRemarks(<<LineTerm>> \o w, <<>> \o w)
  BY <1>3, <1>6, RemarksSame, RemarksOfBoth
<1> QED
  BY <1>2, <1>4, <1>5, <1>7


-----------------------------------------------------------------------------
(* The end of the file is reached: the key, or the section too, is added.  *)
LEMMA SectionAdded ==
  ASSUME TypeInv, PlainKeys, AppendSection, SectionInv, TypeInv'
  PROVE  Good(wfp')
<1> DEFINE S == req.section
           K == req.key
<1>1. /\ rfp = <<>> /\ Tidy(wfp) /\ Tidy(wfp') /\ req \in Requests
  BY DEF AppendSection, TypeInv, TypeOK
<1>2. /\ wfp \in Content /\ wfp \o rfp = wfp
  BY <1>1, EmptyJoined DEF Tidy
<1>3. S # NoName /\ ~Entered(wfp, S) /\ KeptAll(wfp)
  BY <1>2 DEF SectionInv
<1>4. ini_gets(wfp, S, K) = Null /\ ~Open(wfp, S)
  BY <1>1, <1>3, NotEntered
<1>5. Tidy(Header) /\ Tidy(Added) /\ Header \in Content /\ Added \in Content
  BY <1>1, Given DEF Tidy
<1>6. CASE ~IsSet
  <2>1. wfp' = wfp
    <3>1. wfp' = wfp \o ((<<>> \o <<>>) \o <<>>)
      BY <1>6 DEF AppendSection, Write, EndLine, Added
    <3> QED
      BY <1>2, <3>1 DEF Content
  <2> QED
    BY <1>3, <1>4, <1>6, <2>1, GoodIs
<1>7. CASE IsSet
  <2> DEFINE w == Header \o Added
             z == <<LineTerm>> \o w
  <2>1. wfp' = wfp \o z
    <3>1. wfp' = wfp \o ((<<LineTerm>> \o Header) \o Added)
      BY <1>7 DEF AppendSection, Write, EndLine
    <3>2. <<LineTerm>> \in Content
      BY BlankLine DEF Tidy
    <3> QED
      BY <1>5, <3>1, <3>2, Associative
  <2>2. /\ Tidy(w) /\ SameRemarks(w, <<>>)
        /\ \A s, k \in Names : ~Changed(s, k) => ini_gets(w, s, k) = Null
        /\ ini_gets(w, S, K) = Read[req.value]
        /\ \A k : ini_gets(w, NoName, k) = Null
    BY <1>3, <1>7, WrittenAnew
  <2> HIDE DEF w
  <2>3. /\ Tidy(z) /\ SameRemarks(z, w)
        /\ \A s, k : ini_gets(z, s, k) = ini_gets(w, s, k)
    BY <2>2, Ended
  <2> HIDE DEF z
  <2>4. Tidy(wfp \o z)
    BY <1>1, <2>1
  <2>5. ASSUME NEW s \in Names, NEW k \in Names, ~Changed(s, k)
        PROVE  ini_gets(wfp \o z, s, k) = ini_gets(wfp, s, k)
    BY <1>1, <2>2, <2>3, <2>4, <2>5, AtEnd
  <2>6. SameRemarks(wfp \o z, wfp)
    <3>1. SameRemarks(z, <<>>)
      BY <2>2, <2>3, RemarksChain
    <3>2. SameRemarks(wfp, wfp) /\ <<>> \in Content /\ z \in Content
      BY <1>2, <2>3, EmptyTidy, RemarksSame DEF Tidy
    <3>3. SameRemarks(wfp \o z, wfp \o <<>>)
      BY <1>2, <3>1, <3>2, RemarksOfBoth
    <3> QED
      BY <1>2, <3>3, EmptyJoined
  <2>7. KeptAll(wfp \o z)
    BY <1>3, <2>5, <2>6, KeptBy
  <2>8. ini_gets(wfp \o z, S, K) = Read[req.value]
    BY <1>1, <1>3, <1>4, <2>2, <2>3, <2>4, GetsJoined
  <2> QED
    BY <1>7, <2>1, <2>7, <2>8, GoodIs
<1> QED
  BY <1>6, <1>7

LEMMA KeyAdded ==
  ASSUME TypeInv, PlainKeys, AppendKey, req.key # Null, KeyInv, TypeInv'
  PROVE  Good(wfp')
<1> DEFINE S == req.section
           K == req.key
<1>1. /\ rfp = <<>> /\ Tidy(wfp) /\ Tidy(wfp') /\ req \in Requests
  BY DEF AppendKey, TypeInv, TypeOK
<1>2. /\ wfp \in Content /\ wfp \o rfp = wfp
  BY <1>1, EmptyJoined DEF Tidy
<1>3. Open(wfp, S) /\ ini_gets(wfp, S, K) = Null /\ KeptAll(wfp)
  BY <1>2 DEF KeyInv
<1>4. CASE ~IsSet
  <2>1. wfp' = wfp
    <3>1. wfp' = wfp \o (<<>> \o <<>>)
      BY <1>4 DEF AppendKey, Write, EndLine, Added
    <3> QED
      BY <1>2, <3>1 DEF Content
  <2> QED
    BY <1>3, <1>4, <2>1, GoodIs
<1>5. CASE IsSet
  <2> DEFINE z == <<LineTerm>> \o Added
  <2>1. wfp' = wfp \o z
    BY <1>5 DEF AppendKey, Write, EndLine
  <2>2. /\ SameRemarks(Added, <<>>) /\ Tidy(Added)
        /\ \A k \in Names : ~SameName(k, K) => ini_gets(Added, NoName, k) = Null
        /\ ini_gets(Added, NoName, K) = Read[req.value]
        /\ \A s, k : s # NoName => ini_gets(Added, s, k) = Null
    BY <1>1, <1>5, AddedIs, Given
  <2>3. /\ Tidy(z) /\ SameRemarks(z, Added)
        /\ \A s, k : ini_gets(z, s, k) = ini_gets(Added, s, k)
    BY <2>2, Ended
  <2> HIDE DEF z
  <2>4. Tidy(wfp \o z)
    BY <1>1, <2>1
  <2>5. ASSUME NEW s \in Names, NEW k \in Names, ~Changed(s, k)
        PROVE  ini_gets(wfp \o z, s, k) = ini_gets(wfp, s, k)
    <3>1. Open(wfp, s) => ~SameName(k, K)
      BY <1>2, <1>3, <2>5, OneOpen DEF Changed
    <3>2. Open(wfp, s) => ini_gets(z, NoName, k) = Null
      BY <2>2, <2>3, <3>1
    <3>3. ~Entered(wfp, s) => ini_gets(z, s, k) = Null
      BY <2>2, <2>3 DEF Entered
    <3> QED
      BY <1>1, <2>3, <2>4, <3>2, <3>3, AtEnd
  <2>6. SameRemarks(wfp \o z, wfp)
    <3>1. SameRemarks(z, <<>>)
      BY <2>2, <2>3, RemarksChain
    <3>2. SameRemarks(wfp, wfp) /\ <<>> \in Content /\ z \in Content
      BY <1>2, <2>3, EmptyTidy, RemarksSame DEF Tidy
    <3>3. SameRemarks(wfp \o z, wfp \o <<>>)
      BY <1>2, <3>1, <3>2, RemarksOfBoth
    <3> QED
      BY <1>2, <3>3, EmptyJoined
  <2>7. KeptAll(wfp \o z)
    BY <1>3, <2>5, <2>6, KeptBy
  <2>8. ini_gets(wfp \o z, S, K) = Read[req.value]
    BY <1>1, <1>3, <2>2, <2>3, <2>4, GetsJoined
  <2> QED
    BY <1>5, <2>1, <2>7, <2>8, GoodIs
<1> QED
  BY <1>4, <1>5

-----------------------------------------------------------------------------
(* Texts for others in the section that is open.                           *)
LEMMA Inserted ==
  ASSUME NEW u, NEW x, NEW y, NEW r, Tidy(u), Tidy(x), Tidy(y), Tidy(r),
         Tidy(u \o x), Tidy(u \o y), Tidy((u \o x) \o r), Tidy((u \o y) \o r),
         Open(u, req.section), Open(x, NoName), Open(y, NoName),
         \A k \in Names : req.key # Null /\ ~SameName(k, req.key) =>
           ini_gets(x, NoName, k) = ini_gets(y, NoName, k),
         NEW s \in Names, NEW k \in Names, ~Changed(s, k)
  PROVE  Same(u \o y, u \o x, s, k) /\ Same((u \o y) \o r, (u \o x) \o r, s, k)
<1>1. Open(u, s) => ini_gets(y, NoName, k) = ini_gets(x, NoName, k)
  <2> SUFFICES ASSUME Open(u, s) PROVE ini_gets(y, NoName, k) = ini_gets(x, NoName, k)
    OBVIOUS
  <2>1. SameName(s, req.section)
    BY OneOpen DEF Tidy
  <2>2. req.key # Null /\ ~SameName(k, req.key)
    BY <2>1 DEF Changed
  <2> QED
    BY <2>2
<1>2. Same(u \o y, u \o x, s, k)
  BY <1>1, InSection
<1>3. Alike(r, r, s, k)
  BY SameTrivial
<1> QED
  BY <1>2, <1>3, SameJoined


(* The key is looked for.                                                  *)
LEMMA SearchKey ==
  ASSUME TypeInv, CopyKey, req.key # Null, KeyInv, TypeInv'
  PROVE  KeyInv'
<1> DEFINE r == RestOf(rfp)
           S == req.section
           K == req.key
<1>1. /\ pc = "key" /\ rfp # <<>> /\ SkipLine /\ UNCHANGED <<req, before>>
      /\ ~MatchesKey /\ Line[1].kind # "section" /\ wfp' = wfp \o Copied
  BY DEF CopyKey, Write, Head1
<1>2. /\ Tidy(wfp) /\ IsLine(Line) /\ Tidy(Line) /\ Tidy(r)
      /\ Tidy(wfp \o Line) /\ rfp = Line \o r /\ rfp' = r /\ Tidy(rfp)
  BY <1>1, Reading
<1>3. /\ Open(wfp, S) /\ ini_gets(wfp, S, K) = Null /\ KeptAll(wfp \o rfp)
      /\ (~Twice => Single(rfp, NoName, K))
  BY DEF KeyInv
<1>4. Copied \in Content /\ <<>> \o Copied = Copied
  <2>1. Tidy(Copied)
    BY <1>1, <1>2, Reading, CopyIs
  <2> QED
    BY <2>1, EmptyJoined DEF Tidy
<1>5. /\ \A s, k : Same(wfp \o Copied, wfp \o Line, s, k)
      /\ \A s, k : Same((wfp \o Copied) \o r, wfp \o rfp, s, k)
      /\ SameRemarks((wfp \o Copied) \o r, wfp \o rfp)
  BY <1>1, <1>4, Copying
<1>6. KeptAll((wfp \o Copied) \o r)
  BY <1>3, <1>5, SameKept
<1>7. Tidy(Line \o r)
  BY <1>2
<1> HIDE DEF r
<1>8. Open(Line, NoName) /\ ini_gets(Line, NoName, K) = Null
  BY <1>1, <1>2, OfLine, LineMatches
<1>9. Open(wfp \o Line, S)
  BY <1>2, <1>3, <1>8, OpenJoined DEF Tidy
<1>10. ini_gets(wfp \o Line, S, K) = Null
  BY <1>2, <1>3, <1>8, GetsJoined
<1>11. Open(wfp', S) /\ ini_gets(wfp', S, K) = Null
  BY <1>1, <1>5, <1>9, <1>10 DEF Same
<1>12. ~Twice => Single(rfp', NoName, K)
  BY <1>2, <1>3, <1>7, <1>8, SingleRest
<1>13. KeptAll(wfp' \o rfp')
  BY <1>1, <1>2, <1>6
<1> QED
  BY <1>1, <1>11, <1>12, <1>13, Stays DEF KeyInv

(* It is found, and its line is left out.                                  *)
LEMMA KeyReplaced ==
  ASSUME TypeInv, PlainKeys, ReplaceKey, KeyInv, TypeInv'
  PROVE  Good(wfp' \o rfp')
<1> DEFINE r == RestOf(rfp)
           S == req.section
           K == req.key
           w == wfp \o Added
<1>1. /\ pc = "key" /\ rfp # <<>> /\ SkipLine /\ MatchesKey /\ wfp' = w
  BY DEF ReplaceKey, Write
<1>2. IsKey(Line[1], K) /\ K # Null /\ Line[1].kind = "key" /\ SameName(Bare[Line[1].name], K)
  BY <1>1, LineMatches DEF IsKey
<1>3. /\ Tidy(wfp) /\ IsLine(Line) /\ Tidy(Line) /\ Tidy(r)
      /\ Tidy(wfp \o Line) /\ Tidy((wfp \o Line) \o r)
      /\ wfp \o rfp = (wfp \o Line) \o r
      /\ rfp = Line \o r /\ rfp' = r /\ Tidy(rfp)
  BY <1>1, Reading
<1>4. /\ Open(wfp, S) /\ ini_gets(wfp, S, K) = Null /\ KeptAll(wfp \o rfp)
      /\ (~Twice => Single(rfp, NoName, K))
  BY DEF KeyInv
<1>5. Tidy(Added) /\ Clean(Added)
  BY Given DEF TypeInv, TypeOK
<1>6. Tidy(w) /\ Tidy(w \o r)
  BY <1>1, <1>5, Wrote
<1>7. /\ Open(Added, NoName) /\ Remarks(Added) = {}
      /\ \A k \in Names : ~SameName(k, K) => ini_gets(Added, NoName, k) = Null
      /\ IsSet => ini_gets(Added, NoName, K) = Read[req.value] /\ Read[req.value] # Null
      /\ ~IsSet => Added = <<>>
  BY <1>2, AddedIs
<1> HIDE DEF r
<1>8. Open(Line, NoName) /\ \A k \in Names : ~SameName(k, K) => ini_gets(Line, NoName, k) = Null
  <2>1. \A k \in Names : ~SameName(k, K) => ~IsKey(Line[1], k)
    BY <1>2 DEF IsKey, SameName
  <2>2. Line[1].kind # "section"
    BY <1>2
  <2> QED
    BY <1>3, <2>1, <2>2, OfLine
<1>9. ASSUME NEW s \in Names, NEW k \in Names, ~Changed(s, k)
      PROVE  Same(w \o r, (wfp \o Line) \o r, s, k)
  BY <1>3, <1>4, <1>5, <1>6, <1>7, <1>8, <1>9, Inserted
<1>10. SameRemarks(w \o r, (wfp \o Line) \o r)
  <2>1. Line[1].kind # "comment"
    BY <1>2
  <2>2. Remarks(Line) = {}
    <3>1. \A m \in DOMAIN Line : m = 1 \/ (m = 2 /\ Len(Line) = 2)
      <4>1. DOMAIN Line = 1 .. Len(Line)
        BY <1>3 DEF Tidy, Content
      <4>2. Len(Line) \in {1, 2}
        BY <1>3 DEF IsLine
      <4>3. CASE Len(Line) = 1
        BY <4>1, <4>3
      <4>4. CASE Len(Line) = 2
        BY <4>1, <4>4
      <4> QED
        BY <4>2, <4>3, <4>4
    <3>2. Len(Line) = 2 => Line[2].kind # "comment"
      BY <1>3, TextTypes DEF IsLine
    <3> QED
      BY <2>1, <3>1, <3>2 DEF Remarks
  <2>3. SameRemarks(Added, Line)
    BY <1>7, <2>2, RemarksSame
  <2> QED
    BY <1>3, <1>5, <1>6, <2>3, RemarksSpliced DEF Tidy
<1>11. KeptAll(w \o r)
  <2>1. KeptAll((wfp \o Line) \o r)
    BY <1>3, <1>4
  <2> QED
    BY <1>9, <1>10, <2>1, KeptBy DEF Same
<1>12. Open(w, S)
  BY <1>3, <1>4, <1>5, <1>7, OpenJoined DEF Tidy
<1>13. ini_gets(w, S, K) = ini_gets(Added, NoName, K)
  BY <1>3, <1>4, <1>5, <1>6, GetsJoined
<1>14. IsSet => ini_gets(w \o r, S, K) = Read[req.value]
  BY <1>3, <1>6, <1>7, <1>13, GetsJoined
<1>15. ASSUME ~IsSet, ~Twice PROVE ini_gets(w \o r, S, K) = Null
  <2>1. ini_gets(Added, NoName, K) = Null
    BY <1>7, <1>15, OfEmpty
  <2>2. Found(Line, NoName, K) # {}
    <3>1. Line[1].value \in Values /\ 1 \in DOMAIN Line
      <4>1. 1 \in DOMAIN Line
        BY <1>3 DEF IsLine, Tidy, Content
      <4> QED
        BY <1>2, <1>3, <4>1 DEF Tidy
    <3>2. ini_gets(Line, NoName, K) = Line[1].value
      <4>1. Line[1].kind # "section"
        BY <1>2
      <4> QED
        BY <1>2, <1>3, <4>1, OfLine
    <3>3. ini_gets(Line, NoName, K) # Null
      BY <3>1, <3>2, NamesAssumption
    <3> QED
      BY <1>3, <3>3, GetsIs
  <2>3. Tidy(Line \o r) /\ Single(Line \o r, NoName, K)
    BY <1>3, <1>4, <1>15
  <2>4. ini_gets(r, NoName, K) = Null
    BY <1>3, <1>8, <2>2, <2>3, SingleRest
  <2> QED
    BY <1>3, <1>6, <1>12, <1>13, <2>1, <2>4, GetsJoined
<1>16. Good(w \o r)
  BY <1>11, <1>14, <1>15, GoodIs
<1> QED
  BY <1>1, <1>3, <1>16


(* The next section begins, and the line of the key goes before it.        *)
LEMMA KeyInserted ==
  ASSUME TypeInv, PlainKeys, NextSection, req.key # Null, KeyInv, TypeInv'
  PROVE  Good(wfp' \o rfp')
<1> DEFINE r == RestOf(rfp)
           S == req.section
           K == req.key
           a == IF IsSet THEN Added \o <<LineTerm>> ELSE <<>>
           y == a \o Copied
<1>1. /\ pc = "key" /\ rfp # <<>> /\ SkipLine /\ Line[1].kind = "section" /\ wfp' = wfp \o y
  BY DEF NextSection, Write, InsertKey, Head1
<1>2. /\ Tidy(wfp) /\ Clean(wfp) /\ IsLine(Line) /\ Tidy(Line) /\ Tidy(r)
      /\ Tidy(wfp \o Line) /\ Tidy((wfp \o Line) \o r)
      /\ wfp \o rfp = (wfp \o Line) \o r
      /\ rfp' = r /\ (r # <<>> => Clean(Line))
      /\ Copied = CopyOf(Line)
  BY <1>1, Reading
<1>3. /\ Open(wfp, S) /\ ini_gets(wfp, S, K) = Null /\ KeptAll(wfp \o rfp)
  BY DEF KeyInv
<1>4. Tidy(Added) /\ Clean(Added)
  BY Given DEF TypeInv, TypeOK
<1>5. /\ Open(Added, NoName) /\ SameRemarks(Added, <<>>)
      /\ \A k \in Names : ~SameName(k, K) => ini_gets(Added, NoName, k) = Null
      /\ IsSet => ini_gets(Added, NoName, K) = Read[req.value] /\ Read[req.value] # Null
  BY AddedIs
<1>6. /\ Tidy(Copied) /\ (Clean(Line) => Clean(Copied)) /\ SameRemarks(Copied, Line)
      /\ \A s, k : Alike(Copied, Line, s, k)
  BY <1>2, CopyIs
<1>7. /\ Tidy(a) /\ Clean(a) /\ Open(a, NoName) /\ SameRemarks(a, <<>>)
      /\ \A k \in Names : ~SameName(k, K) => ini_gets(a, NoName, k) = Null
      /\ IsSet => ini_gets(a, NoName, K) = Read[req.value]
  <2>1. CASE IsSet
    <3>1. Tidy(<<LineTerm>>) /\ Clean(<<LineTerm>>) /\ <<LineTerm>> \in Content
          /\ Added \in Content /\ <<>> \in Content
      BY <1>4, BlankLine, EmptyTidy DEF Tidy
    <3>2. \A k : /\ Open(<<LineTerm>>, NoName) /\ ini_gets(<<LineTerm>>, NoName, k) = Null
      BY BlankLine, OfEmpty DEF Alike, Same
    <3>3. Tidy(Added \o <<LineTerm>>) /\ Clean(Added \o <<LineTerm>>)
      BY <1>4, <3>1, TidyJoined, CleanJoined
    <3>4. Open(Added \o <<LineTerm>>, NoName)
      BY <1>5, <3>1, <3>2, OpenJoined
    <3>5. \A k : ini_gets(Added \o <<LineTerm>>, NoName, k) = ini_gets(Added, NoName, k)
      BY <1>4, <1>5, <3>1, <3>2, <3>3, GetsJoined
    <3>6. SameRemarks(Added \o <<LineTerm>>, <<>>)
      <4>1. Remarks(<<LineTerm>>) = {} /\ Remarks(<<>>) = {}
        BY TextTypes DEF Remarks
      <4>2. SameRemarks(<<LineTerm>>, <<>>)
        BY <4>1, RemarksSame
      <4>3. SameRemarks(Added \o <<LineTerm>>, <<>> \o <<>>)
        BY <1>5, <3>1, <4>2, RemarksOfBoth
      <4> QED
        BY <3>1, <4>3, EmptyJoined
    <3> QED
      BY <1>5, <2>1, <3>3, <3>4, <3>5, <3>6
  <2>2. CASE ~IsSet
    <3>1. SameRemarks(<<>>, <<>>)
      BY EmptyTidy, RemarksSame DEF Tidy
    <3> QED
      BY <2>2, <3>1, EmptyTidy, OfEmpty
  <2> QED
    BY <2>1, <2>2
<1> HIDE DEF a
<1>8. Tidy(y) /\ (Clean(Copied) => Clean(y))
  <2>1. Tidy(y)
    BY <1>6, <1>7, TidyJoined
  <2>2. a \in Content /\ Copied \in Content
    BY <1>6, <1>7 DEF Tidy
  <2>3. Clean(Copied) => Clean(y)
    BY <1>7, <2>2, CleanJoined
  <2> QED
    BY <2>1, <2>3
<1>9. Tidy(wfp \o y) /\ Tidy((wfp \o y) \o r)
  <2>1. r # <<>> => Clean(y)
    BY <1>2, <1>6, <1>8
  <2> QED
    BY <1>1, <1>8, <2>1, Wrote
<1>10. /\ wfp \in Content /\ a \in Content /\ Copied \in Content /\ Line \in Content /\ r \in Content
       /\ <<>> \in Content
  BY <1>2, <1>6, <1>7, EmptyTidy DEF Tidy
<1>11. Tidy(wfp \o a) /\ wfp \o y = (wfp \o a) \o Copied
  <2>1. Tidy(wfp \o a)
    BY <1>2, <1>7, TidyJoined
  <2>2. wfp \in Content /\ a \in Content /\ Copied \in Content
    BY <1>10
  <2>3. (wfp \o a) \o Copied = wfp \o (a \o Copied)
    BY <2>2, Associative
  <2> QED
    BY <2>1, <2>3
<1> HIDE DEF r, y
<1>12. ASSUME NEW s \in Names, NEW k \in Names, ~Changed(s, k)
       PROVE  Same((wfp \o y) \o r, (wfp \o Line) \o r, s, k)
  <2>1. wfp \o <<>> = wfp
    BY <1>10, EmptyJoined
  <2>2. Open(<<>>, NoName) /\ \A j : ini_gets(<<>>, NoName, j) = Null
    BY OfEmpty
  <2>3. Tidy(<<>>)
    BY EmptyTidy
  <2>4. Open(wfp, s) => ini_gets(a, NoName, k) = ini_gets(<<>>, NoName, k)
    <3>1. Open(wfp, s) => ~SameName(k, K)
      BY <1>3, <1>10, <1>12, OneOpen DEF Changed
    <3> QED
      BY <1>7, <2>2, <3>1
  <2>5. Same(wfp \o a, wfp \o <<>>, s, k)
    BY <1>2, <1>7, <1>11, <2>1, <2>2, <2>3, <2>4, InSection
  <2>6. Same((wfp \o a) \o Copied, wfp \o Line, s, k)
    BY <1>2, <1>6, <1>9, <1>11, <2>1, <2>5, SameJoined
  <2>7. Alike(r, r, s, k)
    BY SameTrivial
  <2> QED
    BY <1>2, <1>9, <1>11, <2>6, <2>7, SameJoined
<1>13. SameRemarks((wfp \o y) \o r, (wfp \o Line) \o r)
  <2>1. SameRemarks(a \o Copied, <<>> \o Line)
    BY <1>6, <1>7, <1>10, RemarksOfBoth
  <2>2. SameRemarks(y, Line) /\ y \in Content
    BY <1>8, <1>10, <2>1, EmptyJoined DEF Tidy, y
  <2> QED
    BY <1>2, <1>9, <1>10, <2>2, RemarksSpliced DEF Tidy
<1>14. KeptAll((wfp \o y) \o r)
  <2>1. KeptAll((wfp \o Line) \o r)
    BY <1>2, <1>3
  <2> QED
    BY <1>12, <1>13, <2>1, KeptBy DEF Same
<1>15. Open(wfp \o a, S)
  BY <1>3, <1>7, <1>10, OpenJoined
<1>16. ini_gets(wfp \o a, S, K) = ini_gets(a, NoName, K)
  BY <1>2, <1>3, <1>7, <1>11, GetsJoined
<1>17. /\ ~Open(Line, NoName) /\ Entered(Line, NoName) /\ ini_gets(Line, NoName, K) = Null
  BY <1>1, <1>2, OfLine
<1>18. /\ ~Open(Copied, NoName) /\ ini_gets(Copied, NoName, K) = Null
  BY <1>6, <1>17 DEF Alike, Same
<1>19. IsSet => ini_gets((wfp \o y) \o r, S, K) = Read[req.value]
  <2> SUFFICES ASSUME IsSet PROVE ini_gets((wfp \o y) \o r, S, K) = Read[req.value]
    OBVIOUS
  <2>1. ini_gets(wfp \o a, S, K) = Read[req.value] /\ Read[req.value] # Null
    BY <1>5, <1>7, <1>16
  <2>2. ini_gets(wfp \o y, S, K) = Read[req.value]
    BY <1>6, <1>9, <1>11, <2>1, GetsJoined
  <2> QED
    BY <1>2, <1>9, <2>1, <2>2, GetsJoined
<1>20. ~IsSet => ini_gets((wfp \o y) \o r, S, K) = Null
  <2> SUFFICES ASSUME ~IsSet PROVE ini_gets((wfp \o y) \o r, S, K) = Null
    OBVIOUS
  <2>1. wfp \o a = wfp
    BY <1>10, EmptyJoined DEF a
  <2>2. wfp \o y = wfp \o Copied
    BY <1>11, <2>1
  <2>3. ini_gets(wfp \o Copied, S, K) = Null
    BY <1>2, <1>3, <1>6, <1>9, <1>18, <2>2, GetsJoined
  <2>4. Entered(wfp, S)
    BY <1>3, OpenEntered
  <2>5. Entered(wfp \o Copied, S) /\ ~Open(wfp \o Copied, S)
    BY <1>10, <1>18, <2>4, EnteredJoined, OpenJoined
  <2> QED
    BY <1>2, <1>9, <2>2, <2>3, <2>5, GetsJoined
<1>21. Good((wfp \o y) \o r)
  BY <1>14, <1>19, <1>20, GoodIs
<1> QED
  BY <1>1, <1>2, <1>21


-----------------------------------------------------------------------------
(***************************************************************************)
(* A section is erased: its lines are left out until the next one begins.  *)
(***************************************************************************)
LEMMA Erased ==
  ASSUME TypeInv, CopyKey, req.key = Null, EraseInv, TypeInv'
  PROVE  EraseInv'
<1> DEFINE r == RestOf(rfp)
           S == req.section
           h == wfp \o Header
<1>1. /\ pc = "key" /\ rfp # <<>> /\ SkipLine /\ UNCHANGED <<req, before>>
      /\ Line[1].kind # "section" /\ wfp' = wfp
  BY DEF CopyKey, Head1
<1>2. /\ Tidy(wfp) /\ Clean(wfp) /\ IsLine(Line) /\ Tidy(Line) /\ Tidy(r)
      /\ rfp = Line \o r /\ rfp' = r
      /\ (r # <<>> => Clean(Line))
  BY <1>1, Reading
<1>3. Tidy(Header) /\ Clean(Header)
  BY Given DEF TypeInv, TypeOK
<1>4. /\ wfp \in Content /\ Header \in Content /\ Line \in Content /\ r \in Content
  BY <1>2, <1>3 DEF Tidy
<1>5. Tidy(h) /\ Clean(h)
  <2>1. Tidy(h)
    BY <1>2, <1>3, TidyJoined
  <2>2. Header = <<>> => h = wfp
    BY <1>4, EmptyJoined
  <2>3. Header # <<>> => Clean(h)
    BY <1>3, <1>4, CleanJoined
  <2> QED
    BY <1>2, <2>1, <2>2, <2>3
<1>6. Open(h, S) /\ Kept(h \o rfp)
  BY DEF EraseInv
<1> HIDE DEF h, r
<1>7. /\ Tidy(h \o Line) /\ Tidy((h \o Line) \o r) /\ Tidy(h \o r)
  <2>1. Tidy(h \o Line) /\ Tidy(h \o r)
    BY <1>2, <1>5, TidyJoined
  <2>2. h \in Content
    BY <1>5 DEF Tidy
  <2>3. r # <<>> => Clean(h \o Line)
    BY <1>2, <1>4, <1>5, <2>2, CleanJoined
  <2>4. Tidy((h \o Line) \o r)
    BY <1>2, <2>1, <2>3, TidyJoined
  <2> QED
    BY <2>1, <2>4
<1>8. h \in Content /\ h \o <<>> = h /\ h \o rfp = (h \o Line) \o r
  <2>1. h \in Content
    BY <1>5 DEF Tidy
  <2>2. (h \o Line) \o r = h \o (Line \o r)
    BY <1>4, <2>1, Associative
  <2> QED
    BY <1>2, <2>1, <2>2, EmptyJoined
<1>9. ASSUME NEW s \in Names, NEW k \in Names, ~Changed(s, k)
      PROVE  ini_gets(h \o r, s, k) = ini_gets(h \o rfp, s, k)
  <2>1. ~Open(h, s)
    BY <1>1, <1>6, <1>8, <1>9, OneOpen DEF Changed
  <2>2. Open(Line, NoName) /\ Open(<<>>, NoName) /\ Tidy(<<>>)
    BY <1>1, <1>2, OfLine, OfEmpty, EmptyTidy
  <2>3. Same(h \o <<>>, h \o Line, s, k)
    BY <1>2, <1>5, <1>7, <1>8, <2>1, <2>2, InSection
  <2>4. Alike(r, r, s, k)
    BY SameTrivial
  <2>5. Same((h \o <<>>) \o r, (h \o Line) \o r, s, k)
    BY <1>2, <1>5, <1>7, <1>8, <2>3, <2>4, SameJoined
  <2> QED
    BY <1>8, <2>5 DEF Same
<1>10. Kept(h \o r)
  BY <1>6, <1>9 DEF Kept
<1>11. Kept((wfp' \o Header) \o rfp')
  BY <1>1, <1>2, <1>10 DEF h
<1> QED
  BY <1>1, <1>11, Stays DEF EraseInv, h

(* A header makes no difference to the others once the next one is there.  *)
LEMMA HeaderIs ==
  ASSUME TypeInv
  PROVE  /\ \A s, k : ini_gets(Header, s, k) = Null
         /\ \A s : SameName(s, req.section) \/ ~Entered(Header, s) \/ s = NoName
<1>1. CASE req.section = NoName
  BY <1>1, OfEmpty DEF Header
<1>2. CASE req.section # NoName
  <2>1. req.section \in Names
    BY Given DEF TypeInv, TypeOK
  <2>2. IsLine(Header) /\ Header[1].kind = "section" /\ Header[1].name = req.section
    BY <1>2, <2>1, SectionIs DEF Header
  <2> QED
    BY <2>2, OfLine DEF IsSection, SameName
<1> QED
  BY <1>1, <1>2

LEMMA EraseEnds ==
  ASSUME TypeInv, AppendKey, req.key = Null, EraseInv, TypeInv'
  PROVE  Good(wfp')
<1>1. /\ rfp = <<>> /\ Tidy(wfp) /\ ~IsSet
  BY DEF AppendKey, TypeInv, TypeOK, IsSet
<1>2. Tidy(Header) /\ wfp \in Content /\ Header \in Content
  BY <1>1, Given DEF TypeInv, TypeOK, Tidy
<1>3. wfp' = wfp
  <2>1. wfp' = wfp \o (<<>> \o <<>>)
    BY <1>1 DEF AppendKey, Write, EndLine, Added
  <2> QED
    BY <1>2, <2>1 DEF Content
<1>4. Clean(wfp) /\ Kept((wfp \o Header) \o rfp)
  BY DEF EraseInv
<1>5. Tidy(wfp \o Header) /\ (wfp \o Header) \o rfp = wfp \o Header
  BY <1>1, <1>2, <1>4, TidyJoined, EmptyJoined DEF Tidy
<1>6. \A s, k : ini_gets(wfp \o Header, s, k) = ini_gets(wfp, s, k)
  BY <1>1, <1>2, <1>5, HeaderIs, AtEnd
<1>7. Kept(wfp)
  BY <1>4, <1>5, <1>6 DEF Kept
<1> QED
  BY <1>1, <1>3, <1>7, GoodIs DEF KeptAll

LEMMA NextKept ==
  ASSUME TypeInv, NextSection, req.key = Null, EraseInv, TypeInv'
  PROVE  Good(wfp' \o rfp')
<1> DEFINE r == RestOf(rfp)
           S == req.section
           h == wfp \o Header
<1>1. /\ pc = "key" /\ rfp # <<>> /\ SkipLine /\ Line[1].kind = "section" /\ ~IsSet
      /\ wfp' = wfp \o (<<>> \o Copied)
  BY DEF NextSection, Write, InsertKey, Head1, IsSet
<1>2. /\ Tidy(wfp) /\ Clean(wfp) /\ IsLine(Line) /\ Tidy(Line) /\ Tidy(r)
      /\ Tidy(wfp \o Line) /\ Tidy((wfp \o Line) \o r)
      /\ wfp \o rfp = (wfp \o Line) \o r
      /\ rfp = Line \o r /\ rfp' = r
      /\ (r # <<>> => Clean(Line))
  BY <1>1, Reading
<1>3. Tidy(Header) /\ Clean(Header)
  BY Given DEF TypeInv, TypeOK
<1>4. /\ wfp \in Content /\ Header \in Content /\ Line \in Content /\ r \in Content
  BY <1>2, <1>3 DEF Tidy
<1>5. Tidy(h) /\ Clean(h)
  <2>1. Tidy(h)
    BY <1>2, <1>3, TidyJoined
  <2>2. Header = <<>> => h = wfp
    BY <1>4, EmptyJoined
  <2>3. Header # <<>> => Clean(h)
    BY <1>3, <1>4, CleanJoined
  <2> QED
    BY <1>2, <2>1, <2>2, <2>3
<1>6. Open(h, S) /\ Kept(h \o rfp)
  BY DEF EraseInv
<1>7. \A s, k : Same((wfp \o (<<>> \o Copied)) \o r, (wfp \o Line) \o r, s, k)
  BY <1>1, <1>2, Copying
<1>8. \A s, k : ini_gets(h, s, k) = ini_gets(wfp, s, k)
  BY <1>2, <1>3, <1>5, HeaderIs, AtEnd
<1> HIDE DEF r
<1>9. \A s : SameName(s, S) \/ (~Open(h, s) /\ (Entered(h, s) <=> Entered(wfp, s)))
  <2> SUFFICES ASSUME NEW s, ~SameName(s, S) PROVE ~Open(h, s) /\ (Entered(h, s) <=> Entered(wfp, s))
    OBVIOUS
  <2>1. ~Open(h, s)
    BY <1>5, <1>6, OneOpen DEF Tidy
  <2>2. ~Entered(Header, s) \/ s = NoName
    BY HeaderIs
  <2>3. s = NoName => Entered(wfp, s)
    BY DEF Entered
  <2> QED
    BY <1>4, <2>1, <2>2, <2>3, EnteredJoined
<1> HIDE DEF h
<1>10. /\ Tidy(h \o Line) /\ Tidy((h \o Line) \o r) /\ h \in Content
  <2>1. Tidy(h \o Line)
    BY <1>2, <1>5, TidyJoined
  <2>2. h \in Content
    BY <1>5 DEF Tidy
  <2>3. r # <<>> => Clean(h \o Line)
    BY <1>2, <1>4, <1>5, <2>2, CleanJoined
  <2>4. Tidy((h \o Line) \o r)
    BY <1>2, <2>1, <2>3, TidyJoined
  <2> QED
    BY <2>1, <2>2, <2>4
<1>11. h \o rfp = (h \o Line) \o r
  <2>1. h \in Content /\ Line \in Content /\ r \in Content
    BY <1>4, <1>10
  <2>2. (h \o Line) \o r = h \o (Line \o r)
    BY <2>1, Associative, Zenon
  <2> QED
    BY <1>2, <2>2, Zenon
<1>12. ASSUME NEW s \in Names, NEW k \in Names, ~SameName(s, S)
       PROVE  Same(h \o Line, wfp \o Line, s, k)
  <2>1. ~Open(h, s) /\ (Entered(h, s) <=> Entered(wfp, s))
    BY <1>9, <1>12
  <2>2. /\ ~Open(Line, NoName) /\ ini_gets(Line, NoName, k) = Null /\ ini_gets(Line, s, k) = Null
    BY <1>1, <1>2, OfLine
  <2>3. Entered(h \o Line, s) <=> Entered(wfp \o Line, s)
    BY <1>4, <1>10, <2>1, EnteredJoined
  <2>4. Open(h \o Line, s) <=> Open(wfp \o Line, s)
    <3>1. Open(h \o Line, s) <=> ~Entered(wfp, s) /\ Open(Line, s)
      BY <1>4, <1>10, <2>1, <2>2, OpenJoined
    <3>2. Open(wfp \o Line, s) <=> ~Entered(wfp, s) /\ Open(Line, s)
      BY <1>4, <2>2, OpenJoined
    <3> QED
      BY <3>1, <3>2
  <2>5. ini_gets(h \o Line, s, k) = ini_gets(h, s, k)
    BY <1>2, <1>5, <1>10, <2>2, AtEnd
  <2>6. ini_gets(wfp \o Line, s, k) = ini_gets(wfp, s, k)
    BY <1>2, <2>2, AtEnd
  <2> QED
    BY <1>8, <2>3, <2>4, <2>5, <2>6 DEF Same
<1>13. ASSUME NEW s \in Names, NEW k \in Names, ~Changed(s, k)
       PROVE  ini_gets((wfp \o (<<>> \o Copied)) \o r, s, k) = ini_gets(h \o rfp, s, k)
  <2>1. ~SameName(s, S)
    BY <1>13 DEF Changed
  <2>2. Same(h \o Line, wfp \o Line, s, k) /\ Alike(r, r, s, k)
    BY <1>12, <2>1, SameTrivial
  <2>3. Same((h \o Line) \o r, (wfp \o Line) \o r, s, k)
    BY <1>2, <1>10, <2>2, SameJoined
  <2> QED
    BY <1>7, <1>11, <2>3 DEF Same
<1>14. Kept((wfp \o (<<>> \o Copied)) \o r)
  BY <1>6, <1>13 DEF Kept
<1>15. Kept(wfp' \o rfp')
  BY <1>1, <1>2, <1>14
<1> QED
  BY <1>1, <1>15, GoodIs DEF KeptAll


-----------------------------------------------------------------------------
(* Every line that is copied keeps what was promised.                      *)
LEMMA Copies ==
  ASSUME TypeInv, TypeInv', PlainKeys, Promised,
         CopySection \/ AppendSection \/ AppendKey \/ CopyKey \/ ReplaceKey \/ NextSection \/ CopyRest
  PROVE  /\ pc \in {"section", "key", "rest"} /\ pc' \in {"section", "key", "rest", "close"}
         /\ UNCHANGED <<disk, req, ret, puts, before, full>>
         /\ Promised'
<1>1. CASE CopySection
  <2>1. pc = "section" /\ pc' \in {"section", "key"} /\ UNCHANGED <<disk, req, ret, puts, before, full>>
    BY <1>1 DEF CopySection
  <2>2. SectionInv
    BY <2>1 DEF Promised
  <2>3. /\ pc' = "section" => SectionInv'
        /\ pc' = "key" /\ req.key # Null => KeyInv'
        /\ pc' = "key" /\ req.key = Null => EraseInv'
    BY <1>1, <2>2, SearchSection
  <2> QED
    BY <2>1, <2>3 DEF Promised
<1>2. CASE AppendSection
  <2>1. pc = "section" /\ pc' = "close" /\ UNCHANGED <<disk, req, ret, puts, before, full>>
    BY <1>2 DEF AppendSection
  <2>2. SectionInv
    BY <2>1 DEF Promised
  <2>3. Good(wfp')
    BY <1>2, <2>2, SectionAdded
  <2>4. Good(wfp)'
    BY <2>1, <2>3, Stays
  <2> QED
    BY <2>1, <2>4 DEF Promised
<1>3. CASE AppendKey
  <2>1. pc = "key" /\ pc' = "close" /\ UNCHANGED <<disk, req, ret, puts, before, full>>
    BY <1>3 DEF AppendKey
  <2>2. IF req.key = Null THEN EraseInv ELSE KeyInv
    BY <2>1 DEF Promised
  <2>3. Good(wfp')
    BY <1>3, <2>2, KeyAdded, EraseEnds
  <2>4. Good(wfp)'
    BY <2>1, <2>3, Stays
  <2> QED
    BY <2>1, <2>4 DEF Promised
<1>4. CASE CopyKey
  <2>1. pc = "key" /\ pc' = "key" /\ UNCHANGED <<disk, req, ret, puts, before, full>>
    BY <1>4 DEF CopyKey
  <2>2. IF req.key = Null THEN EraseInv ELSE KeyInv
    BY <2>1 DEF Promised
  <2>3. IF req.key = Null THEN EraseInv' ELSE KeyInv'
    BY <1>4, <2>2, SearchKey, Erased
  <2> QED
    BY <2>1, <2>3 DEF Promised
<1>5. CASE ReplaceKey
  <2>1. pc = "key" /\ pc' = "rest" /\ UNCHANGED <<disk, req, ret, puts, before, full>>
    BY <1>5 DEF ReplaceKey
  <2>2. req.key # Null
    BY <1>5, LineMatches DEF ReplaceKey, IsKey
  <2>3. KeyInv
    BY <2>1, <2>2 DEF Promised
  <2>4. Good(wfp' \o rfp')
    BY <1>5, <2>3, KeyReplaced
  <2>5. Good(wfp \o rfp)'
    BY <2>1, <2>4, Stays
  <2> QED
    BY <2>1, <2>5 DEF Promised
<1>6. CASE NextSection
  <2>1. pc = "key" /\ pc' = "rest" /\ UNCHANGED <<disk, req, ret, puts, before, full>>
    BY <1>6 DEF NextSection
  <2>2. IF req.key = Null THEN EraseInv ELSE KeyInv
    BY <2>1 DEF Promised
  <2>3. Good(wfp' \o rfp')
    BY <1>6, <2>2, KeyInserted, NextKept
  <2>4. Good(wfp \o rfp)'
    BY <2>1, <2>3, Stays
  <2> QED
    BY <2>1, <2>4 DEF Promised
<1>7. CASE CopyRest
  <2>1. pc = "rest" /\ pc' = "rest" /\ UNCHANGED <<disk, req, ret, puts, before, full>>
    BY <1>7 DEF CopyRest
  <2>2. Good(wfp \o rfp)
    BY <2>1 DEF Promised
  <2>3. Good(wfp' \o rfp')
    BY <1>7, <2>2, CopyingRest
  <2>4. Good(wfp \o rfp)'
    BY <2>1, <2>3, Stays
  <2> QED
    BY <2>1, <2>4 DEF Promised
<1> QED
  BY <1>1, <1>2, <1>3, <1>4, <1>5, <1>6, <1>7

(* The call begins to copy.                                                *)
LEMMA CopyBegins ==
  ASSUME TypeInv, TypeInv', OpenTemp, Distinct, disk = before
  PROVE  CopyInv' /\ pc' \in {"section", "key"} /\ UNCHANGED <<req, before, full>>
         /\ disk'[File] = disk[File]
<1> DEFINE S == req.section
           K == req.key
<1>1. /\ disk[File] # Absent /\ disk' = [disk EXCEPT ![Temp] = <<>>]
      /\ rfp' \in {disk[File], disk'[File]} /\ wfp' = <<>>
      /\ pc' = IF S = NoName THEN "key" ELSE "section"
      /\ UNCHANGED <<req, before, full>>
  BY DEF OpenTemp, TypeInv
<1>2. disk \in [Files -> Content \cup {Absent}] /\ File \in Files /\ Temp \in Files /\ Temp # File
      /\ Tidy(disk[File])
  BY <1>1, Given DEF TypeInv, TypeOK, Distinct, Temp
<1>3. disk'[File] = disk[File] /\ rfp' = before[File]
  BY <1>1, <1>2
<1>4. Old = before[File] /\ Old \in Content /\ Tidy(Old) /\ before[File] # Absent
  BY <1>1, <1>2 DEF Old, Tidy
<1>5. wfp' \o rfp' = Old /\ rfp' = Old
  BY <1>1, <1>3, <1>4, EmptyJoined
<1>6. KeptAll(Old)
  BY <1>4, RemarksSame DEF KeptAll, Kept
<1>7. ~Twice => Single(Old, S, K)
  BY <1>4, NotTwice DEF Twice
<1>8. CASE S # NoName
  <2>1. ~Entered(wfp', S)
    BY <1>1, <1>8, OfEmpty
  <2>2. pc' = "section"
    BY <1>1, <1>8
  <2>3. SectionInv'
    BY <1>1, <1>5, <1>6, <1>7, <1>8, <2>1, Stays DEF SectionInv
  <2>4. Promised'
    BY <2>2, <2>3 DEF Promised
  <2> QED
    BY <1>1, <1>3, <1>4, <2>2, <2>4, Stays DEF CopyInv
<1>9. CASE S = NoName
  <2>1. Open(wfp', S) /\ ini_gets(wfp', S, K) = Null /\ Clean(wfp')
    BY <1>1, <1>9, OfEmpty, EmptyTidy
  <2>2. pc' = "key"
    BY <1>1, <1>9
  <2>3. CASE K # Null
    <3>1. KeyInv'
      BY <1>1, <1>5, <1>6, <1>7, <1>9, <2>1, Stays DEF KeyInv
    <3>2. Promised'
      BY <1>1, <2>2, <2>3, <3>1 DEF Promised
    <3> QED
      BY <1>1, <1>3, <1>4, <2>2, <3>2, Stays DEF CopyInv
  <2>4. CASE K = Null
    <3>1. Header = <<>> /\ wfp' \o <<>> = wfp'
      BY <1>1, <1>9, EmptyTidy, EmptyJoined DEF Header, Tidy
    <3>2. Kept((wfp' \o Header) \o rfp') /\ Open(wfp' \o Header, S)
      BY <1>5, <1>6, <2>1, <3>1 DEF KeptAll
    <3>3. EraseInv'
      BY <1>1, <2>1, <3>2, Stays DEF EraseInv
    <3>4. Promised'
      BY <1>1, <2>2, <2>4, <3>3 DEF Promised
    <3> QED
      BY <1>1, <1>3, <1>4, <2>2, <3>4, Stays DEF CopyInv
  <2> QED
    BY <2>3, <2>4
<1> QED
  BY <1>1, <1>3, <1>8, <1>9


LEMMA NewIsGood ==
  ASSUME TypeInv, PlainKeys, before[File] = Absent, IsSet
  PROVE  Good(Header \o Added)
<1>1. Old = <<>> /\ <<>> \in Content
  BY EmptyTidy DEF Old, Tidy
<1>2. KeptAll(<<>>)
  BY <1>1, RemarksSame DEF KeptAll, Kept
<1>3. /\ SameRemarks(Header \o Added, <<>>)
      /\ \A s, k \in Names : ~Changed(s, k) => ini_gets(Header \o Added, s, k) = Null
      /\ ini_gets(Header \o Added, req.section, req.key) = Read[req.value]
  BY WrittenAnew
<1>4. KeptAll(Header \o Added)
  <2>1. \A s, k : ini_gets(<<>>, s, k) = Null
    BY OfEmpty
  <2> QED
    BY <1>2, <1>3, <2>1, KeptBy
<1> QED
  BY <1>3, <1>4, GoodIs

(* The file already says it.                                               *)
LEMMA BailIsGood ==
  ASSUME TypeInv, Bail, disk = before
  PROVE  Good(disk[File])
<1>1. /\ disk[File] # Absent /\ IsSet /\ ini_gets(disk[File], req.section, req.key) = req.value
  BY DEF Bail
<1>2. File \in Files /\ Tidy(disk[File])
  BY <1>1, Given DEF TypeInv, TypeOK
<1>3. Old = disk[File] /\ Old \in Content
  BY <1>1, <1>2 DEF Old, Tidy
<1>4. KeptAll(Old)
  BY <1>3, RemarksSame DEF KeptAll, Kept
<1>5. Read[req.value] = req.value
  <2>1. ini_gets(disk[File], req.section, req.key) # Null
    BY <1>1 DEF IsSet
  <2> QED
    BY <1>1, <1>2, <2>1, GetsIs
<1> QED
  BY <1>1, <1>3, <1>4, <1>5, GoodIs

LEMMA IniFirst == ASSUME Init PROVE IniInv
<1>1. TypeInv /\ pc = "idle" /\ before = disk
  BY TypesFirst DEF Init
<1>2. \A f \in Files : before[f] = Absent \/ Tidy(before[f])
  BY <1>1 DEF TypeInv, TypeOK
<1>3. Stores /\ NeverInPart
  BY <1>1 DEF Stores, OthersUntouched, NeverInPart
<1> QED
  BY <1>1, <1>2, <1>3 DEF IniInv, Working

(* A step that neither calls nor touches the disk.                         *)
LEMMA SameDisk ==
  ASSUME IniInv, TypeInv', UNCHANGED <<disk, req, before>>, pc' # "returned",
         NeverInPart', pc' \in Working /\ Distinct => CopyInv',
         pc' = "open" => pc = "open", pc' # "closenew"
  PROVE  IniInv'
<1>2. Stores'
  BY StaysOthers DEF IniInv, Stores
<1>3. pc' \in Working /\ Distinct' => CopyInv'
  BY Stays
<1> QED
  BY <1>2, <1>3 DEF IniInv

LEMMA IniStep == ASSUME IniInv, PlainKeys, [Next]_vars PROVE IniInv'
<1>1. TypeInv /\ TypeInv' /\ req \in Requests
  BY TypesStep DEF IniInv, TypeInv, TypeOK
<1>2. /\ disk \in [Files -> Content \cup {Absent}] /\ File \in Files /\ Temp \in Files
      /\ Absent \notin Content
  BY <1>1, Given, ContentsAssumption DEF TypeInv, TypeOK
<1>3. /\ \A f \in Files : before[f] = Absent \/ Tidy(before[f])
      /\ OthersUntouched
  BY DEF IniInv, Stores
<1>4. Distinct <=> Temp # File
  BY DEF Distinct, Temp
<1>5. CASE Call
  <2>1. pc' = "open" /\ before' = disk /\ disk' = disk
    BY <1>5 DEF Call
  <2>2. \A f \in Files : disk[f] = Absent \/ Tidy(disk[f])
    BY <1>1 DEF TypeInv, TypeOK
  <2>3. NeverInPart'
    BY <2>1 DEF NeverInPart
  <2>4. Stores'
    BY <2>1 DEF Stores, OthersUntouched
  <2> QED
    BY <1>1, <2>1, <2>2, <2>3, <2>4 DEF IniInv, Working
<1>6. CASE Create
  <2>1. pc = "open" /\ disk = before /\ disk[File] = Absent /\ UNCHANGED <<req, before, full>>
    BY <1>6 DEF Create, IniInv
  <2>2. CASE IsSet
    <3>1. /\ pc' = "closenew" /\ wfp' = Header \o Added
          /\ disk' = [disk EXCEPT ![File] = <<>>]
      BY <1>6, <2>2 DEF Create
    <3>2. disk'[File] = <<>> /\ \A f \in Files : f # File => disk'[f] = disk[f]
      BY <1>2, <3>1
    <3>3. Stores'
      BY <1>3, <2>1, <3>1, <3>2, StaysOthers DEF Stores
    <3>4. Good(wfp)'
      BY <1>1, <2>1, <2>2, <3>1, NewIsGood, Stays
    <3>5. Begun(disk[File])'
      <4>1. Tidy(wfp') /\ Len(wfp') \in Nat
        BY <1>1 DEF TypeInv, TypeOK, Tidy, Content
      <4>2. SubSeq(wfp', 1, 0) = <<>> /\ 0 \in 0 .. Len(wfp')
        BY <4>1 DEF Tidy, Content
      <4>3. <<>> \in Flushed'
        BY <4>2 DEF Flushed
      <4>4. disk'[File'] = <<>>
        BY <2>1, <3>2, Stays
      <4> QED
        BY <3>4, <4>3, <4>4 DEF Begun
    <3>6. NeverInPart'
      <4>1. before'[File'] = Absent
        BY <2>1, Stays
      <4>2. disk'[File'] # Absent
        BY <1>2, <2>1, <3>2, EmptyTidy, Stays DEF Tidy
      <4> QED
        BY <3>5, <4>1, <4>2 DEF NeverInPart
    <3> QED
      BY <1>1, <1>3, <2>1, <2>2, <3>1, <3>3, <3>6, Stays DEF IniInv, Working
  <2>3. CASE ~IsSet
    <3>1. pc' = "returned" /\ disk' = disk /\ ret' = 1
      BY <1>6, <2>3 DEF Create, Return
    <3>2. NeverInPart'
      BY <2>1, <3>1, AsItWas
    <3>3. OthersUntouched'
      BY <1>3, <2>1, <3>1, StaysOthers
    <3>4. disk'[File'] = Absent /\ before'[File'] = Absent /\ ~IsSet'
      BY <2>1, <2>3, <3>1, Stays
    <3>5. Stores'
      BY <3>1, <3>3, <3>4 DEF Stores
    <3> QED
      BY <1>1, <1>3, <2>1, <3>1, <3>2, <3>5 DEF IniInv, Working
  <2> QED
    BY <2>2, <2>3
<1>7. CASE Bail
  <2>1. pc = "open" /\ disk = before /\ UNCHANGED <<disk, req, before, full>> /\ pc' = "returned"
        /\ disk[File] # Absent /\ ret' = 1
    BY <1>7 DEF Bail, Return, IniInv
  <2>2. Good(disk[File])
    BY <1>1, <1>7, <2>1, BailIsGood
  <2>3. Good(disk[File])'
    BY <2>1, <2>2, Stays
  <2>4. Stores'
    <3>1. OthersUntouched'
      BY <1>3, <2>1, StaysOthers
    <3>2. disk'[File'] # Absent
      BY <2>1, Stays
    <3> QED
      BY <2>1, <2>3, <3>1, <3>2 DEF Stores
  <2>5. NeverInPart'
    BY <2>1, AsItWas
  <2> QED
    BY <1>1, <1>3, <2>1, <2>4, <2>5 DEF IniInv, Working
<1>8. CASE OpenTemp
  <2>1. /\ pc = "open" /\ disk = before /\ UNCHANGED <<req, before, full>> /\ pc' \in {"key", "section"}
        /\ disk' = [disk EXCEPT ![Temp] = <<>>]
    BY <1>8 DEF OpenTemp, IniInv
  <2>2. Distinct => CopyInv' /\ disk'[File] = disk[File]
    BY <1>1, <1>8, <2>1, CopyBegins
  <2>3. NeverInPart'
    BY <2>1, <2>2, AsItWas
  <2>4. \A f \in Files : f # Temp => disk'[f] = disk[f]
    BY <1>2, <2>1
  <2>5. Stores'
    BY <1>3, <2>1, <2>4, StaysOthers DEF Stores
  <2> QED
    BY <1>1, <1>3, <2>1, <2>2, <2>3, <2>5, Stays DEF IniInv
<1>9. CASE OpenFails
  <2>1. UNCHANGED <<disk, req, wfp, before, full>> /\ pc' = "returned" /\ ret' = 0 /\ disk = before
    BY <1>9 DEF OpenFails, Return, IniInv
  <2>2. NeverInPart'
    BY <2>1, AsItWas
  <2>3. Stores'
    <3>1. OthersUntouched'
      BY <1>3, <2>1, StaysOthers
    <3> QED
      BY <2>1, <3>1 DEF Stores
  <2> QED
    BY <1>1, <1>3, <2>1, <2>2, <2>3 DEF IniInv, Working
<1>10. CASE CopySection \/ AppendSection \/ AppendKey \/ CopyKey \/ ReplaceKey \/ NextSection \/ CopyRest
  <2>1. /\ pc \in {"section", "key", "rest"} /\ pc' \in {"section", "key", "rest", "close"}
        /\ UNCHANGED <<disk, req, ret, puts, before, full>>
    BY <1>10 DEF CopySection, AppendSection, AppendKey, CopyKey, ReplaceKey, NextSection, CopyRest
  <2>2. Distinct => CopyInv
    BY <2>1 DEF IniInv, Working
  <2>3. Distinct => CopyInv'
    <3> SUFFICES ASSUME Distinct PROVE CopyInv'
      OBVIOUS
    <3>1. Promised'
      BY <1>1, <1>10, <2>2, Copies DEF CopyInv
    <3> QED
      BY <2>1, <2>2, <3>1, Stays DEF CopyInv
  <2>4. NeverInPart'
    <3>1. Distinct => disk'[File] = before[File]
      BY <2>1, <2>2 DEF CopyInv
    <3> QED
      BY <2>1, <3>1, AsItWas
  <2> QED
    BY <1>1, <2>1, <2>3, <2>4, SameDisk
<1>11. CASE CloseNew
  <2>1. /\ pc = "closenew" /\ Closed(File) /\ pc' = "returned" /\ ret' = 1
        /\ UNCHANGED <<req, before, wfp>>
        /\ before[File] = Absent /\ IsSet /\ wfp = Header \o Added
    BY <1>11 DEF CloseNew, Return, IniInv
  <2>2. /\ disk'[File] # Absent /\ disk'[File] \in Flushed
        /\ full' \/ disk'[File] = wfp
        /\ \A g \in Files : g # File => disk'[g] = disk[g]
    BY <1>1, <1>2, <2>1, ClosedTypes DEF TypeInv
  <2>3. Good(wfp)
    BY <1>1, <2>1, NewIsGood
  <2>4. Begun(disk[File])'
    <3>1. Begun(disk'[File])
      BY <2>2, <2>3 DEF Begun
    <3> QED
      BY <2>1, <3>1, Stays, StaysBegun
  <2>5. full' \/ Good(disk[File])'
    BY <2>1, <2>2, <2>3, Stays
  <2>6. disk'[File'] # Absent /\ before'[File'] = Absent
    BY <2>1, <2>2, Stays
  <2>7. NeverInPart'
    BY <2>4, <2>6 DEF NeverInPart
  <2>8. Stores'
    <3>1. OthersUntouched'
      BY <1>3, <2>1, <2>2, StaysOthers
    <3> QED
      BY <2>1, <2>4, <2>5, <2>6, <3>1 DEF Stores
  <2> QED
    BY <1>1, <1>3, <2>1, <2>7, <2>8 DEF IniInv, Working
<1>12. CASE Close
  <2>1. /\ pc = "close" \/ (pc = "rest" /\ rfp = <<>>)
        /\ Closed(Temp) /\ pc' = "remove" /\ UNCHANGED <<req, before, wfp>>
    BY <1>12 DEF Close
  <2>2. /\ \A g \in Files : g # Temp => disk'[g] = disk[g]
        /\ full' \/ disk'[Temp] = wfp
        /\ disk'[Temp] \in Flushed
    BY <1>1, <1>2, <2>1, ClosedTypes DEF TypeInv
  <2>3. Distinct => CopyInv
    BY <2>1 DEF IniInv, Working
  <2>4. Distinct => disk'[File] = before[File] /\ before[File] # Absent
    <3>1. pc # "rename"
      BY <2>1
    <3> QED
      BY <1>2, <1>4, <2>2, <2>3, <3>1 DEF CopyInv
  <2>5. Distinct => Good(wfp)
    <3>1. CASE pc = "close"
      BY <2>3, <3>1 DEF CopyInv, Promised
    <3>2. CASE pc = "rest" /\ rfp = <<>>
      <4>1. wfp \o rfp = wfp
        BY <1>1, <3>2, EmptyJoined DEF TypeInv, TypeOK, Tidy
      <4> QED
        BY <2>3, <3>2, <4>1 DEF CopyInv, Promised
    <3> QED
      BY <2>1, <3>1, <3>2
  <2>6. Distinct => Left(disk[Temp])'
    <3> SUFFICES ASSUME Distinct PROVE Left(disk[Temp])'
      OBVIOUS
    <3>1. Begun(disk'[Temp])
      BY <2>2, <2>5 DEF Begun
    <3>2. Begun(disk[Temp])'
      BY <2>1, <3>1, Stays, StaysBegun
    <3>3. full' \/ Good(disk[Temp])'
      BY <2>1, <2>2, <2>5, Stays
    <3> QED
      BY <3>2, <3>3 DEF Left
  <2>7. Distinct => CopyInv'
    <3> SUFFICES ASSUME Distinct PROVE CopyInv'
      OBVIOUS
    <3>1. Promised'
      BY <2>1, <2>6 DEF Promised
    <3> QED
      BY <2>1, <2>4, <3>1, Stays DEF CopyInv
  <2>8. NeverInPart'
    BY <2>1, <2>4, AsItWas
  <2>9. Stores'
    BY <1>3, <2>1, <2>2, StaysOthers DEF Stores
  <2> QED
    BY <1>1, <1>3, <2>1, <2>7, <2>8, <2>9, Stays DEF IniInv
<1>13. CASE RemoveOld
  <2>1. pc = "remove" /\ pc' = "rename" /\ disk' = [disk EXCEPT ![File] = Absent]
        /\ UNCHANGED <<req, wfp, before, full>>
    BY <1>13 DEF RemoveOld, Removed
  <2>2. Distinct => CopyInv
    BY <2>1 DEF IniInv, Working
  <2>3. /\ disk'[File] = Absent /\ (Distinct => disk'[Temp] = disk[Temp])
        /\ \A g \in Files : g # File => disk'[g] = disk[g]
    BY <1>2, <1>4, <2>1
  <2>4. Distinct => disk[Temp] # Absent /\ Left(disk[Temp])
    BY <1>1, <2>1, <2>2 DEF TypeInv, CopyInv, Promised
  <2>5. Distinct => Left(disk[Temp])'
    <3> SUFFICES ASSUME Distinct PROVE Left(disk[Temp])'
      OBVIOUS
    <3>1. CASE Good(disk[Temp])
      <4>1. Good(disk[Temp])'
        BY <2>1, <2>3, <3>1, Stays
      <4> QED
        BY <4>1 DEF Left
    <3>2. CASE full /\ Begun(disk[Temp])
      <4>1. full' /\ Begun(disk[Temp])'
        BY <2>1, <2>3, <3>2, Stays, StaysBegun
      <4> QED
        BY <4>1 DEF Left
    <3> QED
      BY <2>4, <3>1, <3>2 DEF Left
  <2>6. Distinct => CopyInv'
    <3> SUFFICES ASSUME Distinct PROVE CopyInv'
      OBVIOUS
    <3>1. Promised'
      BY <2>1, <2>5 DEF Promised
    <3> QED
      BY <2>1, <2>2, <2>3, <3>1, Stays DEF CopyInv
  <2>7. NeverInPart'
    <3> SUFFICES ASSUME Distinct' PROVE NeverInPart'
      BY DEF NeverInPart
    <3>1. Distinct /\ disk'[File'] = Absent /\ disk'[Temp'] # Absent
      BY <2>1, <2>3, <2>4, Stays
    <3> QED
      BY <2>5, <3>1 DEF Left, NeverInPart
  <2>8. Stores'
    BY <1>3, <2>1, <2>3, StaysOthers DEF Stores
  <2> QED
    BY <1>1, <1>3, <2>1, <2>6, <2>7, <2>8, Stays DEF IniInv
<1>14. CASE Rename
  <2>1. /\ pc = "rename" /\ pc' = "returned" /\ ret' = 1 /\ UNCHANGED <<req, wfp, before, full>>
        /\ disk' = IF disk[Temp] = Absent THEN disk
                   ELSE [disk EXCEPT ![File] = disk[Temp], ![Temp] = Absent]
    BY <1>14 DEF Rename, Return
  <2>2. Distinct => CopyInv /\ disk[Temp] # Absent
    BY <1>1, <2>1 DEF IniInv, Working, TypeInv
  <2>3. /\ Distinct => disk'[File] = disk[Temp]
        /\ \A g \in Files : g # File /\ g # Temp => disk'[g] = disk[g]
    BY <1>2, <1>4, <2>1, <2>2
  <2>4. Distinct => Left(disk[Temp])
    BY <2>1, <2>2 DEF CopyInv, Promised
  <2>5. Distinct => Left(disk[File])'
    <3> SUFFICES ASSUME Distinct PROVE Left(disk[File])'
      OBVIOUS
    <3>1. CASE Good(disk[Temp])
      <4>1. Good(disk[File])'
        BY <2>1, <2>3, <3>1, Stays
      <4> QED
        BY <4>1 DEF Left
    <3>2. CASE full /\ Begun(disk[Temp])
      <4>1. full' /\ Begun(disk[File])'
        BY <2>1, <2>3, <3>2, Stays, StaysBegun
      <4> QED
        BY <4>1 DEF Left
    <3> QED
      BY <2>4, <3>1, <3>2 DEF Left
  <2>6. Distinct' => Distinct /\ disk'[File'] # Absent
    BY <2>1, <2>2, <2>3, Stays
  <2>7. NeverInPart'
    BY <2>5, <2>6 DEF Left, NeverInPart
  <2>8. Stores'
    <3>1. OthersUntouched'
      BY <1>3, <2>1, <2>3, StaysOthers
    <3> QED
      BY <2>1, <2>5, <2>6, <3>1 DEF Left, Stores
  <2> QED
    BY <1>1, <1>3, <2>1, <2>7, <2>8 DEF IniInv, Working
<1>15. CASE Die
  <2>1. pc' = "idle" /\ UNCHANGED <<req, wfp, before, full>>
    BY <1>15 DEF Die
  <2>2. CASE pc = "closenew"
    <3>1. PICK d \in Flushed : Written(File, d)
      BY <1>15, <2>2 DEF Die
    <3>2. disk'[File] = d /\ d # Absent /\ \A g \in Files : g # File => disk'[g] = disk[g]
      BY <1>1, <1>2, <3>1, WrittenTypes DEF TypeInv
    <3>3. before[File] = Absent /\ Good(wfp)
      BY <1>1, <2>2, NewIsGood DEF IniInv
    <3>4. Begun(disk[File])'
      <4>1. Begun(disk'[File])
        BY <3>2, <3>3 DEF Begun
      <4> QED
        BY <2>1, <4>1, Stays, StaysBegun
    <3>5. NeverInPart'
      <4>1. disk'[File'] # Absent /\ before'[File'] = Absent
        BY <2>1, <3>2, <3>3, Stays
      <4> QED
        BY <3>4, <4>1 DEF NeverInPart
    <3>6. Stores'
      BY <1>3, <2>1, <3>2, StaysOthers DEF Stores
    <3> QED
      BY <1>1, <1>3, <2>1, <3>5, <3>6 DEF IniInv, Working
  <2>3. CASE pc \in {"section", "key", "rest", "close"}
    <3>1. PICK d \in Flushed : Written(Temp, d)
      BY <1>15, <2>3 DEF Die
    <3>2. \A g \in Files : g # Temp => disk'[g] = disk[g]
      BY <1>1, <1>2, <3>1, WrittenTypes DEF TypeInv
    <3>3. Distinct => disk[File] = before[File]
      BY <2>3 DEF IniInv, Working, CopyInv
    <3>4. NeverInPart'
      BY <1>2, <1>4, <2>1, <3>2, <3>3, AsItWas
    <3>5. Stores'
      BY <1>3, <2>1, <3>2, StaysOthers DEF Stores
    <3> QED
      BY <1>1, <1>3, <2>1, <3>4, <3>5 DEF IniInv, Working
  <2>4. CASE pc \notin {"closenew", "section", "key", "rest", "close"}
    <3>1. disk' = disk
      BY <1>15, <2>4 DEF Die
    <3>2. NeverInPart'
      BY <2>1, <3>1, StaysWhole DEF IniInv
    <3>3. Stores'
      BY <1>3, <2>1, <3>1, StaysOthers DEF Stores
    <3> QED
      BY <1>1, <1>3, <2>1, <3>2, <3>3 DEF IniInv, Working
  <2> QED
    BY <2>2, <2>3, <2>4
<1>16. CASE UNCHANGED vars
  <2>1. UNCHANGED <<disk, pc, req, rfp, wfp, ret, before, full>>
    BY <1>16 DEF vars
  <2>2. SectionInv' <=> SectionInv
    BY <2>1, Stays DEF SectionInv
  <2>3. KeyInv' <=> KeyInv
    BY <2>1, Stays DEF KeyInv
  <2>4. EraseInv' <=> EraseInv
    BY <2>1, Stays DEF EraseInv
  <2>5. Left(disk[Temp])' <=> Left(disk[Temp])
    <3>1. Good(disk[Temp])' <=> Good(disk[Temp])
      BY <2>1, Stays
    <3>2. Begun(disk[Temp])' <=> Begun(disk[Temp])
      BY <2>1, Stays, StaysBegun
    <3> QED
      BY <2>1, <3>1, <3>2 DEF Left
  <2>6. Promised' <=> Promised
    BY <2>1, <2>2, <2>3, <2>4, <2>5, Stays DEF Promised
  <2>7. CopyInv' <=> CopyInv
    BY <2>1, <2>6, Stays DEF CopyInv
  <2>8. NeverInPart'
    BY <2>1, StaysWhole DEF IniInv
  <2>9. Stores'
    <3>1. OthersUntouched'
      BY <1>3, <2>1, StaysOthers
    <3>2. Good(disk[File])' <=> Good(disk[File])
      BY <2>1, Stays
    <3>3. Begun(disk[File])' <=> Begun(disk[File])
      BY <2>1, Stays, StaysBegun
    <3>4. File' = File /\ (Distinct' <=> Distinct) /\ (IsSet' <=> IsSet)
      BY <2>1, Stays
    <3> QED
      BY <2>1, <3>1, <3>2, <3>3, <3>4 DEF IniInv, Stores
  <2> QED
    BY <1>1, <2>1, <2>7, <2>8, <2>9, Stays DEF IniInv
<1> QED
  BY <1>5, <1>6, <1>7, <1>8, <1>9, <1>10, <1>11, <1>12, <1>13, <1>14, <1>15, <1>16 DEF Next

(* No call touches a file but its own and the temporary one, and one that  *)
(* returns 0 has changed nothing.  One that returns 1 has left the value,  *)
(* and every other one as it was, whatever the file was; if the disk was   *)
(* full, which it does not notice, a beginning of that.                    *)
THEOREM StoresCorrect == PlainKeys => (Spec => []Stores)
<1> SUFFICES ASSUME PlainKeys PROVE Spec => []Stores
  OBVIOUS
<1>1. Init => IniInv
  BY IniFirst
<1>2. IniInv /\ [Next]_vars => IniInv'
  BY IniStep
<1>3. IniInv => Stores
  BY DEF IniInv
<1> QED
  BY <1>1, <1>2, <1>3, PTL DEF Spec

(* Wherever the process dies, in the middle of a write too, the file is as *)
(* it was, or all the call makes of it, or missing and whole under the     *)
(* temporary name; a part, which is a beginning of it, is there only if    *)
(* the disk was full or there was no such file before.                     *)
THEOREM NeverInPartCorrect == PlainKeys => (Spec => []NeverInPart)
<1> SUFFICES ASSUME PlainKeys PROVE Spec => []NeverInPart
  OBVIOUS
<1>1. Init => IniInv
  BY IniFirst
<1>2. IniInv /\ [Next]_vars => IniInv'
  BY IniStep
<1>3. IniInv => NeverInPart
  BY DEF IniInv
<1> QED
  BY <1>1, <1>2, <1>3, PTL DEF Spec

=============================================================================
