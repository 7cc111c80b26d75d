------------------------ MODULE FlashcartToolsProofs ------------------------
(***************************************************************************)
(* Proofs about the tools for flash cartridges: for every database, every  *)
(* game and every pair of strings, what patches bytes does all of what it  *)
(* is to do or nothing (BytePatchers); and a driver in homebrew has every  *)
(* pointer moved once, and changes nothing outside of its room (Dldi).     *)
(***************************************************************************)
EXTENDS FlashcartTools, SequenceTheorems, WellFoundedInduction, TLAPS

-----------------------------------------------------------------------------
(* A set of numbers has a least one.                                       *)
LEMMA Least == ASSUME NEW T \in SUBSET Nat, T # {} PROVE \E x \in T : \A y \in T : x <= y
<1>1. \E x \in T : \A y \in T : ~ (<<y, x>> \in OpToRel(<, Nat))
  BY WFMin, NatLessThanWellFounded
<1>2. \E x \in T : \A y \in T : ~ (y < x)
  BY <1>1, Zenon DEF OpToRel
<1> QED
  BY <1>2

-----------------------------------------------------------------------------
(***************************************************************************)
(* openpatch and openpatch_single: what a record reads and writes.         *)
(***************************************************************************)
MaxIs(x, T) == x \in T /\ \A y \in T : x >= y

LEMMA MaxOf ==
  ASSUME NEW T, NEW x \in T, \A y \in T : y \in Int /\ x >= y
  PROVE  B!Max(T) = x
<1>1. B!Max(T) = CHOOSE z \in T : \A y \in T : z >= y
  BY Zenon DEF B!Max
<1>2. PICK m \in T : m = B!Max(T) /\ \A y \in T : m >= y
  BY <1>1
<1>3. m >= x /\ x >= m /\ m \in Int /\ x \in Int
  BY <1>2
<1>4. m = x
  BY <1>3
<1> QED
  BY <1>2, <1>4

LEMMA Greater ==
  ASSUME NEW m \in Nat, NEW n \in Nat
  PROVE  B!Max({m, n}) = IF m >= n THEN m ELSE n
<1>1. CASE m >= n
  <2>1. \A y \in {m, n} : y \in Int /\ m >= y
    BY <1>1
  <2> QED
    BY <2>1, <1>1, MaxOf
<1>2. CASE ~(m >= n)
  <2>1. \A y \in {m, n} : y \in Int /\ n >= y
    BY <1>2
  <2> QED
    BY <2>1, <1>2, MaxOf
<1> QED
  BY <1>1, <1>2

LEMMA MinOf ==
  ASSUME NEW T \in SUBSET Nat, T # {}
  PROVE  B!Min(T) \in T /\ \A y \in T : B!Min(T) <= y
<1>1. \E x \in T : \A y \in T : x <= y
  BY Least
<1> QED
  BY <1>1, Zenon DEF B!Min

Content == Seq(Nat)

(* A piece of a file.                                                      *)
LEMMA PieceIs ==
  ASSUME NEW f \in Content, NEW x \in Nat, NEW b \in Content, x + Len(b) <= Len(f)
  PROVE  (SubSeq(f, x + 1, x + Len(b)) = b) <=> \A k \in 1 .. Len(b) : f[x + k] = b[k]
<1> DEFINE d == SubSeq(f, x + 1, x + Len(b))
<1>1. Len(b) \in Nat /\ Len(f) \in Nat /\ b = [k \in 1 .. Len(b) |-> b[k]]
  BY DEF Content
<1>2. /\ d \in Seq(Nat) /\ Len(d) = Len(b)
      /\ \A k \in 1 .. Len(b) : d[k] = f[x + k]
  <2>1. f \in Seq(Nat) /\ Len(b) \in Nat /\ x + 1 \in 1 .. Len(f) + 1 /\ x + Len(b) \in x .. Len(f)
    BY <1>1 DEF Content
  <2> QED
    BY <2>1, SubSeqProperties
<1> HIDE DEF d
<1>3. d = [k \in 1 .. Len(b) |-> d[k]]
  <2>1. PICK n \in Nat : n = Len(b) /\ n = Len(d) /\ d \in [1 .. n -> Nat]
    BY <1>1, <1>2
  <2> QED
    BY <2>1
<1>4. d = b <=> \A k \in 1 .. Len(b) : d[k] = b[k]
  BY <1>1, <1>3
<1> QED
  BY <1>2, <1>4 DEF d

Strings(r) ==
  /\ r.at \in Nat /\ r.before \in Content /\ r.after \in Content
  /\ Len(r.after) = Len(r.before) /\ Len(r.before) <= CompSize

LEMMA RecordIs ==
  ASSUME NEW d \in Databases, NEW e \in DOMAIN d
  PROVE  /\ Len(d) \in Nat /\ DOMAIN d = 1 .. Len(d)
         /\ Len(d[e].records) \in Nat
         /\ DOMAIN d[e].records = 1 .. Len(d[e].records)
         /\ \A n \in 1 .. Len(d[e].records) : Strings(d[e].records[n])
<1>1. /\ Len(d) \in Nat /\ DOMAIN d = 1 .. Len(d)
      /\ d[e].records \in Seq(B!RecordTypes)
      /\ \A n \in DOMAIN d[e].records : B!IsRecord(d[e].records[n])
  BY PatchersAssumption DEF B!BytesAssumption
<1>2. PICK rs : rs = d[e].records
  OBVIOUS
<1>3. Len(rs) \in Nat /\ DOMAIN rs = 1 .. Len(rs)
  BY <1>1, <1>2
<1>4. ASSUME NEW r, B!IsRecord(r) PROVE Strings(r)
  BY <1>4 DEF B!IsRecord, B!RecordTypes, Strings, Content
<1> QED
  BY <1>1, <1>2, <1>3, <1>4

Within(r, f) == r.at + Len(r.before) <= Len(f)

Has(f, r, s) == SubSeq(f, r.at + 1, r.at + Len(r.before)) = B!Side(r, s)

LEMMA SideIs ==
  ASSUME NEW r, Strings(r), NEW s
  PROVE  B!Side(r, s) \in Content /\ Len(B!Side(r, s)) = Len(r.before)
BY DEF Strings, B!Side

LEMMA HasIs ==
  ASSUME NEW r, Strings(r), NEW s, NEW f \in Content, Within(r, f)
  PROVE  Has(f, r, s) <=> \A k \in 1 .. Len(r.before) : f[r.at + k] = B!Side(r, s)[k]
<1>1. PICK b : b = B!Side(r, s)
  OBVIOUS
<1>2. b \in Content /\ Len(b) = Len(r.before)
  BY <1>1, SideIs
<1>3. PICK x \in Nat : x = r.at
  BY DEF Strings
<1>4. x + Len(b) <= Len(f)
  BY <1>2, <1>3 DEF Within
<1>5. (SubSeq(f, x + 1, x + Len(b)) = b) <=> \A k \in 1 .. Len(b) : f[x + k] = b[k]
  BY <1>2, <1>4, PieceIs
<1> QED
  BY <1>1, <1>2, <1>3, <1>5 DEF Has

LEMMA FwriteType ==
  ASSUME NEW f \in Content, NEW x \in Nat, NEW b \in Content
  PROVE  B!Fwrite(f, x, b) \in Content
<1>1. CASE b = <<>>
  BY <1>1 DEF B!Fwrite
<1>2. CASE b # <<>>
  <2>1. PICK m \in Nat : m = B!Max({Len(f), x + Len(b)})
    <3>1. Len(f) \in Nat /\ x + Len(b) \in Nat
      BY DEF Content
    <3> QED
      BY <3>1, Greater
  <2>2. B!Fwrite(f, x, b) = [n \in 1 .. m |-> IF n \in x + 1 .. x + Len(b) THEN b[n - x]
                                            ELSE IF n <= Len(f) THEN f[n] ELSE 0]
    BY <2>1, <1>2 DEF B!Fwrite
  <2>3. ASSUME NEW n \in 1 .. m
        PROVE  (IF n \in x + 1 .. x + Len(b) THEN b[n - x] ELSE IF n <= Len(f) THEN f[n] ELSE 0) \in Nat
    <3>1. n \in x + 1 .. x + Len(b) => n - x \in 1 .. Len(b)
      BY DEF Content
    <3>2. n <= Len(f) => n \in 1 .. Len(f)
      BY DEF Content
    <3> QED
      BY <3>1, <3>2 DEF Content
  <2>4. B!Fwrite(f, x, b) \in [1 .. m -> Nat]
    BY <2>2, <2>3
  <2> QED
    BY <2>4 DEF Content
<1> QED
  BY <1>1, <1>2

(* A write within the file.                                                *)
Overwritten(f, x, b, g) ==
  /\ Len(g) = Len(f)
  /\ \A n \in 1 .. Len(f) : n \notin x + 1 .. x + Len(b) => g[n] = f[n]
  /\ \A k \in 1 .. Len(b) : g[x + k] = b[k]

LEMMA FwriteIs ==
  ASSUME NEW f \in Content, NEW x \in Nat, NEW b \in Content, x + Len(b) <= Len(f)
  PROVE  Overwritten(f, x, b, B!Fwrite(f, x, b))
<1>1. CASE b = <<>>
  <2>1. Len(b) = 0
    BY <1>1
  <2> QED
    BY <1>1, <2>1 DEF B!Fwrite, Overwritten
<1>2. CASE b # <<>>
  <2>0. PICK u \in Nat : u = Len(f)
    BY DEF Content
  <2>1. B!Max({u, x + Len(b)}) = u
    <3>1. x + Len(b) \in Nat /\ u >= x + Len(b)
      BY <2>0 DEF Content
    <3> QED
      BY <3>1, Greater
  <2>2. PICK g : g = [n \in 1 .. u |-> IF n \in x + 1 .. x + Len(b) THEN b[n - x]
                                      ELSE IF n <= u THEN f[n] ELSE 0]
    OBVIOUS
  <2>3. B!Fwrite(f, x, b) = g
    BY <2>0, <2>1, <2>2, <1>2 DEF B!Fwrite
  <2>4. Len(g) = u
    BY <2>2
  <2>5. \A n \in 1 .. u : n \notin x + 1 .. x + Len(b) => g[n] = f[n]
    BY <2>2
  <2>6. ASSUME NEW k \in 1 .. Len(b) PROVE g[x + k] = b[k]
    <3>1. x + k \in 1 .. u /\ x + k \in x + 1 .. x + Len(b) /\ (x + k) - x = k
      BY <2>0 DEF Content
    <3> QED
      BY <2>2, <3>1
  <2> QED
    BY <2>0, <2>3, <2>4, <2>5, <2>6 DEF Overwritten
<1> QED
  BY <1>1, <1>2

-----------------------------------------------------------------------------
(***************************************************************************)
(* Where openpatch and openpatch_single are.  While a game is checked it   *)
(* is as it was, and the flags say of what has been read whether one side  *)
(* or the other is not all there; entries that were left behind do not fit *)
(* it.  While it is written to, records so far are of the one side.        *)
(***************************************************************************)
Recs(e) == args[e].records

Seen(m, s) == \E n \in 1 .. m : ~Has(was, Recs(entry)[n], s)

AtRecord == entry \in DOMAIN args /\ record \in 1 .. Len(Recs(entry)) + 1

Flags(before_differs, after_differs) ==
  /\ before_differs \in BOOLEAN /\ after_differs \in BOOLEAN
  /\ ~(before_differs /\ after_differs)
  /\ tool = "openpatch" => ~before_differs

Checked ==
  /\ AtRecord /\ Flags(differ_before, differ_after)
  /\ B!InFile(entry) => /\ differ_before <=> Seen(record - 1, "before")
                        /\ differ_after <=> Seen(record - 1, "after")

WrittenUpto(m) ==
  /\ B!Holds(was, entry, B!Other(side)) /\ Len(file) = Len(was)
  /\ \A n \in 1 .. m : Has(file, Recs(entry)[n], side)
  /\ \A x \in DOMAIN was :
       (\A n \in 1 .. m : x \notin B!Bytes(Recs(entry)[n])) => file[x] = was[x]

Writing ==
  /\ AtRecord /\ side \in {"before", "after"}
  /\ B!InFile(entry) /\ B!Apart(entry) => WrittenUpto(record - 1)

FitsOne(e) ==
  /\ B!ID(was) \in args[e].ids /\ ~B!Bad(e) /\ B!InFile(e)
  /\ B!Holds(was, e, "before") \/ B!Holds(was, e, "after")

Missed == \A e \in DOMAIN args : e < entry => ~FitsOne(e)

PatcherTypes ==
  /\ file \in Content /\ was \in Content /\ args \in Databases
  /\ comp \in [1 .. CompSize -> Nat]
  /\ pc \in {"closed", "search", "check", "write"}
  /\ side \in {"none", "before", "after"} /\ ret \in {0, 3, 4}

Phases ==
  /\ pc \in {"search", "check"} => side = "none" /\ file = was /\ entry \in Nat
  /\ pc = "check" => Checked
  /\ pc = "write" => Writing
  /\ pc = "closed" => B!Invertible /\ B!Finds

PatcherInv ==
  /\ PatcherTypes /\ Phases
  /\ tool = "openpatch_single" /\ pc \in {"search", "check"} => Missed

Patcher == tool \in {"openpatch", "openpatch_single"}

LEMMA CompType == CompSize \in Nat /\ Games \subseteq Content
BY PatchersAssumption DEF B!BytesAssumption, Content

LEMMA FreadType ==
  ASSUME comp \in [1 .. CompSize -> Nat], NEW f \in Content, NEW x \in Nat, NEW n \in Nat
  PROVE  B!Fread(f, x, n) \in [1 .. CompSize -> Nat]
<1>1. ASSUME NEW m \in 1 .. CompSize
      PROVE  (IF m <= n /\ x + m <= Len(f) THEN f[x + m] ELSE comp[m]) \in Nat
  <2>1. x + m <= Len(f) => x + m \in 1 .. Len(f)
    BY CompType DEF Content
  <2>2. comp[m] \in Nat
    OBVIOUS
  <2> QED
    BY <2>1, <2>2 DEF Content
<1> QED
  BY <1>1 DEF B!Fread

(* What is read is compared as it is in the file.                          *)
LEMMA ReadIs ==
  ASSUME comp \in [1 .. CompSize -> Nat], NEW f \in Content, NEW r, Strings(r), Within(r, f),
         comp' = B!Fread(f, r.at, Len(r.before)), NEW s
  PROVE  (SubSeq(comp', 1, Len(B!Side(r, s))) # B!Side(r, s)) <=> ~Has(f, r, s)
<1>1. PICK b : b = B!Side(r, s)
  OBVIOUS
<1>2. b \in Content /\ Len(b) = Len(r.before) /\ Len(b) \in Nat /\ Len(b) <= CompSize
  BY <1>1, SideIs DEF Strings, Content
<1>0. PICK g : g = comp'
  OBVIOUS
<1>3. PICK x \in Nat : x = r.at /\ g = comp'
  BY <1>0 DEF Strings
<1>4. g \in [1 .. CompSize -> Nat] /\ CompSize \in Nat
  BY <1>2, <1>3, FreadType, CompType
<1>5. g \in Content /\ Len(g) = CompSize
  BY <1>4 DEF Content
<1>6. \A k \in 1 .. Len(b) : g[k] = f[x + k]
  <2> SUFFICES ASSUME NEW k \in 1 .. Len(b) PROVE g[k] = f[x + k]
    OBVIOUS
  <2>0. PICK u \in Nat, v \in Nat : u = Len(b) /\ v = Len(f)
    BY <1>2 DEF Content
  <2>00. x + u <= v
    BY <2>0, <1>2, <1>3 DEF Within
  <2>1. k \in 1 .. CompSize /\ k <= Len(b) /\ x + k <= Len(f)
    BY <2>0, <2>00, <1>2, <1>4
  <2> QED
    BY <2>1, <1>2, <1>3 DEF B!Fread
<1>7. (SubSeq(g, 0 + 1, 0 + Len(b)) = b) <=> \A k \in 1 .. Len(b) : g[0 + k] = b[k]
  BY <1>2, <1>5, PieceIs
<1>8. 0 + 1 = 1 /\ 0 + Len(b) = Len(b) /\ \A k \in 1 .. Len(b) : 0 + k = k
  BY <1>2
<1>9. (SubSeq(g, 1, Len(b)) = b) <=> \A k \in 1 .. Len(b) : f[x + k] = b[k]
  BY <1>6, <1>7, <1>8
<1>10. Has(f, r, s) <=> \A k \in 1 .. Len(r.before) : f[r.at + k] = B!Side(r, s)[k]
  BY HasIs
<1> QED
  BY <1>1, <1>2, <1>3, <1>9, <1>10

LEMMA StillSo ==
  ASSUME args' = args, was' = was, NEW e, NEW f, NEW s
  PROVE  /\ B!InFile(e)' <=> B!InFile(e)
         /\ B!Apart(e)' <=> B!Apart(e)
         /\ B!Holds(f, e, s)' <=> B!Holds(f', e, s)
         /\ FitsOne(e)' <=> FitsOne(e)
BY DEF B!InFile, B!Apart, B!Holds, B!Bytes, B!Side, FitsOne, B!ID, B!Bad

LEMMA HoldsIs ==
  ASSUME NEW f, NEW e, NEW s
  PROVE  B!Holds(f, e, s) <=> \A n \in DOMAIN Recs(e) : Has(f, Recs(e)[n], s)
BY DEF B!Holds, Has, Recs

LEMMA RecsAre ==
  ASSUME args \in Databases, NEW e \in DOMAIN args
  PROVE  /\ Len(args) \in Nat /\ DOMAIN args = 1 .. Len(args)
         /\ Len(Recs(e)) \in Nat /\ DOMAIN Recs(e) = 1 .. Len(Recs(e))
         /\ \A n \in 1 .. Len(Recs(e)) : Strings(Recs(e)[n])
BY RecordIs DEF Recs

-----------------------------------------------------------------------------
LEMMA PatcherOpen == ASSUME Patcher, PatcherInv, B!Open PROVE PatcherInv'
<1>1. /\ file' \in Games \cup ({file} \ {<<>>}) /\ was' = file' /\ pc' = "search" /\ entry' = 1
      /\ side' = "none" /\ ret' = 0 /\ tool' = tool /\ args' = args
      /\ comp' = IF tool = "openpatch" THEN B!Fread(file', 0, CompSize) ELSE comp
  BY DEF B!Open
<1>2. file' \in Content
  BY <1>1, CompType DEF PatcherInv, PatcherTypes
<1>3. comp' \in [1 .. CompSize -> Nat]
  BY <1>1, <1>2, FreadType, CompType DEF PatcherInv, PatcherTypes
<1>4. PatcherTypes'
  BY <1>1, <1>2, <1>3 DEF PatcherInv, PatcherTypes
<1>5. Phases'
  BY <1>1 DEF Phases
<1>6. Missed'
  <2> SUFFICES ASSUME NEW e \in DOMAIN args', e < 1 PROVE FALSE
    BY <1>1 DEF Missed
  <2>1. args \in Databases /\ e \in DOMAIN args
    BY <1>1 DEF PatcherInv, PatcherTypes
  <2> QED
    BY <2>1, RecsAre
<1> QED
  BY <1>4, <1>5, <1>6 DEF PatcherInv

(* The end of a game that was not written to.                              *)
LEMMA PatcherGivesUp ==
  ASSUME Patcher, PatcherInv, pc \in {"search", "check"}, UNCHANGED <<tool, args, file, was, side>>,
         comp' \in [1 .. CompSize -> Nat], NEW code \in {0, 3, 4}, B!Close(code),
         tool = "openpatch_single" /\ code = 3 => \A e \in DOMAIN args : ~FitsOne(e)
  PROVE  PatcherInv'
<1>1. pc' = "closed" /\ ret' = code /\ side = "none" /\ file = was
  BY DEF B!Close, PatcherInv, Phases
<1>2. PatcherTypes'
  BY <1>1 DEF PatcherInv, PatcherTypes
<1>3. B!Invertible'
  BY <1>1 DEF B!Invertible
<1>4. B!Finds'
  <2> SUFFICES ASSUME tool = "openpatch_single", code = 3, NEW e \in DOMAIN args, FitsOne(e)' PROVE FALSE
    BY <1>1 DEF B!Finds, FitsOne
  <2>1. FitsOne(e)
    BY StillSo
  <2> QED
    BY <2>1
<1> QED
  BY <1>1, <1>2, <1>3, <1>4 DEF PatcherInv, Phases

LEMMA PatcherSearch == ASSUME Patcher, PatcherInv, B!Search PROVE PatcherInv'
<1>1. /\ pc = "search" /\ UNCHANGED <<tool, args, file, was, side, comp>>
      /\ side = "none" /\ file = was /\ entry \in Nat
      /\ args \in Databases /\ comp \in [1 .. CompSize -> Nat]
  BY DEF B!Search, B!checkvars, PatcherInv, Phases, PatcherTypes
<1>2. CASE B!Candidates = {}
  <2>1. B!Close(IF tool = "openpatch" THEN 0 ELSE 3)
    BY <1>2, Zenon DEF B!Search
  <2>2. tool = "openpatch_single" => \A e \in DOMAIN args : ~FitsOne(e)
    <3> SUFFICES ASSUME tool = "openpatch_single", NEW e \in DOMAIN args, FitsOne(e) PROVE FALSE
      OBVIOUS
    <3>1. ~(e < entry)
      BY <1>1 DEF PatcherInv, Missed
    <3>2. e \in Nat
      BY <1>1, RecsAre
    <3>3. e \in B!Candidates
      BY <1>1, <3>1, <3>2 DEF B!Candidates, FitsOne
    <3> QED
      BY <3>3, <1>2
  <2> QED
    BY <2>1, <2>2, <1>1, PatcherGivesUp
<1>3. CASE B!Candidates # {}
  <2>1. /\ entry' = B!Min(B!Candidates) /\ record' = 1 /\ pc' = "check" /\ ret' = ret
        /\ differ_before' = FALSE /\ differ_after' = FALSE
    BY <1>3, Zenon DEF B!Search, B!Fresh
  <2>2. B!Candidates \in SUBSET Nat /\ B!Candidates \subseteq DOMAIN args
    <3>1. B!Candidates \subseteq DOMAIN args
      BY DEF B!Candidates
    <3> QED
      BY <3>1, <1>1, RecsAre
  <2>3. entry' \in B!Candidates /\ \A e \in B!Candidates : entry' <= e
    BY <2>1, <2>2, <1>3, MinOf
  <2>4. entry' \in DOMAIN args /\ entry' \in Nat /\ Len(Recs(entry')) \in Nat
    BY <2>2, <2>3, <1>1, RecsAre
  <2>5. AtRecord'
    BY <2>1, <2>4, <1>1 DEF AtRecord, Recs
  <2>6. ~Seen(record - 1, "before")' /\ ~Seen(record - 1, "after")'
    BY <2>1 DEF Seen
  <2>7. Checked'
    BY <2>1, <2>5, <2>6 DEF Checked, Flags
  <2>8. tool = "openpatch_single" => Missed'
    <3> SUFFICES ASSUME tool = "openpatch_single", NEW e \in DOMAIN args, e < entry', FitsOne(e)' PROVE FALSE
      BY <1>1 DEF Missed
    <3>1. FitsOne(e)
      BY <1>1, StillSo
    <3>2. ~(e < entry) /\ e \in Nat
      BY <3>1, <1>1, RecsAre DEF PatcherInv, Missed
    <3>3. e \in B!Candidates
      BY <1>1, <3>1, <3>2 DEF B!Candidates, FitsOne
    <3> QED
      BY <3>2, <3>3, <2>3, <2>4
  <2>9. PatcherTypes'
    BY <1>1, <2>1 DEF PatcherInv, PatcherTypes
  <2> QED
    BY <1>1, <2>1, <2>4, <2>7, <2>8, <2>9 DEF PatcherInv, Phases
<1> QED
  BY <1>2, <1>3

LEMMA PatcherCheck == ASSUME Patcher, PatcherInv, B!Check PROVE PatcherInv'
<1>1. /\ pc = "check" /\ UNCHANGED <<tool, args, file, was, games, side>>
      /\ side = "none" /\ file = was /\ entry \in Nat /\ Checked
      /\ args \in Databases /\ was \in Content /\ comp \in [1 .. CompSize -> Nat]
  BY DEF B!Check, PatcherInv, Phases, PatcherTypes
<1>2. /\ entry \in DOMAIN args /\ record \in 1 .. Len(Recs(entry)) + 1 /\ record <= Len(Recs(entry))
      /\ Flags(differ_before, differ_after) /\ Len(Recs(entry)) \in Nat
  BY <1>1, RecsAre DEF Checked, AtRecord, B!Check, B!Records, Recs
<1>4. PICK u \in Nat : u = Len(Recs(entry))
  BY <1>2
<1>3. PICK m \in 1 .. u : m = record /\ m \in Nat
  BY <1>2, <1>4
<1>5. PICK r : r = Recs(entry)[m] /\ r = B!Current
  BY <1>3 DEF Recs, B!Current, B!Records
<1>6. Strings(r) /\ m \in DOMAIN Recs(entry)
  BY <1>1, <1>2, <1>3, <1>4, <1>5, RecsAre
<1>7. CASE r.bad
  <2>1. B!Close(4) /\ comp' = comp
    BY <1>5, <1>7, Zenon DEF B!Check, B!checkvars
  <2> QED
    BY <2>1, <1>1, PatcherGivesUp
<1>8. CASE ~r.bad
  <2>1. /\ comp' = B!Fread(file, r.at, Len(r.before))
        /\ differ_before' = B!Seen(differ_before, r.before)
        /\ differ_after' = B!Seen(differ_after, r.after)
        /\ \/ /\ tool = "openpatch" /\ differ_before' /\ B!Close(0) /\ UNCHANGED <<entry, record>>
           \/ /\ tool = "openpatch_single" /\ differ_before' /\ differ_after'
              /\ pc' = "search" /\ entry' = entry + 1 /\ UNCHANGED <<record, ret>>
           \/ /\ ~differ_before' \/ (tool = "openpatch_single" /\ ~differ_after')
              /\ record' = record + 1 /\ UNCHANGED <<pc, entry, ret>>
    BY <1>5, <1>8, Zenon DEF B!Check
  <2>2. comp' \in [1 .. CompSize -> Nat]
    BY <2>1, <1>1, <1>6, FreadType DEF Strings, Content
  <2>3. PICK db, da : db = (SubSeq(comp', 1, Len(r.before)) # r.before)
                      /\ da = (SubSeq(comp', 1, Len(r.after)) # r.after)
    OBVIOUS
  <2>4. /\ differ_before' = (differ_before \/ db) /\ differ_after' = (differ_after \/ da)
        /\ differ_before' \in BOOLEAN /\ differ_after' \in BOOLEAN
    BY <2>1, <2>3, Zenon DEF B!Seen, B!Differ
  <2>5. B!InFile(entry) => (db <=> ~Has(was, r, "before")) /\ (da <=> ~Has(was, r, "after"))
    <3> SUFFICES ASSUME B!InFile(entry) PROVE (db <=> ~Has(was, r, "before")) /\ (da <=> ~Has(was, r, "after"))
      OBVIOUS
    <3>1. Within(r, was)
      BY <1>5, <1>6 DEF B!InFile, Within, Recs
    <3>2. B!Side(r, "before") = r.before /\ B!Side(r, "after") = r.after
      BY DEF B!Side
    <3>3. \A s \in {"before", "after"} :
            (SubSeq(comp', 1, Len(B!Side(r, s))) # B!Side(r, s)) <=> ~Has(was, r, s)
      BY <3>1, <1>1, <1>6, <2>1, ReadIs
    <3> QED
      BY <3>2, <3>3, <2>3
  <2>6. \A s : Seen(m, s) <=> Seen(m - 1, s) \/ ~Has(was, r, s)
    <3>1. 1 .. m = (1 .. m - 1) \cup {m}
      BY <1>4
    <3> QED
      BY <3>1, <1>5 DEF Seen
  <2>7. B!InFile(entry) => (differ_before <=> Seen(m - 1, "before")) /\ (differ_after <=> Seen(m - 1, "after"))
    BY <1>1, <1>3 DEF Checked
  <2>8. B!InFile(entry) => (differ_before' <=> Seen(m, "before")) /\ (differ_after' <=> Seen(m, "after"))
    BY <2>4, <2>5, <2>6, <2>7, Zenon
  <2>9. CASE tool = "openpatch" /\ differ_before' /\ B!Close(0)
    BY <2>9, <2>2, <1>1, PatcherGivesUp
  <2>10. CASE /\ tool = "openpatch_single" /\ differ_before' /\ differ_after'
              /\ pc' = "search" /\ entry' = entry + 1 /\ UNCHANGED <<record, ret>>
    <3>1. PatcherTypes'
      BY <2>2, <2>10, <1>1 DEF PatcherInv, PatcherTypes
    <3>2. Missed'
      <4> SUFFICES ASSUME NEW e \in DOMAIN args, e < entry + 1, FitsOne(e)' PROVE FALSE
        BY <2>10, <1>1 DEF Missed
      <4>1. FitsOne(e)
        BY <1>1, StillSo
      <4>2. ~(e < entry) /\ e \in Nat
        BY <4>1, <1>1, <2>10, RecsAre DEF PatcherInv, Missed
      <4>3. e = entry
        BY <4>2, <1>1
      <4>4. B!InFile(entry) /\ (B!Holds(was, entry, "before") \/ B!Holds(was, entry, "after"))
        BY <4>1, <4>3 DEF FitsOne
      <4>5. Seen(m, "before") /\ Seen(m, "after")
        BY <4>4, <2>8, <2>10
      <4>6. 1 .. m \subseteq DOMAIN Recs(entry)
        BY <1>1, <1>2, <1>3, <1>4, RecsAre
      <4> QED
        BY <4>4, <4>5, <4>6, HoldsIs DEF Seen
    <3> QED
      BY <3>1, <3>2, <2>10, <1>1 DEF PatcherInv, Phases
  <2>11. CASE /\ ~differ_before' \/ (tool = "openpatch_single" /\ ~differ_after')
              /\ record' = record + 1 /\ UNCHANGED <<pc, entry, ret>>
    <3>1. PatcherTypes'
      BY <2>2, <2>11, <1>1 DEF PatcherInv, PatcherTypes
    <3>2. record' = m + 1 /\ m + 1 \in 1 .. u + 1 /\ (m + 1) - 1 = m
      BY <2>11, <1>3, <1>4
    <3>3. AtRecord'
      BY <3>2, <2>11, <1>1, <1>2, <1>3 DEF AtRecord, Recs
    <3>4. Flags(differ_before, differ_after)'
      BY <2>11, <2>4, <1>1, Zenon DEF Flags, Patcher
    <3>5. \A s : Seen(record - 1, s)' <=> Seen(m, s)
      BY <3>2, <2>11, <1>1 DEF Seen, Has, Recs
    <3>6. B!InFile(entry)' <=> B!InFile(entry)
      BY <2>11, <1>1 DEF B!InFile
    <3>7. Checked'
      BY <3>3, <3>4, <3>5, <3>6, <2>8 DEF Checked
    <3>8. tool = "openpatch_single" => Missed'
      <4>1. tool = "openpatch_single" => Missed
        BY <1>1 DEF PatcherInv
      <4>2. \A e : FitsOne(e)' <=> FitsOne(e)
        BY <1>1, StillSo
      <4> QED
        BY <4>1, <4>2, <2>11, <1>1 DEF Missed
    <3> QED
      BY <3>1, <3>7, <3>8, <2>11, <1>1 DEF PatcherInv, Phases
  <2> QED
    BY <2>1, <2>9, <2>10, <2>11
<1> QED
  BY <1>7, <1>8

LEMMA PatcherDecide == ASSUME Patcher, PatcherInv, B!Decide PROVE PatcherInv'
<1>1. /\ pc = "check" /\ UNCHANGED <<tool, args, file, was, games, entry, B!checkvars>>
      /\ side = "none" /\ file = was /\ entry \in Nat /\ Checked
      /\ args \in Databases /\ was \in Content /\ comp \in [1 .. CompSize -> Nat]
  BY DEF B!Decide, PatcherInv, Phases, PatcherTypes
<1>2. /\ AtRecord /\ record = Len(Recs(entry)) + 1 /\ Len(Recs(entry)) \in Nat
      /\ Flags(differ_before, differ_after) /\ DOMAIN Recs(entry) = 1 .. Len(Recs(entry))
      /\ entry \in DOMAIN args
  BY <1>1, RecsAre DEF Checked, AtRecord, B!Decide, B!Records, Recs
<1>3. B!InFile(entry) => /\ ~differ_before => B!Holds(was, entry, "before")
                         /\ ~differ_after => B!Holds(was, entry, "after")
  BY <1>1, <1>2, HoldsIs DEF Checked, Seen
<1>4. CASE side' = side
  <2>1. B!Close(0) /\ UNCHANGED side
    BY <1>1, <1>4 DEF B!Decide
  <2> QED
    BY <2>1, <1>1, PatcherGivesUp DEF B!checkvars
<1>5. CASE side' # side
  <2>1. /\ pc' = "write" /\ record' = 1 /\ ret' = ret
        /\ \/ ~differ_before /\ side' = "after"
           \/ differ_before /\ side' = "before"
    BY <1>5, Zenon DEF B!Decide
  <2>2. B!InFile(entry) => B!Holds(was, entry, B!Other(side'))
    BY <2>1, <1>2, <1>3, Zenon DEF Flags, B!Other
  <2>3. B!InFile(entry)' <=> B!InFile(entry)
    BY <1>1 DEF B!InFile
  <2>4. B!Holds(was, entry, B!Other(side))' <=> B!Holds(was, entry, B!Other(side'))
    BY <1>1, StillSo DEF B!Holds, B!Other, B!Side
  <2>5. B!InFile(entry)' => WrittenUpto(record - 1)'
    BY <2>1, <2>2, <2>3, <2>4, <1>1 DEF WrittenUpto
  <2>6. AtRecord'
    BY <2>1, <1>1, <1>2 DEF AtRecord, Recs
  <2>7. Writing'
    BY <2>1, <2>5, <2>6 DEF Writing
  <2>8. PatcherTypes'
    BY <2>1, <1>1 DEF PatcherInv, PatcherTypes, B!checkvars
  <2> QED
    BY <2>1, <2>7, <2>8 DEF PatcherInv, Phases
<1> QED
  BY <1>4, <1>5

LEMMA PatcherWrite == ASSUME Patcher, PatcherInv, B!Write PROVE PatcherInv'
<1>1. /\ pc = "write" /\ record' = record + 1 /\ UNCHANGED <<tool, pc, args, was, entry, B!checkvars, side, ret>>
      /\ AtRecord /\ side \in {"before", "after"} /\ record <= Len(Recs(entry))
      /\ args \in Databases /\ was \in Content /\ file \in Content
      /\ B!InFile(entry) /\ B!Apart(entry) => WrittenUpto(record - 1)
      /\ file' = B!Fwrite(file, B!Current.at, B!Side(B!Current, side))
  BY DEF B!Write, B!Records, Recs, PatcherInv, Phases, PatcherTypes, Writing
<1>2. entry \in DOMAIN args /\ Len(Recs(entry)) \in Nat /\ DOMAIN Recs(entry) = 1 .. Len(Recs(entry))
      /\ \A n \in 1 .. Len(Recs(entry)) : Strings(Recs(entry)[n])
  BY <1>1, RecsAre DEF AtRecord
<1>0. PICK u \in Nat : u = Len(Recs(entry))
  BY <1>2
<1>3. PICK m \in Nat : m = record /\ u = Len(Recs(entry)) /\ m \in 1 .. u
  BY <1>0, <1>1, <1>2 DEF AtRecord
<1>4. PICK r : r = Recs(entry)[m] /\ r = B!Current
  BY <1>3 DEF Recs, B!Current, B!Records
<1>5. Strings(r)
  BY <1>2, <1>3, <1>4
<1>6. PICK b \in Content, x \in Nat : b = B!Side(r, side) /\ x = r.at /\ Len(b) = Len(r.before)
  BY <1>5, SideIs DEF Strings
<1>7. file' = B!Fwrite(file, x, b)
  BY <1>1, <1>4, <1>6
<1>8. file' \in Content
  BY <1>1, <1>6, <1>7, FwriteType
<1>9. AtRecord'
  BY <1>1, <1>2, <1>3 DEF AtRecord, Recs
<1>10. ASSUME B!InFile(entry), B!Apart(entry) PROVE WrittenUpto(m)'
  <2>1. /\ B!Holds(was, entry, B!Other(side)) /\ Len(file) = Len(was)
        /\ \A n \in 1 .. m - 1 : Has(file, Recs(entry)[n], side)
        /\ \A y \in DOMAIN was :
             (\A n \in 1 .. m - 1 : y \notin B!Bytes(Recs(entry)[n])) => file[y] = was[y]
    BY <1>1, <1>3, <1>10 DEF WrittenUpto
  <2>2. \A n \in 1 .. u : Within(Recs(entry)[n], file)
    BY <1>2, <1>3, <1>10, <2>1 DEF B!InFile, Within, Recs
  <2>3. x + Len(b) <= Len(file)
    BY <2>2, <1>3, <1>4, <1>6 DEF Within
  <2>4. PICK g : g = B!Fwrite(file, x, b) /\ g = file'
    BY <1>7
  <2>5. /\ Len(g) = Len(file)
        /\ \A n \in 1 .. Len(file) : n \notin x + 1 .. x + Len(b) => g[n] = file[n]
        /\ \A k \in 1 .. Len(b) : g[x + k] = b[k]
    <3>1. file \in Content
      BY <1>1
    <3>2. Overwritten(file, x, b, B!Fwrite(file, x, b))
      BY <3>1, <2>3, FwriteIs
    <3>3. Overwritten(file, x, b, g)
      BY <3>2, <2>4, Zenon
    <3> QED
      BY <3>3 DEF Overwritten
  <2>6. g \in Content
    BY <1>8, <2>4
  <2>7. ASSUME NEW n \in 1 .. m PROVE Has(g, Recs(entry)[n], side)
    <3>1. PICK q : q = Recs(entry)[n]
      OBVIOUS
    <3>2. n \in 1 .. u /\ n \in DOMAIN Recs(entry) /\ m \in DOMAIN Recs(entry)
      BY <1>2, <1>3
    <3>3. Strings(q) /\ Within(q, file)
      BY <3>1, <3>2, <1>2, <1>3, <2>2
    <3>4. Within(q, g)
      BY <3>3, <2>5 DEF Within
    <3>5. CASE n = m
      <4>1. q = r
        BY <3>1, <3>5, <1>4
      <4>2. \A k \in 1 .. Len(q.before) : g[q.at + k] = B!Side(q, side)[k]
        BY <4>1, <1>6, <2>5
      <4> QED
        BY <4>2, <3>1, <3>3, <3>4, <2>6, HasIs
    <3>6. CASE n # m
      <4>1. n \in 1 .. m - 1
        BY <3>6, <1>3
      <4>2. Has(file, q, side)
        BY <4>1, <3>1, <2>1
      <4>3. \A k \in 1 .. Len(q.before) : file[q.at + k] = B!Side(q, side)[k]
        BY <4>2, <3>3, <1>1, HasIs
      <4>4. B!Bytes(q) \cap B!Bytes(r) = {}
        BY <1>10, <3>1, <3>2, <3>6, <1>4 DEF B!Apart, Recs
      <4>5. ASSUME NEW k \in 1 .. Len(q.before) PROVE g[q.at + k] = B!Side(q, side)[k]
        <5>0. q.at \in Nat /\ q.before \in Seq(Nat) /\ file \in Seq(Nat)
          BY <3>3, <1>1, Zenon DEF Strings, Content
        <5>1. PICK y \in Nat, w \in Nat, z \in Nat : y = q.at /\ w = Len(q.before) /\ z = Len(file)
          BY <5>0
        <5>2. k \in 1 .. w /\ y + w <= z
          BY <5>1, <3>3 DEF Within
        <5>3. y + k \in 1 .. z /\ y + k \in y + 1 .. y + w
          BY <5>1, <5>2
        <5>4. y + k \in B!Bytes(q)
          BY <5>1, <5>3 DEF B!Bytes
        <5>5. y + k \notin x + 1 .. x + Len(b)
          BY <4>4, <5>4, <1>6 DEF B!Bytes
        <5> QED
          BY <5>1, <5>3, <5>5, <2>5, <4>3
      <4> QED
        BY <4>5, <3>1, <3>3, <3>4, <2>6, HasIs
    <3> QED
      BY <3>5, <3>6
  <2>8. ASSUME NEW y \in DOMAIN was, \A n \in 1 .. m : y \notin B!Bytes(Recs(entry)[n])
        PROVE  g[y] = was[y]
    <3>1. y \in 1 .. Len(file)
      BY <2>1, <1>1 DEF Content
    <3>2. y \notin x + 1 .. x + Len(b)
      <4>1. m \in 1 .. m
        BY <1>3
      <4>2. y \notin B!Bytes(r)
        BY <2>8, <4>1, <1>4
      <4> QED
        BY <4>2, <1>6 DEF B!Bytes
    <3>3. \A n \in 1 .. m - 1 : y \notin B!Bytes(Recs(entry)[n])
      BY <2>8, <1>3
    <3> QED
      BY <3>1, <3>2, <3>3, <2>1, <2>5
  <2>9. B!Holds(was, entry, B!Other(side))' <=> B!Holds(was, entry, B!Other(side))
    BY <1>1 DEF B!Holds, B!Other, B!Side
  <2>10. Len(file') = Len(was') /\ \A n \in 1 .. m : Has(file, Recs(entry)[n], side)'
    BY <2>1, <2>4, <2>5, <2>7, <1>1 DEF Has, Recs, B!Side
  <2>11. \A y \in DOMAIN was' :
           (\A n \in 1 .. m : y \notin B!Bytes(Recs(entry)[n])') => file'[y] = was'[y]
    BY <2>4, <2>8, <1>1 DEF B!Bytes, Recs
  <2> QED
    BY <2>1, <2>9, <2>10, <2>11 DEF WrittenUpto
<1>11. Writing'
  <2>1. record' - 1 = m
    BY <1>1, <1>3
  <2>2. (B!InFile(entry)' <=> B!InFile(entry)) /\ (B!Apart(entry)' <=> B!Apart(entry))
    BY <1>1 DEF B!InFile, B!Apart, B!Bytes
  <2>3. WrittenUpto(m)' => WrittenUpto(record - 1)'
    BY <2>1 DEF WrittenUpto
  <2> QED
    BY <1>1, <1>9, <1>10, <2>2, <2>3 DEF Writing
<1>12. PatcherTypes'
  BY <1>1, <1>8 DEF PatcherInv, PatcherTypes, B!checkvars
<1> QED
  BY <1>1, <1>11, <1>12 DEF PatcherInv, Phases

LEMMA PatcherWritten == ASSUME Patcher, PatcherInv, B!Written PROVE PatcherInv'
<1>1. /\ pc = "write" /\ record > Len(Recs(entry)) /\ pc' = "closed" /\ ret' = 0
      /\ UNCHANGED <<tool, args, file, was, games, entry, record, B!checkvars, side>>
      /\ Writing /\ args \in Databases
  BY DEF B!Written, B!Close, B!Records, Recs, PatcherInv, Phases, PatcherTypes
<1>2. entry \in DOMAIN args /\ Len(Recs(entry)) \in Nat /\ DOMAIN Recs(entry) = 1 .. Len(Recs(entry))
      /\ record - 1 = Len(Recs(entry))
  BY <1>1, RecsAre DEF Writing, AtRecord
<1>3. ASSUME B!InFile(entry), B!Apart(entry)
      PROVE  /\ B!Holds(was, entry, B!Other(side)) /\ B!Holds(file, entry, side)
             /\ Len(file) = Len(was)
             /\ \A x \in DOMAIN was \ B!Changed(entry) : file[x] = was[x]
  <2>1. WrittenUpto(Len(Recs(entry)))
    BY <1>1, <1>2, <1>3 DEF Writing
  <2>2. B!Holds(file, entry, side)
    BY <2>1, <1>2, HoldsIs DEF WrittenUpto
  <2>3. ASSUME NEW x \in DOMAIN was \ B!Changed(entry) PROVE file[x] = was[x]
    <3>1. \A n \in 1 .. Len(Recs(entry)) : x \notin B!Bytes(Recs(entry)[n])
      BY <2>3, <1>2 DEF B!Changed, Recs
    <3> QED
      BY <3>1, <2>1 DEF WrittenUpto
  <2> QED
    BY <2>1, <2>2, <2>3 DEF WrittenUpto
<1>4. B!Invertible'
  <2>1. /\ B!InFile(entry)' <=> B!InFile(entry)
        /\ B!Apart(entry)' <=> B!Apart(entry)
        /\ B!Changed(entry)' = B!Changed(entry)
        /\ B!Holds(was, entry, B!Other(side))' <=> B!Holds(was, entry, B!Other(side))
        /\ B!Holds(file, entry, side)' <=> B!Holds(file, entry, side)
    BY <1>1 DEF B!InFile, B!Apart, B!Bytes, B!Changed, B!Holds, B!Other, B!Side
  <2>2. side # "none" /\ tool # "binreplace"
    BY <1>1 DEF Writing, Patcher
  <2>3. pc' = "closed" /\ UNCHANGED <<file, was, side, tool>>
    BY <1>1
  <2>4. B!InFile(entry) /\ B!Apart(entry) =>
           /\ B!Holds(was, entry, B!Other(side)) /\ B!Holds(file, entry, side)
           /\ Len(file) = Len(was)
           /\ \A x \in DOMAIN was \ B!Changed(entry) : file[x] = was[x]
    BY <1>3
  <2> QED
    BY <2>1, <2>2, <2>3, <2>4 DEF B!Invertible
<1>5. B!Finds'
  BY <1>1 DEF B!Finds
<1>6. PatcherTypes'
  BY <1>1 DEF PatcherInv, PatcherTypes, B!checkvars
<1> QED
  BY <1>1, <1>4, <1>5, <1>6 DEF PatcherInv, Phases

-----------------------------------------------------------------------------
(***************************************************************************)
(* binreplace: the recursion over the places of a string has a solution,   *)
(* and those it takes are apart and cover those it passes over.            *)
(***************************************************************************)
FromStep(f, b, g, x) ==
  IF x >= Len(f) - Len(b) THEN {}
  ELSE IF B!Occurs(f, b, x) THEN {x} \cup g[B!NextPlace(x, Len(b))]
  ELSE g[x + 1]

FromEq(f, b, g) == g = [x \in Nat |-> FromStep(f, b, g, x)]

FromOf(f, b) == CHOOSE g : FromEq(f, b, g)

LEMMA PlacesAre == \A f, b : B!Places(f, b) = FromOf(f, b)[0]
BY DEF B!Places, FromOf, FromEq, FromStep

LEMMA FromExists ==
  ASSUME NEW f \in Content, NEW b \in Content, Len(b) <= Len(f)
  PROVE  FromEq(f, b, FromOf(f, b))
<1>1. PICK v \in Nat, n \in Nat : n = Len(b) /\ v = Len(f) - Len(b)
  BY DEF Content
<1> DEFINE From(g, m) == DOMAIN g = Nat /\ g = [x \in Nat |-> g[x]]
                         /\ \A x \in Nat : x >= v - m => g[x] = FromStep(f, b, g, x)
           T == {m \in 0 .. v : ~\E g : From(g, m)}
<1>2. T = {}
  <2> SUFFICES ASSUME T # {} PROVE FALSE
    OBVIOUS
  <2>1. PICK m \in T : \A y \in T : m <= y
    <3>1. T \in SUBSET Nat
      BY <1>1
    <3> QED
      BY <3>1, Least
  <2>2. m \in 0 .. v /\ ~\E g : From(g, m)
    BY <2>1
  <2>3. CASE m = 0
    <3>1. PICK g : g = [x \in Nat |-> {}]
      OBVIOUS
    <3>2. \A x \in Nat : x >= v - 0 => g[x] = FromStep(f, b, g, x)
      BY <3>1, <1>1 DEF FromStep
    <3>3. From(g, 0)
      BY <3>1, <3>2
    <3> QED
      BY <2>2, <2>3, <3>3
  <2>4. CASE m # 0
    <3>1. m - 1 \in 0 .. v /\ m - 1 \notin T
      BY <2>1, <2>2, <2>4, <1>1
    <3>2. PICK g : From(g, m - 1)
      BY <3>1
    <3>3. PICK z \in Nat : z = v - m
      BY <2>2, <1>1
    <3>4. PICK h : h = [x \in Nat |-> IF x = z THEN FromStep(f, b, g, z) ELSE g[x]]
      OBVIOUS
    <3>5. ASSUME NEW x \in Nat, x >= z PROVE h[x] = FromStep(f, b, h, x)
      <4>1. x + 1 \in Nat /\ x + 1 # z /\ x + n + 1 \in Nat /\ x + n + 1 # z
        BY <3>3, <3>5, <1>1
      <4>2. h[x + 1] = g[x + 1] /\ h[B!NextPlace(x, Len(b))] = g[B!NextPlace(x, Len(b))]
        BY <4>1, <3>4, <1>1 DEF B!NextPlace
      <4>3. FromStep(f, b, h, x) = FromStep(f, b, g, x)
        BY <4>2 DEF FromStep
      <4>4. CASE x = z
        BY <4>3, <4>4, <3>4
      <4>5. CASE x # z
        <5>1. x >= v - (m - 1)
          BY <4>5, <3>3, <3>5, <2>2, <1>1
        <5>2. g[x] = FromStep(f, b, g, x)
          BY <5>1, <3>2
        <5> QED
          BY <5>2, <4>3, <4>5, <3>4
      <4> QED
        BY <4>4, <4>5
    <3>6. From(h, m)
      BY <3>3, <3>4, <3>5
    <3> QED
      BY <3>6, <2>2
  <2> QED
    BY <2>3, <2>4
<1>3. PICK g : From(g, v)
  <2>1. v \in 0 .. v /\ v \notin T
    <3>1. v \in 0 .. v
      OBVIOUS
    <3> QED
      BY <1>2, <3>1, Zenon
  <2>2. \E g : From(g, v)
    BY <2>1, Zenon
  <2> QED
    BY <2>2, Zenon
<1>4. FromEq(f, b, g)
  <2>1. \A x \in Nat : x >= v - v
    BY <1>1
  <2>2. \A x \in Nat : g[x] = FromStep(f, b, g, x)
    BY <1>3, <2>1
  <2> QED
    BY <1>3, <2>2 DEF FromEq
<1> QED
  BY <1>4, Zenon DEF FromOf

(* What is taken of the places from x on.                                  *)
Taken(f, b, T, x) ==
  /\ \A y \in T : y \in Nat /\ y >= x /\ y < Len(f) - Len(b) /\ B!Occurs(f, b, y)
  /\ \A y, z \in T : y < z => z >= (y + Len(b)) + 1
  /\ \A y \in Nat : y >= x /\ y < Len(f) - Len(b) /\ B!Occurs(f, b, y) =>
       \E z \in T : z <= y /\ y <= z + Len(b)

LEMMA TakenFirst ==
  ASSUME NEW f \in Content, NEW b \in Content, Len(b) <= Len(f), NEW x \in Nat,
         x < Len(f) - Len(b), B!Occurs(f, b, x), NEW T, Taken(f, b, T, (x + Len(b)) + 1)
  PROVE  Taken(f, b, {x} \cup T, x)
<1>1. PICK n \in Nat, v \in Nat : n = Len(b) /\ v = Len(f) - Len(b)
  <2>1. Len(b) \in Nat /\ Len(f) \in Nat /\ Len(b) <= Len(f)
    BY DEF Content
  <2>2. Len(f) - Len(b) \in Nat
    BY <2>1
  <2> QED
    BY <2>1, <2>2
<1>2. \A y \in T : y \in Nat /\ y >= (x + n) + 1 /\ y < v /\ B!Occurs(f, b, y)
  BY <1>1 DEF Taken
<1>3. \A y \in {x} \cup T : y \in Nat /\ y >= x /\ y < v /\ B!Occurs(f, b, y)
  BY <1>1, <1>2
<1>4. ASSUME NEW y \in {x} \cup T, NEW z \in {x} \cup T, y < z PROVE z >= (y + n) + 1
  <2>1. y \in Nat /\ z \in Nat /\ z # x
    <3>1. y >= x /\ y \in Nat /\ z \in Nat
      BY <1>3
    <3> QED
      BY <3>1, <1>4
  <2>2. z \in T /\ z >= (x + n) + 1
    BY <2>1, <1>2
  <2> QED
    BY <2>2, <1>1, <1>4 DEF Taken
<1>5. ASSUME NEW y \in Nat, y >= x, y < v, B!Occurs(f, b, y)
      PROVE  \E z \in {x} \cup T : z <= y /\ y <= z + n
  <2>1. CASE y <= x + n
    BY <2>1, <1>5
  <2>2. CASE ~(y <= x + n)
    <3>1. y >= (x + n) + 1
      BY <2>2, <1>1
    <3>2. \E z \in T : z <= y /\ y <= z + n
      BY <3>1, <1>1, <1>5 DEF Taken
    <3> QED
      BY <3>2
  <2> QED
    BY <2>1, <2>2
<1> QED
  BY <1>1, <1>3, <1>4, <1>5 DEF Taken

LEMMA TakenLater ==
  ASSUME NEW f \in Content, NEW b \in Content, Len(b) <= Len(f), NEW x \in Nat,
         ~B!Occurs(f, b, x), NEW T, Taken(f, b, T, x + 1)
  PROVE  Taken(f, b, T, x)
<1>1. \A y \in T : y \in Nat /\ y >= x + 1 => y >= x
  OBVIOUS
<1>2. \A y \in Nat : y >= x /\ B!Occurs(f, b, y) => y >= x + 1
  <2> SUFFICES ASSUME NEW y \in Nat, y >= x, B!Occurs(f, b, y) PROVE y >= x + 1
    OBVIOUS
  <2>1. y # x
    OBVIOUS
  <2> QED
    BY <2>1
<1> QED
  BY <1>1, <1>2 DEF Taken

LEMMA TakenPlaces ==
  ASSUME NEW f \in Content, NEW b \in Content, Len(b) <= Len(f)
  PROVE  Taken(f, b, B!Places(f, b), 0)
<1>1. PICK v \in Nat, n \in Nat : n = Len(b) /\ v = Len(f) - Len(b)
  <2>1. Len(b) \in Nat /\ Len(f) \in Nat /\ Len(b) <= Len(f)
    BY DEF Content
  <2>2. Len(f) - Len(b) \in Nat
    BY <2>1
  <2> QED
    BY <2>1, <2>2
<1>2. PICK g : g = FromOf(f, b)
  OBVIOUS
<1>3. ASSUME NEW x \in Nat PROVE g[x] = FromStep(f, b, g, x)
  BY <1>2, FromExists DEF FromEq
<1>4. ASSUME NEW x \in Nat, x >= v PROVE Taken(f, b, g[x], x)
  <2>1. g[x] = {}
    BY <1>1, <1>3, <1>4 DEF FromStep
  <2>2. \A y \in Nat : ~(y >= x /\ y < v)
    BY <1>1, <1>4
  <2> QED
    BY <2>1, <2>2, <1>1 DEF Taken
<1> DEFINE T == {m \in 0 .. v : ~Taken(f, b, g[v - m], v - m)}
<1>5. T = {}
  <2> SUFFICES ASSUME T # {} PROVE FALSE
    OBVIOUS
  <2>1. PICK m \in T : \A y \in T : m <= y
    <3>1. T \in SUBSET Nat
      BY <1>1
    <3> QED
      BY <3>1, Least
  <2>0. m \in 0 .. v /\ ~Taken(f, b, g[v - m], v - m)
    BY <2>1
  <2>2. PICK x \in Nat : x = v - m
    <3>1. v - m \in Nat
      BY <2>0, <1>1
    <3> QED
      BY <3>1
  <2>3. ~Taken(f, b, g[x], x) /\ m \in 0 .. v /\ x < v
    <3>1. ~Taken(f, b, g[x], x)
      BY <2>0, <2>2
    <3>2. ~(x >= v)
      BY <3>1, <1>4
    <3> QED
      BY <3>1, <3>2, <2>0
  <2>4. ASSUME NEW y \in Nat, y > x PROVE Taken(f, b, g[y], y)
    <3>1. CASE y >= v
      BY <3>1, <1>4
    <3>2. CASE ~(y >= v)
      <4>1. PICK m2 \in 0 .. v : m2 = v - y
        <5>1. v - y \in 0 .. v
          BY <3>2, <1>1
        <5> QED
          BY <5>1
      <4>2. y = v - m2 /\ m2 < m
        <5>1. m \in Int /\ v \in Int
          BY <2>0, <1>1
        <5> HIDE DEF T
        <5> QED
          BY <5>1, <4>1, <2>2, <2>4
      <4>3. m2 \notin T
        BY <4>2, <2>1, <2>3, <4>1
      <4> QED
        BY <4>2, <4>3
    <3> QED
      BY <3>1, <3>2
  <2>5. CASE B!Occurs(f, b, x)
    <3>1. (x + n) + 1 \in Nat /\ (x + n) + 1 > x
      BY <1>1
    <3>2. Taken(f, b, g[(x + n) + 1], (x + n) + 1)
      BY <3>1, <2>4
    <3>3. g[x] = {x} \cup g[(x + n) + 1]
      <4>1. ~(x >= Len(f) - Len(b))
        BY <1>1, <2>3
      <4>2. FromStep(f, b, g, x) = {x} \cup g[B!NextPlace(x, Len(b))]
        BY <4>1, <2>5, Zenon DEF FromStep
      <4>3. B!NextPlace(x, Len(b)) = (x + n) + 1
        BY <1>1 DEF B!NextPlace
      <4> QED
        BY <4>2, <4>3, <1>3
    <3> QED
      BY <3>2, <3>3, <2>3, <2>5, <1>1, TakenFirst
  <2>6. CASE ~B!Occurs(f, b, x)
    <3>1. Taken(f, b, g[x + 1], x + 1)
      BY <2>4
    <3>2. g[x] = g[x + 1]
      <4>1. ~(x >= Len(f) - Len(b))
        BY <1>1, <2>3
      <4>2. FromStep(f, b, g, x) = g[x + 1]
        BY <4>1, <2>6, Zenon DEF FromStep
      <4> QED
        BY <4>2, <1>3
    <3> QED
      BY <3>1, <3>2, <2>3, <2>6, TakenLater
  <2> QED
    BY <2>5, <2>6
<1>6. Taken(f, b, g[0], 0)
  <2>1. v \in 0 .. v /\ v - v = 0
    BY <1>1
  <2>2. Taken(f, b, g[v - v], v - v)
    BY <2>1, <1>5
  <2> QED
    BY <2>1, <2>2
<1> QED
  BY <1>2, <1>6, PlacesAre

AllReplaced(f, b, a, g, T) ==
  /\ g \in Content /\ Len(g) = Len(f)
  /\ \A y \in T : \A k \in 1 .. Len(b) : g[y + k] = a[k]
  /\ \A x \in 1 .. Len(f) : (\A y \in T : x \notin y + 1 .. y + Len(b)) => g[x] = f[x]

LEMMA ReplacedIs ==
  ASSUME NEW f \in Content, NEW b \in Content, NEW a \in Content, Len(a) = Len(b), Len(b) <= Len(f)
  PROVE  AllReplaced(f, b, a, B!Replaced(f, b, a), B!Places(f, b))
<1>1. PICK v \in Nat, n \in Nat : n = Len(b) /\ v = Len(f)
  BY DEF Content
<1>2. PICK T : T = B!Places(f, b)
  OBVIOUS
<1>3. /\ \A y \in T : y \in Nat /\ y < v - n
      /\ \A y, z \in T : y < z => z >= (y + n) + 1
  BY <1>1, <1>2, TakenPlaces DEF Taken
<1> DEFINE Last(x) == B!Max({y \in T : y < x})
<1>4. ASSUME NEW y \in T, NEW x \in y + 1 .. y + n PROVE Last(x) = y
  <2>0. y \in Nat
    BY <1>3
  <2>1. y \in {z \in T : z < x}
    BY <2>0
  <2>2. ASSUME NEW z \in {w \in T : w < x} PROVE z \in Int /\ y >= z
    <3>1. z \in Nat /\ z < x /\ z \in T
      BY <1>3
    <3>2. CASE y < z
      <4>1. z >= (y + n) + 1
        BY <3>1, <3>2, <1>3
      <4> QED
        BY <4>1, <3>1, <2>0, <1>1
    <3> QED
      BY <3>1, <3>2, <2>0
  <2> QED
    BY <2>1, <2>2, MaxOf
<1>5. PICK g : g = [x \in 1 .. v |-> IF \E y \in T : x \in y + 1 .. y + n THEN a[x - Last(x)] ELSE f[x]]
  OBVIOUS
<1>6. B!Replaced(f, b, a) = g
  <2>1. DOMAIN f = 1 .. v
    BY <1>1 DEF Content
  <2> QED
    BY <2>1, <1>1, <1>2, <1>5 DEF B!Replaced
<1>7. ASSUME NEW x \in 1 .. v, NEW y \in T, x \in y + 1 .. y + n
      PROVE  g[x] = a[x - y] /\ x - y \in 1 .. n
  <2>1. Last(x) = y
    BY <1>4, <1>7
  <2>2. g[x] = a[x - Last(x)]
    BY <1>5, <1>7
  <2> QED
    BY <2>1, <2>2, <1>1, <1>3, <1>7
<1>8. \A x \in 1 .. v : (\A y \in T : x \notin y + 1 .. y + n) => g[x] = f[x]
  BY <1>5
<1>9. g \in Content /\ Len(g) = v
  <2>1. \A x \in 1 .. v : g[x] \in Nat
    <3> SUFFICES ASSUME NEW x \in 1 .. v PROVE g[x] \in Nat
      OBVIOUS
    <3>1. CASE \E y \in T : x \in y + 1 .. y + n
      <4>1. PICK y \in T : x \in y + 1 .. y + n
        BY <3>1
      <4>2. g[x] = a[x - y] /\ x - y \in 1 .. Len(a)
        BY <4>1, <1>1, <1>7
      <4>3. \A k \in 1 .. Len(a) : a[k] \in Nat
        BY DEF Content
      <4> QED
        BY <4>2, <4>3
    <3>2. CASE ~\E y \in T : x \in y + 1 .. y + n
      <4>1. g[x] = f[x]
        BY <3>2, <1>8
      <4>2. f[x] \in Nat
        BY <1>1 DEF Content
      <4> QED
        BY <4>1, <4>2
    <3> QED
      BY <3>1, <3>2
  <2>2. g \in [1 .. v -> Nat]
    BY <2>1, <1>5
  <2> QED
    BY <2>2 DEF Content
<1>10. ASSUME NEW y \in T, NEW k \in 1 .. n PROVE g[y + k] = a[k]
  <2>1. y \in Nat /\ y + k \in 1 .. v /\ y + k \in y + 1 .. y + n /\ (y + k) - y = k
    BY <1>1, <1>3
  <2> QED
    BY <2>1, <1>7
<1>11. AllReplaced(f, b, a, g, T)
  BY <1>1, <1>8, <1>9, <1>10 DEF AllReplaced
<1> QED
  BY <1>2, <1>6, <1>11, Zenon

ReplaceInv ==
  /\ pc = "closed" /\ ret = 0 /\ side = "none" /\ args \in Searches
  /\ comp \in [1 .. CompSize -> Nat] /\ B!Replaces

LEMMA ReplacesNow == ASSUME tool = "binreplace", ReplaceInv, B!Binreplace PROVE ReplaceInv'
<1>1. /\ was' \in Games /\ Len(was') >= B!Room /\ UNCHANGED <<tool, pc, args, B!checkvars, side, ret>>
      /\ args.before # <<>> => file' = B!Replaced(was', args.before, args.after)
  BY DEF B!Binreplace
<1>2. B!Replaces'
  <2> SUFFICES ASSUME args.before # <<>> PROVE B!Replaces'
    BY <1>1 DEF B!Replaces
  <2>1. PICK b \in Content, a \in Content, f \in Content :
           b = args.before /\ a = args.after /\ f = was' /\ Len(a) = Len(b)
    <3>1. /\ args.before \in Content /\ args.after \in Content /\ Len(args.after) = Len(args.before)
      BY PatchersAssumption DEF B!BytesAssumption, ReplaceInv, Content
    <3> QED
      BY <3>1, <1>1, CompType
  <2>2. b # <<>> /\ Len(b) <= Len(f)
    <3>1. B!Room = Len(b)
      BY <2>1 DEF B!Room
    <3>2. Len(b) \in Nat /\ Len(f) \in Nat
      BY DEF Content
    <3> QED
      BY <3>1, <3>2, <2>1, <1>1
  <2>3. PICK g : g = file' /\ g = B!Replaced(f, b, a)
    BY <2>1, <1>1
  <2>4. PICK T : T = B!Places(f, b)
    OBVIOUS
  <2>5. /\ g \in Content /\ Len(g) = Len(f)
        /\ \A y \in T : \A k \in 1 .. Len(b) : g[y + k] = a[k]
        /\ \A x \in 1 .. Len(f) : (\A y \in T : x \notin y + 1 .. y + Len(b)) => g[x] = f[x]
    <3>1. AllReplaced(f, b, a, B!Replaced(f, b, a), B!Places(f, b))
      BY <2>1, <2>2, ReplacedIs
    <3> QED
      BY <2>3, <2>4, <3>1, Zenon DEF AllReplaced
  <2>6. PICK n \in Nat, v \in Nat : n = Len(b) /\ v = Len(f)
    <3>1. b \in Seq(Nat) /\ f \in Seq(Nat)
      BY Zenon DEF Content
    <3>2. Len(b) \in Nat /\ Len(f) \in Nat
      BY <3>1, LenProperties
    <3> QED
      BY <3>2, Zenon
  <2>7. Taken(f, b, T, 0)
    BY <2>2, <2>4, TakenPlaces
  <2>8. ASSUME NEW y \in T
        PROVE  y \in 0 .. v - n /\ B!Occurs(f, b, y) /\ B!Occurs(g, a, y)
    <3>1. y \in Nat /\ y < v - n /\ B!Occurs(f, b, y)
      BY <2>6, <2>7 DEF Taken
    <3>2. y + Len(a) <= Len(g)
      BY <3>1, <2>1, <2>5, <2>6
    <3>3. (SubSeq(g, y + 1, y + Len(a)) = a) <=> \A k \in 1 .. Len(a) : g[y + k] = a[k]
      BY <3>1, <3>2, <2>5, PieceIs
    <3>4. B!Occurs(g, a, y)
      BY <3>3, <2>1, <2>5 DEF B!Occurs
    <3> QED
      BY <3>1, <3>4, <2>6
  <2> DEFINE new == {x \in 0 .. v - n : B!Occurs(f, b, x) /\ B!Occurs(g, a, x)}
  <2>9. T \subseteq new
    BY <2>8
  <2>10. ASSUME NEW x \in DOMAIN f, g[x] # f[x] PROVE \E y \in new : x \in y + 1 .. y + n
    <3>1. x \in 1 .. Len(f)
      BY DEF Content
    <3>2. \E y \in T : x \in y + 1 .. y + Len(b)
      BY <3>1, <2>5, <2>10
    <3> QED
      BY <3>2, <2>6, <2>9
  <2>11. ASSUME NEW x \in 0 .. (v - n) - 1, B!Occurs(f, b, x) PROVE \E y \in new : x \in y .. y + n
    <3>1. \E y \in T : y <= x /\ x <= y + n
      BY <2>6, <2>7, <2>11 DEF Taken
    <3> QED
      BY <3>1, <2>6, <2>8, <2>9
  <2> HIDE DEF new
  <2>12. /\ Len(g) = Len(f)
         /\ \A x \in DOMAIN f : g[x] # f[x] => \E y \in new : x \in y + 1 .. y + n
         /\ \A x \in 0 .. (v - n) - 1 : B!Occurs(f, b, x) => \E y \in new : x \in y .. y + n
    BY <2>5, <2>10, <2>11
  <2>13. /\ args' = args /\ was' = f /\ file' = g /\ args.before = b /\ args.after = a
    BY <1>1, <2>1, <2>3
  <2> QED
    BY <2>6, <2>12, <2>13 DEF B!Replaces, B!Occurs, new
<1> QED
  BY <1>1, <1>2 DEF ReplaceInv, B!checkvars

-----------------------------------------------------------------------------
(***************************************************************************)
(* Of all the tools together.                                              *)
(***************************************************************************)
BytesInv == /\ Patcher => PatcherInv
            /\ tool = "binreplace" => ReplaceInv

LEMMA BytesInit == Init => BytesInv
<1> SUFFICES ASSUME Init, tool \in BytesTools PROVE BytesInv
  BY DEF BytesInv, BytesTools, Patcher
<1>1. B!Init
  BY DEF Init, BytesTools
<1>2. /\ pc = "closed" /\ file = <<>> /\ was = <<>> /\ games = 0 /\ side = "none" /\ ret = 0
      /\ comp = [k \in 1 .. CompSize |-> 0]
  BY <1>1 DEF B!Init, B!OwnInit
<1>3. comp \in [1 .. CompSize -> Nat]
  BY <1>2
<1>4. <<>> \in Content
  BY DEF Content
<1>5. CASE Patcher
  <2>1. args \in Databases /\ tool # "binreplace"
    BY <1>1, <1>5 DEF B!Init, Patcher
  <2>2. PatcherTypes
    BY <1>2, <1>3, <1>4, <2>1 DEF PatcherTypes
  <2>3. B!Invertible /\ B!Finds
    BY <1>2 DEF B!Invertible, B!Finds
  <2>4. PatcherInv
    BY <1>2, <2>2, <2>3 DEF PatcherInv, Phases
  <2> QED
    BY <2>1, <2>4 DEF BytesInv
<1>6. CASE tool = "binreplace"
  <2>1. args \in Searches
    BY <1>1, <1>6 DEF B!Init
  <2>2. B!Replaces
    BY <1>2 DEF B!Replaces
  <2> QED
    BY <1>2, <1>3, <1>6, <2>1, <2>2 DEF BytesInv, ReplaceInv, Patcher
<1> QED
  BY <1>5, <1>6 DEF BytesTools, Patcher

LEMMA PatcherStutters ==
  ASSUME PatcherInv, UNCHANGED <<tool, pc, file, ret, args, was, games, entry, record, comp,
                                 differ_before, differ_after, side>>
  PROVE  PatcherInv'
<1>1. PatcherTypes'
  BY DEF PatcherInv, PatcherTypes
<1>2. /\ B!InFile(entry)' <=> B!InFile(entry)
      /\ B!Apart(entry)' <=> B!Apart(entry)
      /\ \A e : FitsOne(e)' <=> FitsOne(e)
  BY DEF B!InFile, B!Apart, B!Holds, B!Bytes, B!Side, FitsOne, B!ID, B!Bad
<1>3. \A f, s : B!Holds(f, entry, s)' <=> B!Holds(f, entry, s)
  BY DEF B!Holds, B!Side
<1>4. /\ B!Holds(was, entry, B!Other(side))' <=> B!Holds(was, entry, B!Other(side))
      /\ B!Holds(file, entry, side)' <=> B!Holds(file, entry, side)
  BY DEF B!Holds, B!Side, B!Other
<1>5. AtRecord' <=> AtRecord
  BY DEF AtRecord, Recs
<1>6. Checked' <=> Checked
  <2>1. \A s : Seen(record - 1, s)' <=> Seen(record - 1, s)
    BY DEF Seen, Has, Recs, B!Side
  <2> QED
    BY <1>2, <1>5, <2>1 DEF Checked, Flags
<1>7. Writing' <=> Writing
  <2>1. WrittenUpto(record - 1)' <=> WrittenUpto(record - 1)
    BY <1>4 DEF WrittenUpto, Has, Recs, B!Side, B!Bytes
  <2> QED
    BY <1>2, <1>5, <2>1 DEF Writing
<1>8. B!Invertible' <=> B!Invertible
  <2>1. B!Changed(entry)' = B!Changed(entry)
    BY DEF B!Changed, B!Bytes
  <2> QED
    BY <1>2, <1>4, <2>1 DEF B!Invertible
<1>9. B!Finds' <=> B!Finds
  BY DEF B!Finds, B!ID, B!Bad, B!InFile, B!Holds, B!Side
<1>10. Missed' <=> Missed
  BY <1>2 DEF Missed
<1> QED
  BY <1>1, <1>6, <1>7, <1>8, <1>9, <1>10 DEF PatcherInv, Phases

LEMMA BytesNext == BytesInv /\ [Next]_vars => BytesInv'
<1> SUFFICES ASSUME BytesInv, [Next]_vars PROVE BytesInv'
  OBVIOUS
<1>1. CASE UNCHANGED vars
  <2>1. UNCHANGED <<tool, pc, file, ret, args, was, games, entry, record, comp,
                    differ_before, differ_after, side>>
    BY <1>1 DEF vars, onlyBytes
  <2>2. CASE Patcher
    BY <2>1, <2>2, PatcherStutters DEF BytesInv, Patcher
  <2>3. CASE tool = "binreplace"
    <3>1. B!Replaces' <=> B!Replaces
      BY <2>1 DEF B!Replaces, B!Occurs
    <3> QED
      BY <2>1, <2>3, <3>1 DEF BytesInv, Patcher, ReplaceInv
  <2>4. CASE ~Patcher /\ tool # "binreplace"
    BY <2>1, <2>4 DEF BytesInv, Patcher
  <2> QED
    BY <2>2, <2>3, <2>4
<1>2. CASE Dldipatch \/ Mergecheat \/ Splashes \/ Unlzop
  <2>1. tool \notin BytesTools /\ tool' = tool
    BY <1>2 DEF Dldipatch, Mergecheat, Splashes, Unlzop, BytesTools
  <2> QED
    BY <2>1 DEF BytesInv, Patcher, BytesTools
<1>3. CASE Patchers
  <2>1. tool \in BytesTools /\ B!Next
    BY <1>3 DEF Patchers
  <2>2. tool' = tool
    BY <2>1 DEF B!Next, B!Open, B!Search, B!Check, B!Decide, B!Write, B!Written, B!Binreplace
  <2>3. CASE Patcher
    <3>1. PatcherInv /\ tool # "binreplace"
      BY <2>3 DEF BytesInv, Patcher
    <3>2. ~B!Binreplace
      BY <3>1 DEF B!Binreplace
    <3>3. PatcherInv'
      BY <2>1, <2>3, <3>1, <3>2, PatcherOpen, PatcherSearch, PatcherCheck, PatcherDecide,
         PatcherWrite, PatcherWritten DEF B!Next
    <3> QED
      BY <2>2, <3>1, <3>3 DEF BytesInv
  <2>4. CASE tool = "binreplace"
    <3>1. ReplaceInv
      BY <2>4 DEF BytesInv
    <3>2. pc = "closed"
      BY <3>1 DEF ReplaceInv
    <3>3. B!Binreplace
      BY <2>1, <2>4, <3>2 DEF B!Next, B!Open, B!Search, B!Check, B!Decide, B!Write, B!Written
    <3>4. ReplaceInv'
      BY <2>4, <3>1, <3>3, ReplacesNow
    <3> QED
      BY <2>2, <2>4, <3>4 DEF BytesInv, Patcher
  <2> QED
    BY <2>1, <2>3, <2>4 DEF BytesTools, Patcher
<1> QED
  BY <1>1, <1>2, <1>3 DEF Next

LEMMA BytesImplies == BytesInv => PatchesWhole
<1> SUFFICES ASSUME BytesInv, tool \in BytesTools
             PROVE  B!TypeOK /\ B!Invertible /\ B!Finds /\ B!Replaces
  BY DEF PatchesWhole
<1>1. ASSUME comp \in [1 .. CompSize -> Nat] PROVE Len(comp) = CompSize
  BY <1>1, CompType
<1>2. CASE Patcher
  <2>1. PatcherInv /\ tool # "binreplace"
    BY <1>2 DEF BytesInv, Patcher
  <2>2. B!TypeOK
    BY <1>1, <2>1 DEF PatcherInv, PatcherTypes, B!TypeOK
  <2>3. B!Invertible
    BY <2>1 DEF PatcherInv, Phases, B!Invertible
  <2>4. B!Finds
    BY <2>1 DEF PatcherInv, Phases, B!Finds
  <2>5. B!Replaces
    BY <2>1 DEF B!Replaces
  <2> QED
    BY <2>2, <2>3, <2>4, <2>5
<1>3. CASE tool = "binreplace"
  <2>1. ReplaceInv
    BY <1>3 DEF BytesInv
  <2>2. B!TypeOK
    BY <1>1, <2>1 DEF ReplaceInv, B!TypeOK
  <2>3. B!Invertible /\ B!Finds
    BY <1>3 DEF B!Invertible, B!Finds
  <2> QED
    BY <2>1, <2>2, <2>3 DEF ReplaceInv
<1> QED
  BY <1>2, <1>3 DEF BytesTools, Patcher

(***************************************************************************)
(* openpatch and openpatch_single write to a game only when it has all of  *)
(* one side of an entry, and leave it with all of the other; what is said  *)
(* not to be in the database fits none of its entries; and binreplace      *)
(* changes whole strings only: whatever the database and the games are.    *)
(***************************************************************************)
THEOREM PatchesWholeCorrect == Spec => []PatchesWhole
<1>1. Init => BytesInv
  BY BytesInit
<1>2. BytesInv /\ [Next]_vars => BytesInv'
  BY BytesNext
<1>3. BytesInv => PatchesWhole
  BY BytesImplies
<1> QED
  BY <1>1, <1>2, <1>3, PTL DEF Spec

-----------------------------------------------------------------------------
(***************************************************************************)
(* Words of dldipatch.                                                     *)
(***************************************************************************)
LEMMA WordsAre == Words \in Nat \ {0} /\ Entries \in Nat /\ D!Word = 0 .. Words - 1
BY DldiAssumption DEF D!DldiAssumption, D!Word

LEMMA Offsets ==
  /\ D!dataStart = 1 /\ D!dataEnd = 2 /\ D!glueStart = 3 /\ D!glueEnd = 4 /\ D!gotStart = 5
  /\ D!gotEnd = 6 /\ D!bssStart = 7 /\ D!bssEnd = 8 /\ D!dldiStartup = 10
  /\ D!dldiData \in Nat /\ D!dldiData >= 10
  /\ 1 .. 8 \subseteq D!HeaderPointers /\ D!HeaderPointers \subseteq 1 .. D!dldiData - 1
BY WordsAre DEF D!dataStart, D!dataEnd, D!glueStart, D!glueEnd, D!gotStart, D!gotEnd, D!bssStart,
   D!bssEnd, D!dldiStartup, D!dldiData, D!HeaderPointers, D!ioType

LEMMA PassesAre ==
  \A k \in 1 .. 3 : D!Passes[k].from \in 1 .. 8 /\ D!Passes[k].to \in 1 .. 8
BY Offsets DEF D!Passes

LEMMA WordOps ==
  ASSUME NEW a \in D!Word, NEW b \in D!Word
  PROVE  D!Plus(a, b) \in D!Word /\ D!Minus(a, b) \in D!Word
BY WordsAre DEF D!Plus, D!Minus

(* A word of what is linked for b, moved to what is linked for t.          *)
LEMMA MovedWord ==
  ASSUME NEW t \in Nat, NEW b \in Nat, NEW v \in Nat, NEW s \in Nat,
         t + s < Words, b <= v, v <= b + s, b + s < Words
  PROVE  /\ D!Plus(v, D!Minus(t, b)) = t + (v - b)
         /\ t + (v - b) \in D!Word /\ D!Minus(v, b) = v - b
BY WordsAre DEF D!Plus, D!Minus

(* What a word that is moved is relative to.                               *)
LEMMA MovedFrom ==
  ASSUME NEW v \in D!Word, NEW t \in D!Word, NEW b \in D!Word
  PROVE  D!Minus(D!Plus(v, D!Minus(t, b)), t) = D!Minus(v, b)
BY WordsAre DEF D!Plus, D!Minus

-----------------------------------------------------------------------------
(***************************************************************************)
(* Drivers: d is the driver u, linked for another address.                 *)
(***************************************************************************)
LEMMA DriverIs ==
  ASSUME NEW d, D!IsDriver(d)
  PROVE  /\ \A o \in DOMAIN d : d[o] \in D!Word
         /\ \A o \in D!HeaderPointers :
              /\ o \in DOMAIN d /\ d[o] \in Nat /\ d[o] < Words
              /\ d[1] <= d[o] /\ d[o] <= d[8] /\ D!Minus(d[o], d[1]) = d[o] - d[1]
         /\ D!Size(d) = d[8] - d[1] /\ D!Initialized(d) = d[7] - d[1]
         /\ D!Size(d) \in Nat /\ D!Initialized(d) \in Nat /\ D!Initialized(d) <= D!Size(d)
         /\ D!dldiData <= D!Initialized(d) /\ d[1] + D!Size(d) < Words
         /\ 0 .. D!Initialized(d) - 1 \subseteq DOMAIN d
         /\ \A o : D!PointsInto(d, d[o]) <=> d[1] <= d[o] /\ d[o] < d[8]
         /\ \A k \in 1 .. 3 : d[D!Passes[k].to] <= d[7]
<1>1. \A o \in DOMAIN d : d[o] \in D!Word
  BY DEF D!IsDriver
<1>2. \A o \in D!HeaderPointers :
        /\ o \in DOMAIN d /\ d[o] \in Nat /\ d[o] < Words /\ d[1] <= d[o] /\ d[o] <= d[8]
  <2>1. \A o \in D!HeaderPointers : o \in DOMAIN d
    BY Offsets DEF D!IsDriver
  <2>2. \A o \in D!HeaderPointers : d[o] \in Nat /\ d[o] < Words
    BY <1>1, <2>1, WordsAre
  <2>3. \A o \in D!HeaderPointers : d[1] <= d[o] /\ d[o] <= d[8]
    BY Offsets DEF D!IsDriver
  <2> QED
    BY <2>1, <2>2, <2>3
<1>3. {1, 7, 8} \subseteq D!HeaderPointers
  BY Offsets
<1>4. /\ d[1] \in Nat /\ d[7] \in Nat /\ d[8] \in Nat /\ d[1] <= d[7] /\ d[7] <= d[8] /\ d[8] < Words
      /\ d[1] <= d[8]
  BY <1>2, <1>3
<1>5. \A o \in D!HeaderPointers : D!Minus(d[o], d[1]) = d[o] - d[1]
  BY <1>2, <1>4 DEF D!Minus
<1>6. D!Size(d) = d[8] - d[1] /\ D!Initialized(d) = d[7] - d[1]
  BY <1>4, <1>5, <1>3, Offsets DEF D!Size, D!Initialized
<1>7. D!dldiData <= D!Initialized(d) /\ 0 .. D!Initialized(d) - 1 \subseteq DOMAIN d
  BY DEF D!IsDriver
<1>8. \A o : D!PointsInto(d, d[o]) <=> d[1] <= d[o] /\ d[o] < d[8]
  BY Offsets DEF D!PointsInto
<1>9. \A k \in 1 .. 3 : d[D!Passes[k].to] <= d[7]
  BY Offsets DEF D!IsDriver
<1>10. /\ D!Size(d) \in Nat /\ D!Initialized(d) \in Nat /\ D!Initialized(d) <= D!Size(d)
       /\ d[1] + D!Size(d) < Words
  BY <1>4, <1>6, WordsAre
<1> QED
  BY <1>1, <1>2, <1>5, <1>6, <1>7, <1>8, <1>9, <1>10

LinkedFor(d, u, b) ==
  /\ b \in Nat /\ b + D!Size(u) < Words
  /\ d \in [DOMAIN d -> D!Word] /\ 0 .. D!Initialized(u) - 1 \subseteq DOMAIN d
  /\ \A o \in 0 .. D!Initialized(u) - 1 :
       d[o] = D!Relocated(u, b, o) /\ (D!Moves(d, o) <=> D!Moves(u, o))

(* What moves, moves by the same distance.                                 *)
LEMMA MovesBy ==
  ASSUME NEW u, D!IsDriver(u), NEW b \in Nat, b + D!Size(u) < Words,
         NEW o \in 0 .. D!Initialized(u) - 1
  PROVE  /\ D!Moves(u, o) => /\ u[o] \in Nat /\ u[1] <= u[o] /\ u[o] <= u[8]
                             /\ D!Relocated(u, b, o) = b + (u[o] - u[1])
         /\ ~D!Moves(u, o) => D!Relocated(u, b, o) = u[o]
         /\ D!Relocated(u, b, o) \in D!Word
<1>1. /\ u[o] \in Nat /\ u[1] \in Nat /\ u[8] \in Nat /\ u[o] < Words
      /\ D!Size(u) = u[8] - u[1] /\ u[1] + D!Size(u) < Words /\ D!Size(u) \in Nat
  <2>1. u[o] \in D!Word
    BY DriverIs
  <2>2. {1, 8} \subseteq D!HeaderPointers
    BY Offsets
  <2>3. u[1] \in Nat /\ u[8] \in Nat
    BY <2>2, DriverIs
  <2>4. D!Size(u) = u[8] - u[1] /\ u[1] + D!Size(u) < Words /\ D!Size(u) \in Nat
    BY DriverIs
  <2> QED
    BY <2>1, <2>3, <2>4, WordsAre
<1>2. CASE D!Moves(u, o)
  <2>1. u[1] <= u[o] /\ u[o] <= u[8]
    <3>1. CASE o \in D!HeaderPointers
      BY <3>1, DriverIs
    <3>2. CASE D!PointsInto(u, u[o])
      <4>1. u[1] <= u[o] /\ u[o] < u[8]
        BY <3>2, DriverIs
      <4> QED
        BY <4>1, <1>1
    <3> QED
      BY <1>2, <3>1, <3>2 DEF D!Moves
  <2>2. u[o] <= u[1] + D!Size(u)
    BY <1>1, <2>1
  <2>3. D!Plus(u[o], D!Minus(b, u[1])) = b + (u[o] - u[1]) /\ b + (u[o] - u[1]) \in D!Word
    BY <1>1, <2>1, <2>2, MovedWord
  <2>4. D!Relocated(u, b, o) = D!Plus(u[o], D!Minus(b, u[1]))
    BY <1>2, Offsets DEF D!Relocated
  <2> QED
    BY <1>1, <1>2, <2>1, <2>3, <2>4
<1>3. CASE ~D!Moves(u, o)
  <2>1. D!Relocated(u, b, o) = u[o]
    BY <1>3 DEF D!Relocated
  <2> QED
    BY <1>1, <1>3, <2>1, WordsAre
<1> QED
  BY <1>2, <1>3

LEMMA LinkedHeader ==
  ASSUME NEW u, D!IsDriver(u), NEW b, NEW d, LinkedFor(d, u, b)
  PROVE  /\ d[1] = b /\ D!IsDriver(d) /\ D!Size(d) = D!Size(u) /\ D!Initialized(d) = D!Initialized(u)
         /\ \A o \in D!HeaderPointers : d[o] = b + (u[o] - u[1])
         /\ \A o : \A k \in 1 .. 3 : D!Part(d, o, D!Passes[k]) <=> D!Part(u, o, D!Passes[k])
<1>1. b \in Nat /\ b + D!Size(u) < Words
  BY DEF LinkedFor
<1>2. /\ D!Size(u) = u[8] - u[1] /\ D!Initialized(u) = u[7] - u[1] /\ D!Size(u) \in Nat
      /\ D!Initialized(u) \in Nat /\ D!dldiData <= D!Initialized(u) /\ D!dldiData \in Nat
      /\ u[1] \in Nat /\ u[7] \in Nat /\ u[8] \in Nat
  <2>1. {1, 7, 8} \subseteq D!HeaderPointers
    BY Offsets
  <2> QED
    BY <2>1, DriverIs, Offsets
<1>3. ASSUME NEW o \in D!HeaderPointers
      PROVE  /\ d[o] = b + (u[o] - u[1]) /\ u[o] \in Nat /\ u[1] <= u[o] /\ u[o] <= u[8]
             /\ u[o] - u[1] \in Nat /\ u[o] - u[1] <= D!Size(u)
  <2>1. o \in 0 .. D!Initialized(u) - 1
    BY <1>2, Offsets
  <2>2. D!Moves(u, o)
    BY DEF D!Moves
  <2>3. d[o] = D!Relocated(u, b, o)
    BY <2>1 DEF LinkedFor
  <2>4. d[o] = b + (u[o] - u[1]) /\ u[o] \in Nat /\ u[1] <= u[o] /\ u[o] <= u[8]
    BY <1>1, <2>1, <2>2, <2>3, MovesBy
  <2> QED
    BY <1>2, <2>4
<1>4. 1 \in D!HeaderPointers /\ 7 \in D!HeaderPointers /\ 8 \in D!HeaderPointers
  BY Offsets
<1>5. d[1] = b /\ d[8] = b + D!Size(u) /\ d[7] = b + D!Initialized(u)
  <2>1. d[1] = b + (u[1] - u[1]) /\ d[8] = b + (u[8] - u[1]) /\ d[7] = b + (u[7] - u[1])
    BY <1>3, <1>4
  <2> QED
    BY <2>1, <1>1, <1>2
<1>6. \A o \in D!HeaderPointers : D!Minus(d[o], d[1]) = u[o] - u[1] /\ d[1] <= d[o] /\ d[o] <= d[8]
  <2> SUFFICES ASSUME NEW o \in D!HeaderPointers
               PROVE  D!Minus(d[o], d[1]) = u[o] - u[1] /\ d[1] <= d[o] /\ d[o] <= d[8]
    OBVIOUS
  <2>1. PICK n \in Nat : n = u[o] - u[1] /\ d[o] = b + n /\ n <= D!Size(u)
    BY <1>3
  <2> QED
    BY <2>1, <1>1, <1>2, <1>5 DEF D!Minus
<1>7. D!Size(d) = D!Size(u) /\ D!Initialized(d) = D!Initialized(u)
  BY <1>2, <1>4, <1>6, Offsets DEF D!Size, D!Initialized
<1>8. ASSUME NEW k \in 1 .. 3
      PROVE  /\ D!Passes[k].from \in D!HeaderPointers /\ D!Passes[k].to \in D!HeaderPointers
  BY PassesAre, Offsets
<1>9. \A o : \A k \in 1 .. 3 : D!Part(d, o, D!Passes[k]) <=> D!Part(u, o, D!Passes[k])
  <2> SUFFICES ASSUME NEW o, NEW k \in 1 .. 3
               PROVE  D!Part(d, o, D!Passes[k]) <=> D!Part(u, o, D!Passes[k])
    OBVIOUS
  <2>1. /\ D!Minus(d[D!Passes[k].from], d[1]) = D!Minus(u[D!Passes[k].from], u[1])
        /\ D!Minus(d[D!Passes[k].to], d[1]) = D!Minus(u[D!Passes[k].to], u[1])
    BY <1>6, <1>8, DriverIs
  <2> QED
    BY <2>1, Offsets DEF D!Part
<1>10. \A k \in 1 .. 3 : d[D!Passes[k].to] <= d[7]
  <2> SUFFICES ASSUME NEW k \in 1 .. 3 PROVE d[D!Passes[k].to] <= d[7]
    OBVIOUS
  <2>1. PICK t \in D!HeaderPointers : t = D!Passes[k].to
    BY <1>8
  <2>2. u[t] <= u[7]
    BY <2>1, DriverIs
  <2>3. d[t] = b + (u[t] - u[1]) /\ u[t] \in Nat
    BY <2>1, <1>3
  <2> QED
    BY <2>1, <2>2, <2>3, <1>1, <1>2, <1>5
<1>11. D!IsDriver(d)
  <2>1. 0 .. D!dldiData - 1 \subseteq 0 .. D!Initialized(u) - 1
    BY <1>2
  <2> QED
    BY <2>1, <1>2, <1>6, <1>7, <1>10, Offsets DEF D!IsDriver, LinkedFor
<1> QED
  BY <1>3, <1>5, <1>7, <1>9, <1>11

(* Moved twice is moved once.                                              *)
LEMMA Compose ==
  ASSUME NEW u, D!IsDriver(u), NEW b, NEW d, LinkedFor(d, u, b), NEW t \in Nat, t + D!Size(u) < Words,
         NEW o \in 0 .. D!Initialized(u) - 1
  PROVE  D!Relocated(d, t, o) = D!Relocated(u, t, o)
<1>1. /\ d[1] = b /\ D!IsDriver(d) /\ D!Size(d) = D!Size(u) /\ D!Initialized(d) = D!Initialized(u)
      /\ b \in Nat /\ b + D!Size(u) < Words
  BY LinkedHeader DEF LinkedFor
<1>2. d[o] = D!Relocated(u, b, o) /\ (D!Moves(d, o) <=> D!Moves(u, o))
  BY DEF LinkedFor
<1>3. CASE D!Moves(u, o)
  <2>1. D!Relocated(u, b, o) = b + (u[o] - u[1]) /\ D!Relocated(u, t, o) = t + (u[o] - u[1]) /\ u[o] \in Nat
    BY <1>1, <1>3, MovesBy
  <2>2. D!Relocated(d, t, o) = t + (d[o] - d[1])
    BY <1>1, <1>2, <1>3, MovesBy
  <2>3. u[1] \in Nat
    BY DriverIs, Offsets
  <2> QED
    BY <1>1, <1>2, <2>1, <2>2, <2>3
<1>4. CASE ~D!Moves(u, o)
  <2>1. D!Relocated(u, b, o) = u[o] /\ D!Relocated(u, t, o) = u[o]
    BY <1>1, <1>4, MovesBy
  <2>2. D!Relocated(d, t, o) = d[o]
    BY <1>1, <1>2, <1>4, MovesBy
  <2> QED
    BY <1>2, <2>1, <2>2
<1> QED
  BY <1>3, <1>4

(* A driver taken out of homebrew.                                         *)
LEMMA LinkedAgain ==
  ASSUME NEW u, D!IsDriver(u), NEW b, NEW d, LinkedFor(d, u, b), NEW t \in Nat, t + D!Size(u) < Words,
         D!Stays(d, t), NEW e, e \in [DOMAIN e -> D!Word],
         0 .. D!Initialized(u) - 1 \subseteq DOMAIN e,
         \A o \in 0 .. D!Initialized(u) - 1 : e[o] = D!Relocated(d, t, o)
  PROVE  LinkedFor(e, u, t)
<1>1. /\ d[1] = b /\ D!IsDriver(d) /\ D!Size(d) = D!Size(u) /\ D!Initialized(d) = D!Initialized(u)
  BY LinkedHeader
<1>2. \A o \in 0 .. D!Initialized(u) - 1 : e[o] = D!Relocated(u, t, o)
  BY Compose
<1>0. /\ D!dldiData \in Nat /\ D!dldiData <= D!Initialized(u) /\ D!Initialized(u) \in Nat
      /\ D!Size(u) = u[8] - u[1] /\ u[1] \in Nat /\ u[8] \in Nat /\ D!Size(u) \in Nat
  <2>1. {1, 8} \subseteq D!HeaderPointers
    BY Offsets
  <2> QED
    BY <2>1, DriverIs, Offsets
<1>3. ASSUME NEW o \in D!HeaderPointers PROVE e[o] = t + (u[o] - u[1]) /\ u[o] \in Nat /\ u[1] <= u[o] /\ u[o] <= u[8]
  <2>1. o \in 0 .. D!Initialized(u) - 1
    BY <1>0, Offsets
  <2>2. D!Moves(u, o)
    BY DEF D!Moves
  <2> QED
    BY <1>2, <2>1, <2>2, MovesBy
<1>4. e[1] = t /\ e[8] = t + D!Size(u)
  <2>1. 1 \in D!HeaderPointers /\ 8 \in D!HeaderPointers
    BY Offsets
  <2>2. e[1] = t + (u[1] - u[1]) /\ e[8] = t + (u[8] - u[1])
    BY <1>3, <2>1
  <2> QED
    BY <2>2, <1>0
<1>5. \A o \in D!HeaderPointers : D!Minus(e[o], e[1]) = u[o] - u[1]
  <2> SUFFICES ASSUME NEW o \in D!HeaderPointers PROVE D!Minus(e[o], e[1]) = u[o] - u[1]
    OBVIOUS
  <2>1. PICK n \in Nat : n = u[o] - u[1] /\ e[o] = t + n
    BY <1>0, <1>3
  <2> QED
    BY <2>1, <1>4 DEF D!Minus
<1>6. ASSUME NEW o, NEW k \in 1 .. 3 PROVE D!Part(e, o, D!Passes[k]) <=> D!Part(u, o, D!Passes[k])
  <2>1. D!Passes[k].from \in D!HeaderPointers /\ D!Passes[k].to \in D!HeaderPointers
    BY PassesAre, Offsets
  <2>2. /\ D!Minus(e[D!Passes[k].from], e[1]) = D!Minus(u[D!Passes[k].from], u[1])
        /\ D!Minus(e[D!Passes[k].to], e[1]) = D!Minus(u[D!Passes[k].to], u[1])
    BY <1>5, <2>1, DriverIs
  <2> QED
    BY <2>2, Offsets DEF D!Part
<1>7. ASSUME NEW o \in 0 .. D!Initialized(u) - 1 PROVE D!Moves(e, o) <=> D!Moves(u, o)
  <2>0. D!PointsInto(e, e[o]) <=> t <= e[o] /\ e[o] < t + D!Size(u)
    BY <1>4, Offsets DEF D!PointsInto
  <2>1. CASE o \in D!HeaderPointers
    BY <2>1 DEF D!Moves
  <2>2. CASE o \notin D!HeaderPointers /\ D!Moves(u, o)
    <3>1. D!PointsInto(u, u[o]) /\ \E k \in 1 .. 3 : D!Passes[k].flag \in fix /\ D!Part(u, o, D!Passes[k])
      BY <2>2 DEF D!Moves
    <3>2. u[1] <= u[o] /\ u[o] < u[8] /\ u[o] \in Nat /\ e[o] = t + (u[o] - u[1])
      BY <1>2, <2>2, <3>1, MovesBy, DriverIs
    <3>3. D!PointsInto(e, e[o])
      BY <2>0, <3>2, <1>0
    <3> QED
      BY <2>2, <3>1, <3>3, <1>6 DEF D!Moves
  <2>3. CASE ~D!Moves(u, o)
    <3>1. e[o] = u[o] /\ d[o] = u[o] /\ ~D!Moves(d, o)
      <4>1. d[o] = D!Relocated(u, b, o) /\ b \in Nat /\ b + D!Size(u) < Words /\ ~D!Moves(d, o)
        BY <2>3 DEF LinkedFor
      <4> QED
        BY <4>1, <1>2, <2>3, MovesBy
    <3>2. ~(t <= d[o] /\ d[o] < t + D!Size(u))
      BY <3>1, <1>1 DEF D!Stays
    <3>3. ~D!PointsInto(e, e[o]) /\ o \notin D!HeaderPointers
      BY <2>0, <2>3, <3>1, <3>2 DEF D!Moves
    <3> QED
      BY <2>3, <3>3 DEF D!Moves
  <2> QED
    BY <2>1, <2>2, <2>3
<1> QED
  BY <1>2, <1>7 DEF LinkedFor

(* A driver is linked for its own address.                                 *)
LEMMA LinkedFirst ==
  ASSUME NEW u, D!IsDriver(u)
  PROVE  LinkedFor(u, u, u[D!dataStart])
<1>1. u[1] \in Nat /\ u[1] + D!Size(u) < Words /\ 1 \in D!HeaderPointers
  BY DriverIs, Offsets
<1>2. ASSUME NEW o \in 0 .. D!Initialized(u) - 1 PROVE u[o] = D!Relocated(u, u[1], o)
  <2>1. u[o] \in D!Word
    BY DriverIs
  <2>2. D!Minus(u[1], u[1]) = 0
    BY <1>1 DEF D!Minus
  <2>3. D!Plus(u[o], 0) = u[o]
    BY <2>1, WordsAre DEF D!Plus
  <2> QED
    BY <2>2, <2>3, Offsets DEF D!Relocated
<1> QED
  BY <1>1, <1>2, Offsets DEF LinkedFor, D!IsDriver

-----------------------------------------------------------------------------
(***************************************************************************)
(* Where dldipatch is.                                                     *)
(***************************************************************************)
Used == {"copy", "pass", "fix", "patched", "crashed"}

DldiTypes ==
  /\ \E f \in Files : before = f.words /\ allocatedSpace = f.space /\ home = f.home
  /\ \E d \in Drivers : linked = d.words
  /\ nds \in [DOMAIN before -> D!Word]
  /\ pD \in [DOMAIN pD -> D!Word] /\ 0 .. D!dldiData - 1 \subseteq DOMAIN pD
  /\ pAdata \in D!Word /\ reloc \in D!Word /\ pDdata \in D!Word /\ pDbssEnd \in D!Word
  /\ pc \in {"search", "failed"} \cup Used
  /\ pA \in Nat /\ pass \in 0 .. 4 /\ ittr \in 0 .. Words
  /\ clean \in BOOLEAN /\ ignoresize \in BOOLEAN

DldiPlace ==
  /\ pc \in {"search", "copy", "failed"} => nds = before
  /\ pc \in Used => pA \in D!Sections
  /\ pc \in {"pass", "fix", "patched", "crashed"} =>
       /\ pAdata = home[pA] /\ pDdata = pD[1] /\ pDbssEnd = pD[8]
       /\ reloc = D!Minus(home[pA], pD[1])
  /\ pc \in {"pass", "fix", "patched"} =>
       pA + D!dldilen <= D!Length /\ 0 .. D!dldilen - 1 \subseteq DOMAIN pD
  /\ pc = "pass" => pass \in 1 .. 4
  /\ pc = "fix" => pass \in 1 .. 3

LEMMA FileIs ==
  ASSUME DldiTypes
  PROVE  /\ D!Length \in Nat /\ DOMAIN nds = 0 .. D!Length - 1 /\ DOMAIN before = DOMAIN nds
         /\ before \in [DOMAIN nds -> D!Word]
         /\ DOMAIN allocatedSpace \subseteq Nat
         /\ \A s \in DOMAIN allocatedSpace : s < D!Length - D!dldiData =>
              /\ allocatedSpace[s] \in Nat /\ s + allocatedSpace[s] <= D!Length
              /\ home[s] = D!AddressOf(before[s + 1], before[s + 10])
              /\ home[s] \in Nat /\ home[s] < Words
              /\ home[s] + D!Size(linked) < Words
<1>1. PICK f \in Files : before = f.words /\ allocatedSpace = f.space /\ home = f.home
  BY DEF DldiTypes
<1>2. PICK d \in Drivers : linked = d.words
  BY DEF DldiTypes
<1>3. D!IsHomebrew(f) /\ D!IsDriver(d.words)
  BY DldiAssumption DEF D!DldiAssumption
<1>4. DOMAIN nds = DOMAIN before
  BY DEF DldiTypes
<1>5. D!Length = 1 + D!Max(DOMAIN f.words)
  BY <1>1, <1>4 DEF D!Length
<1>6. /\ D!Length \in Nat /\ f.words \in [0 .. D!Length - 1 -> D!Word]
      /\ DOMAIN f.space \subseteq Nat /\ f.space \in [DOMAIN f.space -> Nat]
      /\ \A s \in DOMAIN f.space : s < D!Length - D!dldiData =>
           /\ s + f.space[s] <= D!Length
           /\ f.home[s] = D!AddressOf(f.words[s + D!dataStart], f.words[s + D!dldiStartup])
           /\ \A e \in Drivers : f.home[s] + D!Size(e.words) < Words
  BY <1>3, <1>5 DEF D!IsHomebrew
<1>7. ASSUME NEW s \in DOMAIN allocatedSpace, s < D!Length - D!dldiData
      PROVE  home[s] = D!AddressOf(before[s + 1], before[s + 10]) /\ home[s] \in D!Word
  <2>1. home[s] = D!AddressOf(before[s + 1], before[s + 10])
    BY <1>1, <1>6, <1>7, Offsets
  <2>2. s + 1 \in 0 .. D!Length - 1 /\ s + 10 \in 0 .. D!Length - 1
    <3>1. PICK a \in Nat, m \in Nat, e \in Nat :
            a = s /\ m = D!Length /\ e = D!dldiData /\ a < m - e /\ e >= 10
      BY <1>1, <1>6, <1>7, Offsets
    <3> QED
      BY <3>1
  <2>3. before[s + 1] \in D!Word /\ before[s + 10] \in D!Word
    BY <1>1, <1>6, <2>2
  <2>4. D!Minus(before[s + 10], D!dldiData) \in D!Word
    <3>1. /\ D!dldiData <= D!Initialized(d.words) /\ D!Initialized(d.words) <= D!Size(d.words)
          /\ d.words[1] \in Nat /\ d.words[1] + D!Size(d.words) < Words
          /\ D!Initialized(d.words) \in Nat /\ D!Size(d.words) \in Nat
      BY <1>3, DriverIs, Offsets
    <3>2. D!dldiData \in D!Word
      BY <3>1, Offsets, WordsAre
    <3> QED
      BY <2>3, <3>2, WordOps
  <2> QED
    BY <2>1, <2>3, <2>4 DEF D!AddressOf
<1> QED
  BY <1>1, <1>2, <1>4, <1>6, <1>7, WordsAre

CleanInv == clean => LinkedFor(pD, linked, pD[1])

(* What is outside of the section, and what bounds the loops.              *)
RestInv ==
  clean /\ ~ignoresize =>
    /\ ~D!ClearsElsewhere =>
         /\ pc # "crashed"
         /\ pc \in Used => \A x \in DOMAIN nds :
              x \notin pA .. pA + allocatedSpace[pA] - 1 => nds[x] = before[x]
    /\ pc \in {"pass", "fix"} => \A o \in 1 .. 8 : D!torelative(o) <= D!Size(pD)
    /\ pc = "fix" => ittr <= D!Size(pD)

(* Words that have been looked at, and which are moved.                    *)
Done(o) ==
  \E k \in 1 .. 3 :
    /\ D!Passes[k].flag \in fix /\ D!Part(pD, o, D!Passes[k])
    /\ \/ k < pass
       \/ pc = "fix" /\ k = pass /\ o < ittr

MovedBy(o) == o \in D!HeaderPointers \/ (D!PointsInto(pD, pD[o]) /\ Done(o))

Moving ==
  \A o \in 0 .. D!Initialized(pD) - 1 :
    D!Slot(o) = IF MovedBy(o) THEN D!Plus(pD[o], reloc) ELSE pD[o]

Behind(s) ==
  \A o \in D!Initialized(pD) .. D!Size(pD) - 1 :
    pA + o \in DOMAIN nds => D!Slot(o) = IF s THEN 0 ELSE before[pA + o]

Result ==
  \A o \in 0 .. D!Initialized(pD) - 1 : D!Slot(o) = D!Relocated(pD, home[pA], o)

MoveInv ==
  clean /\ D!Apart(pD, home[pA]) =>
    /\ pc \in {"pass", "fix"} => Moving /\ Behind(FALSE)
    /\ pc = "fix" => /\ D!Passes[pass].flag \in fix
                     /\ pD[D!Passes[pass].from] - pD[1] <= ittr
    /\ pc = "patched" => Result /\ Behind(D!fixBss \in fix)

DldiInv == DldiTypes /\ DldiPlace /\ CleanInv /\ RestInv /\ MoveInv

(* The driver that is used, and where it goes to.                          *)
LEMMA DriverFits ==
  ASSUME DldiTypes, DldiPlace, CleanInv, clean, pA \in D!Sections
  PROVE  /\ D!IsDriver(pD) /\ D!IsDriver(linked) /\ LinkedFor(pD, linked, pD[1])
         /\ D!Size(pD) = D!Size(linked) /\ D!Initialized(pD) = D!Initialized(linked)
         /\ home[pA] \in Nat /\ home[pA] \in D!Word /\ home[pA] + D!Size(pD) < Words
         /\ pA \in Nat /\ pA \in DOMAIN allocatedSpace /\ pA < D!Length - D!dldiData
         /\ D!Needed = D!Size(pD) /\ D!dldilen = D!Initialized(pD)
         /\ allocatedSpace[pA] \in Nat /\ pA + allocatedSpace[pA] <= D!Length
         /\ ~ignoresize => D!Size(pD) <= allocatedSpace[pA]
<1>1. PICK d \in Drivers : linked = d.words
  BY DEF DldiTypes
<1>2. D!IsDriver(linked)
  BY <1>1, DldiAssumption DEF D!DldiAssumption
<1>3. LinkedFor(pD, linked, pD[1])
  BY DEF CleanInv
<1>4. D!IsDriver(pD) /\ D!Size(pD) = D!Size(linked) /\ D!Initialized(pD) = D!Initialized(linked)
  BY <1>2, <1>3, LinkedHeader
<1>5. /\ pA \in DOMAIN allocatedSpace /\ pA < D!Length - D!dldiData
      /\ D!Needed <= allocatedSpace[pA] \/ ignoresize
  BY DEF D!Sections
<1>6. D!Needed = D!Size(pD) /\ D!dldilen = D!Initialized(pD)
  BY DEF D!Needed, D!dldilen, D!Size, D!Initialized
<1>7. /\ home[pA] \in Nat /\ home[pA] < Words /\ home[pA] + D!Size(linked) < Words
      /\ allocatedSpace[pA] \in Nat /\ pA + allocatedSpace[pA] <= D!Length
  BY <1>5, FileIs
<1> QED
  BY <1>2, <1>3, <1>4, <1>5, <1>6, <1>7, WordsAre DEF DldiTypes

(* What was moved is not moved again.                                      *)
LEMMA NotAgain ==
  ASSUME NEW d, D!IsDriver(d), NEW t \in Nat, t + D!Size(d) < Words, D!Apart(d, t),
         NEW v \in Nat, d[1] <= v, v <= d[8]
  PROVE  ~D!PointsInto(d, D!Plus(v, D!Minus(t, d[1])))
<1>1. v \in d[1] .. d[8]
  BY DriverIs, Offsets
<1> QED
  BY <1>1, Offsets DEF D!Apart

-----------------------------------------------------------------------------
(* Steps that leave the driver and the files alone.                        *)
Keeps ==
  /\ UNCHANGED <<pD, fix, linked, clean, allocatedSpace, home, ignoresize, before>>
  /\ DOMAIN nds' = DOMAIN nds

LEMMA KeptAre ==
  ASSUME Keeps
  PROVE  /\ D!Length' = D!Length /\ D!Sections' = D!Sections /\ D!dldilen' = D!dldilen
         /\ CleanInv => CleanInv'
<1>1. D!Length' = D!Length
  BY DEF Keeps, D!Length
<1>2. D!Sections' = D!Sections /\ D!dldilen' = D!dldilen
  BY <1>1 DEF Keeps, D!Sections, D!Needed, D!dldilen
<1>3. CleanInv => CleanInv'
  BY DEF Keeps, CleanInv, LinkedFor, D!Relocated, D!Moves, D!PointsInto, D!Part
<1> QED
  BY <1>1, <1>2, <1>3

LEMMA DldiSearch == ASSUME DldiInv, D!Search PROVE DldiInv'
<1>1. /\ pc = "search" /\ nds' = nds
      /\ UNCHANGED <<pD, fix, linked, clean, allocatedSpace, home, ignoresize, before,
                     pAdata, reloc, pDdata, pDbssEnd, pass, ittr>>
  BY DEF D!Search, D!driver, D!file, D!moves
<1>2. Keeps
  BY <1>1 DEF Keeps
<1>3. \/ pc' = "failed" /\ pA' = pA
      \/ pc' = "copy" /\ pA' \in D!Sections /\ pA' \in Nat
  <2>1. CASE D!Sections = {}
    BY <2>1 DEF D!Search
  <2>2. CASE D!Sections # {}
    <3>1. pc' = "copy" /\ pA' = D!Min(D!Sections)
      BY <2>2 DEF D!Search
    <3>2. D!Sections \in SUBSET Nat
      BY FileIs DEF D!Sections, DldiInv
    <3>3. \E x \in D!Sections : \A y \in D!Sections : x <= y
      BY <2>2, <3>2, Least
    <3>4. D!Min(D!Sections) \in D!Sections
      BY <3>3, Zenon DEF D!Min
    <3> QED
      BY <3>1, <3>2, <3>4
  <2> QED
    BY <2>1, <2>2
<1>4. DldiTypes'
  BY <1>1, <1>3 DEF DldiInv, DldiTypes, Used
<1>5. DldiPlace'
  <2>1. D!Sections' = D!Sections
    BY <1>2, KeptAre
  <2> QED
    BY <1>1, <1>3, <2>1 DEF DldiInv, DldiPlace, Used
<1>6. CleanInv'
  BY <1>2, KeptAre DEF DldiInv
<1>7. RestInv'
  <2>1. pc' \in Used => nds' = before'
    BY <1>1 DEF DldiInv, DldiPlace
  <2> QED
    BY <1>3, <2>1 DEF RestInv
<1>8. MoveInv'
  BY <1>3 DEF MoveInv
<1> QED
  BY <1>4, <1>5, <1>6, <1>7, <1>8 DEF DldiInv

-----------------------------------------------------------------------------
(***************************************************************************)
(* The driver is copied.                                                   *)
(***************************************************************************)
Copied(f, d, at, n, r) ==
  [x \in DOMAIN f |->
     IF x \notin at .. at + n - 1 THEN f[x]
     ELSE IF x - at \in D!HeaderPointers THEN D!Plus(d[x - at], r) ELSE d[x - at]]

CopiedWord(d, r, o) == IF o \in D!HeaderPointers THEN D!Plus(d[o], r) ELSE d[o]

CopyIs(m, f, d, at, n, r) ==
  /\ Copied(f, d, at, n, r) \in [0 .. m - 1 -> D!Word]
  /\ \A o \in 0 .. n - 1 : Copied(f, d, at, n, r)[at + o] = CopiedWord(d, r, o)
  /\ \A x \in 0 .. m - 1 : x \notin at .. at + n - 1 => Copied(f, d, at, n, r)[x] = f[x]

LEMMA CopiedIs ==
  ASSUME NEW m \in Nat, NEW f \in [0 .. m - 1 -> D!Word], NEW d, d \in [DOMAIN d -> D!Word],
         NEW at \in Nat, NEW n \in Nat, 0 .. n - 1 \subseteq DOMAIN d, at + n <= m, NEW r \in D!Word
  PROVE  CopyIs(m, f, d, at, n, r)
<1>1. PICK g : g = Copied(f, d, at, n, r)
  OBVIOUS
<1>2. g = [x \in 0 .. m - 1 |->
             IF x \notin at .. at + n - 1 THEN f[x]
             ELSE IF x - at \in D!HeaderPointers THEN D!Plus(d[x - at], r) ELSE d[x - at]]
  BY <1>1 DEF Copied
<1>3. ASSUME NEW o \in 0 .. n - 1
      PROVE  /\ g[at + o] = IF o \in D!HeaderPointers THEN D!Plus(d[o], r) ELSE d[o]
             /\ g[at + o] \in D!Word
  <2>1. at + o \in 0 .. m - 1 /\ at + o \in at .. at + n - 1 /\ (at + o) - at = o
    OBVIOUS
  <2>2. g[at + o] = IF o \in D!HeaderPointers THEN D!Plus(d[o], r) ELSE d[o]
    BY <1>2, <2>1
  <2>3. d[o] \in D!Word
    OBVIOUS
  <2>4. D!Plus(d[o], r) \in D!Word
    BY <2>3, WordOps
  <2> QED
    BY <2>2, <2>3, <2>4
<1>4. ASSUME NEW x \in 0 .. m - 1 PROVE g[x] \in D!Word
  <2>1. CASE x \notin at .. at + n - 1
    BY <1>2, <2>1
  <2>2. CASE x \in at .. at + n - 1
    <3>1. x - at \in 0 .. n - 1 /\ at + (x - at) = x
      BY <2>2
    <3> QED
      BY <1>3, <3>1
  <2> QED
    BY <2>1, <2>2
<1>5. g \in [0 .. m - 1 -> D!Word]
  BY <1>2, <1>4
<1>6. \A x \in 0 .. m - 1 : x \notin at .. at + n - 1 => g[x] = f[x]
  BY <1>2
<1>7. \A o \in 0 .. n - 1 : g[at + o] = CopiedWord(d, r, o)
  BY <1>3 DEF CopiedWord
<1> QED
  BY <1>1, <1>5, <1>6, <1>7, Zenon DEF CopyIs

LEMMA DldiCopyFacts ==
  ASSUME DldiInv, D!Copy
  PROVE  /\ pc = "copy" /\ nds = before /\ pA \in D!Sections /\ home[pA] \in D!Word
         /\ UNCHANGED <<pD, fix, linked, clean, allocatedSpace, home, ignoresize, before, pA, ittr>>
         /\ pAdata' = home[pA] /\ pDdata' = pD[1] /\ pDbssEnd' = pD[8]
         /\ reloc' = D!Minus(home[pA], pD[1])
         /\ pD[1] \in D!Word /\ pD[7] \in D!Word /\ pD[8] \in D!Word /\ reloc' \in D!Word /\ D!dldilen \in D!Word
         /\ \/ /\ D!Inside(D!dldilen) /\ 0 .. D!dldilen - 1 \subseteq DOMAIN pD
               /\ nds' = Copied(nds, pD, pA, D!dldilen, reloc') /\ pc' = "pass" /\ pass' = 1
            \/ /\ ~(D!Inside(D!dldilen) /\ 0 .. D!dldilen - 1 \subseteq DOMAIN pD)
               /\ pc' = "crashed" /\ nds' = nds /\ pass' = pass
<1>1. pc = "copy" /\ nds = before /\ pA \in D!Sections
  BY DEF D!Copy, DldiInv, DldiPlace, Used
<1>2. home[pA] = D!AddressOf(before[pA + 1], before[pA + 10]) /\ home[pA] \in D!Word
  <2>1. pA \in DOMAIN allocatedSpace /\ pA < D!Length - D!dldiData
    BY <1>1 DEF D!Sections
  <2> QED
    BY <2>1, FileIs, WordsAre DEF DldiInv
<1>3. pD[1] \in D!Word /\ pD[7] \in D!Word /\ pD[8] \in D!Word
  BY Offsets DEF DldiInv, DldiTypes
<1>4. pAdata' = home[pA]
  <2>1. pAdata' = D!AddressOf(nds[pA + D!dataStart], nds[pA + D!dldiStartup])
    BY DEF D!Copy
  <2> QED
    BY <1>1, <1>2, <2>1, Offsets
<1>5. pDdata' = pD[1] /\ pDbssEnd' = pD[8] /\ reloc' = D!Minus(home[pA], pD[1])
  BY <1>4, Offsets DEF D!Copy
<1>6. reloc' \in D!Word /\ D!dldilen \in D!Word
  BY <1>2, <1>3, <1>5, WordOps, Offsets DEF D!dldilen
<1>7. UNCHANGED <<pD, fix, linked, clean, allocatedSpace, home, ignoresize, before, pA, ittr>>
  BY DEF D!Copy, D!driver, D!file
<1>8. (\A n \in 0 .. D!dldilen - 1 : n \in DOMAIN pD) <=> 0 .. D!dldilen - 1 \subseteq DOMAIN pD
  OBVIOUS
<1>9. CASE D!Inside(D!dldilen) /\ 0 .. D!dldilen - 1 \subseteq DOMAIN pD
  BY <1>1, <1>2, <1>3, <1>4, <1>5, <1>6, <1>7, <1>8, <1>9, Zenon DEF D!Copy, Copied
<1>10. CASE ~(D!Inside(D!dldilen) /\ 0 .. D!dldilen - 1 \subseteq DOMAIN pD)
  BY <1>1, <1>2, <1>3, <1>4, <1>5, <1>6, <1>7, <1>8, <1>10, Zenon DEF D!Copy
<1> QED
  BY <1>9, <1>10

LEMMA DldiCopy == ASSUME DldiInv, D!Copy PROVE DldiInv'
<1>1. PICK n \in Nat, r \in D!Word : n = D!dldilen /\ r = reloc'
  BY DldiCopyFacts, WordsAre
<1>2. /\ pc = "copy" /\ nds = before /\ pA \in D!Sections /\ pA \in Nat
      /\ UNCHANGED <<pD, fix, linked, clean, allocatedSpace, home, ignoresize, before, pA, ittr>>
      /\ pAdata' = home[pA] /\ pDdata' = pD[1] /\ pDbssEnd' = pD[8] /\ r = D!Minus(home[pA], pD[1])
      /\ home[pA] \in D!Word /\ pD[1] \in D!Word /\ pD[8] \in D!Word
  BY <1>1, DldiCopyFacts DEF DldiInv, DldiTypes
<1>3. PICK m \in Nat : m = D!Length /\ DOMAIN nds = 0 .. m - 1 /\ nds \in [0 .. m - 1 -> D!Word]
  BY FileIs DEF DldiInv, DldiTypes
<1>4. D!Inside(n) <=> pA + n <= m
  BY <1>2, <1>3, <1>1 DEF D!Inside
<1>5. \/ /\ pA + n <= m /\ 0 .. n - 1 \subseteq DOMAIN pD
         /\ nds' = Copied(nds, pD, pA, n, r) /\ pc' = "pass" /\ pass' = 1
      \/ /\ ~(pA + n <= m /\ 0 .. n - 1 \subseteq DOMAIN pD)
         /\ pc' = "crashed" /\ nds' = nds /\ pass' = pass
  BY <1>1, <1>4, DldiCopyFacts
<1>6. pD \in [DOMAIN pD -> D!Word]
  BY DEF DldiInv, DldiTypes
<1>61. pc' # "crashed" => CopyIs(m, nds, pD, pA, n, r) /\ nds' = Copied(nds, pD, pA, n, r)
  BY <1>2, <1>3, <1>5, <1>6, CopiedIs
<1>7. nds' \in [0 .. m - 1 -> D!Word]
  BY <1>2, <1>3, <1>5, <1>61 DEF CopyIs
<1>8. Keeps
  BY <1>2, <1>3, <1>7 DEF Keeps
<1>9. D!Length' = m /\ D!Sections' = D!Sections /\ D!dldilen' = n /\ CleanInv'
  BY <1>1, <1>3, <1>8, KeptAre DEF DldiInv
<1>10. DldiTypes'
  BY <1>1, <1>2, <1>3, <1>5, <1>7, <1>8 DEF DldiInv, DldiTypes, Used, Keeps
<1>11. DldiPlace'
  BY <1>1, <1>2, <1>5, <1>9 DEF DldiPlace, Used
<1>12. ASSUME clean
       PROVE  /\ D!IsDriver(pD) /\ D!Size(pD) \in Nat /\ n \in Nat /\ n = D!Initialized(pD)
              /\ n <= D!Size(pD) /\ 0 .. n - 1 \subseteq DOMAIN pD
              /\ D!dldiData <= n
              /\ allocatedSpace[pA] \in Nat /\ pA + allocatedSpace[pA] <= m
              /\ ~ignoresize => D!Size(pD) <= allocatedSpace[pA]
  <2>1. DldiTypes /\ DldiPlace /\ CleanInv
    BY DEF DldiInv
  <2>2. /\ D!IsDriver(pD) /\ n = D!Initialized(pD)
        /\ allocatedSpace[pA] \in Nat /\ pA + allocatedSpace[pA] <= m
        /\ ~ignoresize => D!Size(pD) <= allocatedSpace[pA]
    BY <1>1, <1>2, <1>3, <1>12, <2>1, DriverFits
  <2>3. /\ D!Size(pD) \in Nat /\ D!Initialized(pD) <= D!Size(pD)
        /\ D!dldiData <= D!Initialized(pD) /\ 0 .. D!Initialized(pD) - 1 \subseteq DOMAIN pD
    BY <2>2, DriverIs
  <2> QED
    BY <2>2, <2>3
<1>13. ASSUME pc' = "pass", NEW o \in 0 .. n - 1
       PROVE  D!Slot(o)' = IF o \in D!HeaderPointers THEN D!Plus(pD[o], r) ELSE pD[o]
  <2>1. D!Slot(o)' = nds'[pA + o]
    BY <1>2 DEF D!Slot
  <2> QED
    BY <1>61, <1>13, <2>1, Zenon DEF CopyIs, CopiedWord
<1>14. ASSUME NEW x \in 0 .. m - 1, x \notin pA .. pA + n - 1 PROVE nds'[x] = nds[x]
  <2>1. CASE pc' = "crashed"
    BY <1>5, <2>1
  <2>2. CASE pc' # "crashed"
    BY <1>61, <1>14, <2>2, Zenon DEF CopyIs
  <2> QED
    BY <2>1, <2>2
<1>15. RestInv'
  <2> SUFFICES ASSUME clean, ~ignoresize
               PROVE  /\ pc' # "crashed"
                      /\ \A x \in DOMAIN nds' :
                           x \notin pA .. pA + allocatedSpace[pA] - 1 => nds'[x] = before[x]
                      /\ pc' = "pass" => \A o \in 1 .. 8 : D!torelative(o)' <= D!Size(pD)
    BY <1>2, <1>5 DEF RestInv
  <2>1. pc' = "pass"
    BY <1>2, <1>5, <1>12
  <2>2. ASSUME NEW x \in DOMAIN nds', x \notin pA .. pA + allocatedSpace[pA] - 1 PROVE nds'[x] = before[x]
    <3>1. x \in 0 .. m - 1 /\ x \notin pA .. pA + n - 1
      BY <1>2, <1>7, <1>12, <2>2
    <3> QED
      BY <1>2, <1>14, <3>1
  <2>3. ASSUME NEW o \in 1 .. 8 PROVE D!torelative(o)' <= D!Size(pD)
    <3>1. o \in D!HeaderPointers /\ o \in 0 .. n - 1
      BY <1>12, Offsets
    <3>2. pD[o] \in D!Word
      BY <1>6, <1>12, <3>1
    <3>3. D!torelative(o)' = D!Minus(D!Plus(pD[o], r), home[pA])
      BY <1>2, <1>13, <2>1, <3>1 DEF D!torelative
    <3>4. D!torelative(o)' = D!Minus(pD[o], pD[1])
      BY <1>2, <3>2, <3>3, MovedFrom
    <3>5. D!Minus(pD[o], pD[1]) = pD[o] - pD[1] /\ pD[o] <= pD[8] /\ D!Size(pD) = pD[8] - pD[1]
      BY <1>12, <3>1, DriverIs
    <3> QED
      BY <1>2, <3>2, <3>4, <3>5, WordsAre
  <2> QED
    BY <2>1, <2>2, <2>3
<1>16. MoveInv'
  <2> SUFFICES ASSUME clean, pc' = "pass" PROVE (Moving /\ Behind(FALSE))'
    BY <1>2, <1>5 DEF MoveInv
  <2>1. ASSUME NEW o PROVE ~Done(o)'
    <3>1. ~(\E k \in 1 .. 3 : k < 1)
      OBVIOUS
    <3> QED
      BY <1>5, <3>1 DEF Done
  <2>2. D!Initialized(pD)' = n /\ D!Size(pD)' = D!Size(pD)
    BY <1>2, <1>12 DEF D!Initialized, D!Size
  <2>3. Moving'
    <3> SUFFICES ASSUME NEW o \in 0 .. n - 1
                 PROVE  D!Slot(o)' = IF MovedBy(o)' THEN D!Plus(pD'[o], reloc') ELSE pD'[o]
      BY <2>2 DEF Moving
    <3>1. MovedBy(o)' <=> o \in D!HeaderPointers
      BY <2>1 DEF MovedBy
    <3> QED
      BY <1>1, <1>2, <1>13, <3>1
  <2>4. Behind(FALSE)'
    <3> SUFFICES ASSUME NEW o \in n .. D!Size(pD) - 1, pA + o \in DOMAIN nds'
                 PROVE  nds'[pA + o] = before[pA + o]
      BY <1>2, <2>2 DEF Behind, D!Slot
    <3>1. pA + o \in 0 .. m - 1 /\ pA + o \notin pA .. pA + n - 1
      BY <1>2, <1>7, <1>12
    <3> QED
      BY <1>2, <1>14, <3>1
  <2> QED
    BY <2>3, <2>4
<1> QED
  BY <1>9, <1>10, <1>11, <1>15, <1>16 DEF DldiInv

-----------------------------------------------------------------------------
(***************************************************************************)
(* The passes.                                                             *)
(***************************************************************************)
Passing == pc \in {"pass", "fix"}

LEMMA PassingIs ==
  ASSUME DldiInv, Passing
  PROVE  /\ DldiTypes /\ DldiPlace /\ CleanInv /\ RestInv /\ MoveInv /\ pA \in D!Sections /\ pA \in Nat
         /\ pAdata = home[pA] /\ pDdata = pD[1] /\ pDbssEnd = pD[8] /\ reloc = D!Minus(home[pA], pD[1])
         /\ home[pA] \in D!Word /\ reloc \in D!Word /\ pD[1] \in D!Word /\ pD[8] \in D!Word
         /\ D!dldilen \in D!Word /\ pA + D!dldilen <= D!Length /\ 0 .. D!dldilen - 1 \subseteq DOMAIN pD
         /\ pD \in [DOMAIN pD -> D!Word]
         /\ \A o \in 0 .. D!dldiData : pA + o \in DOMAIN nds /\ D!Slot(o) \in D!Word
         /\ \A o \in 1 .. 8 : D!torelative(o) \in D!Word
<1>1. /\ DldiTypes /\ DldiPlace /\ CleanInv /\ RestInv /\ MoveInv /\ pA \in D!Sections /\ pA \in Nat
      /\ pAdata = home[pA] /\ pDdata = pD[1] /\ pDbssEnd = pD[8] /\ reloc = D!Minus(home[pA], pD[1])
      /\ pAdata \in D!Word /\ reloc \in D!Word /\ pDdata \in D!Word /\ pDbssEnd \in D!Word
      /\ pA + D!dldilen <= D!Length /\ 0 .. D!dldilen - 1 \subseteq DOMAIN pD
      /\ pD \in [DOMAIN pD -> D!Word] /\ 7 \in DOMAIN pD
  BY Offsets DEF Passing, DldiInv, DldiTypes, DldiPlace, Used
<1>2. D!dldilen \in D!Word
  BY <1>1, WordOps, Offsets DEF D!dldilen
<1>3. pA < D!Length - D!dldiData
  BY <1>1 DEF D!Sections
<1>4. DOMAIN nds = 0 .. D!Length - 1 /\ D!Length \in Nat /\ nds \in [DOMAIN nds -> D!Word]
  BY <1>1, FileIs DEF DldiTypes
<1>5. ASSUME NEW o \in 0 .. D!dldiData PROVE pA + o \in DOMAIN nds /\ D!Slot(o) \in D!Word
  <2>1. pA + o \in DOMAIN nds
    <3>1. PICK a \in Nat, m \in Nat, e \in Nat :
            a = pA /\ m = D!Length /\ e = D!dldiData /\ a < m - e
      BY <1>1, <1>3, <1>4, Offsets
    <3>2. a + o \in 0 .. m - 1
      BY <3>1
    <3> QED
      BY <3>1, <3>2, <1>4
  <2> QED
    BY <2>1, <1>4 DEF D!Slot
<1>6. ASSUME NEW o \in 1 .. 8 PROVE D!torelative(o) \in D!Word
  <2>1. D!Slot(o) \in D!Word
    BY <1>5, Offsets
  <2> QED
    BY <1>1, <2>1, WordOps DEF D!torelative
<1> QED
  BY <1>1, <1>2, <1>5, <1>6

(* Where the header of a clean driver that was moved leads to.             *)
LEMMA BoundsAre ==
  ASSUME DldiInv, Passing, clean, D!Apart(pD, home[pA]), NEW o \in 1 .. 8
  PROVE  D!torelative(o) = pD[o] - pD[1]
<1>1. D!IsDriver(pD)
  BY PassingIs, DriverFits
<1>2. o \in D!HeaderPointers /\ o \in 0 .. D!Initialized(pD) - 1
  BY <1>1, DriverIs, Offsets
<1>3. Moving
  BY PassingIs DEF MoveInv, Passing
<1>4. D!Slot(o) = D!Plus(pD[o], reloc)
  BY <1>2, <1>3 DEF Moving, MovedBy
<1>5. D!torelative(o) = D!Minus(D!Plus(pD[o], D!Minus(home[pA], pD[1])), home[pA])
  BY <1>4, PassingIs DEF D!torelative
<1>6. pD[o] \in D!Word
  BY <1>1, <1>2, DriverIs
<1>7. D!torelative(o) = D!Minus(pD[o], pD[1])
  BY <1>5, <1>6, PassingIs, MovedFrom
<1> QED
  BY <1>1, <1>2, <1>7, DriverIs

(* A word has been looked at, or will be.                                  *)
LEMMA PartIs ==
  ASSUME NEW d, D!IsDriver(d), NEW o, NEW k \in 1 .. 3
  PROVE  D!Part(d, o, D!Passes[k]) <=> d[D!Passes[k].from] - d[1] <= o /\ o < d[D!Passes[k].to] - d[1]
<1>1. D!Passes[k].from \in D!HeaderPointers /\ D!Passes[k].to \in D!HeaderPointers
  BY PassesAre, Offsets
<1>2. /\ D!Minus(d[D!Passes[k].from], d[1]) = d[D!Passes[k].from] - d[1]
      /\ D!Minus(d[D!Passes[k].to], d[1]) = d[D!Passes[k].to] - d[1]
  BY <1>1, DriverIs
<1> QED
  BY <1>2, Offsets DEF D!Part

(* A pass begins, is left out, or ends: only the counters change.          *)
LEMMA Recounted ==
  ASSUME DldiInv, Passing, pc' \in {"pass", "fix"}, pass' \in 1 .. 4, pc' = "fix" => pass' \in 1 .. 3,
         ittr' \in 0 .. Words,
         UNCHANGED <<pD, fix, linked, clean, nds, allocatedSpace, home, ignoresize, before, pA,
                     pAdata, reloc, pDdata, pDbssEnd>>,
         clean /\ ~ignoresize /\ pc' = "fix" => ittr' <= D!Size(pD),
         clean /\ D!Apart(pD, home[pA]) =>
           /\ \A o \in 0 .. D!Initialized(pD) - 1 : Done(o)' <=> Done(o)
           /\ pc' = "fix" => /\ D!Passes[pass'].flag \in fix
                             /\ pD[D!Passes[pass'].from] - pD[1] <= ittr'
  PROVE  DldiInv'
<1>1. DldiTypes /\ DldiPlace /\ CleanInv /\ RestInv /\ MoveInv
  BY PassingIs
<1>2. Keeps
  BY DEF Keeps
<1>3. D!Length' = D!Length /\ D!Sections' = D!Sections /\ D!dldilen' = D!dldilen /\ CleanInv'
  BY <1>1, <1>2, KeptAre
<1>4. DldiTypes'
  BY <1>1 DEF DldiTypes, Used
<1>5. DldiPlace'
  BY <1>1, <1>3 DEF DldiPlace, Passing, Used
<1>6. RestInv'
  <2> SUFFICES ASSUME clean, ~ignoresize
               PROVE  /\ \A x \in DOMAIN nds :
                           x \notin pA .. pA + allocatedSpace[pA] - 1 => nds[x] = before[x]
                      /\ \A o \in 1 .. 8 : D!torelative(o)' <= D!Size(pD)'
                      /\ pc' = "fix" => ittr' <= D!Size(pD)'
    BY Zenon DEF RestInv
  <2>1. ~D!ClearsElsewhere
    BY DEF D!ClearsElsewhere, Passing
  <2>2. D!Size(pD)' = D!Size(pD) /\ \A o \in 1 .. 8 : D!torelative(o)' = D!torelative(o)
    BY DEF D!Size, D!torelative, D!Slot
  <2>3. /\ \A x \in DOMAIN nds : x \notin pA .. pA + allocatedSpace[pA] - 1 => nds[x] = before[x]
        /\ \A o \in 1 .. 8 : D!torelative(o) <= D!Size(pD)
    BY <1>1, <2>1 DEF RestInv, Passing, Used
  <2> QED
    BY <2>2, <2>3
<1>7. MoveInv'
  <2>1. D!Apart(pD, home[pA])' <=> D!Apart(pD, home[pA])
    BY DEF D!Apart, D!PointsInto
  <2> SUFFICES ASSUME clean, D!Apart(pD, home[pA])
               PROVE  /\ (Moving /\ Behind(FALSE))'
                      /\ pc' = "fix" => /\ D!Passes[pass'].flag \in fix
                                        /\ pD[D!Passes[pass'].from] - pD[1] <= ittr'
    BY <2>1 DEF MoveInv
  <2>2. Moving /\ Behind(FALSE)
    BY <1>1 DEF MoveInv, Passing
  <2>3. D!Initialized(pD)' = D!Initialized(pD) /\ D!Size(pD)' = D!Size(pD)
    BY DEF D!Initialized, D!Size
  <2>4. \A o \in 0 .. D!Initialized(pD) - 1 : MovedBy(o)' <=> MovedBy(o)
    BY DEF MovedBy, D!PointsInto
  <2>5. Moving'
    BY <2>2, <2>3, <2>4 DEF Moving, D!Slot
  <2>6. Behind(FALSE)'
    BY <2>2, <2>3 DEF Behind, D!Slot
  <2> QED
    BY <2>5, <2>6
<1> QED
  BY <1>3, <1>4, <1>5, <1>6, <1>7 DEF DldiInv

LEMMA DldiPass == ASSUME DldiInv, D!Pass PROVE DldiInv'
<1>1. /\ pc = "pass" /\ pass \in 1 .. 3 /\ Passing
      /\ UNCHANGED <<pD, fix, linked, clean, nds, allocatedSpace, home, ignoresize, before, pA,
                     pAdata, reloc, pDdata, pDbssEnd>>
  BY DEF D!Pass, D!driver, D!file, D!moves, Passing, DldiInv, DldiPlace
<1>2. PICK k \in 1 .. 3 : k = pass
  BY <1>1
<1>3. ASSUME clean PROVE D!IsDriver(pD)
  BY <1>1, <1>3, PassingIs, DriverFits
<1>4. CASE D!Passes[k].flag \in fix
  <2>1. PICK fr \in 1 .. 8 : fr = D!Passes[k].from
    BY PassesAre
  <2>2. ittr' = D!torelative(fr) /\ pc' = "fix" /\ pass' = pass
    BY <1>2, <1>4, <2>1 DEF D!Pass
  <2>3. ittr' \in D!Word
    BY <1>1, <2>2, PassingIs
  <2>4. clean /\ ~ignoresize => ittr' <= D!Size(pD)
    BY <1>1, <2>2, PassingIs DEF RestInv
  <2>5. ASSUME clean, D!Apart(pD, home[pA])
        PROVE  /\ \A o \in 0 .. D!Initialized(pD) - 1 : Done(o)' <=> Done(o)
               /\ pD[D!Passes[k].from] - pD[1] <= ittr'
    <3>1. ittr' = pD[fr] - pD[1]
      BY <1>1, <2>2, <2>5, BoundsAre
    <3>2. pD[fr] \in Nat /\ pD[1] \in Nat /\ D!Initialized(pD) \in Nat
      BY <1>3, <2>5, DriverIs, Offsets
    <3>3. ASSUME NEW o \in 0 .. D!Initialized(pD) - 1 PROVE Done(o)' <=> Done(o)
      <4>1. ~(D!Part(pD, o, D!Passes[k]) /\ o < ittr')
        BY <1>3, <2>1, <2>5, <3>1, <3>2, PartIs
      <4>2. \A e \in 1 .. 3 : D!Part(pD, o, D!Passes[e])' <=> D!Part(pD, o, D!Passes[e])
        BY <1>1 DEF D!Part
      <4> QED
        BY <1>1, <1>2, <2>2, <4>1, <4>2 DEF Done
    <3> QED
      BY <2>1, <3>1, <3>2, <3>3
  <2> QED
    BY <1>1, <1>2, <1>4, <2>2, <2>3, <2>4, <2>5, Recounted, WordsAre
<1>5. CASE D!Passes[k].flag \notin fix
  <2>1. pass' = pass + 1 /\ ittr' = ittr /\ pc' = pc
    BY <1>2, <1>5 DEF D!Pass
  <2>2. ASSUME NEW o PROVE Done(o)' <=> Done(o)
    <3>1. \A e \in 1 .. 3 : D!Part(pD, o, D!Passes[e])' <=> D!Part(pD, o, D!Passes[e])
      BY <1>1 DEF D!Part
    <3>2. \A e \in 1 .. 3 : e < pass + 1 <=> e < pass \/ e = k
      BY <1>2
    <3> QED
      BY <1>1, <1>2, <1>5, <2>1, <3>1, <3>2 DEF Done
  <2>3. ittr \in 0 .. Words
    BY DEF DldiInv, DldiTypes
  <2> QED
    BY <1>1, <2>1, <2>2, <2>3, Recounted
<1> QED
  BY <1>4, <1>5

LEMMA DldiEndPass == ASSUME DldiInv, D!EndPass PROVE DldiInv'
<1>1. /\ pc = "fix" /\ pass \in 1 .. 3 /\ Passing /\ ~D!InPass
      /\ pass' = pass + 1 /\ pc' = "pass" /\ ittr' = ittr
      /\ UNCHANGED <<pD, fix, linked, clean, nds, allocatedSpace, home, ignoresize, before, pA,
                     pAdata, reloc, pDdata, pDbssEnd>>
  BY DEF D!EndPass, D!driver, D!file, D!moves, Passing, DldiInv, DldiPlace
<1>2. PICK k \in 1 .. 3 : k = pass
  BY <1>1
<1>3. ittr \in Nat /\ ittr \in 0 .. Words
  BY WordsAre DEF DldiInv, DldiTypes
<1>4. ASSUME clean, D!Apart(pD, home[pA]), NEW o \in 0 .. D!Initialized(pD) - 1
      PROVE  Done(o)' <=> Done(o)
  <2>1. D!IsDriver(pD)
    BY <1>1, <1>4, PassingIs, DriverFits
  <2>2. PICK t \in 1 .. 8 : t = D!Passes[k].to
    BY PassesAre
  <2>3. ~(ittr < pD[t] - pD[1]) /\ pD[t] \in Nat /\ pD[1] \in Nat /\ D!Initialized(pD) \in Nat
    BY <1>1, <1>2, <1>4, <2>1, <2>2, BoundsAre, DriverIs, Offsets DEF D!InPass
  <2>4. D!Part(pD, o, D!Passes[k]) => o < ittr
    BY <1>3, <2>1, <2>2, <2>3, PartIs
  <2>5. \A e \in 1 .. 3 : D!Part(pD, o, D!Passes[e])' <=> D!Part(pD, o, D!Passes[e])
    BY <1>1 DEF D!Part
  <2>6. \A e \in 1 .. 3 : e < pass + 1 <=> e < pass \/ e = k
    BY <1>2
  <2> QED
    BY <1>1, <1>2, <2>4, <2>5, <2>6 DEF Done
<1> QED
  BY <1>1, <1>3, <1>4, Recounted

LEMMA DldiFixWord == ASSUME DldiInv, D!FixWord PROVE DldiInv'
<1>1. /\ pc = "fix" /\ pass \in 1 .. 3 /\ Passing /\ D!InPass /\ pass' = pass
      /\ UNCHANGED <<pD, fix, linked, clean, allocatedSpace, home, ignoresize, before, pA,
                     pAdata, reloc, pDdata, pDbssEnd>>
  BY DEF D!FixWord, D!driver, D!file, D!moves, Passing, DldiInv, DldiPlace
<1>0. DldiTypes /\ DldiPlace /\ CleanInv /\ RestInv /\ MoveInv
  BY DEF DldiInv
<1>2. PICK k \in 1 .. 3, t \in 1 .. 8, m \in Nat, i0 \in Nat :
        /\ k = pass /\ t = D!Passes[k].to /\ m = D!Length /\ i0 = ittr
  <2>1. D!Length \in Nat
    BY <1>0, FileIs
  <2>2. ittr \in Nat
    BY <1>0, WordsAre DEF DldiTypes
  <2> QED
    BY <1>1, <2>1, <2>2, PassesAre
<1>3. DOMAIN nds = 0 .. m - 1 /\ nds \in [0 .. m - 1 -> D!Word] /\ pA \in Nat /\ reloc \in D!Word
  BY <1>0, <1>2, FileIs DEF DldiTypes
<1>4. i0 < D!torelative(t) /\ D!torelative(t) \in D!Word
  BY <1>1, <1>2, PassingIs DEF D!InPass
<1>5. CASE pA + i0 \notin DOMAIN nds
  <2>1. pc' = "crashed" /\ nds' = nds /\ ittr' = ittr
    BY <1>2, <1>5 DEF D!FixWord
  <2>2. Keeps
    BY <1>1, <2>1 DEF Keeps
  <2>3. D!Length' = D!Length /\ D!Sections' = D!Sections /\ D!dldilen' = D!dldilen /\ CleanInv'
    BY <1>0, <2>2, KeptAre
  <2>4. DldiTypes'
    BY <1>0, <1>1, <2>1 DEF DldiTypes, Used
  <2>5. DldiPlace'
    BY <1>0, <1>1, <2>1, <2>3 DEF DldiPlace, Used
  <2>6. ~(clean /\ ~ignoresize)
    <3> SUFFICES ASSUME clean, ~ignoresize PROVE FALSE
      OBVIOUS
    <3>1. D!torelative(t) <= D!Size(pD)
      BY <1>0, <1>1 DEF RestInv
    <3>2. pA \in D!Sections
      BY <1>1, PassingIs
    <3>3. /\ D!Size(pD) <= allocatedSpace[pA] /\ allocatedSpace[pA] \in Nat
          /\ pA + allocatedSpace[pA] <= m /\ D!IsDriver(pD)
      BY <1>0, <1>2, <3>2, DriverFits
    <3>4. D!Size(pD) \in Nat
      BY <3>3, DriverIs
    <3> QED
      BY <1>3, <1>4, <1>5, <3>1, <3>3, <3>4, WordsAre
  <2>7. RestInv'
    BY <1>1, <2>6 DEF RestInv
  <2>8. MoveInv'
    BY <2>1 DEF MoveInv
  <2> QED
    BY <2>3, <2>4, <2>5, <2>7, <2>8 DEF DldiInv
<1>6. CASE pA + i0 \in DOMAIN nds
  <2>1. PICK v \in D!Word, w \in D!Word :
           v = D!Slot(i0) /\ w = (IF D!LooksPointer(v) THEN D!Plus(v, reloc) ELSE v)
    <3>1. D!Slot(i0) \in D!Word
      BY <1>3, <1>6 DEF D!Slot
    <3> QED
      BY <1>3, <3>1, WordOps
  <2>2. /\ ittr' = ittr + 1 /\ pc' = "fix"
        /\ nds' = IF D!LooksPointer(v) THEN [nds EXCEPT ![pA + i0] = D!Plus(v, reloc)] ELSE nds
    BY <1>1, <1>2, <1>6, <2>1 DEF D!FixWord, D!Slot
  <2>3. nds' = [nds EXCEPT ![pA + i0] = w]
    <3>1. nds = [nds EXCEPT ![pA + i0] = nds[pA + i0]]
      BY <1>3
    <3> QED
      BY <2>1, <2>2, <3>1 DEF D!Slot
  <2>4. /\ nds' \in [0 .. m - 1 -> D!Word] /\ nds'[pA + i0] = w
        /\ \A x \in 0 .. m - 1 : x # pA + i0 => nds'[x] = nds[x]
    BY <1>3, <1>6, <2>1, <2>3
  <2>5. Keeps
    BY <1>1, <1>3, <2>4 DEF Keeps
  <2>6. D!Length' = D!Length /\ D!Sections' = D!Sections /\ D!dldilen' = D!dldilen /\ CleanInv'
    BY <1>0, <2>5, KeptAre
  <2>7. DldiTypes'
    <3>1. ittr' \in 0 .. Words
      BY <1>2, <1>4, <2>2, WordsAre
    <3>2. nds' \in [DOMAIN before -> D!Word]
      BY <1>0, <1>2, <1>3, <2>4, FileIs
    <3> QED
      BY <1>0, <1>1, <2>2, <3>1, <3>2 DEF DldiTypes, Used
  <2>8. DldiPlace'
    BY <1>0, <1>1, <2>2, <2>6 DEF DldiPlace, Used
  <2>9. ASSUME NEW o \in Nat, o # i0, pA + o \in DOMAIN nds PROVE D!Slot(o)' = D!Slot(o)
    <3>1. pA + o \in 0 .. m - 1 /\ pA + o # pA + i0
      BY <1>3, <2>9
    <3> QED
      BY <1>1, <2>4, <3>1 DEF D!Slot
  <2>10. D!Slot(i0)' = w
    BY <1>1, <2>4 DEF D!Slot
  <2>11. RestInv'
    <3> SUFFICES ASSUME clean, ~ignoresize
                 PROVE  /\ \A x \in DOMAIN nds' :
                             x \notin pA .. pA + allocatedSpace[pA] - 1 => nds'[x] = before[x]
                        /\ \A o \in 1 .. 8 : D!torelative(o)' <= D!Size(pD)
                        /\ ittr' <= D!Size(pD)
      BY <1>1, <2>2 DEF RestInv, D!Size
    <3>1. ~D!ClearsElsewhere
      BY <1>1 DEF D!ClearsElsewhere
    <3>2. /\ \A x \in DOMAIN nds : x \notin pA .. pA + allocatedSpace[pA] - 1 => nds[x] = before[x]
          /\ \A o \in 1 .. 8 : D!torelative(o) <= D!Size(pD)
      BY <1>0, <1>1, <3>1 DEF RestInv, Used
    <3>3. /\ D!Size(pD) <= allocatedSpace[pA] /\ allocatedSpace[pA] \in Nat
          /\ pA + allocatedSpace[pA] <= m /\ D!IsDriver(pD)
      BY <1>0, <1>1, <1>2, PassingIs, DriverFits
    <3>4. D!Size(pD) \in Nat /\ D!Size(pD) = pD[8] - pD[1]
      BY <3>3, DriverIs
    <3>5. i0 < D!Size(pD)
      BY <1>4, <3>2, <3>4, WordsAre
    <3>6. ASSUME NEW x \in DOMAIN nds', x \notin pA .. pA + allocatedSpace[pA] - 1 PROVE nds'[x] = before[x]
      <4>1. x \in 0 .. m - 1 /\ x # pA + i0
        BY <1>3, <2>4, <3>3, <3>4, <3>5, <3>6
      <4> QED
        BY <1>3, <2>4, <3>2, <3>6, <4>1
    <3>7. ASSUME NEW o \in 1 .. 8 PROVE D!torelative(o)' <= D!Size(pD)
      <4>1. CASE o # i0
        <5>1. pA + o \in DOMAIN nds
          BY <1>1, PassingIs, Offsets
        <5>2. D!Slot(o)' = D!Slot(o)
          BY <2>9, <4>1, <5>1
        <5> QED
          BY <1>1, <3>2, <5>2 DEF D!torelative
      <4>2. CASE o = i0 /\ ~D!LooksPointer(v)
        BY <1>1, <2>1, <2>10, <3>2, <4>2 DEF D!torelative
      <4>3. CASE o = i0 /\ D!LooksPointer(v)
        <5>1. D!torelative(o)' = D!Minus(D!Plus(v, D!Minus(home[pA], pD[1])), home[pA])
          BY <1>1, <2>1, <2>10, <4>3, PassingIs DEF D!torelative
        <5>2. D!torelative(o)' = D!Minus(v, pD[1])
          BY <1>1, <5>1, PassingIs, MovedFrom
        <5>3. pD[1] <= v /\ v < pD[8] /\ pD[1] \in Nat /\ pD[8] \in Nat /\ v \in Nat
          <6>1. pDdata = pD[1] /\ pDbssEnd = pD[8] /\ pD[1] \in D!Word /\ pD[8] \in D!Word
            BY <1>1, PassingIs
          <6>2. pD[1] \in Nat /\ pD[8] \in Nat /\ v \in Nat
            BY <6>1, <2>1, WordsAre
          <6> QED
            BY <4>3, <6>1, <6>2 DEF D!LooksPointer
        <5> QED
          BY <3>4, <5>2, <5>3 DEF D!Minus
      <4> QED
        BY <4>1, <4>2, <4>3
    <3> QED
      BY <1>2, <2>2, <3>4, <3>5, <3>6, <3>7
  <2>12. MoveInv'
    <3>1. D!Apart(pD, home[pA])' <=> D!Apart(pD, home[pA])
      BY <1>1 DEF D!Apart, D!PointsInto
    <3> SUFFICES ASSUME clean, D!Apart(pD, home[pA])
                 PROVE  /\ (Moving /\ Behind(FALSE))'
                        /\ D!Passes[pass'].flag \in fix
                        /\ pD[D!Passes[pass'].from] - pD[1] <= ittr'
      BY <1>1, <2>2, <3>1 DEF MoveInv
    <3>2. /\ Moving /\ Behind(FALSE) /\ D!Passes[k].flag \in fix
          /\ pD[D!Passes[k].from] - pD[1] <= i0
      BY <1>0, <1>1, <1>2 DEF MoveInv
    <3>3. /\ D!IsDriver(pD) /\ home[pA] \in Nat /\ home[pA] + D!Size(pD) < Words
      BY <1>0, <1>1, PassingIs, DriverFits
    <3>4. PICK n \in Nat, z \in Nat : n = D!Initialized(pD) /\ z = D!Size(pD) /\ n <= z
      BY <3>3, DriverIs
    <3>5. /\ pD[t] \in Nat /\ pD[1] \in Nat /\ pD[7] \in Nat /\ pD[8] \in Nat /\ pD[t] <= pD[7] /\ n = pD[7] - pD[1]
          /\ pD[D!Passes[k].from] \in Nat
      BY <1>2, <3>3, <3>4, DriverIs, Offsets, PassesAre
    <3>6. i0 < pD[t] - pD[1]
      BY <1>1, <1>4, BoundsAre
    <3>7. i0 \in 0 .. n - 1 /\ D!Part(pD, i0, D!Passes[k])
      BY <1>2, <3>2, <3>3, <3>5, <3>6, PartIs
    <3>8. n = D!dldilen
      BY <3>4 DEF D!Initialized, D!dldilen
    <3>9. ASSUME NEW o \in 0 .. z - 1 PROVE Done(o)' <=> (Done(o) \/ (o = i0 /\ D!Part(pD, o, D!Passes[k])))
      <4>1. \A e \in 1 .. 3 : D!Part(pD, o, D!Passes[e])' <=> D!Part(pD, o, D!Passes[e])
        BY <1>1 DEF D!Part
      <4>2. o < ittr' <=> o < ittr \/ o = i0
        BY <1>2, <2>2
      <4> QED
        BY <1>1, <1>2, <2>2, <3>2, <4>1, <4>2 DEF Done
    <3>10. Done(i0)'
      BY <3>4, <3>7, <3>9
    <3>11. ASSUME NEW o \in 0 .. n - 1
           PROVE  D!Slot(o)' = IF MovedBy(o)' THEN D!Plus(pD[o], reloc) ELSE pD[o]
      <4>1. D!Slot(o) = IF MovedBy(o) THEN D!Plus(pD[o], reloc) ELSE pD[o]
        BY <3>2, <3>4 DEF Moving
      <4>2. CASE o # i0
        <5>1. pA + o \in DOMAIN nds
          <6>1. pA + n <= m
            BY <1>1, <1>2, <3>8, PassingIs
          <6>2. PICK a \in Nat : a = pA /\ a + n <= m
            BY <1>3, <6>1
          <6>3. a + o \in 0 .. m - 1
            BY <6>2
          <6> QED
            BY <1>3, <6>2, <6>3
        <5>2. D!Slot(o)' = D!Slot(o)
          BY <2>9, <4>2, <5>1
        <5>3. MovedBy(o)' <=> MovedBy(o)
          BY <1>1, <3>4, <3>9, <4>2 DEF MovedBy, D!PointsInto
        <5> QED
          BY <4>1, <5>2, <5>3
      <4>3. CASE o = i0
        <5>1. MovedBy(o)' <=> o \in D!HeaderPointers \/ D!PointsInto(pD, pD[o])
          BY <1>1, <3>10, <4>3 DEF MovedBy, D!PointsInto
        <5>2. D!LooksPointer(v) <=> D!PointsInto(pD, v)
          BY <1>1, PassingIs, Offsets DEF D!LooksPointer, D!PointsInto
        <5>3. CASE MovedBy(o)
          <6>1. v = D!Plus(pD[o], D!Minus(home[pA], pD[1])) /\ v = D!Plus(pD[o], reloc)
            BY <1>1, <2>1, <4>1, <4>3, <5>3, PassingIs
          <6>2. pD[o] \in Nat /\ pD[1] <= pD[o] /\ pD[o] <= pD[8]
            <7>1. CASE o \in D!HeaderPointers
              BY <3>3, <7>1, DriverIs
            <7>2. CASE D!PointsInto(pD, pD[o])
              <8>1. pD[1] <= pD[o] /\ pD[o] < pD[8]
                BY <3>3, <7>2, DriverIs
              <8>2. pD[o] \in Nat
                BY <3>3, <3>4, DriverIs, WordsAre
              <8> QED
                BY <8>1, <8>2, <3>5
            <7> QED
              BY <5>3, <7>1, <7>2 DEF MovedBy
          <6>3. ~D!PointsInto(pD, v)
            BY <3>3, <6>1, <6>2, NotAgain
          <6>4. D!Slot(o)' = v
            BY <2>1, <2>10, <4>3, <5>2, <6>3
          <6>5. MovedBy(o)'
            BY <5>1, <5>3 DEF MovedBy
          <6> QED
            BY <6>1, <6>4, <6>5
        <5>4. CASE ~MovedBy(o)
          <6>1. v = pD[o] /\ o \notin D!HeaderPointers
            BY <2>1, <4>1, <4>3, <5>4 DEF MovedBy
          <6> QED
            BY <2>1, <2>10, <4>3, <5>1, <5>2, <6>1
        <5> QED
          BY <5>3, <5>4
      <4> QED
        BY <4>2, <4>3
    <3>12. Moving'
      <4>1. D!Initialized(pD)' = n /\ pD' = pD /\ reloc' = reloc
        BY <1>1, <3>4 DEF D!Initialized
      <4> QED
        BY <3>11, <4>1 DEF Moving
    <3>13. Behind(FALSE)'
      <4>1. D!Initialized(pD)' = n /\ D!Size(pD)' = z /\ DOMAIN nds' = DOMAIN nds
        BY <1>1, <1>3, <2>4, <3>4 DEF D!Initialized, D!Size
      <4> SUFFICES ASSUME NEW o \in n .. z - 1, pA + o \in DOMAIN nds PROVE D!Slot(o)' = before[pA + o]
        BY <1>1, <4>1 DEF Behind
      <4>2. o \in Nat /\ o # i0
        BY <3>7
      <4> QED
        BY <2>9, <3>2, <3>4, <4>2 DEF Behind
    <3>14. pass' = k /\ ittr' = i0 + 1
      BY <1>1, <1>2, <2>2
    <3>15. pD[D!Passes[k].from] - pD[1] <= i0 + 1
      BY <3>2, <3>5
    <3> QED
      BY <3>2, <3>12, <3>13, <3>14, <3>15
  <2> QED
    BY <2>6, <2>7, <2>8, <2>11, <2>12 DEF DldiInv
<1> QED
  BY <1>5, <1>6

-----------------------------------------------------------------------------
(***************************************************************************)
(* The bss is cleared, and the driver is in place.                         *)
(***************************************************************************)
LEMMA DldiResult ==
  ASSUME DldiInv, pc = "pass", pass = 4, clean, D!Apart(pD, home[pA])
  PROVE  Result /\ Behind(FALSE)
<1>1. Moving /\ Behind(FALSE)
  BY DEF DldiInv, MoveInv
<1>2. ASSUME NEW o PROVE MovedBy(o) <=> D!Moves(pD, o)
  <2>1. \A k \in 1 .. 3 : k < 4
    OBVIOUS
  <2> QED
    BY <2>1 DEF MovedBy, Done, D!Moves
<1>3. reloc = D!Minus(home[pA], pD[D!dataStart])
  BY PassingIs, Offsets DEF Passing
<1> QED
  BY <1>1, <1>2, <1>3, Zenon DEF Moving, Result, D!Relocated

Cleared(f, from, n) == [x \in DOMAIN f |-> IF x \in from .. from + n - 1 THEN 0 ELSE f[x]]

LEMMA DldiClearFacts ==
  ASSUME DldiInv, D!ClearBss
  PROVE  /\ pc = "pass" /\ pass = 4 /\ Passing
         /\ UNCHANGED <<pD, fix, linked, clean, allocatedSpace, home, ignoresize, before, pA,
                        pAdata, reloc, pDdata, pDbssEnd, pass, ittr>>
         /\ D!torelative(7) \in Nat /\ D!BssWords \in Nat /\ D!BssWords = D!Minus(pD[8], pD[7])
         /\ \/ D!fixBss \notin fix /\ pc' = "patched" /\ nds' = nds
            \/ /\ D!fixBss \in fix /\ (pA + D!torelative(7)) + D!BssWords <= D!Length
               /\ pc' = "patched"
               /\ nds' = Cleared(nds, pA + D!torelative(7), D!BssWords)
            \/ /\ D!fixBss \in fix /\ ~((pA + D!torelative(7)) + D!BssWords <= D!Length)
               /\ pc' = "crashed" /\ nds' = nds
<1>1. /\ pc = "pass" /\ pass = 4 /\ Passing
      /\ UNCHANGED <<pD, fix, linked, clean, allocatedSpace, home, ignoresize, before, pA,
                     pAdata, reloc, pDdata, pDbssEnd, pass, ittr>>
  BY DEF D!ClearBss, D!driver, D!file, D!moves, Passing
<1>2. D!torelative(7) \in Nat
  BY <1>1, PassingIs, WordsAre
<1>3. D!BssWords = D!Minus(pD[8], pD[7])
  BY <1>1, PassingIs, Offsets DEF D!BssWords
<1>4. D!BssWords \in Nat
  <2>1. pD[7] \in D!Word /\ pD[8] \in D!Word
    BY Offsets DEF DldiInv, DldiTypes
  <2>2. D!BssWords \in D!Word
    BY <1>3, <2>1, WordOps
  <2> QED
    BY <2>2, WordsAre
<1>5. CASE D!fixBss \notin fix
  BY <1>1, <1>2, <1>3, <1>4, <1>5 DEF D!ClearBss
<1>6. CASE D!fixBss \in fix
  <2>1. PICK s : s = pA + D!torelative(7)
    OBVIOUS
  <2>2. IF s + D!BssWords <= D!Length
        THEN nds' = Cleared(nds, s, D!BssWords) /\ pc' = "patched"
        ELSE pc' = "crashed" /\ nds' = nds
    BY <1>6, <2>1, Offsets, Zenon DEF D!ClearBss, Cleared
  <2> QED
    BY <1>1, <1>2, <1>3, <1>4, <1>6, <2>1, <2>2
<1> QED
  BY <1>5, <1>6

LEMMA DldiClearBss == ASSUME DldiInv, D!ClearBss PROVE DldiInv'
<1>1. /\ pc = "pass" /\ pass = 4 /\ Passing
      /\ UNCHANGED <<pD, fix, linked, clean, allocatedSpace, home, ignoresize, before, pA,
                     pAdata, reloc, pDdata, pDbssEnd, pass, ittr>>
  BY DldiClearFacts
<1>0. DldiTypes /\ DldiPlace /\ CleanInv /\ RestInv /\ MoveInv /\ pA \in D!Sections
  BY <1>1, PassingIs DEF DldiInv
<1>2. PICK m \in Nat, s \in Nat, w \in Nat :
        m = D!Length /\ s = D!torelative(7) /\ w = D!BssWords
  BY <1>0, DldiClearFacts, FileIs
<1>3. DOMAIN nds = 0 .. m - 1 /\ nds \in [0 .. m - 1 -> D!Word] /\ pA \in Nat
  BY <1>0, <1>2, FileIs DEF DldiTypes
<1>4. \/ D!fixBss \notin fix /\ pc' = "patched" /\ nds' = nds
      \/ /\ D!fixBss \in fix /\ (pA + s) + w <= m /\ pc' = "patched" /\ nds' = Cleared(nds, pA + s, w)
      \/ D!fixBss \in fix /\ ~((pA + s) + w <= m) /\ pc' = "crashed" /\ nds' = nds
  BY <1>2, DldiClearFacts
<1>5. ASSUME nds' = Cleared(nds, pA + s, w)
      PROVE  /\ nds' \in [0 .. m - 1 -> D!Word]
             /\ \A x \in 0 .. m - 1 :
                  nds'[x] = IF x \in pA + s .. ((pA + s) + w) - 1 THEN 0 ELSE nds[x]
  <2>1. nds' = [x \in 0 .. m - 1 |-> IF x \in pA + s .. ((pA + s) + w) - 1 THEN 0 ELSE nds[x]]
    BY <1>3, <1>5 DEF Cleared
  <2>2. 0 \in D!Word
    BY WordsAre
  <2>3. \A x \in 0 .. m - 1 : nds[x] \in D!Word
    BY <1>3
  <2> QED
    BY <2>1, <2>2, <2>3
<1>6. nds' \in [0 .. m - 1 -> D!Word]
  BY <1>3, <1>4, <1>5
<1>7. Keeps
  BY <1>1, <1>3, <1>6 DEF Keeps
<1>8. D!Length' = D!Length /\ D!Sections' = D!Sections /\ D!dldilen' = D!dldilen /\ CleanInv'
  BY <1>0, <1>7, KeptAre
<1>9. DldiTypes'
  <2>1. nds' \in [DOMAIN before -> D!Word]
    BY <1>0, <1>3, <1>6, FileIs
  <2> QED
    BY <1>0, <1>1, <1>4, <2>1 DEF DldiTypes, Used
<1>10. DldiPlace'
  BY <1>0, <1>1, <1>4, <1>8 DEF DldiPlace, Used
<1>11. D!Apart(pD, home[pA])' <=> D!Apart(pD, home[pA])
  BY <1>1 DEF D!Apart, D!PointsInto
<1>12. ASSUME clean
       PROVE  \E n \in Nat, z \in Nat :
                /\ n = D!Initialized(pD) /\ z = D!Size(pD) /\ n <= z /\ w = z - n /\ n = D!dldilen
                /\ pA + n <= m /\ D!IsDriver(pD)
                /\ ~ignoresize => z <= allocatedSpace[pA]
                /\ allocatedSpace[pA] \in Nat /\ pA + allocatedSpace[pA] <= m
                /\ D!Apart(pD, home[pA]) => s = n
  <2>1. /\ D!IsDriver(pD) /\ D!dldilen = D!Initialized(pD)
        /\ allocatedSpace[pA] \in Nat /\ pA + allocatedSpace[pA] <= m
    BY <1>0, <1>2, <1>12, DriverFits
  <2>2. ~ignoresize => D!Size(pD) <= allocatedSpace[pA]
    BY <1>0, <1>12, DriverFits
  <2>3. /\ D!Size(pD) \in Nat /\ D!Initialized(pD) \in Nat /\ D!Initialized(pD) <= D!Size(pD)
        /\ D!Size(pD) = pD[8] - pD[1] /\ D!Initialized(pD) = pD[7] - pD[1]
    BY <2>1, DriverIs
  <2>4. pD[1] \in Nat /\ pD[7] \in Nat /\ pD[8] \in Nat /\ pD[7] <= pD[8]
    <3>1. {1, 7, 8} \subseteq D!HeaderPointers
      BY Offsets
    <3>2. pD[1] \in Nat /\ pD[7] \in Nat /\ pD[8] \in Nat
      BY <2>1, <3>1, DriverIs
    <3> QED
      BY <2>3, <3>2
  <2>5. w = pD[8] - pD[7]
    <3>1. w = D!Minus(pD[8], pD[7])
      BY <1>2, DldiClearFacts
    <3> QED
      BY <2>4, <3>1 DEF D!Minus
  <2>6. pA + D!dldilen <= m
    BY <1>1, <1>2, PassingIs
  <2>7. D!Apart(pD, home[pA]) => s = pD[7] - pD[1]
    BY <1>1, <1>2, <1>12, BoundsAre
  <2> QED
    BY <2>1, <2>2, <2>3, <2>4, <2>5, <2>6, <2>7
<1>13. RestInv'
  <2> SUFFICES ASSUME clean, ~ignoresize, ~D!ClearsElsewhere'
               PROVE  /\ pc' # "crashed"
                      /\ \A x \in DOMAIN nds' :
                           x \notin pA .. pA + allocatedSpace[pA] - 1 => nds'[x] = before[x]
    BY <1>1, <1>4 DEF RestInv
  <2>1. \A x \in DOMAIN nds : x \notin pA .. pA + allocatedSpace[pA] - 1 => nds[x] = before[x]
    <3>1. ~D!ClearsElsewhere
      BY <1>1 DEF D!ClearsElsewhere
    <3> QED
      BY <1>0, <1>1, <3>1 DEF RestInv, Used
  <2>2. CASE D!fixBss \notin fix
    BY <1>3, <1>4, <2>1, <2>2
  <2>3. CASE D!fixBss \in fix
    <3>1. D!Apart(pD, home[pA])
      BY <1>1, <1>4, <1>11, <2>3 DEF D!ClearsElsewhere
    <3>2. PICK n \in Nat, z \in Nat :
             /\ n <= z /\ w = z - n /\ s = n /\ z <= allocatedSpace[pA]
             /\ allocatedSpace[pA] \in Nat /\ pA + allocatedSpace[pA] <= m
      BY <1>12, <3>1
    <3>3. (pA + s) + w = pA + z /\ pA + z <= m
      BY <1>3, <3>2
    <3>4. pc' = "patched" /\ nds' = Cleared(nds, pA + s, w)
      BY <1>4, <2>3, <3>3
    <3>5. ASSUME NEW x \in DOMAIN nds', x \notin pA .. pA + allocatedSpace[pA] - 1
          PROVE  nds'[x] = before[x]
      <4>1. x \in 0 .. m - 1 /\ x \notin pA + s .. ((pA + s) + w) - 1
        BY <1>3, <1>6, <3>2, <3>3, <3>5
      <4>2. nds'[x] = nds[x]
        BY <1>5, <3>4, <4>1
      <4> QED
        BY <1>3, <2>1, <3>5, <4>1, <4>2
    <3> QED
      BY <3>4, <3>5
  <2> QED
    BY <2>2, <2>3
<1>14. MoveInv'
  <2> SUFFICES ASSUME clean, D!Apart(pD, home[pA]), pc' = "patched"
               PROVE  (Result /\ Behind(D!fixBss \in fix))'
    BY <1>1, <1>4, <1>11 DEF MoveInv
  <2>1. Result /\ Behind(FALSE)
    BY <1>1, DldiResult
  <2>2. PICK n \in Nat, z \in Nat :
          /\ n = D!Initialized(pD) /\ z = D!Size(pD) /\ n <= z /\ w = z - n /\ s = n /\ pA + n <= m
    BY <1>12
  <2>3. /\ D!Initialized(pD)' = n /\ D!Size(pD)' = z /\ DOMAIN nds' = 0 .. m - 1
        /\ \A o : D!Relocated(pD, home[pA], o)' = D!Relocated(pD, home[pA], o)
    <3>1. D!Initialized(pD)' = n /\ D!Size(pD)' = z
      BY <1>1, <2>2 DEF D!Initialized, D!Size
    <3>2. \A o : D!Relocated(pD, home[pA], o)' = D!Relocated(pD, home[pA], o)
      BY <1>1 DEF D!Relocated, D!Moves, D!PointsInto, D!Part
    <3> QED
      BY <1>6, <3>1, <3>2
  <2>4. ASSUME NEW o \in 0 .. n - 1 PROVE D!Slot(o)' = D!Slot(o)
    <3>1. pA + o \in 0 .. m - 1 /\ pA + o \notin pA + s .. ((pA + s) + w) - 1
      <4>1. PICK a \in Nat : a = pA /\ a + n <= m
        BY <1>3, <2>2
      <4>2. a + o \in 0 .. m - 1 /\ a + o \notin a + n .. ((a + n) + w) - 1
        BY <4>1
      <4> QED
        BY <2>2, <4>1, <4>2
    <3>2. nds'[pA + o] = nds[pA + o]
      BY <1>4, <1>5, <3>1
    <3> QED
      BY <1>1, <3>2 DEF D!Slot
  <2>5. Result'
    <3>1. \A o \in 0 .. n - 1 : D!Slot(o) = D!Relocated(pD, home[pA], o)
      BY <2>1, <2>2 DEF Result
    <3>2. \A o \in 0 .. n - 1 : D!Slot(o)' = D!Relocated(pD, home[pA], o)'
      BY <2>3, <2>4, <3>1
    <3> QED
      BY <2>3, <3>2 DEF Result
  <2>6. ASSUME NEW o \in n .. z - 1, pA + o \in 0 .. m - 1
        PROVE  D!Slot(o)' = IF D!fixBss \in fix THEN 0 ELSE before[pA + o]
    <3>1. D!Slot(o) = before[pA + o]
      BY <1>3, <2>1, <2>2, <2>6 DEF Behind
    <3>2. CASE D!fixBss \notin fix
      BY <1>1, <1>4, <3>1, <3>2 DEF D!Slot
    <3>3. CASE D!fixBss \in fix
      <4>1. nds' = Cleared(nds, pA + s, w)
        BY <1>4, <3>3
      <4>2. pA + o \in pA + s .. ((pA + s) + w) - 1
        <5>1. PICK a \in Nat : a = pA
          BY <1>3
        <5>2. o \in Nat /\ n <= o /\ o < z
          OBVIOUS
        <5>3. a + o \in a + s .. ((a + s) + w) - 1
          BY <2>2, <5>2
        <5> QED
          BY <5>1, <5>3
      <4>3. nds'[pA + o] = 0
        BY <1>5, <2>6, <4>1, <4>2
      <4> QED
        BY <1>1, <3>3, <4>3 DEF D!Slot
    <3> QED
      BY <3>2, <3>3
  <2>7. Behind(D!fixBss \in fix)'
    <3>1. pA' = pA /\ before' = before /\ fix' = fix
      BY <1>1
    <3> QED
      BY <2>3, <2>6, <3>1 DEF Behind
  <2> QED
    BY <2>5, <2>7
<1> QED
  BY <1>8, <1>9, <1>10, <1>13, <1>14 DEF DldiInv

-----------------------------------------------------------------------------
(***************************************************************************)
(* The next file, for the same driver or for the one just moved.           *)
(***************************************************************************)
LEMMA DldiOpens ==
  ASSUME NEW f \in Files, D!Opens(f), pass' = 0, UNCHANGED <<pA, ittr, pAdata, reloc, pDdata, pDbssEnd>>,
         DldiInv, \E d \in Drivers : linked' = d.words, clean' \in BOOLEAN,
         pD' \in [DOMAIN pD' -> D!Word], 0 .. D!dldiData - 1 \subseteq DOMAIN pD', CleanInv'
  PROVE  DldiInv'
<1>1. /\ nds' = f.words /\ before' = f.words /\ allocatedSpace' = f.space /\ home' = f.home
      /\ ignoresize' \in BOOLEAN /\ pc' = "search"
  BY DEF D!Opens
<1>2. f.words \in [DOMAIN f.words -> D!Word]
  <2>1. D!IsHomebrew(f)
    BY DldiAssumption DEF D!DldiAssumption
  <2> QED
    BY <2>1 DEF D!IsHomebrew
<1>3. DldiTypes'
  BY <1>1, <1>2 DEF DldiInv, DldiTypes
<1>4. DldiPlace' /\ RestInv' /\ MoveInv'
  BY <1>1 DEF DldiPlace, RestInv, MoveInv, Used
<1> QED
  BY <1>3, <1>4 DEF DldiInv

LEMMA DldiNextFile == ASSUME DldiInv, D!NextFile PROVE DldiInv'
<1>1. PICK f \in Files : D!Opens(f)
  BY DEF D!NextFile
<1>2. /\ pass' = 0
      /\ UNCHANGED <<pD, fix, linked, clean, pA, ittr, pAdata, reloc, pDdata, pDbssEnd>>
  BY DEF D!NextFile, D!driver, D!moves
<1>3. CleanInv'
  BY <1>2 DEF DldiInv, CleanInv, LinkedFor, D!Relocated, D!Moves, D!PointsInto, D!Part,
     D!Initialized, D!Size
<1>4. /\ \E d \in Drivers : linked' = d.words
      /\ clean' \in BOOLEAN /\ pD' \in [DOMAIN pD' -> D!Word]
      /\ 0 .. D!dldiData - 1 \subseteq DOMAIN pD'
  BY <1>2 DEF DldiInv, DldiTypes
<1> QED
  BY <1>1, <1>2, <1>3, <1>4, DldiOpens

LEMMA DldiTemplate == ASSUME DldiInv, D!Template PROVE DldiInv'
<1>1. PICK f \in Files : D!Opens(f)
  BY DEF D!Template
<1>2. /\ pc = "patched" /\ pass' = 0
      /\ UNCHANGED <<fix, linked, pA, ittr, pAdata, reloc, pDdata, pDbssEnd>>
      /\ pD' = [o \in 0 .. (D!Length - 1) - pA |-> D!Slot(o)]
      /\ clean' = (clean /\ D!Apart(pD, home[pA]) /\ D!Stays(pD, home[pA]))
  BY DEF D!Template, D!moves
<1>3. DldiTypes /\ DldiPlace /\ CleanInv /\ MoveInv /\ pA \in D!Sections
  BY <1>2 DEF DldiInv, DldiPlace, Used
<1>4. PICK m \in Nat : m = D!Length
  BY <1>3, FileIs
<1>41. PICK e : e = pD'
  OBVIOUS
<1>5. DOMAIN nds = 0 .. m - 1 /\ nds \in [0 .. m - 1 -> D!Word] /\ pA \in Nat /\ pA < m - D!dldiData
  BY <1>3, <1>4, FileIs DEF DldiTypes, D!Sections
<1>6. /\ e \in [0 .. (m - 1) - pA -> D!Word]
      /\ \A o \in 0 .. (m - 1) - pA : e[o] = D!Slot(o)
  <2>1. e = [o \in 0 .. (m - 1) - pA |-> D!Slot(o)]
    BY <1>2, <1>4, <1>41
  <2>2. \A o \in 0 .. (m - 1) - pA : D!Slot(o) \in D!Word
    BY <1>5 DEF D!Slot
  <2> QED
    BY <2>1, <2>2
<1>7. e \in [DOMAIN e -> D!Word] /\ 0 .. D!dldiData - 1 \subseteq DOMAIN e
  BY <1>5, <1>6, Offsets
<1>8. CleanInv'
  <2> SUFFICES ASSUME clean' PROVE LinkedFor(pD, linked, pD[1])'
    BY DEF CleanInv
  <2>1. clean /\ D!Apart(pD, home[pA]) /\ D!Stays(pD, home[pA])
    BY <1>2
  <2>2. Result
    BY <1>2, <1>3, <2>1 DEF MoveInv
  <2>3. /\ D!IsDriver(linked) /\ LinkedFor(pD, linked, pD[1])
        /\ D!Initialized(pD) = D!Initialized(linked) /\ D!Size(pD) = D!Size(linked)
        /\ home[pA] \in Nat /\ home[pA] + D!Size(linked) < Words
        /\ D!dldilen = D!Initialized(linked)
    BY <1>3, <2>1, DriverFits
  <2>4. PICK n \in Nat : n = D!Initialized(linked)
    BY <2>3, DriverIs
  <2>5. pA + n <= m
    BY <1>2, <1>3, <1>4, <2>3, <2>4 DEF DldiPlace
  <2>6. \A o \in 0 .. n - 1 : o \in 0 .. (m - 1) - pA
    BY <1>5, <2>5
  <2>7. 0 .. n - 1 \subseteq DOMAIN e /\ \A o \in 0 .. n - 1 : e[o] = D!Relocated(pD, home[pA], o)
    BY <1>6, <2>2, <2>3, <2>4, <2>6 DEF Result
  <2>8. LinkedFor(e, linked, home[pA])
    BY <1>7, <2>1, <2>3, <2>4, <2>7, LinkedAgain
  <2>9. e[1] = home[pA]
    BY <2>3, <2>8, LinkedHeader
  <2>10. LinkedFor(e, linked, e[1])
    BY <2>8, <2>9
  <2> QED
    BY <1>2, <1>41, <2>10 DEF LinkedFor, D!Relocated, D!Moves, D!PointsInto, D!Part, D!Initialized, D!Size
<1>9. clean' \in BOOLEAN /\ \E d \in Drivers : linked' = d.words
  BY <1>2, <1>3 DEF DldiTypes
<1> QED
  BY <1>1, <1>2, <1>41, <1>7, <1>8, <1>9, DldiOpens

-----------------------------------------------------------------------------
(***************************************************************************)
(* The invariant: it holds at the start, every step keeps it, and what is  *)
(* to be shown follows from it.                                            *)
(***************************************************************************)
LEMMA DldiInit == ASSUME D!Init PROVE DldiInv
<1>1. PICK d \in Drivers : pD = d.words /\ fix = d.fix /\ linked = d.words /\ clean = TRUE
  BY DEF D!Init
<1>2. PICK f \in Files : /\ nds = f.words /\ before = f.words
                         /\ allocatedSpace = f.space /\ home = f.home
  BY DEF D!Init
<1>3. /\ ignoresize \in BOOLEAN /\ pc = "search" /\ pA = 0 /\ pass = 0 /\ ittr = 0
      /\ pAdata = 0 /\ reloc = 0 /\ pDdata = 0 /\ pDbssEnd = 0
  BY DEF D!Init
<1>4. D!IsDriver(d.words) /\ D!IsHomebrew(f)
  BY DldiAssumption DEF D!DldiAssumption
<1>5. f.words \in [DOMAIN f.words -> D!Word]
  BY <1>4 DEF D!IsHomebrew
<1>6. d.words \in [DOMAIN d.words -> D!Word] /\ 0 .. D!dldiData - 1 \subseteq DOMAIN d.words
  BY <1>4 DEF D!IsDriver
<1>7. 0 \in D!Word /\ 0 \in 0 .. Words
  BY WordsAre
<1>8. DldiTypes
  BY <1>1, <1>2, <1>3, <1>5, <1>6, <1>7 DEF DldiTypes
<1>9. CleanInv
  BY <1>1, <1>4, LinkedFirst, Offsets DEF CleanInv
<1>10. DldiPlace /\ RestInv /\ MoveInv
  BY <1>2, <1>3 DEF DldiPlace, RestInv, MoveInv, Used
<1> QED
  BY <1>8, <1>9, <1>10 DEF DldiInv

LEMMA DldiNext == ASSUME DldiInv, D!Next PROVE DldiInv'
BY DldiSearch, DldiCopy, DldiPass, DldiFixWord, DldiEndPass, DldiClearBss, DldiNextFile, DldiTemplate
   DEF D!Next

LEMMA DldiStutter == ASSUME DldiInv, UNCHANGED onlyDldi, pc' = pc PROVE DldiInv'
<1>1. /\ UNCHANGED <<pD, fix, linked, clean, nds, allocatedSpace, home, ignoresize, before, pA,
                     pAdata, reloc, pDdata, pDbssEnd, pass, ittr, pc>>
  BY DEF onlyDldi
<1>2. Keeps
  BY <1>1 DEF Keeps
<1>3. D!Length' = D!Length /\ D!Sections' = D!Sections /\ D!dldilen' = D!dldilen /\ CleanInv'
  BY <1>2, KeptAre DEF DldiInv
<1>4. DldiTypes'
  BY <1>1 DEF DldiInv, DldiTypes
<1>5. DldiPlace'
  BY <1>1, <1>3 DEF DldiInv, DldiPlace
<1>6. /\ D!Initialized(pD)' = D!Initialized(pD) /\ D!Size(pD)' = D!Size(pD)
      /\ D!Apart(pD, home[pA])' <=> D!Apart(pD, home[pA])
  BY <1>1 DEF D!Initialized, D!Size, D!Apart, D!PointsInto
<1>7. D!Apart(pD, home[pA])' <=> D!Apart(pD, home[pA])
  BY <1>1 DEF D!Apart, D!PointsInto
<1>8. RestInv'
  <2>1. D!ClearsElsewhere' <=> D!ClearsElsewhere
    BY <1>1, <1>7 DEF D!ClearsElsewhere
  <2>2. \A o : D!torelative(o)' = D!torelative(o)
    BY <1>1 DEF D!torelative, D!Slot
  <2> QED
    BY <1>1, <1>6, <2>1, <2>2 DEF DldiInv, RestInv
<1>9. MoveInv'
  <2>1. \A o : MovedBy(o)' <=> MovedBy(o)
    BY <1>1 DEF MovedBy, Done, D!Part, D!PointsInto
  <2>2. Moving => Moving'
    BY <1>1, <1>6, <2>1 DEF Moving, D!Slot
  <2>3. Behind(FALSE) => Behind(FALSE)'
    BY <1>1, <1>6 DEF Behind, D!Slot
  <2>4. Behind(D!fixBss \in fix) => Behind(D!fixBss \in fix)'
    BY <1>1, <1>6 DEF Behind, D!Slot
  <2>5. \A o : D!Relocated(pD, home[pA], o)' = D!Relocated(pD, home[pA], o)
    BY <1>1 DEF D!Relocated, D!Moves, D!PointsInto, D!Part
  <2>6. Result => Result'
    BY <1>1, <1>6, <2>5 DEF Result, D!Slot
  <2> QED
    BY <1>1, <1>7, <2>2, <2>3, <2>4, <2>6 DEF DldiInv, MoveInv
<1> QED
  BY <1>3, <1>4, <1>5, <1>8, <1>9 DEF DldiInv

LEMMA DldiMovedOnce == ASSUME DldiInv PROVE D!MovedOnce
<1> SUFFICES ASSUME pc = "patched", clean, D!Apart(pD, home[pA]) PROVE D!Patched
  BY DEF D!MovedOnce
<1>1. DldiTypes /\ DldiPlace /\ CleanInv /\ MoveInv /\ pA \in D!Sections
  BY DEF DldiInv, DldiPlace, Used
<1>2. Result /\ Behind(D!fixBss \in fix)
  BY <1>1 DEF MoveInv
<1>3. /\ D!IsDriver(linked) /\ LinkedFor(pD, linked, pD[1])
      /\ D!Initialized(pD) = D!Initialized(linked) /\ D!Size(pD) = D!Size(linked)
      /\ home[pA] \in Nat /\ home[pA] + D!Size(linked) < Words
  BY <1>1, DriverFits
<1>4. PICK n \in Nat, z \in Nat : n = D!Initialized(linked) /\ z = D!Size(linked)
  BY <1>3, DriverIs
<1>5. ASSUME NEW o \in 0 .. n - 1 PROVE D!Slot(o) = D!Relocated(linked, home[pA], o)
  <2>1. D!Slot(o) = D!Relocated(pD, home[pA], o)
    BY <1>2, <1>3, <1>4 DEF Result
  <2> QED
    BY <1>3, <1>4, <2>1, Compose
<1>6. ASSUME NEW o \in n .. z - 1, pA + o \in DOMAIN nds
      PROVE  D!Slot(o) = IF D!fixBss \in fix THEN 0 ELSE before[pA + o]
  BY <1>2, <1>3, <1>4, <1>6 DEF Behind
<1>7. ASSUME NEW o \in 0 .. z - 1, pA + o \in DOMAIN nds
      PROVE  D!Slot(o) = IF o < n THEN D!Relocated(linked, home[pA], o)
                         ELSE IF D!fixBss \in fix THEN 0 ELSE before[pA + o]
  <2>1. CASE o < n
    BY <1>5, <2>1
  <2>2. CASE ~(o < n)
    BY <1>6, <1>7, <2>2
  <2> QED
    BY <2>1, <2>2
<1> QED
  BY <1>4, <1>7 DEF D!Patched

LEMMA DldiKeepsRest == ASSUME DldiInv PROVE D!KeepsRest /\ D!TypeOK
<1>1. D!TypeOK
  BY DEF DldiInv, DldiTypes, D!TypeOK, Used
<1>2. D!KeepsRest
  <2>1. pc \in {"search", "failed"} \cup Used /\ (pc \in {"search", "failed"} => nds = before)
    BY DEF DldiInv, DldiTypes, DldiPlace
  <2> QED
    BY <2>1 DEF DldiInv, RestInv, D!KeepsRest, Used
<1> QED
  BY <1>1, <1>2

DldiHolds == tool = "dldipatch" => DldiInv

LEMMA DldiHoldsInit == Init => DldiHolds
BY DldiInit, Zenon DEF Init, DldiHolds, BytesTools

LEMMA DldiHoldsNext == DldiHolds /\ [Next]_vars => DldiHolds'
<1> SUFFICES ASSUME DldiHolds, [Next]_vars PROVE DldiHolds'
  OBVIOUS
<1>1. CASE UNCHANGED vars
  <2>1. UNCHANGED onlyDldi /\ pc' = pc /\ tool' = tool
    BY <1>1 DEF vars
  <2> QED
    BY <2>1, DldiStutter DEF DldiHolds
<1>2. CASE Dldipatch
  <2>1. tool = "dldipatch" /\ D!Next /\ tool' = tool
    BY <1>2 DEF Dldipatch
  <2> QED
    BY <2>1, DldiNext DEF DldiHolds
<1>3. CASE Mergecheat \/ Splashes \/ Unlzop
  <2>1. tool # "dldipatch" /\ tool' = tool
    BY <1>3 DEF Mergecheat, Splashes, Unlzop
  <2> QED
    BY <2>1 DEF DldiHolds
<1>4. CASE Patchers
  <2>1. tool \in BytesTools /\ B!Next
    BY <1>4 DEF Patchers
  <2>2. tool' = tool
    BY <2>1 DEF B!Next, B!Open, B!Search, B!Check, B!Decide, B!Write, B!Written, B!Binreplace
  <2> QED
    BY <2>1, <2>2 DEF DldiHolds, BytesTools
<1> QED
  BY <1>1, <1>2, <1>3, <1>4 DEF Next

LEMMA DldiHoldsImplies == DldiHolds => MovedOnce /\ KeepsRest
BY DldiMovedOnce, DldiKeepsRest DEF DldiHolds, MovedOnce, KeepsRest

(***************************************************************************)
(* A section that dldipatch has patched holds the driver as if it had been *)
(* linked for its address, every pointer moved once, wherever the driver   *)
(* was taken from and however often, whenever no word can be taken for a   *)
(* pointer that is none: for all drivers and homebrew of any size.         *)
(***************************************************************************)
THEOREM MovedOnceCorrect == Spec => []MovedOnce
<1>1. Init => DldiHolds
  BY DldiHoldsInit
<1>2. DldiHolds /\ [Next]_vars => DldiHolds'
  BY DldiHoldsNext
<1>3. DldiHolds => MovedOnce
  BY DldiHoldsImplies
<1> QED
  BY <1>1, <1>2, <1>3, PTL DEF Spec

(***************************************************************************)
(* dldipatch changes nothing outside the room of its section and never     *)
(* leaves the file, though the bounds of its loops are moved by them, for  *)
(* every driver whose moves so far were sound (clean), unless the size of  *)
(* the room was to be ignored; only the bss may be cleared elsewhere, if   *)
(* the driver overlaps its old address.                                    *)
(***************************************************************************)
THEOREM KeepsRestCorrect == Spec => []KeepsRest
<1>1. Init => DldiHolds
  BY DldiHoldsInit
<1>2. DldiHolds /\ [Next]_vars => DldiHolds'
  BY DldiHoldsNext
<1>3. DldiHolds => KeepsRest
  BY DldiHoldsImplies
<1> QED
  BY <1>1, <1>2, <1>3, PTL DEF Spec

=============================================================================
