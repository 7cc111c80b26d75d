-------------------------- MODULE IpsSystemProofs --------------------------
(***************************************************************************)
(* Proofs about the IPS patcher, for any patch file and any file; and      *)
(* about an IPS patch made from two files, carried, and applied: for every *)
(* pair of files and every cut of the patch.                               *)
(***************************************************************************)
EXTENDS IpsSystem, TLAPS

(* Byte behind record j - 1, where record j starts if there is one. *)
StartOf(j) ==
  IF j <= Len(ips) THEN ips[j].at
  ELSE IF Len(ips) = 0 THEN 5
  ELSE ips[Len(ips)].at + RecordBytes(ips[Len(ips)])

(* What the dry run has found out about a record it has passed. *)
Passed(j) == /\ ips[j].at + RecordBytes(ips[j]) <= sizips
             /\ ips[j].address + ips[j].size <= needed

EndRecord(k) == /\ ips[k].at + 3 = sizips
                /\ ips[k].address = EofAddress
                /\ \A j \in 1 .. k - 1 : Passed(j)

Cursor ==
  /\ record \in 1 .. Len(ips) + 1
  /\ offset = StartOf(record)

(* The strengthening: in the second run the cursor is not behind the       *)
(* record the dry run ended at, and all before it was found sound.         *)
RunInv ==
  /\ needed \in Nat
  /\ applied = 0
  /\ ppc \in {"start", "dry", "apply", "back", "returned"}
  /\ ppc = "start" => record = 1 /\ needed = 0
  /\ ppc = "dry" => \A j \in 1 .. record - 1 : Passed(j)
  /\ ppc \in {"apply", "back"} =>
       \E k \in 1 .. Len(ips) : record <= k /\ EndRecord(k)

PatchInv == AnyPatch /\ Cursor /\ RunInv

-----------------------------------------------------------------------------
(* A record takes at least the five bytes of its head. *)
LEMMA RecordBytesType ==
  ASSUME NEW r \in Record
  PROVE  RecordBytes(r) \in Nat /\ RecordBytes(r) >= 5
BY DEF Record, RecordBytes

LEMMA InitPatchInv == PatchInit /\ AnyPatch => PatchInv
<1> SUFFICES ASSUME PatchInit, AnyPatch PROVE PatchInv
  OBVIOUS
<1>1. Cursor
  BY DEF PatchInit, Cursor, StartOf, AnyPatch, WellLaid
<1>2. RunInv
  BY DEF PatchInit, RunInv
<1> QED
  BY <1>1, <1>2 DEF PatchInv

(* The cursor moves from one record to the next. *)
LEMMA AdvanceCursor ==
  ASSUME AnyPatch, Cursor, ~Truncated, Advance, UNCHANGED <<ips, sizips>>
  PROVE  /\ Cursor'
         /\ record \in 1 .. Len(ips) /\ record' = record + 1
<1>1. record <= Len(ips)
  <2> SUFFICES ASSUME record = Len(ips) + 1 PROVE FALSE
    BY DEF Cursor, AnyPatch
  <2>1. offset >= sizips /\ offset \in Nat
    <3>1. CASE Len(ips) = 0
      BY <3>1 DEF Cursor, StartOf, AnyPatch, WellLaid
    <3>2. CASE Len(ips) > 0
      <4>1. ips[Len(ips)] \in Record
        BY <3>2 DEF AnyPatch
      <4>2. ips[Len(ips)].at \in Nat /\ RecordBytes(ips[Len(ips)]) \in Nat
        BY <4>1, RecordBytesType DEF Record
      <4> QED
        BY <3>2, <4>2 DEF Cursor, StartOf, AnyPatch, WellLaid
    <3> QED
      BY <3>1, <3>2 DEF AnyPatch
  <2> QED
    BY <2>1 DEF Truncated, AnyPatch, Cursor
<1>2. ips[record] \in Record /\ RecordBytes(ips[record]) \in Nat
  BY <1>1, RecordBytesType DEF AnyPatch, Cursor
<1>3. offset' = StartOf(record + 1)
  BY <1>1, <1>2 DEF Advance, Current, Cursor, StartOf, AnyPatch, WellLaid
<1> QED
  BY <1>1, <1>3 DEF Advance, Cursor, StartOf, AnyPatch

(* A record the second run meets, short of the last, was found sound. *)
LEMMA SecondRunMeetsSound ==
  ASSUME PatchInv, ppc = "apply", ~AtEof
  PROVE  ~Truncated /\ ~(RecordEnd > needed)
<1>1. PICK k \in 1 .. Len(ips) : record <= k /\ EndRecord(k)
  BY DEF PatchInv, RunInv
<1>2. ips[record] \in Record /\ offset = ips[record].at
  BY <1>1 DEF PatchInv, AnyPatch, Cursor, StartOf
<1>t. /\ ips[record].at \in Nat /\ ips[record].address \in Nat
      /\ ips[record].size \in Nat /\ sizips \in Nat /\ needed \in Nat
  BY <1>2 DEF Record, PatchInv, AnyPatch, RunInv
<1>3. record # k
  BY <1>1, <1>2, <1>t DEF EndRecord, AtEof, Current
<1>4. Passed(record)
  BY <1>1, <1>3 DEF EndRecord, PatchInv, Cursor
<1>5. RecordBytes(ips[record]) \in Nat /\ RecordBytes(ips[record]) >= 5
  BY <1>2, RecordBytesType
<1>6. offset + RecordBytes(Current) <= sizips /\ offset + 5 <= sizips
  BY <1>2, <1>t, <1>4, <1>5 DEF Passed, Current
<1>7. ~Truncated
  BY <1>2, <1>t, <1>5, <1>6 DEF Truncated, Current
<1> QED
  BY <1>t, <1>4, <1>7 DEF Passed, Current, RecordEnd

(* The dry run ends at a record that is cut right behind its address. *)
LEMMA DryEndsAtEndRecord ==
  ASSUME PatchInv, ppc = "dry", AtEof
  PROVE  record \in 1 .. Len(ips) /\ EndRecord(record)
<1>1. record <= Len(ips)
  <2> SUFFICES ASSUME record = Len(ips) + 1 PROVE FALSE
    BY DEF PatchInv, Cursor, AnyPatch
  <2>1. CASE Len(ips) = 0
    BY <2>1 DEF PatchInv, Cursor, StartOf, AnyPatch, WellLaid, AtEof
  <2>2. CASE Len(ips) > 0
    <3>1. ips[Len(ips)] \in Record
      BY <2>2 DEF PatchInv, AnyPatch
    <3>2. ips[Len(ips)].at \in Nat /\ RecordBytes(ips[Len(ips)]) \in Nat
      BY <3>1, RecordBytesType DEF Record
    <3> QED
      BY <2>2, <3>2 DEF PatchInv, Cursor, StartOf, AnyPatch, WellLaid, AtEof
  <2> QED
    BY <2>1, <2>2 DEF PatchInv, AnyPatch
<1> QED
  BY <1>1
     DEF PatchInv, RunInv, Cursor, StartOf, AtEof, Current, EndRecord, AnyPatch

(* In the middle of the patch the cursor is not at its end record. *)
LEMMA NotAtEndRecord ==
  ASSUME AnyPatch, Cursor, ~AtEof, NEW k \in 1 .. Len(ips), EndRecord(k)
  PROVE  record # k
<1> SUFFICES ASSUME record = k PROVE AtEof
  OBVIOUS
<1>1. ips[record] \in Record
  BY DEF AnyPatch
<1>2. offset = ips[record].at /\ offset \in Nat
  BY <1>1, SMTT(40) DEF Cursor, StartOf, AnyPatch, Record
<1>3. ips[record].at + 3 = sizips /\ ips[record].address = EofAddress
  BY DEF EndRecord
<1> QED
  BY <1>2, <1>3 DEF AtEof, Current

(* The cursor sees the end of the patch at its end record only. *)
LEMMA EndsBeforeEndRecord ==
  ASSUME AnyPatch, Cursor, AtEof,
         NEW k \in 1 .. Len(ips), record <= k, EndRecord(k)
  PROVE  record = k
<1> SUFFICES ASSUME record # k PROVE FALSE
  OBVIOUS
<1>1. record \in 1 .. k - 1 /\ record <= Len(ips) /\ Passed(record)
  BY DEF EndRecord, Cursor, AnyPatch
<1>2. ips[record] \in Record /\ RecordBytes(ips[record]) >= 5
      /\ RecordBytes(ips[record]) \in Nat
  BY <1>1, RecordBytesType DEF AnyPatch
<1>3. ips[record].at \in Nat
  BY <1>2 DEF Record
<1>4. offset = ips[record].at
  BY <1>1 DEF Cursor, StartOf
<1> QED
  BY <1>1, <1>2, <1>3, <1>4 DEF Passed, AtEof, AnyPatch

LEMMA NextPatchInv == PatchInv /\ [PatchNext]_patchvars => PatchInv'
<1> SUFFICES ASSUME PatchInv, [PatchNext]_patchvars PROVE PatchInv'
  OBVIOUS
<1>0. AnyPatch /\ Cursor /\ RunInv
  BY DEF PatchInv
<1>1. AnyPatch'
  BY <1>0 DEF AnyPatch, patchvars, PatchNext, StartDry, DryRecord, DryTruncated,
     DryEmpty, NoMemory, Load, ApplyRecord, ApplyEnds, WriteBack
<1>2. CASE StartDry
  BY <1>0, <1>1, <1>2
     DEF StartDry, Return, PatchInv, Cursor, StartOf, RunInv, cursor
<1>3. CASE DryRecord
  <2>1. UNCHANGED <<ips, sizips>> /\ ~Truncated /\ ~AtEof /\ Advance
    BY <1>3 DEF DryRecord
  <2>2. Cursor' /\ record \in 1 .. Len(ips) /\ record' = record + 1
    BY <1>0, <2>1, AdvanceCursor
  <2>3. ips[record] \in Record /\ RecordBytes(ips[record]) \in Nat
    BY <1>0, <2>2, RecordBytesType DEF AnyPatch
  <2>4. RecordEnd \in Nat
    BY <2>3 DEF RecordEnd, Current, Record
  <2>5. needed' \in Nat /\ needed' >= needed /\ needed' >= RecordEnd
    BY <1>0, <1>3, <2>4 DEF DryRecord, Needed, greatest, RunInv
  <2>6. \A j \in 1 .. record : Passed(j)'
    <3> TAKE j \in 1 .. record
    <3>1. ips[j] \in Record
      BY <1>0, <2>2 DEF AnyPatch
    <3>2. CASE j = record
      <4>1. offset = ips[j].at /\ offset \in Nat
        BY <1>0, <2>2, <3>1, <3>2 DEF Cursor, StartOf, Record
      <4>2. offset + RecordBytes(ips[j]) <= sizips
        BY <1>0, <2>1, <2>3, <3>2, <4>1 DEF Truncated, Current, AnyPatch
      <4> QED
        BY <2>1, <2>5, <3>2, <4>1, <4>2 DEF Passed, RecordEnd, Current, RecordBytes
    <3>3. CASE j < record
      <4>1. Passed(j)
        BY <1>0, <1>3, <3>3 DEF RunInv, DryRecord, Cursor, AnyPatch
      <4> QED
        BY <1>0, <2>1, <2>5, <3>1, <4>1
           DEF Passed, RecordBytes, RunInv, Record
    <3> QED
      BY <2>2, <3>2, <3>3
  <2> QED
    BY <1>0, <1>1, <1>3, <2>2, <2>5, <2>6 DEF PatchInv, RunInv, DryRecord
<1>4. CASE DryTruncated
  BY <1>0, <1>1, <1>4
     DEF DryTruncated, Return, PatchInv, Cursor, StartOf, RunInv, cursor
<1>5. CASE DryEmpty
  BY <1>0, <1>1, <1>5
     DEF DryEmpty, Return, PatchInv, Cursor, StartOf, RunInv, cursor
<1>6. CASE NoMemory
  BY <1>0, <1>1, <1>6
     DEF NoMemory, Return, PatchInv, Cursor, StartOf, RunInv, cursor
<1>7. CASE Load
  <2>1. record \in 1 .. Len(ips) /\ EndRecord(record)
    BY <1>7, DryEndsAtEndRecord DEF Load
  <2>2. UNCHANGED <<ips, sizips, needed, applied>> /\ record' = 1 /\ offset' = 5
        /\ ppc' = "apply"
    BY <1>7 DEF Load
  <2>3. EndRecord(record)
    BY <2>1
  <2>4. (\E k \in 1 .. Len(ips) : record <= k /\ EndRecord(k))'
    <3>1. \A k \in 1 .. Len(ips) : k = record => EndRecord(k)'
      BY <2>1, <2>2 DEF EndRecord, Passed, RecordBytes
    <3> QED
      BY <2>1, <2>2, <3>1 
  <2>5. Cursor'
    BY <1>0, <2>1, <2>2 DEF Cursor, StartOf, AnyPatch, WellLaid
  <2> QED
    BY <1>0, <1>1, <2>2, <2>4, <2>5 DEF PatchInv, RunInv
<1>8. CASE ApplyRecord
  <2>1. UNCHANGED <<ips, sizips, needed, ppc, applied>> /\ ~Truncated /\ ~AtEof /\ Advance
    BY <1>8 DEF ApplyRecord
  <2>2. Cursor' /\ record \in 1 .. Len(ips) /\ record' = record + 1
    BY <1>0, <2>1, AdvanceCursor
  <2>3. PICK k \in 1 .. Len(ips) : record <= k /\ EndRecord(k)
    BY <1>0, <1>8 DEF RunInv, ApplyRecord
  <2>5. record # k
    BY <1>0, <2>1, <2>2, <2>3, NotAtEndRecord
  <2>6. record' <= k /\ EndRecord(k)'
    BY <1>0, <2>1, <2>2, <2>3, <2>5
       DEF EndRecord, Passed, RecordBytes, Cursor, AnyPatch
  <2> QED
    BY <1>0, <1>1, <1>8, <2>1, <2>2, <2>3, <2>6 DEF PatchInv, RunInv, ApplyRecord
<1>9. CASE ApplyEnds
  <2>1. AtEof
    BY <1>0, <1>9, SecondRunMeetsSound DEF ApplyEnds, RunInv, PatchInv
  <2>2. UNCHANGED <<ips, sizips, needed, offset, record>>
    BY <1>9 DEF ApplyEnds, cursor
  <2>3. ppc' = "back" /\ applied' = 0 /\ ppc = "apply"
    BY <1>9, <2>1 DEF ApplyEnds
  <2>4. PICK k \in 1 .. Len(ips) : record <= k /\ EndRecord(k)
    BY <1>0, <2>3 DEF RunInv
  <2>5. record' <= k /\ EndRecord(k)'
    BY <2>2, <2>4 DEF EndRecord, Passed, RecordBytes
  <2>6. Cursor'
    BY <1>0, <2>2 DEF Cursor, StartOf, RecordBytes
  <2> QED
    BY <1>0, <1>1, <2>2, <2>3, <2>4, <2>5, <2>6 DEF PatchInv, RunInv
<1>10. CASE WriteBack
  BY <1>0, <1>1, <1>10
     DEF WriteBack, Return, PatchInv, Cursor, StartOf, RunInv, cursor
<1>11. CASE UNCHANGED patchvars
  BY <1>0, <1>1, <1>11
     DEF patchvars, cursor, PatchInv, Cursor, StartOf, RunInv, EndRecord, Passed,
         RecordBytes
<1> QED
  BY <1>2, <1>3, <1>4, <1>5, <1>6, <1>7, <1>8, <1>9, <1>10, <1>11 DEF PatchNext

(***************************************************************************)
(* The second run of ipspatch never fails, for every patch file and every  *)
(* file: ignoring its result, as _ipspatch does, loses nothing.            *)
(***************************************************************************)
THEOREM SecondRunNeverFails == PatchSpec => []SecondRunSucceeds
<1>1. PatchInv => SecondRunSucceeds
  BY DEF PatchInv, RunInv, SecondRunSucceeds
<1> QED
  BY <1>1, InitPatchInv, NextPatchInv, PTL DEF PatchSpec

-----------------------------------------------------------------------------
(***************************************************************************)
(* Refinement.  The memory holds, at every point of the second run, what   *)
(* the abstract patch of the records before the cursor would make; and the *)
(* size the dry run found is the end of one of the records.                *)
(***************************************************************************)
NeededFrom(k) ==
  needed = 0 \/ \E j \in 1 .. k - 1 : needed = ips[j].address + ips[j].size

PatchedUpTo(k) ==
  /\ DOMAIN image = Positions(needed)
  /\ \A x \in Positions(needed) :
       Spec!PatchedTo(ips, k, disk, sizdisk, x, image[x])

ImageInv ==
  /\ sizdisk \in Nat
  /\ ppc = "dry" => NeededFrom(record)
  /\ ppc = "apply" =>
       /\ needed > 0 /\ PatchedUpTo(record)
       /\ \E k \in 1 .. Len(ips) : record <= k /\ EndRecord(k) /\ NeededFrom(k)
  /\ ppc = "back" =>
       /\ needed > 0 /\ PatchedUpTo(record)
       /\ record \in 1 .. Len(ips) /\ EndRecord(record) /\ NeededFrom(record)

LEMMA NoWriters ==
  ASSUME NEW x
  PROVE  Spec!PatchedTo(ips, 1, disk, sizdisk, x, Loaded(x))
BY DEF Spec!PatchedTo, Loaded

(* One more record: it decides the bytes it covers and no others. *)
LEMMA OneMoreWriter ==
  ASSUME NEW p, NEW k \in Nat \ {0}, NEW d, NEW n, NEW x, NEW b,
         Spec!PatchedTo(p, k, d, n, x, b)
  PROVE  Spec!PatchedTo(p, k + 1, d, n, x,
                        IF Covers(p[k], x) THEN ByteOf(p[k], x) ELSE b)
<1>1. CASE Covers(p[k], x)
  BY <1>1 DEF Spec!PatchedTo, Spec!Covers, Covers, Spec!ByteOf, ByteOf
<1>2. CASE ~Covers(p[k], x)
  BY <1>2 DEF Spec!PatchedTo, Spec!Covers, Covers, Spec!ByteOf, ByteOf
<1> QED
  BY <1>1, <1>2

LEMMA InitImageInv == PatchInit /\ AnyFile => ImageInv
  BY DEF PatchInit, AnyFile, ImageInv

LEMMA NextImageInv ==
  PatchInv /\ ImageInv /\ [PatchNext]_patchvars => ImageInv'
<1> SUFFICES ASSUME PatchInv, ImageInv, [PatchNext]_patchvars PROVE ImageInv'
  OBVIOUS
<1>0. AnyPatch /\ Cursor /\ RunInv
  BY DEF PatchInv
<1>1. CASE StartDry
  BY <1>0, <1>1 DEF StartDry, Return, ImageInv, NeededFrom, RunInv, diskvars
<1>2. CASE DryRecord
  <2>1. UNCHANGED <<ips, sizips, ppc, sizdisk>> /\ ~Truncated /\ Advance /\ ppc = "dry"
    BY <1>2 DEF DryRecord, diskvars
  <2>2. record \in 1 .. Len(ips) /\ record' = record + 1
    BY <1>0, <2>1, AdvanceCursor
  <2>3. needed' = needed \/ needed' = ips[record].address + ips[record].size
    BY <1>2 DEF DryRecord, Needed, greatest, RecordEnd, Current
  <2>4. NeededFrom(record)
    BY <2>1 DEF ImageInv
  <2>5. NeededFrom(record)'
    BY <1>0, <2>1, <2>2, <2>3, <2>4 DEF NeededFrom, AnyPatch
  <2> QED
    BY <2>1, <2>5 DEF ImageInv
<1>3. CASE DryTruncated \/ DryEmpty \/ NoMemory
  BY <1>3 DEF DryTruncated, DryEmpty, NoMemory, Return, ImageInv, diskvars
<1>4. CASE Load
  <2>1. record \in 1 .. Len(ips) /\ EndRecord(record)
    BY <1>4, DryEndsAtEndRecord DEF Load
  <2>2. /\ UNCHANGED <<ips, sizips, needed, disk, sizdisk>> /\ needed > 0
        /\ record' = 1 /\ ppc' = "apply" /\ ppc = "dry"
        /\ image' = [x \in Positions(needed) |-> Loaded(x)]
    BY <1>4 DEF Load, diskvars
  <2>3. (\E k \in 1 .. Len(ips) : record <= k /\ EndRecord(k) /\ NeededFrom(k))'
    <3>1. \A k \in 1 .. Len(ips) : k = record => EndRecord(k)' /\ NeededFrom(k)'
      BY <2>1, <2>2 DEF EndRecord, Passed, RecordBytes, NeededFrom, ImageInv
    <3> QED
      BY <2>1, <2>2, <3>1
  <2>4. PatchedUpTo(record)'
    BY <2>2, NoWriters
       DEF PatchedUpTo, Loaded
  <2> QED
    BY <2>2, <2>3, <2>4 DEF ImageInv
<1>5. CASE ApplyRecord
  <2>1. /\ UNCHANGED <<ips, sizips, ppc, needed, disk, sizdisk>>
        /\ ~Truncated /\ ~AtEof /\ Advance /\ ppc = "apply"
        /\ image' = [x \in DOMAIN image |->
                       IF Covers(ips[record], x) THEN ByteOf(ips[record], x)
                                                 ELSE image[x]]
    BY <1>5 DEF ApplyRecord, diskvars, Current
  <2>2. record \in 1 .. Len(ips) /\ record' = record + 1
    BY <1>0, <2>1, AdvanceCursor
  <2>3. PICK k \in 1 .. Len(ips) : record <= k /\ EndRecord(k) /\ NeededFrom(k)
    BY <2>1 DEF ImageInv
  <2>4. record # k
    BY <2>1, <2>3, NotAtEndRecord DEF PatchInv
  <2>5. record' <= k /\ EndRecord(k)' /\ NeededFrom(k)'
    BY <1>0, <2>1, <2>2, <2>3, <2>4
       DEF EndRecord, Passed, RecordBytes, NeededFrom, AnyPatch
  <2>6. /\ DOMAIN image' = Positions(needed)
        /\ \A x \in Positions(needed) :
             Spec!PatchedTo(ips, record + 1, disk, sizdisk, x, image'[x])
    BY <2>1, <2>2, OneMoreWriter DEF ImageInv, PatchedUpTo
  <2>7. PatchedUpTo(record)'
    BY <2>1, <2>2, <2>6 DEF PatchedUpTo
  <2> QED
    BY <2>1, <2>3, <2>5, <2>7 DEF ImageInv
<1>6. CASE ApplyEnds
  <2>1. /\ UNCHANGED <<ips, sizips, needed, image, disk, sizdisk, record>>
        /\ ppc = "apply" /\ ppc' = "back"
    BY <1>6 DEF ApplyEnds, cursor, diskvars
  <2>2. AtEof
    BY <1>6, <2>1, SecondRunMeetsSound DEF ApplyEnds
  <2>3. PICK k \in 1 .. Len(ips) : record <= k /\ EndRecord(k) /\ NeededFrom(k)
    BY <2>1 DEF ImageInv
  <2>4. record = k
    BY <1>0, <2>2, <2>3, EndsBeforeEndRecord
  <2>5. record \in 1 .. Len(ips) /\ EndRecord(record) /\ NeededFrom(record)
    BY <2>3, <2>4
  <2>6. EndRecord(record)' /\ NeededFrom(record)'
    BY <2>1, <2>5 DEF EndRecord, Passed, RecordBytes, NeededFrom
  <2> QED
    BY <2>1, <2>5, <2>6 DEF ImageInv, PatchedUpTo
<1>7. CASE WriteBack
  BY <1>0, <1>7 DEF WriteBack, Return, ImageInv, greatest, RunInv
<1>8. CASE UNCHANGED patchvars
  BY <1>8 DEF patchvars, cursor, diskvars, ImageInv, NeededFrom, PatchedUpTo,
     EndRecord, Passed, RecordBytes
<1> QED
  BY <1>1, <1>2, <1>3, <1>4, <1>5, <1>6, <1>7, <1>8 DEF PatchNext

-----------------------------------------------------------------------------
(* No record before the end record reaches beyond the size found. *)
LEMMA EndsWithinNeeded ==
  ASSUME AnyPatch, NEW k \in 1 .. Len(ips), EndRecord(k), NEW j \in 1 .. k - 1
  PROVE  /\ ips[j].address \in Nat /\ ips[j].size \in Nat
         /\ ips[j].address + ips[j].size <= needed
<1>1. ips[j] \in Record
  BY DEF AnyPatch
<1>2. Passed(j)
  BY DEF EndRecord
<1> QED
  BY <1>1, <1>2 DEF Passed, Record

(* The size the dry run found is the size of the patched file. *)
LEMMA PatchedSizeFound ==
  ASSUME AnyPatch, sizdisk \in Nat, needed \in Nat, needed > 0,
         NEW k \in 1 .. Len(ips), EndRecord(k), NeededFrom(k)
  PROVE  Spec!PatchedSize(k, greatest(sizdisk, needed))
<1>1. \A e \in Spec!RecordEnds(k) : e \in Nat /\ e <= needed
  BY EndsWithinNeeded DEF Spec!RecordEnds
<1>2. needed \in Spec!RecordEnds(k)
  BY DEF NeededFrom, Spec!RecordEnds
<1> QED
  BY <1>1, <1>2 DEF Spec!PatchedSize, greatest

(* Behind the last byte it needs, the patch leaves the file as it is. *)
LEMMA BeyondNeeded ==
  ASSUME AnyPatch, needed \in Nat, NEW k \in 1 .. Len(ips), EndRecord(k),
         NEW x \in Nat, x >= needed, x < sizdisk
  PROVE  Spec!PatchedTo(ips, k, disk, sizdisk, x, disk[x])
<1>1. \A j \in 1 .. k - 1 : ~Spec!Covers(ips[j], x)
  BY EndsWithinNeeded DEF Spec!Covers
<1> QED
  BY <1>1 DEF Spec!PatchedTo

LEMMA StepRefines ==
  ASSUME PatchInv, ImageInv, [PatchNext]_patchvars
  PROVE  [Spec!PatchSpecNext]_(Spec!specvars)
<1>0. AnyPatch /\ Cursor /\ RunInv
  BY DEF PatchInv
<1>1. CASE WriteBack
  <2>1. /\ needed > 0 /\ PatchedUpTo(record) /\ sizdisk \in Nat /\ needed \in Nat
        /\ record \in 1 .. Len(ips) /\ EndRecord(record) /\ NeededFrom(record)
    BY <1>0, <1>1 DEF WriteBack, ImageInv, RunInv
  <2>2. /\ ppc = "back" /\ ppc' = "returned" /\ ret' = 0 /\ UNCHANGED <<ips, sizips>>
        /\ sizdisk' = greatest(sizdisk, needed)
        /\ disk' = [x \in Positions(sizdisk') |->
                      IF x < needed THEN image[x] ELSE disk[x]]
    BY <1>1 DEF WriteBack, Return
  <2>3. Spec!EndsAt(record)
    BY <2>1 DEF EndRecord, Spec!EndsAt
  <2>4. Spec!PatchedSize(record, sizdisk')
    BY <1>0, <2>1, <2>2, PatchedSizeFound
  <2>5. \A x \in Positions(sizdisk') :
          Spec!PatchedTo(ips, record, disk, sizdisk, x, disk'[x])
    <3> TAKE x \in Positions(sizdisk')
    <3>1. x \in Nat /\ (x < needed \/ (x >= needed /\ x < sizdisk))
      BY <2>1, <2>2 DEF Positions, greatest
    <3>2. CASE x < needed
      BY <2>1, <2>2, <3>1, <3>2 DEF PatchedUpTo, Positions
    <3>3. CASE x >= needed /\ x < sizdisk
      BY <1>0, <2>1, <2>2, <3>1, <3>3, BeyondNeeded
    <3> QED
      BY <3>1, <3>2, <3>3
  <2>6. /\ DOMAIN disk' = Spec!Positions(sizdisk')
        /\ \A x \in Spec!Positions(sizdisk') :
             Spec!PatchedTo(ips, record, disk, sizdisk, x, disk'[x])
    BY <2>2, <2>5 DEF Spec!Positions, Positions
  <2> QED
    BY <2>1, <2>2, <2>3, <2>4, <2>6 DEF Spec!PatchSpecNext, Spec!Patch
<1>2. CASE StartDry \/ DryTruncated \/ DryEmpty \/ NoMemory
  BY <1>2 DEF StartDry, DryTruncated, DryEmpty, NoMemory, Return, diskvars,
     Spec!PatchSpecNext, Spec!Keep, Spec!specvars
<1>3. CASE DryRecord \/ Load \/ ApplyRecord \/ ApplyEnds
  BY <1>3 DEF DryRecord, Load, ApplyRecord, ApplyEnds, diskvars, Spec!specvars
<1>4. CASE UNCHANGED patchvars
  BY <1>4 DEF patchvars, diskvars, Spec!specvars
<1> QED
  BY <1>1, <1>2, <1>3, <1>4 DEF PatchNext

(***************************************************************************)
(* _ipspatch is atomic: for every patch file, sound or not, and every      *)
(* file, its two runs implement the one step of IpsPatchSpec.              *)
(***************************************************************************)
THEOREM PatchIsAtomic == PatchSpec => Atomic
<1>1. PatchInit => Spec!SpecInit
  BY DEF PatchInit, Spec!SpecInit
<1>2. PatchInv /\ ImageInv /\ [PatchNext]_patchvars
        => [Spec!PatchSpecNext]_(Spec!specvars)
  BY StepRefines
<1> QED
  BY <1>1, <1>2, InitPatchInv, NextPatchInv, InitImageInv, NextImageInv, PTL
     DEF PatchSpec, Atomic, Spec!AtomicPatch

-----------------------------------------------------------------------------
(***************************************************************************)
(* The inductive invariant of the maker: what is below the frontier is     *)
(* settled, what lies between the frontier and the end of the region is in *)
(* hand, and every record tells the truth.                                 *)
(***************************************************************************)

(* Where the maker is, and what is settled there. *)

BelowFrontier == \A x \in Nat : x < Frontier => Settled(x)

BelowEnd == \A x \in Nat : x < siznewfile => Settled(x)

InScan == \A x \in Nat : x < i /\ x < common => Settled(x)

InRegion == /\ address <= final /\ i = final /\ final <= common
            /\ \A x \in Nat : x < address => Settled(x)
            /\ Differ

InConsume ==
  /\ address + patchofs + size = RegionEnd
  /\ RegionEnd <= siznewfile
  /\ tail => siznewfile > sizfile
  /\ ~tail => /\ i = final /\ final <= common
              /\ final < common => pfile[final] = pnewfile[final]
  /\ fl.size > 0 =>
       /\ fl.address + fl.size = address + patchofs
       /\ \A x \in fl.address .. fl.address + fl.size - 1 : pnewfile[x] = fl.value
  /\ wr.size > 0 =>
       wr.address + wr.size = IF fl.size > 0 THEN fl.address ELSE address + patchofs
  /\ BelowFrontier
  /\ Differ

Place ==
  /\ mpc # "consume" => wr.size = 0 /\ fl.size = 0
  /\ mpc \in {"start", "scan", "region"} => ~tail
  /\ mpc = "start" => i = 0
  /\ mpc \in {"start", "refused"} => ips = <<>> /\ sizips = 0
  /\ mpc \in {"scan", "region", "consume", "eof", "made"} =>
       sizfile <= FileLimit /\ siznewfile <= FileLimit
  /\ mpc = "scan" => InScan
  /\ mpc = "region" => InRegion
  /\ mpc = "consume" => InConsume
  /\ mpc \in {"eof", "made"} => BelowEnd

(* What the records written so far are like. *)

Literal(k) == /\ 0 < ips[k].size /\ ips[k].size <= ChunkMax
              /\ ips[k].address < FileLimit
              /\ \A x \in Nat : Covers(ips[k], x) =>
                   x < siznewfile /\ ByteOf(ips[k], x) = pnewfile[x]

(* Nothing a longer new file adds is left out before record k. *)
NoGap(k) == \A x \in Nat : sizfile <= x /\ x < ips[k].address =>
              \E j \in 1 .. k - 1 : Covers(ips[j], x)

Follows(k, n) == ips[k].at + RecordBytes(ips[k]) <= n

Making == mpc \in {"scan", "region", "consume", "eof"}

RecordsOf(n) ==
  /\ \A k \in 1 .. n : Literal(k) /\ NoGap(k)
  /\ n > 0 => Differ

Written ==
  /\ \A k \in 1 .. Len(ips) : \A j \in 1 .. k - 1 : Follows(j, ips[k].at)
  /\ Making => /\ WellLaid(ips, sizips) /\ sizips = StartOf(Len(ips) + 1)
               /\ RecordsOf(Len(ips))
               /\ \A k \in 1 .. Len(ips) : Follows(k, sizips)
               /\ sizips >= 5
  /\ mpc = "made" => /\ Len(ips) > 0 /\ RecordsOf(Len(ips) - 1)
                     /\ ips[Len(ips)] = Trailer(ips[Len(ips)].at)
                     /\ WellLaid(ips, ips[Len(ips)].at + 3)

MakeInv == MakeTypeOK /\ Place /\ Written

-----------------------------------------------------------------------------
LEMMA InitMakeInv == MakeInit => MakeInv
<1> SUFFICES ASSUME MakeInit PROVE MakeInv
  OBVIOUS
<1>1. MakeTypeOK
  <2>1. sizfile \in Nat /\ siznewfile \in Nat
    BY FileSizesAssumption DEF MakeInit
  <2>2. ips \in Seq(Record)
    BY DEF MakeInit
  <2> QED
    BY <2>1, <2>2 DEF MakeInit, MakeTypeOK, NoWrite, NoFill
<1>2. Place
  BY DEF MakeInit, Place, NoWrite, NoFill
<1>3. Written
  BY DEF MakeInit, Written, Making
<1> QED
  BY <1>1, <1>2, <1>3 DEF MakeInv

(* Steps that write nothing and do not touch the files. *)
LEMMA QuietStep ==
  ASSUME MakeInv, UNCHANGED <<ips, sizips, files>>, 
         mpc # "made", mpc' # "made", Making' => Making
  PROVE  Written'
BY DEF MakeInv, Written, Literal, NoGap, Follows, RecordsOf, WellLaid, StartOf,
       RecordBytes, Covers, ByteOf, Differ, common, least, files, Trailer, Making

LEMMA SettledStays ==
  ASSUME UNCHANGED <<ips, files>>
  PROVE  \A x : Settled(x)' <=> Settled(x)
BY DEF Settled, Covered, files, common, least

LEMMA CommonType ==
  ASSUME MakeTypeOK
  PROVE  common \in Nat /\ common <= sizfile /\ common <= siznewfile
BY DEF MakeTypeOK, common, least

LEMMA BeginStep == ASSUME MakeInv, Begin PROVE MakeInv'
<1>1. MakeTypeOK'
  BY DEF MakeInv, MakeTypeOK, Begin, files, scanvars, regionvars, callvars
<1>2. Place'
  BY DEF MakeInv, MakeTypeOK, Place, InScan, Begin, files, scanvars, regionvars, callvars
<1>3. Written'
  BY DEF MakeInv, MakeTypeOK, Place, Written, WellLaid, StartOf, RecordsOf, Making, Begin
<1> QED
  BY <1>1, <1>2, <1>3 DEF MakeInv

LEMMA SkipEqualStep == ASSUME MakeInv, SkipEqual PROVE MakeInv'
<1>1. UNCHANGED <<ips, sizips, files, mpc, final, address, size, patchofs, tail, wr, fl>>
      /\ i' = i + 1 /\ mpc = "scan" /\ i < common /\ pfile[i] = pnewfile[i]
  BY DEF SkipEqual, regionvars, callvars
<1>2. MakeTypeOK'
  BY <1>1 DEF MakeInv, MakeTypeOK, files
<1>3. InScan'
  <2>1. Settled(i)
    BY <1>1 DEF Settled
  <2>2. common' = common /\ common \in Nat /\ i \in Nat
    BY <1>1, CommonType DEF common, files, MakeInv, MakeTypeOK
  <2> QED
    BY <1>1, <2>1, <2>2, SettledStays DEF MakeInv, Place, InScan
<1>4. Place'
  BY <1>1, <1>3 DEF MakeInv, Place, files
<1>5. Written'
  BY <1>1, QuietStep DEF Making
<1> QED
  BY <1>2, <1>4, <1>5 DEF MakeInv

LEMMA OpenRegionStep == ASSUME MakeInv, OpenRegion PROVE MakeInv'
<1>1. UNCHANGED <<ips, sizips, files, i, size, patchofs, tail, wr, fl>>
      /\ address' = i /\ final' = i /\ mpc = "scan" /\ mpc' = "region"
      /\ i < common /\ pfile[i] # pnewfile[i]
  BY DEF OpenRegion, callvars
<1>2. MakeTypeOK'
  BY <1>1 DEF MakeInv, MakeTypeOK, files
<1>3. InRegion'
  <2>1. Differ
    BY <1>1, CommonType DEF Differ, Positions, MakeInv, MakeTypeOK
  <2>2. Differ' /\ common' = common /\ common \in Nat /\ i \in Nat
    BY <1>1, <2>1, CommonType DEF Differ, common, files, MakeInv, MakeTypeOK, least
  <2> QED
    BY <1>1, <2>2, SettledStays DEF MakeInv, Place, InScan, InRegion
<1>4. Place'
  BY <1>1, <1>3 DEF MakeInv, Place, files
<1>5. Written'
  BY <1>1, QuietStep DEF Making
<1> QED
  BY <1>2, <1>4, <1>5 DEF MakeInv

LEMMA GrowRegionStep == ASSUME MakeInv, GrowRegion PROVE MakeInv'
<1>1. UNCHANGED <<ips, sizips, files, mpc, address, size, patchofs, tail, wr, fl>>
      /\ final' = final + 1 /\ i' = i + 1 /\ mpc = "region" /\ WindowDiffers
  BY DEF GrowRegion, callvars, regionvars
<1>2. MakeTypeOK'
  BY <1>1 DEF MakeInv, MakeTypeOK, files
<1>3. InRegion'
  <2>1. common \in Nat /\ final \in Nat /\ final <= common
    BY <1>1, CommonType DEF MakeInv, MakeTypeOK, Place, InRegion
  <2>2. final < common
    BY <1>1, <2>1, GapAssumption DEF WindowDiffers, least
  <2>3. common' = common /\ Differ' = Differ
    BY <1>1 DEF common, Differ, files
  <2> QED
    BY <1>1, <2>1, <2>2, <2>3, SettledStays
       DEF MakeInv, MakeTypeOK, Place, InRegion
<1>4. Place'
  BY <1>1, <1>3 DEF MakeInv, Place, files
<1>5. Written'
  BY <1>1, QuietStep DEF Making
<1> QED
  BY <1>2, <1>4, <1>5 DEF MakeInv

(* An equal window means that the byte behind the region is equal. *)
LEMMA CloseRegionStep == ASSUME MakeInv, CloseRegion PROVE MakeInv'
<1>1. UNCHANGED <<ips, sizips, files, i, final, address, tail, wr, fl>>
      /\ size' = final - address /\ patchofs' = 0
      /\ mpc = "region" /\ mpc' = "consume" /\ ~WindowDiffers
  BY DEF CloseRegion, callvars, scanvars, RegionSize
<1>0. InRegion /\ ~tail /\ wr.size = 0 /\ fl.size = 0
  BY <1>1 DEF MakeInv, Place
<1>2. MakeTypeOK'
  BY <1>0, <1>1 DEF MakeInv, MakeTypeOK, files, InRegion
<1>3. InConsume'
  <2>1. common \in Nat /\ final \in Nat /\ address \in Nat /\ final <= common
        /\ common <= siznewfile /\ siznewfile \in Nat /\ address <= final /\ i = final
    BY <1>0, <1>1, CommonType DEF MakeInv, MakeTypeOK, InRegion
  <2>2. final < common => pfile[final] = pnewfile[final]
    BY <1>1, <2>1, GapAssumption DEF WindowDiffers, least
  <2>3. common' = common /\ Differ' = Differ /\ RegionEnd' = final
    BY <1>0, <1>1 DEF common, Differ, files, RegionEnd
  <2>4. Frontier' = address
    BY <1>0, <1>1, <2>1 DEF Frontier
  <2>5. BelowFrontier'
    BY <1>0, <1>1, <2>4, SettledStays DEF InRegion, BelowFrontier
  <2>6. Differ' /\ siznewfile' = siznewfile /\ pfile' = pfile /\ pnewfile' = pnewfile
    BY <1>0, <1>1, <2>3 DEF InRegion, files
  <2>7. (address + patchofs + size)' = final
    BY <1>1, <2>1
  <2>8. ~tail' /\ wr'.size = 0 /\ fl'.size = 0 /\ final' = final /\ i' = i
    BY <1>0, <1>1
  <2> QED
    BY <2>1, <2>2, <2>3, <2>5, <2>6, <2>7, <2>8 DEF InConsume
<1>4. Place'
  BY <1>0, <1>1, <1>3 DEF MakeInv, Place, files
<1>5. Written'
  BY <1>1, QuietStep DEF Making
<1> QED
  BY <1>2, <1>4, <1>5 DEF MakeInv

LEMMA EndScanStep == ASSUME MakeInv, EndScan PROVE MakeInv'
<1>1. UNCHANGED <<ips, sizips, files, i, final, wr, fl>>
      /\ mpc = "scan" /\ i >= common
  BY DEF EndScan, callvars, scanvars
<1>0. InScan /\ ~tail /\ wr.size = 0 /\ fl.size = 0
  BY <1>1 DEF MakeInv, Place
<1>t. /\ common \in Nat /\ sizfile \in Nat /\ siznewfile \in Nat /\ i \in Nat
  BY CommonType DEF MakeInv, MakeTypeOK
<1>s. \A x \in Nat : x < common => Settled(x)
  BY <1>0, <1>1, <1>t DEF InScan
<1>5. Written'
  BY <1>1, QuietStep DEF Making, EndScan
<1>6. CASE siznewfile > sizfile
  <2>1. /\ address' = sizfile /\ size' = siznewfile - sizfile
        /\ patchofs' = 0 /\ tail' = TRUE /\ mpc' = "consume"
    BY <1>6 DEF EndScan
  <2>2. common = sizfile
    BY <1>6, <1>t DEF common, least
  <2>3. MakeTypeOK'
    BY <1>1, <1>6, <1>t, <2>1 DEF MakeInv, MakeTypeOK, files
  <2>4. Frontier' = sizfile /\ RegionEnd' = siznewfile
    BY <1>0, <1>1, <1>t, <2>1 DEF Frontier, RegionEnd, files
  <2>5. BelowFrontier'
    BY <1>1, <1>s, <2>2, <2>4, SettledStays DEF BelowFrontier
  <2>6. Differ'
    BY <1>1, <1>6 DEF Differ, files
  <2>7. siznewfile' = siznewfile /\ sizfile' = sizfile
    BY <1>1 DEF files
  <2>8. InConsume'
    BY <1>0, <1>1, <1>6, <1>t, <2>1, <2>4, <2>5, <2>6, <2>7 DEF InConsume
  <2>9. Place'
    BY <1>0, <1>1, <2>1, <2>7, <2>8 DEF MakeInv, Place
  <2> QED
    BY <1>5, <2>3, <2>9 DEF MakeInv
<1>7. CASE ~(siznewfile > sizfile)
  <2>1. mpc' = "eof" /\ UNCHANGED <<address, size, patchofs, tail>>
    BY <1>7 DEF EndScan, regionvars
  <2>2. common = siznewfile
    BY <1>7, <1>t DEF common, least
  <2>3. MakeTypeOK'
    BY <1>1, <2>1 DEF MakeInv, MakeTypeOK, files
  <2>4. siznewfile' = siznewfile /\ sizfile' = sizfile
    BY <1>1 DEF files
  <2>5. BelowEnd'
    BY <1>1, <1>s, <2>2, <2>4, SettledStays DEF BelowEnd
  <2>6. Place'
    BY <1>0, <1>1, <2>1, <2>4, <2>5 DEF MakeInv, Place
  <2> QED
    BY <1>5, <2>3, <2>6 DEF MakeInv
<1> QED
  BY <1>6, <1>7

LEMMA ConsumeRunStep == ASSUME MakeInv, ConsumeRun PROVE MakeInv'
<1>1. PICK rleaddr \in 0 .. size, rlelength \in 3 .. size :
        /\ RunFound(rleaddr, rlelength)
        /\ wr' = [address |-> address + patchofs, size |-> rleaddr]
        /\ fl' = [address |-> address + patchofs + rleaddr, size |-> rlelength,
                  value |-> pnewfile[address + patchofs + rleaddr]]
        /\ size' = size - (rleaddr + rlelength)
        /\ patchofs' = patchofs + rleaddr + rlelength
  BY DEF ConsumeRun
<1>2. /\ UNCHANGED <<ips, sizips, files, mpc, i, final, address, tail>>
      /\ mpc = "consume" /\ wr.size = 0 /\ fl.size = 0
  BY DEF ConsumeRun, Consuming, scanvars
<1>3. InConsume
  BY <1>2 DEF MakeInv, Place
<1>4. /\ rleaddr + rlelength <= size
      /\ \A x \in address + patchofs + rleaddr .. address + patchofs + rleaddr + rlelength - 1 :
           pnewfile[x] = pnewfile[address + patchofs + rleaddr]
  BY <1>1 DEF RunFound, IsRun, AllSame
<1>t. /\ address \in Nat /\ patchofs \in Nat /\ size \in Nat /\ siznewfile \in Nat
      /\ rleaddr \in Nat /\ rlelength \in Nat /\ rlelength > 0
  BY <1>1 DEF MakeInv, MakeTypeOK
<1>5. pnewfile[address + patchofs + rleaddr] \in Byte
  BY <1>3, <1>4, <1>t DEF InConsume, MakeInv, MakeTypeOK, Buffer, Positions
<1>6. MakeTypeOK'
  BY <1>1, <1>2, <1>4, <1>5, <1>t DEF MakeInv, MakeTypeOK, files
<1>7. Frontier = address + patchofs /\ Frontier' = address + patchofs
  BY <1>1, <1>2, <1>t DEF Frontier
<1>8. InConsume'
  <2>1. RegionEnd' = RegionEnd /\ common' = common /\ Differ' = Differ
    BY <1>2 DEF RegionEnd, common, Differ, files
  <2>2. BelowFrontier'
    BY <1>2, <1>3, <1>7, SettledStays DEF InConsume, BelowFrontier
  <2>3. (address + patchofs + size)' = address + patchofs + size
    BY <1>1, <1>2, <1>4, <1>t
  <2>4. (wr.size > 0 => wr.address + wr.size =
           IF fl.size > 0 THEN fl.address ELSE address + patchofs)'
    BY <1>1, <1>2, <1>t
  <2>5. (fl.size > 0 =>
           /\ fl.address + fl.size = address + patchofs
           /\ \A x \in fl.address .. fl.address + fl.size - 1 : pnewfile[x] = fl.value)'
    BY <1>1, <1>2, <1>4, <1>t DEF files
  <2> QED
    BY <1>2, <1>3, <2>1, <2>2, <2>3, <2>4, <2>5 DEF InConsume, files
<1>9. Place'
  BY <1>2, <1>8 DEF MakeInv, Place, files
<1>10. Written'
  BY <1>2, QuietStep DEF Making
<1> QED
  BY <1>6, <1>9, <1>10 DEF MakeInv

LEMMA ConsumeRestStep == ASSUME MakeInv, ConsumeRest PROVE MakeInv'
<1>1. /\ UNCHANGED <<ips, sizips, files, mpc, i, final, address, tail, fl>>
      /\ wr' = [address |-> address + patchofs, size |-> size]
      /\ patchofs' = patchofs + size /\ size' = 0
      /\ mpc = "consume" /\ wr.size = 0 /\ fl.size = 0 /\ size > 0
  BY DEF ConsumeRest, Consuming, scanvars
<1>2. InConsume
  BY <1>1 DEF MakeInv, Place
<1>t. address \in Nat /\ patchofs \in Nat /\ size \in Nat
  BY DEF MakeInv, MakeTypeOK
<1>3. MakeTypeOK'
  BY <1>1, <1>t DEF MakeInv, MakeTypeOK, files
<1>4. Frontier = address + patchofs /\ Frontier' = address + patchofs
  BY <1>1, <1>t DEF Frontier
<1>5. InConsume'
  <2>1. RegionEnd' = RegionEnd /\ common' = common /\ Differ' = Differ
    BY <1>1 DEF RegionEnd, common, Differ, files
  <2>2. BelowFrontier'
    BY <1>1, <1>2, <1>4, SettledStays DEF InConsume, BelowFrontier
  <2> QED
    BY <1>1, <1>2, <1>t, <2>1, <2>2 DEF InConsume, files
<1>6. Place'
  BY <1>1, <1>5 DEF MakeInv, Place, files
<1>7. Written'
  BY <1>1, QuietStep DEF Making
<1> QED
  BY <1>3, <1>6, <1>7 DEF MakeInv

LEMMA LeaveRegionStep == ASSUME MakeInv, LeaveRegion PROVE MakeInv'
<1>1. /\ UNCHANGED <<ips, sizips, files, final, address, size, patchofs, tail, wr, fl>>
      /\ mpc = "consume" /\ wr.size = 0 /\ fl.size = 0 /\ size = 0
      /\ IF tail THEN mpc' = "eof" /\ i' = i ELSE mpc' = "scan" /\ i' = i + 1
  BY DEF LeaveRegion, Consuming, regionvars, callvars
<1>2. InConsume
  BY <1>1 DEF MakeInv, Place
<1>t. /\ address \in Nat /\ patchofs \in Nat /\ size \in Nat /\ common \in Nat
      /\ i \in Nat /\ final \in Nat /\ siznewfile \in Nat /\ tail \in BOOLEAN
  BY CommonType DEF MakeInv, MakeTypeOK
<1>3. MakeTypeOK'
  BY <1>1, <1>t DEF MakeInv, MakeTypeOK, files
<1>4. Frontier = RegionEnd
  BY <1>1, <1>2, <1>t DEF Frontier, InConsume
<1>5. Written'
  BY <1>1, QuietStep DEF Making
<1>6. CASE tail
  <2>1. BelowEnd'
    BY <1>1, <1>2, <1>4, <1>6, SettledStays
       DEF InConsume, BelowFrontier, BelowEnd, RegionEnd, files
  <2>2. Place'
    BY <1>1, <1>6, <2>1 DEF MakeInv, Place, files
  <2> QED
    BY <1>3, <1>5, <2>2 DEF MakeInv
<1>7. CASE ~tail
  <2>1. \A x \in Nat : x < final + 1 /\ x < common => Settled(x)
    <3> SUFFICES ASSUME NEW x \in Nat, x < final + 1, x < common PROVE Settled(x)
      OBVIOUS
    <3>1. CASE x < final
      BY <1>2, <1>4, <1>7, <3>1 DEF InConsume, BelowFrontier, RegionEnd
    <3>2. CASE x = final
      BY <1>2, <1>7, <3>2 DEF InConsume, Settled
    <3> QED
      BY <1>t, <3>1, <3>2
  <2>2. InScan'
    BY <1>1, <1>2, <1>7, <2>1, SettledStays DEF InConsume, InScan, common, least, files
  <2>3. Place'
    BY <1>1, <1>7, <2>2 DEF MakeInv, Place, files
  <2> QED
    BY <1>3, <1>5, <2>3 DEF MakeInv
<1> QED
  BY <1>6, <1>7

(* A record written at the frontier, with bytes of the new file. *)
LEMMA EmitStep ==
  ASSUME MakeInv, mpc = "consume", mpc' = mpc, UNCHANGED files,
         NEW r \in Record, Emit(r), r.at = sizips, r.address = Frontier,
         0 < r.size, r.size <= ChunkMax,
         \A x \in Nat : Covers(r, x) => x < siznewfile /\ ByteOf(r, x) = pnewfile[x]
  PROVE  /\ ips' \in Seq(Record) /\ sizips' \in Nat
         /\ Written'
         /\ \A x \in Nat : Settled(x) => Settled(x)'
         /\ \A x \in Nat : Covers(r, x) => Settled(x)'
<1>0. PICK n \in Nat : n = Len(ips)
  BY DEF MakeInv, MakeTypeOK
<1>t. /\ ips \in Seq(Record) /\ sizips \in Nat /\ n \in Nat /\ n = Len(ips)
      /\ sizfile \in Nat /\ siznewfile \in Nat
  BY <1>0 DEF MakeInv, MakeTypeOK
<1>r. /\ RecordBytes(r) \in Nat /\ r.address \in Nat /\ r.size \in Nat
      /\ r.at \in Nat
  BY RecordBytesType DEF Record
<1>w. /\ WellLaid(ips, sizips) /\ sizips = StartOf(n + 1) /\ RecordsOf(n)
      /\ \A k \in 1 .. n : Follows(k, sizips)
      /\ sizips >= 5
      /\ \A k \in 1 .. n : \A j \in 1 .. k - 1 : Follows(j, ips[k].at)
      /\ Differ
  BY <1>t DEF MakeInv, Written, Making, Place, InConsume
<1>1. /\ ips' = Append(ips, r) /\ sizips' = sizips + RecordBytes(r)
  BY DEF Emit
<1>2. /\ ips' \in Seq(Record) /\ Len(ips') = n + 1 /\ ips'[n + 1] = r
      /\ \A k \in 1 .. n : ips'[k] = ips[k]
  BY <1>1, <1>t
<1>3. sizips' \in Nat /\ sizips' >= sizips
  BY <1>1, <1>t, <1>r
<1>4. \A x \in Nat : Settled(x) => Settled(x)'
  BY <1>2, <1>t DEF Settled, Covered, common, least, files
<1>5. \A x \in Nat : Covers(r, x) => Settled(x)'
  BY <1>2, <1>t DEF Settled, Covered
<1>6. (WellLaid(ips, sizips) /\ sizips = StartOf(Len(ips) + 1))'
  <2>1. sizips' = ips'[n + 1].at + RecordBytes(ips'[n + 1])
    BY <1>1, <1>2
  <2>2. CASE n = 0
    BY <1>1, <1>2, <1>3, <1>w, <1>t, <2>1, <2>2 DEF WellLaid, StartOf
  <2>3. CASE n > 0
    <3>1. ips'[1].at = 5
      BY <1>2, <1>w, <1>t, <2>3 DEF WellLaid
    <3>2. ips'[n + 1].at = ips'[n].at + RecordBytes(ips'[n])
      BY <1>2, <1>w, <1>t, <2>3 DEF StartOf
    <3>3. \A k \in 1 .. n - 1 : ips'[k + 1].at = ips'[k].at + RecordBytes(ips'[k])
      BY <1>2, <1>w, <1>t, <2>3 DEF WellLaid
    <3>4. \A k \in 1 .. n : ips'[k + 1].at = ips'[k].at + RecordBytes(ips'[k])
      BY <3>2, <3>3, <1>t
    <3> QED
      BY <1>2, <1>3, <1>t, <2>1, <3>1, <3>4 DEF WellLaid, StartOf
  <2> QED
    BY <1>t, <2>2, <2>3
<1>7. Differ'
  BY <1>w DEF Differ, common, files
<1>8. RecordsOf(n + 1)'
  <2>1. \A k \in 1 .. n : Literal(k)'
    BY <1>2, <1>w DEF RecordsOf, Literal, files
  <2>2. Literal(n + 1)'
    <3>1. Covers(r, r.address)
      BY <1>r DEF Covers
    <3>2. r.address < FileLimit
      BY <1>r, <1>t, <3>1, FileLimitAssumption DEF MakeInv, Place
    <3> QED
      BY <1>2, <3>2 DEF Literal, files
  <2>3. \A k \in 1 .. n : NoGap(k)'
    BY <1>2, <1>w, <1>t DEF RecordsOf, NoGap, files
  <2>4. NoGap(n + 1)'
    <3> SUFFICES ASSUME NEW x \in Nat, sizfile <= x, x < r.address
                 PROVE  \E j \in 1 .. n : Covers(ips[j], x)
      BY <1>2, <1>t DEF NoGap, files
    <3>1. Settled(x)
      BY DEF MakeInv, Place, InConsume, BelowFrontier
    <3>2. ~(x < common)
      BY <1>t, CommonType DEF MakeInv
    <3> QED
      BY <1>t, <3>1, <3>2 DEF Settled, Covered
  <2> QED
    BY <1>7, <1>t, <2>1, <2>2, <2>3, <2>4 DEF RecordsOf
<1>9. \A k \in 1 .. n + 1 : Follows(k, sizips)'
  <2>1. \A k \in 1 .. n : ips'[k].at + RecordBytes(ips'[k]) <= sizips'
    <3> TAKE k \in 1 .. n
    <3>1. ips[k] \in Record
      BY <1>t
    <3>2. ips[k].at \in Nat /\ RecordBytes(ips[k]) \in Nat
      BY <3>1, RecordBytesType DEF Record
    <3> QED
      BY <1>2, <1>3, <1>t, <1>w, <3>2 DEF Follows
  <2>2. r.at + RecordBytes(r) <= sizips'
    BY <1>1, <1>r, <1>t
  <2> QED
    BY <1>2, <1>t, <2>1, <2>2 DEF Follows
<1>10. (\A k \in 1 .. Len(ips) : \A j \in 1 .. k - 1 : Follows(j, ips[k].at))'
  <2>1. \A k \in 1 .. n : \A j \in 1 .. k - 1 : Follows(j, ips[k].at)'
    BY <1>2, <1>w, <1>t DEF Follows
  <2>2. \A j \in 1 .. n : Follows(j, r.at)'
    BY <1>2, <1>w, <1>t DEF Follows
  <2> QED
    BY <1>2, <1>t, <2>1, <2>2 DEF Follows
<1> QED
  BY <1>2, <1>3, <1>4, <1>5, <1>6, <1>8, <1>9, <1>10, <1>t, <1>w DEF Written, Making

LEMMA ChunkType ==
  ASSUME NEW n \in Nat, n > 0
  PROVE  Chunk(n) \in Nat /\ 0 < Chunk(n) /\ Chunk(n) <= n /\ Chunk(n) <= ChunkMax
BY ChunkMaxAssumption DEF Chunk, least

LEMMA WriteChunkStep == ASSUME MakeInv, WriteChunk PROVE MakeInv'
<1>0. PICK n \in Nat : n = Chunk(wr.size)
  BY ChunkType DEF WriteChunk, MakeInv, MakeTypeOK
<1>1. /\ UNCHANGED <<files, mpc, i, final, address, size, patchofs, tail, fl>>
      /\ Emit([at |-> sizips, address |-> wr.address, size |-> n, fill |-> FALSE,
               data |-> [x \in Positions(n) |-> pnewfile[wr.address + x]]])
      /\ wr' = [address |-> wr.address + n, size |-> wr.size - n]
      /\ wr.size > 0
  BY <1>0 DEF WriteChunk, scanvars, regionvars
<1>2. mpc = "consume" /\ InConsume
  BY <1>1 DEF MakeInv, Place, MakeTypeOK
<1>t. /\ wr \in [address : Nat, size : Nat] /\ wr.address \in Nat /\ wr.size \in Nat
      /\ fl \in [address : Nat, size : Nat, value : Byte \cup {Indeterminate}]
      /\ fl.address \in Nat /\ fl.size \in Nat
      /\ address \in Nat /\ patchofs \in Nat /\ size \in Nat
      /\ siznewfile \in Nat /\ pnewfile \in Buffer(siznewfile) /\ sizips \in Nat
  BY DEF MakeInv, MakeTypeOK
<1>3. 0 < n /\ n <= wr.size /\ n <= ChunkMax
  BY <1>0, <1>1, <1>t, ChunkType
<1>4. Frontier = wr.address
  BY <1>1 DEF Frontier
<1>5. wr.address + wr.size <= siznewfile
  <2>1. address + patchofs <= siznewfile
    <3>1. RegionEnd \in Nat
      BY DEF RegionEnd, MakeInv, MakeTypeOK
    <3> QED
      BY <1>2, <1>t, <3>1 DEF InConsume
  <2>2. wr.address + wr.size <= address + patchofs
    BY <1>1, <1>2, <1>t DEF InConsume
  <2> QED
    BY <1>t, <2>1, <2>2
<1> DEFINE r == [at |-> sizips, address |-> wr.address, size |-> n, fill |-> FALSE,
                 data |-> [x \in Positions(n) |-> pnewfile[wr.address + x]]]
<1>6. r.data \in Buffer(n)
  BY <1>3, <1>5, <1>t DEF Buffer, Positions
<1>7. r \in Record
  <2>1. n \in 0 .. ChunkMax
    BY <1>3, ChunkMaxAssumption
  <2>2. r.data \in UNION {Buffer(m) : m \in 0 .. ChunkMax}
    BY <1>6, <2>1
  <2> QED
    BY <1>t, <2>2 DEF Record
<1>8. \A x \in Nat : Covers(r, x) => x < siznewfile /\ ByteOf(r, x) = pnewfile[x]
  <2> SUFFICES ASSUME NEW x \in Nat, Covers(r, x)
               PROVE  x < siznewfile /\ ByteOf(r, x) = pnewfile[x]
    OBVIOUS
  <2>1. wr.address <= x /\ x < wr.address + n
    BY DEF Covers
  <2>2. x - wr.address \in Positions(n) /\ wr.address + (x - wr.address) = x
    BY <2>1, <1>t DEF Positions
  <2> QED
    BY <1>3, <1>5, <1>t, <2>1, <2>2 DEF ByteOf
<1>9. /\ ips' \in Seq(Record) /\ sizips' \in Nat /\ Written'
      /\ \A x \in Nat : Settled(x) => Settled(x)'
      /\ \A x \in Nat : Covers(r, x) => Settled(x)'
  <2>1. Emit(r) /\ r.at = sizips /\ r.address = Frontier /\ 0 < r.size
        /\ r.size <= ChunkMax
    BY <1>1, <1>3, <1>4
  <2> QED
    BY <1>1, <1>2, <1>7, <1>8, <2>1, EmitStep
<1>10. MakeTypeOK'
  BY <1>1, <1>3, <1>9, <1>t DEF MakeInv, MakeTypeOK, files
<1>11. InConsume'
  <2>1. Frontier' = wr.address + n
    BY <1>1, <1>2, <1>3, <1>t DEF Frontier, InConsume
  <2>2. BelowFrontier'
    <3> SUFFICES ASSUME NEW x \in Nat, x < wr.address + n PROVE Settled(x)'
      BY <2>1 DEF BelowFrontier
    <3>1. CASE x < wr.address
      BY <1>2, <1>4, <1>9, <3>1 DEF InConsume, BelowFrontier
    <3>2. CASE x >= wr.address
      BY <1>9, <3>2 DEF Covers
    <3> QED
      BY <1>t, <3>1, <3>2
  <2>3. RegionEnd' = RegionEnd /\ common' = common /\ Differ' = Differ
    BY <1>1 DEF RegionEnd, common, Differ, files
  <2> QED
    BY <1>1, <1>2, <1>3, <1>t, <2>2, <2>3 DEF InConsume, files
<1>12. Place'
  BY <1>1, <1>2, <1>11 DEF MakeInv, Place, files
<1> QED
  BY <1>9, <1>10, <1>12 DEF MakeInv

LEMMA FillChunkStep == ASSUME MakeInv, FillChunk PROVE MakeInv'
<1>0. PICK n \in Nat : n = Chunk(fl.size)
  BY ChunkType DEF FillChunk, MakeInv, MakeTypeOK
<1>1. /\ UNCHANGED <<files, mpc, i, final, address, size, patchofs, tail, wr>>
      /\ Emit([at |-> sizips, address |-> fl.address, size |-> n, fill |-> TRUE,
               data |-> [x \in Positions(1) |-> fl.value]])
      /\ fl' = [fl EXCEPT !.address = @ + n, !.size = @ - n]
      /\ fl.size > 0 /\ wr.size = 0
  BY <1>0 DEF FillChunk, scanvars, regionvars
<1>2. mpc = "consume" /\ InConsume
  BY <1>1 DEF MakeInv, Place, MakeTypeOK
<1>t. /\ fl \in [address : Nat, size : Nat, value : Byte \cup {Indeterminate}]
      /\ fl.address \in Nat /\ fl.size \in Nat
      /\ address \in Nat /\ patchofs \in Nat /\ size \in Nat
      /\ siznewfile \in Nat /\ pnewfile \in Buffer(siznewfile) /\ sizips \in Nat
  BY DEF MakeInv, MakeTypeOK
<1>3. 0 < n /\ n <= fl.size /\ n <= ChunkMax
  BY <1>0, <1>1, <1>t, ChunkType
<1>4. Frontier = fl.address
  BY <1>1 DEF Frontier
<1>5. fl.address + fl.size <= siznewfile
  BY <1>1, <1>2, <1>t DEF InConsume, RegionEnd
<1>e. /\ fl'.address = fl.address + n /\ fl'.size = fl.size - n /\ fl'.value = fl.value
      /\ fl' \in [address : Nat, size : Nat, value : Byte \cup {Indeterminate}]
  <2>1. fl.value \in Byte \cup {Indeterminate} /\ fl.size - n \in Nat
    BY <1>3, <1>t
  <2>2. fl' = [address |-> fl.address + n, size |-> fl.size - n, value |-> fl.value]
    BY <1>1, <1>t
  <2> QED
    BY <1>t, <2>1, <2>2
<1>v. /\ fl.value \in Byte
      /\ \A x \in Nat : fl.address <= x /\ x < fl.address + fl.size => pnewfile[x] = fl.value
  <2>1. \A x \in Nat : fl.address <= x /\ x < fl.address + fl.size => pnewfile[x] = fl.value
    BY <1>1, <1>2, <1>t DEF InConsume
  <2>2. pnewfile[fl.address] \in Byte
    BY <1>1, <1>5, <1>t DEF Buffer, Positions
  <2> QED
    BY <1>1, <1>t, <2>1, <2>2
<1> DEFINE r == [at |-> sizips, address |-> fl.address, size |-> n, fill |-> TRUE,
                 data |-> [x \in Positions(1) |-> fl.value]]
<1>6. r.data \in Buffer(1)
  BY <1>v DEF Buffer
<1>7. r \in Record
  <2>1. 1 \in 0 .. ChunkMax
    BY ChunkMaxAssumption
  <2>2. r.data \in UNION {Buffer(m) : m \in 0 .. ChunkMax}
    BY <1>6, <2>1
  <2> QED
    BY <1>t, <2>2 DEF Record
<1>8. \A x \in Nat : Covers(r, x) => x < siznewfile /\ ByteOf(r, x) = pnewfile[x]
  <2> SUFFICES ASSUME NEW x \in Nat, Covers(r, x)
               PROVE  x < siznewfile /\ ByteOf(r, x) = pnewfile[x]
    OBVIOUS
  <2>1. fl.address <= x /\ x < fl.address + n
    BY DEF Covers
  <2>2. ByteOf(r, x) = fl.value
    BY DEF ByteOf, Positions
  <2>3. x < fl.address + fl.size
    BY <1>3, <1>t, <2>1
  <2> QED
    BY <1>5, <1>t, <1>v, <2>1, <2>2, <2>3
<1>9. /\ ips' \in Seq(Record) /\ sizips' \in Nat /\ Written'
      /\ \A x \in Nat : Settled(x) => Settled(x)'
      /\ \A x \in Nat : Covers(r, x) => Settled(x)'
  <2>1. Emit(r) /\ r.at = sizips /\ r.address = Frontier /\ 0 < r.size
        /\ r.size <= ChunkMax
    BY <1>1, <1>3, <1>4
  <2> QED
    BY <1>1, <1>2, <1>7, <1>8, <2>1, EmitStep
<1>10. MakeTypeOK'
  BY <1>1, <1>e, <1>9, <1>t DEF MakeInv, MakeTypeOK, files
<1>11. InConsume'
  <2>1. Frontier' = fl.address + n
    BY <1>1, <1>2, <1>3, <1>e, <1>t DEF Frontier, InConsume
  <2>2. BelowFrontier'
    <3> SUFFICES ASSUME NEW x \in Nat, x < fl.address + n PROVE Settled(x)'
      BY <2>1 DEF BelowFrontier
    <3>1. CASE x < fl.address
      BY <1>2, <1>4, <1>9, <3>1 DEF InConsume, BelowFrontier
    <3>2. CASE x >= fl.address
      BY <1>9, <3>2 DEF Covers
    <3> QED
      BY <1>t, <3>1, <3>2
  <2>3. RegionEnd' = RegionEnd /\ common' = common /\ Differ' = Differ
    BY <1>1 DEF RegionEnd, common, Differ, files
  <2>4. (fl.size > 0 =>
           /\ fl.address + fl.size = address + patchofs
           /\ \A x \in fl.address .. fl.address + fl.size - 1 : pnewfile[x] = fl.value)'
    BY <1>1, <1>2, <1>3, <1>e, <1>t DEF InConsume, files
  <2>5. (~(wr.size > 0))'
    BY <1>1
  <2> QED
    BY <1>1, <1>2, <2>2, <2>3, <2>4, <2>5 DEF InConsume, files
<1>12. Place'
  BY <1>1, <1>2, <1>11 DEF MakeInv, Place, files
<1> QED
  BY <1>9, <1>10, <1>12 DEF MakeInv

LEMMA RefuseStep == ASSUME MakeInv, Refuse PROVE MakeInv'
<1>1. /\ UNCHANGED <<ips, sizips, files, i, final, address, size, patchofs, tail, wr, fl>>
      /\ mpc = "start" /\ mpc' = "refused"
  BY DEF Refuse, scanvars, regionvars, callvars
<1>2. MakeTypeOK'
  BY <1>1 DEF MakeInv, MakeTypeOK, files
<1>3. Place'
  BY <1>1 DEF MakeInv, Place, files
<1>4. Written'
  BY <1>1, QuietStep DEF Making
<1> QED
  BY <1>2, <1>3, <1>4 DEF MakeInv

LEMMA TrailerType == ASSUME NEW n \in Nat PROVE Trailer(n) \in Record
<1>1. 0 \in 0 .. ChunkMax /\ <<>> \in Buffer(0)
  BY ChunkMaxAssumption DEF Buffer, Positions
<1>2. <<>> \in UNION {Buffer(m) : m \in 0 .. ChunkMax}
  BY <1>1
<1> QED
  BY <1>2, EofAddressAssumption DEF Trailer, Record

LEMMA WriteEofStep ==
  ASSUME MakeInv, WriteEof
  PROVE  MakeInv' /\ (mpc = "made" /\ sizips = ips[Len(ips)].at + 3)'
<1>0. PICK n \in Nat : n = Len(ips)
  BY DEF MakeInv, MakeTypeOK
<1>1. /\ UNCHANGED <<files, i, final, address, size, patchofs, tail, wr, fl>>
      /\ mpc = "eof" /\ mpc' = "made"
      /\ ips' = Append(ips, Trailer(sizips)) /\ sizips' = sizips + 3
  BY DEF WriteEof, scanvars, regionvars, callvars
<1>t. /\ ips \in Seq(Record) /\ sizips \in Nat /\ n = Len(ips)
      /\ Trailer(sizips) \in Record
  BY <1>0, TrailerType DEF MakeInv, MakeTypeOK
<1>w. /\ WellLaid(ips, sizips) /\ sizips = StartOf(n + 1) /\ RecordsOf(n)
      /\ \A k \in 1 .. n : Follows(k, sizips)
      /\ \A k \in 1 .. n : \A j \in 1 .. k - 1 : Follows(j, ips[k].at)
  BY <1>1, <1>t DEF MakeInv, Written, Making
<1>2. /\ ips' \in Seq(Record) /\ Len(ips') = n + 1 /\ ips'[n + 1] = Trailer(sizips)
      /\ \A k \in 1 .. n : ips'[k] = ips[k]
  BY <1>1, <1>t
<1>3. Trailer(sizips).at = sizips /\ RecordBytes(Trailer(sizips)) = 8
  BY DEF Trailer, RecordBytes
<1>4. MakeTypeOK'
  BY <1>1, <1>2, <1>t DEF MakeInv, MakeTypeOK, files
<1>5. Place'
  <2>1. \A x \in Nat : Settled(x) => Settled(x)'
    BY <1>1, <1>2, <1>t DEF Settled, Covered, common, least, files
  <2>2. BelowEnd'
    BY <1>1, <2>1 DEF MakeInv, Place, BelowEnd, files
  <2> QED
    BY <1>1, <2>2 DEF MakeInv, Place, files
<1>6. Written'
  <2>1. RecordsOf(n)'
    <3>1. \A k \in 1 .. n : Literal(k)'
      BY <1>1, <1>2, <1>w DEF RecordsOf, Literal, files
    <3>2. \A k \in 1 .. n : NoGap(k)'
      BY <1>1, <1>2, <1>w, <1>t DEF RecordsOf, NoGap, files
    <3>3. n > 0 => Differ'
      BY <1>1, <1>w DEF RecordsOf, Differ, common, files
    <3> QED
      BY <3>1, <3>2, <3>3 DEF RecordsOf
  <2>2. WellLaid(ips, ips[Len(ips)].at + 3)'
    <3>1. n > 0 => ips'[1].at = 5 /\ ips'[n + 1].at = ips'[n].at + RecordBytes(ips'[n])
      BY <1>2, <1>3, <1>w, <1>t DEF WellLaid, StartOf
    <3>2. n = 0 => ips'[1].at = 5
      BY <1>2, <1>3, <1>w, <1>t DEF StartOf
    <3>3. \A k \in 1 .. n - 1 : ips'[k + 1].at = ips'[k].at + RecordBytes(ips'[k])
      BY <1>2, <1>w, <1>t DEF WellLaid
    <3>4. \A k \in 1 .. n : ips'[k + 1].at = ips'[k].at + RecordBytes(ips'[k])
      BY <3>1, <3>3, <1>t
    <3> QED
      BY <1>2, <1>3, <1>t, <3>1, <3>2, <3>4 DEF WellLaid
  <2>3. (\A k \in 1 .. Len(ips) : \A j \in 1 .. k - 1 : Follows(j, ips[k].at))'
    <3>1. \A k \in 1 .. n : \A j \in 1 .. k - 1 : Follows(j, ips[k].at)'
      BY <1>2, <1>w, <1>t DEF Follows
    <3>2. \A j \in 1 .. n : Follows(j, ips[n + 1].at)'
      BY <1>2, <1>3, <1>w, <1>t DEF Follows
    <3> QED
      BY <1>2, <1>t, <3>1, <3>2 DEF Follows
  <2> QED
    BY <1>1, <1>2, <1>3, <1>t, <2>1, <2>2, <2>3 DEF Written, Making
<1> QED
  BY <1>1, <1>2, <1>3, <1>4, <1>5, <1>6 DEF MakeInv

LEMMA NextMakeInv == ASSUME MakeInv, MakeNext PROVE MakeInv'
BY RefuseStep, BeginStep, SkipEqualStep, OpenRegionStep, GrowRegionStep,
   CloseRegionStep, EndScanStep, ConsumeRunStep, ConsumeRestStep, LeaveRegionStep,
   WriteChunkStep, FillChunkStep, WriteEofStep DEF MakeNext

-----------------------------------------------------------------------------
(* The patcher, given a patch that is what is left of one so made.         *)

Untouched == disk = pfile /\ sizdisk = sizfile

(* The patch ends, for the patcher, at the address of record k. *)
StopsAt(k) == /\ k \in 1 .. Len(ips)
              /\ ips[k].address = EofAddress /\ ips[k].at + 3 = sizips

(* The file is what the records before k make of the old one. *)
PatchedBy(k) ==
  /\ sizdisk >= sizfile
  /\ \A j \in 1 .. k - 1 : ips[j].address + ips[j].size <= sizdisk
  /\ \/ sizdisk = sizfile
     \/ \E j \in 1 .. k - 1 : sizdisk = ips[j].address + ips[j].size
  /\ \A x \in Positions(sizdisk) :
       Spec!PatchedTo(ips, k, pfile, sizfile, x, disk[x])

Outcome ==
  /\ ret \in {0, 1, 2, 4, 5}
  /\ ret # 0 => Untouched
  /\ ret \in {0, 4, 5} => \E k \in Nat : StopsAt(k)
  /\ ret = 0 => Len(ips) > 1 /\ \E k \in Nat : StopsAt(k) /\ PatchedBy(k)
  /\ ret = 5 => StopsAt(1)
  /\ Whole => ret \notin {1, 2}

Carried ==
  /\ mpc = "made" /\ made = ips[Len(ips)].at + 3 /\ sizips <= made
  /\ magic = TRUE
  /\ PatchInv /\ ImageInv

SysInv ==
  /\ MakeInv
  /\ made \in Nat
  /\ made = 0 => /\ PatchInit /\ magic = TRUE
                 /\ mpc = "made" => sizips = ips[Len(ips)].at + 3
  /\ made > 0 => Carried
  /\ ppc # "returned" => Untouched
  /\ ppc = "returned" => Outcome

-----------------------------------------------------------------------------
LEMMA InitSysInv == SystemInit => SysInv
<1> SUFFICES ASSUME SystemInit PROVE SysInv
  OBVIOUS
<1>1. MakeInv
  BY InitMakeInv DEF SystemInit
<1>2. mpc = "start" /\ ppc = "start"
  BY DEF SystemInit, MakeInit, PatchInit
<1> QED
  BY <1>1, <1>2 DEF SystemInit, SysInv, Untouched

LEMMA MakeSys == ASSUME SysInv, Make PROVE SysInv'
<1>1. /\ MakeNext /\ UNCHANGED <<magic, disk, sizdisk, ppc, offset, record, needed,
                                 image, ret, applied, made, files>>
  BY DEF Make, patchlocals, diskvars, cursor, MakeNext, Refuse, Begin, SkipEqual,
     OpenRegion, GrowRegion, CloseRegion, EndScan, ConsumeRun, ConsumeRest,
     LeaveRegion, WriteChunk, FillChunk, WriteEof
<1>2. mpc # "made"
  <2>1. wr.size \in Nat /\ fl.size \in Nat
    BY DEF SysInv, MakeInv, MakeTypeOK
  <2> QED
    BY <1>1, <2>1 DEF MakeNext, Refuse, Begin, SkipEqual,
       OpenRegion, GrowRegion, CloseRegion, EndScan, ConsumeRun, ConsumeRest,
       LeaveRegion, WriteChunk, FillChunk, WriteEof, Consuming, SysInv, MakeInv, Place
<1>3. made = 0 /\ PatchInit /\ magic = TRUE /\ ppc = "start" /\ Untouched
  BY <1>2 DEF SysInv, Carried, PatchInit
<1>4. MakeInv'
  BY <1>1, NextMakeInv DEF SysInv
<1>5. mpc' = "made" => sizips' = (ips[Len(ips)].at + 3)'
  <2>1. CASE WriteEof
    BY <2>1, WriteEofStep DEF SysInv
  <2>2. CASE ~WriteEof
    BY <1>1, <1>2, <2>2 DEF MakeNext, Refuse, Begin, SkipEqual,
       OpenRegion, GrowRegion, CloseRegion, EndScan, ConsumeRun, ConsumeRest,
       LeaveRegion, WriteChunk, FillChunk
  <2> QED
    BY <2>1, <2>2
<1>6. PatchInit' /\ Untouched'
  BY <1>1, <1>3 DEF PatchInit, Untouched, files
<1> QED
  BY <1>1, <1>3, <1>4, <1>5, <1>6 DEF SysInv

(* The patch as made, or any shorter part of it, is a patch file. *)
LEMMA CarrySys == ASSUME SysInv, Carry PROVE SysInv'
<1>1. /\ mpc = "made" /\ made = 0 /\ made' = sizips
      /\ sizips' \in 0 .. sizips
      /\ UNCHANGED <<ips, pfile, sizfile, pnewfile, siznewfile, mpc, i, final, address,
                     size, patchofs, tail, wr, fl, magic, disk, sizdisk, ppc, offset,
                     record, needed, image, ret, applied>>
  BY DEF Carry, files, makelocals, scanvars, regionvars, callvars, patchlocals,
     diskvars, cursor
<1>0. PICK n \in Nat : n = Len(ips)
  BY DEF SysInv, MakeInv, MakeTypeOK
<1>2. /\ PatchInit /\ magic = TRUE /\ sizips = ips[n].at + 3 /\ Untouched
      /\ MakeInv
  BY <1>0, <1>1 DEF SysInv, PatchInit
<1>t. /\ n > 0 /\ ips \in Seq(Record) /\ sizips \in Nat /\ n = Len(ips)
      /\ WellLaid(ips, ips[n].at + 3) /\ ips[n] = Trailer(ips[n].at)
      /\ ips[n].at \in Nat
  <2>1. ips \in Seq(Record) /\ sizips \in Nat /\ n > 0
        /\ WellLaid(ips, ips[n].at + 3) /\ ips[n] = Trailer(ips[n].at)
    BY <1>0, <1>1, <1>2 DEF MakeInv, MakeTypeOK, Written
  <2>2. ips[n] \in Record
    BY <1>0, <2>1
  <2> QED
    BY <1>0, <2>1, <2>2 DEF Record
<1>3. MakeInv'
  <2>1. MakeTypeOK'
    BY <1>1, <1>2, <1>t DEF MakeInv, MakeTypeOK
  <2>2. BelowEnd'
    BY <1>1, <1>2 DEF MakeInv, Place, BelowEnd, Settled, Covered, common, least
  <2>3. Place'
    BY <1>1, <1>2, <2>2 DEF MakeInv, Place
  <2>4. Written'
    BY <1>1, <1>2 DEF MakeInv, Written, Making, RecordsOf, Literal, NoGap, Differ,
       Follows, WellLaid, Trailer, common, least
  <2> QED
    BY <2>1, <2>3, <2>4 DEF MakeInv
<1>4. PatchInv'
  <2>1. AnyPatch'
    <3>1. RecordBytes(ips[n]) = 8
      BY <1>t DEF Trailer, RecordBytes
    <3>2. sizips' <= ips[n].at + 8 /\ sizips' \in Nat
      BY <1>1, <1>2, <1>t
    <3>3. WellLaid(ips, sizips')
      BY <1>t, <3>1, <3>2 DEF WellLaid
    <3> QED
      BY <1>1, <1>2, <1>t, <3>2, <3>3 DEF AnyPatch, WellLaid, RecordBytes
  <2>2. Cursor'
    BY <1>1, <1>2, <1>t DEF PatchInit, Cursor, StartOf, WellLaid
  <2>3. RunInv'
    BY <1>1, <1>2 DEF PatchInit, RunInv
  <2> QED
    BY <2>1, <2>2, <2>3 DEF PatchInv
<1>5. ImageInv'
  BY <1>1, <1>2 DEF PatchInit, ImageInv, MakeInv, MakeTypeOK, Untouched
<1>6. Carried' /\ made' > 0 /\ made' \in Nat
  BY <1>1, <1>2, <1>4, <1>5, <1>t, <1>0 DEF Carried
<1>7. ppc' = "start" /\ Untouched'
  BY <1>1, <1>2 DEF PatchInit, Untouched
<1> QED
  BY <1>3, <1>6, <1>7 DEF SysInv

(* The patcher leaves the patch alone, and the maker is done. *)
LEMMA MakerDone ==
  ASSUME MakeInv, mpc = "made", UNCHANGED <<ips, sizips, files, makelocals>>
  PROVE  MakeInv'
<1>1. MakeTypeOK'
  BY DEF MakeInv, MakeTypeOK, files, makelocals, scanvars, regionvars, callvars
<1>2. Place'
  BY DEF MakeInv, Place, BelowEnd, Settled, Covered, common, least, files,
     makelocals, scanvars, regionvars, callvars
<1>3. Written'
  BY DEF MakeInv, Written, Making, RecordsOf, Literal, NoGap, Differ, Follows,
     WellLaid, Trailer, common, least, files, makelocals
<1> QED
  BY <1>1, <1>2, <1>3 DEF MakeInv

(* A record of the maker sets at least one byte, and none before the next. *)
LEMMA MadeRecords ==
  ASSUME MakeInv, mpc = "made", NEW n \in Nat, n = Len(ips), NEW k \in 1 .. n - 1
  PROVE  /\ ips[k] \in Record /\ ips[k].size > 0 /\ ips[k].address \in Nat
         /\ ips[k].size \in Nat /\ ips[k].at \in Nat
         /\ ips[n] \in Record /\ ips[n].at \in Nat
         /\ ips[k].at + RecordBytes(ips[k]) <= ips[n].at
         /\ RecordBytes(ips[k]) \in Nat /\ RecordBytes(ips[k]) >= 5
<1>1. ips \in Seq(Record) /\ Literal(k) /\ Follows(k, ips[n].at)
  <2>1. ips \in Seq(Record) /\ RecordsOf(Len(ips) - 1)
        /\ \A m \in 1 .. Len(ips) : \A j \in 1 .. m - 1 : Follows(j, ips[m].at)
    BY DEF MakeInv, MakeTypeOK, Written
  <2>2. n \in 1 .. Len(ips) /\ k \in 1 .. Len(ips) - 1
    OBVIOUS
  <2>3. Literal(k)
    BY <2>1, <2>2 DEF RecordsOf
  <2>4. Follows(k, ips[n].at)
    BY <2>1, <2>2
  <2> QED
    BY <2>1, <2>3, <2>4
<1>2. ips[k] \in Record /\ ips[n] \in Record
  BY <1>1
<1> QED
  BY <1>1, <1>2, RecordBytesType DEF Literal, Follows, Record

(* A patch that arrived whole ends at its trailer and nowhere before. *)
LEMMA WholeStops ==
  ASSUME MakeInv, Carried, Whole, NEW n \in Nat, n = Len(ips),
         NEW k \in Nat, StopsAt(k)
  PROVE  k = n
<1> SUFFICES ASSUME k # n PROVE FALSE
  OBVIOUS
<1>1. k \in 1 .. n - 1 /\ ips[k].at + 3 = ips[n].at + 3 /\ mpc = "made"
  BY DEF StopsAt, Whole, Carried
<1> QED
  BY <1>1, MadeRecords

(* A patch that arrived whole is sound. *)
LEMMA WholeAccepted ==
  ASSUME MakeInv, Carried, Whole
  PROVE  /\ ppc = "dry" => ~Truncated
         /\ ~(sizips < 8)
<1>0. PICK n \in Nat : n = Len(ips)
  BY DEF MakeInv, MakeTypeOK
<1>1. /\ n > 0 /\ ips \in Seq(Record) /\ ips[n] = Trailer(ips[n].at)
      /\ sizips = ips[n].at + 3 /\ mpc = "made" /\ WellLaid(ips, ips[n].at + 3)
  BY <1>0 DEF MakeInv, MakeTypeOK, Written, Carried, Whole
<1>2. ips[n] \in Record /\ ips[n].at \in Nat /\ RecordBytes(ips[n]) = 8
      /\ ips[n].address = EofAddress
  <2>1. ips[n] \in Record
    BY <1>0, <1>1
  <2> QED
    BY <1>1, <2>1, SMTT(40) DEF Record, Trailer, RecordBytes
<1>3. ips[n].at >= 5
  <2>1. CASE n = 1
    BY <1>0, <1>1, <2>1 DEF WellLaid
  <2>2. CASE n > 1
    <3>1. 1 \in 1 .. n - 1
      BY <2>2
    <3>2. /\ ips[1].at + RecordBytes(ips[1]) <= ips[n].at
          /\ RecordBytes(ips[1]) \in Nat /\ ips[1].at = 5
      BY <1>0, <1>1, <3>1, MadeRecords DEF WellLaid
    <3> QED
      BY <1>2, <3>2
  <2> QED
    BY <1>1, <2>1, <2>2
<1>4. ppc = "dry" => ~Truncated
  <2> SUFFICES ASSUME ppc = "dry" PROVE ~Truncated
    OBVIOUS
  <2>1. record \in 1 .. n + 1 /\ offset = StartOf(record)
        /\ \A j \in 1 .. record - 1 : Passed(j)
    BY <1>0 DEF Carried, PatchInv, Cursor, RunInv
  <2>2. record # n + 1
    BY <1>1, <1>2, <2>1, SMTT(40) DEF Passed
  <2>3. offset = ips[record].at
    BY <1>0, <2>1, <2>2 DEF StartOf
  <2>4. CASE record = n
    BY <1>0, <1>1, <1>2, <2>3, <2>4 DEF Truncated, AtEof, Current
  <2>5. CASE record < n
    <3>1. record \in 1 .. n - 1
      BY <2>1, <2>5
    <3>2. /\ ips[record].at \in Nat /\ RecordBytes(ips[record]) \in Nat
          /\ RecordBytes(ips[record]) >= 5
          /\ ips[record].at + RecordBytes(ips[record]) <= ips[n].at
      BY <1>0, <1>1, <3>1, MadeRecords
    <3>3. PICK b \in Nat : b = RecordBytes(ips[record])
      BY <3>2
    <3>4. offset + b <= sizips /\ offset + 5 <= sizips /\ offset + 3 # sizips
          /\ offset \in Nat /\ sizips \in Nat
      <4>1. PICK e \in Nat : e = ips[n].at
        BY <1>2
      <4>2. sizips = e + 3 /\ offset \in Nat /\ offset + b <= e /\ b >= 5
        BY <1>1, <2>3, <3>2, <3>3, <4>1
      <4> QED
        BY <3>3, <4>1, <4>2
    <3>5. ~(offset + 5 > sizips) /\ ~(offset + b > sizips) /\ offset + 3 <= sizips
      BY <3>3, <3>4
    <3> QED
      BY <3>3, <3>4, <3>5 DEF Truncated, AtEof, Current
  <2> QED
    BY <2>1, <2>2, <2>4, <2>5
<1> QED
  BY <1>1, <1>2, <1>3, <1>4

(* Where the dry run stops well, records before it would each need room. *)
LEMMA EmptyStopsFirst ==
  ASSUME MakeInv, Carried, ppc = "dry", AtEof
  PROVE  StopsAt(record) /\ (needed = 0 => record = 1)
<1>0. PICK n \in Nat : n = Len(ips)
  BY DEF MakeInv, MakeTypeOK
<1>1. PatchInv /\ mpc = "made"
  BY DEF Carried
<1>2. record \in 1 .. n /\ EndRecord(record)
  BY <1>0, <1>1, DryEndsAtEndRecord
<1>3. needed = 0 => record = 1
  <2> SUFFICES ASSUME needed = 0, record # 1 PROVE FALSE
    OBVIOUS
  <2>1. 1 \in 1 .. n - 1 /\ Passed(1)
    BY <1>2 DEF EndRecord
  <2>2. ips[1].size > 0 /\ ips[1].size \in Nat /\ ips[1].address \in Nat
    BY <1>0, <1>1, <2>1, MadeRecords
  <2> QED
    BY <2>1, <2>2 DEF Passed
<1> QED
  BY <1>0, <1>2, <1>3 DEF EndRecord, StopsAt

LEMMA WriteBackOutcome ==
  ASSUME MakeInv, Carried, Untouched, WriteBack, UNCHANGED files
  PROVE  Outcome'
<1>0. PICK n \in Nat : n = Len(ips)
  BY DEF MakeInv, MakeTypeOK
<1>1. /\ ppc = "back" /\ ppc' = "returned" /\ ret' = 0
      /\ UNCHANGED <<ips, sizips>>
  BY DEF WriteBack, Return
<1>2. Len(ips) > 1
  <2>1. NeededFrom(record) /\ needed > 0 /\ record \in 1 .. n
    BY <1>0, <1>1 DEF Carried, ImageInv
  <2> QED
    BY <1>0, <2>1 DEF NeededFrom
<1>3. PICK k \in 1 .. Len(ips) :
        /\ Spec!EndsAt(k)
        /\ Spec!PatchedSize(k, sizdisk')
        /\ \A x \in Spec!Positions(sizdisk') :
             Spec!PatchedTo(ips, k, disk, sizdisk, x, disk'[x])
  <2>1. [Spec!PatchSpecNext]_(Spec!specvars)
    BY StepRefines DEF Carried, PatchNext
  <2>2. Spec!PatchSpecNext
    BY <1>1, <2>1 DEF Spec!specvars
  <2>3. Spec!Patch
    BY <1>1, <2>2 DEF Spec!PatchSpecNext, Spec!Keep
  <2> QED
    BY <2>3 DEF Spec!Patch
<1>4. StopsAt(k)' /\ k \in Nat
  BY <1>1, <1>3 DEF Spec!EndsAt, StopsAt
<1>5. PatchedBy(k)'
  <2>1. /\ sizdisk' >= sizfile
        /\ \A j \in 1 .. k - 1 : sizdisk' >= ips[j].address + ips[j].size
        /\ sizdisk' = sizfile \/ \E j \in 1 .. k - 1 : sizdisk' = ips[j].address + ips[j].size
    BY <1>3 DEF Spec!PatchedSize, Spec!RecordEnds, Untouched
  <2>2. \A x \in Positions(sizdisk') :
          Spec!PatchedTo(ips, k, pfile, sizfile, x, disk'[x])
    BY <1>3 DEF Untouched, Positions, Spec!Positions
  <2>3. sizdisk' \in Nat
    BY DEF WriteBack, Carried, ImageInv, PatchInv, RunInv, greatest
  <2>4. \A j \in 1 .. k - 1 : ips[j].address \in Nat /\ ips[j].size \in Nat
    <3> TAKE j \in 1 .. k - 1
    <3>1. ips[j] \in Record
      BY <1>3 DEF MakeInv, MakeTypeOK
    <3> QED
      BY <3>1 DEF Record
  <2>5. \A j \in 1 .. k - 1 : ips[j].address + ips[j].size <= sizdisk'
    BY <2>1, <2>3, <2>4
  <2> QED
    BY <1>1, <2>1, <2>2, <2>5 DEF PatchedBy, files, Spec!PatchedTo
<1> QED
  BY <1>1, <1>2, <1>4, <1>5 DEF Outcome

LEMMA ApplySys == ASSUME SysInv, Apply PROVE SysInv'
<1>1. /\ MakeInv /\ Carried /\ made > 0 /\ made \in Nat
      /\ PatchNext /\ UNCHANGED <<files, makelocals, made>>
  BY DEF SysInv, Apply
<1>2. UNCHANGED <<ips, sizips, magic>> /\ ppc # "returned" /\ Untouched
  BY <1>1 DEF SysInv, PatchNext, StartDry, DryRecord, DryTruncated, DryEmpty,
     NoMemory, Load, ApplyRecord, ApplyEnds, WriteBack
<1>3. MakeInv'
  BY <1>1, <1>2, MakerDone DEF Carried
<1>4. Carried'
  <2>1. PatchInv' /\ ImageInv'
    BY <1>1, NextPatchInv, NextImageInv DEF Carried
  <2> QED
    BY <1>1, <1>2, <2>1 DEF Carried, makelocals
<1>5. CASE WriteBack
  BY <1>1, <1>2, <1>3, <1>4, <1>5, WriteBackOutcome DEF SysInv, WriteBack, Return
<1>6. CASE ~WriteBack
  <2>1. Untouched'
    BY <1>1, <1>2, <1>6 DEF Untouched, files, diskvars, PatchNext, StartDry,
       DryRecord, DryTruncated, DryEmpty, NoMemory, Load, ApplyRecord, ApplyEnds
  <2>2. ppc' = "returned" => Outcome'
    <3>1. CASE StartDry
      BY <1>1, <1>2, <2>1, <3>1, WholeAccepted
         DEF StartDry, Return, Outcome, Carried, Whole
    <3>2. CASE DryTruncated
      BY <1>1, <1>2, <2>1, <3>2, WholeAccepted
         DEF DryTruncated, Return, Outcome, Whole
    <3>3. CASE DryEmpty \/ NoMemory
      <4>1. /\ ppc = "dry" /\ AtEof /\ ret' \in {4, 5}
            /\ ret' = 5 => needed = 0
        BY <3>3 DEF DryEmpty, NoMemory, Return
      <4>2. record \in Nat /\ StopsAt(record) /\ (needed = 0 => record = 1)
        BY <1>1, <4>1, EmptyStopsFirst DEF Carried, PatchInv, Cursor
      <4>3. StopsAt(record) /\ (ret' = 5 => StopsAt(1))
        BY <4>1, <4>2
      <4>4. (\E k \in Nat : StopsAt(k))' /\ (ret' = 5 => StopsAt(1)')
        BY <1>2, <4>2, <4>3 DEF StopsAt
      <4> QED
        BY <2>1, <4>1, <4>4 DEF Outcome
    <3>4. CASE ~(StartDry \/ DryTruncated \/ DryEmpty \/ NoMemory)
      BY <1>1, <1>6, <3>4 DEF PatchNext, DryRecord, Load, ApplyRecord, ApplyEnds,
         Carried, PatchInv, RunInv
    <3> QED
      BY <3>1, <3>2, <3>3, <3>4
  <2> QED
    BY <1>1, <1>3, <1>4, <2>1, <2>2 DEF SysInv
<1> QED
  BY <1>5, <1>6

LEMMA NextSysInv == SysInv /\ [SystemNext]_systemvars => SysInv'
<1> SUFFICES ASSUME SysInv, [SystemNext]_systemvars PROVE SysInv'
  OBVIOUS
<1>1. CASE Make
  BY <1>1, MakeSys
<1>2. CASE Carry
  BY <1>2, CarrySys
<1>3. CASE Apply
  BY <1>3, ApplySys
<1>4. CASE UNCHANGED systemvars
  <2>1. /\ UNCHANGED <<ips, sizips, files, makelocals, made>>
        /\ UNCHANGED <<magic, disk, sizdisk, ppc, offset, record, needed, image, ret,
                       applied>>
    BY <1>4 DEF systemvars, makevars, diskvars, cursor
  <2>2. UNCHANGED <<pfile, sizfile, pnewfile, siznewfile, mpc, i, final, address,
                    size, patchofs, tail, wr, fl>>
    BY <2>1 DEF files, makelocals, scanvars, regionvars, callvars
  <2>3. MakeInv'
    <3>1. MakeTypeOK'
      BY <2>1, <2>2 DEF SysInv, MakeInv, MakeTypeOK
    <3>2. Place'
      BY <2>1, <2>2 DEF SysInv, MakeInv, Place, InScan, InRegion, InConsume, BelowEnd,
         BelowFrontier, Frontier, RegionEnd, Settled, Covered, Differ, common, least
    <3>3. Written'
      BY <2>1, <2>2 DEF SysInv, MakeInv, Written, Making, RecordsOf, Literal, NoGap,
         Differ, Follows, WellLaid, StartOf, Trailer, common, least
    <3> QED
      BY <3>1, <3>2, <3>3 DEF MakeInv
  <2>4. PatchInv /\ ImageInv => PatchInv' /\ ImageInv'
    <3>1. UNCHANGED patchvars
      BY <2>1 DEF patchvars, diskvars, cursor
    <3> QED
      BY <3>1, NextPatchInv, NextImageInv
  <2>5. Carried => Carried'
    BY <2>1, <2>2, <2>4 DEF Carried
  <2>6. Outcome => Outcome'
    BY <2>1, <2>2 DEF Outcome, Untouched, StopsAt, PatchedBy, Spec!PatchedTo, Whole
  <2>7. PatchInit => PatchInit'
    BY <2>1 DEF PatchInit
  <2> QED
    BY <2>1, <2>2, <2>3, <2>5, <2>6, <2>7 DEF SysInv, Untouched
<1> QED
  BY <1>1, <1>2, <1>3, <1>4 DEF SystemNext

-----------------------------------------------------------------------------
(* A byte a record covers is one of the new file; where the records leave  *)
(* bytes out, they are the old file's.                                     *)
LEMMA MadeBytes ==
  ASSUME MakeInv, Carried, NEW k \in Nat, StopsAt(k), PatchedBy(k), NEW x \in Nat,
         x < sizdisk
  PROVE  \/ x < siznewfile /\ disk[x] = pnewfile[x]
         \/ /\ x < sizfile /\ disk[x] = pfile[x]
            /\ \A j \in 1 .. k - 1 : ~Covers(ips[j], x)
<1>0. PICK n \in Nat : n = Len(ips)
  BY DEF MakeInv, MakeTypeOK
<1>1. k \in 1 .. n /\ mpc = "made" /\ sizfile \in Nat /\ ips \in Seq(Record)
  BY <1>0 DEF StopsAt, Carried, MakeInv, MakeTypeOK
<1>2. \A j \in 1 .. k - 1 : Literal(j) /\ NoGap(j)
  BY <1>0, <1>1 DEF MakeInv, Written, RecordsOf
<1>s. sizdisk \in Nat
  BY DEF Carried, ImageInv
<1>3. Spec!PatchedTo(ips, k, pfile, sizfile, x, disk[x])
  BY <1>s DEF PatchedBy, Positions
<1>4. CASE \E j \in 1 .. k - 1 : Covers(ips[j], x) /\ disk[x] = ByteOf(ips[j], x)
  BY <1>2, <1>4 DEF Literal
<1>5. CASE /\ \A j \in 1 .. k - 1 : ~Covers(ips[j], x)
           /\ disk[x] = IF x < sizfile THEN pfile[x] ELSE Indeterminate
  <2>1. x < sizfile
    <3> SUFFICES ASSUME ~(x < sizfile) PROVE FALSE
      OBVIOUS
    <3>1. PICK j \in 1 .. k - 1 : sizdisk = ips[j].address + ips[j].size
      BY <1>1, <1>s DEF PatchedBy
    <3>2. ips[j] \in Record
      BY <1>0, <1>1
    <3>3. ips[j].address \in Nat /\ ips[j].size \in Nat
      BY <3>2 DEF Record
    <3>4. x < ips[j].address
      BY <1>5, <3>1, <3>3 DEF Covers
    <3>5. PICK m \in 1 .. j - 1 : Covers(ips[m], x)
      BY <1>1, <1>2, <3>4 DEF NoGap
    <3> QED
      BY <1>5, <3>5
  <2> QED
    BY <1>5, <2>1
<1> QED
  BY <1>3, <1>4, <1>5 DEF Spec!PatchedTo, Spec!Covers, Covers, Spec!ByteOf, ByteOf

(* Of the whole patch, every byte of the new file is settled. *)
LEMMA WholeSettles ==
  ASSUME MakeInv, Carried, NEW n \in Nat, n = Len(ips), NEW x \in Nat, x < siznewfile,
         \A j \in 1 .. n - 1 : ~Covers(ips[j], x)
  PROVE  x < common /\ pfile[x] = pnewfile[x]
<1>1. Settled(x)
  BY DEF MakeInv, Place, BelowEnd, Carried
<1>2. ips[n] = Trailer(ips[n].at)
  BY DEF MakeInv, Written, Carried
<1>3. ips[n].size = 0 /\ ips[n].address \in Nat
  BY <1>2, EofAddressAssumption DEF Trailer
<1>4. ~Covers(ips[n], x)
  BY <1>3 DEF Covers
<1>5. ~Covered(x)
  BY <1>4 DEF Covered
<1> QED
  BY <1>1, <1>5 DEF Settled

(* The bytes of a patched file, and how many they are. *)
LEMMA WholeSize ==
  ASSUME MakeInv, Carried, NEW n \in Nat, n = Len(ips), PatchedBy(n)
  PROVE  sizdisk = greatest(sizfile, siznewfile)
<1>1. /\ mpc = "made" /\ sizfile \in Nat /\ siznewfile \in Nat /\ sizdisk \in Nat
      /\ common = least(sizfile, siznewfile)
  BY DEF MakeInv, MakeTypeOK, Carried, ImageInv, common
<1>2. sizdisk <= sizfile \/ sizdisk <= siznewfile
  <2> SUFFICES ASSUME sizdisk # sizfile PROVE sizdisk <= siznewfile
    BY <1>1
  <2>1. PICK j \in 1 .. n - 1 : sizdisk = ips[j].address + ips[j].size
    BY DEF PatchedBy
  <2>2. Literal(j) /\ ips[j].address \in Nat /\ ips[j].size \in Nat /\ ips[j].size > 0
    BY <1>1, <2>1, MadeRecords DEF MakeInv, Written, RecordsOf
  <2>3. PICK x \in Nat : x = ips[j].address + ips[j].size - 1
    BY <2>2
  <2>4. Covers(ips[j], x)
    BY <2>2, <2>3 DEF Covers
  <2>5. x < siznewfile
    BY <2>2, <2>3, <2>4 DEF Literal
  <2> QED
    BY <1>1, <2>1, <2>2, <2>3, <2>5
<1>3. sizdisk >= sizfile
  BY DEF PatchedBy
<1>4. sizdisk >= siznewfile
  <2> SUFFICES ASSUME sizdisk < siznewfile PROVE FALSE
    BY <1>1
  <2>1. ~(sizdisk < common)
    BY <1>1, <1>3 DEF least
  <2>2. PICK j \in 1 .. n - 1 : Covers(ips[j], sizdisk)
    BY <1>1, <2>1, WholeSettles
  <2>3. ips[j].address \in Nat /\ ips[j].size \in Nat
    BY <1>1, <2>2, MadeRecords
  <2>4. ips[j].address + ips[j].size <= sizdisk
    BY <2>2 DEF PatchedBy
  <2> QED
    BY <1>1, <2>2, <2>3, <2>4 DEF Covers
<1> QED
  BY <1>1, <1>2, <1>3, <1>4 DEF greatest

LEMMA SysInvRoundTrip == SysInv => RoundTrip
<1> SUFFICES ASSUME SysInv, ppc = "returned", Whole
             PROVE  /\ ret = 4 \/ ret = IF Differ THEN 0 ELSE 5
                    /\ ret = 0 =>
                         /\ sizdisk = greatest(sizfile, siznewfile)
                         /\ \A x \in Positions(sizdisk) :
                              disk[x] = IF x < siznewfile THEN pnewfile[x] ELSE pfile[x]
  BY DEF RoundTrip
<1>0. PICK n \in Nat : n = Len(ips)
  BY DEF SysInv, MakeInv, MakeTypeOK
<1>1. MakeInv /\ Carried /\ Outcome /\ ret \in {0, 4, 5}
  BY DEF SysInv, PatchInit, Outcome
<1>t. /\ sizfile \in Nat /\ siznewfile \in Nat /\ sizdisk \in Nat /\ mpc = "made"
      /\ common = least(sizfile, siznewfile)
  BY <1>1 DEF MakeInv, MakeTypeOK, Carried, ImageInv, common
<1>2. ret = 0 => Differ
  BY <1>0, <1>1 DEF Outcome, Carried, MakeInv, Written, RecordsOf
<1>3. ret = 5 => ~Differ
  <2> SUFFICES ASSUME ret = 5, Differ PROVE FALSE
    OBVIOUS
  <2>1. n = 1
    BY <1>0, <1>1, WholeStops DEF Outcome
  <2>2. CASE siznewfile > sizfile
    <3>1. sizfile < common
      BY <1>0, <1>1, <1>t, <2>1, <2>2, WholeSettles
    <3> QED
      BY <1>t, <2>2, <3>1 DEF least
  <2>3. CASE \E x \in Positions(common) : pfile[x] # pnewfile[x]
    <3>1. PICK x \in Positions(common) : pfile[x] # pnewfile[x]
      BY <2>3
    <3>2. x \in Nat /\ x < siznewfile
      BY <1>t DEF Positions, least
    <3> QED
      BY <1>0, <1>1, <2>1, <3>1, <3>2, WholeSettles
  <2> QED
    BY <2>2, <2>3 DEF Differ
<1>4. ASSUME ret = 0
      PROVE  /\ sizdisk = greatest(sizfile, siznewfile)
             /\ \A x \in Positions(sizdisk) :
                  disk[x] = IF x < siznewfile THEN pnewfile[x] ELSE pfile[x]
  <2>1. PICK k \in Nat : StopsAt(k) /\ PatchedBy(k)
    BY <1>1, <1>4 DEF Outcome
  <2>2. k = n
    BY <1>0, <1>1, <2>1, WholeStops
  <2>3. sizdisk = greatest(sizfile, siznewfile)
    BY <1>0, <1>1, <2>1, <2>2, WholeSize
  <2>4. ASSUME NEW x \in Positions(sizdisk)
        PROVE  disk[x] = IF x < siznewfile THEN pnewfile[x] ELSE pfile[x]
    <3>1. x \in Nat /\ x < sizdisk
      BY <1>t DEF Positions
    <3>2. CASE x < siznewfile /\ disk[x] = pnewfile[x]
      BY <3>2
    <3>3. CASE /\ x < sizfile /\ disk[x] = pfile[x]
               /\ \A j \in 1 .. k - 1 : ~Covers(ips[j], x)
      <4>1. x < siznewfile => pfile[x] = pnewfile[x]
        BY <1>0, <1>1, <2>2, <3>1, <3>3, WholeSettles
      <4> QED
        BY <3>3, <4>1
    <3> QED
      BY <1>1, <2>1, <3>1, <3>2, <3>3, MadeBytes
  <2> QED
    BY <2>3, <2>4
<1> QED
  BY <1>1, <1>2, <1>3, <1>4

LEMMA SysInvTruncation == SysInv => TruncationDetected
<1> SUFFICES ASSUME SysInv, ppc = "returned", ~Whole, ret \notin {1, 2}
             PROVE  \E k \in 1 .. Len(ips) - 1 :
                      ips[k].address = EofAddress /\ ips[k].at + 3 = sizips
  BY DEF TruncationDetected
<1>1. Carried /\ Outcome
  BY DEF SysInv, PatchInit
<1>2. PICK k \in Nat : StopsAt(k)
  BY <1>1 DEF Outcome
<1>3. k # Len(ips)
  BY <1>1, <1>2 DEF StopsAt, Carried, Whole
<1> QED
  BY <1>2, <1>3, SMTT(40) DEF StopsAt, SysInv, MakeInv, MakeTypeOK

LEMMA SysInvOldOrNew == SysInv => OldOrNew
<1> SUFFICES ASSUME SysInv, NEW x \in Positions(sizdisk)
             PROVE  \/ x < sizfile /\ disk[x] = pfile[x]
                    \/ x < siznewfile /\ disk[x] = pnewfile[x]
  BY DEF OldOrNew
<1>1. CASE Untouched
  BY <1>1 DEF Untouched, Positions, SysInv, MakeInv, MakeTypeOK
<1>2. CASE ~Untouched
  <2>1. /\ MakeInv /\ Carried
        /\ \E k \in Nat : StopsAt(k) /\ PatchedBy(k)
    BY <1>2 DEF SysInv, Outcome, PatchInit
  <2>2. x \in Nat /\ x < sizdisk
    BY <2>1 DEF Positions, Carried, ImageInv
  <2> QED
    BY <2>1, <2>2, MadeBytes
<1> QED
  BY <1>1, <1>2

(* Every record fits the widths of its fields and sets bytes of the new    *)
(* file to their values there.                                             *)
LEMMA MakeInvRecords == MakeInv => RecordsFit /\ RecordsTrue
<1> SUFFICES ASSUME MakeInv PROVE RecordsFit /\ RecordsTrue
  OBVIOUS
<1>1. ips \in Seq(Record) /\ (mpc \in {"start", "refused", "made"} \/ Making)
  BY DEF MakeInv, MakeTypeOK, Making
<1>2. ASSUME NEW k \in 1 .. Len(ips), ~(k = Len(ips) /\ mpc = "made")
      PROVE  Literal(k)
  <2>1. mpc \notin {"start", "refused"}
    BY <1>2 DEF MakeInv, Place
  <2> QED
    BY <1>1, <1>2, <2>1 DEF MakeInv, Written, RecordsOf
<1>3. RecordsFit
  BY <1>2 DEF RecordsFit, Literal
<1>4. ASSUME NEW k \in 1 .. Len(ips),
             NEW x \in ips[k].address .. ips[k].address + ips[k].size - 1
      PROVE  x < siznewfile /\ ByteOf(ips[k], x) = pnewfile[x]
  <2>1. ips[k] \in Record
    BY DEF MakeInv, MakeTypeOK
  <2>2. ips[k].address \in Nat /\ ips[k].size \in Nat
    BY <2>1 DEF Record
  <2>3. Covers(ips[k], x) /\ x \in Nat /\ ips[k].size # 0
    BY <2>2 DEF Covers
  <2>4. ~(k = Len(ips) /\ mpc = "made")
    BY <2>3 DEF MakeInv, Written, Trailer
  <2> QED
    BY <1>2, <2>3, <2>4 DEF Literal
<1> QED
  BY <1>3, <1>4 DEF RecordsTrue

-----------------------------------------------------------------------------
LEMMA SystemInvariant == SystemSpec => []SysInv
BY InitSysInv, NextSysInv, PTL DEF SystemSpec

(* The types of the maker's variables, for files of any content. *)
THEOREM MakeTypeCorrect == SystemSpec => []MakeTypeOK
<1>1. SysInv => MakeTypeOK
  BY DEF SysInv, MakeInv
<1> QED
  BY <1>1, SystemInvariant, PTL

(* What the maker writes is a patch of its files. *)
THEOREM RecordsAreRight == SystemSpec => []RecordsRight
<1>1. SysInv => RecordsRight
  BY MakeInvRecords DEF SysInv, RecordsRight
<1> QED
  BY <1>1, SystemInvariant, PTL

(***************************************************************************)
(* xenoips old new, then xenoips on a copy of old: the file is the new one *)
(* for every pair of files the maker accepts, every width of the fields,   *)
(* every gap and every run length.                                         *)
(***************************************************************************)
THEOREM RoundTripHolds == SystemSpec => []RoundTrip
BY SysInvRoundTrip, SystemInvariant, PTL

(* A patch cut anywhere is turned down, but for the cut behind "EOF". *)
THEOREM TruncationIsDetected == SystemSpec => []TruncationDetected
BY SysInvTruncation, SystemInvariant, PTL

(* And whatever was cut off, no byte is neither old nor new. *)
THEOREM OldOrNewHolds == SystemSpec => []OldOrNew
BY SysInvOldOrNew, SystemInvariant, PTL

=============================================================================
