--------------------------------- MODULE Ppf --------------------------------
(***************************************************************************)
(* xenoppf (applet/xenoppf.c): ppfmake writes PPF1 patches between files   *)
(* of one size; ppfpatch applies PPF1, PPF2 and PPF3, in a dry run with no *)
(* file and then in memory, one record per step, and _ppfpatch writes the  *)
(* memory back.  A PPF3 patch may carry, next to the new bytes of every    *)
(* record, the ones they replace.                                          *)
(***************************************************************************)
EXTENDS Regions, Sequences, SequencesExt

CONSTANTS
  Byte,             \* values of a byte
  FileSizes,        \* sizes of the files
  Window,           \* 5: so many equal bytes end a region
  ChunkMax          \* 255: what the 1-byte length of a record holds

ChunkAssumption  == ChunkMax \in Nat \ {0}
WindowAssumption == Window \in Nat \ {0}
SizesAssumption  == FileSizes \subseteq Nat

VARIABLES
  old, new,         \* the two files a patch is between
  size,             \* of both
  mpc, i,           \* where ppfmake is
  ppf,              \* records: address, new bytes, replaced bytes
  mode,             \* 1, 2 or 3, the version; 0 is no PPF, or a short one
  blockcheck, undo, \* flags of a PPF3 header
  stub,             \* the patch file ends inside a record
  disk, sizdisk,    \* the file the patch is applied to
  ppc, record,      \* where _ppfpatch is; the record it is at
  isReverse,        \* -1, 0, 1
  image,            \* the file in memory
  ret, applied,     \* what _ppfpatch and the run in memory return
  before            \* the file before the patch was applied

filevars  == <<old, new, size>>
headvars  == <<mode, blockcheck, undo, stub>>
makervars == <<filevars, mpc, i, ppf, headvars>>
diskvars  == <<disk, sizdisk>>
runvars   == <<record, isReverse, image>>
vars      == <<makervars, diskvars, ppc, runvars, ret, applied, before>>

File(n) == [Positions(n) -> Byte]

AnyFiles ==
  /\ size \in FileSizes /\ old \in File(size) /\ new \in File(size)
  /\ sizdisk \in FileSizes /\ disk \in File(sizdisk)
  /\ before = diskvars
  /\ i = 0
  /\ ppc = "idle" /\ record = 1 /\ isReverse = -1 /\ image = <<>>
  /\ ret = 0 /\ applied = 0

(* A patch of the program's own making, which is yet to be made; _ppfmake   *)
(* refuses files of different sizes before it makes anything.               *)
OwnInit == AnyFiles /\ mpc = "scan" /\ ppf = <<>>
           /\ mode = 1 /\ blockcheck = FALSE /\ undo = FALSE /\ stub = FALSE

-----------------------------------------------------------------------------
Chunk(n) == least(n, ChunkMax)

(***************************************************************************)
(* ppfwrite: the region in records of at most ChunkMax bytes.  ppfmake     *)
(* writes no replaced bytes; other makers may.                             *)
(***************************************************************************)
Records(address, final) ==
  [k \in 1 .. (final - address + ChunkMax - 1) \div ChunkMax |->
     LET start == address + (k - 1) * ChunkMax
         n     == Chunk(final - start)
     IN [address |-> start, data |-> Bytes(new, start, n),
         undo |-> Bytes(old, start, n)]]

WriteRegion ==
  /\ mpc = "scan"
  /\ \E address, final \in 0 .. size :
       /\ IsRegion(old, new, size, Window, i, address, final)
       /\ ppf' = ppf \o Records(address, final)
       /\ i' = final + 1
  /\ UNCHANGED <<filevars, headvars, mpc, diskvars, ppc, runvars, ret, applied, before>>

Finish ==
  /\ mpc = "scan" /\ NoRegion(old, new, size, i)
  /\ mpc' = "made"
  /\ UNCHANGED <<filevars, headvars, i, ppf, diskvars, ppc, runvars, ret, applied,
                 before>>

-----------------------------------------------------------------------------
Return(code) == ppc' = "returned" /\ ret' = code

(***************************************************************************)
(* Block checks look at the file: the dry run has none, and reads behind a *)
(* null pointer.                                                           *)
(***************************************************************************)
ReadsFile == mode = 2 \/ (mode = 3 /\ blockcheck)

NotPpf ==
  /\ mpc = "made" /\ ppc = "idle" /\ mode = 0
  /\ Return(2)
  /\ UNCHANGED <<makervars, diskvars, runvars, applied, before>>

Start ==
  /\ mpc = "made" /\ ppc = "idle" /\ mode # 0
  /\ ppc' = IF ReadsFile THEN "crashed" ELSE "dry"
  /\ UNCHANGED <<makervars, diskvars, runvars, ret, applied, before>>

Advance == record' = record + 1

Current_OneBased == [ppf[record] EXCEPT !.address = @ + 1]

Current == ppf[record]

AtEnd == record = Len(ppf) + 1

DryRecord ==
  /\ ppc = "dry" /\ ~AtEnd
  /\ Advance
  /\ UNCHANGED <<makervars, diskvars, ppc, isReverse, image, ret, applied, before>>

DryTruncated ==
  /\ ppc = "dry" /\ AtEnd /\ stub
  /\ Return(1)
  /\ UNCHANGED <<makervars, diskvars, runvars, applied, before>>

NoMemory ==
  /\ ppc = "dry" /\ AtEnd /\ ~stub
  /\ Return(4)
  /\ UNCHANGED <<makervars, diskvars, runvars, applied, before>>

Load ==
  /\ ppc = "dry" /\ AtEnd /\ ~stub
  /\ image' = disk /\ record' = 1
  /\ ppc' = "apply"
  /\ UNCHANGED <<makervars, diskvars, isReverse, ret, applied, before>>

RecordEnd == Current.address + Len(Current.data)

(* Nothing compares the record with the size of the file. *)
Overrun ==
  /\ ppc = "apply" /\ ~AtEnd /\ RecordEnd > sizdisk
  /\ ppc' = "crashed"
  /\ UNCHANGED <<makervars, diskvars, runvars, ret, applied, before>>

Applicable == ppc = "apply" /\ ~AtEnd /\ RecordEnd <= sizdisk

(* The bytes of the file where the record is. *)
Here == Bytes(image, Current.address, Len(Current.data))

(* The first record tells the direction; the reverse one is tried last. *)
Direction == IF isReverse # -1 THEN isReverse
             ELSE IF Here = Current.data THEN 1
             ELSE IF Here = Current.undo THEN 0 ELSE -1

Matches == IF Direction = 1 THEN Here = Current.data
           ELSE Direction = 0 /\ Here = Current.undo

Patched_Late == [x \in DOMAIN image |->
                   IF x \in Current.address + 1 .. RecordEnd - 1
                   THEN Current.data[x - Current.address + 1] ELSE image[x]]

(* Only the copy of the replaced bytes, when it is a reverse patch.        *)
Patched_Reversed ==
  [x \in DOMAIN image |->
     IF x \in Current.address .. RecordEnd - 1
     THEN (IF undo /\ Direction = 1 THEN Current.undo
           ELSE Current.data)[x - Current.address + 1] ELSE image[x]]

(***************************************************************************)
(* Taking a record back copies the replaced bytes; but the copy of the new *)
(* ones, which follows for every record, puts them in again.               *)
(***************************************************************************)
Patched == [x \in DOMAIN image |->
              IF x \in Current.address .. RecordEnd - 1
              THEN Current.data[x - Current.address + 1] ELSE image[x]]

ApplyRecord ==
  /\ Applicable
  /\ undo => Matches
  /\ image' = Patched
  /\ isReverse' = IF undo THEN Direction ELSE isReverse
  /\ Advance
  /\ UNCHANGED <<makervars, diskvars, ppc, ret, applied, before>>

Mismatch ==
  /\ Applicable /\ undo /\ ~Matches
  /\ isReverse' = Direction
  /\ applied' = 1 /\ ppc' = "back"
  /\ UNCHANGED <<makervars, diskvars, record, image, ret, before>>

Applied ==
  /\ ppc = "apply" /\ AtEnd
  /\ ppc' = "back"
  /\ UNCHANGED <<makervars, diskvars, runvars, ret, applied, before>>

WriteBack_Always == TRUE

(* if(!ppfpatch(pfile, ...)) *)
WriteBack == applied = 0

(* Whatever the run in memory returned, _ppfpatch returns 0. *)
Report ==
  /\ ppc = "back"
  /\ disk' = IF WriteBack THEN image ELSE disk
  /\ Return(0)
  /\ UNCHANGED <<makervars, sizdisk, runvars, applied, before>>

Next ==
  \/ WriteRegion \/ Finish
  \/ NotPpf \/ Start \/ DryRecord \/ DryTruncated \/ NoMemory \/ Load
  \/ Overrun \/ ApplyRecord \/ Mismatch \/ Applied \/ Report

OwnSpec == OwnInit /\ [][Next]_vars

-----------------------------------------------------------------------------
(* Types of the variables. *)
TypeOK ==
  /\ disk \in File(sizdisk) /\ mode \in 0 .. 3 /\ isReverse \in -1 .. 1
  /\ \A k \in 1 .. Len(ppf) :
       /\ ppf[k].address \in Nat /\ Len(ppf[k].data) \in 1 .. ChunkMax
       /\ Len(ppf[k].undo) = Len(ppf[k].data)
  /\ ppc \in {"idle", "dry", "apply", "back", "returned", "crashed"}
  /\ record \in 1 .. Len(ppf) + 1 /\ ret \in {0, 1, 2, 4} /\ applied \in {0, 1}

(***************************************************************************)
(* A patch made of two files turns the one into the other, and comes to    *)
(* the same when it is applied again.  One with undo data does so only if  *)
(* all its records match what is there.                                    *)
(***************************************************************************)
RoundTrip ==
  ppc = "returned" /\ ret = 0 /\ ~undo /\ before \in {<<old, size>>, <<new, size>>}
    => disk = new

(* It never writes behind the end of a file of the size it was made for. *)
FitsItsFile == ppc = "crashed" => ReadsFile \/ sizdisk # size

(***************************************************************************)
(* The file is patched by all records or by none: a record that does not   *)
(* match what the patch says it replaces leaves the file on disk alone.    *)
(***************************************************************************)
AllRecords(f) ==
  [x \in DOMAIN f |->
     IF \E k \in 1 .. Len(ppf) :
          x \in ppf[k].address .. ppf[k].address + Len(ppf[k].data) - 1
     THEN new[x] ELSE f[x]]

AllOrNothing == disk = before[1] \/ disk = AllRecords(before[1])

(***************************************************************************)
(* A run that announces a "reverse patch." takes nothing back: it leaves   *)
(* the file as it was found, patched, whether all records match or not.    *)
(***************************************************************************)
TakesNothingBack == isReverse = 1 => undo /\ disk = before[1]

=============================================================================
