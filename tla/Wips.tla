-------------------------------- MODULE Wips --------------------------------
(***************************************************************************)
(* xenowips (applet/xenowips.c): wipsmake writes the records of a WQSG     *)
(* patch, wipspatch applies patches of any maker, in a dry run and then in *)
(* memory, and _wipspatch writes the memory back.                          *)
(***************************************************************************)
EXTENDS Regions, Sequences, SequencesExt

CONSTANTS
  Byte,             \* values of a byte
  FileSizes,        \* sizes of the files
  Window,           \* 5: so many equal bytes end a region
  ChunkMax          \* 65535: what the length of a record holds

ChunkAssumption  == ChunkMax \in Nat \ {0}
WindowAssumption == Window \in Nat \ {0}
SizesAssumption  == FileSizes \subseteq Nat

VARIABLES
  old, new, size,   \* the two files a patch is between
  mpc, i,           \* where wipsmake is
  current_end,      \* behind the region it wrote last
  wips,             \* records: kind, step, data; the address is the maker's
  header,           \* the patch has the header WQSG-PATCH3.0
  checked,          \* ... which holds the CRC of the old file
  disk, sizdisk,    \* the file the patch is applied to
  ppc, record,      \* where _wipspatch is; the record it is at
  offset, length,   \* of that record, or of the one before
  image,            \* the file in memory
  ret, applied,     \* what _wipspatch and the run in memory return
  before            \* the file before the patch was applied

filevars  == <<old, new, size>>
makervars == <<filevars, mpc, i, current_end, wips, header, checked>>
diskvars  == <<disk, sizdisk>>
runvars   == <<record, offset, length>>
vars      == <<makervars, diskvars, ppc, runvars, image, ret, applied, before>>

File(n) == [Positions(n) -> Byte]

AnyFiles ==
  /\ size \in FileSizes /\ old \in File(size) /\ new \in File(size)
  /\ sizdisk \in FileSizes /\ disk \in File(sizdisk)
  /\ before = diskvars
  /\ i = 0 /\ current_end = 0
  /\ ppc = "idle" /\ record = 1 /\ offset = 0 /\ length = 0
  /\ image = <<>> /\ ret = 0 /\ applied = 0

(* A patch of the program's own making, between files of one size; wipsmake *)
(* prepares a header in a buffer and does not write it.                     *)
OwnInit == AnyFiles /\ mpc = "scan" /\ wips = <<>> /\ header = FALSE /\ checked = FALSE

-----------------------------------------------------------------------------
Chunk_Remainder(n) == n % ChunkMax

Chunk(n) == least(n, ChunkMax)

(***************************************************************************)
(* wipswrite: the region in records of at most ChunkMax bytes, each with   *)
(* its distance from the end of the region before.                         *)
(***************************************************************************)
Records(address, final) ==
  [k \in 1 .. (final - address + ChunkMax - 1) \div ChunkMax |->
     LET start == address + (k - 1) * ChunkMax
     IN [kind |-> "relative", step |-> start - current_end, address |-> start,
         data |-> Bytes(new, start, Chunk(final - start))]]

WriteRegion ==
  /\ mpc = "scan"
  /\ \E address, final \in 0 .. size :
       /\ IsRegion(old, new, size, Window, i, address, final)
       /\ wips' = wips \o Records(address, final)
       /\ i' = final + 1 /\ current_end' = final
  /\ UNCHANGED <<filevars, mpc, header, checked, diskvars, ppc, runvars, image, ret,
                 applied, before>>

(* No record of kind "end" is written. *)
Finish ==
  /\ mpc = "scan" /\ NoRegion(old, new, size, i)
  /\ mpc' = "made"
  /\ UNCHANGED <<filevars, i, current_end, wips, header, checked, diskvars, ppc,
                 runvars, image, ret, applied, before>>

-----------------------------------------------------------------------------
Return(code) == ppc' = "returned" /\ ret' = code

Unchanged == UNCHANGED <<makervars, diskvars, before>>

NotWips ==
  /\ mpc = "made" /\ ppc = "idle" /\ (~header \/ wips = <<>>)
  /\ Return(2)
  /\ Unchanged /\ UNCHANGED <<runvars, image, applied>>

StartDry ==
  /\ mpc = "made" /\ ppc = "idle" /\ header /\ wips # <<>>
  /\ ppc' = "dry"
  /\ Unchanged /\ UNCHANGED <<runvars, image, ret, applied>>

AtEnd == record = Len(wips) + 1

Current == wips[record]

Ends == ~AtEnd /\ Current.kind = "end"

Moves == ~AtEnd /\ Current.kind \in {"relative", "absolute"}

Target_Absolute == Current.step

(* The distance counts from where the record before started. *)
Target == IF Current.kind = "relative" THEN offset + Current.step ELSE Current.step

Advance == record' = record + 1 /\ offset' = Target /\ length' = Len(Current.data)

DryRecord ==
  /\ ppc = "dry" /\ Moves
  /\ Advance
  /\ Unchanged /\ UNCHANGED <<ppc, image, ret, applied>>

(* The dry run fails. *)
Fail ==
  /\ ppc = "dry"
  /\ Return(1)
  /\ Unchanged /\ UNCHANGED <<runvars, image, applied>>

NoMemory ==
  /\ ppc = "dry" /\ Ends
  /\ Return(4)
  /\ Unchanged /\ UNCHANGED <<runvars, image, applied>>

WrongFile_Unchecked == FALSE

(* crc && crc != crc32(0, pfile, sizfile), of files the CRC tells apart. *)
WrongFile == checked /\ diskvars # <<old, size>>

Load ==
  /\ image' = disk
  /\ record' = 1 /\ offset' = 0 /\ length' = 0
  /\ IF WrongFile THEN Return(4) ELSE ppc' = "check" /\ UNCHANGED ret
  /\ Unchanged /\ UNCHANGED applied

DryEnd == ppc = "dry" /\ Ends /\ Load

SizeDiffers_Never == FALSE

(* if(sizfile && sizfile != read64(...)): any patch may have an empty file. *)
SizeDiffers == sizdisk # 0 /\ sizdisk # size

CheckSize ==
  /\ ppc = "check"
  /\ IF SizeDiffers THEN ppc' = "back" /\ applied' = 2
                    ELSE ppc' = "apply" /\ UNCHANGED applied
  /\ Unchanged /\ UNCHANGED <<runvars, image, ret>>

RecordEnd == Target + Len(Current.data)

(* Nothing compares the record with the size of the file. *)
Overrun ==
  /\ ppc = "apply" /\ Moves /\ RecordEnd > sizdisk
  /\ ppc' = "crashed"
  /\ Unchanged /\ UNCHANGED <<runvars, image, ret, applied>>

ApplyRecord ==
  /\ ppc = "apply" /\ Moves /\ RecordEnd <= sizdisk
  /\ image' = [x \in DOMAIN image |->
                 IF x \in Target .. RecordEnd - 1 THEN Current.data[x - Target + 1]
                 ELSE image[x]]
  /\ Advance
  /\ Unchanged /\ UNCHANGED <<ppc, ret, applied>>

Applied ==
  /\ ppc = "apply" /\ Ends
  /\ ppc' = "back"
  /\ Unchanged /\ UNCHANGED <<runvars, image, ret, applied>>

(***************************************************************************)
(* A record of no known kind moves on by the length of the record before:  *)
(* without one, nowhere and for ever.  With one it is read as data, and so *)
(* is what is behind a patch without an "end", whose supposed end is 40    *)
(* bytes late: the records found there are anybody's.                      *)
(***************************************************************************)
Stuck ==
  /\ ppc \in {"dry", "apply"} /\ ~AtEnd /\ Current.kind = "unknown" /\ length = 0
  /\ ppc' = "stuck"
  /\ Unchanged /\ UNCHANGED <<runvars, image, ret, applied>>

Astray == AtEnd \/ (~AtEnd /\ Current.kind = "unknown" /\ length # 0)

DryAstray ==
  /\ ppc = "dry" /\ Astray
  /\ \/ Fail
     \/ Load

ApplyAstray ==
  /\ ppc = "apply" /\ Astray
  /\ \/ \E f \in File(sizdisk), code \in {0, 1} :
          image' = f /\ applied' = code /\ ppc' = "back"
     \/ ppc' = "crashed" /\ UNCHANGED <<image, applied>>
  /\ Unchanged /\ UNCHANGED <<runvars, ret>>

(* if(!wipspatch(pfile, ...)) *)
WriteBack == applied = 0

(* Whatever the run in memory returned, _wipspatch returns 0. *)
Report ==
  /\ ppc = "back"
  /\ disk' = IF WriteBack THEN image ELSE disk
  /\ Return(0)
  /\ UNCHANGED <<makervars, sizdisk, runvars, image, applied, before>>

Next ==
  \/ WriteRegion \/ Finish
  \/ NotWips \/ StartDry \/ DryRecord \/ NoMemory \/ DryEnd \/ CheckSize
  \/ Overrun \/ ApplyRecord \/ Applied \/ Stuck \/ DryAstray \/ ApplyAstray \/ Report

OwnSpec == OwnInit /\ [][Next]_vars

-----------------------------------------------------------------------------
(* Types of the variables. *)
TypeOK ==
  /\ disk \in File(sizdisk) /\ current_end \in 0 .. size
  /\ \A k \in 1 .. Len(wips) :
       /\ wips[k].kind \in {"relative", "absolute", "end", "unknown"}
       /\ Len(wips[k].data) <= ChunkMax
  /\ ppc \in {"idle", "dry", "check", "apply", "back", "returned", "crashed", "stuck"}
  /\ record \in 1 .. Len(wips) + 1 /\ offset \in Nat /\ length \in 0 .. ChunkMax
  /\ ret \in {0, 1, 2, 4} /\ applied \in 0 .. 2

WellFormed ==
  /\ wips # <<>> /\ Last(wips).kind = "end"
  /\ \A k \in 1 .. Len(wips) - 1 : wips[k].kind \in {"relative", "absolute"}

(* Where the makers of the records mean them to go. *)
AllRecords(f) ==
  [x \in DOMAIN f |->
     IF \E k \in 1 .. Len(wips) :
          x \in wips[k].address .. wips[k].address + Len(wips[k].data) - 1
     THEN new[x] ELSE f[x]]

(* The records wipsmake wrote hold all that differs. *)
Complete == mpc = "made" /\ ~header => AllRecords(old) = new

(***************************************************************************)
(* A well formed patch puts all its bytes where they belong or none, and   *)
(* when it was applied to the old file, all.                               *)
(***************************************************************************)
Patches ==
  WellFormed => /\ disk = before[1] \/ disk = AllRecords(before[1])
                /\ ppc = "returned" /\ ret = 0 /\ before = <<old, size>>
                     => disk = AllRecords(old)

(* It never writes behind the end of a file that is not empty. *)
WithinImage == WellFormed /\ ppc = "crashed" => sizdisk = 0

(* A file other than the one whose CRC the patch has is left alone. *)
WrongFileUntouched == checked /\ before # <<old, size>> => diskvars = before

=============================================================================
