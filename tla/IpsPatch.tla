------------------------------ MODULE IpsPatch -----------------------------
(***************************************************************************)
(* _ipspatch and ipspatch of applet/xenoips.c: a dry run over the patch    *)
(* checks it and finds the size the file needs; then that much memory is   *)
(* allocated, as much of the file as there is read into it, the records    *)
(* applied in a second run whose result is ignored, and the memory written *)
(* back over the front of the file.  One step handles one record.          *)
(***************************************************************************)
EXTENDS IpsFormat

VARIABLES
  magic,            \* the patch file starts with "PATCH"
  disk, sizdisk,    \* the file on disk: its bytes and their number
  ppc,              \* "dry" and "apply" are the two runs of ipspatch
  offset, record,   \* offset in the patch file, number of the record there
  needed,           \* *sizfile: the size the dry run finds
  image,            \* the allocated memory
  ret,              \* what _ipspatch returns
  applied           \* what the second run of ipspatch returns

diskvars   == <<disk, sizdisk>>
cursor     == <<offset, record>>
patchvars  == <<ips, sizips, magic, diskvars, ppc, cursor, needed, image, ret,
                applied>>

(***************************************************************************)
(* In a patch file p the records follow one another from byte 5, and the   *)
(* file ends no later than the last of them does.                          *)
(***************************************************************************)
WellLaid(p, n) ==
  /\ Len(p) > 0 => p[1].at = 5
  /\ \A k \in 1 .. Len(p) - 1 : p[k + 1].at = p[k].at + RecordBytes(p[k])
  /\ n <= IF Len(p) = 0 THEN 5 ELSE p[Len(p)].at + RecordBytes(p[Len(p)])

PatchInit ==
  /\ ppc = "start" /\ offset = 5 /\ record = 1
  /\ needed = 0 /\ image = <<>> /\ ret = 0 /\ applied = 0

-----------------------------------------------------------------------------
Current == ips[record]

AtEof_Anywhere == /\ offset + 3 <= sizips
                  /\ Current.address = EofAddress

AtEof == /\ offset + 3 <= sizips
         /\ Current.address = EofAddress /\ offset + 3 = sizips

(* One of the returns of 1: the file ends inside the record. *)
Truncated ==
  offset + 3 <= sizips =>
    /\ ~AtEof
    /\ offset + 5 > sizips \/ offset + RecordBytes(Current) > sizips

RecordEnd == Current.address + Current.size

Advance_Forgotten == UNCHANGED cursor

Advance == offset' = offset + RecordBytes(Current) /\ record' = record + 1

Return(code) == ppc' = "returned" /\ ret' = code

-----------------------------------------------------------------------------
(* The checks that come before the first record. *)

StartDry ==
  /\ ppc = "start"
  /\ IF sizips < 8 \/ ~magic
     THEN Return(2)
     ELSE ppc' = "dry" /\ UNCHANGED ret
  /\ UNCHANGED <<ips, sizips, magic, diskvars, cursor, needed, image, applied>>

Needed_LastOnly == RecordEnd

Needed == greatest(needed, RecordEnd)

DryRecord ==
  /\ ppc = "dry" /\ ~Truncated /\ ~AtEof
  /\ needed' = Needed
  /\ Advance
  /\ UNCHANGED <<ips, sizips, magic, diskvars, ppc, image, ret, applied>>

DryTruncated ==
  /\ ppc = "dry" /\ Truncated
  /\ Return(1)
  /\ UNCHANGED <<ips, sizips, magic, diskvars, cursor, needed, image, applied>>

(* "ips empty" is an error as well. *)
DryEmpty ==
  /\ ppc = "dry" /\ AtEof /\ needed = 0
  /\ Return(5)
  /\ UNCHANGED <<ips, sizips, magic, diskvars, cursor, needed, image, applied>>

NoMemory ==
  /\ ppc = "dry" /\ AtEof /\ needed > 0
  /\ Return(4)
  /\ UNCHANGED <<ips, sizips, magic, diskvars, cursor, needed, image, applied>>

(***************************************************************************)
(* malloc, fread and rewind: the file may be shorter than the memory, and  *)
(* what lies behind it is not cleared.                                     *)
(***************************************************************************)
Loaded_NotRead(x) == Indeterminate

Loaded(x) == IF x < sizdisk THEN disk[x] ELSE Indeterminate

Load ==
  /\ ppc = "dry" /\ AtEof /\ needed > 0
  /\ image' = [x \in Positions(needed) |-> Loaded(x)]
  /\ offset' = 5 /\ record' = 1
  /\ ppc' = "apply"
  /\ UNCHANGED <<ips, sizips, magic, diskvars, needed, ret, applied>>

ApplyRecord ==
  /\ ppc = "apply" /\ ~Truncated /\ ~AtEof
  /\ RecordEnd <= needed
  /\ image' = [x \in DOMAIN image |->
                 IF Covers(Current, x) THEN ByteOf(Current, x) ELSE image[x]]
  /\ Advance
  /\ UNCHANGED <<ips, sizips, magic, diskvars, ppc, needed, ret, applied>>

(* The run ends at the trailer, or where it finds something wrong. *)
ApplyEnds ==
  /\ ppc = "apply"
  /\ AtEof \/ Truncated \/ RecordEnd > needed
  /\ applied' = IF AtEof THEN 0 ELSE 1
  /\ ppc' = "back"
  /\ UNCHANGED <<ips, sizips, magic, diskvars, cursor, needed, image, ret>>

(* fwrite over the front of the file; a longer file keeps its end. *)
WriteBack ==
  /\ ppc = "back"
  /\ sizdisk' = greatest(sizdisk, needed)
  /\ disk' = [x \in Positions(sizdisk') |-> IF x < needed THEN image[x] ELSE disk[x]]
  /\ Return(0)
  /\ UNCHANGED <<ips, sizips, magic, cursor, needed, image, applied>>

PatchNext ==
  \/ StartDry \/ DryRecord \/ DryTruncated \/ DryEmpty
  \/ NoMemory \/ Load
  \/ ApplyRecord \/ ApplyEnds \/ WriteBack

-----------------------------------------------------------------------------
(***************************************************************************)
(* The second run of ipspatch, whose result is ignored, does not fail: it  *)
(* meets the same records as the dry run and room for each of them.        *)
(***************************************************************************)
SecondRunSucceeds == applied = 0

-----------------------------------------------------------------------------
(***************************************************************************)
(* xenoips given a patch file of any origin, and a file the patch may not  *)
(* have been made for.                                                     *)
(***************************************************************************)
AnyPatch == /\ ips \in Seq(Record) /\ sizips \in Nat /\ magic \in BOOLEAN
            /\ WellLaid(ips, sizips)

AnyFile  == sizdisk \in Nat /\ disk \in Buffer(sizdisk)

PatchSpec == PatchInit /\ AnyPatch /\ AnyFile /\ [][PatchNext]_patchvars

Spec == INSTANCE IpsPatchSpec WITH
  outcome <- IF ppc # "returned" THEN "none"
             ELSE IF ret = 0 THEN "patched" ELSE "refused"

(***************************************************************************)
(* Two runs over the patch, a record at a time, amount to one step that    *)
(* patches the file, each byte by the last record that covers it, or to    *)
(* none: a patch that is turned down has changed nothing, whichever of its *)
(* records is the bad one.                                                 *)
(***************************************************************************)
Atomic == Spec!AtomicPatch

(* Either run of ipspatch comes to the end of the patch. *)
Returns == <>(ppc = "returned")

=============================================================================
