------------------------------ MODULE IpsMake ------------------------------
(***************************************************************************)
(* ipsmake of applet/xenoips.c: scan two files for differing regions, cut  *)
(* each region into literal writes and run-length fills, split both at the *)
(* size a record can hold, and append what a longer new file adds.         *)
(*                                                                         *)
(* One step is one iteration of one of its loops.  The calls of ipswrite   *)
(* and ipsfill that an iteration of the consuming loop makes are kept in   *)
(* wr and fl (what is left of each call) and run one chunk per step.       *)
(***************************************************************************)
EXTENDS IpsFormat

CONSTANTS
  FileSizes,        \* sizes of the files the maker is given
  Gap,              \* 5: equal bytes that end a differing region
  FillRun           \* 7: shortest run worth a fill record

ASSUME FileSizesAssumption == FileSizes \subseteq Nat
ASSUME GapAssumption       == Gap \in Nat \ {0}
ASSUME FillRunAssumption   == FillRun \in Nat /\ FillRun >= 3

VARIABLES
  pfile, sizfile,       \* the old file
  pnewfile, siznewfile, \* the new file
  mpc,                  \* where ipsmake is
  i, final, address,    \* its locals
  size, patchofs,
  tail,                 \* it is in the loop for the bytes past the old file
  wr, fl                \* what ipswrite and ipsfill still have to write

files    == <<pfile, sizfile, pnewfile, siznewfile>>
scanvars == <<i, final>>
callvars == <<wr, fl>>
regionvars == <<address, size, patchofs, tail>>
makelocals == <<mpc, scanvars, regionvars, callvars>>
makevars == <<ips, sizips, files, makelocals>>

common == least(sizfile, siznewfile)

NoWrite == [address |-> 0, size |-> 0]
NoFill  == [address |-> 0, size |-> 0, value |-> Indeterminate]

MakeInit ==
  /\ sizfile \in FileSizes /\ pfile \in Buffer(sizfile)
  /\ siznewfile \in FileSizes /\ pnewfile \in Buffer(siznewfile)
  /\ ips = <<>> /\ sizips = 0
  /\ mpc = "start"
  /\ i = 0 /\ final = 0 /\ address = 0 /\ size = 0 /\ patchofs = 0
  /\ tail = FALSE
  /\ wr = NoWrite /\ fl = NoFill

(* _ipsmake turns files down that a 3-byte address cannot reach. *)
Refuse ==
  /\ mpc = "start"
  /\ sizfile > FileLimit \/ siznewfile > FileLimit
  /\ mpc' = "refused"
  /\ UNCHANGED <<ips, sizips, files, scanvars, regionvars, callvars>>

Begin ==
  /\ mpc = "start"
  /\ sizfile <= FileLimit /\ siznewfile <= FileLimit
  /\ sizips' = 5
  /\ mpc' = "scan"
  /\ UNCHANGED <<ips, files, scanvars, regionvars, callvars>>

-----------------------------------------------------------------------------
(* The scan over the bytes both files have. *)

SkipEqual ==
  /\ mpc = "scan" /\ i < common
  /\ pfile[i] = pnewfile[i]
  /\ i' = i + 1
  /\ UNCHANGED <<ips, sizips, files, mpc, final, regionvars, callvars>>

OpenRegion ==
  /\ mpc = "scan" /\ i < common
  /\ pfile[i] # pnewfile[i]
  /\ address' = i /\ final' = i
  /\ mpc' = "region"
  /\ UNCHANGED <<ips, sizips, files, i, size, patchofs, tail, callvars>>

WindowDiffers_Late ==
  \E x \in final + 1 .. final + least(Gap, common - final) - 1 :
    pfile[x] # pnewfile[x]

(* memcmp_fast over the next Gap bytes, fewer at the end of the files. *)
WindowDiffers ==
  \E x \in final .. final + least(Gap, common - final) - 1 :
    pfile[x] # pnewfile[x]

GrowRegion ==
  /\ mpc = "region" /\ WindowDiffers
  /\ final' = final + 1 /\ i' = i + 1
  /\ UNCHANGED <<ips, sizips, files, mpc, regionvars, callvars>>

RegionSize_Swapped == address - final

RegionSize == final - address

CloseRegion ==
  /\ mpc = "region" /\ ~WindowDiffers
  /\ size' = RegionSize /\ patchofs' = 0
  /\ mpc' = "consume"
  /\ UNCHANGED <<ips, sizips, files, scanvars, address, tail, callvars>>

EndScan ==
  /\ mpc = "scan" /\ i >= common
  /\ IF siznewfile > sizfile
     THEN /\ address' = sizfile /\ size' = siznewfile - sizfile
          /\ patchofs' = 0 /\ tail' = TRUE
          /\ mpc' = "consume"
     ELSE /\ mpc' = "eof" /\ UNCHANGED regionvars
  /\ UNCHANGED <<ips, sizips, files, scanvars, callvars>>

-----------------------------------------------------------------------------
(* Consuming a region: fills where RLE finds a run, writes elsewhere. *)

AllSame_Short(start, length) ==
  \A x \in start .. start + length - 2 : pnewfile[x] = pnewfile[start]

AllSame(start, length) ==
  \A x \in start .. start + length - 1 : pnewfile[x] = pnewfile[start]

(***************************************************************************)
(* RLE(start, n, check) returns the first position whose run is at least   *)
(* check long, and the length of that run.  Its loop stops at n - check,   *)
(* so a run that only just fits at the end of the region is not found.     *)
(***************************************************************************)
IsRun(start, n, check, rleaddr, rlelength) ==
  /\ n >= 3 /\ check >= 3
  /\ rleaddr < n - check
  /\ check <= rlelength /\ rleaddr + rlelength <= n
  /\ AllSame(start + rleaddr, rlelength)
  /\ rleaddr + rlelength < n =>
       pnewfile[start + rleaddr + rlelength] # pnewfile[start + rleaddr]
  /\ \A earlier \in 0 .. rleaddr - 1 : ~AllSame(start + earlier, check)

(* The two consuming loops ask RLE differently when little is left. *)
Check == IF size > 3 THEN least(size, FillRun) ELSE 3

RunFound(rleaddr, rlelength) ==
  /\ tail \/ size > 3
  /\ IsRun(address + patchofs, size, Check, rleaddr, rlelength)

Consuming == mpc = "consume" /\ wr.size = 0 /\ fl.size = 0

ConsumeRun ==
  /\ Consuming
  /\ \E rleaddr \in 0 .. size, rlelength \in 3 .. size :
       /\ RunFound(rleaddr, rlelength)
       /\ wr' = [address |-> address + patchofs, size |-> rleaddr]
       /\ fl' = [address |-> address + patchofs + rleaddr, size |-> rlelength,
                 value |-> pnewfile[address + patchofs + rleaddr]]
       /\ size' = size - (rleaddr + rlelength)
       /\ patchofs' = patchofs + rleaddr + rlelength
  /\ UNCHANGED <<ips, sizips, files, mpc, scanvars, address, tail>>

(* No run is left: one write takes the rest and the loop breaks. *)
ConsumeRest ==
  /\ Consuming /\ size > 0
  /\ \A rleaddr \in 0 .. size, rlelength \in 3 .. size :
       ~RunFound(rleaddr, rlelength)
  /\ wr' = [address |-> address + patchofs, size |-> size]
  /\ patchofs' = patchofs + size /\ size' = 0
  /\ UNCHANGED <<ips, sizips, files, mpc, scanvars, address, tail, fl>>

(* The scan resumes behind final, a byte it knows to be equal. *)
LeaveRegion ==
  /\ Consuming /\ size = 0
  /\ IF tail THEN mpc' = "eof" /\ UNCHANGED i
             ELSE mpc' = "scan" /\ i' = i + 1
  /\ UNCHANGED <<ips, sizips, files, final, regionvars, callvars>>

Emit(r) == ips' = Append(ips, r) /\ sizips' = sizips + RecordBytes(r)

Chunk_Unbounded(n) == n

Chunk(n) == least(n, ChunkMax)

(* One iteration of ipswrite, of ipsfill. *)
WriteChunk ==
  /\ wr.size > 0
  /\ LET n == Chunk(wr.size) IN
       /\ Emit([at |-> sizips, address |-> wr.address, size |-> n, fill |-> FALSE,
                data |-> [x \in Positions(n) |-> pnewfile[wr.address + x]]])
       /\ wr' = [address |-> wr.address + n, size |-> wr.size - n]
  /\ UNCHANGED <<files, mpc, scanvars, regionvars, fl>>

FillChunk ==
  /\ wr.size = 0 /\ fl.size > 0
  /\ LET n == Chunk(fl.size) IN
       /\ Emit([at |-> sizips, address |-> fl.address, size |-> n, fill |-> TRUE,
                data |-> [x \in Positions(1) |-> fl.value]])
       /\ fl' = [fl EXCEPT !.address = @ + n, !.size = @ - n]
  /\ UNCHANGED <<files, mpc, scanvars, regionvars, wr>>

WriteEof ==
  /\ mpc = "eof"
  /\ ips' = Append(ips, Trailer(sizips)) /\ sizips' = sizips + 3
  /\ mpc' = "made"
  /\ UNCHANGED <<files, scanvars, regionvars, callvars>>

MakeNext ==
  \/ Refuse \/ Begin
  \/ SkipEqual \/ OpenRegion \/ GrowRegion \/ CloseRegion \/ EndScan
  \/ ConsumeRun \/ ConsumeRest \/ LeaveRegion
  \/ WriteChunk \/ FillChunk
  \/ WriteEof


-----------------------------------------------------------------------------
(***************************************************************************)
(* The maker's invariant.  Settled(x): byte x of the new file needs no     *)
(* record, or has one.  Everything below the frontier is settled; what     *)
(* lies between the frontier and the end of the region is still to write.  *)
(***************************************************************************)
Covered(x) == \E k \in 1 .. Len(ips) : Covers(ips[k], x)

Settled(x) == \/ x < common /\ pfile[x] = pnewfile[x]
              \/ Covered(x)

RegionEnd == IF tail THEN siznewfile ELSE final

Frontier == IF wr.size > 0 THEN wr.address
            ELSE IF fl.size > 0 THEN fl.address ELSE address + patchofs

(* Types of the maker's variables. *)
MakeTypeOK ==
  /\ sizfile \in Nat /\ pfile \in Buffer(sizfile)
  /\ siznewfile \in Nat /\ pnewfile \in Buffer(siznewfile)
  /\ mpc \in {"start", "refused", "scan", "region", "consume", "eof", "made"}
  /\ i \in Nat /\ final \in Nat /\ address \in Nat
  /\ size \in Nat /\ patchofs \in Nat /\ tail \in BOOLEAN
  /\ wr \in [address : Nat, size : Nat]
  /\ fl \in [address : Nat, size : Nat, value : Byte \cup {Indeterminate}]
  /\ ips \in Seq(Record) /\ sizips \in Nat

(* Every record sets bytes of the new file, to their values there. *)
RecordsTrue ==
  \A k \in 1 .. Len(ips) :
    \A x \in ips[k].address .. ips[k].address + ips[k].size - 1 :
      x < siznewfile /\ ByteOf(ips[k], x) = pnewfile[x]

(* Every record fits the widths of its fields, and none is a fill in       *)
(* disguise: a size of 0 in the file announces a fill record.              *)
RecordsFit ==
  \A k \in 1 .. Len(ips) :
    \/ k = Len(ips) /\ mpc = "made"
    \/ /\ 0 < ips[k].size /\ ips[k].size <= ChunkMax
       /\ ips[k].address < FileLimit

(***************************************************************************)
(* While a patch is made, every record in it fits its fields and sets      *)
(* bytes of the new file, in its bounds, to what they are there.           *)
(***************************************************************************)
RecordsRight == RecordsFit /\ RecordsTrue

=============================================================================
