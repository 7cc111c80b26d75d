--------------------------------- MODULE Ups --------------------------------
(***************************************************************************)
(* xenoups (applet/xenoups.c): upsmake writes the xor of two files, region *)
(* by region, with the CRCs of both; upspatch applies it to either of the  *)
(* two and gets the other one.  The maker makes one region per step; the   *)
(* patcher makes a dry run, then extends the file in memory, applies one   *)
(* record per step, writes the memory back and cuts the file.              *)
(*                                                                         *)
(* A byte is the set of its bits, so that ^ is the symmetric difference. A *)
(* CRC is compared by what it was computed from: two different files are   *)
(* taken to have different CRCs, a damaged patch never to match its own.   *)
(***************************************************************************)
EXTENDS Regions, Sequences

CONSTANTS
  Bits,             \* bits of a byte
  DigitBits,        \* of a byte of a number that is encoded: 7
  FileSizes,        \* sizes of the files
  MaxRuns           \* times the patcher is run

SizesAssumption == FileSizes \subseteq Nat
RunsAssumption == MaxRuns \in Nat

Number == INSTANCE UpsNumber WITH IntBits <- 32, LongBits <- 64

VARIABLES
  old, sizold,      \* the two files the patch is made from
  new, siznew,
  mpc, i, oldoff,   \* where upsmake is, and its locals
  ups, bodyend,     \* records of the patch; where its CRCs start
  intact,           \* its own CRC is right
  disk, sizdisk,    \* the file the patch is applied to
  ppc, record,      \* where the patcher is; the record it is at
  ptr, image,       \* pfile: the position in memory, and the memory
  forward,          \* patchmode
  ret, runs,
  before            \* the file before this run

makervars == <<old, sizold, new, siznew, mpc, i, oldoff, ups, bodyend>>
diskvars  == <<disk, sizdisk>>
runvars   == <<record, ptr, image, forward>>
vars      == <<makervars, intact, diskvars, ppc, runvars, ret, runs, before>>

Byte      == SUBSET Bits
Zero      == {}
Xor(a, b) == (a \ b) \cup (b \ a)
File(n)   == [Positions(n) -> Byte]

(* A record: where it starts, how far it skips, the xor bytes; then a zero. *)
RecordBytes(r) == Number!NumberBytes(r.relative) + Len(r.data) + 1

Init ==
  /\ sizold \in FileSizes /\ old \in File(sizold)
  /\ siznew \in FileSizes /\ new \in File(siznew)
  /\ mpc = "scan" /\ i = 0 /\ oldoff = 0
  /\ ups = <<>> /\ bodyend = 4 + Number!NumberBytes(sizold) + Number!NumberBytes(siznew)
  /\ intact \in BOOLEAN
  /\ sizdisk \in FileSizes /\ disk \in File(sizdisk)
  /\ ppc = "idle" /\ record = 1 /\ ptr = 0 /\ image = <<>> /\ forward = TRUE
  /\ ret = 0 /\ runs = 0 /\ before = <<>>

-----------------------------------------------------------------------------
(* Both files are read into memory cleared up to the longer one's size. *)
readsize == greatest(sizold, siznew)

Padded(f, n) == [x \in Positions(readsize) |-> IF x < n THEN f[x] ELSE Zero]

PaddedOld == Padded(old, sizold)
PaddedNew == Padded(new, siznew)

Gap_Two == 2

(* "using gap isn't allowed": an equal byte's xor would end the record. *)
Gap == 1

WriteRegion ==
  /\ mpc = "scan"
  /\ \E address, final \in 0 .. readsize :
       /\ IsRegion(PaddedOld, PaddedNew, readsize, Gap, i, address, final)
       /\ LET r == [at |-> bodyend, relative |-> address - oldoff,
                    data |-> [k \in 1 .. final - address |->
                                Xor(PaddedOld[address + k - 1],
                                    PaddedNew[address + k - 1])]]
          IN ups' = Append(ups, r) /\ bodyend' = bodyend + RecordBytes(r)
       /\ oldoff' = final + 1 /\ i' = final + 1
  /\ UNCHANGED <<old, sizold, new, siznew, mpc, intact, diskvars, ppc, runvars, ret,
                 runs, before>>

WriteCrcs ==
  /\ mpc = "scan" /\ NoRegion(PaddedOld, PaddedNew, readsize, i)
  /\ mpc' = "made"
  /\ UNCHANGED <<old, sizold, new, siznew, i, oldoff, ups, bodyend, intact, diskvars,
                 ppc, runvars, ret, runs, before>>

-----------------------------------------------------------------------------
Return(code) == ppc' = "returned" /\ ret' = code

StartDry ==
  /\ mpc = "made" /\ ppc \in {"idle", "returned"} /\ runs < MaxRuns
  /\ runs' = runs + 1 /\ before' = diskvars
  /\ record' = 1 /\ ptr' = 0
  /\ IF intact THEN ppc' = "dry" /\ UNCHANGED ret ELSE Return(2)
  /\ UNCHANGED <<makervars, intact, diskvars, image, forward>>

Current == ups[record]

(***************************************************************************)
(* "new + relative + 1 > pups + sizups - 12": how far the record skips in  *)
(* the file is held against how much of the patch is left.                 *)
(***************************************************************************)
TooFar == Current.at + Number!NumberBytes(Current.relative) + Current.relative + 1 > bodyend

Advance == record' = record + 1

DryRecord ==
  /\ ppc = "dry" /\ record <= Len(ups)
  /\ IF TooFar THEN Return(1) /\ UNCHANGED record
               ELSE Advance /\ UNCHANGED <<ppc, ret>>
  /\ UNCHANGED <<makervars, intact, diskvars, ptr, image, forward, runs, before>>

IsOld == diskvars = <<old, sizold>>
IsNew == diskvars = <<new, siznew>>

SizeFrom == IF forward THEN sizold ELSE siznew
SizeTo   == IF forward THEN siznew ELSE sizold

(* The CRC of the file tells which of the two it is, the new one if both. *)
Identify ==
  /\ ppc = "dry" /\ record > Len(ups)
  /\ IF IsOld \/ IsNew
     THEN ppc' = "extend" /\ forward' = ~IsNew /\ UNCHANGED ret
     ELSE Return(4) /\ UNCHANGED forward
  /\ UNCHANGED <<makervars, intact, diskvars, record, ptr, image, runs, before>>

NoMemory ==
  /\ ppc = "dry" /\ record > Len(ups)
  /\ Return(4)
  /\ UNCHANGED <<makervars, intact, diskvars, runvars, runs, before>>

ImageSize_Read == SizeFrom

ImageSize == greatest(SizeFrom, SizeTo)

Extend ==
  /\ ppc = "extend"
  /\ image' = [x \in Positions(ImageSize) |-> IF x < sizdisk THEN disk[x] ELSE Zero]
  /\ record' = 1 /\ ppc' = "apply"
  /\ UNCHANGED <<makervars, intact, diskvars, ptr, forward, ret, runs, before>>

Skipped_Short(r) == r.relative + Len(r.data)

Skipped(r) == r.relative + Len(r.data) + 1

Target == ptr + Current.relative

ApplyRecord ==
  /\ ppc = "apply" /\ record <= Len(ups) /\ ~TooFar
  /\ image' = [x \in DOMAIN image |->
                 IF x \in Target .. Target + Len(Current.data) - 1
                 THEN Xor(image[x], Current.data[x - Target + 1]) ELSE image[x]]
  /\ ptr' = ptr + Skipped(Current)
  /\ Advance
  /\ UNCHANGED <<makervars, intact, diskvars, ppc, forward, ret, runs, before>>

(* fwrite over the file; a longer one is cut in a step of its own. *)
WriteBack ==
  /\ ppc = "apply" /\ record > Len(ups)
  /\ sizdisk' = greatest(sizdisk, SizeTo)
  /\ disk' = [x \in Positions(sizdisk') |-> IF x < SizeTo THEN image[x] ELSE disk[x]]
  /\ ppc' = "cut"
  /\ UNCHANGED <<makervars, intact, runvars, ret, runs, before>>

Cut ==
  IF SizeFrom > SizeTo
  THEN /\ sizdisk' = SizeTo
       /\ disk' = [x \in Positions(SizeTo) |-> disk[x]]
  ELSE UNCHANGED diskvars

Truncate ==
  /\ ppc = "cut" /\ Cut /\ Return(0)
  /\ UNCHANGED <<makervars, intact, runvars, runs, before>>

Next ==
  \/ WriteRegion \/ WriteCrcs
  \/ StartDry \/ DryRecord \/ Identify \/ NoMemory
  \/ Extend \/ ApplyRecord \/ WriteBack \/ Truncate

Spec == Init /\ [][Next]_vars

-----------------------------------------------------------------------------
(* Types of the variables; no xor byte is zero, for a zero ends a record. *)
TypeOK ==
  /\ old \in File(sizold) /\ new \in File(siznew) /\ disk \in File(sizdisk)
  /\ {sizold, siznew, sizdisk, i, oldoff, bodyend, ptr, runs} \subseteq Nat
  /\ mpc \in {"scan", "made"} /\ intact \in BOOLEAN /\ forward \in BOOLEAN
  /\ \A k \in 1 .. Len(ups) :
       ups[k].relative \in Nat /\ ups[k].data \in Seq(Byte \ {Zero})
  /\ ppc \in {"idle", "dry", "extend", "apply", "cut", "returned"}
  /\ record \in 1 .. Len(ups) + 1 /\ ret \in {0, 1, 2, 4}

(***************************************************************************)
(* A run that reports success has turned the old file into the new one or  *)
(* the new one into the old one, to the byte and in length; any other run  *)
(* has left the file as it was.                                            *)
(***************************************************************************)
Toggles ==
  ppc = "returned" =>
    \/ ret = 0 /\ before = <<old, sizold>> /\ IsNew
    \/ ret = 0 /\ before = <<new, siznew>> /\ IsOld
    \/ ret # 0 /\ before = diskvars

(* No record reaches behind the memory, nor does the write back, however   *)
(* the sizes differ.                                                       *)
WithinImage ==
  ppc = "apply" =>
    /\ Positions(SizeTo) \subseteq DOMAIN image
    /\ record <= Len(ups) =>
         Target .. Target + Len(Current.data) - 1 \subseteq DOMAIN image

(***************************************************************************)
(* "Patch failed (corrupted / truncated)" is what the program says of a    *)
(* patch only when something happened to it.                               *)
(***************************************************************************)
FailureMeansDamage == ppc = "returned" /\ ret = 1 => ~intact

=============================================================================
