----------------------------- MODULE DiscImages -----------------------------
(***************************************************************************)
(* The two layers of getdiscid's disc images: the blocks a compressed      *)
(* image is stored in (BlockImages), and the tree of files within a plain  *)
(* one (IsoTree).  By the type of the image, which its first bytes tell,   *)
(* file_read and file_write go through the blocks or to the bytes          *)
(* themselves.  What the layer at hand has no use for stays as it is.      *)
(***************************************************************************)
EXTENDS Integers, Sequences

CONSTANTS
  Formats, BlockSize, Lengths, Limit, Aligns, HeadLen, MaxCalls,     \* of BlockImages
  Letters, Images, Paths, BootPath, Sizes, SectorSize, MaxRecords, MaxOps     \* of IsoTree

VARIABLES
  layer,            \* "blocks" or "tree"
  pc, op, pos, size, ret, ops,
  format, total_bytes, align, index, body, ftell, image, sector_num, out, decompbuf,
  inpos, counter, lost,
  iso, path, stat, boot, before

shared     == <<pc, op, pos, size, ret, ops>>
onlyBlocks == <<format, total_bytes, align, index, body, ftell, image, sector_num, out,
                decompbuf, inpos, counter, lost>>
onlyTree   == <<iso, path, stat, boot, before>>
vars       == <<layer, shared, onlyBlocks, onlyTree>>

B == INSTANCE BlockImages WITH MaxOps <- MaxCalls
T == INSTANCE IsoTree

ASSUME BlocksAssumption ==
  B!FormatsAssumption /\ B!SizesAssumption /\ B!LimitAssumption /\ B!HeadAssumption
ASSUME TreeAssumption == T!SizeAssumption /\ T!PathAssumption /\ T!ImagesAssumption

NoBlocks ==
  /\ format = "none" /\ total_bytes = 0 /\ align = 0 /\ index = <<>> /\ body = <<>>
  /\ ftell = 0 /\ image = <<>> /\ sector_num = 0 /\ out = <<>> /\ decompbuf = <<>>
  /\ inpos = 0 /\ counter = 0 /\ lost = {}

NoTree == iso = <<>> /\ path = <<>> /\ stat = <<>> /\ boot = <<>> /\ before = <<>>

Init ==
  \/ layer = "blocks" /\ B!Init /\ NoTree
  \/ layer = "tree"   /\ T!Init /\ NoBlocks

Blocks == layer = "blocks" /\ B!Next /\ UNCHANGED <<layer, onlyTree>>
Tree   == layer = "tree" /\ T!Next /\ UNCHANGED <<layer, onlyBlocks>>

Next == Blocks \/ Tree

Spec == Init /\ [][Next]_vars

-----------------------------------------------------------------------------
(* Types of the variables, and room for every block (BlockImages).         *)
TypeOK ==
  /\ layer \in {"blocks", "tree"}
  /\ layer = "blocks" => B!TypeOK
  /\ layer = "tree" => T!TypeOK

(* Reads within the whole blocks deliver the image, but for what a write   *)
(* has lost (BlockImages).                                                 *)
ReadsTrue == layer = "blocks" => B!ReadsTrue

(* Writes change what they are to change, even if they fail, and lose      *)
(* bytes only in blocks they write to (BlockImages).                       *)
BlocksTrue == layer = "blocks" => B!BlocksTrue

(* An image of which nothing is lost is unpacked to itself (BlockImages).  *)
Unpacks == layer = "blocks" => B!Unpacks

(* A file is found by the names of all its directories (IsoTree).          *)
FindsExact == layer = "tree" => T!FindsExact

(* No write or add changes another file, even if cut off (IsoTree).        *)
OthersKept == layer = "tree" => T!OthersKept

(* What was written or added is found, with its data (IsoTree).            *)
Arrives == layer = "tree" => T!Arrives

=============================================================================
