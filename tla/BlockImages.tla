---------------------------- MODULE BlockImages -----------------------------
(***************************************************************************)
(* Disc images compressed block by block: xenociso writes them, xenociso,  *)
(* xenodaxcr and xenojiso unpack them as a stream, the readers and the     *)
(* writer of getdiscid (ciso.c, dax.c, jiso.c) go to any block by an index *)
(* of where each begins.                                                   *)
(*                                                                         *)
(* How small a block gets is the compressor's choice; what it holds is its *)
(* data.  A byte of the image is its position, a byte written later a      *)
(* number of its own, and what nobody has put into the buffer is Stale.    *)
(* The writer is modelled for blocks of a sector, which xenociso makes.    *)
(***************************************************************************)
EXTENDS Integers, Sequences

CONSTANTS
  Formats,          \* of "cso", "dax", "zlib" and "lzo", the last two of jso
  BlockSize,        \* of each format
  Lengths,          \* of images: total_bytes
  Limit,            \* block_size * threshold / 100
  Aligns,           \* values of align
  HeadLen,          \* where the first block begins
  MaxOps

FormatsAssumption == Formats \subseteq {"cso", "dax", "zlib", "lzo"}
SizesAssumption   == /\ BlockSize \in [Formats -> Nat \ {0}]
                     /\ Lengths \subseteq Nat /\ Aligns \subseteq Nat
LimitAssumption   == Limit \in Nat /\ MaxOps \in Nat
HeadAssumption    == HeadLen \in Nat /\ \A a \in Aligns : 2^a \in Nat \ {0} /\ HeadLen % 2^a = 0

VARIABLES
  format, total_bytes, align,
  index,            \* [at, plain] of each block, and of the end
  body,             \* what is stored at a position: its data and its length
  ftell,            \* where the maker is
  image,            \* the image that the file stands for
  pc, op,           \* which call runs, and where it is
  pos, size,        \* its arguments
  sector_num,
  out,              \* what it has delivered
  decompbuf,        \* the buffer all calls share
  inpos, counter,   \* of an unpacker: where the stream is, and where it thinks
  ret, ops,
  lost              \* bytes of the image that a write has cost

filevars == <<format, total_bytes, align, index, body, ftell, image>>
callvars == <<op, pos, size>>
vars == <<filevars, pc, callvars, sector_num, out, decompbuf, inpos, counter, ret, ops, lost>>

Stale     == -1
Byte(p)   == 2 * p
Other(p)  == 2 * p + 1

least(a, b) == IF a < b THEN a ELSE b

block_size  == BlockSize[format]
total_block == (total_bytes + block_size - 1) \div block_size
max_sector  == total_bytes \div block_size - 1

(* Block n, counted from 0. *)
First(n)  == n * block_size
Length(n) == least(block_size, total_bytes - First(n))
Content(n) == [k \in 1 .. Length(n) |-> image[First(n) + k - 1]]

Init ==
  /\ format \in Formats /\ total_bytes \in Lengths
  /\ align \in IF format = "cso" THEN Aligns ELSE {0}
  /\ index = <<>> /\ body = <<>> /\ ftell = HeadLen
  /\ image = [p \in 0 .. total_bytes - 1 |-> Byte(p)]
  /\ pc = "make" /\ op = "make" /\ pos = 0 /\ size = 0 /\ sector_num = 0 /\ out = <<>>
  /\ decompbuf = [k \in 0 .. 2 * block_size - 1 |-> Stale]
  /\ inpos = 0 /\ counter = 0 /\ ret = 0 /\ ops = 0 /\ lost = {}

-----------------------------------------------------------------------------
Aligned_Down(p) == (p \div 2^align) * 2^align

Aligned(p) == ((p + 2^align - 1) \div 2^align) * 2^align

(* A block that does not get smaller than the limit is stored as it is.    *)
StoredLength(compsize, len, plain) == IF plain THEN len ELSE compsize

MakeBlock ==
  /\ pc = "make" /\ Len(index) < total_block
  /\ \E compsize \in 1 .. block_size + 1 :
       LET n      == Len(index)
           plain  == format = "cso" /\ compsize > Limit
           length == StoredLength(compsize, Length(n), plain)
       IN /\ index' = Append(index, [at |-> ftell, plain |-> plain])
          /\ body' = [a \in DOMAIN body \cup {ftell} |->
                        IF a = ftell THEN [data |-> Content(n), length |-> length] ELSE body[a]]
          /\ ftell' = Aligned(ftell + length)
  /\ UNCHANGED <<format, total_bytes, align, image, pc, callvars, sector_num, out, decompbuf,
                 inpos, counter, ret, ops, lost>>

WriteIndex ==
  /\ pc = "make" /\ Len(index) = total_block
  /\ index' = Append(index, [at |-> ftell, plain |-> FALSE])
  /\ pc' = "idle"
  /\ UNCHANGED <<format, total_bytes, align, body, ftell, image, callvars, sector_num, out,
                 decompbuf, inpos, counter, ret, ops, lost>>

-----------------------------------------------------------------------------
now_pos(n)  == index[n + 1].at
next_pos(n) == index[n + 2].at
Space(n)    == next_pos(n) - now_pos(n)
Plain(n)    == index[n + 1].plain
Data(n)     == body[now_pos(n)].data

Return(code) == pc' = "idle" /\ ret' = code

Begin(call) ==
  /\ pc = "idle" /\ ops < MaxOps
  /\ ops' = ops + 1 /\ op' = call /\ out' = <<>>

start_sec == pos \div block_size
end_of(p, s) == (p + s - 1) \div block_size

(* Returns ERR_SEEK for what begins behind the last whole block.           *)
Read ==
  /\ Begin("read")
  /\ \E p, s \in 0 .. total_bytes + 1 :
       /\ s # 0 /\ pos' = p
       /\ size' = IF p + s > total_bytes THEN total_bytes - p ELSE s
       /\ sector_num' = p \div block_size
  /\ IF sector_num' > max_sector
     THEN ret' = -1 /\ UNCHANGED pc
     ELSE ret' = 0 /\ pc' = "read"
  /\ UNCHANGED <<filevars, decompbuf, inpos, counter, lost>>

end_sec == IF op = "read" THEN least(end_of(pos, size), max_sector) ELSE end_of(pos, size)

(* Of the block at hand, the part that is wanted.                          *)
start_pos == IF sector_num = start_sec THEN pos - First(start_sec) ELSE 0

end_pos_Block == block_size

end_pos == IF sector_num = end_sec THEN pos + size - First(end_sec) ELSE block_size

(* A block that is shorter than the buffer leaves the rest of it alone.    *)
Loaded(data) ==
  [k \in DOMAIN decompbuf |-> IF k < Len(data) THEN data[k + 1] ELSE decompbuf[k]]

NextSector ==
  /\ sector_num' = sector_num + 1
  /\ pc' = IF sector_num = end_sec THEN "idle" ELSE pc

ReadBlock ==
  /\ pc = "read"
  /\ decompbuf' = Loaded(Data(sector_num))
  /\ out' = out \o [k \in 1 .. end_pos - start_pos |-> decompbuf'[start_pos + k - 1]]
  /\ ret' = ret + (end_pos - start_pos)
  /\ NextSector
  /\ UNCHANGED <<filevars, callvars, inpos, counter, ops, lost>>

-----------------------------------------------------------------------------
Write ==
  /\ format = "cso" /\ Begin("write")
  /\ \E p, s \in 0 .. total_bytes :
       /\ s # 0 /\ p + s <= total_bytes
       /\ pos' = p /\ size' = s /\ sector_num' = p \div block_size
  /\ ret' = 0 /\ pc' = "write"
  /\ UNCHANGED <<filevars, decompbuf, inpos, counter, lost>>

IsEdge == sector_num \in {start_sec, end_sec}

(* Behind the last whole block cso_read_fp refuses, which nobody notices.  *)
Under_Nothing == decompbuf

Under == IF IsEdge /\ sector_num <= max_sector THEN Loaded(Data(sector_num)) ELSE decompbuf

Patched ==
  [k \in DOMAIN decompbuf |->
     IF start_pos <= k /\ k < end_pos THEN Other(First(sector_num) + k) ELSE Under[k]]

BlockOf(buffer, n) == [k \in 1 .. n |-> buffer[k - 1]]

(* Of the block at hand, the bytes of the image, and those the call is for. *)
Here   == {p \in DOMAIN image : First(sector_num) <= p /\ p < First(sector_num + 1)}
Wanted == {p \in Here : pos <= p /\ p < pos + size}

(* What data does not reach is lost, and what was around the bytes wanted  *)
(* where it has not been read.                                             *)
LostBy(data) ==
  {p \in Here : p >= First(sector_num) + Len(data)}
  \cup (IF sector_num > max_sector THEN Here \ Wanted ELSE {})

Store(data) ==
  /\ body' = [body EXCEPT ![now_pos(sector_num)].data = data]
  /\ image' = [p \in DOMAIN image |-> IF p \in Wanted THEN Other(p) ELSE image[p]]
  /\ lost' = (lost \ Wanted) \cup LostBy(data)
  /\ ret' = ret + (end_pos - start_pos)
  /\ NextSector
  /\ UNCHANGED <<format, total_bytes, align, index, ftell>>

WritePlain ==
  /\ pc = "write" /\ Plain(sector_num)
  /\ decompbuf' = Patched
  /\ Store(BlockOf(Patched, least(block_size, Space(sector_num))))
  /\ UNCHANGED <<callvars, out, inpos, counter, ops>>

(* deflate gets a buffer of block_size and is not asked whether it ended:  *)
(* of a block that is longer than that, inflate makes no more than a part. *)
WriteDeflated ==
  /\ pc = "write" /\ ~Plain(sector_num)
  /\ decompbuf' = Patched
  /\ \E compsize \in 1 .. block_size + 1 :
       /\ least(compsize, block_size) <= Space(sector_num)
       /\ \E taken \in IF compsize > block_size THEN 0 .. block_size - 1 ELSE {block_size} :
            Store(BlockOf(Patched, taken))
  /\ UNCHANGED <<callvars, out, inpos, counter, ops>>

(* ERR_DEFLATE_SIZE: what is written before stays.  With auto_deflate_cso  *)
(* the ninth level is tried and thrown away.                               *)
WriteTooLong ==
  /\ pc = "write" /\ ~Plain(sector_num)
  /\ decompbuf' = Patched
  /\ Return(-1)
  /\ UNCHANGED <<filevars, callvars, sector_num, out, inpos, counter, ops, lost>>

-----------------------------------------------------------------------------
Unpack ==
  /\ Begin("unpack")
  /\ sector_num' = 0 /\ inpos' = HeadLen /\ counter' = HeadLen
  /\ ret' = 0 /\ pc' = "unpack"
  /\ UNCHANGED <<filevars, pos, size, decompbuf, lost>>

(* xenociso: "((next & 0x7fffffff) << align) - index": the index is not    *)
(* shifted; and what is skipped is not counted.                            *)
Taken ==
  next_pos(sector_num) - (IF format = "cso" THEN now_pos(sector_num) \div 2^align
                                            ELSE now_pos(sector_num))

Skipped ==
  IF format = "cso" /\ now_pos(sector_num) > counter THEN now_pos(sector_num) - counter ELSE 0

OnTrack == inpos + Skipped = now_pos(sector_num) /\ Taken = Space(sector_num)

Advance ==
  /\ inpos' = inpos + Skipped + Taken /\ counter' = counter + Taken
  /\ sector_num' = sector_num + 1
  /\ UNCHANGED <<filevars, pc, callvars, ret, ops, lost>>

(* xenojiso writes a whole block of what lzo has unpacked, even the last.  *)
Unpacked_Whole == block_size

Unpacked == IF format = "lzo" THEN block_size ELSE Len(Data(sector_num))

UnpackBlock ==
  /\ pc = "unpack" /\ sector_num < total_block /\ OnTrack
  /\ decompbuf' = Loaded(Data(sector_num))
  /\ out' = out \o BlockOf(decompbuf', Unpacked)
  /\ Advance

(* Reading in the wrong place: something, or an error of inflate.          *)
UnpackAstray ==
  /\ pc = "unpack" /\ sector_num < total_block /\ ~OnTrack
  /\ out' = Append(out, Stale) /\ Advance
  /\ UNCHANGED decompbuf

UnpackFails ==
  /\ pc = "unpack" /\ sector_num < total_block /\ ~OnTrack
  /\ Return(10)
  /\ UNCHANGED <<filevars, callvars, sector_num, out, decompbuf, inpos, counter, ops, lost>>

UnpackEnd ==
  /\ pc = "unpack" /\ sector_num = total_block
  /\ Return(0)
  /\ UNCHANGED <<filevars, callvars, sector_num, out, decompbuf, inpos, counter, ops, lost>>

Next ==
  \/ MakeBlock \/ WriteIndex
  \/ Read \/ ReadBlock
  \/ Write \/ WritePlain \/ WriteDeflated \/ WriteTooLong
  \/ Unpack \/ UnpackBlock \/ UnpackAstray \/ UnpackFails \/ UnpackEnd

Spec == Init /\ [][Next]_vars

-----------------------------------------------------------------------------
Done(call, code) == pc = "idle" /\ op = call /\ ret = code

(* Types; every block has the space that is stored in it, where its index  *)
(* can say so.                                                             *)
TypeOK ==
  /\ pc \in {"make", "idle", "read", "write", "unpack"}
  /\ op \in {"make", "read", "write", "unpack"} /\ ret \in Int /\ ops \in 0 .. MaxOps
  /\ \A n \in DOMAIN index : index[n].at % 2^align = 0
  /\ pc # "make" =>
       \A n \in 0 .. total_block - 1 : body[now_pos(n)].length <= Space(n)

(***************************************************************************)
(* A read that ends within the whole blocks returns its length, and        *)
(* delivers what is at its place in the image, whichever blocks are        *)
(* compressed and were written to since by calls that may have failed, but *)
(* for the bytes that a write has lost, of which nothing is said.          *)
(***************************************************************************)
ReadsTrue ==
  /\ pc = "idle" /\ op = "read" /\ ret >= 0
  /\ pos + size <= First(max_sector + 1)
  => /\ ret = size /\ Len(out) = size
     /\ \A k \in 1 .. size : pos + k - 1 \notin lost => out[k] = image[pos + k - 1]

Written(n) == \E p \in First(n) .. First(n) + Length(n) - 1 : image[p] = Other(p)

(***************************************************************************)
(* After any part of any writes, each byte of the image is stored in its   *)
(* block: where a write was to change it, as the write has it, and         *)
(* elsewhere as it was; and a write that does not fail has had its turn at *)
(* all it was to change.  But bytes may be lost, and only in a block that  *)
(* was written to: those deflate had no room for, which cso_write_fp does  *)
(* not notice and returns its length all the same, and all that the write  *)
(* did not bring in a last block that is not whole, which is read before   *)
(* it is written, but without looking at the result.                       *)
(***************************************************************************)
BlocksTrue ==
  /\ pc # "make" =>
       \A n \in 0 .. total_block - 1, k \in 1 .. block_size :
         k <= Length(n) =>
           IF First(n) + k - 1 \in lost
           THEN Written(n)
           ELSE k <= Len(Data(n)) /\ Data(n)[k] = image[First(n) + k - 1]
  /\ pc = "idle" /\ op = "write" /\ ret >= 0 =>
       ret = size /\ \A p \in pos .. pos + size - 1 : image[p] = Other(p)

TailAsMade == \A n \in max_sector + 1 .. total_block - 1 : Len(Data(n)) = Length(n)

(***************************************************************************)
(* An image made without alignment, of whose whole blocks no byte is lost, *)
(* is unpacked to itself, to whole blocks by lzo; the last block in part   *)
(* too, unless a write has made it whole.                                  *)
(***************************************************************************)
Unpacks ==
  Done("unpack", 0) /\ align = 0 /\ (\A p \in lost : p >= First(max_sector + 1)) =>
    /\ TailAsMade => Len(out) = IF format = "lzo" THEN First(total_block) ELSE total_bytes
    /\ \A p \in 0 .. First(max_sector + 1) - 1 : out[p + 1] = image[p]

=============================================================================
