----------------------------- MODULE IpsFormat -----------------------------
(***************************************************************************)
(* The IPS patch file shared by the maker and the patcher of xenoips.c.    *)
(*                                                                         *)
(* The file is kept as the sequence of its records, each with the byte     *)
(* offset at which it starts, and its length in bytes.  Any byte string    *)
(* that starts with "PATCH" decodes into records in exactly one way, the   *)
(* last one possibly cut short by the end of the file, so nothing is lost. *)
(* The five bytes of "PATCH", the widths of the fields (3-byte address,    *)
(* 2-byte size, 1 fill byte) and the offsets are those of the code; only   *)
(* the ranges of the values are constants.                                 *)
(***************************************************************************)
EXTENDS Integers, Sequences

CONSTANTS
  Byte,             \* values of a byte (unsigned char)
  Indeterminate,    \* a byte of malloc'ed memory nobody has written
  EofAddress,       \* 0x454f46: the trailer "EOF" read as an address
  ChunkMax,         \* 65535: largest size a 2-byte field holds
  FileLimit         \* 0x1000000: largest file a 3-byte address reaches

ASSUME ChunkMaxAssumption      == ChunkMax \in Nat \ {0}
ASSUME FileLimitAssumption     == FileLimit \in Nat \ {0}
ASSUME EofAddressAssumption    == EofAddress \in Nat
ASSUME IndeterminateAssumption == Indeterminate \notin Byte

VARIABLES
  ips,              \* records of the patch file, the trailer "EOF" included
  sizips            \* bytes of the patch file

ipsvars == <<ips, sizips>>

least(a, b)    == IF a <= b THEN a ELSE b
greatest(a, b) == IF a >= b THEN a ELSE b

Positions(n) == 0 .. n - 1
Buffer(n)    == [Positions(n) -> Byte]

(***************************************************************************)
(* A record: where it starts in the patch file, the address and number of  *)
(* bytes it sets, and the bytes themselves: one for a fill.                *)
(***************************************************************************)
Record == [at : Nat, address : Nat, size : Nat, fill : BOOLEAN,
           data : UNION {Buffer(n) : n \in 0 .. ChunkMax}]

RecordBytes(r) == IF r.fill THEN 8 ELSE 5 + r.size

Covers(r, x) == r.address <= x /\ x < r.address + r.size

ByteOf(r, x) == IF r.fill THEN r.data[0] ELSE r.data[x - r.address]

(***************************************************************************)
(* The trailer is three bytes that read as an address; the file ends there *)
(* so the fields behind the address are never read.                        *)
(***************************************************************************)
Trailer(at) == [at |-> at, address |-> EofAddress, size |-> 0, fill |-> TRUE,
                data |-> <<>>]

=============================================================================
