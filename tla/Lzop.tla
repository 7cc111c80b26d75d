-------------------------------- MODULE Lzop --------------------------------
(***************************************************************************)
(* unlzop (applet/unlzop.c): the header and the blocks of a file are read, *)
(* blocks are decompressed by lzo1xy_decompress (lzo1x), and written.  The *)
(* file may have been cut, or one of its fields or bytes changed.          *)
(*                                                                         *)
(* A file is a sequence of fields: flags, numbers, checksums and, each on  *)
(* its own, the bytes of data.  A field is a tuple: of one number, or for  *)
(* a checksum of all that it was made of, so that no two are alike.        *)
(***************************************************************************)
EXTENDS Integers, Sequences, SequencesExt

CONSTANTS
  Originals,        \* files as lzop writes them, and what they are made of
  Damages,          \* what a byte or a field may become
  Noise             \* what is in memory nobody wrote

VARIABLES
  original, damaged,  \* the file it was; the field that was changed, or 0
  file,             \* what is there of it
  pc,
  tell,             \* fields read
  flags, dlen,
  menc, pos,        \* the block, and how much of it is read
  mdec,             \* what is decompressed of it
  c, state,
  out, ret

files == <<original, damaged, file>>
block == <<flags, dlen, menc>>
lzo   == <<pos, mdec, c, state>>
vars  == <<files, pc, tell, block, lzo, out, ret>>

Init ==
  /\ original \in Originals
  /\ \/ damaged = 0 /\ \E n \in 0 .. Len(original.file) : file = SubSeq(original.file, 1, n)
     \/ /\ damaged \in DOMAIN original.file
        /\ \E x \in Damages : file = [original.file EXCEPT ![damaged] = <<x>>]
  /\ pc = "header" /\ tell = 0
  /\ flags = {} /\ dlen = 0 /\ menc = <<>>
  /\ pos = 0 /\ mdec = <<>> /\ c = 0 /\ state = 0
  /\ out = <<>> /\ ret = 0

-----------------------------------------------------------------------------
(* decode_stdin                                                            *)
Return(code) == pc' = "done" /\ ret' = code /\ UNCHANGED <<files, tell, block, lzo, out>>

Number(n) == Head(file[n])

Adler(data) == <<255>> \o data

(* F_ADLER32_D, F_ADLER32_C and F_H_FILTER, as bits of the one field.      *)
FlagsOf(x) == (IF x % 2 = 1 THEN {"D"} ELSE {}) \cup (IF (x \div 2) % 2 = 1 THEN {"C"} ELSE {})
              \cup (IF x >= 4 THEN {"filter"} ELSE {})

(* A filter is refused unless it is one of those lzop does not have, from  *)
(* 17 on; the sum of the header tells all that is wrong with it.           *)
Header ==
  /\ pc = "header"
  /\ IF Len(file) < 1 THEN Return(1)
     ELSE IF "filter" \in FlagsOf(Number(1)) THEN Return(2)
     ELSE IF Len(file) < 2 THEN Return(1)
     ELSE IF file[2] # Adler(file[1]) THEN Return(2)
     ELSE /\ flags' = FlagsOf(Number(1)) /\ tell' = 2 /\ pc' = "block"
          /\ UNCHANGED <<files, dlen, menc, lzo, out, ret>>

(* Where the fields of the block are, as far as its first ones tell.       *)
dlenAt == tell + 1
clenAt == tell + 2
dsumAt == tell + 3
Smaller == Number(dlenAt) > Number(clenAt)
csumAt == IF "D" \in flags THEN tell + 4 ELSE tell + 3

Fields == 2 + (IF "D" \in flags THEN 1 ELSE 0) + (IF Smaller /\ "C" \in flags THEN 1 ELSE 0)

dadler32 == IF "D" \in flags THEN file[dsumAt] ELSE Adler(<<>>)
cadler32 == IF ~Smaller THEN dadler32
            ELSE IF "C" \in flags THEN file[csumAt] ELSE Adler(<<>>)

clen == Number(clenAt)

Data == [n \in 1 .. clen |-> Number(tell + Fields + n)]

There == /\ Len(file) >= clenAt
         /\ Len(file) >= tell + Fields
         /\ Len(file) >= tell + Fields + clen

Ended == Len(file) >= dlenAt /\ Number(dlenAt) = 0

End == pc = "block" /\ Ended /\ Return(0)

EndOfFile == pc = "block" /\ ~Ended /\ ~There /\ Return(1)

Checked_Decompressed == {"C"}

(* Those sums that are compared: of what is decompressed, none any more.   *)
Checked == IF Number(dlenAt) = clen THEN {"C", "D"} ELSE {"C"}

WrongSum ==
  \/ "C" \in flags \cap Checked /\ Adler(Data) # cadler32
  \/ "D" \in flags \cap Checked /\ Adler(Data) # dadler32

Corrupted == pc = "block" /\ ~Ended /\ There /\ WrongSum /\ Return(2)

Write(data) == out' = out \o data /\ pc' = "block"

Stored ==
  /\ pc = "block" /\ ~Ended /\ There /\ ~WrongSum /\ Number(dlenAt) = clen
  /\ Write(Data) /\ tell' = tell + Fields + clen
  /\ UNCHANGED <<files, block, lzo, ret>>

(* As many literals as the first byte says, if it does.                    *)
CanCopy(n, p, dec) == Len(menc) - p >= n /\ dlen - Len(dec) >= n

Copied(n, p, dec) == dec \o SubSeq(menc, p + 1, p + n)

Compressed ==
  /\ pc = "block" /\ ~Ended /\ There /\ ~WrongSum /\ Number(dlenAt) # clen
  /\ dlen' = Number(dlenAt) /\ menc' = Data /\ tell' = tell + Fields + clen
  /\ pos' = 0 /\ mdec' = <<>> /\ c' = 0 /\ state' = 0
  /\ pc' = "first"
  /\ UNCHANGED <<files, flags, out, ret>>

-----------------------------------------------------------------------------
(* lzo1xy_decompress                                                       *)
Fetch(p, dec, st) ==
  IF p >= Len(menc) THEN Return(1)
  ELSE /\ c' = menc[p + 1] /\ pos' = p + 1 /\ mdec' = dec /\ state' = st
       /\ pc' = "loop" /\ UNCHANGED <<files, tell, block, out, ret>>

First ==
  /\ pc = "first"
  /\ IF menc = <<>> THEN Return(-1)
     ELSE LET n == menc[1] - 17
          IN IF n <= 0 THEN Fetch(0, <<>>, 0)
             ELSE IF ~CanCopy(n, 1, <<>>) THEN Return(1)
             ELSE IF 1 + n < Len(menc) /\ menc[2 + n] < 16 THEN Return(1)
             ELSE Fetch(1 + n, Copied(n, 1, <<>>), 0)

(* Numbers too large for their bits are followed by bytes that are added,  *)
(* up to one that is not 0, which is added too.                            *)
NonZero(p) ==
  LET counts(x) == x # 0 IN SelectInSeq(SubSeq(menc, p + 1, Len(menc)), counts)

Long(p, base) == (NonZero(p) - 1) * 255 + menc[p + NonZero(p)] + base

Args(p, n) == p + n <= Len(menc)

(* count + 2 bytes from "back" before the end, each written before the     *)
(* next is read, up to the end of mdec; then up to three literals.         *)
Room(n, dec) == IF n <= dlen - Len(dec) THEN n ELSE dlen - Len(dec)

MatchAfter(count, back, low, p, dec) ==
  IF back > Len(dec) THEN Return(2)
  ELSE LET n       == Room(count + 2, dec)
           matched == dec \o [i \in 1 .. n |-> dec[Len(dec) - back + 1 + ((i - 1) % back)]]
       IN IF ~CanCopy(low, p, matched) THEN Return(1)
          ELSE Fetch(p + low, Copied(low, p, matched), low)

Match(count, back, low, p) == MatchAfter(count, back, low, p, mdec)

Short ==
  /\ pc = "loop" /\ c > 63
  /\ IF ~Args(pos, 1) THEN Return(1)
     ELSE Match((c \div 32) - 1, ((c \div 4) % 8) + (menc[pos + 1] * 8) + 1, c % 4, pos + 1)

Distance(p) == (menc[p + 1] \div 4) + (menc[p + 2] * 64)

Near_OneMore(p) == Distance(p) + 2

Near(p) == Distance(p) + 1

Middle ==
  /\ pc = "loop" /\ c \in 32 .. 63
  /\ IF c % 32 = 0 /\ NonZero(pos) = 0 THEN Return(-1)
     ELSE LET p     == IF c % 32 = 0 THEN pos + NonZero(pos) ELSE pos
              count == IF c % 32 = 0 THEN Long(pos, 31) ELSE c % 32
          IN IF ~Args(p, 2) THEN Return(1)
             ELSE Match(count, Near(p), menc[p + 1] % 4, p + 2)

(* The distance of 2^14 itself ends the block: the rest of pd is written   *)
(* as it is.                                                               *)
Far(p) == 2^14 + (IF (c \div 8) % 2 = 1 THEN 2^14 ELSE 0) + Distance(p)

EndMark == 2^14

Distant ==
  /\ pc = "loop" /\ c \in 16 .. 31
  /\ IF c % 8 = 0 /\ NonZero(pos) = 0 THEN Return(-1)
     ELSE LET p     == IF c % 8 = 0 THEN pos + NonZero(pos) ELSE pos
              count == IF c % 8 = 0 THEN Long(pos, 7) ELSE c % 8
          IN IF ~Args(p, 2) THEN Return(1)
             ELSE IF Far(p) # EndMark THEN Match(count, Far(p), menc[p + 1] % 4, p + 2)
             ELSE IF count # 1 THEN Return(1)
             ELSE /\ Write(mdec \o [i \in 1 .. dlen - Len(mdec) |-> Noise])
                  /\ UNCHANGED <<files, tell, block, lzo, ret>>

Literals ==
  /\ pc = "loop" /\ c <= 15 /\ state = 0
  /\ IF c = 0 /\ NonZero(pos) = 0 THEN Return(-1)
     ELSE LET p == IF c = 0 THEN pos + NonZero(pos) ELSE pos
              n == (IF c = 0 THEN Long(pos, 15) ELSE c) + 3
              q == p + n
          IN IF ~CanCopy(n, p, mdec) THEN Return(1)
             ELSE IF q >= Len(menc) \/ menc[q + 1] > 15 THEN Fetch(q, Copied(n, p, mdec), 0)
             ELSE IF ~Args(q, 2) THEN Return(1)
             ELSE MatchAfter(1, 2^11 + (menc[q + 1] \div 4) + (menc[q + 2] * 4) + 1,
                             menc[q + 1] % 4, q + 2, Copied(n, p, mdec))

Tiny ==
  /\ pc = "loop" /\ c <= 15 /\ state # 0
  /\ IF ~Args(pos, 1) THEN Return(1)
     ELSE Match(0, (c \div 4) + (menc[pos + 1] * 4) + 1, c % 4, pos + 1)

Next == Header \/ End \/ EndOfFile \/ Corrupted \/ Stored \/ Compressed \/ First
        \/ Short \/ Middle \/ Distant \/ Literals \/ Tiny

Spec == Init /\ [][Next]_vars

-----------------------------------------------------------------------------
(***************************************************************************)
(* "Everything is Ok" is said of every file that lzop wrote, and then all  *)
(* that it was made of has been written; but a filter is never accepted,   *)
(* nor a block stored as it is whose only sum is that of compressed data.  *)
(* A cut file is always told.  A changed one may not be if what changed is *)
(* the length of a block, or data for which there is no sum that is        *)
(* compared: of compressed data its own, of stored data the content's.     *)
(***************************************************************************)
Refused == original.filter \/ (original.stored /\ original.onlyC)

Whole == damaged = 0 /\ Len(file) = Len(original.file)

Untold ==
  /\ damaged > 0
  /\ \/ original.kinds[damaged] = "dlen"
     \/ original.kinds[damaged] = "data"
     \/ original.kinds[damaged] = "clen" /\ ~original.sums

OkMeansWhole ==
  pc = "done" =>
    /\ Whole => (ret = 0 <=> ~Refused)
    /\ ret = 0 => out = original.content \/ Untold

=============================================================================
