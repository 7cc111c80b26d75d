------------------------------ MODULE SaveFiles -----------------------------
(***************************************************************************)
(* savconv (applet/savconv.c): a save game is put between the header and   *)
(* the footer of another device's files, or taken out of them, chunk by    *)
(* chunk.  What a header has in it is left out, but for what is read of it *)
(* again; gzip gives back what it was given.                               *)
(***************************************************************************)
EXTENDS Integers, Sequences, SequencesExt

CONSTANTS
  Page,             \* 4096: saves are multiples of it
  Chunk,            \* BUFLEN, a multiple of Page
  HeadLen,          \* ducmax 500, ducme 164, cfs 154
  FootLen,          \* of dsv: 122
  CopyMax,          \* 0x7f
  RleMax            \* 1 MB

Filler == -3

Fill(n) == [k \in 1 .. n |-> Filler]

Headed == DOMAIN HeadLen

(* ngscopy: a count and as many bytes, and again.                          *)
ngscopy(save) ==
  LET put(out, k) ==
        LET writesize == IF Len(save) - k + 1 < CopyMax THEN Len(save) - k + 1 ELSE CopyMax
        IN IF (k - 1) % CopyMax # 0 THEN Append(out, save[k])
           ELSE out \o <<writesize, save[k]>>
  IN FoldLeft(put, <<>>, [k \in DOMAIN save |-> k])

(* What myRLE returns is not assigned, so that all is copied; a large save *)
(* is stored as it is, behind method 0 and its size.                       *)
EndMark == <<0, Filler, Filler>>

Ngs(save) ==
  IF Len(save) > RleMax THEN <<0, Len(save)>> \o save
  ELSE <<1, Len(save)>> \o ngscopy(save) \o EndMark

Encoded(format, save) ==
  CASE format \in Headed -> Fill(HeadLen[format]) \o save
    [] format = "dsv"    -> save \o Fill(FootLen)
    [] format = "gds"    -> save
    [] format = "ngs"    -> Ngs(save)

-----------------------------------------------------------------------------
(* All that goes beyond whole pages is taken for the header.               *)
Pad_Chunk(size) == size % Chunk

Pad(size) == size % Page

(* A chunk is dropped, and the loop left, when "readlen & pad": the last   *)
(* one always, if there is a pad, and with it all that is in it.           *)
WholeChunks(file) ==
  IF Pad(Len(file)) = 0 THEN file ELSE SubSeq(file, 1, (Len(file) \div Chunk) * Chunk)

(* Copies, repeated bytes in short and in long, up to the end mark.        *)
Repeat(byte, n) == [k \in 1 .. n |-> byte]

LongMark == CopyMax + 1

Unngs(data) ==
  LET byte(st, c) ==
        CASE st.mode = "ended"  -> st
          [] st.mode = "copy"   -> [mode |-> IF st.left = 1 THEN "dict" ELSE "copy",
                                    left |-> st.left - 1, out |-> Append(st.out, c)]
          [] st.mode = "short"  -> [mode |-> "dict", left |-> 0,
                                    out |-> st.out \o Repeat(c, st.left)]
          [] st.mode = "long"   -> [mode |-> "length", left |-> c, out |-> st.out]
          [] st.mode = "length" -> [mode |-> "dict", left |-> 0,
                                    out |-> st.out \o Repeat(st.left, c)]
          [] st.mode = "dict"   ->
               [out |-> st.out, left |-> IF c > LongMark THEN c - LongMark ELSE c,
                mode |-> IF c = 0 THEN "ended" ELSE IF c = LongMark THEN "long"
                         ELSE IF c > LongMark THEN "short" ELSE "copy"]
  IN FoldLeft(byte, [mode |-> "dict", left |-> 0, out |-> <<>>], data).out

Decoded(format, file) ==
  CASE format \in Headed -> SubSeq(file, Pad(Len(file)) + 1, Len(file))
    [] format = "dsv"    -> WholeChunks(file)
    [] format = "gds"    -> file
    [] format = "ngs"    ->
         IF file[1] = 0 THEN SubSeq(file, 3, 2 + file[2]) ELSE Unngs(SubSeq(file, 3, Len(file)))

=============================================================================
