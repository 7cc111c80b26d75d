-------------------------------- MODULE Utf8 --------------------------------
(***************************************************************************)
(* ucs2tombs and mbstoucs2 (lib/xutil.c): 16 bit characters, two of them   *)
(* for one above 0xffff, to bytes and back, each into a buffer that is     *)
(* full when neither a character nor the 0 behind it fits.                 *)
(***************************************************************************)
EXTENDS Integers, Sequences, SequencesExt

CONSTANTS
  MbLen,            \* 768: bytes
  UcsLen            \* 256: characters of 16 bits

(* (unit & 0xdc00) == 0xd800 and == 0xdc00: bit 13 is not looked at, so     *)
(* what is 0xf800 or more is taken for a surrogate as well.                *)
HighSurrogate(unit) == unit \div 1024 \in {54, 62}
LowSurrogate(unit)  == unit \div 1024 \in {55, 63}

Low6(bits) == (bits % 64) + 128

(* What 64 is added to may need 11 bits; ten of them are kept.             *)
Pair(high, low) ==
  LET z == (high % 1024) + 64
  IN <<((z \div 256) % 4) + 240, ((z \div 4) % 64) + 128,
       (z % 4) * 16 + (low % 1024) \div 64 + 128, Low6(low)>>

IsPair_High(high, low) == HighSurrogate(high)

IsPair(high, low) == HighSurrogate(high) /\ LowSurrogate(low)

Bytes(unit) ==
  IF unit < 128 THEN <<unit>>
  ELSE IF unit < 2048 THEN <<(unit \div 64) + 192, Low6(unit)>>
  ELSE <<(unit \div 4096) + 224, Low6(unit \div 64), Low6(unit)>>

ucs2tombs(src) ==
  LET at(i) == IF i \in DOMAIN src THEN src[i] ELSE 0
      put(st, i) ==
        LET pair  == IsPair(src[i], at(i + 1))
            bytes == IF pair THEN Pair(src[i], at(i + 1)) ELSE Bytes(src[i])
        IN IF st.second THEN [st EXCEPT !.second = FALSE]
           ELSE IF st.full \/ MbLen - Len(st.dst) < Len(bytes) + 1 THEN [st EXCEPT !.full = TRUE]
           ELSE [st EXCEPT !.dst = @ \o bytes, !.second = pair]
  IN FoldLeft(put, [dst |-> <<>>, second |-> FALSE, full |-> FALSE],
              [i \in DOMAIN src |-> i]).dst

-----------------------------------------------------------------------------
(* The characters that begin at a byte, and how many bytes these take; a   *)
(* byte that begins none ends the text.                                    *)
Surrogates(b) ==
  LET z == (b[1] % 4) * 256 + (b[2] % 64) * 4 + (b[3] % 64) \div 16
  IN <<IF z >= 64 THEN 55296 + z - 64 ELSE 65536 + z - 64,
       56320 + (b[3] % 16) * 64 + (b[4] % 64)>>

Decode(b) ==
  IF b[1] < 128 THEN [dst |-> <<b[1]>>, takes |-> 1]
  ELSE IF b[1] \div 32 = 6  THEN [dst |-> <<(b[1] % 64) * 64 + (b[2] % 64)>>, takes |-> 2]
  ELSE IF b[1] \div 16 = 14
  THEN [dst |-> <<(b[1] % 16) * 4096 + (b[2] % 64) * 64 + (b[3] % 64)>>, takes |-> 3]
  ELSE IF b[1] \div 8 = 30  THEN [dst |-> Surrogates(b), takes |-> 4]
  ELSE [dst |-> <<>>, takes |-> 0]

mbstoucs2(src) ==
  LET at(i) == IF i \in DOMAIN src THEN src[i] ELSE 0
      put(st, i) ==
        LET char == Decode([k \in 1 .. 4 |-> at(i + k - 1)])
        IN IF i # st.i THEN st
           ELSE IF char.takes = 0 \/ UcsLen - Len(st.dst) < 2 THEN [st EXCEPT !.i = 0]
           ELSE [i |-> st.i + char.takes, dst |-> st.dst \o char.dst]
  IN FoldLeft(put, [i |-> 1, dst |-> <<>>], [i \in DOMAIN src |-> i]).dst

(* Characters from 0x100000 on, for which the 11th bit is lost.            *)
LastPlane(text) ==
  \E i \in 1 .. Len(text) - 1 : IsPair(text[i], text[i + 1]) /\ text[i] % 1024 >= 960

(* Two characters that are no pair, and are written as one.                *)
Mistaken(text) ==
  \E i \in 1 .. Len(text) - 1 :
    IsPair(text[i], text[i + 1]) /\ (text[i] >= 57344 \/ text[i + 1] >= 57344)

=============================================================================
