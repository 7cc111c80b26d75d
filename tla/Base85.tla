-------------------------------- MODULE Base85 ------------------------------
(***************************************************************************)
(* applet/xenobase85.c: groups of four bytes are numbers of five digits.   *)
(* The first of its tables leaves room to write a group of spaces as y and *)
(* one of zeros as z.                                                      *)
(***************************************************************************)
EXTENDS Integers, Sequences, SequencesExt

CONSTANTS
  Values,           \* 256 byte values
  Group,            \* 4 bytes
  Radix,            \* 85: Radix ^ (Group + 1) >= Values ^ Group
  Space             \* 0x20

NewLine == -1
Y == -4
Z == -5

(* The unsigned int a group is read into wraps around. *)
Number(n) == n % Values ^ Group

Digits(n) == [k \in 1 .. Group + 1 |-> (n \div Radix ^ (Group + 1 - k)) % Radix]

BytesOf(n) == [k \in 1 .. Group |-> (n \div Values ^ (Group - k)) % Values]

(* A short last group is filled up with zeros. *)
ValueOf(bytes) ==
  LET n[k \in 0 .. Group] ==
        IF k = 0 THEN 0
        ELSE n[k - 1] * Values + (IF k <= Len(bytes) THEN bytes[k] ELSE 0)
  IN n[Group]

Spaces == ValueOf([k \in 1 .. Group |-> Space])

-----------------------------------------------------------------------------
EncodedGroup(bytes, compress) ==
  LET n == ValueOf(bytes)
  IN IF compress /\ n = Spaces THEN <<Y>>
     ELSE IF compress /\ n = 0 THEN <<Z>>
     ELSE SubSeq(Digits(n), 1, Len(bytes) + 1)

Groups(text) ==
  [k \in 1 .. (Len(text) + Group - 1) \div Group |->
     SubSeq(text, (k - 1) * Group + 1, IF k * Group < Len(text) THEN k * Group ELSE Len(text))]

(* PUT *)
Wrapped(chars, line) ==
  LET Put(lines, char) ==
        IF (Len(lines) + 1) % (line + 1) = line THEN lines \o <<char, NewLine>>
                                                ELSE Append(lines, char)
  IN FoldLeft(Put, <<>>, chars)

Encoded(text, compress, line) ==
  Wrapped(FlattenSeq([k \in DOMAIN Groups(text) |-> EncodedGroup(Groups(text)[k], compress)]), line)

-----------------------------------------------------------------------------
(* i digits of a group that have come give i - 1 bytes of n. *)
Flushed(d) == IF d.i = 0 THEN d.out ELSE d.out \o SubSeq(BytesOf(d.n), 1, d.i - 1)

Filler_Zero == 0

Filler == Radix - 1

Filled(d) ==
  LET n[k \in d.i .. Group + 1] == IF k = d.i THEN d.n ELSE Number(n[k - 1] * Radix + Filler)
  IN [d EXCEPT !.n = n[Group + 1]]

Whole(n) == [n |-> n, i |-> Group + 1]

(* A y or z inside of a group ends the program; the second table has them  *)
(* as digits.                                                              *)
DecodeChar(d, char) ==
  IF d.corrupted THEN d
  ELSE IF char \in {Y, Z}
       THEN IF d.i > 0 THEN [d EXCEPT !.corrupted = TRUE]
            ELSE [d EXCEPT !.out = @ \o BytesOf(IF char = Y THEN Spaces ELSE 0)]
  ELSE IF char < 0 THEN d
  ELSE LET got == [d EXCEPT !.n = Number(@ * Radix + char), !.i = @ + 1]
       IN IF got.i = Group + 1 THEN [got EXCEPT !.out = Flushed(got), !.n = 0, !.i = 0]
                               ELSE got

Decoded(chars) ==
  LET d == FoldLeft(DecodeChar, [n |-> 0, i |-> 0, corrupted |-> FALSE, out |-> <<>>], chars)
  IN IF d.corrupted THEN d.out ELSE Flushed(Filled(d))

=============================================================================
