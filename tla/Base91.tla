-------------------------------- MODULE Base91 ------------------------------
(***************************************************************************)
(* applet/xenobase91.c: two digits hold 13 bits, and one more where there  *)
(* is room.  Bits enter a word x from above and leave it from below.       *)
(***************************************************************************)
EXTENDS Integers, Sequences, SequencesExt

NewLine == -1

(* x | c << b, where x has b bits *)
Above(c, b, x) == c * 2 ^ b + x

Spare == 91 * 91 - 2 ^ 13

Bits_Over(low) == IF low > Spare THEN 13 ELSE 14

(* The low 13 bits tell how many there are. *)
Bits(low) == IF low >= Spare THEN 13 ELSE 14

Pair(n) == <<n % 91, n \div 91>>

EncodeByte(e, byte, line) ==
  LET x     == Above(byte, e.b, e.x)
      b     == e.b + 8
      shift == Bits(x % 2 ^ 13)
      break == e.j + 2 = line
  IN IF b <= 13 THEN [e EXCEPT !.x = x, !.b = b]
     ELSE [x |-> x \div 2 ^ shift, b |-> b - shift, j |-> IF break THEN 0 ELSE e.j + 2,
           out |-> e.out \o Pair(x % 2 ^ shift) \o (IF break THEN <<NewLine>> ELSE <<>>)]

Encoded(text, line) ==
  LET Put(e, byte) == EncodeByte(e, byte, line)
      e    == FoldLeft(Put, [x |-> 0, b |-> 0, j |-> 0, out |-> <<>>], text)
      last == IF e.b > 7 \/ e.x >= 91 THEN Pair(e.x)
              ELSE IF e.b > 0 THEN <<e.x % 91>> ELSE <<>>
  IN e.out \o last \o (IF e.j + Len(last) > 0 THEN <<NewLine>> ELSE <<>>)

-----------------------------------------------------------------------------
BytesOf(x, b) == [k \in 1 .. b \div 8 |-> (x \div 2 ^ (8 * (k - 1))) % 256]

(* first: the digit of a pair whose other one is to come *)
DecodeChar(d, char) ==
  IF char < 0 THEN d
  ELSE IF d.first = <<>> THEN [d EXCEPT !.first = <<char>>]
  ELSE LET c == d.first[1] + char * 91
           x == Above(c, d.b, d.x)
           b == d.b + Bits(c % 2 ^ 13)
       IN [first |-> <<>>, x |-> x \div 2 ^ (8 * (b \div 8)), b |-> b % 8,
           out |-> d.out \o BytesOf(x, b)]

Decoded(chars) ==
  LET d == FoldLeft(DecodeChar, [first |-> <<>>, x |-> 0, b |-> 0, out |-> <<>>], chars)
  IN IF d.first = <<>> THEN d.out
     ELSE Append(d.out, Above(d.first[1], d.b, d.x) % 256)

=============================================================================
