------------------------------ MODULE BitGroups -----------------------------
(***************************************************************************)
(* base64, base32, base16, uuencode and xxencode (applet/xenobase64.c,     *)
(* xenobase32.c, xenobase16.c, xenouuencode.c, xenoxxencode.c) gather the  *)
(* bits of the bytes in a word x, of which b are not yet written, and cut  *)
(* them into digits.  A character is a number, the value of a digit or one *)
(* of the negative ones below; its letters are left out.                   *)
(***************************************************************************)
EXTENDS Integers, Sequences, SequencesExt

CONSTANT WordBits   \* 32: width of x

NewLine == -1
Equals  == -2
Other   == -3       \* a character that is in no table

(* bits of a digit; digits of a line; characters "=" behind a last group   *)
(* of 1, 2, .. bytes.                                                      *)
Base64(line) == [bits |-> 6, line |-> line, pads |-> <<2, 1>>]
Base32(line) == [bits |-> 5, line |-> line, pads |-> <<6, 4, 3, 1>>]
Base16(line) == [bits |-> 4, line |-> line, pads |-> <<>>]
UUXX(line)   == [bits |-> 6, line |-> line, pads |-> <<>>]

Word(x) == x % 2 ^ WordBits

-----------------------------------------------------------------------------
DigitsOf(base, x, b) ==
  [k \in 1 .. b \div base.bits |-> (x \div 2 ^ (b - k * base.bits)) % 2 ^ base.bits]

Break(base, j) == j = base.line

EncodeByte(base, e, byte) ==
  LET x == Word(e.x * 256 + byte)
      b == e.b + 8
      j == e.j + b \div base.bits
  IN [x |-> x, b |-> b % base.bits, i |-> e.i + 1,
      j |-> IF Break(base, j) THEN 0 ELSE j,
      out |-> e.out \o DigitsOf(base, x, b)
                    \o (IF Break(base, j) THEN <<NewLine>> ELSE <<>>)]

Pads(base, i) ==
  LET left == i % (Len(base.pads) + 1)
  IN [k \in 1 .. IF left = 0 THEN 0 ELSE base.pads[left] |-> Equals]

LastDigit(base, e) ==
  IF e.b = 0 THEN <<>> ELSE <<(e.x * 2 ^ (base.bits - e.b)) % 2 ^ base.bits>>

Encoded(base, text) ==
  LET Put(e, byte) == EncodeByte(base, e, byte)
      e == FoldLeft(Put, [x |-> 0, b |-> 0, i |-> 0, j |-> 0, out |-> <<>>], text)
  IN e.out \o LastDigit(base, e) \o Pads(base, e.i)
           \o (IF e.j + Len(LastDigit(base, e)) > 0 THEN <<NewLine>> ELSE <<>>)

-----------------------------------------------------------------------------
(* What is in no table is passed over, and "=" ends a text that has it.    *)
DecodeChar(base, d, char) ==
  LET x == Word(d.x * 2 ^ base.bits + char)
      b == d.b + base.bits
  IN IF d.ended \/ (char = Equals /\ base.pads # <<>>) THEN [d EXCEPT !.ended = TRUE]
     ELSE IF char < 0 THEN d
     ELSE IF b >= 8 THEN [d EXCEPT !.x = x, !.b = b - 8,
                                   !.out = Append(@, (x \div 2 ^ (b - 8)) % 256)]
     ELSE [d EXCEPT !.x = x, !.b = b]

Decoded(base, chars) ==
  LET Char(d, char) == DecodeChar(base, d, char)
  IN FoldLeft(Char, [x |-> 0, b |-> 0, ended |-> FALSE, out |-> <<>>], chars).out

=============================================================================
