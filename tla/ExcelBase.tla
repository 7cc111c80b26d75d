------------------------------ MODULE ExcelBase -----------------------------
(***************************************************************************)
(* xenoexcelbase (applet/base.c): numbers to the letters of columns of a   *)
(* sheet, A to Z, AA, AB and so on, and back.  A letter is its place in    *)
(* the alphabet; 0 is "@" and -1 "?", the characters before "A".           *)
(***************************************************************************)
EXTENDS Integers, Sequences, SequencesExt

CONSTANT Alphabet   \* 26

(* The digits of r, the last one first.                                    *)
DigitsOf(r) ==
  LET count == CHOOSE k \in 0 .. r : Alphabet^k > r /\ \A j \in 0 .. k - 1 : Alphabet^j <= r
  IN [j \in 1 .. count |-> (r \div Alphabet^(j - 1)) % Alphabet]

(* Where a letter would be "@" it is the last one, and the next is one     *)
(* less; if there is none, the loop has ended and flg takes it away.       *)
Letter_NoFlg(digit, flg) == digit

Letter(digit, flg) == digit - flg

NumberToLetters(r) ==
  LET put(st, digit) ==
        IF Letter(digit, st.flg) = 0 THEN [xxx |-> Append(st.xxx, Alphabet), flg |-> 1]
        ELSE [xxx |-> Append(st.xxx, Letter(digit, st.flg)), flg |-> 0]
      all == FoldLeft(put, [xxx |-> <<>>, flg |-> 0], DigitsOf(r))
  IN Reverse(IF all.flg = 1 THEN Front(all.xxx) ELSE all.xxx)

(* Other than letters are "illegal format", and no number.                 *)
LettersToNumber(letters) ==
  LET put(r, c) == r * Alphabet + c
  IN IF \A n \in DOMAIN letters : letters[n] \in 1 .. Alphabet
     THEN <<FoldLeft(put, 0, letters)>> ELSE <<>>

(* Below a zero, down to another, all digits are ones: flg is set twice.   *)
BorrowsTwice(r) ==
  LET d == DigitsOf(r)
  IN \E i \in DOMAIN d, j \in DOMAIN d :
       i < j /\ d[i] = 0 /\ d[j] = 0 /\ \A k \in i + 1 .. j - 1 : d[k] = 1

=============================================================================
