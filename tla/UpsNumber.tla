------------------------------ MODULE UpsNumber -----------------------------
(***************************************************************************)
(* encnum and decnum of applet/xenoups.c: a number as digits of a few bits *)
(* each, least significant first, every digit after the first standing for *)
(* one more than it says, so that no number has two spellings.             *)
(*                                                                         *)
(* decnum adds ((x & 0x7f) + f) << shift to a u64, but computes it in int: *)
(* a digit that reaches the sign bit overflows (the build wraps) and is    *)
(* sign extended.                                                          *)
(***************************************************************************)
EXTENDS Integers, Sequences, FiniteSetsExt

CONSTANTS
  DigitBits,        \* 7
  IntBits,          \* 32: width of int and of the sizes encoded
  LongBits          \* 64: width of the result

Base == 2 ^ DigitBits

(* That Base is a number above 1 follows, but not for the provers.         *)
WidthAssumption == /\ DigitBits \in Nat \ {0}
                   /\ IntBits \in Nat \ {0} /\ LongBits \in Nat
                   /\ DigitBits < IntBits /\ IntBits <= LongBits
                   /\ Base \in Nat \ {0, 1}

(* The last digit carries the 0x80 bit; f is 1 from the second digit on.   *)
encnum(number) ==
  LET digits[num \in Nat, f \in 0 .. 1] ==
        LET rest == (num - f) \div Base
        IN <<(num - f) % Base>> \o IF rest = 0 THEN <<>> ELSE digits[rest, 1]
  IN digits[number, 0]

(* An int of so many bits, as the u64 it is converted to.                  *)
Wrapped(v) ==
  LET w == v % 2 ^ IntBits
  IN IF w < 2 ^ (IntBits - 1) THEN w ELSE w + 2 ^ LongBits - 2 ^ IntBits

Term_Plain(digit, k) == digit * 2 ^ (DigitBits * (k - 1))

(* ((x & 0x7f) + f) << shift *)
Term(digit, k) == (digit + IF k = 1 THEN 0 ELSE 1) * 2 ^ (DigitBits * (k - 1))

decnum(digits) ==
  LET summand(k) == Wrapped(Term(digits[k], k))
  IN MapThenSumSet(summand, DOMAIN digits) % 2 ^ LongBits

Rest_Plain(n) == n \div Base

(* How many bytes a number takes; each further digit stands for one more   *)
(* than it says.                                                           *)
Rest(n) == n \div Base - 1

NumberBytes(n) ==
  LET bytes[m \in Nat] == IF m < Base THEN 1 ELSE 1 + bytes[Rest(m)] IN bytes[n]

=============================================================================
