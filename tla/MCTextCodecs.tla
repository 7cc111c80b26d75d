---------------------------- MODULE MCTextCodecs ----------------------------
(* Every short text of the bytes at the ends of their range and of one     *)
(* with mixed bits, and of all five bytes of the small Base85.             *)
EXTENDS TextCodecs

CONSTANTS TextSize, TextSize85, UnitSize, SaveSize

MCTexts == BoundedSeq(Byte, TextSize)

MCTexts85 == BoundedSeq(0 .. Values - 1, TextSize85)

(* A group of each, or two of the small ones; multiples of what is written       *)
(* before the length is compared.                                          *)
MCLine == [base64 |-> 4, base32 |-> 8, base16 |-> 4, uuxx |-> 4,
           base85 |-> 4, base85rfc |-> 4, base91 |-> 4]

(* Characters at the ends of what takes one, two or three bytes, and       *)
(* surrogates of the first and the last planes, alone or in pairs, and     *)
(* characters that are taken for them, or are just below those.            *)
MCUnits == BoundedSeq({1, 127, 128, 2047, 2048, 55295, 55296, 56255, 56256, 56320, 57343,
                       63487, 63488, 64512, 65535},
                      UnitSize)

(* One letter is enough to tell a string from the next.                    *)
MCStrings == {[i \in DOMAIN lens |-> [k \in 1 .. lens[i] |-> i]] : lens \in BoundedSeq(0 .. 4, 4)}

MCNumbers == 1 .. 100

MCSaves == BoundedSeq({0, 255}, SaveSize)

MCHeadLen == [ducmax |-> 3, ducme |-> 2, cfs |-> 1]

=============================================================================
