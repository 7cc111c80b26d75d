-------------------------------- MODULE SatCode -----------------------------
(***************************************************************************)
(* applet/satencode.c shuffles the characters of a line, from its two ends *)
(* inwards, from one half of a buffer to the other and back again.         *)
(***************************************************************************)
EXTENDS Integers, Sequences, TLAPS

Half(s) == Len(s) \div 2
Odd(s)  == Len(s) % 2

Shuffled(s) ==
  [k \in 1 .. Len(s) |-> IF k % 2 = 1 THEN s[(k + 1) \div 2]
                                      ELSE s[Len(s) + 1 - k \div 2]]

(* Where the second half of a line comes from. *)
SecondHalf(s, k) == Len(s) - Odd(s) - 2 * (k - Half(s) - Odd(s) - 1)

Unshuffled(s) ==
  [k \in 1 .. Len(s) |-> IF k <= Half(s) THEN s[2 * k - 1]
                         ELSE IF k = Half(s) + 1 /\ Odd(s) = 1 THEN s[Len(s)]
                         ELSE s[SecondHalf(s, k)]]

Encoded(s) == Shuffled(Shuffled(s))

Decoded(s) == Unshuffled(Unshuffled(s))

-----------------------------------------------------------------------------
(* satdecode undoes satencode, for lines of any characters and any length. *)

(* What halving does to even and to odd numbers. *)
LEMMA Halves ==
  ASSUME NEW i \in Int
  PROVE  /\ (2 * i) \div 2 = i /\ (2 * i) % 2 = 0
         /\ (2 * i - 1) % 2 = 1
OBVIOUS

LEMMA Parts ==
  ASSUME NEW n \in Nat
  PROVE  /\ n = 2 * (n \div 2) + (n % 2)
         /\ n \div 2 \in Nat /\ n % 2 \in {0, 1}
OBVIOUS

(* A shuffled line has the places of the line. *)
LEMMA ShuffledType ==
  ASSUME NEW S, NEW s \in Seq(S)
  PROVE  Shuffled(s) \in Seq(S) /\ Len(Shuffled(s)) = Len(s)
<1> DEFINE n == Len(s)
<1>1. n \in Nat
  OBVIOUS
<1>2. ASSUME NEW k \in 1 .. n PROVE Shuffled(s)[k] \in S
  <2>1. k \div 2 \in Nat /\ k = 2 * (k \div 2) + (k % 2) /\ k % 2 \in {0, 1}
    BY <1>1, Parts
  <2>2. CASE k % 2 = 1
    <3>1. k + 1 = 2 * (k \div 2 + 1)
      BY <2>1, <2>2
    <3>2. (k + 1) \div 2 = k \div 2 + 1
      BY <3>1, <2>1, Halves
    <3>3. (k + 1) \div 2 \in 1 .. n
      BY <2>1, <2>2, <3>2, <1>1
    <3> QED
      BY <2>2, <3>3 DEF Shuffled
  <2>3. CASE k % 2 = 0
    <3>1. n + 1 - k \div 2 \in 1 .. n
      BY <2>1, <2>3, <1>1
    <3> QED
      BY <2>3, <3>1 DEF Shuffled
  <2> QED
    BY <2>1, <2>2, <2>3
<1>3. Shuffled(s) \in [1 .. n -> S]
  BY <1>2 DEF Shuffled
<1> QED
  BY <1>1, <1>3

(* One pass back undoes one pass. *)
LEMMA UndoesShuffle ==
  ASSUME NEW S, NEW s \in Seq(S)
  PROVE  Unshuffled(Shuffled(s)) = s
<1> DEFINE t == Shuffled(s)
           n == Len(s)
           h == n \div 2
           o == n % 2
<1>1. n \in Nat /\ h \in Nat /\ o \in {0, 1} /\ n = 2 * h + o
  BY Parts
<1>2. t \in Seq(S) /\ Len(t) = n
  BY ShuffledType
<1>3. Half(t) = h /\ Odd(t) = o
  BY <1>2 DEF Half, Odd
<1>4. ASSUME NEW k \in 1 .. n PROVE Unshuffled(t)[k] = s[k]
  <2>1. CASE k <= h
    <3>1. Unshuffled(t)[k] = t[2 * k - 1]
      BY <1>1, <1>2, <1>3, <2>1 DEF Unshuffled
    <3>2. 2 * k - 1 \in 1 .. n /\ (2 * k - 1) % 2 = 1
      BY <1>1, <2>1, Halves
    <3>3. (2 * k - 1 + 1) \div 2 = k
      <4>1. 2 * k - 1 + 1 = 2 * k
        OBVIOUS
      <4> QED
        BY <4>1, Halves
    <3> QED
      BY <3>1, <3>2, <3>3 DEF Shuffled
  <2>2. CASE k = h + 1 /\ o = 1
    <3>1. Unshuffled(t)[k] = t[n]
      BY <1>1, <1>2, <1>3, <2>2 DEF Unshuffled
    <3>2. (n + 1) \div 2 = k
      <4>1. n + 1 = 2 * k
        BY <1>1, <2>2
      <4> QED
        BY <4>1, Halves
    <3> QED
      BY <1>1, <2>2, <3>1, <3>2 DEF Shuffled
  <2>3. CASE k > h /\ ~(k = h + 1 /\ o = 1)
    <3> DEFINE m == 2 * h + o + 1 - k
    <3>1. Unshuffled(t)[k] = t[SecondHalf(t, k)]
      BY <1>1, <1>2, <1>3, <2>3 DEF Unshuffled
    <3>2. SecondHalf(t, k) = 2 * m
      BY <1>1, <1>2, <1>3 DEF SecondHalf
    <3>3. m \in Int /\ 2 * m \in 1 .. n
      BY <1>1, <2>3
    <3>4. (2 * m) % 2 = 0 /\ (2 * m) \div 2 = m
      BY <3>3, Halves
    <3>5. t[2 * m] = s[n + 1 - m]
      BY <3>3, <3>4 DEF Shuffled
    <3>6. n + 1 - m = k
      BY <1>1
    <3> QED
      BY <3>1, <3>2, <3>5, <3>6
  <2> QED
    BY <1>1, <2>1, <2>2, <2>3
<1>5. Unshuffled(t) = [k \in 1 .. n |-> Unshuffled(t)[k]]
  BY <1>2 DEF Unshuffled
<1>6. s = [k \in 1 .. n |-> s[k]]
  OBVIOUS
<1> QED
  BY <1>4, <1>5, <1>6

(***************************************************************************)
(* Every line that satencode shuffles is restored by satdecode, of even    *)
(* length or odd, empty or of one character.                               *)
(***************************************************************************)
THEOREM SatCodeRoundTrip ==
  ASSUME NEW S, NEW s \in Seq(S)
  PROVE  Decoded(Encoded(s)) = s
<1>1. Shuffled(s) \in Seq(S)
  BY ShuffledType
<1>2. Unshuffled(Shuffled(Shuffled(s))) = Shuffled(s)
  BY <1>1, UndoesShuffle
<1>3. Unshuffled(Shuffled(s)) = s
  BY UndoesShuffle
<1> QED
  BY <1>2, <1>3 DEF Encoded, Decoded

=============================================================================
