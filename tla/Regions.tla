------------------------------- MODULE Regions -----------------------------
(***************************************************************************)
(* The differing regions that the makers of UPS, PPF and WIPS patches scan *)
(* two files for: the same loop in ups-, ppf- and wipsmake, with the gap   *)
(* of equal bytes that ends a region as its only difference.               *)
(***************************************************************************)
EXTENDS Integers

Positions(n) == 0 .. n - 1

least(a, b)    == IF a <= b THEN a ELSE b
greatest(a, b) == IF a >= b THEN a ELSE b

(* memcmp_fast over the next gap bytes, fewer at the end. *)
WindowDiffers(old, new, n, gap, f) ==
  \E x \in f .. f + least(gap, n - f) - 1 : old[x] # new[x]

(* From i on, the next region is address .. final - 1. *)
IsRegion(old, new, n, gap, i, address, final) ==
  /\ i <= address /\ address < final
  /\ \A x \in i .. address - 1 : old[x] = new[x]
  /\ \A x \in address .. final - 1 : WindowDiffers(old, new, n, gap, x)
  /\ ~WindowDiffers(old, new, n, gap, final)
  /\ old[address] # new[address]

NoRegion(old, new, n, i) == \A x \in i .. n - 1 : old[x] = new[x]

(* The bytes start .. start + n - 1 of a file, as a record carries them. *)
Bytes(f, start, n) == [k \in 1 .. n |-> f[start + k - 1]]

=============================================================================
