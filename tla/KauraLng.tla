------------------------------ MODULE KauraLng ------------------------------
(***************************************************************************)
(* kauralngasm and kauralngdis (applet/): the lines of a text become the   *)
(* strings of a language file, behind a header and a table of where each   *)
(* begins, and lines again.  Places are counted in an unsigned short.      *)
(* A pointer of the table is one cell here, with the number it holds.      *)
(***************************************************************************)
EXTENDS Integers, Sequences, SequencesExt

CONSTANTS
  Short,            \* 2^16
  HeaderLen,        \* 0x20
  PointerLen        \* 4

Nothing == 0        \* what buf is filled with; ends a string

offset(strings) == (HeaderLen + PointerLen * Len(strings)) % Short

(* Each string is copied to "next", which then moves behind it and two     *)
(* zeros; its own pointer is written after it, and the header after all.   *)
Place(m, next, string) ==
  [x \in DOMAIN m |-> IF x \in next .. next + Len(string) - 1 THEN string[x - next + 1] ELSE m[x]]

Next_NoZeros(next, string) == (next + Len(string)) % Short

Next(next, string) == (next + Len(string) + 2) % Short

(* charset first, as the array whose first line it was in is used again.   *)
Assembled(strings) ==
  LET start == offset(strings)
      put(st, i) ==
        [buf  |-> [Place(st.buf, st.next, strings[i]) EXCEPT
                     ![HeaderLen + PointerLen * (i - 1)] = st.next - start],
         next |-> Next(st.next, strings[i])]
      empty == [buf |-> [x \in 0 .. 2 * Short |-> Nothing], next |-> start]
      all   == FoldLeft(put, empty, [i \in DOMAIN strings |-> i])
  IN [buf |-> [all.buf EXCEPT ![0] = start, ![1] = Len(strings)], size |-> all.next]

(* What is written is "next" bytes long; buf, read into again, is empty    *)
(* behind them.                                                            *)
Loaded(file) == [x \in DOMAIN file.buf |-> IF x < file.size THEN file.buf[x] ELSE Nothing]

StringAt(m, p) ==
  LET len == CHOOSE n \in 0 .. 2 * Short - p :
               m[p + n] = Nothing /\ \A k \in 0 .. n - 1 : m[p + k] # Nothing
  IN [k \in 1 .. len |-> m[p + k - 1]]

Disassembled(file) ==
  LET m == Loaded(file)
  IN [i \in 1 .. m[1] |-> StringAt(m, m[0] + m[HeaderLen + PointerLen * (i - 1)])]

(* The file that is needed has a length an unsigned short can hold.        *)
Fits(strings) ==
  LET more(n, string) == n + Len(string) + 2
  IN FoldLeft(more, HeaderLen + PointerLen * Len(strings), strings) < Short

=============================================================================
