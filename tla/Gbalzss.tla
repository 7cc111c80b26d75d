------------------------------- MODULE Gbalzss ------------------------------
(***************************************************************************)
(* lib/gbalzss.c: LZSS for the GBA, over a ring buffer whose strings are   *)
(* kept in binary search trees, one for each first byte.  The encoder and  *)
(* then the decoder run over one text; a loop iteration is a step, a code  *)
(* is a byte or a pair, and how flags gather eight of them is left out.    *)
(***************************************************************************)
EXTENDS Integers, Sequences, SequencesExt

CONSTANTS
  N,                \* 4096: size of the ring, a power of two
  F,                \* 18: longest match
  THRESHOLD,        \* 2: longest match that is not worth a pair
  Bytes,            \* number of byte values
  SizeModulus,      \* 2^24: what the header holds of a size
  TextSize          \* length of the longest input

ASSUME RingAssumption ==
  /\ N \in Nat /\ F \in Nat \ {0} /\ THRESHOLD \in Nat /\ Bytes \in Nat \ {0}
  /\ F <= N \div 2 /\ THRESHOLD < F /\ SizeModulus \in Nat \ {0}
  /\ TextSize \in Nat

VARIABLES
  infile, next,     \* input of the encoder, and where it reads
  VRAMSafe,         \* pairs must not reach the byte before
  pc,
  text_buf,         \* the ring, and again its first F - 1 cells
  lson, rson, dad,  \* the trees
  len, s, r,        \* of the text ahead; where it is read to; where it begins
  p, cmp,           \* InsertNode's place in a tree, and the last comparison
  match_position, match_length,
  i,                \* positions of the last code that are still to be passed
  codes,            \* output of the encoder
  window, at,       \* the ring of the decoder, and its place in it
  read, k,          \* the code it is at, the bytes of a pair that are copied
  outfile           \* its output

filevars  == <<infile, VRAMSafe>>
treevars  == <<lson, rson, dad>>
placevars == <<len, s, r, next>>
walkvars  == <<p, cmp, match_position, match_length>>
encvars   == <<text_buf, treevars, placevars, walkvars, i, codes>>
decvars   == <<window, at, read, k, outfile>>
vars      == <<filevars, pc, encvars, decvars>>

NIL == N

Node == 0 .. N - 1

Byte == 0 .. Bytes - 1

Texts == BoundedSeq(Byte, TextSize)

Fill == Bytes - 1

Ring(n) == n % N

least(a, b) == IF a <= b THEN a ELSE b

(* Trees that are empty; the ring is filled up to where the text begins,   *)
(* and has behind it what a call before has left there.                    *)
Init ==
  /\ infile \in Texts /\ VRAMSafe \in BOOLEAN
  /\ len = least(F, Len(infile)) /\ next = len + 1
  /\ s = 0 /\ r = N - F
  /\ \E stale \in Byte :
       /\ text_buf = [x \in 0 .. N + F - 2 |->
                        IF x \in r .. r + len - 1 THEN infile[x - r + 1]
                        ELSE IF x >= r THEN stale ELSE Fill]
       /\ window = [x \in Node |-> IF x >= r THEN stale ELSE Fill]
  /\ lson = [x \in 0 .. N |-> NIL]
  /\ rson = [x \in 0 .. N + Bytes |-> NIL]
  /\ dad  = [x \in 0 .. N |-> NIL]
  /\ p = NIL /\ cmp = 1 /\ match_position = 0 /\ match_length = 0
  /\ i = 0 /\ codes = <<>>
  /\ pc = IF len = 0 THEN "decode" ELSE "begin"
  /\ at = N - F
  /\ read = 1 /\ k = 0 /\ outfile = <<>>

-----------------------------------------------------------------------------
Root(byte) == N + 1 + byte

(***************************************************************************)
(* InsertNode(r): the string at r goes down its tree, and what it is       *)
(* compared with on the way gives the match.                               *)
(***************************************************************************)
BeginInsert(buf, place) ==
  /\ p' = Root(buf[place]) /\ cmp' = 1
  /\ match_length' = 0 /\ UNCHANGED match_position

NoSons == /\ lson' = [lson EXCEPT ![r] = NIL]
          /\ rson' = [rson EXCEPT ![r] = NIL]

Begin ==
  /\ pc = "begin"
  /\ BeginInsert(text_buf, r) /\ NoSons
  /\ pc' = "insert"
  /\ UNCHANGED <<filevars, text_buf, dad, placevars, i, codes, decvars>>

Right == cmp >= 0

son == IF Right THEN rson[p] ELSE lson[p]

Attach ==
  /\ pc = "insert" /\ son = NIL
  /\ IF Right THEN rson' = [rson EXCEPT ![p] = r] /\ UNCHANGED lson
              ELSE lson' = [lson EXCEPT ![p] = r] /\ UNCHANGED rson
  /\ dad' = [dad EXCEPT ![r] = p]
  /\ pc' = "pass"
  /\ UNCHANGED <<filevars, text_buf, placevars, walkvars, i, codes, decvars>>

(* Where the strings at r and q differ first. *)
Common(q) ==
  LET differing == {n \in 1 .. F - 1 : text_buf[r + n] # text_buf[q + n]}
  IN IF differing = {} THEN F ELSE CHOOSE n \in differing : \A m \in differing : n <= m

Allowed_Any(q) == TRUE

Allowed(q) == ~(VRAMSafe /\ Ring(r - q) <= 1)

Better(q) == Common(q) > match_length /\ Allowed(q)

(***************************************************************************)
(* A node in the place of another, below its father; the sons of the one   *)
(* it replaces have gone before.                                           *)
(***************************************************************************)
Tree == [l |-> lson, r |-> rson, d |-> dad]

InPlace(t, q, old) ==
  LET father == t.d[old]
      under  == [t EXCEPT !.d[q] = father, !.d[old] = NIL]
  IN IF t.r[father] = old THEN [under EXCEPT !.r[father] = q]
                          ELSE [under EXCEPT !.l[father] = q]

WithSons(t, q, left, right) ==
  [t EXCEPT !.l[q] = left, !.r[q] = right, !.d[left] = q, !.d[right] = q]

SetTree(t) == lson' = t.l /\ rson' = t.r /\ dad' = t.d

Descend ==
  /\ pc = "insert" /\ son # NIL
  /\ p' = son
  /\ cmp' = IF Common(son) = F THEN 0
            ELSE text_buf[r + Common(son)] - text_buf[son + Common(son)]
  /\ IF Better(son) THEN match_position' = son /\ match_length' = Common(son)
                    ELSE UNCHANGED <<match_position, match_length>>
  /\ IF Better(son) /\ Common(son) = F
     THEN SetTree(InPlace(WithSons(Tree, r, lson[son], rson[son]), r, son)) /\ pc' = "pass"
     ELSE UNCHANGED <<treevars, pc>>
  /\ UNCHANGED <<filevars, text_buf, placevars, i, codes, decvars>>

-----------------------------------------------------------------------------
Longest == least(match_length, len)

Emit ==
  /\ pc = "pass" /\ i = 0 /\ len > 0
  /\ IF Longest <= THRESHOLD
     THEN /\ codes' = Append(codes, [pair |-> FALSE, byte |-> text_buf[r]])
          /\ i' = 1
     ELSE /\ codes' = Append(codes, [pair |-> TRUE, length |-> Longest,
                                     disp |-> Ring(r - match_position - 1)])
          /\ i' = Longest
  /\ UNCHANGED <<filevars, pc, text_buf, treevars, placevars, walkvars, decvars>>

(* DeleteNode *)
Rightmost(q) ==
  LET last[x \in Node] == IF rson[x] = NIL THEN x ELSE last[rson[x]] IN last[q]

Heir_Left == lson[s]

Heir == IF rson[s] = NIL THEN lson[s]
        ELSE IF lson[s] = NIL THEN rson[s] ELSE Rightmost(lson[s])

Detached(t, q) ==
  IF q = t.l[s] THEN [t EXCEPT !.r[q] = t.r[s], !.d[t.r[s]] = q]
  ELSE WithSons([t EXCEPT !.r[t.d[q]] = t.l[q], !.d[t.l[q]] = t.d[q]], q, t.l[s], t.r[s])

DeleteNode ==
  IF dad[s] = NIL THEN Tree
  ELSE InPlace(IF lson[s] = NIL \/ rson[s] = NIL THEN Tree ELSE Detached(Tree, Heir), Heir, s)

Copies_None(cell) == {cell}

Copies(cell) == IF cell < F - 1 THEN {cell, cell + N} ELSE {cell}

(***************************************************************************)
(* One position of the last code is passed: the oldest string is deleted,  *)
(* its first byte overwritten by the next of the input, if there is one,   *)
(* and the string that begins one further is inserted, if it is not empty. *)
(***************************************************************************)
Cell(c) == [x \in DOMAIN text_buf |-> IF x \in Copies(s) THEN c ELSE text_buf[x]]

Pass ==
  LET more == next <= Len(infile)
      buf  == IF more THEN Cell(infile[next]) ELSE text_buf
      to   == Ring(r + 1)
      t    == DeleteNode
  IN /\ pc = "pass" /\ i > 0
     /\ i' = i - 1
     /\ text_buf' = buf
     /\ s' = Ring(s + 1) /\ r' = to
     /\ IF more THEN next' = next + 1 /\ UNCHANGED len
                ELSE len' = len - 1 /\ UNCHANGED next
     /\ IF len' > 0
        THEN /\ pc' = "insert" /\ BeginInsert(buf, to)
             /\ SetTree([t EXCEPT !.l[to] = NIL, !.r[to] = NIL])
        ELSE /\ SetTree(t) /\ UNCHANGED <<pc, walkvars>>
     /\ UNCHANGED <<filevars, codes, decvars>>

Finish ==
  /\ pc = "pass" /\ i = 0 /\ len = 0
  /\ pc' = "decode"
  /\ UNCHANGED <<filevars, encvars, decvars>>

-----------------------------------------------------------------------------
(* What the header says; bytes of the padding are not written. *)
decomp_size == Len(infile) % SizeModulus

WriteByte(c) ==
  /\ outfile' = IF Len(outfile) < decomp_size THEN Append(outfile, c) ELSE outfile
  /\ window' = [window EXCEPT ![at] = c]
  /\ at' = Ring(at + 1)

DecodeByte ==
  /\ pc = "decode" /\ read <= Len(codes) /\ ~codes[read].pair
  /\ WriteByte(codes[read].byte)
  /\ read' = read + 1
  /\ UNCHANGED <<filevars, pc, encvars, k>>

CopyByte ==
  /\ pc = "decode" /\ read <= Len(codes) /\ codes[read].pair
  /\ WriteByte(window[Ring(at - codes[read].disp - 1)])
  /\ IF k + 1 = codes[read].length THEN k' = 0 /\ read' = read + 1
                                   ELSE k' = k + 1 /\ UNCHANGED read
  /\ UNCHANGED <<filevars, pc, encvars>>

Next == \/ Begin \/ Attach \/ Descend \/ Emit \/ Pass \/ Finish
        \/ DecodeByte \/ CopyByte

Spec == Init /\ [][Next]_vars

-----------------------------------------------------------------------------
(* A pair the hardware can write halfwords from never copies the last byte. *)
HalfwordSafe ==
  \A n \in DOMAIN codes : VRAMSafe /\ codes[n].pair => codes[n].disp >= 1

(***************************************************************************)
(* What is decoded is the input, from its start on and to its end, as far  *)
(* as the header can tell where that is; in the VRAM safe mode, it is for  *)
(* hardware that writes halfwords, too.                                    *)
(***************************************************************************)
Decodes ==
  /\ outfile = SubSeq(infile, 1, Len(outfile))
  /\ pc = "decode" /\ read = Len(codes) + 1 => Len(outfile) = decomp_size
  /\ HalfwordSafe

(* How many strings before the one at r the ring still holds. *)
Held == least(next - 1 - len, N - F)

(***************************************************************************)
(* The match the trees give is the longest there is, although a string may *)
(* have replaced an equal one and nodes are deleted all the time.  It need *)
(* not be when pairs are to be VRAM safe: a node that must not be used     *)
(* decides where the search goes all the same.                             *)
(***************************************************************************)
FindsLongest ==
  pc = "pass" /\ i = 0 /\ len > 0 /\ ~VRAMSafe =>
    \A d \in 1 .. Held : LET q == Ring(r - d)
                          IN text_buf[q] = text_buf[r] => match_length >= Common(q)

(***************************************************************************)
(* Between two insertions the nodes are strings the ring holds, each is a  *)
(* son of its father, in the tree of its first byte, and what is left of a *)
(* node is no greater, what is right of it no smaller than the node.       *)
(***************************************************************************)
InTree == {x \in Node : dad[x] # NIL}

Above(x) ==
  LET up[n \in 0 .. N] ==
        IF n = 0 THEN {x}
        ELSE LET before == up[n - 1] IN before \cup {dad[q] : q \in before \cap InTree}
  IN up[N]

Smaller(x, y) ==
  \E n \in 0 .. F - 1 : text_buf[x + n] < text_buf[y + n]
                        /\ \A m \in 0 .. n - 1 : text_buf[x + m] = text_buf[y + m]

TreesSound ==
  pc = "pass" =>
    /\ InTree \subseteq {Ring(r - d) : d \in 0 .. Held}
    /\ \A y \in InTree :
         /\ y = rson[dad[y]] \/ (dad[y] < N /\ y = lson[dad[y]])
         /\ Root(text_buf[y]) \in Above(y)
         /\ \A x \in (InTree \cap Above(y)) \ {y} :
              /\ lson[x] \in Above(y) => ~Smaller(x, y)
              /\ rson[x] \in Above(y) => ~Smaller(y, x)

=============================================================================
