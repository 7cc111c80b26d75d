-------------------------- MODULE MCFlashcartTools --------------------------
(* Drivers with one word of code, one of glue, one of got and two of bss,  *)
(* and homebrew of one section, or of one too small and one behind it;     *)
(* databases of up to two games, with up to two records of two codes;      *)
(* pictures of one or two lines of two pixels; files as lzop writes them,  *)
(* of blocks that are stored or compressed in each of the ways a few bytes *)
(* can be.                                                                 *)
EXTENDS FlashcartTools, SequencesExt, TLC

CONSTANTS Linked,   \* address a driver is linked for
          Homes,    \* addresses of sections
          Flags     \* sets of flags

(* The layout of a driver. *)
H == INSTANCE Dldi WITH Drivers <- {}, Files <- {}

(* Words of bss: more than one, so that it can be cleared in part.         *)
Bss == 2

Header(at) ==
  LET g == at + H!dldiData + 1
  IN [o \in 0 .. H!dldiData - 1 |->
        CASE o = H!dataStart -> at
          [] o \in {H!glueStart}         -> g
          [] o \in {H!glueEnd, H!gotStart} -> g + 1
          [] o \in {H!gotEnd, H!dataEnd, H!bssStart} -> g + 2
          [] o = H!bssEnd    -> g + 2 + Bss
          [] o \in H!dldiStartup .. H!dldiData - 1 -> at + H!dldiData
          [] OTHER         -> Words - 1]

(* Each word is none, or a pointer to the start, the last word or the end. *)
Values(at) == {Words - 1, at, at + H!dldiData + 2 + Bss, at + H!dldiData + 3 + Bss}

Driver(at, w) ==
  [o \in 0 .. H!dldiData + 2 |-> IF o < H!dldiData THEN Header(at)[o] ELSE w[o - H!dldiData]]

MCDrivers ==
  {[words |-> Driver(Linked, w), fix |-> f] : w \in [0 .. 2 -> Values(Linked)], f \in Flags}

Room == H!dldiData + 3 + Bss

(* A section without a driver may lack its address.                        *)
Section(at, known, o) ==
  CASE o = H!dataStart -> IF known THEN at ELSE 0
    [] o \in H!dldiStartup .. H!dldiData - 1 -> at + H!dldiData
    [] OTHER -> 7

One(at, known) ==
  [words |-> [x \in 0 .. Room + 1 |-> IF x \in 1 .. Room THEN Section(at, known, x - 1) ELSE 9],
   space |-> [s \in {1} |-> Room], home |-> [s \in {1} |-> at]]

Two(at, known) ==
  [words |-> [x \in 0 .. H!dldiData + Room |->
                IF x < H!dldiData THEN Section(at, known, x)
                ELSE IF x < H!dldiData + Room THEN Section(at + H!dldiData, known, x - H!dldiData) ELSE 9],
   space |-> [s \in {0, H!dldiData} |-> IF s = 0 THEN H!dldiData ELSE Room],
   home  |-> [s \in {0, H!dldiData} |-> at + s]]

Tight(at) ==
  [words |-> [x \in 0 .. H!dldiData - 1 |-> Section(at, TRUE, x)],
   space |-> [s \in {0} |-> Room], home |-> [s \in {0} |-> at]]

MCFiles ==
  {One(at, k) : at \in Homes, k \in BOOLEAN} \cup {Two(at, TRUE) : at \in Homes}
  \cup {Tight(at) : at \in Homes}

-----------------------------------------------------------------------------
CONSTANTS Cheats, Names

MaxCheats == 2

Folders == {[folder |-> TRUE, count |-> Len(s), name |-> n, cheats |-> s] :
              s \in BoundedSeq(Cheats, MaxCheats), n \in Names}

Loners == {[folder |-> FALSE, count |-> 1, name |-> "none", cheats |-> <<d>>] : d \in Cheats}

Game1(records) == [code |-> "g", records |-> records]
Game2(records) == [code |-> "h", records |-> records]

MCBases == {<<Game1(s)>> : s \in BoundedSeq(Folders \cup Loners, 1)}
           \cup {<<Game1(<<f>>), Game2(<<>>)>> : f \in Loners}

MCInputs ==
  {[ok |-> TRUE, games |-> <<Game1(s)>>] :
     s \in {<<>>} \cup {<<r>> : r \in Folders \cup Loners}
          \cup {<<r, q>> : r \in Folders \cup Loners,
                          q \in Loners \cup {f \in Folders : f.count = 1}}}
  \cup {[ok |-> TRUE, games |-> <<Game2(<<f>>)>>] : f \in Folders \cup Loners}
  \cup {[ok |-> FALSE, games |-> <<Game2(<<f>>)>>] : f \in Loners}
  \cup {[ok |-> FALSE, games |-> <<>>]}

Symmetry == Permutations(Cheats)

-----------------------------------------------------------------------------
MCPictures == {<<1, 1>>, <<1, 2>>, <<1, 1, 1, 1>>, <<1, 1, 1, 2>>, <<2, 1, 1, 2>>,
               <<1, 2, 3, 3>>, <<1, 2, 3, 4>>}

CONSTANT MaxFrames

(* One more frame only of one picture again and again.                     *)
MCAlbums ==
  BoundedSeq(Pictures \cup {Broken}, MaxFrames)
  \cup {[n \in 1 .. MaxFrames + 1 |-> picture] : picture \in Pictures}

-----------------------------------------------------------------------------
(* Checksums are what they are made of, behind a mark.                     *)
Sum(data) == <<255>> \o data

(* What a block is made of: literals, and copies of what was before.       *)
Lit(text) == [text |-> text, len |-> 0, back |-> 0]
Copy(len, back, text) == [text |-> text, len |-> len, back |-> back]

Plain(instrs) ==
  LET put(text, x) ==
        text \o [j \in 1 .. x.len |-> text[Len(text) - x.back + 1 + ((j - 1) % x.back)]] \o x.text
  IN FoldLeft(put, <<>>, instrs)

(* One copy in the form that "way" names, with up to three literals.       *)
Coded(x, way) ==
  LET b == x.back - 1   n == Len(x.text)
  IN (CASE way = "first"   -> <<17 + n>>
        [] way = "tiny"    -> <<(b % 4) * 4 + n, b \div 4>>
        [] way = "short"   -> <<(x.len - 1) * 32 + (b % 8) * 4 + n, b \div 8>>
        [] way = "middle"  -> <<32 + x.len - 2, (b % 64) * 4 + n, b \div 64>>
        [] way = "long"    -> <<32, x.len - 33, (b % 64) * 4 + n, b \div 64>>
        [] way = "longer"  -> <<32, 0, x.len - 288, (b % 64) * 4 + n, b \div 64>>
        [] way = "run"     -> <<n - 3>>)
     \o x.text

EndBytes == <<17, 0, 0>>

Blocks == {
  <<<<Lit(<<1>>), "first">>, <<Copy(12, 1, <<>>), "middle">>>>,
  <<<<Lit(<<1, 2>>), "first">>, <<Copy(8, 2, <<3>>), "short">>, <<Copy(2, 2, <<>>), "tiny">>,
    <<Copy(34, 3, <<>>), "long">>>>,
  <<<<Lit(<<1, 2>>), "first">>, <<Copy(33, 2, <<>>), "middle">>,
    <<Lit(<<2, 1, 1, 2>>), "run">>, <<Copy(3, 4, <<>>), "short">>>>,
  <<<<Lit(<<1>>), "first">>, <<Copy(290, 1, <<>>), "longer">>>>}

Text(b) == Plain([j \in DOMAIN b |-> b[j][1]])

Bytes(b) == FlattenSeq([j \in DOMAIN b |-> Coded(b[j][1], b[j][2])]) \o EndBytes

Cells(bytes) == [j \in DOMAIN bytes |-> <<bytes[j]>>]

(* Fields of a block, each with its kind.  Data with a sum of its own is   *)
(* that of a stored block with flag "D", or a compressed one with "C".     *)
Kinds(kind, fields) == [j \in DOMAIN fields |-> [kind |-> kind, field |-> fields[j]]]

Packed(text, data, fl) ==
  Kinds("dlen", <<<<Len(text)>>>>) \o Kinds("clen", <<<<Len(data)>>>>)
  \o (IF "D" \in fl THEN Kinds("dsum", <<Sum(text)>>) ELSE <<>>)
  \o (IF "C" \in fl /\ text # data THEN Kinds("csum", <<Sum(data)>>) ELSE <<>>)
  \o Kinds(IF (text = data /\ "D" \in fl) \/ (text # data /\ "C" \in fl) THEN "summed" ELSE "data",
            Cells(data))

Pieces == {[text |-> Text(b), data |-> Bytes(b)] : b \in Blocks}
          \cup {[text |-> t, data |-> t] : t \in {<<1>>, <<2, 1>>}}

Bit(f, fl, n) == IF f \in fl THEN n ELSE 0

File(pieces, fl) ==
  LET n     == Bit("D", fl, 1) + Bit("C", fl, 2) + Bit("filter", fl, 4)
      whole == Kinds("head", <<<<n>>, Sum(<<n>>)>>)
               \o FlattenSeq([j \in DOMAIN pieces |-> Packed(pieces[j].text, pieces[j].data, fl)])
               \o Kinds("end", <<<<0>>>>)
  IN [file    |-> [j \in DOMAIN whole |-> whole[j].field],
      kinds   |-> [j \in DOMAIN whole |-> whole[j].kind],
      content |-> FlattenSeq([j \in DOMAIN pieces |-> pieces[j].text]),
      filter  |-> "filter" \in fl, sums |-> "C" \in fl, onlyC |-> fl \cap {"C", "D"} = {"C"},
      stored  |-> \E j \in DOMAIN pieces : pieces[j].text = pieces[j].data]

MCOriginals == {File(pieces, fl) : pieces \in BoundedSeq(Pieces, 2), fl \in SUBSET {"C", "D", "filter"}}

-----------------------------------------------------------------------------
(* Of game 1 there are versions of three bytes and one of two; records are *)
(* in the file, overlap, begin or lie behind its end, or are bad.  Only    *)
(* binreplace finds something in the longer ones.                          *)
MCGames == {<<1>> \o s : s \in [1 .. 2 -> {0, 1}]}
           \cup {<<1, 0>>, <<2, 0, 0>>, <<0, 0, 0, 0, 0>>, <<0, 0, 1, 0, 0>>, <<1, 0, 1, 0, 1>>}

Change(at, b, a) == [at |-> at, before |-> b, after |-> a, bad |-> FALSE]

Changes == {Change(1, <<0>>, <<1>>), Change(2, <<0>>, <<1>>), Change(1, <<0, 0>>, <<1, 0>>),
            Change(2, <<1, 0>>, <<0, 1>>), Change(3, <<1>>, <<0>>),
            [Change(1, <<>>, <<>>) EXCEPT !.bad = TRUE]}

Version(ids, records) == [ids |-> ids, crcs |-> {<<g, 0, 0>> : g \in ids}, records |-> records]

MCDatabases ==
  {<<Version({1}, s)>> \o rest : s \in BoundedSeq(Changes, 2),
     rest \in {<<>>} \cup {<<Version(ids, t)>> : ids \in {{1}, {2}}, t \in BoundedSeq(Changes, 1)}}

MCSearches ==
  {[before |-> b, after |-> SubSeq(<<2, 1>>, 1, Len(b)), address |-> 0] : b \in {<<0>>, <<0, 0>>}}
  \cup {[before |-> <<>>, after |-> <<2, 1>>, address |-> a] : a \in 0 .. 1}

=============================================================================
