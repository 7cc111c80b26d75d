---------------------------- MODULE MCDiscImages ----------------------------
(* Blocks of three bytes for cso, of four for dax and jso.  The images of  *)
(* files have a root and up to three directories, named a, ab or b, and    *)
(* files of one name, boot, and perhaps another: each with its sectors.    *)
EXTENDS DiscImages

CONSTANTS MaxLength, BootSizes, FileSizes

MCBlockSize == [f \in Formats |-> IF f = "cso" THEN 3 ELSE 4]

MCLengths == 0 .. MaxLength

NA   == <<"a">>
NAB  == <<"a", "b">>
NB   == <<"b">>
NC   == <<"c">>
NX   == <<"x">>
Boot == <<"y">>
Nul  == <<"nul">>

MCPaths == {<<NX>>, <<NA, NX>>, <<NAB, NX>>, <<NA, NB, NX>>, <<NA, NB>>, <<NA, NC>>, <<NA, Boot>>}

MCBootPath == <<NA, Boot>>

Dir(name, parent) == [name |-> name, parent |-> parent]
Root == Dir(Nul, 1)

(* By number of the parent, then by name.                                  *)
Tables ==
  {<<Root, Dir(NA, 1)>>, <<Root, Dir(NA, 1), Dir(NAB, 1)>>, <<Root, Dir(NA, 1), Dir(NB, 1)>>,
   <<Root, Dir(NA, 1), Dir(NB, 1), Dir(NB, 2)>>, <<Root, Dir(NA, 1), Dir(NAB, 1), Dir(NB, 3)>>,
   <<Root, Dir(NAB, 1), Dir(NB, 1), Dir(NA, 3)>>, <<Root, Dir(NA, 1), Dir(NB, 2), Dir(NA, 3)>>}

Entry(name, p, n, isdir) == [name |-> name, pos |-> p, size |-> n, isdir |-> isdir]

Subdirs(table, d) ==
  LET Sub(n) == n # 1 /\ table[n].parent = d
      subs == SelectSeq([n \in DOMAIN table |-> n], Sub)
  IN [k \in DOMAIN subs |-> Entry(table[subs[k]].name, subs[k], SectorSize, TRUE)]

(* Sectors 1 to 3 are those of a file x in the second directory, 4 to 6 of *)
(* boot in the same, 7 and 8 of a file x in the last; the volume ends there.*)
Image(table, b, x) ==
  [table  |-> table,
   dir    |-> [d \in DOMAIN table |->
                 Subdirs(table, d)
                 \o (IF d = 2 THEN <<Entry(Boot, 4, b, FALSE)>> ELSE <<>>)
                 \o (IF d \in {2, Len(table)} /\ x > 0
                     THEN <<Entry(NX, IF d = 2 THEN 1 ELSE 7, x, FALSE)>> ELSE <<>>)],
   data   |-> [s \in 0 .. 30 |-> <<"old", s>>],
   volume |-> 9]

MCImages == {Image(table, b, x) : table \in Tables, b \in BootSizes, x \in FileSizes}

=============================================================================
