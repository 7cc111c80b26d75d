------------------------------ MODULE CheatMerge ----------------------------
(***************************************************************************)
(* mergecheat and mergecwc (applet_stl): databases of cheats are read one  *)
(* after the other, each is merged into the first, and the result is       *)
(* written.  In a usrcheat.dat a game has loose cheats and folders of      *)
(* them; in a cheat.db, loose ones only.                                   *)
(*                                                                         *)
(* A cheat is what is compared of it, its codes.  A record of a game is a  *)
(* folder or one loose cheat: "folder" is the flag 0x10000000 of its first *)
(* word and "count" what else counts of that word.  One step merges one    *)
(* record.                                                                 *)
(***************************************************************************)
EXTENDS Integers, Sequences, SequencesExt, FiniteSetsExt

CONSTANTS
  Bases,            \* the databases that are merged into
  Inputs,           \* what is read of others: games, and whether to the end
  MaxFiles

VARIABLES
  usr,              \* the database merged into
  merging,          \* _merge: what is merged, of all files so far
  i, l,             \* the game and the record it is at
  pc,
  files,            \* the inputs so far
  base,             \* what usr was
  written           \* games as they are in the target

vars == <<usr, merging, i, l, pc, files, base, written>>

Init ==
  /\ usr \in Bases /\ base = usr
  /\ merging = <<>> /\ i = 1 /\ l = 1
  /\ pc = "next" /\ files = <<>> /\ written = <<>>

-----------------------------------------------------------------------------
(* parse adds to what is there; mergecwc keeps of a file that fails what   *)
(* came before the error, to be merged along with the next.                *)
Kept(f) == merging \o f.games

Read ==
  /\ pc = "next" /\ Len(files) < MaxFiles
  /\ \E f \in Inputs :
       /\ files' = Append(files, f)
       /\ merging' = Kept(f)
       /\ pc' = IF f.ok THEN "merge" ELSE "next"
  /\ i' = 1 /\ l' = 1
  /\ UNCHANGED <<usr, base, written>>

(* first.first == 1                                                        *)
Loose(r) == ~r.folder /\ r.count = 1

Game == merging[i]

Known == {j \in DOMAIN usr : usr[j].code = Game.code}

NewGame ==
  /\ pc = "merge" /\ i <= Len(merging) /\ Known = {}
  /\ usr' = Append(usr, Game)
  /\ i' = i + 1 /\ l' = 1
  /\ UNCHANGED <<merging, pc, files, base, written>>

Alike_ByName(sf, df) == sf.name = df.name

Alike(sf, df) ==
  IF Loose(sf) THEN Loose(df) /\ sf.cheats[1] = df.cheats[1] ELSE sf.name = df.name

AddCheat_Always(cheats, c) == Append(cheats, c)

AddCheat(cheats, c) == IF c \in ToSet(cheats) THEN cheats ELSE Append(cheats, c)

Recount_Old(df, cheats) == df.count

Recount(df, cheats) == Len(cheats)

Merged_Over(sf, df) == IF Loose(sf) THEN df ELSE sf

Merged(sf, df) ==
  IF Loose(sf) THEN df
  ELSE LET cheats == FoldLeft(AddCheat, df.cheats, sf.cheats)
       IN [df EXCEPT !.cheats = cheats, !.count = Recount(df, cheats)]

AddRecord(records, sf) ==
  LET alike == {m \in DOMAIN records : Alike(sf, records[m])}
  IN IF alike = {} THEN Append(records, sf)
     ELSE [records EXCEPT ![Min(alike)] = Merged(sf, @)]

MergeRecord ==
  /\ pc = "merge" /\ i <= Len(merging) /\ Known # {} /\ l <= Len(Game.records)
  /\ usr' = [usr EXCEPT ![Min(Known)].records = AddRecord(@, Game.records[l])]
  /\ l' = l + 1
  /\ UNCHANGED <<merging, i, pc, files, base, written>>

EndGame ==
  /\ pc = "merge" /\ i <= Len(merging) /\ Known # {} /\ l > Len(Game.records)
  /\ i' = i + 1 /\ l' = 1
  /\ UNCHANGED <<usr, merging, pc, files, base, written>>

EndMerge ==
  /\ pc = "merge" /\ i > Len(merging)
  /\ pc' = "next"
  /\ UNCHANGED <<usr, merging, i, l, files, base, written>>

-----------------------------------------------------------------------------
HeadItem(r) == [folder |-> TRUE, count |-> r.count, name |-> r.name]
CheatItem(c) == [folder |-> FALSE, cheat |-> c]

Items(records) ==
  LET items(r) == (IF r.folder THEN <<HeadItem(r)>> ELSE <<>>)
                  \o [k \in DOMAIN r.cheats |-> CheatItem(r.cheats[k])]
  IN FlattenSeq([k \in DOMAIN records |-> items(records[k])])

CountOf(records) ==
  LET count(n, r) == n + 1 + (IF r.folder THEN r.count ELSE 0)
  IN FoldLeft(count, 0, records)

(* A game in the target: so many items are said to follow, and these do.   *)
output(game) ==
  [code |-> game.code, count |-> CountOf(game.records), items |-> Items(game.records)]

Write ==
  /\ pc = "next"
  /\ written' = [j \in DOMAIN usr |-> output(usr[j])]
  /\ pc' = "done"
  /\ UNCHANGED <<usr, merging, i, l, files, base>>

(***************************************************************************)
(* parse: an item of a folder's head takes as many cheats as it counts, a  *)
(* cheat is a record of its own, until as many items as the game counts    *)
(* have been seen.                                                         *)
(***************************************************************************)
ParseItem(count, st, item) ==
  IF st.left > 0
  THEN LET n == Len(st.records)
       IN [i |-> st.i + 1, left |-> st.left - 1,
           records |-> [st.records EXCEPT ![n].cheats = Append(@, item.cheat)]]
  ELSE IF st.i >= count THEN st
  ELSE IF item.folder
  THEN [i |-> st.i + 1, left |-> item.count,
        records |-> Append(st.records, [folder |-> TRUE, count |-> item.count,
                                        name |-> item.name, cheats |-> <<>>])]
  ELSE [i |-> st.i + 1, left |-> 0,
        records |-> Append(st.records, [folder |-> FALSE, count |-> 1, name |-> "none",
                                        cheats |-> <<item.cheat>>])]

parse(game) ==
  LET step(st, item) == ParseItem(game.count, st, item)
      parsed == FoldLeft(step, [i |-> 0, left |-> 0, records |-> <<>>], game.items)
  IN [code |-> game.code, records |-> parsed.records]

Next == Read \/ NewGame \/ MergeRecord \/ EndGame \/ EndMerge \/ Write

Spec == Init /\ [][Next]_vars

-----------------------------------------------------------------------------
Records(db, code) ==
  UNION {ToSet(db[j].records) : j \in {k \in DOMAIN db : db[k].code = code}}

CheatsOf(db, code) == UNION {ToSet(r.cheats) : r \in Records(db, code)}

Codes(db) == {db[j].code : j \in DOMAIN db}

AllNamed == \A db \in {base} \cup {files[k].games : k \in DOMAIN files} :
              \A code \in Codes(db) : \A r \in Records(db, code) : r.folder => r.name # "none"

(***************************************************************************)
(* What is written is read back as it was merged; but a folder without a   *)
(* name passes for a loose cheat and is merged into one, and then more     *)
(* cheats are written than are counted.                                    *)
(***************************************************************************)
ReadBack ==
  pc = "done" /\ AllNamed => [j \in DOMAIN written |-> parse(written[j])] = usr

(* Records of the base stay where they are and keep their cheats in order. *)
BaseKept ==
  \A j \in DOMAIN base :
    /\ usr[j].code = base[j].code
    /\ \A m \in DOMAIN base[j].records :
         /\ usr[j].records[m].name = base[j].records[m].name
         /\ IsPrefix(base[j].records[m].cheats, usr[j].records[m].cheats)

(***************************************************************************)
(* Merging only adds to the base.  The target has the cheats of every game *)
(* of every file that was read to its end, and none that no file had.      *)
(***************************************************************************)
Union ==
  /\ BaseKept
  /\ pc = "done" =>
       LET dbs == {base} \cup {files[k].games : k \in DOMAIN files}
           oks == {base} \cup {files[k].games : k \in {n \in DOMAIN files : files[n].ok}}
       IN \A code \in UNION {Codes(db) : db \in dbs} :
            /\ UNION {CheatsOf(db, code) : db \in oks} \subseteq CheatsOf(usr, code)
            /\ CheatsOf(usr, code) \subseteq UNION {CheatsOf(db, code) : db \in dbs}

Often(cheats, c) == Cardinality({k \in DOMAIN cheats : cheats[k] = c})

OnceNamed(db) ==
  \A j \in DOMAIN db : \A m, n \in DOMAIN db[j].records :
    db[j].records[m].folder /\ db[j].records[n].folder /\ m # n
      => db[j].records[m].name # db[j].records[n].name

(***************************************************************************)
(* Though every file is merged again with each one after it, no folder has *)
(* a cheat more often than one of the files had it, if no file has two     *)
(* folders of one name.                                                    *)
(***************************************************************************)
NoneTwice ==
  LET dbs == {base} \cup {files[k].games : k \in DOMAIN files}
  IN (\A db \in dbs : OnceNamed(db)) /\ AllNamed =>
       \A code \in Codes(usr) : \A r \in Records(usr, code) : \A c \in ToSet(r.cheats) :
         Often(r.cheats, c) = 1 \/ \E db \in dbs : \E q \in Records(db, code) :
           q.name = r.name /\ Often(q.cheats, c) >= Often(r.cheats, c)

=============================================================================
