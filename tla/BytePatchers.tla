---------------------------- MODULE BytePatchers ----------------------------
(***************************************************************************)
(* Tools that change bytes of a game where a text says so.  openpatch      *)
(* (applet_stl/openpatch.cpp) and openpatch_single look the game up in a   *)
(* database, the one by its CRC, the other by its ID, of which there may   *)
(* be several versions; check all records of the entry; and only then      *)
(* write.  openpatch_single takes a game that has all of the patch for one *)
(* that is patched, and may write back what was before.  binreplace        *)
(* replaces one string by another of the same length.                      *)
(*                                                                         *)
(* What a record is compared with is read into memory that still holds     *)
(* what was read before: behind the end of the file that is what is seen.  *)
(***************************************************************************)
EXTENDS Integers, Sequences, SequencesExt, FiniteSetsExt

CONSTANTS
  Databases,        \* sequences of entries, each with ids, crcs and records
  Games,            \* contents of files, of which the first byte is the ID
  MaxGames,         \* how many are patched in one call
  Searches,         \* strings for binreplace: before and after, or after and an address
  Zero,             \* the byte 0, of what has not been written
  CompSize          \* length of what is read for a record, at most

(* What the texts say: bytes before and after, as many of the one as of    *)
(* the other, and no more than are read; and what a game consists of.      *)
RecordTypes == [at : Nat, before : Seq(Nat), after : Seq(Nat), bad : BOOLEAN]

IsRecord(r) ==
  r \in RecordTypes /\ Len(r.before) = Len(r.after) /\ Len(r.before) <= CompSize

BytesAssumption ==
  /\ CompSize \in Nat /\ Zero \in Nat
  /\ \A g \in Games : g \in Seq(Nat)
  /\ \A d \in Databases :
       /\ Len(d) \in Nat /\ DOMAIN d = 1 .. Len(d)
       /\ \A e \in DOMAIN d :
            /\ d[e].records \in Seq(RecordTypes)
            /\ \A n \in DOMAIN d[e].records : IsRecord(d[e].records[n])
  /\ \A d \in Searches :
       /\ d.before \in Seq(Nat) /\ d.after \in Seq(Nat) /\ d.address \in Nat
       /\ d.before = <<>> \/ Len(d.before) = Len(d.after)

VARIABLES
  tool, pc,         \* the applet, and where it is
  args,             \* the database, or what is replaced by what
  file, was,        \* the game, and what it was when it was opened
  games,            \* how many have been opened
  entry, record,    \* where in the database it is
  comp,             \* openpatch_comp, or buf
  differ_before, differ_after,
  side,             \* of the records: what is written to the game
  ret

checkvars == <<comp, differ_before, differ_after>>
vars == <<tool, pc, args, file, was, games, entry, record, checkvars, side, ret>>

TypeOK ==
  /\ pc \in {"closed", "search", "check", "write"}
  /\ side \in {"none", "before", "after"} /\ ret \in {0, 3, 4}
  /\ Len(comp) = CompSize

OwnInit ==
  /\ pc = "closed" /\ file = <<>> /\ was = <<>> /\ games = 0 /\ entry = 1 /\ record = 1
  /\ comp = [k \in 1 .. CompSize |-> Zero] /\ differ_before = FALSE /\ differ_after = FALSE
  /\ side = "none" /\ ret = 0

Init ==
  /\ OwnInit
  /\ \/ tool \in {"openpatch", "openpatch_single"} /\ args \in Databases
     \/ tool = "binreplace" /\ args \in Searches

-----------------------------------------------------------------------------
(* fread of n bytes at an address: as many as there are.                   *)
Fread(content, at, n) ==
  [k \in 1 .. CompSize |-> IF k <= n /\ at + k <= Len(content) THEN content[at + k] ELSE comp[k]]

(* fwrite at an address, which may be behind the end.                      *)
Fwrite(content, at, data) ==
  IF data = <<>> THEN content
  ELSE [x \in 1 .. Max({Len(content), at + Len(data)}) |->
          IF x \in at + 1 .. at + Len(data) THEN data[x - at]
          ELSE IF x <= Len(content) THEN content[x] ELSE Zero]

ID(content) == content[1]

Records == args[entry].records
Current == Records[record]

Open ==
  /\ tool # "binreplace" /\ pc = "closed" /\ games < MaxGames
  /\ file' \in Games \cup ({file} \ {<<>>})
  /\ was' = file' /\ games' = games + 1 /\ pc' = "search" /\ entry' = 1 /\ record' = 1
  /\ side' = "none" /\ ret' = 0
  /\ comp' = IF tool = "openpatch" THEN Fread(file', 0, CompSize) ELSE comp
  /\ UNCHANGED <<tool, args, differ_before, differ_after>>

Bad(e) == \E n \in DOMAIN args[e].records : args[e].records[n].bad

(* A CRC that is there twice is taken where it is first; entries with bad  *)
(* lines are left out.                                                     *)
Candidates ==
  {e \in DOMAIN args : IF tool = "openpatch" THEN was \in args[e].crcs /\ ~Bad(e)
                       ELSE e >= entry /\ ID(was) \in args[e].ids}

Close(code) == pc' = "closed" /\ ret' = code

Fresh_Kept(flag) == flag

Fresh(flag) == FALSE

Search ==
  /\ pc = "search"
  /\ \/ Candidates = {} /\ Close(IF tool = "openpatch" THEN 0 ELSE 3)
        /\ UNCHANGED <<entry, record, checkvars>>
     \/ /\ Candidates # {}
        /\ entry' = Min(Candidates) /\ record' = 1 /\ pc' = "check"
        /\ differ_before' = Fresh(differ_before) /\ differ_after' = Fresh(differ_after)
        /\ UNCHANGED <<comp, ret>>
  /\ UNCHANGED <<tool, args, file, was, games, side>>

Differ(data) == SubSeq(comp', 1, Len(data)) # data

Seen_Last(flag, data) == Differ(data)

Seen(flag, data) == flag \/ Differ(data)

(* openpatch stops at what differs; openpatch_single, when neither side    *)
(* can be all there, goes on with the next entry.                          *)
Check ==
  /\ pc = "check" /\ record <= Len(Records)
  /\ \/ Current.bad /\ Close(4) /\ UNCHANGED <<entry, record, checkvars>>
     \/ /\ ~Current.bad
        /\ comp' = Fread(file, Current.at, Len(Current.before))
        /\ differ_before' = Seen(differ_before, Current.before)
        /\ differ_after' = Seen(differ_after, Current.after)
        /\ \/ /\ tool = "openpatch" /\ differ_before'
              /\ Close(0) /\ UNCHANGED <<entry, record>>
           \/ /\ tool = "openpatch_single" /\ differ_before' /\ differ_after'
              /\ pc' = "search" /\ entry' = entry + 1 /\ UNCHANGED <<record, ret>>
           \/ /\ ~differ_before' \/ (tool = "openpatch_single" /\ ~differ_after')
              /\ record' = record + 1 /\ UNCHANGED <<pc, entry, ret>>
  /\ UNCHANGED <<tool, args, file, was, games, side>>

(* "Your ROM is already patched.  Do you want to reverse-patch? (y/N)"     *)
Decide ==
  /\ pc = "check" /\ record > Len(Records)
  /\ \/ ~differ_before /\ side' = "after" /\ pc' = "write" /\ record' = 1 /\ UNCHANGED ret
     \/ differ_before /\ side' = "before" /\ pc' = "write" /\ record' = 1 /\ UNCHANGED ret
     \/ differ_before /\ Close(0) /\ UNCHANGED <<side, record>>
  /\ UNCHANGED <<tool, args, file, was, games, entry, checkvars>>

Side(r, s) == IF s = "after" THEN r.after ELSE r.before

Write ==
  /\ pc = "write" /\ record <= Len(Records)
  /\ file' = Fwrite(file, Current.at, Side(Current, side))
  /\ record' = record + 1
  /\ UNCHANGED <<tool, pc, args, was, games, entry, checkvars, side, ret>>

Written ==
  /\ pc = "write" /\ record > Len(Records)
  /\ Close(0)
  /\ UNCHANGED <<tool, args, file, was, games, entry, record, checkvars, side>>

-----------------------------------------------------------------------------
(* binreplace: places are looked at up to the one before the last, and     *)
(* behind a string that is replaced from the second byte on.  A file that  *)
(* is shorter than the string is read beyond its end, and is not modelled. *)
Occurs(content, b, x) == SubSeq(content, x + 1, x + Len(b)) = b

NextPlace_Overlaps(x, n) == x + 1

NextPlace(x, n) == x + n + 1

Places(content, b) ==
  LET from[x \in Nat] ==
        IF x >= Len(content) - Len(b) THEN {}
        ELSE IF Occurs(content, b, x) THEN {x} \cup from[NextPlace(x, Len(b))]
        ELSE from[x + 1]
  IN from[0]

Replaced(content, b, a) ==
  LET at == Places(content, b)
  IN [x \in DOMAIN content |->
        IF \E y \in at : x \in y + 1 .. y + Len(b)
        THEN a[x - Max({y \in at : y < x})] ELSE content[x]]

(* Without a string to look for, the other one is put at an address.       *)
Room == IF args.before = <<>> THEN args.address + Len(args.after) ELSE Len(args.before)

Binreplace ==
  /\ tool = "binreplace" /\ pc = "closed" /\ games < MaxGames
  /\ was' \in {g \in Games : Len(g) >= Room}
  /\ file' = IF args.before = <<>> THEN Fwrite(was', args.address, args.after)
             ELSE Replaced(was', args.before, args.after)
  /\ games' = games + 1
  /\ UNCHANGED <<tool, pc, args, entry, record, checkvars, side, ret>>

Next == Open \/ Search \/ Check \/ Decide \/ Write \/ Written \/ Binreplace

Spec == Init /\ [][Next]_vars

-----------------------------------------------------------------------------
InFile(e) ==
  \A n \in DOMAIN args[e].records :
    args[e].records[n].at + Len(args[e].records[n].before) <= Len(was)

Bytes(r) == r.at + 1 .. r.at + Len(r.before)

Apart(e) ==
  \A m, n \in DOMAIN args[e].records :
    m # n => Bytes(args[e].records[m]) \cap Bytes(args[e].records[n]) = {}

Holds(content, e, s) ==
  \A n \in DOMAIN args[e].records :
    LET r == args[e].records[n] IN SubSeq(content, r.at + 1, r.at + Len(r.before)) = Side(r, s)

Changed(e) == UNION {Bytes(args[e].records[n]) : n \in DOMAIN args[e].records}

Other(s) == IF s = "after" THEN "before" ELSE "after"

(***************************************************************************)
(* A game is written to only when it has all of one side of the records,   *)
(* and then has all of the other, and is what it was elsewhere; so that it *)
(* can be patched back.  Of records that overlap, or lie beyond the end of *)
(* the file, this is not so.                                               *)
(***************************************************************************)
Invertible ==
  tool # "binreplace" /\ pc = "closed" =>
    IF side = "none" THEN file = was
    ELSE InFile(entry) /\ Apart(entry) =>
           /\ Holds(was, entry, Other(side)) /\ Holds(file, entry, side)
           /\ Len(file) = Len(was)
           /\ \A x \in DOMAIN was \ Changed(entry) : file[x] = was[x]

(***************************************************************************)
(* A game is "not found in DB" only when no entry with its ID fits, be it  *)
(* patched or not, whatever entries of other versions came before.         *)
(***************************************************************************)
Finds ==
  tool = "openpatch_single" /\ pc = "closed" /\ ret = 3 =>
    ~\E e \in DOMAIN args :
       /\ ID(was) \in args[e].ids /\ ~Bad(e) /\ InFile(e)
       /\ Holds(was, e, "before") \/ Holds(was, e, "after")

(***************************************************************************)
(* binreplace changes strings it was to replace, each whole, and leaves    *)
(* one only where it overlaps or follows one that is replaced, or is at    *)
(* the end of the file.                                                    *)
(***************************************************************************)
Replaces ==
  tool = "binreplace" /\ games > 0 /\ args.before # <<>> =>
    LET n   == Len(args.before)
        new == {x \in 0 .. Len(was) - n :
                  Occurs(was, args.before, x) /\ Occurs(file, args.after, x)}
    IN /\ Len(file) = Len(was)
       /\ \A x \in DOMAIN was : file[x] # was[x] => \E y \in new : x \in y + 1 .. y + n
       /\ \A x \in 0 .. Len(was) - n - 1 :
            Occurs(was, args.before, x) => \E y \in new : x \in y .. y + n

=============================================================================
