------------------------------- MODULE IsoTree ------------------------------
(***************************************************************************)
(* Files in an ISO 9660 image (getdiscid/iso.c): iso_get_file_info walks   *)
(* the path table and a directory, iso_write puts new data where a file    *)
(* is, iso_file_add takes sectors from BOOT.BIN or appends them, and       *)
(* enters the file into its directory.  Each write to the image is a step. *)
(*                                                                         *)
(* A name is a sequence of letters without case.  A directory's extent is  *)
(* its number in the path table; a sector of data is a value.              *)
(***************************************************************************)
EXTENDS Integers, Sequences, FiniteSetsExt, SequencesExt

CONSTANTS
  Letters,
  Images,           \* images to start from: table, dir, data, volume
  Paths,            \* what is looked for
  BootPath,         \* PSP_GAME/SYSDIR/BOOT.BIN
  Sizes,            \* of files that are written
  SectorSize,
  MaxRecords,       \* that the sectors of a directory have room for
  MaxOps

SizeAssumption == SectorSize \in Nat \ {0} /\ MaxRecords \in Nat /\ Sizes \subseteq Nat
Name  == Seq(Letters)
Entry == [name : Name, pos : Nat, size : Int, isdir : BOOLEAN]

PathAssumption == Paths \cup {BootPath} \subseteq Seq(Name) \ {<<>>}

VARIABLES
  iso,              \* the image
  pc, op,           \* where a call is, and which
  path, size,       \* its arguments
  stat,             \* what iso_get_file_info found last
  boot,             \* boot_st
  pos,              \* file_st.pos: where the file goes
  ret, ops,
  before            \* the image when it was called

vars == <<iso, pc, op, path, size, stat, boot, pos, ret, ops, before>>

NotFound == [dir |-> 0, record |-> 0, pos |-> 0, size |-> 0]

Sectors(bytes) == (bytes + SectorSize - 1) \div SectorSize

SectorsFrom(p, n) == p .. p + n - 1

-----------------------------------------------------------------------------
IsPrefixOf(name, wanted) == Len(name) <= Len(wanted) /\ SubSeq(wanted, 1, Len(name)) = name

(* strncasecmp with the length of the entry.                               *)
Matches(entry, wanted) == IsPrefixOf(entry, wanted)

(***************************************************************************)
(* How an image is made: the path table has the root first and parents     *)
(* before their directories; the directories say the same, in its order; a *)
(* name is there once, and none that is looked for has the root's.         *)
(***************************************************************************)
IsImage(image) ==
  /\ DOMAIN image = {"table", "dir", "data", "volume"}
  /\ image.table \in Seq([name : Name, parent : Nat]) /\ image.table # <<>>
  /\ image.dir \in Seq(Seq(Entry)) /\ Len(image.dir) = Len(image.table)
  /\ \A d \in DOMAIN image.dir : Len(image.dir[d]) <= MaxRecords
  /\ image.volume \in Nat /\ 0 .. image.volume - 1 \subseteq DOMAIN image.data

TableTrue(image) ==
  /\ \A n \in 2 .. Len(image.table) : image.table[n].parent \in 1 .. n - 1
  /\ \A m, n \in 2 .. Len(image.table) : image.table[m] = image.table[n] => m = n
  /\ \A p \in Paths \cup {BootPath} : \A j \in DOMAIN p : ~Matches(image.table[1].name, p[j])

DirsTrue(image) ==
  /\ \A d \in DOMAIN image.dir : \A k \in DOMAIN image.dir[d] :
       LET e == image.dir[d][k] IN
       e.isdir => /\ e.pos \in 2 .. Len(image.table)
                  /\ image.table[e.pos] = [name |-> e.name, parent |-> d]
                  /\ \A l \in DOMAIN image.dir[d] :
                       l < k /\ image.dir[d][l].isdir => image.dir[d][l].pos < e.pos
  /\ \A n \in 2 .. Len(image.table) : \E k \in DOMAIN image.dir[image.table[n].parent] :
       LET e == image.dir[image.table[n].parent][k] IN e.isdir /\ e.pos = n

NamesOnce(image) ==
  \A d \in DOMAIN image.dir : \A k, l \in DOMAIN image.dir[d] :
    image.dir[d][k].name = image.dir[d][l].name => k = l

ImagesAssumption ==
  \A image \in Images :
    IsImage(image) /\ TableTrue(image) /\ DirsTrue(image) /\ NamesOnce(image)

File(p)    == p[Len(p)]
Parents(p) == SubSeq(p, 1, Len(p) - 1)

(* One pass over the path table, by the number of the parent; the mutant   *)
(* takes a directory of the right name wherever it is.                     *)
Step_AnyParent(now, n, entry) ==
  IF now.rest # <<>> /\ Matches(entry.name, Head(now.rest))
  THEN [befor_dir_num |-> n, rest |-> Tail(now.rest)]
  ELSE now

Step(now, n, entry) ==
  IF /\ now.rest # <<>>
     /\ entry.parent = now.befor_dir_num
     /\ Matches(entry.name, Head(now.rest))
  THEN [befor_dir_num |-> n, rest |-> Tail(now.rest)]
  ELSE now

Walk(table, dirs) ==
  LET walked[n \in 0 .. Len(table)] ==
        IF n = 0 THEN [befor_dir_num |-> 1, rest |-> dirs]
        ELSE Step(walked[n - 1], n, table[n])
  IN walked[Len(table)]

iso_get_file_info(image, p) ==
  LET walked == Walk(image.table, Parents(p))
      number == walked.befor_dir_num
      found  == {k \in DOMAIN image.dir[number] :
                   Matches(image.dir[number][k].name, File(p))}
  IN IF walked.rest # <<>> \/ found = {} THEN NotFound
     ELSE LET k == Min(found) IN
          [dir |-> number, record |-> k, pos |-> image.dir[number][k].pos,
           size |-> image.dir[number][k].size]

-----------------------------------------------------------------------------
Init ==
  /\ iso \in Images
  /\ pc = "idle" /\ op = "none" /\ path = BootPath /\ size = 0
  /\ stat = NotFound /\ boot = NotFound /\ pos = 0
  /\ ret = 0 /\ ops = 0 /\ before = iso

Begin(call) ==
  /\ pc = "idle" /\ ops < MaxOps
  /\ ops' = ops + 1 /\ op' = call /\ before' = iso
  /\ path' \in Paths

(* Nothing is written over a directory: what is would be its records.      *)
IsDirectory(found) == iso.dir[found.dir][found.record].isdir

NoDirectory(found) == found # NotFound => ~IsDirectory(found)

Return(code) == pc' = "idle" /\ ret' = code

(* iso_get_file_info, and iso_read of what it found.                       *)
Find ==
  /\ Begin("find")
  /\ stat' = iso_get_file_info(iso, path')
  /\ ret' = IF stat' = NotFound THEN -1 ELSE 0
  /\ UNCHANGED <<iso, pc, size, boot, pos>>

SetRecord(at, field, value) ==
  iso' = [iso EXCEPT !.dir[at.dir][at.record][field] = value]

NewData(n) == <<path, n>>

PutData(p, n) ==
  iso' = [iso EXCEPT !.data = [s \in DOMAIN iso.data |->
            IF s \in SectorsFrom(p, n) THEN NewData(s - p) ELSE iso.data[s]]]

Write ==
  /\ Begin("write")
  /\ size' \in Sizes
  /\ stat' = iso_get_file_info(iso, path') /\ NoDirectory(stat')
  /\ IF stat' = NotFound THEN ret' = -1 /\ UNCHANGED pc ELSE pc' = "writesize" /\ UNCHANGED ret
  /\ UNCHANGED <<iso, boot, pos>>

WriteSize ==
  /\ pc = "writesize"
  /\ SetRecord(stat, "size", size)
  /\ pc' = "writedata"
  /\ UNCHANGED <<op, path, size, stat, boot, pos, ret, ops, before>>

WriteData ==
  /\ pc = "writedata"
  /\ PutData(stat.pos, Sectors(size))
  /\ Return(0)
  /\ UNCHANGED <<op, path, size, stat, boot, pos, ops, before>>

-----------------------------------------------------------------------------
file_sector == Sectors(size)

Add ==
  /\ Begin("add") /\ NoDirectory(iso_get_file_info(iso, path'))
  /\ LET parent == iso_get_file_info(iso, Parents(path'))
     IN Parents(path') # <<>> /\ parent # NotFound => IsDirectory(parent)
  /\ size' \in Sizes
  /\ boot' = iso_get_file_info(iso, BootPath) /\ NoDirectory(boot')
  /\ 0 .. iso.volume + Sectors(size') - 1 \subseteq DOMAIN iso.data      \* a bound
  /\ pc' = "place"
  /\ UNCHANGED <<iso, stat, pos, ret>>

(* "(file_st.size >> 11) > (boot_st.size >> 11)": whole sectors only.      *)
use_boot_bin_flag == size \div SectorSize <= boot.size \div SectorSize

(* Without a BOOT.BIN the writes go before the file and to its start.      *)
MoveBoot_Stay == boot.pos

MoveBoot == boot.pos + file_sector

TakeBoot ==
  /\ pc = "place" /\ use_boot_bin_flag
  /\ pos' = boot.pos
  /\ IF boot = NotFound THEN UNCHANGED iso ELSE SetRecord(boot, "pos", MoveBoot)
  /\ pc' = "bootsize"
  /\ UNCHANGED <<op, path, size, stat, boot, ret, ops, before>>

ShrinkBoot ==
  /\ pc = "bootsize"
  /\ IF boot = NotFound THEN UNCHANGED iso
     ELSE SetRecord(boot, "size", boot.size - file_sector * SectorSize)
  /\ pc' = "enter"
  /\ UNCHANGED <<op, path, size, stat, boot, pos, ret, ops, before>>

(* The size in the volume descriptor is where the image ends.              *)
End_Last == iso.volume - 1

End == iso.volume

AtTheEnd ==
  /\ pc = "place" /\ ~use_boot_bin_flag
  /\ pos' = End
  /\ iso' = [iso EXCEPT !.volume = End + file_sector]
  /\ pc' = "enter"
  /\ UNCHANGED <<op, path, size, stat, boot, ret, ops, before>>

Record == [name |-> File(path), pos |-> pos, size |-> size, isdir |-> FALSE]

ParentOf(image, p) ==
  IF Parents(p) = <<>> THEN 1 ELSE iso_get_file_info(image, Parents(p)).pos

HasRoom(image, d) == d # 0 /\ Len(image.dir[d]) < MaxRecords

(* "TODO": a record for which there is no room is lost, as is one for a    *)
(* directory that is not there: no byte is written then.                   *)
EnterNew ==
  /\ pc = "enter" /\ iso_get_file_info(iso, path) = NotFound
  /\ LET d == ParentOf(iso, path)
     IN iso' = IF HasRoom(iso, d)
               THEN [iso EXCEPT !.dir[d] = Append(@, Record)] ELSE iso
  /\ pc' = "data"
  /\ UNCHANGED <<op, path, size, stat, boot, pos, ret, ops, before>>

EnterPos ==
  /\ pc = "enter"
  /\ stat' = iso_get_file_info(iso, path) /\ stat' # NotFound
  /\ SetRecord(stat', "pos", pos)
  /\ pc' = "entersize"
  /\ UNCHANGED <<op, path, size, boot, pos, ret, ops, before>>

EnterSize ==
  /\ pc = "entersize"
  /\ SetRecord(stat, "size", size)
  /\ pc' = "data"
  /\ UNCHANGED <<op, path, size, stat, boot, pos, ret, ops, before>>

AddData ==
  /\ pc = "data"
  /\ PutData(pos, file_sector)
  /\ Return(0)
  /\ UNCHANGED <<op, path, size, stat, boot, pos, ops, before>>

(* The process dies, or a write fails and the call returns.                *)
Die ==
  /\ pc # "idle"
  /\ Return(-1)
  /\ UNCHANGED <<iso, op, path, size, stat, boot, pos, ops, before>>

Next ==
  \/ Find
  \/ Write \/ WriteSize \/ WriteData
  \/ Add \/ TakeBoot \/ ShrinkBoot \/ AtTheEnd
  \/ EnterNew \/ EnterPos \/ EnterSize \/ AddData
  \/ Die

Spec == Init /\ [][Next]_vars

-----------------------------------------------------------------------------
Records(image) == {r \in (1 .. Len(image.dir)) \X (1 .. MaxRecords) :
                     r[2] \in DOMAIN image.dir[r[1]]}

Rec(image, r) == image.dir[r[1]][r[2]]

FilesOf(image) == {r \in Records(image) : ~Rec(image, r).isdir}

Extent(image, r) == SectorsFrom(Rec(image, r).pos, Sectors(Rec(image, r).size))

Read(image, r) == [s \in Extent(image, r) |-> image.data[s]]

(* The directory of a path by its exact names, and the records there.      *)
Exact(image, p) ==
  LET chains == {c \in [0 .. Len(p) - 1 -> 1 .. Len(image.table)] :
                   /\ c[0] = 1
                   /\ \A j \in 1 .. Len(p) - 1 :
                        /\ image.table[c[j]].name = p[j]
                        /\ image.table[c[j]].parent = c[j - 1]}
  IN {r \in Records(image) :
        Rec(image, r).name = File(p) /\ \E c \in chains : c[Len(p) - 1] = r[1]}

Names(image) == {Rec(image, r).name : r \in Records(image)}

(* No name begins with another one, nor does what is looked for.           *)
Unlike(image, p) ==
  \A a \in Names(image), b \in Names(image) \cup {p[j] : j \in DOMAIN p} :
    Matches(a, b) => a = b

(***************************************************************************)
(* What is found is what is there, by the names of all its directories; if *)
(* there is nothing, nothing is found.  Names must not begin with others.  *)
(***************************************************************************)
FindsExact ==
  op = "find" /\ Unlike(iso, path) =>
    IF stat = NotFound THEN Exact(iso, path) = {}
    ELSE Exact(iso, path) = {<<stat.dir, stat.record>>}

Same(r) == Rec(iso, r) = Rec(before, r) /\ Read(iso, r) = Read(before, r)

(* The records the call is about.                                          *)
Mine == Exact(before, path) \cup (IF op = "add" THEN Exact(before, BootPath) ELSE {})

(***************************************************************************)
(* The space is there: a file is not written longer than its sectors, and  *)
(* what is taken from BOOT.BIN is no more than the bytes it has.           *)
(***************************************************************************)
Room ==
  CASE op = "write" -> file_sector <= Sectors(stat.size)
    [] op = "add"   -> use_boot_bin_flag => file_sector * SectorSize <= boot.size
    [] OTHER -> TRUE

(* Files are within the volume, and no two of them share a sector.         *)
Apart(image) ==
  \A r \in FilesOf(image) :
    /\ Extent(image, r) \subseteq 0 .. image.volume - 1
    /\ \A q \in FilesOf(image) : r # q => Extent(image, r) \cap Extent(image, q) = {}

Given ==
  /\ Apart(before) /\ Room /\ Unlike(before, path)
  /\ op = "add" => Unlike(before, BootPath)

(***************************************************************************)
(* Neither a write nor an add, done or cut off at any step, changes what   *)
(* is read of any other file, if files were apart before and there is room.*)
(***************************************************************************)
OthersKept == Given => \A r \in FilesOf(before) \ Mine : Same(r)

Complete(call) == pc = "idle" /\ op = call /\ ret = 0

NoPlace ==
  LET d == ParentOf(before, path)
  IN Exact(before, path) = {} /\ ~HasRoom(before, d)

(***************************************************************************)
(* A file that was written or added is found, in its length and with its   *)
(* data, and files are still apart.                                        *)
(***************************************************************************)
Arrives ==
  /\ Complete("write") \/ Complete("add")
  /\ Given
  /\ op = "add" => ~NoPlace
  =>
  LET now == iso_get_file_info(iso, path)
  IN /\ now # NotFound /\ now.size = size
     /\ \A n \in 0 .. file_sector - 1 : iso.data[now.pos + n] = NewData(n)
     /\ Apart(iso)

(* Types of the variables.                                                 *)
TypeOK ==
  /\ pc \in {"idle", "writesize", "writedata", "place", "bootsize", "enter", "entersize",
             "data"}
  /\ path \in Paths \cup {BootPath} /\ size \in Sizes \cup {0} /\ ret \in {0, -1}
  /\ stat = NotFound \/ stat.record \in DOMAIN before.dir[stat.dir]
  /\ \A d \in DOMAIN iso.dir : Len(iso.dir[d]) <= MaxRecords

=============================================================================
