------------------------------- MODULE IniFile ------------------------------
(***************************************************************************)
(* INI files (lib/minIni.c, applet/cmdini.c).  ini_puts copies the file,   *)
(* line by line, to a temporary one, whose name is that of the file with   *)
(* its last character changed to "~", removes the file and renames the     *)
(* temporary one.  ini_gets reads it.                                      *)
(*                                                                         *)
(* A file is a sequence of texts and ends of lines: a text not preceded by *)
(* one has been glued to the line before it and is not seen.  A line that  *)
(* is longer than the buffer lines are read into is read in several texts, *)
(* each as if it were a line: Cut is where the buffer was full.  A process *)
(* may die between any two steps, with any part of what it has written on  *)
(* the disk, and the disk may be full.                                     *)
(***************************************************************************)
EXTENDS Integers, Sequences, FiniteSetsExt

CONSTANTS
  Files,            \* names of files
  TempName,         \* ini_tempname: a file for each of them
  Names,            \* of sections and keys; the empty one is NoName
  NoName,
  Fold,             \* one name for all that differ in case only
  Bare,             \* what skipleading leaves of a name that begins a line
  Values,
  Read,             \* what is read of a value that was written
  Absent, Null,     \* no file; no key or value (erase)
  Contents,         \* contents of files to start from
  Requests,         \* arguments of ini_puts
  MaxPuts

ASSUME NamesAssumption  == NoName \in Names /\ Null \notin Names \cup Values
ASSUME TempAssumption   == TempName \in [Files -> Files]
ASSUME FoldAssumption   == /\ Fold \in [Names -> Names] /\ Bare \in [Names -> Names]
                           /\ \A name \in Names : Bare[Bare[name]] = Bare[name]
ASSUME ReadAssumption   == /\ Read \in [Values -> Values]
                           /\ \A value \in Values : Read[Read[value]] = Read[value]
ASSUME MaxPutsAssumption == MaxPuts \in Nat

VARIABLES
  disk,             \* content of each file, or Absent
  pc,               \* where ini_puts is
  req,              \* its arguments
  rfp, wfp,         \* what is left to read; what has been written
  ret, puts,
  before,           \* the disk when it was called
  full              \* something could not be written, and the call goes on

vars == <<disk, pc, req, rfp, wfp, ret, puts, before, full>>

-----------------------------------------------------------------------------
Text(kind, name, value) == [kind |-> kind, name |-> name, value |-> value]

Texts   == [kind : {"end", "cut", "section", "key", "comment"}, name : Names,
            value : Values \cup {Null}]
Content == Seq(Texts)

LineTerm   == Text("end", NoName, Null)

(* INI_BUFFERSIZE - 1 characters after the one before it, or the end of a  *)
(* line; nothing is written to the file for it.                            *)
Cut        == Text("cut", NoName, Null)
IsText(t)  == t \notin {LineTerm, Cut}

(* Each text has a line of its own, or a part of one that fills the buffer *)
(* and has no blanks in front, without which it would not fill it any      *)
(* more; and what a key says is what is read.                              *)
Tidy(c) ==
  /\ c \in Content
  /\ \A n \in DOMAIN c : n > 1 /\ IsText(c[n]) => ~IsText(c[n - 1])
  /\ \A n \in DOMAIN c : c[n] = Cut =>
       n > 1 /\ IsText(c[n - 1]) /\ Bare[c[n - 1].name] = c[n - 1].name
  /\ \A n \in DOMAIN c : c[n].kind = "key" =>
       c[n].value \in Values /\ Read[c[n].value] = c[n].value

ASSUME ContentsAssumption == Absent \notin Content /\ \A c \in Contents : Tidy(c)
ASSUME RequestsAssumption ==
  \A r \in Requests : /\ r.file \in Files /\ r.section \in Names
                      /\ r.key \in Names \cup {Null} /\ r.value \in Values \cup {Null}

Section(s) == <<Text("section", s, Null), LineTerm>>
Entry(k, v) == <<Text("key", k, Read[v]), LineTerm>>

SameName(a, b) == Fold[a] = Fold[b]

IsSection(t, s) == t.kind = "section" /\ SameName(t.name, s)

(* A key begins its line, and skipleading takes what looks like a blank.   *)
IsKey(t, k) == t.kind = "key" /\ k # Null /\ SameName(Bare[t.name], k)

(* The texts that begin a line.                                            *)
Lines(c) == {n \in DOMAIN c : IsText(c[n]) /\ (n = 1 \/ ~IsText(c[n - 1]))}

Sections(c) == {n \in Lines(c) : c[n].kind = "section"}

FirstOr(ns, none) == IF ns = {} THEN none ELSE Min(ns)

(* The lines of a section: of the first of its name.                       *)
Area(c, s) ==
  LET start == IF s = NoName THEN 0
               ELSE FirstOr({n \in Sections(c) : IsSection(c[n], s)}, Len(c) + 1)
      final == FirstOr({n \in Sections(c) : n > start}, Len(c) + 1)
  IN {n \in Lines(c) : start < n /\ n < final}

(* getkeystring; comments are of another kind.                             *)
Found(c, s, k) == {n \in Area(c, s) : IsKey(c[n], k)}

ini_gets(c, s, k) ==
  IF c = Absent \/ Found(c, s, k) = {} THEN Null ELSE c[Min(Found(c, s, k))].value

-----------------------------------------------------------------------------
Init ==
  /\ disk \in [Files -> Contents \cup {Absent}]
  /\ pc = "idle" /\ req \in Requests /\ rfp = <<>> /\ wfp = <<>>
  /\ ret = 1 /\ puts = 0 /\ before = disk /\ full = FALSE

File    == req.file

Temp_Same == File

Temp    == TempName[File]
IsSet   == req.key # Null /\ req.value # Null

Return(code) == pc' = "returned" /\ ret' = code

Added == IF IsSet THEN Entry(req.key, req.value) ELSE <<>>
Header == IF req.section = NoName THEN <<>> ELSE Section(req.section)

Call ==
  /\ pc \in {"idle", "returned"} /\ puts < MaxPuts
  /\ puts' = puts + 1 /\ before' = disk /\ full' = FALSE
  /\ req' \in Requests /\ rfp' = <<>> /\ wfp' = <<>>
  /\ pc' = "open"
  /\ UNCHANGED <<disk, ret>>

(* "If the .ini file doesn't exist, make a new file."                      *)
Create ==
  /\ pc = "open" /\ disk[File] = Absent
  /\ IF IsSet
     THEN /\ disk' = [disk EXCEPT ![File] = <<>>]
          /\ wfp' = Header \o Added /\ pc' = "closenew" /\ UNCHANGED ret
     ELSE Return(1) /\ UNCHANGED <<disk, wfp>>
  /\ UNCHANGED <<req, rfp, puts, before, full>>

(* "This early bail-out avoids rewriting the INI file for no reason."      *)
Bail ==
  /\ pc = "open" /\ disk[File] # Absent
  /\ IsSet /\ ini_gets(disk[File], req.section, req.key) = req.value
  /\ Return(1)
  /\ UNCHANGED <<disk, req, rfp, wfp, puts, before, full>>

(* A file that is its own temporary one is truncated while it is read: the *)
(* reader has it in its buffer, or sees nothing of it.                     *)
OpenTemp ==
  /\ pc = "open" /\ disk[File] # Absent
  /\ ~(IsSet /\ ini_gets(disk[File], req.section, req.key) = req.value)
  /\ disk' = [disk EXCEPT ![Temp] = <<>>]
  /\ rfp' \in {disk[File], disk'[File]}
  /\ pc' = IF req.section = NoName THEN "key" ELSE "section"
  /\ UNCHANGED <<req, wfp, ret, puts, before, full>>

OpenFails ==
  /\ pc = "open" /\ (disk[File] = Absent => IsSet)
  /\ ~(IsSet /\ ini_gets(disk[File], req.section, req.key) = req.value)
  /\ Return(0)
  /\ UNCHANGED <<disk, req, rfp, wfp, puts, before, full>>

-----------------------------------------------------------------------------
(* A line is read with its end, which the last one may lack, or as far as  *)
(* the buffer goes.                                                        *)
LineOf(c) ==
  SubSeq(c, 1, FirstOr({n \in DOMAIN c : ~IsText(c[n])}, Len(c)))

Line    == LineOf(rfp)
Head1   == Line[1]
IsBlank == ~IsText(Head1)

SkipLine == rfp' = SubSeq(rfp, Len(Line) + 1, Len(rfp))

(* What skipleading has taken from a line is not copied.                   *)
Copied ==
  IF IsBlank THEN <<>>
  ELSE [Line EXCEPT ![1].name = IF Head1.kind = "key" THEN Bare[@] ELSE @]

NewLineBefore(wanted) == IF Head1.kind = "section" /\ wanted THEN <<LineTerm>> ELSE <<>>

Write(texts) == wfp' = wfp \o texts

Matches == ~IsBlank /\ IsSection(Head1, req.section)

CopySection ==
  /\ pc = "section" /\ rfp # <<>> /\ SkipLine
  /\ pc' = IF Matches THEN "key" ELSE "section"
  /\ IF Matches /\ req.key = Null
     THEN UNCHANGED wfp
     ELSE Write(NewLineBefore(wfp # <<>>) \o Copied)
  /\ UNCHANGED <<disk, req, ret, puts, before, full>>

(* "force a new line (there may not have been one) behind the last line"   *)
EndLine_Not == <<>>

EndLine == IF IsSet THEN <<LineTerm>> ELSE <<>>

AppendSection ==
  /\ pc = "section" /\ rfp = <<>>
  /\ Write(EndLine \o (IF IsSet THEN Header ELSE <<>>) \o Added)
  /\ pc' = "close"
  /\ UNCHANGED <<disk, req, rfp, ret, puts, before, full>>

AppendKey ==
  /\ pc = "key" /\ rfp = <<>>
  /\ Write(EndLine \o Added)
  /\ pc' = "close"
  /\ UNCHANGED <<disk, req, rfp, ret, puts, before, full>>

MatchesKey == ~IsBlank /\ IsKey(Head1, req.key)

CopyKey ==
  /\ pc = "key" /\ rfp # <<>> /\ ~MatchesKey /\ Head1.kind # "section"
  /\ SkipLine
  /\ IF req.key # Null THEN Write(Copied) ELSE UNCHANGED wfp
  /\ UNCHANGED <<disk, pc, req, ret, puts, before, full>>

(* "ignore the line just read and write the key with the new value"        *)
ReplaceKey ==
  /\ pc = "key" /\ rfp # <<>> /\ MatchesKey
  /\ SkipLine /\ Write(Added) /\ pc' = "rest"
  /\ UNCHANGED <<disk, req, ret, puts, before, full>>

(* "put a blank line between the current and the next section"             *)
InsertKey == (IF IsSet THEN Added \o <<LineTerm>> ELSE <<>>) \o Copied

NextSection ==
  /\ pc = "key" /\ rfp # <<>> /\ Head1.kind = "section"
  /\ SkipLine /\ Write(InsertKey) /\ pc' = "rest"
  /\ UNCHANGED <<disk, req, ret, puts, before, full>>

CopyRest ==
  /\ pc = "rest" /\ rfp # <<>>
  /\ SkipLine /\ Write(NewLineBefore(TRUE) \o Copied)
  /\ UNCHANGED <<disk, pc, req, ret, puts, before, full>>

-----------------------------------------------------------------------------
Flushed == {SubSeq(wfp, 1, n) : n \in 0 .. Len(wfp)}

Written(name, part) == disk' = [disk EXCEPT ![name] = part]

(* The results of the writes and of ini_close are not looked at: a disk    *)
(* that is full, and stays so, leaves a part.                              *)
Closed(name) ==
  \E part \in Flushed : Written(name, part) /\ full' = (part # wfp)

CloseNew ==
  /\ pc = "closenew" /\ Closed(File) /\ Return(1)
  /\ UNCHANGED <<req, rfp, wfp, puts, before>>

Close ==
  /\ pc = "close" \/ (pc = "rest" /\ rfp = <<>>)
  /\ Closed(Temp) /\ pc' = "remove"
  /\ UNCHANGED <<req, rfp, wfp, ret, puts, before>>

Removed_Temp == Temp

Removed == File

RemoveOld ==
  /\ pc = "remove"
  /\ disk' = [disk EXCEPT ![Removed] = Absent]
  /\ pc' = "rename"
  /\ UNCHANGED <<req, rfp, wfp, ret, puts, before, full>>

(* rename fails when there is nothing to rename, which nobody notices.     *)
Rename ==
  /\ pc = "rename" /\ Return(1)
  /\ disk' = IF disk[Temp] = Absent THEN disk
             ELSE [disk EXCEPT ![File] = disk[Temp], ![Temp] = Absent]
  /\ UNCHANGED <<req, rfp, wfp, puts, before, full>>

(* The process dies, with a part of what it wrote on the disk.             *)
Die ==
  /\ pc \notin {"idle", "returned"}
  /\ pc' = "idle"
  /\ \E part \in Flushed :
       CASE pc = "closenew" -> Written(File, part)
         [] pc \in {"section", "key", "rest", "close"} -> Written(Temp, part)
         [] OTHER -> UNCHANGED disk
  /\ UNCHANGED <<req, rfp, wfp, ret, puts, before, full>>

Next ==
  \/ Call \/ Create \/ Bail \/ OpenTemp \/ OpenFails
  \/ CopySection \/ AppendSection \/ AppendKey
  \/ CopyKey \/ ReplaceKey \/ NextSection \/ CopyRest
  \/ CloseNew \/ Close \/ RemoveOld \/ Rename \/ Die

Spec == Init /\ [][Next]_vars

-----------------------------------------------------------------------------
Distinct == TempName[File] # File

(***************************************************************************)
(* Types of the variables: no line of any file is ever glued to another,   *)
(* not even by a death or a full disk, and what is to be renamed is there. *)
(***************************************************************************)
TypeOK ==
  /\ disk \in [Files -> Content \cup {Absent}]
  /\ \A f \in Files : disk[f] = Absent \/ Tidy(disk[f])
  /\ Tidy(rfp) /\ Tidy(wfp)
  /\ pc \in {"idle", "open", "section", "key", "rest", "close", "closenew",
             "remove", "rename", "returned"}
  /\ req \in Requests /\ ret \in {0, 1} /\ puts \in 0 .. MaxPuts
  /\ pc = "rename" /\ Distinct => disk[Temp] # Absent

Old == IF before[File] = Absent THEN <<>> ELSE before[File]

Changed(s, k) == SameName(s, req.section) /\ (req.key = Null \/ SameName(k, req.key))

Twice == Cardinality(Found(Old, req.section, req.key)) > 1

Remarks(c) == {n \in DOMAIN c : c[n].kind = "comment"}

(* The same remarks in the same order.                                     *)
SameRemarks(c, d) ==
  \E f \in [Remarks(c) -> Remarks(d)] :
    /\ \A m \in Remarks(d) : \E n \in Remarks(c) : f[n] = m
    /\ \A m, n \in Remarks(c) : m < n => f[m] < f[n]
    /\ \A n \in Remarks(c) : d[f[n]] = c[n]

(***************************************************************************)
(* A content is what the call is to leave: the value is there, or is gone, *)
(* and every other key of every section has the value it had.  A value     *)
(* erased that was there twice shows its second one.                       *)
(***************************************************************************)
Good(c) ==
  /\ \A s, k \in Names : Changed(s, k) \/ ini_gets(c, s, k) = ini_gets(Old, s, k)
  /\ IsSet => ini_gets(c, req.section, req.key) = Read[req.value]
  /\ req.key # Null /\ ~IsSet /\ ~Twice => ini_gets(c, req.section, req.key) = Null
  /\ req.key # Null => SameRemarks(c, Old)

(* A beginning of what the call makes of the file.                         *)
Begun(c) == c \in Flushed /\ Good(wfp)

(***************************************************************************)
(* No file is touched but that of the call and its temporary one, and a    *)
(* call that returns 0 has changed nothing.  One that returns 1 has left   *)
(* what it was to leave; but if the disk was full, of which it is not      *)
(* told, only a beginning of it.                                           *)
(***************************************************************************)
OthersUntouched == \A f \in Files \ {File, Temp} : disk[f] = before[f]

Stores ==
  /\ OthersUntouched
  /\ pc = "returned" /\ ret = 0 => disk = before
  /\ pc = "returned" /\ ret = 1 /\ Distinct =>
       /\ disk[File] # Absent \/ (before[File] = Absent /\ ~IsSet)
       /\ disk[File] # Absent => Good(disk[File]) \/ (full /\ Begun(disk[File]))

(***************************************************************************)
(* Whenever the process dies, and to whoever reads the file meanwhile, it  *)
(* is as it was or all the call makes of it; or it is not there, and then  *)
(* the temporary file is all of it.  It is seen in part, as a beginning of *)
(* it, only if it was not there before and is written in place, or if the  *)
(* disk was full, for no result of a write is looked at before the old     *)
(* file is removed.                                                        *)
(***************************************************************************)
NeverInPart ==
  Distinct =>
    \/ disk[File] = before[File]
    \/ disk[File] # Absent /\ Good(disk[File])
    \/ disk[File] = Absent /\ disk[Temp] # Absent /\ Good(disk[Temp])
    \/ /\ full \/ before[File] = Absent
       /\ IF disk[File] = Absent THEN Begun(disk[Temp]) ELSE Begun(disk[File])

=============================================================================
