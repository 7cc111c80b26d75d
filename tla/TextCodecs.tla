----------------------------- MODULE TextCodecs -----------------------------
(***************************************************************************)
(* A text is encoded by one of the codecs, carried by something that may   *)
(* break its lines in another way, and decoded.  So are numbers, as UPS    *)
(* patches and as columns of sheets have them, characters of 16 bits,      *)
(* strings of a language file, and save games.                             *)
(***************************************************************************)
EXTENDS Integers, Sequences, SequencesExt

CONSTANTS
  Line,             \* of each codec, characters of a line: 76, 72, 79 or 78
  Byte,             \* the byte values of the texts
  Texts,            \* inputs of the codecs of 8 bit bytes
  WordBits,
  Values, Group, Radix, Space,
  Texts85,          \* inputs of Base85
  DigitBits, IntBits, LongBits,  \* of UpsNumber
  Alphabet, Numbers,             \* of ExcelBase, and what it is given
  MbLen, UcsLen, Units,          \* of Utf8
  Short, HeaderLen, PointerLen, Strings,                       \* of KauraLng
  Page, Chunk, HeadLen, FootLen, CopyMax, RleMax, Saves        \* of SaveFiles

Bit == INSTANCE BitGroups
B85 == INSTANCE Base85
B91 == INSTANCE Base91
Sat == INSTANCE SatCode
Num == INSTANCE UpsNumber
Xls == INSTANCE ExcelBase
Ucs == INSTANCE Utf8
Lng == INSTANCE KauraLng
Sav == INSTANCE SaveFiles

ASSUME NumberAssumption == Num!WidthAssumption

VARIABLES codec, infile, chars, outfile, stage

vars == <<codec, infile, chars, outfile, stage>>

Bases == [base64 |-> Bit!Base64(Line["base64"]), base32 |-> Bit!Base32(Line["base32"]),
          base16 |-> Bit!Base16(Line["base16"]), uuxx   |-> Bit!UUXX(Line["uuxx"])]

Fives == {"base85", "base85rfc"}

SaveFormats == Sav!Headed \cup {"dsv", "gds", "ngs"}

Whole == {"sat", "number", "excel", "utf8", "kauralng"} \cup SaveFormats

Inputs == CASE codec \in Fives       -> Texts85
            [] codec = "number"     -> {<<n>> : n \in 0 .. 2 ^ IntBits - 1}
            [] codec = "excel"      -> {<<n>> : n \in Numbers}
            [] codec = "utf8"       -> Units
            [] codec = "kauralng"   -> Strings
            [] codec \in SaveFormats -> Saves
            [] OTHER                -> Texts

Init ==
  /\ codec \in DOMAIN Bases \cup Fives \cup {"base91"} \cup Whole
  /\ infile \in Inputs
  /\ chars = <<>> /\ outfile = <<>> /\ stage = "encode"

compress == codec = "base85"

Encode ==
  /\ stage = "encode" /\ stage' = "carry"
  /\ chars' = CASE codec \in DOMAIN Bases -> Bit!Encoded(Bases[codec], infile)
                [] codec \in Fives    -> B85!Encoded(infile, compress, Line[codec])
                [] codec = "base91"   -> B91!Encoded(infile, Line[codec])
                [] codec = "sat"      -> Sat!Encoded(infile)
                [] codec = "number"   -> Num!encnum(infile[1])
                [] codec = "excel"    -> Xls!NumberToLetters(infile[1])
                [] codec = "utf8"     -> Ucs!ucs2tombs(infile)
                [] codec = "kauralng" -> Lng!Assembled(infile)
                [] codec \in SaveFormats -> Sav!Encoded(codec, infile)
  /\ UNCHANGED <<codec, infile, outfile>>

Carried(text) == chars' = text /\ stage' = "decode" /\ UNCHANGED <<codec, infile, outfile>>

Carry == stage = "carry" /\ Carried(chars)

(* Not for what is no text of lines.                                       *)
JoinLines ==
  /\ stage = "carry" /\ codec \notin Whole
  /\ LET Keeps(char) == char # Bit!NewLine IN Carried(SelectSeq(chars, Keeps))

Insert ==
  /\ stage = "carry" /\ codec \notin Whole
  /\ \E n \in 1 .. Len(chars) + 1, char \in {Bit!NewLine, Bit!Other} :
       Carried(InsertAt(chars, n, char))

Decode ==
  /\ stage = "decode" /\ stage' = "done"
  /\ outfile' = CASE codec \in DOMAIN Bases -> Bit!Decoded(Bases[codec], chars)
                  [] codec \in Fives  -> B85!Decoded(chars)
                  [] codec = "base91" -> B91!Decoded(chars)
                  [] codec = "sat"    -> Sat!Decoded(chars)
                  [] codec = "number" -> <<Num!decnum(chars)>>
                  [] codec = "excel"  -> Xls!LettersToNumber(chars)
                  [] codec = "utf8"   -> Ucs!mbstoucs2(chars)
                  [] codec = "kauralng"     -> Lng!Disassembled(chars)
                  [] codec \in SaveFormats -> Sav!Decoded(codec, chars)
  /\ UNCHANGED <<codec, infile, chars>>

Next == Encode \/ Carry \/ JoinLines \/ Insert \/ Decode

Spec == Init /\ [][Next]_vars

-----------------------------------------------------------------------------
(***************************************************************************)
(* What was encoded is decoded, wherever lines have been broken; but a     *)
(* short last group of zeros, for which xenobase85 writes what stands for  *)
(* a whole one, comes back as a whole one, and of a DeSmuME save only the  *)
(* whole chunks come back.  Lost are language files of 64 KB, saves that   *)
(* are not whole pages, and of the texts of 16 bit characters that fit     *)
(* exactly those with a character from 0x100000 on, or with two from       *)
(* 0xf800 on, or one of these and a surrogate, that the code takes for a   *)
(* pair.                                                                   *)
(***************************************************************************)
ShortZeros ==
  /\ compress /\ Len(infile) % Group # 0
  /\ \A k \in Len(infile) - (Len(infile) % Group) + 1 .. Len(infile) : infile[k] = 0

Expected ==
  IF ShortZeros THEN infile \o [k \in 1 .. Group - (Len(infile) % Group) |-> 0]
  ELSE IF codec = "dsv" THEN SubSeq(infile, 1, (Len(infile) \div Chunk) * Chunk)
  ELSE infile

Kept ==
  CASE codec = "utf8"         -> Len(infile) < UcsLen
    [] codec = "kauralng"     -> Lng!Fits(infile)
    [] codec \in SaveFormats -> Len(infile) % Page = 0
    [] OTHER                  -> codec \notin {"number", "excel"}

Damaged == codec = "utf8" /\ (Ucs!LastPlane(infile) \/ Ucs!Mistaken(infile))

RoundTrip == stage = "done" /\ Kept => (outfile = Expected <=> ~Damaged)

(***************************************************************************)
(* "Save Converter supporting ... DeSmuME": a save game that was made a    *)
(* DeSmuME save can be made a save game again.                             *)
(***************************************************************************)
DsvRestored == stage = "done" /\ codec = "dsv" /\ Len(infile) % Page = 0 => outfile = infile

(***************************************************************************)
(* A size or distance that an int can hold is read back as it was written, *)
(* in as many digits as the model of the patch (Ups) counts.  From about   *)
(* 2^31 on the last digit overflows, and what is read is not a size near   *)
(* it but one no memory has.  The number of a column is read back from its *)
(* letters, unless two of its digits are zeros and all between are ones.   *)
(***************************************************************************)
CountsDigits == Len(chars) = Num!NumberBytes(infile[1])

NumberReadBack ==
  /\ stage = "done" /\ codec = "number" =>
       /\ CountsDigits
       /\ \/ outfile = infile
          \/ /\ infile[1] >= 2 ^ (IntBits - 1)
             /\ outfile[1] >= 2 ^ LongBits - 2 ^ (IntBits - 1)
  /\ stage = "done" /\ codec = "excel" =>
       outfile = infile <=> ~Xls!BorrowsTwice(infile[1])

(***************************************************************************)
(* Every digit is in its table, and no line is longer than it may be,      *)
(* although the length is compared only once a byte, or a group of them,   *)
(* has been written, and "=" is not counted; with "=" there are only whole *)
(* groups.                                                                 *)
(***************************************************************************)
Table == CASE codec \in DOMAIN Bases -> 2 ^ Bases[codec].bits
           [] codec \in Fives    -> Radix
           [] codec = "base91"   -> 91

WellFormed ==
  stage = "carry" /\ codec \notin Whole =>
    /\ \A n \in DOMAIN chars : chars[n] < Table
    /\ \A n \in 1 .. Len(chars) - Line[codec] :
         \E m \in n .. n + Line[codec] : chars[m] = Bit!NewLine
    /\ codec \in {"base64", "base32"} =>
         LET Char(char) == char # Bit!NewLine
         IN Len(SelectSeq(chars, Char)) % (IF codec = "base64" THEN 4 ELSE 8) = 0

=============================================================================
