# xenobox in TLA+

xenobox is a multi-call program in C, in the manner of busybox: some 190 small
tools ("applets") for the files of game consoles in one executable, about
19 000 lines of its own besides vendored libraries (lzma, zopfli, libnsbmp,
minIni, hashes). It has no tests. This directory holds TLA+ models of the
applets whose logic is more than bytes in, bytes out, TLC configurations that
check them on small instances, and TLAPS proofs, for all files and all values of
the constants, about the patchers, the disc images, the INI files, LZSS and the Brainfuck
interpreter.

1. [The system](#1-the-system)
2. [Modules](#2-modules)
3. [How the models correspond to the code](#3-how-the-models-correspond-to-the-code)
4. [Runs, bounds and what they show](#4-runs-bounds-and-what-they-show)
5. [Fairness and deadlock](#5-fairness-and-deadlock)
6. [What is proved](#6-what-is-proved)
7. [Where code and description disagree](#7-where-code-and-description-disagree)
8. [What is not modelled](#8-what-is-not-modelled)
9. [Plan](#9-plan)

## 1. The system

`main` (`xenobox.c`) looks `argv[0]`, then `argv[1]`, up in a sorted table and
calls one function. There are no threads, no signals and no callbacks; an applet
starts, reads files and pipes, writes files and pipes, and exits with a code.
What is hard in this code is therefore not interleaving inside a process but

* **two programs that must agree**: the maker of a patch and the program that
  applies it, an encoder and a decoder, a compressor and a reader, possibly run
  on different days with a pipe or a full disk in between;
* **partial failure**: patchers run over a patch twice, once dry and once in
  memory, and assume that the second run meets what the first one met; an INI
  file or a disc image is changed in several writes;
* **limits of formats**: records that hold 255 or 65535 bytes, addresses of
  24 bits, trailers that look like data, the last short group of a text, the
  last partial block of an image;
* **data structures in place**: a ring with search trees, a tape with a
  recursive interpreter, a driver whose pointers are moved while it is read;
* **crash windows and stale memory**: an INI file that is removed before its
  replacement is renamed, buffers that still hold what was read before.

| Component | State it keeps | Operations | Talks to | Hard | Correct when |
|---|---|---|---|---|---|
| IPS, `applet/xenoips.c` | cursors over two files, a region, what a record call still has to write; patch cursor, memory image | make, patch | patch file, file on disk | record limits, run-length fills, trailer, cut patches, uninitialized memory | patch carries the old file to the new; all or nothing; cut is noticed |
| UPS, `applet/xenoups.c` | the same, and three CRCs, direction | make, patch forwards or backwards | the same | direction, extending and cutting the file, number coding | toggles between exactly two files |
| PPF, `applet/xenoppf.c` | the same, version, undo data, direction | make, patch (three versions) | the same | second run fails late, undo | all or nothing; a reverse patch, announced, changes nothing |
| WIPS, `applet/xenowips.c` | the same, offset and length of the last record | make, patch | the same | relative addresses, unknown records, wrong file | records land where they were meant to |
| Drivers of the patchers, dispatch | number of arguments, terminals, exit code | choose make or patch, report | the four above, the shell | codes that are or-ed, results that are dropped | a reported failure has left the file alone |
| GBA LZSS, `lib/gbalzss.c` | ring, trees `lson`/`rson`/`dad` | InsertNode, DeleteNode, encode, decode | `gbalzssrawstdio` and the splash tools | trees while strings come and go, wrap-around, VRAM mode | decodes to the input; finds the longest match |
| Brainfuck, `applet/xenobf.c` | tape, recursion of `execute`, bracket search | load, check, execute | console | search again after a loop, unmatched brackets | behaves as the flat program |
| Text codecs, `xenobase64/32/16/85/91`, `xenouuencode`, `xenoxxencode`, `satencode`, UTF-8 in `lib/xutil.c`, `xenoexcelbase` | bit accumulator, group, line position | encode, decode | pipes | short last groups, line ends, 13 or 14 bits, surrogates | decodes to the input, lines well formed |
| Script assembler, `kauralngasm`, `kauralngdis` | table of pointers of 16 bits | assemble, disassemble | files | a pointer that wraps | a round trip |
| Save games, `applet/savconv.c` | header, chunk, run-length state | convert between six formats | files | footers across chunks, padding | a round trip |
| INI files, `lib/minIni.c`, `applet/cmdini.c` | file, temporary file | get, put, delete | file system | death between remove and rename, shared temporary names | a key changes, all others stay; never a part of a file |
| Disc image blocks, `applet/getdiscid/{ciso,dax,jiso}.c`, `xenociso`, `xenojiso`, `xenodaxcr` | index table, shared block buffer | compress, read, write a range, unpack | each other through the file | last block, alignment, writes that no longer fit | a read is that of the flat image |
| Files in disc images, `applet/getdiscid/iso.c` | path table, directory, sectors | look up, overwrite, add | the blocks | names that begin others, six writes without a check | other files stay |
| DLDI, `applet/dldipatch.c` | driver image, up to three passes | relocate, patch a binary | homebrew | ranges that overlap, a binary as the template | every pointer is moved once by the same offset |
| Cheat databases, `applet_stl/merge*.cpp` | map from game to folders and cheats | read, merge, write | files | merging again and again, counts that grow | merge is a union |
| Splash screens, `createsplash`, `opensplash` | frames, sizes, times | make for four programs, open, next frame | zlib, LZSS | differences over the last frame, guessing the format | opened as made, drawn as made |
| `unlzop` | header flags, block, copy distances | unpack with checks | pipes | sums that are not compared, copies that overlap | "ok" means whole |
| `openpatch`, `openpatch_single`, `binreplace` | place in a database, two flags, a read buffer | find, check, patch, reverse | game and database | versions with one ID, flags over a search, stale buffer | a whole entry or nothing |

`PROJECT.json` lists these and all the other parts, 35 of them, with their
sources and a reason for each that is not modelled, and the hazards of the code
at their lines, with the properties that would catch each one.

## 2. Modules

| Part | Modules | Composed in | Promise it is held against |
|---|---|---|---|
| IPS | `IpsFormat` (the file format), `IpsMake` (`ipsmake`, `RLE`, `ipswrite`, `ipsfill`), `IpsPatch` (`_ipspatch`, `ipspatch`) | `IpsSystem` (the two and the way between them) | `IpsPatchSpec`: one atomic step |
| UPS | `Regions`, `Ups`, `UpsNumber` (`encnum`, `decnum` in machine integers) | `PatchTools` | `Toggles` |
| PPF, WIPS | `Regions`, `Ppf`, `Wips` | `PatchTools` | `AllRecords` |
| drivers, dispatch | `PatchTools` | | |
| GBA LZSS | `Gbalzss` | | identity, and the longest match by search |
| Brainfuck | `XenoBf` | | `Brainfuck`: a flat program whose brackets jump |
| text and files that are converted | `BitGroups` (base64, 32, 16, uu, xx), `Base85`, `Base91`, `SatCode`, `UpsNumber`, `ExcelBase`, `Utf8`, `KauraLng`, `SaveFiles` | `TextCodecs` | identity |
| INI files | `IniFile` | | `Good`: one key changes |
| disc images | `BlockImages`, `IsoTree` | `DiscImages` | the flat image; the names of a path, and the files before |
| cartridges | `Dldi`, `CheatMerge`, `Splash`, `Lzop`, `BytePatchers` | `FlashcartTools` | union, identity, inverses |

`PatchTools`, `DiscImages`, `TextCodecs` and `FlashcartTools` compose their parts
with `INSTANCE`: an applet is chosen at the start, its part takes steps, what
the others would keep stays as it is. Variables that mean the same have one
name. In `PatchTools` the drivers stand around the parts; in `TextCodecs` there
is the way a text takes between encoder and decoder. Each composite names the
property of each part once more (`UpsToggles == applet = "xenoups" =>
U!Toggles`) and merges those that state one thing together: `Merges` is that
nothing is lost, nothing added twice and all read back; `OpensAsMade` includes
`KeepsTime`; `KeepsRest` and `PatchesWhole` include the types of their part;
`Decodes` of `Gbalzss` includes `HalfwordSafe`. The assumptions on the constants
of the parts are stated there (`UpsAssumption`, `PpfAssumption`,
`WipsAssumption`, `BlocksAssumption`, `TreeAssumption`, `NumberAssumption`), as
`INSTANCE` does not carry them over.

`Regions` is the scan for differing regions that the UPS, PPF and WIPS makers
share but for one constant; `IpsMake` models its own step by step, for in IPS
the scan and what consumes a region are where the difficulties are. `MC*`
modules hold only what TLC needs: the sizes of files, the texts, and the patches
of other makers (the texts of `XenoBf` and `Gbalzss` stand at the end of the
modules themselves). `IpsSystemProofs`, `PatchToolsProofs`, `DiscImagesProofs`,
`IniFileProofs`, `XenoBfProofs`, `GbalzssProofs` and `FlashcartToolsProofs` hold the
theorems; that of `SatCode` is in the module itself. Each extends the module it is about.

An operator whose name ends in an underscore and a word, such as `Gap_Two` or
`Loaded_NotRead`, is a deliberately wrong form of the operator defined behind it.
The models never use it. `PROJECT.json` pairs it with a property: put in the
place of the right form, it must make TLC find that property violated, which
shows that the property can fail and why it is there.

## 3. How the models correspond to the code

The `map` of `PROJECT.json` gives the lines of every definition. Conventions:

* An action is one iteration of a loop or one call with everything it does. The
  names of variables are those of the C locals; `pc`, `mpc` (maker), `ppc`
  (patcher) and `stage` say where the function is; `ret` is what it returns.
* A file is a function from positions to bytes with its size beside it, or a
  sequence. A patch file is the sequence of its records with, where it matters,
  the byte offset of each, so that it can be cut at any byte.
* A byte is a model value or a small number; in UPS the set of its bits, so that
  exclusive or is the symmetric difference.
* A CRC is compared by what it was computed from. Different files are thus taken
  to have different CRCs, and a damaged UPS patch never to match its own.
* Memory from `malloc` that nothing has written is the constant `Indeterminate`
  (IPS) or a `Stale` byte. An access behind a block, or through a null pointer,
  ends in the stage "crashed", and what the code may do after running off the
  end of a patch is any outcome (`DryAstray`, `ApplyAstray` in WIPS, "astray" in
  Brainfuck).
* Failing allocation is an action of its own where it is an error path after
  the decision to patch (`NoMemory`); before that nothing has changed.

Per part:

* **IPS.** `IpsMake` moves `i`, `final`, `address`, `size` and `patchofs` as the
  nested loops do. What a call of `ipswrite` or `ipsfill` has left to write is
  `wr` and `fl`, one chunk per step. `RLE` is stated by what it returns
  (`IsRun`): the first sufficient run, to its end, never one that only just fits
  at the end of the region, as its loop condition has it. `IpsPatch` is the dry
  run (`Dry*`), the load of the file into memory (`Load`), the second run
  (`ApplyRecord`, `ApplyEnds`, whose result is dropped) and `WriteBack`.
  `IpsSystem` composes them: make, `Carry` any prefix of the patch, apply.
* **UPS.** One region per step in the maker, gap 1 ("using gap isn't allowed").
  `TooFar` is the code's comparison of a file offset with a patch length, as it
  stands. `Identify` picks the direction by CRC; `WriteBack` and `Truncate` are
  two steps, for the file is written before it is cut. `UpsNumber` computes
  `decnum` in an `int` that wraps around and is sign extended into 64 bits;
  `Ups` needs only how many bytes a number takes, `NumberBytes`, which
  `NumberReadBack` ties to the code.
* **PPF.** The versions differ in whether the file is looked at in the dry run
  (`ReadsFile`: a null pointer there), in block check and in undo data, which
  is compared but never put back: the new bytes are copied over it.
  `Direction` is the code's `isReverse`, settled by the first record.
* **WIPS.** The maker's distances count from the end of the region before
  (`current_end`), the patcher's from the start of the record before
  (`offset`); both are kept, and `address` remembers what the maker meant.
* **PatchTools.** `Dispatch` is `main`; `Mode` tells making from patching by the
  number of arguments and what is a terminal, as the three drivers do; `ExitCode`
  is `ret ? ret | 0x10 : 0`. `Run` is any step of the tool called. UPS can be
  applied `MaxRuns` times to the file the call before left.
* **LZSS.** `InsertNode` is a walk, one node per step (`Descend`, `Attach`),
  `DeleteNode` and the slide of the window one step (`Pass`). `Tree`, `InPlace`
  and `Detached` are its pointer assignments, in order. The codes are kept as
  records; how eight flags share a byte is left out. The ring may hold stale
  bytes of a former call behind its filled part, since `text_buf` is static.
* **Brainfuck.** `frames` is the C stack of `execute`. `marker` counts the
  brackets of the search for a loop's end; a caller searches again after its
  loop has run. Cells have 2 bits instead of 8. The tape is a few cells, one of
  them in front of the first.
* **Text codecs.** Encoders and decoders are folds over the text with the
  accumulator, bit count and line position of the code; characters are the
  values of digits, the tables' letters are left out, so that what depends on
  the case of a letter, or on a byte 0 found at the end of a table, is not seen.
  `TextCodecs` runs a text through one, lets the way break, join or disturb
  lines, and decodes. The same frame carries wide strings through UTF-8,
  strings through a `kauralng` file, columns through `xenoexcelbase`, and save
  games through each format of `savconv`.
* **INI files.** `ini_puts` copies the file a line per step (`CopySection`,
  `AppendSection`, `CopyKey`, `ReplaceKey`, `InsertKey`, ...), then `Close`,
  `RemoveOld`, `Rename`. `Die` may happen at any step, with any part of what was
  written on the disk, up to the middle of a write; a full disk (`full`) leaves a
  part that nobody notices. A file is a sequence of texts and line ends, as the
  last line may lack its end. A line longer than `INI_BUFFERSIZE` is read in
  several texts, each as if it were a line; `Cut` marks where the buffer was full.
  How many characters that takes is abstracted, so that the parts of a line that
  lost blanks in front are not counted anew: such lines are left out (`Tidy`), and
  the section, key and value of a call are taken to fit a line.
* **Disc image blocks.** The block of an image is stored in any length up to a
  `Limit`, or plain; the index is shifted by `align`. Reads and writes go block
  by block through the one buffer `__decompbuf`. Only xenociso writes images
  here; all readers and unpackers read them. `lost` is a history variable: the
  bytes of the image that writes have cost, since `deflate_cso` stores what there
  is room for and is not asked whether it ended, and since of a last block that is
  not whole nothing is read before it is written.
* **Files in images.** Names are sequences of letters, so that one may begin
  another. A lookup walks the path table and the directory; an add is its six
  writes, each a step at which the program may be cut off. Calls are taken that
  write over no directory (`NoDirectory`), whose records would be data then, and
  whose sectors there are.
* **DLDI.** Words of the driver are moved in the passes of the code, a word per
  step, each judged (`LooksPointer`) by its value at that time. A second call
  takes the homebrew just patched for its template.
* **Cheats.** Folders and cheats are the records of the file with the count in
  the first word of a folder. `_merge` is never cleared, as in the code.
* **Splash.** A frame is a picture of a few pixels. A compressor is what it may
  return: any length the constants allow. The reader guesses the format from
  sums of sizes, and refuses what has more frames than it takes (`FrameMax`) or a
  frame that is longer than its buffers (`flag1`, `flag2`), which the maker does
  not ask about.
* **unlzop.** A file is a sequence of fields whose kind is known to the property
  but not to the program, which reads fields in order; one may be damaged or the
  file cut. The decompressor is the code's jumps, one instruction per step.
* **Byte patchers.** A database is a sequence of entries; `comp` is what a record
  is compared with, of which `Fread` changes only as many cells as the file has
  bytes.

## 4. Runs, bounds and what they show

Constants of a format are scaled down so that files of a few bytes meet every
limit; each bound is named in its cfg.

| Run | Instance | Checks |
|---|---|---|
| `IpsRoundTrip` | all pairs of files of up to 6 bytes over 2 values; limit of files 5, of records 3, gap 2, fills from 4, trailer at address 3 | `MakeTypeOK`; `RecordsRight`: records set bytes of the new file and fit their fields; `RoundTrip`; `TruncationDetected`; `OldOrNew`; `Terminates` |
| `IpsAnyPatch` | all patches of up to 3 records (literal, fill, fill of size 0) on two addresses, cut in the last; files of 0, 1, 3 bytes | `SecondRunSucceeds`; `Atomic`, the refinement of `IpsPatchSpec`; `Returns` |
| `PatchTools` | xenoups: all pairs of files of up to 5 bytes, two runs on either or on zeros. xenoppf, xenowips: own patches over files of up to 4 bytes; other makers' over up to 3 and 2 bytes, all versions and flags, whole or cut, with unknown records. All calls | `TypeOK`; `FailureLeavesFile`; `UpsToggles`; `PpfPatches`; `WipsPatches`; `WithinMemory` |
| `Gbalzss` | all texts of up to 11 bits, ring 8, match 4, threshold 1, sizes modulo 11, both modes, stale bytes | `Decodes`; `FindsLongest`; `TreesSound` |
| `XenoBf` | all texts of up to 3 characters of any command, comment or line end, all of up to 6 of `+ - [ ]`, with and without a last line end | `SearchStays`; `Interprets`, the refinement of `Brainfuck` |
| `TextCodecs` | all texts of up to 5 of 5 bytes; Base85 with groups of 2 bytes of 5 values in base 3; up to 4 units of 16 bits from the ends of all ranges; up to 4 strings in a file of 24 cells; save games of up to 9 bytes in pages of 4 and chunks of 8; numbers of 8 bits in digits of 3 | `RoundTrip`; `WellFormed`; `NumberReadBack` |
| `IniFile` | every file of up to 3 lines of two sections, a key in two cases, a comment, with or without a last line end, and of one line longer than the buffer, alone or in a section, with what follows; every kind of call; a file that shares its temporary name and one that is it; death and full disk at any step | `TypeOK`; `Stores`; `NeverInPart` |
| `DiscImages` | images of up to 7 bytes in blocks of 3 and 4, every block in any length, two calls; path tables of up to four directories with names that begin others, files of up to three sectors, two calls, cut off anywhere | `TypeOK`; `ReadsTrue`; `BlocksTrue`; `Unpacks`; `FindsExact`; `OthersKept`; `Arrives` |
| `FlashcartTools` | see the head of its cfg | `MovedOnce`; `KeepsRest`; `Merges`; `OpensAsMade`; `FramesAsDrawn`; `PatchesWhole`; `OkMeansWhole` |
| `PatchReports`, `UpsSparse`, `DsvRestored` | the instances of `PatchTools` (in `UpsSparse` with files of up to 4 bytes and one run) and `TextCodecs` | one property each, which the code violates: section 7 |

Why the bounds are enough:

* IPS: a file of 5 bytes holds two regions with a gap, a region longer than a
  record, a run longer than a record (two fills), a run with literal bytes
  before and behind it, a tail behind a shorter old file, and an address equal to
  the trailer; 6 bytes is refused. In `IpsAnyPatch` three records can overlap,
  leave a hole behind the end of the file, and read as the trailer in the middle.
* UPS: with digits of one bit, numbers take one to two bytes for the distances
  that occur; two files of different length in both directions extend and cut; a
  second run starts from what the first one left.
* PPF, WIPS: regions of one to four bytes are cut into records of two; windows
  of two bytes let one region end and another begin.
* LZSS: 11 symbols go once around a ring of 8 with 4 cells of look-ahead, so that
  every node is deleted, replaced by an equal string, and its cell used again;
  nodes with two sons whose heir is not their own son occur. A text of 11
  symbols has size 0 in the header.
* Brainfuck: six characters make two nested loops with a body, and every
  order of brackets whose numbers agree but which do not match.
* Codecs: lines are one or two groups of what is written at once, so that they
  fill up exactly, and run over if the comparison misses. The bytes are the ends
  of the range and ones with mixed bits. In Base85, 3^3 is as close above 5^2 as
  85^5 is above 256^4, so the filler of a short group is as tight as in the code.
  Base91, UTF-8 and the 26 letters have their real constants, but for
  a smaller alphabet of columns; 24 cells of a language file wrap with four strings.
* INI: three lines put the key before, in and behind its section, twice or in the
  other case; what a long line goes on with may be anything, a section or the key
  itself; the state after a death is any prefix of what was written.
* Images: two to three blocks, the last one in part, aligned and not; a write
  over two blocks of which the second does not fit, or is stored in part; bytes
  before, behind and around what is written in whole blocks and in the last one; three directories one in
  another with one name at two places.
* DLDI: three words of data, glue and `got` each take any value at an end of a
  range; homebrew at addresses that overlap the driver's or one another's, or begin
  where the driver ends; a bss of two words, moved by one.
  Cheats: two files merged into a base, with folders of one name. Splash: three
  frames make a difference over a difference, a fourth one is one more than the
  reader takes; compressed lengths are around that of the buffer. unlzop: one block of each form of
  a copy (short, middle, long, longer, run), and two blocks in all combinations.
  Byte patchers: two entries, of which the first fails at its second record; two
  games, so that what was read for the first is still in memory.

Properties are as strong as the code allows, and say so where it does not do
what one would hope: `FindsLongest` leaves out the VRAM mode, in which
`InsertNode` lets a node that it may not use decide where the search goes, and
TLC shows texts where a longer usable match is missed. `Stores` and `NeverInPart`
exclude a file that is its own temporary one, and name what a full disk leaves (if
it stays full until the file is closed): a beginning of the new content, in place
of the file. So does a death while a file is written that was not there
before. `FindsExact` excludes
images in which a name begins another; `ReadsTrue` the last, partial block, and
bytes a write has lost; `BlocksTrue` names these: what deflate had no room for, and
in a last block in part what the write did not bring; `Unpacks` excludes images
with alignment, and those of whose whole blocks a byte was lost;
`OthersKept` and `Arrives` files for which there is no room, or whose names, or
BOOT.BIN's, another one begins; `MovedOnce` sections that overlap, and words that
look like pointers at an address by chance; `KeepsRest` the bss that is cleared
where sections overlap; `OpensAsMade`
names the splashes that pass for another program's and those that are not opened; `OkMeansWhole` the damage that
no sum covers (`Untold`); `Invertible` entries that overlap or lie behind the
end; `Replaces` the places binreplace leaves out.

`TypeOK` of `IniFile` says more than types: each text of every file has a line of
its own, so that no line is ever glued to another, not even by a death or a full
disk. `TypeOK` in `Ups` includes that no xor byte of a record is zero, and in `Wips`
and `Ppf` that lengths fit their fields; the maker's steps must establish these.

## 5. Fairness and deadlock

The only fairness is weak fairness of a whole next-step relation, in
`FairSystemSpec` and `MCFairPatchSpec`: a process that can take a step takes one.
The code is one sequential process that waits for nothing but its input, which
ends. `Terminates` and `Returns` say that every loop ends under it. No fairness
is assumed for the choice between outcomes, so none makes a failing path go
away.

All programs end, so every configuration says `CHECK_DEADLOCK FALSE`; that the
end is a proper one is what `Terminates`, `Returns`, `Decodes`, `RoundTrip` and
the refinements say. Brainfuck programs need not end, and WIPS patches with an
unknown first record never do ("stuck"), so no liveness is stated there.

## 6. What is proved

Every theorem holds for all values of the constants that satisfy the named
assumptions of its modules, for files of any size and content, and for every
behaviour of the specification named in it. No assumption bounds a file, a patch
or a number of runs.

| Theorem | Says |
|---|---|
| `SecondRunNeverFails` (`IpsSystemProofs`) | for any IPS patch and any file, the run whose result `_ipspatch` ignores cannot fail |
| `PatchIsAtomic` | the two-run patcher implements `IpsPatchSpec`: each byte is decided by the last record that covers it, or nothing has changed |
| `MakeTypeCorrect`, `RecordsAreRight` | types, `RecordsFit` and `RecordsTrue` of the maker |
| `RoundTripHolds` | the patch of two files turns the first into the second |
| `TruncationIsDetected` | a cut patch is turned down, but for the one cut that looks like the trailer |
| `OldOrNewHolds` | however much of the patch arrived, no byte of the file is foreign to both files |
| `TypeCorrect` (`PatchToolsProofs`) | the types of the driver's and the tools' variables |
| `FailuresLeaveFiles` | a call to patch that reports a failure has left the file as it was, whichever of the three tools |
| `UpsTogglesCorrect` | a UPS patch of any two files turns each into the other, run after run, and is refused for any other file |
| `PpfPatchesCorrect` | xenoppf's patches turn the old file into the new; anybody's change a file by all of their records or by none; none is taken back, also where "reverse patch." is announced |
| `WipsPatchesCorrect` | xenowips' records hold all that differs; anybody's well formed patch is applied whole or not at all, never to a file of another CRC |
| `WithinMemoryCorrect` | no record is written outside the memory a file was read into, but for the two cases the property names |
| `OwnPatchesCorrect` | all six for `Spec`, in which the patches are the tools' own |
| `ReadsTrueCorrect` (`DiscImagesProofs`) | reads that end within the whole blocks deliver the image, after any writes, failed ones included, but for bytes that a write has lost |
| `BlocksTrueCorrect` | after any part of any writes each byte, also of a last block in part, is stored as it was written or as it was, but for lost ones; bytes are lost only in a block written to, and only where deflate had no room or the last block was not read |
| `UnpacksCorrect` | the three unpackers restore every image that was made without alignment and of whose whole blocks no byte is lost |
| `FindsExactCorrect` | a file is found by exactly the names of its directories and its own, or nothing is |
| `OthersKeptCorrect` | no write or add, done or cut off anywhere, changes another file than its own and BOOT.BIN |
| `ArrivesCorrect` | what was written or added is found, with its length and its data, and no two files share a sector |
| `TypesCorrect` | the types of both layers of disc images, with room for every block |
| `TypeCorrect` (`IniFileProofs`) | every file consists of whole lines, none glued to another, whatever deaths and full disks; what is to be renamed is there |
| `StoresCorrect` | no file but its own and the temporary one is touched; a call of `ini_puts` that returns 0 has changed nothing; one that returns 1 has made one key say the value, or nothing, every other key says what it did, and remarks stay; with a full disk, a beginning of that |
| `NeverInPartCorrect` | wherever the process dies, in the middle of a write too, the file is as it was, or whole, or missing and whole under the temporary name; a beginning of it is there only if the disk was full or there was no such file before |
| `SearchStaysCorrect` (`XenoBfProofs`) | the search for the end of a loop never leaves the program, whatever text was loaded |
| `InterpretsCorrect` | the recursive interpreter implements `Brainfuck`, the flat program whose brackets jump, step by step |
| `DecodesCorrect` (`GbalzssProofs`) | what `gbalzssDecode` writes is the text `gbalzssEncode` was given, from its start on, and at the end all that the header has a size for; no VRAM safe pair reaches the byte before |
| `TreesSoundCorrect` | the trees of the encoder stay search trees of strings the ring holds, through all insertions, replacements and deletions |
| `FindsLongestCorrect` | the match found is as long as any with a string of the ring, but for the VRAM mode |
| `PatchesWholeCorrect` (`FlashcartToolsProofs`) | a game is patched by a whole entry that it had the other side of, or not written to; what is reported as missing fits no entry; strings are replaced whole, and none is left but those named |
| `MovedOnceCorrect` | a section that was patched holds the driver as if it had been linked there, every pointer moved once, from its file or out of other homebrew, however often |
| `KeepsRestCorrect` | nothing outside the section's room changes and no step leaves the file, unless the size was to be ignored, for any driver all of whose moves were such; only the bss may be cleared elsewhere, where addresses overlap; words stay within 32 bits |
| `SatCodeRoundTrip` (`SatCode`) | `satdecode` restores every line `satencode` has shuffled |

### Assumptions and hypotheses

The assumptions on constants are those a format gives: in IPS a record holds at
least a byte, gaps are at least one byte, fills are for runs of at least 3, and
uninitialized memory is not a byte; a digit of a UPS number has at least one bit
(`WidthAssumption`); chunks and windows of PPF and WIPS are at least a byte;
blocks of an image are not empty, the header ends at a place that an aligned
index can name (`HeadAssumption`); in INI files, taking off what `skipleading`
skips is done at once (`FoldAssumption`), and the files and requests at the start
are ones a program can have (`ContentsAssumption`, `RequestsAssumption`); in
Brainfuck, texts are sequences of characters (`TextsAssumption`); in LZSS, a match is
at most half as long as the ring (18 of 4096) and longer than what is not worth a
pair (`RingAssumption`; that the ring is a power of two is not needed). Images
of files are such as ECMA-119 has them made (`ImagesAssumption`): the path table
begins with the root and has parents before their directories; the records of a
directory and the path table tell of the same directories, in the same order;
no directory has a name twice. A driver's header has pointers into it, its parts
are in front of its bss, and homebrew has the room it claims, not at the very
end of the addresses (`DldiAssumption`). The texts for byte patchers put as many bytes as
they take (`PatchersAssumption`), and no more than `openpatch_comp` holds.
TLC evaluates each assumption on the instances of
the runs.

* `AnySpec` of `PatchToolsProofs` is more general than the specification TLC
  runs: any two files, and for PPF and WIPS any sequence of records that has the
  types of a patch file, with any version, flags and CRC. `OwnIsAny` shows that
  `Spec` is among it, and the patches of other makers in `MCPatchTools` are.
* `2^a` in `HeadAssumption`, the range of a cell (`CellAssumption`) and the base of
  UPS numbers are assumed to be positive numbers, since the provers know nothing
  of powers.
* `StoresCorrect` and `NeverInPartCorrect` assume `PlainKeys`: no key of a request
  begins with what `skipleading` would take for a blank. Without it they are
  false: such a key is written and never found again (section 7). The instance
  of the run has no such names (`Wide` is empty in its cfg).

### The arguments

None of the invariants is inductive as it stands.

**IPS**, in three layers.

1. *Patcher.* `SecondRunSucceeds` says nothing of the records that are still
   ahead. `PatchInv` adds where the cursor is (`Cursor`) and that the second run
   has not passed the record at which the dry run ended, all records before which
   fit the patch file and the memory (`RunInv`). For the refinement, `ImageInv`
   adds that the memory is, at each cursor, what the abstract patch of the records
   so far makes of the file.
2. *Maker.* `RoundTrip` needs to know that nothing is left out. `MakeInv` says,
   for each place the loops can be in, up to where bytes are *settled*: equal in
   both files, or covered by a record (`Place`); and that the records follow one
   another without a gap in the patch file and tell the truth (`Written`). The
   frontier of what is settled moves through the pending calls of `ipswrite` and
   `ipsfill` before it reaches the end of the region.
3. *System.* `SysInv` carries both through the transport: while the patch is
   applied the maker is done, the file is untouched until `WriteBack`, and from
   then on it is what the records before some trailer make of the old file
   (`Outcome`). A trailer in the middle, where an address reads "EOF" and the cut is
   right behind it, is the exception that `TruncationDetected` names; there the
   records before it are still true, which gives `OldOrNew`.

**UPS** (`UpsInv`). The records have no addresses, only distances. `Layout` is a
witness for where each begins: `at[k]`, with `RecordIs` that the record's xor
bytes are exactly those of the region at that place. The patcher's memory is then
the target up to `ptr` and the source from there on; `ptr` is `at[record]`. As
xor with the same byte is its own inverse, the one invariant serves both
directions, and, since what a run leaves is again one of the two files, every
run. How much of a record is passed over depends on `NumberBytes`, a recursive
function: that the recursion has a solution, and that it is a number, is proved
from the least number at which it would fail (`Least`).

**PPF** (`PpfInv`). The file is as before until it is written back, the memory is
what the first `record - 1` records make of it (`PpfApplied`), and every place that
differs is in a record or still ahead of the maker (`InPpf`). The undo
data's disagreement (`applied`) can only turn up where there is undo data, and
then nothing is written. As long as no record has settled that the patch goes
forward, the memory is the file: what a reverse patch copies is what is there.

**WIPS** (`WipsInv`). The patcher counts offsets from record to record, so that what
the maker meant holds only if the distances add up: `WipsOffset` is the sum, with
`WipsStepIs` that each step of it is what the maker's `current_end` came to. For
patches of other makers, a record of unknown kind or a run off the end may do
anything; what the code promises there is only what was checked before (the
CRC), and `WipsWhole` says the rest for well formed ones.

**Driver** (`DriverInv`): what a call exits with is `ExitCode` of what the patcher
returned, so that a failure reported is a failure before `WriteBack`.

**Disc images** (`BlocksInv`). A read is right because each block is where the
index says (`IndexInv`: the index rises, and is aligned), fits in front of the next
(`Kept`) and has each byte of the image that is not lost (`Has`); a write keeps
`Kept` block by block, whether it fits, is refused or is stored in part, for what
it brings (`Wanted`) is what `start_pos` and `end_pos` name (`WantedIs`), and around
that the buffer has what the block had, if it was read. That a byte is lost only
where the call has written is kept with it. `InCall` ties
the offset, the block number and what is returned so far. The arithmetic is in
lemmas of its own (`Geometry`, `Counts`, `BlockLengths`).

**Files in disc images**, in three parts.

1. *Lookup.* The pass over the path table is taken one part of a path further at
   a time (`Follows`, `OnePartMore`): while it looks for the parts before, the
   pass for one part more is in the same place, and then it takes the first
   directory there that passes for the part. So what it reaches (`Reached`) is
   where the names lead (`Lead`), if no name begins another one (`LeadReached`). No
   induction over the length of a path is needed but for the least number of
   parts at which the two would differ (`Least`).
2. *Other files* (`TreeInv`). While a call is under way the image has the names and
   directories of the one before it (`Alike`, or `Grown` by one record), so that each
   lookup finds the same record as at the start; what the call keeps of its
   lookups (`WriteCall`, `AddCall`) says that it writes to its own record, to
   BOOT.BIN's, and to sectors that no other file has (`WriteFree`, `AddFree`). That
   the new record goes to the directory of the path, and has a name that is not
   there yet, is `ParentIs` and `NameIsNew`.
3. *The call's file* (`ArriveInv`): for each phase, position and length of every
   record (`PosNow`, `SizeNow`), the end of the volume and the data. At the end of
   the call the sectors of BOOT.BIN are those behind the file that took the first
   of them (`BootLeft`, from `SectorsLeft`), so that files are still apart.

**INI files** (`IniInv`). What a file says of a key depends on the first section
and the first key of that name, so the invariant must speak of a file of which one
part is written, `wfp`, and the rest still to be read, `rfp`. `GetsJoined` is the
law of that: after a part `u` a section has not begun, is open, or is over, and
what the rest says of the key counts accordingly. Then for each place in
`ini_puts` (`Promised`): while the section is looked for, and then the key, what is
written and what is left say together what the file said; from the change on,
what the call is to leave; and while a section is erased it is as if its
header had been copied (`EraseInv`), which makes the keys behind it still its own.
A line copied is replaced by a line that differs in nothing for any key (`Alike`):
its leading blanks may go, its end may come. `Single` carries that a key erased
was there once only. From `Closed` on, what is on the disk is what the call is to
leave, or, if the disk was full, a beginning of it (`Begun`), and a part of a line
that goes on behind the buffer (`Cut`) is copied as it is, so that the law holds for
lines of any length. `OthersUntouched` is kept by every step. The types need that what is written ends its line
as long as there is something left to copy (`Clean`).

**Brainfuck.** The flat program is where the innermost call of `execute` is, except
that a call which has met the end of its loop may have to search for that end
again, and the flat program then waits there. `Inv` counts brackets: where the
interpreter is, as many are open (`Level`) as there are calls, plus those that the
search has passed (`marker`); and between the place where a call began and
where it is now, never fewer were open than when it began. So the first place at
which the level falls below that of a call is the bracket that closes its loop,
for `execute`, for the search and for the flat program's jump alike. The check of
the loader (`i = 0`) makes the level of the whole program zero, so that such a
place exists. `Level` and the jump are recursive functions: that they exist is
shown by iterating them (`Iterates`), that there is only one by the least
argument at which two would differ (`Least`).

**LZSS** (`EncInv`). Six facts are needed at once.

1. *The ring* (`BufferInv`). The `j`-th byte of the text is in cell `Place(j)`, and
   again behind the end of the ring if it is one of the first `F - 1` cells, for
   every `j` from `Oldest` to what has been read. So strings can be compared without
   a look at the end of the ring (`PlaceApart`: no two of them meet in a cell).
2. *The trees* (`TreeInv`). Being a tree needs witnesses: a rank for each node,
   which rises towards the root (`Ranked`), and the set of nodes above it (`Lines`).
   `Ordered` is said of nodes above and below one another, at any distance, as
   `TreesSound` is: sons and fathers alone would not be inductive. A leaf that is
   hung, a node replaced by one that is equal, a node with one son taken out and
   one with two, whose heir comes from elsewhere, are four lemmas about arbitrary
   trees and an arbitrary linear order. That the walk to the heir ends
   (`Rightmost`) follows from the ranks.
3. *The walk* (`Sought`, a part of `TreeInv`): each node that has the first byte of
   the string and is not below `p` has no more in common with it than was found.
   For a string between two others in the order has at least as much in common
   with either as they have with each other.
4. *What is kept* (`KeptInv`). A node that is replaced is lost, though its string
   is still in the ring. Of strings that are alike over `F` bytes the newest has a
   node, so that the longest match among the nodes is the longest there is
   (`BestInv`).
5. *The match* (`MatchInv`) is with a string that is still held, at the distance the
   pair will name, and not one that is on its way in.
6. *The codes* (`DecodeInv`). `Told` is a witness for where in the text each code
   begins: a code says what is there. The decoder is in the middle of one, and its
   ring holds the last `N` bytes of the text (`Decoded`), so that a pair that
   reaches into what it writes itself is right too.

That the recursions of `Rightmost` and `Above` have solutions is shown from the
trees; `Above` comes to the root since there are no more than `N` nodes on the way.

**Byte patchers** (`BytesInv`). While a game is checked it is what it was, and each
flag says whether some record so far is not of its side (`Checked`), so that what an
entry before has left in a flag, or in the buffer, must not matter; that the
entries passed over do not fit is `Missed`. While it is written to, the records
so far are of the new side, and what they do not cover is what it was
(`WrittenUpto`); for this the records of an entry must be apart. For binreplace,
the places that are taken are apart and cover all those that are passed over
(`Taken`), from the largest place at which this would fail.

**DLDI** (`DldiInv`). `LinkedFor` says that the driver in use is the one from the file,
linked for another address, and that the same words of it move: then moving it
once more is moving the first one there (`Compose`), and what is taken out of the
homebrew is again such a driver (`LinkedAgain`), which needs `Stays`. In the passes,
a word has been moved if and only if some pass has come by it (`Done`, `MovedBy`);
that another pass comes by it does not matter, since `Apart` keeps a moved word from
looking like a pointer (`NotAgain`). `RestInv` does without `Apart`: the bounds
of the loops are read from the header, and the header is in the range that is
moved, but whatever looks like a pointer there is moved to within the
driver's size, so that no bound ever exceeds it.

**Satcode** is proved from the arithmetic of halves; the run `TextCodecs` checks the
same operators.

### What is only model-checked

* *Liveness* (`Terminates`, `Returns`): needs fairness and `ENABLED`.
* *The codecs* but for `SatCode` (`RoundTrip`, `WellFormed`, `NumberReadBack`): folds
  over a text, which need induction over data with an operator as its parameter.
  Where a statement is about one function, the least counterexample
  (`Least`) takes the place of induction, as in `NumberBytes` and `Level`; for the
  accumulators of these codecs it has not been carried out.
* The union of cheat databases (`Merges`), the splash screens (`OpensAsMade`,
  `FramesAsDrawn`) and the unpacker of LZO files (`OkMeansWhole`), which would need
  to be told what a well formed stream is.

## 7. Where code and description disagree

* **Sparse UPS patches are refused** (run `UpsSparse`). `upspatch` holds how far a
  record skips in the *file* against how much of the *patch* is left
  (`xenoups.c:117`). Two files that differ far from the start make an intact
  patch of which the program says "Patch failed (corrupted / truncated)" (l. 312).
* **"Patched successfully" is said of files that were not** (run `PatchReports`).
  What the run in memory returned decides whether the file is written, but not
  what is printed and returned (`xenowips.c:206-209`, `xenoppf.c:275-278`). A
  WIPS patch for a file of another size, and a PPF patch whose undo data does
  not agree ("integrity check failed."), end that way.
* **A DeSmuME save cannot be made a save again** (run `DsvRestored`). The loop that
  is to leave out the footer ends at the chunk that has it, and a chunk is 4 MB:
  what is written is empty (`savconv.c:144`), although the footer itself says
  "Snip above here to create a raw sav".

* **A "reverse patch." reverses nothing.** `ppfpatch` prints "reversible: " and
  "reverse patch." (`xenoppf.c:133`, 142) and copies the replaced bytes back
  (l. 166), but the copy of the new bytes (l. 169) follows for every record, and
  so the file stays patched. There is no run in which this is a violation;
  `PpfPatches` states what happens instead (`TakesNothingBack`), and its mutant
  `Patched_Reversed`, the reversal that is announced, violates it.

Seen while modelling and kept in the models as they are, with nothing in the
repository that says otherwise:

* PPF: the dry run of PPF 2 and of
  PPF 3 with a block check reads the file through a null pointer
  (`xenoppf.c:65`).
* WIPS: `wipsmake` fills a header that it never writes (`xenowips.c:31`); the end
  of a patch is taken 40 bytes too late (l. 62); a first record of unknown kind
  never ends.
* Codecs: `xenobase85` writes a short last group of zeros as a whole one;
  `ucs2tombs` loses a bit of characters from 0x100000 on, and takes two units
  from 0xf800 on, or one of these and a surrogate, for a pair, for the mask it
  tests surrogates with is 0xdc00 and not 0xfc00 (`xutil.c:220`: 0xd800, 0xffff
  comes back as 0xd800, 0xdfff); `xenoexcelbase` writes
  "?" where a digit that was borrowed from is itself zero; language files wrap at
  64 KB; `decnum` fails from 2 GiB on; `savconv` ignores what its run-length coder
  returns, so that saves for NO$GBA are never packed, and a packed one that is
  cut is read for ever (l. 290).
* LZSS: the header has 24 bits for a size; the VRAM mode misses longer matches.
* minIni: a key that begins with a byte from 128 on is never found again
  (`minIni.c:114`); files that differ in their last character share a temporary one;
  with a full disk a beginning of the new file replaces the old one and 1 is
  returned (l. 750); a line of more than 1023 characters is read, stripped and
  searched in parts (`minIni.h:31`, 46), so that a part may pass for a key or a section,
  and be replaced, or get a line of its own.
* Images: `cso_write_fp` returns its length though deflate had no room for all of a
  block and a part is stored (`ciso.c:85`, 437), and what it does not bring of a
  last block in part is lost, for `cso_read_fp` refuses that block (l. 417); of
  the last, partial block of a DAX image stale bytes are delivered
  (`dax.c:145`); xenociso's unpacker takes lengths from an index it has not shifted
  (`xenociso.c:197`); `iso.c:386` takes a name that begins with another for it.
* Cartridge tools: a homebrew as the template of another, at addresses that
  overlap, has pointers moved twice, and then words beyond the section can be
  cleared as its bss (`dldipatch.c:240`); a folder of cheats without a name passes
  for a single cheat and is merged into one, and then more are written than are
  counted; a splash of one frame, or of one too fast, divides by
  zero (`opensplash.c:187`), one of more than 999 is made and never opened (l. 140),
  a first frame of 255 colours for iSakuReal is taken for MoonShell's, and one for
  MoonShell 2 that grew when it was compressed is read over the end of its buffer
  (l. 215); `unlzop` turns down filters (l. 300), does not compare
  the sum of what it decompressed (l. 430) and turns down stored blocks that
  have a sum of the compressed data only; `openpatch_single` takes a record behind
  the end of the file for one that fits when what it read before does, and
  writes it there (`openpatch_single.c:173`); `binreplace` does not look at the
  last place, nor at the byte behind a string it has replaced (l. 224, 231).

`FitsItsFile`, `WithinImage`, `ShortZeros`, `BorrowsTwice`, `Unlike`, `Room`,
`Untold`, `InFile` and their like state exactly how far these go.

## 8. What is not modelled

By far most of the lines of the repository are in `lib/lzma` (some 43 000 of
78 000 lines of code): a vendored SDK of which only headers are compiled in
(`lib/lzmasdk.cpp` loads `7z.so` at run time). It is left alone, and
so the share of all lines that the models cover stays small; of the program's own
sources they cover about a quarter. The notes in `PROJECT.json` give a reason for each
component. In groups:

* *parsing and fixed patterns* (extractors, headers, bitmaps, patchers of fixed
  bytes, `updatecheat`): no state that lasts, their content is tables of offsets;
* *pure functions over bits* (hashes, ciphers, keys): a model would be the
  algorithm again;
* *pure I/O*: strings and streams; `reverseips` and `sucnv2ips`, which convert one
  record or line at a time; `memstream`, whose bounds are in `Lzop` and `Splash`
  where they matter;
* *vendored code*: lzma, zopfli, libnsbmp, md5, sha1, sha256, and the layer of
  stdio calls `getdiscid/file.c`. minIni is vendored too, but modelled, for
  `cmdini` is it;
* in PPF, the `FILE_ID.DIZ` a patch may end in, and the length checks of headers;
  in `unlzop`, lzo1y and zlib's method; in `savconv`, gzip's own format; in
  `minIni`, how values are quoted (constant `Read`); in `getdiscid`, the
  cache of a header by descriptor, for no process of this program opens a second
  image, and what it prints.

## 9. Plan

Done: models of the patch formats and their drivers, LZSS, Brainfuck, the codecs
and converters, INI files, disc images and the cartridge tools; proofs for IPS,
UPS, PPF, WIPS with the driver, disc images with their files, INI files,
Brainfuck, LZSS, DLDI, the byte patchers and Satcode.

Left for proofs, in this order:

1. `Splash`: `FramesAsDrawn`, by the least pixel that is drawn wrong, and `OpensAsMade`,
   by sums over the frames.
2. `CheatMerge`: union.
3. `UpsNumber`: `NumberReadBack`, by the least number that is not read back.
