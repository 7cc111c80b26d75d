------------------------------- MODULE Splash -------------------------------
(***************************************************************************)
(* makesplash and breaksplash (applet/, lib/createsplash, lib/opensplash,  *)
(* lib/iSakuReal): pictures become the frames of a splash screen of one of *)
(* four programs, and pictures again.  A reader must tell from the lengths *)
(* in the header, and from one word, which program a splash is for.        *)
(*                                                                         *)
(* A picture is a sequence of pixels, whole lines of them; the bitmaps     *)
(* they come from, and what the compressors make of them but for its       *)
(* length, are left out.                                                   *)
(***************************************************************************)
EXTENDS Integers, Sequences, SequencesExt, FiniteSetsExt, Functions

CONSTANTS
  Width, Lines,     \* 256 and 192
  Pictures,         \* what bitmaps decode to; Broken if they do not
  Broken,
  Albums,           \* the pictures there are, in their order: a bound
  Rates,            \* SourceFPS
  MaxRun,           \* 0x7fff
  PaletteMax,       \* 0xff
  SakuraMax,        \* 126 frames
  FrameMax,         \* 999 frames: only the reader asks
  LzssSizes, ZlibSizes,  \* lengths a frame may be compressed to
  CompMax,          \* B15MAX
  BufSize,          \* 0x18000: of the reader's buffers
  Stale             \* what memory nobody wrote may hold

VARIABLES
  version, images, fps,
  first,            \* the maker's copy of the first frame, and stale memory
  file,             \* header and frames; its length
  pc,
  ret,              \* of createsplash
  p,                \* what the reader knows of the file
  decompbuf, idx    \* the frame that was read last

vars == <<version, images, fps, first, file, pc, ret, p, decompbuf, idx>>

Versions == {"moonshell1", "moonshell2", "isakureal", "m3sakura"}

Whole == Width * Lines

nframe == Len(images)

NoFile == [head |-> <<>>, data |-> <<>>, size |-> 0]

Init ==
  /\ version \in Versions
  /\ images \in Albums
  /\ fps \in Rates
  /\ \E s \in Stale : first = [k \in 1 .. Whole |-> s] /\ decompbuf = [k \in 1 .. Whole |-> s]
  /\ file = NoFile /\ pc = "create" /\ ret = -1
  /\ p = [version |-> "none", fps |-> 0] /\ idx = 0

-----------------------------------------------------------------------------
(* createsplash                                                            *)
Create ==
  /\ pc = "create"
  /\ IF version = "m3sakura" /\ nframe > SakuraMax
     THEN ret' = 3 /\ pc' = "failed" /\ UNCHANGED file
     ELSE /\ file' = [NoFile EXCEPT !.size = IF version = "m3sakura" THEN 512
                                             ELSE 8 + 16 * nframe]
          /\ pc' = "frames" /\ UNCHANGED ret
  /\ UNCHANGED <<version, images, fps, first, p, decompbuf, idx>>

i == Len(file.data)     \* of frames that are done

image == images[i + 1]

Encoding(v) == pc = "frames" /\ version = v /\ i < nframe /\ image # Broken

vsync_OneBased(n) == ((n + 1) * 60) \div fps

vsync(n) == (n * 60) \div fps

Frame(size1, size2, block, length) ==
  /\ file' = [head |-> Append(file.head, [vsync |-> vsync(i), size1 |-> size1, size2 |-> size2]),
              data |-> Append(file.data, block), size |-> file.size + length]
  /\ UNCHANGED <<version, images, fps, pc, ret, p, decompbuf, idx>>

Bytes == 2 * Len(image)

(* What does not fit into compbuf is dropped by memstream.                 *)
MoonShell1 ==
  /\ Encoding("moonshell1")
  /\ \E compressed \in LzssSizes :
       LET size == Min({compressed, CompMax})
       IN Frame(size, Bytes, [word |-> Bytes * 256 + 16, pixels |-> image], size)
  /\ UNCHANGED first

(* A colour for every two bytes, then four bytes, a byte for every pixel   *)
(* and four for every 64 of them.                                          *)
Colours == Range(image)

Aligned(n) == n + (n % 2)

ISakuReal ==
  /\ Encoding("isakureal") /\ Cardinality(Colours) <= PaletteMax
  /\ LET palcnt == Aligned(Cardinality(Colours))
         length == 4 + 2 * palcnt + 4 + Len(image) + 4 * ((Len(image) + 63) \div 64)
     IN Frame(length, Bytes, [word |-> palcnt, pixels |-> image], length)
  /\ UNCHANGED first

(* exit(1)                                                                 *)
PaletteExceeded ==
  /\ Encoding("isakureal") /\ Cardinality(Colours) > PaletteMax
  /\ ret' = 1 /\ pc' = "failed"
  /\ UNCHANGED <<version, images, fps, first, file, p, decompbuf, idx>>

Filled(pixels) == [k \in 1 .. Whole |-> IF k \in DOMAIN pixels THEN pixels[k] ELSE 0]

M3Sakura ==
  /\ Encoding("m3sakura")
  /\ Frame(BufSize, BufSize, [word |-> 0, pixels |-> Filled(image)], 2 * Whole)
  /\ UNCHANGED first

(* MoonShell2: the first frame is compressed, of the others only what is   *)
(* not as in the first is written: how many pixels to skip, and pixels.    *)
(* A pixel has bit 15 set, which no number of pixels has; after the last   *)
(* pixel that differs nothing is written.                                  *)
ZlibMark == 55928   \* 0x78 0xda

FirstFrame ==
  /\ Encoding("moonshell2") /\ i = 0
  /\ first' = [k \in 1 .. Whole |-> IF k \in DOMAIN image THEN image[k] ELSE first[k]]
  /\ \E compsize \in ZlibSizes :
       Frame(Len(image), compsize, [word |-> ZlibMark, pixels |-> image], compsize)

Skip_Unsplit(nullcnt) == IF nullcnt = 0 THEN <<>> ELSE <<nullcnt>>

Skip(nullcnt) ==
  IF nullcnt = 0 THEN <<>>
  ELSE IF nullcnt > MaxRun THEN <<MaxRun, nullcnt - MaxRun>> ELSE <<nullcnt>>

Bit15 == MaxRun + 1

Differs(k) == first[k] # image[k]

Diff ==
  LET put(st, k) ==
        IF Differs(k) THEN [nullcnt |-> 0, out |-> st.out \o Skip(st.nullcnt)
                                                          \o <<Bit15 + image[k]>>]
        ELSE [st EXCEPT !.nullcnt = @ + 1]
  IN FoldLeft(put, [nullcnt |-> 0, out |-> <<>>], [k \in DOMAIN image |-> k]).out

OtherFrame ==
  /\ Encoding("moonshell2") /\ i > 0
  /\ Frame(Len(image), Len(Diff), [word |-> 0, diff |-> Diff], 2 * Len(Diff))
  /\ UNCHANGED first

BrokenFrame ==
  /\ pc = "frames" /\ i < nframe /\ image = Broken
  /\ ret' = 20 /\ pc' = "failed"
  /\ UNCHANGED <<version, images, fps, first, file, p, decompbuf, idx>>

(* A picture that is no longer there, when it is its turn.                 *)
Missing ==
  /\ pc = "frames" /\ i < nframe
  /\ ret' = 10 /\ pc' = "failed"
  /\ UNCHANGED <<version, images, fps, first, file, p, decompbuf, idx>>

EncodeDone ==
  /\ pc = "frames" /\ i = nframe
  /\ ret' = 0 /\ pc' = "made"
  /\ UNCHANGED <<version, images, fps, first, file, p, decompbuf, idx>>

Make == Create \/ MoonShell1 \/ ISakuReal \/ PaletteExceeded \/ M3Sakura \/ FirstFrame
        \/ OtherFrame \/ BrokenFrame \/ Missing \/ EncodeDone

-----------------------------------------------------------------------------
(* opensplash.  Of a splash without frames it reads a header that is not   *)
(* there, and of one whose last frame is to be shown at 0 it divides by 0. *)
frame == Len(file.head)

Total(length(_)) == FoldLeft(+, 8 + 16 * frame, [n \in 1 .. frame |-> length(n)])

size1total == LET length(n) == file.head[n].size1 IN Total(length)

size2total_Bytes == LET length(n) == file.head[n].size2 IN Total(length)

size2total == LET length(n) == file.head[n].size2 * (IF n = 1 THEN 1 ELSE 2) IN Total(length)

(* A frame that is longer than a screen, in pixels if it is a MoonShell2   *)
(* splash, or than one of the buffers.                                     *)
flag1 == \E n \in 1 .. frame : file.head[n].size1 > Whole

flag2 == \E n \in 1 .. frame : file.head[n].size2 > BufSize

(* word & 0xffffff00: a word that is no byte, as the number of colours is. *)
Version ==
  IF version = "m3sakura" THEN "m3sakura"       \* by the flags, 0x496e614d
  ELSE IF size1total = file.size
  THEN IF flag2 THEN "none"
       ELSE IF file.data[1].word > PaletteMax THEN "moonshell1" ELSE "isakureal"
  ELSE IF size2total = file.size /\ ~flag1 THEN "moonshell2"
  ELSE "none"

Opened(state, v, rate) ==
  /\ pc = "made" /\ pc' = state
  /\ p' = [version |-> v, fps |-> rate]
  /\ UNCHANGED <<version, images, fps, first, file, ret, decompbuf, idx>>

Refuse ==
  /\ frame > FrameMax \/ (version = "m3sakura" /\ frame > SakuraMax)
  /\ Opened("refused", "none", 0)

OpenM3Sakura ==
  version = "m3sakura" /\ frame <= FrameMax /\ frame <= SakuraMax /\ Opened("read", "m3sakura", 15)

LastFrame == file.head[frame]

Crash ==
  /\ version # "m3sakura" /\ frame <= FrameMax /\ (frame > 0 => LastFrame.vsync = 0)
  /\ Opened("crashed", "none", 0)

(* Without frames, unless what is not there was 0: its 8 bytes are all the *)
(* lengths there are, and the word was not read.                           *)
OpenEmpty ==
  /\ version # "m3sakura" /\ frame = 0
  /\ \E v \in {"moonshell1", "isakureal"} : Opened("empty", v, 0)

(* The first frame of a MoonShell2 splash is read at once, whatever its    *)
(* length.                                                                 *)
FirstTooLong == Version = "moonshell2" /\ file.head[1].size2 > BufSize

Open ==
  /\ version # "m3sakura" /\ frame \in 1 .. FrameMax /\ LastFrame.vsync > 0
  /\ Opened(CASE Version = "none" -> "refused"
               [] FirstTooLong      -> "overrun"
               [] Version = version /\ ~FirstTooLong -> "read"
               [] OTHER             -> "misread",
            Version, (60 * (frame - 1)) \div LastFrame.vsync)

(* decompressimage: any frame, also again.  A frame that is longer than    *)
(* the buffer is read over what lies behind it.                            *)
Over(pixels) == [k \in 1 .. Whole |-> IF k \in DOMAIN pixels THEN pixels[k] ELSE decompbuf[k]]

Cached == file.data[1].pixels

Patched(diff) ==
  LET put(st, word) ==
        IF word < Bit15 THEN [st EXCEPT !.dest = @ + word]
        ELSE [dest |-> st.dest + 1, buf |-> [st.buf EXCEPT ![st.dest] = word - Bit15]]
  IN FoldLeft(put, [dest |-> 1, buf |-> Over(Cached)], diff).buf

FirstOfAll(n) == n = 1

Decompress ==
  /\ pc = "read"
  /\ \E n \in 1 .. frame :
       /\ idx' = n
       /\ IF version = "moonshell1" /\ file.head[n].size1 > BufSize
          THEN pc' = "overrun" /\ UNCHANGED decompbuf
          ELSE /\ decompbuf' = IF version = "moonshell2" /\ ~FirstOfAll(n)
                               THEN Patched(file.data[n].diff) ELSE Over(file.data[n].pixels)
               /\ UNCHANGED pc
  /\ UNCHANGED <<version, images, fps, first, file, ret, p>>

getimagesize(n) ==
  CASE version \in {"moonshell1", "isakureal"} -> file.head[n].size2
    [] version = "moonshell2" -> file.head[n].size1 * 2
    [] version = "m3sakura"   -> BufSize

Next == Make \/ Refuse \/ OpenM3Sakura \/ Crash \/ OpenEmpty \/ Open \/ Decompress

Spec == Init /\ [][Next]_vars

-----------------------------------------------------------------------------
(***************************************************************************)
(* A splash that was made is opened for the program it was made for, but   *)
(* for two: of iSakuReal, with so many colours in the first frame that     *)
(* their number, made even, needs a second byte; of MoonShell2, with a     *)
(* first frame that is compressed by as much as the differences take.      *)
(* Not opened at all are three: of more frames than the reader takes, for  *)
(* the maker has no limit; a MoonShell2 splash like the one above whose    *)
(* first frame is longer than the reader's buffer; and what is shown in    *)
(* less than a sixtieth of a second, which divides by zero.                *)
(***************************************************************************)
TakenForOther == version = "moonshell2" /\ size1total = size2total

OpensAsMade ==
  /\ pc = "misread" =>
       /\ p.version = "moonshell1"
       /\ \/ version = "isakureal" /\ Aligned(Cardinality(Range(images[1]))) > PaletteMax
          \/ TakenForOther
  /\ pc = "refused" => nframe > FrameMax \/ (TakenForOther /\ file.head[1].size2 > BufSize)
  /\ pc = "crashed" => nframe <= FrameMax /\ fps > 60 * (nframe - 1)

(***************************************************************************)
(* Frames are read in any order, each as it was drawn: in full, and of its *)
(* own size, or the whole screen.  What is not in the first frame, for it  *)
(* was lower, is compared with memory nobody wrote, and if it happens to   *)
(* be there is not written.  A frame can overrun its buffer only if it     *)
(* grew when it was compressed: one of MoonShell1 when it is its turn, the *)
(* first of MoonShell2 when the splash is opened.                          *)
(***************************************************************************)
Unwritten(k) == version = "moonshell2" /\ k > Len(images[1]) /\ first[k] = images[idx][k]

FramesAsDrawn ==
  /\ pc = "read" /\ idx > 0 =>
       /\ getimagesize(idx) = IF version = "m3sakura" THEN 2 * Whole ELSE 2 * Len(images[idx])
       /\ \A k \in DOMAIN images[idx] : decompbuf[k] = images[idx][k] \/ Unwritten(k)
       /\ version = "m3sakura" => \A k \in Len(images[idx]) + 1 .. Whole : decompbuf[k] = 0
  /\ pc = "overrun" =>
       \/ version = "moonshell1" /\ idx > 0 /\ file.head[idx].size1 > getimagesize(idx)
       \/ version = "moonshell2" /\ idx = 0 /\ file.head[1].size2 > getimagesize(1)

(***************************************************************************)
(* breaksplash writes what is needed to make a splash of its pictures      *)
(* again: it may have another rate, but its last frame is shown when that  *)
(* of the first splash was.                                                *)
(***************************************************************************)
KeepsTime ==
  pc \in {"read", "misread"} /\ version # "m3sakura" =>
    p.fps > 0 /\ (60 * (frame - 1)) \div p.fps = LastFrame.vsync

=============================================================================
