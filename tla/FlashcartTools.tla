--------------------------- MODULE FlashcartTools ---------------------------
(***************************************************************************)
(* Tools for flash cartridges and their games, of each kind a module:      *)
(* dldipatch (Dldi), the mergers of cheat databases (CheatMerge), the      *)
(* makers and breakers of splash screens (Splash), the unpacker of updates *)
(* (Lzop), and what patches bytes (BytePatchers).  xenobox runs one of     *)
(* them; what the others have a use for stays as it is.                    *)
(***************************************************************************)
EXTENDS Integers, Sequences

CONSTANTS
  Words, Entries, Drivers, Files, MaxCalls,       \* of Dldi
  Bases, Inputs, MaxFiles,                        \* of CheatMerge
  Width, Lines, Pictures, Broken, Albums, Rates, MaxRun, PaletteMax, SakuraMax,
  FrameMax, LzssSizes, ZlibSizes, CompMax, BufSize, Stale,  \* of Splash
  Originals, Damages, Noise,                      \* of Lzop
  Databases, Games, MaxGames, Searches, CompSize  \* of BytePatchers

VARIABLES
  tool, pc, file, ret,
  pD, fix, nds, allocatedSpace, home, ignoresize, pA, pAdata, reloc, pDdata, pDbssEnd,
  pass, ittr, linked, clean, before, calls,
  usr, merging, i, l, files, base, written,
  version, images, fps, first, p, decompbuf, idx,
  original, damaged, tell, flags, dlen, menc, pos, mdec, c, state, out,
  args, was, games, entry, record, comp, differ_before, differ_after, side

onlyDldi   == <<pD, fix, nds, allocatedSpace, home, ignoresize, pA, pAdata, reloc, pDdata,
                pDbssEnd, pass, ittr, linked, clean, before, calls>>
onlyCheats == <<usr, merging, i, l, files, base, written>>
onlySplash == <<version, images, fps, first, p, decompbuf, idx>>
onlyLzop   == <<original, damaged, tell, flags, dlen, menc, pos, mdec, c, state, out>>
onlyBytes  == <<args, was, games, entry, record, comp, differ_before, differ_after, side>>
vars       == <<tool, pc, file, ret, onlyDldi, onlyCheats, onlySplash, onlyLzop, onlyBytes>>

D == INSTANCE Dldi
C == INSTANCE CheatMerge
S == INSTANCE Splash
L == INSTANCE Lzop
B == INSTANCE BytePatchers WITH Zero <- 0

ASSUME DldiAssumption == D!DldiAssumption
ASSUME PatchersAssumption == B!BytesAssumption

NoDldi ==
  /\ pD = <<>> /\ fix = <<>> /\ nds = <<>> /\ allocatedSpace = <<>> /\ home = <<>>
  /\ ignoresize = <<>> /\ pA = <<>> /\ pAdata = <<>> /\ reloc = <<>> /\ pDdata = <<>>
  /\ pDbssEnd = <<>> /\ pass = <<>> /\ ittr = <<>> /\ linked = <<>> /\ clean = <<>>
  /\ before = <<>> /\ calls = <<>>

NoCheats ==
  /\ usr = <<>> /\ merging = <<>> /\ i = <<>> /\ l = <<>> /\ files = <<>> /\ base = <<>>
  /\ written = <<>>

NoSplash ==
  /\ version = <<>> /\ images = <<>> /\ fps = <<>> /\ first = <<>> /\ p = <<>>
  /\ decompbuf = <<>> /\ idx = <<>>

NoLzop ==
  /\ original = <<>> /\ damaged = <<>> /\ tell = <<>> /\ flags = <<>> /\ dlen = <<>>
  /\ menc = <<>> /\ pos = <<>> /\ mdec = <<>> /\ c = <<>> /\ state = <<>> /\ out = <<>>

NoBytes ==
  /\ args = <<>> /\ was = <<>> /\ games = <<>> /\ entry = <<>> /\ record = <<>>
  /\ comp = <<>> /\ differ_before = <<>> /\ differ_after = <<>> /\ side = <<>>

BytesTools == {"openpatch", "openpatch_single", "binreplace"}

Init ==
  \/ /\ tool = "dldipatch" /\ D!Init /\ file = <<>> /\ ret = 0
     /\ NoCheats /\ NoSplash /\ NoLzop /\ NoBytes
  \/ /\ tool = "mergecheat" /\ C!Init /\ file = <<>> /\ ret = 0
     /\ NoDldi /\ NoSplash /\ NoLzop /\ NoBytes
  \/ /\ tool = "splash" /\ S!Init
     /\ NoDldi /\ NoCheats /\ NoLzop /\ NoBytes
  \/ /\ tool = "unlzop" /\ L!Init
     /\ NoDldi /\ NoCheats /\ NoSplash /\ NoBytes
  \/ /\ tool \in BytesTools /\ B!Init
     /\ NoDldi /\ NoCheats /\ NoSplash /\ NoLzop

Dldipatch  == /\ tool = "dldipatch" /\ D!Next
              /\ UNCHANGED <<tool, file, ret, onlyCheats, onlySplash, onlyLzop, onlyBytes>>
Mergecheat == /\ tool = "mergecheat" /\ C!Next
              /\ UNCHANGED <<tool, file, ret, onlyDldi, onlySplash, onlyLzop, onlyBytes>>
Splashes   == /\ tool = "splash" /\ S!Next
              /\ UNCHANGED <<tool, onlyDldi, onlyCheats, onlyLzop, onlyBytes>>
Unlzop     == /\ tool = "unlzop" /\ L!Next
              /\ UNCHANGED <<tool, onlyDldi, onlyCheats, onlySplash, onlyBytes>>
Patchers   == /\ tool \in BytesTools /\ B!Next
              /\ UNCHANGED <<onlyDldi, onlyCheats, onlySplash, onlyLzop>>

Next == Dldipatch \/ Mergecheat \/ Splashes \/ Unlzop \/ Patchers

Spec == Init /\ [][Next]_vars

-----------------------------------------------------------------------------
(* Every pointer of a driver is moved once (Dldi).                         *)
MovedOnce == tool = "dldipatch" => D!MovedOnce

(* What is outside of the driver's section is kept, and words of 32 bits   *)
(* are what is moved (Dldi).                                               *)
KeepsRest == tool = "dldipatch" => D!KeepsRest /\ D!TypeOK

(* What is merged has every cheat, none from elsewhere, and none twice     *)
(* that was there once; and is read as it was written (CheatMerge).        *)
Merges == tool = "mergecheat" => C!Union /\ C!NoneTwice /\ C!ReadBack

(* A splash is opened for the program it was made for, but for those that  *)
(* Splash names, and made again it ends when the first did (Splash).       *)
OpensAsMade == tool = "splash" => S!OpensAsMade /\ S!KeepsTime

(* Frames are read as they were drawn, in any order (Splash).              *)
FramesAsDrawn == tool = "splash" => S!FramesAsDrawn

(* Games are patched by a whole entry, found if there is one, and can be   *)
(* patched back; strings are replaced whole (BytePatchers).                *)
PatchesWhole ==
  tool \in BytesTools => B!TypeOK /\ B!Invertible /\ B!Finds /\ B!Replaces

(* What is told to be well is what was packed (Lzop).                      *)
OkMeansWhole == tool = "unlzop" => L!OkMeansWhole

=============================================================================
