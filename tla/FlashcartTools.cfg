\* Drivers of 14 words, every combination of three words and some of flags,
\* patched into two homebrews one after the other, at addresses that overlap
\* the driver's, by less than its bss too, or one another's, lie right behind
\* them, or none of this.  A base of one record, files of up to
\* two records: two of them.  Up to three frames of up to two lines, or four
\* times the same, one more than the reader takes, for each program, at rates
\* from slow to more than 60 a second.  Files of up to two
\* blocks, with and without sums, cut anywhere or with any one byte changed.
\* Databases of up to two versions of a game, games of up to three bytes of it.
SPECIFICATION Spec
CONSTANTS
  Words = 128
  Entries = 1
  Drivers <- MCDrivers
  Files <- MCFiles
  Linked = 20
  Homes = {14, 21, 36, 80}
  Flags = {{"all", "bss"}, {"glue", "got"}, {"all", "got", "bss"}, {}}
  MaxCalls = 2
  Cheats = {c1, c2}
  Names = {"n", "none"}
  Bases <- MCBases
  Inputs <- MCInputs
  MaxFiles = 2
  Width = 2
  Lines = 2
  Pictures <- MCPictures
  Broken = Broken
  MaxFrames = 3
  Albums <- MCAlbums
  Rates = {7, 25, 60, 121}
  MaxRun = 2
  PaletteMax = 3
  SakuraMax = 2
  FrameMax = 3
  LzssSizes = {3, 8, 10}
  ZlibSizes = {2, 4, 8, 10}
  CompMax = 9
  BufSize = 8
  Stale = {0, 1}
  Originals <- MCOriginals
  Damages = {0, 1, 5, 13, 17, 32, 33, 64}
  Noise = 0
  Databases <- MCDatabases
  Games <- MCGames
  MaxGames = 2
  Searches <- MCSearches
  CompSize = 2
SYMMETRY Symmetry
CHECK_DEADLOCK FALSE
INVARIANTS
  MovedOnce
  KeepsRest
  Merges
  OpensAsMade
  FramesAsDrawn
  PatchesWhole
  OkMeansWhole
