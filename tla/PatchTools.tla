----------------------------- MODULE PatchTools -----------------------------
(***************************************************************************)
(* xenoups, xenoppf and xenowips as a user meets them: applets of xenobox  *)
(* (main in xenobox.c), each with the same driver around its maker and its *)
(* patcher.  The driver tells from the number of arguments and from what   *)
(* is a terminal whether to make or to patch, and reports by its exit      *)
(* code.  One tool is used throughout: a patch is made in one call and     *)
(* applied in the next ones; what the other tools would keep stays as it   *)
(* is.                                                                     *)
(***************************************************************************)
EXTENDS Integers, Sequences

CONSTANTS
  Bits, DigitBits, UpsSizes, MaxRuns,   \* of Ups
  ByteValues, FileSizes, Window, ChunkMax \* of Ppf and Wips

VARIABLES
  applet,           \* the tool
  phase, call,      \* where the call of it is, and what it is to do
  exit,             \* the code of the last call
  old, new, mpc, i, disk, sizdisk, ppc, record, image, ret, before,
  sizold, siznew, oldoff, ups, bodyend, intact, ptr, forward, runs,
  size, applied,
  ppf, mode, blockcheck, undo, stub, isReverse,
  current_end, wips, header, checked, offset, length

callvars == <<applet, phase, call, exit>>
common   == <<old, new, mpc, i, disk, sizdisk, ppc, record, image, ret, before>>
onlyUps  == <<sizold, siznew, oldoff, ups, bodyend, intact, ptr, forward, runs>>
shared   == <<size, applied>>
onlyPpf  == <<ppf, mode, blockcheck, undo, stub, isReverse>>
onlyWips == <<current_end, wips, header, checked, offset, length>>
toolvars == <<common, onlyUps, shared, onlyPpf, onlyWips>>
vars     == <<callvars, toolvars>>

U == INSTANCE Ups WITH FileSizes <- UpsSizes
P == INSTANCE Ppf WITH Byte <- ByteValues
W == INSTANCE Wips WITH Byte <- ByteValues

ASSUME UpsAssumption  == U!SizesAssumption /\ U!RunsAssumption /\ U!Number!WidthAssumption
ASSUME PpfAssumption  == P!SizesAssumption /\ P!ChunkAssumption /\ P!WindowAssumption
ASSUME WipsAssumption == W!SizesAssumption /\ W!ChunkAssumption /\ W!WindowAssumption

Applets == {"xenoups", "xenoppf", "xenowips"}

NoUps ==
  /\ sizold = 0 /\ siznew = 0 /\ oldoff = 0 /\ ups = <<>> /\ bodyend = 0
  /\ intact = TRUE /\ ptr = 0 /\ forward = TRUE /\ runs = 0

NoPpf ==
  /\ ppf = <<>> /\ mode = 0 /\ blockcheck = FALSE /\ undo = FALSE /\ stub = FALSE
  /\ isReverse = 0

NoWips ==
  /\ current_end = 0 /\ wips = <<>> /\ header = FALSE /\ checked = FALSE
  /\ offset = 0 /\ length = 0

NotCalled == phase = "exited" /\ call = "none" /\ exit = 0

UpsOnly  == applet = "xenoups" /\ size = 0 /\ applied = 0 /\ NoPpf /\ NoWips
PpfOnly  == applet = "xenoppf" /\ NoUps /\ NoWips
WipsOnly == applet = "xenowips" /\ NoUps /\ NoPpf

Init ==
  /\ NotCalled
  /\ (UpsOnly /\ U!Init) \/ (PpfOnly /\ P!OwnInit) \/ (WipsOnly /\ W!OwnInit)

-----------------------------------------------------------------------------
(***************************************************************************)
(* main: the name of the program, or else its first argument, names the    *)
(* applet, which is called with what follows.                              *)
(***************************************************************************)
Dispatch(argv0, argv1, argc) ==
  IF argv0 \in Applets THEN [tool |-> argv0, argc |-> argc]
  ELSE IF argc >= 2 /\ argv1 \in Applets THEN [tool |-> argv1, argc |-> argc - 1]
  ELSE [tool |-> "usage", argc |-> 0]

(* "xenoups file <ups", "file ups", "file newfile >ups", "file newfile ups" *)
Mode(argc, tty) ==
  IF argc < 3 /\ (argc < 2 \/ "stdin" \in tty) THEN "usage"
  ELSE IF argc = 2 \/ (argc = 3 /\ "stdout" \in tty) THEN "patch"
  ELSE "make"

Calls ==
  LET to(argv0, argv1, argc) == Dispatch(argv0, argv1, argc)
  IN {[tool |-> to(argv0, argv1, argc).tool, does |-> Mode(to(argv0, argv1, argc).argc, tty)] :
        argv0 \in Applets \cup {"xenobox"}, argv1 \in Applets \cup {"file"},
        argc \in 1 .. 5, tty \in SUBSET {"stdin", "stdout"}}

Usage ==
  /\ phase = "exited"
  /\ \E c \in Calls :
       \/ c.tool = "usage" /\ exit' = -1
       \/ c.tool = applet /\ c.does = "usage" /\ exit' = 1
  /\ call' = "none"
  /\ UNCHANGED <<applet, phase, toolvars>>

(* A patch is made first; xenoups then applies it MaxRuns times.           *)
Sensible(does) ==
  IF does = "make" THEN mpc = "scan"
  ELSE mpc = "made" /\ (ppc = "idle" \/ (applet = "xenoups" /\ runs < MaxRuns))

Call ==
  /\ phase = "exited"
  /\ \E c \in Calls :
       /\ c.tool = applet /\ c.does # "usage" /\ Sensible(c.does)
       /\ call' = c.does
  /\ phase' = "starts" /\ exit' = 0
  /\ UNCHANGED <<applet, toolvars>>

(* failfile: one of the files cannot be opened.                            *)
CannotOpen ==
  /\ phase = "starts"
  /\ phase' = "exited" /\ call' = "none" /\ exit' = 2
  /\ UNCHANGED <<applet, toolvars>>

ExitCode_Always(code, flag) == code + flag

(* ret ? ret | 0x10 : 0, with 0x20 for a maker; ret is below 16.            *)
ExitCode(code, flag) == IF code = 0 THEN 0 ELSE code + flag

(* "file size not the same", or no memory; what patch there was is emptied. *)
CannotMake ==
  /\ phase = "starts" /\ call = "make"
  /\ phase' = "exited" /\ exit' = ExitCode(2, 32)
  /\ UNCHANGED <<applet, call, toolvars>>

Finished == IF call = "make" THEN mpc = "made" ELSE ppc = "returned"

XenoUps  == applet = "xenoups"  /\ U!Next /\ UNCHANGED <<shared, onlyPpf, onlyWips>>
XenoPpf  == applet = "xenoppf"  /\ P!Next /\ UNCHANGED <<onlyUps, onlyWips>>
XenoWips == applet = "xenowips" /\ W!Next /\ UNCHANGED <<onlyUps, onlyPpf>>

Run ==
  /\ phase = "starts" \/ (phase = "runs" /\ ~Finished)
  /\ XenoUps \/ XenoPpf \/ XenoWips
  /\ phase' = "runs"
  /\ UNCHANGED <<applet, call, exit>>

Exit ==
  /\ phase = "runs" /\ Finished
  /\ phase' = "exited"
  /\ exit' = IF call = "make" THEN 0 ELSE ExitCode(ret, 16)
  /\ UNCHANGED <<applet, call, toolvars>>

Next == Usage \/ Call \/ CannotOpen \/ CannotMake \/ Run \/ Exit

Spec == Init /\ [][Next]_vars

-----------------------------------------------------------------------------
(***************************************************************************)
(* A call to patch that exits with an error has left the file alone,       *)
(* whichever the tool.                                                     *)
(***************************************************************************)
FailureLeavesFile ==
  phase = "exited" /\ call = "patch" /\ exit # 0 => before = <<disk, sizdisk>>

(***************************************************************************)
(* "Patched successfully", and exit code 0, are what the program says when *)
(* the run in memory has found nothing amiss.                              *)
(***************************************************************************)
SuccessMeansPatched == phase = "exited" /\ call = "patch" /\ exit = 0 => applied = 0

(***************************************************************************)
(* "corrupted / truncated" is what xenoups says of a patch that is (Ups).  *)
(***************************************************************************)
FailureMeansDamage == applet = "xenoups" => U!FailureMeansDamage

(***************************************************************************)
(* An xenoups patch turns one of its files into the other, whichever it is *)
(* given, and a run that fails changes nothing (Ups).                      *)
(***************************************************************************)
UpsToggles == applet = "xenoups" => U!Toggles

(***************************************************************************)
(* xenoppf's own patches turn the old file into the new one, and patches   *)
(* of any version change a file by all their records or by none; none is   *)
(* ever taken back, although "reverse patch." is announced (Ppf).          *)
(***************************************************************************)
PpfPatches == applet = "xenoppf" => P!RoundTrip /\ P!AllOrNothing /\ P!TakesNothingBack

(***************************************************************************)
(* xenowips writes records of all that differs; well formed patches are    *)
(* applied whole or not at all, and not to a file with another CRC (Wips). *)
(***************************************************************************)
WipsPatches ==
  applet = "xenowips" => W!Complete /\ W!Patches /\ W!WrongFileUntouched

(***************************************************************************)
(* No record is written outside the memory a file was read into: not by    *)
(* xenoups, nor by xenoppf into a file of the size its patch is for, nor   *)
(* by xenowips with a well formed patch, unless the file is empty.         *)
(***************************************************************************)
WithinMemory ==
  /\ applet = "xenoups"  => U!WithinImage
  /\ applet = "xenoppf"  => P!FitsItsFile
  /\ applet = "xenowips" => W!WithinImage

(* Types of the variables, those of the tool that is used.                 *)
TypeOK ==
  /\ applet \in Applets /\ phase \in {"exited", "starts", "runs"}
  /\ call \in {"none", "make", "patch"}
  /\ exit \in {-1, 0, 1, 2} \cup {17, 18, 20, 34}
  /\ applet = "xenoups"  => U!TypeOK
  /\ applet = "xenoppf"  => P!TypeOK
  /\ applet = "xenowips" => W!TypeOK

=============================================================================
