----------------------------- MODULE IpsSystem -----------------------------
(***************************************************************************)
(* xenoips used twice: "xenoips old new >patch" makes a patch, the patch   *)
(* is carried somewhere, perhaps not all of it (a full disk, a broken      *)
(* pipe), and "xenoips copy <patch" applies it to a copy of the old file.  *)
(***************************************************************************)
EXTENDS IpsMake, IpsPatch

VARIABLE made       \* length of the patch as made; 0 until it is carried

systemvars == <<makevars, magic, diskvars, ppc, cursor, needed, image, ret,
                applied, made>>

patchlocals == <<magic, diskvars, ppc, cursor, needed, image, ret, applied>>

SystemInit ==
  /\ MakeInit /\ PatchInit
  /\ magic = TRUE
  /\ disk = pfile /\ sizdisk = sizfile
  /\ made = 0

Make == MakeNext /\ UNCHANGED <<patchlocals, made>>

Carry ==
  /\ mpc = "made" /\ made = 0
  /\ made' = sizips
  /\ sizips' \in 0 .. sizips
  /\ UNCHANGED <<ips, files, makelocals, patchlocals>>

Apply == made > 0 /\ PatchNext /\ UNCHANGED <<files, makelocals, made>>

SystemNext == Make \/ Carry \/ Apply

SystemSpec == SystemInit /\ [][SystemNext]_systemvars

(* One sequential process at a time: it runs until it is done. *)
FairSystemSpec == SystemSpec /\ WF_systemvars(SystemNext)

-----------------------------------------------------------------------------
Finished == ppc = "returned" \/ mpc = "refused"

Whole == sizips = made

Differ == siznewfile > sizfile \/ \E x \in Positions(common) : pfile[x] # pnewfile[x]

(***************************************************************************)
(* Applied whole to the file it was made from, a patch yields the new      *)
(* file; a new file shorter than the old one keeps the old one's end, for  *)
(* IPS cannot shorten.  It is never turned down, except that the patch     *)
(* between equal files is "empty", and for lack of memory.                 *)
(***************************************************************************)
RoundTrip ==
  ppc = "returned" /\ Whole =>
    /\ ret = 4 \/ ret = IF Differ THEN 0 ELSE 5
    /\ ret = 0 =>
         /\ sizdisk = greatest(sizfile, siznewfile)
         /\ \A x \in Positions(sizdisk) :
              disk[x] = IF x < siznewfile THEN pnewfile[x] ELSE pfile[x]

(***************************************************************************)
(* The message "corrupted / truncated": a patch cut short is turned down,  *)
(* but for the one cut the format cannot tell from the trailer, right      *)
(* behind the address of a record whose address reads "EOF".               *)
(***************************************************************************)
TruncationDetected ==
  ppc = "returned" /\ ~Whole =>
    \/ ret \in {1, 2}
    \/ \E k \in 1 .. Len(ips) - 1 :
         ips[k].address = EofAddress /\ ips[k].at + 3 = sizips

(***************************************************************************)
(* However much of the patch arrived, every byte of the file is the old    *)
(* file's or the new file's, and none is memory nobody has written.        *)
(***************************************************************************)
OldOrNew ==
  \A x \in Positions(sizdisk) :
    \/ x < sizfile /\ disk[x] = pfile[x]
    \/ x < siznewfile /\ disk[x] = pnewfile[x]

(* Every loop of the maker and of the patcher ends. *)
Terminates == <>Finished

=============================================================================
