---------------------------- MODULE IpsPatchSpec ---------------------------
(***************************************************************************)
(* What applying an IPS patch promises: in one step the file is either     *)
(* left alone or becomes the patched file, in which every byte has the     *)
(* value the last record that covers it gives.  No cursor, no two runs.    *)
(***************************************************************************)
EXTENDS IpsFormat

VARIABLES disk, sizdisk, outcome

specvars == <<ips, sizips, disk, sizdisk, outcome>>

(* The patch ends in the trailer that starts record k. *)
EndsAt(k) == /\ k \in 1 .. Len(ips)
             /\ ips[k].address = EofAddress /\ ips[k].at + 3 = sizips

(***************************************************************************)
(* b is what the first k - 1 records of patch p make of byte x of a file   *)
(* of n bytes d: the last of them that covers it decides, and one that     *)
(* neither they nor the file have is memory nobody wrote.                  *)
(***************************************************************************)
PatchedTo(p, k, d, n, x, b) ==
  \/ \E j \in 1 .. k - 1 :
       /\ Covers(p[j], x) /\ b = ByteOf(p[j], x)
       /\ \A l \in j + 1 .. k - 1 : ~Covers(p[l], x)
  \/ /\ \A j \in 1 .. k - 1 : ~Covers(p[j], x)
     /\ b = IF x < n THEN d[x] ELSE Indeterminate

RecordEnds(k) == {ips[j].address + ips[j].size : j \in 1 .. k - 1}

(* n bytes are what the file and the records need, no more. *)
PatchedSize(k, n) ==
  /\ n >= sizdisk /\ \A e \in RecordEnds(k) : n >= e
  /\ n = sizdisk \/ n \in RecordEnds(k)

SpecInit == outcome = "none"

Keep == /\ outcome = "none" /\ outcome' = "refused"
        /\ UNCHANGED <<ips, sizips, disk, sizdisk>>

Patch == /\ outcome = "none" /\ outcome' = "patched"
         /\ \E k \in 1 .. Len(ips) :
              /\ EndsAt(k)
              /\ PatchedSize(k, sizdisk')
              /\ DOMAIN disk' = Positions(sizdisk')
              /\ \A x \in Positions(sizdisk') :
                   PatchedTo(ips, k, disk, sizdisk, x, disk'[x])
         /\ UNCHANGED <<ips, sizips>>

PatchSpecNext == Keep \/ Patch

AtomicPatch == SpecInit /\ [][PatchSpecNext]_specvars

=============================================================================
