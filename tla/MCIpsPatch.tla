---------------------------- MODULE MCIpsPatch -----------------------------
(* Instances of IpsPatch for TLC: every patch of up to MaxRecords records *)
(* over the addresses and sizes below, cut anywhere in its last record.     *)
EXTENDS IpsPatch, TLC

CONSTANTS MaxRecords, Addresses, b0, b1, b2

Rec(address, size, fill, data) ==
  [at |-> 0, address |-> address, size |-> size, fill |-> fill, data |-> data]

(* Records write b0 or b1, the files hold b2. *)
Literals == {Rec(a, n, FALSE, [x \in Positions(n) |-> b]) :
               a \in Addresses, n \in {1, 2}, b \in {b0, b1}}
Fills    == {Rec(a, 2, TRUE, [x \in Positions(1) |-> b]) :
               a \in Addresses, b \in {b0, b1}}
            \cup {Rec(a, 0, TRUE, [x \in Positions(1) |-> b0]) : a \in Addresses}

Ats(p) == LET at[k \in 1 .. Len(p)] ==
                IF k = 1 THEN 5 ELSE at[k - 1] + RecordBytes(p[k - 1])
          IN at

Lay(p) == [k \in 1 .. Len(p) |-> [p[k] EXCEPT !.at = Ats(p)[k]]]

Starts == UNION {[1 .. n -> Literals \cup Fills] : n \in 1 .. MaxRecords}

(* The file ends n bytes into the last record; 3 of them are its address. *)
Cut(p, n) == [ips |-> p, magic |-> TRUE, sizips |-> p[Len(p)].at + n]

Patches ==
  UNION {LET p == Lay(s) IN {Cut(p, n) : n \in {1, 3, 4, RecordBytes(p[Len(p)])}} :
           s \in Starts}
  \cup {[ips |-> <<>>, magic |-> FALSE, sizips |-> n] : n \in {0, 5}}
  \cup {[Cut(Lay(s), 3) EXCEPT !.magic = FALSE] : s \in [1 .. 1 -> Fills]}

Disks == {[size |-> n, bytes |-> [x \in Positions(n) |-> b2]] : n \in {0, 1, 3}}

MCInit ==
  /\ \E p \in Patches : ips = p.ips /\ sizips = p.sizips /\ magic = p.magic
  /\ \E f \in Disks : sizdisk = f.size /\ disk = f.bytes
  /\ WellLaid(ips, sizips)
  /\ PatchInit

MCPatchSpec == MCInit /\ [][PatchNext]_patchvars

(* ipspatch is never interrupted. *)
MCFairPatchSpec == MCPatchSpec /\ WF_patchvars(PatchNext)
=============================================================================
