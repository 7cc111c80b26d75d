---------------------------- MODULE MCPatchTools ----------------------------
(* The tools with two files each, and the file the patch is applied to:    *)
(* for xenoups either of them or zeros, for the others any file.  Patches  *)
(* are made by the tools themselves or by other makers of the format.      *)
EXTENDS PatchTools

CONSTANTS PpfMax, WipsMax   \* size of the files that other makers' patches are for

UpsInit == U!Init /\ (U!IsOld \/ U!IsNew \/ disk = [x \in U!Positions(sizdisk) |-> U!Zero])

-----------------------------------------------------------------------------
(* Patches of a maker of PPF1/2/3 that makes other regions than xenoppf.   *)
OtherPpf ==
  /\ P!AnyFiles /\ size <= PpfMax /\ sizdisk <= PpfMax
  /\ mpc = "made" /\ mode \in 0 .. 3
  /\ blockcheck \in IF mode = 3 THEN BOOLEAN ELSE {FALSE}
  /\ undo \in IF mode = 3 THEN BOOLEAN ELSE {FALSE}
  /\ stub \in BOOLEAN
  /\ \E a \in 0 .. size, b \in 0 .. size, c \in 0 .. size :
       /\ a <= b /\ b <= c
       /\ \A x \in a .. size - 1 : x \in b .. c - 1 \/ old[x] = new[x]
       /\ ppf = P!Records(0, a) \o P!Records(b, c)

-----------------------------------------------------------------------------
(* Patches of a maker of the format whose distances are what wipspatch     *)
(* takes them for, whole, cut or damaged.                                  *)
At(kind, base, address, final) ==
  [kind |-> kind, address |-> address, data |-> W!Bytes(new, address, final - address),
   step |-> IF kind = "relative" THEN address - base ELSE address]

Mark(kind) == [kind |-> kind, step |-> 0, address |-> 0, data |-> <<>>]

Tails == {<<>>, <<Mark("end")>>, <<Mark("unknown"), Mark("end")>>}

OtherWips ==
  /\ W!AnyFiles /\ size <= WipsMax /\ sizdisk <= WipsMax
  /\ mpc = "made" /\ header = TRUE /\ checked \in BOOLEAN
  /\ \E tail \in Tails, kinds \in [1 .. 2 -> {"relative", "absolute"}],
        a \in 0 .. size, b \in 0 .. size, c \in 0 .. size, d \in 0 .. size :
       /\ a <= b /\ b <= c /\ c <= d
       /\ wips \in {<<At(kinds[1], 0, a, b), At(kinds[2], a, c, d)>> \o tail, tail}

-----------------------------------------------------------------------------
MCInit ==
  /\ NotCalled
  /\ \/ UpsOnly  /\ UpsInit
     \/ PpfOnly  /\ (P!OwnInit \/ OtherPpf)
     \/ WipsOnly /\ (W!OwnInit \/ OtherWips)

MCSpec == MCInit /\ [][Next]_vars

=============================================================================
