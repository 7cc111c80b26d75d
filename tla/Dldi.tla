-------------------------------- MODULE Dldi --------------------------------
(***************************************************************************)
(* dldipatch (applet/dldipatch.c): a driver for a card, linked for one     *)
(* address, is copied into the section that homebrew reserves for it and   *)
(* moved to the address of that section: first the pointers in its header, *)
(* then, one word per step, every word of its data, glue and got that      *)
(* looks like a pointer into it.  The homebrew can then be the template    *)
(* that the driver is taken from.                                          *)
(*                                                                         *)
(* A word is a number below Words (2^32); offsets, sizes and addresses are *)
(* counted in words.  Offset 0 stands for the header up to 0x40.           *)
(***************************************************************************)
EXTENDS Integers, FiniteSetsExt

CONSTANTS
  Entries,          \* pointers to functions in the header: 6
  Words,            \* 2^32
  Drivers,          \* drivers: words, and flags fixSections
  Files,            \* homebrew: words, room of its sections, their addresses
  MaxCalls          \* homebrew patched: a bound

VARIABLES
  pD, fix,          \* the driver: its words, its flags
  nds,              \* the homebrew: its words
  allocatedSpace,   \* of each section, by its offset: the room
  home,             \* of each section: the address it is linked for
  ignoresize,       \* its name was given with a colon
  pc,
  pA,               \* offset of the section that is used
  pAdata, reloc, pDdata, pDbssEnd,
  pass, ittr,       \* the loop that fixes words, and its counter
  linked, clean,    \* the driver that pD stems from, if all its moves were apart
  before,           \* the homebrew as it was
  calls

driver == <<pD, fix, linked, clean>>
file   == <<allocatedSpace, home, ignoresize, before, calls>>
moves  == <<pAdata, reloc, pDdata, pDbssEnd>>
vars   == <<driver, nds, file, pc, pA, moves, pass, ittr>>

(* Offsets in the header of a driver, in words.                            *)
dataStart   == 1
dataEnd     == 2
glueStart   == 3
glueEnd     == 4
gotStart    == 5
gotEnd      == 6
bssStart    == 7
bssEnd      == 8
ioType      == 9
dldiStartup == 10
dldiData    == dldiStartup + Entries

Word == 0 .. Words - 1

(* u32 arithmetic.                                                         *)
Plus_Wide(a, b) == a + b

Plus(a, b)  == IF a + b < Words THEN a + b ELSE a + b - Words
Minus(a, b) == IF a >= b THEN a - b ELSE a - b + Words

HeaderPointers == (dataStart .. ioType - 1) \cup (dldiStartup .. dldiData - 1)

dldilen == Minus(pD[bssStart], pD[dataStart])
Needed  == Minus(pD[bssEnd], pD[dataStart])

-----------------------------------------------------------------------------
Opens(f) ==
  /\ nds' = f.words /\ before' = f.words
  /\ allocatedSpace' = f.space /\ home' = f.home
  /\ ignoresize' \in BOOLEAN
  /\ pc' = "search"

Init ==
  /\ \E d \in Drivers : pD = d.words /\ fix = d.fix /\ linked = d.words /\ clean = TRUE
  /\ \E f \in Files : /\ nds = f.words /\ before = f.words
                      /\ allocatedSpace = f.space /\ home = f.home
  /\ ignoresize \in BOOLEAN
  /\ pc = "search" /\ pA = 0
  /\ pAdata = 0 /\ reloc = 0 /\ pDdata = 0 /\ pDbssEnd = 0
  /\ pass = 0 /\ ittr = 0 /\ calls = 1

Length == 1 + Max(DOMAIN nds)

(* The first section with room enough, or the first one of all.            *)
Sections_AnyRoom == {s \in DOMAIN allocatedSpace : s < Length - dldiData}

Sections ==
  {s \in DOMAIN allocatedSpace :
     s < Length - dldiData /\ (Needed <= allocatedSpace[s] \/ ignoresize)}

Search ==
  /\ pc = "search"
  /\ IF Sections = {} THEN pc' = "failed" /\ UNCHANGED pA
                      ELSE pc' = "copy" /\ pA' = Min(Sections)
  /\ UNCHANGED <<driver, nds, file, moves, pass, ittr>>

(* Where the section has no address, its entry points tell.                *)
AddressOf(data, startup) == IF data # 0 THEN data ELSE Minus(startup, dldiData)

Inside(n) == pA + n \in DOMAIN nds \cup {Length}

(* The driver is copied, and the pointers of its header are moved.  One    *)
(* whose pointers were moved twice may claim to be longer than its file.   *)
Copy ==
  /\ pc = "copy"
  /\ pAdata' = AddressOf(nds[pA + dataStart], nds[pA + dldiStartup])
  /\ pDdata' = pD[dataStart] /\ pDbssEnd' = pD[bssEnd]
  /\ reloc' = Minus(pAdata', pDdata')
  /\ IF Inside(dldilen) /\ \A n \in 0 .. dldilen - 1 : n \in DOMAIN pD
     THEN /\ nds' = [x \in DOMAIN nds |->
                       IF x \notin pA .. pA + dldilen - 1 THEN nds[x]
                       ELSE IF x - pA \in HeaderPointers THEN Plus(pD[x - pA], reloc')
                       ELSE pD[x - pA]]
          /\ pc' = "pass" /\ pass' = 1
     ELSE pc' = "crashed" /\ UNCHANGED <<nds, pass>>
  /\ UNCHANGED <<driver, file, pA, ittr>>

Slot(o) == nds[pA + o]

(* What of the section is at an address: the header says, at every use.    *)
torelative(o) == Minus(Slot(o), pAdata)

fixAll  == "all"
fixGlue == "glue"
fixGot  == "got"
fixBss  == "bss"

Passes == <<[flag |-> fixAll,  from |-> dataStart, to |-> dataEnd],
            [flag |-> fixGlue, from |-> glueStart, to |-> glueEnd],
            [flag |-> fixGot,  from |-> gotStart,  to |-> gotEnd]>>

Pass ==
  /\ pc = "pass" /\ pass <= 3
  /\ IF Passes[pass].flag \in fix
     THEN ittr' = torelative(Passes[pass].from) /\ pc' = "fix" /\ UNCHANGED pass
     ELSE pass' = pass + 1 /\ UNCHANGED <<ittr, pc>>
  /\ UNCHANGED <<driver, nds, file, pA, moves>>

InPass == ittr < torelative(Passes[pass].to)

LooksPointer_Closed(v) == pDdata <= v /\ v <= pDbssEnd

(* pDdata <= v && v < pDbssEnd                                             *)
LooksPointer(v) == pDdata <= v /\ v < pDbssEnd

FixWord ==
  /\ pc = "fix" /\ InPass
  /\ IF pA + ittr \in DOMAIN nds
     THEN /\ nds' = IF LooksPointer(Slot(ittr))
                    THEN [nds EXCEPT ![pA + ittr] = Plus(@, reloc)] ELSE nds
          /\ ittr' = ittr + 1 /\ UNCHANGED pc
     ELSE pc' = "crashed" /\ UNCHANGED <<nds, ittr>>
  /\ UNCHANGED <<driver, file, pA, moves, pass>>

EndPass ==
  /\ pc = "fix" /\ ~InPass
  /\ pass' = pass + 1 /\ pc' = "pass"
  /\ UNCHANGED <<driver, nds, file, pA, moves, ittr>>

BssWords == Minus(pDbssEnd, pD[bssStart])

ClearBss ==
  /\ pc = "pass" /\ pass = 4
  /\ IF fixBss \notin fix THEN pc' = "patched" /\ UNCHANGED nds
     ELSE LET start == pA + torelative(bssStart)
          IN IF start + BssWords <= Length
             THEN /\ nds' = [x \in DOMAIN nds |->
                               IF x \in start .. start + BssWords - 1 THEN 0 ELSE nds[x]]
                  /\ pc' = "patched"
             ELSE pc' = "crashed" /\ UNCHANGED nds
  /\ UNCHANGED <<driver, file, pA, moves, pass, ittr>>

(* "dldipatch dldi/homebrew [homebrew...]": the next one.                  *)
NextFile ==
  /\ pc \in {"patched", "failed"} /\ calls < MaxCalls
  /\ calls' = calls + 1
  /\ \E f \in Files : Opens(f)
  /\ pass' = 0
  /\ UNCHANGED <<driver, pA, moves, ittr>>

PointsInto(d, v) == d[dataStart] <= v /\ v < d[bssEnd]

(***************************************************************************)
(* What relocation means: the pointers of the header, and every word of    *)
(* the parts to be fixed that points into the driver, are moved by the     *)
(* same distance, all others stay; the bss is cleared where that is asked  *)
(* for, and else is what it was.                                           *)
(***************************************************************************)
Part(d, o, p) == Minus(d[p.from], d[dataStart]) <= o /\ o < Minus(d[p.to], d[dataStart])

Moves(d, o) ==
  \/ o \in HeaderPointers
  \/ PointsInto(d, d[o]) /\ \E k \in 1 .. 3 : Passes[k].flag \in fix /\ Part(d, o, Passes[k])

Relocated(d, to, o) ==
  IF Moves(d, o) THEN Plus(d[o], Minus(to, d[dataStart])) ELSE d[o]

Size(d)     == Minus(d[bssEnd], d[dataStart])
Initialized(d) == Minus(d[bssStart], d[dataStart])

(* Words at one address cannot be taken for pointers at the other.         *)
Apart(d, to) ==
  \A v \in d[dataStart] .. d[bssEnd] :
    ~PointsInto(d, Plus(v, Minus(to, d[dataStart])))

(* Words that stay cannot be taken for pointers at the other address.      *)
Stays(d, to) ==
  \A o \in 0 .. Initialized(d) - 1 :
    ~Moves(d, o) => ~(to <= d[o] /\ d[o] < to + Size(d))

(* The homebrew that was patched is the template for another one; what is  *)
(* taken is its first section, with all that is behind it.                 *)
Template ==
  /\ pc = "patched" /\ pA = Min(DOMAIN allocatedSpace) /\ calls < MaxCalls
  /\ calls' = calls + 1
  /\ pD' = [o \in 0 .. Length - 1 - pA |-> Slot(o)]
  /\ clean' = (clean /\ Apart(pD, home[pA]) /\ Stays(pD, home[pA]))
  /\ \E f \in Files : Opens(f)
  /\ pass' = 0
  /\ UNCHANGED <<fix, linked, pA, moves, ittr>>

Next == Search \/ Copy \/ Pass \/ FixWord \/ EndPass \/ ClearBss \/ NextFile \/ Template

Spec == Init /\ [][Next]_vars

-----------------------------------------------------------------------------
(* What there is to be patched: drivers whose header points into them, and *)
(* whose parts are in front of their bss; homebrew that has the room it    *)
(* claims, not at the very end of the addresses.                           *)
IsDriver(d) ==
  /\ d \in [DOMAIN d -> Word] /\ 0 .. dldiData - 1 \subseteq DOMAIN d
  /\ dldiData <= Initialized(d) /\ 0 .. Initialized(d) - 1 \subseteq DOMAIN d
  /\ \A o \in HeaderPointers : d[dataStart] <= d[o] /\ d[o] <= d[bssEnd]
  /\ \A k \in 1 .. 3 : d[Passes[k].to] <= d[bssStart]

IsHomebrew(f) ==
  LET length == 1 + Max(DOMAIN f.words)
  IN /\ length \in Nat /\ f.words \in [0 .. length - 1 -> Word]
     /\ DOMAIN f.space \subseteq Nat /\ f.space \in [DOMAIN f.space -> Nat]
     /\ \A s \in DOMAIN f.space : s < length - dldiData =>
          /\ s + f.space[s] <= length
          /\ f.home[s] = AddressOf(f.words[s + dataStart], f.words[s + dldiStartup])
          /\ \A d \in Drivers : f.home[s] + Size(d.words) < Words

DldiAssumption ==
  /\ Words \in Nat \ {0} /\ Entries \in Nat
  /\ \A d \in Drivers : IsDriver(d.words)
  /\ \A f \in Files : IsHomebrew(f)

(***************************************************************************)
(* A section that was patched holds the driver as if it had been linked    *)
(* for it, every pointer moved once, whether the driver came from its file *)
(* or out of other homebrew, and however often that was done; if what it   *)
(* is moved from and to do not overlap, and no word that is no pointer     *)
(* looks like one there.                                                   *)
(***************************************************************************)
Patched ==
  \A o \in 0 .. Size(linked) - 1 :
    pA + o \in DOMAIN nds =>
    Slot(o) = IF o < Initialized(linked) THEN Relocated(linked, home[pA], o)
              ELSE IF fixBss \in fix THEN 0 ELSE before[pA + o]

MovedOnce == pc = "patched" /\ clean /\ Apart(pD, home[pA]) => Patched

(***************************************************************************)
(* Outside the room of the section nothing changes, unless its size was to *)
(* be ignored, and no step leaves the file; even if the driver is moved    *)
(* onto addresses of its own, and what bounds the loops is moved in them.  *)
(* Only the bss that is cleared may then be elsewhere.                     *)
(***************************************************************************)
ClearsElsewhere == pc \in {"patched", "crashed"} /\ fixBss \in fix /\ ~Apart(pD, home[pA])

KeepsRest ==
  clean /\ ~ignoresize /\ ~ClearsElsewhere =>
    /\ pc # "crashed"
    /\ \A x \in DOMAIN nds :
         pc \in {"search", "failed"} \/ x \notin pA .. pA + allocatedSpace[pA] - 1
           => nds[x] = before[x]

(* Types of the variables.                                                 *)
TypeOK ==
  /\ pD \in [DOMAIN pD -> Word] /\ nds \in [DOMAIN before -> Word]
  /\ {pAdata, reloc, pDdata, pDbssEnd} \subseteq Word
  /\ pc \in {"search", "copy", "pass", "fix", "patched", "failed", "crashed"}
  /\ pA \in Nat /\ pass \in 0 .. 4 /\ ittr \in 0 .. Words

=============================================================================
