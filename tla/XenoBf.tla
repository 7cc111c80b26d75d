------------------------------- MODULE XenoBf -------------------------------
(***************************************************************************)
(* xenobf (applet/xenobf.c) reads a source text into memory, compares how  *)
(* many brackets open and close, and interprets it: execute calls itself   *)
(* for an opening bracket on a cell that is not 0, starts over at a        *)
(* closing one while the cell is not 0 and returns when it is; the caller  *)
(* then searches the closing bracket itself.                               *)
(***************************************************************************)
EXTENDS Integers, Sequences, SequencesExt, FiniteSetsExt

CONSTANTS
  CellBits,         \* 8
  Cells,            \* addresses of the memory da, from a's first one
  Greeting,         \* "Hello, world!", with which a braincrash tape starts
  Texts             \* the sources

(* That there are values follows, but not for the provers.                 *)
ASSUME CellAssumption == 2 ^ CellBits \in Nat \ {0}

ASSUME TextsAssumption == Texts \subseteq Seq(STRING)

VARIABLES
  source,           \* the file
  read,             \* fgetc's position in it
  comment,          \* inside a comment
  i,                \* brackets opened and not closed
  p,                \* the program
  braincrash,
  frames,           \* calls of execute: x, its program, and i, its position
  marker,           \* brackets still to be closed in the search; 0: none
  tape, a,
  out,              \* the character last written
  stage             \* read, run, dump, done, error, crashed, astray, lost

filevars == <<source, braincrash>>
loadvars == <<read, comment, i, p>>
cellvars == <<tape, a, out>>
runvars  == <<frames, marker>>
vars     == <<filevars, loadvars, cellvars, runvars, stage>>

Plain == {">", "<", "+", "-", ".", ",", "[", "]"}

Operations == {"|", "&", "~", "^"}

Init ==
  /\ source \in Texts /\ braincrash \in BOOLEAN
  /\ read = 1 /\ comment = FALSE /\ i = 0 /\ p = <<>>
  /\ frames = <<[x |-> 0, i |-> 0]>> /\ marker = 0
  /\ a = 0 /\ out = [n |-> 0, byte |-> 0] /\ stage = "read"
  /\ tape = [k \in Cells |-> IF braincrash /\ k \in DOMAIN Greeting THEN Greeting[k] ELSE 0]

-----------------------------------------------------------------------------
c == source[read]

Keeps == ~comment /\ (c \in Plain \/ (c \in Operations /\ braincrash))

ReadChar ==
  /\ stage = "read" /\ read <= Len(source)
  /\ read' = read + 1
  /\ comment' = IF comment THEN c # "newline" ELSE c = "!"
  /\ p' = IF Keeps THEN Append(p, c) ELSE p
  /\ i' = IF ~Keeps THEN i ELSE IF c = "[" THEN i + 1 ELSE IF c = "]" THEN i - 1 ELSE i
  /\ UNCHANGED <<filevars, cellvars, runvars, stage>>

Unbalanced_Ignored == FALSE

Unbalanced == i # 0

StartRun ==
  /\ stage = "read" /\ read = Len(source) + 1
  /\ stage' = IF Unbalanced THEN "error" ELSE "run"
  /\ UNCHANGED <<filevars, loadvars, cellvars, runvars>>

-----------------------------------------------------------------------------
top == Last(frames)

Position == top.x + top.i

(***************************************************************************)
(* What x + i points to.  The memory is as long as the file and filled up  *)
(* with 0 behind the program, which ends execute and no search; a file     *)
(* that is nothing but program has no 0 behind it.                         *)
(***************************************************************************)
Fetched == IF Position < Len(p) THEN p[Position + 1]
           ELSE IF Position < Len(source) THEN "end" ELSE "unknown"

Executes(command) == stage = "run" /\ marker = 0 /\ Fetched = command

Advanced(fs) == [fs EXCEPT ![Len(fs)].i = @ + 1]

Step ==
  /\ frames' = Advanced(frames)
  /\ UNCHANGED <<filevars, loadvars, marker, stage>>

OnTape == a \in Cells

Put(v) == OnTape /\ tape' = [tape EXCEPT ![a] = v % 2 ^ CellBits]

Right == Executes(">") /\ a' = a + 1 /\ Step /\ UNCHANGED <<tape, out>>
Left  == Executes("<") /\ a' = a - 1 /\ Step /\ UNCHANGED <<tape, out>>
Inc   == Executes("+") /\ Put(tape[a] + 1) /\ Step /\ UNCHANGED <<a, out>>
Dec   == Executes("-") /\ Put(tape[a] - 1) /\ Step /\ UNCHANGED <<a, out>>

(* getchar's EOF is a byte of ones. *)
In == /\ Executes(",") /\ \E byte \in 0 .. 2 ^ CellBits - 1 : Put(byte)
      /\ Step /\ UNCHANGED <<a, out>>

PutChar == OnTape /\ out' = [n |-> 1 - out.n, byte |-> tape[a]]

Out == Executes(".") /\ PutChar /\ Step /\ UNCHANGED <<tape, a>>

Search == frames' = Advanced(frames) /\ marker' = 1

Call == frames' = Append(Advanced(frames), [x |-> Position + 1, i |-> 0])
        /\ UNCHANGED marker

Open ==
  /\ Executes("[") /\ OnTape
  /\ IF tape[a] # 0 THEN Call ELSE Search
  /\ UNCHANGED <<filevars, loadvars, cellvars, stage>>

(* The caller goes on with the search. *)
Return ==
  IF Len(frames) > 1
  THEN frames' = Front(frames) /\ marker' = 1 /\ UNCHANGED stage
  ELSE stage' = "done" /\ UNCHANGED runvars

Restart_Next == frames' = [frames EXCEPT ![Len(frames)].i = 1]

Restart == frames' = [frames EXCEPT ![Len(frames)].i = 0]

Close ==
  /\ Executes("]") /\ OnTape
  /\ IF tape[a] # 0 THEN Restart /\ UNCHANGED <<marker, stage>> ELSE Return
  /\ UNCHANGED <<filevars, loadvars, cellvars>>

Marker_Flat(m, found) == IF found = "]" THEN 0 ELSE m

Marker(m, found) == IF found = "[" THEN m + 1 ELSE IF found = "]" THEN m - 1 ELSE m

(* Nothing but the last bracket ends the search. *)
SearchChar ==
  /\ stage = "run" /\ marker > 0 /\ Position < Len(p)
  /\ marker' = Marker(marker, Fetched)
  /\ frames' = Advanced(frames)
  /\ UNCHANGED <<filevars, loadvars, cellvars, stage>>

End ==
  /\ stage = "run" /\ marker = 0 /\ Fetched \in {"end", "unknown"}
  /\ IF Len(frames) = 1 /\ braincrash THEN stage' = "dump" /\ UNCHANGED runvars ELSE Return
  /\ UNCHANGED <<filevars, loadvars, cellvars>>

(* The rest of the tape up to its first 0 is written out. *)
Dump ==
  /\ stage = "dump" /\ OnTape
  /\ IF tape[a] # 0 THEN PutChar /\ a' = a + 1 /\ UNCHANGED stage
                    ELSE stage' = "done" /\ UNCHANGED <<a, out>>
  /\ UNCHANGED <<filevars, loadvars, runvars, tape>>

(***************************************************************************)
(* The cases of braincrash fall through, each into the next, and the last  *)
(* into the error that ends this call of execute.                          *)
(***************************************************************************)
Cases == <<"|", "&", "~", "^">>

Bits(v) == {b \in 0 .. CellBits - 1 : (v \div 2 ^ b) % 2 = 1}

Value(bits) == LET weight(b) == 2 ^ b IN MapThenSumSet(weight, bits)

Operate(t, case) ==
  LET k == IF case = "~" THEN t.a ELSE t.a + 1
      v == t.tape[k]
      w == t.tape[k - 1]
  IN [a |-> k,
      tape |-> [t.tape EXCEPT ![k] = CASE case = "|" -> Value(Bits(v) \cup Bits(w))
                                       [] case = "&" -> Value(Bits(v) \cap Bits(w))
                                       [] case = "~" -> 2 ^ CellBits - 1 - v
                                       [] case = "^" -> Value((Bits(v) \cup Bits(w))
                                                               \ (Bits(v) \cap Bits(w)))]]

Operation ==
  /\ stage = "run" /\ marker = 0 /\ Fetched \in Operations
  /\ a .. a + 3 \subseteq Cells
  /\ \E first \in 1 .. 4 :
       /\ Cases[first] = Fetched
       /\ LET t == FoldLeft(Operate, [a |-> a, tape |-> tape], SubSeq(Cases, first, 4))
          IN a' = t.a /\ tape' = t.tape
  /\ Return
  /\ UNCHANGED <<filevars, loadvars, out>>

(* Nothing keeps a on the tape; here it may leave it at its end. *)
Leave ==
  /\ \/ stage = "run" /\ marker = 0 /\ Fetched \in Plain \ {">", "<"} /\ ~OnTape
     \/ stage = "run" /\ marker = 0 /\ Fetched \in Operations /\ ~(a .. a + 3 \subseteq Cells)
     \/ stage = "dump" /\ ~OnTape
  /\ stage' = "crashed"
  /\ UNCHANGED <<filevars, loadvars, cellvars, runvars>>

(* Memory behind the program is run, or searched. *)
Astray ==
  /\ stage = "run"
  /\ \/ marker = 0 /\ Fetched = "unknown" /\ stage' = "astray"
     \/ marker > 0 /\ Position >= Len(p) /\ stage' = "lost"
  /\ UNCHANGED <<filevars, loadvars, cellvars, runvars>>

Next ==
  \/ ReadChar \/ StartRun
  \/ Right \/ Left \/ Inc \/ Dec \/ In \/ Out \/ Open \/ Close \/ SearchChar
  \/ End \/ Dump \/ Operation \/ Leave \/ Astray

Spec == Init /\ [][Next]_vars

-----------------------------------------------------------------------------
(***************************************************************************)
(* The search for a closing bracket never leaves the program, although no  *)
(* more than the numbers of brackets have been compared: what is behind a  *)
(* closing bracket without a partner is never run.                         *)
(***************************************************************************)
SearchStays == stage # "lost"

(* Where a search will end that is at some place of the program.           *)
StillOpen(at, m) ==
  LET open[k \in at .. Len(p)] == IF k = at THEN m ELSE Marker(open[k - 1], p[k]) IN open

Found(at, m) ==
  LET ends == {k \in at .. Len(p) : StillOpen(at, m)[k] = 0}
  IN IF ends = {} THEN Len(p) ELSE CHOOSE k \in ends : \A l \in ends : k <= l

Plainly(v, idle) == IF braincrash THEN idle ELSE v

(***************************************************************************)
(* The calls and searches of plain mode are the jumps of the flat program. *)
(* One that ends where the file does has no 0 there, and may go on.        *)
(***************************************************************************)
Machine == INSTANCE Brainfuck WITH
  source <- Plainly(source, <<>>),
  pc     <- Plainly(IF marker = 0 THEN Position + 1
                    ELSE Found(Position, marker) + 1, 1),
  tape   <- Plainly(tape, [k \in Cells |-> 0]),
  a      <- Plainly(a, 0),
  out    <- Plainly(out, [n |-> 0, byte |-> 0]),
  status <- Plainly(CASE stage = "error" -> "refused"
                      [] stage = "done" -> "halted"
                      [] stage = "astray" /\ Len(p) = Len(source) -> "halted"
                      [] stage = "crashed" -> "crashed"
                      [] stage \in {"read", "run"} -> "run", "run")

Interprets == Machine!Interprets

-----------------------------------------------------------------------------
(* Texts for TLC: every very short one, and longer ones of brackets and    *)
(* counting.                                                               *)
CONSTANTS ShortSize, LongSize

Shorts == BoundedSeq(Plain \cup Operations \cup {"newline", "!"}, ShortSize)

Longs == BoundedSeq({"+", "-", "[", "]"}, LongSize)

MCTexts == Shorts \cup Longs \cup {Append(t, "newline") : t \in Longs}

MCCells == -1 .. 2

MCGreeting == 0 :> 2 @@ 1 :> 1

=============================================================================
