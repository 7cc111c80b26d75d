------------------------------ MODULE Brainfuck -----------------------------
(***************************************************************************)
(* What an interpreter of Brainfuck promises: it runs the commands of a    *)
(* source text, comments removed, as a flat program whose brackets jump to *)
(* their partners.  Two choices of xenobf are part of it: a text whose     *)
(* brackets do not add up is refused, and a closing bracket without a      *)
(* partner jumps to the start of the program, or ends it.                  *)
(***************************************************************************)
EXTENDS Integers, Sequences

CONSTANTS
  CellBits,         \* 8
  Cells             \* the addresses of the tape

VARIABLES source, pc, tape, a, out, status

bfvars == <<source, pc, tape, a, out, status>>

Commands == {">", "<", "+", "-", ".", ",", "[", "]"}

InComment(k) ==
  \E j \in 1 .. k - 1 : source[j] = "!" /\ \A m \in j .. k - 1 : source[m] # "newline"

Program ==
  LET code[k \in 0 .. Len(source)] ==
        IF k = 0 THEN <<>>
        ELSE IF source[k] \in Commands /\ ~InComment(k) THEN Append(code[k - 1], source[k])
        ELSE code[k - 1]
  IN code[Len(source)]

(* How many brackets more are opened than closed up to k; and from j to k. *)
Weight(c) == IF c = "[" THEN 1 ELSE IF c = "]" THEN -1 ELSE 0

Depth ==
  LET depth[k \in 0 .. Len(Program)] ==
        IF k = 0 THEN 0 ELSE depth[k - 1] + Weight(Program[k])
  IN depth

Balance(j, k) == Depth[k] - Depth[j - 1]

(* From k on, the bracket that closes so many open ones. *)
ClosingOf(k, open) ==
  CHOOSE j \in k .. Len(Program) :
    Balance(k, j) = -open /\ \A m \in k .. j - 1 : Balance(k, m) > -open

(* The bracket that opens what k closes; 0 if none does. *)
OpeningOf(k) ==
  LET openings == {j \in 1 .. k - 1 : Program[j] = "[" /\ Balance(j, k) = 0
                                      /\ \A m \in j .. k - 1 : Balance(j, m) > 0}
  IN IF openings = {} THEN 0 ELSE CHOOSE j \in openings : TRUE

Cell == 0 .. 2 ^ CellBits - 1

OnTape == a \in Cells

Put(v) == OnTape /\ tape' = [tape EXCEPT ![a] = v] /\ UNCHANGED a

(* All that is asked of the brackets. *)
Accepted == Depth[Len(Program)] = 0

Running(c) == status = "run" /\ Accepted /\ pc <= Len(Program) /\ Program[pc] = c

Step == pc' = pc + 1 /\ UNCHANGED <<source, status>>

Right == Running(">") /\ a' = a + 1 /\ Step /\ UNCHANGED <<tape, out>>
Left  == Running("<") /\ a' = a - 1 /\ Step /\ UNCHANGED <<tape, out>>
Inc   == Running("+") /\ Put((tape[a] + 1) % 2 ^ CellBits) /\ Step /\ UNCHANGED out
Dec   == Running("-") /\ Put((tape[a] - 1) % 2 ^ CellBits) /\ Step /\ UNCHANGED out
In    == Running(",") /\ (\E c \in Cell : Put(c)) /\ Step /\ UNCHANGED out
Out   == Running(".") /\ OnTape /\ out' = [n |-> 1 - out.n, byte |-> tape[a]] /\ Step
         /\ UNCHANGED <<tape, a>>

Jump(k) == pc' = k /\ UNCHANGED <<source, tape, a, out, status>>

Open == Running("[") /\ OnTape /\ Jump(IF tape[a] # 0 THEN pc + 1 ELSE ClosingOf(pc + 1, 1) + 1)

Close ==
  /\ Running("]") /\ OnTape /\ (tape[a] # 0 \/ OpeningOf(pc) # 0)
  /\ Jump(IF tape[a] # 0 THEN OpeningOf(pc) + 1 ELSE pc + 1)

Halt ==
  /\ status = "run" /\ Accepted
  /\ \/ pc = Len(Program) + 1
     \/ Running("]") /\ OnTape /\ tape[a] = 0 /\ OpeningOf(pc) = 0
  /\ status' = "halted"
  /\ UNCHANGED <<source, pc, tape, a, out>>

Refuse ==
  /\ status = "run" /\ ~Accepted
  /\ status' = "refused"
  /\ UNCHANGED <<source, pc, tape, a, out>>

(* The tape is not checked to go on where the program goes. *)
Leave ==
  /\ status = "run" /\ Accepted /\ ~OnTape
  /\ status' = "crashed"
  /\ UNCHANGED <<source, pc, tape, a, out>>

BfNext == \/ Right \/ Left \/ Inc \/ Dec \/ In \/ Out \/ Open \/ Close
          \/ Halt \/ Refuse \/ Leave

Interprets ==
  /\ pc = 1 /\ status = "run" /\ tape = [x \in Cells |-> 0] /\ a = 0
  /\ [][BfNext]_bfvars

=============================================================================
