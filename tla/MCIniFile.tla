----------------------------- MODULE MCIniFile ------------------------------
(* Three files of one temporary name, which is the third of them; names in *)
(* two cases, or beginning with what is taken for a blank; a value of      *)
(* which only a part is read.                                              *)
EXTENDS IniFile, SequencesExt

CONSTANTS foo, inx, tilde, s1, s2, k1, K1, none, v1, v2, padded, Wide, MaxLines

MCFiles    == {foo, inx, tilde}
MCTempName == [f \in MCFiles |-> tilde]
MCNames    == {s1, s2, k1, K1, none}
MCFold     == [n \in MCNames |-> IF n = K1 THEN k1 ELSE n]
MCBare     == [n \in MCNames |-> IF n \in Wide THEN none ELSE n]
MCValues   == {v1, v2, padded}
MCRead     == [v \in MCValues |-> IF v = padded THEN v1 ELSE v]

MCTexts == {Text("section", s1, Null), Text("section", s2, Null), Text("key", k1, v1),
            Text("key", K1, v2), Text("comment", none, Null)}

(* Lines, one of which may be blank, and the last of which may not end.    *)
Ended(texts) == FlattenSeq([n \in DOMAIN texts |-> <<texts[n], LineTerm>>])

(* What a line that fills the buffer goes on with, and what is behind it.  *)
Rests == {<<>>, <<LineTerm>>} \cup {<<LineTerm, t>> : t \in MCTexts}
         \cup {<<t, LineTerm>> : t \in MCTexts}

MCContents ==
  {Ended(texts) : texts \in BoundedSeq(MCTexts, MaxLines)}
    \cup {Append(Ended(texts), t) : texts \in BoundedSeq(MCTexts, MaxLines - 1), t \in MCTexts}
    \cup {<<LineTerm>> \o Ended(texts) : texts \in BoundedSeq(MCTexts, 1)}
    \cup {Ended(texts) \o <<t, Cut>> \o rest : texts \in {<<>>, <<Text("section", s1, Null)>>},
                                               t \in MCTexts, rest \in Rests}

Arguments(f, s, k, v) == [file |-> f, section |-> s, key |-> k, value |-> v]

MCRequests ==
  {Arguments(foo, s, k1, v) : s \in {s1, none}, v \in {v2, padded, Null}}
    \cup {Arguments(foo, s1, none, v) : v \in {v2, Null}}
    \cup {Arguments(foo, s, Null, Null) : s \in {s1, none}}
    \cup {Arguments(inx, s2, k1, v1), Arguments(tilde, s2, k1, v1), Arguments(tilde, s1, Null, Null)}

(* The other files are there, or are not; with a foo of many lines, not.   *)
MCDisks ==
  {[f \in MCFiles |-> IF f = foo THEN a ELSE Absent] : a \in MCContents \cup {Absent}}
    \cup {[f \in MCFiles |-> IF f = foo THEN a ELSE <<LineTerm>>] :
          a \in {c \in MCContents : Len(c) < 4} \cup {Absent}}

MCInit ==
  /\ disk \in MCDisks
  /\ req = Arguments(foo, s1, k1, v2)
  /\ Init

MCSpec == MCInit /\ [][Next]_vars

=============================================================================
