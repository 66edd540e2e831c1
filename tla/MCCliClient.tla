----------------------------- MODULE MCCliClient -----------------------------
(* A client without a user beside one at the prompt.                         *)
EXTENDS CliClient

F(name, kind, number) ==
  [delim |-> TRUE, escape |-> FALSE, name |-> name, kind |-> kind, number |-> number]
Bare == [F("x", "nothing", 1) EXCEPT !.delim = FALSE]
Escape == [F("x", "number", 1) EXCEPT !.escape = TRUE]

Ma(fields) == [cmd |-> "ma", fields |-> fields]

\* Coordinates of all kinds, alone and in front of or behind another.
MCFields == {F("x", "number", 1), F("x", "number", 2), F("x", "nothing", 1), F("x", "text", 1),
             F("z", "number", 1), Bare, Escape}
MCMoves == {Ma(<<f>>) : f \in MCFields} \cup {Ma(<<F("x", "number", 1), f>>) : f \in MCFields}
           \cup {Ma(<<f, F("y", "number", 2)>>) : f \in MCFields}
MCOthers == {Line(s) : s \in {"ask", "sleep", "sleep 1", "quit"}}

MCModes == [c \in Clients |-> IF c = "c1" THEN {"single", "batch"} ELSE {"prompt"}]
MCScripts ==
  [m \in {"single", "batch", "prompt"} |->
     CASE m = "single" -> {<<l>> : l \in MCMoves \cup MCOthers \cup {Line("")}}
       [] m = "batch" -> {<<l, k>> : l \in MCOthers \cup {Ma(<<F("x", "number", 1)>>), Ma(<<Escape>>)},
                                     k \in {Line("ask"), Line("quit")}} \cup {<<>>}
       [] m = "prompt" -> {<<Line(""), Ma(<<F("y", "number", 2)>>), Line("quit")>>}]
=============================================================================
