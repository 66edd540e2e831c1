----------------------------- MODULE Coordinates -----------------------------
(***************************************************************************)
(* How the server reads the coordinates of "ma" and "mr": parse_multiplett *)
(* of helper.hpp splits the text at commas into fields, each "name=value", *)
(* process_msg looks the names up and fills a Position.  A field is what   *)
(* these functions tell apart of its text.                                 *)
(***************************************************************************)
EXTENDS Integers, Sequences, SequencesExt

CONSTANTS
  Names,       \* names that users write before a "="
  AxisNames,   \* those that parameters.xml gives to axes
  Numbers,     \* numbers that users write behind it
  Junk         \* what an uninitialised float may hold

ASSUME CoordinatesAssumption ==
  AxisNames \subseteq Names /\ Numbers \subseteq Int /\ Junk \subseteq Int

\* "kind" says what follows the delimiter: a number, other text, or nothing.
\* "escape": the text has a backslash that the tokenizer does not know.
Field == [delim : BOOLEAN, escape : BOOLEAN, name : Names,
          kind : {"number", "text", "nothing"}, number : Numbers]

NoMove == [n \in {} |-> 0]

\* stringstream(value) >> tmp: text that is no number stores 0, and of nothing
\* nothing is read, so that tmp keeps what it happened to hold.
Extracted(f, junk) ==
  CASE f.kind = "number" -> f.number
    [] f.kind = "text" -> 0
    [] f.kind = "nothing" -> junk

Extend(map, name, value) ==
  [n \in DOMAIN map \cup {name} |-> IF n = name THEN value ELSE map[n]]

\* Mutant: the last value for a name counts.
Overwrite(map, name, value) == Extend(map, name, value)

\* map::insert, which leaves an entry alone that is there already.
Insert(map, name, value) == IF name \in DOMAIN map THEN map ELSE Extend(map, name, value)

\* One turn of the loop over the fields.
TakeField(r, f, junk) ==
  IF r.is # "parsed" THEN r
  ELSE IF f.escape THEN [r EXCEPT !.is = "thrown"]
  ELSE IF ~f.delim THEN [r EXCEPT !.is = "failed"]
  ELSE [r EXCEPT !.map = Insert(@, f.name, Extracted(f, junk))]

\* The return code, or the exception of the tokenizer, and the map.
parse_multiplett(fields, junk) ==
  IF \A i \in DOMAIN fields : ~fields[i].delim THEN [is |-> "failed", map |-> NoMove]
  ELSE FoldLeft(LAMBDA r, f : TakeField(r, f, junk), [is |-> "parsed", map |-> NoMove], fields)

\* process_msg: what it makes of the fields, and the coordinates it moves to.
Reading(fields, junk) ==
  LET r == parse_multiplett(fields, junk)
  IN IF r.is = "parsed" /\ DOMAIN r.map \subseteq AxisNames
     THEN [is |-> "position", map |-> r.map]
     ELSE [is |-> IF r.is = "thrown" THEN "thrown" ELSE "refused", map |-> NoMove]

-----------------------------------------------------------------------------
(* What a user means by the same fields.                                   *)

NamesIn(fields) == {fields[i].name : i \in DOMAIN fields}

\* The first field with the name n.
First(fields, n) ==
  fields[CHOOSE i \in DOMAIN fields :
           fields[i].name = n /\ \A j \in 1 .. i - 1 : fields[j].name # n]

WellFormed(fields) ==
  /\ fields # <<>>
  /\ \A i \in DOMAIN fields :
       fields[i].delim /\ ~fields[i].escape /\ fields[i].name \in AxisNames

\* The coordinates that a user may mean: the number first given for a name
\* is its coordinate.  Of a name without one nothing can be said.
Meant(fields) ==
  IF WellFormed(fields)
  THEN {m \in [NamesIn(fields) -> Numbers \cup Junk \cup {0}] :
          \A n \in NamesIn(fields) :
            First(fields, n).kind = "number" => m[n] = First(fields, n).number}
  ELSE {}
=============================================================================
