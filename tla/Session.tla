------------------------------- MODULE Session -------------------------------
(***************************************************************************)
(* The server's end of one connection: class session of IAP_server.hpp,    *)
(* which reads the header and the body of a request, has process_msg       *)
(* handle it, writes the answer, and only then reads on.  The board is     *)
(* reduced to what a client can tell apart.  A header is taken to arrive   *)
(* in one piece.                                                           *)
(***************************************************************************)
EXTENDS Naturals, Sequences

CONSTANTS
  NumAxes,    \* axes of the board, with the ids 1 .. NumAxes
  Positions   \* where the motors may be, 0 is the user's zero

ASSUME PositionsAssumption == 0 \in Positions /\ NumAxes \in Nat \ {0}

VARIABLES
  wire,     \* requests sent to the server
  phase,    \* what the session waits for: "header", "body", "write"
  data,     \* data_: the request, then the answer made in its place
  replies,  \* answers sent to the client
  board     \* jog mode, selected axis, position, initialize mode; and as a
            \* history, whose request the jog mode and the axis come from

sessionVars == <<wire, phase, data, replies, board>>

Requests ==
  {"ga", "state", "pp", "ma", "set axis", "set jog", "unset jog", "set zero",
   "initialzero", "savexml", "sleep"}

\* What a client can tell of a board that is used by threads of these names.
\* Nobody stands for other clients, earlier ones too, and for a request that
\* was refused.
Nobody == "NULL"
Board(names) == [jog : BOOLEAN, axis : 1 .. NumAxes, pos : Positions, init : BOOLEAN,
                 jogby : names \cup {Nobody}, axisby : names \cup {Nobody}]

\* The position and the mode are told to who asks for them.  "for" is a history
\* field: the thread whose request is answered.
Answer(req, b) ==
  [for |-> req.from, what |-> req.what, pos |-> IF req.what = "pp" THEN b.pos ELSE 0,
   init |-> req.what = "state" /\ b.init]

\* set jog and unset jog, or a raw 1AR or 1IR: the card may refuse them.
Jog(req, b, on) == {[b EXCEPT !.jog = on, !.jogby = req.from], [b EXCEPT !.jogby = Nobody]}

\* sa N, set axis N: likewise.
SetAxis(req, b) == {[b EXCEPT !.axis = req.axis, !.axisby = req.from],
                    [b EXCEPT !.axisby = Nobody]}

\* SetInitialZero leaves the initialize mode.
InitialZero(b) == IF b.init THEN {[b EXCEPT !.pos = 0, !.init = FALSE]} ELSE {b}

\* process_msg: the boards that a request may leave.  A move may be refused.
\* Requests that only ask, and "sleep", which is none, change nothing.
process_msg(req, b) ==
  CASE req.what = "ma" -> {[b EXCEPT !.pos = p] : p \in Positions}
    [] req.what = "set axis" -> SetAxis(req, b)
    [] req.what = "set jog" -> Jog(req, b, TRUE)
    [] req.what = "unset jog" -> Jog(req, b, FALSE)
    [] req.what = "set zero" -> {[b EXCEPT !.pos = 0]}
    [] req.what = "initialzero" -> InitialZero(b)
    [] OTHER -> {b}

\* The server outlives its clients: an earlier one may have left jog mode on,
\* and any axis selected.
SessionInit ==
  /\ wire = <<>> /\ phase = "header" /\ data = [what |-> "none"] /\ replies = <<>>
  /\ board \in Board({})

handle_read_header ==
  /\ phase = "header" /\ wire # <<>>
  /\ phase' = "body"
  /\ UNCHANGED <<wire, data, replies, board>>

handle_read_body ==
  /\ phase = "body"
  /\ board' \in process_msg(Head(wire), board)
  /\ data' = Answer(Head(wire), board')
  /\ wire' = Tail(wire) /\ phase' = "write"
  /\ UNCHANGED replies

handle_write ==
  /\ phase = "write"
  /\ replies' = Append(replies, data) /\ phase' = "header"
  /\ UNCHANGED <<wire, data, board>>

\* The hand wheels turn the motors in jog mode (external).
Jogged ==
  /\ board.jog /\ \E p \in Positions \ {board.pos} : board' = [board EXCEPT !.pos = p]
  /\ UNCHANGED <<wire, phase, data, replies>>

Session == handle_read_header \/ handle_read_body \/ handle_write
=============================================================================
