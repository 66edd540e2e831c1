----------------------------- MODULE Connections -----------------------------
(***************************************************************************)
(* The network side of the MOVES server: class server of IAP_server.cpp,   *)
(* which accepts connections, and class session of IAP_server.hpp, one per *)
(* connection, with the framing of message.hpp.  A stream is a sequence of *)
(* words: the type, the length (in words) and the text of a message, which *)
(* is one word.  The board is reduced to its initialize mode; a move may   *)
(* be refused by it.                                                       *)
(***************************************************************************)
EXTENDS Coordinates, FiniteSets

CONSTANTS
  Clients,
  Whole,          \* a header never arrives in two pieces
  AcceptMayFail   \* accept may report an error

ASSUME ConnectionsAssumption == Whole \in BOOLEAN /\ AcceptMayFail \in BOOLEAN

VARIABLES
  server,       \* "up" or "ended"
  accepting,    \* async_accept is armed
  initialize,   \* the board is in initialize mode
  conn,         \* connection of a client: "none", "queued" in the listen
                \* backlog, "open", "over" when the server has closed it
  left,         \* the client has closed its end
  up, down,     \* words on their way to the server, and to the client
  phase,        \* what a session waits for; "none" without a session
  data,         \* data_ of the session: type, length and what is in the body
  result        \* history: outcome of the request last made

listener == <<server, accepting, initialize>>
netVars == <<listener, conn, left, up, down, phase, data, result>>

MSG_ERROR == 0
MSG_NONE == 1
MSG_REQUEST == 2
MSG_REPLY == 3
MSG_SUCCESS == 4
MSG_INVALID == 5
MaxBody == 256

\* A line of text: a command and, of a move, its coordinates.  "ask" stands
\* for help, pp, ga, psl, close..., "sleep" has no number behind it.
Cmds == {"state", "ask", "ma", "sleep", "sleep 1", "quit", "unknown", ""}
Line(cmd) == [cmd |-> cmd, fields |-> <<>>]
NoLine == Line("none")
IsLine(l) == l \in [cmd : Cmds, fields : Seq(Field)]

Reply(type, text) == [type |-> type, text |-> text]
Replies == [type : {MSG_ERROR, MSG_REPLY, MSG_SUCCESS},
            text : {"initialize", "normal", "text", ""}]
NoReply == Reply(MSG_NONE, "")
Nothing == [reply |-> NoReply, moved |-> NoMove]
Outcome(type, text) == [reply |-> Reply(type, text), moved |-> NoMove]

\* atoi of text is 0.
Number(n) == [n |-> n, line |-> NoLine, text |-> ""]
Text(line, text) == [n |-> 0, line |-> line, text |-> text]

\* encode_header and the body behind it.
Message(type, line, text) ==
  IF line.cmd = "" \/ (line = NoLine /\ text = "")
  THEN <<Number(type), Number(0)>>
  ELSE <<Number(type), Number(1), Text(line, text)>>

decode_header(type, len) == type < MSG_INVALID /\ len <= MaxBody

NetInit ==
  /\ server = "up" /\ accepting = TRUE /\ initialize \in BOOLEAN
  /\ conn = [c \in Clients |-> "none"] /\ left = [c \in Clients |-> FALSE]
  /\ up = [c \in Clients |-> <<>>] /\ down = [c \in Clients |-> <<>>]
  /\ phase = [c \in Clients |-> "none"]
  /\ data = [c \in Clients |-> [type |-> MSG_INVALID, len |-> 0, text |-> ""]]
  /\ result = [c \in Clients |-> Nothing]

-----------------------------------------------------------------------------
(* class server                                                            *)

\* The new session starts to read and the next accept is armed.
handle_accept(c) ==
  /\ server = "up" /\ accepting /\ conn[c] = "queued"
  /\ conn' = [conn EXCEPT ![c] = "open"]
  /\ phase' = [phase EXCEPT ![c] = "header"]
  /\ UNCHANGED <<listener, left, up, down, data, result>>

\* After an error it is not armed again.
AcceptFails ==
  /\ AcceptMayFail /\ server = "up" /\ accepting /\ accepting' = FALSE
  /\ UNCHANGED <<server, initialize, conn, left, up, down, phase, data, result>>

\* The process ends, by catch_int, and with it all connections.  Of what it
\* has sent the clients may still get some.
Exit ==
  /\ server' = "ended" /\ accepting' = FALSE
  /\ conn' = [c \in Clients |-> IF conn[c] = "none" THEN "none" ELSE "over"]
  /\ phase' = [c \in Clients |-> "none"]
  /\ up' = [c \in Clients |-> <<>>]
  /\ \E lost \in SUBSET {c \in Clients : down[c] # <<>>} :
       down' = [c \in Clients |-> IF c \in lost THEN <<>> ELSE down[c]]
  /\ UNCHANGED <<initialize, left, data, result>>

\* io_service.run returns when nothing is left to wait for.
RunReturns ==
  /\ server = "up" /\ ~accepting /\ (\A c \in Clients : phase[c] = "none")
  /\ Exit

\* SIGINT
Interrupt == server = "up" /\ Exit

\* A graphical client zeroes the axes, which ends the initialize mode.
InitialZero ==
  /\ server = "up" /\ initialize /\ initialize' = FALSE
  /\ UNCHANGED <<server, accepting, conn, left, up, down, phase, data, result>>

-----------------------------------------------------------------------------
(* class session                                                           *)

\* delete this
Delete(c) ==
  /\ conn' = [conn EXCEPT ![c] = "over"]
  /\ phase' = [phase EXCEPT ![c] = "none"]
  /\ UNCHANGED <<listener, left, down, data, result>>

\* async_read_some brings the header or, unless Whole, its first word alone;
\* then the length is the one in data_ from before.
ReadHeader(c, n) ==
  LET type == up[c][1].n
      len == IF n = 2 THEN up[c][2].n ELSE data[c].len
  IN /\ up' = [up EXCEPT ![c] = SubSeq(@, n + 1, Len(@))]
     /\ IF decode_header(type, len)
        THEN /\ data' = [data EXCEPT ![c].type = type, ![c].len = len]
             /\ phase' = [phase EXCEPT ![c] = "body"]
             /\ UNCHANGED <<listener, conn, left, down, result>>
        ELSE Delete(c)

PeerClosed(c) == left[c] /\ UNCHANGED up /\ Delete(c)

handle_read_header(c) ==
  /\ phase[c] = "header"
  /\ \/ \E n \in 1 .. 2 : Len(up[c]) >= n /\ (Whole => n = 2) /\ ReadHeader(c, n)
     \/ up[c] = <<>> /\ PeerClosed(c)

\* The text that process_msg gets.
Got(c) == IF data[c].len = 0 THEN Line("")
          ELSE IF data[c].len = 1 THEN up[c][1].line ELSE NoLine

\* A move to the coordinates read, which the board may refuse.
MoveTo(r) ==
  IF r.is = "refused" THEN {Outcome(MSG_ERROR, "text")}
  ELSE [reply : {Reply(MSG_SUCCESS, ""), Reply(MSG_ERROR, "text")}, moved : {r.map}]

process_msg(line, junk) ==
  CASE line.cmd = "state" ->
         {Outcome(MSG_REPLY, IF initialize THEN "initialize" ELSE "normal")}
    [] line.cmd = "ask" -> {Outcome(MSG_REPLY, "text")}
    [] line.cmd = "ma" -> MoveTo(Reading(line.fields, junk))
    [] OTHER -> {Outcome(MSG_ERROR, "text")}

Throws(line, junk) == line.cmd = "ma" /\ Reading(line.fields, junk).is = "thrown"

\* An exception leaves io_service.run, and main ends the process.
Process(c) ==
  \E junk \in Junk :
    IF Throws(Got(c), junk) THEN Exit
    ELSE \E o \in process_msg(Got(c), junk) :
           /\ result' = [result EXCEPT ![c] = o]
           /\ data' = [data EXCEPT ![c] = [type |-> o.reply.type, text |-> o.reply.text,
                                           len |-> IF o.reply.text = "" THEN 0 ELSE 1]]
           /\ up' = [up EXCEPT ![c] = SubSeq(@, data[c].len + 1, Len(@))]
           /\ phase' = [phase EXCEPT ![c] = "write"]
           /\ UNCHANGED <<listener, conn, left, down>>

handle_read_body(c) ==
  /\ phase[c] = "body"
  /\ \/ Len(up[c]) >= data[c].len /\ Process(c)
     \/ Len(up[c]) < data[c].len /\ PeerClosed(c)

\* Mutant: the answer is sent twice.
WriteTwice(c) ==
  /\ phase[c] = "write" /\ phase' = [phase EXCEPT ![c] = "header"]
  /\ down' = [down EXCEPT ![c] = @ \o Message(data[c].type, NoLine, data[c].text)
                                   \o Message(data[c].type, NoLine, data[c].text)]
  /\ UNCHANGED <<listener, conn, left, up, data, result>>

\* Mutant: an answer without a text is not sent.
EmptyUnsent(c) ==
  /\ phase[c] = "write" /\ phase' = [phase EXCEPT ![c] = "header"]
  /\ down' = [down EXCEPT ![c] = IF data[c].text = "" THEN @
                                 ELSE @ \o Message(data[c].type, NoLine, data[c].text)]
  /\ UNCHANGED <<listener, conn, left, up, data, result>>

handle_write(c) ==
  /\ phase[c] = "write"
  /\ \/ /\ phase' = [phase EXCEPT ![c] = "header"]
        /\ down' = [down EXCEPT ![c] = @ \o Message(data[c].type, NoLine, data[c].text)]
        /\ UNCHANGED <<listener, conn, left, up, data, result>>
     \/ PeerClosed(c)

SessionStep(c) == handle_read_header(c) \/ handle_read_body(c) \/ handle_write(c)

Server == \/ \E c \in Clients : handle_accept(c) \/ SessionStep(c)
          \/ AcceptFails \/ RunReturns \/ Interrupt \/ InitialZero
=============================================================================
