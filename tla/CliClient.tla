------------------------------ MODULE CliClient ------------------------------
(***************************************************************************)
(* The command line client, src/core/IAP_client_cli.cpp: it connects, asks *)
(* for the mode of the server, and then sends a single command, the lines  *)
(* of a batch file, or what a user types, waiting for the answer to each.  *)
(* Several of them run beside each other.                                  *)
(***************************************************************************)
EXTENDS Connections

CONSTANTS
  Modes,     \* Modes[c]: how client c may be started, of "single", "batch", "prompt"
  Scripts    \* Scripts[m]: lines that a client in mode m may be given

ASSUME CliAssumption ==
  /\ Modes \in [Clients -> SUBSET {"single", "batch", "prompt"}]
  /\ DOMAIN Scripts = {"single", "batch", "prompt"}
  /\ \A m \in DOMAIN Scripts : \A s \in Scripts[m] :
       s \in Seq([cmd : Cmds, fields : Seq(Field)])
  /\ \A s \in Scripts["single"] : Len(s) = 1
  /\ \A s \in Scripts["batch"] : \A i \in DOMAIN s : s[i].cmd # ""

VARIABLES
  pc,        \* "off", "hello", "mode", "loop", "reply", "done"
  mode,      \* send_single_cmd, batch_mode, or neither
  script,    \* lines not yet taken: batchcmds, or what the user will type
  asked,     \* the line that the client waits for the answer to
  told       \* history: the last reply

cliVars == <<pc, mode, script, asked, told>>
vars == <<netVars, cliVars>>

States == {"off", "hello", "mode", "loop", "reply", "done"}

\* Type invariant; a stream holds at most one message.
TypeOK ==
  /\ server \in {"up", "ended"} /\ {accepting, initialize} \subseteq BOOLEAN
  /\ pc \in [Clients -> States] /\ left \in [Clients -> BOOLEAN]
  /\ mode \in [Clients -> {"single", "batch", "prompt"}]
  /\ \A c \in Clients :
       /\ conn[c] \in {"none", "queued", "open", "over"}
       /\ phase[c] \in {"none", "header", "body", "write"}
       /\ phase[c] # "none" <=> conn[c] = "open"
       /\ Len(up[c]) <= 3 /\ Len(down[c]) <= 3
       /\ told[c] \in Replies \cup {NoReply}
       /\ result[c].reply \in Replies \cup {NoReply}
       /\ asked[c] = NoLine \/ IsLine(asked[c])

Init ==
  /\ NetInit
  /\ pc = [c \in Clients |-> "off"]
  /\ mode \in {m \in [Clients -> {"single", "batch", "prompt"}] :
                 \A c \in Clients : m[c] \in Modes[c]}
  /\ script \in {s \in [Clients -> UNION {Scripts[m] : m \in DOMAIN Scripts}] :
                   \A c \in Clients : s[c] \in Scripts[mode[c]]}
  /\ asked = [c \in Clients |-> NoLine] /\ told = [c \in Clients |-> NoReply]

Go(c, next) ==
  /\ pc' = [pc EXCEPT ![c] = next]
  /\ left' = IF next = "done" THEN [left EXCEPT ![c] = TRUE] ELSE left

\* Blocking connect; without a server it throws and main returns.
Connect(c) ==
  /\ pc[c] = "off"
  /\ IF server = "up"
     THEN conn' = [conn EXCEPT ![c] = "queued"] /\ Go(c, "hello")
     ELSE UNCHANGED conn /\ Go(c, "done")
  /\ UNCHANGED <<listener, up, down, phase, data, result, mode, script, asked, told>>

\* Blocking write.  Whether it is the write or the read that follows which
\* throws when the connection is over makes no difference.
Write(c, line) ==
  /\ asked' = [asked EXCEPT ![c] = line]
  /\ result' = [result EXCEPT ![c] = Nothing]
  /\ up' = [up EXCEPT ![c] = IF conn[c] = "over" THEN @
                             ELSE @ \o Message(MSG_REQUEST, line, "")]
  /\ UNCHANGED <<listener, conn, down, phase, data, mode, told>>

AskMode(c) ==
  /\ pc[c] = "hello" /\ Go(c, "mode")
  /\ Write(c, Line("state")) /\ UNCHANGED script

Answered(c) == Len(down[c]) >= 2 /\ Len(down[c]) >= 2 + down[c][2].n

\* The reply in down[c]; the server sends only headers that decode.
Arrived(c) == Reply(down[c][1].n, IF down[c][2].n = 0 THEN "" ELSE down[c][3].text)

\* Blocking read, of header and body.
Read(c) ==
  /\ Answered(c)
  /\ told' = [told EXCEPT ![c] = Arrived(c)]
  /\ down' = [down EXCEPT ![c] = SubSeq(@, 3 + down[c][2].n, Len(@))]
  /\ asked' = [asked EXCEPT ![c] = NoLine]
  /\ UNCHANGED <<listener, conn, up, phase, data, result, mode, script>>

\* Mutant: the mode is not looked at.
ModeIgnored(c) == pc[c] = "mode" /\ Read(c) /\ Go(c, "loop")

\* The console is disabled during initialization.
ReadMode(c) ==
  /\ pc[c] = "mode" /\ Read(c)
  /\ Go(c, IF Arrived(c).text = "initialize" THEN "done" ELSE "loop")

\* Lines that the loop itself deals with; --cmd goes without it.
IsLocal(c, line) ==
  mode[c] # "single" /\ line.cmd \in {"", "sleep 1"} \cup (IF mode[c] = "prompt" THEN {"quit"} ELSE {})

\* sleep with a bad parameter is sent like any other line.
SendLine(c) ==
  /\ pc[c] = "loop" /\ script[c] # <<>> /\ ~IsLocal(c, Head(script[c]))
  /\ Write(c, Head(script[c]))
  /\ script' = [script EXCEPT ![c] = Tail(@)]
  /\ Go(c, "reply")

\* Mutant: the line is looked at again for ever.
LineKept(c) ==
  /\ pc[c] = "loop" /\ script[c] # <<>> /\ IsLocal(c, Head(script[c]))
  /\ Go(c, IF Head(script[c]).cmd = "quit" THEN "done" ELSE "loop")
  /\ UNCHANGED <<listener, conn, up, down, phase, data, result, mode, script, asked, told>>

LocalLine(c) ==
  /\ pc[c] = "loop" /\ script[c] # <<>> /\ IsLocal(c, Head(script[c]))
  /\ Go(c, IF Head(script[c]).cmd = "quit" THEN "done" ELSE "loop")
  /\ script' = [script EXCEPT ![c] = Tail(@)]
  /\ UNCHANGED <<listener, conn, up, down, phase, data, result, mode, asked, told>>

ReadReply(c) ==
  /\ pc[c] = "reply" /\ Read(c)
  /\ Go(c, IF mode[c] = "single" THEN "done" ELSE "loop")

EndOfBatch(c) ==
  /\ pc[c] = "loop" /\ mode[c] = "batch" /\ script[c] = <<>> /\ Go(c, "done")
  /\ UNCHANGED <<listener, conn, up, down, phase, data, result, mode, script, asked, told>>

\* read throws when the connection is over before the reply is there.
Lost(c) ==
  /\ pc[c] \in {"mode", "reply"} /\ conn[c] = "over" /\ ~Answered(c) /\ Go(c, "done")
  /\ UNCHANGED <<listener, conn, up, down, phase, data, result, mode, script, asked, told>>

\* SIGINT, or the end of the input at the prompt.
Kill(c) ==
  /\ pc[c] \notin {"off", "done"} /\ Go(c, "done")
  /\ UNCHANGED <<listener, conn, up, down, phase, data, result, mode, script, asked, told>>

\* Steps that the program makes without its user.
Program(c) ==
  \/ AskMode(c) \/ ReadMode(c) \/ ReadReply(c) \/ Lost(c)
  \/ mode[c] # "prompt" /\ (SendLine(c) \/ LocalLine(c) \/ EndOfBatch(c))

User(c) == \/ Connect(c) \/ Kill(c)
           \/ mode[c] = "prompt" /\ (SendLine(c) \/ LocalLine(c))

Next == \/ \E c \in Clients : Program(c) \/ User(c)
        \/ Server /\ UNCHANGED cliVars

\* The server's loop and the clients go on; users need do nothing, and nothing
\* needs to fail.
Fairness ==
  /\ \A c \in Clients :
       /\ WF_vars(Program(c))
       /\ WF_vars(handle_accept(c) /\ UNCHANGED cliVars)
       /\ WF_vars(SessionStep(c) /\ UNCHANGED cliVars)
  /\ WF_vars(RunReturns /\ UNCHANGED cliVars)

Spec == Init /\ [][Next]_vars /\ Fairness

-----------------------------------------------------------------------------

AllLines == {Line("state")} \cup UNION {Range(s) : s \in UNION {Scripts[m] : m \in DOMAIN Scripts}}

RR == INSTANCE RequestReply WITH Lines <- AllLines, gone <- left

\* To every client the server is one that carries out its requests, one at a
\* time, in order and each at most once, moves where the line says, and
\* answers with the outcome (sessions, framing, parse_multiplett), whatever
\* other clients do, and when either side ends at any time.
ImplementsRequestReply == RR!Spec

\* While the axes are being initialised no command of a console is on its way
\* ("client console is disabled during initialization process"), although the
\* mode is asked for only once.
ConsoleShutDuringInit ==
  initialize => \A c \in Clients : asked[c].cmd \in {"none", "state"}

\* A handler of c's session has what it waits for.
Due(c) ==
  \/ phase[c] = "header" /\ Len(up[c]) >= 2
  \/ phase[c] = "body" /\ Len(up[c]) >= data[c].len
  \/ phase[c] = "write"

\* A client and its session never both wait for the other: whoever blocks in
\* read or write, without a timeout, has its answer, an end, a handler that is
\* due, or is still to be accepted (IAP_client_cli.cpp:89, IAP_server.hpp:41).
NoMutualWait ==
  \A c \in Clients :
    pc[c] \in {"mode", "reply"} =>
      Answered(c) \/ Due(c) \/ conn[c] = "over" \/ (server = "up" /\ conn[c] = "queued")

\* A client that runs without a user comes to its end, unless the server has
\* lost its accept and is kept from exiting by a session that stays: the
\* client waits in the backlog of a listener that nobody serves.
Finishes ==
  \A c \in Clients :
    (pc[c] = "hello" /\ mode[c] # "prompt")
      ~> (pc[c] = "done" \/ [](conn[c] = "queued" /\ ~accepting /\
                               \E d \in Clients : phase[d] # "none"))
=============================================================================
