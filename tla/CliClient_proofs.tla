--------------------------- MODULE CliClient_proofs ---------------------------
(***************************************************************************)
(* Whatever clients and lines there are, however their connections end,   *)
(* and if headers arrive whole: no console gets past a server that is      *)
(* being initialised; coordinates are read as they are meant; sessions and *)
(* clients implement requests and replies; and never do both wait.         *)
(***************************************************************************)
EXTENDS CliClient, SequenceTheorems, WellFoundedInduction, TLAPS

\* The one question under way, from its header to its answer; without a
\* server nothing of it may be left.
Lying(c) == /\ up[c] = <<>> /\ down[c] = <<>> /\ phase[c] \in {"none", "header"}
Asking(c) ==
  /\ \E w : up[c] = <<Number(MSG_REQUEST), Number(1), w>> /\ w.line = Line("state")
  /\ down[c] = <<>> /\ phase[c] \in {"none", "header"}
HeaderRead(c) ==
  /\ \E w : up[c] = <<w>> /\ w.line = Line("state")
  /\ down[c] = <<>> /\ phase[c] = "body" /\ data[c].len = 1
Processed(c) ==
  /\ up[c] = <<>> /\ down[c] = <<>> /\ phase[c] = "write"
  /\ data[c].text = "initialize" /\ data[c].len = 1
Answering(c) ==
  /\ up[c] = <<>> /\ phase[c] \in {"none", "header"}
  /\ \E t, n, w : down[c] = <<t, n, w>> /\ n.n = 1 /\ w.text = "initialize"

\* A client of a server that is being initialised.
Shut(c) ==
  /\ pc[c] \in {"off", "hello", "mode", "done"} /\ asked[c].cmd \in {"none", "state"}
  /\ left[c] => pc[c] = "done"
  /\ "len" \in DOMAIN data[c]
  /\ conn[c] = "queued" => phase[c] = "none"
  /\ pc[c] = "off" => conn[c] = "none" /\ phase[c] = "none"
  /\ pc[c] \in {"off", "hello"} => Lying(c)
  /\ pc[c] = "mode" => Lying(c) \/ Asking(c) \/ HeaderRead(c) \/ Processed(c) \/ Answering(c)

Arrays ==
  /\ DOMAIN pc = Clients /\ DOMAIN asked = Clients /\ DOMAIN left = Clients
  /\ DOMAIN conn = Clients /\ DOMAIN phase = Clients /\ DOMAIN data = Clients
  /\ DOMAIN up = Clients /\ DOMAIN down = Clients

ShutInv == Arrays /\ (initialize => \A c \in Clients : Shut(c))

LEMMA ShutInit == Init => ShutInv
<1> SUFFICES ASSUME Init PROVE ShutInv
  OBVIOUS
<1>1. Arrays
  BY DEF Init, NetInit, Arrays
<1>2. ASSUME NEW c \in Clients PROVE Shut(c)
  <2>1. asked[c].cmd = "none"
    BY DEF Init, NoLine, Line
  <2>2. "len" \in DOMAIN data[c]
    BY DEF Init, NetInit
  <2> QED BY <2>1, <2>2 DEF Init, NetInit, Shut, Lying
<1> QED BY <1>1, <1>2 DEF ShutInv

\* Of client c nothing changes.
Same(c) ==
  /\ pc'[c] = pc[c] /\ asked'[c] = asked[c] /\ left'[c] = left[c] /\ conn'[c] = conn[c]
  /\ phase'[c] = phase[c] /\ data'[c] = data[c] /\ up'[c] = up[c] /\ down'[c] = down[c]

LEMMA SameShut ==
  ASSUME NEW c \in Clients, Shut(c), Same(c)
  PROVE  Shut(c)'
<1>1. /\ Lying(c) => Lying(c)'
      /\ Asking(c) => Asking(c)'
      /\ HeaderRead(c) => HeaderRead(c)'
      /\ Processed(c) => Processed(c)'
      /\ Answering(c) => Answering(c)'
  BY DEF Same, Lying, Asking, HeaderRead, Processed, Answering
<1> QED BY <1>1 DEF Same, Shut

\* A step that leaves all clients but c alone.
LEMMA OneClient ==
  ASSUME ShutInv, initialize' => initialize, Arrays', NEW c \in Clients,
         \A d \in Clients \ {c} : Same(d),
         initialize => Shut(c)'
  PROVE  ShutInv'
BY SameShut DEF ShutInv

-----------------------------------------------------------------------------
(* Steps of the clients.                                                   *)

\* What a client sends first.
Question == Message(MSG_REQUEST, Line("state"), "")

LEMMA QuestionIs ==
  /\ \E w : Question = <<Number(MSG_REQUEST), Number(1), w>> /\ w.line = Line("state")
  /\ <<>> \o Question = Question
<1> DEFINE w == Text(Line("state"), "")
<1>1. Line("state").cmd = "state" /\ Line("none").cmd = "none" /\ w.line = Line("state")
  BY DEF Line, Text
<1>2. Question = <<Number(MSG_REQUEST), Number(1), w>>
  BY <1>1 DEF Question, Message, NoLine
<1>3. <<>> \o Question = Question
  <2> HIDE DEF w
  <2> QED BY <1>2
<1> QED BY <1>1, <1>2, <1>3

LEMMA ClientStep ==
  ASSUME ShutInv, NEW c \in Clients, Program(c) \/ User(c)
  PROVE  ShutInv'
<1>1. /\ initialize' = initialize /\ Arrays'
      /\ \A d \in Clients \ {c} : Same(d)
  <2> USE DEF ShutInv, Arrays, Same, Go, listener
  <2>1. CASE Connect(c)
    BY <2>1 DEF Connect
  <2>2. CASE AskMode(c)
    BY <2>2 DEF AskMode, Write
  <2>3. CASE ReadMode(c)
    BY <2>3 DEF ReadMode, Read
  <2>4. CASE ReadReply(c)
    BY <2>4 DEF ReadReply, Read
  <2>5. CASE SendLine(c)
    BY <2>5 DEF SendLine, Write
  <2>6. CASE LocalLine(c)
    BY <2>6 DEF LocalLine
  <2>7. CASE EndOfBatch(c)
    BY <2>7 DEF EndOfBatch
  <2>8. CASE Lost(c)
    BY <2>8 DEF Lost
  <2>9. CASE Kill(c)
    BY <2>9 DEF Kill
  <2> QED BY <2>1, <2>2, <2>3, <2>4, <2>5, <2>6, <2>7, <2>8, <2>9 DEF Program, User
<1>2. ASSUME initialize PROVE Shut(c)'
  <2> USE <1>2 DEF Arrays
  <2>0. Shut(c) /\ Arrays
    BY DEF ShutInv
  <2>1. CASE Connect(c)
    <3>1. Lying(c) /\ pc[c] = "off" /\ ~left[c]
      BY <2>0, <2>1 DEF Connect, Shut
    <3>2. /\ pc'[c] \in {"hello", "done"} /\ (left'[c] => pc'[c] = "done")
          /\ UNCHANGED <<up, down, phase, data, asked>>
      BY <2>0, <2>1, <3>1 DEF Connect, Go
    <3>3. phase[c] = "none"
      BY <2>0, <3>1 DEF Shut
    <3> QED BY <2>0, <3>1, <3>2, <3>3 DEF Shut, Lying
  <2>2. CASE AskMode(c)
    <3>1. Lying(c) /\ pc[c] = "hello" /\ pc'[c] = "mode" /\ left' = left
      BY <2>0, <2>2 DEF AskMode, Go, Shut
    <3>2. /\ asked'[c] = Line("state") /\ UNCHANGED <<conn, down, phase, data>>
          /\ up'[c] = up[c] \/ up'[c] = up[c] \o Question
      BY <2>0, <2>2 DEF AskMode, Write, Question
    <3>3. up'[c] = <<>> \/ up'[c] = Question
      BY <3>1, <3>2, QuestionIs DEF Lying
    <3>4. Lying(c)' \/ Asking(c)'
      BY <3>1, <3>2, <3>3, QuestionIs DEF Lying, Asking
    <3> QED BY <2>0, <3>1, <3>2, <3>4 DEF Shut, Line
  <2>3. CASE ReadMode(c)
    <3>1. pc[c] = "mode" /\ Answered(c)
      BY <2>3 DEF ReadMode, Read
    <3>2. Answering(c)
      BY <2>0, <3>1 DEF Answered, Shut, Lying, Asking, HeaderRead, Processed
    <3>3. Arrived(c).text = "initialize"
      BY <3>2 DEF Answering, Arrived, Reply
    <3>4. pc'[c] = "done"
      BY <2>0, <2>3, <3>3 DEF ReadMode, Go
    <3> QED BY <2>0, <2>3, <3>4 DEF ReadMode, Read, Go, Shut, NoLine, Line
  <2>4. CASE Lost(c) \/ Kill(c)
    <3>1. pc'[c] = "done" /\ UNCHANGED <<asked, conn, phase, data>>
      BY <2>0, <2>4 DEF Lost, Kill, Go
    <3> QED BY <2>0, <3>1 DEF Shut
  <2>5. pc[c] \notin {"loop", "reply"}
    BY <2>0 DEF Shut
  <2> QED BY <2>1, <2>2, <2>3, <2>4, <2>5
          DEF Program, User, ReadReply, SendLine, LocalLine, EndOfBatch
<1> QED BY <1>1, <1>2, OneClient

-----------------------------------------------------------------------------
(* Steps of the server.                                                    *)

LEMMA ExitStep ==
  ASSUME ShutInv, Exit, UNCHANGED cliVars
  PROVE  ShutInv'
<1>1. Arrays' /\ initialize' = initialize
  BY DEF ShutInv, Arrays, Exit, cliVars
<1>2. ASSUME initialize, NEW c \in Clients PROVE Shut(c)'
  <2>1. Shut(c)
    BY <1>2 DEF ShutInv
  <2>2. /\ up'[c] = <<>> /\ phase'[c] = "none" /\ (down'[c] = <<>> \/ down'[c] = down[c])
        /\ conn'[c] # "queued" /\ (conn[c] = "none" => conn'[c] = "none")
        /\ UNCHANGED <<pc, asked, left, data>>
    BY DEF Exit, cliVars
  <2>3. /\ Lying(c) => Lying(c)'
        /\ Asking(c) \/ HeaderRead(c) \/ Processed(c) => Lying(c)'
        /\ Answering(c) => Lying(c)' \/ Answering(c)'
    BY <2>2 DEF Lying, Asking, HeaderRead, Processed, Answering
  <2> QED BY <2>1, <2>2, <2>3 DEF Shut
<1> QED BY <1>1, <1>2 DEF ShutInv

LEMMA AcceptStep ==
  ASSUME ShutInv, NEW c \in Clients, handle_accept(c), UNCHANGED cliVars
  PROVE  ShutInv'
<1>1. /\ initialize' = initialize /\ Arrays'
      /\ \A d \in Clients \ {c} : Same(d)
  BY DEF ShutInv, Arrays, Same, handle_accept, listener, cliVars
<1>2. ASSUME initialize PROVE Shut(c)'
  <2>1. Shut(c) /\ phase[c] = "none" /\ pc[c] # "off"
    BY <1>2 DEF ShutInv, handle_accept, Shut
  <2>2. /\ UNCHANGED <<pc, asked, left, data, up, down>>
        /\ phase'[c] = "header" /\ conn'[c] = "open"
    BY DEF handle_accept, cliVars, ShutInv, Arrays
  <2>3. /\ Lying(c) => Lying(c)'
        /\ Asking(c) => Asking(c)'
        /\ Answering(c) => Answering(c)'
    BY <2>2 DEF Lying, Asking, Answering
  <2> QED BY <2>1, <2>2, <2>3 DEF Shut, HeaderRead, Processed
<1> QED BY <1>1, <1>2, OneClient

\* What a read leaves of the sequences above.
LEMMA CutHeader == ASSUME NEW x, NEW y, NEW z PROVE SubSeq(<<x, y, z>>, 3, 3) = <<z>>
<1> DEFINE s == SubSeq(<<x, y, z>>, 3, 3)
           t == <<z>>
<1>1. Len(s) = 1 /\ s[1] = z /\ s \in Seq({x, y, z})
  OBVIOUS
<1>2. t \in Seq({x, y, z}) /\ Len(t) = 1 /\ t[1] = z
  OBVIOUS
<1> HIDE DEF s, t
<1>3. \A i \in 1 .. Len(s) : s[i] = t[i]
  BY <1>1, <1>2
<1>4. s = t
  BY <1>1, <1>2, <1>3, SeqEqual
<1> QED BY <1>4 DEF s, t

LEMMA CutBody == ASSUME NEW x PROVE SubSeq(<<x>>, 2, 1) = <<>>
BY SubSeqEmpty

LEMMA SessionFrame ==
  ASSUME ShutInv, NEW c \in Clients, SessionStep(c), UNCHANGED cliVars, ~ShutInv'
  PROVE  /\ initialize /\ initialize' = initialize /\ Arrays'
         /\ \A d \in Clients \ {c} : Same(d)
         /\ Shut(c)
         /\ UNCHANGED <<pc, asked, left>>
<1> USE DEF ShutInv, Arrays, Same, listener, cliVars
<1>1. CASE handle_read_header(c)
  BY <1>1 DEF handle_read_header, ReadHeader, PeerClosed, Delete
<1>2. CASE handle_read_body(c)
  <2>1. CASE Exit
    BY <2>1, ExitStep
  <2>2. CASE ~Exit
    BY <1>2, <2>2 DEF handle_read_body, Process, PeerClosed, Delete
  <2> QED BY <2>1, <2>2
<1>3. CASE handle_write(c)
  BY <1>3 DEF handle_write, PeerClosed, Delete
<1> QED BY <1>1, <1>2, <1>3 DEF SessionStep

\* The end of a session, whose client has left.
LEMMA ClosedStep ==
  ASSUME NEW c \in Clients, Arrays, Shut(c), PeerClosed(c), UNCHANGED <<pc, asked, left>>
  PROVE  Shut(c)'
<1>1. left[c] /\ phase'[c] = "none" /\ UNCHANGED data
  BY DEF PeerClosed, Delete, Arrays
<1> QED BY <1>1 DEF Shut

LEMMA HeaderStep ==
  ASSUME Whole, NEW c \in Clients, Arrays, initialize, Shut(c), handle_read_header(c),
         UNCHANGED <<pc, asked, left>>
  PROVE  Shut(c)'
<1>1. CASE PeerClosed(c)
  BY <1>1, ClosedStep
<1>2. CASE ~PeerClosed(c)
  <2>1. phase[c] = "header" /\ Len(up[c]) >= 2 /\ ReadHeader(c, 2)
    BY <1>2 DEF handle_read_header
  <2>2. CASE pc[c] = "done"
    <3>1. conn'[c] # "queued" /\ "len" \in DOMAIN data'[c]
      BY <2>1 DEF ReadHeader, Delete, Arrays, Shut
    <3> QED BY <2>2, <3>1 DEF Shut
  <2>3. CASE pc[c] # "done"
    <3>1. Asking(c) /\ pc[c] = "mode"
      BY <2>1, <2>3 DEF Shut, Lying, HeaderRead, Processed, Answering
    <3>2. PICK w : up[c] = <<Number(MSG_REQUEST), Number(1), w>> /\ w.line = Line("state")
      BY <3>1 DEF Asking
    <3>3. Len(up[c]) = 3 /\ up[c][1].n = MSG_REQUEST /\ up[c][2].n = 1
      <4>1. \A n : Number(n).n = n
        BY DEF Number
      <4> QED BY <3>2, <4>1
    <3>0. decode_header(up[c][1].n, up[c][2].n)
      BY <3>3 DEF decode_header, MSG_REQUEST, MSG_INVALID, MaxBody
    <3>4. /\ up'[c] = SubSeq(up[c], 3, 3) /\ phase'[c] = "body" /\ data'[c].len = 1
          /\ "len" \in DOMAIN data'[c] /\ UNCHANGED <<conn, down>>
      BY <2>1, <3>0, <3>3 DEF ReadHeader, Arrays, Shut
    <3>5. HeaderRead(c)'
      BY <3>1, <3>2, <3>4, CutHeader DEF Asking, HeaderRead
    <3> QED BY <2>1, <2>3, <3>1, <3>4, <3>5 DEF Shut
  <2> QED BY <2>2, <2>3
<1> QED BY <1>1, <1>2

LEMMA BodyStep ==
  ASSUME NEW c \in Clients, Arrays, initialize, initialize', Shut(c), handle_read_body(c), ~Exit,
         UNCHANGED <<pc, asked, left>>
  PROVE  Shut(c)'
<1>1. CASE PeerClosed(c)
  BY <1>1, ClosedStep
<1>2. CASE ~PeerClosed(c)
  <2>1. phase[c] = "body" /\ Process(c)
    BY <1>2 DEF handle_read_body
  <2>0. PICK junk \in Junk :
          IF Throws(Got(c), junk) THEN Exit
          ELSE \E o \in process_msg(Got(c), junk) :
                 /\ data' = [data EXCEPT ![c] = [type |-> o.reply.type, text |-> o.reply.text,
                                                 len |-> IF o.reply.text = "" THEN 0 ELSE 1]]
                 /\ up' = [up EXCEPT ![c] = SubSeq(@, data[c].len + 1, Len(@))]
                 /\ phase' = [phase EXCEPT ![c] = "write"]
                 /\ UNCHANGED <<listener, conn, left, down>>
    BY <2>1 DEF Process
  <2>2. PICK o \in process_msg(Got(c), junk) :
          /\ data' = [data EXCEPT ![c] = [type |-> o.reply.type, text |-> o.reply.text,
                                          len |-> IF o.reply.text = "" THEN 0 ELSE 1]]
          /\ up' = [up EXCEPT ![c] = SubSeq(@, data[c].len + 1, Len(@))]
          /\ phase' = [phase EXCEPT ![c] = "write"]
          /\ UNCHANGED <<listener, conn, left, down>>
    BY <2>0
  <2>3. /\ data'[c].text = o.reply.text
        /\ o.reply.text # "" => data'[c].len = 1
        /\ "len" \in DOMAIN data'[c]
        /\ phase'[c] = "write" /\ conn' = conn /\ down' = down
        /\ conn[c] # "queued"
    BY <2>1, <2>2 DEF Arrays, Shut
  <2>4. CASE pc[c] = "done"
    BY <2>3, <2>4 DEF Shut
  <2>5. CASE pc[c] # "done"
    <3>1. HeaderRead(c) /\ pc[c] = "mode"
      BY <2>1, <2>5 DEF Shut, Lying, Asking, Processed, Answering
    <3>2. PICK w : up[c] = <<w>> /\ w.line = Line("state")
      BY <3>1 DEF HeaderRead
    <3>3. Got(c) = Line("state") /\ Len(up[c]) = 1 /\ data[c].len = 1
      BY <3>1, <3>2 DEF Got, HeaderRead
    <3>4. Got(c).cmd = "state"
      BY <3>3 DEF Line
    <3>5. o = Outcome(MSG_REPLY, "initialize")
      BY <2>2, <3>4 DEF process_msg
    <3>6. o.reply.text = "initialize"
      BY <3>5 DEF Outcome, Reply
    <3>7. up'[c] = <<>>
      <4>1. up'[c] = SubSeq(up[c], 2, 1)
        <5>1. up'[c] = SubSeq(up[c], data[c].len + 1, Len(up[c]))
          BY <2>2 DEF Arrays
        <5>2. data[c].len + 1 = 2
          BY <3>3
        <5> QED BY <3>3, <5>1, <5>2
      <4>2. SubSeq(<<w>>, 2, 1) = <<>>
        BY CutBody
      <4> QED BY <3>2, <4>1, <4>2
    <3>8. Processed(c)'
      BY <2>3, <3>1, <3>6, <3>7 DEF HeaderRead, Processed
    <3> QED BY <2>3, <3>1, <3>8 DEF Shut
  <2> QED BY <2>4, <2>5
<1> QED BY <1>1, <1>2

LEMMA WriteStep ==
  ASSUME NEW c \in Clients, Arrays, Shut(c), handle_write(c), UNCHANGED <<pc, asked, left>>
  PROVE  Shut(c)'
<1>1. CASE PeerClosed(c)
  BY <1>1, ClosedStep
<1>2. CASE ~PeerClosed(c)
  <2> DEFINE m == Message(data[c].type, NoLine, data[c].text)
  <2>1. /\ phase[c] = "write" /\ phase'[c] = "header" /\ down'[c] = down[c] \o m
        /\ UNCHANGED <<conn, up, data>>
    BY <1>2 DEF handle_write, Arrays
  <2>2. conn[c] # "queued"
    BY <2>1 DEF Shut
  <2>3. CASE pc[c] = "done"
    BY <2>1, <2>2, <2>3 DEF Shut
  <2>4. CASE pc[c] # "done"
    <3>1. Processed(c) /\ pc[c] = "mode"
      BY <2>1, <2>4 DEF Shut, Lying, Asking, HeaderRead, Answering
    <3>2. \E t, n, w : m = <<t, n, w>> /\ n.n = 1 /\ w.text = "initialize"
      <4>1. Number(1).n = 1 /\ Text(NoLine, "initialize").text = "initialize" /\ NoLine.cmd # ""
        BY DEF Number, Text, NoLine, Line
      <4>2. m = <<Number(data[c].type), Number(1), Text(NoLine, "initialize")>>
        BY <3>1, <4>1 DEF Processed, Message
      <4> QED BY <4>1, <4>2
    <3>3. <<>> \o m = m
      <4> HIDE DEF m
      <4> QED BY <3>2
    <3>4. Answering(c)'
      BY <2>1, <3>1, <3>2, <3>3 DEF Processed, Answering
    <3> QED BY <2>1, <2>2, <3>1, <3>4 DEF Shut
  <2> QED BY <2>3, <2>4
<1> QED BY <1>1, <1>2

-----------------------------------------------------------------------------

LEMMA ShutStep == ASSUME Whole PROVE ShutInv /\ [Next]_vars => ShutInv'
<1> SUFFICES ASSUME ShutInv, [Next]_vars, ~ShutInv' PROVE FALSE
  OBVIOUS
<1>1. ASSUME NEW c \in Clients, Program(c) \/ User(c) PROVE FALSE
  BY <1>1, ClientStep
<1>2. ASSUME UNCHANGED cliVars, NEW c \in Clients, handle_accept(c) PROVE FALSE
  BY <1>2, AcceptStep
<1>3. ASSUME UNCHANGED cliVars, NEW c \in Clients, SessionStep(c) PROVE FALSE
  <2>1. /\ initialize /\ initialize' = initialize /\ Arrays'
        /\ \A d \in Clients \ {c} : Same(d)
        /\ Shut(c)
        /\ UNCHANGED <<pc, asked, left>>
    BY <1>3, SessionFrame
  <2>2. Shut(c)'
    <3>1. Arrays /\ ~Exit
      BY <1>3, ExitStep DEF ShutInv
    <3> QED BY <1>3, <2>1, <3>1, HeaderStep, BodyStep, WriteStep DEF SessionStep
  <2> QED BY <2>1, <2>2, OneClient
<1>4. CASE UNCHANGED cliVars /\ (RunReturns \/ Interrupt)
  <2>1. Exit
    BY <1>4 DEF RunReturns, Interrupt
  <2> QED BY <1>4, <2>1, ExitStep
<1>5. CASE UNCHANGED cliVars /\ InitialZero
  BY <1>5 DEF InitialZero, ShutInv, Arrays, cliVars
<1>6. CASE UNCHANGED cliVars /\ (AcceptFails \/ UNCHANGED netVars)
  <2>1. Arrays' /\ initialize' = initialize /\ \A c \in Clients : Same(c)
    BY <1>6 DEF AcceptFails, netVars, listener, cliVars, ShutInv, Arrays, Same
  <2> QED BY <2>1, SameShut DEF ShutInv
<1> QED BY <1>1, <1>2, <1>3, <1>4, <1>5, <1>6 DEF Next, Server, vars

\* No command of a console is on its way to a board that is being initialised
\* (the console asks once for the mode, and the server answers "initialize").
THEOREM ConsoleShutInvariant == ASSUME Whole PROVE Spec => []ConsoleShutDuringInit
<1>1. ShutInv => ConsoleShutDuringInit
  BY DEF ShutInv, Shut, ConsoleShutDuringInit
<1> QED BY <1>1, ShutInit, ShutStep, PTL DEF Spec

-----------------------------------------------------------------------------
(* How coordinates are read.                                               *)

\* What holds of every number, if it holds of a number whenever it holds of
\* all smaller ones: the set of the others has no least element.
LEMMA Least ==
  ASSUME NEW S \in SUBSET Nat, S # {}
  PROVE  \E n \in S : \A m \in S : n <= m
<1>1. PICK n \in S : \A m \in S : ~(<<m, n>> \in OpToRel(<, Nat))
  BY WFMin, NatLessThanWellFounded
<1>2. \A m \in S : <<m, n>> \in OpToRel(<, Nat) <=> m < n
  BY DEF OpToRel
<1>3. \A m \in S : ~(m < n) /\ m \in Nat /\ n \in Nat
  BY <1>1, <1>2
<1> QED BY <1>3

Start == [is |-> "parsed", map |-> NoMove]

\* The function behind FoldLeft: what the fields with indices in t make.
IsFold(g, fields, junk, n) ==
  g = [t \in SUBSET (1 .. n) |->
         IF t = {} THEN Start
         ELSE TakeField(g[t \ {Max(t)}], fields[Max(t)], junk)]

LEMMA MaxIs ==
  ASSUME NEW n \in Nat, NEW t \in SUBSET (1 .. n), n \in t
  PROVE  Max(t) = n
<1>1. \A x \in t : x >= n => x = n
  OBVIOUS
<1>2. \A y \in t : n >= y
  OBVIOUS
<1> QED BY <1>1, <1>2 DEF Max

LEMMA FoldExists ==
  ASSUME NEW fields, NEW junk, NEW n \in Nat
  PROVE  \E g : IsFold(g, fields, junk, n)
<1> DEFINE Bad == {k \in Nat : ~\E g : IsFold(g, fields, junk, k)}
<1>1. ASSUME NEW k \in Bad, \A m \in Bad : k <= m PROVE FALSE
  <2>1. CASE k = 0
    <3> DEFINE g == [t \in SUBSET (1 .. 0) |-> Start]
    <3>1. SUBSET (1 .. 0) = {{}}
      OBVIOUS
    <3>2. IsFold(g, fields, junk, 0)
      BY <3>1 DEF IsFold
    <3> QED BY <1>1, <2>1, <3>2
  <2>2. CASE k # 0
    <3>1. k - 1 \in Nat /\ k - 1 \notin Bad
      BY <1>1, <2>2
    <3>2. PICK g : IsFold(g, fields, junk, k - 1)
      BY <3>1
    <3> DEFINE h == [t \in SUBSET (1 .. k) |->
                       IF k \in t THEN TakeField(g[t \ {k}], fields[k], junk) ELSE g[t]]
    <3>3. ASSUME NEW t \in SUBSET (1 .. k)
          PROVE  h[t] = IF t = {} THEN Start
                        ELSE TakeField(h[t \ {Max(t)}], fields[Max(t)], junk)
      <4>0. \A s \in SUBSET (1 .. k) : k \notin s => s \in SUBSET (1 .. k - 1)
        BY <3>1
      <4>1. CASE k \in t
        <5>1. Max(t) = k /\ t \ {k} \in SUBSET (1 .. k) /\ k \notin t \ {k}
          BY <4>1, MaxIs
        <5>2. h[t \ {k}] = g[t \ {k}]
          BY <5>1
        <5> QED BY <4>1, <5>1, <5>2
      <4>2. CASE k \notin t
        <5>1. t \in SUBSET (1 .. k - 1) /\ h[t] = g[t]
          BY <4>0, <4>2
        <5>2. g[t] = IF t = {} THEN Start
                     ELSE TakeField(g[t \ {Max(t)}], fields[Max(t)], junk)
          BY <3>2, <5>1 DEF IsFold
        <5>3. h[t \ {Max(t)}] = g[t \ {Max(t)}]
          BY <4>2
        <5> QED BY <5>1, <5>2, <5>3
      <4> QED BY <4>1, <4>2
    <3>4. h = [t \in SUBSET (1 .. k) |->
                 IF t = {} THEN Start
                 ELSE TakeField(h[t \ {Max(t)}], fields[Max(t)], junk)]
      <4>1. h = [t \in SUBSET (1 .. k) |-> h[t]]
        OBVIOUS
      <4> HIDE DEF h
      <4> QED BY <3>3, <4>1
    <3>5. IsFold(h, fields, junk, k)
      <4> HIDE DEF h
      <4> QED BY <3>4 DEF IsFold
    <3> QED BY <1>1, <3>5
  <2> QED BY <2>1, <2>2
<1>2. Bad = {}
  <2> HIDE DEF Bad
  <2>1. Bad \in SUBSET Nat
    BY DEF Bad
  <2> QED BY <1>1, <2>1, Least
<1> QED BY <1>2

Folded(fields, junk) == FoldLeft(LAMBDA q, f : TakeField(q, f, junk), Start, fields)

\* The turns of the loop of parse_multiplett.
IsLoop(r, fields, junk) ==
  /\ r[0] = Start
  /\ \A k \in 1 .. Len(fields) : r[k] = TakeField(r[k - 1], fields[k], junk)

LEMMA Loop ==
  ASSUME NEW fields, Len(fields) \in Nat, DOMAIN fields = 1 .. Len(fields), NEW junk
  PROVE  \E r : /\ IsLoop(r, fields, junk)
                /\ Folded(fields, junk) = r[Len(fields)]
<1> DEFINE n == Len(fields)
           g == CHOOSE g : IsFold(g, fields, junk, n)
           r == [k \in 0 .. n |-> g[1 .. k]]
<1>1. IsFold(g, fields, junk, n)
  BY FoldExists
<1>2. Folded(fields, junk) = g[1 .. n]
  BY DEF Folded, FoldLeft, MapThenFoldSet, IsFold
<1>3. r[0] = Start
  <2>1. 1 .. 0 = {} /\ {} \in SUBSET (1 .. n)
    OBVIOUS
  <2> HIDE DEF g
  <2>2. g[{}] = Start
    BY <1>1, <2>1 DEF IsFold
  <2> QED BY <2>1, <2>2
<1>4. ASSUME NEW k \in 1 .. n PROVE r[k] = TakeField(r[k - 1], fields[k], junk)
  <2> DEFINE t == 1 .. k
  <2>1. t \in SUBSET (1 .. n) /\ t # {} /\ k \in t /\ t \ {k} = 1 .. k - 1 /\ k - 1 \in 0 .. n
    <3>1. n \in Nat
      OBVIOUS
    <3> HIDE DEF n, g
    <3>2. k \in Nat /\ 1 <= k /\ k <= n
      BY <3>1
    <3>3. \A i \in Int : i \in t <=> 1 <= i /\ i <= k
      BY <3>2
    <3>4. t \ {k} = 1 .. k - 1
      BY <3>2
    <3>5. \A i \in t : i \in 1 .. n
      BY <3>1, <3>2
    <3>6. t # {} /\ k \in t
      BY <3>2, <3>3
    <3>7. k - 1 \in 0 .. n
      BY <3>1, <3>2
    <3> QED BY <3>4, <3>5, <3>6, <3>7
  <2>2. Max(t) = k
    <3> HIDE DEF n
    <3>1. t \in SUBSET (1 .. k) /\ k \in Nat
      OBVIOUS
    <3> QED BY <2>1, <3>1, MaxIs
  <2> HIDE DEF g, t
  <2>3. g[t] = TakeField(g[t \ {k}], fields[k], junk)
    BY <1>1, <2>1, <2>2 DEF IsFold
  <2> QED BY <2>1, <2>3 DEF t
<1> HIDE DEF g, r
<1>5. r[n] = g[1 .. n]
  BY DEF r
<1> QED BY <1>2, <1>3, <1>4, <1>5 DEF IsLoop

\* What is known of the fields when k of them have been taken.
Taken(r, fields, junk, k) ==
  /\ r = [is |-> r.is, map |-> r.map] /\ r.is \in {"parsed", "failed", "thrown"}
  /\ r.is = "parsed" =>
       /\ \A i \in 1 .. k : fields[i].delim /\ ~fields[i].escape
       /\ DOMAIN r.map = {fields[i].name : i \in 1 .. k}
       /\ r.map = [n \in DOMAIN r.map |-> r.map[n]]
       /\ \A i \in 1 .. k : (\A j \in 1 .. i - 1 : fields[j].name # fields[i].name)
                              => r.map[fields[i].name] = Extracted(fields[i], junk)
  /\ r.is # "parsed" => \E i \in 1 .. k : ~fields[i].delim \/ fields[i].escape

LEMMA TakenStep ==
  ASSUME NEW fields, NEW junk, NEW k \in Nat \ {0}, NEW q, Taken(q, fields, junk, k - 1),
         fields[k].delim \in BOOLEAN, fields[k].escape \in BOOLEAN
  PROVE  Taken(TakeField(q, fields[k], junk), fields, junk, k)
<1> DEFINE f == fields[k]
           r == TakeField(q, f, junk)
           v == Extracted(f, junk)
<1>1. 1 .. k = (1 .. k - 1) \cup {k} /\ k \in 1 .. k /\ k \notin 1 .. k - 1
  OBVIOUS
<1>2. CASE q.is # "parsed"
  <2>1. r = q
    BY <1>2 DEF TakeField
  <2>2. \E i \in 1 .. k - 1 : ~fields[i].delim \/ fields[i].escape
    BY <1>2 DEF Taken
  <2>3. \E i \in 1 .. k : ~fields[i].delim \/ fields[i].escape
    BY <1>1, <2>2
  <2> QED BY <1>2, <2>1, <2>3 DEF Taken
<1>3. CASE q.is = "parsed" /\ (f.escape \/ ~f.delim)
  <2>1. r.is \in {"failed", "thrown"} /\ r = [is |-> r.is, map |-> r.map]
    BY <1>3 DEF TakeField, Taken
  <2> HIDE DEF r
  <2>2. \E i \in 1 .. k : ~fields[i].delim \/ fields[i].escape
    BY <1>1, <1>3
  <2> QED BY <2>1, <2>2 DEF Taken, r
<1>4. CASE q.is = "parsed" /\ ~f.escape /\ f.delim
  <2>1. r.is = "parsed" /\ r.map = Insert(q.map, f.name, v) /\ r = [is |-> r.is, map |-> r.map]
    BY <1>4 DEF TakeField, Taken
  <2>2. \A i \in 1 .. k : fields[i].delim /\ ~fields[i].escape
    BY <1>1, <1>4 DEF Taken
  <2>3. DOMAIN q.map = {fields[i].name : i \in 1 .. k - 1}
    BY <1>4 DEF Taken
  <2>4. {fields[i].name : i \in 1 .. k} = DOMAIN q.map \cup {f.name}
    BY <1>1, <2>3
  <2>5. /\ DOMAIN r.map = DOMAIN q.map \cup {f.name}
        /\ r.map = [n \in DOMAIN r.map |-> r.map[n]]
        /\ \A n \in DOMAIN q.map : r.map[n] = q.map[n]
        /\ f.name \notin DOMAIN q.map => r.map[f.name] = v
    <3> HIDE DEF f, v, r
    <3>1. CASE f.name \in DOMAIN q.map
      <4>1. r.map = q.map
        BY <2>1, <3>1 DEF Insert
      <4>2. q.map = [n \in DOMAIN q.map |-> q.map[n]]
        BY <1>4 DEF Taken
      <4> QED BY <3>1, <4>1, <4>2
    <3>2. CASE f.name \notin DOMAIN q.map
      <4>1. r.map = [n \in DOMAIN q.map \cup {f.name} |-> IF n = f.name THEN v ELSE q.map[n]]
        BY <2>1, <3>2 DEF Insert, Extend
      <4> QED BY <3>2, <4>1
    <3> QED BY <3>1, <3>2
  <2> HIDE DEF r
  <2>6. ASSUME NEW i \in 1 .. k, \A j \in 1 .. i - 1 : fields[j].name # fields[i].name
        PROVE  r.map[fields[i].name] = Extracted(fields[i], junk)
    <3>1. CASE i = k
      BY <2>3, <2>5, <2>6, <3>1
    <3>2. CASE i # k
      <4>1. i \in 1 .. k - 1
        BY <1>1, <3>2
      <4>2. q.map[fields[i].name] = Extracted(fields[i], junk)
        BY <1>4, <2>6, <4>1 DEF Taken
      <4> QED BY <2>3, <2>5, <4>1, <4>2
    <3> QED BY <3>1, <3>2
  <2>7. r.is = "parsed" /\ r = [is |-> r.is, map |-> r.map] /\ r.map = [n \in DOMAIN r.map |-> r.map[n]]
        /\ DOMAIN r.map = {fields[i].name : i \in 1 .. k}
    BY <2>1, <2>4, <2>5 DEF r
  <2>8. Taken(r, fields, junk, k)
    BY <2>2, <2>6, <2>7 DEF Taken
  <2> QED BY <2>8 DEF r
<1> HIDE DEF r
<1>5. q.is = "parsed" \/ q.is # "parsed"
  OBVIOUS
<1> QED BY <1>2, <1>3, <1>4, <1>5 DEF r

LEMMA Folding ==
  ASSUME NEW fields \in Seq(Field), NEW junk
  PROVE  Taken(Folded(fields, junk), fields, junk, Len(fields))
<1> DEFINE n == Len(fields)
<1>1. n \in Nat /\ DOMAIN fields = 1 .. n /\ \A i \in 1 .. n : fields[i] \in Field
  OBVIOUS
<1>2. PICK r : /\ IsLoop(r, fields, junk)
               /\ Folded(fields, junk) = r[n]
  BY <1>1, Loop
<1> DEFINE Bad == {k \in 0 .. n : ~Taken(r[k], fields, junk, k)}
<1>3. ASSUME NEW k \in Bad, \A m \in Bad : k <= m PROVE FALSE
  <2> HIDE DEF n
  <2>1. CASE k = 0
    <3>1. r[0] = Start /\ 1 .. 0 = {}
      BY <1>2 DEF IsLoop
    <3>2. Taken(Start, fields, junk, 0)
      BY DEF Taken, Start, NoMove
    <3> QED BY <1>3, <2>1, <3>1, <3>2
  <2>2. CASE k # 0
    <3>1. k - 1 \in 0 .. n /\ k - 1 \notin Bad /\ k \in 1 .. n /\ k \in Nat \ {0}
      BY <1>1, <1>3, <2>2
    <3>2. r[k] = TakeField(r[k - 1], fields[k], junk)
      BY <1>2, <3>1 DEF IsLoop, n
    <3>3. fields[k].delim \in BOOLEAN /\ fields[k].escape \in BOOLEAN
      BY <1>1, <3>1 DEF Field
    <3>4. Taken(r[k - 1], fields, junk, k - 1)
      BY <3>1
    <3>5. Taken(r[k], fields, junk, k)
      BY <3>1, <3>2, <3>3, <3>4, TakenStep
    <3> QED BY <1>3, <3>5
  <2> QED BY <2>1, <2>2
<1>4. Bad = {}
  <2>1. Bad \in SUBSET Nat
    BY <1>1
  <2> HIDE DEF Bad
  <2> QED BY <1>3, <2>1, Least
<1>5. n \in 0 .. n
  BY <1>1
<1>6. Taken(r[n], fields, junk, n)
  BY <1>4, <1>5
<1> QED BY <1>2, <1>6

LEMMA FirstIs ==
  ASSUME NEW fields, NEW m \in Nat, DOMAIN fields = 1 .. m, NEW n \in NamesIn(fields)
  PROVE  \E i \in 1 .. m :
           /\ fields[i].name = n /\ First(fields, n) = fields[i]
           /\ \A j \in 1 .. i - 1 : fields[j].name # n
<1> DEFINE S == {i \in 1 .. m : fields[i].name = n}
           P(i) == fields[i].name = n /\ \A j \in 1 .. i - 1 : fields[j].name # n
<1>1. PICK l \in S : \A k \in S : l <= k
  <2>1. S \in SUBSET Nat /\ S # {}
    BY DEF NamesIn
  <2> HIDE DEF S
  <2> QED BY <2>1, Least
<1>2. l \in DOMAIN fields /\ P(l)
  BY <1>1
<1>3. First(fields, n) = fields[CHOOSE i \in DOMAIN fields : P(i)]
  BY DEF First
<1> HIDE DEF P
<1>4. PICK i \in DOMAIN fields : P(i) /\ First(fields, n) = fields[i]
  BY <1>2, <1>3
<1> QED BY <1>4 DEF P

\* Coordinates that are accepted are those that the user means, and all that
\* mean something are accepted: the tokenizer, the fold over the fields and
\* the look-up of names of parse_multiplett and process_msg, for any number of
\* fields, any names and any numbers.
THEOREM ReadingIsMeant ==
  ASSUME NEW fields \in Seq(Field), NEW junk \in Junk
  PROVE  LET r == Reading(fields, junk)
         IN IF WellFormed(fields)
            THEN r.is = "position" /\ r.map \in Meant(fields)
            ELSE r.is \in {"refused", "thrown"} /\ r.map = NoMove
<1> DEFINE m == Len(fields)
           p == parse_multiplett(fields, junk)
           r == Reading(fields, junk)
<1>1. m \in Nat /\ DOMAIN fields = 1 .. m /\ \A i \in 1 .. m : fields[i] \in Field
  OBVIOUS
<1>2. r = IF p.is = "parsed" /\ DOMAIN p.map \subseteq AxisNames
          THEN [is |-> "position", map |-> p.map]
          ELSE [is |-> IF p.is = "thrown" THEN "thrown" ELSE "refused", map |-> NoMove]
  BY DEF Reading
<1>3. p = IF \A i \in DOMAIN fields : ~fields[i].delim THEN [is |-> "failed", map |-> NoMove]
          ELSE Folded(fields, junk)
  BY DEF parse_multiplett, Folded, Start
<1>4. Taken(Folded(fields, junk), fields, junk, m)
  BY Folding
<1>5. (fields # <<>>) <=> m # 0
  OBVIOUS
<1> HIDE DEF m, p, r
<1>6. p.is = "parsed" => p = Folded(fields, junk)
  BY <1>3
<1>7. ASSUME WellFormed(fields)
      PROVE  r.is = "position" /\ r.map \in Meant(fields)
  <2>1. m # 0 /\ \A i \in 1 .. m : fields[i].delim /\ ~fields[i].escape /\ fields[i].name \in AxisNames
    BY <1>1, <1>5, <1>7 DEF WellFormed
  <2>2. p = Folded(fields, junk) /\ Taken(p, fields, junk, m)
    BY <1>1, <1>3, <1>4, <2>1
  <2>3. p.is = "parsed"
    BY <2>1, <2>2 DEF Taken
  <2>4. DOMAIN p.map = NamesIn(fields)
    BY <1>1, <2>2, <2>3 DEF Taken, NamesIn
  <2>5. NamesIn(fields) \subseteq AxisNames
    BY <1>1, <2>1 DEF NamesIn
  <2>6. r.is = "position" /\ r.map = p.map
    BY <1>2, <2>3, <2>4, <2>5
  <2>7. p.map = [n \in NamesIn(fields) |-> p.map[n]]
    BY <2>2, <2>3, <2>4 DEF Taken
  <2>8. ASSUME NEW n \in NamesIn(fields)
        PROVE  /\ p.map[n] \in Numbers \cup Junk \cup {0}
               /\ First(fields, n).kind = "number" => p.map[n] = First(fields, n).number
    <3>1. PICK i \in 1 .. m :
            /\ fields[i].name = n /\ First(fields, n) = fields[i]
            /\ \A j \in 1 .. i - 1 : fields[j].name # n
      BY <1>1, FirstIs
    <3>2. p.map[n] = Extracted(fields[i], junk)
      BY <2>2, <2>3, <3>1 DEF Taken
    <3>3. fields[i].kind \in {"number", "text", "nothing"} /\ fields[i].number \in Numbers
      BY <1>1 DEF Field
    <3> QED BY <3>1, <3>2, <3>3 DEF Extracted
  <2>9. p.map \in [NamesIn(fields) -> Numbers \cup Junk \cup {0}]
    BY <2>7, <2>8
  <2>10. p.map \in Meant(fields)
    BY <1>7, <2>8, <2>9 DEF Meant
  <2> QED BY <2>6, <2>10
<1>8. ASSUME ~WellFormed(fields)
      PROVE  r.is \in {"refused", "thrown"} /\ r.map = NoMove
  <2>1. ASSUME p.is = "parsed", DOMAIN p.map \subseteq AxisNames PROVE FALSE
    <3>1. \A i \in 1 .. m : fields[i].delim /\ ~fields[i].escape
      BY <1>4, <1>6, <2>1 DEF Taken
    <3>2. DOMAIN p.map = {fields[i].name : i \in 1 .. m}
      BY <1>4, <1>6, <2>1 DEF Taken
    <3>3. m # 0
      BY <1>1, <1>3, <2>1
    <3> QED BY <1>1, <1>5, <1>8, <2>1, <3>1, <3>2, <3>3 DEF WellFormed
  <2> QED BY <1>2, <2>1
<1> QED BY <1>7, <1>8 DEF r

-----------------------------------------------------------------------------
(* Requests and answers.                                                   *)

\* Where a request is: nowhere, with all that the server has still to read of
\* it, carried out, or answered.
Nowhere(c) == up[c] = <<>> /\ down[c] = <<>> /\ phase[c] \in {"none", "header"}
Sent(c) ==
  /\ up[c] = Message(MSG_REQUEST, asked[c], "") /\ down[c] = <<>>
  /\ phase[c] \in {"none", "header"} /\ result[c] = Nothing
BodyLeft(c) ==
  /\ down[c] = <<>> /\ phase[c] = "body" /\ result[c] = Nothing
  /\ IF asked[c].cmd = "" THEN up[c] = <<>> /\ data[c].len = 0
     ELSE up[c] = <<Text(asked[c], "")>> /\ data[c].len = 1
Executed(c) ==
  /\ up[c] = <<>> /\ down[c] = <<>> /\ phase[c] = "write"
  /\ result[c].reply \in Replies
  /\ data[c].type = result[c].reply.type /\ data[c].text = result[c].reply.text
Replied(c) ==
  /\ up[c] = <<>> /\ phase[c] \in {"none", "header"}
  /\ result[c].reply \in Replies
  /\ down[c] = Message(result[c].reply.type, NoLine, result[c].reply.text)

Under(c) == Sent(c) \/ BodyLeft(c) \/ Executed(c) \/ Replied(c)

CallOf(c) ==
  /\ pc[c] \in States /\ left[c] = (pc[c] = "done")
  /\ mode[c] \in {"single", "batch", "prompt"} /\ script[c] \in Seq(AllLines)
  /\ asked[c] \in AllLines \cup {NoLine}
  /\ told[c] \in Replies \cup {NoReply} /\ result[c].reply \in Replies \cup {NoReply}
  /\ {"type", "len", "text"} \subseteq DOMAIN data[c]
  /\ conn[c] \in {"none", "queued", "open", "over"}
  /\ phase[c] # "none" <=> conn[c] = "open"
  /\ pc[c] = "off" => conn[c] = "none"
  /\ pc[c] \in {"off", "hello", "loop"} => asked[c] = NoLine
  /\ pc[c] \in {"mode", "reply"} => asked[c] # NoLine
  /\ Nowhere(c) \/ (asked[c] # NoLine /\ Under(c))

CallArrays ==
  /\ Arrays /\ DOMAIN result = Clients /\ DOMAIN told = Clients
  /\ DOMAIN script = Clients /\ DOMAIN mode = Clients

CallInv ==
  /\ server \in {"up", "ended"} /\ {accepting, initialize} \subseteq BOOLEAN
  /\ CallArrays /\ \A c \in Clients : CallOf(c)

LEMMA LineTypes ==
  /\ NoLine \notin AllLines
  /\ \A l \in AllLines : l \in [cmd : Cmds, fields : Seq(Field)]
<1>1. \A l \in [cmd : Cmds, fields : Seq(Field)] : l.cmd \in Cmds
  OBVIOUS
<1>2. NoLine.cmd = "none" /\ "none" \notin Cmds
  BY DEF NoLine, Line, Cmds
<1>3. Line("state") \in [cmd : Cmds, fields : Seq(Field)]
  <2>1. <<>> \in Seq(Field) /\ "state" \in Cmds
    BY DEF Cmds
  <2> QED BY <2>1 DEF Line
<1>4. ASSUME NEW m \in DOMAIN Scripts, NEW s \in Scripts[m], NEW l \in Range(s)
      PROVE  l \in [cmd : Cmds, fields : Seq(Field)]
  <2> DEFINE L == [cmd : Cmds, fields : Seq(Field)]
  <2>1. s \in Seq(L)
    BY CliAssumption
  <2>2. PICK i \in DOMAIN s : l = s[i]
    BY DEF Range
  <2> HIDE DEF L
  <2>3. l \in L
    BY <2>1, <2>2
  <2> QED BY <2>3 DEF L
<1>5. \A l \in AllLines : l \in [cmd : Cmds, fields : Seq(Field)]
  BY <1>3, <1>4 DEF AllLines
<1> QED BY <1>1, <1>2, <1>5

LEMMA ScriptTypes ==
  ASSUME NEW m \in DOMAIN Scripts, NEW s \in Scripts[m]
  PROVE  s \in Seq(AllLines)
<1>1. s \in Seq([cmd : Cmds, fields : Seq(Field)])
  BY CliAssumption
<1>2. Range(s) \subseteq AllLines
  BY DEF AllLines
<1>3. \A i \in 1 .. Len(s) : s[i] \in AllLines
  BY <1>1, <1>2 DEF Range
<1> QED BY <1>1, <1>3

LEMMA CallInit == Init => CallInv
<1> SUFFICES ASSUME Init PROVE CallInv
  OBVIOUS
<1>1. CallArrays /\ server \in {"up", "ended"} /\ {accepting, initialize} \subseteq BOOLEAN
  BY DEF Init, NetInit, CallArrays, Arrays
<1>2. ASSUME NEW c \in Clients PROVE CallOf(c)
  <2>1. mode[c] \in {"single", "batch", "prompt"} /\ script[c] \in Scripts[mode[c]]
    BY DEF Init
  <2>2. script[c] \in Seq(AllLines)
    BY <2>1, ScriptTypes, CliAssumption
  <2>3. /\ result[c].reply = NoReply /\ {"type", "len", "text"} \subseteq DOMAIN data[c]
    BY DEF Init, NetInit, Nothing
  <2> QED BY <2>1, <2>2, <2>3 DEF Init, NetInit, CallOf, Nowhere, States
<1> QED BY <1>1, <1>2 DEF CallInv

-----------------------------------------------------------------------------
(* Messages, word by word.                                                 *)

LEMMA RequestIs ==
  ASSUME NEW l \in AllLines
  PROVE  LET m == Message(MSG_REQUEST, l, "")
         IN m = IF l.cmd = "" THEN <<Number(MSG_REQUEST), Number(0)>>
                ELSE <<Number(MSG_REQUEST), Number(1), Text(l, "")>>
BY LineTypes DEF Message

LEMMA AnswerIs ==
  ASSUME NEW r \in Replies
  PROVE  LET m == Message(r.type, NoLine, r.text)
         IN /\ r = Reply(r.type, r.text)
            /\ m = IF r.text = "" THEN <<Number(r.type), Number(0)>>
                   ELSE <<Number(r.type), Number(1), Text(NoLine, r.text)>>
<1>1. NoLine.cmd # ""
  BY DEF NoLine, Line
<1> QED BY <1>1 DEF Message, Replies, Reply

LEMMA WordsAre ==
  /\ \A n : Number(n).n = n
  /\ \A l, t : Text(l, t).line = l /\ Text(l, t).text = t
BY DEF Number, Text

LEMMA Cuts ==
  ASSUME NEW x, NEW y, NEW z
  PROVE  /\ SubSeq(<<x, y>>, 3, 2) = <<>> /\ SubSeq(<<x, y, z>>, 3, 3) = <<z>>
         /\ SubSeq(<<x, y, z>>, 4, 3) = <<>> /\ SubSeq(<<x>>, 2, 1) = <<>>
         /\ SubSeq(<<>>, 1, 0) = <<>>
         /\ <<>> \o <<x, y>> = <<x, y>> /\ <<>> \o <<x, y, z>> = <<x, y, z>>
<1>1. /\ SubSeq(<<x, y>>, 3, 2) = <<>> /\ SubSeq(<<x, y, z>>, 4, 3) = <<>>
      /\ SubSeq(<<x>>, 2, 1) = <<>> /\ SubSeq(<<>>, 1, 0) = <<>>
  BY SubSeqEmpty
<1>2. <<>> \o <<x, y>> = <<x, y>> /\ <<>> \o <<x, y, z>> = <<x, y, z>>
  OBVIOUS
<1> QED BY <1>1, <1>2, CutHeader

-----------------------------------------------------------------------------
(* Steps of the clients keep CallInv.                                      *)

\* Of client c nothing changes.
Unmoved(c) ==
  /\ Same(c) /\ result'[c] = result[c] /\ told'[c] = told[c]
  /\ script'[c] = script[c] /\ mode'[c] = mode[c]

LEMMA SameCall ==
  ASSUME NEW c \in Clients, CallOf(c), Unmoved(c)
  PROVE  CallOf(c)'
<1>1. /\ Nowhere(c) => Nowhere(c)'
      /\ Sent(c) => Sent(c)'
      /\ BodyLeft(c) => BodyLeft(c)'
      /\ Executed(c) => Executed(c)'
      /\ Replied(c) => Replied(c)'
  BY DEF Unmoved, Same, Nowhere, Sent, BodyLeft, Executed, Replied
<1>2. Nowhere(c)' \/ (asked'[c] # NoLine /\ Under(c)')
  BY <1>1 DEF CallOf, Under, Unmoved, Same
<1> QED BY <1>2 DEF CallOf, Unmoved, Same

\* A step that leaves all clients but c alone.
LEMMA OneCall ==
  ASSUME CallInv, server' \in {"up", "ended"}, {accepting', initialize'} \subseteq BOOLEAN,
         CallArrays', NEW c \in Clients,
         \A d \in Clients \ {c} : Unmoved(d),
         CallOf(c)'
  PROVE  CallInv'
BY SameCall DEF CallInv

LEMMA CallFrame ==
  ASSUME CallInv, NEW c \in Clients, Program(c) \/ User(c)
  PROVE  /\ UNCHANGED <<listener, mode>> /\ CallArrays'
         /\ \A d \in Clients \ {c} : Unmoved(d)
<1> USE DEF CallInv, CallArrays, Arrays, Unmoved, Same, Go, listener
<1>1. CASE Connect(c)
  BY <1>1 DEF Connect
<1>2. CASE AskMode(c)
  BY <1>2 DEF AskMode, Write
<1>3. CASE ReadMode(c)
  BY <1>3 DEF ReadMode, Read
<1>4. CASE ReadReply(c)
  BY <1>4 DEF ReadReply, Read
<1>5. CASE SendLine(c)
  BY <1>5 DEF SendLine, Write
<1>6. CASE LocalLine(c)
  BY <1>6 DEF LocalLine
<1>7. CASE EndOfBatch(c)
  BY <1>7 DEF EndOfBatch
<1>8. CASE Lost(c)
  BY <1>8 DEF Lost
<1>9. CASE Kill(c)
  BY <1>9 DEF Kill
<1> QED BY <1>1, <1>2, <1>3, <1>4, <1>5, <1>6, <1>7, <1>8, <1>9 DEF Program, User

\* Where a client goes, and that it leaves when it is done.
LEMMA Going ==
  ASSUME NEW c \in Clients, CallArrays, CallOf(c), NEW next \in States, Go(c, next), pc[c] # "done"
  PROVE  pc'[c] = next /\ left'[c] = (next = "done")
BY DEF Go, CallArrays, Arrays, CallOf

\* Steps in which a client only goes on: it is idle then, or has just ended.
LEMMA GoOn ==
  ASSUME NEW c \in Clients, CallArrays, CallOf(c), pc[c] # "done",
         NEW next \in {"loop", "done"}, Go(c, next), next = "loop" => pc[c] = "loop",
         UNCHANGED <<conn, up, down, phase, data, result, mode, asked, told>>,
         script'[c] \in Seq(AllLines)
  PROVE  CallOf(c)'
<1>1. pc'[c] = next /\ left'[c] = (next = "done")
  BY Going DEF States
<1>2. /\ Nowhere(c) => Nowhere(c)'
      /\ Under(c) => Under(c)'
  BY DEF Nowhere, Under, Sent, BodyLeft, Executed, Replied
<1> QED BY <1>1, <1>2 DEF CallOf, States

LEMMA WriteCall ==
  ASSUME NEW c \in Clients, CallArrays, CallOf(c), asked[c] = NoLine, pc[c] # "done",
         NEW l \in AllLines, Write(c, l), NEW next \in {"mode", "reply"}, Go(c, next),
         script'[c] \in Seq(AllLines)
  PROVE  CallOf(c)' /\ (conn[c] = "over" \/ Sent(c)')
<1>1. pc'[c] = next /\ left'[c] = FALSE /\ next \in States
  BY Going DEF States
<1>2. /\ asked'[c] = l /\ result'[c] = Nothing
      /\ up'[c] = IF conn[c] = "over" THEN up[c] ELSE up[c] \o Message(MSG_REQUEST, l, "")
      /\ UNCHANGED <<conn, down, phase, data, mode, told>>
  BY DEF Write, CallArrays, Arrays
<1>3. Nowhere(c) /\ l # NoLine
  BY LineTypes DEF CallOf
<1>4. <<>> \o Message(MSG_REQUEST, l, "") = Message(MSG_REQUEST, l, "")
  BY RequestIs, Cuts
<1>5. up'[c] = <<>> \/ up'[c] = Message(MSG_REQUEST, l, "")
  BY <1>2, <1>3, <1>4 DEF Nowhere
<1>6. /\ Nowhere(c)' \/ Sent(c)'
      /\ conn[c] = "over" \/ Sent(c)'
  BY <1>2, <1>3, <1>4, <1>5 DEF Nowhere, Sent
<1>7. result'[c].reply = NoReply
  <2>1. Nothing.reply = NoReply
    BY DEF Nothing
  <2> QED BY <1>2, <2>1
<1>8. asked'[c] = l /\ UNCHANGED <<conn, phase, data, mode, told>>
  BY <1>2
<1> QED BY <1>1, <1>3, <1>6, <1>7, <1>8 DEF CallOf, Under

\* What is read is the whole answer, and that of the request.
LEMMA ReadIs ==
  ASSUME NEW c \in Clients, CallArrays, CallOf(c), Answered(c)
  PROVE  /\ Replied(c) /\ Arrived(c) = result[c].reply
         /\ SubSeq(down[c], 3 + down[c][2].n, Len(down[c])) = <<>>
<1>1. Replied(c)
  <2>1. down[c] # <<>>
    BY DEF Answered
  <2> QED BY <2>1 DEF CallOf, Nowhere, Under, Sent, BodyLeft, Executed
<1> DEFINE r == result[c].reply
           m == Message(r.type, NoLine, r.text)
<1>2. r \in Replies /\ down[c] = m
  BY <1>1 DEF Replied
<1>3. /\ r = Reply(r.type, r.text)
      /\ m = IF r.text = "" THEN <<Number(r.type), Number(0)>>
             ELSE <<Number(r.type), Number(1), Text(NoLine, r.text)>>
  BY <1>2, AnswerIs
<1> HIDE DEF r, m
<1>4. CASE r.text = ""
  <2>1. down[c] = <<Number(r.type), Number(0)>>
    BY <1>2, <1>3, <1>4
  <2>2. down[c][1].n = r.type /\ down[c][2].n = 0 /\ Len(down[c]) = 2
    BY <2>1, WordsAre
  <2>3. SubSeq(down[c], 3, 2) = <<>>
    BY <2>1, Cuts
  <2>4. Arrived(c) = r
    BY <1>3, <1>4, <2>2 DEF Arrived
  <2> QED BY <1>1, <2>2, <2>3, <2>4 DEF r
<1>5. CASE r.text # ""
  <2>1. down[c] = <<Number(r.type), Number(1), Text(NoLine, r.text)>>
    BY <1>2, <1>3, <1>5
  <2>2. /\ down[c][1].n = r.type /\ down[c][2].n = 1 /\ down[c][3].text = r.text
        /\ Len(down[c]) = 3
    BY <2>1, WordsAre
  <2>3. SubSeq(down[c], 4, 3) = <<>>
    BY <2>1, Cuts
  <2>4. Arrived(c) = Reply(r.type, r.text)
    <3>1. down[c][2].n # 0
      BY <2>2
    <3>2. (IF down[c][2].n = 0 THEN "" ELSE down[c][3].text) = r.text
      BY <2>2, <3>1
    <3> QED BY <2>2, <3>2 DEF Arrived, Reply
  <2>5. SubSeq(down[c], 3 + down[c][2].n, Len(down[c])) = <<>>
    BY <2>2, <2>3
  <2> QED BY <1>1, <1>3, <2>4, <2>5 DEF r
<1> QED BY <1>4, <1>5

LEMMA ReadCall ==
  ASSUME NEW c \in Clients, CallArrays, CallOf(c), pc[c] # "done", Read(c),
         NEW next \in {"loop", "done"}, Go(c, next)
  PROVE  CallOf(c)'
<1>1. pc'[c] = next /\ left'[c] = (next = "done") /\ next \in States
  BY Going DEF States
<1>2. /\ Replied(c) /\ Arrived(c) = result[c].reply /\ Arrived(c) \in Replies
      /\ SubSeq(down[c], 3 + down[c][2].n, Len(down[c])) = <<>>
  BY ReadIs DEF Read, Replied
<1>3. /\ told'[c] = Arrived(c) /\ asked'[c] = NoLine /\ down'[c] = <<>>
      /\ UNCHANGED <<conn, up, phase, data, result, mode, script>>
  BY <1>2 DEF Read, CallArrays, Arrays
<1>4. Nowhere(c)'
  BY <1>2, <1>3 DEF Replied, Nowhere
<1> QED BY <1>1, <1>2, <1>3, <1>4 DEF CallOf

LEMMA StateLine == Line("state") \in AllLines
BY DEF AllLines

LEMMA ScriptPop ==
  ASSUME NEW c \in Clients, CallOf(c), script[c] # <<>>
  PROVE  Head(script[c]) \in AllLines /\ Tail(script[c]) \in Seq(AllLines)
<1>1. script[c] \in Seq(AllLines)
  BY DEF CallOf
<1> HIDE DEF AllLines
<1> QED BY <1>1

LEMMA ClientCall ==
  ASSUME CallInv, NEW c \in Clients, Program(c) \/ User(c)
  PROVE  CallInv'
<1>0. CallArrays /\ CallOf(c) /\ script[c] \in Seq(AllLines)
  BY DEF CallInv, CallOf
<1>1. CallOf(c)'
  <2>1. CASE Connect(c)
    <3>1. /\ pc[c] = "off" /\ conn[c] = "none" /\ asked[c] = NoLine
          /\ UNCHANGED <<up, down, phase, data, result, mode, script, asked, told>>
      BY <1>0, <2>1 DEF Connect, CallOf
    <3>2. PICK next \in {"hello", "done"} : Go(c, next)
      BY <2>1 DEF Connect
    <3>3. pc'[c] = next /\ left'[c] = (next = "done")
      BY <1>0, <3>1, <3>2, Going DEF States
    <3>4. conn'[c] \in {"none", "queued"}
      BY <1>0, <2>1, <3>1 DEF Connect, CallArrays, Arrays
    <3>5. Nowhere(c) /\ phase[c] = "none"
      BY <1>0, <3>1 DEF CallOf
    <3>6. Nowhere(c)' /\ conn'[c] # "open" /\ phase'[c] = "none"
      BY <3>1, <3>4, <3>5 DEF Nowhere
    <3> QED BY <1>0, <3>1, <3>3, <3>4, <3>6 DEF CallOf, States
  <2>2. CASE AskMode(c)
    BY <1>0, <2>2, WriteCall, StateLine DEF AskMode, CallOf
  <2>3. CASE SendLine(c)
    <3>1. /\ pc[c] = "loop" /\ asked[c] = NoLine /\ Head(script[c]) \in AllLines
          /\ script'[c] \in Seq(AllLines) /\ Write(c, Head(script[c])) /\ Go(c, "reply")
      BY <1>0, <2>3, ScriptPop DEF SendLine, CallOf, CallArrays
    <3> QED BY <1>0, <3>1, WriteCall
  <2>4. CASE ReadMode(c)
    BY <1>0, <2>4, ReadCall DEF ReadMode
  <2>5. CASE ReadReply(c)
    BY <1>0, <2>5, ReadCall DEF ReadReply
  <2>6. CASE LocalLine(c)
    <3>1. script'[c] \in Seq(AllLines)
      BY <1>0, <2>6, ScriptPop DEF LocalLine, CallArrays
    <3> QED BY <1>0, <2>6, <3>1, GoOn DEF LocalLine
  <2>7. CASE EndOfBatch(c)
    BY <1>0, <2>7, GoOn DEF EndOfBatch
  <2>8. CASE Lost(c)
    BY <1>0, <2>8, GoOn DEF Lost
  <2>9. CASE Kill(c)
    BY <1>0, <2>9, GoOn DEF Kill
  <2> QED BY <2>1, <2>2, <2>3, <2>4, <2>5, <2>6, <2>7, <2>8, <2>9 DEF Program, User
<1>2. server' = server /\ accepting' = accepting /\ initialize' = initialize
  BY CallFrame DEF listener
<1>3. CallArrays' /\ \A d \in Clients \ {c} : Unmoved(d)
  BY CallFrame
<1>4. server' \in {"up", "ended"} /\ {accepting', initialize'} \subseteq BOOLEAN
  BY <1>2 DEF CallInv
<1> QED BY <1>1, <1>3, <1>4, OneCall

-----------------------------------------------------------------------------
(* Steps of the server keep CallInv, if headers arrive whole.               *)

LEMMA ExitCall ==
  ASSUME CallInv, Exit, UNCHANGED cliVars
  PROVE  CallInv' /\ UNCHANGED <<asked, result, told, left>>
<1>1. /\ server' \in {"up", "ended"} /\ {accepting', initialize'} \subseteq BOOLEAN
      /\ CallArrays' /\ UNCHANGED <<asked, result, told, left>>
  BY DEF CallInv, CallArrays, Arrays, Exit, cliVars
<1>2. ASSUME NEW c \in Clients PROVE CallOf(c)'
  <2>1. CallOf(c)
    BY DEF CallInv
  <2>2. /\ up'[c] = <<>> /\ phase'[c] = "none" /\ (down'[c] = <<>> \/ down'[c] = down[c])
        /\ conn'[c] \in {"none", "over"} /\ (conn[c] = "none" => conn'[c] = "none")
        /\ UNCHANGED <<pc, mode, script, asked, told, left, data, result>>
    BY DEF Exit, cliVars
  <2>3. Nowhere(c) \/ Sent(c) \/ BodyLeft(c) \/ Executed(c) => Nowhere(c)'
    BY <2>2 DEF Nowhere, Sent, BodyLeft, Executed
  <2>4. Replied(c) => Nowhere(c)' \/ Replied(c)'
    BY <2>2 DEF Nowhere, Replied
  <2>5. Nowhere(c)' \/ (asked'[c] # NoLine /\ Under(c)')
    BY <2>1, <2>2, <2>3, <2>4 DEF CallOf, Under
  <2> QED BY <2>1, <2>2, <2>5 DEF CallOf
<1> QED BY <1>1, <1>2 DEF CallInv

\* Server steps that concern one connection.
LEMMA ServerFrame ==
  ASSUME CallInv, NEW c \in Clients, handle_accept(c) \/ SessionStep(c), UNCHANGED cliVars, ~Exit
  PROVE  /\ UNCHANGED listener /\ CallArrays'
         /\ \A d \in Clients \ {c} : Unmoved(d)
         /\ UNCHANGED <<left, pc, mode, script, asked, told>>
<1> USE DEF CallInv, CallArrays, Arrays, Unmoved, Same, listener, cliVars
<1>1. CASE handle_accept(c)
  BY <1>1 DEF handle_accept
<1>2. CASE handle_read_header(c)
  BY <1>2 DEF handle_read_header, ReadHeader, PeerClosed, Delete
<1>3. CASE handle_read_body(c)
  BY <1>3 DEF handle_read_body, Process, PeerClosed, Delete
<1>4. CASE handle_write(c)
  BY <1>4 DEF handle_write, PeerClosed, Delete
<1> QED BY <1>1, <1>2, <1>3, <1>4 DEF SessionStep

LEMMA AcceptCall ==
  ASSUME NEW c \in Clients, CallArrays, CallOf(c), handle_accept(c), UNCHANGED cliVars
  PROVE  CallOf(c)' /\ UNCHANGED result
<1>1. /\ phase[c] = "none" /\ conn'[c] = "open" /\ phase'[c] = "header" /\ pc[c] # "off"
      /\ UNCHANGED <<left, up, down, data, result, pc, mode, script, asked, told>>
  BY DEF handle_accept, CallOf, CallArrays, Arrays, cliVars
<1>2. /\ Nowhere(c) => Nowhere(c)'
      /\ Sent(c) => Sent(c)'
      /\ Replied(c) => Replied(c)'
      /\ ~BodyLeft(c) /\ ~Executed(c)
  BY <1>1 DEF Nowhere, Sent, Replied, BodyLeft, Executed
<1>3. Nowhere(c)' \/ (asked'[c] # NoLine /\ Under(c)')
  BY <1>1, <1>2 DEF CallOf, Under
<1> QED BY <1>1, <1>3 DEF CallOf

\* The end of a session, whose client has left.
LEMMA ClosedCall ==
  ASSUME NEW c \in Clients, CallArrays, CallOf(c), PeerClosed(c),
         up[c] = <<>> \/ phase[c] = "write",
         phase[c] = "body" => Len(up[c]) < data[c].len,
         UNCHANGED cliVars
  PROVE  CallOf(c)' /\ UNCHANGED result
<1>1. /\ conn'[c] = "over" /\ phase'[c] = "none" /\ left[c]
      /\ UNCHANGED <<left, up, down, data, result, pc, mode, script, asked, told>>
  BY DEF PeerClosed, Delete, CallArrays, Arrays, cliVars
<1>2. asked[c] # NoLine => ~Sent(c)
  <2> SUFFICES ASSUME asked[c] # NoLine, Sent(c) PROVE FALSE
    OBVIOUS
  <2>1. up[c] = <<>>
    BY DEF Sent
  <2>2. asked[c] \in AllLines
    BY DEF CallOf
  <2>3. CASE asked[c].cmd = ""
    <3>1. up[c] = <<Number(MSG_REQUEST), Number(0)>>
      BY <2>2, <2>3, RequestIs DEF Sent
    <3> QED BY <2>1, <3>1
  <2>4. CASE asked[c].cmd # ""
    <3>1. up[c] = <<Number(MSG_REQUEST), Number(1), Text(asked[c], "")>>
      BY <2>2, <2>4, RequestIs DEF Sent
    <3>2. PICK x, y, z : up[c] = <<x, y, z>>
      BY <3>1
    <3>3. Len(up[c]) = 3
      BY <3>2
    <3> QED BY <2>1, <3>3
  <2> QED BY <2>3, <2>4
<1>3. ~BodyLeft(c)
  <2> SUFFICES ASSUME BodyLeft(c) PROVE FALSE
    OBVIOUS
  <2>1. Len(up[c]) < data[c].len
    BY DEF BodyLeft
  <2>2. CASE up[c] = <<>> /\ data[c].len = 0
    BY <2>1, <2>2
  <2>3. CASE up[c] = <<Text(asked[c], "")>> /\ data[c].len = 1
    <3>1. PICK w : up[c] = <<w>>
      BY <2>3
    <3>2. Len(up[c]) = 1
      BY <3>1
    <3>3. data[c].len = 1
      BY <2>3
    <3> QED BY <2>1, <3>2, <3>3
  <2> QED BY <2>2, <2>3 DEF BodyLeft
<1>4. /\ Nowhere(c) \/ Executed(c) => Nowhere(c)'
      /\ Replied(c) => Replied(c)'
  BY <1>1 DEF Nowhere, Executed, Replied
<1>5. Nowhere(c)' \/ (asked'[c] # NoLine /\ Under(c)')
  BY <1>1, <1>2, <1>3, <1>4 DEF CallOf, Under
<1>6. pc[c] = "done"
  BY <1>1 DEF CallOf
<1> QED BY <1>1, <1>5, <1>6 DEF CallOf

LEMMA HeaderCall ==
  ASSUME Whole, NEW c \in Clients, CallArrays, CallOf(c), handle_read_header(c),
         UNCHANGED cliVars
  PROVE  CallOf(c)' /\ UNCHANGED result
<1>1. CASE up[c] = <<>> /\ PeerClosed(c)
  BY <1>1, ClosedCall DEF handle_read_header
<1>2. CASE ~(up[c] = <<>> /\ PeerClosed(c))
  <2>1. phase[c] = "header" /\ Len(up[c]) >= 2 /\ ReadHeader(c, 2)
    BY <1>2 DEF handle_read_header
  <2>2. up[c] # <<>>
    BY <2>1
  <2>3. Sent(c) /\ asked[c] \in AllLines
    BY <2>1, <2>2 DEF CallOf, Nowhere, Under, BodyLeft, Executed, Replied
  <2>4. /\ up[c][1].n = MSG_REQUEST
        /\ asked[c].cmd = "" => up[c][2].n = 0 /\ SubSeq(up[c], 3, Len(up[c])) = <<>>
        /\ asked[c].cmd # "" => /\ up[c][2].n = 1
                                /\ SubSeq(up[c], 3, Len(up[c])) = <<Text(asked[c], "")>>
    <3>1. CASE asked[c].cmd = ""
      <4>1. up[c] = <<Number(MSG_REQUEST), Number(0)>>
        BY <2>3, <3>1, RequestIs DEF Sent
      <4>2. PICK x, y : up[c] = <<x, y>> /\ x = Number(MSG_REQUEST) /\ y = Number(0)
        BY <4>1
      <4>3. SubSeq(up[c], 3, 2) = <<>> /\ Len(up[c]) = 2
        BY <4>2, Cuts
      <4>4. up[c][1] = x /\ up[c][2] = y
        BY <4>2
      <4>5. x.n = MSG_REQUEST /\ y.n = 0
        BY <4>2, WordsAre
      <4> HIDE DEF MSG_REQUEST
      <4> QED BY <3>1, <4>3, <4>4, <4>5
    <3>2. CASE asked[c].cmd # ""
      <4>1. up[c] = <<Number(MSG_REQUEST), Number(1), Text(asked[c], "")>>
        BY <2>3, <3>2, RequestIs DEF Sent
      <4>2. PICK x, y, z : /\ up[c] = <<x, y, z>> /\ x = Number(MSG_REQUEST) /\ y = Number(1)
                           /\ z = Text(asked[c], "")
        BY <4>1
      <4>3. SubSeq(up[c], 3, 3) = <<z>> /\ Len(up[c]) = 3
        BY <4>2, Cuts
      <4>8. up[c] = <<x, y, z>>
        BY <4>2
      <4>4. up[c][1] = x /\ up[c][2] = y
        BY <4>8
      <4>6. z = Text(asked[c], "")
        BY <4>2
      <4>7. <<z>> = <<Text(asked[c], "")>>
        BY <4>6
      <4>5. x.n = MSG_REQUEST /\ y.n = 1
        BY <4>2, WordsAre
      <4> QED BY <3>2, <4>3, <4>4, <4>5, <4>7
    <3> QED BY <3>1, <3>2
  <2>5. decode_header(up[c][1].n, up[c][2].n)
    <3>1. up[c][1].n = 2 /\ up[c][2].n \in {0, 1}
      BY <2>4 DEF MSG_REQUEST
    <3> QED BY <3>1 DEF decode_header, MSG_INVALID, MaxBody
  <2>6. /\ up'[c] = SubSeq(up[c], 3, Len(up[c])) /\ phase'[c] = "body"
        /\ data'[c].len = up[c][2].n /\ {"type", "len", "text"} \subseteq DOMAIN data'[c]
        /\ UNCHANGED <<conn, left, down, result>>
    BY <2>1, <2>5 DEF ReadHeader, CallArrays, Arrays, CallOf
  <2>7. UNCHANGED <<pc, mode, script, asked, told>>
    BY DEF cliVars
  <2>8. BodyLeft(c)'
    BY <2>3, <2>4, <2>6, <2>7 DEF Sent, BodyLeft
  <2>9. asked[c] # NoLine /\ conn[c] = "open"
    BY <2>1, <2>3, LineTypes DEF CallOf
  <2> QED BY <2>6, <2>7, <2>8, <2>9 DEF CallOf, Under
<1> QED BY <1>1, <1>2

LEMMA NoReplyIs == NoReply \notin Replies
<1>1. \A r \in Replies : r.type \in {0, 3, 4}
  BY DEF Replies, MSG_ERROR, MSG_REPLY, MSG_SUCCESS
<1>2. NoReply.type = 1
  BY DEF NoReply, Reply, MSG_NONE
<1>3. 1 \notin {0, 3, 4}
  OBVIOUS
<1> QED BY <1>1, <1>2, <1>3

\* What a request does, and what it is answered.
LEMMA ProcessIs ==
  ASSUME NEW l \in AllLines, NEW junk \in Junk, NEW got,
         got = l \/ (l.cmd = "" /\ got = Line("")),
         ~Throws(got, junk), NEW o \in process_msg(got, junk), initialize \in BOOLEAN
  PROVE  /\ o \in [reply : Replies, moved : {NoMove} \cup (IF l.cmd = "ma" THEN Meant(l.fields) ELSE {})]
         /\ o # Nothing
<1> DEFINE M == {NoMove} \cup (IF l.cmd = "ma" THEN Meant(l.fields) ELSE {})
<1>1. ASSUME NEW type \in {MSG_ERROR, MSG_REPLY, MSG_SUCCESS},
             NEW text \in {"initialize", "normal", "text", ""}
      PROVE  Reply(type, text) \in Replies /\ Outcome(type, text) \in [reply : Replies, moved : M]
  <2>1. Reply(type, text) \in Replies
    BY DEF Reply, Replies
  <2> QED BY <2>1 DEF Outcome
<1>2. l.fields \in Seq(Field) /\ (got.cmd = "ma" => got = l)
  <2>1. Line("").cmd = ""
    BY DEF Line
  <2> QED BY <2>1, LineTypes
<1>3. o \in [reply : Replies, moved : M]
  <2>1. CASE got.cmd = "state"
    <3>1. o = Outcome(MSG_REPLY, IF initialize THEN "initialize" ELSE "normal")
      BY <2>1 DEF process_msg
    <3> QED BY <1>1, <3>1
  <2>2. CASE got.cmd = "ask"
    BY <1>1, <2>2 DEF process_msg
  <2>3. CASE got.cmd = "ma"
    <3> DEFINE r == Reading(l.fields, junk)
    <3>1. o \in MoveTo(r) /\ r.is # "thrown"
      BY <1>2, <2>3 DEF process_msg, Throws
    <3>2. IF WellFormed(l.fields) THEN r.is = "position" /\ r.map \in Meant(l.fields)
          ELSE r.is \in {"refused", "thrown"} /\ r.map = NoMove
      BY <1>2, ReadingIsMeant
    <3> HIDE DEF r
    <3>3. CASE r.is = "refused"
      BY <1>1, <3>1, <3>3 DEF MoveTo
    <3>4. CASE r.is = "position" /\ r.map \in Meant(l.fields)
      <4>1. o \in [reply : {Reply(MSG_SUCCESS, ""), Reply(MSG_ERROR, "text")}, moved : {r.map}]
        BY <3>1, <3>4 DEF MoveTo
      <4>2. r.map \in M
        BY <1>2, <2>3, <3>4
      <4>3. Reply(MSG_SUCCESS, "") \in Replies /\ Reply(MSG_ERROR, "text") \in Replies
        BY <1>1
      <4> HIDE DEF M
      <4> QED BY <4>1, <4>2, <4>3
    <3> QED BY <3>1, <3>2, <3>3, <3>4
  <2>4. CASE got.cmd \notin {"state", "ask", "ma"}
    BY <1>1, <2>4 DEF process_msg
  <2> QED BY <2>1, <2>2, <2>3, <2>4
<1>4. Nothing.reply = NoReply /\ o.reply \in Replies
  BY <1>3 DEF Nothing
<1> QED BY <1>3, <1>4, NoReplyIs

\* The body of a request is there, and the request is carried out, unless it
\* ends the process.
LEMMA BodyCall ==
  ASSUME NEW c \in Clients, CallArrays, CallOf(c), handle_read_body(c), ~Exit,
         initialize \in BOOLEAN, UNCHANGED cliVars
  PROVE  /\ CallOf(c)'
         /\ \/ UNCHANGED result
            \/ /\ asked[c] # NoLine /\ result[c] = Nothing
               /\ \E o \in [reply : Replies,
                           moved : {NoMove} \cup (IF asked[c].cmd = "ma" THEN Meant(asked[c].fields)
                                                  ELSE {})] :
                    result' = [result EXCEPT ![c] = o]
<1>1. phase[c] = "body" /\ BodyLeft(c) /\ asked[c] # NoLine /\ asked[c] \in AllLines
  BY DEF handle_read_body, CallOf, Under, Nowhere, Sent, Executed, Replied
<1>2. CASE Len(up[c]) < data[c].len /\ PeerClosed(c)
  <2>1. up[c] = <<>>
    <3>1. CASE asked[c].cmd = ""
      BY <1>1, <3>1 DEF BodyLeft
    <3>2. CASE asked[c].cmd # ""
      <4>1. up[c] = <<Text(asked[c], "")>> /\ data[c].len = 1
        BY <1>1, <3>2 DEF BodyLeft
      <4>2. Len(up[c]) = 1
        <5>1. PICK w : up[c] = <<w>>
          BY <4>1
        <5> QED BY <5>1
      <4>3. data[c].len = 1
        BY <4>1
      <4> QED BY <1>2, <4>2, <4>3
    <3> QED BY <3>1, <3>2
  <2> QED BY <1>2, <2>1, ClosedCall
<1>3. CASE Process(c)
  <2>1. PICK junk \in Junk :
          IF Throws(Got(c), junk) THEN Exit
          ELSE \E o \in process_msg(Got(c), junk) :
                 /\ result' = [result EXCEPT ![c] = o]
                 /\ data' = [data EXCEPT ![c] = [type |-> o.reply.type, text |-> o.reply.text,
                                                 len |-> IF o.reply.text = "" THEN 0 ELSE 1]]
                 /\ up' = [up EXCEPT ![c] = SubSeq(@, data[c].len + 1, Len(@))]
                 /\ phase' = [phase EXCEPT ![c] = "write"]
                 /\ UNCHANGED <<listener, conn, left, down>>
    BY <1>3 DEF Process
  <2>2. ~Throws(Got(c), junk)
    BY <2>1
  <2>3. PICK o \in process_msg(Got(c), junk) :
          /\ result' = [result EXCEPT ![c] = o]
          /\ data' = [data EXCEPT ![c] = [type |-> o.reply.type, text |-> o.reply.text,
                                          len |-> IF o.reply.text = "" THEN 0 ELSE 1]]
          /\ up' = [up EXCEPT ![c] = SubSeq(@, data[c].len + 1, Len(@))]
          /\ phase' = [phase EXCEPT ![c] = "write"]
          /\ UNCHANGED <<listener, conn, left, down>>
    BY <2>1, <2>2
  <2>4. (asked[c].cmd = "" => Got(c) = Line("")) /\ (asked[c].cmd # "" => Got(c) = asked[c])
        /\ SubSeq(up[c], data[c].len + 1, Len(up[c])) = <<>>
    <3>1. CASE asked[c].cmd = ""
      <4>1. up[c] = <<>> /\ data[c].len = 0
        BY <1>1, <3>1 DEF BodyLeft
      <4>2. data[c].len + 1 = 1 /\ Len(up[c]) = 0
        BY <4>1
      <4>3. Got(c) = Line("")
        BY <4>1 DEF Got
      <4> QED BY <3>1, <4>1, <4>2, <4>3, Cuts
    <3>2. CASE asked[c].cmd # ""
      <4>1. up[c] = <<Text(asked[c], "")>> /\ data[c].len = 1
        BY <1>1, <3>2 DEF BodyLeft
      <4> DEFINE w == Text(asked[c], "")
      <4>2. up[c] = <<w>> /\ w.line = asked[c]
        BY <4>1, WordsAre
      <4> HIDE DEF w
      <4>3. up[c][1] = w /\ Len(up[c]) = 1
        BY <4>2
      <4>7. data[c].len = 1
        BY <4>1
      <4>4. data[c].len = 1 /\ data[c].len # 0 /\ data[c].len + 1 = 2
        BY <4>7
      <4>5. Got(c) = asked[c]
        BY <4>2, <4>3, <4>4 DEF Got
      <4>6. SubSeq(<<w>>, 2, 1) = <<>>
        BY CutBody
      <4> QED BY <3>2, <4>2, <4>3, <4>4, <4>5, <4>6
    <3> QED BY <3>1, <3>2
  <2>5. /\ o \in [reply : Replies,
                  moved : {NoMove} \cup (IF asked[c].cmd = "ma" THEN Meant(asked[c].fields)
                                         ELSE {})]
        /\ o # Nothing
    BY <1>1, <2>2, <2>4, ProcessIs
  <2>6. /\ result'[c] = o /\ up'[c] = <<>> /\ phase'[c] = "write"
        /\ data'[c] = [type |-> o.reply.type, text |-> o.reply.text,
                       len |-> IF o.reply.text = "" THEN 0 ELSE 1]
        /\ UNCHANGED <<conn, left, down, pc, mode, script, asked, told>>
    BY <2>3, <2>4 DEF CallArrays, Arrays, cliVars
  <2>7. /\ data'[c].type = o.reply.type /\ data'[c].text = o.reply.text
        /\ {"type", "len", "text"} \subseteq DOMAIN data'[c]
    <3> DEFINE n == IF o.reply.text = "" THEN 0 ELSE 1
    <3>1. data'[c] = [type |-> o.reply.type, text |-> o.reply.text, len |-> n]
      BY <2>6
    <3> HIDE DEF n
    <3>2. DOMAIN data'[c] = {"type", "len", "text"}
      BY <3>1
    <3> QED BY <3>1, <3>2
  <2>8. o.reply \in Replies
    BY <2>5
  <2>9. Executed(c)'
    BY <1>1, <2>6, <2>7, <2>8 DEF BodyLeft, Executed
  <2>10. CallOf(c)'
    BY <1>1, <2>6, <2>7, <2>8, <2>9 DEF CallOf, Under
  <2>11. result[c] = Nothing
    BY <1>1 DEF BodyLeft
  <2> QED BY <1>1, <2>3, <2>5, <2>10, <2>11
<1> QED BY <1>2, <1>3 DEF handle_read_body

\* The answer is sent, or the client has left.
LEMMA AnswerCall ==
  ASSUME NEW c \in Clients, CallArrays, CallOf(c), handle_write(c), UNCHANGED cliVars
  PROVE  CallOf(c)' /\ UNCHANGED result /\ (PeerClosed(c) \/ Replied(c)')
<1>1. phase[c] = "write" /\ Executed(c) /\ asked[c] # NoLine
  BY DEF handle_write, CallOf, Under, Nowhere, Sent, BodyLeft, Replied
<1>2. CASE PeerClosed(c)
  BY <1>1, <1>2, ClosedCall
<1>3. CASE ~PeerClosed(c)
  <2> DEFINE m == Message(data[c].type, NoLine, data[c].text)
  <2>1. /\ phase'[c] = "header" /\ down'[c] = down[c] \o m
        /\ UNCHANGED <<conn, left, up, data, result, pc, mode, script, asked, told>>
    BY <1>3 DEF handle_write, CallArrays, Arrays, cliVars
  <2>2. m = Message(result[c].reply.type, NoLine, result[c].reply.text)
    BY <1>1 DEF Executed
  <2>3. <<>> \o m = m
    <3> DEFINE r == result[c].reply
    <3>1. r \in Replies
      BY <1>1 DEF Executed
    <3>2. m = IF r.text = "" THEN <<Number(r.type), Number(0)>>
              ELSE <<Number(r.type), Number(1), Text(NoLine, r.text)>>
      BY <2>2, <3>1, AnswerIs
    <3> HIDE DEF m, r
    <3>3. \/ m = <<Number(r.type), Number(0)>>
          \/ m = <<Number(r.type), Number(1), Text(NoLine, r.text)>>
      BY <3>2
    <3>4. (\E x, y : m = <<x, y>>) \/ (\E x, y, z : m = <<x, y, z>>)
      BY <3>3
    <3> QED BY <3>4, Cuts
  <2>4. Replied(c)'
    BY <1>1, <2>1, <2>2, <2>3 DEF Executed, Replied
  <2>5. conn[c] = "open"
    BY <1>1 DEF CallOf
  <2> QED BY <1>1, <2>1, <2>4, <2>5 DEF CallOf, Under
<1> QED BY <1>2, <1>3

LEMMA SessionCall ==
  ASSUME Whole, CallInv, NEW c \in Clients, SessionStep(c), ~Exit, UNCHANGED cliVars
  PROVE  /\ CallInv'
         /\ UNCHANGED <<asked, told, left>>
         /\ \/ UNCHANGED result
            \/ /\ asked[c] # NoLine /\ result[c] = Nothing
               /\ \E o \in [reply : Replies,
                           moved : {NoMove} \cup (IF asked[c].cmd = "ma" THEN Meant(asked[c].fields)
                                                  ELSE {})] :
                    result' = [result EXCEPT ![c] = o]
<1>1. CallArrays /\ CallOf(c) /\ initialize \in BOOLEAN
  BY DEF CallInv
<1>2. /\ UNCHANGED <<server, accepting, initialize>> /\ CallArrays'
      /\ \A d \in Clients \ {c} : Unmoved(d)
      /\ UNCHANGED <<asked, told, left>>
  BY ServerFrame DEF listener
<1>3. server' \in {"up", "ended"} /\ {accepting', initialize'} \subseteq BOOLEAN
  BY <1>2 DEF CallInv
<1>4. CASE handle_read_header(c)
  <2>1. CallOf(c)' /\ UNCHANGED result
    BY <1>1, <1>4, HeaderCall
  <2> QED BY <1>2, <1>3, <2>1, OneCall
<1>5. CASE handle_read_body(c)
  <2>1. CallOf(c)'
    BY <1>1, <1>5, BodyCall
  <2>2. CallInv'
    BY <1>2, <1>3, <2>1, OneCall
  <2> QED BY <1>1, <1>2, <1>5, <2>2, BodyCall
<1>6. CASE handle_write(c)
  <2>1. CallOf(c)' /\ UNCHANGED result
    BY <1>1, <1>6, AnswerCall
  <2> QED BY <1>2, <1>3, <2>1, OneCall
<1> QED BY <1>4, <1>5, <1>6 DEF SessionStep

\* Server steps that carry out no request.
LEMMA OtherCall ==
  ASSUME CallInv, UNCHANGED cliVars,
         \/ \E c \in Clients : handle_accept(c)
         \/ AcceptFails \/ RunReturns \/ Interrupt \/ InitialZero \/ Exit
  PROVE  CallInv' /\ UNCHANGED <<asked, result, told, left>>
<1>1. ASSUME NEW c \in Clients, handle_accept(c)
      PROVE  CallInv' /\ UNCHANGED <<asked, result, told, left>>
  <2>1. CallArrays /\ CallOf(c)
    BY DEF CallInv
  <2>2. CallOf(c)' /\ UNCHANGED <<result, left, server, accepting, initialize>>
    BY <1>1, <2>1, AcceptCall DEF handle_accept, listener
  <2>3. CallArrays' /\ \A d \in Clients \ {c} : Unmoved(d)
    BY <1>1 DEF handle_accept, CallInv, CallArrays, Arrays, Unmoved, Same, cliVars
  <2>4. server' \in {"up", "ended"} /\ {accepting', initialize'} \subseteq BOOLEAN
    BY <2>2 DEF CallInv
  <2> QED BY <2>2, <2>3, <2>4, OneCall DEF cliVars
<1>2. CASE RunReturns \/ Interrupt \/ Exit
  BY <1>2, ExitCall DEF RunReturns, Interrupt
<1>3. CASE AcceptFails \/ InitialZero
  <2>1. /\ UNCHANGED <<conn, left, up, down, phase, data, result, pc, mode, script, asked, told>>
        /\ server' = server /\ accepting' \in BOOLEAN /\ initialize' \in BOOLEAN
    BY <1>3 DEF AcceptFails, InitialZero, cliVars, CallInv
  <2>2. ASSUME NEW c \in Clients PROVE CallOf(c)'
    <3>1. CallOf(c) /\ Unmoved(c)
      BY <2>1 DEF CallInv, Unmoved, Same
    <3> QED BY <3>1, SameCall
  <2>3. CallArrays'
    BY <2>1 DEF CallInv, CallArrays, Arrays
  <2>4. server' \in {"up", "ended"} /\ {accepting', initialize'} \subseteq BOOLEAN
    BY <2>1 DEF CallInv
  <2> QED BY <2>1, <2>2, <2>3, <2>4 DEF CallInv
<1> QED BY <1>1, <1>2, <1>3

LEMMA CallStep == ASSUME Whole PROVE CallInv /\ [Next]_vars => CallInv'
<1> SUFFICES ASSUME CallInv, [Next]_vars PROVE CallInv'
  OBVIOUS
<1>1. CASE \E c \in Clients : Program(c) \/ User(c)
  BY <1>1, ClientCall
<1>2. CASE Exit /\ UNCHANGED cliVars
  BY <1>2, ExitCall
<1>3. ASSUME NEW c \in Clients, SessionStep(c), ~Exit, UNCHANGED cliVars PROVE CallInv'
  BY <1>3, SessionCall
<1>4. CASE /\ \/ \E c \in Clients : handle_accept(c)
              \/ AcceptFails \/ RunReturns \/ Interrupt \/ InitialZero
           /\ UNCHANGED cliVars
  BY <1>4, OtherCall
<1>5. CASE UNCHANGED vars
  <2>1. /\ UNCHANGED <<server, accepting, initialize, conn, left, up, down, phase, data, result>>
        /\ UNCHANGED <<pc, mode, script, asked, told>>
    BY <1>5 DEF vars, netVars, listener, cliVars
  <2>2. ASSUME NEW c \in Clients PROVE CallOf(c)'
    <3>1. CallOf(c) /\ Unmoved(c)
      BY <2>1 DEF CallInv, Unmoved, Same
    <3> QED BY <3>1, SameCall
  <2>3. CallArrays'
    BY <2>1 DEF CallInv, CallArrays, Arrays
  <2> QED BY <2>1, <2>2, <2>3 DEF CallInv
<1> QED BY <1>1, <1>2, <1>3, <1>4, <1>5 DEF Next, Server

-----------------------------------------------------------------------------
(* The server and its clients implement requests and replies.              *)

LEMMA MeantIs == \A fields : RR!Meant(fields) = Meant(fields)
BY DEF RR!Meant, RR!WellFormed, RR!NamesIn, RR!First, Meant, WellFormed, NamesIn, First

LEMMA OutcomesAre ==
  ASSUME NEW l
  PROVE  RR!Outcomes(l) = [reply : Replies,
                           moved : {NoMove} \cup (IF l.cmd = "ma" THEN Meant(l.fields) ELSE {})]
BY MeantIs DEF RR!Outcomes, RR!NoMove, NoMove

LEMMA RRNothing == RR!Nothing = Nothing
BY DEF RR!Nothing, RR!NoMove, Nothing, NoMove

LEMMA CallStart == Init => RR!Init
BY RRNothing DEF Init, NetInit, RR!Init

LEMMA Leaves ==
  ASSUME NEW c \in Clients, NEW next, Go(c, next)
  PROVE  /\ left' \in {left, [left EXCEPT ![c] = TRUE]}
         /\ next # "done" => left' = left
BY DEF Go

LEMMA ReadReturns ==
  ASSUME NEW c \in Clients, CallArrays, CallOf(c), pc[c] \in {"mode", "reply"}, Read(c),
         NEW next, Go(c, next)
  PROVE  RR!Return(c)
<1>1. /\ left[c] = FALSE /\ asked[c] # NoLine
  BY DEF CallOf
<1>2. Replied(c) /\ Arrived(c) = result[c].reply
  BY ReadIs DEF Read
<1>3. result[c] # Nothing
  <2>1. Nothing.reply = NoReply
    BY DEF Nothing
  <2> QED BY <1>2, <2>1, NoReplyIs DEF Replied
<1>4. /\ told' = [told EXCEPT ![c] = result[c].reply]
      /\ asked' = [asked EXCEPT ![c] = NoLine] /\ UNCHANGED result
  BY <1>2 DEF Read
<1> QED BY <1>1, <1>3, <1>4, Leaves, RRNothing DEF RR!Return

LEMMA WriteCalls ==
  ASSUME NEW c \in Clients, CallArrays, CallOf(c), pc[c] \in {"hello", "loop"},
         NEW l \in AllLines, Write(c, l), NEW next \in {"mode", "reply"}, Go(c, next)
  PROVE  RR!Call(c)
<1>1. left[c] = FALSE /\ asked[c] = NoLine
  BY DEF CallOf
<1>2. /\ asked' = [asked EXCEPT ![c] = l] /\ result' = [result EXCEPT ![c] = Nothing]
      /\ UNCHANGED <<told, left>>
  BY Leaves DEF Write
<1> QED BY <1>1, <1>2, RRNothing DEF RR!Call

LEMMA ClientRefines ==
  ASSUME CallInv, NEW c \in Clients, Program(c) \/ User(c)
  PROVE  RR!Next \/ UNCHANGED <<asked, result, told, left>>
<1>1. CallArrays /\ CallOf(c)
  BY DEF CallInv
<1>2. CASE AskMode(c)
  <2>1. RR!Call(c)
    BY <1>1, <1>2, WriteCalls, StateLine DEF AskMode
  <2> QED BY <2>1 DEF RR!Next
<1>3. CASE SendLine(c)
  <2>1. RR!Call(c)
    BY <1>1, <1>3, WriteCalls, ScriptPop DEF SendLine
  <2> QED BY <2>1 DEF RR!Next
<1>4. CASE ReadMode(c)
  <2>1. RR!Return(c)
    BY <1>1, <1>4, ReadReturns DEF ReadMode
  <2> QED BY <2>1 DEF RR!Next
<1>5. CASE ReadReply(c)
  <2>1. RR!Return(c)
    BY <1>1, <1>5, ReadReturns DEF ReadReply
  <2> QED BY <2>1 DEF RR!Next
<1>6. CASE Connect(c) \/ LocalLine(c) \/ EndOfBatch(c) \/ Lost(c) \/ Kill(c)
  <2>1. UNCHANGED <<asked, result, told>>
    BY <1>6 DEF Connect, LocalLine, EndOfBatch, Lost, Kill
  <2>2. PICK next : Go(c, next)
    BY <1>6 DEF Connect, LocalLine, EndOfBatch, Lost, Kill
  <2>3. left' = left \/ RR!Leave(c)
    BY <2>1, <2>2, Leaves DEF RR!Leave
  <2> QED BY <2>1, <2>3 DEF RR!Next
<1> QED BY <1>2, <1>3, <1>4, <1>5, <1>6 DEF Program, User

LEMMA CallRefines ==
  ASSUME Whole PROVE CallInv /\ [Next]_vars => [RR!Next]_(RR!vars)
<1> SUFFICES ASSUME CallInv, [Next]_vars
             PROVE  RR!Next \/ UNCHANGED <<asked, result, told, left>>
  BY DEF RR!vars
<1>1. CASE \E c \in Clients : Program(c) \/ User(c)
  BY <1>1, ClientRefines
<1>2. CASE Exit /\ UNCHANGED cliVars
  BY <1>2, ExitCall
<1>3. ASSUME NEW c \in Clients, SessionStep(c), ~Exit, UNCHANGED cliVars
      PROVE  RR!Next \/ UNCHANGED <<asked, result, told, left>>
  <2>1. /\ UNCHANGED <<asked, told, left>>
        /\ \/ UNCHANGED result
           \/ /\ asked[c] # NoLine /\ result[c] = Nothing
              /\ \E o \in RR!Outcomes(asked[c]) : result' = [result EXCEPT ![c] = o]
    BY <1>3, SessionCall, OutcomesAre
  <2>2. UNCHANGED result \/ RR!Execute(c)
    BY <2>1, RRNothing DEF RR!Execute
  <2> QED BY <2>1, <2>2 DEF RR!Next
<1>4. CASE /\ \/ \E c \in Clients : handle_accept(c)
              \/ AcceptFails \/ RunReturns \/ Interrupt \/ InitialZero
           /\ UNCHANGED cliVars
  BY <1>4, OtherCall
<1>5. CASE UNCHANGED vars
  BY <1>5 DEF vars, netVars, cliVars
<1> QED BY <1>1, <1>2, <1>3, <1>4, <1>5 DEF Next, Server

\* To every client the server is one that carries out its requests, one at a
\* time, in order and each at most once, moves only where the line says, and
\* answers with the outcome (sessions, framing, parse_multiplett and
\* process_msg), whatever clients and lines there are and when either side
\* ends at any time, if headers arrive whole.
THEOREM RefinesRequestReply == ASSUME Whole PROVE Spec => ImplementsRequestReply
BY CallInit, CallStep, CallStart, CallRefines, PTL DEF Spec, ImplementsRequestReply, RR!Spec

-----------------------------------------------------------------------------

\* Functions of the clients, which EXCEPT keeps.
PerClient ==
  /\ pc \in [Clients -> States] /\ left \in [Clients -> BOOLEAN]
  /\ mode \in [Clients -> {"single", "batch", "prompt"}]

LEMMA PerClientStep == PerClient /\ [Next]_vars => PerClient'
<1> SUFFICES ASSUME PerClient, [Next]_vars PROVE PerClient'
  OBVIOUS
<1>1. ASSUME NEW c \in Clients, NEW next \in States, Go(c, next), mode' = mode PROVE PerClient'
  BY <1>1 DEF Go, PerClient
<1>2. ASSUME NEW c \in Clients, Program(c) \/ User(c) PROVE PerClient'
  <2>1. mode' = mode /\ \E next \in States : Go(c, next)
    <3> USE DEF States
    <3>1. CASE Connect(c) \/ Lost(c) \/ Kill(c) \/ EndOfBatch(c) \/ LocalLine(c)
      BY <3>1 DEF Connect, Lost, Kill, EndOfBatch, LocalLine
    <3>2. CASE AskMode(c) \/ SendLine(c)
      BY <3>2 DEF AskMode, SendLine, Write
    <3>3. CASE ReadMode(c) \/ ReadReply(c)
      BY <3>3 DEF ReadMode, ReadReply, Read
    <3> QED BY <1>2, <3>1, <3>2, <3>3 DEF Program, User
  <2> QED BY <1>1, <2>1
<1>3. CASE Server /\ UNCHANGED cliVars
  <2>1. left' = left
    <3>1. ASSUME NEW c \in Clients, handle_accept(c) \/ SessionStep(c) PROVE left' = left
      BY <3>1 DEF handle_accept, SessionStep, handle_read_header, handle_read_body, handle_write,
                  ReadHeader, Process, PeerClosed, Delete, Exit
    <3> QED BY <1>3, <3>1 DEF Server, AcceptFails, RunReturns, Interrupt, InitialZero, Exit
  <2> QED BY <1>3, <2>1 DEF PerClient, cliVars
<1>4. CASE UNCHANGED vars
  BY <1>4 DEF vars, netVars, cliVars, PerClient
<1> QED BY <1>2, <1>3, <1>4 DEF Next

\* A stream holds one message at most.
LEMMA OneMessage ==
  ASSUME NEW c \in Clients, CallOf(c)
  PROVE  Len(up[c]) <= 3 /\ Len(down[c]) <= 3
<1>0. \A n \in {0, 1, 2, 3} : n <= 3
  OBVIOUS
<1>1. ASSUME NEW s, \/ s = <<>>
                    \/ \E x : s = <<x>>
                    \/ \E x, y : s = <<x, y>>
                    \/ \E x, y, z : s = <<x, y, z>>
      PROVE  Len(s) <= 3
  <2>1. \A x, y, z : Len(<<x, y, z>>) = 3 /\ Len(<<x, y>>) = 2 /\ Len(<<x>>) = 1
    OBVIOUS
  <2>2. Len(s) \in {0, 1, 2, 3}
    BY <1>1, <2>1
  <2> QED BY <1>0, <2>2, Zenon
<1>2. \/ up[c] = <<>>
      \/ \E x : up[c] = <<x>>
      \/ \E x, y : up[c] = <<x, y>>
      \/ \E x, y, z : up[c] = <<x, y, z>>
  <2>1. CASE asked[c] # NoLine /\ Sent(c)
    <3>1. asked[c] \in AllLines
      BY <2>1 DEF CallOf
    <3> QED BY <2>1, <3>1, RequestIs DEF Sent
  <2>2. CASE BodyLeft(c)
    BY <2>2 DEF BodyLeft
  <2>3. CASE Nowhere(c) \/ Executed(c) \/ Replied(c)
    BY <2>3 DEF Nowhere, Executed, Replied
  <2> QED BY <2>1, <2>2, <2>3 DEF CallOf, Under
<1>3. \/ down[c] = <<>>
      \/ \E x : down[c] = <<x>>
      \/ \E x, y : down[c] = <<x, y>>
      \/ \E x, y, z : down[c] = <<x, y, z>>
  <2>1. CASE Replied(c)
    <3> DEFINE r == result[c].reply
    <3>1. r \in Replies /\ down[c] = Message(r.type, NoLine, r.text)
      BY <2>1 DEF Replied
    <3> HIDE DEF r
    <3> QED BY <3>1, AnswerIs
  <2>2. CASE Nowhere(c) \/ Sent(c) \/ BodyLeft(c) \/ Executed(c)
    BY <2>2 DEF Nowhere, Sent, BodyLeft, Executed
  <2> QED BY <2>1, <2>2 DEF CallOf, Under
<1> QED BY <1>1, <1>2, <1>3

\* Types, and that a stream never holds more than one message: a client waits
\* for its answer before it writes again, and the server answers once.
THEOREM TypeInvariant == ASSUME Whole PROVE Spec => []TypeOK
<1>1. CallInv /\ PerClient => TypeOK
  <2> SUFFICES ASSUME CallInv, PerClient PROVE TypeOK
    OBVIOUS
  <2>1. ASSUME NEW c \in Clients
        PROVE  /\ conn[c] \in {"none", "queued", "open", "over"}
               /\ phase[c] \in {"none", "header", "body", "write"}
               /\ phase[c] # "none" <=> conn[c] = "open"
               /\ Len(up[c]) <= 3 /\ Len(down[c]) <= 3
               /\ told[c] \in Replies \cup {NoReply}
               /\ result[c].reply \in Replies \cup {NoReply}
               /\ asked[c] = NoLine \/ IsLine(asked[c])
    <3>1. CallOf(c)
      BY DEF CallInv
    <3>2. Len(up[c]) <= 3 /\ Len(down[c]) <= 3
      BY <3>1, OneMessage
    <3>3. phase[c] \in {"none", "header", "body", "write"}
      BY <3>1 DEF CallOf, Under, Nowhere, Sent, BodyLeft, Executed, Replied
    <3>4. asked[c] = NoLine \/ IsLine(asked[c])
      BY <3>1, LineTypes DEF CallOf, IsLine
    <3> QED BY <3>1, <3>2, <3>3, <3>4 DEF CallOf
  <2> QED BY <2>1 DEF TypeOK, PerClient, CallInv
<1>2. Init => PerClient
  <2> SUFFICES ASSUME Init PROVE PerClient
    OBVIOUS
  <2>1. pc = [c \in Clients |-> "off"] /\ left = [c \in Clients |-> FALSE] /\ "off" \in States
    BY DEF Init, NetInit, States
  <2>2. mode \in [Clients -> {"single", "batch", "prompt"}]
    BY DEF Init
  <2> QED BY <2>1, <2>2 DEF PerClient
<1> QED BY <1>1, <1>2, PerClientStep, CallInit, CallStep, PTL DEF Spec

-----------------------------------------------------------------------------
(* Client and server never both wait.                                      *)

\* While a client waits its request is somewhere, or its connection is over.
WaitOf(c) ==
  /\ pc[c] \notin {"off", "done"} => conn[c] # "none"
  /\ pc[c] \in {"mode", "reply"} /\ conn[c] # "over" => ~Nowhere(c)

WaitInv == \A c \in Clients : WaitOf(c)

LEMMA SameWait ==
  ASSUME NEW c \in Clients, WaitOf(c), Unmoved(c)
  PROVE  WaitOf(c)'
BY DEF WaitOf, Unmoved, Same, Nowhere

\* A message has two words at least.
LEMMA TwoWords ==
  /\ \A l \in AllLines : Len(Message(MSG_REQUEST, l, "")) >= 2 /\ Message(MSG_REQUEST, l, "") # <<>>
  /\ \A r \in Replies : /\ Message(r.type, NoLine, r.text) # <<>>
                        /\ LET m == Message(r.type, NoLine, r.text)
                           IN Len(m) >= 2 /\ Len(m) >= 2 + m[2].n
<1>1. \A x, y, z : /\ Len(<<x, y>>) = 2 /\ <<x, y>> # <<>> /\ <<x, y>>[2] = y
                  /\ Len(<<x, y, z>>) = 3 /\ <<x, y, z>> # <<>> /\ <<x, y, z>>[2] = y
  OBVIOUS
<1>2. 2 >= 2 /\ 3 >= 2 /\ 2 >= 2 + 0 /\ 3 >= 2 + 1
  OBVIOUS
<1>3. ASSUME NEW l \in AllLines
      PROVE  Len(Message(MSG_REQUEST, l, "")) >= 2 /\ Message(MSG_REQUEST, l, "") # <<>>
  <2> DEFINE m == Message(MSG_REQUEST, l, "")
  <2>1. (\E x, y : m = <<x, y>>) \/ (\E x, y, z : m = <<x, y, z>>)
    BY RequestIs
  <2> HIDE DEF m
  <2>2. Len(m) >= 2 /\ m # <<>>
    BY <1>1, <1>2, <2>1
  <2> QED BY <2>2 DEF m
<1>4. ASSUME NEW r \in Replies
      PROVE  /\ Message(r.type, NoLine, r.text) # <<>>
             /\ LET m == Message(r.type, NoLine, r.text)
                IN Len(m) >= 2 /\ Len(m) >= 2 + m[2].n
  <2> DEFINE m == Message(r.type, NoLine, r.text)
  <2>1. \/ \E x : m = <<x, Number(0)>>
        \/ \E x, z : m = <<x, Number(1), z>>
    BY AnswerIs
  <2> HIDE DEF m
  <2>2. \/ Len(m) = 2 /\ m # <<>> /\ m[2] = Number(0)
        \/ Len(m) = 3 /\ m # <<>> /\ m[2] = Number(1)
    BY <1>1, <2>1
  <2>3. \/ Len(m) = 2 /\ m # <<>> /\ m[2].n = 0
        \/ Len(m) = 3 /\ m # <<>> /\ m[2].n = 1
    <3>1. Number(0).n = 0 /\ Number(1).n = 1
      BY DEF Number
    <3> QED BY <2>2, <3>1
  <2>4. Len(m) >= 2 /\ m # <<>> /\ Len(m) >= 2 + m[2].n
    BY <1>2, <2>3
  <2> QED BY <2>4 DEF m
<1> QED BY <1>3, <1>4

LEMMA WaitClient ==
  ASSUME CallInv, NEW c \in Clients, WaitOf(c), Program(c) \/ User(c)
  PROVE  WaitOf(c)'
<1>1. CallArrays /\ CallOf(c)
  BY DEF CallInv
<1>2. ASSUME pc[c] \in {"hello", "loop"}, NEW l \in AllLines, Write(c, l),
             NEW next \in {"mode", "reply"}, Go(c, next), script'[c] \in Seq(AllLines)
      PROVE  WaitOf(c)'
  <2>1. conn[c] = "over" \/ Sent(c)'
    BY <1>1, <1>2, WriteCall DEF CallOf
  <2>2. asked'[c] = l /\ UNCHANGED conn
    BY <1>1, <1>2 DEF Write, CallArrays, Arrays
  <2>3. Sent(c)' => ~Nowhere(c)'
    BY <2>2, TwoWords DEF Sent, Nowhere
  <2> QED BY <1>2, <2>1, <2>2, <2>3 DEF WaitOf
<1>3. CASE AskMode(c)
  BY <1>1, <1>2, <1>3, StateLine DEF AskMode, CallOf
<1>4. CASE SendLine(c)
  BY <1>1, <1>2, <1>4, ScriptPop DEF SendLine
<1>5. CASE Connect(c)
  BY <1>1, <1>5 DEF Connect, Go, WaitOf, CallArrays, Arrays
<1>6. CASE ReadMode(c) \/ ReadReply(c) \/ LocalLine(c) \/ EndOfBatch(c) \/ Lost(c) \/ Kill(c)
  <2>1. conn' = conn /\ pc[c] \notin {"off", "done"} /\ pc'[c] \in {"loop", "done"}
    BY <1>1, <1>6 DEF ReadMode, ReadReply, Read, LocalLine, EndOfBatch, Lost, Kill, Go,
                      CallArrays, Arrays
  <2> QED BY <2>1 DEF WaitOf
<1> QED BY <1>3, <1>4, <1>5, <1>6 DEF Program, User

LEMMA WaitSession ==
  ASSUME CallInv, NEW c \in Clients, WaitOf(c), handle_accept(c) \/ SessionStep(c), ~Exit,
         UNCHANGED cliVars
  PROVE  WaitOf(c)'
<1>1. CallArrays /\ CallOf(c) /\ UNCHANGED pc
  BY DEF CallInv, cliVars
<1>2. CASE handle_accept(c)
  <2>1. conn'[c] = "open" /\ conn[c] = "queued" /\ UNCHANGED <<up, down>> /\ phase[c] = "none"
    BY <1>1, <1>2 DEF handle_accept, CallArrays, Arrays, CallOf
  <2> QED BY <1>1, <2>1 DEF WaitOf, Nowhere
<1>3. CASE PeerClosed(c)
  <2>1. conn'[c] = "over"
    BY <1>1, <1>3 DEF PeerClosed, Delete, CallArrays, Arrays
  <2> QED BY <2>1 DEF WaitOf
<1>4. CASE SessionStep(c) /\ ~PeerClosed(c)
  <2>1. phase[c] # "none"
    BY <1>4 DEF SessionStep, handle_read_header, handle_read_body, handle_write
  <2>2. conn[c] = "open"
    BY <1>1, <2>1 DEF CallOf
  <2>3. CASE handle_read_header(c)
    <3>1. phase'[c] = "body" \/ conn'[c] = "over"
      BY <1>1, <1>4, <2>3 DEF handle_read_header, ReadHeader, Delete, CallArrays, Arrays
    <3>2. conn'[c] # "none"
      BY <1>1, <1>4, <2>2, <2>3 DEF handle_read_header, ReadHeader, Delete, CallArrays, Arrays
    <3> QED BY <3>1, <3>2 DEF WaitOf, Nowhere
  <2>4. CASE handle_read_body(c)
    <3>1. phase'[c] = "write" /\ conn'[c] = conn[c]
      BY <1>1, <1>4, <2>4 DEF handle_read_body, Process, CallArrays, Arrays
    <3> QED BY <2>2, <3>1 DEF WaitOf, Nowhere
  <2>5. CASE handle_write(c)
    <3>1. Replied(c)' /\ conn' = conn
      BY <1>1, <1>4, <2>5, AnswerCall DEF handle_write
    <3>2. ~Nowhere(c)'
      BY <3>1, TwoWords DEF Replied, Nowhere
    <3> QED BY <2>2, <3>1, <3>2 DEF WaitOf
  <2> QED BY <1>4, <2>3, <2>4, <2>5 DEF SessionStep
<1> QED BY <1>2, <1>3, <1>4

LEMMA WaitStep == CallInv /\ WaitInv /\ [Next]_vars => WaitInv'
<1> SUFFICES ASSUME CallInv, WaitInv, [Next]_vars PROVE WaitInv'
  OBVIOUS
<1>1. ASSUME NEW c \in Clients, \A d \in Clients \ {c} : Unmoved(d), WaitOf(c)' PROVE WaitInv'
  BY <1>1, SameWait DEF WaitInv
<1>2. ASSUME NEW c \in Clients, Program(c) \/ User(c) PROVE WaitInv'
  BY <1>1, <1>2, CallFrame, WaitClient DEF WaitInv
<1>3. CASE Exit /\ UNCHANGED cliVars
  <2>1. UNCHANGED pc /\ \A c \in Clients : conn'[c] = IF conn[c] = "none" THEN "none" ELSE "over"
    BY <1>3 DEF Exit, cliVars
  <2> QED BY <2>1 DEF WaitInv, WaitOf
<1>4. ASSUME NEW c \in Clients, handle_accept(c) \/ SessionStep(c), ~Exit, UNCHANGED cliVars
      PROVE  WaitInv'
  BY <1>1, <1>4, ServerFrame, WaitSession DEF WaitInv
<1>5. CASE ((AcceptFails \/ InitialZero) /\ UNCHANGED cliVars) \/ UNCHANGED vars
  <2>1. UNCHANGED <<conn, up, down, phase, pc>>
    BY <1>5 DEF AcceptFails, InitialZero, cliVars, vars, netVars
  <2> QED BY <2>1 DEF WaitInv, WaitOf, Nowhere
<1> QED BY <1>2, <1>3, <1>4, <1>5 DEF Next, Server, RunReturns, Interrupt

\* Connections that wait to be accepted have a server.
QueueInv == \A c \in Clients : conn[c] = "queued" => server = "up"

LEMMA QueueStep == CallInv /\ QueueInv /\ [Next]_vars => QueueInv'
<1> SUFFICES ASSUME CallInv, QueueInv, [Next]_vars PROVE QueueInv'
  OBVIOUS
<1>1. DOMAIN conn = Clients
  BY DEF CallInv, CallArrays, Arrays
<1>2. ASSUME NEW c \in Clients, Program(c) \/ User(c) PROVE QueueInv'
  <2>1. server' = server
    BY <1>2, CallFrame DEF listener
  <2>2. UNCHANGED conn \/ server = "up"
    BY <1>2 DEF Program, User, Connect, AskMode, Write, ReadMode, ReadReply, Read, SendLine,
                LocalLine, EndOfBatch, Lost, Kill
  <2> QED BY <2>1, <2>2 DEF QueueInv
<1>3. CASE Exit
  BY <1>3 DEF Exit, QueueInv
<1>4. ASSUME NEW c \in Clients, handle_accept(c) \/ SessionStep(c), ~Exit, UNCHANGED cliVars
      PROVE  QueueInv'
  <2>1. UNCHANGED listener /\ \A d \in Clients \ {c} : Unmoved(d)
    BY <1>4, ServerFrame
  <2>2. conn'[c] \in {conn[c], "open", "over"}
    BY <1>1, <1>4 DEF handle_accept, SessionStep, handle_read_header, handle_read_body, handle_write,
                      ReadHeader, Process, PeerClosed, Delete
  <2> QED BY <2>1, <2>2 DEF QueueInv, Unmoved, Same, listener
<1>5. CASE ((AcceptFails \/ InitialZero) /\ UNCHANGED cliVars) \/ UNCHANGED vars
  BY <1>5 DEF AcceptFails, InitialZero, vars, netVars, listener, QueueInv
<1> QED BY <1>2, <1>3, <1>4, <1>5 DEF Next, Server, RunReturns, Interrupt

LEMMA WaitInit == Init => WaitInv /\ QueueInv
BY DEF Init, NetInit, WaitInv, WaitOf, QueueInv

LEMMA WaitServed == ASSUME CallInv, WaitInv, QueueInv PROVE NoMutualWait
<1> SUFFICES ASSUME NEW c \in Clients, pc[c] \in {"mode", "reply"}, conn[c] \notin {"over", "queued"}
             PROVE  Answered(c) \/ Due(c)
  BY DEF NoMutualWait, QueueInv
<1>1. CallOf(c) /\ conn[c] = "open" /\ phase[c] # "none" /\ asked[c] # NoLine /\ Under(c)
  BY DEF CallInv, CallOf, WaitInv, WaitOf
<1>2. CASE Sent(c)
  <2>1. asked[c] \in AllLines
    BY <1>1 DEF CallOf
  <2> QED BY <1>1, <1>2, <2>1, TwoWords DEF Sent, Due
<1>3. CASE BodyLeft(c)
  <2>1. \A x : Len(<<x>>) >= 1 /\ Len(<<>>) >= 0
    OBVIOUS
  <2> QED BY <1>3, <2>1 DEF BodyLeft, Due
<1>4. CASE Executed(c)
  BY <1>4 DEF Executed, Due
<1>5. CASE Replied(c)
  BY <1>5, TwoWords DEF Replied, Answered
<1> QED BY <1>1, <1>2, <1>3, <1>4, <1>5 DEF Under

\* No client waits for a server that waits for it: its request is being read,
\* carried out or answered, or it is told that the connection is over, for any
\* clients and lines and any failures, if headers arrive whole.
THEOREM NoMutualWaitInvariant == ASSUME Whole PROVE Spec => []NoMutualWait
BY CallInit, CallStep, WaitInit, WaitStep, QueueStep, WaitServed, PTL DEF Spec
=============================================================================
