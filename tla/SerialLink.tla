----------------------------- MODULE SerialLink -----------------------------
(***************************************************************************)
(* IAPBoard::send_lowlevel over src/core/ctb.cpp: a command is written to  *)
(* the serial port, then the port is polled every 50 ms.  The reply comes  *)
(* in pieces; nothing marks its end, so it is taken to be complete when a  *)
(* poll that follows some data brings none.  The card and the port are     *)
(* external.                                                               *)
(***************************************************************************)
EXTENDS Naturals, Sequences

CONSTANTS
  Commands, None,
  MaxPieces,     \* pieces a reply may come in
  Size,          \* pieces that fit into the static buffer
  Steady         \* the card never pauses for 50 ms within a reply

ASSUME LinkAssumption ==
  /\ None \notin Commands /\ MaxPieces \in Nat \ {0} /\ Size \in Nat \ {0}
  /\ Steady \in BOOLEAN

VARIABLES
  cmd,           \* argument of the call in progress, None outside of calls
  readflag,      \* some data has been read in this call
  buffer,        \* pieces read in this call, or in the last one
  wire,          \* commands the card has not taken up
  card,          \* the reply being sent: its command and the pieces sent and total
  port           \* pieces that wait in the port to be read

call == <<cmd, readflag, buffer>>
line == <<wire, card, port>>
vars == <<call, line>>

\* The card when it has no reply to send.
Idle == [of |-> None, sent |-> 0, total |-> 0]

Replies == [of : Commands, sent : 0 .. MaxPieces, total : 1 .. MaxPieces]
Piece == [of : Commands, n : 1 .. MaxPieces, total : 1 .. MaxPieces]

TypeOK ==
  /\ cmd \in Commands \cup {None} /\ readflag \in BOOLEAN
  /\ buffer \in Seq(Piece) /\ port \in Seq(Piece) /\ wire \in Seq(Commands)
  /\ card \in Replies \cup {Idle}

Init == /\ cmd = None /\ readflag = FALSE /\ buffer = <<>>
        /\ wire = <<>> /\ card = Idle /\ port = <<>>

\* sctl_ctb::send, in one run.
Send(c) == /\ cmd = None /\ cmd' = c /\ readflag' = FALSE /\ buffer' = <<>>
           /\ wire' = Append(wire, c) /\ UNCHANGED <<card, port>>

\* The card takes up a command and decides on the pieces of its reply.
TakeUp == /\ card = Idle /\ wire # <<>> /\ wire' = Tail(wire)
          /\ card' \in [of : {Head(wire)}, sent : {0}, total : 1 .. MaxPieces]
          /\ UNCHANGED <<call, port>>

Deliver ==
  /\ card # Idle
  /\ port' = Append(port, [of |-> card.of, n |-> card.sent + 1, total |-> card.total])
  /\ card' = IF card.sent + 1 = card.total THEN Idle ELSE [card EXCEPT !.sent = @ + 1]
  /\ UNCHANGED <<call, wire>>

\* receive hands over what waits in the port, as far as the buffer has room.
Fits == IF Len(port) <= Size - Len(buffer) THEN Len(port) ELSE Size - Len(buffer)

\* Mutant: idx is not advanced, each poll overwrites the last one.
PollOverwrites ==
  /\ cmd # None /\ Fits > 0
  /\ buffer' = SubSeq(port, 1, Fits)
  /\ port' = SubSeq(port, Fits + 1, Len(port))
  /\ readflag' = TRUE
  /\ UNCHANGED <<cmd, wire, card>>

PollData ==
  /\ cmd # None /\ Fits > 0
  /\ buffer' = buffer \o SubSeq(port, 1, Fits)
  /\ port' = SubSeq(port, Fits + 1, Len(port))
  /\ readflag' = TRUE
  /\ UNCHANGED <<cmd, wire, card>>

MidReply == card.sent > 0

\* Mutant: the first poll without data ends the call.
PollOnce ==
  /\ cmd # None /\ Fits = 0 /\ cmd' = None
  /\ UNCHANGED <<readflag, buffer, line>>

\* A poll without data ends the call if there has been some before; otherwise
\* the loop goes on.
PollNothing ==
  /\ cmd # None /\ Fits = 0 /\ readflag
  /\ ~(Steady /\ MidReply)
  /\ cmd' = None
  /\ UNCHANGED <<readflag, buffer, line>>

Next == (\E c \in Commands : Send(c)) \/ TakeUp \/ Deliver \/ PollData \/ PollNothing

\* The card answers and the loop polls.
Spec == /\ Init /\ [][Next]_vars
        /\ WF_vars(TakeUp) /\ WF_vars(Deliver) /\ WF_vars(PollData) /\ WF_vars(PollNothing)

-----------------------------------------------------------------------------

\* A complete reply: all pieces of one, in order.
IsReply(b) ==
  /\ b # <<>>
  /\ \A i \in 1 .. Len(b) :
       b[i].of = b[1].of /\ b[i].n = i /\ b[i].total = Len(b)

\* What the caller of send_lowlevel makes of the buffer: the command that it
\* is the reply to, or the buffer itself if it is none.
Answer == IF cmd # None \/ buffer = <<>> THEN None
          ELSE IF IsReply(buffer) THEN buffer[1].of ELSE buffer

RPC == INSTANCE SerialRPC WITH asked <- cmd, answer <- Answer

\* send_lowlevel is the remote procedure call that send_command expects: every
\* call returns, with the complete reply to its own command.
ImplementsRPC == RPC!Spec

\* No piece of a reply is left behind for the next call to read as its own.
LineQuiet == cmd = None => wire = <<>> /\ card = Idle /\ port = <<>>
=============================================================================
