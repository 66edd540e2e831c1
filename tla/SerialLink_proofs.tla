-------------------------- MODULE SerialLink_proofs --------------------------
(***************************************************************************)
(* The serial line works: for commands and replies of any number of pieces *)
(* that fit into the buffer, on a line where the card does not pause       *)
(* within a reply, send_lowlevel is a remote procedure call.               *)
(***************************************************************************)
EXTENDS SerialLink, TLAPS

\* The card has pieces left to send as long as it is busy with a reply.
CardBusy == card # Idle => card.sent < card.total

Typed == TypeOK /\ CardBusy

LEMMA TypedInit == Init => Typed
<1> SUFFICES ASSUME Init PROVE Typed
  OBVIOUS
<1>1. cmd \in Commands \cup {None} /\ readflag \in BOOLEAN /\ card = Idle
  BY DEF Init
<1>2. buffer \in Seq(Piece) /\ port \in Seq(Piece) /\ wire \in Seq(Commands)
  BY DEF Init
<1> QED BY <1>1, <1>2 DEF Typed, TypeOK, CardBusy

LEMMA FitsInPort == TypeOK /\ Fits > 0 => Fits \in 1 .. Len(port)
BY LinkAssumption DEF TypeOK, Fits

LEMMA TypedStep == Typed /\ [Next]_vars => Typed'
<1> SUFFICES ASSUME Typed, [Next]_vars PROVE Typed'
  OBVIOUS
<1> USE LinkAssumption DEF Typed
<1>1. ASSUME NEW c \in Commands, Send(c) PROVE Typed'
  <2>1. buffer' \in Seq(Piece) /\ wire' \in Seq(Commands)
    BY <1>1 DEF Send, TypeOK
  <2> QED BY <1>1, <2>1 DEF Send, TypeOK, CardBusy
<1>2. CASE TakeUp
  <2>1. Head(wire) \in Commands /\ Tail(wire) \in Seq(Commands)
    BY <1>2 DEF TakeUp, TypeOK
  <2>2. /\ card' \in Replies
        /\ card'.sent < card'.total
    BY <1>2, <2>1 DEF TakeUp, Replies
  <2> QED BY <1>2, <2>1, <2>2 DEF TakeUp, TypeOK, CardBusy, call
<1>3. CASE Deliver
  <2> DEFINE piece == [of |-> card.of, n |-> card.sent + 1, total |-> card.total]
  <2>1. /\ card \in Replies
        /\ card.sent < card.total
    BY <1>3 DEF Deliver, TypeOK, CardBusy
  <2>2. piece \in Piece
    <3>1. /\ card.of \in Commands /\ card.sent + 1 \in 1 .. MaxPieces
          /\ card.total \in 1 .. MaxPieces
      BY <2>1 DEF Replies
    <3> QED BY <3>1 DEF Piece
  <2>3. port' \in Seq(Piece)
    <3>1. port' = Append(port, piece)
      BY <1>3 DEF Deliver
    <3> HIDE DEF piece
    <3> QED BY <2>2, <3>1 DEF TypeOK
  <2>4. /\ card' \in Replies \cup {Idle}
        /\ card' # Idle => card'.sent < card'.total
    BY <1>3, <2>1 DEF Deliver, Replies
  <2> QED BY <1>3, <2>3, <2>4 DEF Deliver, TypeOK, CardBusy, call
<1>4. CASE PollData
  <2>1. Fits \in 1 .. Len(port)
    BY <1>4, FitsInPort DEF PollData
  <2>2. SubSeq(port, 1, Fits) \in Seq(Piece) /\ SubSeq(port, Fits + 1, Len(port)) \in Seq(Piece)
    BY <2>1 DEF TypeOK
  <2>3. buffer' \in Seq(Piece)
    BY <1>4, <2>2 DEF PollData, TypeOK
  <2> QED BY <1>4, <2>2, <2>3 DEF PollData, TypeOK, CardBusy
<1>5. CASE PollNothing
  BY <1>5 DEF PollNothing, TypeOK, CardBusy, line
<1>6. CASE UNCHANGED vars
  BY <1>6 DEF vars, call, line, TypeOK, CardBusy
<1> QED BY <1>1, <1>2, <1>3, <1>4, <1>5, <1>6 DEF Next

-----------------------------------------------------------------------------
\* The k-th of n pieces of the reply to c.
IsPiece(p, c, k, n) == p.of = c /\ p.n = k /\ p.total = n

\* The pieces of the reply that the card goes to send.
Total == IF card = Idle THEN Len(buffer) + Len(port) ELSE card.total

InOrder ==
  /\ \A i \in 1 .. Len(buffer) : IsPiece(buffer[i], cmd, i, Total)
  /\ \A i \in 1 .. Len(port) : IsPiece(port[i], cmd, Len(buffer) + i, Total)

\* Where the command of a call is: still to be taken up, answered in part, or
\* answered.  In the last two the reply is spread over buffer and port.
Waiting == wire = <<cmd>> /\ card = Idle /\ port = <<>> /\ buffer = <<>>
Answering == /\ wire = <<>> /\ card # Idle /\ card.of = cmd
             /\ Len(buffer) + Len(port) = card.sent
Delivered == /\ wire = <<>> /\ card = Idle
             /\ Len(buffer) + Len(port) \in 1 .. MaxPieces

LineInv ==
  /\ Typed /\ LineQuiet
  /\ cmd # None => /\ Waiting \/ Answering \/ Delivered
                   /\ InOrder /\ (readflag <=> buffer # <<>>)

LEMMA LineInit == Init => LineInv
BY TypedInit DEF Init, LineInv, LineQuiet

\* A poll that ends the call has left nothing in the port.
LEMMA PortEmpty ==
  ASSUME Steady, MaxPieces <= Size, LineInv, PollNothing
  PROVE  Delivered /\ port = <<>>
<1> USE LinkAssumption
<1>1. cmd # None /\ readflag /\ buffer # <<>> /\ ~MidReply /\ Fits = 0
  BY DEF PollNothing, LineInv
<1>2. ~Waiting
  BY <1>1 DEF Waiting
<1>3. /\ buffer \in Seq(Piece) /\ port \in Seq(Piece)
      /\ Len(buffer) \in Nat \ {0} /\ Len(port) \in Nat
  BY <1>1 DEF LineInv, Typed, TypeOK
<1>4. ~Answering
  BY <1>1, <1>3 DEF Answering, MidReply, LineInv, Typed, TypeOK
<1>5. Delivered
  BY <1>1, <1>2, <1>4 DEF LineInv
<1>6. Len(port) = 0
  BY <1>1, <1>3, <1>5 DEF Delivered, Fits
<1> QED BY <1>3, <1>5, <1>6

LEMMA LineStep ==
  ASSUME Steady, MaxPieces <= Size, LineInv, [Next]_vars
  PROVE  LineInv'
<1> USE LinkAssumption
<1>0. Typed'
  BY TypedStep DEF LineInv
<1>t. /\ buffer \in Seq(Piece) /\ port \in Seq(Piece) /\ wire \in Seq(Commands)
      /\ Len(buffer) \in Nat /\ Len(port) \in Nat
  BY DEF LineInv, Typed, TypeOK
<1>1. ASSUME NEW c \in Commands, Send(c) PROVE LineInv'
  <2>1. cmd = None /\ wire = <<>> /\ card = Idle /\ port = <<>>
    BY <1>1 DEF Send, LineInv, LineQuiet
  <2>2. cmd' = c /\ c # None /\ wire' = <<c>> /\ card' = Idle /\ port' = <<>> /\ buffer' = <<>>
        /\ readflag' = FALSE
    BY <1>1, <2>1 DEF Send
  <2>3. Waiting' /\ InOrder' /\ LineQuiet'
    BY <2>2 DEF Waiting, InOrder, LineQuiet
  <2> QED BY <1>0, <2>2, <2>3 DEF LineInv
<1>2. CASE TakeUp
  <2>1. cmd # None /\ Waiting /\ InOrder
    BY <1>2 DEF TakeUp, LineInv, LineQuiet, Answering, Delivered
  <2>2. /\ cmd' = cmd /\ readflag' = readflag /\ buffer' = <<>> /\ port' = <<>> /\ wire' = <<>>
        /\ card' # Idle /\ card'.of = cmd /\ card'.sent = 0
    <3>1. card' \in [of : {cmd}, sent : {0}, total : 1 .. MaxPieces]
      BY <1>2, <2>1 DEF TakeUp, Waiting
    <3>2. card'.of # Idle.of
      BY <2>1, <3>1 DEF Idle
    <3> QED BY <1>2, <2>1, <3>1, <3>2 DEF TakeUp, Waiting, call
  <2>3. Answering' /\ InOrder' /\ LineQuiet'
    BY <2>1, <2>2 DEF Answering, InOrder, LineQuiet
  <2>4. readflag' <=> buffer' # <<>>
    <3>1. (readflag <=> buffer # <<>>) /\ buffer = <<>>
      BY <2>1 DEF LineInv, Waiting
    <3> QED BY <2>2, <3>1
  <2> QED BY <1>0, <2>1, <2>2, <2>3, <2>4 DEF LineInv
<1>3. CASE Deliver
  <2> DEFINE piece == [of |-> card.of, n |-> card.sent + 1, total |-> card.total]
  <2>1. cmd # None /\ Answering /\ InOrder
    BY <1>3 DEF Deliver, LineInv, LineQuiet, Waiting, Delivered
  <2>2. /\ card \in Replies /\ card.sent < card.total /\ card.sent \in Nat
        /\ card.total \in 1 .. MaxPieces /\ card.sent + 1 \in Nat
    BY <2>1 DEF LineInv, Typed, TypeOK, CardBusy, Answering, Replies
  <2>3. /\ cmd' = cmd /\ buffer' = buffer /\ readflag' = readflag /\ wire' = wire
        /\ port' = Append(port, piece)
    BY <1>3 DEF Deliver, call
  <2>4. /\ Len(port') = Len(port) + 1 /\ port'[Len(port) + 1] = piece
        /\ \A i \in 1 .. Len(port) : port'[i] = port[i]
    <3> HIDE DEF piece
    <3> QED BY <1>t, <2>3
  <2>5. Len(buffer') + Len(port') = card.sent + 1
    BY <1>t, <2>1, <2>3, <2>4 DEF Answering
  <2>6. IF card.sent + 1 = card.total THEN Delivered' ELSE Answering'
    <3>1. CASE card.sent + 1 = card.total
      <4>1. card' = Idle
        BY <1>3, <3>1 DEF Deliver
      <4> QED BY <2>1, <2>2, <2>3, <2>5, <3>1, <4>1 DEF Answering, Delivered
    <3>2. CASE card.sent + 1 # card.total
      <4>1. card'.of = card.of /\ card'.sent = card.sent + 1
        BY <1>3, <2>2, <3>2 DEF Deliver, Replies
      <4>2. card'.of # Idle.of
        BY <2>2, <4>1 DEF Idle, Replies
      <4> QED BY <2>1, <2>3, <2>5, <3>2, <4>1, <4>2 DEF Answering
    <3> QED BY <3>1, <3>2
  <2>7. Total = card.total /\ Total' = card.total
    <3>1. CASE card.sent + 1 = card.total
      BY <1>3, <2>1, <2>5, <3>1 DEF Deliver, Answering, Total
    <3>2. CASE card.sent + 1 # card.total
      <4>1. card'.total = card.total
        BY <1>3, <2>2, <3>2 DEF Deliver, Replies
      <4> QED BY <2>1, <2>6, <3>2, <4>1 DEF Answering, Total
    <3> QED BY <3>1, <3>2
  <2>8. InOrder'
    <3>1. ASSUME NEW i \in 1 .. Len(buffer')
          PROVE  IsPiece(buffer'[i], cmd', i, Total')
      BY <2>1, <2>3, <2>7 DEF InOrder
    <3>2. ASSUME NEW i \in 1 .. Len(port')
          PROVE  IsPiece(port'[i], cmd', Len(buffer') + i, Total')
      <4>1. CASE i \in 1 .. Len(port)
        BY <2>1, <2>3, <2>4, <2>7, <4>1 DEF InOrder
      <4>2. CASE i = Len(port) + 1
        BY <1>t, <2>1, <2>3, <2>4, <2>7, <4>2 DEF IsPiece, Answering
      <4> QED BY <1>t, <2>4, <4>1, <4>2
    <3> QED BY <3>1, <3>2 DEF InOrder
  <2> QED BY <1>0, <2>1, <2>3, <2>6, <2>8 DEF LineInv, LineQuiet
<1>4. CASE PollData
  <2>1. Fits \in 1 .. Len(port) /\ cmd # None
    BY <1>4, FitsInPort DEF PollData, LineInv, Typed
  <2>2. /\ cmd' = cmd /\ wire' = wire /\ card' = card /\ readflag' = TRUE
        /\ buffer' = buffer \o SubSeq(port, 1, Fits)
        /\ port' = SubSeq(port, Fits + 1, Len(port))
    BY <1>4 DEF PollData
  <2>3. /\ Len(SubSeq(port, 1, Fits)) = Fits
        /\ \A i \in 1 .. Fits : SubSeq(port, 1, Fits)[i] = port[i]
    BY <1>t, <2>1
  <2>4. /\ Len(buffer') = Len(buffer) + Fits
        /\ \A i \in 1 .. Len(buffer) : buffer'[i] = buffer[i]
        /\ \A i \in 1 .. Fits : buffer'[Len(buffer) + i] = port[i]
    <3>1. SubSeq(port, 1, Fits) \in Seq(Piece)
      BY <1>t, <2>1
    <3> QED BY <1>t, <2>1, <2>2, <2>3, <3>1
  <2>5. /\ Len(port') = Len(port) - Fits
        /\ \A i \in 1 .. Len(port') : port'[i] = port[Fits + i]
    BY <1>t, <2>1, <2>2
  <2>6. Len(buffer') + Len(port') = Len(buffer) + Len(port) /\ buffer' # <<>> /\ Total' = Total
    <3>1. Len(buffer') + Len(port') = Len(buffer) + Len(port)
      BY <1>t, <2>1, <2>4, <2>5
    <3>2. Len(buffer') # 0
      BY <1>t, <2>1, <2>4
    <3>3. Total' = Total
      BY <2>2, <3>1 DEF Total
    <3> QED BY <3>1, <3>2, <3>3
  <2>7. ~Waiting /\ InOrder
    BY <2>1, <1>t DEF Waiting, LineInv
  <2>8. Answering' \/ Delivered'
    BY <2>1, <2>2, <2>6, <2>7 DEF LineInv, Answering, Delivered
  <2>9. InOrder'
    <3>1. ASSUME NEW i \in 1 .. Len(buffer')
          PROVE  IsPiece(buffer'[i], cmd', i, Total')
      <4>1. CASE i \in 1 .. Len(buffer)
        BY <2>2, <2>4, <2>6, <2>7, <4>1 DEF InOrder
      <4>2. CASE i \notin 1 .. Len(buffer)
        <5>1. PICK k \in 1 .. Fits : i = Len(buffer) + k
          <6>1. i - Len(buffer) \in 1 .. Fits /\ i = Len(buffer) + (i - Len(buffer))
            BY <1>t, <2>1, <2>4, <4>2
          <6> QED BY <6>1
        <5>2. k \in 1 .. Len(port)
          BY <1>t, <2>1
        <5> QED BY <2>2, <2>4, <2>6, <2>7, <5>1, <5>2 DEF InOrder
      <4> QED BY <4>1, <4>2
    <3>2. ASSUME NEW i \in 1 .. Len(port')
          PROVE  IsPiece(port'[i], cmd', Len(buffer') + i, Total')
      <4>1. Fits + i \in 1 .. Len(port) /\ Len(buffer') + i = Len(buffer) + (Fits + i)
        BY <1>t, <2>1, <2>4, <2>5
      <4> QED BY <2>2, <2>5, <2>6, <2>7, <4>1 DEF InOrder
    <3> QED BY <3>1, <3>2 DEF InOrder
  <2> QED BY <1>0, <2>1, <2>2, <2>6, <2>8, <2>9 DEF LineInv, LineQuiet
<1>5. CASE PollNothing
  <2>1. Delivered /\ port = <<>>
    BY <1>5, PortEmpty
  <2>2. cmd' = None /\ UNCHANGED <<wire, card, port>>
    BY <1>5 DEF PollNothing, line
  <2> QED BY <1>0, <2>1, <2>2 DEF LineInv, LineQuiet, Delivered
<1>6. CASE UNCHANGED vars
  BY <1>6 DEF vars, call, line, LineInv, Typed, TypeOK, CardBusy, LineQuiet, Waiting, Answering,
              Delivered, InOrder, Total
<1> QED BY <1>1, <1>2, <1>3, <1>4, <1>5, <1>6 DEF Next

LEMMA LineInvariant ==
  ASSUME Steady, MaxPieces <= Size
  PROVE  Spec => []LineInv
<1>1. LineInv /\ [Next]_vars => LineInv'
  BY LineStep
<1> QED BY LineInit, <1>1, PTL DEF Spec

\* Nothing of a reply stays behind for the next call, on a line without
\* pauses and for every number of pieces up to the size of the buffer
\* (send_lowlevel, its loop until a poll brings nothing).
THEOREM LineQuietInvariant ==
  ASSUME Steady, MaxPieces <= Size
  PROVE  Spec => []LineQuiet
<1>1. LineInv => LineQuiet
  BY DEF LineInv
<1> QED BY LineInvariant, <1>1, PTL

-----------------------------------------------------------------------------
(* The steps of the remote procedure call.                                 *)

LEMMA AnswerIsReply ==
  ASSUME LineInv, cmd # None, Delivered, port = <<>>
  PROVE  IsReply(buffer) /\ buffer[1].of = cmd /\ buffer # <<>>
<1>1. /\ buffer \in Seq(Piece) /\ Len(buffer) \in Nat \ {0} /\ Total = Len(buffer)
  BY DEF LineInv, Typed, TypeOK, Delivered, Total
<1>2. \A i \in 1 .. Len(buffer) : buffer[i].of = cmd /\ buffer[i].n = i /\ buffer[i].total = Len(buffer)
  BY <1>1 DEF LineInv, InOrder, IsPiece
<1> QED BY <1>1, <1>2 DEF IsReply

LEMMA RPCStep ==
  ASSUME Steady, MaxPieces <= Size, LineInv, [Next]_vars
  PROVE  [RPC!Next]_<<cmd, Answer>>
<1>1. ASSUME NEW c \in Commands, Send(c) PROVE RPC!Call
  BY <1>1, LinkAssumption DEF Send, Answer, RPC!Call
<1>2. CASE TakeUp
  BY <1>2 DEF TakeUp, call, Answer, IsReply
<1>3. CASE Deliver
  BY <1>3 DEF Deliver, call, Answer, IsReply
<1>4. CASE PollData
  BY <1>4 DEF PollData, Answer
<1>5. CASE PollNothing
  <2>1. cmd # None /\ IsReply(buffer) /\ buffer[1].of = cmd /\ buffer # <<>>
    BY <1>5, PortEmpty, AnswerIsReply DEF PollNothing
  <2>2. cmd' = None /\ buffer' = buffer
    BY <1>5 DEF PollNothing
  <2>3. Answer' = cmd
    BY <2>1, <2>2 DEF Answer, IsReply
  <2> QED BY <2>1, <2>2, <2>3 DEF RPC!Return, RPC!Next
<1>6. CASE UNCHANGED vars
  BY <1>6 DEF vars, call, Answer, IsReply
<1> QED BY <1>1, <1>2, <1>3, <1>4, <1>5, <1>6 DEF Next, RPC!Next

\* The safety part of ImplementsRPC, for all commands and sizes: what a call
\* of send_lowlevel returns is the complete reply to its own command.
THEOREM RefinesRPC ==
  ASSUME Steady, MaxPieces <= Size
  PROVE  Spec => RPC!Init /\ [][RPC!Next]_<<cmd, Answer>>
<1>1. Init => RPC!Init
  BY DEF Init, RPC!Init, Answer
<1>2. LineInv /\ [Next]_vars => [RPC!Next]_<<cmd, Answer>>
  BY RPCStep
<1> QED BY <1>1, <1>2, LineInvariant, PTL DEF Spec
=============================================================================
