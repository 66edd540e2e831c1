--------------------- MODULE IAPBoard_faultless_proofs ---------------------
(***************************************************************************)
(* What the board guarantees when nothing fails on the serial line, that   *)
(* is, when the card refuses only what is not legal and every reply can be *)
(* read.                                                                   *)
(***************************************************************************)
EXTENDS IAPBoard_proofs

\* Without faults the code of an exchange tells whether the command was legal.
LEMMA NoFault ==
  ASSUME Faults = {}, NEW r \in Codes, NEW legal, NEW ACTION effect,
         send_command(r, legal, effect)
  PROVE  \/ r = 0 /\ legal /\ effect
         \/ r < 0 /\ ~legal /\ UNCHANGED hw
BY DEF send_command, Codes, E_PM381_ERROR_MSG, E_SIZE_PM381_REPLY_SHORT

\* Nothing then ends the server in the middle of a request.
LEMMA NotThrown ==
  ASSUME Faults = {}
  PROVE  ~Thrown
BY DEF Thrown

LEMMA ChannelFacts == TypeOK => nc \in Int /\ \A a \in Axes : a \in Int /\ 1 <= a
BY BoardAssumption DEF TypeOK, PM381TypeOK, Channels

-----------------------------------------------------------------------------
(* Selection.                                                              *)

InMove == {"select", "go", "restore"}

\* The loops over the axes: the axis that has been selected is being set up.
Loading == {"speeds", "ll", "ul", "sp"}
Updating == Loading \cup {"config"}
Busy == Updating \cup {"id", "nc"}

\* Every axis has a channel, but for those that a raw 1NC has cut off.
Covered == pc \notin {"id", "nc"} => \A a \in Axes : a <= nc \/ a \in raw

\* chosen is what curaxis says, and the card has it selected; a move keeps it
\* in envion instead, and has selected the axis it is about to move.
SelInv ==
  /\ Covered
  /\ chosen # 0 => /\ chosen <= nc /\ curaxis = chosen
                   /\ IF pc \in InMove THEN envion = chosen ELSE chan = chosen
  /\ pc \in Loading => chan <= nc
  /\ MoveHitsAxis

\* Commands other than 1CH and 1NC leave the selection alone, and those that
\* set nothing leave raw alone.
LEMMA SelectionFrame ==
  /\ UNCHANGED hw => UNCHANGED <<chan, nc, raw>>
  /\ \A on : JogMode(on) => UNCHANGED <<chan, nc, raw>>
  /\ \A p, s : LowerLimit(p, s) => UNCHANGED <<chan, nc>> /\ raw' = s
  /\ \A p, s : UpperLimit(p, s) => UNCHANGED <<chan, nc>> /\ raw' = s
  /\ \A p, s : SetPosition(p, s) => UNCHANGED <<chan, nc>> /\ raw' = s
  /\ \A p : Move(p) => UNCHANGED <<chan, nc, raw>>
  /\ Motion => UNCHANGED <<chan, nc, raw>>
<1>1. UNCHANGED hw => UNCHANGED <<chan, nc, raw>>
  BY DEF hw
<1>2. /\ \A on : JogMode(on) => UNCHANGED <<chan, nc, raw>>
      /\ \A p, s : LowerLimit(p, s) => UNCHANGED <<chan, nc>> /\ raw' = s
      /\ \A p, s : UpperLimit(p, s) => UNCHANGED <<chan, nc>> /\ raw' = s
  BY DEF JogMode, LowerLimit, UpperLimit
<1>3. /\ \A p, s : SetPosition(p, s) => UNCHANGED <<chan, nc>> /\ raw' = s
      /\ \A p : Move(p) => UNCHANGED <<chan, nc, raw>>
  BY DEF SetPosition, Move
<1>4. Motion => UNCHANGED <<chan, nc, raw>>
  <2>1. \A c : Step(c) => UNCHANGED <<chan, nc, raw>>
    BY DEF Step
  <2>2. \A d : Jog(d) => UNCHANGED <<chan, nc, raw>>
    BY DEF Jog
  <2> QED BY <2>1, <2>2 DEF Motion
<1> QED BY <1>1, <1>2, <1>3, <1>4

\* A step that leaves the selection alone, outside of moves.
LEMMA SelFrame ==
  ASSUME SelInv, chan' = chan, nc' = nc, raw \subseteq raw', curaxis' = curaxis,
         chosen' \in {0, chosen}, pc \notin InMove, pc' \notin InMove,
         pc \in {"id", "nc"} => pc' \in {"id", "nc"}, pc' \in Loading => pc \in Loading
  PROVE  SelInv'
<1>1. pc' # "go"
  BY DEF InMove
<1>2. chosen' # 0 => chosen' <= nc' /\ curaxis' = chosen' /\ chan' = chosen'
  <2>1. chosen # 0 => chosen <= nc /\ curaxis = chosen /\ chan = chosen
    BY Zenon DEF SelInv
  <2> QED BY <2>1, Zenon
<1>3. Covered'
  BY DEF SelInv, Covered
<1>4. pc' \in Loading => chan' <= nc'
  BY DEF SelInv
<1> QED BY <1>1, <1>2, <1>3, <1>4 DEF SelInv, MoveHitsAxis

LEMMA SelInit == Init => SelInv
BY DEF Init, SelInv, Covered, InMove, Loading, MoveHitsAxis

LEMMA SelConnect ==
  ASSUME Faults = {}, Inv, SelInv, Connect
  PROVE  SelInv'
<1>1. CASE FirmwareID
  <2>1. PICK r \in Codes : send_command(r, TRUE, UNCHANGED hw)
    BY <1>1 DEF FirmwareID, Ignored
  <2>2. UNCHANGED <<chan, nc, raw>>
    BY <2>1, NoFault, SelectionFrame
  <2> QED BY <1>1, <2>2, SelFrame DEF FirmwareID, Ignored, board, InMove, Loading
<1>2. CASE SetNC
  <2>1. PICK r \in Codes : send_command(r, TRUE, NumberOfChannels(MaxId, raw))
    BY <1>2 DEF SetNC, Ignored
  <2>2. NumberOfChannels(MaxId, raw)
    BY <2>1, NoFault
  <2>3. nc' = MaxId /\ chan' = chan
    BY <2>2 DEF NumberOfChannels
  <2>4. pc = "nc" /\ pc' = "config" /\ UNCHANGED <<curaxis, chosen>>
    BY <1>2 DEF SetNC, Ignored, board
  <2>5. \A a \in Axes : a <= nc'
    BY <2>3, MaxIdIsAxis
  <2>6. chosen' # 0 => chosen' <= nc' /\ curaxis' = chosen' /\ chan' = chosen'
    <3>1. chosen \in Axes \cup {0}
      BY DEF Inv, TypeOK
    <3>2. chosen # 0 => curaxis = chosen /\ chan = chosen
      BY <2>4 DEF SelInv, InMove
    <3> QED BY <2>3, <2>4, <2>5, <3>1, <3>2
  <2> QED BY <2>4, <2>5, <2>6 DEF InMove, Loading, SelInv, Covered, MoveHitsAxis
<1>3. CASE SelectFirst
  <2>1. PICK r \in Codes : send_command(r, ChannelLegal(1), Channel(1))
    BY <1>3 DEF SelectFirst
  <2>2. nc' = nc /\ raw' = raw
    BY <2>1, NoFault DEF Channel, hw
  <2>3. pc = "ch1" /\ pc' = "ir" /\ chosen' = 0
    BY <1>3 DEF SelectFirst
  <2> QED BY <2>2, <2>3 DEF InMove, Loading, SelInv, Covered, MoveHitsAxis
<1>4. CASE JogOffConnected
  <2>1. PICK r \in Codes : send_command(r, TRUE, JogMode(FALSE))
    BY <1>4 DEF JogOffConnected
  <2>2. UNCHANGED <<chan, nc, raw>>
    BY <2>1, NoFault, SelectionFrame
  <2> QED BY <1>4, <2>2, SelFrame DEF JogOffConnected, InMove, Loading
<1> QED BY <1>1, <1>2, <1>3, <1>4 DEF Connect

\* setaxisnum without faults.
LEMMA SetAxisNum ==
  ASSUME Faults = {}, NEW r \in Codes, NEW n, setaxisnum(r, n)
  PROVE  \/ /\ r = 0 /\ ChannelLegal(n) /\ Channel(n)
            /\ curaxis' = (IF n \in Axes THEN n ELSE 0) /\ chosen' = curaxis'
         \/ r < 0 /\ ~ChannelLegal(n) /\ UNCHANGED <<hw, curaxis, chosen>>
<1>1. send_command(r, ChannelLegal(n), Channel(n))
  BY DEF setaxisnum
<1>2. \/ r = 0 /\ ChannelLegal(n) /\ Channel(n)
      \/ r < 0 /\ ~ChannelLegal(n) /\ UNCHANGED hw
  BY <1>1, NoFault
<1>3. CASE r = 0 /\ ChannelLegal(n) /\ Channel(n)
  BY <1>3 DEF setaxisnum
<1>4. CASE r < 0 /\ ~ChannelLegal(n) /\ UNCHANGED hw
  <2>1. ~(r >= 0)
    BY <1>4 DEF Codes, E_PM381_ERROR_MSG, E_SIZE_PM381_REPLY_SHORT
  <2> QED BY <1>4, <2>1 DEF setaxisnum
<1> QED BY <1>2, <1>3, <1>4

LEMMA SelUpdateConfiguration ==
  ASSUME Faults = {}, Inv, SelInv, UpdateConfiguration
  PROVE  SelInv'
<1>1. AfterAxes \notin InMove \cup Busy
  BY DEF AfterAxes, InMove, Busy, Updating, Loading
<1>2. CASE SelectForUpdate
  <2>1. PICK a \in Axes, r \in Codes :
          /\ setaxisnum(r, a)
          /\ r < 0 => NextAxis(a)
          /\ ~(r < 0) => pc' = "speeds"
    BY <1>2 DEF SelectForUpdate
  <2>2. pc = "config"
    BY <1>2 DEF SelectForUpdate
  <2>3. CASE r = 0 /\ ChannelLegal(a) /\ Channel(a) /\ curaxis' = a /\ chosen' = a
    <3>1. chan' = a /\ nc' = nc /\ raw' = raw /\ pc' = "speeds" /\ a <= nc
      BY <2>1, <2>3 DEF Channel, ChannelLegal
    <3> QED BY <2>2, <2>3, <3>1 DEF SelInv, Covered, InMove, Loading, MoveHitsAxis
  <2>4. CASE r < 0 /\ UNCHANGED <<hw, curaxis, chosen>>
    <3>1. pc' \notin InMove \cup Loading \cup {"id", "nc"}
      BY <1>1, <2>1, <2>4 DEF NextAxis, InMove, Loading, Busy, Updating
    <3>2. UNCHANGED <<chan, nc, raw>>
      BY <2>4 DEF hw
    <3> QED BY <2>2, <2>4, <3>1, <3>2, SelFrame DEF InMove
  <2> QED BY <2>1, <2>3, <2>4, SetAxisNum
<1>3. CASE SendSpeeds
  <2>1. PICK r \in Codes : send_command(r, TRUE, UNCHANGED hw)
    BY <1>3 DEF SendSpeeds, Ignored
  <2>2. UNCHANGED <<chan, nc, raw>>
    BY <2>1, NoFault, SelectionFrame
  <2> QED BY <1>3, <2>2, SelFrame DEF SendSpeeds, Ignored, board, InMove, Loading
<1>4. CASE SendLowerLimit
  <2>1. PICK a \in Axes, r \in Codes :
          send_command(r, TRUE, LowerLimit(config_[a].LowerLimit, raw))
    BY <1>4 DEF SendLowerLimit, Ignored
  <2>2. UNCHANGED <<chan, nc, raw>>
    BY <2>1, NoFault, SelectionFrame
  <2> QED BY <1>4, <2>2, SelFrame DEF SendLowerLimit, Ignored, board, InMove, Loading
<1>5. CASE SendUpperLimit
  <2>1. PICK a \in Axes, r \in Codes :
          send_command(r, TRUE, UpperLimit(config_[a].UpperLimit, raw))
    BY <1>5 DEF SendUpperLimit, Ignored
  <2>2. UNCHANGED <<chan, nc, raw>>
    BY <2>1, NoFault, SelectionFrame
  <2> QED BY <1>5, <2>2, SelFrame DEF SendUpperLimit, Ignored, board, InMove, Loading
\* The axis that raw may lose is one that the card has a channel for.
<1>6. CASE SendPosition
  <2>1. PICK a \in Axes, r \in Codes :
          send_command(r, TRUE, SetPosition(config_[a].Position, raw \ {chan})) /\ NextAxis(a)
    BY <1>6 DEF SendPosition
  <2>2. UNCHANGED <<chan, nc>> /\ raw' = raw \ {chan}
    BY <2>1, NoFault, SelectionFrame
  <2>3. pc = "sp" /\ UNCHANGED <<curaxis, envion, chosen>>
    BY <1>6 DEF SendPosition, board
  <2>4. pc' \notin InMove \cup Loading \cup {"id", "nc"}
    BY <1>1, <2>1 DEF NextAxis, InMove, Loading, Busy, Updating
  <2>5. Covered'
    <3>1. chan <= nc
      BY <2>3 DEF SelInv, Loading
    <3> QED BY <2>2, <2>3, <3>1 DEF SelInv, Covered
  <2>6. chosen' # 0 => chosen' <= nc' /\ curaxis' = chosen' /\ chan' = chosen'
    BY <2>2, <2>3 DEF SelInv, InMove
  <2>7. pc' # "go"
    BY <2>4 DEF InMove
  <2> QED BY <2>4, <2>5, <2>6, <2>7 DEF SelInv, MoveHitsAxis
<1> QED BY <1>2, <1>3, <1>4, <1>5, <1>6 DEF UpdateConfiguration

LEMMA SelCommands ==
  ASSUME Faults = {}, Inv, SelInv, Commands
  PROVE  SelInv'
<1>1. pc \in {"command", "qp", "zeroed"} /\ pc' \in {"idle", "config"}
  BY DEF Commands, SetAxis, SetJog, UnsetJog, RawCommand, RawSelect, RawMove, RawMoveTo,
         RawLower, RawUpper, RawPosition, RawChannels, OneExchange, PrintPosition,
         SetZero, SaveXml, QueryAndDrop, LeaveInitMode, Ignored
<1>2. /\ pc \notin InMove /\ pc' \notin InMove /\ pc' \notin {"id", "nc"}
      /\ pc' # "go" /\ pc \notin {"id", "nc"} /\ pc' \notin Loading
  BY <1>1 DEF InMove, Loading
\* A command that leaves the selection alone.
<1>3. ASSUME chan' = chan, nc' = nc, raw \subseteq raw', curaxis' = curaxis,
             chosen' \in {0, chosen}
      PROVE  SelInv'
  BY <1>2, <1>3, SelFrame
<1>4. ASSUME NEW o, NEW legal, NEW ACTION effect, OneExchange(o, legal, effect), UNCHANGED chosen,
             effect => UNCHANGED <<chan, nc>> /\ raw \subseteq raw'
      PROVE  SelInv'
  <2>1. PICK r \in Codes : send_command(r, legal, effect)
    BY <1>4 DEF OneExchange
  <2>2. UNCHANGED <<chan, nc>> /\ raw \subseteq raw'
    BY <1>4, <2>1, NoFault, SelectionFrame
  <2> QED BY <1>3, <1>4, <2>2 DEF OneExchange, board
<1>5. CASE SetAxis
  <2>1. PICK r \in Codes : setaxisnum(r, arg)
    BY <1>5 DEF SetAxis
  <2>2. CASE /\ r = 0 /\ ChannelLegal(arg) /\ Channel(arg)
             /\ curaxis' = (IF arg \in Axes THEN arg ELSE 0) /\ chosen' = curaxis'
    <3>1. chan' = arg /\ nc' = nc /\ raw' = raw /\ arg <= nc
      BY <2>2 DEF Channel, ChannelLegal
    <3>2. chosen' # 0 => chosen' <= nc' /\ curaxis' = chosen' /\ chan' = chosen'
      BY <2>2, <3>1
    <3>3. Covered'
      BY <1>2, <3>1 DEF SelInv, Covered
    <3> QED BY <1>2, <3>2, <3>3 DEF SelInv, MoveHitsAxis
  <2>3. CASE r < 0 /\ ~ChannelLegal(arg) /\ UNCHANGED <<hw, curaxis, chosen>>
    BY <1>3, <2>3 DEF hw
  <2> QED BY <2>1, <2>2, <2>3, SetAxisNum
<1>6. CASE SetJog
  BY <1>4, <1>6, SelectionFrame DEF SetJog
<1>7. CASE UnsetJog
  BY <1>4, <1>7, SelectionFrame DEF UnsetJog
<1>8. CASE RawSelect
  <2>1. PICK r \in Codes : send_command(r, ChannelLegal(arg), Channel(arg))
    BY <1>8 DEF RawSelect, OneExchange
  <2>2. nc' = nc /\ raw' = raw
    BY <2>1, NoFault DEF Channel, hw
  <2>3. Covered' /\ chosen' = 0
    BY <1>2, <1>8, <2>2 DEF SelInv, Covered, RawSelect
  <2> QED BY <1>2, <2>3 DEF SelInv, MoveHitsAxis
<1>9. CASE RawMove \/ RawMoveTo
  BY <1>4, <1>9, SelectionFrame DEF RawMove, RawMoveTo
<1>16. CASE RawLower \/ RawUpper \/ RawPosition
  <2>1. PICK r \in Codes : \/ send_command(r, TRUE, LowerLimit(arg, raw \cup {chan}))
                          \/ send_command(r, TRUE, UpperLimit(arg, raw \cup {chan}))
                          \/ send_command(r, TRUE, SetPosition(arg, raw \cup {chan}))
    BY <1>16 DEF RawLower, RawUpper, RawPosition, OneExchange
  <2>2. UNCHANGED <<chan, nc>> /\ raw \subseteq raw'
    <3> DEFINE s == raw \cup {chan}
    <3>1. raw \subseteq s
      OBVIOUS
    <3> HIDE DEF s
    <3>2. LowerLimit(arg, s) \/ UpperLimit(arg, s) \/ SetPosition(arg, s)
      BY <2>1, NoFault DEF s
    <3>3. UNCHANGED <<chan, nc>> /\ raw' = s
      BY <3>2, SelectionFrame
    <3> QED BY <3>1, <3>3
  <2>3. UNCHANGED <<curaxis, chosen>>
    BY <1>16 DEF RawLower, RawUpper, RawPosition, OneExchange, board
  <2> QED BY <1>3, <2>2, <2>3
<1>17. CASE RawChannels
  <2>1. PICK r \in Codes : send_command(r, arg \in Channels,
                                        NumberOfChannels(arg, raw \cup CutOff(arg)))
    BY <1>17 DEF RawChannels, OneExchange
  <2>2. chosen' = 0
    BY <1>17 DEF RawChannels
  <2>3. Covered'
    <3>1. CASE UNCHANGED hw
      BY <1>2, <3>1 DEF SelInv, Covered, hw
    <3>2. CASE arg \in Channels /\ NumberOfChannels(arg, raw \cup CutOff(arg))
      <4>1. nc' = arg /\ raw' = raw \cup CutOff(arg)
        BY <3>2 DEF NumberOfChannels
      <4>2. \A a \in Axes : a \in Channels /\ a \in Int /\ arg \in Int
        BY <3>2, BoardAssumption DEF Channels
      <4>3. \A a \in Axes : a <= arg \/ a \in CutOff(arg)
        BY <4>2 DEF CutOff
      <4> QED BY <4>1, <4>3 DEF Covered
    <3> QED BY <2>1, <3>1, <3>2, NoFault
  <2> QED BY <1>2, <2>2, <2>3 DEF SelInv, MoveHitsAxis
<1>10. ASSUME NEW from, NEW to, Ignored(from, to, TRUE, UNCHANGED hw)
       PROVE  SelInv'
  <2>1. PICK r \in Codes : send_command(r, TRUE, UNCHANGED hw)
    BY <1>10 DEF Ignored
  <2>2. UNCHANGED <<chan, nc, raw>>
    BY <2>1, NoFault, SelectionFrame
  <2> QED BY <1>3, <1>10, <2>2 DEF Ignored, board
<1>11. CASE PrintPosition
  BY <1>10, <1>11 DEF PrintPosition
<1>12. CASE SetZero
  <2>1. PICK r \in Codes : send_command(r, TRUE, UNCHANGED hw)
    BY <1>12 DEF SetZero, PlainCommand
  <2>2. UNCHANGED <<chan, nc, raw>>
    BY <2>1, NoFault, SelectionFrame
  <2> QED BY <1>3, <1>12, <2>2 DEF SetZero
<1>13. CASE SaveXml
  <2>1. PICK r \in Codes : send_command(r, TRUE, UNCHANGED hw)
    BY <1>13 DEF SaveXml, PlainCommand
  <2>2. UNCHANGED <<chan, nc, raw>>
    BY <2>1, NoFault, SelectionFrame
  <2> QED BY <1>3, <1>13, <2>2 DEF SaveXml
<1>14. CASE QueryAndDrop
  BY <1>10, <1>14 DEF QueryAndDrop
<1>15. CASE LeaveInitMode
  BY <1>3, <1>15 DEF LeaveInitMode, hw
<1> QED BY <1>5, <1>6, <1>7, <1>8, <1>9, <1>11, <1>12, <1>13, <1>14, <1>15, <1>16, <1>17
        DEF Commands, RawCommand

\* A request keeps the selection; a move also saves it.
LEMMA SelRequests ==
  ASSUME Inv, SelInv, Requests
  PROVE  SelInv'
<1>1. ASSUME NEW o, NEW n, NEW u, NEW next \in {"command", "qp", "select"},
             Receive(o, n, u, next), next = "select" /\ curaxis # 0 => envion' = curaxis
      PROVE  SelInv'
  <2>1. /\ chan' = chan /\ nc' = nc /\ raw' = raw /\ curaxis' = curaxis /\ chosen' = chosen
        /\ pc = "idle" /\ pc' = next
    BY <1>1 DEF Receive, hw
  <2>2. Covered' /\ pc' # "go" /\ pc' \notin Loading
    BY <2>1 DEF SelInv, Covered, Loading
  <2>3. chosen # 0 => chosen <= nc /\ curaxis = chosen /\ chan = chosen
    BY <2>1 DEF SelInv, InMove
  <2>4. chosen' # 0 => /\ chosen' <= nc' /\ curaxis' = chosen'
                       /\ pc' = "select" => envion' = chosen'
                       /\ chan' = chosen'
    BY <1>1, <2>1, <2>3
  <2>5. pc' \in InMove => pc' = "select"
    BY <2>1 DEF InMove
  <2> QED BY <2>2, <2>4, <2>5 DEF SelInv, MoveHitsAxis
<1>2. CASE ReceiveNumber
  BY <1>1, <1>2 DEF ReceiveNumber
<1>3. CASE ReceiveRaw
  BY <1>1, <1>3 DEF ReceiveRaw
<1>4. CASE ReceivePlain
  BY <1>1, <1>4 DEF ReceivePlain
<1>5. CASE ReceiveMove
  <2>1. PICK o \in MoveOps, u \in Targets :
          Receive(o, 0, u, "select") /\ envion' = (IF curaxis = 0 THEN envion ELSE curaxis)
    BY <1>5 DEF ReceiveMove
  <2> QED BY <1>1, <2>1
<1>6. CASE ReceiveInitialZero
  BY <1>1, <1>6 DEF ReceiveInitialZero
<1> QED BY <1>2, <1>3, <1>4, <1>5, <1>6 DEF Requests

LEMMA SelMoves ==
  ASSUME Faults = {}, Inv, SelInv, Moves
  PROVE  SelInv'
<1> nc \in Int /\ \A a \in Axes : a \in Int /\ 1 <= a
  BY ChannelFacts DEF Inv
<1>1. CASE SelectForMove
  <2>1. PICK a \in Axes, r \in Codes : NextInMap(a) /\ save_setaxisnum(r, a)
    BY <1>1 DEF SelectForMove
  <2>2. /\ pc = "select" /\ pc' = "go"
        /\ UNCHANGED <<curaxis, envion, chosen, todo>>
    BY <1>1 DEF SelectForMove, board
  <2>3. nc' = nc /\ raw' = raw /\ (a <= nc => chan' = a)
    <3>1. a <= nc => ChannelLegal(a)
      BY DEF ChannelLegal
    <3>2. Channel(a) \/ (~ChannelLegal(a) /\ UNCHANGED hw)
      BY <2>1, NoFault DEF save_setaxisnum
    <3> QED BY <3>1, <3>2 DEF Channel, hw
  <2>5. Covered'
    BY <2>2, <2>3 DEF SelInv, Covered
  <2>6. chosen' # 0 => chosen' <= nc' /\ curaxis' = chosen' /\ envion' = chosen'
    BY <2>2, <2>3 DEF SelInv, InMove
  <2>7. MoveHitsAxis'
    <3>1. ASSUME NEW b \in Axes, NextInMap(b)' PROVE b = a
      BY <2>1, <2>2, <3>1 DEF NextInMap
    <3> QED BY <2>3, <3>1 DEF MoveHitsAxis
  <2> QED BY <2>2, <2>5, <2>6, <2>7 DEF SelInv, InMove, Loading
<1>2. CASE MoveAxis
  <2>1. PICK a \in Axes, r \in Codes :
          /\ send_command(r, MoveLegal(Destination(a)), Move(Destination(a)))
          /\ pc' = IF todo' = {} THEN "restore" ELSE "select"
    BY <1>2 DEF MoveAxis
  <2>2. pc = "go" /\ UNCHANGED <<curaxis, envion, chosen>>
    BY <1>2 DEF MoveAxis, board
  <2>3. UNCHANGED <<chan, nc, raw>>
    BY <2>1, NoFault, SelectionFrame
  <2>4. pc' \in {"restore", "select"}
    BY <2>1
  <2>5. Covered'
    BY <2>2, <2>3 DEF SelInv, Covered
  <2>6. chosen' # 0 => chosen' <= nc' /\ curaxis' = chosen' /\ envion' = chosen'
    BY <2>2, <2>3 DEF SelInv, InMove
  <2> QED BY <2>4, <2>5, <2>6 DEF SelInv, InMove, Loading, MoveHitsAxis
<1>3. CASE RestoreEnvironment
  <2>1. PICK r \in Codes : send_command(r, ChannelLegal(envion), Channel(envion))
    BY <1>3 DEF RestoreEnvironment, Ignored
  <2>2. /\ pc = "restore" /\ pc' = "idle"
        /\ UNCHANGED <<curaxis, envion, chosen>>
    BY <1>3 DEF RestoreEnvironment, Ignored, board
  <2>3. nc' = nc /\ raw' = raw
    BY <2>1, NoFault DEF Channel, hw
  <2>4. chosen # 0 => chosen <= nc /\ curaxis = chosen /\ envion = chosen
    BY <2>2 DEF SelInv, InMove
  <2>5. chosen \in Axes \cup {0}
    BY DEF Inv, TypeOK
  <2>6. chosen # 0 => chan' = chosen
    <3>1. chosen # 0 => ChannelLegal(envion)
      BY <2>4, <2>5 DEF ChannelLegal
    <3>2. Channel(envion) \/ ~ChannelLegal(envion)
      BY <2>1, NoFault
    <3> QED BY <2>4, <3>1, <3>2 DEF Channel
  <2>7. Covered'
    BY <2>2, <2>3 DEF SelInv, Covered
  <2> QED BY <2>2, <2>3, <2>4, <2>6, <2>7 DEF SelInv, InMove, Loading, MoveHitsAxis
<1> QED BY <1>1, <1>2, <1>3 DEF Moves

LEMMA SelCard ==
  ASSUME SelInv, Card \/ UNCHANGED vars
  PROVE  SelInv'
<1>1. UNCHANGED <<chan, nc, raw>>
  BY SelectionFrame DEF Card, vars, hw
<1>2. UNCHANGED <<curaxis, envion, chosen, pc, todo>>
  BY DEF Card, vars, board, handler
<1> QED BY <1>1, <1>2 DEF SelInv, Covered, MoveHitsAxis, NextInMap

LEMMA SelNext ==
  ASSUME Faults = {}
  PROVE  Inv /\ SelInv /\ [Next]_vars => SelInv'
BY SelConnect, SelUpdateConfiguration, SelCommands, SelRequests, SelMoves, SelCard, NotThrown
   DEF Next, Handler

LEMMA Selection ==
  ASSUME Faults = {}
  PROVE  Spec => [](Inv /\ SelInv)
BY InitInv, SelInit, InvNext, SelNext, PTL DEF Spec

\* Without faults a move command always reaches the axis it is meant for
\* (save_setaxisnum before move), for any axes, requests, raw commands and
\* card motion, as long as the card has a channel for the axis.
THEOREM MoveHitsAxisInvariant ==
  ASSUME Faults = {}
  PROVE  Spec => []MoveHitsAxis
<1>1. SelInv => MoveHitsAxis
  BY DEF SelInv
<1> QED BY <1>1, Selection, PTL

\* Without faults the axis a client selected stays selected, and the server
\* and the card agree on it, through any requests but a new selection.
THEOREM SelectionKeptInvariant ==
  ASSUME Faults = {}
  PROVE  Spec => []SelectionKept
<1>1. SelInv => SelectionKept
  BY DEF SelInv, SelectionKept, InMove
<1> QED BY <1>1, Selection, PTL

-----------------------------------------------------------------------------
(* The loops over the axes.                                                *)

\* A loop starts with all axes, and has the axis selected that it is at.
LoopInv ==
  /\ pc \in {"id", "nc", "qp"} => todo = Axes
  /\ pc \in Loading => chan \in Axes /\ NextInVector(chan)

\* The loop of the configuration has still to come to axis a, or is at it.
Pending(a) == pc \in {"id", "nc"} \/ (pc \in Updating /\ a \in todo)

LEMMA TheAxis ==
  ASSUME LoopInv, pc \in Loading, NEW a \in Axes, NextInVector(a)
  PROVE  chan = a
<1>1. chan \in Axes /\ NextInVector(chan)
  BY DEF LoopInv
<1>2. Slot[chan] <= Slot[a] /\ Slot[a] <= Slot[chan] /\ Slot[a] \in Nat /\ Slot[chan] \in Nat
  BY <1>1, BoardAssumption DEF NextInVector
<1> QED BY <1>1, <1>2, BoardAssumption

LEMMA LoopNext ==
  ASSUME Faults = {}, Inv, SelInv, LoopInv, [Next]_vars
  PROVE  LoopInv'
<1>1. CASE FirmwareID
  BY <1>1 DEF FirmwareID, Ignored, LoopInv, Loading
<1>2. CASE SelectForUpdate
  <2>1. PICK a \in Axes, r \in Codes :
          /\ NextInVector(a) /\ setaxisnum(r, a)
          /\ IF r < 0 THEN NextAxis(a) ELSE pc' = "speeds" /\ UNCHANGED todo
    BY <1>2 DEF SelectForUpdate
  <2>2. CASE r = 0 /\ Channel(a)
    <3>1. chan' = a /\ todo' = todo /\ pc' = "speeds"
      BY <2>1, <2>2 DEF Channel
    <3> QED BY <2>1, <3>1 DEF LoopInv, NextInVector
  <2>3. CASE r < 0
    <3>1. pc' \in {"config", "ch1", "zeroed"}
      BY <2>1, <2>3 DEF NextAxis, AfterAxes
    <3> QED BY <3>1 DEF LoopInv, Loading
  <2> QED BY <2>1, <2>2, <2>3, SetAxisNum
<1>3. CASE SendSpeeds \/ SendLowerLimit \/ SendUpperLimit
  <2>1. pc \in Loading /\ pc' \in Loading /\ UNCHANGED todo
    BY <1>3 DEF SendSpeeds, SendLowerLimit, SendUpperLimit, Ignored, Loading
  <2>2. chan' = chan
    BY <1>3, NoFault, SelectionFrame DEF SendSpeeds, SendLowerLimit, SendUpperLimit, Ignored
  <2> QED BY <2>1, <2>2 DEF LoopInv, NextInVector, Loading
<1>4. CASE ReceiveInitialZero
  BY <1>4 DEF ReceiveInitialZero, Receive, LoopInv, Loading
<1>5. CASE Card \/ UNCHANGED vars
  <2>1. UNCHANGED <<chan, pc, todo>>
    BY <1>5, SelectionFrame DEF Card, vars, handler, hw
  <2> QED BY <2>1 DEF LoopInv, NextInVector
<1>6. CASE SetNC \/ SendPosition \/ QueryAndDrop
  <2>1. pc' \in {"config", "ch1", "zeroed"}
    BY <1>6 DEF SetNC, SendPosition, QueryAndDrop, Ignored, NextAxis, AfterAxes
  <2> QED BY <2>1 DEF LoopInv, Loading
<1>7. CASE SelectFirst \/ JogOffConnected \/ (Commands /\ ~QueryAndDrop) \/ Moves
           \/ (Requests /\ ~ReceiveInitialZero)
  <2>1. pc' \notin Busy \cup {"qp"}
    BY <1>7 DEF Busy, Updating, Loading, SelectFirst, JogOffConnected, Commands, SetAxis, SetJog,
       UnsetJog, RawCommand, RawSelect, RawMove, RawMoveTo, RawLower, RawUpper, RawPosition,
       RawChannels, OneExchange, PrintPosition, SetZero, SaveXml,
       LeaveInitMode, Moves, SelectForMove, MoveAxis, RestoreEnvironment, Ignored,
       Requests, ReceiveNumber, ReceiveRaw, ReceivePlain, ReceiveMove, Receive
  <2> QED BY <2>1 DEF LoopInv, Busy, Updating
<1> QED BY <1>1, <1>2, <1>3, <1>4, <1>5, <1>6, <1>7, NotThrown
        DEF Next, Handler, Connect, UpdateConfiguration

LEMMA Loops ==
  ASSUME Faults = {}
  PROVE  Spec => [](Inv /\ SelInv /\ LoopInv)
<1>1. Init => LoopInv
  BY DEF Init, LoopInv, Loading
<1>2. Inv /\ SelInv /\ LoopInv /\ [Next]_vars => LoopInv'
  BY LoopNext
<1> QED BY <1>1, <1>2, Selection, PTL DEF Spec

-----------------------------------------------------------------------------
(* Offsets.                                                                *)

\* Every axis converts with the offset of the property tree, at all times,
\* unless a raw command is in the way that has not been made up for.
Loaded(a) == pc \in Loading /\ a = chan
OffInv == \A a \in Axes : a \notin raw \/ Loaded(a) => Offset[a] = config_[a].offset

LEMMA OffNext ==
  ASSUME Faults = {}, Inv, SelInv, LoopInv, OffInv, [Next]_vars
  PROVE  OffInv'
<1> Offset \in [Axes -> Int] /\ config_ \in [Axes -> ConfigRecord]
  BY DEF Inv, TypeOK
\* Steps that change neither offset.
<1>1. ASSUME UNCHANGED <<Offset, config_>>, raw \subseteq raw', pc' \notin Loading
      PROVE  OffInv'
  BY <1>1 DEF OffInv, Loaded
<1>2. CASE SelectForUpdate
  <2>1. PICK a \in Axes, r \in Codes :
          /\ config_' = IF init_ THEN ResetConfig(a, op = "initialzero") ELSE config_
          /\ setaxisnum(r, a)
          /\ IF r < 0 THEN NextAxis(a) /\ UNCHANGED Offset
             ELSE Offset' = [Offset EXCEPT ![a] = config_'[a].offset]
    BY <1>2 DEF SelectForUpdate
  <2>2. pc = "config"
    BY <1>2 DEF SelectForUpdate
  <2>3. \A b \in Axes \ {a} : config_'[b] = config_[b]
    BY <2>1 DEF ResetConfig
  <2>4. CASE r = 0 /\ Channel(a)
    <3>1. chan' = a /\ raw' = raw /\ Offset' = [Offset EXCEPT ![a] = config_'[a].offset]
      BY <2>1, <2>4 DEF Channel
    <3> QED BY <2>3, <3>1 DEF OffInv, Loaded
  <2>5. CASE r < 0 /\ ~ChannelLegal(a) /\ UNCHANGED hw
    <3>1. a \in raw
      <4>1. ~(a <= nc)
        BY <2>5, ChannelFacts DEF ChannelLegal, Inv
      <4> QED BY <2>2, <4>1 DEF SelInv, Covered
    <3>2. raw' = raw /\ UNCHANGED Offset /\ pc' \notin Loading
      BY <2>1, <2>5 DEF hw, NextAxis, AfterAxes, Loading
    <3> QED BY <2>3, <3>1, <3>2 DEF OffInv, Loaded
  <2> QED BY <2>1, <2>4, <2>5, SetAxisNum
<1>3. CASE SetZero
  <2>1. PICK r \in Codes :
          \E bp \in get_cur_position(r, ZeroPosition) : Offset' = bp /\ config_' = WithOffset(bp)
    BY <1>3 DEF SetZero
  <2>2. PICK bp : Offset' = bp /\ config_' = WithOffset(bp)
    BY <2>1
  <2> QED BY <2>2 DEF OffInv, WithOffset, ConfigRecord
<1>4. CASE SaveXml
  <2>1. PICK bp : config_' = WithPosition(bp) /\ Offset' = Offset /\ pc' = "idle"
    BY <1>4 DEF SaveXml
  <2>2. raw' = raw
    BY <1>4, NoFault, SelectionFrame DEF SaveXml, PlainCommand
  <2>3. \A a \in Axes : config_'[a].offset = config_[a].offset
    BY <2>1 DEF WithPosition, ConfigRecord
  <2> QED BY <2>1, <2>2, <2>3 DEF OffInv, Loaded, Loading
<1>5. CASE FirmwareID \/ PrintPosition \/ QueryAndDrop
  <2>1. PICK r \in Codes : send_command(r, TRUE, UNCHANGED hw)
    BY <1>5 DEF FirmwareID, PrintPosition, QueryAndDrop, Ignored
  <2>2. raw' = raw
    BY <2>1, NoFault, SelectionFrame
  <2>3. UNCHANGED <<Offset, config_>> /\ pc' \notin Loading
    BY <1>5 DEF FirmwareID, PrintPosition, QueryAndDrop, Ignored, board, Loading
  <2> QED BY <1>1, <2>2, <2>3
<1>6. CASE SetNC
  <2>1. PICK r \in Codes : send_command(r, TRUE, NumberOfChannels(MaxId, raw))
    BY <1>6 DEF SetNC, Ignored
  <2>2. raw' = raw
    BY <2>1, NoFault DEF NumberOfChannels, hw
  <2> QED BY <1>1, <1>6, <2>2 DEF SetNC, Ignored, board, Loading
<1>7. CASE SelectFirst \/ JogOffConnected
  <2>1. raw' = raw
    BY <1>7, NoFault DEF SelectFirst, JogOffConnected, Channel, JogMode, hw
  <2> QED BY <1>1, <1>7, <2>1 DEF SelectFirst, JogOffConnected, board, Loading
<1>8. CASE SendSpeeds \/ SendLowerLimit \/ SendUpperLimit
  <2>1. UNCHANGED <<chan, raw>>
    BY <1>8, NoFault, SelectionFrame DEF SendSpeeds, SendLowerLimit, SendUpperLimit, Ignored
  <2>2. pc \in Loading /\ UNCHANGED <<Offset, config_>>
    BY <1>8 DEF SendSpeeds, SendLowerLimit, SendUpperLimit, Ignored, board, Loading
  <2> QED BY <2>1, <2>2 DEF OffInv, Loaded
<1>9. CASE SendPosition
  <2>1. PICK a \in Axes, r \in Codes :
          send_command(r, TRUE, SetPosition(config_[a].Position, raw \ {chan})) /\ NextAxis(a)
    BY <1>9 DEF SendPosition
  <2>2. UNCHANGED chan /\ raw' = raw \ {chan}
    BY <2>1, NoFault, SelectionFrame
  <2>3. pc \in Loading /\ pc' \notin Loading /\ UNCHANGED <<Offset, config_>>
    BY <1>9, <2>1 DEF SendPosition, NextAxis, AfterAxes, board, Loading
  <2> QED BY <2>2, <2>3 DEF OffInv, Loaded
<1>10. CASE SetAxis
  <2>1. PICK r \in Codes : setaxisnum(r, arg)
    BY <1>10 DEF SetAxis
  <2>2. raw' = raw
    BY <2>1, SetAxisNum DEF Channel, hw
  <2> QED BY <1>1, <1>10, <2>2 DEF SetAxis, Loading
<1>11. CASE SetJog \/ UnsetJog \/ RawCommand
  <2>1. raw \subseteq raw'
    <3>1. CASE SetJog \/ UnsetJog \/ RawSelect \/ RawMove \/ RawMoveTo
      BY <3>1, NoFault DEF SetJog, UnsetJog, RawSelect, RawMove, RawMoveTo, OneExchange,
         JogMode, Channel, Move, hw
    <3>2. CASE RawLower \/ RawUpper
      BY <3>2, NoFault DEF RawLower, RawUpper, OneExchange, LowerLimit, UpperLimit, hw
    <3>3. CASE RawPosition \/ RawChannels
      BY <3>3, NoFault DEF RawPosition, RawChannels, OneExchange, SetPosition,
         NumberOfChannels, hw
    <3> QED BY <1>11, <3>1, <3>2, <3>3 DEF RawCommand
  <2>2. pc' = "idle" /\ UNCHANGED <<Offset, config_>>
    BY <1>11 DEF SetJog, UnsetJog, RawCommand, RawSelect, RawMove, RawMoveTo, RawLower, RawUpper,
       RawPosition, RawChannels, OneExchange, board
  <2> QED BY <1>1, <2>1, <2>2 DEF Loading
<1>12. CASE LeaveInitMode
  BY <1>1, <1>12 DEF LeaveInitMode, Loading, hw
<1>13. CASE Moves
  <2>1. raw' = raw
    BY <1>13, NoFault DEF Moves, SelectForMove, MoveAxis, RestoreEnvironment, Ignored,
       save_setaxisnum, Channel, Move, hw
  <2>2. pc' \notin Loading /\ UNCHANGED <<Offset, config_>>
    BY <1>13 DEF Moves, SelectForMove, MoveAxis, RestoreEnvironment, Ignored, board, Loading
  <2> QED BY <1>1, <2>1, <2>2
<1>14. CASE Requests
  BY <1>1, <1>14 DEF Requests, ReceiveNumber, ReceiveRaw, ReceivePlain, ReceiveMove,
                     ReceiveInitialZero, Receive, hw, Loading
<1>15. CASE Card \/ UNCHANGED vars
  <2>1. UNCHANGED <<chan, raw>>
    BY <1>15, SelectionFrame DEF Card, vars, hw
  <2> QED BY <1>15, <2>1 DEF Card, vars, board, handler, OffInv, Loaded
<1> QED BY <1>2, <1>3, <1>4, <1>5, <1>6, <1>7, <1>8, <1>9, <1>10, <1>11, <1>12, <1>13, <1>14,
           <1>15, NotThrown
        DEF Next, Handler, Connect, UpdateConfiguration, Commands

\* Without faults the offset that conversions use is the one a savexml would
\* write, for any axes and requests: SetZero, UpdateConfiguration and the
\* initialisation never separate Axis::Offset_ from the property tree, except
\* of an axis whose channel a client has cut off by a raw 1NC.
THEOREM OffsetsAgreeInvariant ==
  ASSUME Faults = {}
  PROVE  Spec => []OffsetsAgree
<1>1. Init => OffInv
  BY BoardAssumption DEF Init, OffInv, ConfigRecord
<1>2. Inv /\ SelInv /\ LoopInv /\ OffInv /\ [Next]_vars => OffInv'
  BY OffNext
<1>3. OffInv => OffsetsAgree
  BY DEF OffInv, OffsetsAgree
<1> QED BY <1>1, <1>2, <1>3, Loops, PTL DEF Spec
=============================================================================
