-------------------------- MODULE MovesServer_proofs --------------------------
(***************************************************************************)
(* The file and the card over the lives of the server process.  First what *)
(* holds with any faults on the line, then what holds without.             *)
(***************************************************************************)
EXTENDS MovesServer, IAPBoard_faultless_proofs

-----------------------------------------------------------------------------
(* Types, and a whole file.                                                *)

\* Until connect has come to its end it is what the server is doing.
ConnInv == ~connected_ => op = "connect" /\ pc \in Busy \cup {"ch1", "ir", "ended"}

FileInv ==
  /\ Inv /\ ConnInv
  /\ file \in [Axes -> ConfigRecord] \cup {Torn}
  /\ file = Torn => connected_
  /\ stopped \in {"no", "saved", "unsaved", "killed"}
  /\ shift \in [Channels -> Int] /\ origin \in [Axes -> Int]

LEMMA TreeNotTorn == \A tree \in [Axes -> ConfigRecord] : tree # Torn
BY BoardAssumption DEF Torn

LEMMA FileInit == ServerInit => FileInv
<1> SUFFICES ASSUME ServerInit PROVE FileInv
  OBVIOUS
<1>1. Inv /\ ConnInv
  BY InitInv DEF ServerInit, Init, ConnInv, Busy
<1>2. InitialConfig \in [Axes -> ConfigRecord]
  BY BoardAssumption
<1>3. /\ shift \in [Channels -> Int] /\ origin \in [Axes -> Int]
      /\ file = InitialConfig /\ stopped = "no"
  BY <1>2 DEF ServerInit, ConfigRecord
<1> QED BY <1>1, <1>2, <1>3, TreeNotTorn DEF FileInv

LEMMA ConnNext == Inv /\ ConnInv /\ [Next]_vars => ConnInv'
<1> SUFFICES ASSUME Inv, ConnInv, [Next]_vars PROVE ConnInv'
  OBVIOUS
<1> USE DEF ConnInv, Busy, Updating, Loading
<1>1. CASE FirmwareID \/ SetNC \/ SelectFirst \/ JogOffConnected
  BY <1>1 DEF FirmwareID, SetNC, SelectFirst, JogOffConnected, Ignored, board
<1>2. CASE UpdateConfiguration
  BY <1>2 DEF UpdateConfiguration, SelectForUpdate, SendSpeeds, SendLowerLimit, SendUpperLimit,
              SendPosition, Ignored, board, NextAxis, AfterAxes
<1>3. CASE Commands \/ Moves
  <2>1. connected_' = connected_ /\ pc \notin Busy \cup {"ch1", "ir", "ended"}
    BY <1>3 DEF Commands, SetAxis, SetJog, UnsetJog, RawCommand, RawSelect, RawMove, RawMoveTo,
       RawLower, RawUpper, RawPosition, RawChannels, OneExchange,
       PrintPosition, SetZero, SaveXml, QueryAndDrop, LeaveInitMode, Moves, SelectForMove,
       MoveAxis, RestoreEnvironment, Ignored, board
  <2> QED BY <2>1
<1>4. CASE Requests
  <2>1. connected_' = connected_ /\ pc = "idle"
    BY <1>4 DEF Requests, ReceiveNumber, ReceiveRaw, ReceivePlain, ReceiveMove,
                ReceiveInitialZero, Receive
  <2> QED BY <2>1
<1>5. CASE Card \/ UNCHANGED vars
  BY <1>5 DEF Card, vars, board, handler
<1>6. CASE Thrown
  BY <1>6 DEF Thrown, board
<1> QED BY <1>1, <1>2, <1>3, <1>4, <1>5, <1>6 DEF Next, Handler, Connect

\* The histories count in steps.
LEMMA HistoryTypes ==
  ASSUME FileInv, Inv'
  PROVE  ShiftAfter \in [Channels -> Int] /\ OriginAfter \in [Axes -> Int]
<1>1. /\ counter \in [Channels -> Int] /\ counter' \in [Channels -> Int] /\ chan \in Channels
      /\ shift \in [Channels -> Int] /\ origin \in [Axes -> Int] /\ Axes \subseteq Channels
  BY BoardAssumption DEF FileInv, Inv, TypeOK, PM381TypeOK
<1>2. ShiftAfter \in [Channels -> Int]
  BY <1>1 DEF ShiftAfter
<1>3. OriginAfter \in [Axes -> Int]
  BY <1>1 DEF OriginAfter
<1> QED BY <1>2, <1>3

\* catch_int leaves a well formed tree.
LEMMA CatchTree ==
  ASSUME Inv, CatchInt
  PROVE  Inv' /\ (connected_ => file' = config_' /\ config_' \in [Axes -> ConfigRecord])
<1>1. config_' \in [Axes -> ConfigRecord] /\ latest_error' \in {"none", "this", "earlier"}
  <2>1. CASE ~connected_
    BY <2>1 DEF CatchInt, Inv, TypeOK
  <2>2. CASE connected_
    <3>0. PICK r \in Codes :
            /\ PlainCommand(r)
            /\ \E bp \in get_cur_position(r, ZeroPosition)
                         \cup (IF pc = "idle" THEN {} ELSE {ZeroPosition}) :
                  config_' = WithPosition(bp)
      BY <2>2 DEF CatchInt
    <3>1. PICK bp :
            /\ bp \in get_cur_position(r, ZeroPosition) \/ bp = ZeroPosition
            /\ config_' = WithPosition(bp)
      BY <3>0
    <3>2. bp \in [Axes -> Int]
      <4>1. PM381TypeOK /\ ZeroPosition \in [Axes -> Int]
        BY DEF Inv, TypeOK, ZeroPosition
      <4> QED BY <3>1, <4>1, ZeroPositionType
    <3>3. config_' \in [Axes -> ConfigRecord]
      BY <3>1, <3>2, WithPositionType DEF Inv, TypeOK
    <3>4. latest_error' \in {"none", "this", "earlier"}
      BY <3>0 DEF PlainCommand, send_command, Inv, TypeOK
    <3> QED BY <3>3, <3>4
  <2> QED BY <2>1, <2>2
<1>2. UNCHANGED <<hw, init_, connected_, curaxis, envion, Offset, handler, chosen>>
  BY DEF CatchInt
<1>3. TypeOK'
  BY <1>1, <1>2 DEF Inv, TypeOK, PM381TypeOK, hw, handler
<1>4. Inv'
  BY <1>2, <1>3 DEF Inv, handler, MoveInProgress, MoveOutcome
<1> QED BY <1>1, <1>4 DEF CatchInt, writeconfig

\* The steps that the server makes of the board's.
LEMMA ServeIsNext == Serve \/ Request \/ Move1 \/ FinishWrite \/ Killed => [Next]_vars
BY DEF Serve, Request, Move1, FinishWrite, Killed, Next

LEMMA FileNext == FileInv /\ [ServerNext]_serverVars => FileInv'
<1> SUFFICES ASSUME FileInv, [ServerNext]_serverVars PROVE FileInv'
  OBVIOUS
<1> USE DEF FileInv
<1>1. CASE Serve
  <2>1. Inv' /\ ConnInv'
    BY <1>1, ServeIsNext, InvNext, ConnNext
  <2>2. shift' \in [Channels -> Int] /\ origin' \in [Axes -> Int]
    BY <1>1, <2>1, HistoryTypes DEF Serve
  <2>3. connected_ => connected_'
    BY <1>1 DEF Serve, Handler, Connect, UpdateConfiguration, Commands, Moves, FirmwareID,
       SetNC, SelectFirst, JogOffConnected, SelectForUpdate, SendSpeeds, SendLowerLimit,
       SendUpperLimit, SendPosition, SetAxis, SetJog, UnsetJog, RawCommand, RawSelect, RawMove,
       RawMoveTo, RawLower, RawUpper, RawPosition, RawChannels, OneExchange, PrintPosition, SetZero, SaveXml, QueryAndDrop, LeaveInitMode,
       SelectForMove, MoveAxis, RestoreEnvironment, Ignored, Thrown, board
  <2>4. op = "savexml" => connected_
    BY DEF ConnInv
  <2> QED BY <1>1, <2>1, <2>2, <2>3, <2>4 DEF Serve
<1>2. CASE FinishWrite
  <2>1. file' = config_ /\ UNCHANGED <<vars, stopped, shift, origin>>
    BY <1>2 DEF FinishWrite, writeconfig
  <2>2. Inv' /\ ConnInv' /\ config_ \in [Axes -> ConfigRecord]
    BY <1>2, ServeIsNext, InvNext, ConnNext DEF Inv, TypeOK
  <2> QED BY <2>1, <2>2, TreeNotTorn
<1>3. CASE Request \/ Move1 \/ Killed
  <2>1. Inv' /\ ConnInv'
    BY <1>3, ServeIsNext, InvNext, ConnNext
  <2>2. /\ UNCHANGED <<file, shift, origin, connected_>>
        /\ stopped' \in {"no", "saved", "unsaved", "killed"}
    BY <1>3 DEF Request, Move1, Killed, Card, vars, board, Requests, ReceiveNumber,
       ReceiveRaw, ReceivePlain, ReceiveMove, ReceiveInitialZero, Receive
  <2> QED BY <2>1, <2>2
<1>4. CASE CatchInt
  <2>1. Inv' /\ (connected_ => file' = config_' /\ config_' \in [Axes -> ConfigRecord])
    BY <1>4, CatchTree
  <2>2. ConnInv' /\ connected_' = connected_
    BY <1>4 DEF CatchInt, ConnInv, handler
  <2>3. /\ stopped' \in {"saved", "unsaved"} /\ UNCHANGED <<shift, origin>>
        /\ ~connected_ => file' = file
    BY <1>4 DEF CatchInt
  <2> QED BY <2>1, <2>2, <2>3, TreeNotTorn
<1>5. CASE PowerCycle
  <2>1. UNCHANGED <<board, handler, latest_error, chosen, file, stopped, origin>>
    BY <1>5 DEF PowerCycle
  <2>2. PM381TypeOK' /\ shift' \in [Channels -> Int]
    <3>1. 1 \in Channels /\ counter \in [Channels -> Int]
      BY MaxChannelAssumption DEF Channels, Inv, TypeOK, PM381TypeOK
    <3>2. counter' \in [Channels -> Int] /\ goal' = counter' /\ lower' = counter' /\ upper' = counter'
      BY <1>5 DEF PowerCycle
    <3>3. shift' \in [Channels -> Int]
      BY <1>5, <3>1 DEF PowerCycle
    <3> QED BY <1>5, <3>1, <3>2, <3>3 DEF PowerCycle, PM381TypeOK
  <2>3. Inv'
    BY <2>1, <2>2 DEF Inv, TypeOK, board, handler, MoveInProgress, MoveOutcome
  <2> QED BY <2>1, <2>2, <2>3 DEF ConnInv, board, handler
<1>6. CASE Restart
  <2>1. file \in [Axes -> ConfigRecord] /\ UNCHANGED <<hw, file, shift, origin>>
    BY <1>6 DEF Restart
  <2>2. /\ init_' = FALSE /\ connected_' = FALSE
        /\ curaxis' = 0 /\ envion' = 0 /\ chosen' = 0
        /\ config_' = file /\ Offset' = [a \in Axes |-> file[a].offset]
        /\ latest_error' = "none"
        /\ pc' = "id" /\ op' = "connect" /\ ret' = 0
        /\ arg' = 0 /\ req' = NoTarget /\ todo' = Axes /\ accepted' = {}
        /\ file # Torn /\ stopped' = "no"
    BY <1>6 DEF Restart
  <2>3. Offset' \in [Axes -> Int]
    BY <2>1, <2>2 DEF ConfigRecord
  <2>4. PM381TypeOK'
    BY <2>1 DEF Inv, TypeOK, PM381TypeOK, hw
  <2>5. TypeOK'
    <3>1. ret' \in Codes /\ pc' \in PCs /\ op' \in OpNames \cup {"connect"}
      BY <2>2 DEF Codes, PCs
    <3>2. req' \in Targets \cup {NoTarget} /\ todo' \in SUBSET Axes /\ accepted' \in SUBSET Axes
      BY <2>2
    <3>3. /\ init_' \in BOOLEAN /\ connected_' \in BOOLEAN
      BY <2>2, Zenon
    <3>4. /\ arg' \in Int
          /\ curaxis' \in Axes \cup {0} /\ envion' \in Axes \cup {0} /\ chosen' \in Axes \cup {0}
          /\ latest_error' \in {"none", "this", "earlier"}
      BY <2>2
    <3>5. config_' \in [Axes -> ConfigRecord]
      BY <2>1, <2>2
    <3> QED BY <2>3, <2>4, <3>1, <3>2, <3>3, <3>4, <3>5 DEF TypeOK
  <2>6. Inv' /\ ConnInv'
    BY <2>2, <2>5 DEF Inv, MoveOutcome, MoveOps, ConnInv, Busy
  <2> QED BY <2>1, <2>2, <2>6
<1>7. CASE UNCHANGED serverVars
  <2>1. Inv' /\ ConnInv'
    BY <1>7, InvNext, ConnNext DEF serverVars
  <2> QED BY <1>7, <2>1 DEF serverVars, vars, board
<1> QED BY <1>1, <1>2, <1>3, <1>4, <1>5, <1>6, <1>7 DEF ServerNext

\* Board, card, file and histories are well formed over any sequence of
\* requests, signals, deaths, power cycles and restarts, whatever the line
\* does to the replies that go to the file (Junk).
THEOREM ServerTypeInvariant == ServerSpec => []ServerTypeOK
<1>1. FileInv => ServerTypeOK
  BY DEF FileInv, Inv, ServerTypeOK
<1> QED BY <1>1, FileInit, FileNext, PTL DEF ServerSpec

\* If operators kill the server only when it is idle there is a whole file
\* whenever it does not run, also after a signal in the middle of savexml
\* (writeconfig in place, catch_int).
THEOREM FileCompleteInvariant ==
  ASSUME Careful
  PROVE  ServerSpec => []FileComplete
<1>1. ServerInit => FileComplete
  BY DEF ServerInit, FileComplete
<1>2. FileInv /\ FileComplete /\ [ServerNext]_serverVars => FileComplete'
  <2> SUFFICES ASSUME FileInv, FileComplete, [ServerNext]_serverVars, stopped' # "no"
               PROVE  file' # Torn
    BY DEF FileComplete
  <2>1. CASE CatchInt
    BY <2>1, CatchTree, TreeNotTorn DEF FileInv, CatchInt
  <2>2. CASE Killed
    BY <2>2 DEF Killed
  <2>3. CASE stopped # "no"
    BY <2>1, <2>3 DEF FileComplete, ServerNext, Serve, FinishWrite, Request, Move1, Killed,
                      PowerCycle, Restart, serverVars
  <2> QED BY <2>1, <2>2, <2>3 DEF ServerNext, Serve, FinishWrite, Request, Move1, PowerCycle,
                                  Restart, serverVars
<1> QED BY <1>1, <1>2, FileInit, FileNext, PTL DEF ServerSpec

-----------------------------------------------------------------------------
(* Where the axes stand: careful operators, who set nothing on the card by *)
(* raw commands, and a line without faults.                                *)

NoRawSettings == Ops \cap RawSettings = {}

UntouchedInv == raw = {} /\ op \notin RawSettings

LEMMA UntouchedNext ==
  ASSUME Faults = {}, NoRawSettings, UntouchedInv, [Next]_vars
  PROVE  UntouchedInv'
<1>1. CASE Connect \/ UpdateConfiguration
  <2>1. raw' = {}
    <3>1. CASE FirmwareID \/ SetNC
      BY <1>1, <3>1, NoFault, SelectionFrame
         DEF FirmwareID, SetNC, Ignored, NumberOfChannels, UntouchedInv
    <3>2. CASE SelectFirst \/ JogOffConnected
      BY <3>2, NoFault, SelectionFrame DEF SelectFirst, JogOffConnected, Channel, UntouchedInv
    <3>3. CASE SelectForUpdate
      BY <3>3, SetAxisNum, SelectionFrame DEF SelectForUpdate, Channel, UntouchedInv
    <3>4. CASE SendSpeeds \/ SendLowerLimit \/ SendUpperLimit
      BY <3>4, NoFault, SelectionFrame
         DEF SendSpeeds, SendLowerLimit, SendUpperLimit, Ignored, UntouchedInv
    <3>5. CASE SendPosition
      <4>1. PICK a \in Axes, r \in Codes :
              send_command(r, TRUE, SetPosition(config_[a].Position, raw \ {chan}))
        BY <3>5 DEF SendPosition
      <4>2. raw' = raw \ {chan}
        BY <4>1, NoFault, SelectionFrame
      <4> QED BY <4>2 DEF UntouchedInv
    <3> QED BY <1>1, <3>1, <3>2, <3>3, <3>4, <3>5 DEF Connect, UpdateConfiguration
  <2>2. op' = op
    BY <1>1 DEF Connect, UpdateConfiguration, FirmwareID, SetNC, SelectFirst, JogOffConnected,
       SelectForUpdate, SendSpeeds, SendLowerLimit, SendUpperLimit, SendPosition, Ignored
  <2> QED BY <2>1, <2>2 DEF UntouchedInv
<1>2. CASE Commands \/ Moves
  <2>1. op' = op
    BY <1>2 DEF Commands, SetAxis, SetJog, UnsetJog, RawCommand, RawSelect, RawMove, RawMoveTo,
       RawLower, RawUpper, RawPosition, RawChannels, OneExchange, PrintPosition, SetZero,
       SaveXml, QueryAndDrop, LeaveInitMode, Moves, SelectForMove, MoveAxis,
       RestoreEnvironment, Ignored
  <2>2. raw' = raw
    <3>1. ~RawLower /\ ~RawUpper /\ ~RawPosition /\ ~RawChannels
      BY DEF UntouchedInv, RawSettings, RawLower, RawUpper, RawPosition, RawChannels, OneExchange
    <3>2. CASE SetAxis
      BY <3>2, SetAxisNum, SelectionFrame DEF SetAxis, Channel
    <3>3. CASE SetJog \/ UnsetJog \/ RawSelect \/ RawMove \/ RawMoveTo
      BY <3>3, NoFault, SelectionFrame
         DEF SetJog, UnsetJog, RawSelect, RawMove, RawMoveTo, OneExchange, Channel
    <3>4. CASE PrintPosition \/ SetZero \/ SaveXml \/ QueryAndDrop
      BY <3>4, NoFault, SelectionFrame
         DEF PrintPosition, SetZero, SaveXml, QueryAndDrop, PlainCommand, Ignored
    <3>5. CASE LeaveInitMode
      BY <3>5 DEF LeaveInitMode, hw
    <3>6. CASE Moves
      BY <3>6, NoFault, SelectionFrame DEF Moves, SelectForMove, MoveAxis, RestoreEnvironment,
         Ignored, save_setaxisnum, Channel
    <3> QED BY <1>2, <3>1, <3>2, <3>3, <3>4, <3>5, <3>6 DEF Commands, RawCommand
  <2> QED BY <2>1, <2>2 DEF UntouchedInv
<1>3. CASE Requests
  <2>1. op' \in Ops /\ raw' = raw
    BY <1>3 DEF Requests, ReceiveNumber, ReceiveRaw, ReceivePlain, ReceiveMove,
                ReceiveInitialZero, Receive, hw
  <2> QED BY <2>1 DEF UntouchedInv, NoRawSettings
<1>4. CASE Card \/ UNCHANGED vars
  <2>1. UNCHANGED <<raw, op>>
    BY <1>4, SelectionFrame DEF Card, vars, handler, hw
  <2> QED BY <2>1 DEF UntouchedInv
<1> QED BY <1>1, <1>2, <1>3, <1>4, NotThrown DEF Next, Handler

\* The card then has a channel for every axis, once it knows of them.
LEMMA AllChannels ==
  ASSUME Inv, SelInv, UntouchedInv, pc \notin {"id", "nc"}
  PROVE  \A a \in Axes : a <= nc /\ ChannelLegal(a)
BY ChannelFacts DEF SelInv, Covered, UntouchedInv, ChannelLegal, Inv

\* An axis is where initialisation put it, or where the file says as long as
\* the card has still to be told, and then nothing moves.
PlaceInv ==
  /\ pc = "qp" => init_
  /\ ~init_ /\ pc \in Busy => AtRest
  /\ \A a \in Axes : IF Pending(a) THEN init_ \/ shift[a] + counter[a] = config_[a].Position
                                   ELSE shift[a] = 0

\* The loop of an initialisation has reset the offset of axis a.
Reset(a) == a \notin todo \/ (pc # "config" /\ a = chan)

\* The user's zero is the offset of the axis, but while an initialisation
\* resets both.
OriginInv ==
  IF init_ /\ pc \in Busy
  THEN pc \in Updating => /\ \A a \in Axes : Reset(a) => Offset[a] = 0
                          /\ (\E a \in Axes : Reset(a)) => \A a \in Axes : origin[a] = 0
  ELSE \A a \in Axes : Offset[a] = origin[a]

\* What savexml has written is the truth until the next request.
SaveInv ==
  op = "savexml" =>
    /\ pc \in {"command", "idle"} /\ AtRest
    /\ pc = "idle" => file \in {Torn, config_} /\ \A a \in Axes : config_[a].Position = counter[a]

RunningInv == SelInv /\ LoopInv /\ OffInv /\ PlaceInv /\ OriginInv /\ SaveInv

\* Nothing moves without a server, and the file tells where the axes are.
StoppedInv ==
  /\ AtRest /\ file # Torn
  /\ \A a \in Axes : file[a].Position = shift[a] + counter[a] /\ file[a].offset = origin[a]

CareInv == UntouchedInv /\ IF stopped = "no" THEN RunningInv ELSE StoppedInv

LEMMA CareInit ==
  ASSUME Careful
  PROVE  ServerInit => CareInv
<1> SUFFICES ASSUME ServerInit PROVE CareInv
  OBVIOUS
<1>1. /\ Init /\ ~jog /\ stopped = "no"
      /\ shift = [c \in Channels |-> IF c \in Axes THEN InitialConfig[c].Position ELSE 0]
      /\ origin = [a \in Axes |-> InitialConfig[a].offset]
  BY DEF ServerInit
<1>2. /\ pc = "id" /\ op = "connect" /\ todo = Axes /\ config_ = InitialConfig
      /\ Offset = [a \in Axes |-> config_[a].offset]
      /\ counter = [c \in Channels |-> 0] /\ goal = counter
  BY <1>1 DEF Init, PM381Init
<1>3. SelInv /\ LoopInv /\ OffInv
  BY <1>1, <1>2, SelInit DEF LoopInv, Loading, OffInv
<1>4. PlaceInv
  <2>1. \A a \in Axes : a \in Channels /\ shift[a] + counter[a] = config_[a].Position
    <3> TAKE a \in Axes
    <3>1. a \in Channels /\ config_[a].Position \in Int
      BY <1>2, BoardAssumption DEF ConfigRecord
    <3> QED BY <1>1, <1>2, <3>1
  <2> QED BY <1>1, <1>2, <2>1 DEF PlaceInv, Pending, AtRest
<1>5. OriginInv /\ SaveInv
  BY <1>1, <1>2 DEF OriginInv, SaveInv, Updating, Loading
<1>6. UntouchedInv
  BY <1>1, <1>2 DEF Init, PM381Init, UntouchedInv, RawSettings
<1> QED BY <1>1, <1>3, <1>4, <1>5, <1>6 DEF CareInv, RunningInv

\* A readable reply to 1QP brings the counter of every axis.
LEMMA AllPositions ==
  ASSUME TypeOK, \A a \in Axes : a <= nc, NEW default, NEW bp \in get_cur_position(0, default)
  PROVE  \A a \in Axes : a \in DOMAIN bp /\ bp[a] = counter[a]
<1>1. PICK t \in Tokens(0) :
        bp = [a \in DOMAIN t \cup DOMAIN default |-> IF a \in DOMAIN t THEN t[a] ELSE default[a]]
  BY DEF get_cur_position
<1>2. t = [a \in Axes \cap (1 .. nc) |-> counter[a]]
  BY <1>1 DEF Tokens
<1>3. \A a \in Axes : a \in Axes \cap (1 .. nc)
  BY ChannelFacts
<1> QED BY <1>1, <1>2, <1>3

\* The steps of a handler that are not part of the loop over the axes, or come
\* before it.
Elsewhere == Connect \/ (Commands /\ ~QueryAndDrop) \/ Moves

LEMMA ElsewhereFrame ==
  ASSUME Elsewhere, ~FirmwareID, ~SetNC
  PROVE  pc \notin Busy \cup {"qp"} /\ pc' \notin Busy \cup {"qp"}
BY DEF Elsewhere, Connect, Busy, Updating, Loading, SelectFirst, JogOffConnected, Commands, SetAxis,
   SetJog, UnsetJog, RawCommand, RawSelect, RawMove, RawMoveTo, RawLower, RawUpper, RawPosition,
   RawChannels, OneExchange, PrintPosition, SetZero, SaveXml,
   LeaveInitMode, Moves, SelectForMove, MoveAxis, RestoreEnvironment, Ignored

LEMMA PlaceSelect ==
  ASSUME Faults = {}, Inv, SelInv, UntouchedInv, PlaceInv, SelectForUpdate, shift' = shift
  PROVE  PlaceInv'
<1>1. PICK a \in Axes, r \in Codes :
        /\ config_' = IF init_ THEN ResetConfig(a, op = "initialzero") ELSE config_
        /\ setaxisnum(r, a)
        /\ ~(r < 0) => pc' = "speeds" /\ UNCHANGED todo
  BY DEF SelectForUpdate
<1>2. pc = "config" /\ init_' = init_ /\ ChannelLegal(a)
  BY AllChannels DEF SelectForUpdate
<1>3. r = 0 /\ Channel(a)
  BY <1>1, <1>2, SetAxisNum
<1>4. pc' = "speeds" /\ todo' = todo /\ UNCHANGED <<jog, counter, goal>>
  BY <1>1, <1>3 DEF Channel
<1>5. ~init_ => config_' = config_
  BY <1>1
<1> QED BY <1>2, <1>4, <1>5 DEF PlaceInv, Pending, Busy, Updating, Loading, AtRest

LEMMA PlaceSend ==
  ASSUME Faults = {}, Inv, LoopInv, PlaceInv, SendPosition,
         shift \in [Channels -> Int], shift' = ShiftAfter
  PROVE  PlaceInv'
<1>1. PICK a \in Axes, r \in Codes :
        /\ NextInVector(a)
        /\ send_command(r, TRUE, SetPosition(config_[a].Position, raw \ {chan}))
        /\ NextAxis(a)
  BY DEF SendPosition
<1>2. pc = "sp" /\ UNCHANGED <<init_, config_>>
  BY DEF SendPosition, board
<1>3. chan = a
  BY <1>1, <1>2, TheAxis DEF Loading
<1>4. SetPosition(config_[a].Position, raw \ {chan})
  BY <1>1, NoFault
<1>5. /\ counter \in [Channels -> Int] /\ goal \in [Channels -> Int]
      /\ a \in Channels /\ Axes \subseteq Channels /\ config_[a].Position \in Int
  BY BoardAssumption DEF Inv, TypeOK, PM381TypeOK, ConfigRecord
<1>6. /\ counter' = [counter EXCEPT ![a] = config_[a].Position]
      /\ goal' = [goal EXCEPT ![a] = config_[a].Position] /\ jog' = jog
  BY <1>3, <1>4 DEF SetPosition
<1>7. /\ todo' = todo \ {a} /\ pc' = IF todo' = {} THEN AfterAxes ELSE "config"
      /\ AfterAxes \notin Busy \cup {"qp"}
  BY <1>1 DEF NextAxis, AfterAxes, Busy, Updating, Loading
<1>8. Pending(a) /\ ~Pending(a)'
  BY <1>1, <1>2, <1>7 DEF Pending, NextInVector, Updating, Loading, Busy
<1>9. \A b \in Axes \ {a} : Pending(b)' <=> Pending(b)
  BY <1>2, <1>7 DEF Pending, Updating, Loading, Busy
<1>10. ~init_' /\ pc' \in Busy => AtRest'
  BY <1>2, <1>5, <1>6 DEF PlaceInv, AtRest, Busy, Updating, Loading
<1>11. shift'[a] = 0
  <2>1. CASE init_
    BY <1>2, <1>3, <1>5, <2>1 DEF ShiftAfter
  <2>2. CASE ~init_
    <3>1. shift[a] + counter[a] = config_[a].Position
      BY <1>8, <2>2 DEF PlaceInv
    <3>2. shift'[a] = shift[a] + counter[a] - counter'[a]
      BY <1>2, <1>5, <2>2 DEF ShiftAfter
    <3>3. counter'[a] = config_[a].Position
      BY <1>5, <1>6
    <3> QED BY <1>5, <3>1, <3>2, <3>3
  <2> QED BY <2>1, <2>2
<1>12. \A b \in Axes \ {a} : shift'[b] = shift[b] /\ counter'[b] = counter[b]
  <2> TAKE b \in Axes \ {a}
  <2>1. b \in Channels /\ counter'[b] = counter[b]
    BY <1>5, <1>6
  <2>2. CASE init_
    BY <1>2, <1>3, <1>5, <2>1, <2>2 DEF ShiftAfter
  <2>3. CASE ~init_
    <3>1. shift'[b] = shift[b] + counter[b] - counter'[b]
      BY <1>2, <2>1, <2>3 DEF ShiftAfter
    <3> QED BY <1>5, <2>1, <3>1
  <2> QED BY <2>1, <2>2, <2>3
<1>13. pc' # "qp"
  BY <1>7
<1> QED BY <1>2, <1>8, <1>9, <1>10, <1>11, <1>12, <1>13 DEF PlaceInv

LEMMA PlaceServe ==
  ASSUME Faults = {}, Inv, SelInv, UntouchedInv, LoopInv, PlaceInv, Handler,
         shift \in [Channels -> Int], shift' = ShiftAfter
  PROVE  PlaceInv'
<1>1. pc # "sp" => shift' = shift
  BY DEF ShiftAfter, UntouchedInv, RawSettings
<1>2. CASE FirmwareID \/ SetNC
  <2>1. UNCHANGED <<jog, counter, goal>>
    BY <1>2, NoFault DEF FirmwareID, SetNC, Ignored, NumberOfChannels, hw
  <2>2. /\ pc \in {"id", "nc"} /\ pc' \in {"nc", "config"}
        /\ UNCHANGED <<init_, config_, todo>>
    BY <1>2 DEF FirmwareID, SetNC, Ignored, board
  <2>3. todo = Axes /\ \A a \in Axes : Pending(a) /\ Pending(a)'
    BY <2>2 DEF LoopInv, Pending, Updating, Loading
  <2> QED BY <1>1, <2>1, <2>2, <2>3 DEF PlaceInv, AtRest, Busy, Updating, Loading
<1>3. CASE SelectForUpdate
  BY <1>1, <1>3, PlaceSelect DEF SelectForUpdate
<1>4. CASE SendSpeeds \/ SendLowerLimit \/ SendUpperLimit
  <2>1. UNCHANGED <<jog, counter, goal>>
    BY <1>4, NoFault DEF SendSpeeds, SendLowerLimit, SendUpperLimit, Ignored, LowerLimit,
                         UpperLimit, hw
  <2>2. /\ pc \in Updating \ {"sp"} /\ pc' \in Updating
        /\ UNCHANGED <<init_, config_, todo>>
    BY <1>4 DEF SendSpeeds, SendLowerLimit, SendUpperLimit, Ignored, board, Updating, Loading
  <2> QED BY <1>1, <2>1, <2>2 DEF PlaceInv, Pending, AtRest, Busy, Updating, Loading
<1>5. CASE SendPosition
  BY <1>5, PlaceSend
<1>6. CASE QueryAndDrop
  <2>1. /\ pc = "qp" /\ pc' = "config" /\ UNCHANGED <<init_, todo>>
    BY <1>6 DEF QueryAndDrop, Ignored, board
  <2>2. init_' /\ todo' = Axes
    BY <2>1 DEF PlaceInv, LoopInv
  <2> QED BY <2>1, <2>2 DEF PlaceInv, Pending, Updating, Loading
<1>7. CASE Elsewhere /\ ~FirmwareID /\ ~SetNC
  <2>1. pc \notin Busy \cup {"qp"} /\ pc' \notin Busy \cup {"qp"}
    BY <1>7, ElsewhereFrame
  <2>2. \A a \in Axes : ~Pending(a) /\ ~Pending(a)'
    BY <2>1 DEF Pending, Busy
  <2> QED BY <1>1, <2>1, <2>2 DEF PlaceInv, Busy, Updating, Loading
<1> QED BY <1>2, <1>3, <1>4, <1>5, <1>6, <1>7, NotThrown
        DEF Handler, Connect, UpdateConfiguration, Elsewhere

LEMMA OriginSelect ==
  ASSUME Faults = {}, Inv, SelInv, UntouchedInv, OffInv, OriginInv, SelectForUpdate,
         origin \in [Axes -> Int], origin' = OriginAfter
  PROVE  OriginInv'
<1>1. PICK a \in Axes, r \in Codes :
        /\ config_' = IF init_ THEN ResetConfig(a, op = "initialzero") ELSE config_
        /\ setaxisnum(r, a)
        /\ ~(r < 0) => /\ Offset' = [Offset EXCEPT ![a] = config_'[a].offset]
                       /\ pc' = "speeds" /\ UNCHANGED todo
  BY DEF SelectForUpdate
<1>2. pc = "config" /\ init_' = init_ /\ ChannelLegal(a)
  BY AllChannels DEF SelectForUpdate
<1>3. r = 0 /\ Channel(a)
  BY <1>1, <1>2, SetAxisNum
<1>4. chan' = a /\ pc' = "speeds" /\ todo' = todo /\ Offset' = [Offset EXCEPT ![a] = config_'[a].offset]
  BY <1>1, <1>3 DEF Channel
<1>5. Offset \in [Axes -> Int] /\ config_ \in [Axes -> ConfigRecord]
  BY DEF Inv, TypeOK
<1>6. CASE init_
  <2>1. config_'[a].offset = 0
    BY <1>1, <1>5, <1>6 DEF ResetConfig
  <2>2. Offset'[a] = 0 /\ \A b \in Axes \ {a} : Offset'[b] = Offset[b]
    BY <1>4, <1>5, <2>1
  <2>3. \A b \in Axes : origin'[b] = 0
    BY <1>2, <1>6 DEF OriginAfter
  <2>4. \A b \in Axes \ {a} : Reset(b)' => Reset(b)
    BY <1>4 DEF Reset
  <2>5. \A b \in Axes : Reset(b) => Offset[b] = 0
    BY <1>2, <1>6 DEF OriginInv, Busy, Updating, Loading
  <2> QED BY <1>2, <1>4, <1>6, <2>2, <2>3, <2>4, <2>5 DEF OriginInv, Busy, Updating, Loading
<1>7. CASE ~init_
  <2>1. Offset' = Offset
    BY <1>1, <1>4, <1>5, <1>7 DEF OffInv, UntouchedInv
  <2>2. origin' = origin
    BY <1>2, <1>7 DEF OriginAfter
  <2> QED BY <1>2, <1>7, <2>1, <2>2 DEF OriginInv
<1> QED BY <1>6, <1>7

LEMMA OriginSend ==
  ASSUME Inv, LoopInv, OriginInv, SendPosition, origin' = OriginAfter
  PROVE  OriginInv'
<1>1. PICK a \in Axes : NextInVector(a) /\ NextAxis(a)
  BY DEF SendPosition
<1>2. pc = "sp" /\ UNCHANGED <<init_, Offset>> /\ origin' = origin
  BY DEF SendPosition, board, OriginAfter
<1>3. chan = a
  BY <1>1, <1>2, TheAxis DEF Loading
<1>4. /\ todo' = todo \ {a} /\ pc' = IF todo' = {} THEN AfterAxes ELSE "config"
      /\ AfterAxes \notin Busy
  BY <1>1 DEF NextAxis, AfterAxes, Busy, Updating, Loading
<1>5. CASE init_
  <2>1. /\ \A b \in Axes : Reset(b) => Offset[b] = 0
        /\ (\E b \in Axes : Reset(b)) => \A b \in Axes : origin[b] = 0
    BY <1>2, <1>5 DEF OriginInv, Busy, Updating, Loading
  <2>2. \A b \in Axes : Reset(b) <=> b \notin todo'
    BY <1>2, <1>3, <1>4 DEF Reset
  <2>3. Reset(a)
    BY <1>2, <1>3 DEF Reset
  <2>4. CASE todo' = {}
    <3>1. \A b \in Axes : Offset[b] = 0 /\ origin[b] = 0
      BY <2>1, <2>2, <2>3, <2>4
    <3> QED BY <1>2, <1>4, <2>4, <3>1 DEF OriginInv
  <2>5. CASE todo' # {}
    <3>1. pc' = "config" /\ \A b \in Axes : Reset(b)' <=> Reset(b)
      BY <1>4, <2>2, <2>5 DEF Reset
    <3> QED BY <1>2, <1>5, <2>1, <3>1 DEF OriginInv, Busy, Updating, Loading
  <2> QED BY <2>4, <2>5
<1>6. CASE ~init_
  BY <1>2, <1>6 DEF OriginInv
<1> QED BY <1>5, <1>6

LEMMA OriginServe ==
  ASSUME Faults = {}, Inv, SelInv, UntouchedInv, LoopInv, OffInv, PlaceInv, OriginInv, Handler,
         shift \in [Channels -> Int], origin \in [Axes -> Int], origin' = OriginAfter
  PROVE  OriginInv'
<1>1. ~SetZero /\ ~SelectForUpdate => origin' = origin
  BY NotThrown DEF OriginAfter, Handler, Connect, UpdateConfiguration, Commands, Moves, FirmwareID,
     SetNC, SelectFirst, JogOffConnected, SendSpeeds, SendLowerLimit, SendUpperLimit,
     SendPosition, SetAxis, SetJog, UnsetJog, RawCommand, RawSelect, RawMove, RawMoveTo,
     RawLower, RawUpper, RawPosition, RawChannels, OneExchange, PrintPosition, SaveXml,
     QueryAndDrop, LeaveInitMode, SelectForMove, MoveAxis, RestoreEnvironment, Ignored
<1>2. CASE FirmwareID \/ SetNC
  <2>1. /\ pc \in {"id", "nc"} /\ pc' \in {"nc", "config"} /\ UNCHANGED <<init_, Offset, todo>>
        /\ ~SetZero /\ ~SelectForUpdate
    BY <1>2 DEF FirmwareID, SetNC, Ignored, board, SetZero, SelectForUpdate
  <2>2. todo' = Axes
    BY <2>1 DEF LoopInv
  <2>3. pc' = "config" => \A a \in Axes : ~Reset(a)'
    BY <2>2 DEF Reset
  <2> QED BY <1>1, <2>1, <2>3 DEF OriginInv, Busy, Updating, Loading
<1>3. CASE SelectForUpdate
  BY <1>3, OriginSelect
<1>4. CASE SendSpeeds \/ SendLowerLimit \/ SendUpperLimit
  <2>1. chan' = chan
    BY <1>4, NoFault, SelectionFrame DEF SendSpeeds, SendLowerLimit, SendUpperLimit, Ignored
  <2>2. /\ pc \in Updating \ {"config"} /\ pc' \in Updating \ {"config"}
        /\ UNCHANGED <<init_, Offset, todo>> /\ ~SetZero /\ ~SelectForUpdate
    BY <1>4 DEF SendSpeeds, SendLowerLimit, SendUpperLimit, Ignored, board, Updating, Loading, SetZero,
                SelectForUpdate
  <2> QED BY <1>1, <2>1, <2>2 DEF OriginInv, Reset, Busy
<1>5. CASE SendPosition
  BY <1>5, OriginSend
<1>6. CASE QueryAndDrop
  <2>1. pc = "qp" /\ pc' = "config" /\ UNCHANGED <<init_, todo>>
    BY <1>6 DEF QueryAndDrop, Ignored, board
  <2>2. init_' /\ todo' = Axes
    BY <2>1 DEF PlaceInv, LoopInv
  <2> QED BY <2>1, <2>2 DEF OriginInv, Reset, Busy, Updating, Loading
<1>7. CASE SetZero
  <2>1. PICK r \in Codes :
          PlainCommand(r) /\ \E bp \in get_cur_position(r, ZeroPosition) : Offset' = bp
    BY <1>7 DEF SetZero
  <2>2. pc = "command" /\ pc' = "idle" /\ op = "zero" /\ init_' = init_ /\ TypeOK
    BY <1>7 DEF SetZero, Inv
  <2>3. r = 0
    BY <2>1, NoFault DEF PlainCommand
  <2>4. \A a \in Axes : Offset'[a] = counter[a]
    BY <2>1, <2>2, <2>3, AllPositions, AllChannels
  <2>5. \A a \in Axes : shift[a] = 0
    BY <2>2 DEF PlaceInv, Pending, Updating, Loading
  <2>6. \A a \in Axes : origin'[a] = counter[a] + shift[a] /\ counter[a] \in Int
    BY <2>2, BoardAssumption DEF OriginAfter, Inv, TypeOK, PM381TypeOK
  <2> QED BY <2>2, <2>4, <2>5, <2>6 DEF OriginInv, Busy, Updating, Loading
<1>8. CASE Elsewhere /\ ~FirmwareID /\ ~SetNC /\ ~SetZero
  <2>1. pc \notin Busy /\ pc' \notin Busy
    BY <1>8, ElsewhereFrame
  <2>2. Offset' = Offset /\ ~SelectForUpdate
    BY <1>8, <2>1 DEF Elsewhere, Connect, SelectFirst, JogOffConnected, Commands, Moves,
       SetAxis, SetJog, UnsetJog, RawCommand, RawSelect, RawMove, RawMoveTo, RawLower, RawUpper,
       RawPosition, RawChannels, OneExchange, PrintPosition, SaveXml,
       LeaveInitMode, SelectForMove, MoveAxis, RestoreEnvironment, Ignored, board,
       SelectForUpdate, Busy, Updating, Loading
  <2> QED BY <1>1, <1>8, <2>1, <2>2 DEF OriginInv
<1> QED BY <1>2, <1>3, <1>4, <1>5, <1>6, <1>7, <1>8, NotThrown
        DEF Handler, Connect, UpdateConfiguration, Elsewhere

LEMMA SaveServe ==
  ASSUME Faults = {}, Inv, SelInv, UntouchedInv, SaveInv, Serve
  PROVE  SaveInv'
<1>1. CASE SaveXml
  <2>1. PICK r \in Codes :
          /\ PlainCommand(r)
          /\ \E bp \in get_cur_position(r, NoTarget) : config_' = WithPosition(bp)
    BY <1>1 DEF SaveXml
  <2>2. pc = "command" /\ pc' = "idle" /\ op = "savexml" /\ op' = op /\ TypeOK
    BY <1>1 DEF SaveXml, Inv
  <2>3. r = 0 /\ UNCHANGED <<jog, counter, goal>>
    BY <2>1, NoFault DEF PlainCommand, hw
  <2>4. PICK bp \in get_cur_position(0, NoTarget) : config_' = WithPosition(bp)
    BY <2>1, <2>3
  <2>5. \A a \in Axes : a \in DOMAIN bp /\ bp[a] = counter[a]
    BY <2>2, AllPositions, AllChannels
  <2>6. \A a \in Axes : config_'[a] = [config_[a] EXCEPT !.Position = counter[a]]
    BY <2>4, <2>5 DEF WithPosition
  <2>7. \A a \in Axes : config_'[a].Position = counter[a]
    BY <2>6 DEF Inv, TypeOK, ConfigRecord
  <2>8. file' = Torn /\ AtRest'
    BY <2>2, <2>3 DEF Serve, SaveInv, AtRest
  <2> QED BY <2>2, <2>3, <2>7, <2>8 DEF SaveInv
<1>2. CASE ~SaveXml
  <2>1. op' = op /\ ~(op = "savexml" /\ pc \in {"command", "idle"})
    BY <1>2, NotThrown DEF Serve, Handler, Connect, UpdateConfiguration, Commands, Moves, FirmwareID, SetNC,
       SelectFirst, JogOffConnected, SelectForUpdate, SendSpeeds, SendLowerLimit,
       SendUpperLimit, SendPosition, SetAxis, SetJog, UnsetJog, RawCommand, RawSelect, RawMove,
       RawMoveTo, RawLower, RawUpper, RawPosition, RawChannels, OneExchange, PrintPosition,
       SetZero, QueryAndDrop, LeaveInitMode, SelectForMove, MoveAxis, RestoreEnvironment, Ignored
  <2> QED BY <2>1 DEF SaveInv
<1> QED BY <1>1, <1>2

LEMMA CareServe ==
  ASSUME Careful, Faults = {}, NoRawSettings, FileInv, CareInv, Serve
  PROVE  CareInv'
<1>1. stopped = "no" /\ stopped' = "no" /\ Handler /\ [Next]_vars
      /\ shift' = ShiftAfter /\ origin' = OriginAfter
  BY ServeIsNext DEF Serve
<1>2. Inv /\ RunningInv /\ UntouchedInv
  BY <1>1 DEF FileInv, CareInv
<1>3. UntouchedInv' /\ SelInv' /\ LoopInv' /\ OffInv'
  BY <1>1, <1>2, UntouchedNext, SelNext, LoopNext, OffNext DEF RunningInv
<1>4. PlaceInv' /\ OriginInv'
  BY <1>1, <1>2, PlaceServe, OriginServe DEF RunningInv, FileInv
<1>5. SaveInv'
  BY <1>2, SaveServe DEF RunningInv
<1> QED BY <1>1, <1>3, <1>4, <1>5 DEF CareInv, RunningInv

LEMMA CareRequest ==
  ASSUME Careful, Faults = {}, NoRawSettings, FileInv, CareInv, Request
  PROVE  CareInv'
<1>1. stopped = "no" /\ stopped' = "no" /\ [Next]_vars /\ UNCHANGED <<shift, origin>>
  BY ServeIsNext DEF Request
<1>2. Inv /\ RunningInv /\ UntouchedInv
  BY <1>1 DEF FileInv, CareInv
<1>3. UntouchedInv' /\ SelInv' /\ LoopInv' /\ OffInv'
  BY <1>1, <1>2, UntouchedNext, SelNext, LoopNext, OffNext DEF RunningInv
<1>4. /\ pc = "idle" /\ pc' \in {"command", "select", "qp"}
      /\ UNCHANGED <<hw, init_, Offset, config_>>
      /\ pc' = "qp" => init_'
      /\ op' = "savexml" => pc' = "command" /\ AtRest
  <2>1. op' = "savexml" => AtRest
    BY DEF Request
  <2> QED BY <2>1 DEF Request, Requests, ReceiveNumber, ReceiveRaw, ReceivePlain, ReceiveMove,
                      ReceiveInitialZero, Receive, MoveOps
<1>5. pc \notin Busy /\ pc' \notin Busy
  BY <1>4 DEF Busy, Updating, Loading
<1>6. \A a \in Axes : ~Pending(a) /\ ~Pending(a)'
  BY <1>5 DEF Pending, Busy
<1>7. PlaceInv' /\ OriginInv'
  BY <1>1, <1>2, <1>4, <1>5, <1>6 DEF RunningInv, PlaceInv, OriginInv
<1>8. SaveInv'
  BY <1>4 DEF SaveInv, AtRest, hw
<1> QED BY <1>1, <1>3, <1>7, <1>8 DEF CareInv, RunningInv

\* The motors move only with a server, and not while it saves or connects.
LEMMA CareMove ==
  ASSUME Careful, Faults = {}, NoRawSettings, FileInv, CareInv, Move1
  PROVE  CareInv'
<1>1. /\ Motion /\ [Next]_vars
      /\ UNCHANGED <<board, handler, chosen, file, stopped, shift, origin>>
  BY ServeIsNext DEF Move1, Card
<1>2. ~AtRest
  <2>1. \A c : Step(c) => counter # goal
    BY DEF Step
  <2>2. \A d : Jog(d) => jog
    BY DEF Jog
  <2> QED BY <1>1, <2>1, <2>2 DEF Motion, AtRest
<1>3. stopped = "no" /\ Inv /\ RunningInv /\ UntouchedInv
  BY <1>2 DEF FileInv, CareInv, StoppedInv
<1>4. UntouchedInv' /\ SelInv' /\ LoopInv' /\ OffInv' /\ chan' = chan
  BY <1>1, <1>3, UntouchedNext, SelNext, LoopNext, OffNext, SelectionFrame DEF RunningInv
<1>5. op # "savexml" /\ (init_ \/ pc \notin Busy)
  BY <1>2, <1>3 DEF RunningInv, SaveInv, PlaceInv
<1>6. \A a \in Axes : (Pending(a)' <=> Pending(a)) /\ (Pending(a) => init_)
  BY <1>1, <1>5 DEF Pending, handler, Busy
<1>7. PlaceInv'
  BY <1>1, <1>3, <1>5, <1>6 DEF RunningInv, PlaceInv, board, handler
<1>8. OriginInv'
  BY <1>1, <1>3, <1>4 DEF RunningInv, OriginInv, Reset, board, handler
<1>9. SaveInv'
  BY <1>1, <1>5 DEF SaveInv, handler
<1> QED BY <1>1, <1>3, <1>4, <1>7, <1>8, <1>9 DEF CareInv, RunningInv

LEMMA CareCatchInt ==
  ASSUME Careful, Faults = {}, NoRawSettings, FileInv, CareInv, CatchInt
  PROVE  CareInv'
<1>1. /\ stopped = "no" /\ AtRest /\ pc = "idle" /\ UNCHANGED <<hw, shift, origin>>
      /\ stopped' \in {"saved", "unsaved"}
  BY DEF CatchInt
<1>2. Inv /\ RunningInv /\ UntouchedInv /\ connected_
  BY <1>1 DEF FileInv, CareInv, ConnInv, Busy, Updating, Loading
<1>3. PICK r \in Codes :
        /\ PlainCommand(r)
        /\ \E bp \in get_cur_position(r, ZeroPosition) : config_' = WithPosition(bp)
  BY <1>1, <1>2 DEF CatchInt
<1>4. r = 0 /\ TypeOK /\ \A a \in Axes : a <= nc
  BY <1>1, <1>2, <1>3, NoFault, AllChannels DEF PlainCommand, RunningInv, Inv
<1>5. PICK bp \in get_cur_position(0, ZeroPosition) : config_' = WithPosition(bp)
  BY <1>3, <1>4
<1>6. \A a \in Axes : a \in DOMAIN bp /\ bp[a] = counter[a]
  BY <1>4, AllPositions
<1>7. \A a \in Axes : config_'[a] = [config_[a] EXCEPT !.Position = counter[a]]
  BY <1>5, <1>6 DEF WithPosition
<1>8. \A a \in Axes : config_'[a].Position = counter[a] /\ config_'[a].offset = config_[a].offset
  BY <1>2, <1>7 DEF Inv, TypeOK, ConfigRecord
<1>9. file' = config_' /\ file' # Torn
  BY <1>2, CatchTree, TreeNotTorn DEF FileInv
<1>10. \A a \in Axes : /\ shift[a] = 0 /\ config_[a].offset = origin[a] /\ counter[a] \in Int
  BY <1>1, <1>2, BoardAssumption
     DEF RunningInv, PlaceInv, OriginInv, OffInv, UntouchedInv, Pending, Busy, Updating, Loading, Inv, TypeOK, PM381TypeOK
<1>11. \A a \in Axes : file'[a].Position = shift'[a] + counter'[a] /\ file'[a].offset = origin'[a]
  BY <1>1, <1>8, <1>9, <1>10 DEF hw
<1>12. UntouchedInv'
  BY <1>1, <1>2 DEF UntouchedInv, CatchInt, hw, handler
<1> QED BY <1>1, <1>9, <1>11, <1>12 DEF CareInv, StoppedInv, AtRest, hw

LEMMA CareKilled ==
  ASSUME Careful, FileInv, CareInv, Killed
  PROVE  CareInv'
<1>1. /\ stopped = "no" /\ stopped' = "killed" /\ op = "savexml" /\ pc = "idle" /\ file # Torn
      /\ UNCHANGED <<vars, file, shift, origin>>
  BY DEF Killed
<1>2. Inv /\ RunningInv /\ UntouchedInv
  BY <1>1 DEF FileInv, CareInv
<1>3. AtRest /\ file = config_ /\ \A a \in Axes : config_[a].Position = counter[a]
  BY <1>1, <1>2 DEF RunningInv, SaveInv
<1>4. \A a \in Axes : shift[a] = 0 /\ config_[a].offset = origin[a] /\ counter[a] \in Int
  BY <1>1, <1>2, BoardAssumption
     DEF RunningInv, PlaceInv, OriginInv, OffInv, UntouchedInv, Pending, Busy, Updating, Loading, Inv, TypeOK, PM381TypeOK
<1>5. \A a \in Axes : file[a].Position = shift[a] + counter[a] /\ file[a].offset = origin[a]
  BY <1>3, <1>4
<1>6. UntouchedInv'
  BY <1>1, <1>2 DEF UntouchedInv, vars, hw, handler
<1> QED BY <1>1, <1>3, <1>5, <1>6 DEF CareInv, StoppedInv, AtRest, vars, hw

LEMMA CarePowerCycle ==
  ASSUME FileInv, CareInv, PowerCycle
  PROVE  CareInv'
<1>1. /\ stopped # "no" /\ UNCHANGED <<file, stopped, origin>> /\ jog' = FALSE
      /\ counter' = [c \in Channels |-> 0] /\ goal' = counter'
      /\ shift' = [c \in Channels |-> shift[c] + counter[c]]
  BY DEF PowerCycle
<1>2. StoppedInv
  BY <1>1 DEF CareInv
<1>3. /\ shift \in [Channels -> Int] /\ counter \in [Channels -> Int] /\ Axes \subseteq Channels
  BY BoardAssumption DEF FileInv, Inv, TypeOK, PM381TypeOK
<1>4. \A a \in Axes : shift'[a] + counter'[a] = shift[a] + counter[a]
  BY <1>1, <1>3
<1>5. UntouchedInv'
  BY DEF PowerCycle, CareInv, UntouchedInv, handler
<1> QED BY <1>1, <1>2, <1>4, <1>5 DEF CareInv, StoppedInv, AtRest

LEMMA CareRestart ==
  ASSUME FileInv, CareInv, Restart
  PROVE  CareInv'
<1>1. /\ stopped # "no" /\ stopped' = "no"
      /\ init_' = FALSE /\ chosen' = 0
      /\ config_' = file /\ Offset' = [a \in Axes |-> file[a].offset]
      /\ pc' = "id" /\ op' = "connect" /\ todo' = Axes
      /\ UNCHANGED <<hw, file, shift, origin>>
  BY DEF Restart
<1>2. StoppedInv
  BY <1>1 DEF CareInv
<1>3. SelInv' /\ LoopInv' /\ OffInv'
  BY <1>1 DEF SelInv, Covered, MoveHitsAxis, LoopInv, OffInv, Loading
<1>4. AtRest' /\ \A a \in Axes : shift'[a] + counter'[a] = config_'[a].Position
  BY <1>1, <1>2 DEF StoppedInv, AtRest, hw
<1>5. PlaceInv'
  BY <1>1, <1>4 DEF PlaceInv, Pending
<1>6. OriginInv' /\ SaveInv'
  BY <1>1, <1>2 DEF OriginInv, SaveInv, StoppedInv
<1>7. UntouchedInv'
  BY <1>1 DEF CareInv, UntouchedInv, RawSettings, hw
<1> QED BY <1>1, <1>3, <1>5, <1>6, <1>7 DEF CareInv, RunningInv

LEMMA CareStill ==
  ASSUME Faults = {}, FileInv, CareInv, FinishWrite \/ UNCHANGED serverVars
  PROVE  CareInv'
<1>1. UNCHANGED vars /\ UNCHANGED <<stopped, shift, origin>>
  BY DEF FinishWrite, serverVars
<1>2. UNCHANGED <<chan, nc, jog, counter, goal, raw, init_, curaxis, envion, Offset, config_,
                  pc, op, todo, chosen>>
  BY <1>1 DEF vars, hw, board, handler
<1>3. (SelInv => SelInv') /\ (UntouchedInv => UntouchedInv')
  BY <1>2 DEF SelInv, Covered, MoveHitsAxis, NextInMap, UntouchedInv
<1>4. (LoopInv => LoopInv') /\ (OffInv => OffInv')
  BY <1>2 DEF LoopInv, NextInVector, OffInv, Loaded
<1>5. (PlaceInv => PlaceInv') /\ (OriginInv => OriginInv')
  BY <1>1, <1>2 DEF PlaceInv, Pending, AtRest, OriginInv, Reset
<1>6. stopped = "no" /\ SaveInv => SaveInv'
  BY <1>2 DEF SaveInv, AtRest, FinishWrite, writeconfig, serverVars
<1>7. stopped # "no" /\ StoppedInv => StoppedInv'
  BY <1>1, <1>2 DEF StoppedInv, AtRest, FinishWrite, serverVars
<1> QED BY <1>1, <1>3, <1>4, <1>5, <1>6, <1>7 DEF CareInv, RunningInv

LEMMA Care ==
  ASSUME Careful, Faults = {}, NoRawSettings
  PROVE  ServerSpec => [](FileInv /\ CareInv)
<1>1. FileInv /\ CareInv /\ [ServerNext]_serverVars => CareInv'
  BY CareServe, CareRequest, CareMove, CareCatchInt, CareKilled, CarePowerCycle, CareRestart,
     CareStill DEF ServerNext
<1> QED BY <1>1, CareInit, FileInit, FileNext, PTL DEF ServerSpec

\* The server never listens with a counter that is off the true position, over
\* any number of stops, power cycles and starts, if it is stopped or killed
\* only when idle and at rest, and no client sets positions, limits or
\* channels by raw commands (catch_int, savexml, UpdateConfiguration).
THEOREM CalibratedInvariant ==
  ASSUME Careful, Faults = {}, NoRawSettings
  PROVE  ServerSpec => []Calibrated
<1>1. CareInv => Calibrated
  BY DEF CareInv, RunningInv, PlaceInv, Pending, Updating, Loading, Calibrated
<1> QED BY <1>1, Care, PTL

\* Under the same conditions the user's zero survives all of it.
THEOREM OriginKeptInvariant ==
  ASSUME Careful, Faults = {}, NoRawSettings
  PROVE  ServerSpec => []OriginKept
<1>1. FileInv /\ CareInv => OriginKept
  <2> SUFFICES ASSUME FileInv, CareInv, stopped = "no", pc = "idle", NEW a \in Axes
               PROVE  shift[a] + Offset[a] = origin[a]
    BY DEF OriginKept
  <2>1. shift[a] = 0 /\ Offset[a] = origin[a]
    BY DEF CareInv, RunningInv, PlaceInv, OriginInv, Pending, Busy, Updating, Loading
  <2>2. Offset[a] \in Int
    BY DEF FileInv, Inv, TypeOK
  <2> QED BY <2>1, <2>2
<1> QED BY <1>1, Care, PTL

\* Under the same conditions catch_int saves where the axes are.
THEOREM SavedIsCurrentInvariant ==
  ASSUME Careful, Faults = {}, NoRawSettings
  PROVE  ServerSpec => []SavedIsCurrent
<1>1. FileInv /\ CareInv => SavedIsCurrent
  <2> SUFFICES ASSUME FileInv, CareInv, stopped = "saved", NEW a \in Axes
               PROVE  file[a].Position = counter[a] + shift[a]
    BY DEF SavedIsCurrent
  <2>1. file[a].Position = shift[a] + counter[a]
    BY DEF CareInv, StoppedInv
  <2>2. shift[a] \in Int /\ counter[a] \in Int
    BY BoardAssumption DEF FileInv, Inv, TypeOK, PM381TypeOK
  <2> QED BY <2>1, <2>2
<1> QED BY <1>1, Care, PTL
=============================================================================
