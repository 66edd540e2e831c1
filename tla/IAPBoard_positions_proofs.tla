---------------------- MODULE IAPBoard_positions_proofs ----------------------
(***************************************************************************)
(* Where the motors go when nothing fails on the serial line: they stay    *)
(* within the soft limits, moves land where they were asked to, and zeroed *)
(* axes read zero.                                                         *)
(***************************************************************************)
EXTENDS IAPBoard_faultless_proofs

-----------------------------------------------------------------------------
(* Raw commands.                                                           *)

\* No client has spoken while the server connects, and only a server in
\* initialize mode goes over its axes again.
RawInv ==
  /\ pc \in {"id", "nc"} => op = "connect"
  /\ op = "connect" => raw = {}
  /\ pc \in Updating \cup {"qp"} => op = "connect" \/ init_

LEMMA RawNext ==
  ASSUME Faults = {}, RawInv, [Next]_vars
  PROVE  RawInv'
<1>1. ASSUME UNCHANGED <<op, init_>>, op = "connect" => raw' \subseteq raw,
             pc' \notin {"id", "nc"},
             pc' \in Updating \cup {"qp"} => pc \in Updating \cup {"qp"}
      PROVE  RawInv'
  BY <1>1 DEF RawInv
<1>2. CASE FirmwareID \/ SetNC
  <2>1. raw' = raw
    BY <1>2, NoFault, SelectionFrame DEF FirmwareID, SetNC, Ignored, NumberOfChannels
  <2>2. op' = op /\ pc \in {"id", "nc"}
    BY <1>2 DEF FirmwareID, SetNC, Ignored
  <2> QED BY <2>1, <2>2 DEF RawInv
<1>3. CASE SelectFirst \/ JogOffConnected
  <2>1. raw' = raw
    BY <1>3, NoFault, SelectionFrame DEF SelectFirst, JogOffConnected, Channel
  <2> QED BY <1>1, <1>3, <2>1 DEF SelectFirst, JogOffConnected, board, Updating, Loading
<1>4. CASE SelectForUpdate
  <2>1. PICK a \in Axes, r \in Codes :
          setaxisnum(r, a) /\ IF r < 0 THEN NextAxis(a) ELSE pc' = "speeds"
    BY <1>4 DEF SelectForUpdate
  <2>2. raw' = raw
    BY <2>1, SetAxisNum, SelectionFrame DEF Channel
  <2>3. pc' \in {"config", "speeds", "ch1", "zeroed"}
    BY <2>1 DEF NextAxis, AfterAxes
  <2> QED BY <1>1, <1>4, <2>2, <2>3 DEF SelectForUpdate, Updating
<1>5. CASE SendSpeeds \/ SendLowerLimit \/ SendUpperLimit
  <2>1. raw' = raw
    BY <1>5, NoFault, SelectionFrame DEF SendSpeeds, SendLowerLimit, SendUpperLimit, Ignored
  <2> QED BY <1>1, <1>5, <2>1 DEF SendSpeeds, SendLowerLimit, SendUpperLimit, Ignored, board,
                                  Updating, Loading
<1>6. CASE SendPosition
  <2>1. PICK a \in Axes, r \in Codes :
          send_command(r, TRUE, SetPosition(config_[a].Position, raw \ {chan})) /\ NextAxis(a)
    BY <1>6 DEF SendPosition
  <2>2. raw' = raw \ {chan}
    BY <2>1, NoFault, SelectionFrame
  <2>3. pc' \in {"config", "ch1", "zeroed"}
    BY <2>1 DEF NextAxis, AfterAxes
  <2> QED BY <1>1, <1>6, <2>2, <2>3 DEF SendPosition, board, Updating, Loading
<1>7. CASE RawCommand
  <2>1. /\ op \in {"rawselect", "rawmove", "rawmoveto", "rawlower", "rawupper", "rawposition",
                    "rawchannels"}
        /\ pc' = "idle" /\ UNCHANGED <<op, init_>>
    BY <1>7 DEF RawCommand, RawSelect, RawMove, RawMoveTo, RawLower, RawUpper, RawPosition,
       RawChannels, OneExchange, board
  <2> QED BY <1>1, <2>1 DEF Updating, Loading
<1>8. CASE SetAxis \/ SetJog \/ UnsetJog
  <2>1. raw' = raw
    BY <1>8, NoFault, SetAxisNum, SelectionFrame
       DEF SetAxis, SetJog, UnsetJog, OneExchange, Channel
  <2> QED BY <1>1, <1>8, <2>1 DEF SetAxis, SetJog, UnsetJog, OneExchange, board, Updating, Loading
<1>9. CASE PrintPosition \/ SetZero \/ SaveXml \/ QueryAndDrop
  <2>1. raw' = raw
    BY <1>9, NoFault, SelectionFrame
       DEF PrintPosition, SetZero, SaveXml, QueryAndDrop, PlainCommand, Ignored
  <2> QED BY <1>1, <1>9, <2>1 DEF PrintPosition, SetZero, SaveXml, QueryAndDrop, Ignored, board,
                                  Updating, Loading
<1>10. CASE LeaveInitMode
  BY <1>10 DEF LeaveInitMode, RawInv, Updating, Loading, hw
<1>11. CASE Moves
  <2>1. raw' = raw
    BY <1>11, NoFault, SelectionFrame DEF Moves, SelectForMove, MoveAxis, RestoreEnvironment,
       Ignored, save_setaxisnum, Channel
  <2> QED BY <1>1, <1>11, <2>1 DEF Moves, SelectForMove, MoveAxis, RestoreEnvironment, Ignored,
                                   board, Updating, Loading
<1>12. CASE Requests
  <2>1. /\ op' \in Ops /\ init_' = init_
        /\ pc' \in {"command", "qp", "select"} /\ (pc' = "qp" => init_)
    BY <1>12 DEF Requests, ReceiveNumber, ReceiveRaw, ReceivePlain, ReceiveMove,
                 ReceiveInitialZero, Receive
  <2>2. op' # "connect"
    BY <2>1, BoardAssumption DEF OpNames, RawOps, RawSettings
  <2> QED BY <2>1, <2>2 DEF RawInv, Updating, Loading
<1>13. CASE Card \/ UNCHANGED vars
  <2>1. UNCHANGED <<raw, op, pc, init_>>
    BY <1>13, SelectionFrame DEF Card, vars, board, handler, hw
  <2> QED BY <2>1 DEF RawInv
<1> QED BY <1>2, <1>3, <1>4, <1>5, <1>6, <1>7, <1>8, <1>9, <1>10, <1>11, <1>12, <1>13, NotThrown
        DEF Next, Handler, Connect, UpdateConfiguration, Commands

LEMMA RawSettingsTracked ==
  ASSUME Faults = {}
  PROVE  Spec => [](Inv /\ SelInv /\ LoopInv /\ RawInv)
<1>1. Init => RawInv
  BY DEF Init, PM381Init, RawInv, Updating, Loading
<1>2. RawInv /\ [Next]_vars => RawInv'
  BY RawNext
<1> QED BY <1>1, <1>2, Loops, PTL DEF Spec

-----------------------------------------------------------------------------
(* Soft limits.                                                            *)

\* The server has set the axis, and no client since.
Stands(a) == ~Pending(a) /\ a \notin raw

LowerSent(a) == Stands(a) \/ (pc \in {"ul", "sp"} /\ a = chan)
UpperSent(a) == Stands(a) \/ (pc = "sp" /\ a = chan)

Inside(a, p) == config_[a].LowerLimit <= p /\ p <= config_[a].UpperLimit

\* Limits that have been sent are those of the configuration, and an axis
\* that has been configured stays within them, as does what the file may get.
LimInv ==
  /\ \A a \in Axes : LowerSent(a) => lower[a] = config_[a].LowerLimit
  /\ \A a \in Axes : UpperSent(a) => upper[a] = config_[a].UpperLimit
  /\ \A a \in Axes : a \notin raw \/ Loaded(a) => Inside(a, config_[a].Position)
  /\ \A a \in Axes : Stands(a) => Inside(a, counter[a]) /\ Inside(a, goal[a])

\* The file that the server starts from has every axis within its limits.
FileWithinLimits ==
  \A a \in Axes : InitialConfig[a].Position \in InitialConfig[a].LowerLimit .. InitialConfig[a].UpperLimit

LEMMA LimInit == ASSUME FileWithinLimits PROVE Init => LimInv
<1> SUFFICES ASSUME Init PROVE LimInv
  OBVIOUS
<1>1. pc = "id" /\ todo = Axes /\ config_ = InitialConfig
  BY DEF Init
<1>2. \A a \in Axes : Pending(a) /\ ~LowerSent(a) /\ ~UpperSent(a)
  BY <1>1 DEF Stands, Pending, LowerSent, UpperSent, Updating
<1>3. \A a \in Axes : Inside(a, config_[a].Position)
  BY <1>1 DEF FileWithinLimits, Inside
<1> QED BY <1>2, <1>3 DEF LimInv, Stands

\* The limits of the configuration.
SameLimits == \A a \in Axes : /\ config_'[a].LowerLimit = config_[a].LowerLimit
                              /\ config_'[a].UpperLimit = config_[a].UpperLimit

\* A step outside of the configuration of axes: at most a move that the card
\* has found legal, positions put into the configuration, and raw settings.
LEMMA LimOutside ==
  ASSUME Inv, LimInv, pc \notin Busy, pc' \notin Busy \ {"config"}, raw \subseteq raw', SameLimits,
         \A a \in Axes \ raw' :
           /\ lower'[a] = lower[a] /\ upper'[a] = upper[a] /\ counter'[a] = counter[a]
           /\ goal'[a] = goal[a] \/ (lower[a] <= goal'[a] /\ goal'[a] <= upper[a])
           /\ config_'[a].Position \in {config_[a].Position, counter[a]}
  PROVE  LimInv'
<1>1. \A a \in Axes \ raw : Stands(a) /\ LowerSent(a) /\ UpperSent(a)
  BY DEF Busy, Pending, Stands, LowerSent, UpperSent
<1>2. /\ \A a \in Axes : LowerSent(a)' \/ UpperSent(a)' \/ Stands(a)' => a \notin raw'
      /\ \A a \in Axes : ~Loaded(a)'
  BY DEF Stands, LowerSent, UpperSent, Loaded, Busy, Updating, Loading
<1>3. \A a \in Axes \ raw' : lower'[a] = config_'[a].LowerLimit /\ upper'[a] = config_'[a].UpperLimit
  BY <1>1 DEF LimInv, SameLimits
<1>4. \A a \in Axes \ raw' :
        Inside(a, config_[a].Position)' /\ Inside(a, counter[a])' /\ Inside(a, goal[a])'
  BY <1>1, <1>3 DEF LimInv, SameLimits, Inside
<1> QED BY <1>2, <1>3, <1>4 DEF LimInv

\* Commands that do not touch limits and counters.
LEMMA LimitsFrame ==
  /\ UNCHANGED hw => UNCHANGED <<lower, upper, counter, goal, raw>>
  /\ \A n : Channel(n) => UNCHANGED <<lower, upper, counter, goal, raw>>
  /\ \A n, s : NumberOfChannels(n, s) => UNCHANGED <<lower, upper, counter, goal>> /\ raw' = s
  /\ \A on : JogMode(on) => UNCHANGED <<lower, upper, counter, goal, raw>>
BY DEF hw, Channel, NumberOfChannels, JogMode

LEMMA LegalMove ==
  ASSUME Inv, NEW p \in Int, MoveLegal(p), Move(p)
  PROVE  /\ UNCHANGED <<lower, upper, counter, raw>>
         /\ \A a \in Axes : goal'[a] = goal[a] \/ (lower[a] <= goal'[a] /\ goal'[a] <= upper[a])
<1>1. goal \in [Channels -> Int] /\ Axes \subseteq Channels
  BY BoardAssumption DEF Inv, TypeOK, PM381TypeOK
<1> QED BY <1>1 DEF Move, MoveLegal

LEMMA LimConnect ==
  ASSUME Faults = {}, Inv, LoopInv, LimInv, Connect
  PROVE  LimInv'
<1>1. CASE FirmwareID \/ SetNC
  <2>1. UNCHANGED <<lower, upper, counter, goal, raw>>
    BY <1>1, NoFault, LimitsFrame DEF FirmwareID, SetNC, Ignored
  <2>2. /\ pc \in {"id", "nc"} /\ pc' \in {"nc", "config"}
        /\ UNCHANGED <<todo, config_>>
    BY <1>1 DEF FirmwareID, SetNC, Ignored, board
  <2>3. todo = Axes
    BY <2>2 DEF LoopInv
  <2>4. \A a \in Axes : Pending(a)' /\ ~LowerSent(a)' /\ ~UpperSent(a)' /\ ~Loaded(a)'
    BY <2>2, <2>3 DEF Pending, Stands, LowerSent, UpperSent, Updating, Loaded, Loading
  <2>5. \A a \in Axes : a \notin raw => Inside(a, config_[a].Position)'
    BY <2>2 DEF LimInv, Inside
  <2> QED BY <2>1, <2>4, <2>5 DEF LimInv, Stands
<1>2. CASE SelectFirst \/ JogOffConnected
  <2>1. UNCHANGED <<lower, upper, counter, goal, raw>>
    BY <1>2, NoFault, LimitsFrame DEF SelectFirst, JogOffConnected
  <2>2. pc \notin Busy /\ pc' \notin Busy /\ UNCHANGED config_
    BY <1>2 DEF SelectFirst, JogOffConnected, board, Busy, Updating, Loading
  <2> QED BY <2>1, <2>2, LimOutside DEF SameLimits
<1> QED BY <1>1, <1>2 DEF Connect

\* Soft limits that initialisation sets include 0.
LEMMA ResetInside ==
  ASSUME Inv, NEW a \in Axes, NEW final \in BOOLEAN, config_' = ResetConfig(a, final)
  PROVE  /\ \A b \in Axes \ {a} : config_'[b] = config_[b]
         /\ Inside(a, config_[a].Position)'
<1>1. Travel[a] \in TravelRecord /\ a \in DOMAIN config_
  BY BoardAssumption DEF Inv, TypeOK
<1>2. SoftLimits(a, final).low <= 0 /\ 0 <= SoftLimits(a, final).high
  BY <1>1 DEF SoftLimits, TravelRecord
<1> QED BY <1>1, <1>2 DEF ResetConfig, Inside

LEMMA LimUpdate ==
  ASSUME Faults = {}, Inv, SelInv, LoopInv, RawInv, LimInv, UpdateConfiguration
  PROVE  LimInv'
<1> TypeOK /\ Axes \subseteq Channels
  BY BoardAssumption DEF Inv
<1>1. CASE SelectForUpdate
  <2>1. PICK a \in Axes, r \in Codes :
          /\ NextInVector(a)
          /\ config_' = IF init_ THEN ResetConfig(a, op = "initialzero") ELSE config_
          /\ setaxisnum(r, a)
          /\ IF r < 0 THEN NextAxis(a) ELSE pc' = "speeds" /\ UNCHANGED todo
    BY <1>1 DEF SelectForUpdate
  <2>2. pc = "config"
    BY <1>1 DEF SelectForUpdate
  <2>3. \A b \in Axes \ {a} : config_'[b] = config_[b]
    BY <2>1 DEF ResetConfig
  <2>4. UNCHANGED <<lower, upper, counter, goal, raw>>
    BY <2>1, SetAxisNum, LimitsFrame
  <2>5. /\ \A b \in Axes : Pending(b) <=> b \in todo
        /\ \A b \in Axes : Stands(b) => LowerSent(b) /\ UpperSent(b)
    BY <2>2 DEF Pending, Stands, LowerSent, UpperSent, Updating
  <2>6. CASE r = 0 /\ Channel(a)
    <3>1. chan' = a /\ todo' = todo /\ pc' = "speeds" /\ a \in todo
      BY <2>1, <2>6 DEF Channel, NextInVector
    <3>2. /\ \A b \in Axes : Stands(b)' <=> Stands(b)
          /\ \A b \in Axes : LowerSent(b)' <=> Stands(b)
          /\ \A b \in Axes : UpperSent(b)' <=> Stands(b)
          /\ \A b \in Axes : Loaded(b)' <=> b = a
          /\ ~Stands(a)
      BY <2>2, <2>4, <2>5, <3>1 DEF Pending, Stands, LowerSent, UpperSent, Loaded, Updating, Loading
    <3>3. Inside(a, config_[a].Position)'
      <4>1. CASE init_
        BY <2>1, <4>1, ResetInside
      <4>2. CASE ~init_
        <5>1. raw = {}
          BY <2>2, <4>2 DEF RawInv, Updating
        <5> QED BY <2>1, <4>2, <5>1 DEF LimInv, Inside
      <4> QED BY <4>1, <4>2
    <3>4. \A b \in Axes \ {a} : b \notin raw => Inside(b, config_[b].Position)'
      BY <2>3 DEF LimInv, Inside
    <3>5. \A b \in Axes : Stands(b) =>
            /\ lower[b] = config_[b].LowerLimit /\ upper[b] = config_[b].UpperLimit
            /\ Inside(b, counter[b]) /\ Inside(b, goal[b]) /\ config_'[b] = config_[b]
      BY <2>3, <2>5, <3>2 DEF LimInv
    <3> QED BY <2>4, <3>2, <3>3, <3>4, <3>5 DEF LimInv, Inside
  \* An axis that a client has cut off is left out.
  <2>7. CASE r < 0 /\ ~ChannelLegal(a) /\ UNCHANGED hw
    <3>1. a \in raw
      <4>1. ~(a <= nc)
        BY <2>7, ChannelFacts DEF ChannelLegal
      <4> QED BY <2>2, <4>1 DEF SelInv, Covered
    <3>2. todo' = todo \ {a} /\ pc' \in {"config", "ch1", "zeroed"} /\ (pc' # "config" => todo' = {})
      BY <2>1, <2>7 DEF NextAxis, AfterAxes
    <3>3. /\ \A b \in Axes : Stands(b)' <=> Stands(b)
          /\ \A b \in Axes : LowerSent(b)' <=> Stands(b)
          /\ \A b \in Axes : UpperSent(b)' <=> Stands(b)
          /\ \A b \in Axes : ~Loaded(b)'
      BY <2>2, <2>4, <2>5, <3>1, <3>2 DEF Pending, Stands, LowerSent, UpperSent, Loaded,
         Updating, Loading
    <3>4. \A b \in Axes : b \notin raw => Inside(b, config_[b].Position)'
      BY <2>3, <3>1 DEF LimInv, Inside
    <3>5. \A b \in Axes : Stands(b) =>
            /\ lower[b] = config_[b].LowerLimit /\ upper[b] = config_[b].UpperLimit
            /\ Inside(b, counter[b]) /\ Inside(b, goal[b]) /\ config_'[b] = config_[b]
      BY <2>3, <2>5, <3>1 DEF LimInv, Stands
    <3> QED BY <2>4, <3>3, <3>4, <3>5 DEF LimInv, Inside
  <2> QED BY <2>1, <2>6, <2>7, SetAxisNum
<1>2. CASE SendSpeeds
  <2>1. UNCHANGED hw
    BY <1>2, NoFault DEF SendSpeeds, Ignored
  <2>2. pc = "speeds" /\ pc' = "ll" /\ UNCHANGED <<todo, config_>>
    BY <1>2 DEF SendSpeeds, Ignored, board
  <2>4. \A b \in Axes : /\ Stands(b)' <=> Stands(b)
                        /\ LowerSent(b)' <=> LowerSent(b)
                        /\ UpperSent(b)' <=> UpperSent(b)
                        /\ Loaded(b)' <=> Loaded(b)
    BY <2>1, <2>2 DEF Pending, Stands, LowerSent, UpperSent, Loaded, Updating, Loading, hw
  <2> QED BY <2>1, <2>2, <2>4 DEF LimInv, Inside, hw
<1>3. CASE SendLowerLimit
  <2>1. PICK a \in Axes : NextInVector(a)
                          /\ Ignored("ll", "ul", TRUE, LowerLimit(config_[a].LowerLimit, raw))
    BY <1>3 DEF SendLowerLimit
  <2>2. pc = "ll" /\ pc' = "ul" /\ UNCHANGED <<todo, config_>> /\ chan = a
    BY <2>1, TheAxis DEF Ignored, board, Loading
  <2>3. LowerLimit(config_[a].LowerLimit, raw)
    BY <2>1, NoFault DEF Ignored
  <2>4. /\ chan' = a /\ UNCHANGED <<upper, counter, goal, raw>>
        /\ lower' = [lower EXCEPT ![a] = config_[a].LowerLimit]
    BY <2>2, <2>3 DEF LowerLimit
  <2>6. \A b \in Axes : /\ Stands(b)' <=> Stands(b)
                        /\ LowerSent(b)' => b = a \/ LowerSent(b)
                        /\ UpperSent(b)' <=> UpperSent(b)
                        /\ Loaded(b)' <=> Loaded(b)
    BY <2>2, <2>4 DEF Pending, Stands, LowerSent, UpperSent, Loaded, Updating, Loading
  <2>7. lower \in [Channels -> Int]
    BY DEF TypeOK, PM381TypeOK
  <2> QED BY <2>2, <2>4, <2>6, <2>7 DEF LimInv, Inside
<1>4. CASE SendUpperLimit
  <2>1. PICK a \in Axes : NextInVector(a)
                          /\ Ignored("ul", "sp", TRUE, UpperLimit(config_[a].UpperLimit, raw))
    BY <1>4 DEF SendUpperLimit
  <2>2. pc = "ul" /\ pc' = "sp" /\ UNCHANGED <<todo, config_>> /\ chan = a
    BY <2>1, TheAxis DEF Ignored, board, Loading
  <2>3. UpperLimit(config_[a].UpperLimit, raw)
    BY <2>1, NoFault DEF Ignored
  <2>4. /\ chan' = a /\ UNCHANGED <<lower, counter, goal, raw>>
        /\ upper' = [upper EXCEPT ![a] = config_[a].UpperLimit]
    BY <2>2, <2>3 DEF UpperLimit
  <2>6. \A b \in Axes : /\ Stands(b)' <=> Stands(b)
                        /\ LowerSent(b)' <=> LowerSent(b)
                        /\ UpperSent(b)' => b = a \/ UpperSent(b)
                        /\ Loaded(b)' <=> Loaded(b)
    BY <2>2, <2>4 DEF Pending, Stands, LowerSent, UpperSent, Loaded, Updating, Loading
  <2>7. upper \in [Channels -> Int]
    BY DEF TypeOK, PM381TypeOK
  <2> QED BY <2>2, <2>4, <2>6, <2>7 DEF LimInv, Inside
<1>5. CASE SendPosition
  <2>1. PICK a \in Axes, r \in Codes :
          /\ NextInVector(a)
          /\ send_command(r, TRUE, SetPosition(config_[a].Position, raw \ {chan}))
          /\ NextAxis(a)
    BY <1>5 DEF SendPosition
  <2>2. pc = "sp" /\ UNCHANGED config_ /\ chan = a
    BY <1>5, <2>1, TheAxis DEF SendPosition, board, Loading
  <2>3. SetPosition(config_[a].Position, raw \ {chan})
    BY <2>1, NoFault
  <2>4. /\ UNCHANGED <<lower, upper>> /\ raw' = raw \ {a}
        /\ counter' = [counter EXCEPT ![a] = config_[a].Position]
        /\ goal' = [goal EXCEPT ![a] = config_[a].Position]
    BY <2>2, <2>3 DEF SetPosition
  <2>5. /\ todo' = todo \ {a} /\ a \in todo
        /\ pc' = "config" \/ (pc' \in {"ch1", "zeroed"} /\ todo' = {})
    BY <2>1 DEF NextAxis, NextInVector, AfterAxes
  <2>7. \A b \in Axes : /\ Stands(b)' <=> Stands(b) \/ b = a
                        /\ LowerSent(b)' <=> LowerSent(b)
                        /\ UpperSent(b)' <=> UpperSent(b)
                        /\ ~Loaded(b)'
    BY <2>2, <2>4, <2>5 DEF Pending, Stands, LowerSent, UpperSent, Loaded, Updating, Loading
  <2>8. counter \in [Channels -> Int] /\ goal \in [Channels -> Int]
    BY DEF TypeOK, PM381TypeOK
  <2>9. Loaded(a)
    BY <2>2 DEF Loaded, Loading
  <2> QED BY <2>2, <2>4, <2>7, <2>8, <2>9 DEF LimInv, Inside
<1> QED BY <1>1, <1>2, <1>3, <1>4, <1>5 DEF UpdateConfiguration

LEMMA LimCommands ==
  ASSUME Faults = {}, Inv, SelInv, LimInv, Commands
  PROVE  LimInv'
<1>1. pc \in {"command", "qp", "zeroed"} /\ pc' \in {"idle", "config"}
  BY DEF Commands, SetAxis, SetJog, UnsetJog, RawCommand, RawSelect, RawMove, RawMoveTo,
         RawLower, RawUpper, RawPosition, RawChannels, OneExchange, PrintPosition,
         SetZero, SaveXml, QueryAndDrop, LeaveInitMode, Ignored
<1>2. pc \notin Busy /\ pc' \notin Busy \ {"config"}
  BY <1>1 DEF Busy, Updating, Loading
\* Commands that change neither limits nor positions nor goals.
<1>3. ASSUME UNCHANGED <<lower, upper, counter, goal, raw>>, UNCHANGED config_
      PROVE  LimInv'
  BY <1>2, <1>3, LimOutside DEF SameLimits
<1>4. ASSUME NEW r \in Codes, PlainCommand(r)
      PROVE  UNCHANGED <<lower, upper, counter, goal, raw>>
  BY <1>4, NoFault, LimitsFrame DEF PlainCommand
<1>5. CASE SetAxis
  <2>1. PICK r \in Codes : setaxisnum(r, arg)
    BY <1>5 DEF SetAxis
  <2>2. Channel(arg) \/ UNCHANGED hw
    BY <2>1, SetAxisNum
  <2> QED BY <1>3, <1>5, <2>2, LimitsFrame DEF SetAxis
<1>6. CASE SetJog \/ UnsetJog
  <2>1. UNCHANGED <<lower, upper, counter, goal, raw>>
    BY <1>6, NoFault, LimitsFrame DEF SetJog, UnsetJog, OneExchange
  <2> QED BY <1>3, <1>6, <2>1 DEF SetJog, UnsetJog, OneExchange, board
<1>7. CASE RawSelect
  <2>1. UNCHANGED <<lower, upper, counter, goal, raw>>
    BY <1>7, NoFault, LimitsFrame DEF RawSelect, OneExchange
  <2> QED BY <1>3, <1>7, <2>1 DEF RawSelect, OneExchange, board
<1>8. CASE RawMove \/ RawMoveTo
  <2> DEFINE q == IF op = "rawmove" THEN counter[chan] + arg ELSE arg
  <2>1. PICK r \in Codes : send_command(r, MoveLegal(q), Move(q))
    BY <1>8 DEF RawMove, RawMoveTo, OneExchange
  <2>2. q \in Int
    BY DEF Inv, TypeOK, PM381TypeOK
  <2>3. PICK p \in Int : p = q
    BY <2>2
  <2> HIDE DEF q
  <2>4. \/ MoveLegal(p) /\ Move(p)
        \/ UNCHANGED hw
    BY <2>1, <2>3, NoFault
  <2>5. /\ UNCHANGED <<lower, upper, counter, raw>>
        /\ \A a \in Axes : goal'[a] = goal[a] \/ (lower[a] <= goal'[a] /\ goal'[a] <= upper[a])
    BY <2>4, LegalMove, LimitsFrame
  <2>6. UNCHANGED config_
    BY <1>8 DEF RawMove, RawMoveTo, OneExchange, board
  <2> QED BY <1>2, <2>5, <2>6, LimOutside DEF SameLimits
\* A channel that a raw command sets is one of raw from then on.
<1>13. CASE RawLower \/ RawUpper \/ RawPosition
  <2>1. PICK r \in Codes : \/ send_command(r, TRUE, LowerLimit(arg, raw \cup {chan}))
                          \/ send_command(r, TRUE, UpperLimit(arg, raw \cup {chan}))
                          \/ send_command(r, TRUE, SetPosition(arg, raw \cup {chan}))
    BY <1>13 DEF RawLower, RawUpper, RawPosition, OneExchange
  <2>2. \/ LowerLimit(arg, raw \cup {chan})
        \/ UpperLimit(arg, raw \cup {chan})
        \/ SetPosition(arg, raw \cup {chan})
    BY <2>1, NoFault
  <2>3. /\ counter \in [Channels -> Int] /\ goal \in [Channels -> Int]
        /\ lower \in [Channels -> Int] /\ upper \in [Channels -> Int]
        /\ Axes \subseteq Channels
    BY BoardAssumption DEF Inv, TypeOK, PM381TypeOK
  <2>4. /\ raw' = raw \cup {chan}
        /\ \A a \in Axes \ {chan} : /\ lower'[a] = lower[a] /\ upper'[a] = upper[a]
                                     /\ counter'[a] = counter[a] /\ goal'[a] = goal[a]
    BY <2>2, <2>3 DEF LowerLimit, UpperLimit, SetPosition
  <2>5. UNCHANGED config_
    BY <1>13 DEF RawLower, RawUpper, RawPosition, OneExchange, board
  <2> QED BY <1>2, <2>4, <2>5, LimOutside DEF SameLimits
<1>14. CASE RawChannels
  <2>1. UNCHANGED <<lower, upper, counter, goal>> /\ raw \subseteq raw'
    BY <1>14, NoFault, LimitsFrame DEF RawChannels, OneExchange
  <2>2. UNCHANGED config_
    BY <1>14 DEF RawChannels, OneExchange, board
  <2> QED BY <1>2, <2>1, <2>2, LimOutside DEF SameLimits
<1>9. CASE PrintPosition \/ QueryAndDrop
  <2>1. UNCHANGED <<lower, upper, counter, goal, raw>>
    BY <1>9, NoFault, LimitsFrame DEF PrintPosition, QueryAndDrop, Ignored
  <2> QED BY <1>3, <1>9, <2>1 DEF PrintPosition, QueryAndDrop, Ignored, board
<1>10. CASE SetZero
  <2>1. PICK bp : config_' = WithOffset(bp)
    BY <1>10 DEF SetZero
  <2>2. UNCHANGED <<lower, upper, counter, goal, raw>>
    BY <1>4, <1>10 DEF SetZero
  <2>3. \A a \in Axes : /\ config_'[a].Position = config_[a].Position
                        /\ config_'[a].LowerLimit = config_[a].LowerLimit
                        /\ config_'[a].UpperLimit = config_[a].UpperLimit
    BY <2>1 DEF WithOffset, ConfigRecord, Inv, TypeOK
  <2> QED BY <1>2, <2>2, <2>3, LimOutside DEF SameLimits
<1>11. CASE SaveXml
  <2>1. PICK r \in Codes : /\ PlainCommand(r)
                           /\ \E bp \in get_cur_position(r, NoTarget) : config_' = WithPosition(bp)
    BY <1>11 DEF SaveXml
  <2>2. r = 0 /\ UNCHANGED <<lower, upper, counter, goal, raw>>
    BY <1>4, <2>1, NoFault DEF PlainCommand
  <2>3. PICK bp : /\ config_' = WithPosition(bp)
                  /\ \A a \in DOMAIN bp \cap Axes : bp[a] = counter[a]
    <3>1. PICK bp \in get_cur_position(r, NoTarget) : config_' = WithPosition(bp)
      BY <2>1
    <3>2. PICK t \in Tokens(r) :
            bp = [a \in DOMAIN t \cup {} |-> IF a \in DOMAIN t THEN t[a] ELSE NoTarget[a]]
      BY <3>1 DEF get_cur_position, NoTarget
    <3>3. t = [a \in Axes \cap (1 .. nc) |-> counter[a]]
      BY <2>2, <3>2 DEF Tokens
    <3>4. bp = [a \in DOMAIN t |-> t[a]]
      BY <3>2
    <3> QED BY <3>1, <3>3, <3>4
  <2>4. \A a \in Axes : /\ config_'[a].Position \in {config_[a].Position, counter[a]}
                        /\ config_'[a].LowerLimit = config_[a].LowerLimit
                        /\ config_'[a].UpperLimit = config_[a].UpperLimit
    BY <2>3 DEF WithPosition, ConfigRecord, Inv, TypeOK
  <2> QED BY <1>2, <2>2, <2>4, LimOutside DEF SameLimits
<1>12. CASE LeaveInitMode
  BY <1>3, <1>12 DEF LeaveInitMode, hw
<1> QED BY <1>5, <1>6, <1>7, <1>8, <1>9, <1>10, <1>11, <1>12, <1>13, <1>14 DEF Commands, RawCommand

LEMMA LimRequests ==
  ASSUME Inv, LimInv, Requests
  PROVE  LimInv'
<1>1. /\ pc = "idle" /\ pc' \in {"command", "qp", "select"}
      /\ UNCHANGED <<hw, config_>>
  BY DEF Requests, ReceiveNumber, ReceiveRaw, ReceivePlain, ReceiveMove,
         ReceiveInitialZero, Receive
<1>2. pc \notin Busy /\ pc' \notin Busy \ {"config"}
  BY <1>1 DEF Busy, Updating, Loading
<1> QED BY <1>1, <1>2, LimOutside DEF SameLimits, hw

LEMMA LimMoves ==
  ASSUME Faults = {}, Inv, LimInv, Moves
  PROVE  LimInv'
<1>1. CASE SelectForMove \/ RestoreEnvironment
  <2>1. UNCHANGED <<lower, upper, counter, goal, raw>>
    BY <1>1, NoFault, LimitsFrame
       DEF SelectForMove, RestoreEnvironment, save_setaxisnum, Ignored
  <2>2. pc \notin Busy /\ pc' \notin Busy /\ UNCHANGED config_
    BY <1>1 DEF SelectForMove, RestoreEnvironment, Ignored, board, Busy, Updating, Loading
  <2> QED BY <2>1, <2>2, LimOutside DEF SameLimits
<1>2. CASE MoveAxis
  <2>1. PICK a \in Axes, r \in Codes :
          /\ NextInMap(a)
          /\ send_command(r, MoveLegal(Destination(a)), Move(Destination(a)))
          /\ pc' = IF todo' = {} THEN "restore" ELSE "select"
    BY <1>2 DEF MoveAxis
  <2>2. pc = "go" /\ UNCHANGED config_ /\ pc' \in {"restore", "select"}
    BY <1>2, <2>1 DEF MoveAxis, board
  <2>3. Destination(a) \in Int
    <3>1. req \in Targets /\ a \in DOMAIN req
      BY <2>1, <2>2 DEF Inv, MoveInProgress, NextInMap
    <3>2. req[a] \in Int
      BY <3>1, TargetFacts
    <3>3. conv2bareposition(a, req[a]) \in Int
      BY <3>2, ConversionType DEF Inv, TypeOK
    <3> QED BY <3>3 DEF Destination, Inv, TypeOK, PM381TypeOK
  <2>4. \/ MoveLegal(Destination(a)) /\ Move(Destination(a))
        \/ UNCHANGED hw
    BY <2>1, NoFault
  <2>5. /\ UNCHANGED <<lower, upper, counter, raw>>
        /\ \A b \in Axes : goal'[b] = goal[b] \/ (lower[b] <= goal'[b] /\ goal'[b] <= upper[b])
    BY <2>3, <2>4, LegalMove, LimitsFrame
  <2>6. pc \notin Busy /\ pc' \notin Busy
    BY <2>2 DEF Busy, Updating, Loading
  <2> QED BY <2>2, <2>5, <2>6, LimOutside DEF SameLimits
<1> QED BY <1>1, <1>2 DEF Moves

\* The card: motors turn towards goals that lie within, and the operator is
\* held to the limits in force.
LEMMA LimCard ==
  ASSUME Inv, LimInv, Card
  PROVE  LimInv'
<1>1. Motion /\ UNCHANGED <<pc, todo, config_>>
  BY DEF Card, board, handler
<1>2. /\ counter \in [Channels -> Int] /\ goal \in [Channels -> Int] /\ chan \in Channels
      /\ lower \in [Channels -> Int] /\ upper \in [Channels -> Int]
      /\ config_ \in [Axes -> ConfigRecord] /\ Axes \subseteq Channels
  BY BoardAssumption DEF Inv, TypeOK, PM381TypeOK
<1>3. UNCHANGED <<chan, lower, upper, raw>>
  BY <1>1 DEF Motion, Step, Jog
<1>4. \A b \in Axes : /\ Stands(b)' <=> Stands(b)
                      /\ LowerSent(b)' <=> LowerSent(b)
                      /\ UpperSent(b)' <=> UpperSent(b)
                      /\ Loaded(b)' <=> Loaded(b)
  BY <1>1, <1>3 DEF Pending, Stands, LowerSent, UpperSent, Loaded
<1>5. ASSUME NEW b \in Axes, Stands(b)
      PROVE  Inside(b, counter[b])' /\ Inside(b, goal[b])'
  <2>1. /\ Inside(b, counter[b]) /\ Inside(b, goal[b])
        /\ lower[b] = config_[b].LowerLimit /\ upper[b] = config_[b].UpperLimit
    BY <1>5 DEF LimInv, LowerSent, UpperSent
  <2>2. ASSUME NEW c \in Channels, Step(c)
        PROVE  Inside(b, counter[b])' /\ Inside(b, goal[b])'
    <3>1. UNCHANGED <<goal, config_>> /\ counter' = [counter EXCEPT ![c] = @ + (IF goal[c] > @ THEN 1 ELSE -1)]
          /\ counter[c] # goal[c]
      BY <1>1, <2>2 DEF Step
    <3>2. CASE c # b
      BY <1>2, <2>1, <3>1, <3>2 DEF Inside
    <3>3. CASE c = b
      <4>1. /\ goal[b] > counter[b] => counter'[b] = counter[b] + 1
            /\ ~(goal[b] > counter[b]) => counter'[b] = counter[b] - 1 /\ goal[b] < counter[b]
        BY <1>2, <3>1, <3>3
      <4> QED BY <1>2, <2>1, <3>1, <4>1 DEF Inside, ConfigRecord
    <3> QED BY <3>2, <3>3
  <2>3. ASSUME NEW d \in {-1, 1}, Jog(d)
        PROVE  Inside(b, counter[b])' /\ Inside(b, goal[b])'
    <3>1. /\ counter[chan] = goal[chan] /\ MoveLegal(counter[chan] + d)
          /\ counter' = [counter EXCEPT ![chan] = @ + d]
          /\ goal' = [goal EXCEPT ![chan] = @ + d]
          /\ UNCHANGED config_
      BY <1>1, <2>3 DEF Jog
    <3>2. CASE chan # b
      BY <1>2, <2>1, <3>1, <3>2 DEF Inside
    <3>3. CASE chan = b
      BY <1>2, <2>1, <3>1, <3>3 DEF Inside, MoveLegal
    <3> QED BY <3>2, <3>3
  <2> QED BY <1>1, <2>2, <2>3 DEF Motion
<1>7. \A b \in Axes : b \notin raw \/ Loaded(b) => Inside(b, config_[b].Position)'
  BY <1>1 DEF LimInv, Inside
<1> QED BY <1>1, <1>3, <1>4, <1>5, <1>7 DEF LimInv

LEMMA LimNext ==
  ASSUME Faults = {}, Inv, SelInv, LoopInv, RawInv, LimInv, [Next]_vars
  PROVE  LimInv'
<1>1. CASE UNCHANGED vars
  BY <1>1 DEF vars, hw, board, handler, LimInv, LowerSent, UpperSent,
              Stands, Loaded, Pending, Inside
<1> QED BY <1>1, LimConnect, LimUpdate, LimCommands, LimRequests, LimMoves, LimCard, NotThrown
        DEF Next, Handler

LEMMA Limits ==
  ASSUME Faults = {}, FileWithinLimits
  PROVE  Spec => [](Inv /\ LimInv)
<1>1. Init => LimInv
  BY LimInit
<1>2. Inv /\ SelInv /\ LoopInv /\ RawInv /\ LimInv /\ [Next]_vars => LimInv'
  BY LimNext
<1> QED BY <1>1, <1>2, RawSettingsTracked, PTL DEF Spec

\* Without faults, and from a file that has every axis within its limits, the
\* card enforces the configured soft limits whenever the server is idle, for
\* any axes, travel, order in the file and requests, raw ones included, on
\* every axis that no client has set by 1LL, 1UL or 1SP or cut off by 1NC
\* (initAxes, SetInitialZero, UpdateConfiguration).
THEOREM LimitsInForceInvariant ==
  ASSUME Faults = {}, FileWithinLimits
  PROVE  Spec => []LimitsInForce
<1>1. LimInv => LimitsInForce
  <2> SUFFICES ASSUME LimInv, pc = "idle"
               PROVE  \A a \in Axes \ raw : /\ lower[a] = config_[a].LowerLimit
                                            /\ upper[a] = config_[a].UpperLimit
    BY DEF LimitsInForce
  <2>1. \A a \in Axes \ raw : LowerSent(a) /\ UpperSent(a)
    BY DEF LowerSent, UpperSent, Stands, Pending, Updating, Loading
  <2> QED BY <2>1 DEF LimInv
<1> QED BY <1>1, Limits, PTL

\* Under the same conditions no motor is ever beyond the soft limits, or on
\* its way there, when the server is idle, whatever was moved, raw or not,
\* jogged, zeroed and saved before, on every axis that no client has set by
\* 1LL, 1UL or 1SP or cut off by 1NC.
THEOREM WithinLimitsInvariant ==
  ASSUME Faults = {}, FileWithinLimits
  PROVE  Spec => []WithinLimits
<1>1. Inv /\ LimInv => WithinLimits
  <2> SUFFICES ASSUME Inv, LimInv, pc = "idle", NEW a \in Axes \ raw
               PROVE  {counter[a], goal[a]} \subseteq
                        config_[a].LowerLimit .. config_[a].UpperLimit
    BY DEF WithinLimits
  <2>1. Stands(a)
    BY DEF Stands, Pending, Updating, Loading
  <2>2. counter[a] \in Int /\ goal[a] \in Int
        /\ config_[a].LowerLimit \in Int /\ config_[a].UpperLimit \in Int
    BY BoardAssumption DEF Inv, TypeOK, PM381TypeOK, ConfigRecord
  <2> QED BY <2>1, <2>2 DEF LimInv, Inside
<1> QED BY <1>1, Limits, PTL

-----------------------------------------------------------------------------
(* Conversions.                                                            *)

LEMMA DivBound ==
  ASSUME NEW a \in Nat, NEW d \in Nat \ {0}
  PROVE  a \div d \in Nat /\ (a \div d) * d <= a /\ a < (a \div d) * d + d
OBVIOUS

LEMMA Signs ==
  ASSUME NEW q \in Int, NEW d \in Int
  PROVE  (-q) * d = -(q * d) /\ q * (-d) = -(q * d)
OBVIOUS

LEMMA Distributive ==
  ASSUME NEW q \in Int, NEW o \in Int, NEW d \in Int
  PROVE  (q - o) * d = q * d - o * d
OBVIOUS

\* Truncation towards zero is off by less than the divisor, whatever the signs.
LEMMA TruncDivNear ==
  ASSUME NEW n \in Int, NEW d \in Int \ {0}
  PROVE  AbsVal(TruncDiv(n, d) * d - n) < AbsVal(d)
<1> DEFINE q == AbsVal(n) \div AbsVal(d)
<1>1. AbsVal(n) \in Nat /\ AbsVal(d) \in Nat \ {0}
  BY DEF AbsVal
<1>2. q \in Nat /\ q * AbsVal(d) <= AbsVal(n) /\ AbsVal(n) < q * AbsVal(d) + AbsVal(d)
  BY <1>1, DivBound
<1>3. TruncDiv(n, d) = IF (n < 0) = (d < 0) THEN q ELSE -q
  BY DEF TruncDiv
<1> HIDE DEF q
<1>4. (-q) * d = -(q * d) /\ q * (-d) = -(q * d) /\ q * d \in Int
  BY <1>2, Signs
<1>5. CASE n < 0 /\ d < 0
  BY <1>2, <1>3, <1>4, <1>5 DEF AbsVal
<1>6. CASE n < 0 /\ ~(d < 0)
  BY <1>2, <1>3, <1>4, <1>6 DEF AbsVal
<1>7. CASE ~(n < 0) /\ d < 0
  BY <1>2, <1>3, <1>4, <1>7 DEF AbsVal
<1>8. CASE ~(n < 0) /\ ~(d < 0)
  BY <1>2, <1>3, <1>4, <1>8 DEF AbsVal
<1> QED BY <1>5, <1>6, <1>7, <1>8

\* There and back again, with any factor and offset.
LEMMA ConversionNear ==
  ASSUME Inv, NEW a \in Axes, NEW u \in Int
  PROVE  WithinAStep(a, conv2bareposition(a, u), u)
<1> DEFINE n == u * Den[a] + Offset[a] * Num[a]
           q == TruncDiv(n, Num[a])
<1>1. Num[a] \in Int \ {0} /\ Den[a] \in Int /\ Offset[a] \in Int
  BY BoardAssumption DEF Inv, TypeOK
<1>2. u * Den[a] \in Int /\ Offset[a] * Num[a] \in Int /\ n \in Int
  BY <1>1
<1>3. q \in Int /\ q * Num[a] \in Int /\ AbsVal(q * Num[a] - n) < AbsVal(Num[a])
  BY <1>1, <1>2, TruncDivInt, TruncDivNear
<1>4. conv2position(a, q) = q * Num[a] - Offset[a] * Num[a]
  BY <1>1, <1>3, Distributive DEF conv2position
<1>5. conv2position(a, q) - u * Den[a] = q * Num[a] - n
  BY <1>2, <1>3, <1>4
<1>6. conv2bareposition(a, u) = q
  BY DEF conv2bareposition
<1> QED BY <1>3, <1>5, <1>6 DEF WithinAStep

-----------------------------------------------------------------------------
(* Moves.                                                                  *)

\* The axes that an absolute move has commanded are driven to where it says.
LandInv ==
  op = "ma" /\ ~jog /\ pc \in InMove \cup {"idle"} /\ DOMAIN req \subseteq 1 .. nc =>
    \A a \in accepted : goal[a] = conv2bareposition(a, req[a])

LEMMA LandMoveAxis ==
  ASSUME Faults = {}, Inv, SelInv, LandInv, MoveAxis
  PROVE  LandInv'
<1>1. PICK a \in Axes, r \in Codes :
        /\ NextInMap(a)
        /\ send_command(r, MoveLegal(Destination(a)), Move(Destination(a)))
        /\ accepted' = IF r < 0 THEN accepted ELSE accepted \cup {a}
  BY DEF MoveAxis
<1>2. pc = "go" /\ UNCHANGED <<op, req, Offset>>
  BY DEF MoveAxis, board
<1>3. DOMAIN req \subseteq 1 .. nc => chan = a
  <2>1. a \in DOMAIN req
    BY <1>1, <1>2 DEF NextInMap, Inv, MoveInProgress
  <2> QED BY <1>1, <1>2, <2>1 DEF SelInv, MoveHitsAxis
<1>4. a \notin accepted /\ accepted \subseteq Axes
  BY <1>1, <1>2 DEF NextInMap, Inv, MoveInProgress, TypeOK
<1>5. goal \in [Channels -> Int] /\ Axes \subseteq Channels
  BY BoardAssumption DEF Inv, TypeOK, PM381TypeOK
<1>6. \A b : conv2bareposition(b, req[b])' = conv2bareposition(b, req[b])
  BY <1>2 DEF conv2bareposition
<1>7. CASE r = 0 /\ Move(Destination(a))
  <2>1. jog' = jog /\ nc' = nc /\ accepted' = accepted \cup {a}
    BY <1>1, <1>7 DEF Move
  <2>2. op = "ma" => Destination(a) = conv2bareposition(a, req[a])
    <3>1. req[a] \in Int
      BY <1>1, <1>2, TargetFacts DEF Inv, MoveInProgress, NextInMap
    <3>2. conv2bareposition(a, req[a]) \in Int
      BY <3>1, ConversionType DEF Inv, TypeOK
    <3> QED BY <3>2 DEF Destination
  <2>3. DOMAIN req \subseteq 1 .. nc => goal' = [goal EXCEPT ![a] = Destination(a)]
    BY <1>3, <1>7 DEF Move
  <2> QED BY <1>2, <1>4, <1>5, <1>6, <2>1, <2>2, <2>3 DEF LandInv, InMove
<1>8. CASE r < 0 /\ UNCHANGED hw
  BY <1>1, <1>2, <1>6, <1>8 DEF LandInv, InMove, hw
<1> QED BY <1>1, <1>7, <1>8, NoFault

LEMMA LandNext ==
  ASSUME Faults = {}, Inv, SelInv, LandInv, [Next]_vars
  PROVE  LandInv'
<1>1. CASE MoveAxis
  BY <1>1, LandMoveAxis
<1>2. CASE SelectForMove \/ RestoreEnvironment
  <2>1. UNCHANGED <<goal, jog, nc>>
    BY <1>2, NoFault
       DEF SelectForMove, RestoreEnvironment, save_setaxisnum, Ignored, Channel, hw
  <2>2. pc \in InMove /\ UNCHANGED <<op, accepted, req, Offset>>
    BY <1>2 DEF SelectForMove, RestoreEnvironment, Ignored, board, InMove
  <2> QED BY <2>1, <2>2 DEF LandInv, conv2bareposition
<1>3. CASE Requests
  <2>1. accepted' = {}
    BY <1>3 DEF Requests, ReceiveNumber, ReceiveRaw, ReceivePlain, ReceiveMove,
                ReceiveInitialZero, Receive
  <2> QED BY <2>1 DEF LandInv
<1>4. CASE Card \/ UNCHANGED vars
  <2>1. UNCHANGED <<jog, nc, op, pc, accepted, req, Offset>> /\ (~jog => goal' = goal)
    BY <1>4 DEF Card, vars, board, handler, hw, Motion, Step, Jog
  <2> QED BY <2>1 DEF LandInv, conv2bareposition
<1>5. CASE Connect \/ UpdateConfiguration \/ Commands
  <2>1. pc \in Outside /\ op' = op
    BY <1>5 DEF Outside, PCs, Connect, UpdateConfiguration, Commands, FirmwareID, SetNC,
       SelectFirst, JogOffConnected, SelectForUpdate, SendSpeeds, SendLowerLimit,
       SendUpperLimit, SendPosition, SetAxis, SetJog, UnsetJog, RawCommand, RawSelect,
       RawMove, RawMoveTo, RawLower, RawUpper, RawPosition, RawChannels, OneExchange, PrintPosition, SetZero, SaveXml, QueryAndDrop, LeaveInitMode, Ignored
  <2>2. op' # "ma"
    BY <2>1 DEF Inv, MoveOps
  <2> QED BY <2>2 DEF LandInv
<1> QED BY <1>1, <1>2, <1>3, <1>4, <1>5, NotThrown DEF Next, Handler, Moves

\* Without faults an answered ma ends within one step of the coordinates it
\* was given, for any axes, factors of either sign, and offsets (conversion,
\* selection and move of every axis, truncation towards zero), as long as the
\* card has a channel for each axis of the request.
THEOREM AbsoluteMoveLandsInvariant ==
  ASSUME Faults = {}
  PROVE  Spec => []AbsoluteMoveLands
<1>1. Init => LandInv
  BY DEF Init, LandInv
<1>2. Inv /\ SelInv /\ LandInv /\ [Next]_vars => LandInv'
  BY LandNext
<1>3. Inv /\ LandInv => AbsoluteMoveLands
  <2> SUFFICES ASSUME Inv, LandInv, pc = "idle", op = "ma", ret >= 0, ~jog,
                      DOMAIN req \subseteq 1 .. nc, NEW a \in DOMAIN req, counter[a] = goal[a]
               PROVE  WithinAStep(a, counter[a], req[a])
    BY DEF AbsoluteMoveLands
  <2>1. accepted = DOMAIN req
    BY DEF Inv, MoveOutcome, MoveOps
  <2>2. req # NoTarget
    BY DEF NoTarget
  <2>3. req \in Targets
    BY <2>2 DEF Inv, TypeOK
  <2>4. a \in Axes /\ req[a] \in Int
    BY <2>3, TargetFacts
  <2>5. counter[a] = conv2bareposition(a, req[a])
    BY <2>1 DEF LandInv
  <2> QED BY <2>4, <2>5, ConversionNear
<1> QED BY <1>1, <1>2, <1>3, Selection, PTL DEF Spec

-----------------------------------------------------------------------------
(* Without offsets.                                                        *)

\* No axis has an offset in the file, and no client sets one.
NoOffset == "zero" \notin Ops /\ \A a \in Axes : InitialConfig[a].offset = 0

PlainInv == op # "zero" /\ \A a \in Axes : Offset[a] = 0 /\ config_[a].offset = 0

LEMMA PlainNext ==
  ASSUME NoOffset, Inv, PlainInv, [Next]_vars
  PROVE  PlainInv'
<1> Offset \in [Axes -> Int] /\ config_ \in [Axes -> ConfigRecord]
  BY DEF Inv, TypeOK
<1>1. CASE SelectForUpdate
  <2>1. PICK a \in Axes, r \in Codes :
          /\ config_' = IF init_ THEN ResetConfig(a, op = "initialzero") ELSE config_
          /\ Offset' \in {Offset, [Offset EXCEPT ![a] = config_'[a].offset]}
    BY <1>1 DEF SelectForUpdate
  <2>2. \A b \in Axes : config_'[b].offset = 0
    BY <2>1 DEF PlainInv, ResetConfig
  <2>3. \A b \in Axes : Offset'[b] = 0
    BY <2>1, <2>2 DEF PlainInv
  <2>4. op' = op
    BY <1>1 DEF SelectForUpdate
  <2> QED BY <2>2, <2>3, <2>4 DEF PlainInv
<1>2. CASE SaveXml
  <2>1. PICK bp : config_' = WithPosition(bp) /\ UNCHANGED <<Offset, op>>
    BY <1>2 DEF SaveXml
  <2>2. \A a \in Axes : config_'[a].offset = config_[a].offset
    BY <2>1 DEF WithPosition, ConfigRecord
  <2> QED BY <2>1, <2>2 DEF PlainInv
<1>3. CASE Requests
  BY <1>3 DEF Requests, ReceiveNumber, ReceiveRaw, ReceivePlain, ReceiveMove,
              ReceiveInitialZero, Receive, PlainInv, NoOffset, MoveOps, RawOps, RawSettings
<1>4. CASE UNCHANGED <<op, Offset, config_>>
  BY <1>4 DEF PlainInv
<1>5. CASE Handler /\ ~SelectForUpdate /\ ~SaveXml
  <2>1. ~SetZero
    BY DEF PlainInv, SetZero
  <2>2. UNCHANGED <<op, Offset, config_>>
    BY <1>5, <2>1 DEF Handler, Connect, UpdateConfiguration, Commands, Moves, FirmwareID, SetNC,
       SelectFirst, JogOffConnected, SendSpeeds, SendLowerLimit, SendUpperLimit, SendPosition,
       SetAxis, SetJog, UnsetJog, RawCommand, RawSelect, RawMove, RawMoveTo,
       RawLower, RawUpper, RawPosition, RawChannels, OneExchange, PrintPosition,
       QueryAndDrop, LeaveInitMode, SelectForMove, MoveAxis, RestoreEnvironment, Ignored, Thrown,
       board
  <2> QED BY <1>4, <2>2
<1>6. CASE Card \/ UNCHANGED vars
  BY <1>4, <1>6 DEF Card, vars, board, handler
<1> QED BY <1>1, <1>2, <1>3, <1>5, <1>6 DEF Next

LEMMA Plain ==
  ASSUME Faults = {}, NoOffset
  PROVE  Spec => [](Inv /\ SelInv /\ PlainInv)
<1>1. Init => PlainInv
  BY BoardAssumption DEF Init, PlainInv, NoOffset, ConfigRecord
<1>2. Inv /\ PlainInv /\ [Next]_vars => PlainInv'
  BY PlainNext
<1> QED BY <1>1, <1>2, Selection, PTL DEF Spec

\* Without an offset a coordinate is converted by the factor alone.
LEMMA PlainConversion ==
  ASSUME PlainInv, NEW a \in Axes, NEW u \in Int
  PROVE  conv2bareposition(a, u) = TruncDiv(u * Den[a], Num[a])
<1>1. Offset[a] = 0 /\ Num[a] \in Int /\ Den[a] \in Int
  BY BoardAssumption DEF PlainInv
<1>2. u * Den[a] + Offset[a] * Num[a] = u * Den[a]
  BY <1>1
<1> QED BY <1>2 DEF conv2bareposition

\* The step of an accepted move, and the axis that it is for.
LEMMA AcceptedMove ==
  ASSUME Faults = {}, Inv, SelInv, [Next]_vars, pc = "go",
         NEW a \in Axes, NextInMap(a), a <= nc, accepted' = accepted \cup {a}
  PROVE  /\ goal'[a] = Destination(a) /\ chan = a /\ req[a] \in Int
         /\ \A c \in Channels \ {a} : goal'[c] = goal[c]
<1>1. MoveAxis
  <2> ~Thrown
    BY NotThrown
  <2>1. a \notin accepted
    BY DEF NextInMap, Inv, MoveInProgress
  <2>2. accepted' # accepted
    BY <2>1
  <2> QED BY <2>2 DEF Next, Handler, Requests, Card, vars, handler, Connect, UpdateConfiguration,
       Commands, Moves, FirmwareID, SetNC, SelectFirst, JogOffConnected, SelectForUpdate,
       SendSpeeds, SendLowerLimit, SendUpperLimit, SendPosition, SetAxis, SetJog, UnsetJog,
       RawCommand, RawSelect, RawMove, RawMoveTo,
       RawLower, RawUpper, RawPosition, RawChannels, OneExchange, PrintPosition, SetZero, SaveXml, QueryAndDrop,
       LeaveInitMode, SelectForMove, RestoreEnvironment, Ignored,
       ReceiveNumber, ReceiveRaw, ReceivePlain, ReceiveMove, ReceiveInitialZero, Receive
<1>2. PICK b \in Axes, r \in Codes :
        /\ NextInMap(b)
        /\ send_command(r, MoveLegal(Destination(b)), Move(Destination(b)))
        /\ accepted' = IF r < 0 THEN accepted ELSE accepted \cup {b}
  BY <1>1 DEF MoveAxis
<1>3. a = b
  <2>1. a <= b /\ b <= a /\ a \in Int /\ b \in Int
    BY <1>2, BoardAssumption DEF NextInMap, Channels
  <2> QED BY <2>1
<1>4. ~(r < 0)
  BY <1>2 DEF NextInMap, Inv, MoveInProgress
<1>5. Move(Destination(a)) /\ chan = a
  BY <1>2, <1>3, <1>4, NoFault DEF SelInv, MoveHitsAxis
<1>6. goal'[a] = Destination(a) /\ \A c \in Channels \ {a} : goal'[c] = goal[c]
  BY <1>5, BoardAssumption DEF Move, Inv, TypeOK, PM381TypeOK
<1> QED BY <1>5, <1>6, TargetFacts DEF NextInMap, Inv, MoveInProgress

\* Without faults and offsets an accepted mr moves its axis by what was asked
\* for, to within a step, and no other, for factors of either sign (move_rel,
\* which converts the distance like a coordinate).
THEOREM RelativeMoveAdvancesProperty ==
  ASSUME Faults = {}, NoOffset
  PROVE  Spec => RelativeMoveAdvances
<1>1. ASSUME Inv, SelInv, PlainInv, [Next]_vars, NEW a \in Axes, pc = "go", op = "mr",
             accepted' = accepted \cup {a}, NextInMap(a), a <= nc
      PROVE  /\ AbsVal((goal'[a] - counter[a]) * Num[a] - req[a] * Den[a]) < AbsVal(Num[a])
             /\ \A c \in Channels \ {a} : goal'[c] = goal[c]
  <2> DEFINE q == TruncDiv(req[a] * Den[a], Num[a])
  <2>1. goal'[a] = Destination(a) /\ chan = a /\ req[a] \in Int
    BY <1>1, AcceptedMove
  <2>2. Num[a] \in Int \ {0} /\ Den[a] \in Int /\ req[a] * Den[a] \in Int /\ counter[a] \in Int
    BY <1>1, <2>1, BoardAssumption DEF Inv, TypeOK, PM381TypeOK
  <2>3. q \in Int /\ AbsVal(q * Num[a] - req[a] * Den[a]) < AbsVal(Num[a])
    BY <2>2, TruncDivInt, TruncDivNear
  <2>4. goal'[a] = q + counter[a]
    BY <1>1, <2>1, PlainConversion DEF Destination
  <2>5. goal'[a] - counter[a] = q
    BY <2>2, <2>3, <2>4
  <2>6. \A c \in Channels \ {a} : goal'[c] = goal[c]
    BY <1>1, AcceptedMove
  <2> QED BY <2>3, <2>5, <2>6
<1>2. Inv /\ SelInv /\ PlainInv /\ [Next]_vars =>
        [\A a \in Axes :
           pc = "go" /\ op = "mr" /\ accepted' = accepted \cup {a} /\ NextInMap(a) /\ a <= nc =>
             /\ AbsVal((goal'[a] - counter[a]) * Num[a] - req[a] * Den[a]) < AbsVal(Num[a])
             /\ \A c \in Channels \ {a} : goal'[c] = goal[c]]_vars
  BY <1>1
<1> QED BY <1>2, Plain, PTL DEF Spec, RelativeMoveAdvances

LEMMA Monotone ==
  ASSUME NEW p \in Int, NEW q \in Int, NEW d \in Nat, p <= q
  PROVE  p * d <= q * d
OBVIOUS

\* Truncation does not leave an interval between whole numbers of steps.
LEMMA TruncBetween ==
  ASSUME NEW n \in Int, NEW d \in Int \ {0}, NEW low \in Int, NEW high \in Int, low <= high,
         (low * d <= n /\ n <= high * d) \/ (high * d <= n /\ n <= low * d)
  PROVE  low <= TruncDiv(n, d) /\ TruncDiv(n, d) <= high
<1> DEFINE q == TruncDiv(n, d)
           e == AbsVal(d)
<1>1. /\ q \in Int /\ q * d \in Int /\ e \in Nat \ {0}
      /\ q * d - n < e /\ n - q * d < e
  <2>1. q \in Int /\ AbsVal(q * d - n) < e
    BY TruncDivInt, TruncDivNear
  <2>2. q * d \in Int
    BY <2>1
  <2> HIDE DEF q
  <2> QED BY <2>1, <2>2 DEF AbsVal
<1>2. PICK m \in Int : \/ d = e /\ m = n
                       \/ d = -e /\ m = -n
  <2>1. d = e \/ d = -e
    BY DEF AbsVal
  <2> QED BY <2>1
<1> HIDE DEF q, e
<1>3. /\ q * e \in Int /\ low * e \in Int /\ high * e \in Int
      /\ q * (-e) = -(q * e) /\ low * (-e) = -(low * e) /\ high * (-e) = -(high * e)
  BY <1>1, Signs
<1>4. low * e <= high * e
  BY <1>1, Monotone
<1>5. /\ low * e <= m /\ m <= high * e
      /\ q * e - m < e /\ m - q * e < e
  BY <1>1, <1>2, <1>3, <1>4
<1>6. ASSUME q <= low - 1 PROVE FALSE
  <2>1. q * e <= (low - 1) * e /\ (low - 1) * e = low * e - 1 * e
    BY <1>1, <1>6, Monotone, Distributive
  <2> QED BY <1>1, <1>3, <1>5, <2>1
<1>7. ASSUME high <= q - 1 PROVE FALSE
  <2>1. high * e <= (q - 1) * e /\ (q - 1) * e = q * e - 1 * e
    BY <1>1, <1>7, Monotone, Distributive
  <2> QED BY <1>1, <1>3, <1>5, <2>1
<1>8. low <= q /\ q <= high
  BY <1>1, <1>6, <1>7
<1> QED BY <1>8 DEF q

AllInPrintedLimits == \A a \in DOMAIN req : a \notin raw /\ InPrintedLimits(a, req[a])

\* Up to the answer no move within the printed limits has been refused.
PrintInv == pc \in {"restore", "idle"} /\ op = "ma" /\ AllInPrintedLimits => ret >= 0

LEMMA PrintedIsLegal ==
  ASSUME Inv, SelInv, LimInv, pc = "go", op = "ma", AllInPrintedLimits,
         NEW a \in Axes, NextInMap(a)
  PROVE  MoveLegal(Destination(a))
<1> DEFINE low == config_[a].LowerLimit
           high == config_[a].UpperLimit
           n == req[a] * Den[a] + Offset[a] * Num[a]
<1>1. a \in DOMAIN req /\ req[a] \in Int
  BY TargetFacts DEF NextInMap, Inv, MoveInProgress
<1>2. chan = a /\ Stands(a)
  <2>1. a \notin raw
    BY <1>1 DEF AllInPrintedLimits
  <2>2. a <= nc
    BY <2>1 DEF SelInv, Covered
  <2> QED BY <2>1, <2>2 DEF SelInv, MoveHitsAxis, Stands, Pending, Updating, Loading
<1>3. lower[a] = low /\ upper[a] = high /\ low \in Int /\ high \in Int
  BY <1>2 DEF LimInv, LowerSent, UpperSent, Inv, TypeOK, ConfigRecord
<1>4. low <= high
  <2>1. config_[a].Position \in Int /\ Inside(a, config_[a].Position)
    BY <1>2 DEF LimInv, Stands, Inv, TypeOK, ConfigRecord
  <2> QED BY <1>3, <2>1 DEF Inside
<1>5. Num[a] \in Int \ {0} /\ n \in Int
  <2>1. Num[a] \in Int \ {0} /\ Den[a] \in Int /\ Offset[a] \in Int
    BY BoardAssumption DEF Inv, TypeOK
  <2>2. req[a] * Den[a] \in Int /\ Offset[a] * Num[a] \in Int
    BY <1>1, <2>1
  <2> QED BY <2>1, <2>2
<1>6. (low * Num[a] <= n /\ n <= high * Num[a]) \/ (high * Num[a] <= n /\ n <= low * Num[a])
  BY <1>1 DEF AllInPrintedLimits, InPrintedLimits, Printed
<1>7. low <= TruncDiv(n, Num[a]) /\ TruncDiv(n, Num[a]) <= high /\ TruncDiv(n, Num[a]) \in Int
  <2> HIDE DEF low, high, n
  <2> QED BY <1>3, <1>4, <1>5, <1>6, TruncBetween, TruncDivInt
<1>8. Destination(a) = TruncDiv(n, Num[a])
  <2>1. conv2bareposition(a, req[a]) = TruncDiv(n, Num[a])
    BY DEF conv2bareposition
  <2> HIDE DEF n
  <2> QED BY <1>7, <2>1 DEF Destination
<1> QED BY <1>2, <1>3, <1>7, <1>8 DEF MoveLegal

LEMMA PrintNext ==
  ASSUME Faults = {}, Inv, SelInv, LimInv, PrintInv, [Next]_vars
  PROVE  PrintInv'
<1>1. UNCHANGED <<config_, Offset>> => \A a, u : InPrintedLimits(a, u)' <=> InPrintedLimits(a, u)
  BY DEF InPrintedLimits, Printed
<1>2. CASE MoveAxis
  <2>1. PICK a \in Axes, r \in Codes :
          /\ NextInMap(a)
          /\ send_command(r, MoveLegal(Destination(a)), Move(Destination(a)))
          /\ ret' = r
    BY <1>2 DEF MoveAxis
  <2>2. pc = "go" /\ UNCHANGED <<op, req, config_, Offset>>
    BY <1>2 DEF MoveAxis, board
  <2>3. raw' = raw
    BY <2>1, NoFault, SelectionFrame
  <2>4. AllInPrintedLimits' <=> AllInPrintedLimits
    BY <1>1, <2>2, <2>3 DEF AllInPrintedLimits
  <2>5. op = "ma" /\ AllInPrintedLimits => r = 0
    BY <2>1, <2>2, PrintedIsLegal, NoFault
  <2> QED BY <2>1, <2>2, <2>4, <2>5 DEF PrintInv
<1>3. CASE SelectForMove \/ Requests
  <2>1. pc' \notin {"restore", "idle"}
    BY <1>3 DEF SelectForMove, Requests, ReceiveNumber, ReceiveRaw, ReceivePlain,
                ReceiveMove, ReceiveInitialZero, Receive
  <2> QED BY <2>1 DEF PrintInv
<1>4. CASE RestoreEnvironment \/ Card \/ UNCHANGED vars
  <2>1. /\ UNCHANGED <<op, ret, req, config_, Offset>>
        /\ pc' \in {"restore", "idle"} => pc \in {"restore", "idle"}
    BY <1>4 DEF RestoreEnvironment, Ignored, board, Card, vars, handler
  <2>2. raw' = raw
    <3>1. CASE RestoreEnvironment
      BY <3>1, NoFault, SelectionFrame DEF RestoreEnvironment, Ignored, Channel
    <3>2. CASE Card \/ UNCHANGED vars
      BY <3>2, SelectionFrame DEF Card, vars, hw
    <3> QED BY <1>4, <3>1, <3>2
  <2>3. AllInPrintedLimits' <=> AllInPrintedLimits
    BY <1>1, <2>1, <2>2 DEF AllInPrintedLimits
  <2> QED BY <2>1, <2>3 DEF PrintInv
<1>5. CASE Connect \/ UpdateConfiguration \/ Commands
  <2>1. pc \in Outside /\ op' = op
    BY <1>5 DEF Outside, PCs, Connect, UpdateConfiguration, Commands, FirmwareID, SetNC,
       SelectFirst, JogOffConnected, SelectForUpdate, SendSpeeds, SendLowerLimit,
       SendUpperLimit, SendPosition, SetAxis, SetJog, UnsetJog, RawCommand, RawSelect,
       RawMove, RawMoveTo, RawLower, RawUpper, RawPosition, RawChannels, OneExchange,
       PrintPosition, SetZero, SaveXml, QueryAndDrop, LeaveInitMode, Ignored
  <2> QED BY <2>1 DEF Inv, MoveOps, PrintInv
<1> QED BY <1>2, <1>3, <1>4, <1>5, NotThrown DEF Next, Handler, Moves

\* Without faults, and from a file that has every axis within its limits, ma
\* refuses no coordinate that lies, from the card's zero, within the limits
\* that psl prints, for factors of either sign, any offsets, and axes that no
\* client has set or cut off by a raw command (get_lower_softlimits,
\* get_upper_softlimits, conv2bareposition).
THEOREM PrintedLimitsHoldInvariant ==
  ASSUME Faults = {}, FileWithinLimits
  PROVE  Spec => []PrintedLimitsHold
<1>1. Init => PrintInv
  BY DEF Init, PrintInv
<1>2. Inv /\ SelInv /\ LimInv /\ PrintInv /\ [Next]_vars => PrintInv'
  BY PrintNext
<1>3. PrintInv => PrintedLimitsHold
  BY DEF PrintInv, AllInPrintedLimits, PrintedLimitsHold
<1> QED BY <1>1, <1>2, <1>3, Selection, Limits, PTL DEF Spec

-----------------------------------------------------------------------------
(* Zero.                                                                   *)

\* Without faults set zero makes every axis that the card has a channel for
\* read 0, for any axes and factors and wherever the motors are on their way
\* (1QP answers for all of them).
THEOREM ZeroReadsZeroProperty ==
  ASSUME Faults = {}
  PROVE  Spec => ZeroReadsZero
<1>1. ASSUME Inv, SelInv, [Next]_vars, pc = "command", op = "zero", pc' = "idle",
             NEW a \in Axes, a <= nc
      PROVE  conv2position(a, counter[a])' = 0
  <2>1. SetZero
    BY <1>1, NotThrown DEF Next, Handler, Requests, Card, vars, handler, Connect, UpdateConfiguration,
       Commands, Moves, FirmwareID, SetNC, SelectFirst, JogOffConnected, SelectForUpdate,
       SendSpeeds, SendLowerLimit, SendUpperLimit, SendPosition, SetAxis, SetJog, UnsetJog,
       RawCommand, RawSelect, RawMove, RawMoveTo,
       RawLower, RawUpper, RawPosition, RawChannels, OneExchange, PrintPosition, SaveXml, QueryAndDrop,
       LeaveInitMode, SelectForMove, MoveAxis, RestoreEnvironment, Ignored,
       ReceiveNumber, ReceiveRaw, ReceivePlain, ReceiveMove, ReceiveInitialZero, Receive
  <2>2. PICK r \in Codes : PlainCommand(r) /\ \E bp \in get_cur_position(r, ZeroPosition) : Offset' = bp
    BY <2>1 DEF SetZero
  <2>3. r = 0 /\ counter' = counter
    BY <2>2, NoFault DEF PlainCommand, hw
  <2>4. PICK t \in Tokens(r) : 
          Offset' = [b \in DOMAIN t \cup DOMAIN ZeroPosition |->
                       IF b \in DOMAIN t THEN t[b] ELSE ZeroPosition[b]]
    BY <2>2 DEF get_cur_position
  <2>5. t = [b \in Axes \cap (1 .. nc) |-> counter[b]]
    BY <2>3, <2>4 DEF Tokens
  <2>6. a \in 1 .. nc
    BY <1>1, ChannelFacts DEF Inv
  <2>7. Offset'[a] = counter'[a] /\ counter'[a] \in Int
    BY <1>1, <2>3, <2>4, <2>5, <2>6, BoardAssumption DEF Inv, TypeOK, PM381TypeOK
  <2>8. (counter'[a] - Offset'[a]) * Num[a] = 0
    BY <2>7, BoardAssumption
  <2> QED BY <2>8 DEF conv2position
<1>2. Inv /\ SelInv /\ [Next]_vars =>
        [pc = "command" /\ op = "zero" /\ pc' = "idle"
           => \A a \in Axes : a <= nc => conv2position(a, counter[a])' = 0]_vars
  BY <1>1
<1> QED BY <1>2, Selection, PTL DEF Spec, ZeroReadsZero
=============================================================================
