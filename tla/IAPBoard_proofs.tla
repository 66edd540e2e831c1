-------------------------- MODULE IAPBoard_proofs --------------------------
EXTENDS IAPBoard, WellFoundedInduction, TLAPS

\* The axes have a largest id, which the card has a channel for.
LEMMA MaxIdIsAxis == MaxId \in Axes /\ \A a \in Axes : a <= MaxId
<1> DEFINE R == OpToRel(<, Nat)
           Below == {MaxChannel - a : a \in Axes}
<1>0. MaxChannel \in Nat /\ Axes # {} /\ \A a \in Axes : a \in Nat /\ a <= MaxChannel
  BY MaxChannelAssumption, BoardAssumption DEF Channels
<1>1. Below \subseteq Nat /\ Below # {}
  BY <1>0
<1>2. \E x \in Below : \A y \in Below : ~(<<y, x>> \in R)
  <2> HIDE DEF Below
  <2> QED BY <1>1, WFMin, NatLessThanWellFounded
<1>3. PICK x \in Below : \A y \in Below : ~(y < x)
  <2>1. \A y, z \in Nat : y < z => <<y, z>> \in R
    BY DEF OpToRel
  <2> HIDE DEF Below, R
  <2> QED BY <1>1, <1>2, <2>1
<1>4. PICK m \in Axes : x = MaxChannel - m
  BY <1>3
<1>5. ASSUME NEW a \in Axes PROVE a <= m
  <2>1. MaxChannel - a \in Below
    OBVIOUS
  <2> HIDE DEF Below
  <2> QED BY <1>0, <1>3, <1>4, <2>1
<1> QED BY <1>4, <1>5 DEF MaxId

LEMMA TruncDivInt == \A n \in Int, d \in Int \ {0} : TruncDiv(n, d) \in Int
  BY DEF TruncDiv, AbsVal

-----------------------------------------------------------------------------
(* The card.                                                               *)

\* Every command keeps the card's state well formed.
LEMMA CardTypes ==
  ASSUME PM381TypeOK
  PROVE  /\ UNCHANGED hw => PM381TypeOK'
         /\ \A n \in Channels, s \in SUBSET Channels : NumberOfChannels(n, s) => PM381TypeOK'
         /\ \A n \in Int : ChannelLegal(n) /\ Channel(n) => PM381TypeOK'
         /\ \A on \in BOOLEAN : JogMode(on) => PM381TypeOK'
         /\ \A p \in Int, s \in SUBSET Channels : LowerLimit(p, s) => PM381TypeOK'
         /\ \A p \in Int, s \in SUBSET Channels : UpperLimit(p, s) => PM381TypeOK'
         /\ \A p \in Int, s \in SUBSET Channels : SetPosition(p, s) => PM381TypeOK'
         /\ \A p \in Int : Move(p) => PM381TypeOK'
         /\ Motion => PM381TypeOK'
<1> USE DEF PM381TypeOK, Channels
<1>1. UNCHANGED hw => PM381TypeOK'
  BY DEF hw
<1>2. \A n \in Channels, s \in SUBSET Channels : NumberOfChannels(n, s) => PM381TypeOK'
  BY DEF NumberOfChannels
<1>3. \A n \in Int : ChannelLegal(n) /\ Channel(n) => PM381TypeOK'
  BY MaxChannelAssumption DEF ChannelLegal, Channel
<1>4. \A on \in BOOLEAN : JogMode(on) => PM381TypeOK'
  BY DEF JogMode
<1>5. \A p \in Int, s \in SUBSET Channels : LowerLimit(p, s) => PM381TypeOK'
  BY DEF LowerLimit
<1>6. \A p \in Int, s \in SUBSET Channels : UpperLimit(p, s) => PM381TypeOK'
  BY DEF UpperLimit
<1>7. \A p \in Int, s \in SUBSET Channels : SetPosition(p, s) => PM381TypeOK'
  BY DEF SetPosition
<1>8. \A p \in Int : Move(p) => PM381TypeOK'
  BY DEF Move
<1>9. Motion => PM381TypeOK'
  <2>1. ASSUME NEW c \in Channels, Step(c) PROVE PM381TypeOK'
    BY <2>1 DEF Step
  <2>2. ASSUME NEW d \in {-1, 1}, Jog(d) PROVE PM381TypeOK'
    BY <2>2 DEF Jog
  <2> QED BY <2>1, <2>2 DEF Motion
<1> QED BY <1>1, <1>2, <1>3, <1>4, <1>5, <1>6, <1>7, <1>8, <1>9

ErrorType == latest_error \in {"none", "this", "earlier"}

\* An exchange keeps them too, if the command does.
LEMMA ExchangeTypes ==
  ASSUME PM381TypeOK, ErrorType, NEW r, NEW legal, NEW ACTION effect,
         send_command(r, legal, effect), legal /\ effect => PM381TypeOK'
  PROVE  PM381TypeOK' /\ ErrorType'
<1>1. UNCHANGED hw => PM381TypeOK'
  BY CardTypes
<1> QED BY <1>1 DEF send_command, ErrorType

-----------------------------------------------------------------------------
(* Data.                                                                   *)

LEMMA TargetFacts ==
  ASSUME NEW u \in Targets
  PROVE  DOMAIN u \subseteq Axes /\ DOMAIN u # {} /\ \A a \in DOMAIN u : u[a] \in Int
<1>1. PICK S \in (SUBSET Axes) \ {{}} : u \in [S -> UserValues]
  BY DEF Targets
<1>2. UserValues \subseteq Int
  BY BoardAssumption
<1> QED BY <1>1, <1>2

LEMMA ConversionType ==
  ASSUME Offset \in [Axes -> Int], NEW a \in Axes, NEW u \in Int
  PROVE  conv2bareposition(a, u) \in Int
<1>1. Num[a] \in Int \ {0} /\ Den[a] \in Int /\ Offset[a] \in Int
  BY BoardAssumption
<1>2. u * Den[a] + Offset[a] * Num[a] \in Int
  BY <1>1
<1> QED BY <1>1, <1>2, TruncDivInt DEF conv2bareposition

LEMMA ResetConfigType ==
  ASSUME config_ \in [Axes -> ConfigRecord], NEW a \in Axes, NEW final \in BOOLEAN
  PROVE  ResetConfig(a, final) \in [Axes -> ConfigRecord]
<1>1. Travel[a] \in TravelRecord
  BY BoardAssumption
<1>2. SoftLimits(a, final).low \in Int /\ SoftLimits(a, final).high \in Int
  BY <1>1 DEF SoftLimits, TravelRecord
<1> QED BY <1>2 DEF ResetConfig, ConfigRecord

\* A reply to 1QP is about axes, and gives them integers.
LEMMA TokensType ==
  ASSUME PM381TypeOK, NEW r, NEW t \in Tokens(r)
  PROVE  DOMAIN t \subseteq Axes /\ \A a \in DOMAIN t : t[a] \in Int
<1>1. CASE t = [a \in Axes \cap (1 .. nc) |-> counter[a]]
  BY <1>1, BoardAssumption DEF PM381TypeOK
<1>2. CASE t = NoTarget
  BY <1>2 DEF NoTarget
<1>3. ASSUME NEW S \in SUBSET Axes, t \in [S -> Junk]
      PROVE  DOMAIN t \subseteq Axes /\ \A a \in DOMAIN t : t[a] \in Int
  BY <1>3, BoardAssumption
<1>4. t = [a \in Axes \cap (1 .. nc) |-> counter[a]] \/ t = NoTarget
      \/ \E S \in SUBSET Axes : t \in [S -> Junk]
  BY DEF Tokens
<1> QED BY <1>1, <1>2, <1>3, <1>4

LEMMA ZeroPositionType ==
  ASSUME PM381TypeOK, NEW r, NEW bp \in get_cur_position(r, ZeroPosition)
  PROVE  bp \in [Axes -> Int]
<1>1. PICK t \in Tokens(r) :
        bp = [a \in DOMAIN t \cup Axes |-> IF a \in DOMAIN t THEN t[a] ELSE ZeroPosition[a]]
  BY DEF get_cur_position, ZeroPosition
<1>2. DOMAIN t \subseteq Axes /\ \A a \in DOMAIN t : t[a] \in Int
  BY TokensType
<1>3. bp = [a \in Axes |-> IF a \in DOMAIN t THEN t[a] ELSE 0]
  BY <1>1, <1>2 DEF ZeroPosition
<1> QED BY <1>2, <1>3

LEMMA NoDefaultType ==
  ASSUME PM381TypeOK, NEW r, NEW bp \in get_cur_position(r, NoTarget)
  PROVE  \A a \in DOMAIN bp \cap Axes : bp[a] \in Int
<1>1. PICK t \in Tokens(r) :
        bp = [a \in DOMAIN t \cup {} |-> IF a \in DOMAIN t THEN t[a] ELSE NoTarget[a]]
  BY DEF get_cur_position, NoTarget
<1>2. DOMAIN t \subseteq Axes /\ \A a \in DOMAIN t : t[a] \in Int
  BY TokensType
<1>3. bp = [a \in DOMAIN t |-> t[a]]
  BY <1>1
<1> QED BY <1>2, <1>3

LEMMA WithOffsetType ==
  ASSUME config_ \in [Axes -> ConfigRecord], NEW bp \in [Axes -> Int]
  PROVE  WithOffset(bp) \in [Axes -> ConfigRecord]
BY DEF WithOffset, ConfigRecord

LEMMA WithPositionType ==
  ASSUME config_ \in [Axes -> ConfigRecord],
         NEW bp, \A a \in DOMAIN bp \cap Axes : bp[a] \in Int
  PROVE  WithPosition(bp) \in [Axes -> ConfigRecord]
BY DEF WithPosition, ConfigRecord

-----------------------------------------------------------------------------
(* The inductive invariant that holds whatever fails on the line.          *)

\* In the loop of a move the axes of the request are the accepted ones and the
\* ones to come, in the order of their ids.
MoveInProgress ==
  /\ op \in MoveOps /\ ret = 0 /\ req \in Targets
  /\ todo # {} /\ todo \subseteq DOMAIN req /\ accepted = DOMAIN req \ todo
  /\ \A a \in accepted, b \in todo : a < b

Outside == PCs \ {"idle", "select", "go", "restore", "ended"}

Inv ==
  /\ TypeOK
  /\ pc \in Outside => op \notin MoveOps
  /\ pc \in {"select", "go"} => MoveInProgress
  /\ MoveOutcome

LEMMA InitInv == Init => Inv
<1> SUFFICES ASSUME Init PROVE Inv
  OBVIOUS
<1>1. PM381TypeOK
  BY MaxChannelAssumption DEF Init, PM381Init, PM381TypeOK, Channels
<1>2. InitialConfig \in [Axes -> ConfigRecord] /\ Initialize \in BOOLEAN
  BY BoardAssumption
<1>3. Offset \in [Axes -> Int]
  BY <1>2 DEF Init, ConfigRecord
<1>4. TypeOK
  <2>1. ret \in Codes /\ pc \in PCs /\ op \in OpNames \cup {"connect"}
    BY DEF Init, Codes, PCs
  <2>2. req \in Targets \cup {NoTarget} /\ todo \in SUBSET Axes /\ accepted \in SUBSET Axes
    BY DEF Init
  <2>3. init_ \in BOOLEAN /\ connected_ \in BOOLEAN
    BY <1>2 DEF Init
  <2> QED BY <1>1, <1>2, <1>3, <2>1, <2>2, <2>3 DEF Init, TypeOK
<1>5. op \notin MoveOps /\ pc \notin {"select", "go", "restore"}
  BY DEF Init, MoveOps
<1> QED BY <1>4, <1>5 DEF Inv, MoveOutcome

\* The exchanges whose result is ignored, and which only go on.
LEMMA IgnoredInv ==
  ASSUME Inv, PM381TypeOK', ErrorType',
         UNCHANGED <<board, chosen, op, ret, arg, req, todo, accepted>>,
         \/ pc \in Outside /\ pc' \in Outside \cup {"idle"}
         \/ pc = "restore" /\ pc' = "idle"
  PROVE  Inv'
<1>1. TypeOK'
  BY DEF Inv, TypeOK, ErrorType, board, Outside, PCs
<1>2. pc' \in Outside => op' \notin MoveOps
  BY DEF Inv, Outside
<1>3. pc' \notin {"select", "go"}
  BY DEF Outside
<1>4. MoveOutcome'
  BY DEF Inv, Outside, MoveOutcome
<1> QED BY <1>1, <1>2, <1>3, <1>4 DEF Inv

\* Steps outside of moves keep the part of the invariant that is about them.
LEMMA OutsideInv ==
  ASSUME Inv, TypeOK', pc \in Outside, pc' \in Outside \cup {"idle"}, op' = op
  PROVE  Inv'
<1>1. op' \notin MoveOps
  BY DEF Inv
<1>2. pc' \notin {"select", "go"}
  BY DEF Outside
<1> QED BY <1>1, <1>2 DEF Inv, MoveOutcome

LEMMA OneIsLegal == TypeOK => ChannelLegal(1) /\ 1 \in Channels
BY MaxChannelAssumption DEF TypeOK, PM381TypeOK, Channels, ChannelLegal

LEMMA ConnectInv ==
  ASSUME Inv, Connect
  PROVE  Inv'
<1>1. PM381TypeOK /\ ErrorType
  BY DEF Inv, TypeOK, ErrorType
<1>2. CASE FirmwareID
  <2>1. PICK r \in Codes : send_command(r, TRUE, UNCHANGED hw)
    BY <1>2 DEF FirmwareID, Ignored
  <2>2. PM381TypeOK' /\ ErrorType'
    BY <1>1, <2>1, ExchangeTypes, CardTypes
  <2>3. UNCHANGED <<board, chosen, op, ret, arg, req, todo, accepted>>
        /\ pc = "id" /\ pc' = "nc"
    BY <1>2 DEF FirmwareID, Ignored
  <2>4. pc \in Outside /\ pc' \in Outside \cup {"idle"}
    BY <2>3 DEF Outside, PCs
  <2> QED BY <2>2, <2>3, <2>4, IgnoredInv
<1> MaxId \in Channels /\ raw \in SUBSET Channels
  BY <1>1, MaxIdIsAxis, BoardAssumption DEF PM381TypeOK
<1>3. CASE SetNC
  <2>1. PICK r \in Codes : send_command(r, TRUE, NumberOfChannels(MaxId, raw))
    BY <1>3 DEF SetNC, Ignored
  <2>2. PM381TypeOK' /\ ErrorType'
    BY <1>1, <2>1, ExchangeTypes, CardTypes
  <2>3. UNCHANGED <<board, chosen, op, ret, arg, req, todo, accepted>>
        /\ pc = "nc" /\ pc' = "config"
    BY <1>3 DEF SetNC, Ignored
  <2>4. pc \in Outside /\ pc' \in Outside \cup {"idle"}
    BY <2>3 DEF Outside, PCs
  <2> QED BY <2>2, <2>3, <2>4, IgnoredInv
<1>4. CASE SelectFirst
  <2>1. PM381TypeOK' /\ ErrorType'
    <3>1. PICK r \in Codes : send_command(r, ChannelLegal(1), Channel(1))
      BY <1>4 DEF SelectFirst
    <3>2. ChannelLegal(1) /\ Channel(1) => PM381TypeOK'
      BY <1>1, CardTypes
    <3> QED BY <1>1, <3>1, <3>2, ExchangeTypes
  <2>2. TypeOK'
    BY <1>4, <2>1 DEF Inv, SelectFirst, TypeOK, ErrorType, board, PCs
  <2> QED BY <1>4, <2>2, OutsideInv DEF SelectFirst, Outside, PCs
<1>5. CASE JogOffConnected
  <2>1. PM381TypeOK' /\ ErrorType'
    <3>1. PICK r \in Codes : send_command(r, TRUE, JogMode(FALSE))
      BY <1>5 DEF JogOffConnected
    <3> QED BY <1>1, <3>1, ExchangeTypes, CardTypes
  <2>2. TypeOK'
    BY <1>5, <2>1 DEF Inv, JogOffConnected, TypeOK, ErrorType, PCs
  <2> QED BY <1>5, <2>2, OutsideInv DEF JogOffConnected, Outside, PCs
<1> QED BY <1>2, <1>3, <1>4, <1>5 DEF Connect

\* setaxisnum keeps the types of all it changes.
LEMMA SetAxisNumTypes ==
  ASSUME TypeOK, NEW r, NEW n \in Int, setaxisnum(r, n)
  PROVE  /\ PM381TypeOK' /\ ErrorType'
         /\ curaxis' \in Axes \cup {0} /\ chosen' \in Axes \cup {0}
<1>1. send_command(r, ChannelLegal(n), Channel(n))
  BY DEF setaxisnum
<1>2. PM381TypeOK' /\ ErrorType'
  BY <1>1, ExchangeTypes, CardTypes DEF TypeOK, ErrorType
<1> QED BY <1>2 DEF setaxisnum, TypeOK

LEMMA UpdateConfigurationInv ==
  ASSUME Inv, UpdateConfiguration
  PROVE  Inv'
<1> TypeOK
  BY DEF Inv
<1>1. PM381TypeOK /\ ErrorType
  BY DEF Inv, TypeOK, ErrorType
<1>2. Axes \subseteq Int
  BY BoardAssumption DEF Channels
<1>3. ASSUME NEW a \in Axes
      PROVE  /\ config_[a].LowerLimit \in Int /\ config_[a].UpperLimit \in Int
             /\ config_[a].Position \in Int
  BY DEF TypeOK, ConfigRecord
<1>4. /\ AfterAxes \in {"ch1", "zeroed"}
      /\ raw \in SUBSET Channels /\ raw \ {chan} \in SUBSET Channels
  BY <1>1 DEF AfterAxes, PM381TypeOK
<1>5. CASE SelectForUpdate
  <2>1. PICK a \in Axes, r \in Codes :
          /\ config_' = IF init_ THEN ResetConfig(a, op = "initialzero") ELSE config_
          /\ setaxisnum(r, a)
          /\ IF r < 0
             THEN NextAxis(a) /\ UNCHANGED Offset
             ELSE /\ Offset' = [Offset EXCEPT ![a] = config_'[a].offset]
                  /\ pc' = "speeds" /\ UNCHANGED todo
    BY <1>5 DEF SelectForUpdate
  <2>2. config_' \in [Axes -> ConfigRecord]
    BY <2>1, ResetConfigType DEF TypeOK
  <2>3. /\ PM381TypeOK' /\ ErrorType'
        /\ curaxis' \in Axes \cup {0} /\ chosen' \in Axes \cup {0}
    BY <2>1, <1>2, SetAxisNumTypes
  <2>4. Offset' \in [Axes -> Int]
    BY <2>1, <2>2 DEF TypeOK, ConfigRecord
  <2>5. todo' \in SUBSET Axes /\ pc' \in {"config", "speeds", "ch1", "zeroed"}
    BY <2>1, <1>4 DEF TypeOK, NextAxis
  <2>6. UNCHANGED <<init_, connected_, envion, op, ret, arg, req, accepted>> /\ pc = "config"
    BY <1>5 DEF SelectForUpdate
  <2>7. TypeOK'
    BY <2>2, <2>3, <2>4, <2>5, <2>6 DEF TypeOK, ErrorType, PCs
  <2> QED BY <2>5, <2>6, <2>7, OutsideInv DEF Outside, PCs
<1>6. CASE SendSpeeds
  <2>1. PICK r \in Codes : send_command(r, TRUE, UNCHANGED hw)
    BY <1>6 DEF SendSpeeds, Ignored
  <2>2. PM381TypeOK' /\ ErrorType'
    BY <1>1, <2>1, ExchangeTypes, CardTypes
  <2>3. UNCHANGED <<board, chosen, op, ret, arg, req, todo, accepted>>
        /\ pc = "speeds" /\ pc' = "ll"
    BY <1>6 DEF SendSpeeds, Ignored
  <2>4. pc \in Outside /\ pc' \in Outside \cup {"idle"}
    BY <2>3 DEF Outside, PCs
  <2> QED BY <2>2, <2>3, <2>4, IgnoredInv
<1>7. CASE SendLowerLimit
  <2>1. PICK a \in Axes, r \in Codes : send_command(r, TRUE, LowerLimit(config_[a].LowerLimit, raw))
    BY <1>7 DEF SendLowerLimit, Ignored
  <2>2. PM381TypeOK' /\ ErrorType'
    BY <1>3, <1>1, <1>4, <2>1, ExchangeTypes, CardTypes
  <2>3. UNCHANGED <<board, chosen, op, ret, arg, req, todo, accepted>>
        /\ pc = "ll" /\ pc' = "ul"
    BY <1>7 DEF SendLowerLimit, Ignored
  <2>4. pc \in Outside /\ pc' \in Outside \cup {"idle"}
    BY <2>3 DEF Outside, PCs
  <2> QED BY <2>2, <2>3, <2>4, IgnoredInv
<1>8. CASE SendUpperLimit
  <2>1. PICK a \in Axes, r \in Codes : send_command(r, TRUE, UpperLimit(config_[a].UpperLimit, raw))
    BY <1>8 DEF SendUpperLimit, Ignored
  <2>2. PM381TypeOK' /\ ErrorType'
    BY <1>3, <1>1, <1>4, <2>1, ExchangeTypes, CardTypes
  <2>3. UNCHANGED <<board, chosen, op, ret, arg, req, todo, accepted>>
        /\ pc = "ul" /\ pc' = "sp"
    BY <1>8 DEF SendUpperLimit, Ignored
  <2>4. pc \in Outside /\ pc' \in Outside \cup {"idle"}
    BY <2>3 DEF Outside, PCs
  <2> QED BY <2>2, <2>3, <2>4, IgnoredInv
<1>9. CASE SendPosition
  <2>1. PICK a \in Axes, r \in Codes :
          /\ send_command(r, TRUE, SetPosition(config_[a].Position, raw \ {chan}))
          /\ NextAxis(a)
    BY <1>9 DEF SendPosition
  <2>2. PM381TypeOK' /\ ErrorType'
    BY <1>1, <1>3, <1>4, <2>1, ExchangeTypes, CardTypes
  <2>3. todo' \in SUBSET Axes /\ pc' \in {"config", "ch1", "zeroed"}
    BY <2>1, <1>4 DEF TypeOK, NextAxis
  <2>4. UNCHANGED <<board, chosen, op, ret, arg, req, accepted>> /\ pc = "sp"
    BY <1>9 DEF SendPosition
  <2>5. TypeOK'
    BY <2>2, <2>3, <2>4 DEF TypeOK, ErrorType, board, PCs
  <2> QED BY <2>3, <2>4, <2>5, OutsideInv DEF Outside, PCs
<1> QED BY <1>5, <1>6, <1>7, <1>8, <1>9 DEF UpdateConfiguration

\* A raw command changes nothing but the card, the answer, and possibly what is
\* known of the channel.
LEMMA RawTypes ==
  ASSUME TypeOK, RawCommand
  PROVE  /\ PM381TypeOK' /\ ErrorType' /\ \E r \in Codes : ret' = r
         /\ chosen' \in {0, chosen} /\ pc = "command" /\ pc' = "idle"
         /\ UNCHANGED <<board, op, arg, req, todo, accepted>>
<1> DEFINE Goal == /\ PM381TypeOK' /\ ErrorType' /\ \E r \in Codes : ret' = r
                   /\ chosen' \in {0, chosen} /\ pc = "command" /\ pc' = "idle"
                   /\ UNCHANGED <<board, op, arg, req, todo, accepted>>
<1>1. PM381TypeOK /\ ErrorType /\ arg \in Int /\ counter[chan] \in Int
  BY DEF TypeOK, PM381TypeOK, ErrorType
<1>2. raw \cup {chan} \in SUBSET Channels /\ raw \cup CutOff(arg) \in SUBSET Channels
  BY <1>1 DEF PM381TypeOK, CutOff
<1>3. ASSUME NEW o, NEW legal, NEW ACTION effect, OneExchange(o, legal, effect),
             legal /\ effect => PM381TypeOK', chosen' \in {0, chosen}
      PROVE  Goal
  <2>1. PICK r \in Codes : send_command(r, legal, effect) /\ ret' = r
    BY <1>3 DEF OneExchange
  <2>2. PM381TypeOK' /\ ErrorType'
    BY <1>1, <1>3, <2>1, ExchangeTypes
  <2> QED BY <1>3, <2>1, <2>2 DEF OneExchange
<1>11. ASSUME NEW o, NEW ACTION effect, OneExchange(o, TRUE, effect) /\ UNCHANGED chosen,
              effect => PM381TypeOK'
       PROVE  Goal
  <2>1. PICK r \in Codes : send_command(r, TRUE, effect) /\ ret' = r
    BY <1>11 DEF OneExchange
  <2>2. PM381TypeOK' /\ ErrorType'
    BY <1>1, <1>11, <2>1, ExchangeTypes
  <2> QED BY <1>11, <2>1, <2>2 DEF OneExchange
<1>4. CASE RawSelect
  <2>1. ChannelLegal(arg) /\ Channel(arg) => PM381TypeOK'
    BY <1>1, CardTypes
  <2> QED BY <1>3, <1>4, <2>1 DEF RawSelect
<1>5. CASE RawMove
  <2> DEFINE p == counter[chan] + arg
  <2>1. p \in Int
    BY <1>1
  <2>2. OneExchange("rawmove", MoveLegal(p), Move(p)) /\ UNCHANGED chosen
    BY <1>5 DEF RawMove
  <2> HIDE DEF p
  <2>3. MoveLegal(p) /\ Move(p) => PM381TypeOK'
    BY <1>1, <2>1, CardTypes
  <2> QED BY <1>3, <2>2, <2>3
<1>6. CASE RawMoveTo
  <2>1. MoveLegal(arg) /\ Move(arg) => PM381TypeOK'
    BY <1>1, CardTypes
  <2> QED BY <1>3, <1>6, <2>1 DEF RawMoveTo
<1>7. CASE RawLower
  <2> DEFINE s == raw \cup {chan}
  <2>1. OneExchange("rawlower", TRUE, LowerLimit(arg, s)) /\ UNCHANGED chosen
    BY <1>7 DEF RawLower
  <2>2. s \in SUBSET Channels
    BY <1>2
  <2> HIDE DEF s
  <2>3. LowerLimit(arg, s) => PM381TypeOK'
    BY <1>1, <2>2, CardTypes
  <2> QED BY <1>11, <2>1, <2>3
<1>8. CASE RawUpper
  <2> DEFINE s == raw \cup {chan}
  <2>1. OneExchange("rawupper", TRUE, UpperLimit(arg, s)) /\ UNCHANGED chosen
    BY <1>8 DEF RawUpper
  <2>2. s \in SUBSET Channels
    BY <1>2
  <2> HIDE DEF s
  <2>3. UpperLimit(arg, s) => PM381TypeOK'
    BY <1>1, <2>2, CardTypes
  <2> QED BY <1>11, <2>1, <2>3
<1>9. CASE RawPosition
  <2> DEFINE s == raw \cup {chan}
  <2>1. OneExchange("rawposition", TRUE, SetPosition(arg, s)) /\ UNCHANGED chosen
    BY <1>9 DEF RawPosition
  <2>2. s \in SUBSET Channels
    BY <1>2
  <2> HIDE DEF s
  <2>3. SetPosition(arg, s) => PM381TypeOK'
    BY <1>1, <2>2, CardTypes
  <2> QED BY <1>11, <2>1, <2>3
<1>10. CASE RawChannels
  <2>1. arg \in Channels /\ NumberOfChannels(arg, raw \cup CutOff(arg)) => PM381TypeOK'
    BY <1>1, <1>2, CardTypes
  <2> QED BY <1>3, <1>10, <2>1 DEF RawChannels
<1> QED BY <1>4, <1>5, <1>6, <1>7, <1>8, <1>9, <1>10 DEF RawCommand

LEMMA CommandsInv ==
  ASSUME Inv, Commands
  PROVE  Inv'
<1>1. TypeOK /\ PM381TypeOK /\ ErrorType
  BY DEF Inv, TypeOK, ErrorType
<1>2. "command" \in Outside /\ "qp" \in Outside /\ "zeroed" \in Outside
      /\ "config" \in Outside /\ "idle" \in PCs
  BY DEF Outside, PCs
<1>3. CASE SetAxis
  <2>1. PICK r \in Codes : setaxisnum(r, arg) /\ ret' = r
    BY <1>3 DEF SetAxis
  <2>2. /\ PM381TypeOK' /\ ErrorType'
        /\ curaxis' \in Axes \cup {0} /\ chosen' \in Axes \cup {0}
    <3>1. arg \in Int
      BY <1>1 DEF TypeOK
    <3> QED BY <1>1, <2>1, <3>1, SetAxisNumTypes
  <2>3. TypeOK'
    BY <1>1, <1>2, <1>3, <2>1, <2>2 DEF SetAxis, TypeOK, ErrorType
  <2> QED BY <1>2, <1>3, <2>3, OutsideInv DEF SetAxis
\* The commands that only change the card.
<1>4. ASSUME NEW r \in Codes, PM381TypeOK', ErrorType', ret' = r,
             chosen' \in {0, chosen}, pc = "command", pc' = "idle",
             UNCHANGED <<board, op, arg, req, todo, accepted>>
      PROVE  Inv'
  <2>1. TypeOK'
    BY <1>1, <1>2, <1>4 DEF TypeOK, ErrorType, board
  <2> QED BY <1>2, <1>4, <2>1, OutsideInv
<1>5. CASE SetJog
  <2>1. PICK r \in Codes : send_command(r, TRUE, JogMode(TRUE)) /\ ret' = r
    BY <1>5 DEF SetJog, OneExchange
  <2>2. PM381TypeOK' /\ ErrorType'
    BY <1>1, <2>1, ExchangeTypes, CardTypes
  <2> QED BY <1>4, <1>5, <2>1, <2>2 DEF SetJog, OneExchange
<1>6. CASE UnsetJog
  <2>1. PICK r \in Codes : send_command(r, TRUE, JogMode(FALSE)) /\ ret' = r
    BY <1>6 DEF UnsetJog, OneExchange
  <2>2. PM381TypeOK' /\ ErrorType'
    BY <1>1, <2>1, ExchangeTypes, CardTypes
  <2> QED BY <1>4, <1>6, <2>1, <2>2 DEF UnsetJog, OneExchange
<1>7. CASE RawCommand
  BY <1>1, <1>4, <1>7, RawTypes
<1>9. ASSUME NEW from \in {"command", "qp"}, NEW to \in {"idle", "config"},
             Ignored(from, to, TRUE, UNCHANGED hw)
      PROVE  Inv'
  <2>1. PICK r \in Codes : send_command(r, TRUE, UNCHANGED hw)
    BY <1>9 DEF Ignored
  <2>2. PM381TypeOK' /\ ErrorType'
    BY <1>1, <2>1, ExchangeTypes, CardTypes
  <2>3. UNCHANGED <<board, chosen, op, ret, arg, req, todo, accepted>>
        /\ pc = from /\ pc' = to
    BY <1>9 DEF Ignored
  <2> QED BY <1>2, <2>2, <2>3, IgnoredInv
<1>10. CASE PrintPosition
  BY <1>9, <1>10 DEF PrintPosition
<1>11. CASE SetZero
  <2>1. PICK r \in Codes :
          /\ PlainCommand(r)
          /\ \E bp \in get_cur_position(r, ZeroPosition) :
               Offset' = bp /\ config_' = WithOffset(bp)
    BY <1>11 DEF SetZero
  <2>2. Offset' \in [Axes -> Int] /\ config_' \in [Axes -> ConfigRecord]
    BY <1>1, <2>1, ZeroPositionType, WithOffsetType DEF TypeOK
  <2>3. PM381TypeOK' /\ ErrorType'
    BY <1>1, <2>1, ExchangeTypes, CardTypes DEF PlainCommand
  <2>4. TypeOK'
    BY <1>1, <1>2, <1>11, <2>2, <2>3 DEF SetZero, TypeOK, ErrorType
  <2> QED BY <1>2, <1>11, <2>4, OutsideInv DEF SetZero
<1>12. CASE SaveXml
  <2>1. PICK r \in Codes :
          PlainCommand(r) /\ \E bp \in get_cur_position(r, NoTarget) : config_' = WithPosition(bp)
    BY <1>12 DEF SaveXml
  <2>2. config_' \in [Axes -> ConfigRecord]
    BY <1>1, <2>1, NoDefaultType, WithPositionType DEF TypeOK
  <2>3. PM381TypeOK' /\ ErrorType'
    BY <1>1, <2>1, ExchangeTypes, CardTypes DEF PlainCommand
  <2>4. TypeOK'
    BY <1>1, <1>2, <1>12, <2>2, <2>3 DEF SaveXml, TypeOK, ErrorType
  <2> QED BY <1>2, <1>12, <2>4, OutsideInv DEF SaveXml
<1>13. CASE QueryAndDrop
  BY <1>9, <1>13 DEF QueryAndDrop
<1>14. CASE LeaveInitMode
  <2>1. TypeOK'
    BY <1>1, <1>2, <1>14, CardTypes DEF LeaveInitMode, TypeOK
  <2> QED BY <1>2, <1>14, <2>1, OutsideInv DEF LeaveInitMode
<1> QED BY <1>3, <1>5, <1>6, <1>7, <1>10, <1>11, <1>12, <1>13, <1>14 DEF Commands

LEMMA RequestsInv ==
  ASSUME Inv, Requests
  PROVE  Inv'
<1>1. TypeOK /\ PM381TypeOK
  BY DEF Inv, TypeOK
\* What every request has in common.
<1>2. ASSUME NEW o \in OpNames, NEW n \in Int, NEW u \in Targets \cup {NoTarget},
             NEW next \in PCs, Receive(o, n, u, next),
             envion' \in Axes \cup {0}, todo' \in SUBSET Axes
      PROVE  TypeOK'
  <2>1. PM381TypeOK'
    BY <1>1, <1>2, CardTypes DEF Receive
  <2>2. ret' \in Codes /\ latest_error' \in {"none", "this", "earlier"} /\ accepted' \in SUBSET Axes
    BY <1>2 DEF Receive, Codes
  <2> QED BY <1>1, <1>2, <2>1, <2>2 DEF Receive, TypeOK
<1>3. ASSUME NEW o \in OpNames \ MoveOps, NEW n \in Int, NEW next \in {"command", "qp"},
             Receive(o, n, NoTarget, next), envion' \in Axes \cup {0}, todo' \in SUBSET Axes
      PROVE  Inv'
  <2>1. TypeOK'
    BY <1>2, <1>3 DEF PCs
  <2>2. op' \notin MoveOps /\ pc' \notin {"select", "go"}
    BY <1>3 DEF Receive
  <2> QED BY <2>1, <2>2 DEF Inv, MoveOutcome
<1>4. envion \in Axes \cup {0} /\ todo \in SUBSET Axes /\ curaxis \in Axes \cup {0}
  BY <1>1 DEF TypeOK
<1>5. CASE ReceiveNumber
  <2>1. PICK n \in 0 .. MaxChannel, o \in {"sa", "rawselect", "rawchannels"} :
          Receive(o, n, NoTarget, "command") /\ UNCHANGED <<envion, todo>>
    BY <1>5 DEF ReceiveNumber
  <2> QED BY <1>3, <1>4, <2>1, MaxChannelAssumption
         DEF OpNames, RawOps, RawSettings, MoveOps
<1>6. CASE ReceiveRaw
  <2>1. PICK n \in RawValues, o \in RawOps \ {"rawselect", "rawchannels"} :
          Receive(o, n, NoTarget, "command") /\ UNCHANGED <<envion, todo>>
    BY <1>6 DEF ReceiveRaw
  <2>2. n \in Int
    BY BoardAssumption
  <2> QED BY <1>3, <1>4, <2>1, <2>2 DEF OpNames, RawOps, RawSettings, MoveOps
<1>7. CASE ReceivePlain
  <2>1. PICK o \in {"pp", "zero", "jog", "unjog", "savexml"} :
          Receive(o, 0, NoTarget, "command") /\ UNCHANGED <<envion, todo>>
    BY <1>7 DEF ReceivePlain
  <2> QED BY <1>3, <1>4, <2>1 DEF OpNames, MoveOps
<1>8. CASE ReceiveMove
  <2>1. PICK o \in MoveOps, u \in Targets :
          /\ Receive(o, 0, u, "select")
          /\ envion' = (IF curaxis = 0 THEN envion ELSE curaxis)
          /\ todo' = DOMAIN u
    BY <1>8 DEF ReceiveMove
  <2>2. DOMAIN u \subseteq Axes /\ DOMAIN u # {}
    BY TargetFacts
  <2>3. TypeOK'
    BY <1>2, <1>4, <2>1, <2>2 DEF PCs, MoveOps, OpNames
  <2>4. MoveInProgress' /\ pc' = "select"
    BY <2>1, <2>2 DEF Receive, MoveInProgress
  <2> QED BY <2>3, <2>4 DEF Inv, Outside, MoveOutcome
<1>9. CASE ReceiveInitialZero
  BY <1>3, <1>4, <1>9 DEF ReceiveInitialZero, OpNames, MoveOps
<1> QED BY <1>5, <1>6, <1>7, <1>8, <1>9 DEF Requests

LEMMA DestinationType ==
  ASSUME TypeOK, MoveInProgress, NEW a \in todo
  PROVE  Destination(a) \in Int
<1>1. a \in Axes /\ req[a] \in Int
  BY TargetFacts DEF MoveInProgress
<1>2. conv2bareposition(a, req[a]) \in Int
  BY <1>1, ConversionType DEF TypeOK
<1>3. counter[chan] \in Int
  BY DEF TypeOK, PM381TypeOK
<1> QED BY <1>2, <1>3 DEF Destination

LEMMA MovesInv ==
  ASSUME Inv, Moves
  PROVE  Inv'
<1>1. TypeOK /\ PM381TypeOK /\ ErrorType /\ Axes \subseteq Int
  BY BoardAssumption DEF Inv, TypeOK, ErrorType, Channels
<1>2. CASE SelectForMove
  <2>1. PICK a \in Axes, r \in Codes : NextInMap(a) /\ save_setaxisnum(r, a)
    BY <1>2 DEF SelectForMove
  <2>2. ChannelLegal(a) /\ Channel(a) => PM381TypeOK'
    BY <1>1, CardTypes
  <2>3. PM381TypeOK' /\ ErrorType'
    BY <1>1, <2>1, <2>2, ExchangeTypes DEF save_setaxisnum
  <2>4. UNCHANGED <<board, chosen, op, ret, arg, req, todo, accepted>>
        /\ pc = "select" /\ pc' = "go"
    BY <1>2 DEF SelectForMove
  <2>5. TypeOK'
    BY <1>1, <2>3, <2>4 DEF TypeOK, ErrorType, board, PCs
  <2>6. MoveInProgress'
    BY <2>4 DEF Inv, MoveInProgress
  <2> QED BY <2>4, <2>5, <2>6 DEF Inv, MoveOutcome, Outside
<1>3. CASE MoveAxis
  <2>1. PICK a \in Axes, r \in Codes :
          /\ NextInMap(a)
          /\ send_command(r, MoveLegal(Destination(a)), Move(Destination(a)))
          /\ ret' = r
          /\ todo' = AfterMove(r, a)
          /\ accepted' = IF r < 0 THEN accepted ELSE accepted \cup {a}
          /\ pc' = IF todo' = {} THEN "restore" ELSE "select"
    BY <1>3 DEF MoveAxis
  <2>2. UNCHANGED <<board, chosen, op, arg, req>> /\ pc = "go"
    BY <1>3 DEF MoveAxis
  <2>3. MoveInProgress /\ a \in todo /\ \A b \in todo : a <= b
    BY <2>1, <2>2 DEF Inv, NextInMap
  <2>4. PM381TypeOK' /\ ErrorType'
    <3>1. Destination(a) \in Int
      BY <1>1, <2>3, DestinationType
    <3> QED BY <1>1, <2>1, <3>1, ExchangeTypes, CardTypes
  <2>5. TypeOK'
    BY <1>1, <2>1, <2>2, <2>3, <2>4 DEF TypeOK, ErrorType, board, PCs, AfterMove
  <2>6. CASE r < 0
    <3>1. pc' = "restore" /\ accepted' = accepted /\ ret' < 0 /\ req' = req /\ op' = op
      BY <2>1, <2>2, <2>6 DEF AfterMove
    <3>2. accepted \subseteq DOMAIN req /\ accepted # DOMAIN req
          /\ \A c \in accepted, b \in DOMAIN req : b < c => b \in accepted
      <4>1. accepted = DOMAIN req \ todo /\ todo \subseteq Axes /\ DOMAIN req \subseteq Axes
        BY <2>3, TargetFacts DEF MoveInProgress
      <4>2. \A c \in accepted, b \in todo : c < b
        BY <2>3 DEF MoveInProgress
      <4>3. accepted \subseteq DOMAIN req /\ accepted # DOMAIN req
        BY <2>3, <4>1 DEF MoveInProgress
      <4>4. ASSUME NEW c \in accepted, NEW b \in DOMAIN req, b < c PROVE b \in accepted
        <5>1. b \in Int /\ c \in Int
          BY <1>1, <4>1
        <5>2. b \notin todo
          BY <4>2, <4>4, <5>1
        <5> QED BY <4>1, <5>2
      <4> QED BY <4>3, <4>4
    <3>3. MoveOutcome'
      <4>1. ~(ret' >= 0)
        BY <2>1, <2>6 DEF Codes, E_PM381_ERROR_MSG, E_SIZE_PM381_REPLY_SHORT
      <4> QED BY <3>1, <3>2, <4>1 DEF MoveOutcome
    <3> QED BY <2>5, <3>1, <3>3 DEF Inv, Outside
  <2>7. CASE ~(r < 0)
    <3>1. r = 0
      BY <2>7 DEF Codes, E_PM381_ERROR_MSG, E_SIZE_PM381_REPLY_SHORT
    <3>2. todo' = todo \ {a} /\ accepted' = accepted \cup {a} /\ req' = req /\ op' = op
          /\ ret' = 0
      BY <2>1, <2>2, <3>1 DEF AfterMove
    <3>3. accepted' = DOMAIN req \ todo' /\ todo' \subseteq DOMAIN req
      BY <2>3, <3>2 DEF MoveInProgress
    <3>4. \A c \in accepted', b \in todo' : c < b
      <4>1. DOMAIN req \subseteq Axes
        BY <2>3, TargetFacts DEF MoveInProgress
      <4>2. ASSUME NEW c \in accepted', NEW b \in todo' PROVE c < b
        <5>1. CASE c \in accepted
          BY <2>3, <3>2, <5>1, <4>2 DEF MoveInProgress
        <5>2. CASE c = a
          <6>1. a \in Int /\ b \in Int /\ a <= b /\ a # b
            BY <1>1, <2>3, <3>2, <4>1, <4>2 DEF MoveInProgress
          <6> QED BY <5>2, <6>1
        <5> QED BY <3>2, <4>2, <5>1, <5>2
      <4> QED BY <4>2
    <3>5. CASE todo' = {}
      <4>1. pc' = "restore" /\ accepted' = DOMAIN req
        BY <2>1, <3>3, <3>5
      <4>2. MoveOutcome'
        BY <3>2, <4>1 DEF MoveOutcome
      <4> QED BY <2>5, <4>1, <4>2 DEF Inv, Outside
    <3>6. CASE todo' # {}
      <4>1. pc' = "select" /\ MoveInProgress'
        BY <2>1, <2>3, <3>2, <3>3, <3>4, <3>6 DEF MoveInProgress
      <4> QED BY <2>5, <4>1 DEF Inv, Outside, MoveOutcome
    <3> QED BY <3>5, <3>6
  <2> QED BY <2>6, <2>7
<1>4. CASE RestoreEnvironment
  <2>1. PICK r \in Codes : send_command(r, ChannelLegal(envion), Channel(envion))
    BY <1>4 DEF RestoreEnvironment, Ignored
  <2>2. ChannelLegal(envion) /\ Channel(envion) => PM381TypeOK'
    BY <1>1, CardTypes DEF TypeOK
  <2>3. PM381TypeOK' /\ ErrorType'
    BY <1>1, <2>1, <2>2, ExchangeTypes
  <2>4. UNCHANGED <<board, chosen, op, ret, arg, req, todo, accepted>>
        /\ pc = "restore" /\ pc' = "idle"
    BY <1>4 DEF RestoreEnvironment, Ignored
  <2> QED BY <2>3, <2>4, IgnoredInv
<1> QED BY <1>2, <1>3, <1>4 DEF Moves

LEMMA CardInv ==
  ASSUME Inv, Card \/ UNCHANGED vars
  PROVE  Inv'
<1>1. UNCHANGED <<board, handler, latest_error, chosen>> /\ (Motion \/ UNCHANGED hw)
  BY DEF Card, vars
<1>2. PM381TypeOK'
  BY <1>1, CardTypes DEF Inv, TypeOK
<1> QED BY <1>1, <1>2 DEF Inv, TypeOK, MoveInProgress, MoveOutcome, board, handler

-----------------------------------------------------------------------------

LEMMA ThrownInv ==
  ASSUME Inv, Thrown
  PROVE  Inv'
<1>1. PM381TypeOK'
  BY CardTypes DEF Thrown, Inv, TypeOK
<1>2. TypeOK'
  BY <1>1 DEF Thrown, Inv, TypeOK, PCs, board
<1> QED BY <1>2 DEF Thrown, Inv, Outside, MoveOutcome

LEMMA InvNext == Inv /\ [Next]_vars => Inv'
BY ThrownInv, ConnectInv, UpdateConfigurationInv, CommandsInv, RequestsInv, MovesInv, CardInv
   DEF Next, Handler

LEMMA Invariance == Spec => []Inv
BY InitInv, InvNext, PTL DEF Spec

\* The board and the card are well formed at all times, for any axes, file,
\* requests and faults: in particular no channel beyond those of the card is
\* selected, and curaxis is an axis or NULL.
THEOREM TypeInvariant == Spec => []TypeOK
<1>1. Inv => TypeOK
  BY DEF Inv
<1> QED BY <1>1, Invariance, PTL

\* move_to and move_rel, whatever fails on the line: the accepted axes are the
\* first ones of the request, and the answer is a success iff they are all.
THEOREM MoveOutcomeInvariant == Spec => []MoveOutcome
<1>1. Inv => MoveOutcome
  BY DEF Inv
<1> QED BY <1>1, Invariance, PTL

-----------------------------------------------------------------------------
(* Error texts.                                                            *)

\* A return code that stands for a refusal comes with the text of the request
\* in progress, at every step.
ErrorInv == ret = -E_PM381_ERROR_MSG => latest_error = "this"

\* No exchange forgets an error of the request in progress.
LEMMA ExchangeError ==
  ASSUME NEW r, NEW legal, NEW ACTION effect, send_command(r, legal, effect)
  PROVE  /\ latest_error = "this" => latest_error' = "this"
         /\ r = -E_PM381_ERROR_MSG => latest_error' = "this"
BY DEF send_command, E_PM381_ERROR_MSG, E_SIZE_PM381_REPLY_SHORT

LEMMA ErrorNext == ErrorInv /\ [Next]_vars => ErrorInv'
<1> SUFFICES ASSUME ErrorInv, [Next]_vars PROVE ErrorInv'
  OBVIOUS
\* Steps that leave the return code alone.
<1>1. ASSUME ret' = ret, latest_error = "this" => latest_error' = "this"
      PROVE  ErrorInv'
  BY <1>1 DEF ErrorInv
<1>2. ASSUME NEW from, NEW to, NEW legal, NEW ACTION effect, Ignored(from, to, legal, effect)
      PROVE  ErrorInv'
  BY <1>1, <1>2, ExchangeError DEF Ignored
<1>3. ASSUME NEW o, NEW legal, NEW ACTION effect, OneExchange(o, legal, effect)
      PROVE  ErrorInv'
  BY <1>3, ExchangeError DEF OneExchange, ErrorInv
<1>4. CASE FirmwareID \/ SetNC \/ SendSpeeds \/ PrintPosition \/ QueryAndDrop \/ RestoreEnvironment
  BY <1>2, <1>4 DEF FirmwareID, SetNC, SendSpeeds, PrintPosition, QueryAndDrop, RestoreEnvironment
<1>5. CASE SendLowerLimit \/ SendUpperLimit
  BY <1>2, <1>5 DEF SendLowerLimit, SendUpperLimit
<1>6. CASE SelectFirst \/ JogOffConnected \/ SendPosition
  BY <1>1, <1>6, ExchangeError DEF SelectFirst, JogOffConnected, SendPosition
<1>7. CASE SelectForUpdate
  BY <1>1, <1>7, ExchangeError DEF SelectForUpdate, setaxisnum
<1>8. CASE SetAxis
  BY <1>8, ExchangeError DEF SetAxis, setaxisnum, ErrorInv
<1>9. CASE SetJog \/ UnsetJog \/ RawCommand
  <2>1. CASE SetJog \/ UnsetJog
    BY <1>3, <2>1 DEF SetJog, UnsetJog
  <2>2. CASE RawSelect \/ RawMove \/ RawMoveTo
    BY <1>3, <2>2 DEF RawSelect, RawMove, RawMoveTo
  <2>3. CASE RawLower \/ RawUpper \/ RawPosition \/ RawChannels
    BY <1>3, <2>3 DEF RawLower, RawUpper, RawPosition, RawChannels
  <2> QED BY <1>9, <2>1, <2>2, <2>3 DEF RawCommand
<1>10. CASE SetZero \/ SaveXml
  BY <1>1, <1>10, ExchangeError DEF SetZero, SaveXml, PlainCommand
<1>11. CASE SelectForMove
  BY <1>1, <1>11, ExchangeError DEF SelectForMove, save_setaxisnum
<1>12. CASE MoveAxis
  BY <1>12, ExchangeError DEF MoveAxis, ErrorInv
<1>13. CASE LeaveInitMode \/ Thrown \/ Card \/ UNCHANGED vars
  BY <1>1, <1>13 DEF LeaveInitMode, Thrown, Card, vars, handler
<1>14. CASE Requests
  <2>1. ret' = 0
    BY <1>14 DEF Requests, ReceiveNumber, ReceiveRaw, ReceivePlain, ReceiveMove,
                 ReceiveInitialZero, Receive
  <2> QED BY <2>1 DEF ErrorInv, E_PM381_ERROR_MSG
<1> QED BY <1>4, <1>5, <1>6, <1>7, <1>8, <1>9, <1>10, <1>11, <1>12, <1>13, <1>14
        DEF Next, Handler, Connect, UpdateConfiguration, Commands, Moves

\* A request that the card refused is answered with its own error, whatever
\* else the line loses, for any axes and requests (latest_error_str_, which
\* is never reset, and get_latest_error in process_msg).
THEOREM ErrorIsCurrentInvariant == Spec => []ErrorIsCurrent
<1>1. Init => ErrorInv
  BY DEF Init, ErrorInv, E_PM381_ERROR_MSG
<1>2. ErrorInv => ErrorIsCurrent
  BY DEF ErrorInv, ErrorIsCurrent
<1> QED BY <1>1, <1>2, ErrorNext, PTL DEF Spec
=============================================================================
