------------------------------ MODULE IAPBoard ------------------------------
(***************************************************************************)
(* The board object of the MOVES server, src/core/IAPBoard.cpp, together   *)
(* with the request handlers of src/core/IAP_server.cpp that drive it.     *)
(*                                                                         *)
(* The server is one thread that runs one handler at a time, but a handler *)
(* talks to the card in several serial exchanges, and between two of them  *)
(* the card goes on moving.  One step of this module is one exchange: the  *)
(* command, the effect it has on the card, the reply, and the code up to   *)
(* the next command.  pc names the exchange the handler is about to make.  *)
(***************************************************************************)
EXTENDS PM381

CONSTANTS
  Axes,          \* the axis ids in parameters.xml
  Slot,          \* Slot[a]: place of axis a in the file, hence in axes
  Num, Den,      \* UnitConversion.factor of a is Num[a] / Den[a] user units per step
  Travel,        \* Travel[a]: the init element, see SoftLimits
  InitialConfig, \* InitialConfig[a]: what the file holds for a
  Initialize,    \* server started with --initialize
  UserValues,    \* coordinates a client may ask for
  RawValues,     \* operands of the raw commands that take a number of steps
  Faults,        \* subset of FaultNames: what may go wrong on the line
  Junk,          \* numbers an uninitialised buffer may happen to hold
  Ops            \* requests that clients send

\* The raw commands of a client: 1CH, 1MR, 1MA, and those that set what the
\* server has set before, 1NC, 1LL, 1UL and 1SP.
RawSettings == {"rawchannels", "rawlower", "rawupper", "rawposition"}
RawOps == {"rawselect", "rawmove", "rawmoveto"} \cup RawSettings

OpNames == {"sa", "ma", "mr", "pp", "zero", "initialzero", "jog", "unjog", "savexml"} \cup RawOps

\* A command that is legal is refused; the reply is too short; it has no text.
FaultNames == {"refused", "short", "blank"}

ConfigRecord == [Position : Int, offset : Int, LowerLimit : Int, UpperLimit : Int]
TravelRecord == [prerange : Nat, range : Nat, forward : Nat, backward : Nat]

ASSUME BoardAssumption ==
  /\ Axes \subseteq Channels /\ Axes # {}
  /\ Slot \in [Axes -> Nat] /\ \A a, b \in Axes : Slot[a] = Slot[b] => a = b
  /\ Num \in [Axes -> Int \ {0}] /\ Den \in [Axes -> Nat \ {0}]
  /\ Travel \in [Axes -> TravelRecord]
  /\ InitialConfig \in [Axes -> ConfigRecord]
  /\ Initialize \in BOOLEAN
  /\ UserValues \subseteq Int /\ RawValues \subseteq Int /\ Junk \subseteq Int
  /\ Faults \subseteq FaultNames
  /\ Ops \subseteq OpNames

VARIABLES
  init_, connected_,  \* members of the same name
  curaxis,            \* id of *curaxis, NULL as 0
  envion,             \* envion.axis_id
  Offset,             \* Axis::Offset_
  config_,            \* the axis elements of the property tree
  latest_error,       \* latest_error_str_: "none", or the request it is about
  pc, op, ret,        \* handler: next exchange, request, return code
  arg, req, todo,     \* handler: operand, requested coordinates, axes not yet visited
  accepted,           \* history: axes whose move the last handler got accepted
  chosen              \* history: axis selected by the last setaxisnum, 0 when the
                      \* channel has since been changed behind its back

board == <<init_, connected_, curaxis, envion, Offset, config_>>
handler == <<pc, op, ret, arg, req, todo, accepted>>
vars == <<hw, board, handler, latest_error, chosen>>

E_PM381_ERROR_MSG == 1
E_SIZE_PM381_REPLY_SHORT == 2
Codes == {0, -E_PM381_ERROR_MSG, -E_SIZE_PM381_REPLY_SHORT}

Targets == UNION {[S -> UserValues] : S \in (SUBSET Axes) \ {{}}}
NoTarget == [a \in {} |-> 0]
MoveOps == {"ma", "mr"}
PCs == {"id", "nc", "config", "speeds", "ll", "ul", "sp", "ch1", "ir", "idle",
        "command", "qp", "zeroed", "select", "go", "restore", "ended"}

\* Type invariant of the board and of the card it talks to.
TypeOK ==
  /\ PM381TypeOK
  /\ init_ \in BOOLEAN /\ connected_ \in BOOLEAN
  /\ curaxis \in Axes \cup {0} /\ envion \in Axes \cup {0} /\ chosen \in Axes \cup {0}
  /\ Offset \in [Axes -> Int] /\ config_ \in [Axes -> ConfigRecord]
  /\ latest_error \in {"none", "this", "earlier"}
  /\ pc \in PCs /\ op \in OpNames \cup {"connect"} /\ ret \in Codes
  /\ arg \in Int /\ req \in Targets \cup {NoTarget}
  /\ todo \in SUBSET Axes /\ accepted \in SUBSET Axes

-----------------------------------------------------------------------------
(* Conversions and configuration arithmetic.                               *)

AbsVal(x) == IF x < 0 THEN -x ELSE x

\* Integer quotient truncated towards zero: static_cast of the double.
TruncDiv(n, d) == LET q == AbsVal(n) \div AbsVal(d)
                  IN IF (n < 0) = (d < 0) THEN q ELSE -q

\* Mutants: the factor applied the wrong way round, the offset forgotten.
FactorInverted(a, u) == TruncDiv(u * Num[a] + Offset[a] * Den[a], Den[a])
OffsetForgotten(a, u) == TruncDiv(u * Den[a], Num[a])

\* User units to steps: trunc(u / factor + Offset_).
conv2bareposition(a, u) == TruncDiv(u * Den[a] + Offset[a] * Num[a], Num[a])

\* Steps to user units, in units of 1 / Den[a]: (b - Offset_) * factor.
conv2position(a, b) == (b - Offset[a]) * Num[a]

\* Soft limits derived from the init element.  prerange and range stand for
\* prerangefac and rangefac times halfaxisturns * 200 steps.
SoftLimits(a, final) ==
  IF final /\ Travel[a].range = 0
  THEN [low |-> -Travel[a].backward, high |-> Travel[a].forward]
  ELSE LET half == (IF final THEN Travel[a].range ELSE Travel[a].prerange) \div 2
       IN [low |-> -half, high |-> half]

\* config_ with the elements of axis a reset as initialisation does.
ResetConfig(a, final) ==
  [config_ EXCEPT ![a] = [Position |-> 0, offset |-> 0,
                          LowerLimit |-> SoftLimits(a, final).low,
                          UpperLimit |-> SoftLimits(a, final).high]]

-----------------------------------------------------------------------------
(* Serial exchanges.                                                       *)

\* Mutant: only the first error is remembered.
FirstErrorKept(r, legal, effect) ==
  \/ r = 0 /\ legal /\ effect /\ UNCHANGED latest_error
  \/ /\ r = -E_PM381_ERROR_MSG /\ (~legal \/ "refused" \in Faults)
     /\ UNCHANGED hw /\ latest_error' = IF latest_error = "none" THEN "this" ELSE latest_error
  \/ /\ r = -E_SIZE_PM381_REPLY_SHORT /\ "short" \in Faults
     /\ (legal /\ effect) \/ UNCHANGED hw
     /\ UNCHANGED latest_error

\* send_command: the reply is either a payload, an error message, which is
\* remembered, or too short to be read, when the card may or may not have
\* carried the command out.  For a reply without a text see Thrown.
send_command(r, legal, effect) ==
  \/ r = 0 /\ legal /\ effect /\ UNCHANGED latest_error
  \/ /\ r = -E_PM381_ERROR_MSG /\ (~legal \/ "refused" \in Faults)
     /\ UNCHANGED hw /\ latest_error' = "this"
  \/ /\ r = -E_SIZE_PM381_REPLY_SHORT /\ "short" \in Faults
     /\ (legal /\ effect) \/ UNCHANGED hw
     /\ UNCHANGED latest_error

\* A command whose effect on the card is not modelled.
PlainCommand(r) == send_command(r, TRUE, UNCHANGED hw)

\* Mutant: the last channel of the reply is missed.
LastTokenMissed(r) == {[a \in Axes \cap (1 .. nc - 1) |-> counter[a]]}

\* get_cur_position: what the reply to 1QP says of the registered axes.  A
\* short reply leaves the buffer uninitialised.
Tokens(r) ==
  IF r = 0 THEN {[a \in Axes \cap (1 .. nc) |-> counter[a]]}
  ELSE IF r = -E_PM381_ERROR_MSG THEN {NoTarget}
  ELSE UNION {[S -> Junk] : S \in SUBSET Axes}

get_cur_position(r, default) ==
  {[a \in DOMAIN t \cup DOMAIN default |-> IF a \in DOMAIN t THEN t[a] ELSE default[a]] :
     t \in Tokens(r)}

\* createBarePosition
ZeroPosition == [a \in Axes |-> 0]

\* setaxisnum: curaxis follows the card, also to an id that is no axis, whose
\* error code -E_AXIS_NUM_INVALID is overwritten by the result of 1CH.
setaxisnum(r, n) ==
  /\ send_command(r, ChannelLegal(n), Channel(n))
  /\ IF r >= 0
     THEN /\ curaxis' = (IF n \in Axes THEN n ELSE 0)
          /\ chosen' = curaxis'
     ELSE UNCHANGED <<curaxis, chosen>>

\* Mutant: channels counted from 0.
ChannelFromZero(r, n) == send_command(r, ChannelLegal(n - 1), Channel(n - 1))

\* save_setaxisnum: leaves curaxis alone.
save_setaxisnum(r, n) == send_command(r, ChannelLegal(n), Channel(n))

-----------------------------------------------------------------------------
(* connect, initAxes, UpdateConfiguration.                                 *)

\* Mutant: one channel too many.
OneIdTooMany == 1 + CHOOSE m \in Axes : \A a \in Axes : a <= m

MaxId == CHOOSE m \in Axes : \A a \in Axes : a <= m

\* The constructor; serial errors are met by the first exchange.
Init ==
  /\ PM381Init
  /\ init_ = Initialize /\ connected_ = FALSE
  /\ curaxis = 0 /\ envion = 0 /\ chosen = 0
  /\ config_ = InitialConfig /\ Offset = [a \in Axes |-> config_[a].offset]
  /\ latest_error = "none"
  /\ pc = "id" /\ op = "connect" /\ ret = 0
  /\ arg = 0 /\ req = NoTarget /\ todo = Axes /\ accepted = {}

\* strip_ctrl_junk throws at a reply whose text is blank.  Nothing between it
\* and main catches that, so the handler is left and the server ends, by way
\* of catch_int (MovesServer).  Whether the card has carried the command out
\* is left aside: nothing here looks at the card of a server that has ended.
Thrown ==
  /\ "blank" \in Faults /\ pc \notin {"idle", "ended"} /\ pc' = "ended"
  /\ UNCHANGED <<hw, board, latest_error, chosen, op, ret, arg, req, todo, accepted>>

\* An exchange of a fixed command, whose result the handler ignores.
Ignored(from, to, legal, effect) ==
  /\ pc = from /\ pc' = to
  /\ \E r \in Codes : send_command(r, legal, effect)
  /\ UNCHANGED <<board, chosen, op, ret, arg, req, todo, accepted>>

\* Mutant: the number of channels is not set before the axes.
NoSetNC == Ignored("id", "config", TRUE, UNCHANGED hw)

FirmwareID == Ignored("id", "nc", TRUE, UNCHANGED hw)
SetNC == Ignored("nc", "config", TRUE, NumberOfChannels(MaxId, raw))

\* The axis that a loop over the vector axes comes to next.
NextInVector(a) == a \in todo /\ \A b \in todo : Slot[a] <= Slot[b]

AfterAxes == IF op = "connect" THEN "ch1" ELSE "zeroed"

\* Where a loop over the vector goes after axis a.
NextAxis(a) == todo' = todo \ {a} /\ pc' = IF todo' = {} THEN AfterAxes ELSE "config"

\* First part of the loop body of initAxes and SetInitialZero, and of
\* UpdateConfiguration: reset the file's elements, select the axis, re-read
\* them.  An axis that cannot be selected is left as it is.
SelectForUpdate ==
  /\ pc = "config"
  /\ \E a \in Axes, r \in Codes :
       /\ NextInVector(a)
       /\ config_' = IF init_ THEN ResetConfig(a, op = "initialzero") ELSE config_
       /\ setaxisnum(r, a)
       /\ IF r < 0
          THEN NextAxis(a) /\ UNCHANGED Offset
          ELSE /\ Offset' = [Offset EXCEPT ![a] = config_'[a].offset]
               /\ pc' = "speeds" /\ UNCHANGED todo
  /\ UNCHANGED <<init_, connected_, envion, op, ret, arg, req, accepted>>

\* 1sb, 1sv, 1sj, 1sf, 1cr and 1sa, as one.
SendSpeeds == Ignored("speeds", "ll", TRUE, UNCHANGED hw)

SendLowerLimit == \E a \in Axes : NextInVector(a)
  /\ Ignored("ll", "ul", TRUE, LowerLimit(config_[a].LowerLimit, raw))

\* Mutant: the lower limit sent as the upper one.
LowerLimitTwice == \E a \in Axes : NextInVector(a)
  /\ Ignored("ul", "sp", TRUE, UpperLimit(config_[a].LowerLimit, raw))

SendUpperLimit == \E a \in Axes : NextInVector(a)
  /\ Ignored("ul", "sp", TRUE, UpperLimit(config_[a].UpperLimit, raw))

\* Mutant: the position is not sent.
PositionNotSent ==
  /\ pc = "sp" /\ \E a \in Axes : NextInVector(a) /\ NextAxis(a)
  /\ UNCHANGED <<hw, board, latest_error, chosen, op, ret, arg, req, accepted>>

\* With the position the server has set the axis anew.
SendPosition ==
  /\ pc = "sp"
  /\ \E a \in Axes, r \in Codes :
       /\ NextInVector(a)
       /\ send_command(r, TRUE, SetPosition(config_[a].Position, raw \ {chan}))
       /\ NextAxis(a)
  /\ UNCHANGED <<board, chosen, op, ret, arg, req, accepted>>

\* connect selects channel 1 without telling curaxis.
SelectFirst ==
  /\ pc = "ch1" /\ pc' = "ir" /\ chosen' = 0
  /\ \E r \in Codes : send_command(r, ChannelLegal(1), Channel(1))
  /\ UNCHANGED <<board, op, ret, arg, req, todo, accepted>>

JogOffConnected ==
  /\ pc = "ir" /\ pc' = "idle" /\ connected_' = TRUE
  /\ \E r \in Codes : send_command(r, TRUE, JogMode(FALSE))
  /\ UNCHANGED <<init_, curaxis, envion, Offset, config_, chosen, op, ret, arg, req,
                 todo, accepted>>

Connect == FirmwareID \/ SetNC \/ SelectFirst \/ JogOffConnected

UpdateConfiguration ==
  SelectForUpdate \/ SendSpeeds \/ SendLowerLimit \/ SendUpperLimit \/ SendPosition

-----------------------------------------------------------------------------
(* Requests.                                                               *)

\* process_msg starts on a request: o with operand n or coordinates u.
Receive(o, n, u, next) ==
  /\ pc = "idle" /\ o \in Ops
  /\ op' = o /\ arg' = n /\ req' = u /\ pc' = next
  /\ ret' = 0 /\ accepted' = {}
  /\ latest_error' = IF latest_error = "none" THEN "none" ELSE "earlier"
  /\ UNCHANGED <<hw, init_, connected_, curaxis, Offset, config_, chosen>>

ReceiveNumber == \E n \in 0 .. MaxChannel, o \in {"sa", "rawselect", "rawchannels"} :
  Receive(o, n, NoTarget, "command") /\ UNCHANGED <<envion, todo>>

\* What matches ^[[:digit:]][[:alpha:]]+-?[[:digit:]]*$ goes to the card as it
\* is.  Raw 1AR and 1IR do what set and unset jog do; the others (1QP, 1OC,
\* the speeds) change nothing that is modelled.
ReceiveRaw == \E n \in RawValues, o \in RawOps \ {"rawselect", "rawchannels"} :
  Receive(o, n, NoTarget, "command") /\ UNCHANGED <<envion, todo>>

ReceivePlain == \E o \in {"pp", "zero", "jog", "unjog", "savexml"} :
  Receive(o, 0, NoTarget, "command") /\ UNCHANGED <<envion, todo>>

\* Mutant: the selection is not saved.
SaveForgotten == \E o \in MoveOps, u \in Targets :
  Receive(o, 0, u, "select") /\ UNCHANGED envion /\ todo' = DOMAIN u

\* ma, mr: the move functions begin with SaveEnvironment.
ReceiveMove == \E o \in MoveOps, u \in Targets :
  /\ Receive(o, 0, u, "select")
  /\ envion' = (IF curaxis = 0 THEN envion ELSE curaxis)
  /\ todo' = DOMAIN u

\* initialzero is answered with an error in normal mode.
ReceiveInitialZero ==
  /\ init_
  /\ Receive("initialzero", 0, NoTarget, "qp") /\ UNCHANGED envion /\ todo' = Axes

\* sa N, set axis N.
SetAxis ==
  /\ pc = "command" /\ op = "sa" /\ pc' = "idle"
  /\ \E r \in Codes : setaxisnum(r, arg) /\ ret' = r
  /\ UNCHANGED <<init_, connected_, envion, Offset, config_, op, arg, req, todo, accepted>>

\* set jog, unset jog and the raw commands: one exchange, its code the answer.
OneExchange(o, legal, effect) ==
  /\ pc = "command" /\ op = o /\ pc' = "idle"
  /\ \E r \in Codes : send_command(r, legal, effect) /\ ret' = r
  /\ UNCHANGED <<board, op, arg, req, todo, accepted>>

SetJog == OneExchange("jog", TRUE, JogMode(TRUE)) /\ UNCHANGED chosen
UnsetJog == OneExchange("unjog", TRUE, JogMode(FALSE)) /\ UNCHANGED chosen
RawSelect == OneExchange("rawselect", ChannelLegal(arg), Channel(arg)) /\ chosen' = 0
RawMove == OneExchange("rawmove", MoveLegal(counter[chan] + arg), Move(counter[chan] + arg))
           /\ UNCHANGED chosen
RawMoveTo == OneExchange("rawmoveto", MoveLegal(arg), Move(arg)) /\ UNCHANGED chosen

\* The raw settings act on the channel that happens to be selected.
RawLower == OneExchange("rawlower", TRUE, LowerLimit(arg, raw \cup {chan})) /\ UNCHANGED chosen
RawUpper == OneExchange("rawupper", TRUE, UpperLimit(arg, raw \cup {chan})) /\ UNCHANGED chosen
RawPosition == OneExchange("rawposition", TRUE, SetPosition(arg, raw \cup {chan}))
               /\ UNCHANGED chosen

\* 1NC cuts off the channels above its operand.
CutOff(n) == {c \in Channels : c > n}
RawChannels == OneExchange("rawchannels", arg \in Channels,
                           NumberOfChannels(arg, raw \cup CutOff(arg))) /\ chosen' = 0

RawCommand == RawSelect \/ RawMove \/ RawMoveTo \/ RawLower \/ RawUpper \/ RawPosition
              \/ RawChannels

\* pp and pbp print what came back from 1QP, whether or not it is a position.
PrintPosition == op = "pp" /\ Ignored("command", "idle", TRUE, UNCHANGED hw)

\* Mutant: only the axis object gets the new offset.
TreeForgotten(bp) == config_

\* The property tree with the offsets bp.
WithOffset(bp) == [a \in Axes |-> [config_[a] EXCEPT !.offset = bp[a]]]

\* set zero: whatever came back from 1QP becomes the offset, and the answer
\* is a success.
SetZero ==
  /\ pc = "command" /\ op = "zero" /\ pc' = "idle"
  /\ \E r \in Codes :
       /\ PlainCommand(r)
       /\ \E bp \in get_cur_position(r, ZeroPosition) :
            /\ Offset' = bp
            /\ config_' = WithOffset(bp)
  /\ UNCHANGED <<init_, connected_, curaxis, envion, chosen, op, ret, arg, req, todo, accepted>>

\* Mutant: the positions are not put into the tree.
PositionsDropped(bp) == config_

\* savexml: the positions that came back go to the property tree, whose
\* other entries stay; MovesServer writes the tree to the file.
WithPosition(bp) ==
  [a \in Axes |-> IF a \in DOMAIN bp THEN [config_[a] EXCEPT !.Position = bp[a]]
                 ELSE config_[a]]

SaveXml ==
  /\ pc = "command" /\ op = "savexml" /\ pc' = "idle"
  /\ \E r \in Codes :
       /\ PlainCommand(r)
       /\ \E bp \in get_cur_position(r, NoTarget) : config_' = WithPosition(bp)
  /\ UNCHANGED <<init_, connected_, curaxis, envion, Offset, chosen, op, ret, arg, req, todo,
                 accepted>>

\* initialzero: SetInitialZero asks for the positions and drops them, ...
QueryAndDrop == Ignored("qp", "config", TRUE, UNCHANGED hw)

\* ... goes over the axes (UpdateConfiguration above), and leaves the mode.
LeaveInitMode ==
  /\ pc = "zeroed" /\ pc' = "idle" /\ init_' = FALSE
  /\ UNCHANGED <<hw, connected_, curaxis, envion, Offset, config_, latest_error, chosen,
                 op, ret, arg, req, todo, accepted>>

Commands == SetAxis \/ SetJog \/ UnsetJog \/ RawCommand \/ PrintPosition
            \/ SetZero \/ SaveXml \/ QueryAndDrop \/ LeaveInitMode

-----------------------------------------------------------------------------
(* Moves: for each axis in the order of its id select it and command the   *)
(* move, up to the first move that fails; then select what was selected.   *)

NextInMap(a) == a \in todo /\ \A b \in todo : a <= b

\* The result of the selection is not looked at.
SelectForMove ==
  /\ pc = "select" /\ pc' = "go"
  /\ \E a \in Axes, r \in Codes : NextInMap(a) /\ save_setaxisnum(r, a)
  /\ UNCHANGED <<board, chosen, op, ret, arg, req, todo, accepted>>

\* Mutant: a relative move treated as an absolute one.
AlwaysAbsolute(a) == conv2bareposition(a, req[a])

\* Where the card is told to go: mr adds to the counter the same bare
\* coordinate, offset included, that ma moves to.
Destination(a) == conv2bareposition(a, req[a]) + (IF op = "mr" THEN counter[chan] ELSE 0)

\* Mutants: the loop does not end at a failure, or never advances.
NoBreak(r, a) == todo \ {a}
NoAdvance(r, a) == IF r < 0 THEN {} ELSE todo

\* The axes left after axis a got the code r.
AfterMove(r, a) == IF r < 0 THEN {} ELSE todo \ {a}

MoveAxis ==
  /\ pc = "go"
  /\ \E a \in Axes, r \in Codes :
       /\ NextInMap(a)
       /\ send_command(r, MoveLegal(Destination(a)), Move(Destination(a)))
       /\ ret' = r
       /\ todo' = AfterMove(r, a)
       /\ accepted' = IF r < 0 THEN accepted ELSE accepted \cup {a}
       /\ pc' = IF todo' = {} THEN "restore" ELSE "select"
  /\ UNCHANGED <<board, chosen, op, arg, req>>

\* RestoreEnvironment, and process_msg answers by ret.
RestoreEnvironment == Ignored("restore", "idle", ChannelLegal(envion), Channel(envion))

Moves == SelectForMove \/ MoveAxis \/ RestoreEnvironment

-----------------------------------------------------------------------------

Requests == ReceiveNumber \/ ReceiveRaw \/ ReceivePlain \/ ReceiveMove
            \/ ReceiveInitialZero

Handler == Connect \/ UpdateConfiguration \/ Commands \/ Moves \/ Thrown

Card == Motion /\ UNCHANGED <<board, handler, latest_error, chosen>>

Next == Handler \/ Requests \/ Card

\* The server thread goes on and a driven motor turns; clients need not ask.
Fairness == WF_vars(Handler)
            /\ \A c \in Channels :
                 WF_vars(Step(c) /\ UNCHANGED <<board, handler, latest_error, chosen>>)

Spec == Init /\ [][Next]_vars /\ Fairness

-----------------------------------------------------------------------------
(* Properties.  The first group is about a line without faults.  What the  *)
(* server has set stands only until a client sets it by a raw command, so  *)
(* these properties say for which axes they hold: those that raw leaves    *)
(* out, or those that a raw 1NC has not cut off.                           *)

\* A move command reaches the axis it is meant for: when the handler is about
\* to send it, the card has that axis selected (save_setaxisnum, then move).
MoveHitsAxis == pc = "go" => \A a \in Axes : NextInMap(a) /\ a <= nc => chan = a

\* The axis selected by the last setaxisnum stays selected, and the server
\* knows it, through any moves and zeroings, up to the next selection
\* (SaveEnvironment and RestoreEnvironment around the loop of a move).
SelectionKept == pc = "idle" /\ chosen # 0 => chan = chosen /\ curaxis = chosen

\* Between requests the card enforces the soft limits of the configuration,
\* on each axis its own, until a raw 1LL or 1UL changes them (initAxes,
\* SetInitialZero, UpdateConfiguration).
LimitsInForce ==
  pc = "idle" => \A a \in Axes \ raw : lower[a] = config_[a].LowerLimit
                                    /\ upper[a] = config_[a].UpperLimit

\* Between requests no axis is, or is on its way, beyond the soft limits that
\* the configuration states, whatever was commanded before, unless a raw
\* command has changed its limits or position (the limits are sent before the
\* position, and moves, raw ones too, are checked against them).
WithinLimits ==
  pc = "idle" => \A a \in Axes \ raw : {counter[a], goal[a]} \subseteq
                                      config_[a].LowerLimit .. config_[a].UpperLimit

\* The offset conversions use is the one a savexml would write: SetZero and
\* UpdateConfiguration keep Axis::Offset_ and the property tree in step.  (An
\* axis that a raw 1NC has cut off is skipped by initialzero, which has
\* already reset its elements of the tree.)
OffsetsAgree == pc = "idle" => \A a \in Axes \ raw : Offset[a] = config_[a].offset

\* Less than one step between b steps and u user units on axis a.
WithinAStep(a, b, u) == AbsVal(conv2position(a, b) - u * Den[a]) < AbsVal(Num[a])

\* An answered ma ends where it was asked to: once the motors stand, every
\* axis of the request reads within one step of the requested coordinate,
\* under the offset then in force (conversion there and back, selection and
\* move of every axis), if the card still has a channel for each.
AbsoluteMoveLands ==
  pc = "idle" /\ op = "ma" /\ ret >= 0 /\ ~jog /\ DOMAIN req \subseteq 1 .. nc =>
    \A a \in DOMAIN req : counter[a] = goal[a] => WithinAStep(a, counter[a], req[a])

\* An accepted mr moves the axis by the requested amount, to within a step,
\* and commands no other (help text: "mr x=1.0,y=2.0 : move relative").
RelativeMoveAdvances ==
  [][\A a \in Axes :
       pc = "go" /\ op = "mr" /\ accepted' = accepted \cup {a} /\ NextInMap(a) /\ a <= nc =>
         /\ AbsVal((goal'[a] - counter[a]) * Num[a] - req[a] * Den[a]) < AbsVal(Num[a])
         /\ \A c \in Channels \ {a} : goal'[c] = goal[c]]_vars

\* What psl prints is in user units but counted from the card's zero, while ma
\* takes a coordinate from the user's zero: a coordinate that, with the offset
\* of the axis added, lies inside the printed limits is never refused
\* (get_lower_softlimits and get_upper_softlimits against conv2bareposition).
Printed(a, limit) == limit * Num[a]
InPrintedLimits(a, u) ==
  LET low == Printed(a, config_[a].LowerLimit)
      high == Printed(a, config_[a].UpperLimit)
      fromCardZero == u * Den[a] + Offset[a] * Num[a]
  IN \/ low <= fromCardZero /\ fromCardZero <= high
     \/ high <= fromCardZero /\ fromCardZero <= low
PrintedLimitsHold ==
  pc = "idle" /\ op = "ma" /\ (\A a \in DOMAIN req : a \notin raw /\ InPrintedLimits(a, req[a]))
    => ret >= 0

\* set zero makes the current position the origin: every axis that the card
\* has a channel for reads 0 (the comment in process_msg: "set current
\* relative position to zero").
ZeroReadsZero ==
  [][pc = "command" /\ op = "zero" /\ pc' = "idle"
       => \A a \in Axes : a <= nc => conv2position(a, counter[a])' = 0]_vars

(* The second group holds whatever fails on the line.                      *)

\* A move visits its axes in the order of their ids and stops at the first
\* that is refused: the answer is a success iff all of them were accepted,
\* and none after a refused one was commanded (move_to, move_rel).
MoveOutcome ==
  pc \in {"idle", "restore"} /\ op \in MoveOps =>
    /\ accepted \subseteq DOMAIN req
    /\ \A a \in accepted, b \in DOMAIN req : b < a => b \in accepted
    /\ ret >= 0 <=> accepted = DOMAIN req

\* A request that fails because the card refused something is answered with
\* an error of its own, not with the text that an earlier request has left in
\* latest_error_str_ (get_latest_error in process_msg, after moves that go on
\* to other exchanges and after raw commands).
ErrorIsCurrent ==
  pc = "idle" /\ op \in MoveOps \cup RawOps /\ ret = -E_PM381_ERROR_MSG
    => latest_error = "this"

\* Every request is answered, and the server starts listening, unless a blank
\* reply ends it (no handler loops over its axes for ever).
Answered == (pc # "idle") ~> (pc \in {"idle", "ended"})
=============================================================================
