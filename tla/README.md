# A verification project for MOVES (StepperController)

MOVES drives the stepper motors of a sample stage. A server owns a PM381
motor card on a serial line and takes text commands over TCP; a command line
client, a wxWidgets GUI and batch files are its clients. A second program, the
electron gun console, uses the same serial library. This directory models that
code in TLA+, checks the models with TLC and proves every safety property that
is checked and holds, for every value of the constants, with TLAPS. Paths below
are relative to the root of the repository's checkout, lines refer to the files
there.

## 1. Inventory

| component | state | operations | modules | state of the work |
|---|---|---|---|---|
| Board, `src/core/IAPBoard.cpp` | axes (factor, offset), `curaxis`, `envion`, `init_`, `connected_`, last error, the property tree of `parameters.xml` | connect, setaxisnum, move_to, move_rel, SetZero, SetInitialZero, get_cur_position | `PM381`, `IAPBoard` | modelled; all safety properties proved |
| Request handlers, `session::process_msg` in `src/core/IAP_server.cpp` | none of their own | one per text command; what looks like a command of the card goes to it as it is | `IAPBoard` | every request that changes something; of the raw commands `1CH`, `1MR`, `1MA`, `1NC`, `1LL`, `1UL`, `1SP` |
| Server process, `main`, `catch_int` | the file | start, signal, exception, death, restart | `MovesServer` | modelled; all safety properties proved |
| Serial line, `send_lowlevel`, `src/core/ctb.cpp` | static buffer, `readflag` | send, poll, receive | `SerialLink`, `SerialRPC` | modelled for a steady card; safety proved |
| Sessions and framing, `include/IAP_server.hpp`, `include/message.hpp` | listener, and per connection `data_` and what is read next | accept, read header, read body, write, end of connection, session or server | `Connections`, `RequestReply`; `Session` under the GUI | modelled; the refinement of `RequestReply` proved for whole headers |
| Coordinates, `include/position.hpp`, `include/helper.hpp` | a map from names to values | parse_multiplett, look up, fill a Position | `Coordinates` | reading, proved to be what is meant; printing is not |
| Command line client, `src/core/IAP_client_cli.cpp` | command list, mode | single command, batch file, prompt | `CliClient` over `Connections` | modelled; all safety properties proved |
| GUI, `src/gui` | widgets, `cp_`, `posthread`, two mutexes, request and reply | event handlers, position thread, batch thread | `PositionGUI` over `Session` | modelled, without lost connections; all safety properties proved |
| Electron gun console, `src/core/egun_cli.cpp` | command list, settings of the gun | batch, `--cmd`, prompt; energy with its defaults | `Egun` | modelled, without the reading of options; all safety properties proved |

How they interact: a client sends one request and waits for one answer. The
server is single threaded (one `io_service::run`), so handlers never overlap,
but a handler makes up to some twenty serial exchanges, and between two of
them the motors go on turning and, in jog mode, the operator drives them by
hand. The GUI has three kinds of threads on one connection. SIGINT enters the
server at any instruction.

What is hard about it:

- The card acts on the *selected* channel. A move, a limit or a position that
  is sent after a refused or forgotten selection goes to another motor. Moves
  change the selection and have to put it back.
- Offset and position live in the axis object, in the property tree, in the
  file and in the card. The card forgets everything when it is switched off;
  the file is then the only memory.
- Initialisation and zeroing take many exchanges while motors may turn.
- Clients may send the card raw commands, as the repository's README and
  `example.bat` do: what the server has set is then no longer what is in force.
- The server outlives its clients: a GUI finds the mode, the selection and the
  settings that others have left.
- Nothing marks the end of a serial reply; it ends when a poll brings nothing.
- Connections come and go, and one session's exception ends the server for all.
- GUI handlers, position threads and batch threads share a connection, a
  stored position and the widgets.
- The gun console sends the energy first and looks up what belongs to it later.

`PROJECT.json` lists the hazards, at their lines, with the properties that
would catch them.

What makes each part correct:

- *Board*: a command reaches its axis; the selection survives moves; a move
  lands within a step of the requested coordinate; limits in the card are the
  configured ones and no motor is driven beyond them, until a client sets
  others by a raw command; a failure stops a move and is told; every request is
  answered.
- *Server*: after any sequence of stops and starts counters, zero and limits
  are what they were.
- *Serial line*: every call returns, with the reply to its own command.
- *Sessions and coordinates*: to each client, whatever others do, the server
  carries out its requests in order, each at most once, moves where the line
  says and answers with the outcome.
- *Command line client*: it comes to its end; it and its session never wait for
  each other; it sends nothing while the axes are initialised.
- *GUI*: each thread gets its own answers; check box and threads agree about jog
  mode, and the board with them as long as it does what the window asks; no handler hangs, and threads that wait for the connection,
  the window or each other never do so in a circle; in jog mode the fields
  follow the motors.
- *Gun console*: what is sent belongs together; the program ends.

## 2. Modules

**`PM381`** (external). The card: selected channel, number of channels, jog
mode, counter, goal and soft limits of each channel. It is modelled from what
the repository sends and expects. Assumptions a user of the card should
confirm: `1MA` and `1MR` are checked against the soft limits and answered at
once, before the motor has arrived; `1MR` counts from the counter; `1SP`
overwrites the counter and stops the motor; a command answered with `!` has no
effect; in jog mode only the selected channel turns, within its limits.

**`IAPBoard`**. The board and the handlers of `process_msg` that change
something. One step is one serial exchange: the command, its effect, its reply,
and the code up to the next command. `pc` names the exchange that comes next,
`op` the request, `todo` the axes a loop has not visited. `Faults` says what
may go wrong on the line: "refused" (the card answers `!`), "short" (a reply
that is too short, to a command that may have been carried out) and "blank" (a
reply without text). The first two set the
error code of `send_command`, and what a handler then does, or omits to do, is
in the model: `save_setaxisnum`'s result is ignored by `move_to`, `1QP`'s by
everyone. At the third `strip_ctrl_junk` throws, the handler is left and the
server ends (`Thrown`); what `main` does then is `CatchInt` of `MovesServer`,
and that module's runs and theorems about the file assume no faults.

Raw commands: `1CH`, `1MR`, `1MA` act as the server's own do; `1NC`, `1LL`, `1UL`
and `1SP` overwrite what the server has set, on the channel that happens to be
selected. No property can promise that what the server has set stays in force
then. The history `raw` (in `PM381`) is the set of channels that such a command
has changed or cut off, up to the server's next `1SP` to the channel, the last
exchange of `UpdateConfiguration`; `LimitsInForce`, `WithinLimits`,
`OffsetsAgree` and `PrintedLimitsHold` speak of the other channels, and
`MoveHitsAxis`, `AbsoluteMoveLands`, `RelativeMoveAdvances` and `ZeroReadsZero` of
those that the card still has. `1AR` and `1IR` are `set jog` and `unset jog`. `Junk` are numbers an uninitialised reply buffer may hold. Steps of
unit conversion are exact rationals `Num/Den`, truncated as `static_cast<int>`
does; rounding of `double` is not modelled. Two more history variables,
`accepted` and `chosen`, record what properties speak of.

**`MovesServer`** extends it by the process: the file, SIGINT or an exception
(`CatchInt`), sudden death (`Killed`), a card switched off (`PowerCycle`) and a
new start (`Restart`). The histories `shift` and `origin` say where a counter's
0 and the user's zero really lie. With `Careful` operators stop or kill the
server, and `savexml`, only when no request is in progress and the motors
stand; without it a signal may come at any point. `savexml` writes in two steps,
between which the file is `Torn`, as the code truncates it in place: a signal
in between leaves a whole file, since `catch_int` writes it once more, and a
death leaves none, from which no server starts.

**`SerialLink`** is `send_lowlevel` over ctb with replies in pieces;
**`SerialRPC`** is the abstract call it implements. `Steady` says that the card
does not pause for 50 ms within a reply. Without it, and with a lost reply, the
call is not implemented: the rest of a split reply is taken for the next one's,
and a lost one hangs the server, which has no timeout. These are properties of
the design; the run states the condition under which it works.

**`Coordinates`** is how `ma` and `mr` are read: the fields of a line, each with
or without a delimiter, a name, a number or something that is none, or an escape
that makes the tokenizer throw; `map::insert`, which keeps the first value of a
name; the uninitialised number of an empty field (`Junk`). `Meant` says
independently of the loop what a user means by the same fields.
**`RequestReply`** is what clients take the server for: one request at a time,
carried out at most once, moving nowhere but where `Meant` says, answered with
its outcome. Of an empty value it promises nothing.

**`Connections`** is class `server` and class `session`: the accept that is armed
again after each client and not after an error, and a session's three handlers
over streams of words (type, length, text). The end of the last session ends
`io_service::run` when no accept is armed; an exception or a signal ends all.
`Whole = FALSE` lets `async_read_some` bring half of a header. The board is
reduced to its initialize mode here; `IAPBoard` says what a request does to it.
**`CliClient`** puts command line clients in front of it: connect, ask for the
mode, then one command, a batch or a prompt, with `sleep` and `quit` dealt with
locally. Users may kill a client at any time.

**`Session`** is the server's end of a single connection with whole headers, and
a board reduced to jog mode, axis, position and initialize mode. It starts with
whatever earlier clients have left, and the card may refuse `set jog`, `unset
jog`, `set axis` and moves. The histories `jogby` and `axisby` tell whose request
the mode and the axis come from, nobody's after a refusal: the window does not
look at these answers, so that it can agree with the board only about what was
its own last request.
**`PositionGUI`** composes it with the client. A handler or thread is the
sequence `todo[t]` of what it still has to do; a request is two steps, send and
receive, with `m_tcpmutex` held in between. Batch files may hold any requests,
those for jog mode and axis included, and a second one may be started beside a
first. The close box ends the process at any time between handlers, whatever
threads there are. Names of threads that have ended are used again. The main thread holds wx's GUI mutex while a handler runs; that, and
that an event added by `AddPendingEvent` is handled before the user's next one,
is taken from wxWidgets. `wxThread::Delete` of a detached thread may return at
once or after the thread's end, depending on the port: both are in the model.
Left out: network errors (`SendandReceive` then returns an error text), threads
that cannot be created, widget layout.

**`Egun`** is the main loop of the gun console over the table of the source.
Energies are tenths of an eV. Interpolations are exact; the settings are
truncated as in the code. The gun may refuse any setting (`Refused`) and may
answer with a number that does not parse. A serial exchange is atomic, as
`SerialLink` justifies.

**`MCIAPBoard`, `MCMovesServer`, `MCCliClient`, `MCPositionGUI`, `MCEgun`** give
the constants values for TLC. The modules that end in `_proofs` hold the
theorems; section 4 names them.

Every module with properties holds, each before the definition it could
replace, a few *mutants*: that definition changed the way a plausible bug
would. `PROJECT.json` pairs each property with one that breaks it.

## 3. Runs

| run | what it asks | states | result |
|---|---|---|---|
| `board_moves` | selections, ma, mr, raw selections, moves, `1SP` and `1NC` of two axes, no faults, no offset | 1 350 000 | holds |
| `board_init` | `--initialize`, zero, initialzero, jog, ma, raw `1UL` and `1NC` while motors turn | 2 330 000 | holds |
| `board_faults` | any exchange refused, short or blank | 154 000 | holds |
| `server_restart` | stops, deaths, power cycles, restarts by careful operators; raw moves and limits | 1 480 000 | holds |
| `serial_link` | `send_lowlevel` implements `SerialRPC` | 118 | holds |
| `sessions` | two command line clients; odd coordinates; failing accepts, exceptions, signals | 284 000 | holds |
| `gui` | jog mode, batch mode, files, buttons, entries, close box; refusals | 138 000 | holds |
| `egun` | command lists with energies at the bends of the table | 67 000 | holds |
| `board_mr_offset` | `mr` with an offset in the file | | violated |
| `board_wrong_axis` | `ma` when a selection is refused | | violated |
| `server_interrupt` | SIGINT at any time | | violated |
| `egun_minimum` | an energy always comes with its defaults | | violated |

**Properties.** About the board: `MoveHitsAxis`, `SelectionKept`,
`AbsoluteMoveLands`, `RelativeMoveAdvances`, `PrintedLimitsHold` (`ma` accepts a
coordinate that, counted from the card's zero, lies within the limits `psl`
prints), `LimitsInForce`, `WithinLimits`, `OffsetsAgree`,
`ZeroReadsZero`, `MoveOutcome`, `ErrorIsCurrent` (a refusal
is answered with its own error text, which nothing resets), and the liveness
property `Answered`. About the server: `Calibrated`, `OriginKept`,
`SavedIsCurrent`, `FileComplete`. About the serial line: `LineQuiet` and
`ImplementsRPC`. About sessions and clients: `ImplementsRequestReply`,
`ConsoleShutDuringInit`, `NoMutualWait`, `Finishes`. About the GUI:
`RepliesMatch`, `JogAgrees`, `CommandsOutsideJog`, `NoCircularWait`,
`FieldsFollow`, `HandlersReturn`. About the gun:
`EnergyCorrected`, `DefaultsLoaded`, `Finishes`. Each is stated in words above
its definition.

**Bounds.** Two axes are the least with a wrong one to hit, an order in the
file, and a second to fail after a first. One has a factor 1/2, the other -2,
so that truncation, sign and several steps per unit occur; travel is a few
steps, so that limits are met from both sides. `MCSlot` puts the axes in the
file in the reverse order of their ids; `MCFileSlot` is the order of the
repository's `parameters.xml`. In `board_moves` offsets are 0, since `mr` is wrong
with others, as `board_mr_offset` shows; `board_init` makes them by zeroing, and
`PrintedLimitsHold` is checked there. Raw commands take one operand, inside the
limits of some axes and positions and outside those of others; each run has the
raw commands that its properties could be broken by. `board_mr_offset` and
`board_wrong_axis` have none, so that nothing but the reported cause is at work.
In the sessions
run one client is given a command or a batch of up to two lines, the other a
user who types an empty line, a move and `quit`; moves have one field of any
kind, alone, behind or in front of another, so that a name comes twice, a bad
field first or last, and a throwing one in between. Two clients are the least
with another session to end the server, or to keep it from ending.
`Whole = TRUE` there: with `FALSE` TLC violates `ImplementsRequestReply` and
`ConsoleShutDuringInit`, since the rest of a header is taken for the body. That
is a hazard of the code that no client of the repository provokes on purpose.
Reply pieces: four, in a buffer of four, is
enough for a reply that fills it. The gui run has every board that earlier
clients may have left, two positions, a batch file of the lines `set jog` and
`set axis`, as `example.bat` has them, for two batch threads, and three user
events, counting turns of the hand wheels: enough to switch to batch mode and
start both batch threads, or to enter jog mode and leave it by a click or by
batch mode while the position thread has still to end, and do one thing more.
Two names suffice for position threads: a third needs five events. The gun run
has lists of two commands and energies on both sides of the table's ends, at an inner entry and between.
Deadlock is checked in the board, server and serial runs, which never stop,
except in `board_faults`, where a blank reply ends the server. The GUI may be closed, and clients, the gun's console and a server without sessions
end, so it is not checked there.

**Fairness.** `IAPBoard`: the server thread goes on (one thread, no lock to
wait for) and a driven motor turns; clients need not ask for anything.
`SerialLink`: the loop polls and the card answers. `CliClient`: the server's loop goes on,
as do clients that are not waiting for their user; accepts need not fail and
nobody needs to type, kill or interrupt. `Egun`: main goes on and the gun
answers; nobody needs to kill it. `PositionGUI`: the server answers; each
thread is scheduled and gets a mutex that is free again and again. The last is
strong fairness; it is justified because position threads sleep 400 ms per turn
without any mutex, the user's events are finitely many in a bounded run, and
nothing holds a mutex over the pause.

**Findings.** Four runs show disagreements of the code with what it says:

1. `move_rel` converts a distance with `conv2bareposition`, which adds the
   axis offset to it (`IAPBoard.cpp:485`): after a set zero, `mr` goes wrong.
2. A refused selection is ignored in a move (`IAPBoard.cpp:520`): the other axis
   moves, the client reads OK.
3. `catch_int` fills up with zeros and may read the reply of the interrupted
   command (`IAP_server.cpp:385`): the file gets positions that are not current.
4. Energies from 10 to about 10.4 eV, among them the table's first, are sent to
   the gun before the program finds the corrected one below the table and
   exits with the old deflections and focus (`egun_cli.cpp:376`).

The models contain further behaviour that no document rules out, and that is
listed as a hazard. After `connect` the card has channel 1 selected by a raw
`1CH1` and `curaxis` is the last axis of the vector, so that the first move
restores an axis that was not selected before it. `ma x=` moves to an
uninitialised number. A backslash that the tokenizer
does not know as an escape ends the server, and so does a reply without text.

Three disagreements have no run of their own, as reading two lines shows them:

- `psl` is announced as "print soft limits (user defined units)"
  (`IAP_server.cpp:63`), but `get_lower_softlimits` and
  `get_upper_softlimits` (`IAPBoard.cpp:576-595`) apply the factor and not the
  offset. After a `set zero` away from the card's zero, `ma` refuses coordinates
  within the printed limits, and accepts some beyond them. `PrintedLimitsHold` is
  therefore stated with the offset added.
- `setaxisnum` sets `E_AXIS_NUM_INVALID` for an id that is no axis and then
  overwrites it (`IAPBoard.cpp:454-457`). When the ids in the file have a gap,
  `sa 2` with axes 1 and 3, the card selects the channel, `curaxis` becomes NULL
  and the answer is a success. The model does this for any ids; no property is
  stated, since without a gap the card itself refuses and there is nothing to
  find.
- The GUI prints or drops the answers to `set jog`, `set axis` and `unset jog`
  (`pm301.cpp:456, 463, 492`). After a refusal check box, fields and board
  differ until the next click. `JogAgrees` and `CommandsOutsideJog` are stated for
  modes that the window's own request has set.

## 4. Proofs

All theorems hold for every value of the constants that satisfies the modules'
assumptions: any number of axes and channels, any factors, offsets, travel,
requests and order in the file (`BoardAssumption`, `MaxChannelAssumption`), any
commands and sizes (`LinkAssumption`), any clients and scripts
(`CliAssumption`, `ConnectionsAssumption`, `CoordinatesAssumption`), any threads
and batch files (`GuiAssumption`, `PositionsAssumption`), any table of rising
energies and any commands (`TableAssumption`, `CommandAssumption`). Further
hypotheses are named in the theorems:

| module | theorem | hypotheses |
|---|---|---|
| `IAPBoard_proofs` | `TypeInvariant`, `MoveOutcomeInvariant`, `ErrorIsCurrentInvariant` | none: under any faults |
| `IAPBoard_faultless_proofs` | `MoveHitsAxisInvariant`, `SelectionKeptInvariant`, `OffsetsAgreeInvariant` | no faults |
| `IAPBoard_positions_proofs` | `LimitsInForceInvariant`, `WithinLimitsInvariant` | no faults, the file has every axis within its limits |
| | `AbsoluteMoveLandsInvariant`, `ZeroReadsZeroProperty` | no faults |
| | `RelativeMoveAdvancesProperty` | no faults, no offsets |
| | `PrintedLimitsHoldInvariant` | no faults, the file as above |
| `MovesServer_proofs` | `ServerTypeInvariant` | none |
| | `FileCompleteInvariant` | careful operators |
| | `CalibratedInvariant`, `OriginKeptInvariant`, `SavedIsCurrentInvariant` | careful operators, no faults, no raw `1NC`, `1LL`, `1UL`, `1SP` (`NoRawSettings`) |
| `SerialLink_proofs` | `LineQuietInvariant`, `RefinesRPC` | a steady card, replies that fit the buffer |
| `CliClient_proofs` | `ConsoleShutInvariant`, `RefinesRequestReply`, `NoMutualWaitInvariant`, `TypeInvariant` | whole headers (`Whole`) |
| | `ReadingIsMeant` | none |
| `PositionGUI_proofs` | `RepliesMatchInvariant`, `JogAgreesInvariant`, `CommandsOutsideJogInvariant`, `NoCircularWaitInvariant`, `TypeInvariant` | none |
| `Egun_proofs` | `EnergyCorrectedInvariant` | the error does not fall with the energy (`ErrorGrows`) |
| | `DefaultsLoadedInvariant` | energies and errors are positive (`PositiveTable`) |
| | `TypeInvariant` | none |

The hypotheses are needed where a run refutes the property without them:
`board_wrong_axis` for the absence of faults, `board_mr_offset` for that of
offsets, `server_interrupt` for careful operators; the split header for whole
headers. A card whose position starts beyond its limits is never brought back,
hence the condition on the file. A raw `1SP` shifts a counter, and after a raw `1NC`
the reply to `1QP` leaves out the axes that it has cut off, for which `catch_int`
then saves zeros: hence `NoRawSettings`, which leaves `1LL` and `1UL` out with
them, although `server_restart` has `1UL` and holds.

**Arguments.** Each is by an inductive invariant, with one lemma per group of
actions and one case per exchange; temporal steps use PTL.

- *Faults.* `Inv` joins `TypeOK` with what is true between two moves of a loop:
  accepted and unvisited axes partition the request, in order, as long as the
  return code is no error. `ErrorInv` says that a refusal in the return code
  comes with this request's text, at every step.
- *Selection.* `SelInv`: after `1NC` the card knows as many channels as the
  largest id, `curaxis` is the chosen axis, and the card has it selected, except
  in a move, when `envion` remembers it. `OffInv`: offset and property tree
  agree at *every* step, more than the property, which speaks of idle states.
- *Positions.* `LimInv` distinguishes axes whose limits a loop has sent from
  those it has still to send. `LandInv` says that an axis a move has commanded
  has a goal within a step of its coordinate; truncation towards zero is dealt
  with by lemmas on `\div` for divisors of either sign. `PrintInv` rests on
  `TruncBetween`: what lies between two truncated numbers in user units lies
  between the exact ones in steps.
- *Server.* `CareInv` is one invariant while the server runs, another while it
  is stopped. The first says of each axis that it is where initialisation put it,
  or where the file says as long as the card has still to be told (`PlaceInv`),
  and the like for the user's zero (`OriginInv`); after `savexml` the file is the
  truth until the next request (`SaveInv`). The second says that the file is.
- *Serial line.* `LineInv` says which pieces of the current reply are in the
  buffer, in the port and with the card: together, in order, what was sent. So
  a poll that brings nothing after something has the whole reply, and
  `RefinesRPC` follows step by step.
- *Console.* `ShutInv`: while the board is in initialize mode a client past
  "mode" has come to its end, and everything on the way to and from another is
  part of the first request or its answer "initialize". The mode is never
  entered again, since only a start sets it.
- *Requests and replies.* `CallInv` says where the request of a client is: not
  made, on its way with nothing of it read (`Sent`), with the header read and the
  body left (`BodyLeft`), carried out and not yet written (`Executed`), or
  answered (`Replied`), and what `data_`, the streams and the history `result`
  are in each; with the script, the mode and `asked` it determines what the
  client may do next. One lemma per handler takes it to the next of these, and
  `CallRefines` reads off that a client's write is a `Call`, its read a
  `Return`, `process_msg` an `Execute`, an end a `Leave`, and all else a stutter.
  `WaitInv` adds that a client that waits has a request somewhere, or an end.
- *Coordinates.* `parse_multiplett` folds over the fields. What the fold has
  made of the first k of them is stated as `Taken`, and that it is so for every
  k follows by the least k for which it would not be, as no induction theorem of
  the library can be instantiated here. `ReadingIsMeant` compares the result with
  `Meant`; `RefinesRequestReply` needs it for the moves.
- *GUI.* `ExchangeInv`: the holder of `m_tcpmutex` has the only request.
  `JogInv` adds where the handler of the main thread is: entering jog mode, in
  it, leaving it, in a handler that leaves it as it is, or about to get the event
  of `ToggleBatchMode`. Each of the five fixes what check box, fields and
  `posthread` are, and what the board is if the main thread's request was the
  last to set it (`JogIs`, `AxisIsSelected`). The board follows when the server
  has carried out that request, before its answer is read (`Done`); what other
  threads do to mode and axis makes the condition false. `ThreadTypes` says that a position thread ends only when told to and that `Delete`
  forgets or waits for who is told. With `Holder`, that whoever has
  `m_tcpmutex` is in `SendandReceive`, there is always somebody who can go on:
  the holder, whose answer is there when the server has nothing to do; the main
  thread; or, while that waits in `Delete`, the thread it waits for.
- *Gun.* `EnergyInv` with `CutOff`: the row found is the one around the energy,
  by the least element of the rows that fit, and an interpolation between two
  rows lies between them, before and after truncation. `FitInv` follows the
  settings one by one; `Interpolation` bounds what cutting off both the energy
  and the value on its line amounts to. The program's table satisfies
  `ErrorGrows` and `PositiveTable`; with an error of 0 the last energy of the
  table would be set without its deflections.

**Only model-checked:** liveness (`Answered`, both `Finishes`, `FieldsFollow`,
`HandlersReturn`, and that of `ImplementsRPC`), since TLAPS 1.4.5 does not reason
about fairness and ENABLED. `NoCircularWait` and `NoMutualWait` are what can be
proved of it: nobody is stuck for want of somebody who is stuck too. No module
uses a RECURSIVE operator. Connections with `Whole = FALSE` are not covered
by any theorem.

## 5. What is not modelled, and why

- Text: formatting of positions and messages, number formats, help texts,
  colours, the history file, logs. No property depends on them.
- Sizes in bytes: the 1024 byte buffers and bodies, the byte that `receive`
  writes behind a full one, answers longer than a body. They need some dozens of
  axes, or a client that sends such a line.
- Death of the process in the middle of a write, and a full disk: `Careful`
  excludes the first from the run, as no file is left then, and nothing in the
  code tries to help.
- Raw commands but `1CH`, `1MR`, `1MA`, `1NC`, `1LL`, `1UL`, `1SP`, `1AR` and `1IR`;
  speeds and acceleration, which nothing checked here depends on; opening and
  closing the serial port; the syntax of `parameters.xml` and `egun.xml`;
  command line options.
- Other clients that use the board while a GUI does, except as the GUI's own
  batch threads, which may send the same requests; and what a thread does with
  the window's memory while the process ends after a click on the close box.
- In the GUI: a lost connection (`SendandReceive` then returns an error text),
  threads that cannot be created, the configuration dialog, layout. Which
  position the fields show when jog mode is left while the position thread
  still has one in hand: it may store the old one last. The model contains
  this; no property is stated, as nothing says what the fields must show then.
- In the gun console: a batch file and `--cmd` at once, and the end of the
  input at the prompt.
- Tests, build files, generated GUI descriptions: no logic of the system.

## 6. Plan

Done, in this order: `PM381` and `IAPBoard`; their proofs; `MovesServer`;
`SerialLink` with `SerialRPC`; `Session` and `PositionGUI`; `Egun`;
`Coordinates`, `RequestReply`, `Connections` and `CliClient`; the torn file; the
proofs of the safety properties of every component, of the refinements and of
the absence of deadlock among clients and threads. Left:

1. The GUI over `Connections` instead of `Session`, with a connection that is lost.
2. The configuration dialogs of the GUI and the options of the gun console.

## 7. Running

    tlc -config board_moves.cfg MCIAPBoard.tla
    tlapm IAPBoard_proofs.tla

and likewise for the other configurations, with the modules that
`PROJECT.json` names for each run.
