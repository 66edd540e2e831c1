---------------------------- MODULE MovesServer ----------------------------
(***************************************************************************)
(* The life of the server process, main and catch_int of                   *)
(* src/core/IAP_server.cpp, around the board: what is kept in              *)
(* parameters.xml when the process stops and what the next one makes of    *)
(* it.  The card counts steps from a point of its own and forgets them     *)
(* when it is switched off, so the file is the only memory of where an     *)
(* axis stands.                                                            *)
(***************************************************************************)
EXTENDS IAPBoard

CONSTANT Careful   \* operators stop and save only with the server idle and
                   \* the motors at rest

ASSUME CarefulAssumption == Careful \in BOOLEAN

VARIABLES
  file,      \* the axis elements of parameters.xml, Torn when it is cut short
  stopped,   \* "no", or how the process ended: "saved", "unsaved", "killed"
  shift,     \* history: where counter 0 of a channel lies, in steps from the
             \* origin that initialisation gave the axis
  origin     \* history: where the user's zero lies, in the same steps

serverVars == <<vars, file, stopped, shift, origin>>

\* write_xml has opened the file, which empties it, and not closed it yet.
Torn == [a \in {} |-> 0]

ServerTypeOK ==
  /\ TypeOK
  /\ file \in [Axes -> ConfigRecord] \cup {Torn}
  /\ stopped \in {"no", "saved", "unsaved", "killed"}
  /\ shift \in [Channels -> Int] /\ origin \in [Axes -> Int]

\* The file tells the truth about the axes when the system is first started;
\* --initialize makes where they stand the origin.  Careful operators have
\* not left the card in jog mode.
ServerInit ==
  /\ Init /\ (Careful => ~jog)
  /\ file = InitialConfig /\ stopped = "no"
  /\ shift = [c \in Channels |-> IF c \in Axes THEN InitialConfig[c].Position ELSE 0]
  /\ origin = [a \in Axes |-> InitialConfig[a].offset]

AtRest == ~jog /\ counter = goal

-----------------------------------------------------------------------------

\* What an exchange does to the two histories.  1sp, the server's or a raw
\* one, renames the point where the axis stands, except in initialize mode,
\* where the server's defines the origin.
ShiftAfter ==
  IF pc = "sp" /\ init_ THEN [shift EXCEPT ![chan] = 0]
  ELSE IF pc = "sp" \/ op = "rawposition" THEN [c \in Channels |-> shift[c] + counter[c] - counter'[c]]
  ELSE shift

OriginAfter ==
  IF pc = "command" /\ op = "zero" /\ pc' = "idle"
  THEN [a \in Axes |-> counter[a] + shift[a]]
  ELSE IF init_ /\ pc = "config" THEN [a \in Axes |-> 0]
  ELSE origin

\* Mutant: the file is written only if the tree has changed.
OnlyIfChanged(tree) == IF tree = config_ THEN file ELSE tree

\* writeconfig, to its end.
writeconfig(tree) == tree

\* A handler's step; savexml goes on to write the file.
Serve ==
  /\ stopped = "no" /\ file # Torn /\ Handler
  /\ file' = IF op = "savexml" /\ pc = "command" THEN Torn ELSE file
  /\ shift' = ShiftAfter /\ origin' = OriginAfter
  /\ UNCHANGED stopped

FinishWrite ==
  /\ stopped = "no" /\ file = Torn /\ file' = writeconfig(config_)
  /\ UNCHANGED <<vars, stopped, shift, origin>>

Request ==
  /\ stopped = "no" /\ file # Torn /\ Requests
  /\ Careful /\ op' = "savexml" => AtRest
  /\ UNCHANGED <<file, stopped, shift, origin>>

\* The card moves on, with or without a server.
Move1 == Card /\ UNCHANGED <<file, stopped, shift, origin>>

\* catch_int: on SIGINT, and from main after an exception.  Before connect is
\* through nothing is saved.  Otherwise the positions that 1QP brings back, or
\* zeros for those it does not, go to the file.  A signal that arrives while a
\* command waits for its reply gets that reply for the positions.  It may also
\* arrive while savexml writes the file.
CatchInt ==
  /\ stopped = "no"
  /\ Careful => AtRest /\ pc = "idle"
  /\ IF ~connected_
     THEN /\ stopped' = "unsaved" /\ UNCHANGED <<config_, file, latest_error>>
     ELSE /\ stopped' = "saved"
          /\ \E r \in Codes :
               /\ PlainCommand(r)
               /\ \E bp \in get_cur_position(r, ZeroPosition)
                           \cup (IF pc = "idle" THEN {} ELSE {ZeroPosition}) :
                    config_' = WithPosition(bp)
          /\ file' = writeconfig(config_')
  /\ UNCHANGED <<hw, init_, connected_, curaxis, envion, Offset, handler, chosen, shift, origin>>

\* The process dies without a word.  Careful operators kill it after savexml.
Killed ==
  /\ stopped = "no" /\ stopped' = "killed"
  /\ Careful => op = "savexml" /\ pc = "idle" /\ file # Torn
  /\ UNCHANGED <<vars, file, shift, origin>>

\* The card is switched off and on while there is no server.
PowerCycle ==
  /\ stopped # "no"
  /\ chan' = 1 /\ nc' = 1 /\ jog' = FALSE
  /\ counter' = [c \in Channels |-> 0] /\ goal' = counter'
  /\ lower' = counter' /\ upper' = counter' /\ raw' = {}
  /\ shift' = [c \in Channels |-> shift[c] + counter[c]]
  /\ UNCHANGED <<board, handler, latest_error, chosen, file, stopped, origin>>

\* main once more, in normal mode: everything comes from the file.  One that
\* is cut short makes read_xml throw, outside of main's try.
Restart ==
  /\ stopped # "no" /\ file # Torn /\ stopped' = "no"
  /\ init_' = FALSE /\ connected_' = FALSE
  /\ curaxis' = 0 /\ envion' = 0 /\ chosen' = 0
  /\ config_' = file /\ Offset' = [a \in Axes |-> file[a].offset]
  /\ latest_error' = "none"
  /\ pc' = "id" /\ op' = "connect" /\ ret' = 0
  /\ arg' = 0 /\ req' = NoTarget /\ todo' = Axes /\ accepted' = {}
  /\ UNCHANGED <<hw, file, shift, origin>>

ServerNext == Serve \/ FinishWrite \/ Request \/ Move1 \/ CatchInt \/ Killed \/ PowerCycle \/ Restart

ServerSpec == ServerInit /\ [][ServerNext]_serverVars

-----------------------------------------------------------------------------

\* Once the server listens, the card's counter of every axis is its true
\* position, however often server and card have been stopped, switched off
\* and started before, as long as no client sets the counter by a raw 1SP or
\* cuts a channel off by a raw 1NC (catch_int or savexml, the file,
\* UpdateConfiguration).
Calibrated == stopped = "no" /\ connected_ /\ pc = "idle" => \A a \in Axes : shift[a] = 0

\* The user's zero stays where set zero put it, across restarts: the offset in
\* the property tree, the one the conversions use and the file agree on it.
OriginKept == stopped = "no" /\ connected_ /\ pc = "idle" =>
                \A a \in Axes : shift[a] + Offset[a] = origin[a]

\* There is a file to start from whenever the server is not running: a stop by
\* a signal leaves a complete one even in the middle of savexml, since
\* catch_int writes it once more (writeconfig truncates the file in place).
FileComplete == stopped # "no" => file # Torn

\* After catch_int the file holds the position of every axis (its message:
\* "saving current pos (bare) of all axes to xml file").
SavedIsCurrent ==
  stopped = "saved" /\ connected_ =>
    \A a \in Axes : file[a].Position = counter[a] + shift[a]
=============================================================================
