--------------------------- MODULE MCPositionGUI ---------------------------
(* An instance of the graphical client for TLC: names for two position     *)
(* threads, so that a new one runs beside one that has still to end, and   *)
(* for two batch threads, which send lines of example.bat.                 *)
EXTENDS PositionGUI

TwoUpdaters == {"u1", "u2"}
TwoBatchers == {"b1", "b2"}
MCPositions == 0 .. 1
MCBatchFile == <<"set jog", "set axis">>
=============================================================================
