-------------------------------- MODULE Egun --------------------------------
(***************************************************************************)
(* The console of the electron gun, main of src/core/egun_cli.cpp: a       *)
(* command names a control and a value; an energy is first corrected by    *)
(* the gun's systematic error, and is followed by the deflections and the  *)
(* focus that belong to it, both interpolated in one table.                *)
(*                                                                         *)
(* Energies are in tenths of an eV, deflections in hundredths, the focus   *)
(* in tenths, which are the units on the wire.  Arithmetic is exact: the   *)
(* rounding of double is not modelled.                                     *)
(***************************************************************************)
EXTENDS Integers, Sequences

CONSTANTS
  Table,        \* defaultparams, a sequence of rows by rising energy
  Commands,     \* what may be in a batch file, behind --cmd or typed in
  MaxCommands,  \* bound on their number
  Modes,        \* subset of {"batch", "cmd", "interactive"}
  Refused       \* controls whose setting the gun may refuse

Controls == 0 .. 7
Energy == 0
Focus == 4
Xdefl == 6
Ydefl == 7

Row == [energy : Int, shift : Int, xdefl : Int, ydefl : Int, focus : Int]

ASSUME TableAssumption ==
  /\ Table \in Seq(Row) /\ Len(Table) >= 2
  /\ \A i \in 1 .. Len(Table) - 1 : Table[i].energy < Table[i + 1].energy

ASSUME CommandAssumption ==
  /\ MaxCommands \in Nat
  /\ \A c \in Commands :
       /\ c.kind \in {"energy", "set", "raw"} => c.value \in Int
       /\ c.kind \in {"set", "raw"} => c.control \in Controls

VARIABLES
  mode,    \* batch file, single commands or prompt
  queue,   \* commands still to be done, or still to be typed
  pc,      \* "prompt", the exchange under way, or "end"
  cmd,     \* the command in work
  row,     \* upper end of the interval of the table, eval in it
  eval,    \* corrected energy
  rpl,     \* what the gun said: "value", "error" (no comma), "garbled"
  dev,     \* settings of the gun
  status,  \* "running", or how main ended
  loaded   \* history: the energy whose settings should be in force, 0 if none

vars == <<mode, queue, pc, cmd, row, eval, rpl, dev, status, loaded>>

-----------------------------------------------------------------------------
\* The number whole + num / den.
Whole(n) == [whole |-> n, num |-> 0, den |-> 1]

\* static_cast<int>: towards zero
Trunc(x) ==
  LET floor == x.whole + x.num \div x.den
  IN IF floor < 0 /\ x.num % x.den # 0 THEN floor + 1 ELSE floor

ConvFac == <<10, 1000, 100, 10, 10, 0, 100, 100>>

\* The value asked for, in thousandths, in the control's unit on the wire.
ToWire(c, v) == Trunc([whole |-> 0, num |-> v * ConvFac[c + 1], den |-> 1000])

linearfit(x1, x2, y1, y2, x) ==
  [whole |-> y1,
   num |-> (y2 - y1) * ((x.whole - x1) * x.den + x.num),
   den |-> (x2 - x1) * x.den]

\* The column f of the table at energy x between rows i - 1 and i.
Interpolated(i, f, x) ==
  linearfit(Table[i - 1].energy, Table[i].energy, Table[i - 1][f], Table[i][f], x)

LowestOf(S) == CHOOSE i \in S : \A j \in S : i <= j

\* The rows at which the search by the energy asked for may stop; the last
\* energy of the table is still allowed.
Above(e) ==
  {i \in 1 .. Len(Table) :
     \/ e < Table[i].energy
     \/ i = Len(Table) /\ e = Table[i].energy}

\* Mutant: The error is added.
ErrorAdded(e) ==
  LET fit == Interpolated(LowestOf(Above(e)), "shift", Whole(e))
  IN [whole |-> e + fit.whole, num |-> fit.num, den |-> fit.den]

CorrectedEnergy(e) ==
  LET fit == Interpolated(LowestOf(Above(e)), "shift", Whole(e))
  IN [whole |-> e - fit.whole, num |-> -fit.num, den |-> fit.den]

\* Mutant: The lower row of the interval is compared.
RowTooHigh(x) ==
  {i \in 2 .. Len(Table) : (x.whole - Table[i - 1].energy) * x.den + x.num < 0}

\* The rows at which the search by the corrected energy may stop.
AboveCorrected(x) ==
  {i \in 1 .. Len(Table) : (x.whole - Table[i].energy) * x.den + x.num < 0}

-----------------------------------------------------------------------------
TypeOK ==
  /\ mode \in Modes /\ Len(queue) <= MaxCommands
  /\ pc \in {"prompt", "send", "xdefl", "ydefl", "focus", "parse", "end"}
  /\ pc \in {"xdefl", "ydefl", "focus"} => row \in 2 .. Len(Table)
  /\ rpl \in {"value", "error", "garbled"}
  /\ dev \in [Controls -> Int]
  /\ status \in {"running", "done", "failed", "exception", "killed"}
  /\ (status # "running") = (pc = "end")

\* The tokenizer of the batch file drops empty lines; --cmd may hold one.
Lists(m) ==
  {q \in UNION {[1 .. n -> Commands] : n \in 1 .. MaxCommands} :
     m = "batch" => \A k \in DOMAIN q : q[k].kind # "empty"}

Init ==
  /\ mode \in Modes /\ queue \in Lists(mode)
  /\ pc = "prompt" /\ cmd = [kind |-> "empty"]
  /\ row = 0 /\ eval = Whole(0) /\ rpl = "value"
  /\ dev = [c \in Controls |-> 0]
  /\ status = "running" /\ loaded = 0

End(how) == pc' = "end" /\ status' = how

NoExchange == UNCHANGED <<mode, rpl, dev, loaded>>

\* A batch command is erased when it is fetched, and main ends when there is
\* none left; one of --cmd when it is done, and main ends after the last.  At
\* the prompt main goes on until it reads quit.
Fetched == IF mode = "cmd" THEN queue ELSE Tail(queue)

BatchDone ==
  /\ pc = "prompt" /\ queue = <<>> /\ mode = "batch"
  /\ End("done")
  /\ UNCHANGED <<queue, cmd, row, eval>> /\ NoExchange

\* quit is a command of the console only outside of batch files.
Quit ==
  /\ pc = "prompt" /\ queue # <<>>
  /\ mode # "batch" /\ Head(queue).kind = "quit"
  /\ End("done")
  /\ UNCHANGED <<queue, cmd, row, eval>> /\ NoExchange

\* continue, which is with the same command again in the list of --cmd.
Empty ==
  /\ pc = "prompt" /\ queue # <<>> /\ Head(queue).kind = "empty"
  /\ queue' = Fetched
  /\ UNCHANGED <<pc, cmd, row, eval, status>> /\ NoExchange

\* lexical_cast<double> throws.
Unreadable ==
  /\ pc = "prompt" /\ queue # <<>> /\ Head(queue).kind = "unreadable"
  /\ queue' = Fetched /\ End("exception")
  /\ UNCHANGED <<cmd, row, eval>> /\ NoExchange

\* An energy outside of the table ends main before anything is sent.
EnergyOutside(e) == Above(e) = {} \/ LowestOf(Above(e)) = 1

FetchEnergy ==
  /\ pc = "prompt" /\ queue # <<>> /\ Head(queue).kind = "energy"
  /\ queue' = Fetched /\ cmd' = Head(queue)
  /\ IF EnergyOutside(cmd'.value)
     THEN End("failed") /\ UNCHANGED eval
     ELSE pc' = "send" /\ eval' = CorrectedEnergy(cmd'.value) /\ UNCHANGED status
  /\ UNCHANGED row /\ NoExchange

FetchOther ==
  /\ pc = "prompt" /\ queue # <<>>
  /\ \/ Head(queue).kind \in {"set", "get", "raw"}
     \/ Head(queue).kind = "quit" /\ mode = "batch"
  /\ queue' = Fetched /\ cmd' = Head(queue) /\ pc' = "send"
  /\ UNCHANGED <<row, eval, status>> /\ NoExchange

-----------------------------------------------------------------------------
\* One exchange with the gun: send_lowlevel, and what the gun does (external).
Accepted(c, v) == dev' = [dev EXCEPT ![c] = v]
Denied(c) == c \in Refused /\ UNCHANGED dev

\* Mutant: The lookup goes on below the first row.
FirstRowUnchecked ==
  pc' = "xdefl" /\ row' = LowestOf(AboveCorrected(eval)) /\ UNCHANGED status

\* The command is sent, and the second search decides what follows an energy:
\* nothing, an exit with the energy already set, or the table's settings.
AfterEnergy ==
  LET above == AboveCorrected(eval)
  IN IF above = {} THEN pc' = "parse" /\ UNCHANGED <<status, row>>
     ELSE IF LowestOf(above) = 1 THEN End("failed") /\ UNCHANGED row
     ELSE pc' = "xdefl" /\ row' = LowestOf(above) /\ UNCHANGED status

SendEnergy ==
  /\ pc = "send" /\ cmd.kind = "energy"
  /\ \/ /\ Accepted(Energy, Trunc(eval)) /\ rpl' \in {"value", "garbled"}
        /\ loaded' = cmd.value
     \/ Denied(Energy) /\ rpl' = "error" /\ loaded' = 0
  /\ AfterEnergy
  /\ UNCHANGED <<mode, queue, cmd, eval>>

SendSet ==
  /\ pc = "send" /\ cmd.kind \in {"set", "raw"}
  /\ \/ /\ Accepted(cmd.control, IF cmd.kind = "raw" THEN cmd.value
                                 ELSE ToWire(cmd.control, cmd.value))
        /\ rpl' \in {"value", "garbled"} /\ loaded' = 0
     \/ Denied(cmd.control) /\ rpl' = "error" /\ UNCHANGED loaded
  /\ pc' = "parse"
  /\ UNCHANGED <<mode, queue, cmd, row, eval, status>>

SendGet ==
  /\ pc = "send" /\ cmd.kind \in {"get", "quit"}
  /\ rpl' \in IF cmd.kind = "get" THEN {"value", "garbled"} ELSE {"error"}
  /\ pc' = "parse"
  /\ UNCHANGED <<mode, queue, cmd, row, eval, dev, status, loaded>>

\* The replies to the settings that follow an energy are not looked at.
Load(step, next, c, f) ==
  /\ pc = step /\ pc' = next
  /\ \/ Accepted(c, Trunc(Interpolated(row, f, eval))) /\ UNCHANGED loaded
     \/ Denied(c) /\ loaded' = 0
  /\ UNCHANGED <<mode, queue, cmd, row, eval, rpl, status>>

LoadXdefl == Load("xdefl", "ydefl", Xdefl, "xdefl")
LoadYdefl == Load("ydefl", "focus", Ydefl, "ydefl")
LoadFocus == Load("focus", "parse", Focus, "focus")

\* Mutant: curcmdidx is not advanced.
NotAdvanced == queue

\* ++curcmdidx
Remaining == IF mode = "cmd" THEN Tail(queue) ELSE queue

\* Only the reply to a command that names a control is parsed.
Parse ==
  /\ pc = "parse"
  /\ IF rpl = "garbled" /\ cmd.kind # "raw"
     THEN End("exception") /\ UNCHANGED queue
     ELSE /\ queue' = Remaining
          /\ IF mode = "cmd" /\ Remaining = <<>> THEN End("done")
             ELSE pc' = "prompt" /\ UNCHANGED status
  /\ UNCHANGED <<cmd, row, eval>> /\ NoExchange

\* There is no handler for signals.
Kill ==
  /\ pc # "end" /\ End("killed")
  /\ UNCHANGED <<queue, cmd, row, eval>> /\ NoExchange

Main ==
  \/ BatchDone \/ Quit \/ Empty \/ Unreadable \/ FetchEnergy \/ FetchOther
  \/ SendEnergy \/ SendSet \/ SendGet \/ LoadXdefl \/ LoadYdefl \/ LoadFocus
  \/ Parse

Next == Main \/ Kill

\* The gun answers every command, and main goes on.
Spec == Init /\ [][Next]_vars /\ WF_vars(Main)

-----------------------------------------------------------------------------
\* v is within a unit, and within what a tenth of an eV of the energy amounts
\* to, of the straight line through column f of rows i and i + 1.
OnLine(i, f, v) ==
  LET x1 == Table[i].energy
      dx == Table[i + 1].energy - x1
      dy == Table[i + 1][f] - Table[i][f]
      error == (v - Table[i][f]) * dx - dy * (dev[Energy] - x1)
      slack == dx + (IF dy < 0 THEN -dy ELSE dy)
  IN -slack <= error /\ error <= slack

\* The deflections and the focus in force belong to the energy in force.
SettingsFit ==
  \E i \in 1 .. Len(Table) - 1 :
    /\ Table[i].energy <= dev[Energy] /\ dev[Energy] < Table[i + 1].energy
    /\ OnLine(i, "xdefl", dev[Xdefl]) /\ OnLine(i, "ydefl", dev[Ydefl])
    /\ OnLine(i, "focus", dev[Focus])

\* When the console asks for the next command or has done all of them, and no
\* setting was refused or changed by another command since, the deflections
\* and the focus are those that the table holds for the energy that the gun
\* was sent (egun_cli.cpp:370-418), not those for the one asked for or before.
DefaultsLoaded ==
  (loaded # 0 /\ (pc = "prompt" \/ status = "done")) => SettingsFit

\* The gun is sent the energy asked for less its systematic error there
\* (egun_cli.cpp:337-345): by no less than the smaller and no more than the
\* larger shift of the two rows around it, and the fraction that is cut off.
EnergyCorrected ==
  loaded # 0 =>
    \E i \in 1 .. Len(Table) - 1 :
      /\ Table[i].energy <= loaded /\ loaded <= Table[i + 1].energy
      /\ loaded - Table[i + 1].shift - 1 <= dev[Energy]
      /\ dev[Energy] <= loaded - Table[i].shift

\* main comes to its end with every list of commands and with every quit that
\* is typed in (egun_cli.cpp:262-288, 442), unless --cmd holds an empty
\* command, at which it stops for ever.
Finishes ==
  LET Has(kind) == \E k \in DOMAIN queue : queue[k].kind = kind
  IN \/ mode = "batch"
     \/ mode = "cmd" /\ ~Has("empty")
     \/ mode = "interactive" /\ Has("quit")
     ~> (pc = "end")

\* An energy that the table accepts never stays in force without its
\* deflections and focus, "load the values of xdefl, ydefl, and Focus from our
\* table" (egun_cli.cpp:314), however main goes on.  It does not hold: the
\* lowest energies of the table fall below it by the correction.
EnergyWithDefaults ==
  (loaded # 0 /\ (pc = "prompt" \/ status \in {"done", "failed"})) => SettingsFit

=============================================================================
