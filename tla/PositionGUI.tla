---------------------------- MODULE PositionGUI ----------------------------
(***************************************************************************)
(* The graphical client, class PM301 of gui/pm301.cpp: the main thread     *)
(* with its event handlers, the threads that show the position during jog  *)
(* mode, and the one that runs a batch file, all over one connection.      *)
(*                                                                         *)
(* A handler is the sequence of what it has still to do.  The main thread  *)
(* holds wx's GUI mutex while a handler runs and gives it up between       *)
(* handlers and while it waits in wxThread::Delete.                        *)
(***************************************************************************)
EXTENDS Session

CONSTANTS
  Updaters,    \* names for position threads; an ended one's is used again
  Batchers,    \* and for batch threads
  BatchFile,   \* the lines of a batch file
  MaxEvents    \* bound on what the user does, events and hand wheels

Main == "main"
Threads == {Main} \cup Batchers \cup Updaters
None == Nobody

ASSUME GuiAssumption ==
  /\ {Main, None} \cap (Updaters \cup Batchers) = {} /\ Updaters \cap Batchers = {}
  /\ BatchFile \in Seq(Requests) /\ MaxEvents \in Nat

VARIABLES
  todo,        \* what each thread has still to do
  got,         \* the answer that each thread has in hand
  tcp,         \* holder of m_tcpmutex
  posthread,   \* the position thread that the window knows
  stop,        \* position threads that Delete has told to end
  initialize,  \* the server said it is in initialize mode
  checked,     \* the check box "Jog Mode"
  selected,    \* the radio box
  enabled,     \* the position fields accept input
  accept,      \* the button "Accept Zero Position and quit" can be pressed
  batchmode,   \* switchtobatch: the batch panel is shown, the others hidden
  pending,     \* a check box event that ToggleBatchMode has added
  cp_,         \* the position last stored
  shown,       \* the position in the fields
  closed,      \* the window is closed
  events       \* number of user events so far

window == <<posthread, stop, initialize, checked, selected, enabled, accept,
            batchmode, pending, closed>>
vars == <<sessionVars, todo, got, tcp, window, cp_, shown, events>>

Reply == [for : Threads, what : Requests, pos : Positions, init : BOOLEAN]
NoReply(t) == [for |-> t, what |-> "ga", pos |-> 0, init |-> FALSE]
Live == {u \in Updaters : todo[u] # <<>>}
Step(t) == IF todo[t] = <<>> THEN "none" ELSE Head(todo[t])

TypeOK ==
  /\ board \in Board(Threads) /\ phase \in {"header", "body", "write"}
  /\ got \in [Threads -> Reply]
  /\ tcp \in Threads \cup {None}
  /\ posthread \in Updaters \cup {None} /\ stop \subseteq Live
  /\ posthread # None /\ Step(Main) # "wait" => posthread \in Live
  /\ {initialize, checked, enabled, accept, batchmode, pending, closed} \subseteq BOOLEAN
  /\ selected \in 1 .. NumAxes /\ {cp_, shown} \subseteq Positions
  /\ events \in 0 .. MaxEvents

-----------------------------------------------------------------------------
Refresh == <<"pp", "store", "show">>

\* Mutant: The thread stores the position and does not show it.
NotShown == <<"pp", "store", "test">>

\* PositionUpdateThread::Entry, one turn; the pause of 400 ms is not a step.
Turn == Refresh \o <<"test">>

\* BatchThread::Entry: every line is logged, sent, and its answer logged.
Lines(file) ==
  [k \in 1 .. 3 * Len(file) + 1 |->
     IF k % 3 = 2 THEN file[(k + 1) \div 3] ELSE "log"]

\* CreateControls asks for the axes, the mode and the position.
Init ==
  /\ SessionInit
  /\ todo = [t \in Threads |->
               IF t = Main THEN <<"ga", "state", "learn">> \o Refresh ELSE <<>>]
  /\ got = [t \in Threads |-> NoReply(t)] /\ tcp = None
  /\ posthread = None /\ stop = {}
  /\ initialize = FALSE /\ checked = FALSE /\ selected = 1
  /\ enabled = TRUE /\ accept = FALSE /\ batchmode = FALSE /\ pending = FALSE
  /\ cp_ = 0 /\ shown = 0 /\ closed = FALSE /\ events = 0

\* A new thread takes a name that is not in use; one is as good as another.
Takes(t, names) == todo[t] = <<>> /\ t = CHOOSE u \in names : todo[u] = <<>>

Pop(t) == todo' = [todo EXCEPT ![t] = Tail(@)]

-----------------------------------------------------------------------------
\* Mutant: m_tcpmutex is not taken.
TcpUnlocked == TRUE

\* SendandReceive, under m_tcpmutex: request and reply are members.
TcpFree == tcp = None

\* The axis of a request that names one: the radio box tells, or the line of
\* the batch file, any.
AxisOf(t) == IF Step(t) = "set axis" /\ t # Main THEN 1 .. NumAxes ELSE {selected}

Send(t) ==
  /\ Step(t) \in Requests /\ tcp # t /\ TcpFree
  /\ tcp' = t
  /\ \E a \in AxisOf(t) : wire' = Append(wire, [from |-> t, what |-> Step(t), axis |-> a])
  /\ UNCHANGED <<phase, data, replies, board, todo, got, window, cp_, shown, events>>

Receive(t) ==
  /\ Step(t) \in Requests /\ tcp = t /\ replies # <<>>
  /\ tcp' = None /\ Pop(t)
  /\ got' = [got EXCEPT ![t] = Head(replies)] /\ replies' = Tail(replies)
  /\ UNCHANGED <<wire, phase, data, board, window, cp_, shown, events>>

\* The answer is of no more use, and of no more interest here.
Drop(t) == got' = [got EXCEPT ![t] = NoReply(t)]

\* set_cp, under m_mutex
Store(t) ==
  /\ Step(t) = "store" /\ Pop(t) /\ cp_' = got[t].pos /\ Drop(t)
  /\ UNCHANGED <<sessionVars, tcp, window, shown, events>>

\* Mutant: wxThread::Delete keeps the GUI mutex while it waits.
GuiKept == Step(Main) = "none"

\* wxMutexGuiEnter of the other threads succeeds.
GuiFree == Step(Main) \in {"none", "wait"}

\* UpdateGUIpositions, which reads cp_ again; a field updates itself alone.
Show(t) ==
  /\ t = Main \/ GuiFree
  /\ \/ Step(t) = "show" /\ shown' = cp_
     \/ Step(t) = "show own" /\ shown' = got[t].pos
  /\ Pop(t)
  /\ UNCHANGED <<sessionVars, got, tcp, window, cp_, events>>

Log(b) ==
  /\ Step(b) = "log" /\ GuiFree /\ Pop(b) /\ Drop(b)
  /\ UNCHANGED <<sessionVars, tcp, window, cp_, shown, events>>

\* Mutant: the position thread does not ask whether it should end.
NotTested(u) ==
  /\ Step(u) = "test" /\ todo' = [todo EXCEPT ![u] = Turn]
  /\ UNCHANGED <<sessionVars, got, tcp, window, cp_, shown, events>>

TestDestroy(u) ==
  /\ Step(u) = "test"
  /\ todo' = [todo EXCEPT ![u] = IF u \in stop THEN <<>> ELSE Turn]
  /\ stop' = stop \ {u}
  /\ UNCHANGED <<sessionVars, got, tcp, posthread, initialize, checked, selected,
                 enabled, accept, batchmode, pending, cp_, shown, closed, events>>

-----------------------------------------------------------------------------
(* Steps of the main thread alone.                                         *)

\* The mode that the server is in; the accept button exists only with it.
Learn ==
  /\ Step(Main) = "learn" /\ Pop(Main)
  /\ initialize' = got[Main].init /\ accept' = got[Main].init
  /\ UNCHANGED <<sessionVars, got, tcp, posthread, stop, checked, selected, enabled,
                 batchmode, pending, cp_, shown, closed, events>>

\* A new position thread, unless there is one, when the handler returns.  It
\* begins with TestDestroy.
Start ==
  /\ Step(Main) = "start"
  /\ IF posthread # None
     THEN todo' = [todo EXCEPT ![Main] = <<>>] /\ UNCHANGED posthread
     ELSE \E u \in Updaters :
            /\ Takes(u, Updaters) /\ posthread' = u
            /\ todo' = [todo EXCEPT ![Main] = Tail(@), ![u] = <<"test">>]
  /\ UNCHANGED <<sessionVars, got, tcp, stop, initialize, checked, selected, enabled,
                 accept, batchmode, pending, cp_, shown, closed, events>>

\* Mutant: posthread = NULL is missing.
NotForgotten == UNCHANGED posthread

\* posthread->Delete() tells the thread to end.  For a detached thread it may
\* return at once, or after the end of the thread.  It returns an error only
\* for a thread that does not run, which posthread never points to (TypeOK).
Forget == posthread' = None

Delete ==
  /\ Step(Main) = "delete" /\ posthread # None
  /\ stop' = stop \cup {posthread}
  /\ \/ Pop(Main) /\ Forget
     \/ todo' = [todo EXCEPT ![Main] = <<"wait">> \o Tail(@)] /\ UNCHANGED posthread
  /\ UNCHANGED <<sessionVars, got, tcp, initialize, checked, selected, enabled, accept,
                 batchmode, pending, cp_, shown, closed, events>>

Wait ==
  /\ Step(Main) = "wait" /\ posthread \notin stop /\ Pop(Main) /\ Forget
  /\ UNCHANGED <<sessionVars, got, tcp, stop, initialize, checked, selected, enabled,
                 accept, batchmode, pending, cp_, shown, closed, events>>

\* The fields, at the end of OnCheckboxClick.
Enable ==
  /\ Step(Main) \in {"enable", "disable"} /\ Pop(Main)
  /\ enabled' = (Step(Main) = "enable")
  /\ UNCHANGED <<sessionVars, got, tcp, posthread, stop, initialize, checked, selected,
                 accept, batchmode, pending, cp_, shown, closed, events>>

\* The window closes; main leaves, and the process with it, whatever threads
\* there are.
Close ==
  /\ Step(Main) = "close" /\ closed' = TRUE
  /\ todo' = [t \in Threads |-> <<>>] /\ stop' = {} /\ posthread' = None
  /\ UNCHANGED <<sessionVars, got, tcp, initialize, checked, selected, enabled, accept,
                 batchmode, pending, cp_, shown, events>>

MainStep == Learn \/ Start \/ Delete \/ Wait \/ Enable \/ Close

-----------------------------------------------------------------------------
(* Events: handlers start when no other runs.                              *)

Handle(steps) == todo' = [todo EXCEPT ![Main] = steps]

\* Mutant: The accept button stays enabled.
AcceptLeftOn(box) ==
  IF box
  THEN /\ UNCHANGED accept
       /\ Handle(<<"set jog", "set axis", "start", "disable">>)
  ELSE /\ accept' = initialize
       /\ Handle(<<"delete", "unset jog", "enable">>)

\* OnCheckboxClick, with the box as it is now.
OnCheckboxClick(box) ==
  IF box
  THEN /\ accept' = FALSE
       /\ Handle(<<"set jog", "set axis", "start", "disable">>)
  ELSE /\ accept' = initialize
       /\ Handle(<<"delete", "unset jog", "enable">>)

ClickJog ==
  /\ ~batchmode /\ checked' = ~checked /\ OnCheckboxClick(checked')
  /\ UNCHANGED <<posthread, stop, initialize, selected, enabled, batchmode, pending,
                 closed>>

OnRadioboxSelected ==
  /\ ~batchmode /\ checked /\ Handle(<<"set axis">>)
  /\ \E a \in 1 .. NumAxes : selected' = a
  /\ UNCHANGED <<posthread, stop, initialize, checked, enabled, accept, batchmode,
                 pending, closed>>

\* The buttons for zero and save are removed in initialize mode.
OnButton ==
  /\ ~batchmode
  /\ \/ ~initialize /\ Handle(<<"set zero">> \o Refresh)
     \/ ~initialize /\ Handle(<<"savexml">>)
     \/ accept /\ Handle(<<"initialzero", "savexml", "close">>)
  /\ UNCHANGED window

PositionUpdate ==
  /\ ~batchmode /\ enabled /\ Handle(<<"ma", "pp", "show own">>)
  /\ UNCHANGED window

\* Mutant: ToggleBatchMode only resets the check box.
JogLeftOn == pending' = FALSE

\* Jog mode is left by an event of the check box, which is handled before the
\* next one of the user.
EndJog == pending' = (checked /\ posthread # None)

ToggleBatchMode ==
  /\ batchmode' = ~batchmode /\ checked' = FALSE
  /\ IF batchmode' THEN EndJog /\ UNCHANGED todo
     ELSE Handle(Refresh) /\ UNCHANGED pending
  /\ UNCHANGED <<posthread, stop, initialize, selected, enabled, accept, closed>>

\* A batch thread starts beside those that run (the TODO at pm301.cpp:591).
LoadBatchFileDialog ==
  /\ batchmode
  /\ \E b \in Batchers :
       Takes(b, Batchers) /\ todo' = [todo EXCEPT ![b] = Lines(BatchFile)]
  /\ UNCHANGED window

\* The close box of the window frame, in either mode.
CloseBox == Handle(<<"close">>) /\ UNCHANGED window

Idle == todo[Main] = <<>> /\ ~pending /\ ~closed

UserEvent ==
  /\ Idle /\ events < MaxEvents /\ events' = events + 1
  /\ \/ ClickJog \/ OnRadioboxSelected \/ OnButton \/ PositionUpdate
     \/ ToggleBatchMode \/ LoadBatchFileDialog \/ CloseBox
  /\ UNCHANGED <<sessionVars, got, tcp, cp_, shown>>

PendingEvent ==
  /\ todo[Main] = <<>> /\ pending /\ pending' = FALSE
  /\ OnCheckboxClick(checked)
  /\ UNCHANGED <<sessionVars, got, tcp, posthread, stop, initialize, checked, selected,
                 enabled, batchmode, cp_, shown, closed, events>>

-----------------------------------------------------------------------------
ThreadStep(t) == Send(t) \/ Receive(t) \/ Store(t) \/ Show(t)

Server ==
  /\ Session
  /\ UNCHANGED <<todo, got, tcp, window, cp_, shown, events>>

HandWheel ==
  /\ events < MaxEvents /\ events' = events + 1 /\ ~closed /\ Jogged
  /\ UNCHANGED <<todo, got, tcp, window, cp_, shown>>

Next ==
  \/ \E t \in Threads : ThreadStep(t)
  \/ \E u \in Updaters : TestDestroy(u)
  \/ \E b \in Batchers : Log(b)
  \/ MainStep \/ UserEvent \/ PendingEvent \/ Server \/ HandWheel

\* The server answers; every thread goes on, and gets a mutex that is free
\* again and again: the position thread pauses 400 ms without one.
Fairness ==
  /\ WF_vars(Server) /\ WF_vars(PendingEvent)
  /\ SF_vars(ThreadStep(Main) \/ MainStep)
  /\ \A b \in Batchers : SF_vars(ThreadStep(b) \/ Log(b))
  /\ \A u \in Updaters : SF_vars(ThreadStep(u) \/ TestDestroy(u))

Spec == Init /\ [][Next]_vars /\ Fairness

-----------------------------------------------------------------------------
\* What a thread takes for the answer to its request is that, although all
\* share the members request and reply and one connection (pm301.cpp:389-427).
RepliesMatch == \A t \in Threads : got[t].for = t

\* Between handlers, the check box and the threads agree on whether jog mode is
\* on: in particular batch mode leaves it, and every position thread but the
\* one the window knows has been told to end.  The board agrees with them, on
\* its axis too, if the request that was last to set it was the window's: not
\* one of a batch file, and not refused (pm301.cpp:448-499, 573-604).
JogAgrees ==
  Idle =>
    /\ checked = (posthread # None) /\ Live \ stop \subseteq {posthread}
    /\ board.jogby = Main => checked = board.jog
    /\ checked /\ board.axisby = Main => board.axis = selected

\* posthread is dereferenced when it is set (pm301.cpp:487), and no entered
\* position and no initialzero reaches a board that the window has put into
\* jog mode: the fields and the button are disabled first and enabled last
\* (pm301.cpp:453, 484, 497).
CommandsOutsideJog ==
  /\ Step(Main) = "delete" => posthread # None
  /\ board.jogby = Main => \A k \in DOMAIN wire :
       wire[k].from = Main /\ wire[k].what \in {"ma", "initialzero"} => ~board.jog

\* What a thread cannot go on without: m_tcpmutex, its answer, wx's GUI mutex,
\* or, in Delete, the end of the position thread.
Waits(t) ==
  \/ Step(t) \in Requests /\ ~TcpFree /\ (tcp = t => replies = <<>>)
  \/ Step(t) \in {"show", "show own", "log"} /\ t # Main /\ ~GuiFree
  \/ t = Main /\ Step(t) = "wait" /\ posthread \in stop

\* Threads never all wait for each other: as long as one has something to do
\* the server has, or one of them need not wait (m_tcpmutex, the GUI mutex and
\* wxThread::Delete, pm301.cpp:389-427, 487, 661-693).
NoCircularWait ==
  ~closed /\ phase = "header" /\ wire = <<>> /\ (\E t \in Threads : todo[t] # <<>>)
    => \E t \in Threads : todo[t] # <<>> /\ ~Waits(t)

\* In jog mode the fields come to show where the motors are.
FieldsFollow ==
  (checked /\ shown # board.pos) ~> (shown = board.pos \/ ~checked \/ closed)

\* No handler waits for ever, whatever the other threads hold.
HandlersReturn == (todo[Main] # <<>> \/ pending) ~> Idle \/ closed

=============================================================================
