-------------------------- MODULE PositionGUI_proofs --------------------------
(***************************************************************************)
(* Whatever events, batch files and numbers of threads there are: the      *)
(* threads of the graphical client share one connection without mixing up  *)
(* their answers, they agree with window and board about jog mode, the     *)
(* window forgets no thread that runs, and never do all threads wait.      *)
(***************************************************************************)
EXTENDS PositionGUI, SequenceTheorems, TLAPS

\* Where the one request under way is, and that it is t's: on the wire, in
\* data_ after process_msg, or answered.
OnWire(t) == /\ phase \in {"header", "body"} /\ replies = <<>>
             /\ \E r : wire = <<r>> /\ r.from = t
Processed(t) == phase = "write" /\ wire = <<>> /\ data.for = t /\ replies = <<>>
Replied(t) == phase = "header" /\ wire = <<>> /\ \E r : replies = <<r>> /\ r.for = t

NoExchange == phase = "header" /\ wire = <<>> /\ replies = <<>>

\* The holder of m_tcpmutex has the only request under way.
Exchange ==
  IF tcp = None THEN NoExchange ELSE OnWire(tcp) \/ Processed(tcp) \/ Replied(tcp)

ExchangeInv ==
  /\ got = [t \in Threads |-> got[t]]
  /\ Exchange /\ RepliesMatch

exchangeVars == <<wire, phase, data, replies, got, tcp>>

LEMMA ExchangeFrame == ExchangeInv /\ UNCHANGED exchangeVars => ExchangeInv'
BY DEF ExchangeInv, exchangeVars, Exchange, RepliesMatch, OnWire, Processed, Replied, NoExchange

LEMMA ExchangeDrop ==
  ASSUME ExchangeInv, NEW t \in Threads, Drop(t), UNCHANGED <<wire, phase, data, replies, tcp>>
  PROVE  ExchangeInv'
<1>1. got' = [u \in Threads |-> IF u = t THEN NoReply(t) ELSE got[u]]
  BY DEF ExchangeInv, Drop
<1>2. NoReply(t).for = t
  BY DEF NoReply
<1> HIDE DEF NoReply
<1>3. got' = [u \in Threads |-> got'[u]] /\ RepliesMatch'
  BY <1>1, <1>2 DEF ExchangeInv, RepliesMatch
<1>4. Exchange'
  BY DEF ExchangeInv, Exchange, OnWire, Processed, Replied, NoExchange
<1> QED BY <1>3, <1>4 DEF ExchangeInv

LEMMA ExchangeInit == Init => ExchangeInv
<1> SUFFICES ASSUME Init PROVE ExchangeInv
  OBVIOUS
<1>1. got = [t \in Threads |-> NoReply(t)] /\ \A t : NoReply(t).for = t
  BY DEF Init, NoReply
<1>2. got = [t \in Threads |-> got[t]] /\ RepliesMatch
  BY <1>1 DEF RepliesMatch
<1> QED BY <1>2 DEF Init, SessionInit, ExchangeInv, Exchange, NoExchange

LEMMA ExchangeServer == ExchangeInv /\ Session /\ UNCHANGED <<got, tcp>> => ExchangeInv'
<1> SUFFICES ASSUME ExchangeInv, Session, UNCHANGED <<got, tcp>> PROVE ExchangeInv'
  OBVIOUS
<1>1. tcp # None
  BY DEF ExchangeInv, Exchange, NoExchange, Session, handle_read_header, handle_read_body, handle_write
<1>2. CASE handle_read_header
  <2>1. OnWire(tcp)
    BY <1>1, <1>2 DEF ExchangeInv, Exchange, handle_read_header, Processed, Replied
  <2>2. OnWire(tcp)'
    BY <1>2, <2>1 DEF handle_read_header, OnWire
  <2> QED BY <1>1, <2>2 DEF ExchangeInv, Exchange, RepliesMatch
<1>3. CASE handle_read_body
  <2>1. OnWire(tcp)
    BY <1>1, <1>3 DEF ExchangeInv, Exchange, handle_read_body, Processed, Replied
  <2>2. PICK r : wire = <<r>> /\ r.from = tcp
    BY <2>1 DEF OnWire
  <2>3. wire' = <<>> /\ phase' = "write" /\ replies' = <<>> /\ data' = Answer(r, board')
    BY <1>3, <2>1, <2>2 DEF handle_read_body, OnWire
  <2>4. Processed(tcp)'
    BY <2>2, <2>3 DEF Processed, Answer
  <2> QED BY <1>1, <2>4 DEF ExchangeInv, Exchange, RepliesMatch
<1>4. CASE handle_write
  <2>1. Processed(tcp)
    BY <1>1, <1>4 DEF ExchangeInv, Exchange, handle_write, OnWire, Replied
  <2>2. phase' = "header" /\ wire' = <<>> /\ replies' = <<data>>
    BY <1>4, <2>1 DEF handle_write, Processed
  <2>3. Replied(tcp)'
    BY <2>1, <2>2 DEF Processed, Replied
  <2> QED BY <1>1, <2>3 DEF ExchangeInv, Exchange, RepliesMatch
<1> QED BY <1>2, <1>3, <1>4 DEF Session

LEMMA ExchangeSend ==
  ASSUME ExchangeInv, NEW t \in Threads, Send(t)
  PROVE  ExchangeInv'
<1>0. PICK a \in AxisOf(t) : wire' = Append(wire, [from |-> t, what |-> Step(t), axis |-> a])
  BY DEF Send
<1> DEFINE r == [from |-> t, what |-> Step(t), axis |-> a]
<1>1. tcp = None /\ tcp' = t /\ wire' = Append(wire, r)
      /\ UNCHANGED <<phase, data, replies, got>>
  BY <1>0 DEF Send, TcpFree
<1>2. wire = <<>> /\ phase = "header" /\ replies = <<>>
  BY <1>1 DEF ExchangeInv, Exchange, NoExchange
<1>3. wire' = <<r>> /\ r.from = t
  BY <1>1, <1>2
<1>4. t # None
  BY GuiAssumption DEF Threads, Main, None, Nobody
<1>5. OnWire(t)'
  BY <1>1, <1>2, <1>3 DEF OnWire
<1> QED BY <1>1, <1>4, <1>5 DEF ExchangeInv, Exchange, RepliesMatch

LEMMA ExchangeReceive ==
  ASSUME ExchangeInv, NEW t \in Threads, Receive(t)
  PROVE  ExchangeInv'
<1>1. /\ tcp = t /\ tcp' = None /\ replies # <<>> /\ replies' = Tail(replies)
      /\ got' = [got EXCEPT ![t] = Head(replies)] /\ UNCHANGED <<phase, data, wire>>
  BY DEF Receive
<1>2. t # None
  BY GuiAssumption DEF Threads, Main, None, Nobody
<1>3. Replied(t)
  BY <1>1, <1>2 DEF ExchangeInv, Exchange, OnWire, Processed
<1>4. PICK r : replies = <<r>> /\ r.for = t
  BY <1>3 DEF Replied
<1>5. NoExchange'
  BY <1>1, <1>3, <1>4 DEF Replied, NoExchange
<1>6. got' = [u \in Threads |-> IF u = t THEN r ELSE got[u]]
  BY <1>1, <1>4 DEF ExchangeInv
<1>7. got' = [u \in Threads |-> got'[u]] /\ RepliesMatch'
  BY <1>4, <1>6 DEF ExchangeInv, RepliesMatch
<1> QED BY <1>1, <1>5, <1>7 DEF ExchangeInv, Exchange

LEMMA ExchangeStep == ExchangeInv /\ [Next]_vars => ExchangeInv'
<1> SUFFICES ASSUME ExchangeInv, [Next]_vars PROVE ExchangeInv'
  OBVIOUS
<1>1. ASSUME NEW t \in Threads, ThreadStep(t) PROVE ExchangeInv'
  <2>1. CASE Show(t)
    BY <2>1, ExchangeFrame DEF Show, exchangeVars, sessionVars
  <2>2. CASE Store(t)
    BY <2>2, ExchangeDrop DEF Store, sessionVars
  <2> QED BY <1>1, <2>1, <2>2, ExchangeSend, ExchangeReceive DEF ThreadStep
<1>2. ASSUME NEW u \in Updaters, TestDestroy(u) PROVE ExchangeInv'
  BY <1>2, ExchangeFrame DEF TestDestroy, exchangeVars, sessionVars
<1>3. CASE MainStep
  BY <1>3, ExchangeFrame DEF MainStep, Learn, Start, Delete, Wait, Enable, Close, exchangeVars,
                             sessionVars
<1>4. CASE UserEvent \/ PendingEvent
  BY <1>4, ExchangeFrame DEF UserEvent, PendingEvent, exchangeVars, sessionVars
<1>5. CASE Server
  BY <1>5, ExchangeServer DEF Server
<1>6. CASE HandWheel
  BY <1>6, ExchangeFrame DEF HandWheel, Jogged, exchangeVars
<1>7. CASE UNCHANGED vars
  BY <1>7, ExchangeFrame DEF vars, exchangeVars, sessionVars
<1>8. ASSUME NEW b \in Batchers, Log(b) PROVE ExchangeInv'
  BY <1>8, ExchangeDrop DEF Log, sessionVars, Threads
<1> QED BY <1>1, <1>2, <1>3, <1>4, <1>5, <1>6, <1>7, <1>8 DEF Next

\* Every thread gets the answers to its own requests, for any number of
\* threads, any batch file and any course of events (m_tcpmutex in
\* SendandReceive).
THEOREM RepliesMatchInvariant == Spec => []RepliesMatch
<1>1. ExchangeInv => RepliesMatch
  BY DEF ExchangeInv
<1> QED BY ExchangeInit, ExchangeStep, <1>1, PTL DEF Spec

-----------------------------------------------------------------------------
(* Jog mode.                                                               *)

JogRequests == {"set jog", "unset jog", "set axis"}

\* Steps of handlers that have nothing to do with jog mode, and of these the
\* ones that must not be taken in it.
Outside == {"learn", "ma", "initialzero"}
Plain == (Requests \ JogRequests) \cup {"learn", "store", "show", "show own", "close"}

UpdaterSteps == {"pp", "store", "show", "test"}
BatchSteps == {"log"} \cup Requests

TodoOK ==
  /\ todo = [t \in Threads |-> todo[t]]
  /\ \A u \in Updaters : todo[u] \in Seq(UpdaterSteps)
  /\ \A b \in Batchers : todo[b] \in Seq(BatchSteps)

\* The request on the wire is the next step of the thread that waits for it.
InFlight ==
  tcp # None =>
    /\ Step(tcp) \in Requests
    /\ \A k \in DOMAIN wire :
         /\ wire[k].what = Step(tcp) /\ wire[k].from = tcp /\ wire[k].axis \in 1 .. NumAxes
         /\ tcp = Main => wire[k].axis = selected

\* The server has carried out the request of the main thread.
Done == tcp = Main /\ wire = <<>>

EnterSteps == <<"set jog", "set axis", "start", "disable">>
LeaveSteps == <<"unset jog", "enable">>

\* What the board's jog mode and axis are if the last request that was to set
\* them was one of the main thread.
JogIs(on) == board.jogby = Main => board.jog = on
AxisIsSelected == board.axisby = Main => board.axis = selected

Entering ==
  /\ checked /\ ~accept /\ posthread = None /\ ~pending
  /\ \/ todo[Main] = EnterSteps /\ (Done => JogIs(TRUE))
     \/ todo[Main] = Tail(EnterSteps) /\ JogIs(TRUE) /\ (Done => AxisIsSelected)
     \/ todo[Main] = <<"start", "disable">> /\ JogIs(TRUE) /\ AxisIsSelected

Entered ==
  /\ checked /\ ~accept /\ posthread # None /\ ~pending /\ JogIs(TRUE)
  /\ \/ todo[Main] = <<"disable">> /\ AxisIsSelected
     \/ todo[Main] = <<"set axis">> /\ ~enabled /\ (Done => AxisIsSelected)

Leaving ==
  /\ ~checked /\ ~pending
  /\ \/ todo[Main] = <<"delete", "unset jog", "enable">> /\ posthread # None
     \/ /\ todo[Main] = <<"wait">> \o LeaveSteps
        /\ posthread # None /\ posthread \notin Live \ stop
     \/ todo[Main] = LeaveSteps /\ posthread = None /\ (Done => JogIs(FALSE))
     \/ todo[Main] = <<"enable">> /\ posthread = None /\ JogIs(FALSE)

\* A handler that leaves jog mode as it is, or none.
Elsewhere ==
  /\ ~pending /\ JogIs(checked) /\ (checked <=> posthread # None)
  /\ todo[Main] \in Seq(Plain)
  /\ checked => /\ AxisIsSelected /\ ~enabled /\ ~accept
                /\ todo[Main] \in Seq(Plain \ Outside)

\* ToggleBatchMode has reset the check box and its event is still to come.
ToLeave == pending /\ ~checked /\ posthread # None /\ todo[Main] = <<>>

MainInv == Entering \/ Entered \/ Leaving \/ Elsewhere \/ ToLeave

JogInv ==
  /\ tcp \in Threads \cup {None}
  /\ IF closed
     THEN (\A t \in Threads : todo[t] = <<>>) /\ tcp # Main /\ ~pending
     ELSE /\ board \in Board(Threads) /\ selected \in 1 .. NumAxes /\ checked \in BOOLEAN
          /\ TodoOK /\ InFlight /\ MainInv
          /\ batchmode => ~checked
          /\ Live \ stop \subseteq {posthread}

jogVars == <<board, selected, checked, closed, todo, tcp, wire, posthread, stop, accept,
             enabled, pending, batchmode>>

\* Main is not disturbed by what other threads and requests do.
LEMMA MainKept ==
  ASSUME MainInv, (Done <=> Done'), todo'[Main] = todo[Main],
         board'.jogby = Main => board.jogby = Main /\ board'.jog = board.jog,
         board'.axisby = Main => board.axisby = Main /\ board'.axis = board.axis,
         UNCHANGED <<posthread, checked, selected, enabled, accept, pending>>,
         (Live \ stop)' \subseteq Live \ stop
  PROVE  MainInv'
<1>0. /\ \A on : JogIs(on) => JogIs(on)'
      /\ AxisIsSelected => AxisIsSelected'
  BY DEF JogIs, AxisIsSelected
<1>1. Entering => Entering'
  BY <1>0 DEF Entering
<1>2. Entered => Entered'
  BY <1>0 DEF Entered
<1>3. Leaving => Leaving'
  BY <1>0 DEF Leaving
<1>4. Elsewhere => Elsewhere'
  BY <1>0 DEF Elsewhere
<1>5. ToLeave => ToLeave'
  BY DEF ToLeave
<1> QED BY <1>1, <1>2, <1>3, <1>4, <1>5 DEF MainInv

LEMMA JogFrame == JogInv /\ UNCHANGED jogVars => JogInv'
<1> SUFFICES ASSUME JogInv, UNCHANGED jogVars PROVE JogInv'
  OBVIOUS
<1>1. (Live \ stop)' = Live \ stop /\ (Done <=> Done') /\ Step(tcp)' = Step(tcp)
  BY DEF jogVars, Live, Done, Step
<1>2. MainInv => MainInv'
  BY <1>1, MainKept DEF jogVars
<1>3. InFlight => InFlight'
  BY <1>1 DEF jogVars, InFlight
<1>4. TodoOK => TodoOK'
  BY DEF jogVars, TodoOK
<1>5. (batchmode => ~checked) /\ Live \ stop \subseteq {posthread}
      => (batchmode => ~checked)' /\ (Live \ stop \subseteq {posthread})'
  BY <1>1 DEF jogVars
<1> QED BY <1>2, <1>3, <1>4, <1>5 DEF JogInv, jogVars

LEMMA PopType ==
  ASSUME NEW S, NEW s \in Seq(S), s # <<>>
  PROVE  Head(s) \in S /\ Tail(s) \in Seq(S)
OBVIOUS

LEMMA One ==
  ASSUME NEW S, NEW x \in S
  PROVE  <<x>> \in Seq(S) /\ Len(<<x>>) = 1 /\ <<x>>[1] = x
OBVIOUS

LEMMA Prefixed ==
  ASSUME NEW S, NEW x \in S, NEW s \in Seq(S)
  PROVE  <<x>> \o s # <<>> /\ Head(<<x>> \o s) = x /\ Tail(<<x>> \o s) = s
<1> DEFINE c == <<x>> \o s
<1>1. /\ c \in Seq(S) /\ Len(c) = 1 + Len(s) /\ Len(s) \in Nat
      /\ c[1] = x /\ \A i \in 1 .. Len(s) : c[i + 1] = s[i]
  BY One, ConcatProperties, LenProperties
<1> HIDE DEF c
<1>2. c # <<>>
  BY <1>1
<1>3. /\ Tail(c) \in Seq(S) /\ Len(Tail(c)) = Len(s)
      /\ \A i \in 1 .. Len(Tail(c)) : Tail(c)[i] = c[i + 1]
  BY <1>1, <1>2, HeadTailProperties
<1>4. Tail(c) = s
  BY <1>1, <1>3, SeqEqual
<1>5. Head(c) = x
  BY <1>1
<1> QED BY <1>2, <1>4, <1>5 DEF c

LEMMA EnterTails ==
  /\ EnterSteps # <<>> /\ Head(EnterSteps) = "set jog"
  /\ Tail(EnterSteps) # <<>> /\ Head(Tail(EnterSteps)) = "set axis"
  /\ Tail(Tail(EnterSteps)) = <<"start", "disable">>
BY DEF EnterSteps

LEMMA LeaveTails ==
  /\ LeaveSteps # <<>> /\ Head(LeaveSteps) = "unset jog" /\ Tail(LeaveSteps) = <<"enable">>
  /\ Tail(<<"delete", "unset jog", "enable">>) = LeaveSteps
  /\ LET s == <<"wait">> \o LeaveSteps IN s # <<>> /\ Head(s) = "wait" /\ Tail(s) = LeaveSteps
<1>1. LeaveSteps \in Seq({"wait", "unset jog", "enable"})
  BY DEF LeaveSteps
<1>2. LET s == <<"wait">> \o LeaveSteps IN s # <<>> /\ Head(s) = "wait" /\ Tail(s) = LeaveSteps
  BY <1>1, Prefixed
<1>3. LeaveSteps # <<>> /\ Head(LeaveSteps) = "unset jog"
  BY DEF LeaveSteps
<1>4. \A x, y, z : Tail(<<x, y>>) = <<y>> /\ Tail(<<x, y, z>>) = <<y, z>>
  OBVIOUS
<1>5. Tail(LeaveSteps) = <<"enable">> /\ Tail(<<"delete", "unset jog", "enable">>) = LeaveSteps
  BY <1>4 DEF LeaveSteps
<1> QED BY <1>2, <1>3, <1>5

\* What the main thread does next, by where it is.
LEMMA MainStepIs ==
  ASSUME MainInv
  PROVE  /\ Entering => Step(Main) \in {"set jog", "set axis", "start"}
         /\ Entered => Step(Main) \in {"disable", "set axis"}
         /\ Leaving => Step(Main) \in {"delete", "wait", "unset jog", "enable"}
         /\ Elsewhere => Step(Main) \in Plain \cup {"none"}
         /\ Elsewhere /\ checked => Step(Main) \notin Outside
         /\ ToLeave => Step(Main) = "none"
<1>1. Entering => Step(Main) \in {"set jog", "set axis", "start"}
  <2>1. <<"start", "disable">> # <<>> /\ Head(<<"start", "disable">>) = "start"
    OBVIOUS
  <2> QED BY <2>1, EnterTails DEF Entering, Step
<1>2. Entered => Step(Main) \in {"disable", "set axis"}
  <2>1. <<"disable">> # <<>> /\ <<"set axis">> # <<>>
    OBVIOUS
  <2>2. Head(<<"disable">>) = "disable" /\ Head(<<"set axis">>) = "set axis"
    OBVIOUS
  <2> QED BY <2>1, <2>2 DEF Entered, Step
<1>3. Leaving => Step(Main) \in {"delete", "wait", "unset jog", "enable"}
  <2>1. <<"delete", "unset jog", "enable">> # <<>> /\ <<"enable">> # <<>>
    OBVIOUS
  <2>2. Head(<<"delete", "unset jog", "enable">>) = "delete" /\ Head(<<"enable">>) = "enable"
    OBVIOUS
  <2> QED BY <2>1, <2>2, LeaveTails DEF Leaving, Step
<1>4. Elsewhere => Step(Main) \in Plain \cup {"none"}
  BY PopType DEF Elsewhere, Step
<1>5. Elsewhere /\ checked => Step(Main) \notin Outside
  BY PopType DEF Elsewhere, Step, Outside
<1>6. ToLeave => Step(Main) = "none"
  BY DEF ToLeave, Step
<1> QED BY <1>1, <1>2, <1>3, <1>4, <1>5, <1>6

\* A step of a thread other than Main: it goes on with what it has to do.
LEMMA OtherPops ==
  ASSUME JogInv, ~closed, NEW t \in Threads \ {Main}, todo[t] # <<>>, Pop(t),
         UNCHANGED <<board, selected, checked, closed, posthread, stop, accept, enabled,
                     pending, batchmode>>,
         tcp' \in Threads \cup {None}, InFlight', (Done <=> Done')
  PROVE  JogInv'
<1>1. TodoOK /\ MainInv /\ Live \ stop \subseteq {posthread}
  BY DEF JogInv
<1>2. todo' = [u \in Threads |-> IF u = t THEN Tail(todo[t]) ELSE todo[u]]
  BY <1>1 DEF Pop, TodoOK
<1>3. Main \in Threads /\ Batchers \subseteq Threads /\ Updaters \subseteq Threads
  BY DEF Threads
<1>4. TodoOK'
  <2>1. ASSUME NEW u \in Updaters PROVE todo'[u] \in Seq(UpdaterSteps)
    BY <1>1, <1>2, <1>3, PopType DEF TodoOK
  <2>2. ASSUME NEW b \in Batchers PROVE todo'[b] \in Seq(BatchSteps)
    BY <1>1, <1>2, <1>3, PopType DEF TodoOK
  <2> QED BY <1>2, <2>1, <2>2 DEF TodoOK
<1>5. (Live \ stop)' \subseteq Live \ stop
  BY <1>2, <1>3 DEF Live
<1>6. MainInv'
  BY <1>1, <1>2, <1>3, <1>5, MainKept
<1> QED BY <1>1, <1>4, <1>5, <1>6 DEF JogInv

\* A step of a handler that has nothing to do with jog mode.
LEMMA MainPops ==
  ASSUME JogInv, ~closed, Elsewhere, todo[Main] # <<>>, Pop(Main),
         UNCHANGED <<selected, checked, closed, posthread, stop, enabled, pending, batchmode>>,
         board' = board, checked => accept' = accept,
         tcp' \in Threads \cup {None}, InFlight'
  PROVE  JogInv'
<1>1. TodoOK /\ MainInv /\ Live \ stop \subseteq {posthread}
  BY DEF JogInv
<1>2. todo' = [u \in Threads |-> IF u = Main THEN Tail(todo[Main]) ELSE todo[u]]
  BY <1>1 DEF Pop, TodoOK
<1>3. Main \in Threads /\ Main \notin Updaters \cup Batchers
      /\ Updaters \cup Batchers \subseteq Threads
  BY GuiAssumption DEF Threads, Main
<1>4. TodoOK' /\ Live' = Live
  BY <1>1, <1>2, <1>3 DEF TodoOK, Live
<1>5. todo'[Main] \in Seq(Plain) /\ (checked => todo'[Main] \in Seq(Plain \ Outside))
  BY <1>2, <1>3, PopType DEF Elsewhere
<1>6. Elsewhere'
  BY <1>5 DEF Elsewhere, JogIs, AxisIsSelected
<1> QED BY <1>1, <1>4, <1>6 DEF JogInv, MainInv

LEMMA JogSend ==
  ASSUME ExchangeInv, JogInv, NEW t \in Threads, Send(t)
  PROVE  JogInv'
<1>0. PICK a \in AxisOf(t) : wire' = Append(wire, [from |-> t, what |-> Step(t), axis |-> a])
  BY DEF Send
<1> DEFINE r == [from |-> t, what |-> Step(t), axis |-> a]
<1>1. tcp = None /\ tcp' = t /\ wire' = Append(wire, r) /\ wire = <<>>
  BY <1>0 DEF Send, TcpFree, ExchangeInv, Exchange, NoExchange
<1>2. UNCHANGED <<board, selected, checked, closed, todo, posthread, stop, accept, enabled,
                 pending, batchmode>>
  BY DEF Send, window
<1>4. ~closed
  <2>1. todo[t] # <<>>
    BY DEF Send, Step, Requests
  <2> QED BY <2>1 DEF JogInv
<1>3. /\ wire' = <<r>> /\ r.what = Step(t) /\ r.from = t /\ r.axis \in 1 .. NumAxes
      /\ t = Main => r.axis = selected
  <2>1. a \in 1 .. NumAxes /\ (t = Main => a = selected)
    BY <1>0, <1>4 DEF AxisOf, JogInv
  <2> QED BY <1>1, <2>1
<1>5. ~Done /\ ~Done'
  BY <1>1, <1>3, GuiAssumption DEF Done, Main, None, Nobody
<1>6. InFlight'
  <2>1. Step(t)' = Step(t) /\ Step(t) \in Requests
    BY <1>2 DEF Step, Send
  <2>2. \A k \in DOMAIN wire' : wire'[k] = r
    BY <1>3
  <2> QED BY <1>1, <1>2, <1>3, <2>1, <2>2 DEF InFlight, Step
<1>7. Live' = Live /\ TodoOK'
  BY <1>2, <1>4 DEF JogInv, Live, TodoOK
<1>8. MainInv'
  BY <1>2, <1>4, <1>5, <1>7, MainKept DEF JogInv
<1> QED BY <1>1, <1>2, <1>4, <1>6, <1>7, <1>8 DEF JogInv

LEMMA JogReceive ==
  ASSUME ExchangeInv, JogInv, NEW t \in Threads, Receive(t)
  PROVE  JogInv'
<1>1. tcp = t /\ tcp' = None /\ Pop(t) /\ Step(t) \in Requests /\ todo[t] # <<>>
  BY DEF Receive, Step, Requests
<1>2. UNCHANGED <<board, selected, checked, closed, posthread, stop, accept, enabled,
                 pending, batchmode, wire>>
  BY DEF Receive, window
<1>3. t # None /\ Main # None
  BY GuiAssumption DEF Threads, Main, None, Nobody
<1>4. wire = <<>>
  BY <1>1, <1>3 DEF Receive, ExchangeInv, Exchange, OnWire, Processed, Replied
<1>5. ~closed
  BY <1>1 DEF JogInv
<1>6. InFlight' /\ ~Done'
  BY <1>1, <1>3 DEF InFlight, Done
<1>7. CASE t # Main
  BY <1>1, <1>2, <1>5, <1>6, <1>7, OtherPops DEF Done
<1>8. CASE t = Main
  <2>1. TodoOK /\ MainInv /\ Done
    BY <1>1, <1>4, <1>5, <1>8 DEF JogInv, Done
  <2>2. todo' = [u \in Threads |-> IF u = Main THEN Tail(todo[Main]) ELSE todo[u]]
    BY <1>1, <1>8, <2>1 DEF Pop, TodoOK
  <2>3. Main \in Threads /\ Main \notin Updaters \cup Batchers
        /\ Updaters \cup Batchers \subseteq Threads
    BY GuiAssumption DEF Threads, Main
  <2>4. TodoOK' /\ Live' = Live
    BY <2>1, <2>2, <2>3 DEF TodoOK, Live
  <2>5. todo'[Main] = Tail(todo[Main])
    BY <2>2, <2>3
  <2>6. CASE Entering
    <3>1. Step(Main) # "start"
      BY <1>1, <1>8 DEF Requests
    <3>2. <<"start", "disable">> # <<>> /\ Head(<<"start", "disable">>) = "start"
      OBVIOUS
    <3>3. todo[Main] # <<"start", "disable">>
      BY <3>1, <3>2 DEF Step
    <3>4. /\ JogIs(TRUE) => JogIs(TRUE)'
          /\ AxisIsSelected => AxisIsSelected'
      BY <1>2 DEF JogIs, AxisIsSelected
    <3>5. checked' /\ ~accept' /\ posthread' = None /\ ~pending'
      BY <1>2, <2>6 DEF Entering
    <3>6. ASSUME todo[Main] = EnterSteps PROVE Entering'
      <4>1. JogIs(TRUE)' /\ todo'[Main] = Tail(EnterSteps)
        BY <2>1, <2>5, <2>6, <3>4, <3>6, EnterTails DEF Entering
      <4> QED BY <1>6, <3>5, <4>1 DEF Entering
    <3>7. ASSUME todo[Main] = Tail(EnterSteps) PROVE Entering'
      <4>1. JogIs(TRUE)' /\ AxisIsSelected' /\ todo'[Main] = <<"start", "disable">>
        BY <2>1, <2>5, <2>6, <3>4, <3>7, EnterTails DEF Entering
      <4> QED BY <3>5, <4>1 DEF Entering
    <3>8. Entering'
      BY <2>6, <3>3, <3>6, <3>7 DEF Entering
    <3> QED BY <1>1, <1>2, <1>5, <1>6, <2>4, <3>8 DEF JogInv, MainInv
  <2>7. CASE Entered
    <3>1. Step(Main) # "disable"
      BY <1>1, <1>8 DEF Requests
    <3>2. <<"disable">> # <<>> /\ Head(<<"disable">>) = "disable" /\ Tail(<<"set axis">>) = <<>>
      OBVIOUS
    <3>3. todo[Main] = <<"set axis">>
      BY <2>7, <3>1, <3>2 DEF Step, Entered
    <3>4. todo'[Main] = <<>>
      BY <2>5, <3>2, <3>3
    <3>5. <<"disable">> # <<"set axis">>
      BY <3>2
    <3>6. /\ checked /\ ~accept /\ ~enabled /\ posthread # None /\ ~pending
          /\ JogIs(TRUE) /\ AxisIsSelected
      BY <2>1, <2>7, <3>3, <3>5 DEF Entered
    <3>7. Elsewhere'
      BY <1>2, <3>4, <3>6, EmptySeq DEF Elsewhere, JogIs, AxisIsSelected
    <3> QED BY <1>1, <1>2, <1>5, <1>6, <2>4, <3>7 DEF JogInv, MainInv
  <2>8. CASE Leaving
    <3>1. Step(Main) \notin {"delete", "wait", "enable"}
      BY <1>1, <1>8 DEF Requests
    <3>2. /\ <<"delete", "unset jog", "enable">> # <<>> /\ <<"enable">> # <<>>
          /\ Head(<<"delete", "unset jog", "enable">>) = "delete" /\ Head(<<"enable">>) = "enable"
      OBVIOUS
    <3>3. todo[Main] = LeaveSteps /\ posthread = None /\ JogIs(FALSE)
      BY <2>1, <2>8, <3>1, <3>2, LeaveTails DEF Step, Leaving
    <3>4. todo'[Main] = <<"enable">>
      BY <2>5, <3>3, LeaveTails
    <3>5. Leaving'
      BY <1>2, <2>8, <3>3, <3>4 DEF Leaving, JogIs
    <3> QED BY <1>1, <1>2, <1>5, <1>6, <2>4, <3>5 DEF JogInv, MainInv
  <2>9. CASE Elsewhere
    BY <1>1, <1>2, <1>5, <1>6, <1>8, <2>9, MainPops
  <2> QED BY <1>1, <1>8, <2>1, <2>6, <2>7, <2>8, <2>9 DEF MainInv, ToLeave
<1> QED BY <1>7, <1>8

\* The steps that only store, show or log something.
LEMMA JogShow ==
  ASSUME JogInv, NEW t \in Threads, Step(t) \in {"store", "show", "show own", "log"},
         t = Main => Step(t) # "log",
         Pop(t), UNCHANGED <<sessionVars, tcp, window>>
  PROVE  JogInv'
<1>1. todo[t] # <<>> /\ Step(t) \notin Requests
  BY DEF Step, Requests
<1>2. ~closed
  BY <1>1 DEF JogInv
<1>3. UNCHANGED <<board, selected, checked, closed, posthread, stop, accept, enabled,
                 pending, batchmode, wire, tcp>> /\ (Done <=> Done')
  BY DEF window, sessionVars, Done
<1>4. tcp # t
  <2>1. t # None
    BY GuiAssumption DEF Threads, Main, None, Nobody
  <2> QED BY <1>1, <1>2, <2>1 DEF JogInv, InFlight
<1>5. todo' = [u \in Threads |-> IF u = t THEN Tail(todo[t]) ELSE todo[u]]
  BY <1>2 DEF Pop, TodoOK, JogInv
<1>6. InFlight'
  <2>1. tcp # None => Step(tcp)' = Step(tcp)
    BY <1>3, <1>4, <1>5 DEF Step, JogInv
  <2> QED BY <1>2, <1>3, <2>1 DEF InFlight, JogInv, Step
<1>7. tcp' \in Threads \cup {None}
  BY <1>3 DEF JogInv
<1>8. CASE t # Main
  BY <1>1, <1>2, <1>3, <1>6, <1>7, <1>8, OtherPops
<1>9. CASE t = Main
  <2>1. MainInv
    BY <1>2 DEF JogInv
  <2>2. Elsewhere
    BY <1>9, <2>1, MainStepIs DEF MainInv
  <2> QED BY <1>1, <1>2, <1>3, <1>6, <1>7, <1>9, <2>2, MainPops
<1> QED BY <1>8, <1>9

LEMMA TurnType ==
  /\ Refresh \in Seq(Plain \ Outside) /\ Turn \in Seq(UpdaterSteps) /\ Turn # <<>>
  /\ <<"test">> \in Seq(UpdaterSteps)
BY DEF Refresh, Turn, Plain, Outside, Requests, JogRequests, UpdaterSteps

LEMMA JogTest ==
  ASSUME JogInv, NEW u \in Updaters, TestDestroy(u)
  PROVE  JogInv'
<1>1. todo[u] # <<>> /\ Step(u) \notin Requests /\ u # None /\ u # Main /\ u \notin Batchers /\ u \in Threads
  BY GuiAssumption DEF TestDestroy, Step, Requests, Threads, Main, None, Nobody
<1>2. ~closed
  BY <1>1 DEF JogInv
<1>3. UNCHANGED <<board, selected, checked, closed, posthread, accept, enabled, pending, batchmode,
                 wire, tcp>>
  BY DEF TestDestroy, sessionVars
<1>4. tcp # u
  BY <1>1, <1>2 DEF JogInv, InFlight
<1>5. todo' = [t \in Threads |-> IF t = u THEN IF u \in stop THEN <<>> ELSE Turn ELSE todo[t]]
  BY <1>2 DEF TestDestroy, TodoOK, JogInv
<1>6. TodoOK'
  <2>1. Batchers \subseteq Threads /\ Updaters \subseteq Threads
    BY DEF Threads
  <2> QED BY <1>1, <1>2, <1>5, <2>1, TurnType, EmptySeq DEF TodoOK, JogInv
<1>7. InFlight'
  <2>1. tcp # None => Step(tcp)' = Step(tcp)
    BY <1>3, <1>4, <1>5 DEF Step, JogInv
  <2> QED BY <1>2, <1>3, <2>1 DEF InFlight, JogInv, Step
<1>8. (Live \ stop)' \subseteq Live \ stop
  <2>1. stop' = stop \ {u} /\ Updaters \subseteq Threads
    BY DEF TestDestroy, Threads
  <2> QED BY <1>1, <1>5, <2>1 DEF Live
<1>9. MainInv'
  <2>1. todo'[Main] = todo[Main] /\ (Done <=> Done')
    BY <1>1, <1>3, <1>5 DEF Threads, Done
  <2> QED BY <1>2, <1>3, <1>8, <2>1, MainKept DEF JogInv
<1> QED BY <1>2, <1>3, <1>6, <1>7, <1>8, <1>9 DEF JogInv

-----------------------------------------------------------------------------
(* Steps of the main thread alone.                                         *)

\* While the main thread has none under way, requests are not its concern.
LEMMA MainAlone ==
  ASSUME JogInv, ~closed, Step(Main) \notin Requests,
         todo' = [t \in Threads |-> IF t = Main THEN todo'[Main] ELSE todo[t]],
         UNCHANGED <<tcp, wire>>
  PROVE  /\ tcp # Main /\ tcp' \in Threads \cup {None} /\ ~Done /\ ~Done'
         /\ TodoOK' /\ InFlight' /\ Live' = Live
<1>1. Main # None /\ Main \in Threads /\ Main \notin Updaters \cup Batchers
      /\ Updaters \cup Batchers \subseteq Threads
  BY GuiAssumption DEF Threads, Main, None, Nobody
<1>2. tcp # Main /\ tcp' \in Threads \cup {None} /\ ~Done /\ ~Done'
  BY <1>1 DEF JogInv, InFlight, Done
<1>3. TodoOK' /\ Live' = Live
  <2>1. todo' = [t \in Threads |-> todo'[t]]
    OBVIOUS
  <2>2. \A t \in Threads \ {Main} : todo'[t] = todo[t]
    OBVIOUS
  <2> QED BY <1>1, <2>1, <2>2 DEF JogInv, TodoOK, Live
<1>4. InFlight'
  <2>1. tcp # None => Step(tcp)' = Step(tcp)
    BY <1>2 DEF Step, JogInv
  <2> QED BY <1>2, <2>1 DEF InFlight, JogInv, Step
<1> QED BY <1>2, <1>3, <1>4

LEMMA Handles ==
  ASSUME JogInv, ~closed, NEW steps,
         todo' = [todo EXCEPT ![Main] = steps]
  PROVE  /\ todo' = [t \in Threads |-> IF t = Main THEN todo'[Main] ELSE todo[t]]
         /\ todo'[Main] = steps
<1>1. Main \in Threads /\ TodoOK
  BY DEF Threads, JogInv
<1> QED BY <1>1 DEF TodoOK

LEMMA JogLearn == ASSUME JogInv, Learn PROVE JogInv'
<1>1. todo[Main] # <<>> /\ Step(Main) \notin Requests /\ Main \in Threads
  BY DEF Learn, Step, Requests, Threads
<1>2. ~closed
  BY <1>1 DEF JogInv
<1>3. Elsewhere /\ ~checked
  BY <1>2, MainStepIs DEF JogInv, MainInv, Learn, Outside
<1>4. UNCHANGED <<board, selected, checked, closed, posthread, stop, enabled, pending, batchmode,
                 tcp, wire>> /\ Pop(Main)
  BY DEF Learn, sessionVars
<1>5. InFlight' /\ tcp' \in Threads \cup {None}
  BY <1>1, <1>2, <1>4, Handles, MainAlone DEF Pop
<1> QED BY <1>1, <1>2, <1>3, <1>4, <1>5, MainPops

LEMMA JogDelete == ASSUME JogInv, Delete PROVE JogInv'
<1>1. todo[Main] # <<>> /\ Step(Main) \notin Requests /\ Main \in Threads
  BY DEF Delete, Step, Requests, Threads
<1>2. ~closed
  BY <1>1 DEF JogInv
<1>3. Leaving
  BY <1>2, MainStepIs DEF JogInv, MainInv, Delete, Plain, Requests
<1>4. UNCHANGED <<board, selected, checked, closed, accept, enabled, pending, batchmode,
                 tcp, wire>> /\ stop' = stop \cup {posthread}
  BY DEF Delete, sessionVars
<1>5. /\ todo[Main] = <<"delete", "unset jog", "enable">> /\ Tail(todo[Main]) = LeaveSteps
      /\ posthread # None /\ ~checked /\ ~pending
  <2>1. <<"enable">> # <<>> /\ Head(<<"enable">>) = "enable"
    OBVIOUS
  <2> QED BY <1>3, <2>1, LeaveTails DEF Leaving, Delete, Step
<1>6. CASE Pop(Main) /\ Forget
  <2>1. /\ todo' = [t \in Threads |-> IF t = Main THEN todo'[Main] ELSE todo[t]]
        /\ todo'[Main] = LeaveSteps
    BY <1>2, <1>5, <1>6, Handles DEF Pop
  <2>2. TodoOK' /\ InFlight' /\ Live' = Live /\ ~Done' /\ tcp' \in Threads \cup {None}
    BY <1>1, <1>2, <1>4, <2>1, MainAlone
  <2>3. Leaving' /\ (Live \ stop)' \subseteq {posthread'}
    BY <1>2, <1>4, <1>5, <1>6, <2>1, <2>2 DEF Leaving, Forget, JogInv
  <2> QED BY <1>2, <1>4, <2>2, <2>3 DEF JogInv, MainInv
<1>7. CASE /\ todo' = [todo EXCEPT ![Main] = <<"wait">> \o Tail(@)]
           /\ UNCHANGED posthread
  <2>1. todo' = [todo EXCEPT ![Main] = <<"wait">> \o LeaveSteps]
    BY <1>2, <1>5, <1>7
  <2>2. /\ todo' = [t \in Threads |-> IF t = Main THEN todo'[Main] ELSE todo[t]]
        /\ todo'[Main] = <<"wait">> \o LeaveSteps
    BY <1>2, <2>1, Handles
  <2>3. TodoOK' /\ InFlight' /\ Live' = Live /\ ~Done' /\ tcp' \in Threads \cup {None}
    BY <1>1, <1>2, <1>4, <2>2, MainAlone
  <2>4. Leaving' /\ (Live \ stop)' \subseteq {posthread'}
    BY <1>2, <1>4, <1>5, <1>7, <2>2, <2>3 DEF Leaving, JogInv
  <2> QED BY <1>2, <1>4, <2>3, <2>4 DEF JogInv, MainInv
<1> QED BY <1>6, <1>7 DEF Delete

LEMMA JogWait == ASSUME JogInv, Wait PROVE JogInv'
<1>1. todo[Main] # <<>> /\ Step(Main) \notin Requests /\ Main \in Threads
  BY DEF Wait, Step, Requests, Threads
<1>2. ~closed
  BY <1>1 DEF JogInv
<1>3. Leaving
  BY <1>2, MainStepIs DEF JogInv, MainInv, Wait, Plain, Requests
<1>4. UNCHANGED <<board, selected, checked, closed, stop, accept, enabled, pending, batchmode,
                 tcp, wire>> /\ posthread' = None
  BY DEF Wait, sessionVars, Forget
<1>5. /\ Tail(todo[Main]) = LeaveSteps /\ ~checked /\ ~pending
      /\ posthread \notin Live
  <2>1. <<"enable">> # <<>> /\ Head(<<"enable">>) = "enable"
        /\ <<"delete", "unset jog", "enable">> # <<>>
        /\ Head(<<"delete", "unset jog", "enable">>) = "delete"
    OBVIOUS
  <2> QED BY <1>3, <2>1, LeaveTails DEF Leaving, Wait, Step
<1>6. /\ todo' = [t \in Threads |-> IF t = Main THEN todo'[Main] ELSE todo[t]]
      /\ todo'[Main] = LeaveSteps
  BY <1>2, <1>5, Handles DEF Wait, Pop
<1>7. TodoOK' /\ InFlight' /\ Live' = Live /\ ~Done' /\ tcp' \in Threads \cup {None}
  BY <1>1, <1>2, <1>4, <1>6, MainAlone
<1>8. Leaving'
  BY <1>4, <1>5, <1>6, <1>7 DEF Leaving
<1>9. (Live \ stop)' \subseteq {posthread'}
  BY <1>2, <1>4, <1>5, <1>7 DEF JogInv
<1> QED BY <1>2, <1>4, <1>7, <1>8, <1>9 DEF JogInv, MainInv

LEMMA JogEnable == ASSUME JogInv, Enable PROVE JogInv'
<1>1. todo[Main] # <<>> /\ Step(Main) \notin Requests /\ Main \in Threads
  BY DEF Enable, Step, Requests, Threads
<1>2. ~closed
  BY <1>1 DEF JogInv
<1>3. UNCHANGED <<board, selected, checked, closed, posthread, stop, accept, pending, batchmode,
                 tcp, wire>> /\ enabled' = (Step(Main) = "enable")
  BY DEF Enable, sessionVars
<1>4. /\ <<"enable">> # <<>> /\ Head(<<"enable">>) = "enable" /\ Tail(<<"enable">>) = <<>>
      /\ <<"disable">> # <<>> /\ Head(<<"disable">>) = "disable" /\ Tail(<<"disable">>) = <<>>
      /\ <<"set axis">> # <<>> /\ Head(<<"set axis">>) = "set axis"
      /\ <<"delete", "unset jog", "enable">> # <<>>
      /\ Head(<<"delete", "unset jog", "enable">>) = "delete"
  OBVIOUS
<1>5. /\ Tail(todo[Main]) = <<>> /\ ~pending
      /\ JogIs(checked) /\ (checked <=> posthread # None)
      /\ checked => AxisIsSelected /\ Step(Main) = "disable" /\ ~accept
  <2>1. MainInv
    BY <1>2 DEF JogInv
  <2>2. CASE Step(Main) = "enable"
    <3>1. Leaving
      BY <2>1, <2>2, MainStepIs DEF MainInv, Plain, Requests
    <3>2. todo[Main] = <<"enable">> /\ ~checked /\ ~pending /\ posthread = None /\ JogIs(FALSE)
      BY <1>4, <2>2, <3>1, LeaveTails DEF Leaving, Step
    <3>3. checked = FALSE
      BY <1>2, <3>2 DEF JogInv
    <3> QED BY <1>4, <3>2, <3>3
  <2>3. CASE Step(Main) = "disable"
    <3>1. Entered
      BY <2>1, <2>3, MainStepIs DEF MainInv, Plain, Requests
    <3> QED BY <1>4, <2>3, <3>1 DEF Entered, Step
  <2> QED BY <2>2, <2>3 DEF Enable
<1>6. /\ todo' = [t \in Threads |-> IF t = Main THEN todo'[Main] ELSE todo[t]]
      /\ todo'[Main] = <<>>
  BY <1>2, <1>5, Handles DEF Enable, Pop
<1>7. TodoOK' /\ InFlight' /\ Live' = Live /\ ~Done' /\ tcp' \in Threads \cup {None}
  BY <1>1, <1>2, <1>3, <1>6, MainAlone
<1>8. Elsewhere'
  BY <1>3, <1>5, <1>6, EmptySeq DEF Elsewhere, JogIs, AxisIsSelected
<1> QED BY <1>2, <1>3, <1>7, <1>8 DEF JogInv, MainInv

LEMMA JogStart == ASSUME JogInv, Start PROVE JogInv'
<1>1. todo[Main] # <<>> /\ Step(Main) \notin Requests
  BY DEF Start, Step, Requests
<1>2. ~closed
  BY <1>1 DEF JogInv, Threads
<1>3. UNCHANGED <<board, selected, checked, closed, stop, enabled, accept, pending, batchmode,
                 tcp, wire>>
  BY DEF Start, sessionVars
<1>4. Entering
  BY <1>2, MainStepIs DEF JogInv, MainInv, Start, Plain, Requests
<1>5. /\ todo[Main] = <<"start", "disable">> /\ posthread = None /\ JogIs(TRUE)
      /\ AxisIsSelected /\ checked /\ ~accept /\ ~pending
  BY <1>4, EnterTails DEF Entering, Start, Step
<1> DEFINE first == <<"test">>
<1>6. PICK u \in Updaters \ Live :
         posthread' = u /\ todo' = [todo EXCEPT ![Main] = Tail(@), ![u] = first]
  BY <1>5 DEF Start, Takes, Live
<1> HIDE DEF first
<1>7. /\ u # None /\ u # Main /\ u \notin Batchers /\ None \notin Updaters /\ Main # None
      /\ Main \notin Updaters \cup Batchers /\ {u, Main} \subseteq Threads
      /\ Updaters \cup Batchers \subseteq Threads
  BY GuiAssumption DEF Threads, Main, None, Nobody
<1>8. todo' = [t \in Threads |-> IF t = u THEN first
                                 ELSE IF t = Main THEN <<"disable">> ELSE todo[t]]
  <2>1. Tail(<<"start", "disable">>) = <<"disable">>
    OBVIOUS
  <2> QED BY <1>2, <1>5, <1>6, <1>7, <2>1 DEF JogInv, TodoOK
<1>9. TodoOK'
  BY <1>2, <1>7, <1>8, TurnType DEF JogInv, TodoOK, first
<1>10. tcp # Main /\ tcp # u
  <2>1. Step(u) \notin Requests
    BY <1>6 DEF Live, Step, Requests
  <2> QED BY <1>1, <1>2, <1>7, <2>1 DEF JogInv, InFlight
<1>11. InFlight'
  <2>1. tcp # None => Step(tcp)' = Step(tcp)
    BY <1>3, <1>8, <1>10 DEF Step, JogInv
  <2> QED BY <1>2, <1>3, <2>1 DEF InFlight, JogInv, Step
<1>12. (Live \ stop)' \subseteq {posthread'}
  <2>1. Live' \subseteq Live \cup {u}
    BY <1>7, <1>8 DEF Live
  <2>2. Live \ stop = {}
    BY <1>2, <1>5, <1>7 DEF JogInv, Live
  <2> QED BY <1>3, <1>6, <2>1, <2>2
<1>13. Entered'
  BY <1>3, <1>5, <1>6, <1>7, <1>8 DEF Entered, JogIs, AxisIsSelected
<1> QED BY <1>2, <1>3, <1>9, <1>11, <1>12, <1>13 DEF JogInv, MainInv

LEMMA JogClose == ASSUME JogInv, Close PROVE JogInv'
<1>1. todo[Main] # <<>> /\ Step(Main) \notin Requests /\ Main # None
  BY GuiAssumption DEF Close, Step, Requests, Main, None, Nobody
<1>2. ~closed
  BY <1>1 DEF JogInv, Threads
<1>3. Elsewhere /\ tcp # Main
  BY <1>1, <1>2, MainStepIs DEF JogInv, MainInv, Close, InFlight
<1> QED BY <1>2, <1>3 DEF JogInv, Close, Elsewhere

-----------------------------------------------------------------------------
(* Events.                                                                 *)

LEMMA IdleIs ==
  ASSUME JogInv, Idle
  PROVE  /\ ~closed /\ Elsewhere /\ todo[Main] = <<>> /\ Step(Main) \notin Requests
         /\ tcp # Main /\ ~Done
<1>1. ~closed /\ todo[Main] = <<>> /\ ~pending
  BY DEF Idle
<1>2. Step(Main) = "none" /\ "none" \notin Requests
  BY <1>1 DEF Step, Requests
<1>3. Elsewhere
  BY <1>1, <1>2, MainStepIs DEF JogInv, MainInv, ToLeave
<1>4. Main # None
  BY GuiAssumption DEF Main, None, Nobody
<1> QED BY <1>1, <1>2, <1>3, <1>4 DEF JogInv, InFlight, Done

LEMMA JogClick ==
  ASSUME JogInv, Idle, ClickJog, UNCHANGED <<sessionVars, tcp>>
  PROVE  JogInv'
<1>1. UNCHANGED <<board, wire, tcp, posthread, stop, selected, enabled, batchmode, pending, closed>>
      /\ ~batchmode /\ checked' = ~checked /\ OnCheckboxClick(checked')
  BY DEF ClickJog, sessionVars
<1>2. CASE checked'
  <2>1. todo' = [todo EXCEPT ![Main] = EnterSteps] /\ ~accept'
    BY <1>1, <1>2 DEF OnCheckboxClick, Handle, EnterSteps
  <2>2. /\ todo' = [t \in Threads |-> IF t = Main THEN todo'[Main] ELSE todo[t]]
        /\ todo'[Main] = EnterSteps
    BY <2>1, IdleIs, Handles
  <2>3. TodoOK' /\ InFlight' /\ Live' = Live /\ ~Done' /\ tcp' \in Threads \cup {None}
    BY <1>1, <2>2, IdleIs, MainAlone
  <2>4. Entering'
    BY <1>1, <1>2, <2>1, <2>2, <2>3, IdleIs DEF Elsewhere, Entering, JogIs
  <2> QED BY <1>1, <2>3, <2>4, IdleIs DEF JogInv, MainInv
<1>3. CASE ~checked'
  <2>1. todo' = [todo EXCEPT ![Main] = <<"delete", "unset jog", "enable">>]
    BY <1>1, <1>3 DEF OnCheckboxClick, Handle
  <2>2. /\ todo' = [t \in Threads |-> IF t = Main THEN todo'[Main] ELSE todo[t]]
        /\ todo'[Main] = <<"delete", "unset jog", "enable">>
    BY <2>1, IdleIs, Handles
  <2>3. TodoOK' /\ InFlight' /\ Live' = Live /\ ~Done' /\ tcp' \in Threads \cup {None}
    BY <1>1, <2>2, IdleIs, MainAlone
  <2>4. Leaving'
    BY <1>1, <1>3, <2>2, <2>3, IdleIs DEF Elsewhere, Leaving
  <2> QED BY <1>1, <2>3, <2>4, IdleIs DEF JogInv, MainInv
<1> QED BY <1>2, <1>3

\* Handlers of the main thread that have nothing to do with jog mode.
LEMMA JogHandler ==
  ASSUME JogInv, Idle, NEW steps \in Seq(Plain), Handle(steps),
         checked => steps \in Seq(Plain \ Outside),
         UNCHANGED <<board, wire, tcp, posthread, stop, selected, enabled, pending, closed,
                     checked, accept>>,
         batchmode' => ~checked
  PROVE  JogInv'
<1>1. /\ todo' = [t \in Threads |-> IF t = Main THEN todo'[Main] ELSE todo[t]]
      /\ todo'[Main] = steps
  BY IdleIs, Handles DEF Handle
<1>2. TodoOK' /\ InFlight' /\ Live' = Live /\ tcp' \in Threads \cup {None}
  BY <1>1, IdleIs, MainAlone
<1>3. Elsewhere'
  BY <1>1, IdleIs DEF Elsewhere, JogIs, AxisIsSelected
<1> QED BY <1>2, <1>3, IdleIs DEF JogInv, MainInv

LEMMA JogRadio ==
  ASSUME JogInv, Idle, OnRadioboxSelected, UNCHANGED <<sessionVars, tcp>>
  PROVE  JogInv'
<1>1. /\ UNCHANGED <<board, wire, tcp, posthread, stop, checked, enabled, accept, batchmode,
                     pending, closed>>
      /\ checked /\ selected' \in 1 .. NumAxes /\ todo' = [todo EXCEPT ![Main] = <<"set axis">>]
  BY DEF OnRadioboxSelected, Handle, sessionVars
<1>2. /\ todo' = [t \in Threads |-> IF t = Main THEN todo'[Main] ELSE todo[t]]
      /\ todo'[Main] = <<"set axis">>
  BY <1>1, IdleIs, Handles
<1>3. TodoOK' /\ InFlight' /\ Live' = Live /\ ~Done' /\ tcp' \in Threads \cup {None}
  BY <1>1, <1>2, IdleIs, MainAlone
<1>4. Entered'
  BY <1>1, <1>2, <1>3, IdleIs DEF Elsewhere, Entered, JogIs
<1> QED BY <1>1, <1>3, <1>4, IdleIs DEF JogInv, MainInv

LEMMA JogButton ==
  ASSUME JogInv, Idle, OnButton \/ PositionUpdate \/ CloseBox, UNCHANGED <<sessionVars, tcp>>
  PROVE  JogInv'
<1>1. /\ UNCHANGED <<board, wire, tcp, posthread, stop, selected, enabled, batchmode, pending,
                     closed, checked, accept>>
      /\ batchmode => ~checked
  BY IdleIs DEF OnButton, PositionUpdate, CloseBox, window, sessionVars, JogInv
<1>2. Elsewhere
  BY IdleIs
<1>3. \A steps \in Seq(Plain) :
        Handle(steps) /\ (checked => steps \in Seq(Plain \ Outside)) => JogInv'
  BY <1>1, JogHandler
<1>4. CASE Handle(<<"set zero">> \o Refresh)
  <2>1. <<"set zero">> \in Seq(Plain \ Outside)
    BY DEF Plain, Outside, Requests, JogRequests
  <2>2. <<"set zero">> \o Refresh \in Seq(Plain \ Outside)
    BY <2>1, TurnType, ConcatProperties
  <2> QED BY <1>3, <1>4, <2>2, SeqMonotonic
<1>5. CASE Handle(<<"savexml">>)
  <2>1. <<"savexml">> \in Seq(Plain \ Outside) /\ <<"savexml">> \in Seq(Plain)
    BY DEF Plain, Outside, Requests, JogRequests
  <2> QED BY <1>3, <1>5, <2>1
<1>6. CASE accept /\ Handle(<<"initialzero", "savexml", "close">>)
  <2>1. <<"initialzero", "savexml", "close">> \in Seq(Plain)
    BY DEF Plain, Requests, JogRequests
  <2> QED BY <1>2, <1>3, <1>6, <2>1 DEF Elsewhere
<1>7. CASE enabled /\ Handle(<<"ma", "pp", "show own">>)
  <2>1. <<"ma", "pp", "show own">> \in Seq(Plain)
    BY DEF Plain, Requests, JogRequests
  <2> QED BY <1>2, <1>3, <1>7, <2>1 DEF Elsewhere
<1>8. CASE Handle(<<"close">>)
  <2>1. <<"close">> \in Seq(Plain \ Outside) /\ <<"close">> \in Seq(Plain)
    BY DEF Plain, Outside
  <2> QED BY <1>3, <1>8, <2>1
<1> QED BY <1>4, <1>5, <1>6, <1>7, <1>8 DEF OnButton, PositionUpdate, CloseBox

LEMMA JogToggle ==
  ASSUME JogInv, Idle, ToggleBatchMode, UNCHANGED <<sessionVars, tcp>>
  PROVE  JogInv'
<1>1. /\ UNCHANGED <<board, wire, tcp, posthread, stop, selected, enabled, accept, closed>>
      /\ batchmode' = ~batchmode /\ checked' = FALSE
  BY DEF ToggleBatchMode, sessionVars
<1>2. CASE batchmode'
  <2>1. UNCHANGED todo /\ pending' = (checked /\ posthread # None)
    BY <1>2 DEF ToggleBatchMode, EndJog
  <2>2. todo' = [t \in Threads |-> IF t = Main THEN todo'[Main] ELSE todo[t]]
    BY <2>1, IdleIs DEF JogInv, TodoOK
  <2>3. TodoOK' /\ InFlight' /\ Live' = Live /\ tcp' \in Threads \cup {None}
    BY <1>1, <2>2, IdleIs, MainAlone
  <2>4. CASE checked
    <3>1. ToLeave'
      BY <1>1, <2>1, <2>4, IdleIs DEF Elsewhere, ToLeave
    <3> QED BY <1>1, <2>3, <3>1, IdleIs DEF JogInv, MainInv
  <2>5. CASE ~checked
    <3>1. checked' = checked /\ JogIs(checked)
      BY <1>1, <2>5, IdleIs DEF JogInv, Elsewhere
    <3>2. JogIs(checked)'
      BY <1>1, <3>1 DEF JogIs
    <3>3. Elsewhere'
      BY <1>1, <2>1, <2>5, <3>2, IdleIs DEF Elsewhere
    <3> QED BY <1>1, <2>3, <3>3, IdleIs DEF JogInv, MainInv
  <2> QED BY <2>4, <2>5
<1>3. CASE ~batchmode'
  <2>1. ~checked /\ checked' = checked /\ UNCHANGED pending /\ Handle(Refresh)
    BY <1>1, <1>3, IdleIs DEF ToggleBatchMode, JogInv
  <2>2. Refresh \in Seq(Plain)
    BY TurnType, SeqMonotonic
  <2> QED BY <1>1, <1>3, <2>1, <2>2, JogHandler
<1> QED BY <1>2, <1>3

LEMMA LinesType == Lines(BatchFile) \in Seq(BatchSteps)
<1> DEFINE n == 3 * Len(BatchFile) + 1
           f == [k \in 1 .. n |-> IF k % 3 = 2 THEN BatchFile[(k + 1) \div 3] ELSE "log"]
<1>1. Len(BatchFile) \in Nat /\ n \in Nat
  BY GuiAssumption, LenProperties
<1>2. ASSUME NEW k \in 1 .. n PROVE f[k] \in BatchSteps
  <2>1. CASE k % 3 = 2
    <3>1. (k + 1) \div 3 \in 1 .. Len(BatchFile)
      BY <1>1, <2>1
    <3>2. BatchFile[(k + 1) \div 3] \in Requests
      BY <3>1, GuiAssumption
    <3> QED BY <2>1, <3>2 DEF BatchSteps
  <2>2. CASE k % 3 # 2
    BY <2>2 DEF BatchSteps
  <2> QED BY <2>1, <2>2
<1>3. f \in [1 .. n -> BatchSteps]
  BY <1>2
<1>4. f \in Seq(BatchSteps)
  BY <1>1, <1>3
<1> QED BY <1>4 DEF Lines

LEMMA JogLoad ==
  ASSUME JogInv, Idle, LoadBatchFileDialog, UNCHANGED <<sessionVars, tcp>>
  PROVE  JogInv'
<1>0. UNCHANGED <<board, wire, tcp, posthread, stop, selected, enabled, accept, closed, checked,
                  pending, batchmode>>
  BY DEF LoadBatchFileDialog, window, sessionVars
<1>1. PICK b \in Batchers : todo[b] = <<>> /\ todo' = [todo EXCEPT ![b] = Lines(BatchFile)]
  BY DEF LoadBatchFileDialog, Takes
<1>2. /\ b # None /\ b # Main /\ b \notin Updaters /\ Main \in Threads
      /\ Updaters \cup Batchers \subseteq Threads
  BY GuiAssumption DEF Threads, Main, None, Nobody
<1>3. todo' = [t \in Threads |-> IF t = b THEN Lines(BatchFile) ELSE todo[t]]
  BY <1>1, <1>2, IdleIs DEF JogInv, TodoOK
<1>4. TodoOK' /\ Live' = Live
  <2>1. \A u \in Updaters : todo'[u] = todo[u]
    BY <1>2, <1>3
  <2>2. \A c \in Batchers : todo'[c] \in Seq(BatchSteps)
    BY <1>2, <1>3, IdleIs, LinesType DEF JogInv, TodoOK
  <2>3. todo' = [t \in Threads |-> todo'[t]]
    BY <1>3
  <2> QED BY <2>1, <2>2, <2>3, IdleIs DEF JogInv, TodoOK, Live
<1>5. tcp # b
  <2>1. Step(b) \notin Requests
    BY <1>1 DEF Step, Requests
  <2> QED BY <1>2, <2>1, IdleIs DEF JogInv, InFlight
<1>6. InFlight'
  <2>1. tcp # None => Step(tcp)' = Step(tcp)
    BY <1>0, <1>3, <1>5 DEF Step, JogInv
  <2> QED BY <1>0, <2>1, IdleIs DEF InFlight, JogInv, Step
<1>7. Elsewhere'
  BY <1>0, <1>2, <1>3, IdleIs DEF Elsewhere, JogIs, AxisIsSelected
<1> QED BY <1>0, <1>4, <1>6, <1>7, IdleIs DEF JogInv, MainInv

LEMMA JogPending == ASSUME JogInv, PendingEvent PROVE JogInv'
<1>1. /\ UNCHANGED <<board, wire, tcp, posthread, stop, selected, enabled, batchmode, closed, checked>>
      /\ todo[Main] = <<>> /\ pending /\ ~pending' /\ OnCheckboxClick(checked)
  BY DEF PendingEvent, sessionVars
<1>2. ~closed
  BY <1>1 DEF JogInv
<1>3. Step(Main) = "none" /\ "none" \notin Requests
  BY <1>1 DEF Step, Requests
<1>4. ~checked /\ posthread # None
  BY <1>1, <1>2 DEF JogInv, MainInv, Entering, Entered, Leaving, Elsewhere, ToLeave
<1>5. todo' = [todo EXCEPT ![Main] = <<"delete", "unset jog", "enable">>]
  BY <1>1, <1>4 DEF OnCheckboxClick, Handle
<1>6. /\ todo' = [t \in Threads |-> IF t = Main THEN todo'[Main] ELSE todo[t]]
      /\ todo'[Main] = <<"delete", "unset jog", "enable">>
  BY <1>2, <1>5, Handles
<1>7. TodoOK' /\ InFlight' /\ Live' = Live /\ tcp' \in Threads \cup {None}
  BY <1>1, <1>2, <1>3, <1>6, MainAlone
<1>8. Leaving'
  BY <1>1, <1>4, <1>6 DEF Leaving
<1> QED BY <1>1, <1>2, <1>7, <1>8 DEF JogInv, MainInv

-----------------------------------------------------------------------------
(* The server.                                                             *)

\* What a request does to the board's jog mode and axis, by whose request they
\* are after it.
LEMMA Processing ==
  ASSUME board \in Board(Threads), NEW r, NEW b \in process_msg(r, board),
         r.from \in Threads, r.axis \in 1 .. NumAxes
  PROVE  /\ b \in Board(Threads)
         /\ \/ /\ r.what \in {"set jog", "unset jog"}
               /\ b.jogby = Nobody \/ (b.jogby = r.from /\ b.jog = (r.what = "set jog"))
            \/ r.what \notin {"set jog", "unset jog"} /\ b.jogby = board.jogby /\ b.jog = board.jog
         /\ \/ /\ r.what = "set axis"
               /\ b.axisby = Nobody \/ (b.axisby = r.from /\ b.axis = r.axis)
            \/ r.what # "set axis" /\ b.axisby = board.axisby /\ b.axis = board.axis
<1>1. /\ 0 \in Positions /\ r.from \in Threads \cup {Nobody} /\ Nobody \in Threads \cup {Nobody}
      /\ board = [jog |-> board.jog, axis |-> board.axis, pos |-> board.pos, init |-> board.init,
                  jogby |-> board.jogby, axisby |-> board.axisby]
      /\ board.jog \in BOOLEAN /\ board.axis \in 1 .. NumAxes /\ board.pos \in Positions
      /\ board.init \in BOOLEAN
      /\ board.jogby \in Threads \cup {Nobody} /\ board.axisby \in Threads \cup {Nobody}
  BY PositionsAssumption DEF Board
<1>2. CASE r.what = "ma"
  <2>1. PICK p \in Positions : b = [board EXCEPT !.pos = p]
    BY <1>2 DEF process_msg
  <2> QED BY <1>1, <1>2, <2>1 DEF Board
<1>3. CASE r.what = "set axis"
  <2>1. \/ b = [board EXCEPT !.axis = r.axis, !.axisby = r.from]
        \/ b = [board EXCEPT !.axisby = Nobody]
    BY <1>3 DEF process_msg, SetAxis
  <2> QED BY <1>1, <1>3, <2>1 DEF Board
<1>4. CASE r.what = "set jog"
  <2>1. \/ b = [board EXCEPT !.jog = TRUE, !.jogby = r.from]
        \/ b = [board EXCEPT !.jogby = Nobody]
    BY <1>4 DEF process_msg, Jog
  <2> QED BY <1>1, <1>4, <2>1 DEF Board
<1>5. CASE r.what = "unset jog"
  <2>1. \/ b = [board EXCEPT !.jog = FALSE, !.jogby = r.from]
        \/ b = [board EXCEPT !.jogby = Nobody]
    BY <1>5 DEF process_msg, Jog
  <2> QED BY <1>1, <1>5, <2>1 DEF Board
<1>6. CASE r.what = "set zero"
  <2>1. b = [board EXCEPT !.pos = 0]
    BY <1>6 DEF process_msg
  <2> QED BY <1>1, <1>6, <2>1 DEF Board
<1>7. CASE r.what = "initialzero"
  <2>1. b = [board EXCEPT !.pos = 0, !.init = FALSE] \/ b = board
    BY <1>7 DEF process_msg, InitialZero
  <2> QED BY <1>1, <1>7, <2>1 DEF Board
<1>8. CASE r.what \notin {"ma", "set axis", "set jog", "unset jog", "set zero", "initialzero"}
  <2>1. b = board
    BY <1>8 DEF process_msg
  <2> QED BY <1>8, <2>1
<1> QED BY <1>2, <1>3, <1>4, <1>5, <1>6, <1>7, <1>8

LEMMA JogProcess ==
  ASSUME ExchangeInv, JogInv, handle_read_body, UNCHANGED <<todo, got, tcp, window>>
  PROVE  JogInv'
<1>1. tcp # None /\ OnWire(tcp)
  BY DEF ExchangeInv, Exchange, NoExchange, Processed, Replied, handle_read_body
<1>2. PICK r : wire = <<r>> /\ r.from = tcp
  BY <1>1 DEF OnWire
<1>3. wire' = <<>> /\ board' \in process_msg(r, board)
  BY <1>2 DEF handle_read_body
<1>4. UNCHANGED <<selected, checked, closed, posthread, stop, enabled, accept, pending, batchmode>>
  BY DEF window
<1>5. CASE closed
  BY <1>4, <1>5 DEF JogInv
<1>6. CASE ~closed
  <2>1. /\ r.what = Step(tcp) /\ Step(tcp) \in Requests /\ r.axis \in 1 .. NumAxes
        /\ tcp = Main => r.axis = selected
        /\ board \in Board(Threads) /\ selected \in 1 .. NumAxes /\ tcp \in Threads
        /\ TodoOK /\ MainInv
    <3>1. r = wire[1] /\ 1 \in DOMAIN wire
      BY <1>2
    <3>2. InFlight
      BY <1>6 DEF JogInv
    <3>3. /\ r.what = Step(tcp) /\ Step(tcp) \in Requests /\ r.axis \in 1 .. NumAxes
          /\ tcp = Main => r.axis = selected
      BY <1>1, <3>1, <3>2 DEF InFlight
    <3> QED BY <1>1, <1>6, <3>3 DEF JogInv
  <2>2. Main # Nobody /\ tcp # Nobody
    BY <1>1, GuiAssumption DEF Main, None, Nobody
  <2>3. /\ board' \in Board(Threads)
        /\ \/ /\ r.what \in {"set jog", "unset jog"}
              /\ board'.jogby = Nobody
                 \/ (board'.jogby = tcp /\ board'.jog = (r.what = "set jog"))
           \/ /\ r.what \notin {"set jog", "unset jog"}
              /\ board'.jogby = board.jogby /\ board'.jog = board.jog
        /\ \/ /\ r.what = "set axis"
              /\ board'.axisby = Nobody \/ (board'.axisby = tcp /\ board'.axis = r.axis)
           \/ /\ r.what # "set axis"
              /\ board'.axisby = board.axisby /\ board'.axis = board.axis
    BY <1>2, <1>3, <2>1, Processing
  <2>4. ~Done /\ (Done' <=> tcp = Main)
    BY <1>2, <1>3 DEF Done
  <2>5. TodoOK' /\ Live' = Live /\ InFlight' /\ tcp' \in Threads \cup {None}
    BY <1>3, <1>4, <2>1 DEF TodoOK, Live, InFlight, Step
  <2>6. CASE tcp # Main
    <3>1. /\ board'.jogby = Main => board.jogby = Main /\ board'.jog = board.jog
          /\ board'.axisby = Main => board.axisby = Main /\ board'.axis = board.axis
      BY <2>2, <2>3, <2>6
    <3>2. MainInv'
      BY <1>4, <2>1, <2>4, <2>5, <2>6, <3>1, MainKept
    <3> QED BY <1>4, <1>6, <2>3, <2>5, <3>2 DEF JogInv
  <2>7. CASE tcp = Main
    <3>0. /\ r.what = "set jog" => JogIs(TRUE)'
          /\ r.what = "unset jog" => JogIs(FALSE)'
          /\ r.what \notin {"set jog", "unset jog"} => \A on : JogIs(on) => JogIs(on)'
          /\ r.what = "set axis" => AxisIsSelected'
          /\ r.what # "set axis" => (AxisIsSelected => AxisIsSelected')
      <4>1. r.what = "set jog" => JogIs(TRUE)'
        BY <2>2, <2>3, <2>7 DEF JogIs
      <4>2. r.what = "unset jog" => JogIs(FALSE)'
        BY <2>2, <2>3, <2>7 DEF JogIs
      <4>3. r.what \notin {"set jog", "unset jog"} => \A on : JogIs(on) => JogIs(on)'
        BY <2>3 DEF JogIs
      <4>4. r.what = "set axis" => AxisIsSelected'
        BY <1>4, <2>1, <2>2, <2>3, <2>7 DEF AxisIsSelected
      <4>5. r.what # "set axis" => (AxisIsSelected => AxisIsSelected')
        BY <1>4, <2>3 DEF AxisIsSelected
      <4> QED BY <4>1, <4>2, <4>3, <4>4, <4>5
    <3>1. ASSUME Entering PROVE MainInv'
      <4>0. <<"start", "disable">> # <<>> /\ Head(<<"start", "disable">>) = "start"
        OBVIOUS
      <4>1. Step(Main) # "start"
        BY <2>1, <2>7 DEF Requests
      <4>2. CASE todo[Main] = EnterSteps
        <5>1. r.what = "set jog"
          BY <2>1, <2>7, <4>2, EnterTails DEF Step
        <5>2. JogIs(TRUE)'
          BY <3>0, <5>1
        <5>3. Entering'
          BY <1>4, <3>1, <4>2, <5>2 DEF Entering
        <5> QED BY <5>3 DEF MainInv
      <4>3. CASE todo[Main] = Tail(EnterSteps)
        <5>1. r.what = "set axis"
          BY <2>1, <2>7, <4>3, EnterTails DEF Step
        <5>2. JogIs(TRUE)
          BY <3>1, <4>3, EnterTails DEF Entering
        <5>3. JogIs(TRUE)' /\ AxisIsSelected'
          BY <3>0, <5>1, <5>2
        <5>4. Entering'
          BY <1>4, <3>1, <4>3, <5>3 DEF Entering
        <5> QED BY <5>4 DEF MainInv
      <4> QED BY <3>1, <4>0, <4>1, <4>2, <4>3 DEF Entering, Step
    <3>2. ASSUME Entered PROVE MainInv'
      <4>0. /\ <<"disable">> # <<>> /\ <<"set axis">> # <<>>
            /\ Head(<<"disable">>) = "disable" /\ Head(<<"set axis">>) = "set axis"
        OBVIOUS
      <4>1. Step(Main) # "disable"
        BY <2>1, <2>7 DEF Requests
      <4>2. todo[Main] = <<"set axis">> /\ ~enabled /\ JogIs(TRUE)
        BY <3>2, <4>0, <4>1 DEF Entered, Step
      <4>3. r.what = "set axis"
        BY <2>1, <2>7, <4>0, <4>2 DEF Step
      <4>4. JogIs(TRUE)' /\ AxisIsSelected'
        BY <3>0, <4>2, <4>3
      <4>5. Entered'
        BY <1>4, <3>2, <4>2, <4>4 DEF Entered
      <4> QED BY <4>5 DEF MainInv
    <3>3. ASSUME Leaving PROVE MainInv'
      <4>1. Step(Main) \notin {"delete", "wait", "enable"}
        BY <2>1, <2>7 DEF Requests
      <4>2. /\ <<"delete", "unset jog", "enable">> # <<>> /\ <<"enable">> # <<>>
            /\ Head(<<"delete", "unset jog", "enable">>) = "delete" /\ Head(<<"enable">>) = "enable"
        OBVIOUS
      <4>3. todo[Main] = LeaveSteps /\ posthread = None
        BY <3>3, <4>1, <4>2, LeaveTails DEF Leaving, Step
      <4>4. r.what = "unset jog"
        BY <2>1, <2>7, <4>3, LeaveTails DEF Step
      <4>5. JogIs(FALSE)'
        BY <3>0, <4>4
      <4>6. Leaving'
        BY <1>4, <3>3, <4>3, <4>5 DEF Leaving
      <4> QED BY <4>6 DEF MainInv
    <3>4. ASSUME Elsewhere PROVE MainInv'
      <4>1. r.what \notin JogRequests
        BY <2>1, <2>7, <3>4, MainStepIs DEF Plain, Requests, JogRequests
      <4>2. JogIs(checked)' /\ (AxisIsSelected => AxisIsSelected')
        BY <1>4, <2>3, <3>4, <4>1 DEF JogRequests, Elsewhere, JogIs, AxisIsSelected
      <4>3. Elsewhere'
        BY <1>4, <3>4, <4>2 DEF Elsewhere
      <4> QED BY <4>3 DEF MainInv
    <3>5. ASSUME ToLeave PROVE MainInv'
      BY <2>1, <2>7, <3>5, MainStepIs DEF Requests
    <3>6. MainInv'
      BY <2>1, <3>1, <3>2, <3>3, <3>4, <3>5 DEF MainInv
    <3> QED BY <1>4, <1>6, <2>3, <2>5, <3>6 DEF JogInv
  <2> QED BY <2>6, <2>7
<1> QED BY <1>5, <1>6

LEMMA JogServer ==
  ASSUME ExchangeInv, JogInv, Session, UNCHANGED <<todo, got, tcp, window>>
  PROVE  JogInv'
<1>1. CASE handle_read_body
  BY <1>1, JogProcess
<1>2. CASE handle_read_header \/ handle_write
  BY <1>2, JogFrame DEF handle_read_header, handle_write, jogVars, window
<1> QED BY <1>1, <1>2 DEF Session

LEMMA JogWheel == ASSUME JogInv, HandWheel PROVE JogInv'
<1>1. ~closed /\ UNCHANGED <<todo, tcp, wire, selected, checked, closed, posthread, stop, enabled,
                             accept, pending, batchmode>>
  BY DEF HandWheel, Jogged, window
<1>2. /\ board' \in Board(Threads) /\ board'.jog = board.jog /\ board'.axis = board.axis
      /\ board'.jogby = board.jogby /\ board'.axisby = board.axisby
  <2>1. PICK p \in Positions : board' = [board EXCEPT !.pos = p]
    BY DEF HandWheel, Jogged
  <2>2. board \in Board(Threads)
    BY <1>1 DEF JogInv
  <2> QED BY <2>1, <2>2 DEF Board
<1>3. TodoOK' /\ Live' = Live /\ InFlight' /\ (Done <=> Done')
  BY <1>1 DEF JogInv, TodoOK, Live, InFlight, Step, Done
<1>4. MainInv'
  BY <1>1, <1>2, <1>3, MainKept DEF JogInv
<1> QED BY <1>1, <1>2, <1>3, <1>4 DEF JogInv

-----------------------------------------------------------------------------

LEMMA JogInit == Init => JogInv
<1> SUFFICES ASSUME Init PROVE JogInv
  OBVIOUS
<1> DEFINE start == <<"ga", "state", "learn">> \o Refresh
<1>1. /\ todo = [t \in Threads |-> IF t = Main THEN start ELSE <<>>]
      /\ board \in Board({}) /\ selected = 1 /\ ~checked /\ checked \in BOOLEAN
      /\ tcp = None /\ posthread = None /\ ~pending /\ ~closed
  BY DEF Init, SessionInit
<1>2. /\ Main \notin Updaters \cup Batchers /\ Main \in Threads /\ Main # Nobody
      /\ Updaters \cup Batchers \subseteq Threads
  BY GuiAssumption DEF Threads, Main, None, Nobody
<1>8. board \in Board(Threads) /\ board.jogby = Nobody
  BY <1>1 DEF Board
<1>3. selected \in 1 .. NumAxes
  BY <1>1, PositionsAssumption
<1>4. start \in Seq(Plain)
  <2>1. <<"ga", "state", "learn">> \in Seq(Plain)
    BY DEF Plain, Requests, JogRequests
  <2>2. Refresh \in Seq(Plain)
    BY TurnType, SeqMonotonic
  <2> QED BY <2>1, <2>2, ConcatProperties
<1> HIDE DEF start
<1>5. TodoOK /\ Live = {}
  BY <1>1, <1>2, EmptySeq DEF TodoOK, Live
<1>6. InFlight
  BY <1>1 DEF InFlight
<1>7. Elsewhere
  BY <1>1, <1>2, <1>4, <1>8 DEF Elsewhere, JogIs
<1> QED BY <1>1, <1>3, <1>5, <1>6, <1>7, <1>8 DEF JogInv, MainInv, Init

LEMMA JogStep ==
  ASSUME ExchangeInv, JogInv, [Next]_vars
  PROVE  JogInv'
<1>1. ASSUME NEW t \in Threads, ThreadStep(t) PROVE JogInv'
  <2>1. CASE Store(t) \/ Show(t)
    BY <2>1, JogShow DEF Store, Show
  <2> QED BY <1>1, <2>1, JogSend, JogReceive DEF ThreadStep
<1>2. ASSUME NEW b \in Batchers, Log(b) PROVE JogInv'
  <2>1. b \in Threads /\ b # Main
    BY GuiAssumption DEF Threads, Main
  <2> QED BY <1>2, <2>1, JogShow DEF Log
<1>3. ASSUME NEW u \in Updaters, TestDestroy(u) PROVE JogInv'
  BY <1>3, JogTest
<1>4. CASE MainStep
  BY <1>4, JogLearn, JogStart, JogDelete, JogWait, JogEnable, JogClose DEF MainStep
<1>5. CASE UserEvent
  BY <1>5, JogClick, JogRadio, JogButton, JogToggle, JogLoad DEF UserEvent
<1>6. CASE PendingEvent
  BY <1>6, JogPending
<1>7. CASE Server
  BY <1>7, JogServer DEF Server
<1>8. CASE HandWheel
  BY <1>8, JogWheel
<1>9. CASE UNCHANGED vars
  BY <1>9, JogFrame DEF vars, jogVars, window, sessionVars
<1> QED BY <1>1, <1>2, <1>3, <1>4, <1>5, <1>6, <1>7, <1>8, <1>9 DEF Next

LEMMA JogInvariance == Spec => [](ExchangeInv /\ JogInv)
BY ExchangeInit, ExchangeStep, JogInit, JogStep, PTL DEF Spec

\* Between handlers check box and threads agree on jog mode, and so does the
\* board, on its axis too, if the last request to set it was the window's: for
\* any board, any number of threads, axes and events and any batch file, and
\* whatever the card refuses (OnCheckboxClick, ToggleBatchMode, and the event
\* that it adds).
THEOREM JogAgreesInvariant == Spec => []JogAgrees
<1>1. JogInv => JogAgrees
  <2> SUFFICES ASSUME JogInv, Idle
               PROVE  /\ checked = (posthread # None) /\ Live \ stop \subseteq {posthread}
                      /\ board.jogby = Main => checked = board.jog
                      /\ checked /\ board.axisby = Main => board.axis = selected
    BY DEF JogAgrees
  <2>1. ~closed /\ Elsewhere
    BY IdleIs
  <2>2. checked \in BOOLEAN
    BY <2>1 DEF JogInv
  <2>3. checked = (posthread # None)
    BY <2>1, <2>2 DEF Elsewhere
  <2> QED BY <2>1, <2>3 DEF Elsewhere, JogInv, JogIs, AxisIsSelected
<1> QED BY <1>1, JogInvariance, PTL

\* Delete always has a thread to tell, and no entered position and no
\* initialzero of the window reaches a board that the window has put into jog
\* mode (fields and button are disabled first and enabled last), in as general
\* a setting.
THEOREM CommandsOutsideJogInvariant == Spec => []CommandsOutsideJog
<1>1. ExchangeInv /\ JogInv => CommandsOutsideJog
  <2> SUFFICES ASSUME ExchangeInv, JogInv PROVE CommandsOutsideJog
    OBVIOUS
  <2>1. Main \in Threads
    BY DEF Threads
  <2>2. Step(Main) = "delete" => posthread # None
    <3> SUFFICES ASSUME Step(Main) = "delete" PROVE posthread # None
      OBVIOUS
    <3>1. ~closed
      BY <2>1 DEF JogInv, Step
    <3>2. Leaving
      BY <3>1, MainStepIs DEF JogInv, MainInv, Plain, Requests
    <3>3. <<"enable">> # <<>> /\ Head(<<"enable">>) = "enable"
      OBVIOUS
    <3> QED BY <3>2, <3>3, LeaveTails DEF Leaving, Step
  <2>3. ASSUME board.jogby = Main, NEW k \in DOMAIN wire, wire[k].from = Main,
               wire[k].what \in {"ma", "initialzero"}
        PROVE  ~board.jog
    <3>1. tcp # None
      BY DEF ExchangeInv, Exchange, NoExchange
    <3>2. OnWire(tcp)
      BY <3>1 DEF ExchangeInv, Exchange, Processed, Replied
    <3>3. tcp = Main
      BY <2>3, <3>2 DEF OnWire
    <3>4. ~closed
      BY <3>3 DEF JogInv
    <3>5. Step(Main) \in {"ma", "initialzero"}
      BY <2>3, <3>1, <3>3, <3>4 DEF JogInv, InFlight
    <3>6. Elsewhere /\ ~checked
      BY <3>4, <3>5, MainStepIs DEF JogInv, MainInv, Outside
    <3>7. checked = FALSE
      BY <3>4, <3>6 DEF JogInv
    <3> QED BY <2>3, <3>6, <3>7 DEF Elsewhere, JogIs
  <2> QED BY <2>2, <2>3 DEF CommandsOutsideJog
<1> QED BY <1>1, JogInvariance, PTL

-----------------------------------------------------------------------------
(* Types.                                                                  *)

Request == [from : Threads, what : Requests, axis : 1 .. NumAxes]

\* The session and what it exchanges with the threads.
SessionTypes ==
  /\ board \in Board(Threads) /\ phase \in {"header", "body", "write"}
  /\ got \in [Threads -> Reply] /\ tcp \in Threads \cup {None}
  /\ selected \in 1 .. NumAxes
  /\ \A k \in DOMAIN wire : wire[k] \in Request
  /\ \A k \in DOMAIN replies : replies[k] \in Reply
  /\ phase = "write" => data \in Reply

WindowTypes ==
  /\ {initialize, checked, enabled, accept, batchmode, pending, closed} \subseteq BOOLEAN
  /\ {cp_, shown} \subseteq Positions /\ events \in 0 .. MaxEvents

\* What the main thread may have to do, and what a position thread has still
\* to do of a turn.
MainSteps ==
  Requests \cup {"learn", "store", "show", "show own", "start", "delete", "wait", "enable",
                 "disable", "close"}
Turns == {<<>>, <<"test">>, <<"show", "test">>, <<"store", "show", "test">>, Turn}

\* A position thread that the window knows has not ended unless Delete is
\* waiting for its end; the others need not be looked at.
ThreadTypes ==
  /\ DOMAIN todo = Threads /\ todo[Main] \in Seq(MainSteps)
  /\ \A u \in Updaters : todo[u] \in Turns
  /\ posthread \in Updaters \cup {None} /\ stop \subseteq Live
  /\ posthread # None /\ Step(Main) # "wait" => posthread \in Live
  /\ posthread \in stop => Step(Main) = "wait"

LEMMA SessionTypesInit == Init => SessionTypes
<1> SUFFICES ASSUME Init PROVE SessionTypes
  OBVIOUS
<1>1. \A t \in Threads : NoReply(t) \in Reply
  BY PositionsAssumption DEF NoReply, Reply, Requests
<1>2. got \in [Threads -> Reply]
  BY <1>1 DEF Init
<1>3. 1 \in 1 .. NumAxes
  BY PositionsAssumption
<1>4. board \in Board(Threads)
  BY DEF Init, SessionInit, Board
<1> QED BY <1>2, <1>3, <1>4 DEF Init, SessionInit, SessionTypes

sessionTypeVars == <<sessionVars, got, tcp, selected>>

LEMMA SessionTypesFrame == SessionTypes /\ UNCHANGED sessionTypeVars => SessionTypes'
BY DEF SessionTypes, sessionTypeVars, sessionVars

LEMMA SessionTypesDrop ==
  ASSUME SessionTypes, NEW t \in Threads, Drop(t), UNCHANGED <<sessionVars, tcp, selected>>
  PROVE  SessionTypes'
<1>1. NoReply(t) \in Reply
  BY PositionsAssumption DEF NoReply, Reply, Requests
<1>2. got' \in [Threads -> Reply]
  BY <1>1 DEF Drop, SessionTypes
<1> QED BY <1>2 DEF SessionTypes, sessionVars

LEMMA SessionTypesServer ==
  ASSUME ExchangeInv, SessionTypes, Session, UNCHANGED <<got, tcp, selected>>
  PROVE  SessionTypes'
<1>1. CASE handle_read_header
  BY <1>1 DEF handle_read_header, SessionTypes
<1>2. CASE handle_read_body
  <2>1. tcp # None /\ OnWire(tcp)
    BY <1>2 DEF ExchangeInv, Exchange, NoExchange, Processed, Replied, handle_read_body
  <2>2. PICK r : wire = <<r>>
    BY <2>1 DEF OnWire
  <2>3. r \in Request
    <3>1. 1 \in DOMAIN wire /\ wire[1] = r
      BY <2>2
    <3> QED BY <3>1 DEF SessionTypes
  <2>4. /\ wire' = <<>> /\ phase' = "write" /\ replies' = replies
        /\ board' \in process_msg(r, board) /\ data' = Answer(r, board')
    BY <1>2, <2>2 DEF handle_read_body
  <2>5. board' \in Board(Threads)
    BY <2>3, <2>4, Processing DEF SessionTypes, Request
  <2>6. data' \in Reply
    <3>1. /\ (IF r.what = "pp" THEN board'.pos ELSE 0) \in Positions
          /\ (r.what = "state" /\ board'.init) \in BOOLEAN
      BY <2>5, PositionsAssumption DEF Board
    <3> QED BY <2>3, <2>4, <3>1 DEF Answer, Reply, Request
  <2> QED BY <2>4, <2>5, <2>6 DEF SessionTypes
<1>3. CASE handle_write
  <2>1. /\ replies = <<>> /\ phase' = "header" /\ replies' = Append(replies, data)
        /\ data \in Reply /\ UNCHANGED <<wire, data, board>>
    BY <1>3 DEF handle_write, SessionTypes, ExchangeInv, Exchange, NoExchange, OnWire, Processed, Replied
  <2>2. replies' = <<data>>
    BY <2>1
  <2>3. \A k \in DOMAIN replies' : replies'[k] = data
    BY <2>2
  <2> QED BY <2>1, <2>3 DEF SessionTypes
<1> QED BY <1>1, <1>2, <1>3 DEF Session

LEMMA SessionTypesThread ==
  ASSUME ExchangeInv, SessionTypes, NEW t \in Threads, Send(t) \/ Receive(t)
  PROVE  SessionTypes'
<1>1. CASE Send(t)
  <2>0. PICK a \in AxisOf(t) : wire' = Append(wire, [from |-> t, what |-> Step(t), axis |-> a])
    BY <1>1 DEF Send
  <2> DEFINE r == [from |-> t, what |-> Step(t), axis |-> a]
  <2>1. wire = <<>> /\ wire' = Append(wire, r) /\ tcp' = t /\ Step(t) \in Requests
        /\ UNCHANGED <<phase, data, replies, board, got, selected>>
    BY <1>1, <2>0 DEF Send, TcpFree, ExchangeInv, Exchange, NoExchange, window
  <2>2. r \in Request
    <3>1. a \in 1 .. NumAxes
      BY <2>0 DEF AxisOf, SessionTypes
    <3> QED BY <2>1, <3>1 DEF Request
  <2> HIDE DEF r
  <2>3. \A k \in DOMAIN wire' : wire'[k] = r
    <3>1. wire' = <<r>>
      BY <2>1
    <3> QED BY <3>1
  <2> QED BY <2>1, <2>2, <2>3 DEF SessionTypes
<1>2. CASE Receive(t)
  <2>1. /\ replies # <<>> /\ tcp = t /\ tcp' = None /\ got' = [got EXCEPT ![t] = Head(replies)]
        /\ replies' = Tail(replies) /\ UNCHANGED <<wire, phase, data, board, selected>>
    BY <1>2 DEF Receive, window
  <2>2. t # None
    BY GuiAssumption DEF Threads, Main, None, Nobody
  <2>3. PICK r : replies = <<r>>
    BY <2>1, <2>2 DEF ExchangeInv, Exchange, OnWire, Processed, Replied
  <2>4. 1 \in DOMAIN replies /\ replies[1] = r /\ Head(replies) = r /\ replies' = <<>>
    BY <2>1, <2>3
  <2>5. r \in Reply
    BY <2>4 DEF SessionTypes
  <2> QED BY <2>1, <2>4, <2>5 DEF SessionTypes
<1> QED BY <1>1, <1>2

LEMMA SessionTypesStep == ExchangeInv /\ SessionTypes /\ [Next]_vars => SessionTypes'
<1> SUFFICES ASSUME ExchangeInv, SessionTypes, [Next]_vars PROVE SessionTypes'
  OBVIOUS
<1>1. ASSUME NEW t \in Threads, ThreadStep(t) PROVE SessionTypes'
  <2>1. CASE Show(t)
    BY <2>1, SessionTypesFrame DEF Show, window, sessionTypeVars
  <2>2. CASE Store(t)
    BY <2>2, SessionTypesDrop DEF Store, window
  <2> QED BY <1>1, <2>1, <2>2, SessionTypesThread DEF ThreadStep
<1>2. ASSUME NEW u \in Updaters, TestDestroy(u) PROVE SessionTypes'
  BY <1>2, SessionTypesFrame DEF TestDestroy, sessionTypeVars
<1>3. CASE MainStep
  BY <1>3, SessionTypesFrame DEF MainStep, Learn, Start, Delete, Wait, Enable, Close, sessionTypeVars
<1>4. CASE PendingEvent
  BY <1>4, SessionTypesFrame DEF PendingEvent, window, sessionTypeVars
<1>5. CASE UserEvent
  <2>1. UNCHANGED <<sessionVars, got, tcp>> /\ selected' \in 1 .. NumAxes
    BY <1>5 DEF UserEvent, ClickJog, OnRadioboxSelected, OnButton, PositionUpdate, ToggleBatchMode,
                LoadBatchFileDialog, CloseBox, window, SessionTypes
  <2> QED BY <2>1 DEF SessionTypes, sessionVars
<1>6. CASE Server
  BY <1>6, SessionTypesServer DEF Server, window
<1>7. CASE HandWheel
  <2>1. UNCHANGED <<wire, phase, data, replies, got, tcp, selected>> /\ board' \in Board(Threads)
    BY <1>7 DEF HandWheel, Jogged, window, SessionTypes, Board
  <2> QED BY <2>1 DEF SessionTypes
<1>8. CASE UNCHANGED vars
  BY <1>8, SessionTypesFrame DEF vars, window, sessionTypeVars
<1>9. ASSUME NEW b \in Batchers, Log(b) PROVE SessionTypes'
  BY <1>9, SessionTypesDrop DEF Log, window, Threads
<1> QED BY <1>1, <1>2, <1>3, <1>4, <1>5, <1>6, <1>7, <1>8, <1>9 DEF Next

LEMMA WindowTypesInit == Init => WindowTypes
<1> SUFFICES ASSUME Init PROVE WindowTypes
  OBVIOUS
<1>1. 0 \in Positions /\ 0 \in 0 .. MaxEvents
  BY PositionsAssumption, GuiAssumption
<1>2. cp_ = 0 /\ shown = 0 /\ events = 0
  BY DEF Init
<1>3. {initialize, checked, enabled, accept, batchmode, pending, closed} \subseteq BOOLEAN
  BY DEF Init
<1> QED BY <1>1, <1>2, <1>3 DEF WindowTypes

windowTypeVars == <<initialize, checked, enabled, accept, batchmode, pending, closed, cp_, shown, events>>

LEMMA WindowTypesFrame == WindowTypes /\ UNCHANGED windowTypeVars => WindowTypes'
BY DEF WindowTypes, windowTypeVars

LEMMA WindowTypesStep == SessionTypes /\ WindowTypes /\ [Next]_vars => WindowTypes'
<1> SUFFICES ASSUME SessionTypes, WindowTypes, [Next]_vars PROVE WindowTypes'
  OBVIOUS
<1>0. \A t \in Threads : got[t].pos \in Positions /\ got[t].init \in BOOLEAN
  BY DEF SessionTypes, Reply
<1>1. ASSUME NEW t \in Threads, ThreadStep(t) PROVE WindowTypes'
  <2>1. CASE Send(t) \/ Receive(t)
    BY <2>1, WindowTypesFrame DEF Send, Receive, window, windowTypeVars
  <2>2. CASE Store(t) \/ Show(t)
    BY <1>0, <2>2 DEF Store, Show, window, WindowTypes
  <2> QED BY <1>1, <2>1, <2>2 DEF ThreadStep
<1>2. ASSUME NEW u \in Updaters, TestDestroy(u) PROVE WindowTypes'
  BY <1>2, WindowTypesFrame DEF TestDestroy, windowTypeVars
<1>3. CASE MainStep
  <2>1. CASE Learn
    BY <1>0, <2>1 DEF Learn, WindowTypes, Threads
  <2>2. CASE Enable \/ Close
    BY <2>2 DEF Enable, Close, WindowTypes
  <2>3. CASE Start \/ Delete \/ Wait
    BY <2>3, WindowTypesFrame DEF Start, Delete, Wait, windowTypeVars
  <2> QED BY <1>3, <2>1, <2>2, <2>3 DEF MainStep
<1>4. ASSUME NEW b \in Batchers, Log(b) PROVE WindowTypes'
  BY <1>4, WindowTypesFrame DEF Log, window, windowTypeVars
<1>5. CASE UserEvent
  <2>1. events' \in 0 .. MaxEvents /\ UNCHANGED <<cp_, shown>>
    BY <1>5, GuiAssumption DEF UserEvent, WindowTypes
  <2>2. {initialize', checked', enabled', accept', batchmode', pending', closed'} \subseteq BOOLEAN
    <3>1. CASE ClickJog
      <4>1. UNCHANGED <<initialize, enabled, batchmode, pending, closed>> /\ checked' \in BOOLEAN
        BY <3>1 DEF ClickJog, WindowTypes
      <4>2. accept' \in BOOLEAN
        BY <3>1 DEF ClickJog, OnCheckboxClick, WindowTypes
      <4> QED BY <4>1, <4>2 DEF WindowTypes
    <3>2. CASE ToggleBatchMode
      <4>1. UNCHANGED <<initialize, enabled, accept, closed>> /\ checked' = FALSE
            /\ batchmode' \in BOOLEAN
        BY <3>2 DEF ToggleBatchMode, WindowTypes
      <4>2. pending' \in BOOLEAN
        BY <3>2 DEF ToggleBatchMode, EndJog, WindowTypes
      <4> QED BY <4>1, <4>2 DEF WindowTypes
    <3>3. CASE OnRadioboxSelected \/ OnButton \/ PositionUpdate \/ LoadBatchFileDialog \/ CloseBox
      BY <3>3 DEF OnRadioboxSelected, OnButton, PositionUpdate, LoadBatchFileDialog, CloseBox, window,
                  WindowTypes
    <3> QED BY <1>5, <3>1, <3>2, <3>3 DEF UserEvent
  <2> QED BY <2>1, <2>2 DEF WindowTypes
<1>6. CASE PendingEvent
  <2>1. UNCHANGED <<initialize, checked, enabled, batchmode, closed, cp_, shown, events>>
        /\ pending' = FALSE /\ accept' \in BOOLEAN
    BY <1>6 DEF PendingEvent, OnCheckboxClick, WindowTypes
  <2> QED BY <2>1 DEF WindowTypes
<1>7. CASE Server
  BY <1>7, WindowTypesFrame DEF Server, window, windowTypeVars
<1>8. CASE HandWheel
  BY <1>8, GuiAssumption DEF HandWheel, window, WindowTypes
<1>9. CASE UNCHANGED vars
  BY <1>9, WindowTypesFrame DEF vars, window, windowTypeVars
<1> QED BY <1>1, <1>2, <1>3, <1>4, <1>5, <1>6, <1>7, <1>8, <1>9 DEF Next

-----------------------------------------------------------------------------
(* Position threads live until they are told to end.                       *)

LEMMA ThreadNames ==
  /\ Main \in Threads /\ Batchers \subseteq Threads /\ Updaters \subseteq Threads
  /\ Main \notin Updaters /\ Main \notin Batchers /\ None \notin Updaters
  /\ Updaters \cap Batchers = {}
BY GuiAssumption DEF Threads, Main, None, Nobody

LEMMA TurnTails ==
  /\ \A s \in Turns \ {<<>>} : Head(s) # "test" => Tail(s) \in Turns \ {<<>>}
  /\ Turn \in Turns \ {<<>>} /\ <<>> \in Turns /\ <<"test">> \in Turns \ {<<>>}
<1>1. \A x, y, z, w : /\ Head(<<x, y, z, w>>) = x /\ Tail(<<x, y, z, w>>) = <<y, z, w>>
                      /\ Tail(<<x, y, z>>) = <<y, z>> /\ Tail(<<x, y>>) = <<y>>
                      /\ Head(<<x>>) = x
                      /\ <<y, z, w>> # <<>> /\ <<y, z>> # <<>> /\ <<y>> # <<>>
                      /\ <<x, y, z, w>> # <<>>
  OBVIOUS
<1>2. Turn = <<"pp", "store", "show", "test">>
  <2> DEFINE v == <<"pp", "store", "show", "test">>
  <2>1. /\ v \in Seq(UpdaterSteps) /\ Len(v) = 4
        /\ v[1] = "pp" /\ v[2] = "store" /\ v[3] = "show" /\ v[4] = "test"
    BY DEF UpdaterSteps, Requests
  <2>2. /\ Refresh \in Seq(UpdaterSteps) /\ Len(Refresh) = 3
        /\ Refresh[1] = "pp" /\ Refresh[2] = "store" /\ Refresh[3] = "show"
    BY DEF Refresh, UpdaterSteps, Requests
  <2>3. "test" \in UpdaterSteps
    BY DEF UpdaterSteps
  <2>4. <<"test">> \in Seq(UpdaterSteps) /\ Len(<<"test">>) = 1 /\ <<"test">>[1] = "test"
    BY <2>3, One
  <2> HIDE DEF v
  <2>5. /\ Turn \in Seq(UpdaterSteps) /\ Len(Turn) = 4
        /\ \A i \in 1 .. 3 : Turn[i] = Refresh[i]
        /\ Turn[4] = "test"
    <3> DEFINE e == <<"test">>
    <3>1. e \in Seq(UpdaterSteps) /\ Len(e) = 1 /\ e[1] = "test" /\ Turn = Refresh \o e
      BY <2>4 DEF Turn
    <3> HIDE DEF e
    <3>2. /\ Refresh \o e \in Seq(UpdaterSteps) /\ Len(Refresh \o e) = Len(Refresh) + Len(e)
          /\ \A i \in 1 .. Len(Refresh) + Len(e) :
               (Refresh \o e)[i] = IF i <= Len(Refresh) THEN Refresh[i] ELSE e[i - Len(Refresh)]
      BY <2>2, <3>1, ConcatProperties
    <3> QED BY <2>2, <3>1, <3>2
  <2>6. \A i \in 1 .. Len(v) : v[i] = Turn[i]
    BY <2>1, <2>2, <2>5
  <2>7. v = Turn
    BY <2>1, <2>5, <2>6, SeqEqual
  <2> QED BY <2>7 DEF v
<1>3. ASSUME NEW s \in Turns \ {<<>>}, Head(s) # "test"
      PROVE  Tail(s) \in Turns \ {<<>>}
  <2>1. CASE s = <<"test">>
    BY <1>1, <1>3, <2>1
  <2>2. CASE s = <<"show", "test">>
    BY <1>1, <2>2 DEF Turns
  <2>3. CASE s = <<"store", "show", "test">>
    BY <1>1, <2>3 DEF Turns
  <2>4. CASE s = Turn
    BY <1>1, <1>2, <2>4 DEF Turns
  <2> QED BY <1>3, <2>1, <2>2, <2>3, <2>4 DEF Turns
<1>4. Turn # <<>>
  BY <1>1, <1>2
<1>5. <<"test">> # <<>>
  OBVIOUS
<1> QED BY <1>3, <1>4, <1>5 DEF Turns

\* Main and the threads are where they were.
LEMMA ThreadFrame == ThreadTypes /\ UNCHANGED <<todo, posthread, stop>> => ThreadTypes'
BY DEF ThreadTypes, Live, Step

\* The main thread goes on to what is not a wait, or leaves all threads.
LEMMA MainGoes ==
  ASSUME ThreadTypes, NEW s \in Seq(MainSteps), todo' = [todo EXCEPT ![Main] = s],
         Step(Main) # "wait" \/ posthread' = None, UNCHANGED stop,
         posthread' \in {posthread, None}
  PROVE  ThreadTypes'
<1>1. /\ DOMAIN todo' = Threads /\ todo'[Main] = s
      /\ \A t \in Threads \ {Main} : todo'[t] = todo[t]
  BY ThreadNames DEF ThreadTypes
<1>2. Live' = Live
  BY <1>1, ThreadNames DEF Live
<1>3. None \notin stop
  BY ThreadNames DEF ThreadTypes, Live
<1> QED BY <1>1, <1>2, <1>3, ThreadNames DEF ThreadTypes

\* A thread goes on to its next step, unless it asks whether it should end.
LEMMA ThreadPops ==
  ASSUME ThreadTypes, NEW t \in Threads, Step(t) \notin {"none", "test", "wait"}, Pop(t),
         UNCHANGED <<posthread, stop>>
  PROVE  ThreadTypes'
<1>1. todo[t] # <<>> /\ Step(t) = Head(todo[t])
  BY DEF Step
<1>2. CASE t = Main
  <2>1. Tail(todo[Main]) \in Seq(MainSteps)
    BY <1>1, <1>2, PopType DEF ThreadTypes
  <2> QED BY <1>2, <2>1, MainGoes DEF Pop
<1>3. CASE t # Main
  <2>1. /\ DOMAIN todo' = Threads /\ \A u \in Threads \ {t} : todo'[u] = todo[u]
        /\ todo'[t] = Tail(todo[t])
    BY DEF Pop, ThreadTypes
  <2>2. t \in Updaters => todo'[t] \in Turns \ {<<>>}
    BY <1>1, <2>1, TurnTails DEF ThreadTypes
  <2>3. todo'[Main] = todo[Main] /\ Step(Main)' = Step(Main)
    BY <1>3, <2>1, ThreadNames DEF Step
  <2>4. Live' = Live
    BY <1>1, <2>1, <2>2, ThreadNames DEF Live
  <2> QED BY <2>1, <2>2, <2>3, <2>4, ThreadNames DEF ThreadTypes
<1> QED BY <1>2, <1>3

LEMMA HandlerTypes ==
  /\ <<>> \in Seq(MainSteps) /\ Refresh \in Seq(MainSteps)
  /\ <<"set zero">> \o Refresh \in Seq(MainSteps)
  /\ <<"set jog", "set axis", "start", "disable">> \in Seq(MainSteps)
  /\ <<"delete", "unset jog", "enable">> \in Seq(MainSteps)
  /\ <<"set axis">> \in Seq(MainSteps) /\ <<"savexml">> \in Seq(MainSteps)
  /\ <<"close">> \in Seq(MainSteps)
  /\ <<"initialzero", "savexml", "close">> \in Seq(MainSteps)
  /\ <<"ma", "pp", "show own">> \in Seq(MainSteps)
  /\ <<"ga", "state", "learn">> \in Seq(MainSteps)
  /\ <<"ga", "state", "learn">> \o Refresh \in Seq(MainSteps)
<1>1. /\ <<>> \in Seq(MainSteps) /\ Refresh \in Seq(MainSteps) /\ <<"set zero">> \in Seq(MainSteps)
      /\ <<"ga", "state", "learn">> \in Seq(MainSteps)
  BY DEF MainSteps, Requests, Refresh
<1>2. /\ <<"set zero">> \o Refresh \in Seq(MainSteps)
      /\ <<"ga", "state", "learn">> \o Refresh \in Seq(MainSteps)
  BY <1>1, ConcatProperties
<1>3. /\ <<"set jog", "set axis", "start", "disable">> \in Seq(MainSteps)
      /\ <<"delete", "unset jog", "enable">> \in Seq(MainSteps)
      /\ <<"set axis">> \in Seq(MainSteps) /\ <<"savexml">> \in Seq(MainSteps)
      /\ <<"close">> \in Seq(MainSteps)
      /\ <<"initialzero", "savexml", "close">> \in Seq(MainSteps)
      /\ <<"ma", "pp", "show own">> \in Seq(MainSteps)
  BY DEF MainSteps, Requests
<1> QED BY <1>1, <1>2, <1>3

LEMMA ThreadTypesInit == Init => ThreadTypes
<1> SUFFICES ASSUME Init PROVE ThreadTypes
  OBVIOUS
<1> DEFINE start == <<"ga", "state", "learn">> \o Refresh
<1>1. /\ todo = [t \in Threads |-> IF t = Main THEN start ELSE <<>>]
      /\ posthread = None /\ stop = {}
  BY DEF Init
<1>2. start \in Seq(MainSteps)
  BY HandlerTypes
<1> HIDE DEF start
<1>3. todo[Main] = start /\ \A u \in Updaters : todo[u] = <<>>
  BY <1>1, ThreadNames
<1> QED BY <1>1, <1>2, <1>3, TurnTails, ThreadNames DEF ThreadTypes

LEMMA ThreadTypesEvent == ASSUME ThreadTypes, UserEvent \/ PendingEvent PROVE ThreadTypes'
<1>1. /\ todo[Main] = <<>> /\ Step(Main) # "wait" /\ UNCHANGED <<posthread, stop>>
  BY DEF UserEvent, PendingEvent, Idle, Step, ClickJog, OnRadioboxSelected, OnButton, PositionUpdate,
         ToggleBatchMode, LoadBatchFileDialog, CloseBox, window
<1>2. CASE LoadBatchFileDialog
  <2>1. DOMAIN todo' = Threads /\ \A t \in Threads \ Batchers : todo'[t] = todo[t]
    BY <1>2, ThreadNames DEF LoadBatchFileDialog, ThreadTypes
  <2>2. Live' = Live /\ todo'[Main] = todo[Main] /\ Step(Main)' = Step(Main)
    BY <2>1, ThreadNames DEF Live, Step
  <2> QED BY <1>1, <2>1, <2>2, ThreadNames DEF ThreadTypes
<1>3. CASE ~LoadBatchFileDialog
  <2>1. UNCHANGED todo \/ \E s \in Seq(MainSteps) : todo' = [todo EXCEPT ![Main] = s]
    <3>1. CASE ClickJog \/ PendingEvent
      <4>1. \E box : OnCheckboxClick(box)
        BY <3>1 DEF ClickJog, PendingEvent
      <4> QED BY <4>1, HandlerTypes DEF OnCheckboxClick, Handle
    <3>2. CASE OnRadioboxSelected \/ OnButton \/ PositionUpdate \/ ToggleBatchMode \/ CloseBox
      BY <3>2, HandlerTypes DEF OnRadioboxSelected, OnButton, PositionUpdate, ToggleBatchMode,
                                CloseBox, Handle
    <3> QED BY <1>3, <3>1, <3>2 DEF UserEvent
  <2> QED BY <1>1, <2>1, ThreadFrame, MainGoes
<1> QED BY <1>2, <1>3

LEMMA ThreadTypesMain == ASSUME ThreadTypes, MainStep PROVE ThreadTypes'
<1>0. todo[Main] # <<>> => Tail(todo[Main]) \in Seq(MainSteps)
  BY PopType DEF ThreadTypes
<1>1. CASE Learn \/ Enable
  BY <1>1, ThreadNames, ThreadPops DEF Learn, Enable
<1>2. CASE Wait
  <2>1. Step(Main) = "wait" /\ todo[Main] # <<>>
    BY <1>2 DEF Wait, Step
  <2>2. posthread' = None /\ UNCHANGED stop /\ todo' = [todo EXCEPT ![Main] = Tail(todo[Main])]
    BY <1>2 DEF Wait, Pop, Forget
  <2> QED BY <1>0, <2>1, <2>2, MainGoes
<1>3. CASE Close
  <2>1. /\ todo' = [t \in Threads |-> <<>>] /\ stop' = {} /\ posthread' = None
    BY <1>3 DEF Close
  <2>2. \A t \in Threads : todo'[t] = <<>>
    BY <2>1
  <2> QED BY <2>1, <2>2, ThreadNames, TurnTails, HandlerTypes DEF ThreadTypes
<1>4. CASE Delete
  <2>1. /\ Step(Main) = "delete" /\ posthread # None /\ stop' = stop \cup {posthread}
        /\ todo[Main] # <<>>
    BY <1>4 DEF Delete, Step
  <2>2. posthread \in Live
    BY <2>1 DEF ThreadTypes
  <2>3. CASE Pop(Main) /\ Forget
    <3>1. /\ DOMAIN todo' = Threads /\ \A t \in Threads \ {Main} : todo'[t] = todo[t]
          /\ todo'[Main] = Tail(todo[Main]) /\ posthread' = None
      BY <2>3, ThreadNames DEF Pop, Forget, ThreadTypes
    <3>2. Live' = Live
      BY <3>1, ThreadNames DEF Live
    <3> QED BY <1>0, <2>1, <2>2, <3>1, <3>2, ThreadNames DEF ThreadTypes, Live
  <2>4. CASE todo' = [todo EXCEPT ![Main] = <<"wait">> \o Tail(@)] /\ UNCHANGED posthread
    <3> DEFINE s == <<"wait">> \o Tail(todo[Main])
    <3>1. /\ DOMAIN todo' = Threads /\ \A t \in Threads \ {Main} : todo'[t] = todo[t]
          /\ todo'[Main] = s
      BY <2>4, ThreadNames DEF ThreadTypes
    <3>2. Live' = Live
      BY <3>1, ThreadNames DEF Live
    <3>3. "wait" \in MainSteps
      BY DEF MainSteps
    <3>4. s # <<>> /\ Head(s) = "wait"
      BY <1>0, <2>1, <3>3, Prefixed
    <3>5. s \in Seq(MainSteps)
      BY <1>0, <2>1, <3>3, One, ConcatProperties
    <3> HIDE DEF s
    <3>6. Step(Main)' = "wait"
      BY <3>1, <3>4 DEF Step
    <3> QED BY <2>1, <2>2, <2>4, <3>1, <3>2, <3>5, <3>6, ThreadNames DEF ThreadTypes
  <2> QED BY <1>4, <2>3, <2>4 DEF Delete
<1>5. CASE Start
  <2>1. Step(Main) = "start" /\ todo[Main] # <<>> /\ UNCHANGED stop
    BY <1>5 DEF Start, Step
  <2>2. CASE posthread # None
    <3>1. todo' = [todo EXCEPT ![Main] = <<>>] /\ UNCHANGED posthread
      BY <1>5, <2>2 DEF Start
    <3> QED BY <2>1, <3>1, HandlerTypes, MainGoes
  <2>3. CASE posthread = None
    <3> DEFINE first == <<"test">>
    <3>0. first \in Turns \ {<<>>}
      BY TurnTails
    <3>1. PICK u \in Updaters \ Live :
            /\ posthread' = u
            /\ todo' = [todo EXCEPT ![Main] = Tail(@), ![u] = first]
      BY <1>5, <2>3 DEF Start, Takes, Live
    <3> HIDE DEF first
    <3>2. /\ DOMAIN todo' = Threads /\ \A t \in Threads \ {Main, u} : todo'[t] = todo[t]
          /\ todo'[Main] = Tail(todo[Main]) /\ todo'[u] = first
      BY <3>1, ThreadNames DEF ThreadTypes
    <3>3. Live' = Live \cup {u}
      BY <3>0, <3>1, <3>2, ThreadNames DEF Live
    <3>4. u \notin stop
      BY <3>1 DEF ThreadTypes
    <3> QED BY <1>0, <2>1, <3>0, <3>1, <3>2, <3>3, <3>4, ThreadNames DEF ThreadTypes
  <2> QED BY <2>2, <2>3
<1> QED BY <1>1, <1>2, <1>3, <1>4, <1>5 DEF MainStep

LEMMA ThreadTypesStep == ThreadTypes /\ [Next]_vars => ThreadTypes'
<1> SUFFICES ASSUME ThreadTypes, [Next]_vars PROVE ThreadTypes'
  OBVIOUS
<1>1. ASSUME NEW t \in Threads, ThreadStep(t) PROVE ThreadTypes'
  <2>1. CASE Send(t)
    BY <2>1, ThreadFrame DEF Send, window
  <2>2. CASE Receive(t) \/ Store(t) \/ Show(t)
    <3>1. Step(t) \notin {"none", "test", "wait"} /\ Pop(t) /\ UNCHANGED <<posthread, stop>>
      BY <2>2 DEF Receive, Store, Show, window, Requests
    <3> QED BY <3>1, ThreadPops
  <2> QED BY <1>1, <2>1, <2>2 DEF ThreadStep
<1>2. ASSUME NEW b \in Batchers, Log(b) PROVE ThreadTypes'
  <2>1. Step(b) \notin {"none", "test", "wait"} /\ Pop(b) /\ UNCHANGED <<posthread, stop>>
    BY <1>2 DEF Log, window
  <2> QED BY <2>1, ThreadNames, ThreadPops
<1>3. ASSUME NEW u \in Updaters, TestDestroy(u) PROVE ThreadTypes'
  <2>1. /\ todo[u] # <<>> /\ stop' = stop \ {u} /\ UNCHANGED posthread /\ u # Main
        /\ todo' = [todo EXCEPT ![u] = IF u \in stop THEN <<>> ELSE Turn]
    BY <1>3, ThreadNames DEF TestDestroy, Step
  <2>2. /\ DOMAIN todo' = Threads /\ \A t \in Threads \ {u} : todo'[t] = todo[t]
        /\ todo'[u] = IF u \in stop THEN <<>> ELSE Turn
    BY <2>1, ThreadNames DEF ThreadTypes
  <2>3. todo'[Main] = todo[Main] /\ Step(Main)' = Step(Main)
    BY <2>1, <2>2, ThreadNames DEF Step
  <2>4. \A w \in Updaters : todo'[w] \in Turns
    BY <2>2, ThreadNames, TurnTails DEF ThreadTypes
  <2>5. CASE u \in stop
    <3>1. Live' = Live \ {u}
      BY <2>2, <2>5, ThreadNames DEF Live
    <3> QED BY <2>1, <2>2, <2>3, <2>4, <2>5, <3>1, ThreadNames DEF ThreadTypes
  <2>6. CASE u \notin stop
    <3>1. Live' = Live
      BY <2>1, <2>2, <2>6, ThreadNames, TurnTails DEF Live
    <3> QED BY <2>1, <2>2, <2>3, <2>4, <2>6, <3>1, ThreadNames DEF ThreadTypes
  <2> QED BY <2>5, <2>6
<1>4. CASE MainStep
  BY <1>4, ThreadTypesMain
<1>5. CASE UserEvent \/ PendingEvent
  BY <1>5, ThreadTypesEvent
<1>6. CASE Server \/ HandWheel
  BY <1>6, ThreadFrame DEF Server, HandWheel, window
<1>7. CASE UNCHANGED vars
  BY <1>7, ThreadFrame DEF vars, window
<1> QED BY <1>1, <1>2, <1>3, <1>4, <1>5, <1>6, <1>7 DEF Next

\* Types, and what posthread points to: a position thread that still runs,
\* unless Delete is waiting for its end, for any number of threads, any batch
\* file and any course of events (Start, Delete, TestDestroy).
THEOREM TypeInvariant == Spec => []TypeOK
<1>1. SessionTypes /\ WindowTypes /\ ThreadTypes => TypeOK
  BY DEF SessionTypes, WindowTypes, ThreadTypes, TypeOK
<1> QED BY <1>1, ExchangeInit, ExchangeStep, SessionTypesInit, SessionTypesStep, WindowTypesInit,
           WindowTypesStep, ThreadTypesInit, ThreadTypesStep, PTL DEF Spec

-----------------------------------------------------------------------------
(* NoExchange waits for ever for somebody who waits too.                       *)

\* The thread that has m_tcpmutex is in SendandReceive.
Holder == ~closed /\ tcp # None => Step(tcp) \in Requests

LEMMA HolderKept ==
  ASSUME SessionTypes, Holder, UNCHANGED <<tcp, closed>>,
         \A t \in Threads : Step(t) \in Requests => todo'[t] = todo[t]
  PROVE  Holder'
<1> SUFFICES ASSUME ~closed, tcp # None PROVE Step(tcp)' \in Requests
  BY DEF Holder
<1>1. tcp \in Threads /\ Step(tcp) \in Requests
  BY DEF SessionTypes, Holder
<1>2. todo'[tcp] = todo[tcp]
  BY <1>1
<1> QED BY <1>1, <1>2 DEF Step

LEMMA HolderInit == Init => Holder
BY DEF Init, Holder

LEMMA HolderStep == SessionTypes /\ ThreadTypes /\ Holder /\ [Next]_vars => Holder'
<1> SUFFICES ASSUME SessionTypes, ThreadTypes, Holder, [Next]_vars PROVE Holder'
  OBVIOUS
<1>0. DOMAIN todo = Threads /\ "none" \notin Requests
  BY DEF ThreadTypes, Requests
<1>1. ASSUME NEW t \in Threads, Pop(t), Step(t) \notin Requests, UNCHANGED <<tcp, closed>>
      PROVE  Holder'
  BY <1>0, <1>1, HolderKept DEF Pop
<1>2. ASSUME NEW t \in Threads, ThreadStep(t) PROVE Holder'
  <2>1. CASE Send(t)
    BY <2>1 DEF Send, Holder, Step
  <2>2. CASE Receive(t)
    BY <2>2 DEF Receive, Holder
  <2>3. CASE Store(t) \/ Show(t)
    BY <1>1, <2>3 DEF Store, Show, window, Requests
  <2> QED BY <1>2, <2>1, <2>2, <2>3 DEF ThreadStep
<1>3. ASSUME NEW b \in Batchers, Log(b) PROVE Holder'
  BY <1>1, <1>3, ThreadNames DEF Log, window, Requests
<1>4. ASSUME NEW u \in Updaters, TestDestroy(u) PROVE Holder'
  <2>1. UNCHANGED <<tcp, closed>> /\ Step(u) \notin Requests
    BY <1>4 DEF TestDestroy, Requests
  <2>2. \A t \in Threads \ {u} : todo'[t] = todo[t]
    BY <1>0, <1>4 DEF TestDestroy
  <2> QED BY <2>1, <2>2, HolderKept
<1>5. CASE MainStep
  <2>1. CASE Learn \/ Wait \/ Enable
    BY <1>1, <2>1, ThreadNames DEF Learn, Wait, Enable, Requests
  <2>2. CASE Delete
    <3>1. UNCHANGED <<tcp, closed>> /\ Step(Main) \notin Requests
      BY <2>2 DEF Delete, Requests
    <3>2. \A t \in Threads \ {Main} : todo'[t] = todo[t]
      BY <1>0, <2>2 DEF Delete, Pop
    <3> QED BY <3>1, <3>2, HolderKept
  <2>3. CASE Start
    <3>1. UNCHANGED <<tcp, closed>> /\ Step(Main) \notin Requests
      BY <2>3 DEF Start, Requests
    <3>2. \A t \in Live \cup Batchers : t # Main => todo'[t] = todo[t]
      BY <1>0, <2>3, ThreadNames DEF Start, Takes, Live
    <3>3. \A t \in Threads \ {Main} : Step(t) # "none" => t \in Live \cup Batchers
      BY ThreadNames DEF Threads, Live, Step
    <3> QED BY <1>0, <3>1, <3>2, <3>3, HolderKept
  <2>4. CASE Close
    BY <2>4 DEF Close, Holder
  <2> QED BY <1>5, <2>1, <2>2, <2>3, <2>4 DEF MainStep
<1>6. CASE UserEvent \/ PendingEvent
  <2>1. UNCHANGED <<tcp, closed>> /\ Step(Main) = "none"
    BY <1>6 DEF UserEvent, PendingEvent, Idle, Step, ClickJog, OnRadioboxSelected, OnButton,
                PositionUpdate, ToggleBatchMode, LoadBatchFileDialog, CloseBox, window
  <2>2. \A t \in Threads \ {Main} : Step(t) # "none" => todo'[t] = todo[t]
    <3>1. CASE LoadBatchFileDialog
      BY <1>0, <3>1 DEF LoadBatchFileDialog, Takes, Step
    <3>2. CASE ~LoadBatchFileDialog
      BY <1>0, <1>6, <3>2 DEF UserEvent, PendingEvent, ClickJog, OnRadioboxSelected, OnButton,
                              PositionUpdate, ToggleBatchMode, CloseBox, OnCheckboxClick, Handle
    <3> QED BY <3>1, <3>2
  <2> QED BY <1>0, <2>1, <2>2, HolderKept
<1>7. CASE Server \/ HandWheel \/ UNCHANGED vars
  <2>1. UNCHANGED <<tcp, closed, todo>>
    BY <1>7 DEF Server, HandWheel, vars, window
  <2> QED BY <2>1, HolderKept
<1> QED BY <1>2, <1>3, <1>4, <1>5, <1>6, <1>7 DEF Next

\* What a position thread does next.
LEMMA UpdaterStep ==
  ASSUME ThreadTypes, NEW u \in Live
  PROVE  Step(u) \in {"pp", "store", "show", "test"}
<1>1. \A x, y, z : Head(<<x>>) = x /\ Head(<<x, y>>) = x /\ Head(<<x, y, z>>) = x
  OBVIOUS
<1>2. Turn \in Seq(UpdaterSteps) /\ Turn # <<>>
  BY TurnType
<1>3. Head(Turn) \in UpdaterSteps
  BY <1>2, PopType
<1>4. todo[u] \in Turns \ {<<>>}
  BY DEF ThreadTypes, Live
<1>5. Head(todo[u]) \in UpdaterSteps
  BY <1>1, <1>3, <1>4 DEF Turns, UpdaterSteps
<1> QED BY <1>4, <1>5 DEF Step, UpdaterSteps

LEMMA SomebodyGoesOn ==
  ASSUME ExchangeInv, SessionTypes, ThreadTypes, Holder, ~closed, phase = "header", wire = <<>>,
         NEW w \in Threads, todo[w] # <<>>
  PROVE  \E t \in Threads : todo[t] # <<>> /\ ~Waits(t)
<1>0. \A t \in Threads : Step(t) \in Requests => todo[t] # <<>>
  BY DEF Step, Requests
<1>1. CASE tcp # None
  <2>1. tcp \in Threads /\ Step(tcp) \in Requests
    BY <1>1 DEF SessionTypes, Holder
  <2>2. \A r : wire # <<r>>
    OBVIOUS
  <2>3. Replied(tcp)
    BY <1>1, <2>2 DEF ExchangeInv, Exchange, OnWire, Processed
  <2>4. replies # <<>>
    BY <2>3 DEF Replied
  <2>5. Step(tcp) \notin {"show", "show own", "log", "wait"}
    BY <2>1 DEF Requests
  <2> QED BY <1>0, <2>1, <2>4, <2>5 DEF Waits
<1>2. CASE tcp = None
  <2>1. TcpFree
    BY <1>2 DEF TcpFree
  <2>2. CASE todo[Main] # <<>> /\ ~(Step(Main) = "wait" /\ posthread \in stop)
    BY <2>1, <2>2, ThreadNames DEF Waits
  <2>3. CASE Step(Main) = "wait" /\ posthread \in stop
    <3>1. GuiFree /\ posthread \in Live /\ posthread \in Threads /\ posthread # Main
      BY <2>3, ThreadNames DEF GuiFree, ThreadTypes, Live
    <3>2. todo[posthread] # <<>> /\ ~Waits(posthread)
      BY <2>1, <3>1, UpdaterStep DEF Live, Waits
    <3> QED BY <3>1, <3>2
  <2>4. CASE todo[Main] = <<>>
    <3>1. GuiFree /\ w # Main
      BY <2>4 DEF GuiFree, Step
    <3> QED BY <2>1, <3>1 DEF Waits
  <2> QED BY <2>2, <2>3, <2>4
<1> QED BY <1>1, <1>2

\* No circle of waiting threads, for any number of threads, any batch file and
\* any course of events: who has m_tcpmutex gets an answer and waits for
\* nothing else, and while Delete waits the GUI mutex is free.
THEOREM NoCircularWaitInvariant == Spec => []NoCircularWait
<1>1. ExchangeInv /\ SessionTypes /\ ThreadTypes /\ Holder => NoCircularWait
  BY SomebodyGoesOn DEF NoCircularWait
<1> QED BY <1>1, ExchangeInit, ExchangeStep, SessionTypesInit, SessionTypesStep, ThreadTypesInit,
           ThreadTypesStep, HolderInit, HolderStep, PTL DEF Spec
=============================================================================
