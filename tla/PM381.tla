------------------------------- MODULE PM381 -------------------------------
(***************************************************************************)
(* The PM381 stepper card at the other end of the serial line.  It is not  *)
(* part of the repository: it is modelled from the commands that           *)
(* src/core/IAPBoard.cpp sends and from what that code expects of them.    *)
(*                                                                         *)
(* A command is a pair: the condition under which the card carries it out  *)
(* (a definition ending in Legal) and its effect.  A command that is not   *)
(* legal is answered with a "!" message and changes nothing.               *)
(***************************************************************************)
EXTENDS Integers

CONSTANT MaxChannel            \* number of motor channels the card has

ASSUME MaxChannelAssumption == MaxChannel \in Nat \ {0}

Channels == 1 .. MaxChannel

VARIABLES
  chan,                        \* channel selected by the last 1CH
  nc,                          \* number of channels set by the last 1NC
  jog,                         \* jog mode on (1AR) or off (1IR)
  counter,                     \* position counter of each channel
  goal,                        \* counter value a channel is driven to
  lower, upper,                \* soft limits of each channel (1ll, 1ul)
  raw                          \* history: channels whose limits or position a
                               \* client has set by a raw command, or that one has
                               \* cut off, since the server last set them

hw == <<chan, nc, jog, counter, goal, lower, upper, raw>>

PM381TypeOK ==
  /\ chan \in Channels /\ nc \in Channels /\ jog \in BOOLEAN
  /\ counter \in [Channels -> Int] /\ goal \in [Channels -> Int]
  /\ lower \in [Channels -> Int] /\ upper \in [Channels -> Int]
  /\ raw \in SUBSET Channels

\* The card may have been in use before the server starts: any selection.
PM381Init ==
  /\ nc \in Channels /\ chan \in 1 .. nc /\ jog \in BOOLEAN
  /\ counter = [c \in Channels |-> 0] /\ goal = counter
  /\ lower = [c \in Channels |-> 0] /\ upper = lower
  /\ raw = {}

-----------------------------------------------------------------------------
(* Commands.  Those that set something take along what raw becomes.        *)

NumberOfChannels(n, r) == /\ nc' = n /\ raw' = r
                          /\ UNCHANGED <<chan, jog, counter, goal, lower, upper>>

ChannelLegal(n) == n \in 1 .. nc
Channel(n) == chan' = n /\ UNCHANGED <<nc, jog, counter, goal, lower, upper, raw>>

JogMode(on) == jog' = on /\ UNCHANGED <<chan, nc, counter, goal, lower, upper, raw>>

LowerLimit(p, r) == /\ lower' = [lower EXCEPT ![chan] = p] /\ raw' = r
                    /\ UNCHANGED <<chan, nc, jog, counter, goal, upper>>

UpperLimit(p, r) == /\ upper' = [upper EXCEPT ![chan] = p] /\ raw' = r
                    /\ UNCHANGED <<chan, nc, jog, counter, goal, lower>>

\* 1sp: the counter is overwritten, the motor stands still.
SetPosition(p, r) == /\ counter' = [counter EXCEPT ![chan] = p]
                     /\ goal' = [goal EXCEPT ![chan] = p]
                     /\ raw' = r
                     /\ UNCHANGED <<chan, nc, jog, lower, upper>>

\* 1MA and 1MR: answered at once, the motor runs afterwards.
MoveLegal(p) == lower[chan] <= p /\ p <= upper[chan]
Move(p) == goal' = [goal EXCEPT ![chan] = p]
           /\ UNCHANGED <<chan, nc, jog, counter, lower, upper, raw>>

-----------------------------------------------------------------------------
(* What the card does by itself.                                           *)

\* A driven channel makes one step towards its goal.
Step(c) ==
  /\ counter[c] # goal[c]
  /\ counter' = [counter EXCEPT ![c] = @ + (IF goal[c] > @ THEN 1 ELSE -1)]
  /\ UNCHANGED <<chan, nc, jog, goal, lower, upper, raw>>

\* In jog mode the operator drives the selected channel by hand.
Jog(d) ==
  /\ jog /\ counter[chan] = goal[chan]
  /\ MoveLegal(counter[chan] + d)
  /\ counter' = [counter EXCEPT ![chan] = @ + d]
  /\ goal' = [goal EXCEPT ![chan] = @ + d]
  /\ UNCHANGED <<chan, nc, jog, lower, upper, raw>>

Motion == (\E c \in Channels : Step(c)) \/ (\E d \in {-1, 1} : Jog(d))
=============================================================================
