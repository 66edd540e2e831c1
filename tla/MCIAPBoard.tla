----------------------------- MODULE MCIAPBoard -----------------------------
(* Instances of the board for TLC: two axes, the second with a negative    *)
(* factor like tilt in parameters.xml, and first in the file.  MCFileSlot  *)
(* is the order of parameters.xml, by ascending id.                        *)
EXTENDS IAPBoard, TLC

TwoAxes == {1, 2}
MCSlot == (1 :> 2) @@ (2 :> 1)
MCFileSlot == [a \in TwoAxes |-> a]
MCNum == (1 :> 1) @@ (2 :> -2)
MCDen == (1 :> 2) @@ (2 :> 1)
MCTravel == (1 :> [prerange |-> 5, range |-> 2, forward |-> 0, backward |-> 0])
            @@ (2 :> [prerange |-> 2, range |-> 0, forward |-> 1, backward |-> 0])
Entry(p, o, l, u) == [Position |-> p, offset |-> o, LowerLimit |-> l, UpperLimit |-> u]
MCConfig == (1 :> Entry(1, 0, -2, 2)) @@ (2 :> Entry(0, 0, -1, 1))
MCConfigOffset == (1 :> Entry(0, 1, -2, 2)) @@ (2 :> Entry(0, 0, -1, 1))
MCUserValues == {-1, 1, 2}
MCUnit == [a \in TwoAxes |-> 1]
MCNarrow == [a \in TwoAxes |-> Entry(0, 0, 0, 1)]
MCTwoValues == {-1, 2}
=============================================================================
