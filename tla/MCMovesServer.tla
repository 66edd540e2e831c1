--------------------------- MODULE MCMovesServer ---------------------------
(* Instances of the server process for TLC: two axes with a short travel.  *)
EXTENDS MovesServer, TLC

TwoAxes == {1, 2}
MCSlot == (1 :> 2) @@ (2 :> 1)
MCUnit == [a \in TwoAxes |-> 1]
MCTravel == (1 :> [prerange |-> 5, range |-> 2, forward |-> 0, backward |-> 0])
            @@ (2 :> [prerange |-> 2, range |-> 0, forward |-> 1, backward |-> 0])
Entry(p, o, l, u) == [Position |-> p, offset |-> o, LowerLimit |-> l, UpperLimit |-> u]
MCConfig == (1 :> Entry(1, 0, 0, 1)) @@ (2 :> Entry(0, 0, 0, 1))
=============================================================================
