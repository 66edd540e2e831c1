----------------------------- MODULE SerialRPC -----------------------------
(* What IAPBoard::send_command takes send_lowlevel for: a command goes out  *)
(* and its own reply comes back, one command at a time, always.             *)

CONSTANTS Commands, None

VARIABLES asked, answer

Init == asked = None /\ answer = None

Call == asked = None /\ asked' \in Commands /\ answer' = None

Return == asked # None /\ answer' = asked /\ asked' = None

Next == Call \/ Return

Spec == Init /\ [][Next]_<<asked, answer>> /\ WF_<<asked, answer>>(Return)
=============================================================================
