---------------------------- MODULE RequestReply ----------------------------
(* What clients take the server for: each has one request at a time, which  *)
(* is carried out at most once, and an answer is that of the request that   *)
(* the client has made.  A client may leave, with a request under way.      *)
EXTENDS Coordinates

CONSTANTS Clients, Lines, NoLine, Replies, NoReply

VARIABLES
  asked,    \* the request that a client waits for
  result,   \* its outcome once it is carried out: reply and coordinates moved to
  told,     \* the last reply that a client has read
  gone

vars == <<asked, result, told, gone>>

\* A line that means a position may move there and nowhere else; one that
\* does not moves nothing.
Outcomes(line) ==
  [reply : Replies, moved : {NoMove} \cup (IF line.cmd = "ma" THEN Meant(line.fields) ELSE {})]

Nothing == [reply |-> NoReply, moved |-> NoMove]

Init == /\ asked = [c \in Clients |-> NoLine] /\ result = [c \in Clients |-> Nothing]
        /\ told = [c \in Clients |-> NoReply] /\ gone = [c \in Clients |-> FALSE]

Call(c) ==
  /\ ~gone[c] /\ asked[c] = NoLine
  /\ \E l \in Lines : asked' = [asked EXCEPT ![c] = l]
  /\ result' = [result EXCEPT ![c] = Nothing]
  /\ UNCHANGED <<told, gone>>

Execute(c) ==
  /\ asked[c] # NoLine /\ result[c] = Nothing
  /\ \E o \in Outcomes(asked[c]) : result' = [result EXCEPT ![c] = o]
  /\ UNCHANGED <<asked, told, gone>>

Return(c) ==
  /\ ~gone[c] /\ asked[c] # NoLine /\ result[c] # Nothing
  /\ asked' = [asked EXCEPT ![c] = NoLine]
  /\ told' = [told EXCEPT ![c] = result[c].reply]
  /\ gone' \in {gone, [gone EXCEPT ![c] = TRUE]}
  /\ UNCHANGED result

Leave(c) ==
  /\ gone' = [gone EXCEPT ![c] = TRUE]
  /\ UNCHANGED <<asked, result, told>>

Next == \E c \in Clients : Call(c) \/ Execute(c) \/ Return(c) \/ Leave(c)

Spec == Init /\ [][Next]_vars
=============================================================================
