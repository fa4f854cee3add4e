----------------------------- MODULE OneResponse ----------------------------
(***************************************************************************)
(* What a client may expect of the server: a request that was accepted is  *)
(* answered at most once, nothing is answered that was not asked, and an   *)
(* answer stands.                                                          *)
(***************************************************************************)
EXTENDS Sequences

CONSTANTS Requests, Responses

VARIABLES
  asked,    \* requests that were handed to a route
  answers   \* per request: the responses that were made

Init ==
  /\ asked = {}
  /\ answers = [r \in Requests |-> <<>>]

Ask(r) ==
  /\ r \notin asked
  /\ asked' = asked \cup {r}
  /\ UNCHANGED answers

Answer(r) ==
  /\ r \in asked /\ answers[r] = <<>>
  /\ \E a \in Responses : answers' = [answers EXCEPT ![r] = <<a>>]
  /\ UNCHANGED asked

\* A route may answer before it returns.
AskAndAnswer(r) ==
  /\ r \notin asked /\ answers[r] = <<>>
  /\ asked' = asked \cup {r}
  /\ \E a \in Responses : answers' = [answers EXCEPT ![r] = <<a>>]

Next == \E r \in Requests : Ask(r) \/ Answer(r) \/ AskAndAnswer(r)

Spec == Init /\ [][Next]_<<asked, answers>>

=============================================================================
