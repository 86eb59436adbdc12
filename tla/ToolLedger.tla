------------------------------ MODULE ToolLedger ------------------------------
(***************************************************************************)
(* What a session with client tools is promised about each call of one:    *)
(* the tool runs once at most, for a call the session waits for; a result  *)
(* is taken for such a call only, and only once the tool has run; and the  *)
(* one other way for the session to stop waiting is that it is interrupted *)
(* and drops every call.  Deadlines, broken streams and further turns only *)
(* leave calls where they are.                                             *)
(***************************************************************************)
EXTENDS Naturals

CONSTANTS
  Calls,
  Lacking   \* calls of tools the client does not have, answered with an error

VARIABLES
  asked,   \* the calls so far
  open,    \* those the session waits for
  runs     \* how often the tool of each was invoked

vars == <<asked, open, runs>>

Init == asked = {} /\ open = {} /\ runs = [i \in Calls |-> 0]

Ask(S) ==
  /\ S \subseteq Calls \ asked
  /\ asked' = asked \union S /\ open' = open \union S
  /\ UNCHANGED runs

Run(i) ==
  /\ i \in open \ Lacking /\ runs[i] = 0
  /\ runs' = [runs EXCEPT ![i] = 1]
  /\ UNCHANGED <<asked, open>>

Answer(S) ==
  /\ S \subseteq open /\ \A i \in S \ Lacking : runs[i] = 1
  /\ open' = open \ S
  /\ UNCHANGED <<asked, runs>>

Drop == open' = {} /\ UNCHANGED <<asked, runs>>

Next ==
  \/ \E S \in SUBSET Calls : Ask(S) \/ Answer(S)
  \/ \E i \in Calls : Run(i)
  \/ Drop

Spec == Init /\ [][Next]_vars
=============================================================================
