----------------------------- MODULE ListService ----------------------------
(* What the websocket sagas promise to the components that fetch lists,      *)
(* whatever requests, buffers and answers they use for it: a list is asked   *)
(* for once per connection, what was asked for is expected until it is shown *)
(* or refused, and nothing is shown over a connection that was lost.         *)

CONSTANTS
  Model,   \* the lists
  MayFail  \* the lists the region may refuse

VARIABLES
  connected, \* what the components are told of the connection
  asked,     \* lists a component need not ask for again
  expected,  \* lists the region has been, or will be, asked for
  shown      \* lists in the store

vars == <<connected, asked, expected, shown>>

Init ==
  /\ connected = FALSE
  /\ asked = {}
  /\ expected = {}
  /\ shown = {}

\* A component fetches a list nobody asked for, connected or not.
Ask(m) ==
  /\ m \notin asked
  /\ asked' = asked \union {m}
  /\ expected' = expected \union {m}
  /\ UNCHANGED <<connected, shown>>

\* A list that is expected arrives; it may have been requested again over the
\* same connection, and is expected still.
Arrive(m) ==
  /\ connected
  /\ m \in expected
  /\ shown' = shown \union {m}
  /\ expected' \in {expected, expected \ {m}}
  /\ UNCHANGED <<connected, asked>>

\* A refused list still counts as asked for.
Refuse(m) ==
  /\ connected
  /\ m \in expected \intersect MayFail
  /\ expected' \in {expected, expected \ {m}}
  /\ UNCHANGED <<connected, asked, shown>>

\* The connection is made, or set up again: everything may be asked for anew.
Renew ==
  /\ connected' = TRUE
  /\ asked' = {}
  /\ UNCHANGED <<expected, shown>>

\* The connection is lost: nothing is shown, and only what had not been sent
\* is expected of the next one.
Lose ==
  /\ connected' = FALSE
  /\ shown' = {}
  /\ expected' \in SUBSET expected
  /\ UNCHANGED asked

\* While there is no connection, what waits for one may be forgotten.
Forget ==
  /\ ~connected
  /\ expected' \in SUBSET expected
  /\ UNCHANGED <<connected, asked, shown>>

Next ==
  \/ \E m \in Model : Ask(m) \/ Arrive(m) \/ Refuse(m)
  \/ Renew
  \/ Lose
  \/ Forget

Spec == Init /\ [][Next]_vars
=============================================================================
