---------------------- MODULE WebSocketSagasRefinement ----------------------
(* WebSocketSagas implements ListService: request ids, the buffer of the     *)
(* socket, answers out of order and the saga scheduler's queue are details a *)
(* component that fetches lists need not know of.                            *)
EXTENDS WebSocketSagas

\* Lists with a request that is buffered, sent or answered.
ListsInFlight == {m \in Model : \E id \in InFlight : requests[id] = List(m)}

ListsShown == {m \in Model : store[m].loaded}

LS == INSTANCE ListService WITH
        connected <- status.connected,
        asked     <- loadedEndpoints,
        expected  <- ListsInFlight,
        shown     <- ListsShown

\* Every behaviour of the sagas is one of the list service: a component may
\* rely on loadedEndpoints, status.connected and loaded alone.
ImplementsListService == LS!Spec
=============================================================================
