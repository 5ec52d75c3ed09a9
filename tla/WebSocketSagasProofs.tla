------------------------ MODULE WebSocketSagasProofs ------------------------
(* Proofs about WebSocketSagas, for every set of models, every bound and     *)
(* every choice of follow-up actions: its invariants, and that it implements *)
(* ListService (WebSocketSagasRefinement); and about Polling, the other part *)
(* of websockets.ts: what is registered is polled, and only that.            *)
EXTENDS WebSocketSagasRefinement, Polling, FiniteSetTheorems, SequenceTheorems,
        NaturalsInduction, TLAPS

\* Where requests can be: an id under way was given out by client.send, and
\* only an open socket has anything on the wire and nothing in its buffer.  The
\* components are told of a connection that is listened to, and none other.
WireOK ==
  /\ InFlight \union unheard \subseteq 1 .. Len(requests)
  /\ socket = "open" => setup # "waiting" /\ buffer = {}
  /\ socket # "open" => up = {} /\ down = {}
  /\ status.connected \/ pending # <<>> => socket = "open" /\ setup = "running"
  /\ \A r \in down : requests[r.id].method = "list" /\ ~r.ok =>
                        requests[r.id].model \in MayFail

\* Lists requested since the last reset are in the cache, each once.
CacheOK ==
  /\ resetAt <= Len(requests)
  /\ \A i \in resetAt + 1 .. Len(requests) :
       requests[i].method = "list" => requests[i].model \in loadedEndpoints
  /\ FetchedOnce

\* Nobody waits for an answer that a rejected setup does not take.
IdleOK == setup = "idle" => \A m \in Model : ~store[m].loading /\ ~store[m].saving

\* The inductive invariant.
IInv == TypeOK /\ WireOK /\ IdleOK /\ CacheOK /\ CacheCoherent /\ BusyHasRequest

USE ModelAssumption

-----------------------------------------------------------------------------

\* The reducers of a slice return a slice and keep what they should.
LEMMA Reducers ==
  ASSUME NEW s \in Slice, NEW method \in {"list", "save"}
  PROVE  /\ Started(s, method) \in Slice
         /\ Failed(s, method) \in Slice
         /\ Succeeded(s, method) \in Slice
         /\ Cleaned(s) \in Slice
         /\ Started(s, method).loaded = s.loaded
         /\ Failed(s, method).loaded = s.loaded
         /\ s.loaded => Succeeded(s, method).loaded
         /\ Cleaned(s).loaded = s.loaded
         /\ method = "list" => Succeeded(s, method).loaded
         /\ Started(s, method).loading => s.loading \/ method = "list"
         /\ Started(s, method).saving => s.saving \/ method = "save"
         /\ Failed(s, method).loading => s.loading /\ method # "list"
         /\ Failed(s, method).saving => s.saving /\ method # "save"
         /\ Succeeded(s, method).loading => s.loading /\ method # "list"
         /\ Succeeded(s, method).saving => s.saving /\ method # "save"
         /\ Cleaned(s).loading => s.loading
         /\ Cleaned(s).saving => s.saving
BY Zenon DEF Slice, Started, Failed, Succeeded, Cleaned

\* The initial states satisfy the invariant.
THEOREM InitInv == Init => IInv
<1> SUFFICES ASSUME Init PROVE IInv
  OBVIOUS
<1>1. TypeOK
  BY DEF Init, TypeOK, Status, Slice, genericInitialState, Action
<1>2. WireOK
  BY DEF Init, WireOK, InFlight
<1>5. IdleOK
  BY DEF Init, IdleOK, genericInitialState
<1>3. CacheOK
  BY DEF Init, CacheOK, FetchedOnce
<1>4. CacheCoherent /\ BusyHasRequest
  BY DEF Init, CacheCoherent, BusyHasRequest, genericInitialState
<1> QED BY <1>1, <1>2, <1>3, <1>4, <1>5 DEF IInv

-----------------------------------------------------------------------------

\* sendMessage keeps the invariant, whichever event it runs in.
LEMMA SendMessageInv ==
  ASSUME IInv, NEW a \in Action, sendMessage(a),
         UNCHANGED <<setup, socket, down, status, resetAt, unheard, drops>>,
         setup = "running", dispatches' \in Nat, pending' \in Seq(Action),
         pending' # <<>> => pending # <<>>
  PROVE  IInv'
<1> DEFINE id == Len(requests) + 1
<1> USE DEF IInv
<1>1. CASE isLoaded(a)
  <2>1. UNCHANGED <<buffer, up, requests, loadedEndpoints, nextActions, store>>
    BY <1>1 DEF sendMessage
  <2>2. UNCHANGED InFlight
    BY <2>1 DEF InFlight
  <2>3. TypeOK'
    BY <2>1 DEF TypeOK
  <2>4. WireOK'
    BY <2>1, <2>2 DEF WireOK
  <2>5. CacheOK' /\ CacheCoherent' /\ BusyHasRequest' /\ IdleOK'
    BY <2>1, <2>2 DEF CacheOK, FetchedOnce, CacheCoherent, BusyHasRequest, Asked, IdleOK
  <2> QED BY <2>3, <2>4, <2>5
<1>2. CASE ~isLoaded(a)
  <2>1. /\ loadedEndpoints' = IF a.method = "list"
                              THEN loadedEndpoints \union {a.model}
                              ELSE loadedEndpoints
        /\ store' = [store EXCEPT ![a.model] = Started(@, a.method)]
        /\ requests' = Append(requests, a)
        /\ Transmit(id)
        /\ nextActions' \subseteq nextActions \union {id}
    BY <1>2 DEF sendMessage
  <2>2. /\ a.model \in Model
        /\ a.method \in {"list", "save"}
        /\ a = [model |-> a.model, method |-> a.method]
    BY DEF Action
  <2>3. /\ requests \in Seq(Action)
        /\ Len(requests) \in Nat
        /\ id \in Nat /\ id \in 1 .. id
        /\ 1 .. Len(requests) \subseteq 1 .. id
        /\ Len(requests') = id
        /\ requests'[id] = a
        /\ \A i \in 1 .. Len(requests) : requests'[i] = requests[i]
    BY <2>1 DEF TypeOK
  <2>4. InFlight' = InFlight \union {id}
    BY <2>1 DEF InFlight, Transmit
  <2>5. /\ \A i \in InFlight : requests'[i] = requests[i] /\ i \in InFlight'
        /\ \A i \in Asked : requests'[i] = requests[i] /\ i \in Asked'
    BY <2>3, <2>4 DEF WireOK, Asked
  <2>6. TypeOK'
    <3>1. store' \in [Model -> Slice]
      BY <2>1, <2>2, Reducers DEF TypeOK
    <3>2. buffer' \in SUBSET Nat /\ up' \in SUBSET Nat
      <4>1. buffer \in SUBSET Nat /\ up \in SUBSET Nat /\ id \in Nat
        BY <2>3 DEF TypeOK
      <4>2. \/ up' = up \union {id} /\ buffer' = buffer
            \/ buffer' = buffer \union {id} /\ up' = up
        BY <2>1 DEF Transmit
      <4> HIDE DEF id
      <4> QED BY Zenon, <4>1, <4>2
    <3>3. requests' \in Seq(Action) /\ nextActions' \in SUBSET Nat
      BY <2>1, <2>3 DEF TypeOK
    <3>4. loadedEndpoints' \in SUBSET Model
      BY <2>1, <2>2 DEF TypeOK
    <3> QED BY <3>1, <3>2, <3>3, <3>4 DEF TypeOK
  <2>7. WireOK'
    <3>1. InFlight' \union unheard' \subseteq 1 .. Len(requests')
      <4>1. InFlight \union unheard \subseteq 1 .. Len(requests)
        BY DEF WireOK
      <4> HIDE DEF id
      <4> QED BY Zenon, <2>3, <2>4, <4>1
    <3>2. /\ socket' = "open" => setup' # "waiting" /\ buffer' = {}
          /\ socket' # "open" => up' = {} /\ down' = {}
      BY <2>1 DEF WireOK, Transmit
    <3>3. \A r \in down' : requests'[r.id] = requests[r.id]
      BY <2>5 DEF InFlight
    <3> QED BY <3>1, <3>2, <3>3 DEF WireOK
  <2>8. CacheOK'
    <3>1. resetAt \in Nat /\ resetAt <= Len(requests)
      BY DEF CacheOK, TypeOK
    <3>2. \A i \in resetAt + 1 .. id : i = id \/ i \in resetAt + 1 .. Len(requests)
      BY <2>3, <3>1
    <3>3. \A i \in resetAt + 1 .. id :
            requests'[i].method = "list" => requests'[i].model \in loadedEndpoints'
      BY <2>1, <2>3, <3>1, <3>2 DEF CacheOK
    <3>4. \A i \in resetAt + 1 .. Len(requests) :
            requests[i].method = "list" => requests[i] # a
      BY <1>2 DEF CacheOK, isLoaded
    <3>5. FetchedOnce'
      BY <2>3, <3>1, <3>2, <3>4 DEF CacheOK, FetchedOnce
    <3>6. UNCHANGED resetAt /\ Len(requests') = id /\ resetAt' <= id
      BY <2>3, <3>1
    <3> HIDE DEF id
    <3> QED BY <3>3, <3>5, <3>6 DEF CacheOK
  <2>9. CacheCoherent'
    <3> SUFFICES ASSUME NEW m \in Model \ MayFail, status'.connected,
                        m \in loadedEndpoints'
                 PROVE  store'[m].loaded \/ \E i \in InFlight' : requests'[i] = List(m)
      BY DEF CacheCoherent
    <3>1. CASE m \in loadedEndpoints
      <4>1. store'[m].loaded = store[m].loaded
        BY <2>1, <2>2, Reducers DEF TypeOK
      <4> QED BY <3>1, <4>1, <2>5 DEF CacheCoherent
    <3>2. CASE m \notin loadedEndpoints
      <4>1. a = List(m)
        BY <2>1, <2>2, <3>2 DEF List
      <4> QED BY <4>1, <2>3, <2>4
    <3> QED BY <3>1, <3>2
  <2>10. BusyHasRequest'
    <3> SUFFICES ASSUME NEW m \in Model
                 PROVE  /\ store'[m].loading => \E i \in Asked' : requests'[i] = List(m)
                        /\ store'[m].saving => \E i \in Asked' : requests'[i] = Save(m)
      BY DEF BusyHasRequest
    <3>1. store[m].loading => \E i \in Asked' : requests'[i] = List(m)
      BY <2>5 DEF BusyHasRequest
    <3>2. store[m].saving => \E i \in Asked' : requests'[i] = Save(m)
      BY <2>5 DEF BusyHasRequest
    <3>3. CASE m # a.model
      BY Zenon, <2>1, <3>1, <3>2, <3>3 DEF TypeOK
    <3>4. CASE m = a.model
      <4>1. store'[m] = Started(store[m], a.method) /\ store[m] \in Slice
        BY <2>1, <3>4 DEF TypeOK
      <4>2. a.method = "list" => requests'[id] = List(m) /\ id \in Asked'
        BY <2>2, <2>3, <2>4, <3>4 DEF List, Asked
      <4>3. a.method = "save" => requests'[id] = Save(m) /\ id \in Asked'
        BY <2>2, <2>3, <2>4, <3>4 DEF Save, Asked
      <4> QED BY <2>2, <3>1, <3>2, <4>1, <4>2, <4>3, Reducers
    <3> QED BY <3>3, <3>4
  <2>11. IdleOK'
    BY DEF IdleOK
  <2> QED BY <2>6, <2>7, <2>8, <2>9, <2>10, <2>11
<1> QED BY <1>1, <1>2

-----------------------------------------------------------------------------

\* Every step keeps the invariant.
THEOREM NextInv == IInv /\ [Next]_vars => IInv'
<1> SUFFICES ASSUME IInv, [Next]_vars PROVE IInv'
  OBVIOUS
<1>1. CASE Dispatch
  <2>1. dispatches' \in Nat /\ UNCHANGED pending /\ pending' \in Seq(Action)
    BY <1>1 DEF Dispatch, IInv, TypeOK
  <2> QED BY <1>1, <2>1, SendMessageInv DEF Dispatch
<1>2. CASE TakePending
  <2>1. /\ pending \in Seq(Action) /\ pending # <<>>
        /\ setup = "running"
        /\ dispatches' \in Nat
    BY <1>2 DEF TakePending, IInv, TypeOK, WireOK
  <2>2. Head(pending) \in Action /\ pending' \in Seq(Action)
    BY <1>2, <2>1 DEF TakePending
  <2> QED BY <1>2, <2>1, <2>2, SendMessageInv DEF TakePending
<1>3. CASE cleanup
  <2>1. PICK n \in Model : store' = [store EXCEPT ![n] = Cleaned(@)]
    BY Zenon, <1>3 DEF cleanup
  <2>2. UNCHANGED <<setup, socket, buffer, up, down, requests, loadedEndpoints,
                    nextActions, status, pending, resetAt, unheard, dispatches, drops>>
    BY <1>3 DEF cleanup
  <2>3. UNCHANGED InFlight
    BY <2>2 DEF InFlight
  <2>4. /\ store' \in [Model -> Slice]
        /\ \A m \in Model :
             /\ store'[m].loaded = store[m].loaded
             /\ store'[m].loading => store[m].loading
             /\ store'[m].saving => store[m].saving
    BY <2>1, Reducers DEF IInv, TypeOK
  <2>5. TypeOK'
    BY <2>2, <2>4 DEF IInv, TypeOK
  <2>6. WireOK' /\ CacheOK'
    BY <2>2, <2>3 DEF IInv, WireOK, CacheOK, FetchedOnce
  <2>7. CacheCoherent'
    <3>1. \A m \in Model \ MayFail : store'[m].loaded = store[m].loaded
      BY <2>4
    <3>2. CacheCoherent
      BY DEF IInv
    <3> QED BY Zenon, <2>2, <2>3, <3>1, <3>2 DEF CacheCoherent
  <2>8. BusyHasRequest'
    <3>1. \A m \in Model :
            /\ store'[m].loading => store[m].loading
            /\ store'[m].saving => store[m].saving
      BY <2>4
    <3>2. BusyHasRequest
      BY DEF IInv
    <3> QED BY <2>2, <2>3, <3>1, <3>2 DEF BusyHasRequest, Asked
  <2>9. IdleOK'
    BY <2>2, <2>4 DEF IInv, IdleOK
  <2> QED BY <2>5, <2>6, <2>7, <2>8, <2>9 DEF IInv
<1>4. CASE HandleSuccess
  <2>1. PICK r \in down :
          /\ r.ok
          /\ down' = down \ {r}
          /\ store' = [store EXCEPT ![requests[r.id].model] =
                                      Succeeded(@, requests[r.id].method)]
          /\ IF r.id \in nextActions
             THEN /\ pending' = chained(requests[r.id].model)
                  /\ nextActions' = nextActions \ {r.id}
             ELSE UNCHANGED <<pending, nextActions>>
    BY Zenon, <1>4 DEF HandleSuccess
  <2>2. /\ setup = "running" /\ pending = <<>>
        /\ UNCHANGED <<setup, socket, buffer, up, requests, loadedEndpoints,
                       status, resetAt, unheard, dispatches, drops>>
    BY <1>4 DEF HandleSuccess
  <2> DEFINE a == requests[r.id]
  <2>3. r.id \in InFlight /\ r.id \in 1 .. Len(requests) /\ a \in Action
    <3>1. r.id \in InFlight
      BY DEF InFlight
    <3>2. r.id \in 1 .. Len(requests) /\ requests \in Seq(Action)
      BY Zenon, <3>1 DEF IInv, WireOK, TypeOK
    <3> QED BY <3>1, <3>2
  <2>4. a.model \in Model /\ a.method \in {"list", "save"} /\ a = [model |-> a.model, method |-> a.method]
    BY <2>3 DEF Action
  <2>5. InFlight \ {r.id} \subseteq InFlight' /\ InFlight' \subseteq InFlight
    BY <2>1, <2>2 DEF InFlight
  <2>6. TypeOK'
    <3>1. store' \in [Model -> Slice]
      BY <2>1, <2>4, Reducers DEF IInv, TypeOK
    <3>2. pending' \in Seq(Action)
      <4>1. FollowUps[a.model] \in Seq(Model)
        BY <2>4
      <4>2. \A i \in 1 .. Len(FollowUps[a.model]) : Save(FollowUps[a.model][i]) \in Action
        BY <4>1 DEF Save, Action
      <4>3. chained(a.model) \in Seq(Action)
        BY <4>1, <4>2 DEF chained
      <4> QED BY <2>1, <4>3 DEF IInv, TypeOK
    <3>3. nextActions' \in SUBSET Nat /\ down' \in SUBSET Answer
      BY Zenon, <2>1 DEF IInv, TypeOK
    <3> QED BY <2>2, <3>1, <3>2, <3>3 DEF IInv, TypeOK
  <2>7. WireOK'
    <3>1. socket = "open"
      BY DEF IInv, WireOK
    <3>2. InFlight' \union unheard' \subseteq 1 .. Len(requests')
      BY Zenon, <2>2, <2>5 DEF IInv, WireOK
    <3> QED BY <2>1, <2>2, <3>1, <3>2 DEF IInv, WireOK
  <2>8. CacheOK'
    BY <2>2 DEF IInv, CacheOK, FetchedOnce
  <2>9. CacheCoherent'
    <3> SUFFICES ASSUME NEW m \in Model \ MayFail, status.connected, m \in loadedEndpoints
                 PROVE  store'[m].loaded \/ \E id \in InFlight' : requests[id] = List(m)
      BY <2>2 DEF CacheCoherent
    <3>1. store[m].loaded => store'[m].loaded
      BY <2>1, <2>4, Reducers DEF IInv, TypeOK
    <3>2. a = List(m) => store'[m].loaded
      BY <2>1, <2>4, Reducers DEF IInv, TypeOK, List
    <3> QED BY <2>5, <3>1, <3>2 DEF IInv, CacheCoherent
  <2>10. BusyHasRequest'
    <3> SUFFICES ASSUME NEW m \in Model
                 PROVE  /\ store'[m].loading => \E id \in Asked' : requests[id] = List(m)
                        /\ store'[m].saving => \E id \in Asked' : requests[id] = Save(m)
      BY <2>2 DEF BusyHasRequest
    <3>1. store'[m].loading => store[m].loading /\ a # List(m)
      BY <2>1, <2>4, Reducers DEF IInv, TypeOK, List
    <3>2. store'[m].saving => store[m].saving /\ a # Save(m)
      BY <2>1, <2>4, Reducers DEF IInv, TypeOK, Save
    <3> QED BY <2>2, <2>5, <3>1, <3>2 DEF IInv, BusyHasRequest, Asked
  <2>11. IdleOK'
    BY <2>2 DEF IInv, IdleOK
  <2> QED BY <2>6, <2>7, <2>8, <2>9, <2>10, <2>11 DEF IInv
<1>5. CASE HandleError
  <2>1. PICK r \in down :
          /\ ~r.ok
          /\ down' = down \ {r}
          /\ store' = [store EXCEPT ![requests[r.id].model] =
                                      Failed(@, requests[r.id].method)]
    BY Zenon, <1>5 DEF HandleError
  <2>2. /\ setup = "running"
        /\ UNCHANGED <<setup, socket, buffer, up, requests, loadedEndpoints,
                       nextActions, status, pending, resetAt, unheard, dispatches, drops>>
    BY <1>5 DEF HandleError
  <2> DEFINE a == requests[r.id]
  <2>3. r.id \in InFlight /\ r.id \in 1 .. Len(requests) /\ a \in Action
    <3>1. r.id \in InFlight
      BY DEF InFlight
    <3>2. r.id \in 1 .. Len(requests) /\ requests \in Seq(Action)
      BY Zenon, <3>1 DEF IInv, WireOK, TypeOK
    <3> QED BY <3>1, <3>2
  <2>4. a.model \in Model /\ a.method \in {"list", "save"} /\ a = [model |-> a.model, method |-> a.method]
    BY <2>3 DEF Action
  <2>5. InFlight \ {r.id} \subseteq InFlight' /\ InFlight' \subseteq InFlight
    BY <2>1, <2>2 DEF InFlight
  <2>6. TypeOK'
    <3>1. store' \in [Model -> Slice]
      BY <2>1, <2>4, Reducers DEF IInv, TypeOK
    <3> QED BY <2>1, <2>2, <3>1 DEF IInv, TypeOK
  <2>7. WireOK'
    <3>1. InFlight' \union unheard' \subseteq 1 .. Len(requests')
      BY <2>2, <2>5 DEF IInv, WireOK
    <3> QED BY <2>1, <2>2, <3>1 DEF IInv, WireOK
  <2>8. CacheOK'
    BY <2>2 DEF IInv, CacheOK, FetchedOnce
  <2>9. CacheCoherent'
    <3> SUFFICES ASSUME NEW m \in Model \ MayFail, status.connected, m \in loadedEndpoints
                 PROVE  store'[m].loaded \/ \E id \in InFlight' : requests[id] = List(m)
      BY <2>2 DEF CacheCoherent
    <3>1. store[m].loaded => store'[m].loaded
      BY <2>1, <2>4, Reducers DEF IInv, TypeOK
    <3>2. a # List(m)
      BY <2>1 DEF IInv, WireOK, List
    <3> QED BY <2>5, <3>1, <3>2 DEF IInv, CacheCoherent
  <2>10. BusyHasRequest'
    <3> SUFFICES ASSUME NEW m \in Model
                 PROVE  /\ store'[m].loading => \E id \in Asked' : requests[id] = List(m)
                        /\ store'[m].saving => \E id \in Asked' : requests[id] = Save(m)
      BY <2>2 DEF BusyHasRequest
    <3>1. store'[m].loading => store[m].loading /\ a # List(m)
      BY <2>1, <2>4, Reducers DEF IInv, TypeOK, List
    <3>2. store'[m].saving => store[m].saving /\ a # Save(m)
      BY <2>1, <2>4, Reducers DEF IInv, TypeOK, Save
    <3> QED BY <2>2, <2>5, <3>1, <3>2 DEF IInv, BusyHasRequest, Asked
  <2>11. IdleOK'
    BY <2>2 DEF IInv, IdleOK
  <2> QED BY <2>6, <2>7, <2>8, <2>9, <2>10, <2>11 DEF IInv
<1>6. CASE WebsocketConnect
  <2>1. /\ UNCHANGED <<up, down, requests, nextActions, store, pending, dispatches, drops>>
        /\ pending = <<>>
    BY <1>6 DEF WebsocketConnect
  <2>2. Asked' = Asked /\ buffer' \subseteq buffer /\ unheard' \subseteq unheard \union buffer
    BY <1>6, <2>1 DEF WebsocketConnect, Asked, InFlight
  <2>3. BusyHasRequest'
    BY <2>1, <2>2 DEF IInv, BusyHasRequest
  <2>4. CASE /\ socket = "open" /\ setup' = "running"
             /\ websocketConnected /\ resetLoaded /\ UNCHANGED <<socket, buffer, unheard>>
    <3>1. TypeOK'
      BY <2>1, <2>4 DEF IInv, TypeOK, websocketConnected, resetLoaded, Status
    <3>2. WireOK' /\ IdleOK'
      BY <2>1, <2>4 DEF IInv, WireOK, InFlight, IdleOK
    <3>3. CacheOK' /\ CacheCoherent'
      BY <2>1, <2>4 DEF IInv, TypeOK, CacheOK, FetchedOnce, CacheCoherent, resetLoaded
    <3> QED BY <2>3, <3>1, <3>2, <3>3 DEF IInv
  <2>5. CASE /\ socket # "open" /\ socket' = "connecting" /\ setup' = "waiting"
             /\ websocketConnect /\ UNCHANGED <<loadedEndpoints, resetAt>>
    <3>1. TypeOK'
      BY Zenon, <2>1, <2>2, <2>5 DEF IInv, TypeOK, websocketConnect, Status
    <3>2. ~status'.connected
      BY <2>5 DEF IInv, TypeOK, websocketConnect, Status
    <3>3. InFlight' \union unheard' \subseteq 1 .. Len(requests')
      BY <2>1, <2>2 DEF IInv, WireOK, Asked
    <3>4. WireOK' /\ IdleOK'
      BY <2>1, <2>5, <3>2, <3>3 DEF IInv, WireOK, IdleOK
    <3>5. CacheOK' /\ CacheCoherent'
      BY <2>1, <2>5, <3>2 DEF IInv, CacheOK, FetchedOnce, CacheCoherent
    <3> QED BY <2>3, <3>1, <3>4, <3>5 DEF IInv
  <2> QED BY <1>6, <2>4, <2>5 DEF WebsocketConnect
<1>7. CASE ConnectRejected
  <2>1. /\ UNCHANGED <<socket, buffer, up, down, requests, loadedEndpoints,
                       nextActions, pending, resetAt, dispatches, drops>>
        /\ socket # "open" /\ pending = <<>>
        /\ setup' = "idle"
        /\ status' = [connected |-> FALSE, connecting |-> FALSE, error |-> TRUE]
        /\ store' = [m \in Model |-> genericInitialState]
        /\ unheard' = {}
    BY <1>7 DEF ConnectRejected, NewSocket, ResetStore
  <2>2. UNCHANGED InFlight
    BY <2>1 DEF InFlight
  <2>3. TypeOK'
    BY <2>1 DEF IInv, TypeOK, Status, Slice, genericInitialState
  <2>4. WireOK' /\ CacheOK'
    <3>1. WireOK /\ CacheOK
      BY DEF IInv
    <3>2. WireOK'
      BY <2>1, <2>2, <3>1 DEF WireOK
    <3>3. CacheOK'
      BY <2>1, <3>1 DEF CacheOK, FetchedOnce
    <3> QED BY <3>2, <3>3
  <2>5. CacheCoherent' /\ BusyHasRequest' /\ IdleOK'
    BY <2>1 DEF CacheCoherent, BusyHasRequest, IdleOK, genericInitialState
  <2> QED BY <2>3, <2>4, <2>5 DEF IInv
<1>8. CASE Open
  <2>1. /\ UNCHANGED <<down, requests, nextActions, store, pending, unheard, dispatches,
                       drops>>
        /\ socket = "connecting" /\ socket' = "open" /\ pending = <<>>
        /\ up' = up \union buffer /\ buffer' = {}
    BY <1>8 DEF Open
  <2>2. UNCHANGED InFlight /\ UNCHANGED Asked
    BY <2>1 DEF InFlight, Asked
  <2>3. BusyHasRequest'
    BY <2>1, <2>2 DEF IInv, BusyHasRequest
  <2>4. CASE setup' = "running" /\ websocketConnected /\ resetLoaded
    <3>1. TypeOK'
      BY <2>1, <2>4 DEF IInv, TypeOK, websocketConnected, resetLoaded, Status
    <3>2. WireOK' /\ IdleOK'
      BY <2>1, <2>2, <2>4 DEF IInv, WireOK, IdleOK
    <3>3. CacheOK' /\ CacheCoherent'
      BY <2>1, <2>4 DEF IInv, TypeOK, CacheOK, FetchedOnce, CacheCoherent, resetLoaded
    <3> QED BY <2>3, <3>1, <3>2, <3>3 DEF IInv
  <2>5. CASE setup = "idle" /\ UNCHANGED <<setup, status, loadedEndpoints, resetAt>>
    <3>1. TypeOK' /\ WireOK' /\ IdleOK'
      BY <2>1, <2>2, <2>5 DEF IInv, TypeOK, WireOK, IdleOK
    <3>2. CacheOK' /\ CacheCoherent'
      BY <2>1, <2>2, <2>5 DEF IInv, CacheOK, FetchedOnce, CacheCoherent
    <3> QED BY <2>3, <3>1, <3>2 DEF IInv
  <2> QED BY <1>8, <2>4, <2>5 DEF Open
<1>9. CASE Close
  <2>1. /\ UNCHANGED <<setup, buffer, requests, loadedEndpoints, nextActions, pending,
                       resetAt, dispatches>>
        /\ socket' = "waiting" /\ pending = <<>>
        /\ up' = {} /\ down' = {} /\ drops' = drops + 1
    BY <1>9 DEF Close
  <2>2. InFlight' \subseteq InFlight
    BY <2>1 DEF InFlight
  <2>3. /\ status' \in Status /\ ~status'.connected
        /\ \/ store' = [m \in Model |-> genericInitialState] /\ unheard' = {}
           \/ UNCHANGED <<store, unheard>> /\ (UNCHANGED InFlight \/ setup = "idle")
    <3>1. CASE setup = "running"
      <4>1. websocketDisconnected
        BY <1>9, <3>1 DEF Close
      <4>2. status \in Status
        BY DEF IInv, TypeOK
      <4>3. CASE status' = [status EXCEPT !.connected = FALSE]
        BY Zenon, <4>1, <4>2, <4>3 DEF websocketDisconnected, ResetStore, Status
      <4>4. CASE status' = [connected |-> FALSE, connecting |-> FALSE, error |-> TRUE]
        BY <4>1, <4>4 DEF websocketDisconnected, ResetStore, Status
      <4> QED BY <4>1, <4>3, <4>4 DEF websocketDisconnected
    <3>2. CASE setup # "running"
      <4>1. UNCHANGED <<status, store, unheard>>
        BY <1>9, <3>2 DEF Close
      <4>2. ~status.connected /\ status \in Status
        BY <3>2 DEF IInv, TypeOK, WireOK
      <4>3. setup # "idle" => up = {} /\ down = {}
        BY <3>2 DEF IInv, TypeOK, WireOK
      <4>4. UNCHANGED InFlight \/ setup = "idle"
        BY <2>1, <4>3 DEF InFlight
      <4> QED BY <4>1, <4>2, <4>4
    <3> QED BY <3>1, <3>2
  <2>4. TypeOK'
    <3>1. genericInitialState \in Slice /\ store \in [Model -> Slice]
      BY DEF IInv, TypeOK, Slice, genericInitialState
    <3>2. store' \in [Model -> Slice]
      BY <2>3, <3>1
    <3>3. unheard' \in SUBSET Nat
      BY <2>3 DEF IInv, TypeOK
    <3>4. drops' \in Nat
      BY <2>1 DEF IInv, TypeOK
    <3> QED BY Zenon, <2>1, <2>3, <3>2, <3>3, <3>4 DEF IInv, TypeOK
  <2>5. WireOK'
    BY <2>1, <2>2, <2>3 DEF IInv, WireOK
  <2>8. IdleOK'
    BY <2>1, <2>3 DEF IInv, IdleOK, genericInitialState
  <2>6. CacheOK' /\ CacheCoherent'
    BY <2>1, <2>3 DEF IInv, CacheOK, FetchedOnce, CacheCoherent
  <2>7. BusyHasRequest'
    BY <2>1, <2>3 DEF IInv, BusyHasRequest, Asked, IdleOK, genericInitialState
  <2> QED BY <2>4, <2>5, <2>6, <2>7, <2>8 DEF IInv
<1>10. CASE RegionAnswers
  <2>1. PICK id \in up, ok \in BOOLEAN :
          /\ ok \/ requests[id].method = "save" \/ requests[id].model \in MayFail
          /\ up' = up \ {id}
          /\ down' = down \union {[id |-> id, ok |-> ok]}
    BY <1>10 DEF RegionAnswers
  <2>2. UNCHANGED <<setup, socket, buffer, requests, loadedEndpoints, nextActions,
                    status, store, pending, resetAt, unheard, dispatches, drops>>
    BY <1>10 DEF RegionAnswers
  <2>3. InFlight' = InFlight
    <3>1. [id |-> id, ok |-> ok].id = id
      OBVIOUS
    <3>2. {r.id : r \in down'} = {r.id : r \in down} \union {id}
      BY <2>1, <3>1, Zenon
    <3> QED BY <2>1, <2>2, <3>2 DEF InFlight
  <2>4. TypeOK'
    BY <2>1, <2>2 DEF IInv, TypeOK, Answer
  <2>5. WireOK'
    BY <2>1, <2>2, <2>3 DEF IInv, WireOK
  <2>6. CacheOK' /\ CacheCoherent' /\ BusyHasRequest' /\ IdleOK'
    BY <2>2, <2>3 DEF IInv, CacheOK, FetchedOnce, CacheCoherent, BusyHasRequest, Asked, IdleOK
  <2> QED BY <2>4, <2>5, <2>6 DEF IInv
<1>11. CASE Retry \/ UNCHANGED vars
  <2>1. /\ UNCHANGED <<setup, buffer, up, down, requests, loadedEndpoints, nextActions,
                       status, store, pending, resetAt, unheard, dispatches, drops>>
        /\ \/ UNCHANGED socket
           \/ socket = "waiting" /\ socket' = "connecting"
    BY <1>11 DEF Retry, vars
  <2>2. UNCHANGED InFlight /\ UNCHANGED Asked
    BY <2>1 DEF InFlight, Asked
  <2>3. TypeOK' /\ WireOK'
    BY <2>1, <2>2 DEF IInv, TypeOK, WireOK
  <2>4. IdleOK' /\ CacheOK' /\ CacheCoherent' /\ BusyHasRequest'
    BY <2>1, <2>2 DEF IInv, IdleOK, CacheOK, FetchedOnce, CacheCoherent, BusyHasRequest
  <2> QED BY <2>3, <2>4 DEF IInv
<1>12. CASE AnswerLost
  <2>1. /\ setup = "idle"
        /\ down' \subseteq down
        /\ UNCHANGED <<setup, socket, buffer, up, requests, loadedEndpoints, nextActions,
                       status, store, pending, resetAt, unheard, dispatches, drops>>
    BY <1>12 DEF AnswerLost
  <2>2. InFlight' \subseteq InFlight
    BY <2>1 DEF InFlight
  <2>3. TypeOK'
    BY Zenon, <2>1 DEF IInv, TypeOK
  <2>4. WireOK'
    BY <2>1, <2>2 DEF IInv, WireOK
  <2>5. IdleOK' /\ CacheOK' /\ BusyHasRequest'
    BY <2>1 DEF IInv, IdleOK, CacheOK, FetchedOnce, BusyHasRequest
  <2>6. CacheCoherent'
    BY <2>1 DEF IInv, WireOK, CacheCoherent
  <2> QED BY <2>3, <2>4, <2>5, <2>6 DEF IInv
<1> QED BY <1>1, <1>2, <1>3, <1>4, <1>5, <1>6, <1>7, <1>8, <1>9, <1>10, <1>11, <1>12 DEF Next

-----------------------------------------------------------------------------

\* The invariant holds in every reachable state.
THEOREM Invariance == Spec => []IInv
<1>1. Init => IInv
  BY InitInv
<1>2. IInv /\ [Next]_vars => IInv'
  BY NextInv
<1> QED BY <1>1, <1>2, PTL DEF Spec

\* Every variable keeps its type.
THEOREM TypeCorrect == Spec => []TypeOK
<1>1. IInv => TypeOK
  BY DEF IInv
<1> QED BY <1>1, Invariance, PTL

\* While connected, a list the cache counts as fetched is in the store or has
\* a request under way, so a fetch that sendMessage skips is never lost.
THEOREM CacheIsCoherent == Spec => []CacheCoherent
<1>1. IInv => CacheCoherent
  BY DEF IInv
<1> QED BY <1>1, Invariance, PTL

\* No list is requested twice between two resets of the cache.
THEOREM ListsFetchedOnce == Spec => []FetchedOnce
<1>1. IInv => FetchedOnce
  BY DEF IInv, CacheOK
<1> QED BY <1>1, Invariance, PTL

\* A slice is busy only while a request of its own is under way, or was left in a
\* socket that websocketConnect has replaced.
THEOREM BusySlicesHaveRequests == Spec => []BusyHasRequest
<1>1. IInv => BusyHasRequest
  BY DEF IInv
<1> QED BY <1>1, Invariance, PTL

-----------------------------------------------------------------------------
(* The list service: the initial states map to initial states, and each step *)
(* to a step of the list service or to none.                                 *)

\* The components are told of every open socket that is listened to.
OpenIsConnected == socket = "open" /\ setup = "running" => status.connected

\* An action that is sent asks for a list, or changes nothing a component sees.
LEMMA SendMessageStep ==
  ASSUME IInv, NEW a \in Action, sendMessage(a), UNCHANGED <<down, status>>
  PROVE  [LS!Next]_(LS!vars)
<1> DEFINE id == Len(requests) + 1
<1> USE DEF IInv
<1>1. CASE isLoaded(a) /\ UNCHANGED <<buffer, up, requests, loadedEndpoints,
                                      nextActions, store>>
  <2>1. UNCHANGED InFlight
    BY <1>1 DEF InFlight
  <2> QED BY <1>1, <2>1 DEF LS!vars, ListsInFlight, ListsShown
<1>2. CASE /\ ~isLoaded(a)
           /\ loadedEndpoints' = IF a.method = "list"
                                 THEN loadedEndpoints \union {a.model}
                                 ELSE loadedEndpoints
           /\ store' = [store EXCEPT ![a.model] = Started(@, a.method)]
           /\ requests' = Append(requests, a)
           /\ Transmit(id)
  <2>1. a.model \in Model /\ a.method \in {"list", "save"}
    BY DEF Action
  <2>2. InFlight' = InFlight \union {id}
    BY <1>2 DEF Transmit, InFlight
  <2>3. InFlight \subseteq 1 .. Len(requests) /\ requests \in Seq(Action)
    BY DEF WireOK, TypeOK
  <2>4. \A i \in InFlight : requests'[i] = requests[i]
    BY <1>2, <2>3
  <2>5. requests'[id] = a
    BY <1>2, <2>3
  <2>6. ListsShown' = ListsShown
    <3>1. store \in [Model -> Slice]
      BY DEF TypeOK
    <3>2. \A m \in Model : store'[m].loaded = store[m].loaded
      BY <1>2, <2>1, <3>1, Reducers
    <3> QED BY <3>2 DEF ListsShown
  <2>7. ListsInFlight' = ListsInFlight \union {m \in Model : a = List(m)}
    BY <2>2, <2>4, <2>5 DEF ListsInFlight
  <2>8. CASE a.method = "list"
    <3>1. a = List(a.model)
      BY <2>8 DEF Action, List
    <3>2. \A m \in Model : a = List(m) => m = a.model
      BY DEF List
    <3>3. ListsInFlight' = ListsInFlight \union {a.model}
      BY <2>1, <2>7, <3>1, <3>2
    <3>4. LS!Ask(a.model)
      BY <1>2, <2>6, <2>8, <3>3 DEF LS!Ask, isLoaded
    <3> QED BY <2>1, <3>4 DEF LS!Next
  <2>9. CASE a.method = "save"
    <3>1. \A m \in Model : a # List(m)
      BY <2>9 DEF List
    <3>2. ListsInFlight' = ListsInFlight
      BY <2>7, <3>1
    <3> QED BY <1>2, <2>6, <2>9, <3>2 DEF LS!vars
  <2> QED BY <2>1, <2>8, <2>9
<1> QED BY <1>1, <1>2 DEF sendMessage

\* An answer is taken off the wire: every list but the one it answers stays
\* expected, and the connection it came over is the current one.
LEMMA AnswerTaken ==
  ASSUME IInv, OpenIsConnected, setup = "running", NEW r \in down, down' = down \ {r},
         UNCHANGED <<buffer, up, requests>>,
         NEW a, a = requests[r.id]
  PROVE  /\ a \in Action
         /\ status.connected
         /\ a.method = "list" =>
              /\ a.model \in ListsInFlight
              /\ ListsInFlight' \in {ListsInFlight, ListsInFlight \ {a.model}}
         /\ a.method = "save" => ListsInFlight' = ListsInFlight
<1> USE DEF IInv
<1>1. /\ r.id \in InFlight
      /\ InFlight' \subseteq InFlight
      /\ InFlight \subseteq InFlight' \union {r.id}
  BY DEF InFlight
<1>2. requests \in Seq(Action) /\ InFlight \subseteq 1 .. Len(requests)
  BY DEF TypeOK, WireOK
<1>3. a \in Action
  <2>1. r.id \in 1 .. Len(requests)
    BY Zenon, <1>1, <1>2
  <2> QED BY <1>2, <2>1
<1>4. status.connected
  BY DEF WireOK, OpenIsConnected
<1>5. ListsInFlight' \subseteq ListsInFlight
  BY <1>1 DEF ListsInFlight
<1>6. \A m \in ListsInFlight : a # List(m) => m \in ListsInFlight'
  BY <1>1 DEF ListsInFlight
<1>7. ASSUME a.method = "list"
      PROVE  /\ a.model \in ListsInFlight
             /\ ListsInFlight' \in {ListsInFlight, ListsInFlight \ {a.model}}
  <2>1. a.model \in Model /\ a = List(a.model)
    BY <1>3, <1>7 DEF Action, List
  <2>2. a.model \in ListsInFlight
    BY <1>1, <2>1 DEF ListsInFlight
  <2>3. \A m \in ListsInFlight : m # a.model => m \in ListsInFlight'
    <3>1. \A m \in ListsInFlight : a = List(m) => m = a.model
      BY DEF List
    <3> QED BY <1>6, <3>1
  <2> QED BY Zenon, <1>5, <2>2, <2>3
<1>8. ASSUME a.method = "save"
      PROVE  ListsInFlight' = ListsInFlight
  <2>1. \A m \in Model : a # List(m)
    BY <1>8 DEF List
  <2> QED BY <1>5, <1>6, <2>1 DEF ListsInFlight
<1> QED BY <1>3, <1>4, <1>7, <1>8

-----------------------------------------------------------------------------

\* A socket that is open and listened to was reported to the components.
LEMMA OpenIsConnectedNext == OpenIsConnected /\ [Next]_vars => OpenIsConnected'
<1> SUFFICES ASSUME OpenIsConnected, [Next]_vars PROVE OpenIsConnected'
  OBVIOUS
<1>1. CASE UNCHANGED <<setup, socket, status>>
  BY <1>1 DEF OpenIsConnected
<1>2. CASE WebsocketConnect
  BY <1>2 DEF WebsocketConnect, OpenIsConnected, websocketConnected
<1>3. CASE ConnectRejected \/ Close
  BY <1>3 DEF ConnectRejected, Close, OpenIsConnected
<1>4. CASE Open \/ Retry
  BY <1>4 DEF Open, Retry, OpenIsConnected, websocketConnected
<1> QED BY <1>1, <1>2, <1>3, <1>4 DEF Next, vars, Dispatch, TakePending, cleanup,
           HandleSuccess, HandleError, RegionAnswers, AnswerLost

\* Every step of the sagas is one of the list service, or changes nothing of it.
THEOREM StepRefines ==
  IInv /\ OpenIsConnected /\ [Next]_vars => [LS!Next]_(LS!vars)
<1> SUFFICES ASSUME IInv, OpenIsConnected, [Next]_vars PROVE [LS!Next]_(LS!vars)
  OBVIOUS
<1> USE DEF IInv
<1> DEFINE Same == UNCHANGED <<status, loadedEndpoints, store, requests>>
<1>0. ASSUME Same, UNCHANGED InFlight PROVE UNCHANGED LS!vars
  BY <1>0 DEF LS!vars, ListsInFlight, ListsShown
<1>1. CASE Dispatch
  BY <1>1, SendMessageStep DEF Dispatch
<1>2. CASE TakePending
  <2>1. Head(pending) \in Action
    BY <1>2 DEF TakePending, TypeOK
  <2> QED BY <1>2, <2>1, SendMessageStep DEF TakePending
<1>3. CASE cleanup
  <2>1. PICK m \in Model : store' = [store EXCEPT ![m] = Cleaned(@)]
    BY Zenon, <1>3 DEF cleanup
  <2>2. \A n \in Model : store'[n].loaded = store[n].loaded
    BY <2>1, Reducers DEF TypeOK
  <2>3. UNCHANGED <<ListsShown, InFlight, status, loadedEndpoints, requests>>
    BY <1>3, <2>2 DEF cleanup, ListsShown, InFlight
  <2> QED BY <2>3 DEF LS!vars, ListsInFlight
<1>4. CASE HandleSuccess
  <2>1. PICK r \in down :
          /\ down' = down \ {r}
          /\ store' = [store EXCEPT ![requests[r.id].model] =
                                      Succeeded(@, requests[r.id].method)]
    BY Zenon, <1>4 DEF HandleSuccess
  <2>2. setup = "running" /\ UNCHANGED <<buffer, up, requests, loadedEndpoints, status>>
    BY <1>4 DEF HandleSuccess
  <2> DEFINE a == requests[r.id]
  <2>3. /\ a \in Action /\ status.connected
        /\ a.method = "list" =>
             /\ a.model \in ListsInFlight
             /\ ListsInFlight' \in {ListsInFlight, ListsInFlight \ {a.model}}
        /\ a.method = "save" => ListsInFlight' = ListsInFlight
    BY <2>1, <2>2, AnswerTaken
  <2>4. a.model \in Model /\ a.method \in {"list", "save"}
    BY <2>3 DEF Action
  <2>5. \A m \in Model : store'[m] = IF m = a.model THEN Succeeded(store[m], a.method)
                                                    ELSE store[m]
    BY <2>1 DEF TypeOK
  <2>6. a.method = "list" => ListsShown' = ListsShown \union {a.model}
    BY <2>4, <2>5, Reducers DEF ListsShown, TypeOK
  <2>7. a.method = "save" => ListsShown' = ListsShown
    <3>1. ASSUME a.method = "save", NEW m \in Model
          PROVE  store'[m].loaded = store[m].loaded
      <4>1. store[m] \in Slice
        BY DEF TypeOK
      <4> HIDE DEF a
      <4> QED BY Zenon, <2>5, <3>1, <4>1 DEF Succeeded, Slice
    <3> QED BY <3>1 DEF ListsShown
  <2>8. CASE a.method = "list"
    <3>1. LS!Arrive(a.model)
      BY <2>2, <2>3, <2>6, <2>8 DEF LS!Arrive
    <3> QED BY <2>4, <3>1 DEF LS!Next
  <2>9. CASE a.method = "save"
    BY <2>2, <2>3, <2>7, <2>9 DEF LS!vars
  <2> QED BY <2>4, <2>8, <2>9
<1>5. CASE HandleError
  <2>1. PICK r \in down :
          /\ ~r.ok /\ down' = down \ {r}
          /\ store' = [store EXCEPT ![requests[r.id].model] =
                                      Failed(@, requests[r.id].method)]
    BY Zenon, <1>5 DEF HandleError
  <2>2. setup = "running" /\ UNCHANGED <<buffer, up, requests, loadedEndpoints, status>>
    BY <1>5 DEF HandleError
  <2> DEFINE a == requests[r.id]
  <2>3. /\ a \in Action /\ status.connected
        /\ a.method = "list" =>
             /\ a.model \in ListsInFlight
             /\ ListsInFlight' \in {ListsInFlight, ListsInFlight \ {a.model}}
        /\ a.method = "save" => ListsInFlight' = ListsInFlight
    BY <2>1, <2>2, AnswerTaken
  <2>4. a.model \in Model /\ a.method \in {"list", "save"}
    BY <2>3 DEF Action
  <2>5. \A m \in Model : store'[m].loaded = store[m].loaded
    BY <2>1, <2>4, Reducers DEF TypeOK
  <2>6. ListsShown' = ListsShown
    BY <2>5 DEF ListsShown
  <2>7. CASE a.method = "list"
    <3>1. a.model \in MayFail
      BY <2>1, <2>7 DEF WireOK
    <3>2. LS!Refuse(a.model)
      BY <2>2, <2>3, <2>6, <2>7, <3>1 DEF LS!Refuse
    <3> QED BY <2>4, <3>2 DEF LS!Next
  <2>8. CASE a.method = "save"
    BY <2>2, <2>3, <2>6, <2>8 DEF LS!vars
  <2> QED BY <2>4, <2>7, <2>8
<1>6. CASE WebsocketConnect
  <2>1. UNCHANGED <<store, requests>> /\ InFlight' \subseteq InFlight
    BY <1>6 DEF WebsocketConnect, InFlight
  <2>2. UNCHANGED ListsShown /\ ListsInFlight' \subseteq ListsInFlight
    BY <2>1 DEF ListsShown, ListsInFlight
  <2>3. CASE socket = "open"
    <3>1. UNCHANGED InFlight
      BY <1>6, <2>3 DEF WebsocketConnect, InFlight
    <3>2. UNCHANGED ListsInFlight
      BY <2>1, <3>1 DEF ListsInFlight
    <3>3. LS!Renew
      BY <1>6, <2>2, <2>3, <3>2 DEF WebsocketConnect, websocketConnected, resetLoaded, LS!Renew
    <3> QED BY <3>3 DEF LS!Next
  <2>4. CASE socket # "open"
    <3>1. ~status.connected /\ status \in Status
      BY <2>4 DEF WireOK, TypeOK
    <3>2. status'.connected = status.connected /\ UNCHANGED loadedEndpoints
      BY Zenon, <1>6, <2>4, <3>1 DEF WebsocketConnect, websocketConnect, Status, TypeOK
    <3>3. LS!Forget
      BY <2>2, <3>1, <3>2 DEF LS!Forget
    <3> QED BY <3>3 DEF LS!Next
  <2> QED BY <2>3, <2>4
<1>7. CASE ConnectRejected
  <2>1. UNCHANGED <<loadedEndpoints, requests, InFlight>>
    BY <1>7 DEF ConnectRejected, InFlight
  <2>2. ListsInFlight' = ListsInFlight
    BY <2>1 DEF ListsInFlight
  <2>3. ListsShown' = {} /\ status'.connected = FALSE
    BY <1>7 DEF ConnectRejected, ResetStore, ListsShown, genericInitialState
  <2>4. LS!Lose
    BY <2>1, <2>2, <2>3 DEF LS!Lose
  <2> QED BY <2>4 DEF LS!Next
<1>8. CASE Open
  <2>1. UNCHANGED <<store, requests, InFlight>>
    BY <1>8 DEF Open, InFlight
  <2>2. UNCHANGED <<ListsShown, ListsInFlight>>
    BY <2>1 DEF ListsShown, ListsInFlight
  <2>3. CASE websocketConnected /\ resetLoaded
    <3>1. LS!Renew
      BY <2>2, <2>3 DEF websocketConnected, resetLoaded, LS!Renew
    <3> QED BY <3>1 DEF LS!Next
  <2>4. CASE UNCHANGED <<status, loadedEndpoints>>
    BY <2>2, <2>4 DEF LS!vars
  <2> QED BY <1>8, <2>3, <2>4 DEF Open
<1>9. CASE Close
  <2>1. UNCHANGED <<loadedEndpoints, requests>> /\ InFlight' \subseteq InFlight
    BY <1>9 DEF Close, InFlight
  <2>2. ListsInFlight' \subseteq ListsInFlight
    BY <2>1 DEF ListsInFlight
  <2>3. CASE setup = "running"
    <3>1. websocketDisconnected
      BY <1>9, <2>3 DEF Close
    <3>2. ListsShown' = {}
      BY <3>1 DEF websocketDisconnected, ResetStore, ListsShown, genericInitialState
    <3>3. status'.connected = FALSE
      BY <3>1 DEF websocketDisconnected, TypeOK, Status
    <3>4. LS!Lose
      BY <2>1, <2>2, <3>2, <3>3 DEF LS!Lose
    <3> QED BY <3>4 DEF LS!Next
  <2>4. CASE setup # "running"
    <3>1. ~status.connected
      BY <2>4 DEF WireOK
    <3>2. UNCHANGED <<status, ListsShown>>
      BY <1>9, <2>4 DEF Close, ListsShown
    <3>3. LS!Forget
      BY <2>1, <2>2, <3>1, <3>2 DEF LS!Forget
    <3> QED BY <3>3 DEF LS!Next
  <2> QED BY <2>3, <2>4
<1>10. CASE RegionAnswers
  <2>1. InFlight' = InFlight
    <3>1. PICK i \in up, ok \in BOOLEAN :
            up' = up \ {i} /\ down' = down \union {[id |-> i, ok |-> ok]}
      BY <1>10 DEF RegionAnswers
    <3>2. {r.id : r \in down'} = {r.id : r \in down} \union {i}
      <4>1. [id |-> i, ok |-> ok].id = i
        OBVIOUS
      <4> QED BY <3>1, <4>1, Zenon
    <3> DEFINE ids == {r.id : r \in down}
    <3>3. InFlight = buffer \union up \union ids
      BY DEF InFlight
    <3>4. InFlight' = buffer \union up' \union (ids \union {i})
      BY Zenon, <1>10, <3>2 DEF RegionAnswers, InFlight
    <3> HIDE DEF ids
    <3> QED BY <3>1, <3>3, <3>4
  <2> QED BY <1>10, <2>1, <1>0 DEF RegionAnswers
<1>11. CASE Retry \/ UNCHANGED vars
  BY <1>11, <1>0 DEF Retry, vars, InFlight
<1>12. CASE AnswerLost
  <2>1. /\ setup = "idle"
        /\ UNCHANGED <<status, loadedEndpoints, store, requests>>
        /\ InFlight' \subseteq InFlight
    BY <1>12 DEF AnswerLost, InFlight
  <2>2. ListsInFlight' \subseteq ListsInFlight /\ UNCHANGED ListsShown
    BY <2>1 DEF ListsInFlight, ListsShown
  <2>3. ~status.connected
    BY <2>1 DEF WireOK
  <2>4. LS!Forget
    BY <2>1, <2>2, <2>3 DEF LS!Forget
  <2> QED BY <2>4 DEF LS!Next
<1> QED BY <1>1, <1>2, <1>3, <1>4, <1>5, <1>6, <1>7, <1>8, <1>9, <1>10, <1>11, <1>12 DEF Next

-----------------------------------------------------------------------------

\* The sagas implement the list service.
THEOREM Implements == Spec => ImplementsListService
<1>1. Init => LS!Init
  BY DEF Init, LS!Init, ListsInFlight, ListsShown, InFlight, genericInitialState
<1>2. Init => OpenIsConnected
  BY DEF Init, OpenIsConnected
<1>3. OpenIsConnected /\ [Next]_vars => OpenIsConnected'
  BY OpenIsConnectedNext
<1>4. IInv /\ OpenIsConnected /\ [Next]_vars => [LS!Next]_(LS!vars)
  BY StepRefines
<1> QED BY <1>1, <1>2, <1>3, <1>4, Invariance, PTL DEF Spec, ImplementsListService, LS!Spec

-----------------------------------------------------------------------------
(* Chains: the sum of what their requests owe.                               *)

\* Natural induction, over a set instead of a predicate.
LEMMA SetInduction ==
  ASSUME NEW S, 0 \in S, \A n \in Nat : n \in S => n + 1 \in S
  PROVE  Nat \subseteq S
<1> DEFINE T == Nat \ S
<1>1. SUFFICES ASSUME T # {} PROVE FALSE
  OBVIOUS
<1>2. PICK x \in T : \A y \in T : ~(<<y, x>> \in OpToRel(<, Nat))
  <2>1. T \subseteq Nat
    OBVIOUS
  <2> HIDE DEF T
  <2> QED
    BY Zenon, <1>1, <2>1, NatLessThanWellFounded, WFMin
<1>3. x \in Nat /\ x # 0
  OBVIOUS
<1>4. x - 1 \in Nat /\ x - 1 < x /\ (x - 1) + 1 = x
  BY <1>3
<1>5. x - 1 \in T
  BY <1>4
<1>6. <<x - 1, x>> \in OpToRel(<, Nat)
  BY <1>3, <1>4 DEF OpToRel
<1> QED
  BY Zenon, <1>2, <1>5, <1>6

\* The element a sum takes first.
First(s) == CHOOSE x \in s : TRUE

\* f sums the weights w over the subsets of S.
SumsOver(f, w, S) ==
  /\ IsFiniteSet(S)
  /\ w \in [S -> Nat]
  /\ f = [s \in SUBSET S |-> IF s = {} THEN 0 ELSE w[First(s)] + f[s \ {First(s)}]]

\* The weights v of T are the weights w on S.
Extends(v, T, w, S) == S \subseteq T /\ \A x \in S : w[x] = v[x]

\* A set without one of its elements, and what a sum takes first.
LEMMA Without ==
  ASSUME NEW S, IsFiniteSet(S), NEW s \in SUBSET S, NEW y \in s
  PROVE  /\ IsFiniteSet(s) /\ IsFiniteSet(s \ {y})
         /\ s \ {y} \in SUBSET S
         /\ Cardinality(s) \in Nat /\ Cardinality(s \ {y}) \in Nat
         /\ Cardinality(s \ {y}) + 1 = Cardinality(s)
         /\ First(s) \in s
<1>1. IsFiniteSet(s)
  BY FS_Subset
<1>2. /\ IsFiniteSet(s \ {y})
      /\ Cardinality(s \ {y}) = Cardinality(s) - 1
  BY <1>1, FS_RemoveElement
<1>3. Cardinality(s) \in Nat /\ Cardinality(s \ {y}) \in Nat
  BY <1>1, <1>2, FS_CardinalityType
<1>4. First(s) \in s
  BY DEF First
<1> QED
  BY <1>1, <1>2, <1>3, <1>4

\* The sizes of the subsets of a finite set.
LEMMA Sizes ==
  ASSUME NEW S, IsFiniteSet(S), NEW s \in SUBSET S
  PROVE  /\ Cardinality(s) \in Nat
         /\ Cardinality(s) <= 0 <=> s = {}
         /\ Cardinality(s) <= Cardinality(S)
<1>1. IsFiniteSet(s) /\ Cardinality(s) <= Cardinality(S)
  BY FS_Subset
<1>2. Cardinality(s) \in Nat
  BY <1>1, FS_CardinalityType
<1>3. Cardinality(s) = 0 <=> s = {}
  BY <1>1, FS_EmptySet
<1> QED
  BY <1>1, <1>2, <1>3

\* There is a sum over the subsets of a finite set.
LEMMA SumsDefined ==
  ASSUME NEW S, IsFiniteSet(S), NEW w \in [S -> Nat]
  PROVE  \E f : SumsOver(f, w, S)
<1> DEFINE Body(f, s) == IF s = {} THEN 0 ELSE w[First(s)] + f[s \ {First(s)}]
           To(f, k) == /\ f = [s \in SUBSET S |-> f[s]]
                       /\ \A s \in SUBSET S : Cardinality(s) <= k => f[s] = Body(f, s)
           K == {k \in Nat : \E f : To(f, k)}
<1>1. 0 \in K
  <2> DEFINE f == [s \in SUBSET S |-> 0]
  <2>1. f = [s \in SUBSET S |-> f[s]]
    OBVIOUS
  <2>2. ASSUME NEW s \in SUBSET S, Cardinality(s) <= 0 PROVE f[s] = Body(f, s)
    <3>1. s = {}
      BY <2>2, Sizes
    <3> QED
      BY <3>1
  <2>3. To(f, 0)
    BY Zenon, <2>1, <2>2
  <2> HIDE DEF f, To
  <2> QED
    BY <2>3
<1>2. ASSUME NEW k \in Nat, k \in K PROVE k + 1 \in K
  <2>1. PICK f : To(f, k)
    BY Zenon, <1>2
  <2> DEFINE g == [s \in SUBSET S |-> IF Cardinality(s) = k + 1 THEN Body(f, s) ELSE f[s]]
  <2>2. g = [s \in SUBSET S |-> g[s]]
    OBVIOUS
  <2>3. ASSUME NEW s \in SUBSET S, Cardinality(s) <= k + 1 PROVE g[s] = Body(g, s)
    <3>1. CASE s = {}
      <4>1. Cardinality(s) <= 0 /\ Cardinality(s) \in Nat
        BY <3>1, Sizes
      <4>2. g[s] = f[s]
        BY <4>1
      <4>3. f[s] = Body(f, s)
        <5>1. Cardinality(s) <= k
          BY <4>1
        <5> QED
          BY Zenon, <2>1, <5>1
      <4> QED
        BY <3>1, <4>2, <4>3
    <3>2. CASE s # {}
      <4> DEFINE x == First(s)
                 t == s \ {x}
      <4>1. x \in s
        BY <3>2 DEF First
      <4>2. /\ t \in SUBSET S /\ Cardinality(s) \in Nat /\ Cardinality(t) \in Nat
            /\ Cardinality(t) + 1 = Cardinality(s)
        <5> HIDE DEF g, x, To, Body, K
        <5> QED
          BY Zenon, <4>1, Without
      <4>3. g[t] = f[t]
        BY <2>3, <4>2
      <4>4. CASE Cardinality(s) = k + 1
        BY <3>2, <4>3, <4>4
      <4>5. CASE Cardinality(s) # k + 1
        <5>1. Cardinality(s) <= k
          BY <2>3, <4>2, <4>5
        <5>2. f[s] = Body(f, s)
          BY Zenon, <2>1, <5>1
        <5> QED
          BY <3>2, <4>3, <4>5, <5>2
      <4> QED
        BY Zenon, <4>4, <4>5
    <3> QED
      BY Zenon, <3>1, <3>2
  <2>4. To(g, k + 1)
    BY Zenon, <2>2, <2>3
  <2> HIDE DEF g, To
  <2> QED
    BY <2>4
<1>3. Cardinality(S) \in K
  <2>1. Cardinality(S) \in Nat
    BY FS_CardinalityType
  <2> HIDE DEF K
  <2> QED
    BY <1>1, <1>2, <2>1, SetInduction
<1>4. PICK f : To(f, Cardinality(S))
  BY Zenon, <1>3
<1>5. \A s \in SUBSET S : f[s] = Body(f, s)
  <2> TAKE s \in SUBSET S
  <2>1. Cardinality(s) <= Cardinality(S)
    BY FS_Subset
  <2> QED
    BY Zenon, <1>4, <2>1
<1>6. SumsOver(f, w, S)
  BY Zenon, <1>4, <1>5 DEF SumsOver
<1> QED
  BY <1>6

\* f splits off each element of a set.
Splits(f, w, S) ==
  \A s \in SUBSET S : f[s] \in Nat /\ \A y \in s : f[s] = w[y] + f[s \ {y}]

\* A sum is the same whichever element is taken first.
LEMMA SumsSplit ==
  ASSUME NEW f, NEW w, NEW S, SumsOver(f, w, S)
  PROVE  Splits(f, w, S)
<1> DEFINE Good(s) == f[s] \in Nat /\ \A y \in s : f[s] = w[y] + f[s \ {y}]
           K == {k \in Nat : \A s \in SUBSET S : Cardinality(s) <= k => Good(s)}
<1>0. IsFiniteSet(S) /\ w \in [S -> Nat]
  BY DEF SumsOver
<1>1. \A s \in SUBSET S :
        f[s] = IF s = {} THEN 0 ELSE w[First(s)] + f[s \ {First(s)}]
  BY Zenon DEF SumsOver
<1>2. 0 \in K
  <2> SUFFICES ASSUME NEW s \in SUBSET S, Cardinality(s) <= 0 PROVE Good(s)
    BY Zenon
  <2>1. s = {}
    BY <1>0, Sizes
  <2>2. f[s] = 0 /\ \A y \in s : FALSE
    BY Zenon, <1>1, <2>1
  <2> HIDE DEF K
  <2> QED
    BY <2>2
<1>3. ASSUME NEW k \in Nat, k \in K PROVE k + 1 \in K
  <2> SUFFICES ASSUME NEW s \in SUBSET S, Cardinality(s) <= k + 1 PROVE Good(s)
    OBVIOUS
  <2>0. ASSUME NEW r \in SUBSET S, Cardinality(r) + 1 <= k + 1 PROVE Good(r)
    <3>1. Cardinality(r) <= k
      BY <2>0, <1>0, Sizes
    <3> QED
      BY <1>3, <3>1
  <2> HIDE DEF K
  <2>1. CASE s = {}
    <3>1. f[s] = 0 /\ \A y \in s : FALSE
      BY Zenon, <1>1, <2>1
    <3> QED
      BY <3>1
  <2>2. CASE s # {}
    <3>0. PICK x : x = First(s)
      OBVIOUS
    <3> DEFINE t == s \ {x}
    <3>1. x \in s
      BY <2>2, <3>0 DEF First
    <3>2. ASSUME NEW y \in s PROVE s \ {y} \in SUBSET S /\ Good(s \ {y})
      <4>1. s \ {y} \in SUBSET S /\ Cardinality(s \ {y}) + 1 = Cardinality(s)
        BY Zenon, <1>0, Without
      <4> QED
        BY Zenon, <2>0, <4>1
    <3>3. f[s] = w[x] + f[t]
      BY Zenon, <1>1, <2>2, <3>0
    <3>4. t \in SUBSET S /\ Good(t) /\ w[x] \in Nat
      BY Zenon, <1>0, <3>1, <3>2
    <3>5. f[s] \in Nat
      BY <3>3, <3>4
    <3>6. ASSUME NEW y \in s PROVE f[s] = w[y] + f[s \ {y}]
      <4>1. CASE y = x
        BY <3>3, <4>1
      <4>2. CASE y # x
        <5> DEFINE u == s \ {y}
                   v == t \ {y}
        <5>1. x \in u /\ y \in t /\ v = u \ {x}
          BY <3>1, <4>2
        <5>2. u \in SUBSET S /\ Good(u)
          BY Zenon, <3>2
        <5>3. f[t] = w[y] + f[v] /\ f[u] = w[x] + f[v]
          BY Zenon, <3>4, <5>1, <5>2
        <5>4. w[y] \in Nat /\ v \in SUBSET S
          BY <1>0
        <5>5. Good(v)
          <6>1. Cardinality(t) + 1 = Cardinality(s) /\ Cardinality(t) \in Nat
            BY Zenon, <3>1, <1>0, Without
          <6> HIDE DEF t, Good
          <6>2. t \in SUBSET S
            BY <3>4
          <6>3. Cardinality(v) + 1 = Cardinality(t) /\ Cardinality(v) \in Nat
            BY Zenon, <5>1, <6>2, <1>0, Without
          <6>4. Cardinality(v) + 1 <= k + 1
            BY <6>1, <6>3
          <6> QED
            BY <2>0, <5>4, <6>4
        <5>6. f[v] \in Nat
          BY <5>5
        <5> HIDE DEF u, v, t, Good
        <5>7. f[s] = w[y] + f[u]
          BY <3>3, <3>4, <5>3, <5>4, <5>6
        <5> QED
          BY <5>7 DEF u
      <4> QED
        BY <4>1, <4>2
    <3> QED
      BY Zenon, <3>5, <3>6
  <2> QED
    BY <2>1, <2>2
<1>4. ASSUME NEW s \in SUBSET S PROVE Good(s)
  <2>1. Cardinality(s) \in Nat /\ Cardinality(s) <= Cardinality(s)
    BY <1>0, Sizes
  <2>2. Cardinality(s) \in K
    <3> HIDE DEF K
    <3> QED
      BY <1>2, <1>3, <2>1, SetInduction
  <2> QED
    BY <2>1, <2>2
<1> QED
  BY <1>4 DEF Splits

\* Sums of the same weights are the same.
LEMMA SumsAgree ==
  ASSUME NEW f, NEW w, NEW S, SumsOver(f, w, S),
         NEW g, NEW v, NEW T, SumsOver(g, v, T),
         Extends(v, T, w, S)
  PROVE  f[S] = g[S]
<1> DEFINE K == {k \in Nat : \A s \in SUBSET S : Cardinality(s) <= k => f[s] = g[s]}
<1>1. /\ \A s \in SUBSET S : f[s] = IF s = {} THEN 0 ELSE w[First(s)] + f[s \ {First(s)}]
      /\ \A s \in SUBSET T : g[s] = IF s = {} THEN 0 ELSE v[First(s)] + g[s \ {First(s)}]
  BY Zenon DEF SumsOver
<1>0. IsFiniteSet(S) /\ S \subseteq T
  BY DEF SumsOver, Extends
<1>2. 0 \in K
  <2> SUFFICES ASSUME NEW s \in SUBSET S, Cardinality(s) <= 0 PROVE f[s] = g[s]
    OBVIOUS
  <2>1. s \in SUBSET S /\ s \in SUBSET T
    BY <1>0
  <2>2. s = {}
    BY <2>1, <1>0, Sizes
  <2> QED
    BY Zenon, <1>1, <2>1, <2>2
<1>3. ASSUME NEW k \in Nat, k \in K PROVE k + 1 \in K
  <2> SUFFICES ASSUME NEW s \in SUBSET S, Cardinality(s) <= k + 1
               PROVE  f[s] = g[s]
    OBVIOUS
  <2>3. PICK x : x = First(s)
    OBVIOUS
  <2> DEFINE t == s \ {x}
  <2>0. s \in SUBSET S /\ s \in SUBSET T
    BY <1>0
  <2>1. CASE s = {}
    BY Zenon, <1>1, <2>0, <2>1
  <2>2. CASE s # {}
    <3>1. x \in s
      BY <2>2, <2>3 DEF First
    <3>2. Cardinality(t) + 1 = Cardinality(s) /\ Cardinality(t) \in Nat
      <4> HIDE DEF K
      <4>1. s \in SUBSET S
        OBVIOUS
      <4> QED
        BY Zenon, <1>0, <3>1, <4>1, Without
    <3>3. t \in SUBSET S /\ Cardinality(t) <= k
      BY <3>2
    <3>4. f[t] = g[t] /\ w[x] = v[x]
      BY <1>3, <3>1, <3>3 DEF Extends
    <3> QED
      BY Zenon, <1>1, <2>0, <2>2, <2>3, <3>4
  <2> QED
    BY <2>1, <2>2
<1>4. Cardinality(S) \in Nat /\ Cardinality(S) <= Cardinality(S)
  <2>1. S \in SUBSET S
    OBVIOUS
  <2> QED
    BY <1>0, <2>1, Sizes
<1>5. Cardinality(S) \in K
  <2> HIDE DEF K
  <2> QED
    BY <1>2, <1>3, <1>4, SetInduction
<1> QED
  BY <1>4, <1>5

\* What the requests of a set owe in follow-ups.
Owed(r, L) == MapThenSumSet(LAMBDA id : Len(FollowUps[r[id].model]), L)

\* What each of them owes.
Weights(r, L) == [id \in L |-> Len(FollowUps[r[id].model])]

\* What they owe is a sum.
LEMMA OwedIsSum ==
  ASSUME NEW r \in Seq(Action), NEW L \in SUBSET (1 .. Len(r))
  PROVE  /\ IsFiniteSet(L)
         /\ Weights(r, L) \in [L -> Nat]
         /\ \E f : SumsOver(f, Weights(r, L), L) /\ Owed(r, L) = f[L]
<1>1. IsFiniteSet(L)
  <2>1. IsFiniteSet(1 .. Len(r))
    BY FS_Interval
  <2> QED
    BY Zenon, <2>1, FS_Subset
<1>2. \A id \in L : r[id].model \in Model
  <2>1. \A id \in L : r[id] \in Action
    OBVIOUS
  <2> QED
    BY <2>1 DEF Action
<1>3. Weights(r, L) \in [L -> Nat]
  BY <1>2 DEF Weights
<1> DEFINE G(f) == f = [s \in SUBSET L |->
             IF s = {} THEN 0
             ELSE Len(FollowUps[r[CHOOSE x \in s : TRUE].model])
                    + f[s \ {CHOOSE x \in s : TRUE}]]
<1>4. \A f : SumsOver(f, Weights(r, L), L) <=> G(f)
  <2> TAKE f
  <2>1. ASSUME NEW s \in SUBSET L
        PROVE  (IF s = {} THEN 0
                ELSE Weights(r, L)[First(s)] + f[s \ {First(s)}])
               = (IF s = {} THEN 0
                  ELSE Len(FollowUps[r[CHOOSE x \in s : TRUE].model])
                         + f[s \ {CHOOSE x \in s : TRUE}])
    <3>1. CASE s = {}
      BY <3>1
    <3>2. CASE s # {}
      <4>1. First(s) \in L /\ First(s) = CHOOSE x \in s : TRUE
        BY Zenon, <3>2 DEF First
      <4>2. Weights(r, L)[First(s)] = Len(FollowUps[r[First(s)].model])
        BY <4>1 DEF Weights
      <4> QED
        BY <3>2, <4>1, <4>2
    <3> QED
      BY <3>1, <3>2
  <2> QED
    BY Zenon, <1>1, <1>3, <2>1 DEF SumsOver
<1>5. G(CHOOSE f : G(f))
  <2>1. \E f : SumsOver(f, Weights(r, L), L)
    BY Zenon, <1>1, <1>3, SumsDefined
  <2> HIDE DEF G
  <2> QED
    BY <1>4, <2>1
<1>6. Owed(r, L) = (CHOOSE f : G(f))[L]
  BY DEF Owed, MapThenSumSet, MapThenFoldSet
<1> HIDE DEF G
<1> QED
  BY Zenon, <1>1, <1>3, <1>4, <1>5, <1>6

\* What they owe is a number.
LEMMA OwedIsNat ==
  ASSUME NEW r \in Seq(Action), NEW L \in SUBSET (1 .. Len(r))
  PROVE  Owed(r, L) \in Nat
<1>1. PICK f : SumsOver(f, Weights(r, L), L) /\ Owed(r, L) = f[L]
  BY OwedIsSum
<1>2. f[L] \in Nat
  <2>1. \A s \in SUBSET L : f[s] \in Nat
    BY Zenon, <1>1, SumsSplit DEF Splits
  <2> QED
    BY <2>1
<1> QED
  BY <1>1, <1>2

\* One more request owes its follow-ups.
LEMMA OwedGrows ==
  ASSUME NEW r \in Seq(Action), NEW L \in SUBSET (1 .. Len(r)),
         NEW id \in 1 .. Len(r), id \notin L
  PROVE  /\ Owed(r, L) \in Nat
         /\ Owed(r, L \union {id}) = Owed(r, L) + Len(FollowUps[r[id].model])
<1>0. PICK M : M = L \union {id}
  BY Zenon
<1>1. M \in SUBSET (1 .. Len(r)) /\ M \ {id} = L /\ id \in M /\ L \intersect M = L
  BY <1>0
<1> DEFINE w == Weights(r, L)
           v == Weights(r, M)
<1>2. PICK f : SumsOver(f, w, L) /\ Owed(r, L) = f[L]
  BY OwedIsSum
<1>3. PICK g : SumsOver(g, v, M) /\ Owed(r, M) = g[M]
  BY Zenon, <1>1, OwedIsSum
<1>4. IsFiniteSet(L) /\ w \in [L -> Nat] /\ IsFiniteSet(M) /\ v \in [M -> Nat]
  BY <1>1, OwedIsSum
<1>5. Extends(v, M, w, L)
  BY <1>0 DEF Weights, Extends
<1>10. v[id] = Len(FollowUps[r[id].model]) /\ v[id] \in Nat
  BY <1>1, <1>4 DEF Weights
<1> HIDE DEF w, v
<1>7. f[L] = g[L]
  <2>1. SumsOver(f, w, L) /\ SumsOver(g, v, M)
    BY <1>2, <1>3
  <2> QED
    BY <1>5, <2>1, SumsAgree
<1>8. \A s \in SUBSET M : g[s] \in Nat /\ \A y \in s : g[s] = v[y] + g[s \ {y}]
  <2>1. Splits(g, v, M)
    BY <1>3, SumsSplit
  <2> QED
    BY <2>1 DEF Splits
<1>9. g[L] \in Nat /\ g[M] = v[id] + g[L] /\ g[M] \in Nat
  BY Zenon, <1>1, <1>8
<1>11. Owed(r, M) = Owed(r, L) + Len(FollowUps[r[id].model]) /\ Owed(r, L) \in Nat
  BY <1>2, <1>3, <1>7, <1>9, <1>10
<1> QED
  BY <1>0, <1>11

\* A new request changes nothing of what the others owe.
LEMMA OwedKept ==
  ASSUME NEW r \in Seq(Action), NEW L \in SUBSET (1 .. Len(r)), NEW a \in Action
  PROVE  Owed(Append(r, a), L) = Owed(r, L)
<1> DEFINE q == Append(r, a)
<1>1. /\ q \in Seq(Action) /\ L \in SUBSET (1 .. Len(q))
      /\ \A i \in L : q[i] = r[i]
  OBVIOUS
<1> HIDE DEF q
<1> DEFINE w == Weights(r, L)
           v == Weights(q, L)
<1>2. PICK f : SumsOver(f, w, L) /\ Owed(r, L) = f[L]
  BY OwedIsSum
<1>3. PICK g : SumsOver(g, v, L) /\ Owed(q, L) = g[L]
  BY Zenon, <1>1, OwedIsSum
<1>4. IsFiniteSet(L) /\ w \in [L -> Nat] /\ v \in [L -> Nat]
  BY <1>1, OwedIsSum
<1>5. Extends(v, L, w, L)
  BY <1>1 DEF Weights, Extends
<1> HIDE DEF w, v
<1>7. f[L] = g[L]
  BY <1>2, <1>3, <1>5, SumsAgree
<1> QED
  BY <1>2, <1>3, <1>7 DEF q

-----------------------------------------------------------------------------
(* Chains: the invariant.                                                    *)

\* A request is in one place at a time, and is answered once.
OnePlace ==
  /\ buffer \intersect up = {}
  /\ \A r \in down : r.id \notin buffer /\ r.id \notin up
  /\ \A r, s \in down : r.id = s.id => r = s

SavesIn(r) == {id \in DOMAIN r : r[id].method = "save"}

\* Requests of r that go on with others.
ChainsIn(r) == {id \in SavesIn(r) : FollowUps[r[id].model] # <<>>}

\* Actions are kept for requests that go on only.
Kept == nextActions \subseteq ChainsIn(requests)

ChainInv == OnePlace /\ Kept /\ ChainOnce

\* The chains in the words of the proofs.
ChainsSaid ==
  /\ Launched = ChainsIn(requests) \ nextActions
  /\ ChainOnce <=> /\ Launched \intersect InFlight = {}
                   /\ Cardinality(SavesIn(requests)) + Len(pending)
                        <= dispatches + Owed(requests, Launched)

\* They say the same.
LEMMA Chains == ChainsSaid
BY Zenon DEF ChainsSaid, Launched, ChainsIn, SavesIn, ChainOnce, Owed

\* They say it after a step too.
LEMMA ChainsNext ==
  /\ Launched' = ChainsIn(requests') \ nextActions'
  /\ ChainOnce' <=> /\ Launched' \intersect InFlight' = {}
                    /\ Cardinality(SavesIn(requests')) + Len(pending')
                         <= dispatches' + Owed(requests', Launched')
<1>1. ChainsSaid'
  BY Chains, PTL
<1> QED
  BY <1>1 DEF ChainsSaid

\* The saves among the requests can be counted.
LEMMA Counted ==
  ASSUME NEW r \in Seq(Action)
  PROVE  /\ SavesIn(r) \subseteq 1 .. Len(r) /\ ChainsIn(r) \subseteq 1 .. Len(r)
         /\ IsFiniteSet(SavesIn(r)) /\ Cardinality(SavesIn(r)) \in Nat
<1>1. SavesIn(r) \subseteq 1 .. Len(r)
  BY DEF SavesIn
<1>2. IsFiniteSet(1 .. Len(r))
  BY FS_Interval
<1>3. IsFiniteSet(SavesIn(r))
  BY <1>1, <1>2, FS_Subset
<1>4. Cardinality(SavesIn(r)) \in Nat
  BY <1>3, FS_CardinalityType
<1> QED
  BY <1>1, <1>3, <1>4 DEF ChainsIn

\* A new request is one more save at most.
LEMMA OneMore ==
  ASSUME NEW r \in Seq(Action), NEW a \in Action
  PROVE  /\ Append(r, a) \in Seq(Action) /\ Len(r) + 1 \in 1 .. Len(Append(r, a))
         /\ Cardinality(SavesIn(Append(r, a))) <= Cardinality(SavesIn(r)) + 1
         /\ \A id : id \in ChainsIn(Append(r, a)) <=>
              \/ id \in ChainsIn(r)
              \/ id = Len(r) + 1 /\ a.method = "save" /\ FollowUps[a.model] # <<>>
<1> DEFINE q == Append(r, a)
           n == Len(r) + 1
<1>1. /\ q \in Seq(Action) /\ DOMAIN q = 1 .. n /\ DOMAIN r = 1 .. Len(r) /\ Len(q) = n
      /\ q[n] = a /\ Len(r) \in Nat /\ n \in 1 .. n /\ n \notin 1 .. Len(r)
      /\ \A i \in 1 .. Len(r) : q[i] = r[i]
      /\ \A i \in 1 .. n : i \in 1 .. Len(r) \/ i = n
      /\ 1 .. Len(r) \subseteq 1 .. n
  OBVIOUS
<1> HIDE DEF q, n
<1>2. IF a.method = "save"
      THEN SavesIn(q) = SavesIn(r) \union {n}
      ELSE SavesIn(q) = SavesIn(r)
  BY <1>1 DEF SavesIn
<1>3. Cardinality(SavesIn(q)) <= Cardinality(SavesIn(r)) + 1
  <2>1. IsFiniteSet(SavesIn(r)) /\ Cardinality(SavesIn(r)) \in Nat
    BY Counted
  <2>2. n \notin SavesIn(r)
    BY <1>1 DEF SavesIn
  <2>3. Cardinality(SavesIn(r) \union {n}) = Cardinality(SavesIn(r)) + 1
    BY Zenon, <2>1, <2>2, FS_AddElement
  <2>4. CASE a.method = "save"
    <3>1. SavesIn(q) = SavesIn(r) \union {n}
      BY <1>2, <2>4
    <3> QED
      BY <2>1, <2>3, <3>1
  <2>5. CASE a.method # "save"
    <3>1. SavesIn(q) = SavesIn(r)
      BY <1>2, <2>5
    <3> QED
      BY <2>1, <3>1
  <2> QED
    BY <2>4, <2>5
<1>4. \A id : id \in ChainsIn(q) <=>
        id \in ChainsIn(r) \/ (id = n /\ a.method = "save" /\ FollowUps[a.model] # <<>>)
  BY <1>1 DEF ChainsIn, SavesIn
<1> QED
  BY <1>1, <1>3, <1>4 DEF q, n

\* sendMessage keeps the chains, whichever event it runs in: one save more is
\* one dispatch more or one pending action less.
LEMMA SendMessageChains ==
  ASSUME IInv, ChainInv, NEW a \in Action, sendMessage(a), down' = down,
         dispatches' \in Nat, pending' \in Seq(Action),
         Len(pending') + 1 + dispatches = Len(pending) + dispatches'
  PROVE  ChainInv'
<1> DEFINE id == Len(requests) + 1
           P == Len(pending)
           Q == Len(pending')
<1>1. /\ requests \in Seq(Action) /\ dispatches \in Nat
      /\ pending \in Seq(Action) /\ P \in Nat /\ Q \in Nat
      /\ InFlight \subseteq 1 .. Len(requests) /\ Len(requests) \in Nat
  BY DEF IInv, TypeOK, WireOK
<1>2. /\ OnePlace /\ Kept
      /\ Launched = ChainsIn(requests) \ nextActions
      /\ Launched \intersect InFlight = {}
      /\ Cardinality(SavesIn(requests)) + P <= dispatches + Owed(requests, Launched)
  BY Chains DEF ChainInv, ChainsSaid
<1>3. Cardinality(SavesIn(requests)) \in Nat /\ ChainsIn(requests) \subseteq 1 .. Len(requests)
  BY <1>1, Counted
<1>4. Launched \in SUBSET (1 .. Len(requests))
  BY <1>2, <1>3
<1>5. CASE isLoaded(a)
  <2>1. UNCHANGED <<buffer, up, requests, nextActions>>
    BY <1>5 DEF sendMessage
  <2>2. Launched' = Launched /\ InFlight' = InFlight
    BY <2>1, <1>2, ChainsNext DEF InFlight
  <2>3. OnePlace' /\ Kept'
    BY <1>2, <2>1 DEF OnePlace, Kept
  <2>4. Owed(requests, Launched) \in Nat
    BY <1>1, <1>4, OwedIsNat
  <2>5. Cardinality(SavesIn(requests)) + Q <= dispatches' + Owed(requests, Launched)
    <3> DEFINE c == Cardinality(SavesIn(requests))
               o == Owed(requests, Launched)
               e == dispatches'
    <3>1. /\ c \in Nat /\ P \in Nat /\ Q \in Nat /\ dispatches \in Nat /\ e \in Nat /\ o \in Nat
          /\ c + P <= dispatches + o /\ Q + 1 + dispatches = P + e
      BY <1>1, <1>2, <1>3, <2>4
    <3> HIDE DEF P, Q, c, o, e
    <3>2. c + Q <= e + o
      BY <3>1
    <3> QED
      BY <3>2 DEF c, o, e
  <2>6. ChainOnce'
    BY <1>2, <2>1, <2>2, <2>5, ChainsNext
  <2> QED
    BY <2>3, <2>6 DEF ChainInv
<1>6. CASE ~isLoaded(a)
  <2>1. /\ requests' = Append(requests, a)
        /\ Transmit(id)
        /\ nextActions' = IF a.method = "save" /\ FollowUps[a.model] # <<>>
                          THEN nextActions \union {id}
                          ELSE nextActions
    BY <1>6 DEF sendMessage
  <2>2. /\ Append(requests, a) \in Seq(Action)
        /\ Cardinality(SavesIn(Append(requests, a))) <= Cardinality(SavesIn(requests)) + 1
        /\ \A i : i \in ChainsIn(Append(requests, a)) <=>
             \/ i \in ChainsIn(requests)
             \/ i = id /\ a.method = "save" /\ FollowUps[a.model] # <<>>
    BY <1>1, OneMore
  <2>3. id \notin 1 .. Len(requests)
    BY <1>1
  <2>4. id \notin ChainsIn(requests) /\ id \notin nextActions
    BY <1>2, <1>3, <2>3 DEF Kept
  <2> HIDE DEF id
  <2>5. Launched' = Launched
    BY <1>2, <2>1, <2>2, <2>4, ChainsNext
  <2>6. Kept'
    BY <1>2, <2>1, <2>2 DEF Kept
  <2>7. InFlight' = InFlight \union {id}
    BY <2>1 DEF InFlight, Transmit
  <2>8. Launched' \intersect InFlight' = {}
    BY <1>2, <1>4, <2>3, <2>5, <2>7
  <2>9. OnePlace'
    <3>1. id \notin buffer /\ id \notin up /\ \A r \in down : r.id # id
      BY <1>1, <2>3 DEF InFlight
    <3> QED
      BY <1>2, <2>1, <3>1 DEF OnePlace, Transmit
  <2>10. Owed(requests', Launched') = Owed(requests, Launched) /\ Owed(requests, Launched) \in Nat
    <3>1. Owed(Append(requests, a), Launched) = Owed(requests, Launched)
      BY Zenon, <1>1, <1>4, OwedKept
    <3>2. Owed(requests, Launched) \in Nat
      BY <1>1, <1>4, OwedIsNat
    <3> QED
      BY <2>1, <2>5, <3>1, <3>2
  <2>11. Cardinality(SavesIn(requests')) \in Nat
    BY Zenon, <2>1, <2>2, Counted
  <2>12. Cardinality(SavesIn(requests')) + Q <= dispatches' + Owed(requests, Launched)
    <3> DEFINE c == Cardinality(SavesIn(requests))
               n == Cardinality(SavesIn(requests'))
               o == Owed(requests, Launched)
               e == dispatches'
    <3>1. c \in Nat /\ n \in Nat /\ o \in Nat /\ n <= c + 1
      BY <1>3, <2>1, <2>2, <2>10, <2>11
    <3>2. /\ P \in Nat /\ Q \in Nat /\ dispatches \in Nat /\ e \in Nat
          /\ c + P <= dispatches + o /\ Q + 1 + dispatches = P + e
      BY <1>1, <1>2
    <3> HIDE DEF P, Q, c, n, o, e
    <3>3. n + Q <= e + o
      BY <3>1, <3>2
    <3> QED
      BY <3>3 DEF n, o, e
  <2>13. ChainOnce'
    BY <2>8, <2>10, <2>12, ChainsNext
  <2> QED
    BY <2>6, <2>9, <2>13 DEF ChainInv
<1> QED
  BY <1>5, <1>6

\* A step that moves requests about and drops some keeps the chains.
LEMMA MovesChains ==
  ASSUME ChainInv, OnePlace', InFlight' \subseteq InFlight,
         UNCHANGED <<requests, nextActions, pending, dispatches>>
  PROVE  ChainInv'
<1>1. Launched' = Launched
  BY Chains, ChainsNext DEF ChainsSaid
<1>2. ChainOnce'
  BY <1>1, Chains, ChainsNext DEF ChainInv, ChainsSaid
<1>3. Kept'
  BY DEF ChainInv, Kept
<1> QED
  BY <1>2, <1>3 DEF ChainInv

\* Every action keeps the chains.
LEMMA ChainStep == IInv /\ IInv' /\ ChainInv /\ [Next]_vars => ChainInv'
<1> SUFFICES ASSUME IInv, IInv', ChainInv, [Next]_vars PROVE ChainInv'
  OBVIOUS
<1>0. /\ TypeOK /\ TypeOK' /\ OnePlace /\ Kept /\ ChainOnce
      /\ InFlight \subseteq 1 .. Len(requests)
  BY DEF IInv, ChainInv, WireOK
<1>1. CASE Dispatch
  <2>1. PICK a \in Action : sendMessage(a)
    BY <1>1 DEF Dispatch
  <2>2. down' = down /\ pending' = pending /\ dispatches' = dispatches + 1
    BY <1>1 DEF Dispatch
  <2>3. /\ dispatches' \in Nat /\ pending' \in Seq(Action)
        /\ Len(pending') + 1 + dispatches = Len(pending) + dispatches'
    BY <1>0, <2>2 DEF TypeOK
  <2> QED
    BY <2>1, <2>2, <2>3, SendMessageChains
<1>2. CASE TakePending
  <2>1. /\ sendMessage(Head(pending)) /\ pending # <<>> /\ pending' = Tail(pending)
        /\ down' = down /\ dispatches' = dispatches
    BY <1>2 DEF TakePending
  <2>2. /\ Head(pending) \in Action /\ dispatches' \in Nat /\ pending' \in Seq(Action)
        /\ Len(pending') + 1 + dispatches = Len(pending) + dispatches'
    BY <1>0, <2>1 DEF TypeOK
  <2> QED
    BY <2>1, <2>2, SendMessageChains
<1>3. CASE cleanup \/ ConnectRejected \/ Retry \/ UNCHANGED vars
  <2>1. UNCHANGED <<buffer, up, down, requests, nextActions, pending, dispatches>>
    BY <1>3 DEF cleanup, ConnectRejected, Retry, vars
  <2>2. OnePlace' /\ InFlight' = InFlight
    BY <1>0, <2>1 DEF OnePlace, InFlight
  <2> QED
    BY <2>1, <2>2, MovesChains
<1>4. CASE HandleSuccess
  <2>1. PICK r \in down :
          /\ r.ok /\ down' = down \ {r}
          /\ IF r.id \in nextActions
             THEN /\ pending' = chained(requests[r.id].model)
                  /\ nextActions' = nextActions \ {r.id}
             ELSE UNCHANGED <<pending, nextActions>>
    BY <1>4 DEF HandleSuccess
  <2>2. pending = <<>> /\ UNCHANGED <<buffer, up, requests, dispatches>>
    BY <1>4 DEF HandleSuccess
  <2>3. OnePlace' /\ InFlight' \subseteq InFlight /\ r.id \notin InFlight' /\ r.id \in InFlight
    BY <1>0, <2>1, <2>2 DEF OnePlace, InFlight
  <2>4. CASE r.id \notin nextActions
    BY <2>1, <2>2, <2>3, <2>4, MovesChains
  <2>5. CASE r.id \in nextActions
    <3> DEFINE m == requests[r.id].model
    <3>1. /\ pending' = chained(m) /\ nextActions' = nextActions \ {r.id}
          /\ r.id \in ChainsIn(requests) /\ r.id \in 1 .. Len(requests)
      BY Zenon, <1>0, <2>1, <2>3, <2>5 DEF Kept
    <3>2. /\ requests \in Seq(Action) /\ dispatches \in Nat
          /\ ChainsIn(requests) \subseteq 1 .. Len(requests)
          /\ Cardinality(SavesIn(requests)) \in Nat
      BY <1>0, Counted DEF TypeOK
    <3>3. Launched = ChainsIn(requests) \ nextActions
      BY Chains DEF ChainsSaid
    <3>4. Launched' = Launched \union {r.id} /\ r.id \notin Launched
      BY <2>2, <2>5, <3>1, <3>3, ChainsNext
    <3>5. Launched \in SUBSET (1 .. Len(requests))
      BY <3>2, <3>3
    <3>6. /\ Owed(requests, Launched) \in Nat
          /\ Owed(requests, Launched \union {r.id}) = Owed(requests, Launched) + Len(FollowUps[m])
      BY Zenon, <3>1, <3>2, <3>4, <3>5, OwedGrows
    <3>7. m \in Model
      <4>1. requests[r.id] \in Action
        BY <3>1, <3>2
      <4> QED
        BY <4>1 DEF Action
    <3>8. Len(FollowUps[m]) \in Nat
      BY <3>7
    <3>9. Len(pending') = Len(FollowUps[m])
      BY <3>1, <3>8 DEF chained
    <3>10. Len(pending) = 0
      BY <2>2
    <3>11. Kept'
      BY <1>0, <2>2, <3>1 DEF Kept
    <3>12. Launched' \intersect InFlight' = {}
      BY Zenon, <1>0, <2>3, <3>4, Chains DEF ChainsSaid
    <3>13. Cardinality(SavesIn(requests)) + 0 <= dispatches + Owed(requests, Launched)
      BY <1>0, <3>10, Chains DEF ChainsSaid
    <3>14. Cardinality(SavesIn(requests')) + Len(pending')
             <= dispatches' + Owed(requests', Launched')
      <4> HIDE DEF m
      <4>1. Cardinality(SavesIn(requests)) + Len(FollowUps[m])
              <= dispatches + (Owed(requests, Launched) + Len(FollowUps[m]))
        BY <3>2, <3>6, <3>8, <3>13
      <4>2. requests' = requests /\ dispatches' = dispatches
        BY <2>2
      <4> QED
        BY <3>4, <3>6, <3>9, <4>1, <4>2
    <3>15. ChainOnce'
      BY <3>12, <3>14, ChainsNext
    <3> QED
      BY <2>3, <3>11, <3>15 DEF ChainInv
  <2> QED
    BY <2>4, <2>5
<1>5. CASE HandleError \/ AnswerLost
  <2>1. /\ down' \subseteq down
        /\ UNCHANGED <<buffer, up, requests, nextActions, pending, dispatches>>
    BY <1>5 DEF HandleError, AnswerLost
  <2>2. OnePlace' /\ InFlight' \subseteq InFlight
    BY <1>0, <2>1 DEF OnePlace, InFlight
  <2> QED
    BY <2>1, <2>2, MovesChains
<1>6. CASE Open
  <2>1. /\ up' = up \union buffer /\ buffer' = {} /\ down' = down
        /\ UNCHANGED <<requests, nextActions, pending, dispatches>>
    BY <1>6 DEF Open
  <2>2. OnePlace' /\ InFlight' \subseteq InFlight
    BY <1>0, <2>1 DEF OnePlace, InFlight
  <2> QED
    BY <2>1, <2>2, MovesChains
<1>7. CASE Close
  <2>1. /\ up' = {} /\ down' = {} /\ buffer' = buffer
        /\ UNCHANGED <<requests, nextActions, pending, dispatches>>
    BY <1>7 DEF Close
  <2>2. OnePlace' /\ InFlight' \subseteq InFlight
    BY <1>0, <2>1 DEF OnePlace, InFlight
  <2> QED
    BY <2>1, <2>2, MovesChains
<1>8. CASE RegionAnswers
  <2>1. PICK id \in up, ok \in BOOLEAN :
          up' = up \ {id} /\ down' = down \union {[id |-> id, ok |-> ok]}
    BY <1>8 DEF RegionAnswers
  <2>2. UNCHANGED <<buffer, requests, nextActions, pending, dispatches>>
    BY <1>8 DEF RegionAnswers
  <2>3. \A r \in down' : r \in down \/ (r.id = id /\ r = [id |-> id, ok |-> ok])
    BY <2>1
  <2>4. id \notin buffer /\ \A r \in down : r.id # id
    BY <1>0, <2>1 DEF OnePlace
  <2>5. OnePlace'
    BY <1>0, <2>1, <2>2, <2>3, <2>4 DEF OnePlace
  <2>6. InFlight' \subseteq InFlight
    BY <2>1, <2>2, <2>3 DEF InFlight
  <2> QED
    BY <2>2, <2>5, <2>6, MovesChains
<1>9. CASE WebsocketConnect
  <2>1. /\ buffer' \subseteq buffer
        /\ UNCHANGED <<up, down, requests, nextActions, pending, dispatches>>
    BY <1>9 DEF WebsocketConnect
  <2>2. OnePlace' /\ InFlight' \subseteq InFlight
    BY <1>0, <2>1 DEF OnePlace, InFlight
  <2> QED
    BY <2>1, <2>2, MovesChains
<1> QED
  BY <1>1, <1>2, <1>3, <1>4, <1>5, <1>6, <1>7, <1>8, <1>9 DEF Next

\* At first nothing has been sent and nothing is owed.
LEMMA ChainInit == Init => ChainInv
<1> SUFFICES ASSUME Init PROVE ChainInv
  OBVIOUS
<1>1. OnePlace /\ Kept
  BY DEF Init, OnePlace, Kept
<1>2. InFlight = {} /\ requests = <<>> /\ Len(pending) = 0 /\ dispatches = 0
  BY DEF Init, InFlight
<1>3. requests \in Seq(Action) /\ Launched = ChainsIn(requests) \ nextActions
  BY <1>2, Chains DEF ChainsSaid
<1>4. SavesIn(requests) = {}
  BY <1>2 DEF SavesIn
<1>5. Cardinality(SavesIn(requests)) = 0
  BY <1>4, FS_EmptySet
<1>6. Launched \in SUBSET (1 .. Len(requests))
  BY <1>3, <1>4 DEF ChainsIn
<1>7. Owed(requests, Launched) \in Nat
  BY <1>3, <1>6, OwedIsNat
<1>8. ChainOnce
  BY <1>2, <1>5, <1>7, Chains DEF ChainsSaid
<1> QED
  BY <1>1, <1>8 DEF ChainInv

\* A chain goes on once, and only when the request it waits for has been
\* answered, for any follow-ups, however requests are lost, refused or answered
\* out of order.
THEOREM ChainsGoOnOnce == Spec => []ChainOnce
<1>1. ChainInv => ChainOnce
  BY DEF ChainInv
<1> QED
  BY <1>1, Invariance, ChainInit, ChainStep, PTL DEF Spec

-----------------------------------------------------------------------------
(* Polling: sequences.                                                       *)

Has(q, a) == \E i \in 1 .. Len(q) : q[i] = a

\* Some a comes before some b.
Follows(q, a, b) == \E i, j \in 1 .. Len(q) : i < j /\ q[i] = a /\ q[j] = b

\* Some a comes with nothing of B behind it.
Closes(q, a, B) ==
  \E k \in 1 .. Len(q) : q[k] = a /\ \A j \in 1 .. Len(q) : j > k => q[j] \notin B

\* What a sequence of one element has.
LEMMA OfOne ==
  ASSUME NEW x
  PROVE  /\ \A a : Has(<<x>>, a) <=> x = a
         /\ \A a, b : ~Follows(<<x>>, a, b)
         /\ \A a, B : Closes(<<x>>, a, B) <=> x = a
<1>1. Len(<<x>>) = 1 /\ <<x>>[1] = x /\ 1 .. 1 = {1} /\ ~(1 < 1)
  OBVIOUS
<1>2. \A i, j \in 1 .. 1 : ~(i < j) /\ ~(j > i)
  OBVIOUS
<1> QED
  BY <1>1, <1>2 DEF Has, Follows, Closes

\* What an empty sequence has.
LEMMA OfNone ==
  /\ \A a : ~Has(<<>>, a)
  /\ \A a, b : ~Follows(<<>>, a, b)
  /\ \A a, B : ~Closes(<<>>, a, B)
<1>1. Len(<<>>) = 0 /\ 1 .. 0 = {}
  OBVIOUS
<1> QED
  BY <1>1 DEF Has, Follows, Closes

\* The places of a concatenation.
LEMMA Places ==
  ASSUME NEW S, NEW s \in Seq(S), NEW t \in Seq(S)
  PROVE  /\ s \o t \in Seq(S)
         /\ \A i \in 1 .. Len(s) : i \in 1 .. Len(s \o t) /\ (s \o t)[i] = s[i]
         /\ \A i \in 1 .. Len(t) :
              /\ Len(s) + i \in 1 .. Len(s \o t)
              /\ (s \o t)[Len(s) + i] = t[i]
         /\ \A k \in 1 .. Len(s \o t) :
              \/ k \in 1 .. Len(s)
              \/ \E i \in 1 .. Len(t) : k = Len(s) + i
         /\ Len(s) \in Nat /\ Len(t) \in Nat
<1>1. /\ s \o t \in Seq(S) /\ Len(s \o t) = Len(s) + Len(t)
      /\ Len(s) \in Nat /\ Len(t) \in Nat
      /\ \A i \in 1 .. Len(s) + Len(t) :
           (s \o t)[i] = IF i <= Len(s) THEN s[i] ELSE t[i - Len(s)]
  OBVIOUS
<1>2. \A i \in 1 .. Len(s) : i \in 1 .. Len(s \o t) /\ (s \o t)[i] = s[i]
  BY <1>1
<1>3. \A i \in 1 .. Len(t) : Len(s) + i \in 1 .. Len(s \o t) /\ (s \o t)[Len(s) + i] = t[i]
  <2> TAKE i \in 1 .. Len(t)
  <2>1. /\ Len(s) + i \in 1 .. Len(s) + Len(t) /\ ~(Len(s) + i <= Len(s))
        /\ (Len(s) + i) - Len(s) = i
    BY <1>1
  <2> QED
    BY <1>1, <2>1
<1>4. ASSUME NEW k \in 1 .. Len(s \o t), k \notin 1 .. Len(s)
      PROVE  \E i \in 1 .. Len(t) : k = Len(s) + i
  <2>1. k - Len(s) \in 1 .. Len(t) /\ k = Len(s) + (k - Len(s))
    BY <1>1, <1>4
  <2> QED
    BY <2>1
<1> QED
  BY <1>1, <1>2, <1>3, <1>4

\* What a concatenation has.
LEMMA HasConcat ==
  ASSUME NEW S, NEW s \in Seq(S), NEW t \in Seq(S), NEW a
  PROVE  Has(s \o t, a) <=> Has(s, a) \/ Has(t, a)
<1> DEFINE u == s \o t
<1>1. ASSUME Has(s, a) PROVE Has(u, a)
  BY <1>1, Places DEF Has
<1>2. ASSUME Has(t, a) PROVE Has(u, a)
  <2>1. PICK i \in 1 .. Len(t) : t[i] = a
    BY <1>2 DEF Has
  <2>2. Len(s) + i \in 1 .. Len(u) /\ u[Len(s) + i] = a
    BY <2>1, Places
  <2> QED
    BY <2>2 DEF Has
<1>3. ASSUME Has(u, a) PROVE Has(s, a) \/ Has(t, a)
  <2>1. PICK k \in 1 .. Len(u) : u[k] = a
    BY <1>3 DEF Has
  <2>2. CASE k \in 1 .. Len(s)
    BY <2>1, <2>2, Places DEF Has
  <2>3. CASE k \notin 1 .. Len(s)
    <3>1. PICK i \in 1 .. Len(t) : k = Len(s) + i
      BY <2>3, Places
    <3>2. t[i] = a
      BY <2>1, <3>1, Places
    <3> QED
      BY <3>2 DEF Has
  <2> QED
    BY <2>2, <2>3
<1> QED
  BY <1>1, <1>2, <1>3

\* What comes before what in a concatenation.
LEMMA FollowsConcat ==
  ASSUME NEW S, NEW s \in Seq(S), NEW t \in Seq(S), NEW a, NEW b
  PROVE  Follows(s \o t, a, b) <=>
           Follows(s, a, b) \/ Follows(t, a, b) \/ (Has(s, a) /\ Has(t, b))
<1> DEFINE u == s \o t
<1>0. /\ \A i \in 1 .. Len(s) : i \in 1 .. Len(u) /\ u[i] = s[i]
      /\ \A i \in 1 .. Len(t) : Len(s) + i \in 1 .. Len(u) /\ u[Len(s) + i] = t[i]
      /\ \A k \in 1 .. Len(u) :
           k \in 1 .. Len(s) \/ \E i \in 1 .. Len(t) : k = Len(s) + i
      /\ Len(s) \in Nat /\ Len(t) \in Nat /\ Len(u) \in Nat
  BY Places
<1> HIDE DEF u
<1>1. ASSUME Follows(s, a, b) PROVE Follows(u, a, b)
  BY <1>1, <1>0 DEF Follows
<1>2. ASSUME Follows(t, a, b) PROVE Follows(u, a, b)
  <2>1. PICK i \in 1 .. Len(t), j \in 1 .. Len(t) : i < j /\ t[i] = a /\ t[j] = b
    BY <1>2 DEF Follows
  <2>2. /\ Len(s) + i \in 1 .. Len(u) /\ u[Len(s) + i] = a
        /\ Len(s) + j \in 1 .. Len(u) /\ u[Len(s) + j] = b
    BY <2>1, <1>0
  <2>3. Len(s) + i < Len(s) + j
    BY <2>1, <1>0
  <2> QED
    BY <2>2, <2>3 DEF Follows
<1>3. ASSUME Has(s, a), Has(t, b) PROVE Follows(u, a, b)
  <2>1. PICK i \in 1 .. Len(s), j \in 1 .. Len(t) : s[i] = a /\ t[j] = b
    BY <1>3 DEF Has
  <2>2. /\ i \in 1 .. Len(u) /\ u[i] = a
        /\ Len(s) + j \in 1 .. Len(u) /\ u[Len(s) + j] = b
    BY <2>1, <1>0
  <2>3. i < Len(s) + j
    BY <1>0
  <2> QED
    BY <2>2, <2>3 DEF Follows
<1>4. ASSUME Follows(u, a, b)
      PROVE  Follows(s, a, b) \/ Follows(t, a, b) \/ (Has(s, a) /\ Has(t, b))
  <2>1. PICK k \in 1 .. Len(u), l \in 1 .. Len(u) : k < l /\ u[k] = a /\ u[l] = b
    BY <1>4 DEF Follows
  <2>2. CASE l \in 1 .. Len(s)
    <3>1. k \in 1 .. Len(s)
      BY <2>1, <2>2, <1>0
    <3> QED
      BY <2>1, <2>2, <3>1, <1>0 DEF Follows
  <2>3. CASE l \notin 1 .. Len(s)
    <3>1. PICK j \in 1 .. Len(t) : l = Len(s) + j
      BY <2>3, <1>0
    <3>2. t[j] = b
      BY <2>1, <3>1, <1>0
    <3>3. CASE k \in 1 .. Len(s)
      BY <2>1, <3>2, <3>3, <1>0 DEF Has
    <3>4. CASE k \notin 1 .. Len(s)
      <4>1. PICK i \in 1 .. Len(t) : k = Len(s) + i
        BY <3>4, <1>0
      <4>2. t[i] = a
        BY <2>1, <4>1, <1>0
      <4>3. i < j
        BY <2>1, <3>1, <4>1, <1>0
      <4> QED
        BY <3>2, <4>2, <4>3 DEF Follows
    <3> QED
      BY <3>3, <3>4
  <2> QED
    BY <2>2, <2>3
<1> USE DEF u
<1> QED
  BY <1>1, <1>2, <1>3, <1>4

\* What closes a concatenation.
LEMMA ClosesConcat ==
  ASSUME NEW S, NEW s \in Seq(S), NEW t \in Seq(S), NEW a, NEW B
  PROVE  /\ Closes(t, a, B) => Closes(s \o t, a, B)
         /\ Closes(s, a, B) /\ (\A b \in B : ~Has(t, b)) => Closes(s \o t, a, B)
         /\ Closes(s \o t, a, B) => Closes(t, a, B) \/ (Has(s, a) /\ \A b \in B : ~Has(t, b))
<1> DEFINE u == s \o t
<1>1. ASSUME Closes(t, a, B) PROVE Closes(u, a, B)
  <2>1. PICK i \in 1 .. Len(t) :
          t[i] = a /\ \A j \in 1 .. Len(t) : j > i => t[j] \notin B
    BY <1>1 DEF Closes
  <2>2. Len(s) + i \in 1 .. Len(u) /\ u[Len(s) + i] = a
    BY <2>1, Places
  <2>3. ASSUME NEW l \in 1 .. Len(u), l > Len(s) + i PROVE u[l] \notin B
    <3>1. l \notin 1 .. Len(s)
      BY <2>3, Places
    <3>2. PICK j \in 1 .. Len(t) : l = Len(s) + j
      BY <3>1, Places
    <3>3. j > i
      BY <2>3, <3>2, Places
    <3>4. u[l] = t[j]
      BY <3>2, Places
    <3> QED
      BY <2>1, <3>3, <3>4
  <2> QED
    BY <2>2, <2>3 DEF Closes
<1>2. ASSUME Closes(s, a, B), \A b \in B : ~Has(t, b) PROVE Closes(u, a, B)
  <2>1. PICK i \in 1 .. Len(s) :
          s[i] = a /\ \A j \in 1 .. Len(s) : j > i => s[j] \notin B
    BY <1>2 DEF Closes
  <2>2. i \in 1 .. Len(u) /\ u[i] = a
    BY <2>1, Places
  <2>3. ASSUME NEW l \in 1 .. Len(u), l > i PROVE u[l] \notin B
    <3>1. CASE l \in 1 .. Len(s)
      BY <2>1, <2>3, <3>1, Places
    <3>2. CASE l \notin 1 .. Len(s)
      <4>1. PICK j \in 1 .. Len(t) : l = Len(s) + j
        BY <3>2, Places
      <4>2. u[l] = t[j]
        BY <4>1, Places
      <4> QED
        BY <1>2, <4>2 DEF Has
    <3> QED
      BY <3>1, <3>2
  <2> QED
    BY <2>2, <2>3 DEF Closes
<1>3. ASSUME Closes(u, a, B)
      PROVE  Closes(t, a, B) \/ (Has(s, a) /\ \A b \in B : ~Has(t, b))
  <2>1. PICK k \in 1 .. Len(u) :
          u[k] = a /\ \A l \in 1 .. Len(u) : l > k => u[l] \notin B
    BY <1>3 DEF Closes
  <2>2. CASE k \in 1 .. Len(s)
    <3>1. s[k] = a
      BY <2>1, <2>2, Places
    <3>2. ASSUME NEW j \in 1 .. Len(t) PROVE t[j] \notin B
      <4>1. Len(s) + j \in 1 .. Len(u) /\ u[Len(s) + j] = t[j] /\ Len(s) + j > k
        BY <2>2, Places
      <4> QED
        BY <2>1, <4>1
    <3> QED
      BY <2>2, <3>1, <3>2 DEF Has
  <2>3. CASE k \notin 1 .. Len(s)
    <3>1. PICK i \in 1 .. Len(t) : k = Len(s) + i
      BY <2>3, Places
    <3>2. t[i] = a
      BY <2>1, <3>1, Places
    <3>3. ASSUME NEW j \in 1 .. Len(t), j > i PROVE t[j] \notin B
      <4>1. Len(s) + j \in 1 .. Len(u) /\ u[Len(s) + j] = t[j] /\ Len(s) + j > k
        BY <3>1, <3>3, Places
      <4> QED
        BY <2>1, <4>1
    <3> QED
      BY <3>2, <3>3 DEF Closes
  <2> QED
    BY <2>2, <2>3
<1> QED
  BY <1>1, <1>2, <1>3

\* A sequence is its head before its tail.
LEMMA HeadTail ==
  ASSUME NEW S, NEW q \in Seq(S), q # <<>>
  PROVE  /\ Head(q) \in S /\ Tail(q) \in Seq(S) /\ <<Head(q)>> \in Seq(S)
         /\ \A a : Has(q, a) <=> Head(q) = a \/ Has(Tail(q), a)
         /\ \A a, b : Follows(q, a, b) <=>
                        Follows(Tail(q), a, b) \/ (Head(q) = a /\ Has(Tail(q), b))
         /\ \A a, B : Closes(q, a, B) =>
                        \/ Closes(Tail(q), a, B)
                        \/ Head(q) = a /\ \A b \in B : ~Has(Tail(q), b)
<1> DEFINE h == <<Head(q)>>
           t == Tail(q)
<1>1. Head(q) \in S /\ t \in Seq(S) /\ h \in Seq(S) /\ Len(h) = 1
  OBVIOUS
<1>2. q = h \o t
  <2>1. /\ Len(q) \in Nat /\ Len(q) >= 1 /\ Len(t) = Len(q) - 1
        /\ \A i \in 1 .. Len(q) - 1 : t[i] = q[i + 1]
    OBVIOUS
  <2>2. Len(h \o t) = Len(q)
    BY <1>1, <2>1
  <2>3. \A i \in 1 .. Len(q) : (h \o t)[i] = q[i]
    BY <1>1, <2>1
  <2> QED
    BY <1>1, <2>1, <2>2, <2>3
<1>3. \A a : Has(h, a) <=> Head(q) = a
  BY OfOne
<1>4. \A a, b : ~Follows(h, a, b)
  BY OfOne
<1> HIDE DEF h, t
<1>5. \A a : Has(h \o t, a) <=> Has(h, a) \/ Has(t, a)
  BY <1>1, HasConcat
<1>6. \A a, b : Follows(h \o t, a, b) <=>
                  Follows(h, a, b) \/ Follows(t, a, b) \/ (Has(h, a) /\ Has(t, b))
  BY <1>1, FollowsConcat
<1>7. \A a, B : Closes(h \o t, a, B) =>
                  Closes(t, a, B) \/ (Has(h, a) /\ \A b \in B : ~Has(t, b))
  BY <1>1, ClosesConcat
<1>8. \A a : Has(q, a) <=> Head(q) = a \/ Has(t, a)
  BY <1>2, <1>3, <1>5
<1>9. \A a, b : Follows(q, a, b) <=> Follows(t, a, b) \/ (Head(q) = a /\ Has(t, b))
  BY <1>2, <1>3, <1>4, <1>6
<1>10. \A a, B : Closes(q, a, B) =>
                   Closes(t, a, B) \/ (Head(q) = a /\ \A b \in B : ~Has(t, b))
  BY <1>2, <1>3, <1>7
<1> USE DEF h, t
<1> QED
  BY <1>1, <1>8, <1>9, <1>10

\* What a sequence with one more task at its end has.
LEMMA Appended ==
  ASSUME NEW S, NEW s \in Seq(S), NEW x \in S
  PROVE  /\ s \o <<x>> \in Seq(S)
         /\ \A a : Has(s \o <<x>>, a) <=> Has(s, a) \/ x = a
         /\ \A a, b : Follows(s \o <<x>>, a, b) <=> Follows(s, a, b) \/ (Has(s, a) /\ x = b)
         /\ \A a, B : Closes(s, a, B) /\ x \notin B => Closes(s \o <<x>>, a, B)
<1> DEFINE t == <<x>>
<1>1. t \in Seq(S)
  OBVIOUS
<1>2. \A a : Has(t, a) <=> x = a
  BY OfOne
<1>3. \A a, b : ~Follows(t, a, b)
  BY OfOne
<1> HIDE DEF t
<1>4. s \o t \in Seq(S)
  BY <1>1, Places
<1>5. \A a : Has(s \o t, a) <=> Has(s, a) \/ Has(t, a)
  BY <1>1, HasConcat
<1>6. \A a, b : Follows(s \o t, a, b) <=>
                  Follows(s, a, b) \/ Follows(t, a, b) \/ (Has(s, a) /\ Has(t, b))
  BY <1>1, FollowsConcat
<1>7. \A a, B : Closes(s, a, B) /\ (\A b \in B : ~Has(t, b)) => Closes(s \o t, a, B)
  BY <1>1, ClosesConcat
<1>8. \A a : Has(s \o t, a) <=> Has(s, a) \/ x = a
  BY <1>2, <1>5
<1>9. \A a, b : Follows(s \o t, a, b) <=> Follows(s, a, b) \/ (Has(s, a) /\ x = b)
  BY <1>2, <1>3, <1>6
<1>10. \A a, B : Closes(s, a, B) /\ x \notin B => Closes(s \o t, a, B)
  BY <1>2, <1>7
<1> USE DEF t
<1> QED
  BY <1>4, <1>8, <1>9, <1>10

\* SetToSeq lists a finite set.
LEMMA ListsAll ==
  ASSUME NEW S, IsFiniteSet(S)
  PROVE  /\ SetToSeq(S) \in Seq(S)
         /\ \A a : Has(SetToSeq(S), a) <=> a \in S
<1> DEFINE n == Cardinality(S)
           f == SetToSeq(S)
<1>1. n \in Nat /\ ExistsBijection(1 .. n, S)
  BY FS_CardinalityType
<1>2. \E g \in [1 .. n -> S] : IsInjective(g)
  BY <1>1 DEF ExistsBijection, Bijection, Injection, IsInjective
<1>3. f \in [1 .. n -> S] /\ IsInjective(f)
  BY <1>2 DEF SetToSeq
<1>4. f \in Seq(S) /\ Len(f) = n
  BY <1>1, <1>3
<1>5. f \in Injection(1 .. n, S)
  BY <1>3 DEF Injection, IsInjective
<1>6. Cardinality(1 .. n) = n
  BY <1>1, FS_Interval
<1>7. f \in Surjection(1 .. n, S)
  BY <1>5, <1>6, FS_Injection
<1>8. \A a \in S : \E i \in 1 .. n : f[i] = a
  BY <1>7 DEF Surjection
<1> HIDE DEF f
<1>9. \A a : Has(f, a) <=> a \in S
  BY <1>3, <1>4, <1>8 DEF Has
<1> USE DEF f
<1> QED
  BY <1>4, <1>9

-----------------------------------------------------------------------------
(* The invariant.                                                            *)

RequestStarts(id) == [type |-> "RequestStart", id |-> id]
Starts(id) == [type |-> "PollingStarted", id |-> id]
Stops(id) == [type |-> "PollingStopped", id |-> id]

\* Tasks that make a handler, at once or in the end.
Wakes(id) == {Start(id), Starts(id)}

\* A render's clean-ups come before its effects, and only what is on the page
\* starts a poll.
EffectsOrdered ==
  \A id \in PollId :
    /\ ~Follows(effects, Start(id), Stop(id))
    /\ Has(effects, Start(id)) => id \in mounted

\* So does the scheduler take them: no start waits before a stop of its poll.
StopsFirst == \A id \in PollId : ~Follows(queue, Start(id), Stop(id))

\* Effects that run inside a saga's turn find no start before them.
StartsTaken ==
  ~flushing /\ effects # <<>> =>
    \A a, b \in PollId : ~Follows(queue, RequestStarts(a), Start(b))

\* One poll of an id starts, runs or ends at a time.
OnePoll ==
  \A id \in PollId :
    /\ \A a, b \in {Starts(id), Stops(id)} : ~Follows(queue, a, b)
    /\ Has(queue, Starts(id)) \/ Has(queue, Stops(id)) => id \notin timers

Registered ==
  \A id \in PollId :
    id \in pollingRequests <=> id \in timers \/ Has(queue, Starts(id)) \/ Has(queue, Stops(id))

\* The poll of a component that has gone will be stopped, unless it is over.
Ending ==
  \A id \in PollId \ mounted :
    \/ Has(effects, Stop(id))
    \/ Closes(queue, Stop(id), Wakes(id))
    \/ id \notin timers /\ \A a \in Wakes(id) : ~Has(queue, a)

PollInv ==
  /\ PollTypeOK
  /\ timers = waiting
  /\ EffectsOrdered
  /\ StopsFirst
  /\ StartsTaken
  /\ OnePoll
  /\ Registered
  /\ Ending

-----------------------------------------------------------------------------
(* Tasks and renders.                                                        *)

Effect == [type : {"start", "stop"}, id : PollId]

\* The tasks of the polls, all different.
LEMMA TaskFacts ==
  /\ \A a \in PollId : /\ Start(a) \in Task /\ Stop(a) \in Task
                       /\ RequestStarts(a) \in Task /\ Starts(a) \in Task /\ Stops(a) \in Task
                       /\ Start(a) \in Effect /\ Stop(a) \in Effect
  /\ \A a, b : /\ Start(a) = Start(b) <=> a = b
               /\ Stop(a) = Stop(b) <=> a = b
               /\ RequestStarts(a) = RequestStarts(b) <=> a = b
               /\ Starts(a) = Starts(b) <=> a = b
               /\ Stops(a) = Stops(b) <=> a = b
               /\ Start(a) # Stop(b) /\ Start(a) # RequestStarts(b)
               /\ Start(a) # Starts(b) /\ Start(a) # Stops(b)
               /\ Stop(a) # RequestStarts(b) /\ Stop(a) # Starts(b) /\ Stop(a) # Stops(b)
               /\ RequestStarts(a) # Starts(b) /\ RequestStarts(a) # Stops(b)
               /\ Starts(a) # Stops(b)
BY DEF Task, Effect, Start, Stop, RequestStarts, Starts, Stops

\* What wakes a handler, and of which id.
LEMMA WakesFacts ==
  \A i, id : /\ RequestStarts(id) \notin Wakes(i)
             /\ Stop(id) \notin Wakes(i)
             /\ Stops(id) \notin Wakes(i)
             /\ Start(id) \in Wakes(i) <=> i = id
             /\ Starts(id) \in Wakes(i) <=> i = id
BY DEF Wakes, Start, Stop, RequestStarts, Starts, Stops

\* A task is known by its type.
LEMMA TaskKinds ==
  ASSUME NEW t \in Task
  PROVE  /\ t.id \in PollId
         /\ t.type = "start" => t = Start(t.id)
         /\ t.type = "stop" => t = Stop(t.id)
         /\ t.type = "RequestStart" => t = RequestStarts(t.id)
         /\ t.type = "PollingStarted" => t = Starts(t.id)
         /\ t.type = "PollingStopped" => t = Stops(t.id)
BY DEF Task, Start, Stop, RequestStarts, Starts, Stops

\* What waits for an effect may wait for the scheduler.
LEMMA EffectsAreTasks ==
  ASSUME NEW s \in Seq(Effect)
  PROVE  s \in Seq(Task)
<1>1. Effect \subseteq Task
  BY DEF Effect, Task
<1> QED
  BY <1>1

\* The dispatches of one kind of a render.
LEMMA EachFacts ==
  ASSUME PollingAssumption, NEW ids \in SUBSET PollId
  PROVE  /\ Each(Stop, ids) \in Seq(Effect)
         /\ Each(Start, ids) \in Seq(Effect)
         /\ \A a : Has(Each(Stop, ids), a) <=> \E id \in ids : a = Stop(id)
         /\ \A a : Has(Each(Start, ids), a) <=> \E id \in ids : a = Start(id)
<1> DEFINE S == {Stop(id) : id \in ids}
           T == {Start(id) : id \in ids}
<1>1. IsFiniteSet(ids)
  BY FS_Subset DEF PollingAssumption
<1>2. IsFiniteSet(S) /\ IsFiniteSet(T)
  <2> DEFINE f == [id \in ids |-> Stop(id)]
             g == [id \in ids |-> Start(id)]
  <2>1. f \in Surjection(ids, S) /\ g \in Surjection(ids, T)
    BY DEF Surjection
  <2> QED
    BY <1>1, <2>1, FS_Surjection
<1>3. S \subseteq Effect /\ T \subseteq Effect
  BY TaskFacts
<1>4. /\ \A a : a \in S <=> \E id \in ids : a = Stop(id)
      /\ \A a : a \in T <=> \E id \in ids : a = Start(id)
  OBVIOUS
<1>5. Each(Stop, ids) = SetToSeq(S) /\ Each(Start, ids) = SetToSeq(T)
  BY DEF Each
<1> HIDE DEF S, T
<1>6. SetToSeq(S) \in Seq(S) /\ \A a : Has(SetToSeq(S), a) <=> a \in S
  BY <1>2, ListsAll
<1>7. SetToSeq(T) \in Seq(T) /\ \A a : Has(SetToSeq(T), a) <=> a \in T
  BY <1>2, ListsAll
<1>8. SetToSeq(S) \in Seq(Effect) /\ SetToSeq(T) \in Seq(Effect)
  BY <1>3, <1>6, <1>7
<1> QED
  BY <1>4, <1>5, <1>6, <1>7, <1>8

\* A sequence in which only b comes after b, at most, has no b before an a.
LEMMA NoneBehind ==
  ASSUME NEW s, NEW a, NEW b, ~Has(s, a) \/ ~Has(s, b)
  PROVE  ~Follows(s, a, b)
BY DEF Follows, Has

\* What a render leaves to be done.
LEMMA RenderFacts ==
  ASSUME PollingAssumption, PollTypeOK, NEW page \in SUBSET PollId,
         NEW changed \in SUBSET PollId, Render(page, changed)
  PROVE  /\ mounted' = page
         /\ effects' \in Seq(Effect)
         /\ renders' \in Nat
         /\ EffectsOrdered'
         /\ \A id \in mounted \ mounted' : Has(effects', Stop(id))
<1> DEFINE gone == (mounted \ page) \union changed
           come == (page \ mounted) \union changed
           s == Each(Stop, gone)
           t == Each(Start, come)
<1>1. gone \in SUBSET PollId /\ come \in SUBSET PollId
  BY DEF PollTypeOK
<1>2. changed \subseteq page /\ mounted' = page /\ effects' = s \o t /\ renders' \in Nat
  BY DEF Render, PollTypeOK
<1>3. /\ s \in Seq(Effect) /\ t \in Seq(Effect)
      /\ \A a : Has(s, a) <=> \E id \in gone : a = Stop(id)
      /\ \A a : Has(t, a) <=> \E id \in come : a = Start(id)
  BY <1>1, EachFacts
<1>4. come \subseteq page /\ mounted \ page \subseteq gone
  BY <1>2
<1> HIDE DEF gone, come, s, t
<1>5. s \o t \in Seq(Effect)
  BY <1>3, Places
<1>6. \A a : Has(s \o t, a) <=> Has(s, a) \/ Has(t, a)
  BY <1>3, HasConcat
<1>7. \A a, b : Follows(s \o t, a, b) <=>
                  Follows(s, a, b) \/ Follows(t, a, b) \/ (Has(s, a) /\ Has(t, b))
  BY <1>3, FollowsConcat
<1>8. ASSUME NEW id \in PollId PROVE ~Has(s, Start(id)) /\ ~Has(t, Stop(id))
  BY <1>3, TaskFacts
<1>9. ASSUME NEW id \in PollId PROVE ~Follows(s \o t, Start(id), Stop(id))
  <2>1. ~Follows(s, Start(id), Stop(id)) /\ ~Follows(t, Start(id), Stop(id))
    BY <1>8, NoneBehind
  <2> QED
    BY <1>7, <1>8, <2>1
<1>10. ASSUME NEW id \in PollId, Has(s \o t, Start(id)) PROVE id \in page
  <2>1. Has(t, Start(id))
    BY <1>6, <1>8, <1>10
  <2>2. id \in come
    BY <1>3, <2>1, TaskFacts
  <2> QED
    BY <1>4, <2>2
<1>11. ASSUME NEW id \in mounted \ page PROVE Has(s \o t, Stop(id))
  BY <1>3, <1>4, <1>6, <1>11
<1>12. EffectsOrdered'
  BY <1>2, <1>9, <1>10 DEF EffectsOrdered
<1> QED
  BY <1>2, <1>5, <1>11, <1>12

-----------------------------------------------------------------------------
(* The invariant holds initially and is kept.                                *)

\* The invariant holds initially.
LEMMA PollInitInv == PollInit => PollInv
<1> SUFFICES ASSUME PollInit PROVE PollInv
  OBVIOUS
<1>1. PollTypeOK
  <2>1. <<>> \in Seq(Effect) /\ <<>> \in Seq(Task)
    OBVIOUS
  <2> QED
    BY <2>1 DEF PollInit, PollTypeOK, Effect
<1>2. EffectsOrdered /\ StopsFirst /\ StartsTaken /\ OnePoll /\ Registered
  BY OfNone DEF PollInit, EffectsOrdered, StopsFirst, StartsTaken, OnePoll, Registered
<1>3. Ending
  BY OfNone DEF PollInit, Ending
<1> QED
  BY <1>1, <1>2, <1>3 DEF PollInit, PollInv

\* Types in the words of the proofs.
LEMMA Types ==
  PollTypeOK <=> /\ mounted \subseteq PollId
             /\ effects \in Seq(Effect)
             /\ flushing \in BOOLEAN
             /\ queue \in Seq(Task)
             /\ pollingRequests \subseteq PollId
             /\ waiting \subseteq PollId
             /\ timers \subseteq PollId
             /\ renders \in Nat
BY DEF PollTypeOK, Effect

\* A render in a turn of its own keeps the invariant.
LEMMA RenderPageKeeps == PollingAssumption /\ PollInv /\ RenderPage => PollInv'
<1> SUFFICES ASSUME PollingAssumption, PollInv, RenderPage PROVE PollInv'
  OBVIOUS
<1>1. /\ PollTypeOK /\ timers = waiting /\ StopsFirst /\ OnePoll /\ Registered /\ Ending
      /\ queue = <<>> /\ effects = <<>>
      /\ UNCHANGED <<flushing, queue, pollingRequests, waiting, timers>>
  BY DEF RenderPage, PollInv
<1>2. PICK page \in SUBSET PollId, changed \in SUBSET PollId : Render(page, changed)
  BY DEF RenderPage
<1>3. /\ mounted' = page /\ effects' \in Seq(Effect) /\ renders' \in Nat /\ EffectsOrdered'
      /\ \A id \in mounted \ mounted' : Has(effects', Stop(id))
  BY <1>1, <1>2, RenderFacts
<1>4. PollTypeOK'
  <2>1. PollTypeOK' <=> /\ mounted' \subseteq PollId /\ effects' \in Seq(Effect)
                    /\ flushing' \in BOOLEAN /\ queue' \in Seq(Task)
                    /\ pollingRequests' \subseteq PollId /\ waiting' \subseteq PollId
                    /\ timers' \subseteq PollId /\ renders' \in Nat
    BY DEF PollTypeOK, Effect
  <2> QED
    BY <1>1, <1>3, <2>1, Types
<1>5. StopsFirst' /\ OnePoll' /\ Registered'
  BY <1>1 DEF StopsFirst, OnePoll, Registered
<1>6. StartsTaken'
  <2>1. \A a, b : ~Follows(queue', a, b)
    BY <1>1, OfNone
  <2> QED
    BY <2>1 DEF StartsTaken
<1>7. Ending'
  <2> SUFFICES ASSUME NEW id \in PollId \ mounted'
               PROVE  \/ Has(effects', Stop(id))
                      \/ id \notin timers' /\ \A a \in Wakes(id) : ~Has(queue', a)
    BY DEF Ending
  <2>1. CASE id \in mounted
    BY <1>3, <2>1
  <2>2. CASE id \notin mounted
    <3>1. /\ ~Has(effects, Stop(id)) /\ ~Closes(queue, Stop(id), Wakes(id))
          /\ \A a : ~Has(queue', a)
      BY <1>1, OfNone
    <3> QED
      BY <1>1, <2>2, <3>1 DEF Ending
  <2> QED
    BY <2>1, <2>2
<1> QED
  BY <1>1, <1>3, <1>4, <1>5, <1>6, <1>7 DEF PollInv

\* Running one effect in a turn of its own keeps it.
LEMMA FlushEffectsKeeps == PollInv /\ FlushEffects => PollInv'
<1> SUFFICES ASSUME PollInv, FlushEffects PROVE PollInv'
  OBVIOUS
<1> DEFINE h == Head(effects)
           t == Tail(effects)
<1>1. /\ PollTypeOK /\ timers = waiting /\ EffectsOrdered /\ Registered /\ OnePoll /\ Ending
      /\ queue = <<>> /\ effects # <<>>
      /\ queue' = <<h>> /\ effects' = t /\ flushing' = (t # <<>>)
      /\ UNCHANGED <<mounted, pollingRequests, waiting, timers, renders>>
  BY DEF FlushEffects, PollInv
<1>2. effects \in Seq(Effect)
  BY <1>1, Types
<1>3. /\ h \in Effect /\ t \in Seq(Effect)
      /\ \A a : Has(effects, a) <=> h = a \/ Has(t, a)
      /\ \A a, b : Follows(effects, a, b) <=> Follows(t, a, b) \/ (h = a /\ Has(t, b))
  BY <1>1, <1>2, HeadTail
<1>4. h \in Task
  BY <1>3 DEF Effect, Task
<1>5. \E id \in PollId : h = Start(id) \/ h = Stop(id)
  BY <1>3 DEF Effect, Start, Stop
<1> HIDE DEF h, t
<1>6. /\ \A a : Has(queue', a) <=> h = a
      /\ \A a, b : ~Follows(queue', a, b)
      /\ \A a, B : Closes(queue', a, B) <=> h = a
  BY <1>1, OfOne
<1>7. PollTypeOK'
  <2>1. <<h>> \in Seq(Task)
    BY <1>4
  <2>2. PollTypeOK' <=> /\ mounted' \subseteq PollId /\ effects' \in Seq(Effect)
                    /\ flushing' \in BOOLEAN /\ queue' \in Seq(Task)
                    /\ pollingRequests' \subseteq PollId /\ waiting' \subseteq PollId
                    /\ timers' \subseteq PollId /\ renders' \in Nat
    BY DEF PollTypeOK, Effect
  <2>3. flushing' \in BOOLEAN
    BY <1>1
  <2> QED
    BY <1>1, <1>3, <2>1, <2>2, <2>3, Types
<1>8. EffectsOrdered'
  BY <1>1, <1>3 DEF EffectsOrdered
<1>9. StopsFirst' /\ StartsTaken'
  BY <1>6 DEF StopsFirst, StartsTaken
<1>10. \A id \in PollId : /\ ~Has(queue, Starts(id)) /\ ~Has(queue, Stops(id))
                          /\ ~Has(queue', Starts(id)) /\ ~Has(queue', Stops(id))
  BY <1>1, <1>5, <1>6, TaskFacts, OfNone
<1>11. OnePoll'
  BY <1>6, <1>10 DEF OnePoll
<1>12. Registered'
  BY <1>1, <1>10 DEF Registered
<1>13. Ending'
  <2> SUFFICES ASSUME NEW id \in PollId \ mounted'
               PROVE  \/ Has(effects', Stop(id))
                      \/ Closes(queue', Stop(id), Wakes(id))
                      \/ id \notin timers' /\ \A a \in Wakes(id) : ~Has(queue', a)
    BY DEF Ending
  <2>1. id \in PollId \ mounted
    BY <1>1
  <2>2. CASE Has(effects, Stop(id))
    BY <1>1, <1>3, <1>6, <2>2
  <2>3. CASE ~Has(effects, Stop(id))
    <3>1. id \notin timers
      BY <1>1, <2>1, <2>3, OfNone DEF Ending
    <3>2. h # Start(id)
      BY <1>1, <1>3, <2>1 DEF EffectsOrdered
    <3>3. h # Starts(id)
      BY <1>5, TaskFacts
    <3> QED
      BY <1>1, <1>6, <3>1, <3>2, <3>3 DEF Wakes
  <2> QED
    BY <2>2, <2>3
<1> QED
  BY <1>1, <1>7, <1>8, <1>9, <1>11, <1>12, <1>13 DEF PollInv

\* What effects wait is about no poll under way.
LEMMA EffectsFacts ==
  ASSUME NEW s \in Seq(Effect), NEW id \in PollId
  PROVE  ~Has(s, Starts(id)) /\ ~Has(s, Stops(id)) /\ ~Has(s, RequestStarts(id))
<1>1. \A i \in 1 .. Len(s) : s[i] \in Effect
  BY ElementOfSeq
<1>2. Starts(id) \notin Effect /\ Stops(id) \notin Effect /\ RequestStarts(id) \notin Effect
  BY DEF Effect, Starts, Stops, RequestStarts
<1> QED BY <1>1, <1>2 DEF Has

\* A render inside a saga's turn keeps it.
LEMMA MessageRendersKeeps == PollingAssumption /\ PollInv /\ MessageRenders => PollInv'
<1> SUFFICES ASSUME PollingAssumption, PollInv, MessageRenders PROVE PollInv'
  OBVIOUS
<1>1. /\ PollTypeOK /\ timers = waiting /\ EffectsOrdered /\ OnePoll /\ Registered /\ Ending
      /\ queue = <<>> /\ queue' = effects
      /\ UNCHANGED <<flushing, pollingRequests, waiting, timers>>
  BY DEF MessageRenders, PollInv
<1>2. PICK page \in SUBSET PollId, changed \in SUBSET PollId : Render(page, changed)
  BY DEF MessageRenders
<1>3. /\ mounted' = page /\ effects' \in Seq(Effect) /\ renders' \in Nat /\ EffectsOrdered'
      /\ \A id \in mounted \ mounted' : Has(effects', Stop(id))
  BY <1>1, <1>2, RenderFacts
<1>4. effects \in Seq(Effect) /\ effects \in Seq(Task)
  BY <1>1, Types, EffectsAreTasks
<1>5. PollTypeOK'
  <2>1. PollTypeOK' <=> /\ mounted' \subseteq PollId /\ effects' \in Seq(Effect)
                    /\ flushing' \in BOOLEAN /\ queue' \in Seq(Task)
                    /\ pollingRequests' \subseteq PollId /\ waiting' \subseteq PollId
                    /\ timers' \subseteq PollId /\ renders' \in Nat
    BY DEF PollTypeOK, Effect
  <2> QED
    BY <1>1, <1>3, <1>4, <2>1, Types
<1>6. StopsFirst'
  BY <1>1 DEF StopsFirst, EffectsOrdered
<1>7. \A id \in PollId : /\ ~Has(queue, Starts(id)) /\ ~Has(queue, Stops(id))
                         /\ ~Has(effects, Starts(id)) /\ ~Has(effects, Stops(id))
                         /\ ~Has(effects, RequestStarts(id))
  BY <1>1, <1>4, OfNone, EffectsFacts
<1>8. StartsTaken'
  BY <1>1, <1>7, NoneBehind DEF StartsTaken
<1>9. OnePoll'
  <2>1. ASSUME NEW id \in PollId, NEW a \in {Starts(id), Stops(id)}, NEW b
        PROVE  ~Follows(effects, a, b)
    BY <1>7, <2>1, NoneBehind
  <2> QED
    BY <1>1, <1>7, <2>1 DEF OnePoll
<1>10. Registered'
  BY <1>1, <1>7 DEF Registered
<1>11. Ending'
  <2> SUFFICES ASSUME NEW id \in PollId \ mounted'
               PROVE  \/ Has(effects', Stop(id))
                      \/ Closes(queue', Stop(id), Wakes(id))
                      \/ id \notin timers' /\ \A a \in Wakes(id) : ~Has(queue', a)
    BY DEF Ending
  <2>1. CASE id \in mounted
    BY <1>3, <2>1
  <2>2. CASE id \notin mounted
    <3>1. \A a \in Wakes(id) : ~Has(effects, a)
      BY <1>1, <1>7, <2>2 DEF EffectsOrdered, Wakes
    <3>2. CASE Has(effects, Stop(id))
      <4>1. Closes(effects, Stop(id), Wakes(id))
        BY <3>1, <3>2 DEF Has, Closes
      <4> QED
        BY <1>1, <4>1
    <3>3. CASE ~Has(effects, Stop(id))
      <4>1. id \notin timers
        BY <1>1, <2>2, <3>3, OfNone DEF Ending
      <4> QED
        BY <1>1, <3>1, <4>1
    <3> QED
      BY <3>2, <3>3
  <2> QED
    BY <2>1, <2>2
<1> QED
  BY <1>1, <1>3, <1>5, <1>6, <1>8, <1>9, <1>10, <1>11 DEF PollInv

-----------------------------------------------------------------------------
(* The scheduler keeps the invariant.                                        *)

\* The scheduler's first task and what waits behind it.
LEMMA FirstTask ==
  ASSUME PollTypeOK, queue # <<>>
  PROVE  /\ Head(queue) \in Task /\ Tail(queue) \in Seq(Task) /\ Head(queue).id \in PollId
         /\ \A a : Has(queue, a) <=> Head(queue) = a \/ Has(Tail(queue), a)
         /\ \A a, b : Follows(queue, a, b) <=>
                        Follows(Tail(queue), a, b) \/ (Head(queue) = a /\ Has(Tail(queue), b))
         /\ \A a, B : Closes(queue, a, B) =>
                        \/ Closes(Tail(queue), a, B)
                        \/ Head(queue) = a /\ \A b \in B : ~Has(Tail(queue), b)
<1>1. queue \in Seq(Task)
  BY Types
<1>2. Head(queue) \in Task /\ Tail(queue) \in Seq(Task)
  BY <1>1, HeadTail
<1>3. Head(queue).id \in PollId
  BY <1>2, TaskKinds
<1>4. \A a : Has(queue, a) <=> Head(queue) = a \/ Has(Tail(queue), a)
  BY <1>1, HeadTail
<1>5. \A a, b : Follows(queue, a, b) <=>
                  Follows(Tail(queue), a, b) \/ (Head(queue) = a /\ Has(Tail(queue), b))
  BY <1>1, HeadTail
<1>6. \A a, B : Closes(queue, a, B) =>
                  \/ Closes(Tail(queue), a, B)
                  \/ Head(queue) = a /\ \A b \in B : ~Has(Tail(queue), b)
  BY <1>1, HeadTail
<1> QED
  BY <1>2, <1>3, <1>4, <1>5, <1>6

\* A step that keeps the types of what it changes.
LEMMA TypesNext ==
  ASSUME mounted' \subseteq PollId, effects' \in Seq(Effect), flushing' \in BOOLEAN,
         queue' \in Seq(Task), pollingRequests' \subseteq PollId, waiting' \subseteq PollId,
         timers' \subseteq PollId, renders' \in Nat
  PROVE  PollTypeOK'
BY DEF PollTypeOK, Effect

\* The queue once a start action has been taken.
LEMMA StartQueue ==
  ASSUME NEW t \in Seq(Task), NEW id \in PollId, NEW r, NEW q,
         \/ q = t \o <<RequestStarts(id)>> /\ r = FALSE
         \/ q = (t \o <<RequestStarts(id)>>) \o <<Starts(id)>> /\ r = TRUE
  PROVE  /\ q \in Seq(Task)
         /\ \A a : Has(q, a) <=> Has(t, a) \/ a = RequestStarts(id) \/ (r /\ a = Starts(id))
         /\ \A a, b : Follows(q, a, b) <=>
              \/ Follows(t, a, b)
              \/ Has(t, a) /\ b = RequestStarts(id)
              \/ r /\ (Has(t, a) \/ a = RequestStarts(id)) /\ b = Starts(id)
         /\ \A a, B : Closes(t, a, B) /\ RequestStarts(id) \notin B /\ (r => Starts(id) \notin B)
                      => Closes(q, a, B)
<1> DEFINE u == t \o <<RequestStarts(id)>>
<1>1. RequestStarts(id) \in Task /\ Starts(id) \in Task
  BY TaskFacts
<1>2. /\ u \in Seq(Task)
      /\ \A a : Has(u, a) <=> Has(t, a) \/ RequestStarts(id) = a
      /\ \A a, b : Follows(u, a, b) <=>
                     Follows(t, a, b) \/ (Has(t, a) /\ RequestStarts(id) = b)
      /\ \A a, B : Closes(t, a, B) /\ RequestStarts(id) \notin B => Closes(u, a, B)
  BY <1>1, Appended
<1>3. (q = u /\ r = FALSE) \/ (q = u \o <<Starts(id)>> /\ r = TRUE)
  OBVIOUS
<1> HIDE DEF u
<1>4. CASE q = u /\ r = FALSE
  BY <1>2, <1>4
<1>5. CASE q = u \o <<Starts(id)>> /\ r = TRUE
  <2>1. /\ q \in Seq(Task)
        /\ \A a : Has(q, a) <=> Has(u, a) \/ Starts(id) = a
        /\ \A a, b : Follows(q, a, b) <=> Follows(u, a, b) \/ (Has(u, a) /\ Starts(id) = b)
        /\ \A a, B : Closes(u, a, B) /\ Starts(id) \notin B => Closes(q, a, B)
    BY <1>1, <1>2, <1>5, Appended
  <2> QED
    BY <1>2, <1>5, <2>1
<1> QED
  BY <1>3, <1>4, <1>5

\* Taking a start action keeps the invariant.
LEMMA TakeStartKeeps == PollInv /\ TakeStart => PollInv'
<1> SUFFICES ASSUME PollInv, TakeStart PROVE PollInv'
  OBVIOUS
<1> DEFINE id == Head(queue).id
           t == Tail(queue)
           new == id \notin pollingRequests
<1>1. /\ PollTypeOK /\ timers = waiting /\ EffectsOrdered /\ StopsFirst /\ StartsTaken
      /\ OnePoll /\ Registered /\ Ending
      /\ queue # <<>> /\ Head(queue).type = "start"
      /\ UNCHANGED <<mounted, effects, flushing, waiting, timers, renders>>
  BY DEF PollInv, TakeStart, RunTask
<1>2. /\ id \in PollId /\ t \in Seq(Task) /\ Head(queue) = Start(id)
      /\ \A a : Has(queue, a) <=> Start(id) = a \/ Has(t, a)
      /\ \A a, b : Follows(queue, a, b) <=>
                     Follows(t, a, b) \/ (Start(id) = a /\ Has(t, b))
      /\ \A a, B : Closes(queue, a, B) =>
                     Closes(t, a, B) \/ (Start(id) = a /\ \A b \in B : ~Has(t, b))
  <2>1. Head(queue) = Start(id)
    BY <1>1, FirstTask, TaskKinds
  <2> QED
    BY <1>1, <2>1, FirstTask
<1>3. \/ queue' = t \o <<RequestStarts(id)>> /\ ~new /\ pollingRequests' = pollingRequests
      \/ /\ queue' = (t \o <<RequestStarts(id)>>) \o <<Starts(id)>> /\ new
         /\ pollingRequests' = pollingRequests \union {id}
  BY DEF TakeStart, isPolling, pollRequestId, Put, RequestStarts, Starts
<1>4. \/ queue' = t \o <<RequestStarts(id)>> /\ new = FALSE
      \/ queue' = (t \o <<RequestStarts(id)>>) \o <<Starts(id)>> /\ new = TRUE
  BY <1>3
<1> HIDE DEF id, t
<1>5. /\ queue' \in Seq(Task)
      /\ \A a : Has(queue', a) <=>
                  Has(t, a) \/ a = RequestStarts(id) \/ (new /\ a = Starts(id))
      /\ \A a, b : Follows(queue', a, b) <=>
           \/ Follows(t, a, b)
           \/ Has(t, a) /\ b = RequestStarts(id)
           \/ new /\ (Has(t, a) \/ a = RequestStarts(id)) /\ b = Starts(id)
      /\ \A a, B : Closes(t, a, B) /\ RequestStarts(id) \notin B /\ (new => Starts(id) \notin B)
                   => Closes(queue', a, B)
  <2> HIDE DEF new
  <2>1. id \in PollId /\ t \in Seq(Task)
    BY <1>2
  <2> QED
    BY <1>4, <2>1, StartQueue
<1>6. PollTypeOK'
  BY <1>1, <1>2, <1>3, <1>5, Types, TypesNext
<1>7. EffectsOrdered'
  BY <1>1 DEF EffectsOrdered
<1>8. StopsFirst'
  BY <1>1, <1>2, <1>5, TaskFacts DEF StopsFirst
<1>9. StartsTaken'
  BY <1>1, <1>2, <1>5, TaskFacts DEF StartsTaken
<1>10. new => id \notin timers /\ ~Has(t, Starts(id)) /\ ~Has(t, Stops(id))
  BY <1>1, <1>2 DEF Registered
<1>11. OnePoll'
  <2> SUFFICES ASSUME NEW i \in PollId
               PROVE  /\ \A a, b \in {Starts(i), Stops(i)} : ~Follows(queue', a, b)
                      /\ Has(queue', Starts(i)) \/ Has(queue', Stops(i)) => i \notin timers'
    BY DEF OnePoll
  <2>1. ASSUME NEW a \in {Starts(i), Stops(i)}, NEW b \in {Starts(i), Stops(i)}
        PROVE  ~Follows(queue', a, b)
    <3>1. ~Follows(t, a, b)
      BY <1>1, <1>2 DEF OnePoll
    <3>2. b # RequestStarts(id) /\ a # RequestStarts(id)
      BY TaskFacts
    <3>3. b = Starts(id) => i = id
      BY TaskFacts
    <3> QED
      BY <1>5, <1>10, <3>1, <3>2, <3>3
  <2>2. Has(queue', Starts(i)) \/ Has(queue', Stops(i)) => i \notin timers'
    BY <1>1, <1>2, <1>5, <1>10, TaskFacts DEF OnePoll
  <2> QED
    BY <2>1, <2>2
<1>12. Registered'
  <2> SUFFICES ASSUME NEW i \in PollId
               PROVE  i \in pollingRequests' <=>
                        i \in timers' \/ Has(queue', Starts(i)) \/ Has(queue', Stops(i))
    BY DEF Registered
  <2>1. i \in pollingRequests <=>
          i \in timers \/ Has(t, Starts(i)) \/ Has(t, Stops(i))
    BY <1>1, <1>2, TaskFacts DEF Registered
  <2>2. /\ Has(queue', Starts(i)) <=> Has(t, Starts(i)) \/ (new /\ i = id)
        /\ Has(queue', Stops(i)) <=> Has(t, Stops(i))
    <3>1. /\ Stops(i) # RequestStarts(id) /\ Stops(i) # Starts(id)
          /\ Starts(i) # RequestStarts(id) /\ (Starts(i) = Starts(id) <=> i = id)
      BY TaskFacts
    <3> QED
      BY <1>5, <3>1
  <2>3. i \in pollingRequests' <=> i \in pollingRequests \/ (new /\ i = id)
    BY <1>3
  <2> QED
    BY <1>1, <2>1, <2>2, <2>3
<1>13. Ending'
  <2> SUFFICES ASSUME NEW i \in PollId \ mounted'
               PROVE  \/ Has(effects', Stop(i))
                      \/ Closes(queue', Stop(i), Wakes(i))
                      \/ i \notin timers' /\ \A a \in Wakes(i) : ~Has(queue', a)
    BY DEF Ending
  <2>1. \/ Has(effects, Stop(i))
        \/ Closes(queue, Stop(i), Wakes(i))
        \/ i \notin timers /\ \A a \in Wakes(i) : ~Has(queue, a)
    BY <1>1 DEF Ending
  <2>2. CASE Has(effects, Stop(i))
    BY <1>1, <2>2
  <2>3. CASE Closes(queue, Stop(i), Wakes(i))
    <3>1. Closes(t, Stop(i), Wakes(i))
      BY <1>2, <2>3, TaskFacts
    <3>2. Has(t, Stop(i))
      BY <3>1 DEF Closes, Has
    <3>3. i # id
      BY <1>1, <1>2, <3>2 DEF StopsFirst
    <3>4. RequestStarts(id) \notin Wakes(i) /\ Starts(id) \notin Wakes(i)
      BY <3>3, WakesFacts
    <3> QED
      BY <1>5, <3>1, <3>4
  <2>4. CASE i \notin timers /\ \A a \in Wakes(i) : ~Has(queue, a)
    <3>1. i # id
      BY <1>2, <2>4 DEF Wakes
    <3>2. \A a \in Wakes(i) : ~Has(t, a)
      BY <1>2, <2>4
    <3>3. RequestStarts(id) \notin Wakes(i) /\ Starts(id) \notin Wakes(i)
      BY <3>1, WakesFacts
    <3> QED
      BY <1>1, <1>5, <2>4, <3>2, <3>3
  <2> QED
    BY <2>1, <2>2, <2>3, <2>4
<1> QED
  BY <1>1, <1>6, <1>7, <1>8, <1>9, <1>11, <1>12, <1>13 DEF PollInv

\* Starting a request keeps it, with the effects that run in its turn.
LEMMA RequestStartKeeps == PollInv /\ RequestStart => PollInv'
<1> SUFFICES ASSUME PollInv, RequestStart PROVE PollInv'
  OBVIOUS
<1> DEFINE r == Head(queue).id
           t == Tail(queue)
           e == IF flushing THEN <<>> ELSE effects
<1>1. /\ PollTypeOK /\ timers = waiting /\ EffectsOrdered /\ StopsFirst /\ StartsTaken
      /\ OnePoll /\ Registered /\ Ending
      /\ queue # <<>> /\ Head(queue).type = "RequestStart"
      /\ UNCHANGED <<mounted, flushing, pollingRequests, waiting, timers, renders>>
  BY DEF PollInv, RequestStart, RunTask
<1>2. /\ r \in PollId /\ t \in Seq(Task)
      /\ \A a : Has(queue, a) <=> RequestStarts(r) = a \/ Has(t, a)
      /\ \A a, b : Follows(queue, a, b) <=>
                     Follows(t, a, b) \/ (RequestStarts(r) = a /\ Has(t, b))
      /\ \A a, B : Closes(queue, a, B) =>
                     Closes(t, a, B) \/ (RequestStarts(r) = a /\ \A b \in B : ~Has(t, b))
  <2>1. Head(queue) = RequestStarts(r)
    BY <1>1, FirstTask, TaskKinds
  <2> QED
    BY <1>1, <2>1, FirstTask
<1>3. effects \in Seq(Effect) /\ effects \in Seq(Task)
  BY <1>1, Types, EffectsAreTasks
<1>4. e \in Seq(Effect) /\ e \in Seq(Task)
  <2>1. <<>> \in Seq(Effect) /\ <<>> \in Seq(Task)
    OBVIOUS
  <2> QED
    BY <1>3, <2>1
<1>5. queue' = t \o e
  <2>1. CASE flushing
    <3>1. queue' = t /\ e = <<>>
      BY <2>1 DEF RequestStart
    <3> QED
      BY <1>2, <3>1
  <2>2. CASE ~flushing
    BY <2>2 DEF RequestStart
  <2> QED
    BY <2>1, <2>2
<1>6. effects' = (IF flushing THEN effects ELSE <<>>)
  BY DEF RequestStart
<1>7. /\ e = <<>> \/ (e = effects /\ ~flushing /\ effects # <<>>)
      /\ \A a : Has(effects, a) <=> Has(effects', a) \/ Has(e, a)
      /\ effects' \in Seq(Effect)
      /\ effects' = effects \/ effects' = <<>>
      /\ ~flushing' => effects' = <<>>
  <2>1. CASE flushing
    BY <1>1, <1>3, <1>6, <2>1, OfNone
  <2>2. CASE ~flushing
    <3>1. <<>> \in Seq(Effect)
      OBVIOUS
    <3> QED
      BY <1>1, <1>6, <2>2, <3>1, OfNone
  <2> QED
    BY <2>1, <2>2
<1> HIDE DEF r, t, e
<1>8. /\ queue' \in Seq(Task)
      /\ \A a : Has(queue', a) <=> Has(t, a) \/ Has(e, a)
      /\ \A a, b : Follows(queue', a, b) <=>
                     Follows(t, a, b) \/ Follows(e, a, b) \/ (Has(t, a) /\ Has(e, b))
      /\ \A a, B : /\ Closes(e, a, B) => Closes(queue', a, B)
                   /\ Closes(t, a, B) /\ (\A b \in B : ~Has(e, b)) => Closes(queue', a, B)
  <2>1. t \o e \in Seq(Task)
    BY <1>2, <1>4, Places
  <2>2. \A a : Has(t \o e, a) <=> Has(t, a) \/ Has(e, a)
    BY <1>2, <1>4, HasConcat
  <2>3. \A a, b : Follows(t \o e, a, b) <=>
                    Follows(t, a, b) \/ Follows(e, a, b) \/ (Has(t, a) /\ Has(e, b))
    BY <1>2, <1>4, FollowsConcat
  <2>4. \A a, B : /\ Closes(e, a, B) => Closes(t \o e, a, B)
                  /\ Closes(t, a, B) /\ (\A b \in B : ~Has(e, b)) => Closes(t \o e, a, B)
    BY <1>2, <1>4, ClosesConcat
  <2> QED
    BY <1>5, <2>1, <2>2, <2>3, <2>4
<1>9. \A id \in PollId : ~Has(e, Starts(id)) /\ ~Has(e, Stops(id)) /\ ~Has(e, RequestStarts(id))
  BY <1>4, EffectsFacts
<1>10. PollTypeOK'
  BY <1>1, <1>7, <1>8, Types, TypesNext
<1>11. EffectsOrdered'
  BY <1>1, <1>7, OfNone DEF EffectsOrdered
<1>12. ASSUME NEW id \in PollId PROVE ~Follows(queue', Start(id), Stop(id))
  <2>1. ~Follows(t, Start(id), Stop(id))
    BY <1>1, <1>2 DEF StopsFirst
  <2>2. CASE e = <<>>
    <3>1. ~Follows(e, Start(id), Stop(id)) /\ ~Has(e, Stop(id))
      BY <2>2, OfNone
    <3> QED
      BY <1>8, <2>1, <3>1
  <2>3. CASE e = effects /\ ~flushing /\ effects # <<>>
    <3>1. ~Follows(e, Start(id), Stop(id))
      BY <1>1, <2>3 DEF EffectsOrdered
    <3>2. ~Follows(queue, RequestStarts(r), Start(id))
      BY <1>1, <1>2, <2>3 DEF StartsTaken
    <3>3. ~Has(t, Start(id))
      BY <1>2, <3>2
    <3> QED
      BY <1>8, <2>1, <3>1, <3>3
  <2> QED
    BY <1>7, <2>2, <2>3
<1>13. StopsFirst' /\ StartsTaken'
  BY <1>7, <1>12 DEF StopsFirst, StartsTaken
<1>14. ASSUME NEW id \in PollId
       PROVE  /\ Has(queue', Starts(id)) <=> Has(queue, Starts(id))
              /\ Has(queue', Stops(id)) <=> Has(queue, Stops(id))
  <2>1. RequestStarts(r) # Starts(id) /\ RequestStarts(r) # Stops(id)
    BY TaskFacts
  <2> QED
    BY <1>2, <1>8, <1>9, <2>1
<1>15. OnePoll'
  <2> SUFFICES ASSUME NEW id \in PollId
               PROVE  /\ \A a, b \in {Starts(id), Stops(id)} : ~Follows(queue', a, b)
                      /\ Has(queue', Starts(id)) \/ Has(queue', Stops(id)) => id \notin timers'
    BY DEF OnePoll
  <2>1. ASSUME NEW a \in {Starts(id), Stops(id)}, NEW b \in {Starts(id), Stops(id)}
        PROVE  ~Follows(queue', a, b)
    <3>1. ~Follows(t, a, b)
      BY <1>1, <1>2 DEF OnePoll
    <3>2. ~Has(e, b)
      BY <1>9
    <3>3. ~Has(e, a)
      BY <1>9
    <3>4. ~Follows(e, a, b)
      BY <3>3, NoneBehind
    <3> QED
      BY <1>8, <3>1, <3>2, <3>4
  <2> QED
    BY <1>1, <1>14, <2>1 DEF OnePoll
<1>16. Registered'
  BY <1>1, <1>14 DEF Registered
<1>17. Ending'
  <2> SUFFICES ASSUME NEW id \in PollId \ mounted'
               PROVE  \/ Has(effects', Stop(id))
                      \/ Closes(queue', Stop(id), Wakes(id))
                      \/ id \notin timers' /\ \A a \in Wakes(id) : ~Has(queue', a)
    BY DEF Ending
  <2>1. \A a \in Wakes(id) : ~Has(e, a)
    <3>1. ~Has(effects, Start(id))
      BY <1>1 DEF EffectsOrdered
    <3> QED
      BY <1>7, <1>9, <3>1 DEF Wakes
  <2>2. \/ Has(effects, Stop(id))
        \/ Closes(queue, Stop(id), Wakes(id))
        \/ id \notin timers /\ \A a \in Wakes(id) : ~Has(queue, a)
    BY <1>1 DEF Ending
  <2>3. CASE Has(effects, Stop(id))
    <3>1. Has(effects', Stop(id)) \/ Has(e, Stop(id))
      BY <1>7, <2>3
    <3>2. Has(e, Stop(id)) => Closes(e, Stop(id), Wakes(id))
      BY <2>1 DEF Has, Closes
    <3> QED
      BY <1>8, <3>1, <3>2
  <2>4. CASE Closes(queue, Stop(id), Wakes(id))
    <3>1. Stop(id) # RequestStarts(r)
      BY DEF Stop, RequestStarts
    <3>2. Closes(t, Stop(id), Wakes(id))
      BY <1>2, <2>4, <3>1
    <3> QED
      BY <1>8, <2>1, <3>2
  <2>5. CASE id \notin timers /\ \A a \in Wakes(id) : ~Has(queue, a)
    BY <1>1, <1>2, <1>8, <2>1, <2>5
  <2> QED
    BY <2>2, <2>3, <2>4, <2>5
<1> QED
  BY <1>1, <1>10, <1>11, <1>13, <1>15, <1>16, <1>17 DEF PollInv

\* Forking a poll keeps it.
LEMMA ForkPollKeeps == PollInv /\ ForkPoll => PollInv'
<1> SUFFICES ASSUME PollInv, ForkPoll PROVE PollInv'
  OBVIOUS
<1> DEFINE r == Head(queue).id
           t == Tail(queue)
<1>1. /\ PollTypeOK /\ timers = waiting /\ EffectsOrdered /\ StopsFirst /\ StartsTaken
      /\ OnePoll /\ Registered /\ Ending
      /\ queue # <<>> /\ Head(queue).type = "PollingStarted"
      /\ timers' = timers \union {r} /\ waiting' = waiting \union {r} /\ queue' = t
      /\ UNCHANGED <<mounted, effects, flushing, pollingRequests, renders>>
  BY DEF PollInv, ForkPoll, RunTask
<1>2. /\ r \in PollId /\ t \in Seq(Task)
      /\ \A a : Has(queue, a) <=> Starts(r) = a \/ Has(t, a)
      /\ \A a, b : Follows(queue, a, b) <=>
                     Follows(t, a, b) \/ (Starts(r) = a /\ Has(t, b))
      /\ \A a, B : Closes(queue, a, B) =>
                     Closes(t, a, B) \/ (Starts(r) = a /\ \A b \in B : ~Has(t, b))
  <2>1. Head(queue) = Starts(r)
    BY <1>1, FirstTask, TaskKinds
  <2> QED
    BY <1>1, <2>1, FirstTask
<1> HIDE DEF r, t
<1>3. PollTypeOK'
  BY <1>1, <1>2, Types, TypesNext
<1>4. EffectsOrdered'
  BY <1>1 DEF EffectsOrdered
<1>5. StopsFirst' /\ StartsTaken'
  BY <1>1, <1>2 DEF StopsFirst, StartsTaken
<1>6. ~Has(t, Starts(r)) /\ ~Has(t, Stops(r))
  BY <1>1, <1>2 DEF OnePoll
<1>7. OnePoll'
  <2>1. ASSUME NEW id \in PollId, NEW a \in {Starts(id), Stops(id)},
               NEW b \in {Starts(id), Stops(id)}
        PROVE  ~Follows(queue', a, b)
    BY <1>1, <1>2, <2>1 DEF OnePoll
  <2>2. ASSUME NEW id \in PollId, Has(queue', Starts(id)) \/ Has(queue', Stops(id))
        PROVE  id \notin timers'
    <3>1. id # r
      BY <1>1, <1>6, <2>2
    <3> QED
      BY <1>1, <1>2, <2>2, <3>1 DEF OnePoll
  <2> QED
    BY <2>1, <2>2 DEF OnePoll
<1>8. Registered'
  <2> SUFFICES ASSUME NEW id \in PollId
               PROVE  id \in pollingRequests' <=>
                        id \in timers' \/ Has(queue', Starts(id)) \/ Has(queue', Stops(id))
    BY DEF Registered
  <2>1. (Starts(r) = Starts(id) <=> r = id) /\ Starts(r) # Stops(id)
    BY TaskFacts
  <2> QED
    BY <1>1, <1>2, <2>1 DEF Registered
<1>9. Ending'
  <2> SUFFICES ASSUME NEW id \in PollId \ mounted'
               PROVE  \/ Has(effects', Stop(id))
                      \/ Closes(queue', Stop(id), Wakes(id))
                      \/ id \notin timers' /\ \A a \in Wakes(id) : ~Has(queue', a)
    BY DEF Ending
  <2>1. \/ Has(effects, Stop(id))
        \/ Closes(queue, Stop(id), Wakes(id))
        \/ id \notin timers /\ \A a \in Wakes(id) : ~Has(queue, a)
    BY <1>1 DEF Ending
  <2>2. CASE Has(effects, Stop(id))
    BY <1>1, <2>2
  <2>3. CASE Closes(queue, Stop(id), Wakes(id))
    <3>1. Stop(id) # Starts(r)
      BY TaskFacts
    <3> QED
      BY <1>1, <1>2, <2>3, <3>1
  <2>4. CASE id \notin timers /\ \A a \in Wakes(id) : ~Has(queue, a)
    <3>1. id # r
      BY <1>2, <2>4, WakesFacts
    <3> QED
      BY <1>1, <1>2, <2>4, <3>1
  <2> QED
    BY <2>1, <2>2, <2>3, <2>4
<1> QED
  BY <1>1, <1>3, <1>4, <1>5, <1>7, <1>8, <1>9 DEF PollInv

\* Taking a stop action keeps it.
LEMMA TakeStopKeeps == PollInv /\ TakeStop => PollInv'
<1> SUFFICES ASSUME PollInv, TakeStop PROVE PollInv'
  OBVIOUS
<1> DEFINE r == Head(queue).id
           t == Tail(queue)
           live == r \in waiting
<1>1. /\ PollTypeOK /\ timers = waiting /\ EffectsOrdered /\ StopsFirst /\ StartsTaken
      /\ OnePoll /\ Registered /\ Ending
      /\ queue # <<>> /\ Head(queue).type = "stop"
      /\ UNCHANGED <<mounted, effects, flushing, pollingRequests, renders>>
  BY DEF PollInv, TakeStop, RunTask
<1>2. /\ r \in PollId /\ t \in Seq(Task)
      /\ \A a : Has(queue, a) <=> Stop(r) = a \/ Has(t, a)
      /\ \A a, b : Follows(queue, a, b) <=>
                     Follows(t, a, b) \/ (Stop(r) = a /\ Has(t, b))
      /\ \A a, B : Closes(queue, a, B) =>
                     Closes(t, a, B) \/ (Stop(r) = a /\ \A b \in B : ~Has(t, b))
  <2>1. Head(queue) = Stop(r)
    BY <1>1, FirstTask, TaskKinds
  <2> QED
    BY <1>1, <2>1, FirstTask
<1>3. /\ timers' = timers \ {r} /\ waiting' = timers'
      /\ \/ live /\ queue' = t \o <<Stops(r)>>
         \/ ~live /\ queue' = t
  <2>1. CASE live
    BY <1>1, <2>1 DEF TakeStop, Put, Stops
  <2>2. CASE ~live
    BY <1>1, <2>2 DEF TakeStop
  <2> QED
    BY <2>1, <2>2
<1>4. live <=> r \in timers
  BY <1>1
<1> HIDE DEF r, t, live
<1>5. /\ queue' \in Seq(Task)
      /\ \A a : Has(queue', a) <=> Has(t, a) \/ (live /\ a = Stops(r))
      /\ \A a, b : Follows(queue', a, b) <=>
                     Follows(t, a, b) \/ (live /\ Has(t, a) /\ b = Stops(r))
      /\ \A a, B : Closes(t, a, B) /\ Stops(r) \notin B => Closes(queue', a, B)
  <2>1. CASE live /\ queue' = t \o <<Stops(r)>>
    <3>1. Stops(r) \in Task
      BY <1>2, TaskFacts
    <3>2. /\ t \o <<Stops(r)>> \in Seq(Task)
          /\ \A a : Has(t \o <<Stops(r)>>, a) <=> Has(t, a) \/ Stops(r) = a
          /\ \A a, b : Follows(t \o <<Stops(r)>>, a, b) <=>
                         Follows(t, a, b) \/ (Has(t, a) /\ Stops(r) = b)
          /\ \A a, B : Closes(t, a, B) /\ Stops(r) \notin B => Closes(t \o <<Stops(r)>>, a, B)
      BY <1>2, <3>1, Appended
    <3> QED
      BY <2>1, <3>2
  <2>2. CASE ~live /\ queue' = t
    BY <1>2, <2>2
  <2> QED
    BY <1>3, <2>1, <2>2
<1>6. PollTypeOK'
  BY <1>1, <1>3, <1>5, Types, TypesNext
<1>7. EffectsOrdered'
  BY <1>1 DEF EffectsOrdered
<1>8. StopsFirst'
  <2> SUFFICES ASSUME NEW id \in PollId PROVE ~Follows(queue', Start(id), Stop(id))
    BY DEF StopsFirst
  <2>1. Stop(id) # Stops(r)
    BY TaskFacts
  <2> QED
    BY <1>1, <1>2, <1>5, <2>1 DEF StopsFirst
<1>9. StartsTaken'
  <2> SUFFICES ASSUME ~flushing, effects # <<>>, NEW a \in PollId, NEW b \in PollId
               PROVE  ~Follows(queue', RequestStarts(a), Start(b))
    BY <1>1 DEF StartsTaken
  <2>1. Start(b) # Stops(r)
    BY TaskFacts
  <2> QED
    BY <1>1, <1>2, <1>5, <2>1 DEF StartsTaken
<1>10. live => ~Has(t, Starts(r)) /\ ~Has(t, Stops(r))
  BY <1>1, <1>2, <1>4 DEF OnePoll
<1>11. OnePoll'
  <2>1. ASSUME NEW id \in PollId, NEW a \in {Starts(id), Stops(id)},
               NEW b \in {Starts(id), Stops(id)}
        PROVE  ~Follows(queue', a, b)
    <3>1. ~Follows(t, a, b)
      BY <1>1, <1>2, <2>1 DEF OnePoll
    <3>2. b = Stops(r) => id = r
      BY TaskFacts
    <3> QED
      BY <1>5, <1>10, <3>1, <3>2
  <2>2. ASSUME NEW id \in PollId, Has(queue', Starts(id)) \/ Has(queue', Stops(id))
        PROVE  id \notin timers'
    <3>1. CASE id = r
      BY <1>3, <3>1
    <3>2. CASE id # r
      <4>1. Starts(id) # Stops(r) /\ Stops(id) # Stops(r)
        BY <3>2, TaskFacts
      <4>2. Has(t, Starts(id)) \/ Has(t, Stops(id))
        BY <1>5, <2>2, <4>1
      <4> QED
        BY <1>1, <1>2, <1>3, <4>2 DEF OnePoll
    <3> QED
      BY <3>1, <3>2
  <2> QED
    BY <2>1, <2>2 DEF OnePoll
<1>12. Registered'
  <2> SUFFICES ASSUME NEW id \in PollId
               PROVE  id \in pollingRequests' <=>
                        id \in timers' \/ Has(queue', Starts(id)) \/ Has(queue', Stops(id))
    BY DEF Registered
  <2>1. /\ Starts(id) # Stops(r) /\ (Stops(id) = Stops(r) <=> id = r)
        /\ Starts(id) # Stop(r) /\ Stops(id) # Stop(r)
    BY TaskFacts
  <2>2. /\ Has(queue', Starts(id)) <=> Has(t, Starts(id))
        /\ Has(queue', Stops(id)) <=> Has(t, Stops(id)) \/ (live /\ id = r)
    BY <1>5, <2>1
  <2>3. id \in pollingRequests <=>
          id \in timers \/ Has(t, Starts(id)) \/ Has(t, Stops(id))
    BY <1>1, <1>2, <2>1 DEF Registered
  <2>4. id \in timers' <=> id \in timers /\ id # r
    BY <1>3
  <2> QED
    BY <1>1, <1>4, <2>2, <2>3, <2>4
<1>13. Ending'
  <2> SUFFICES ASSUME NEW id \in PollId \ mounted'
               PROVE  \/ Has(effects', Stop(id))
                      \/ Closes(queue', Stop(id), Wakes(id))
                      \/ id \notin timers' /\ \A a \in Wakes(id) : ~Has(queue', a)
    BY DEF Ending
  <2>1. \/ Has(effects, Stop(id))
        \/ Closes(queue, Stop(id), Wakes(id))
        \/ id \notin timers /\ \A a \in Wakes(id) : ~Has(queue, a)
    BY <1>1 DEF Ending
  <2>2. Stops(r) \notin Wakes(id)
    BY WakesFacts
  <2>3. CASE Has(effects, Stop(id))
    BY <1>1, <2>3
  <2>4. CASE Closes(queue, Stop(id), Wakes(id))
    <3>1. CASE Closes(t, Stop(id), Wakes(id))
      BY <1>5, <2>2, <3>1
    <3>2. CASE ~Closes(t, Stop(id), Wakes(id))
      <4>1. Stop(r) = Stop(id) /\ \A a \in Wakes(id) : ~Has(t, a)
        BY <1>2, <2>4, <3>2
      <4>2. id = r
        BY <4>1, TaskFacts
      <4> QED
        BY <1>3, <1>5, <2>2, <4>1, <4>2
    <3> QED
      BY <3>1, <3>2
  <2>5. CASE id \notin timers /\ \A a \in Wakes(id) : ~Has(queue, a)
    BY <1>2, <1>3, <1>5, <2>2, <2>5
  <2> QED
    BY <2>1, <2>3, <2>4, <2>5
<1> QED
  BY <1>1, <1>3, <1>6, <1>7, <1>8, <1>9, <1>11, <1>12, <1>13 DEF PollInv

\* Ending a poll keeps it.
LEMMA EndPollKeeps == PollInv /\ EndPoll => PollInv'
<1> SUFFICES ASSUME PollInv, EndPoll PROVE PollInv'
  OBVIOUS
<1> DEFINE r == Head(queue).id
           t == Tail(queue)
<1>1. /\ PollTypeOK /\ timers = waiting /\ EffectsOrdered /\ StopsFirst /\ StartsTaken
      /\ OnePoll /\ Registered /\ Ending
      /\ queue # <<>> /\ Head(queue).type = "PollingStopped"
      /\ pollingRequests' = pollingRequests \ {r} /\ queue' = t
      /\ UNCHANGED <<mounted, effects, flushing, waiting, timers, renders>>
  BY DEF PollInv, EndPoll, RunTask, Unregister, pollRequestId
<1>2. /\ r \in PollId /\ t \in Seq(Task)
      /\ \A a : Has(queue, a) <=> Stops(r) = a \/ Has(t, a)
      /\ \A a, b : Follows(queue, a, b) <=>
                     Follows(t, a, b) \/ (Stops(r) = a /\ Has(t, b))
      /\ \A a, B : Closes(queue, a, B) =>
                     Closes(t, a, B) \/ (Stops(r) = a /\ \A b \in B : ~Has(t, b))
  <2>1. Head(queue) = Stops(r)
    BY <1>1, FirstTask, TaskKinds
  <2> QED
    BY <1>1, <2>1, FirstTask
<1> HIDE DEF r, t
<1>3. PollTypeOK'
  BY <1>1, <1>2, Types, TypesNext
<1>4. EffectsOrdered'
  BY <1>1 DEF EffectsOrdered
<1>5. StopsFirst' /\ StartsTaken'
  BY <1>1, <1>2 DEF StopsFirst, StartsTaken
<1>6. r \notin timers /\ ~Has(t, Starts(r)) /\ ~Has(t, Stops(r))
  BY <1>1, <1>2 DEF OnePoll
<1>7. OnePoll'
  <2>1. ASSUME NEW id \in PollId, NEW a \in {Starts(id), Stops(id)},
               NEW b \in {Starts(id), Stops(id)}
        PROVE  ~Follows(queue', a, b)
    BY <1>1, <1>2, <2>1 DEF OnePoll
  <2>2. ASSUME NEW id \in PollId, Has(queue', Starts(id)) \/ Has(queue', Stops(id))
        PROVE  id \notin timers'
    BY <1>1, <1>2, <2>2 DEF OnePoll
  <2> QED
    BY <2>1, <2>2 DEF OnePoll
<1>8. Registered'
  <2> SUFFICES ASSUME NEW id \in PollId
               PROVE  id \in pollingRequests' <=>
                        id \in timers' \/ Has(queue', Starts(id)) \/ Has(queue', Stops(id))
    BY DEF Registered
  <2>1. Starts(id) # Stops(r) /\ (Stops(id) = Stops(r) <=> id = r)
    BY TaskFacts
  <2>2. CASE id = r
    BY <1>1, <1>6, <2>2
  <2>3. CASE id # r
    BY <1>1, <1>2, <2>1, <2>3 DEF Registered
  <2> QED
    BY <2>2, <2>3
<1>9. Ending'
  <2> SUFFICES ASSUME NEW id \in PollId \ mounted'
               PROVE  \/ Has(effects', Stop(id))
                      \/ Closes(queue', Stop(id), Wakes(id))
                      \/ id \notin timers' /\ \A a \in Wakes(id) : ~Has(queue', a)
    BY DEF Ending
  <2>1. \/ Has(effects, Stop(id))
        \/ Closes(queue, Stop(id), Wakes(id))
        \/ id \notin timers /\ \A a \in Wakes(id) : ~Has(queue, a)
    BY <1>1 DEF Ending
  <2>2. Stop(id) # Stops(r)
    BY TaskFacts
  <2> QED
    BY <1>1, <1>2, <2>1, <2>2
<1> QED
  BY <1>1, <1>3, <1>4, <1>5, <1>7, <1>8, <1>9 DEF PollInv

-----------------------------------------------------------------------------
(* The theorems.                                                             *)

\* Every behaviour keeps the invariant.
LEMMA Invariant == PollSpec => []PollInv
<1>1. PollInv /\ [PollNext]_pollVars => PollInv'
  <2> SUFFICES ASSUME PollInv, [PollNext]_pollVars PROVE PollInv'
    OBVIOUS
  <2>1. CASE RenderPage
    BY <2>1, PollingAssumption, RenderPageKeeps
  <2>2. CASE FlushEffects
    BY <2>2, FlushEffectsKeeps
  <2>3. CASE MessageRenders
    BY <2>3, PollingAssumption, MessageRendersKeeps
  <2>4. CASE TakeStart
    BY <2>4, TakeStartKeeps
  <2>5. CASE RequestStart
    BY <2>5, RequestStartKeeps
  <2>6. CASE ForkPoll
    BY <2>6, ForkPollKeeps
  <2>7. CASE TakeStop
    BY <2>7, TakeStopKeeps
  <2>8. CASE EndPoll
    BY <2>8, EndPollKeeps
  <2>9. CASE UNCHANGED pollVars
    <3>1. UNCHANGED <<mounted, effects, flushing, queue, pollingRequests, waiting,
                      timers, renders>>
      BY <2>9 DEF pollVars
    <3>2. PollTypeOK' /\ EffectsOrdered' /\ StopsFirst' /\ StartsTaken'
      BY <3>1 DEF PollInv, PollTypeOK, EffectsOrdered, StopsFirst, StartsTaken
    <3>3. OnePoll' /\ Registered' /\ Ending'
      BY <3>1 DEF PollInv, OnePoll, Registered, Ending
    <3> QED
      BY <3>1, <3>2, <3>3 DEF PollInv
  <2> QED
    BY <2>1, <2>2, <2>3, <2>4, <2>5, <2>6, <2>7, <2>8, <2>9 DEF PollNext, Scheduler
<1> QED
  BY <1>1, PollInitInv, PTL DEF PollSpec

\* The components, the scheduler's queue and the registrations have their
\* types, for any finite set of poll ids and any number of renders.
THEOREM PollTypeCorrect == PollSpec => []PollTypeOK
<1>1. PollInv => PollTypeOK
  BY DEF PollInv
<1> QED
  BY <1>1, Invariant, PTL

\* An id is registered exactly when a timer polls it or a task about its poll
\* waits, every timer has its handler, and what is polled once all has settled
\* is on the page.
THEOREM Polled == PollSpec => []RegisteredIffPolled
<1>1. PollInv => RegisteredIffPolled
  <2> SUFFICES ASSUME PollInv PROVE RegisteredIffPolled
    OBVIOUS
  <2>1. queue \in Seq(Task) /\ timers \subseteq PollId /\ pollingRequests \subseteq PollId
    BY Types DEF PollInv
  <2>2. ASSUME NEW a PROVE a \in Range(queue) <=> Has(queue, a)
    BY <2>1 DEF Range, Has
  <2>3. ASSUME NEW id \in PollId
        PROVE  /\ id \in Queued("PollingStarted") <=> Has(queue, Starts(id))
               /\ id \in Queued("PollingStopped") <=> Has(queue, Stops(id))
    BY <2>2 DEF Queued, Starts, Stops
  <2>4. Queued("PollingStarted") \subseteq PollId /\ Queued("PollingStopped") \subseteq PollId
    BY DEF Queued
  <2>5. pollingRequests
          = timers \union Queued("PollingStarted") \union Queued("PollingStopped")
    BY <2>1, <2>3, <2>4 DEF PollInv, Registered
  <2>6. queue = <<>> /\ effects = <<>> => timers \subseteq mounted
    BY <2>1, OfNone DEF PollInv, Ending
  <2> QED
    BY <2>5, <2>6 DEF PollInv, RegisteredIffPolled
<1> QED
  BY <1>1, Invariant, PTL
=============================================================================
