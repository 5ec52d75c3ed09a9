--------------------------- MODULE WebSocketSagas ---------------------------
(* Requests over the websocket in ui/src/app/base/sagas/websockets.ts: the   *)
(* setup saga, sendMessage, handleMessage, the cache of loaded endpoints,    *)
(* chained actions, and the slices of the store the answers arrive in.       *)
(*                                                                           *)
(* Every JavaScript turn (one socket event, or one dispatch by a component)  *)
(* is one step.  Actions put by a saga during its turn wait in the saga      *)
(* scheduler's queue and run before the next event: `pending`, which every   *)
(* event needs empty.  The region answers requests in any order, so the two  *)
(* directions of the socket are sets.  The redux actions here carry no limit,*)
(* file key, poll flag or list of parameters: those branches of sendMessage  *)
(* and handleMessage have modules of their own.  Its catch is left out: what *)
(* these actions send can be written as JSON, and the socket buffers what it *)
(* cannot send, so neither throws.                                           *)
(*                                                                           *)
(* client.socket is a ReconnectingWebSocket: connecting, open, or waiting for*)
(* its next attempt, when it reports CLOSED.                                 *)
EXTENDS Naturals, Sequences, FiniteSetsExt

CONSTANTS
  Model,         \* slices of the store with a websocket endpoint
  MayFail,       \* models whose list the region may answer with an error
  FollowUps,     \* FollowUps[m]: the models saved next when a save of m succeeds
  MaxDispatches, \* bound on the actions the components dispatch
  MaxDrops       \* bound on the times the connection fails

ASSUME ModelAssumption ==
  /\ MayFail \subseteq Model
  /\ FollowUps \in [Model -> Seq(Model)]
  /\ MaxDispatches \in Nat
  /\ MaxDrops \in Nat

VARIABLES
  setup,           \* the setupWebSocket task
  socket,          \* state of client.socket
  buffer,          \* ids of messages sent while the socket was not open
  up,              \* ids of requests the region has not answered
  down,            \* answers on their way to the client
  requests,        \* client._requests: the action of each request id (from 1)
  loadedEndpoints, \* models whose list counts as fetched or being fetched
  nextActions,     \* ids of the requests with actions to dispatch on success
  status,          \* the status slice
  store,           \* the other slices
  pending,         \* actions put by the current saga turn and not yet taken
  resetAt,         \* auxiliary: requests sent before the last resetLoaded
  unheard,         \* auxiliary: ids left in a socket that was replaced, since
                   \* the store was last reset
  dispatches, drops

vars == <<setup, socket, buffer, up, down, requests, loadedEndpoints,
          nextActions, status, store, pending, resetAt, unheard, dispatches, drops>>

Action == [model: Model, method: {"list", "save"}]
List(m) == [model |-> m, method |-> "list"]
Save(m) == [model |-> m, method |-> "save"]

Answer == [id: Nat, ok: BOOLEAN]
Slice == [loading: BOOLEAN, loaded: BOOLEAN, saving: BOOLEAN,
          saved: BOOLEAN, errors: BOOLEAN]
Status == [connected: BOOLEAN, connecting: BOOLEAN, error: BOOLEAN]

genericInitialState ==
  [loading |-> FALSE, loaded |-> FALSE, saving |-> FALSE,
   saved |-> FALSE, errors |-> FALSE]

TypeOK ==
  /\ setup \in {"idle", "waiting", "running"}
  /\ socket \in {"none", "connecting", "open", "waiting"}
  /\ buffer \in SUBSET Nat
  /\ up \in SUBSET Nat
  /\ down \in SUBSET Answer
  /\ requests \in Seq(Action)
  /\ loadedEndpoints \in SUBSET Model
  /\ nextActions \in SUBSET Nat
  /\ status \in Status
  /\ store \in [Model -> Slice]
  /\ pending \in Seq(Action)
  /\ resetAt \in Nat
  /\ unheard \in SUBSET Nat
  /\ dispatches \in Nat
  /\ drops \in Nat

Init ==
  /\ setup = "idle"
  /\ socket = "none"
  /\ buffer = {}
  /\ up = {}
  /\ down = {}
  /\ requests = <<>>
  /\ loadedEndpoints = {}
  /\ nextActions = {}
  /\ status = [connected |-> FALSE, connecting |-> FALSE, error |-> FALSE]
  /\ store = [m \in Model |-> genericInitialState]
  /\ pending = <<>>
  /\ resetAt = 0
  /\ unheard = {}
  /\ dispatches = 0
  /\ drops = 0

-----------------------------------------------------------------------------
(* Reducers of a slice.                                                      *)

Started(s, method) ==
  IF method = "list"
  THEN [s EXCEPT !.loading = TRUE]
  ELSE [s EXCEPT !.saved = FALSE, !.saving = TRUE]

Failed(s, method) ==
  IF method = "list"
  THEN [s EXCEPT !.errors = TRUE, !.loading = FALSE]
  ELSE [s EXCEPT !.errors = TRUE, !.saving = FALSE]

\* Mutant: a list that arrives is not marked as loaded.
SucceededNotLoaded(s, method) ==
  IF method = "list"
  THEN [s EXCEPT !.loading = FALSE]
  ELSE [s EXCEPT !.errors = FALSE, !.saved = TRUE, !.saving = FALSE]

Succeeded(s, method) ==
  IF method = "list"
  THEN [s EXCEPT !.loading = FALSE, !.loaded = TRUE]
  ELSE [s EXCEPT !.errors = FALSE, !.saved = TRUE, !.saving = FALSE]

Cleaned(s) == [s EXCEPT !.errors = FALSE, !.saved = FALSE, !.saving = FALSE]

-----------------------------------------------------------------------------
(* Reducers of status, and the reset of every other slice by the root        *)
(* reducer when the connection goes.                                         *)

websocketConnect == status' = [status EXCEPT !.connected = FALSE, !.connecting = TRUE]

websocketConnected ==
  status' = [connected |-> TRUE, connecting |-> FALSE, error |-> FALSE]

\* Mutant: a lost connection leaves the slices as they are.
KeepStore == UNCHANGED <<store, unheard>>

ResetStore ==
  /\ store' = [m \in Model |-> genericInitialState]
  /\ unheard' = {}

\* Mutant: the close event does not say that the connection is gone.
websocketDisconnectedKeeps == UNCHANGED status /\ ResetStore

\* The close event alone, or followed by the error of a connection timeout.
websocketDisconnected ==
  /\ \/ status' = [status EXCEPT !.connected = FALSE]
     \/ status' = [connected |-> FALSE, connecting |-> FALSE, error |-> TRUE]
  /\ ResetStore

\* Mutant: the cache outlives the connection.
KeepLoaded ==
  /\ UNCHANGED loadedEndpoints
  /\ resetAt' = Len(requests)

resetLoaded ==
  /\ loadedEndpoints' = {}
  /\ resetAt' = Len(requests)

-----------------------------------------------------------------------------
(* sendMessage, for an action a a watcher took.                              *)

\* Mutant: only a list that has arrived counts, not one being fetched.
isFetched(a) == a.method = "list" /\ store[a.model].loaded

isLoaded(a) == a.method = "list" /\ a.model \in loadedEndpoints

\* client.send: the socket sends the message, or buffers it until it is open.
Transmit(id) ==
  IF socket = "open"
  THEN up' = up \union {id} /\ UNCHANGED buffer
  ELSE buffer' = buffer \union {id} /\ UNCHANGED up

sendMessage(a) ==
  \/ /\ isLoaded(a)
     /\ UNCHANGED <<buffer, up, requests, loadedEndpoints, nextActions, store>>
  \/ LET id == Len(requests) + 1 IN
     /\ ~isLoaded(a)
     /\ loadedEndpoints' = IF a.method = "list"
                           THEN loadedEndpoints \union {a.model}
                           ELSE loadedEndpoints
     /\ store' = [store EXCEPT ![a.model] = Started(@, a.method)]
     /\ requests' = Append(requests, a)
     /\ Transmit(id)
     /\ nextActions' = IF a.method = "save" /\ FollowUps[a.model] # <<>>
                       THEN nextActions \union {id}
                       ELSE nextActions

\* A component dispatches an action: an event of its own.
Dispatch ==
  /\ pending = <<>>
  /\ setup = "running"
  /\ dispatches < MaxDispatches
  /\ dispatches' = dispatches + 1
  /\ \E a \in Action : sendMessage(a)
  /\ UNCHANGED <<setup, socket, down, status, pending, resetAt, unheard, drops>>

\* The watchers take the next action a saga has put.
TakePending ==
  /\ pending # <<>>
  /\ pending' = Tail(pending)
  /\ sendMessage(Head(pending))
  /\ UNCHANGED <<setup, socket, down, status, resetAt, unheard, dispatches, drops>>

\* A form unmounts.
cleanup ==
  /\ pending = <<>>
  /\ \E m \in Model : store' = [store EXCEPT ![m] = Cleaned(@)]
  /\ UNCHANGED <<setup, socket, buffer, up, down, requests, loadedEndpoints,
                 nextActions, status, pending, resetAt, unheard, dispatches, drops>>

-----------------------------------------------------------------------------
(* handleMessage, for the answer to a request.                               *)

\* Mutant: the action creators are put without being called.
creators(m) == FollowUps[m]

\* The stored action creators of a save of m, called with its result.
chained(m) == [i \in 1 .. Len(FollowUps[m]) |-> Save(FollowUps[m][i])]

\* Mutant: the stored actions are dispatched but not cleaned up.
HandleSuccessKeepsNextActions ==
  /\ pending = <<>>
  /\ setup = "running"
  /\ \E r \in {x \in down : x.ok} :
       LET a == requests[r.id] IN
       /\ down' = down \ {r}
       /\ store' = [store EXCEPT ![a.model] = Succeeded(@, a.method)]
       /\ pending' = IF r.id \in nextActions THEN chained(a.model) ELSE pending
  /\ UNCHANGED <<setup, socket, buffer, up, requests, loadedEndpoints, status,
                 nextActions, resetAt, unheard, dispatches, drops>>

HandleSuccess ==
  /\ pending = <<>>
  /\ setup = "running"
  /\ \E r \in {x \in down : x.ok} :
       LET a == requests[r.id] IN
       /\ down' = down \ {r}
       /\ store' = [store EXCEPT ![a.model] = Succeeded(@, a.method)]
       /\ IF r.id \in nextActions
          THEN /\ pending' = chained(a.model)
               /\ nextActions' = nextActions \ {r.id}
          ELSE UNCHANGED <<pending, nextActions>>
  /\ UNCHANGED <<setup, socket, buffer, up, requests, loadedEndpoints, status,
                 resetAt, unheard, dispatches, drops>>

\* The actions stored under the id stay there.
HandleError ==
  /\ pending = <<>>
  /\ setup = "running"
  /\ \E r \in {x \in down : ~x.ok} :
       LET a == requests[r.id] IN
       /\ down' = down \ {r}
       /\ store' = [store EXCEPT ![a.model] = Failed(@, a.method)]
  /\ UNCHANGED <<setup, socket, buffer, up, requests, loadedEndpoints,
                 nextActions, status, pending, resetAt, unheard, dispatches, drops>>

-----------------------------------------------------------------------------
(* The connection.                                                           *)

\* createConnection makes a socket when the client's reports CLOSED.
NewSocket == socket \in {"none", "waiting"}

\* websocketConnect: takeLatest drops the earlier setup; createConnection
\* resolves at once when the socket is open, else waits for it, or for a new
\* one, to open.  The socket a new one replaces keeps what it has buffered: it
\* sends that when it opens, but whoever listened to it was dropped.
WebsocketConnect ==
  /\ pending = <<>>
  /\ \/ /\ socket = "open"
        /\ setup' = "running"
        /\ websocketConnected
        /\ resetLoaded
        /\ UNCHANGED <<socket, buffer, unheard>>
     \/ /\ socket # "open"
        /\ socket' = "connecting"
        /\ setup' = "waiting"
        /\ websocketConnect
        /\ IF NewSocket
           THEN buffer' = {} /\ unheard' = unheard \union buffer
           ELSE UNCHANGED <<buffer, unheard>>
        /\ UNCHANGED <<loadedEndpoints, resetAt>>
  /\ UNCHANGED <<up, down, requests, nextActions, store, pending, dispatches, drops>>

\* No csrf cookie: createConnection rejects before it makes a socket.
ConnectRejected ==
  /\ pending = <<>>
  /\ NewSocket
  /\ setup' = "idle"
  /\ status' = [connected |-> FALSE, connecting |-> FALSE, error |-> TRUE]
  /\ ResetStore
  /\ UNCHANGED <<socket, buffer, up, down, requests, loadedEndpoints,
                 nextActions, pending, resetAt, dispatches, drops>>

\* The socket opens and flushes its buffer; then either the waiting setup or the
\* open event in handleMessage reports the connection and resets the cache.
Open ==
  /\ pending = <<>>
  /\ socket = "connecting"
  /\ socket' = "open"
  /\ up' = up \union buffer
  /\ buffer' = {}
  /\ \/ /\ setup # "idle"
        /\ setup' = "running"
        /\ websocketConnected
        /\ resetLoaded
     \/ /\ setup = "idle"
        /\ UNCHANGED <<setup, status, loadedEndpoints, resetAt>>
  /\ UNCHANGED <<down, requests, nextActions, store, pending, unheard, dispatches,
                 drops>>

\* The connection, or an attempt to make it, fails: what was on the wire is
\* lost and the socket waits for its next attempt.  A setup that waits for the
\* socket to open has no handler for it.
Close ==
  /\ pending = <<>>
  /\ socket \in {"connecting", "open"}
  /\ drops < MaxDrops
  /\ drops' = drops + 1
  /\ socket' = "waiting"
  /\ up' = {}
  /\ down' = {}
  /\ IF setup = "running" THEN websocketDisconnected
                          ELSE UNCHANGED <<status, store, unheard>>
  /\ UNCHANGED <<setup, buffer, requests, loadedEndpoints, nextActions, pending,
                 resetAt, dispatches>>

\* The next attempt.
Retry ==
  /\ pending = <<>>
  /\ socket = "waiting"
  /\ socket' = "connecting"
  /\ UNCHANGED <<setup, buffer, up, down, requests, loadedEndpoints, nextActions,
                 status, store, pending, resetAt, unheard, dispatches, drops>>

\* After a rejected setup nobody takes what the socket emits.
AnswerLost ==
  /\ pending = <<>>
  /\ setup = "idle"
  /\ \E r \in down : down' = down \ {r}
  /\ UNCHANGED <<setup, socket, buffer, up, requests, loadedEndpoints, nextActions,
                 status, store, pending, resetAt, unheard, dispatches, drops>>

\* The region answers a request; any save may be refused.
RegionAnswers ==
  /\ pending = <<>>
  /\ \E id \in up, ok \in BOOLEAN :
       /\ ok \/ requests[id].method = "save" \/ requests[id].model \in MayFail
       /\ up' = up \ {id}
       /\ down' = down \union {[id |-> id, ok |-> ok]}
  /\ UNCHANGED <<setup, socket, buffer, requests, loadedEndpoints, nextActions,
                 status, store, pending, resetAt, unheard, dispatches, drops>>

Next ==
  \/ Dispatch \/ TakePending \/ cleanup
  \/ HandleSuccess \/ HandleError
  \/ WebsocketConnect \/ ConnectRejected \/ Open \/ Close \/ Retry
  \/ RegionAnswers \/ AnswerLost

Spec == Init /\ [][Next]_vars

\* The scheduler empties its queue, the browser delivers what has arrived, the
\* socket keeps reconnecting and the region answers.
Fairness ==
  /\ WF_vars(TakePending)
  /\ WF_vars(HandleSuccess \/ HandleError)
  /\ WF_vars(Open \/ Retry)
  /\ WF_vars(RegionAnswers)

FairSpec == Spec /\ Fairness

-----------------------------------------------------------------------------
(* Properties.                                                               *)

InFlight == buffer \union up \union {r.id : r \in down}

\* Requests a slice may be busy with.
Asked == InFlight \union unheard

\* The cache never claims a list nobody will deliver: while connected, a model
\* in loadedEndpoints whose list cannot fail is in the store or being fetched.
\* sendMessage skips a fetch on the strength of that claim.
CacheCoherent ==
  \A m \in Model \ MayFail :
    status.connected /\ m \in loadedEndpoints =>
      store[m].loaded \/ \E id \in InFlight : requests[id] = List(m)

\* A list is requested at most once between two resets of the cache, however
\* many components ask for it and whenever the connection came and went.
FetchedOnce ==
  \A i, j \in resetAt + 1 .. Len(requests) :
    requests[i].method = "list" /\ requests[i] = requests[j] => i = j

\* No spinner or save button waits for an answer that cannot come: a slice that
\* says loading or saving has a request that is buffered, sent or answered.  The
\* only other way to stay busy is a request that was buffered when websocketConnect
\* came between two attempts to reconnect and a new socket took the place of the
\* one that holds it; the next reset of the store ends that.
BusyHasRequest ==
  \A m \in Model :
    /\ store[m].loading => \E id \in Asked : requests[id] = List(m)
    /\ store[m].saving => \E id \in Asked : requests[id] = Save(m)

\* Requests whose chained actions have been dispatched.
Launched ==
  {id \in DOMAIN requests :
     requests[id].method = "save" /\ FollowUps[requests[id].model] # <<>>}
    \ nextActions

\* A chain goes on only when the request it waits for has been answered, and at
\* most once for each: the saves sent are those the components dispatched and
\* the follow-ups of the requests that succeeded.
ChainOnce ==
  /\ Launched \intersect InFlight = {}
  /\ Cardinality({id \in DOMAIN requests : requests[id].method = "save"})
       + Len(pending)
       <= dispatches
            + MapThenSumSet(LAMBDA id : Len(FollowUps[requests[id].model]), Launched)

\* A component that asked for a list gets it, unless the connection is lost.
ListArrives ==
  \A m \in Model \ MayFail :
    (status.connected /\ m \in loadedEndpoints)
      ~> (store[m].loaded \/ ~status.connected)
=============================================================================
