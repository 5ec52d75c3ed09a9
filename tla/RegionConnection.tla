-------------------------- MODULE RegionConnection --------------------------
(* The connection of the AngularJS application to the region                 *)
(* (legacy/src/app/services/region.js): requests and replies by request id,  *)
(* a ping at every check, and a reconnect when too much goes unanswered.     *)
(*                                                                           *)
(* The WebSocket lives in the window and outlives the application: leaving   *)
(* for the React application destroys this service, coming back makes a new  *)
(* one that takes the socket over.  `wire` holds what was sent on the        *)
(* current socket and is not answered; the region answers in any order, or   *)
(* never.                                                                    *)
EXTENDS Naturals, FiniteSets

CONSTANTS
  maxMissedPings, \* unanswered pings that close the connection
  maxPatience,    \* unanswered pings and requests that close it
  MaxId,          \* bound on the messages one application sends
  MaxMounts,      \* bound on the times the application is mounted
  MaxDrops        \* bound on the failures of the connection

ASSUME RegionConnectionAssumption ==
  /\ {maxMissedPings, maxPatience} \subseteq Nat \ {0}
  /\ {MaxId, MaxMounts, MaxDrops} \subseteq Nat

VARIABLES
  mounted,       \* whether the application is on the page
  mounts,        \* how often it was mounted: names the current service
  state,         \* REGION_STATE of the service
  requestId,     \* last id it handed out
  callbacks,     \* ids of requests whose promise is not settled
  requests,      \* those that are remembered and counted by the check
  pingsInFlight, \* ids of pings not answered
  scheduled,     \* whether a check is scheduled (ensureConnectionPromise)
  connecting,    \* whether a defaultConnect waits (defaultConnectDefer)
  opened,        \* whether the open handlers are due in the next digest
  socket,        \* window.legacyWS
  attached,      \* whether it has the handlers of the current service
  wire,          \* messages sent on the socket and not answered
  drops

vars == <<mounted, mounts, state, requestId, callbacks, requests, pingsInFlight,
          scheduled, connecting, opened, socket, attached, wire, drops>>

service == <<requestId, callbacks, requests>>

Message == [sender: Nat, id: Nat, type: {"request", "ping"}]
Sent(id, type) == [sender |-> mounts, id |-> id, type |-> type]

TypeOK ==
  /\ mounted \in BOOLEAN /\ scheduled \in BOOLEAN /\ connecting \in BOOLEAN
  /\ opened \in BOOLEAN /\ attached \in BOOLEAN
  /\ mounts \in Nat /\ requestId \in Nat /\ drops \in Nat
  /\ state \in {"DOWN", "UP", "RETRY"}
  /\ callbacks \subseteq 1 .. requestId
  /\ requests \subseteq callbacks
  /\ pingsInFlight \subseteq 1 .. requestId
  /\ socket \in {"none", "connecting", "open", "closed"}
  /\ wire \subseteq Message

\* The first mount: bootstrap.js opened the socket and had its answers on it.
Init ==
  /\ mounted = TRUE
  /\ mounts = 1
  /\ state = "DOWN"
  /\ requestId = 0
  /\ callbacks = {}
  /\ requests = {}
  /\ pingsInFlight = {}
  /\ scheduled = FALSE
  /\ connecting = FALSE
  /\ opened = FALSE
  /\ socket = "open"
  /\ attached = FALSE
  /\ wire = {}
  /\ drops = 0

-----------------------------------------------------------------------------
(* Helpers of the service.                                                   *)

newRequestId == requestId + 1

\* A message is dropped silently when the socket is not open.
send(message) ==
  wire' = IF socket = "open" THEN wire \union {message} ELSE wire

\* Mutant: the pings of the last connection still count.
onopenKeepsPings ==
  /\ state' = "UP"
  /\ scheduled' = TRUE
  /\ opened' = TRUE
  /\ UNCHANGED pingsInFlight

onopen ==
  /\ state' = "UP"
  /\ pingsInFlight' = {}
  /\ scheduled' = TRUE
  /\ opened' = TRUE

\* Mutant: a new socket gets no handlers.
connectUnheard(current) ==
  /\ attached' = (current # "none")
  /\ \/ current = "open" /\ socket' = current /\ onopen
     \/ /\ current # "open"
        /\ socket' = "connecting"
        /\ UNCHANGED <<state, pingsInFlight, scheduled, opened>>

\* Take over the window's socket when it is open or opening, else make one.
connect(current) ==
  /\ attached' = TRUE
  /\ \/ current = "open" /\ socket' = current /\ onopen
     \/ /\ current # "open"
        /\ socket' = "connecting"
        /\ UNCHANGED <<state, pingsInFlight, scheduled, opened>>

\* Mutant: the state stays what it was.
retryInState ==
  /\ socket' = "none"
  /\ attached' = FALSE
  /\ wire' = {}
  /\ UNCHANGED state

\* Close the socket, forget it, and leave the reconnect to the next check.
retry ==
  /\ socket' = "none"
  /\ attached' = FALSE
  /\ wire' = {}
  /\ state' = "RETRY"

-----------------------------------------------------------------------------
(* The application.                                                          *)

\* A page loads its managers.  A second call before the first is settled shares
\* its promise, and a connected service has nothing to do.
defaultConnect ==
  /\ mounted
  /\ ~connecting /\ state # "UP"
  /\ connecting' = TRUE
  /\ connect(socket)
  /\ UNCHANGED <<mounted, mounts, service, wire, drops>>

\* The pages call methods once their managers are loaded.
callMethod ==
  /\ mounted /\ state # "DOWN"
  /\ requestId < MaxId
  /\ requestId' = newRequestId
  /\ callbacks' = callbacks \union {newRequestId}
  /\ \E remember \in BOOLEAN :
       requests' = IF remember THEN requests \union {newRequestId} ELSE requests
  /\ send(Sent(newRequestId, "request"))
  /\ UNCHANGED <<mounted, mounts, state, pingsInFlight, scheduled, connecting,
                 opened, socket, attached, drops>>

\* The user leaves for the React application: $destroy, which cancels the check
\* and takes the socket's handlers away.  The timeout of the open handlers, when
\* they are due, is not cancelled by the code; the model forgets it, and what waits
\* for it, with the service: it would call the handlers of managers whose pages
\* are gone, of which no property speaks.
Unmount ==
  /\ mounted
  /\ mounted' = FALSE
  /\ pingsInFlight' = {}
  /\ scheduled' = FALSE
  /\ attached' = FALSE
  /\ opened' = FALSE
  /\ connecting' = FALSE
  /\ UNCHANGED <<mounts, state, service, socket, wire, drops>>

\* The user comes back: a new service.
Mount ==
  /\ ~mounted
  /\ mounts < MaxMounts
  /\ mounted' = TRUE
  /\ mounts' = mounts + 1
  /\ state' = "DOWN"
  /\ requestId' = 0
  /\ callbacks' = {}
  /\ requests' = {}
  /\ UNCHANGED <<pingsInFlight, scheduled, connecting, opened, socket, attached,
                 wire, drops>>

-----------------------------------------------------------------------------
(* The check, every connectionCheckInterval.                                 *)

Missed == Cardinality(pingsInFlight)

\* Mutant: unanswered requests alone close the connection.
ImpatientAtRequests ==
  \/ Missed >= maxMissedPings
  \/ Missed + Cardinality(requests) >= maxPatience

Impatient ==
  \/ Missed >= maxMissedPings
  \/ Missed > 0 /\ Missed + Cardinality(requests) >= maxPatience

ping ==
  /\ requestId < MaxId
  /\ requestId' = newRequestId
  /\ pingsInFlight' = pingsInFlight \union {newRequestId}
  /\ send(Sent(newRequestId, "ping"))
  /\ UNCHANGED <<state, callbacks, requests, opened, socket, attached>>

\* Each check schedules the next one first.
ensureConnection ==
  /\ scheduled
  /\ \/ /\ state = "UP" /\ Impatient
        /\ retry
        /\ UNCHANGED <<pingsInFlight, service, scheduled, opened>>
     \/ /\ state = "UP" /\ ~Impatient
        /\ ping
        /\ UNCHANGED scheduled
     \/ /\ state = "RETRY"
        /\ connect("none")
        /\ wire' = {}
        /\ UNCHANGED service
  /\ UNCHANGED <<mounted, mounts, connecting, drops>>

-----------------------------------------------------------------------------
(* Events of the socket.                                                     *)

SocketOpens ==
  /\ socket = "connecting"
  /\ socket' = "open"
  /\ \/ attached /\ onopen
     \/ ~attached /\ UNCHANGED <<state, pingsInFlight, scheduled, opened>>
  /\ UNCHANGED <<mounted, mounts, service, connecting, attached, wire, drops>>

\* The digest after the connection opened runs the open handlers.
RunOpenHandlers ==
  /\ opened
  /\ opened' = FALSE
  /\ connecting' = FALSE
  /\ UNCHANGED <<mounted, mounts, state, service, pingsInFlight, scheduled, socket,
                 attached, wire, drops>>

\* Mutant: an error leaves a waiting defaultConnect waiting.
errorIgnored == UNCHANGED connecting

errored == connecting' = FALSE

\* The socket closes; one that fails has an error event first, which rejects a
\* waiting defaultConnect.
SocketCloses ==
  /\ socket \in {"connecting", "open"}
  /\ drops < MaxDrops
  /\ drops' = drops + 1
  /\ \/ /\ attached
        /\ retry
        /\ \/ errored
           \/ socket = "open" /\ UNCHANGED connecting
     \/ /\ ~attached
        /\ socket' = "closed"
        /\ wire' = {}
        /\ UNCHANGED <<state, attached, connecting>>
  /\ UNCHANGED <<mounted, mounts, service, pingsInFlight, scheduled, opened>>

\* Mutant: an answered request is still remembered.
onResponseRemembers(id) ==
  callbacks' = callbacks \ {id} /\ UNCHANGED requests

onResponse(id) ==
  callbacks' = callbacks \ {id} /\ requests' = requests \ {id}

\* An answer: onResponse settles and forgets the request with its id,
\* onPingReply the ping.  Nobody listens while the application is away.
RegionReplies ==
  \E m \in wire :
    /\ wire' = wire \ {m}
    /\ \/ /\ attached /\ m.type = "request"
          /\ onResponse(m.id)
          /\ UNCHANGED pingsInFlight
       \/ /\ attached /\ m.type = "ping"
          /\ pingsInFlight' = pingsInFlight \ {m.id}
          /\ UNCHANGED <<callbacks, requests>>
       \/ ~attached /\ UNCHANGED <<callbacks, requests, pingsInFlight>>
    /\ UNCHANGED <<mounted, mounts, state, requestId, scheduled, connecting, opened,
                   socket, attached, drops>>

Next ==
  \/ defaultConnect \/ callMethod \/ Unmount \/ Mount
  \/ ensureConnection
  \/ SocketOpens \/ RunOpenHandlers \/ SocketCloses \/ RegionReplies

Spec == Init /\ [][Next]_vars

\* Timeouts fire, and the region can be reached again and again.
FairSpec ==
  /\ Spec
  /\ WF_vars(ensureConnection)
  /\ WF_vars(RunOpenHandlers)
  /\ SF_vars(SocketOpens)

-----------------------------------------------------------------------------
(* Properties.                                                               *)

\* While the service says it is connected the socket is open and its own, and
\* the next check is scheduled: no failure goes unnoticed.
Watched ==
  mounted /\ state = "UP" => socket = "open" /\ attached /\ scheduled

\* A ping that counts as missed was sent on this connection and is unanswered.
MissedOnWire ==
  mounted /\ state = "UP" =>
    \A id \in pingsInFlight : Sent(id, "ping") \in wire

\* The service gives up a connection only over a ping it left unanswered.
DropsOnlySilent ==
  [][ensureConnection /\ state = "UP" /\ state' = "RETRY"
       => \E m \in wire : m.type = "ping" /\ m.sender = mounts]_vars

\* Two unanswered messages of one mount never share an id.
FreshInMount ==
  \A m, n \in wire : m.sender = n.sender /\ m.id = n.id => m = n

\* A connection that was lost comes back.
Reconnects ==
  mounted /\ state = "RETRY" /\ scheduled ~> state = "UP" \/ ~mounted

\* A page that waits for the connection gets its answer.
ConnectSettles == connecting ~> ~connecting
=============================================================================
