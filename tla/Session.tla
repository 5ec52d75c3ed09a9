------------------------------- MODULE Session -------------------------------
(* From the login to the logout: App (ui/src/app/App.tsx), the http sagas     *)
(* that authenticate, the status slice, and the saga that sets the socket up  *)
(* (setupWebSocket, under takeLatest).                                        *)
(*                                                                           *)
(* In a turn the scheduler of redux-saga dispatches the actions of `queue`    *)
(* one after another; the world acts between turns.  React runs the effects   *)
(* of a render in a turn of their own, or before the next render, that is,    *)
(* inside the turn that causes it.  The store and the sagas stay when App is  *)
(* unmounted for the AngularJS application and mounted again.                 *)
(*                                                                           *)
(* A socket is a ReconnectingWebSocket: connecting, open, waiting for its     *)
(* next attempt (which is readyState CLOSED), or closed for good.             *)
EXTENDS Naturals, Sequences, FiniteSets

CONSTANTS
  MaxMounts, \* bound on the mounts of App
  MaxLogins, \* bound on the logins
  MaxErrors, \* bound on the requests that fail, those for the user included
  MaxDrops   \* bound on the connections that fail or are lost

ASSUME SessionAssumption == {MaxMounts, MaxLogins, MaxErrors, MaxDrops} \subseteq Nat

VARIABLES
  session,  \* whether the region holds the user logged in
  http,     \* authentication requests under way
  sockets,  \* the sockets that were created; the client uses the last
  asked,    \* requests for the user: buffered by the socket, or sent
  setup,    \* setupWebSocket
  status,   \* the status slice
  user,     \* the user in the store (auth)
  queue,    \* actions to dispatch in this turn
  effects,  \* dispatches that React owes for its last render
  crossed,  \* history: App connected again while the connection was down or the
            \* user logged out
  mounted, mounts, logins, errors, drops

counters == <<mounts, logins, errors, drops>>
world == <<session, http, mounted, crossed, counters>>
vars == <<session, http, sockets, asked, setup, status, user, queue, effects, crossed,
          mounted, counters>>

Client == Len(sockets)
ClientIs(state) == sockets # <<>> /\ sockets[Client] = state
Live == {i \in DOMAIN sockets : sockets[i] # "closed"}
BetweenTurns == queue = <<>>

TypeOK ==
  /\ session \in BOOLEAN
  /\ http \subseteq {"check", "login", "logout"}
  /\ sockets \in Seq({"connecting", "open", "waiting", "closed"})
  /\ asked \subseteq {"buffered", "sent"}
  /\ setup \in {"none", "creating", "ready", "watching", "ended"}
  /\ status \in [authenticating: BOOLEAN, authenticated: BOOLEAN, connected: BOOLEAN,
                 connecting: BOOLEAN, error: BOOLEAN]
  /\ user \in [loading: BOOLEAN, known: BOOLEAN, errors: BOOLEAN]
  /\ {mounted, crossed} \subseteq BOOLEAN
  /\ setup \in {"creating", "ready", "watching"} => Client \in Live

loggedOut == [authenticating |-> FALSE, authenticated |-> FALSE, connected |-> FALSE,
              connecting |-> FALSE, error |-> FALSE]

nobody == [loading |-> FALSE, known |-> FALSE, errors |-> FALSE]

\* The page is loaded, by a user who is logged in or not.
Init ==
  /\ session \in BOOLEAN
  /\ http = {} /\ sockets = <<>> /\ asked = {} /\ setup = "none"
  /\ status = [loggedOut EXCEPT !.authenticating = TRUE]
  /\ user = nobody
  /\ queue = <<>>
  /\ effects = <<"checkAuthenticated">>
  /\ mounted = TRUE /\ crossed = FALSE
  /\ mounts = 1 /\ logins = 0 /\ errors = 0 /\ drops = 0

-----------------------------------------------------------------------------
(* Reducers.                                                                 *)

websocketConnected(s) ==
  [s EXCEPT !.connected = TRUE, !.connecting = FALSE, !.error = FALSE]

\* The status slice; checkedIn and checkedOut are the two payloads of
\* checkAuthenticatedSuccess.
Reduced(a, s) ==
  CASE a \in {"checkAuthenticatedStart", "loginStart"} ->
         [s EXCEPT !.authenticating = TRUE]
    [] a = "checkedIn" -> [s EXCEPT !.authenticating = FALSE, !.authenticated = TRUE]
    [] a = "checkedOut" -> [s EXCEPT !.authenticating = FALSE, !.authenticated = FALSE]
    [] a = "checkAuthenticatedError" ->
         [s EXCEPT !.authenticating = FALSE, !.authenticated = FALSE, !.error = TRUE]
    [] a = "loginSuccess" ->
         [s EXCEPT !.authenticating = FALSE, !.authenticated = TRUE, !.error = FALSE]
    [] a = "loginError" -> [s EXCEPT !.authenticating = FALSE]
    [] a = "logoutSuccess" -> loggedOut
    [] a = "websocketConnect" -> [s EXCEPT !.connected = FALSE, !.connecting = TRUE]
    [] a = "websocketConnected" -> websocketConnected(s)
    [] a = "websocketDisconnected" -> [s EXCEPT !.connected = FALSE]
    [] a = "websocketError" ->
         [s EXCEPT !.connected = FALSE, !.connecting = FALSE, !.error = TRUE]
    [] OTHER -> s

\* Mutant: an error leaves the user loading.
UserStillLoading(a, asks) ==
  CASE a = "fetch" /\ asks -> [user EXCEPT !.loading = TRUE]
    [] a = "fetchSuccess" -> [user EXCEPT !.loading = FALSE, !.known = TRUE]
    [] a = "fetchError" -> [user EXCEPT !.errors = TRUE]
    [] a = "logoutSuccess" -> nobody
    [] OTHER -> user

\* The user survives every reset of the store but that of the logout, and one who
\* is known stays so while another request for it is under way or fails.
ReducedUser(a, asks) ==
  CASE a = "fetch" /\ asks -> [user EXCEPT !.loading = TRUE]
    [] a = "fetchSuccess" -> [user EXCEPT !.loading = FALSE, !.known = TRUE]
    [] a = "fetchError" -> [user EXCEPT !.loading = FALSE, !.errors = TRUE]
    [] a = "logoutSuccess" -> nobody
    [] OTHER -> user

-----------------------------------------------------------------------------
(* Effects of App.                                                           *)

EffectsOf(old, new) ==
  (IF old.authenticated /\ ~new.authenticated THEN <<"checkAuthenticated">> ELSE <<>>)
    \o (IF ~old.authenticated /\ new.authenticated THEN <<"websocketConnect">> ELSE <<>>)
    \o (IF ~old.connected /\ new.connected THEN <<"fetch">> ELSE <<>>)

\* Dispatch the first action of the queue: the reducers change the store; if
\* that renders App, the effects it owes are dispatched before it renders, and
\* it owes those of the new render.  `puts` is what a saga puts on the action.
Dispatch(a, puts, asks) ==
  LET new == Reduced(a, status)
      newUser == ReducedUser(a, asks)
  IN /\ status' = new
     /\ user' = newUser
     /\ IF mounted /\ <<new, newUser>> # <<status, user>>
        THEN /\ queue' = Tail(queue) \o effects \o puts
             /\ effects' = EffectsOf(status, new)
        ELSE /\ queue' = Tail(queue) \o puts
             /\ UNCHANGED effects

Task(a) == queue # <<>> /\ Head(queue) = a

\* Effects run in a turn of their own.
FlushEffects ==
  /\ BetweenTurns /\ effects # <<>>
  /\ queue' = effects
  /\ effects' = <<>>
  /\ UNCHANGED <<world, sockets, asked, setup, status, user>>

\* App leaves the page (React runs what it owes first) and returns.
Unmount ==
  /\ BetweenTurns /\ mounted
  /\ mounted' = FALSE
  /\ queue' = effects /\ effects' = <<>>
  /\ UNCHANGED <<crossed, session, http, counters, sockets, asked, setup, status, user>>

Mount ==
  /\ BetweenTurns /\ ~mounted /\ mounts < MaxMounts
  /\ mounted' = TRUE
  /\ mounts' = mounts + 1
  /\ effects' = <<"checkAuthenticated">> \o EffectsOf(loggedOut, status)
  /\ UNCHANGED <<crossed, session, http, logins, errors, drops, sockets, asked, setup, status,
                 user, queue>>

Page ==
  IF user.loading \/ status.connecting \/ status.authenticating THEN "loading"
  ELSE IF ~status.authenticated /\ ~status.error THEN "login"
  ELSE IF status.error \/ ~status.connected THEN "failed" ELSE "routes"

-----------------------------------------------------------------------------
(* The http sagas.                                                           *)

Starts(kind) ==
  CASE kind = "check" -> "checkAuthenticatedStart"
    [] kind = "login" -> "loginStart"
    [] kind = "logout" -> "logoutStart"

\* takeLatest: an earlier request of the kind is no longer waited for.
TakeCheckAuthenticated ==
  /\ Task("checkAuthenticated")
  /\ http' = http \union {"check"}
  /\ Dispatch("checkAuthenticated", <<Starts("check")>>, FALSE)
  /\ UNCHANGED <<crossed, session, mounted, counters, sockets, asked, setup>>

\* The user logs in on the login page.  (React runs what it owes before a click.)
login ==
  /\ BetweenTurns /\ effects = <<>> /\ mounted /\ Page = "login" /\ logins < MaxLogins
  /\ logins' = logins + 1
  /\ http' = http \union {"login"}
  /\ queue' = <<Starts("login")>>
  /\ UNCHANGED <<crossed, session, mounted, mounts, errors, drops, sockets, asked, setup, status,
                 user, effects>>

\* Mutant: the header offers the logout to everybody who is authenticated.
mayLogoutAuthenticated == mounted /\ status.authenticated

\* The header offers the logout once it knows the user.
mayLogout == mounted /\ user.known

\* (A second click starts the request again, which is no different.)
logout ==
  /\ BetweenTurns /\ effects = <<>> /\ mayLogout
  /\ "logout" \notin http
  /\ http' = http \union {"logout"}
  /\ queue' = <<Starts("logout")>>
  /\ UNCHANGED <<crossed, session, mounted, counters, sockets, asked, setup, status, user, effects>>

\* The saga's put after the region's reply.
Answer(kind) ==
  CASE kind = "check" -> IF session THEN "checkedIn" ELSE "checkedOut"
    [] kind = "login" -> "loginSuccess"
    [] kind = "logout" -> "logoutSuccess"

Failure(kind) ==
  CASE kind = "check" -> "checkAuthenticatedError"
    [] kind = "login" -> "loginError"
    [] kind = "logout" -> "logoutError"

HttpReplies ==
  /\ BetweenTurns
  /\ \E kind \in http :
       /\ http' = http \ {kind}
       /\ \/ /\ queue' = <<Answer(kind)>>
             /\ session' = (kind = "login" \/ (session /\ kind # "logout"))
             /\ UNCHANGED errors
          \/ /\ errors < MaxErrors
             /\ errors' = errors + 1
             /\ queue' = <<Failure(kind)>>
             /\ UNCHANGED session
  /\ UNCHANGED <<crossed, mounted, mounts, logins, drops, sockets, asked, setup, status, user,
                 effects>>

\* What the saga puts next.
FollowUp(a) ==
  CASE a = "loginSuccess" -> <<"websocketConnect">>
    [] a = "logoutSuccess" -> <<"websocketDisconnect">>
    [] OTHER -> <<>>

\* Actions that only the reducers and the http sagas know.
TakePlain ==
  /\ queue # <<>>
  /\ Head(queue) \notin {"checkAuthenticated", "websocketConnect", "ready",
                         "websocketDisconnect", "fetch"}
  /\ Dispatch(Head(queue), FollowUp(Head(queue)), FALSE)
  /\ UNCHANGED <<world, sockets, asked, setup>>

-----------------------------------------------------------------------------
(* setupWebSocket.                                                           *)

\* Mutant: a socket that was closed for good is used again.
createsWhenWaiting == sockets = <<>> \/ ClientIs("waiting")

\* createConnection makes a socket if there is none or it is not connected.
creates == sockets = <<>> \/ ClientIs("waiting") \/ ClientIs("closed")

\* websocketConnect cancels the setup under way and starts another.  The socket of
\* the cancelled one stays as it is.
TakeConnect ==
  /\ Task("websocketConnect")
  /\ \/ /\ creates
        /\ sockets' = Append(sockets, "connecting")
        /\ asked' = {}
        /\ setup' = "creating"
        /\ Dispatch("websocketConnect", <<>>, FALSE)
     \/ /\ creates   \* there is no csrf cookie: buildURL throws
        /\ errors < MaxErrors
        /\ setup' = "ended"
        /\ Dispatch("websocketConnect", <<"websocketError">>, FALSE)
        /\ UNCHANGED <<sockets, asked>>
     \/ /\ ~creates
        /\ setup' = IF ClientIs("open") THEN "ready" ELSE "creating"
        /\ Dispatch("websocketConnect", IF ClientIs("open") THEN <<"ready">> ELSE <<>>, FALSE)
        /\ UNCHANGED <<sockets, asked>>
  /\ crossed' = \/ crossed \/ ~session \/ ClientIs("waiting")
                \/ setup = "watching" /\ ~ClientIs("open")
  /\ UNCHANGED <<session, http, mounted, mounts, logins, drops>>
  /\ errors' = IF setup' = "ended" THEN errors + 1 ELSE errors

\* The connection is there: websocketConnected, then the saga watches the socket
\* and takes requests.
TakeReady ==
  /\ Task("ready")
  /\ setup' = IF setup = "ready" THEN "watching" ELSE setup
  /\ queue' = Tail(queue) \o (IF setup = "ready" THEN <<"websocketConnected">> ELSE <<>>)
  /\ UNCHANGED <<world, sockets, asked, status, user, effects>>

\* The race takes websocketDisconnect while the saga watches the socket: it closes
\* the channel and with it the socket.  The loop then races over a closed channel,
\* whose take returns at once: it does so for ever or until the stack overflows.
TakeDisconnect ==
  /\ Task("websocketDisconnect")
  /\ IF setup = "watching"
     THEN /\ sockets' = [sockets EXCEPT ![Client] = "closed"]
          /\ asked' = {}
          /\ setup' = "ended"
          /\ \E after \in {<<>>, <<"websocketError">>} :
               Dispatch("websocketDisconnect", <<"websocketDisconnected">> \o after, FALSE)
     ELSE /\ Dispatch("websocketDisconnect", <<>>, FALSE)
          /\ UNCHANGED <<sockets, asked, setup>>
  /\ UNCHANGED world

\* App fetches the user, the version and the settings: a request is sent if a saga
\* takes it, and waits in the socket until that is open.
TakeFetch ==
  /\ Task("fetch")
  /\ asked' = IF setup # "watching" THEN asked
              ELSE asked \union {IF ClientIs("open") THEN "sent" ELSE "buffered"}
  /\ Dispatch("fetch", <<>>, setup = "watching")
  /\ UNCHANGED <<world, sockets, setup>>

-----------------------------------------------------------------------------
(* The sockets.                                                              *)

\* Mutant: events reach the store through the channel of a cancelled setup too.
HearsAll(i, puts) == queue' = puts

\* What the saga puts on an event of socket i.
Hears(i, puts) == queue' = IF i = Client /\ setup = "watching" THEN puts ELSE <<>>

SocketOpens(i) ==
  /\ BetweenTurns
  /\ sockets[i] = "connecting"
  /\ sockets' = [sockets EXCEPT ![i] = "open"]
  /\ IF i = Client /\ setup = "creating"
     THEN setup' = "ready" /\ queue' = <<"ready">>
     ELSE Hears(i, <<"websocketConnected">>) /\ UNCHANGED setup
  /\ asked' = IF i = Client /\ asked # {} THEN {"sent"} ELSE asked
  /\ UNCHANGED <<world, status, user, effects>>

\* An attempt fails, perhaps by a timeout, or an open connection is lost.
SocketCloses(i) ==
  /\ BetweenTurns
  /\ sockets[i] \in {"connecting", "open"}
  /\ drops < MaxDrops
  /\ drops' = drops + 1
  /\ sockets' = [sockets EXCEPT ![i] = "waiting"]
  /\ \/ Hears(i, <<"websocketDisconnected">>)
     \/ /\ sockets[i] = "connecting"
        /\ Hears(i, <<"websocketDisconnected", "websocketError">>)
  /\ asked' = IF i = Client THEN asked \ {"sent"} ELSE asked
  /\ UNCHANGED <<crossed, session, http, mounted, mounts, logins, errors, setup, status, user,
                 effects>>

SocketRetries(i) ==
  /\ BetweenTurns
  /\ sockets[i] = "waiting"
  /\ sockets' = [sockets EXCEPT ![i] = "connecting"]
  /\ UNCHANGED <<world, asked, setup, status, user, queue, effects>>

\* The reply to the request for the user arrives: the user or an error.
RegionReplies ==
  /\ BetweenTurns
  /\ "sent" \in asked /\ ClientIs("open")
  /\ asked' = asked \ {"sent"}
  /\ \/ /\ Hears(Client, <<"fetchSuccess">>)
        /\ UNCHANGED errors
     \/ /\ errors < MaxErrors
        /\ errors' = errors + 1
        /\ Hears(Client, <<"fetchError">>)
  /\ UNCHANGED <<session, http, mounted, crossed, mounts, logins, drops, sockets, setup,
                 status, user, effects>>

-----------------------------------------------------------------------------
Scheduler ==
  \/ TakeCheckAuthenticated \/ TakePlain
  \/ TakeConnect \/ TakeReady \/ TakeDisconnect \/ TakeFetch

Next ==
  \/ Scheduler \/ FlushEffects
  \/ Unmount \/ Mount
  \/ login \/ logout \/ HttpReplies
  \/ \E i \in DOMAIN sockets : SocketOpens(i) \/ SocketCloses(i) \/ SocketRetries(i)
  \/ RegionReplies

Spec == Init /\ [][Next]_vars

\* A turn ends, React runs what it owes, the region answers, and a socket that
\* the client uses tries again until it is open.
FairSpec ==
  /\ Spec
  /\ WF_vars(Scheduler) /\ WF_vars(FlushEffects)
  /\ WF_vars(HttpReplies) /\ WF_vars(RegionReplies)
  /\ WF_vars(\E i \in DOMAIN sockets : i = Client /\ (SocketOpens(i) \/ SocketRetries(i)))

-----------------------------------------------------------------------------
(* Properties.                                                               *)

\* There is one connection: the login puts websocketConnect and App's effect
\* dispatches it too, but a socket is made once; and none is left when the user is
\* logged out.  It takes a second mount of App to connect while the connection is
\* down (a socket that waits for its next attempt counts as closed, and another is
\* made beside it) or while a logout is under way (its disconnect then finds no
\* race to take it).
OneSocket ==
  BetweenTurns =>
    /\ Cardinality(Live) <= 1 \/ crossed
    /\ ~session => Live = {} \/ crossed
    /\ crossed => mounts > 1

\* The store says connected exactly while the socket it watches is open: what is
\* shown follows the connection through logins, losses and remounts.
ConnectedIffOpen ==
  BetweenTurns => (status.connected <=> setup = "watching" /\ ClientIs("open"))

\* A user who is logged in gets to see the pages, as a user the store knows or has
\* the region's error for, unless the connection has an error to show.  (Only the
\* reply says who the user is: a user that is loading when the connection is lost
\* stays so, for the reset of the store keeps it, until a new connection asks again.)
PagesShown ==
  mounted /\ status.authenticated
    ~> \/ Page = "routes" /\ (user.known \/ user.errors)
       \/ status.error \/ ~status.authenticated \/ ~mounted
=============================================================================
