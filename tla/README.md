# TLA+ models of maas-ui

maas-ui is the web interface of MAAS: a React application (`ui`) and an older
AngularJS one (`legacy`), mounted in turn by a single-spa shell (`root`). All
they show comes from a *region controller*, over one websocket per application.
What is hard in this code is not the rendering but the protocol under it:
requests, replies and notifications that interleave, a socket that is lost and
comes back, caches and flags that have to survive that, polls that start and
stop, lists that are fetched in batches while they change. This directory models
that part, and the forms that live on top of it. TLC checks it on small
instances; TLAPS proves the safety invariants and action properties of every
module, and two refinements, for every value of the constants. Liveness is TLC's.

Source paths below are relative to `src/`. `PROJECT.json` holds the tables: the
components, the runs, the source lines of every definition, the hazards.

## 1. The system

### 1.1 Components

| Component | State | Operations | What makes it correct |
|---|---|---|---|
| websocket sagas, `ui/src/app/base/sagas/websockets.ts` | `loadedEndpoints`, `batchRequests`, `nextActions`, `pollingRequests`, `fileContextRequests`; the running sagas | set up and watch the socket; `sendMessage`; `handleMessage`; batches; chained actions; polls; file contexts; several values in one action | a list is fetched once and the cache never claims what nobody delivers; a flag that says busy has a request behind it; a chain goes on once, after success; a poll ends with its component; a list arrives completely |
| websocket client, `ui/src/websocket-client.ts` | next id, requests by id, a reconnecting socket | `send`, `getRequest`, `connect` | a reply finds its action |
| action handlers, `.../sagas/actions.ts` | none | save, then save what depends on the result | see chains |
| http sagas, `.../sagas/http.ts` | cookies | authenticate, log in and out, license keys, scripts | login leads to one connection, logout ends it |
| status slice, root reducer, `App` | authenticating, authenticated, connected, connecting, errors | effects that check, connect and fetch; reset of the store | connected follows the socket; who is logged in gets to the pages; nothing of a lost connection survives in the store |
| action forms, `ActionForm`, `FormikFormContent`, `NodeActionFormWrapper`, `useProcessing`; the lists of machines and controllers | selection, open form, statuses and event errors of each node | open, submit, cancel; actions of row menus; deletions; pages mounted anew | a status has a request behind it; a form says it has succeeded when it has, and only then |
| machine network tab, `.../MachineDetails/MachineNetwork/*`, `useMachineDetailsForm`, `networking.ts` | interfaces of the machine, selected rows, the open form | check, open, submit, cancel; replies and notifications | what is asked for fits the machine; a form is closed by its own answer |
| slices, `ui/src/app/store/*` | items, statuses, `loading`/`loaded`/`saving`/`saved`/`errors` | reducers of replies and notifications | no duplicate, no deleted and no stale row; flags end |
| config slice | the settings | fetch, update (several values), notify | values are written in turn, an old one never over a newer one |
| polling views (`ImageStatus`, `ImageList`) | mounted or not | start and stop polls in effects | no poll without its component, none missing |
| region connection, `legacy/src/app/services/region.js` | state, ids, unanswered requests and pings, the socket kept in `window.legacyWS` | connect, send, check every 5 s, ping, retry, settle replies, mount and unmount | a connection that says it is up is watched; only silence ends it; it comes back; ids are not confused |
| manager, `legacy/src/app/services/manager.js` | items, active item, loading flags, queue of notifications | load and reload in batches, get/update/delete, notify, reload on open | no duplicates; the list matches the region once all is quiet; the region knows the active item |
| manager helper | scopes | load for a page | in Manager, for one manager |
| general, events and other managers; pure code (`converter.js`, `validation.js`, selectors, filters) | | | not modelled, see 6 |
| other views, controllers, `root`, `shared`, `proxy`, `integration` | rendering, development tools | | not modelled: they only dispatch what the models let happen in any order |

### 1.2 How they interact

A component of a page dispatches an action. A saga takes it, `sendMessage` puts
`...Start` (the slice becomes busy), and the client sends a request with an id.
The reply comes as a socket event; `handleMessage` finds the action by the id and
puts `...Success` or `...Error`, then perhaps the next batch or the chained
actions. Notifications come unasked on the same socket and go straight to the
reducers. When the socket closes the root reducer clears the store; the socket
reconnects by itself, and the open event clears the cache. The AngularJS
application has the same roles in `RegionConnection` (socket) and `Manager`
(collection), tied together by open handlers, promises and notifiers.

### 1.3 What is hard

* Everything is one thread, but the order of *turns* is free: replies, notify
  messages, socket events, timeouts and React effects interleave, and the saga
  scheduler orders the puts inside a turn.
* The socket may be lost at any point. Requests on their way are never answered.
* The region announces a change some time after making it, so a list may be
  ahead of the announcements and a reply may come before or after its own.
* Sagas and promises that wait survive the loss of the connection.
* Views learn of a reply by flags that several requests share (`statuses`,
  `eventErrors`, `saving`), and by comparing renders; a component may be kept, or
  mounted anew, where its author thought otherwise.

`PROJECT.json` lists each hazard at its line with the properties that cover it.

## 2. Modules

Every module treats a JavaScript turn as a step unless it says otherwise. The
region and other clients are external: modelled by what the code relies on.
A module's proofs are in the module of its name followed by `Proofs`; those about
Polling are in `WebSocketSagasProofs` with the rest of `websockets.ts`, for which
Polling's specification has names that begin with `Poll`. Operators
marked `Mutant:` in a comment are not used by the specifications. Each
is a plausible mistake in the definition below it; replacing the definition by it
makes TLC report the property that `PROJECT.json` names.

**WebSocketSagas** is the request core of
`websockets.ts`, `websocket-client.ts`, the generic slice, the status slice and
the root reducer. `Dispatch` is a component's action, `TakePending` an action
that a saga put and the watcher takes later in the same turn, `sendMessage` the
cache test and the send, `HandleSuccess`/`HandleError` the reply, `chained` the
next actions, `WebsocketConnect`/`ConnectRejected`/`Open`/`Close`/`Retry` the
connection, with the buffering of `reconnecting-websocket` and the store reset. Up
and down are sets: the region answers in any order. Between two attempts the
reconnecting socket reports CLOSED, and a `websocketConnect` that comes then puts a
new one with an empty buffer in its place; what the first had buffered is in the
history variable `unheard` until the store is reset. `AnswerLost` is an answer that
comes after a setup was rejected, when nobody takes what the socket emits. The
`catch` of `sendMessage` is left out: nothing these actions send can throw.

**ListService** is what WebSocketSagas promises to the components: a list is
asked for once per connection, is expected until it arrives, is refused, or is
forgotten with the socket it was buffered in (`Forget`, only while there is no
connection), and is not shown over a connection that was lost.
`WebSocketSagasRefinement` gives the mapping (the cache is `asked`; buffered,
sent and answered requests and pending actions are `expected`); the proof is in
`WebSocketSagasProofs`. The maps from ids to actions, the buffer of the socket
and the order of the scheduler are what the promise hides.

**Polling** is `handlePolling`, `pollAction` and the components that poll. The
subtlety is *inside* a turn, so the scheduler's queue is explicit. React runs
pending effects in a turn of their own, or inside a saga's turn when another
render comes first. A start dispatched in the turn of the stop, before the id is
unregistered, is ignored and its component stays without a poll; the model does
so too, and the properties say what holds all the same.

**Session** is the way from login to logout: `App`'s effects and mounts, the
authentication sagas of `http.ts`, `status` and `user.auth`, `setupWebSocket`
under `takeLatest` with the race it contains, and the sockets themselves.
Requests over HTTP may fail, and so may the one for the user, over the socket:
App then shows its pages without knowing the user. Turns are split into the
scheduler's steps, as in Polling. `crossed` is a history variable: App has
connected again while its connection was down, or the user logged out while a
setup was being created. In these cases a second socket is made, or the logout is
not heard, and `OneSocket` is about the rest.

**Machines** is the machine slice's list: batches (`handleBatch`), single
machines, create, update and delete notifications, the statuses kept beside the
items, and the reset on reconnecting. The channel is in order. The history
variables `stray` and `cut` mark a deletion that was announced before its machine
was listed, and a list that was cut short by an error.

**MachineList** is what Machines promises to the pages that show the list: a row
only moves forward to newer versions, none comes from nowhere, a row leaves when
its machine has been deleted and nothing is heard of the machine after that, and
a machine of which nothing is on its way is shown as it is. The exception is part
of the promise: the deletion of a machine that is not listed may take another row
(finding 1), and from then on the list is `stray` until the connection is lost.
`MachinesRefinement` gives the mapping: the version of each row is `listed`, the
machines named in what waits to be announced and in the channel are `owed`. The
batches and their limits, single machines, the order of the rows, the channel and
the statuses are what the promise hides; the proof is in `MachinesProofs`.

**ConfigUpdate** is `dispatchMultiple`: one `sendMessage` run per submitted form,
each waiting for *any* `config/updateNotify` before it sends its next value; the
notification resumes all runs in the order in which they wait. Runs survive the
loss of the connection, the slice does not. A value is the number of the update
that submits it, so that "older" can be said. The history variables `refused` and
`overlapped` mark refused or lost values and updates that ran at once.

**NodeActions** is the form of an action over a list of nodes, on two pages: the
controllers' and the machines'. `Send` and `Settled` are the status handlers of
the slices, `Processing` is `useCycled`/`useProcessing` (which look at one render
and the one before), `Effects` and `Flushed` what the form's components do after a
render, `Remounts` and `Renders` the routes that mount a page anew. Requests come
from the form and from row menus, nodes are deleted by the form or by others, and
the reply and the notification of a deletion come in either order. `doubled` and
`disturbed` are history: two requests of one action for one node; a row menu or
selection that changes the counts the form looks at.

**NetworkTab** is a machine's network tab. A row is an interface, or one link of
it; the first link stands for the interface and the others for its aliases, which
the operators of `networking.ts` decide. `Render` is the one place where a new
status or error reaches the open form: it closes the form that has been saved,
cleans errors up when the component goes, and keeps what React keeps when the
component and its row stay the same. A new machine reaches no form: the route of
the tab (`MachineDetails.tsx:101-110`) makes its component in the render, so
every notification of the machine, and whatever else renders MachineDetails,
takes the tab away and mounts it anew. `Mount` is that: the selection and the
open form are gone, and the form has cleaned up. `UpdateNotify` and `Leave` are
its two causes. The region's effect on the interfaces is external and kept small:
what it keeps true of a machine is `IsMachine` (a link is of one interface; what
is in a bond or bridge is in one only, and has no links; a bond is of physical
interfaces of its VLAN), which is assumed of the machines at the start and proved
of all later ones. `mine` and `crossed` are history: the requests of the open
form; that another request may look like one of them.

**RegionConnection** is `region.js` with the
mounts of `entry.js`: `connect`, the open handler and the timeout after it
(`SocketOpens`, `RunOpenHandlers`), `SocketCloses`, `retry`, the periodic
`ensureConnection` with pings and impatience, `callMethod`, `RegionReplies`, and
`Mount`/`Unmount` over a socket that is kept.

**Manager** is `manager.js` as `managerhelper.js` uses it: `LoadManager`,
`CallItem` (get, update, delete), `setActiveItem`, the batches of a load or
reload (`HandleList`), the queue of notifications (`onNotify`), and the open
handler that reloads. An array is a sequence, and replacing or removing an item
takes the first that has its id, as `_getIndexOfItem` does: while an item is
listed twice only one of the two is kept up to date. `updateItems` names the
indices that the loop from the last item to the first keeps. Left out: the
selection (no caller), the metadata (no reader), `clear` (tests only). The
history variables `lost` and `early` mark a list that was lost or refused, and
items that reached the list before its load.

The MC modules only give the constants values that a `.cfg` cannot write.

## 3. Runs

| Run | Properties | Bounds |
|---|---|---|
| requests | TypeOK, CacheCoherent, FetchedOnce, BusyHasRequest, ChainOnce, ImplementsListService, ListArrives | 2 models, one chained to the other and one that may fail, 2 dispatches, 2 losses |
| polling | RegisteredIffPolled, PollEnds | 2 components, 5 renders, effects in turns of their own and in saga turns |
| session | TypeOK, OneSocket, ConnectedIffOpen, PagesShown | 2 mounts, 2 logins, 1 failed request (over HTTP, or for the user), 2 losses or failed attempts |
| machines | RowsConsistent, Synced, ImplementsMachineList, FetchCompletes | 2 machines, 2 changes, batches of 1, 1 get, 1 error, 1 loss |
| machines_delete (violation) | ShowsAll | 3 machines, 1 deletion |
| config | TypeOK, SavingAnswered, ItemsSynced, NeverOlder, UpdateEnds | 2 updates that may overlap, refusals, 1 change by another client, 1 loss |
| config_refused (violation) | InOrder | 2 updates, refusals |
| actions | TypeOK, StatusTracksRequests, SuccessIsReal, DoneCloses | 2 nodes, both pages, 3 requests, 3 changes of the selection, 1 deletion by others, 1 page mounted anew, 1 loss |
| machines_form (violation) | OpensOnSelection | 2 nodes, 2 changes of the selection |
| network | TypeOK, RequestsSound, OwnAnswerCloses | 2 machines (one with an alias, one with a bond), 4 interfaces, 2 links, 3 forms opened or changes of the selection, 2 requests of this user or others |
| region | TypeOK, Watched, MissedOnWire, DropsOnlySilent, Reconnects, ConnectSettles | 2 mounts, 4 ids each, 2 failures, at most 2 missed pings, patience 3 |
| manager | TypeOK, ListConsistent, Synced, RegionKnowsActive, LoadEnds | 2 items, 2 changes, 2 calls, batches of 1, 1 loss; lists may be lost or refused, notifications and items may come before the first load |

Why the bounds are enough. The interesting cases need two actors and one loss:
two requests of which one is chained or fails, two components that exchange a
poll, two connects that meet (a login and the effect of App, two mounts), a
submission that overlaps a row menu's, a second submission after an error, a
selection of two rows and the change under it, a list of at least two batches
with a change before, between and after them, two runs that wait for the same
notification, two mounts over one socket with an unanswered message each, a
reload that overlaps a notification. Each bound leaves room for one such case and
one event more. Every mutant in `PROJECT.json` is found within the bounds of its
run. In the real code `maxMissedPings` and `maxPatience` are 5; with 2 and 3 both
branches of the check are reached, and the proofs hold for any value.

`CHECK_DEADLOCK FALSE` stands where a behaviour may end because the bounds are
used up and nothing is on its way.

Fairness. The browser delivers what has arrived and runs timeouts and the saga
scheduler to the end, the region answers and announces, and a lost socket
reconnects by itself: weak fairness on these steps. `RegionConnection` needs
strong fairness on `SocketOpens`, because the check closes a socket that is still
connecting every five seconds: the claim that it comes back holds for a network
in which an attempt that is made again and again some time succeeds within one
interval. Components and users are never assumed to do anything, except that a
shown machine list fetches (`fetch` in Machines is the effect of the page).
Session: weak fairness on the scheduler, the effects of React, the replies over
HTTP and the socket, and the attempts of the socket the client uses. NodeActions:
on effects and the region. NetworkTab states safety only and assumes none.

## 4. What the runs found

Three runs end in the violation of something the source says of itself:

1. *A delete notification for an unlisted machine removes another one*
   (machines_delete): `splice(-1, 1)`.
2. *A refused value leaves its run waiting; a later save resumes it and its old
   value overwrites the newer one* (config_refused).
3. *Opening the form of an action empties the selection it is opened for*
   (machines_form): the route of the machine list has a new component in every
   render, so the list is mounted anew and its clean-up runs.

The passing runs let everything happen and remember, in history variables, what
a property cannot survive; its comment says which. Without that premise TLC
reports the property, each time for a reason in the code:

| Property | Premise | Why |
|---|---|---|
| Synced (machines) | no deletion announced before its machine | finding 1 |
| NeverOlder, UpdateEnds | no refused or lost value | finding 2 |
| NeverOlder | updates that do not overlap | a second save is let on by the notification of the first |
| OneSocket | not `crossed` | a mount while the connection is down makes a second socket; a logout while the socket is being set up is not heard |
| StatusTracksRequests | the action not run twice at once for the node | one flag stands for both requests |
| SuccessIsReal | not `disturbed` | the form guesses from counts that a row menu or another selection changes |
| OwnAnswerCloses | not `crossed` | all forms of an operation look at one status |
| Synced, RegionKnowsActive, LoadEnds (manager) | no list lost or refused | `_isLoading` stays set and notifications queue for ever |
| ListConsistent, Synced (manager) | nothing `early` | an item fetched before the load is listed twice; a notification before it makes the load skip items |

More of what the models of the forms show, none of which the repository promises
against: every notification of a machine, also one that says nothing of its
interfaces, closes the open form of its network tab and empties the selection, and
what the form had sent is then answered to the next form of the operation, or to
none; a confirmation of a network action that is chosen while another one of the
same row is saving closes as if it had been confirmed; "mark as connected" keeps
the error of the attempt before; the flag of "Save and add another" outlives a
failed request.

Four more facts about the code show where a property stops. A slice whose request
was buffered in a socket that a `websocketConnect` replaced stays busy until the
store is reset, which `BusyHasRequest` names as the only such case. A list that
failed stays in `loadedEndpoints` and is not requested again until the socket
reopens, so `ListArrives` is about models that do not fail. Ids start again with
each mount on the socket that is kept, so `IdsFreshInMount` (section 5) is about
one mount. A first connection that fails is not retried, because only `onopen`
schedules the check, so `Reconnects` starts from a service that has its check
scheduled.

## 5. Proofs

Every theorem holds for all values of the constants that the module's assumption
allows: any finite set of nodes, models, poll ids or settings, any bounds, any
size of a batch. `PROJECT.json` lists the theorems with the properties they state.
Each proof has the same form. The properties are not inductive; a strengthening
`IInv` is, and TLC checked it on the module's run (for Manager also on a larger
instance) before it was proved. There is a lemma for each action, a step in it
for each conjunct of `IInv` that the action can disturb, and lemmas on the
operators of the model, cited by name. This section says what the strengthening
has to know and why.

`WebSocketSagasProofs` proves `TypeCorrect`, `CacheIsCoherent`, `ListsFetchedOnce`
and `BusySlicesHaveRequests`. A busy slice has a request *somewhere*, `unheard`
included, but a step that moves a request must know that the wire is empty while
the socket is not open, that only a connected client has pending actions, and that
a refused list is of a model that may fail (`WireOK`), and that no slice is busy
before a setup (`IdleOK`); and that a list is not sent twice needs that every
list since the last reset is in the cache (`CacheOK`). `SendMessageInv` shows that
a send keeps all this and is used by each event that sends; `Reducers` states what
the slice's reducers do.

`ChainsGoOnOnce` proves `ChainOnce`, which counts: the saves of a model that were
sent against those dispatched and the successes they are chained to. `ChainInv`
adds that a request is in one place at a time and has one answer (`OnePlace`), and
that follow-ups are kept only for the ids of saves that have some (`Kept`). The
sums are over the set of models; what a sum is after one of
its terms changes is shown once, by induction over finite sets.

`Implements`: WebSocketSagas implements ListService under the mapping of
`WebSocketSagasRefinement`. The mapped step needs one invariant more,
`OpenIsConnected`: the status says connected whenever the socket is open and
heard, since ListService lets a list arrive only over a connection that is up,
and `Forget` one only without. `SendMessageStep` and `AnswerTaken` say what a
send and a taken answer are to the abstract state (`Ask` or nothing; `Arrive`,
`Refuse` or nothing), and `StepRefines` has one step per action.

`RegionConnectionProofs` proves `TypeCorrect`, `ConnectedIsWatched`,
`MissedPingsUnanswered`, `IdsFreshInMount` and the action property
`GivesUpOnlySilent`. The strengthening says that a service that is gone listens
to nothing (`AwayQuiet`) and that no message is from a later mount or has an id
still to be handed out (`WirePast`); without it a remount could inherit a ping.

On Polling, `WebSocketSagasProofs` proves `PollTypeCorrect` and `Polled`
(`RegisteredIffPolled`). What is inside a turn decides: the clean-ups of a render
come before its effects (`EffectsOrdered`), so no start waits in the queue before
a stop of its poll (`StopsFirst`); effects that run inside a saga's turn find no
start before them (`StartsTaken`); one poll of an id starts, runs or ends at a
time (`OnePoll`); and the poll of a component that has gone will be stopped,
unless it is over (`Ending`).

`SessionProofs` proves `TypeCorrect`, `Connected` (`ConnectedIffOpen`) and `One`
(`OneSocket`). Some actions are alone in the queue (`QueueOK`), and no sign of a
connection waits there before a disconnect (`DisconnectFirst`). What waits to be
said of the connection is true of it (`Told`), and the store is right about it or
will be corrected by what waits (`Corrected`). While nothing was `crossed` all
sockets but the last are closed, and a disconnect that waits finds the race that
takes it, or no socket (`Uncrossed`, with `LoggingOut` for what a logout finds).
That nothing is crossed in the first mount of App is `FirstMount`: there App
connects only when it is logged in and has no connection.

`MachinesProofs` proves `TypeCorrect`, `Consistent` (`RowsConsistent`) and
`InSync` (`Synced`). Every row, listed or on its way, is of a machine that has
existed (`RowsReal`), and is as the region has it or has its correction behind
it, in order, on the channel or among what is to be announced (`RowsSettled`);
one batch is on its way at a time (`OneBatch`), and a machine that exists is
listed, on its way, to be announced, or after the batches that have come
(`NoneMissed`). When the channel is empty the last two say that the list is the
region's.

`Implements`, there, shows that Machines implements MachineList. A step of the
region maps to `Change` or `Answer`, or to nothing when it only announces what it
did; a message that is taken maps to `Arrive` or `Remove`, and the loss of the
connection to `Lose`. That rows move forward needs `Ascending`, by which the
versions of a machine ascend from the list through the channel to the region;
that an announcement may be dropped when its machine has gone needs `GoneTold`, by
which the deletion comes after it; that nothing is heard of a machine after its
deletion needs `DeletionsLast`. What is no longer on its way has not been missed
(`RightUnlessOwed`) follows from `RowsSettled` and `NoneMissed`. `OwedBySend`,
`OwedByTake` and `OwedByNotify` say what each way of using the channel does to
what is owed, and `StepRefines` has one step per action.

`ConfigUpdateProofs` proves `TypeCorrect`, `Answered` (`SavingAnswered`), `InSync`
(`ItemsSynced`) and the action property `InOrderUnlessRefused` (`NeverOlder`). A
value that is shown or on its way is the region's, or one that is comes after it,
or the change is not announced yet (`ValuesSettled`); while nothing was refused or
lost, a run that waits has something coming that resumes it (`NoneWaits`), and
without overlaps all requests are of the latest update (`InTurn`).

`NodeActionsProofs` proves `TypeCorrect`, `StatusTracked` (`StatusTracksRequests`)
and `SuccessReal` (`SuccessIsReal`). Ids are fresh (`IdsFresh`), the request the
form sent last for a node is of the form's action (`BatchOwn`), two requests of
one action for a node have been noted in `doubled` (`TwiceDoubled`), and while
nothing was `disturbed` the form sees its own requests only: their statuses, their
errors, and in its flags no success that was none (`Undisturbed`). A verdict ends
the form that reached it (`OpenUnsaved`).

`ManagerProofs` proves `TypeCorrect`, `Consistent` (`ListConsistent`), `InSync`
(`Synced`) and `KnowsActive` (`RegionKnowsActive`). The idea is that of Machines,
with a queue of notifications between the channel and the list: an item is as the
region has it, or corrected by what comes after it in queue, channel and
announcements (`ItemsSettled`); a list's items, the batch on its way and the
creations still to be announced ascend in id, so that no batch brings what is
listed (`InOrder`, `CreationsInOrder`); nothing that exists is missed
(`NoneMissed`). `Under` says when a load is under way and can still end, and
`ActiveTold` that the last `set_active` on its way, or else what the region
remembers, is the active item. That a queue is processed as a whole is shown for
its beginnings, one longer each time (`Reached`); `UpdateFacts` says what a reload
makes of the list.

`NetworkTabProofs` proves `TypeCorrect` and the action properties `SoundRequests`
(`RequestsSound`) and `OnlyOwnAnswer` (`OwnAnswerCloses`). The region and the
store hold machines (`IsMachine`), of which the store's is an earlier one: ids
and links are not given out twice (`Numbered`), and an interface is never another
one under the same id (`Same`). What makes a request sound is known when a row is
checked or a form is opened, and has to last until the submission, in `Chosen`:
in the form that edits a bond every selected row is a member of this bond or
could become one (`Bonded`); any other selection is of rows that can be checked
and suits the form (`Fresh`). Both are about the interfaces that are shown, and
outlive a notification only because the tab is mounted anew without a selection
(`MountStep`). The region makes a bond some time after it was asked to, so that
its members are physical needs an invariant that outlives the store
(`OfPhysical`). For `OwnAnswerCloses`, `Own` says that the open form has at most
one request under way, that its status is set, and that no other request is of
its operation unless that was noted in `crossed`; the ids of requests are
distinct (`Ids`).

This proof corrected the model. `IsMachine` did not survive the region's update of
a bond, which let a new member keep the links it had, beyond the bounds of the
run. The update now treats its members as the creation of a bond does.

What stays with TLC is liveness (`ENABLED` is out of the prover's reach):
ListArrives, PollEnds, PagesShown, FetchCompletes, UpdateEnds, DoneCloses,
Reconnects, ConnectSettles and LoadEnds.

## 6. Not modelled, and the plan

What could come next: Manager as an implementation of an abstract list like
MachineList, with its queue of notifications hidden as well; the storage
tab, whose forms work like those of the network tab; and Manager composed with
RegionConnection.

Not modelled, and why:

* *file context*: a map filled by one reply, whose ids are not reused.
* *other slices, other views and controllers*: instances of what is modelled (a
  fetch, a save, a status per operation) with other names. The storage tab of a
  machine is to its partitions what the network tab is to its interfaces.
* *selectors, search, `converter.js`, `validation.js`*: pure functions over the
  characters of strings, where TLC would only enumerate strings; unit tests do.
* *general, events and nodes managers*: `GeneralManager`'s polling has no caller;
  its `loadItems`, like a Manager whose list is lost, leaves a page waiting when a
  request for it fails. The others are Managers with more calls.
* *ManagerHelper for several managers*: the promises of one manager each.
* *Manager over RegionConnection*: the composition. Manager already has requests
  that are lost and the reopening; a reply that settles the wrong request needs
  two mounts, which begin with an empty Manager.
* *Details of the network tab*: addresses, subnets, names, sorting; whether another
  VLAN can be added; machines whose networking is disabled.

Left out for good: rendering, styling, analytics, the development proxy, the
Cypress tests, and the region itself, which is another program.
