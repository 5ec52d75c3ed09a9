------------------------------- MODULE Manager -------------------------------
(* A manager of the AngularJS application (legacy/src/app/services/          *)
(* manager.js), loaded by ManagerHelper: a list of items fetched in batches,  *)
(* reloaded when the connection opens again, and kept up to date by           *)
(* notifications, which wait in a queue while a load or reload is under way.  *)
(*                                                                           *)
(* The region handles the requests of a connection in order and announces a  *)
(* change some time after it was made.  What is on its way when the          *)
(* connection is lost is lost, and so is a request made without one: its     *)
(* promise never settles.  An item is its id and a version.                  *)
EXTENDS Naturals, FiniteSets, SequencesExt

CONSTANTS
  Initial,    \* items 1 .. Initial exist at the start
  MaxChanges, \* bound on the changes of the region's items
  MaxCalls,   \* bound on the calls of the pages
  batchSize,
  MaxDrops    \* bound on the losses of the connection

ASSUME ManagerAssumption ==
  /\ {Initial, MaxChanges, MaxCalls, MaxDrops} \subseteq Nat
  /\ batchSize \in Nat \ {0}

VARIABLES
  db,           \* the region's items: version by id, 0 when deleted
  changes,      \* changes the region has yet to announce
  regionActive, \* the item the region holds active for this connection, or 0
  connected,
  opening,      \* whether the open handlers have yet to run
  up, down,     \* requests and messages on their way
  list,         \* _items and _activeItem (its id, or 0)
  loaded, isLoading,
  autoReload,
  currentItems, \* what a reload has received so far
  actionQueue,  \* notifications that wait
  lost,         \* history: a request of a load or reload was lost or refused
  early,        \* history: what reached the list before it was loaded
  changed, calls, drops

loading == <<loaded, isLoading, currentItems>>
region == <<db, changes, regionActive, changed>>
connection == <<connected, opening, drops>>
history == <<lost, early>>
vars == <<region, connection, loading, up, down, list, autoReload, actionQueue, history,
          calls>>

Id == 1 .. Initial + MaxChanges
Item == [id: Id, v: Nat]
Present == {id \in DOMAIN db : db[id] > 0}
Row(id) == [id |-> id, v |-> db[id]]
Ids(items) == {items[i].id : i \in DOMAIN items}

TypeOK ==
  /\ db \in Seq(Nat) /\ Len(db) <= Initial + MaxChanges
  /\ regionActive \in Id \union {0}
  /\ {connected, opening, loaded, isLoading, autoReload} \subseteq BOOLEAN
  /\ list.items \in Seq(Item) /\ list.active \in Id \union {0}
  /\ currentItems \in Seq(Item)
  /\ lost \in BOOLEAN /\ early \subseteq {"get", "notify"}
  /\ ~isLoading => actionQueue = <<>> /\ currentItems = <<>>

Init ==
  /\ db = [id \in 1 .. Initial |-> 1]
  /\ changes = <<>>
  /\ regionActive = 0
  /\ connected = TRUE /\ opening = FALSE
  /\ up = <<>> /\ down = <<>>
  /\ list = [items |-> <<>>, active |-> 0]
  /\ loaded = FALSE /\ isLoading = FALSE /\ autoReload = FALSE
  /\ currentItems = <<>> /\ actionQueue = <<>>
  /\ lost = FALSE /\ early = {}
  /\ changed = 0 /\ calls = 0 /\ drops = 0

-----------------------------------------------------------------------------
(* The list.                                                                 *)

\* The index of the first item with this id, or 0.
getIndexOfItem(items, id) == SelectInSeq(items, LAMBDA item : item.id = id)

\* Replace the item that has the id of this one, if there is one.
replaceItemInArray(items, item) ==
  LET idx == getIndexOfItem(items, item.id)
  IN IF idx = 0 THEN items ELSE ReplaceAt(items, idx, item)

replaceItem(l, item) == [l EXCEPT !.items = replaceItemInArray(@, item)]

removeItemByIdFromArray(items, id) ==
  LET idx == getIndexOfItem(items, id)
  IN IF idx = 0 THEN items ELSE RemoveAt(items, idx)

\* Mutant: the item goes from the list but stays active.
removeFromItems(l, id) == [l EXCEPT !.items = removeItemByIdFromArray(@, id)]

removeItem(l, id) ==
  [l EXCEPT !.items = removeItemByIdFromArray(@, id),
            !.active = IF @ = id THEN 0 ELSE @]

\* What getItem and a create notification do with an item.
addItem(l, item) ==
  [l EXCEPT !.items = IF getIndexOfItem(@, item.id) = 0 THEN Append(@, item)
                      ELSE replaceItemInArray(@, item)]

processAction(l, action) ==
  CASE action.kind = "create" -> addItem(l, action.item)
    [] action.kind = "update" -> replaceItem(l, action.item)
    [] action.kind = "delete" -> removeItem(l, action.id)

processActions(l, queue) ==
  LET done[n \in 0 .. Len(queue)] ==
        IF n = 0 THEN l ELSE processAction(done[n - 1], queue[n])
  IN done[Len(queue)]

\* The elements of the sequence at these indices.
Picked(seq, indices) ==
  LET picked[n \in 0 .. Len(seq)] ==
        IF n = 0 THEN <<>>
        ELSE IF n \in indices THEN Append(picked[n - 1], seq[n])
        ELSE picked[n - 1]
  IN picked[Len(seq)]

\* A reload: from the last to the first, what is listed takes the item that was
\* fetched, which no other can take then, or goes; then what is left is added.
\* What was fetched has each id once.  The active item is left to setActiveItem.
updateItems(l, items) ==
  LET fetched(i) == items[getIndexOfItem(items, l.items[i].id)]
      kept == {i \in DOMAIN l.items :
                 /\ l.items[i].id \in Ids(items)
                 /\ \A j \in DOMAIN l.items : l.items[j].id = l.items[i].id => j <= i}
      new == {k \in DOMAIN items : items[k].id \notin Ids(l.items)}
  IN [l EXCEPT !.items = Picked([i \in DOMAIN @ |-> IF i \in kept THEN fetched(i) ELSE @[i]],
                                kept)
                         \o Picked(items, new)]

-----------------------------------------------------------------------------
(* Calls.                                                                    *)

\* Without a connection a request is dropped.
callMethod(request) == up' = IF connected THEN Append(up, request) ELSE up

\* Mutant: only the first batch is requested.
callLoadOnce(kind, array) ==
  IF array = <<>> THEN callMethod([method |-> "list", kind |-> kind, start |-> 0])
                  ELSE UNCHANGED up

\* The next batch starts after the last item of the array.
callLoad(kind, array) ==
  callMethod([method |-> "list", kind |-> kind,
              start |-> IF array = <<>> THEN 0 ELSE Last(array).id])

\* loadItems and reloadItems: each turns to the other when the list is not in
\* the state it is for, and a caller that finds one under way waits for it.
loadItems ==
  \/ isLoading /\ UNCHANGED <<up, loading>>
  \/ /\ ~isLoading
     /\ isLoading' = TRUE
     /\ IF loaded THEN callLoad("reload", <<>>) ELSE callLoad("load", list.items)
     /\ UNCHANGED <<loaded, currentItems>>

\* A page calls.
Call ==
  /\ calls < MaxCalls
  /\ calls' = calls + 1
  /\ UNCHANGED <<region, connection, down, actionQueue, history>>

\* A page has its manager loaded; ManagerHelper waits for the connection.
LoadManager ==
  /\ Call
  /\ connected
  /\ IF loaded THEN UNCHANGED <<up, loading>> ELSE loadItems
  /\ autoReload' = TRUE
  /\ UNCHANGED list

\* A page gets an item, or updates or deletes one it shows.
CallItem ==
  /\ Call
  /\ \E id \in DOMAIN db, method \in {"get", "update", "delete"} :
       /\ method = "get" \/ (loaded /\ id \in Ids(list.items))
       /\ callMethod([method |-> method, id |-> id])
  /\ UNCHANGED <<list, loading, autoReload>>

setActiveItem(l, id) ==
  /\ list' = [l EXCEPT !.active = IF id \in Ids(l.items) THEN id ELSE 0]
  /\ IF id \in Ids(l.items)
     THEN callMethod([method |-> "set_active", id |-> id])
     ELSE UNCHANGED up

CallSetActiveItem ==
  /\ Call
  /\ loaded
  /\ \E id \in DOMAIN db : setActiveItem(list, id)
  /\ UNCHANGED <<loading, autoReload>>

-----------------------------------------------------------------------------
(* The region.                                                               *)

Create ==
  /\ db' = Append(db, 1)
  /\ changes' = Append(changes, [kind |-> "create", id |-> Len(db) + 1])
Update(id) ==
  /\ db' = [db EXCEPT ![id] = @ + 1]
  /\ changes' = Append(changes, [kind |-> "update", id |-> id])
Delete(id) ==
  /\ db' = [db EXCEPT ![id] = 0]
  /\ changes' = Append(changes, [kind |-> "delete", id |-> id])

RegionChanges ==
  /\ changed < MaxChanges
  /\ changed' = changed + 1
  /\ Create \/ \E id \in Present : Update(id) \/ Delete(id)
  /\ UNCHANGED <<regionActive, connection, up, down, list, loading, autoReload,
                 actionQueue, history, calls>>

Notify(message) == down' = IF connected THEN Append(down, message) ELSE down

\* A change is announced with the row as it is by then.
RegionNotifies ==
  /\ changes # <<>>
  /\ changes' = Tail(changes)
  /\ LET c == Head(changes) IN
     \/ c.kind = "delete" /\ Notify([type |-> "notify", kind |-> "delete", id |-> c.id])
     \/ /\ c.kind # "delete" /\ c.id \in Present
        /\ Notify([type |-> "notify", kind |-> c.kind, item |-> Row(c.id)])
     \/ c.kind # "delete" /\ c.id \notin Present /\ UNCHANGED down
  /\ UNCHANGED <<db, regionActive, changed, connection, up, list, loading, autoReload,
                 actionQueue, history, calls>>

\* The items after `start`, at most batchSize of them, in order of id: those that
\* a page leaves out come after its last one, and only when it is full.
Pages(start) ==
  LET after == {Row(id) : id \in {k \in Present : k > start}} IN
  {page \in UNION {[1 .. n -> after] : n \in 0 .. batchSize} :
     /\ \A i, j \in DOMAIN page : i < j => page[i].id < page[j].id
     /\ \A row \in after :
          \/ \E i \in DOMAIN page : page[i] = row
          \/ Len(page) = batchSize /\ \A i \in DOMAIN page : page[i].id < row.id}

Reply(message) ==
  /\ up' = Tail(up)
  /\ down' = Append(down, message)

RegionAnswers ==
  /\ up # <<>>
  /\ LET r == Head(up) IN
     \/ /\ r.method = "list"
        /\ \E page \in Pages(r.start) :
             Reply([type |-> "list", kind |-> r.kind, page |-> page])
        /\ UNCHANGED region
     \/ /\ r.method = "list"
        /\ Reply([type |-> "refused", kind |-> r.kind])
        /\ UNCHANGED region
     \/ /\ r.method # "list" /\ r.id \notin Present
        /\ Reply([type |-> "error"])
        /\ UNCHANGED region
     \/ /\ r.method \in {"get", "set_active"} /\ r.id \in Present
        /\ Reply([type |-> r.method, item |-> Row(r.id)])
        /\ regionActive' = IF r.method = "get" THEN regionActive ELSE r.id
        /\ UNCHANGED <<db, changes, changed>>
     \/ /\ r.method = "update" /\ r.id \in Present
        /\ Update(r.id)
        /\ Reply([type |-> "update", item |-> [id |-> r.id, v |-> db[r.id] + 1]])
        /\ UNCHANGED <<regionActive, changed>>
     \/ /\ r.method = "delete" /\ r.id \in Present
        /\ Delete(r.id)
        /\ Reply([type |-> "delete", id |-> r.id])
        /\ UNCHANGED <<regionActive, changed>>
  /\ UNCHANGED <<connection, list, loading, autoReload, actionQueue, history, calls>>

-----------------------------------------------------------------------------
(* Messages.                                                                 *)

\* The last batch of the initial load.
Loaded(items) ==
  /\ list' = processActions([list EXCEPT !.items = items], actionQueue)
  /\ loaded' = TRUE
  /\ UNCHANGED <<up, currentItems>>

\* Mutant: the region is not told the active item again.
ReloadedOnly(items) ==
  /\ list' = LET l == processActions(updateItems(list, items), actionQueue)
             IN [l EXCEPT !.active = IF @ \in Ids(l.items) THEN @ ELSE 0]
  /\ currentItems' = <<>>
  /\ UNCHANGED <<up, loaded>>

\* The last batch of a reload.  The region is told the active item again.
Reloaded(items) ==
  /\ LET l == processActions(updateItems(list, items), actionQueue) IN
     \/ l.active # 0 /\ setActiveItem(l, l.active)
     \/ l.active = 0 /\ list' = l /\ UNCHANGED up
  /\ currentItems' = <<>>
  /\ UNCHANGED loaded

\* A batch.  One that is full is followed by a request for the next.
HandleList(m) ==
  LET items == (IF m.kind = "load" THEN list.items ELSE currentItems) \o m.page
  IN
  \/ /\ Len(m.page) = batchSize
     /\ callLoad(m.kind, items)
     /\ \/ m.kind = "load" /\ list' = [list EXCEPT !.items = items] /\ UNCHANGED currentItems
        \/ m.kind = "reload" /\ currentItems' = items /\ UNCHANGED list
     /\ UNCHANGED <<loaded, isLoading, actionQueue>>
  \/ /\ Len(m.page) # batchSize
     /\ isLoading' = FALSE
     /\ actionQueue' = <<>>
     /\ \/ m.kind = "load" /\ Loaded(items)
        \/ m.kind = "reload" /\ Reloaded(items)

\* A list that is refused rejects its callers and leaves isLoading set.
HandleRefused == lost' = TRUE /\ UNCHANGED <<up, list, loading, actionQueue, early>>

HandleGet(item) ==
  /\ loaded' = TRUE
  /\ list' = addItem(list, item)
  /\ early' = IF loaded THEN early ELSE early \union {"get"}
  /\ UNCHANGED <<up, isLoading, currentItems, actionQueue, lost>>

\* Mutant: a notification is left in the queue.
onNotifyQueues(action) ==
  actionQueue' = Append(actionQueue, action) /\ UNCHANGED <<up, list, loading, history>>

\* Mutant: a notification is processed while a list is under way.
onNotifyAtOnce(action) ==
  /\ list' = processAction(list, action)
  /\ UNCHANGED <<up, loading, actionQueue, history>>

\* A manager is notified from when it is created, for the page that loads its
\* list or for one that only has it injected.
onNotify(action) ==
  /\ \/ isLoading /\ actionQueue' = Append(actionQueue, action) /\ UNCHANGED <<list, early>>
     \/ /\ ~isLoading
        /\ list' = processActions(list, Append(actionQueue, action))
        /\ actionQueue' = <<>>
        /\ early' = IF loaded THEN early ELSE early \union {"notify"}
  /\ UNCHANGED <<up, loading, lost>>

onMessage ==
  /\ down # <<>>
  /\ down' = Tail(down)
  /\ LET m == Head(down) IN
     \/ m.type = "list" /\ HandleList(m) /\ UNCHANGED history
     \/ m.type = "refused" /\ HandleRefused
     \/ m.type = "get" /\ HandleGet(m.item)
     \/ /\ m.type \in {"update", "set_active"}
        /\ list' = replaceItem(list, m.item)
        /\ UNCHANGED <<up, loading, actionQueue, history>>
     \/ /\ m.type = "delete"
        /\ list' = removeItem(list, m.id)
        /\ UNCHANGED <<up, loading, actionQueue, history>>
     \/ m.type = "error" /\ UNCHANGED <<up, list, loading, actionQueue, history>>
     \/ m.type = "notify" /\ onNotify(m)
  /\ UNCHANGED <<region, connection, autoReload, calls>>

-----------------------------------------------------------------------------
(* The connection.                                                           *)

\* The connection is lost, with what is on its way.
Disconnect ==
  /\ connected
  /\ drops < MaxDrops
  /\ drops' = drops + 1
  /\ lost' = (lost \/ isLoading \/ opening)
  /\ connected' = FALSE
  /\ up' = <<>> /\ down' = <<>>
  /\ regionActive' = 0
  /\ UNCHANGED <<opening, db, changes, changed, list, loading, autoReload, actionQueue,
                 early, calls>>

\* The connection opens again; its open handlers run a timeout later.
Reconnect ==
  /\ ~connected
  /\ connected' = TRUE
  /\ opening' = TRUE
  /\ UNCHANGED <<drops, region, up, down, list, loading, autoReload, actionQueue, history,
                 calls>>

\* The open handler that enableAutoReload registers.
reloadFunc == loadItems

RunOpenHandlers ==
  /\ opening
  /\ opening' = FALSE
  /\ IF autoReload THEN reloadFunc ELSE UNCHANGED <<up, loading>>
  /\ UNCHANGED <<connected, drops, region, down, list, autoReload, actionQueue, history,
                 calls>>

Next ==
  \/ LoadManager \/ CallItem \/ CallSetActiveItem
  \/ RegionChanges \/ RegionNotifies \/ RegionAnswers
  \/ onMessage
  \/ Disconnect \/ Reconnect \/ RunOpenHandlers

Spec == Init /\ [][Next]_vars

\* The region answers and announces, messages arrive, a lost connection is
\* opened again (RegionConnection) and a timeout that is set runs.
FairSpec ==
  /\ Spec
  /\ WF_vars(RegionNotifies) /\ WF_vars(RegionAnswers) /\ WF_vars(onMessage)
  /\ WF_vars(Reconnect) /\ WF_vars(RunOpenHandlers)

-----------------------------------------------------------------------------
(* Properties.                                                               *)

\* No item is listed twice, unless a page got it before the list was loaded.
NoDuplicates == "get" \in early \/ Cardinality(Ids(list.items)) = Len(list.items)

\* The active item is one that is listed: what takes an item out of the list (a
\* notification, the reply to a deletion, a reload) does not leave it active.
ActiveListed == list.active # 0 => list.active \in Ids(list.items)

\* Whatever order batches, replies and notifications about an item arrive in,
\* it is listed once, and what left the list is not active.
ListConsistent == NoDuplicates /\ ActiveListed

\* Nothing is on its way.
Quiet == connected /\ ~opening /\ changes = <<>> /\ up = <<>> /\ down = <<>>

\* No request of a load or reload was lost, and no item reached the list before
\* it was loaded: the load would have started from that item.
Regular == ~lost /\ early = {}

\* Once nothing is on its way, a list that is loaded has exactly the items of the
\* region, each as the region has it, whatever was changed and queued during the
\* loads and reloads, and whatever connection was lost between them.
Synced ==
  Quiet /\ Regular /\ loaded => Range(list.items) = {Row(id) : id \in Present}

\* Once nothing is on its way, the region knows the active item, also on a
\* connection that was opened after the item was made active.
RegionKnowsActive ==
  Quiet /\ Regular /\ list.active # 0 => regionActive = list.active

\* A load or reload ends, and with it the queueing of notifications, unless one
\* of its requests is lost.
LoadEnds == isLoading ~> ~isLoading \/ lost
=============================================================================
