------------------------------ MODULE Machines ------------------------------
(* The list of machines in the store: fetched in batches (handleBatch in     *)
(* ui/src/app/base/sagas/websockets.ts) and kept up to date by the region's  *)
(* notify messages (ui/src/app/store/machine/slice.ts).                      *)
(*                                                                           *)
(* The region announces a change to the clients some time after making it,   *)
(* so a list or a machine it sends may be ahead of the announcements: that   *)
(* is the race the comment in createNotify speaks of.  Messages arrive in    *)
(* the order in which they were sent.  A machine is its id (id and system_id *)
(* are one here) and a version that every change of it increments.           *)
EXTENDS Naturals, FiniteSets, SequencesExt

CONSTANTS
  Initial,         \* machines 1 .. Initial exist when the client connects
  MaxChanges,      \* bound on the changes made by the region
  FirstLimit,      \* limit of the first batch
  SubsequentLimit, \* limit of the following ones
  MaxGets,         \* bound on the machines requested one by one
  MaxErrors,       \* bound on the batches the region answers with an error
  MaxDrops         \* bound on the times the connection is lost

ASSUME MachinesAssumption ==
  /\ {Initial, MaxChanges, MaxGets, MaxErrors, MaxDrops} \subseteq Nat
  /\ {FirstLimit, SubsequentLimit} \subseteq Nat \ {0}

VARIABLES
  db,       \* the region's machines: version by id, 0 when deleted
  changes,  \* changes the region has yet to announce
  up,       \* requests the region has not answered
  down,     \* messages on their way to the client
  items, statuses, selected, loading, loaded, \* the machine slice
  listLoaded, \* machine.list is in loadedEndpoints
  stray,      \* history: a deletion of an unlisted machine reached the list
  cut,        \* history: the region refused a batch of the list
  changed, gets, errors, drops \* how often each bounded action happened

history == <<stray, cut>>
vars == <<db, changes, up, down, items, statuses, selected, loading, loaded,
          listLoaded, history, changed, gets, errors, drops>>

Id == 1 .. Initial + MaxChanges
Machine == [id: Id, v: Nat]
Change == [kind: {"create", "update", "delete"}, id: Id]
ListRequest == [method: {"list"}, start: Nat, limit: Nat]
GetRequest == [method: {"get"}, id: Id]

Present == {id \in DOMAIN db : db[id] > 0}
Shown == {items[i].id : i \in DOMAIN items}
Row(id) == [id |-> id, v |-> db[id]]

TypeOK ==
  /\ db \in Seq(Nat) /\ Len(db) <= Initial + MaxChanges
  /\ changes \in Seq(Change)
  /\ up \in Seq(ListRequest \union GetRequest)
  /\ \A i \in DOMAIN down :
       down[i].type \in {"list", "get", "error", "create", "update", "delete"}
  /\ items \in Seq(Machine)
  /\ statuses \subseteq Id
  /\ selected \subseteq Id
  /\ {loading, loaded, listLoaded, stray, cut} \subseteq BOOLEAN

Init ==
  /\ db = [id \in 1 .. Initial |-> 1]
  /\ changes = <<>>
  /\ up = <<>>
  /\ down = <<>>
  /\ items = <<>>
  /\ statuses = {}
  /\ selected = {}
  /\ loading = FALSE
  /\ loaded = FALSE
  /\ listLoaded = FALSE
  /\ stray = FALSE /\ cut = FALSE
  /\ changed = 0 /\ gets = 0 /\ errors = 0 /\ drops = 0

slice == <<items, statuses, selected, loading, loaded>>

-----------------------------------------------------------------------------
(* The region.                                                               *)

RegionChanges ==
  /\ changed < MaxChanges
  /\ changed' = changed + 1
  /\ \/ /\ db' = Append(db, 1)
        /\ changes' = Append(changes, [kind |-> "create", id |-> Len(db) + 1])
     \/ \E id \in Present :
          /\ db' = [db EXCEPT ![id] = @ + 1]
          /\ changes' = Append(changes, [kind |-> "update", id |-> id])
     \/ \E id \in Present :
          /\ db' = [db EXCEPT ![id] = 0]
          /\ changes' = Append(changes, [kind |-> "delete", id |-> id])
  /\ UNCHANGED <<up, down, slice, listLoaded, history, gets, errors, drops>>

\* A created or updated machine is read when it is announced; one that is gone
\* by then is not announced.
RegionNotifies ==
  /\ changes # <<>>
  /\ changes' = Tail(changes)
  /\ LET c == Head(changes) IN
     down' = IF c.kind = "delete"
             THEN Append(down, [type |-> "delete", id |-> c.id])
             ELSE IF c.id \in Present
             THEN Append(down, [type |-> c.kind, row |-> Row(c.id)])
             ELSE down
  /\ UNCHANGED <<db, up, slice, listLoaded, history, changed, gets, errors, drops>>

\* The machines after `start`, at most `limit` of them, in order of id: those
\* that a page leaves out come after its last one, and only when it is full.
Pages(r) ==
  LET after == {Row(id) : id \in {k \in Present : k > r.start}} IN
  {page \in UNION {[1 .. n -> after] : n \in 0 .. r.limit} :
     /\ \A i, j \in DOMAIN page : i < j => page[i].id < page[j].id
     /\ \A row \in after :
          \/ \E i \in DOMAIN page : page[i] = row
          \/ Len(page) = r.limit /\ \A i \in DOMAIN page : page[i].id < row.id}

RegionAnswers ==
  /\ up # <<>>
  /\ up' = Tail(up)
  /\ LET r == Head(up) IN
     \/ /\ r.method = "list"
        /\ \E page \in Pages(r) :
             down' = Append(down, [type |-> "list", request |-> r, page |-> page])
        /\ UNCHANGED errors
     \/ /\ r.method = "list" /\ errors < MaxErrors
        /\ down' = Append(down, [type |-> "error", method |-> r.method])
        /\ errors' = errors + 1
     \/ /\ r.method = "get" /\ r.id \in Present
        /\ down' = Append(down, [type |-> "get", row |-> Row(r.id)])
        /\ UNCHANGED errors
     \/ /\ r.method = "get" /\ r.id \notin Present
        /\ down' = Append(down, [type |-> "error", method |-> r.method])
        /\ UNCHANGED errors
  /\ UNCHANGED <<db, changes, slice, listLoaded, history, changed, gets, drops>>

-----------------------------------------------------------------------------
(* Requests.                                                                 *)

\* The machine list mounts and dispatches fetch: sendMessage lets the first
\* batch through once.
fetch ==
  /\ ~listLoaded
  /\ listLoaded' = TRUE
  /\ loading' = TRUE
  /\ up' = Append(up, [method |-> "list", start |-> 0, limit |-> FirstLimit])
  /\ UNCHANGED <<db, changes, down, items, statuses, selected, loaded, history,
                 changed, gets, errors, drops>>

\* The details of a machine open.
get ==
  /\ gets < MaxGets
  /\ gets' = gets + 1
  /\ loading' = TRUE
  /\ \E id \in DOMAIN db : up' = Append(up, [method |-> "get", id |-> id])
  /\ UNCHANGED <<db, changes, down, items, statuses, selected, loaded, listLoaded,
                 history, changed, errors, drops>>

\* The user selects a machine of the list.
setSelected ==
  /\ \E id \in Shown : selected' = selected \union {id}
  /\ UNCHANGED <<db, changes, up, down, items, statuses, loading, loaded,
                 listLoaded, history, changed, gets, errors, drops>>

-----------------------------------------------------------------------------
(* Reducers.                                                                 *)

IndexOf(id) == {i \in DOMAIN items : items[i].id = id}

\* Mutant: the machine is added, whether it is in the store or not.
UpsertPushes(row) ==
  /\ items' = Append(items, row)
  /\ statuses' = statuses \union {row.id}

\* Update the machine if it is in the store, otherwise add it with its statuses.
Upsert(row) ==
  IF row.id \in Shown
  THEN /\ items' = [i \in DOMAIN items |-> IF i \in IndexOf(row.id) THEN row ELSE items[i]]
       /\ UNCHANGED statuses
  ELSE /\ items' = Append(items, row)
       /\ statuses' = statuses \union {row.id}

createNotify(row) == Upsert(row) /\ UNCHANGED <<selected, loading, loaded>>

updateNotify(row) ==
  /\ items' = [i \in DOMAIN items |-> IF items[i].id = row.id THEN row ELSE items[i]]
  /\ UNCHANGED <<statuses, selected, loading, loaded>>

getSuccess(row) ==
  /\ Upsert(row)
  /\ loading' = FALSE
  /\ UNCHANGED <<selected, loaded>>

\* splice(findIndex(...), 1): an index of -1 removes the last item.
Spliced(id) ==
  IF id \in Shown
  THEN RemoveAt(items, CHOOSE i \in IndexOf(id) : TRUE)
  ELSE IF items = <<>> THEN items ELSE Front(items)

\* Mutant: the statuses of every other machine go with the deleted one.
deleteNotifyKeepsOne(id) ==
  /\ items' = Spliced(id)
  /\ selected' = selected \ {id}
  /\ statuses' = statuses \intersect {id}
  /\ UNCHANGED <<loading, loaded>>

deleteNotify(id) ==
  /\ items' = Spliced(id)
  /\ selected' = selected \ {id}
  /\ statuses' = statuses \ {id}
  /\ UNCHANGED <<loading, loaded>>

\* fetchSuccess goes through the machines and adds each that is not in the store.
Added(page) ==
  LET added[n \in 0 .. Len(page)] ==
        IF n = 0 THEN items
        ELSE IF \E i \in DOMAIN added[n - 1] : added[n - 1][i].id = page[n].id
        THEN added[n - 1]
        ELSE Append(added[n - 1], page[n])
  IN added[Len(page)]

\* Mutant: the next batch starts at the first machine again.
NextBatchFromStart(page) ==
  [method |-> "list", start |-> 0, limit |-> SubsequentLimit]

\* The next batch starts after the last machine of this one.
NextBatch(page) ==
  [method |-> "list", start |-> Last(page).id, limit |-> SubsequentLimit]

\* Mutant: no batch counts as full.
NeverFull(r, page) == FALSE

Full(r, page) == Len(page) = r.limit

\* The batch is added; a full one is followed by the next, whose Start marks
\* the slice as loading, a short one by fetchComplete.
fetchSuccess(r, page) ==
  /\ items' = Added(page)
  /\ statuses' = statuses \union ({row.id : row \in Range(page)} \ Shown)
  /\ IF Full(r, page)
     THEN /\ up' = Append(up, NextBatch(page))
          /\ loading' = TRUE
          /\ UNCHANGED loaded
     ELSE /\ loading' = FALSE
          /\ loaded' = TRUE
          /\ UNCHANGED up
  /\ UNCHANGED selected

handleMessage ==
  /\ down # <<>>
  /\ down' = Tail(down)
  /\ LET m == Head(down) IN
     \/ m.type = "list" /\ fetchSuccess(m.request, m.page) /\ UNCHANGED history
     \/ m.type = "get" /\ getSuccess(m.row) /\ UNCHANGED <<up, history>>
     \/ /\ m.type = "error"
        /\ loading' = FALSE
        /\ cut' = (cut \/ m.method = "list")
        /\ UNCHANGED <<up, items, statuses, selected, loaded, stray>>
     \/ m.type = "create" /\ createNotify(m.row) /\ UNCHANGED <<up, history>>
     \/ m.type = "update" /\ updateNotify(m.row) /\ UNCHANGED <<up, history>>
     \/ /\ m.type = "delete" /\ deleteNotify(m.id)
        /\ stray' = (stray \/ m.id \notin Shown)
        /\ UNCHANGED <<up, cut>>
  /\ UNCHANGED <<db, changes, listLoaded, changed, gets, errors, drops>>

\* The connection is lost and comes back: the root reducer resets the slice,
\* the open event the cache; announcements made in between do not arrive.
Reconnect ==
  /\ drops < MaxDrops
  /\ drops' = drops + 1
  /\ up' = <<>> /\ down' = <<>>
  /\ items' = <<>> /\ statuses' = {} /\ selected' = {}
  /\ loading' = FALSE /\ loaded' = FALSE /\ listLoaded' = FALSE
  /\ stray' = FALSE /\ cut' = FALSE
  /\ \/ UNCHANGED changes
     \/ changes # <<>> /\ changes' = <<>>
  /\ UNCHANGED <<db, changed, gets, errors>>

Next ==
  \/ RegionChanges \/ RegionNotifies \/ RegionAnswers
  \/ fetch \/ get \/ setSelected
  \/ handleMessage \/ Reconnect

Spec == Init /\ [][Next]_vars

\* The list fetches when it is shown; the region and the browser keep up.
FairSpec ==
  /\ Spec
  /\ WF_vars(RegionNotifies) /\ WF_vars(RegionAnswers)
  /\ WF_vars(handleMessage) /\ WF_vars(fetch)

-----------------------------------------------------------------------------
(* Properties.                                                               *)

Quiet == changes = <<>> /\ down = <<>>

\* A machine is never listed twice.
NoDuplicates == \A i, j \in DOMAIN items : items[i].id = items[j].id => i = j

\* Every listed machine has its statuses: selectors read them unguarded.
RowsHaveStatuses == Shown \subseteq statuses

\* When nothing is on its way the list shows no deleted machine and no old
\* version of one.
NoStaleRow == Quiet => \A i \in DOMAIN items : items[i].v = db[items[i].id]

\* Only listed machines are selected, unless deleteNotify took a wrong one.
SelectionListed == stray \/ selected \subseteq Shown

\* Batches, single machines and announcements deliver the same machine in any
\* order: it is listed once, with its statuses, in the end as the region has it,
\* and nothing is selected that is not listed.
RowsConsistent == NoDuplicates /\ RowsHaveStatuses /\ NoStaleRow /\ SelectionListed

\* When nothing is on its way a loaded list shows exactly the machines that
\* exist: batches leave no gap and the announcements fill in the rest.
ShowsAll == Quiet /\ loaded => Shown = Present

\* ShowsAll, since the list was last reset, until the deletion of a machine that
\* is not listed yet takes another one with it (deleteNotify).
Synced == stray \/ ShowsAll

\* The list is loaded to its last batch or to one that is refused, however the
\* connection behaves and the machines change.
FetchCompletes == []<>(loaded \/ cut)
=============================================================================
