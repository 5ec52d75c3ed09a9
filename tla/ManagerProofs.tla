---------------------------- MODULE ManagerProofs ----------------------------
(* Proofs about Manager, for every number of items, changes, calls and losses *)
(* of the connection, and for every size of the batches.                      *)
EXTENDS Manager, FiniteSetTheorems, SequenceTheorems, WellFoundedInduction, TLAPS

-----------------------------------------------------------------------------
(* The inductive invariant.                                                  *)

ListRequest == [method: {"list"}, kind: {"load", "reload"}, start: Id \union {0}]
ItemRequest == [method: {"get", "update", "delete", "set_active"}, id: Id]
Request == ListRequest \union ItemRequest

Notification ==
  [type: {"notify"}, kind: {"create", "update"}, item: Item]
    \union [type: {"notify"}, kind: {"delete"}, id: Id]
ListReply ==
  [type: {"list"}, kind: {"load", "reload"}, page: Seq(Item)]
    \union [type: {"refused"}, kind: {"load", "reload"}]
ItemReply ==
  [type: {"get", "update", "set_active"}, item: Item]
    \union [type: {"delete"}, id: Id] \union [type: {"error"}]
Message == Notification \union ListReply \union ItemReply

Change == [kind: {"create", "update", "delete"}, id: Id]

\* What the variables hold, and how many items there can be.
Typed ==
  /\ db \in Seq(Nat)
  /\ changed \in Nat /\ changed <= MaxChanges /\ Len(db) <= Initial + changed
  /\ changes \in Seq(Change)
  /\ regionActive \in Id \union {0}
  /\ connected \in BOOLEAN /\ opening \in BOOLEAN
  /\ loaded \in BOOLEAN /\ isLoading \in BOOLEAN /\ autoReload \in BOOLEAN
  /\ up \in Seq(Request)
  /\ down \in Seq(Message)
  /\ list \in [items: Seq(Item), active: Id \union {0}]
  /\ currentItems \in Seq(Item)
  /\ actionQueue \in Seq(Notification)
  /\ lost \in BOOLEAN /\ early \in SUBSET {"get", "notify"}

\* One batch at a time is on its way, for the array of its load or reload, and
\* none when nothing is loading.
Asked == {i \in DOMAIN up : up[i].method = "list"}
Sent == {p \in DOMAIN down : down[p].type = "list"}
OneAsked == \A i, j \in Asked : i = j
OneSent == \A p, q \in Sent : p = q
Requests == {up[i] : i \in Asked}
Batches == {down[p] : p \in Sent}
Kinds == {m.kind : m \in Requests \union Batches}

OneBatch ==
  /\ OneAsked /\ OneSent
  /\ Requests = {} \/ Batches = {}
  /\ Kinds # {} => isLoading
  /\ "load" \in Kinds => currentItems = <<>> /\ (loaded => "get" \in early)
  /\ "reload" \in Kinds => loaded
  /\ ~isLoading => actionQueue = <<>> /\ currentItems = <<>>

\* Nothing is on its way without a connection.
Cut == ~connected => up = <<>> /\ down = <<>>

\* Before the list is loaded no item is active, and none was updated or deleted.
NotLoaded ==
  ~loaded =>
    /\ list.active = 0
    /\ \A i \in DOMAIN up : up[i].method \in {"list", "get"}
    /\ \A p \in DOMAIN down : down[p].type \in {"list", "refused", "get", "error", "notify"}

\* The array of a load or reload is in order of id, and the next batch comes
\* after it.
Ascending(items) == \A i, j \in DOMAIN items : i < j => items[i].id < items[j].id
Distinct(items) == \A i, j \in DOMAIN items : items[i].id = items[j].id => i = j
Array(kind) == IF kind = "load" THEN list.items ELSE currentItems
Counts(kind) == kind = "reload" \/ "get" \notin early
UpTo(items, start) == \A i \in DOMAIN items : items[i].id <= start
Follows(page, items) ==
  \A i \in DOMAIN page : \A j \in DOMAIN items : items[j].id < page[i].id

InOrder ==
  /\ Ascending(currentItems)
  /\ "get" \notin early => Distinct(list.items)
  /\ "get" \notin early /\ ~loaded => Ascending(list.items)
  /\ \A r \in Requests : Counts(r.kind) => UpTo(Array(r.kind), r.start)
  /\ \A m \in Batches :
       /\ Ascending(m.page) /\ Len(m.page) <= batchSize
       /\ Counts(m.kind) => Follows(m.page, Array(m.kind))

\* Creations are announced in their order, and before a load each is newer than
\* what is listed.
Creations == {i \in DOMAIN changes : changes[i].kind = "create"}
Created == {p \in DOMAIN down : down[p].type = "notify" /\ down[p].kind = "create"}

CreationsInOrder ==
  /\ \A i \in Creations : changes[i].id \in DOMAIN db
  /\ \A i, j \in Creations : i < j => changes[i].id < changes[j].id
  /\ \A p, q \in Created : p < q => down[p].item.id < down[q].item.id
  /\ \A p \in Created, i \in Creations : down[p].item.id < changes[i].id
  /\ "get" \notin early /\ ~loaded /\ ~isLoading =>
       \A k \in DOMAIN list.items :
         /\ \A p \in Created : list.items[k].id < down[p].item.id
         /\ \A i \in Creations : list.items[k].id < changes[i].id

\* Every item is of one that has existed.
Real(item) == item.id \in DOMAIN db /\ item.v > 0

RowsOf(m) ==
  IF m.type = "list" THEN {m.page[i] : i \in DOMAIN m.page}
  ELSE IF m.type \in {"get", "update", "set_active"} THEN {m.item}
  ELSE IF m.type = "notify" /\ m.kind # "delete" THEN {m.item} ELSE {}

RowsReal ==
  /\ \A i \in DOMAIN list.items : Real(list.items[i])
  /\ \A i \in DOMAIN currentItems : Real(currentItems[i])
  /\ \A k \in DOMAIN actionQueue : \A item \in RowsOf(actionQueue[k]) : Real(item)
  /\ \A p \in DOMAIN down : \A item \in RowsOf(down[p]) : Real(item)
  /\ \A i \in DOMAIN up : up[i].method # "list" => up[i].id \in DOMAIN db

\* What is part of the invariant only until something was lost.
\* A load or reload has a batch on its way, over a connection, and reloads are on.
Under ==
  Regular =>
    /\ isLoading => /\ connected
                    /\ Kinds # {} \/ \E p \in DOMAIN down : down[p].type = "refused"
    /\ opening => connected
    /\ loaded \/ isLoading => autoReload
    /\ ~loaded /\ ~isLoading => list.items = <<>>

\* An item is as the region has it, or a correction of it is to come: in the
\* queue or the channel behind it, or not announced yet.
Announced(id) ==
  \E i \in DOMAIN changes :
    changes[i].id = id /\ (changes[i].kind = "delete" <=> db[id] = 0)

Corrects(m, id) ==
  /\ m.type = "notify"
  /\ \/ db[id] > 0 /\ m.kind # "delete" /\ m.item = Row(id)
     \/ db[id] = 0 /\ m.kind = "delete" /\ m.id = id

SettledBy(item, messages) ==
  \/ item.v = db[item.id]
  \/ Announced(item.id)
  \/ \E m \in messages : Corrects(m, item.id)

\* What comes after the first `k` of the queue and the first `p` of the channel.
Later(k, p) ==
  {actionQueue[j] : j \in {j \in DOMAIN actionQueue : j > k}}
    \union {down[q] : q \in {q \in DOMAIN down : q > p}}
Settled(item, k, p) == SettledBy(item, Later(k, p))

\* The list is one that is loading, or that is kept up to date.
Tracking == connected /\ ~opening /\ loaded /\ ~isLoading
Followed == Tracking \/ (isLoading /\ ~loaded)

ItemsSettled ==
  Regular =>
    /\ Followed => \A i \in DOMAIN list.items : Settled(list.items[i], 0, 0)
    /\ \A i \in DOMAIN currentItems : Settled(currentItems[i], 0, 0)
    /\ \A k \in DOMAIN actionQueue :
         \A item \in RowsOf(actionQueue[k]) : Settled(item, k, 0)
    /\ \A p \in DOMAIN down :
         \A item \in RowsOf(down[p]) : Settled(item, Len(actionQueue), p)

\* Only what has been deleted is announced, or answered, so.
DeletionsReal ==
  /\ \A i \in DOMAIN changes :
       changes[i].id \in DOMAIN db /\ (changes[i].kind = "delete" => db[changes[i].id] = 0)
  /\ \A k \in DOMAIN actionQueue :
       actionQueue[k].kind = "delete" => /\ actionQueue[k].id \in DOMAIN db
                                         /\ db[actionQueue[k].id] = 0
  /\ \A p \in DOMAIN down :
       down[p].type = "delete" \/ (down[p].type = "notify" /\ down[p].kind = "delete") =>
         down[p].id \in DOMAIN db /\ db[down[p].id] = 0

\* An item that exists is in the array, on its way, not announced yet, or still
\* before the batches.
ToCome(id) ==
  \/ \E r \in Requests : r.start < id
  \/ \E m \in Batches : /\ Len(m.page) = batchSize
                        /\ \A i \in DOMAIN m.page : m.page[i].id < id

Brings(m, id) ==
  \/ m.type = "notify" /\ m.kind = "create" /\ m.item.id = id
  \/ m.type = "list" /\ id \in Ids(m.page)

ToBeAnnounced(id) == \E i \in Creations : changes[i].id = id
OnItsWay(id) == ToBeAnnounced(id) \/ \E m \in Later(0, 0) : Brings(m, id)

NoneMissed ==
  Regular =>
    /\ isLoading /\ Kinds # {} =>
         \A id \in Present :
           \/ id \in Ids(IF loaded THEN currentItems ELSE list.items)
           \/ OnItsWay(id) \/ ToCome(id)
    /\ Tracking => \A id \in Present : id \in Ids(list.items) \/ OnItsWay(id)

\* The region was told the active item last, unless it is gone.
Told == {i \in DOMAIN up : up[i].method = "set_active"}

ActiveTold ==
  Regular /\ Tracking /\ list.active # 0 =>
    \/ \E i \in Told : up[i].id = list.active /\ \A j \in Told : j <= i
    \/ Told = {} /\ (regionActive = list.active \/ db[list.active] = 0)

IInv ==
  /\ Typed /\ OneBatch /\ Cut /\ NotLoaded
  /\ InOrder /\ CreationsInOrder /\ ActiveListed
  /\ RowsReal /\ DeletionsReal
  /\ Under /\ ItemsSettled /\ NoneMissed /\ ActiveTold

-----------------------------------------------------------------------------
(* Sequences.                                                                *)

\* Natural induction, over a set instead of a predicate.
LEMMA SetInduction ==
  ASSUME NEW S, 0 \in S, \A n \in Nat : n \in S => n + 1 \in S
  PROVE  Nat \subseteq S
<1> DEFINE T == Nat \ S
<1>1. SUFFICES ASSUME T # {} PROVE FALSE
  OBVIOUS
<1>2. PICK x \in T : \A y \in T : ~(<<y, x>> \in OpToRel(<, Nat))
  <2>1. T \subseteq Nat
    OBVIOUS
  <2> HIDE DEF T
  <2> QED
    BY Zenon, <1>1, <2>1, NatLessThanWellFounded, WFMin
<1>3. x \in Nat /\ x # 0
  OBVIOUS
<1>4. x - 1 \in Nat /\ x - 1 < x /\ (x - 1) + 1 = x
  BY <1>3
<1>5. x - 1 \in T
  BY <1>4
<1>6. <<x - 1, x>> \in OpToRel(<, Nat)
  BY <1>3, <1>4 DEF OpToRel
<1> QED
  BY Zenon, <1>2, <1>5, <1>6

\* What Append does to length and elements.
LEMMA AppendFacts ==
  ASSUME NEW S, NEW s \in Seq(S), NEW e
  PROVE  /\ Len(Append(s, e)) = Len(s) + 1
         /\ DOMAIN Append(s, e) = 1 .. Len(s) + 1
         /\ \A i \in 1 .. Len(s) : Append(s, e)[i] = s[i]
         /\ Append(s, e)[Len(s) + 1] = e
         /\ DOMAIN s = 1 .. Len(s) /\ Len(s) \in Nat
  OBVIOUS

\* What Tail does to length and elements.
LEMMA TailFacts ==
  ASSUME NEW S, NEW s \in Seq(S), s # <<>>
  PROVE  /\ Len(Tail(s)) = Len(s) - 1 /\ Tail(s) \in Seq(S)
         /\ DOMAIN Tail(s) = 1 .. Len(s) - 1
         /\ \A i \in 1 .. Len(s) - 1 : Tail(s)[i] = s[i + 1]
         /\ Len(s) \in Nat /\ Len(s) > 0 /\ 1 \in DOMAIN s
         /\ Head(s) = s[1] /\ Head(s) \in S
         /\ DOMAIN s = 1 .. Len(s)
  OBVIOUS

-----------------------------------------------------------------------------
(* The operations on the list.                                               *)

\* The index is that of the first item with the id, or 0.
LEMMA IndexFacts ==
  ASSUME NEW items \in Seq(Item), NEW id,
         NEW idx, idx = getIndexOfItem(items, id)
  PROVE  \/ idx = 0 /\ id \notin Ids(items)
         \/ idx \in DOMAIN items /\ items[idx].id = id /\ id \in Ids(items)
<1> DEFINE I == {i \in 1 .. Len(items) : items[i].id = id}
<1>1. idx = IF I # {} THEN Min(I) ELSE 0
  BY DEF getIndexOfItem, SelectInSeq
<1>2. DOMAIN items = 1 .. Len(items) /\ Len(items) \in Nat
  OBVIOUS
<1>3. CASE I = {}
  BY <1>1, <1>2, <1>3 DEF Ids
<1>4. CASE I # {}
  <2>1. I \subseteq Nat
    BY <1>2
  <2>2. Min(I) \in I
    <3> HIDE DEF I
    <3>1. \E x \in I : \A y \in I : x <= y
      <4> DEFINE T == I
      <4>1. PICK x \in T : \A y \in T : ~(<<y, x>> \in OpToRel(<, Nat))
        BY Zenon, <1>4, <2>1, NatLessThanWellFounded, WFMin
      <4>2. ASSUME NEW y \in I, ~(x <= y) PROVE FALSE
        <5>1. x \in Nat /\ y \in Nat
          BY <2>1
        <5>2. y < x
          BY <5>1, <4>2
        <5>3. <<y, x>> \in OpToRel(<, Nat)
          BY <5>1, <5>2 DEF OpToRel
        <5> QED BY Zenon, <4>1, <5>3
      <4> QED BY Zenon, <4>1, <4>2
    <3> QED BY <3>1 DEF Min
  <2> QED BY <1>1, <1>2, <1>4, <2>2 DEF Ids
<1> QED BY <1>3, <1>4

\* What a replacement leaves: the same ids, and the item where it was listed.
Replaces(r, items, item) ==
  /\ r \in Seq(Item) /\ Len(r) = Len(items) /\ DOMAIN r = DOMAIN items
  /\ \A i \in DOMAIN items : r[i].id = items[i].id
  /\ \A i \in DOMAIN items : r[i] = items[i] \/ r[i] = item
  /\ Distinct(items) => \A i \in DOMAIN items : items[i].id = item.id => r[i] = item

\* A replacement.
LEMMA ReplaceFacts ==
  ASSUME NEW items \in Seq(Item), NEW item \in Item,
         NEW r, r = replaceItemInArray(items, item)
  PROVE  Replaces(r, items, item)
<1>1. PICK idx : idx = getIndexOfItem(items, item.id)
  OBVIOUS
<1>2. r = IF idx = 0 THEN items ELSE [items EXCEPT ![idx] = item]
  BY <1>1 DEF replaceItemInArray, ReplaceAt
<1>3. DOMAIN items = 1 .. Len(items) /\ Len(items) \in Nat
  OBVIOUS
<1>4. CASE idx = 0 /\ item.id \notin Ids(items)
  <2>1. r = items
    BY <1>2, <1>4
  <2>2. \A i \in DOMAIN items : items[i].id # item.id
    BY <1>4 DEF Ids
  <2> QED BY <2>1, <2>2 DEF Replaces
<1>5. CASE idx \in DOMAIN items /\ items[idx].id = item.id
  <2>1. idx # 0 /\ r = [items EXCEPT ![idx] = item]
    BY <1>2, <1>3, <1>5
  <2>2. r \in Seq(Item) /\ Len(r) = Len(items) /\ DOMAIN r = DOMAIN items
    BY <2>1, <1>5
  <2>3. \A i \in DOMAIN items : r[i] = IF i = idx THEN item ELSE items[i]
    BY <2>1
  <2>4. Distinct(items) => \A i \in DOMAIN items : items[i].id = item.id => i = idx
    BY <1>5 DEF Distinct
  <2> QED BY <1>5, <2>2, <2>3, <2>4 DEF Replaces
<1> QED BY <1>1, <1>4, <1>5, IndexFacts

\* What a removal leaves: the other items, in their order.
Removes(r, items, id) ==
  /\ r \in Seq(Item) /\ Len(r) <= Len(items)
  /\ \A i \in DOMAIN r : \E k \in DOMAIN items : k >= i /\ r[i] = items[k]
  /\ \A k \in DOMAIN items : items[k].id # id => \E i \in DOMAIN r : r[i] = items[k]
  /\ Distinct(items) => Distinct(r) /\ \A i \in DOMAIN r : r[i].id # id
  /\ Ascending(items) => Ascending(r)

\* A removal.
LEMMA RemoveFacts ==
  ASSUME NEW items \in Seq(Item), NEW id,
         NEW r, r = removeItemByIdFromArray(items, id)
  PROVE  Removes(r, items, id)
<1>1. PICK idx : idx = getIndexOfItem(items, id)
  OBVIOUS
<1>2. r = IF idx = 0 THEN items
          ELSE SubSeq(items, 1, idx - 1) \o SubSeq(items, idx + 1, Len(items))
  BY <1>1 DEF removeItemByIdFromArray, RemoveAt
<1>3. DOMAIN items = 1 .. Len(items) /\ Len(items) \in Nat
  OBVIOUS
<1>4. CASE idx = 0 /\ id \notin Ids(items)
  <2>1. r = items
    BY <1>2, <1>4
  <2>2. \A i \in DOMAIN items : items[i].id # id
    BY <1>4 DEF Ids
  <2>3. \A i \in DOMAIN r : i >= i
    BY <1>3, <2>1
  <2> QED BY <1>3, <2>1, <2>2, <2>3 DEF Removes
<1>5. CASE idx \in DOMAIN items /\ items[idx].id = id
  <2> DEFINE a == SubSeq(items, 1, idx - 1)
             b == SubSeq(items, idx + 1, Len(items))
  <2>1. idx \in 1 .. Len(items) /\ idx \in Nat /\ idx # 0 /\ Len(items) \in Nat
    BY <1>3, <1>5
  <2>13. r = a \o b
    BY Zenon, <1>2, <2>1
  <2>2. /\ a \in Seq(Item) /\ Len(a) = idx - 1
        /\ \A i \in 1 .. idx - 1 : a[i] = items[i]
    BY <2>1, <1>3
  <2>3. /\ b \in Seq(Item) /\ Len(b) = Len(items) - idx
        /\ \A i \in 1 .. Len(items) - idx : b[i] = items[i + idx]
    <3>1. /\ b \in Seq(Item) /\ Len(b) = Len(items) - idx
          /\ \A i \in 1 .. Len(items) - idx : b[i] = items[(idx + 1) + i - 1]
      BY <2>1, <1>3
    <3>2. \A i \in 1 .. Len(items) - idx : (idx + 1) + i - 1 = i + idx
      BY <2>1
    <3> QED BY <3>1, <3>2
  <2> HIDE DEF a, b
  <2>4. /\ r \in Seq(Item) /\ Len(r) = Len(items) - 1
        /\ DOMAIN r = 1 .. Len(items) - 1
        /\ \A i \in DOMAIN r : r[i] = IF i <= Len(a) THEN a[i] ELSE b[i - Len(a)]
    <3>1. /\ r \in Seq(Item) /\ Len(r) = Len(a) + Len(b) /\ DOMAIN r = 1 .. Len(r)
          /\ \A i \in DOMAIN r : r[i] = IF i <= Len(a) THEN a[i] ELSE b[i - Len(a)]
      BY <2>13, <2>2, <2>3
    <3>2. Len(a) + Len(b) = Len(items) - 1
      BY <2>1, <2>2, <2>3
    <3> QED BY <3>1, <3>2
  <2>5. \A i \in DOMAIN r : r[i] = IF i < idx THEN items[i] ELSE items[i + 1]
    <3> TAKE i \in DOMAIN r
    <3>1. CASE i < idx
      <4>1. i <= Len(a) /\ i \in 1 .. idx - 1
        BY <3>1, <2>1, <2>2, <2>4, <1>3
      <4> QED BY <4>1, <3>1, <2>2, <2>4
    <3>2. CASE ~(i < idx)
      <4>1. /\ ~(i <= Len(a)) /\ i - Len(a) \in 1 .. Len(items) - idx
            /\ (i - Len(a)) + idx = i + 1
        BY <3>2, <2>1, <2>2, <2>4, <1>3
      <4> QED BY Zenon, <4>1, <3>2, <2>3, <2>4
    <3> QED BY <3>1, <3>2
  <2>6. \A i \in DOMAIN r : \E k \in DOMAIN items : k >= i /\ k # idx /\ r[i] = items[k]
    <3> TAKE i \in DOMAIN r
    <3>1. i \in DOMAIN items /\ i + 1 \in DOMAIN items /\ i + 1 >= i /\ i >= i
      BY <2>4, <1>3
    <3> QED BY <3>1, <2>1, <2>5
  <2>7. \A k \in DOMAIN items : k # idx => \E i \in DOMAIN r : r[i] = items[k]
    <3> SUFFICES ASSUME NEW k \in DOMAIN items, k # idx
                 PROVE  \E i \in DOMAIN r : r[i] = items[k]
      OBVIOUS
    <3>1. CASE k < idx
      <4>1. k \in DOMAIN r
        BY <3>1, <1>3, <2>1, <2>4
      <4> QED BY <4>1, <3>1, <2>5
    <3>2. CASE k > idx
      <4>1. k - 1 \in DOMAIN r /\ ~(k - 1 < idx) /\ (k - 1) + 1 = k
        BY <3>2, <1>3, <2>1, <2>4
      <4>2. r[k - 1] = items[k]
        BY <4>1, <2>5
      <4> QED BY <4>1, <4>2
    <3> QED BY <3>1, <3>2, <2>1, <1>3
  <2>8. Ascending(items) => Ascending(r)
    <3> SUFFICES ASSUME Ascending(items), NEW i \in DOMAIN r, NEW j \in DOMAIN r, i < j
                 PROVE  r[i].id < r[j].id
      BY DEF Ascending
    <3>1. /\ i \in DOMAIN items /\ i + 1 \in DOMAIN items
          /\ j \in DOMAIN items /\ j + 1 \in DOMAIN items
          /\ i < j + 1 /\ i + 1 < j + 1 /\ (i + 1 < j \/ i + 1 = j)
          /\ (i < idx \/ ~(j < idx))
      BY <2>1, <2>4, <1>3
    <3> QED BY <3>1, <2>5 DEF Ascending
  <2>9. Distinct(items) => Distinct(r) /\ \A i \in DOMAIN r : r[i].id # id
    <3> SUFFICES ASSUME Distinct(items)
                 PROVE  Distinct(r) /\ \A i \in DOMAIN r : r[i].id # id
      OBVIOUS
    <3>1. \A i \in DOMAIN r : r[i].id # id
      <4> TAKE i \in DOMAIN r
      <4>1. PICK k \in DOMAIN items : k # idx /\ r[i] = items[k]
        BY <2>6
      <4> QED BY <4>1, <1>5 DEF Distinct
    <3>2. ASSUME NEW i \in DOMAIN r, NEW j \in DOMAIN r, r[i].id = r[j].id
          PROVE  i = j
      <4>1. /\ i \in DOMAIN items /\ i + 1 \in DOMAIN items
            /\ j \in DOMAIN items /\ j + 1 \in DOMAIN items
            /\ i \in Nat /\ j \in Nat /\ idx \in Nat
        BY <2>1, <2>4, <1>3
      <4>2. r[i] = (IF i < idx THEN items[i] ELSE items[i + 1])
            /\ r[j] = (IF j < idx THEN items[j] ELSE items[j + 1])
        BY <2>5
      <4>3. CASE i < idx /\ j < idx
        BY Zenon, <4>1, <4>2, <4>3, <3>2 DEF Distinct
      <4>4. CASE i < idx /\ ~(j < idx)
        <5>1. i = j + 1
          BY <4>1, <4>2, <4>4, <3>2 DEF Distinct
        <5> QED BY <5>1, <4>1, <4>4
      <4>5. CASE ~(i < idx) /\ j < idx
        <5>1. i + 1 = j
          BY <4>1, <4>2, <4>5, <3>2 DEF Distinct
        <5> QED BY <5>1, <4>1, <4>5
      <4>6. CASE ~(i < idx) /\ ~(j < idx)
        <5>1. i + 1 = j + 1
          BY Zenon, <4>1, <4>2, <4>6, <3>2 DEF Distinct
        <5> QED BY <5>1, <4>1
      <4> QED BY <4>3, <4>4, <4>5, <4>6
    <3> QED BY <3>1, <3>2 DEF Distinct
  <2>10. \A i \in DOMAIN r : \E k \in DOMAIN items : k >= i /\ r[i] = items[k]
    BY <2>6
  <2>11. Len(r) <= Len(items)
    BY <2>4, <1>3
  <2>12. \A k \in DOMAIN items : items[k].id # id => \E i \in DOMAIN r : r[i] = items[k]
    BY <2>7, <1>5
  <2> QED BY <2>4, <2>8, <2>9, <2>10, <2>11, <2>12 DEF Removes
<1> QED BY <1>1, <1>4, <1>5, IndexFacts

List == [items: Seq(Item), active: Id \union {0}]
ActiveIn(l) == l.active # 0 => l.active \in Ids(l.items)
IdOf(a) == IF a.kind = "delete" THEN a.id ELSE a.item.id

\* What processing a notification does to the list.
Processes(r, l, a) ==
  /\ r \in List
  /\ r.active = l.active \/ r.active = 0
  /\ ActiveIn(l) => ActiveIn(r)
  /\ Distinct(l.items) => Distinct(r.items)
  /\ Ascending(l.items) /\ (a.kind = "create" => \A k \in DOMAIN l.items : l.items[k].id < a.item.id)
       => Ascending(r.items)
  /\ \A i \in DOMAIN r.items :
       \/ \E k \in DOMAIN l.items : r.items[i] = l.items[k]
       \/ a.kind # "delete" /\ r.items[i] = a.item /\ (a.kind = "update" => a.item.id \in Ids(l.items))
  /\ Distinct(l.items) =>
       \A i \in DOMAIN r.items :
         r.items[i].id = IdOf(a) => a.kind # "delete" /\ r.items[i] = a.item
  /\ \A id \in Ids(l.items) : (a.kind = "delete" /\ id = a.id) \/ id \in Ids(r.items)
  /\ a.kind = "create" => a.item.id \in Ids(r.items)

\* A notification holds an item, or the id of a deleted one.
LEMMA NotificationFacts ==
  ASSUME NEW a \in Notification
  PROVE  /\ a.type = "notify" /\ a.kind \in {"create", "update", "delete"}
         /\ a.kind # "delete" => a.item \in Item
         /\ a.kind = "delete" => a.id \in Id
  BY DEF Notification

\* An item that replaces one.
LEMMA ReplaceProcesses ==
  ASSUME NEW l \in List, NEW a \in Notification, a.kind # "delete",
         NEW r, r = replaceItem(l, a.item),
         a.kind = "create" => a.item.id \in Ids(l.items)
  PROVE  Processes(r, l, a)
<1>1. a.item \in Item /\ IdOf(a) = a.item.id
  BY NotificationFacts DEF IdOf
<1>2. l.items \in Seq(Item) /\ DOMAIN l = {"items", "active"} /\ l.active \in Id \union {0}
  BY DEF List
<1>3. PICK s : s = replaceItemInArray(l.items, a.item)
  OBVIOUS
<1>4. Replaces(s, l.items, a.item)
  BY <1>1, <1>2, <1>3, ReplaceFacts
<1>5. r = [l EXCEPT !.items = s]
  BY <1>3 DEF replaceItem
<1>6. r.items = s /\ r.active = l.active /\ r \in List
  BY <1>2, <1>4, <1>5 DEF List, Replaces
<1> DEFINE it == l.items
<1>7. it \in Seq(Item) /\ Replaces(s, it, a.item)
  BY <1>2, <1>4
<1> HIDE DEF it
<1>8. Distinct(it) => Distinct(s)
  BY <1>7 DEF Replaces, Distinct
<1>9. Ascending(it) => Ascending(s)
  BY <1>7 DEF Replaces, Ascending
<1>10. Ids(s) = Ids(it)
  BY <1>7 DEF Replaces, Ids
<1>11. a.item.id \notin Ids(it) => \A i \in DOMAIN s : s[i] = it[i]
  <2> SUFFICES ASSUME a.item.id \notin Ids(it), NEW i \in DOMAIN s PROVE s[i] = it[i]
    OBVIOUS
  <2>1. i \in DOMAIN it /\ s[i].id = it[i].id /\ (s[i] = it[i] \/ s[i] = a.item)
    BY <1>7 DEF Replaces
  <2>2. it[i].id \in Ids(it)
    BY <2>1 DEF Ids
  <2> QED BY <2>1, <2>2
<1>12. \A i \in DOMAIN s : \/ \E k \in DOMAIN it : s[i] = it[k]
                           \/ s[i] = a.item /\ (a.kind = "update" => a.item.id \in Ids(it))
  <2> TAKE i \in DOMAIN s
  <2>1. i \in DOMAIN it /\ (s[i] = it[i] \/ s[i] = a.item)
    BY <1>7 DEF Replaces
  <2> QED BY <2>1, <1>11
<1>13. Distinct(it) => \A i \in DOMAIN s : s[i].id = a.item.id => s[i] = a.item
  BY <1>7 DEF Replaces
<1>14. ActiveIn(l) => ActiveIn(r)
  BY <1>6, <1>10 DEF ActiveIn, it
<1>15. a.kind = "create" => a.item.id \in Ids(s)
  BY <1>10 DEF it
<1> QED
  BY <1>1, <1>6, <1>8, <1>9, <1>10, <1>12, <1>13, <1>14, <1>15 DEF Processes, it

\* An item that is added.
LEMMA AppendProcesses ==
  ASSUME NEW l \in List, NEW a \in Notification, a.kind = "create",
         a.item.id \notin Ids(l.items),
         NEW r, r = [l EXCEPT !.items = Append(@, a.item)]
  PROVE  Processes(r, l, a)
<1>1. a.item \in Item /\ IdOf(a) = a.item.id
  BY NotificationFacts DEF IdOf
<1>2. l.items \in Seq(Item) /\ DOMAIN l = {"items", "active"} /\ l.active \in Id \union {0}
  BY DEF List
<1> DEFINE it == l.items
           x == a.item
           s == Append(it, x)
<1>3. r.items = s /\ r.active = l.active /\ r \in List
  <2>1. s \in Seq(Item) /\ r = [l EXCEPT !.items = s]
    BY <1>1, <1>2
  <2> HIDE DEF s
  <2> QED BY Zenon, <1>2, <2>1 DEF List
<1>4. /\ it \in Seq(Item) /\ x \in Item /\ x.id \notin Ids(it)
      /\ s \in Seq(Item) /\ DOMAIN it = 1 .. Len(it) /\ DOMAIN s = 1 .. Len(it) + 1
      /\ Len(it) \in Nat /\ s[Len(it) + 1] = x
      /\ \A i \in DOMAIN it : i \in DOMAIN s /\ s[i] = it[i]
  BY <1>1, <1>2, AppendFacts
<1> HIDE DEF it, x, s
<1>5. \A i \in DOMAIN s : i \in DOMAIN it \/ i = Len(it) + 1
  BY <1>4
<1>6. \A i \in DOMAIN it : it[i].id # x.id
  BY <1>4 DEF Ids
<1>7. Distinct(it) => Distinct(s)
  BY <1>4, <1>5, <1>6 DEF Distinct
<1>8. Ascending(it) /\ (\A k \in DOMAIN it : it[k].id < x.id) => Ascending(s)
  <2> SUFFICES ASSUME Ascending(it), \A k \in DOMAIN it : it[k].id < x.id,
                      NEW i \in DOMAIN s, NEW j \in DOMAIN s, i < j
               PROVE  s[i].id < s[j].id
    BY DEF Ascending
  <2>1. i \in DOMAIN it
    BY <1>4
  <2>2. CASE j \in DOMAIN it
    BY <2>1, <2>2, <1>4 DEF Ascending
  <2>3. CASE j = Len(it) + 1
    BY <2>1, <2>3, <1>4
  <2> QED BY <1>5, <2>2, <2>3
<1>9. \A i \in DOMAIN s : (\E k \in DOMAIN it : s[i] = it[k]) \/ s[i] = x
  BY <1>4, <1>5
<1>10. \A i \in DOMAIN s : s[i].id = x.id => s[i] = x
  BY <1>4, <1>5, <1>6
<1>11. Len(it) + 1 \in DOMAIN s
  BY <1>4
<1>12. x.id \in Ids(s)
  BY <1>4, <1>11 DEF Ids
<1>13. \A id \in Ids(it) : id \in Ids(s)
  BY <1>4 DEF Ids
<1>14. ActiveIn(l) => ActiveIn(r)
  BY Zenon, <1>3, <1>13 DEF ActiveIn, it
<1> QED
  BY Zenon, <1>1, <1>3, <1>7, <1>8, <1>9, <1>10, <1>12, <1>13, <1>14 DEF Processes, it, x

\* An item that is removed.
LEMMA RemoveProcesses ==
  ASSUME NEW l \in List, NEW a \in Notification, a.kind = "delete",
         NEW r, r = removeItem(l, a.id)
  PROVE  Processes(r, l, a)
<1>1. a.id \in Id /\ IdOf(a) = a.id
  BY NotificationFacts DEF IdOf
<1>2. l.items \in Seq(Item) /\ DOMAIN l = {"items", "active"} /\ l.active \in Id \union {0}
  BY DEF List
<1>3. PICK s : s = removeItemByIdFromArray(l.items, a.id)
  OBVIOUS
<1>4. Removes(s, l.items, a.id)
  BY <1>2, <1>3, RemoveFacts
<1>5. r = [l EXCEPT !.items = s, !.active = IF @ = a.id THEN 0 ELSE @]
  BY <1>3 DEF removeItem
<1>6. /\ r.items = s /\ r.active = (IF l.active = a.id THEN 0 ELSE l.active)
      /\ r \in List
  BY Zenon, <1>2, <1>4, <1>5 DEF List, Removes
<1> DEFINE it == l.items
<1>7. it \in Seq(Item) /\ Removes(s, it, a.id)
  BY <1>2, <1>4
<1> HIDE DEF it
<1>8. \A i \in DOMAIN s : \E k \in DOMAIN it : s[i] = it[k]
  BY <1>7 DEF Removes
<1>9. \A id \in Ids(it) : id = a.id \/ id \in Ids(s)
  <2> TAKE id \in Ids(it)
  <2>1. PICK k \in DOMAIN it : it[k].id = id
    BY DEF Ids
  <2>2. CASE it[k].id # a.id
    <3>1. PICK i \in DOMAIN s : s[i] = it[k]
      BY <2>2, <1>7 DEF Removes
    <3> QED BY <3>1, <2>1 DEF Ids
  <2> QED BY <2>1, <2>2
<1>10. ActiveIn(l) => ActiveIn(r)
  <2> SUFFICES ASSUME ActiveIn(l), r.active # 0 PROVE r.active \in Ids(s)
    BY <1>6 DEF ActiveIn
  <2>1. r.active = l.active /\ l.active # a.id /\ l.active # 0
    BY <1>6
  <2> QED BY <2>1, <1>9 DEF ActiveIn, it
<1>11. Distinct(it) => Distinct(s) /\ \A i \in DOMAIN s : s[i].id # a.id
  BY <1>7 DEF Removes
<1>12. Ascending(it) => Ascending(s)
  BY <1>7 DEF Removes
<1> QED
  BY <1>1, <1>6, <1>8, <1>9, <1>10, <1>11, <1>12 DEF Processes, it

\* What addItem does.
LEMMA AddCases ==
  ASSUME NEW l \in List, NEW item
  PROVE  \/ item.id \in Ids(l.items) /\ addItem(l, item) = replaceItem(l, item)
         \/ /\ item.id \notin Ids(l.items)
            /\ addItem(l, item) = [l EXCEPT !.items = Append(@, item)]
<1>1. l.items \in Seq(Item)
  BY DEF List
<1>2. PICK idx : idx = getIndexOfItem(l.items, item.id)
  OBVIOUS
<1>3. \/ idx = 0 /\ item.id \notin Ids(l.items)
      \/ idx \in DOMAIN l.items /\ item.id \in Ids(l.items)
  BY <1>1, <1>2, IndexFacts
<1>4. 0 \notin DOMAIN l.items
  BY <1>1
<1> QED BY <1>2, <1>3, <1>4 DEF addItem, replaceItem

\* processAction does what Processes says.
LEMMA ProcessFacts ==
  ASSUME NEW l \in List, NEW a \in Notification, NEW r, r = processAction(l, a)
  PROVE  Processes(r, l, a)
<1>1. CASE a.kind = "create"
  <2>1. r = addItem(l, a.item)
    BY <1>1 DEF processAction
  <2> QED BY <1>1, <2>1, AddCases, ReplaceProcesses, AppendProcesses
<1>2. CASE a.kind = "update"
  <2>1. r = replaceItem(l, a.item)
    BY <1>2 DEF processAction
  <2> QED BY <1>2, <2>1, ReplaceProcesses
<1>3. CASE a.kind = "delete"
  <2>1. r = removeItem(l, a.id)
    BY <1>3 DEF processAction
  <2> QED BY <1>3, <2>1, RemoveProcesses
<1> QED BY <1>1, <1>2, <1>3, NotificationFacts

\* The function that a recursion over 0 .. N from `base` defines.
Recurs(f, X, base, N, step) ==
  /\ f \in [0 .. N -> X]
  /\ f = [n \in 0 .. N |-> IF n = 0 THEN base ELSE step[<<f[n - 1], n>>]]

\* There is one.
LEMMA Recursion ==
  ASSUME NEW X, NEW base \in X, NEW N \in Nat, NEW step \in [X \X (1 .. N) -> X]
  PROVE  \E f : Recurs(f, X, base, N, step)
<1> DEFINE F(f, k) == /\ f \in [0 .. k -> X]
                      /\ f = [n \in 0 .. k |-> IF n = 0 THEN base ELSE step[<<f[n - 1], n>>]]
           S == {k \in Nat : k <= N => \E f : F(f, k)}
<1>1. 0 \in S
  <2> DEFINE f == [n \in 0 .. 0 |-> base]
  <2>1. f \in [0 .. 0 -> X]
    OBVIOUS
  <2>2. f = [n \in 0 .. 0 |-> IF n = 0 THEN base ELSE step[<<f[n - 1], n>>]]
    OBVIOUS
  <2> QED BY Zenon, <2>1, <2>2
<1>2. ASSUME NEW k \in Nat, k \in S PROVE k + 1 \in S
  <2> SUFFICES ASSUME k + 1 <= N PROVE \E f : F(f, k + 1)
    OBVIOUS
  <2>1. PICK f : F(f, k)
    BY <1>2
  <2>2. f[k] \in X /\ k + 1 \in 1 .. N
    BY <2>1
  <2>3. step[<<f[k], k + 1>>] \in X
    BY <2>2
  <2> DEFINE g == [n \in 0 .. k + 1 |-> IF n = k + 1 THEN step[<<f[k], k + 1>>] ELSE f[n]]
  <2>4. g \in [0 .. k + 1 -> X]
    <3> SUFFICES ASSUME NEW n \in 0 .. k + 1, n # k + 1 PROVE f[n] \in X
      BY <2>3
    <3>1. n \in 0 .. k
      OBVIOUS
    <3> QED BY <3>1, <2>1
  <2>5. \A n \in 0 .. k + 1 : g[n] = IF n = 0 THEN base ELSE step[<<g[n - 1], n>>]
    <3> TAKE n \in 0 .. k + 1
    <3>1. CASE n = 0
      BY <3>1, <2>1
    <3>2. CASE n # 0 /\ n # k + 1
      <4>1. n - 1 \in 0 .. k /\ n \in 0 .. k
        BY <3>2
      <4>2. g[n - 1] = f[n - 1] /\ g[n] = f[n]
        BY <4>1, <3>2
      <4>3. f[n] = step[<<f[n - 1], n>>]
        BY <2>1, <4>1, <3>2
      <4> QED BY Zenon, <4>2, <4>3, <3>2
    <3>3. CASE n = k + 1
      <4>1. n - 1 = k /\ n # 0 /\ k \in 0 .. k + 1 /\ k # k + 1
        BY <3>3
      <4>2. g[k] = f[k] /\ g[n] = step[<<f[k], k + 1>>]
        BY <4>1, <3>3
      <4> QED BY <4>1, <4>2, <3>3
    <3> QED BY <3>1, <3>2, <3>3
  <2>6. F(g, k + 1)
    BY Zenon, <2>4, <2>5
  <2> HIDE DEF F
  <2> QED BY <2>6
<1>3. N \in S
  <2> HIDE DEF S
  <2> QED BY <1>1, <1>2, SetInduction
<1>4. PICK f : F(f, N)
  BY <1>3
<1> QED BY Zenon, <1>4 DEF Recurs

\* The steps of processActions.
LEMMA ProcessedDefined ==
  ASSUME NEW l \in List, NEW queue \in Seq(Notification)
  PROVE  \E f \in [0 .. Len(queue) -> List] :
           /\ f[0] = l /\ processActions(l, queue) = f[Len(queue)]
           /\ \A n \in 1 .. Len(queue) : f[n] = processAction(f[n - 1], queue[n])
<1> DEFINE N == Len(queue)
           step == [x \in List \X (1 .. N) |-> processAction(x[1], queue[x[2]])]
           G(f) == f = [n \in 0 .. N |->
                          IF n = 0 THEN l ELSE processAction(f[n - 1], queue[n])]
<1>1. N \in Nat /\ \A n \in 1 .. N : queue[n] \in Notification
  OBVIOUS
<1>2. \A x \in List, n \in 1 .. N : processAction(x, queue[n]) \in List
  BY Zenon, <1>1, ProcessFacts DEF Processes
<1>3. step \in [List \X (1 .. N) -> List]
  BY <1>2
<1>11. PICK f : Recurs(f, List, l, N, step)
  <2> HIDE DEF step, N
  <2> QED BY Zenon, <1>1, <1>3, Recursion
<1>4. /\ f \in [0 .. N -> List]
      /\ f = [n \in 0 .. N |-> IF n = 0 THEN l ELSE step[<<f[n - 1], n>>]]
  BY Zenon, <1>11 DEF Recurs
<1>5. ASSUME NEW n \in 0 .. N
      PROVE  f[n] = IF n = 0 THEN l ELSE processAction(f[n - 1], queue[n])
  <2>1. CASE n = 0
    BY <2>1, <1>4
  <2>2. CASE n # 0
    <3>1. n \in 1 .. N /\ n - 1 \in 0 .. N
      BY <2>2, <1>1
    <3>2. f[n - 1] \in List /\ f[n] = step[<<f[n - 1], n>>]
      BY Zenon, <3>1, <1>4, <2>2
    <3>3. step[<<f[n - 1], n>>] = processAction(f[n - 1], queue[n])
      BY <3>1, <3>2
    <3> QED BY <2>2, <3>2, <3>3
  <2> QED BY <2>1, <2>2
<1>6. G(f)
  <2>1. DOMAIN f = 0 .. N /\ f = [n \in 0 .. N |-> f[n]]
    BY <1>4
  <2> QED BY Zenon, <1>5, <2>1
<1>7. /\ G(CHOOSE g : G(g))
      /\ processActions(l, queue) = (CHOOSE g : G(g))[N]
  <2>1. G(CHOOSE g : G(g))
    <3> HIDE DEF G
    <3> QED BY <1>6
  <2> QED BY <2>1 DEF processActions
<1>8. ASSUME NEW g, G(g) PROVE g = f
  <2> DEFINE S == {n \in Nat : n <= N => g[n] = f[n]}
  <2>1. 0 \in S
    BY <1>8, <1>5, <1>1
  <2>2. ASSUME NEW n \in Nat, n \in S PROVE n + 1 \in S
    <3> SUFFICES ASSUME n + 1 <= N PROVE g[n + 1] = f[n + 1]
      OBVIOUS
    <3>1. n + 1 \in 0 .. N /\ n + 1 # 0 /\ (n + 1) - 1 = n /\ n <= N
      BY <1>1
    <3>2. g[n] = f[n]
      BY <2>2, <3>1
    <3>3. g[n + 1] = processAction(g[(n + 1) - 1], queue[n + 1])
      BY <3>1, <1>8
    <3>4. f[n + 1] = processAction(f[(n + 1) - 1], queue[n + 1])
      BY <3>1, <1>5
    <3> QED BY <3>1, <3>2, <3>3, <3>4
  <2>3. Nat \subseteq S
    <3> HIDE DEF S
    <3> QED BY <2>1, <2>2, SetInduction
  <2>4. \A n \in 0 .. N : g[n] = f[n]
    BY <2>3, <1>1
  <2>5. g = [n \in 0 .. N |-> g[n]] /\ f = [n \in 0 .. N |-> f[n]]
    BY <1>8, <1>4
  <2> QED BY <2>4, <2>5
<1>9. processActions(l, queue) = f[N]
  <2> HIDE DEF G
  <2> QED BY <1>7, <1>8
<1>10. f[0] = l /\ \A n \in 1 .. N : f[n] = processAction(f[n - 1], queue[n])
  BY <1>1, <1>5
<1> QED BY Zenon, <1>4, <1>9, <1>10

\* What holds of the list before the queue is processed, and is kept as each
\* notification is, holds after.
LEMMA ProcessedIn ==
  ASSUME NEW l \in List, NEW queue \in Seq(Notification), NEW G,
         l \in G[0],
         \A n \in 1 .. Len(queue) : \A x \in List :
           x \in G[n - 1] => processAction(x, queue[n]) \in G[n]
  PROVE  processActions(l, queue) \in G[Len(queue)] /\ processActions(l, queue) \in List
<1>1. PICK f \in [0 .. Len(queue) -> List] :
        /\ f[0] = l /\ processActions(l, queue) = f[Len(queue)]
        /\ \A n \in 1 .. Len(queue) : f[n] = processAction(f[n - 1], queue[n])
  BY ProcessedDefined
<1>2. Len(queue) \in Nat
  OBVIOUS
<1> DEFINE S == {n \in Nat : n <= Len(queue) => f[n] \in G[n]}
<1>3. 0 \in S
  BY <1>1
<1>4. ASSUME NEW n \in Nat, n \in S PROVE n + 1 \in S
  <2> SUFFICES ASSUME n + 1 <= Len(queue) PROVE f[n + 1] \in G[n + 1]
    OBVIOUS
  <2>1. n + 1 \in 1 .. Len(queue) /\ (n + 1) - 1 = n /\ n \in 0 .. Len(queue)
    BY <1>2
  <2>2. f[n] \in List /\ f[n] \in G[(n + 1) - 1]
    BY <1>1, <1>4, <2>1
  <2>3. processAction(f[n], queue[n + 1]) \in G[n + 1]
    BY <2>1, <2>2
  <2>4. f[n + 1] = processAction(f[(n + 1) - 1], queue[n + 1])
    BY <2>1, <1>1
  <2> QED BY <2>1, <2>3, <2>4
<1>5. Len(queue) \in S
  <2> HIDE DEF S
  <2> QED BY <1>2, <1>3, <1>4, SetInduction
<1>6. Len(queue) \in 0 .. Len(queue)
  BY <1>2
<1> QED BY <1>1, <1>2, <1>5, <1>6

\* The elements at the indices `I`, in their order.
Picks(r, s, I) ==
  /\ r \in Seq(Item)
  /\ \A k \in DOMAIN r : \E i \in DOMAIN s : i \in I /\ r[k] = s[i]
  /\ \A i \in DOMAIN s : i \in I => \E k \in DOMAIN r : r[k] = s[i]
  /\ (\A i, j \in DOMAIN s : i \in I /\ j \in I /\ s[i].id = s[j].id => i = j) => Distinct(r)

\* One step of Picked.
PickStep(r, s, I, n) == IF n \in I THEN Append(r, s[n]) ELSE r

\* The recursion of Picked.
LEMMA PickedDefined ==
  ASSUME NEW s \in Seq(Item), NEW I
  PROVE  \E f \in [0 .. Len(s) -> Seq(Item)] :
           /\ f[0] = <<>> /\ Picked(s, I) = f[Len(s)]
           /\ \A n \in 1 .. Len(s) : f[n] = PickStep(f[n - 1], s, I, n)
<1> DEFINE N == Len(s)
           step == [x \in Seq(Item) \X (1 .. N) |-> PickStep(x[1], s, I, x[2])]
           G(f) == f = [n \in 0 .. N |-> IF n = 0 THEN <<>> ELSE PickStep(f[n - 1], s, I, n)]
           H(f) == f = [n \in 0 .. N |->
                          IF n = 0 THEN <<>>
                          ELSE IF n \in I THEN Append(f[n - 1], s[n]) ELSE f[n - 1]]
<1>1. N \in Nat /\ \A n \in 1 .. N : s[n] \in Item
  OBVIOUS
<1>2. \A x \in Seq(Item), n \in 1 .. N : PickStep(x, s, I, n) \in Seq(Item)
  BY <1>1 DEF PickStep
<1>3. step \in [Seq(Item) \X (1 .. N) -> Seq(Item)] /\ <<>> \in Seq(Item)
  BY <1>2
<1>11. PICK f : Recurs(f, Seq(Item), <<>>, N, step)
  <2> HIDE DEF step, N
  <2> QED BY Zenon, <1>1, <1>3, Recursion
<1>4. /\ f \in [0 .. N -> Seq(Item)]
      /\ f = [n \in 0 .. N |-> IF n = 0 THEN <<>> ELSE step[<<f[n - 1], n>>]]
  BY Zenon, <1>11 DEF Recurs
<1>5. ASSUME NEW n \in 0 .. N
      PROVE  f[n] = IF n = 0 THEN <<>> ELSE PickStep(f[n - 1], s, I, n)
  <2>1. CASE n = 0
    BY <2>1, <1>4
  <2>2. CASE n # 0
    <3>1. n \in 1 .. N /\ n - 1 \in 0 .. N
      BY <2>2, <1>1
    <3>2. f[n - 1] \in Seq(Item) /\ f[n] = step[<<f[n - 1], n>>]
      BY Zenon, <3>1, <1>4, <2>2
    <3>3. step[<<f[n - 1], n>>] = PickStep(f[n - 1], s, I, n)
      BY <3>1, <3>2
    <3> QED BY <2>2, <3>2, <3>3
  <2> QED BY <2>1, <2>2
<1>6. G(f)
  <2>1. DOMAIN f = 0 .. N /\ f = [n \in 0 .. N |-> f[n]]
    BY <1>4
  <2> QED BY <1>5, <2>1
<1>7. /\ G(CHOOSE g : H(g))
      /\ Picked(s, I) = (CHOOSE g : H(g))[N]
  <2>1. \A g : G(g) <=> H(g)
    BY DEF PickStep
  <2>2. H(CHOOSE g : H(g))
    <3> HIDE DEF G, H
    <3> QED BY <1>6, <2>1
  <2>3. G(CHOOSE g : H(g))
    <3> HIDE DEF G, H
    <3> QED BY <2>1, <2>2
  <2> QED BY Zenon, <2>3 DEF Picked
<1>8. ASSUME NEW g, G(g) PROVE g = f
  <2> DEFINE S == {n \in Nat : n <= N => g[n] = f[n]}
  <2>1. 0 \in S
    BY <1>8, <1>5, <1>1
  <2>2. ASSUME NEW n \in Nat, n \in S PROVE n + 1 \in S
    <3> SUFFICES ASSUME n + 1 <= N PROVE g[n + 1] = f[n + 1]
      OBVIOUS
    <3>1. n + 1 \in 0 .. N /\ n + 1 # 0 /\ (n + 1) - 1 = n /\ n <= N
      BY <1>1
    <3>2. g[n] = f[n]
      BY <2>2, <3>1
    <3>3. g[n + 1] = PickStep(g[(n + 1) - 1], s, I, n + 1)
      BY <3>1, <1>8
    <3>4. f[n + 1] = PickStep(f[(n + 1) - 1], s, I, n + 1)
      BY <3>1, <1>5
    <3> QED BY <3>1, <3>2, <3>3, <3>4
  <2>3. Nat \subseteq S
    <3> HIDE DEF S
    <3> QED BY <2>1, <2>2, SetInduction
  <2>4. \A n \in 0 .. N : g[n] = f[n]
    BY <2>3, <1>1
  <2>5. g = [n \in 0 .. N |-> g[n]] /\ f = [n \in 0 .. N |-> f[n]]
    BY <1>8, <1>4
  <2> QED BY <2>4, <2>5
<1>9. Picked(s, I) = f[N]
  <2> HIDE DEF G, H
  <2> QED BY <1>7, <1>8
<1>10. f[0] = <<>> /\ \A n \in 1 .. N : f[n] = PickStep(f[n - 1], s, I, n)
  BY <1>1, <1>5
<1> QED BY Zenon, <1>4, <1>9, <1>10

\* Picked picks.
LEMMA PickedFacts ==
  ASSUME NEW s \in Seq(Item), NEW I, NEW r, r = Picked(s, I)
  PROVE  Picks(r, s, I)
<1>1. PICK f \in [0 .. Len(s) -> Seq(Item)] :
        /\ f[0] = <<>> /\ Picked(s, I) = f[Len(s)]
        /\ \A n \in 1 .. Len(s) : f[n] = PickStep(f[n - 1], s, I, n)
  BY PickedDefined
<1>2. Len(s) \in Nat /\ DOMAIN s = 1 .. Len(s)
  OBVIOUS
<1> DEFINE One == \A i, j \in DOMAIN s : i \in I /\ j \in I /\ s[i].id = s[j].id => i = j
           From(t, n) == /\ \A k \in DOMAIN t :
                              \E i \in DOMAIN s : i <= n /\ i \in I /\ t[k] = s[i]
                         /\ \A i \in DOMAIN s : i <= n /\ i \in I =>
                              \E k \in DOMAIN t : t[k] = s[i]
                         /\ One => Distinct(t)
           S == {n \in Nat : n <= Len(s) => From(f[n], n)}
<1>3. 0 \in S
  <2>1. DOMAIN <<>> = {} /\ \A i \in DOMAIN s : ~(i <= 0)
    BY <1>2
  <2> QED BY <1>1, <2>1 DEF Distinct
<1>4. ASSUME NEW n \in Nat, n \in S PROVE n + 1 \in S
  <2> SUFFICES ASSUME n + 1 <= Len(s) PROVE From(f[n + 1], n + 1)
    OBVIOUS
  <2>1. /\ n + 1 \in 1 .. Len(s) /\ (n + 1) - 1 = n /\ n \in 0 .. Len(s)
        /\ n + 1 \in DOMAIN s /\ n <= Len(s)
    BY <1>2
  <2>2. \A i \in DOMAIN s : i <= n + 1 <=> i <= n \/ i = n + 1
    BY <1>2
  <2>3. f[n] \in Seq(Item) /\ From(f[n], n)
    BY Zenon, <1>1, <1>4, <2>1
  <2>4. f[n + 1] = PickStep(f[n], s, I, n + 1)
    BY <1>1, <2>1
  <2>5. PICK t : t = f[n]
    OBVIOUS
  <2>6. CASE n + 1 \notin I
    <3>1. f[n + 1] = t
      BY <2>4, <2>5, <2>6 DEF PickStep
    <3>2. From(t, n + 1)
      BY Zenon, <2>2, <2>3, <2>5, <2>6
    <3> QED BY <3>1, <3>2
  <2>7. CASE n + 1 \in I
    <3> DEFINE x == s[n + 1]
               u == Append(t, x)
    <3>1. f[n + 1] = u
      BY <2>4, <2>5, <2>7 DEF PickStep
    <3>2. /\ t \in Seq(Item) /\ DOMAIN t = 1 .. Len(t) /\ DOMAIN u = 1 .. Len(t) + 1
          /\ Len(t) \in Nat /\ u[Len(t) + 1] = x /\ Len(t) + 1 \in DOMAIN u
          /\ \A i \in DOMAIN t : i \in DOMAIN u /\ u[i] = t[i]
          /\ \A i \in DOMAIN u : i \in DOMAIN t \/ i = Len(t) + 1
      BY <2>3, <2>5, AppendFacts
    <3> HIDE DEF u
    <3>3. \A k \in DOMAIN u : \E i \in DOMAIN s : i <= n + 1 /\ i \in I /\ u[k] = s[i]
      <4> TAKE k \in DOMAIN u
      <4>1. CASE k \in DOMAIN t
        <5>1. PICK i \in DOMAIN s : i <= n /\ i \in I /\ t[k] = s[i]
          BY <4>1, <2>3, <2>5
        <5> QED BY <5>1, <4>1, <3>2, <2>2
      <4>2. CASE k = Len(t) + 1
        BY <4>2, <3>2, <2>1, <2>2, <2>7
      <4> QED BY <3>2, <4>1, <4>2
    <3>4. \A i \in DOMAIN s : i <= n + 1 /\ i \in I => \E k \in DOMAIN u : u[k] = s[i]
      <4> SUFFICES ASSUME NEW i \in DOMAIN s, i <= n + 1, i \in I
                   PROVE  \E k \in DOMAIN u : u[k] = s[i]
        OBVIOUS
      <4>1. CASE i <= n
        <5>1. PICK k \in DOMAIN t : t[k] = s[i]
          BY <4>1, <2>3, <2>5
        <5> QED BY <5>1, <3>2
      <4>2. CASE i = n + 1
        BY <4>2, <3>2
      <4> QED BY <2>2, <4>1, <4>2
    <3>5. One => Distinct(u)
      <4> SUFFICES ASSUME One PROVE Distinct(u)
        OBVIOUS
      <4>1. Distinct(t)
        BY <2>3, <2>5
      <4>2. \A k \in DOMAIN t : t[k].id # x.id
        <5> SUFFICES ASSUME NEW k \in DOMAIN t, t[k].id = x.id PROVE FALSE
          OBVIOUS
        <5>1. PICK i \in DOMAIN s : i <= n /\ i \in I /\ t[k] = s[i]
          BY <2>3, <2>5
        <5>2. i = n + 1
          BY <5>1, <2>1, <2>7
        <5> QED BY <5>1, <5>2
      <4> QED BY <4>1, <4>2, <3>2 DEF Distinct
    <3> QED BY <3>1, <3>3, <3>4, <3>5
  <2> QED BY <2>6, <2>7
<1>5. Len(s) \in S
  <2> HIDE DEF S
  <2> QED BY Zenon, <1>2, <1>3, <1>4, SetInduction
<1>6. r = f[Len(s)] /\ r \in Seq(Item)
  <2>1. Len(s) \in 0 .. Len(s)
    BY <1>2
  <2> QED BY <1>1, <2>1
<1>7. From(r, Len(s))
  BY <1>2, <1>5, <1>6
<1>8. \A i \in DOMAIN s : i <= Len(s)
  BY <1>2
<1> QED BY <1>6, <1>7, <1>8 DEF Picks

\* What a reload makes of the list: what was fetched, each once.
Updates(r, l, items) ==
  /\ r \in List /\ r.active = l.active
  /\ \A i \in DOMAIN r.items : \E k \in DOMAIN items : r.items[i] = items[k]
  /\ \A k \in DOMAIN items : items[k].id \in Ids(r.items)
  /\ Distinct(items) => Distinct(r.items)

\* updateItems does so.
LEMMA UpdateFacts ==
  ASSUME NEW l \in List, NEW items \in Seq(Item), NEW r, r = updateItems(l, items)
  PROVE  Updates(r, l, items)
<1> DEFINE it == l.items
           fetched(i) == items[getIndexOfItem(items, it[i].id)]
           kept == {i \in DOMAIN it :
                      /\ it[i].id \in Ids(items)
                      /\ \A j \in DOMAIN it : it[j].id = it[i].id => j <= i}
           new == {k \in DOMAIN items : items[k].id \notin Ids(it)}
           s == [i \in DOMAIN it |-> IF i \in kept THEN fetched(i) ELSE it[i]]
           a == Picked(s, kept)
           b == Picked(items, new)
<1>1. it \in Seq(Item) /\ DOMAIN l = {"items", "active"} /\ l.active \in Id \union {0}
  BY DEF List
<1>2. r = [l EXCEPT !.items = a \o b]
  BY DEF updateItems
<1>3. DOMAIN it = 1 .. Len(it) /\ Len(it) \in Nat
  BY <1>1
<1>4. ASSUME NEW i \in kept
      PROVE  /\ fetched(i) \in Item /\ fetched(i).id = it[i].id
             /\ \E k \in DOMAIN items : fetched(i) = items[k]
  <2>1. it[i].id \in Ids(items)
    OBVIOUS
  <2>2. PICK idx : idx = getIndexOfItem(items, it[i].id)
    OBVIOUS
  <2>3. idx \in DOMAIN items /\ items[idx].id = it[i].id
    BY <2>1, <2>2, IndexFacts
  <2>4. items[idx] \in Item
    BY <2>3
  <2> QED BY <2>2, <2>3, <2>4
<1>5. /\ s \in Seq(Item) /\ DOMAIN s = DOMAIN it
      /\ \A i \in kept : i \in DOMAIN it /\ s[i] = fetched(i)
  <2>1. \A i \in DOMAIN it : it[i] \in Item
    BY <1>1
  <2>2. \A i \in DOMAIN it : s[i] \in Item
    BY <2>1, <1>4
  <2>3. s = [i \in 1 .. Len(it) |-> s[i]] /\ s \in [1 .. Len(it) -> Item]
    BY Zenon, <2>2, <1>3
  <2>4. s \in Seq(Item)
    BY <2>3, <1>3
  <2> QED BY <2>4
<1>6. /\ \A i \in kept : s[i].id = it[i].id /\ \E k \in DOMAIN items : s[i] = items[k]
      /\ \A i, j \in kept : it[i].id = it[j].id => i = j
  <2>1. ASSUME NEW i \in kept, NEW j \in kept, it[i].id = it[j].id PROVE i = j
    <3>1. i \in DOMAIN it /\ j \in DOMAIN it /\ j <= i /\ i <= j
      BY <2>1
    <3> QED BY <3>1, <1>3
  <2> QED BY <2>1, <1>4, <1>5
<1>7. \A i \in DOMAIN it : it[i].id \in Ids(items) =>
        \E j \in kept : it[j].id = it[i].id
  <2> SUFFICES ASSUME NEW i \in DOMAIN it, it[i].id \in Ids(items)
               PROVE  \E j \in kept : it[j].id = it[i].id
    OBVIOUS
  <2> DEFINE T == {n \in Nat : \E j \in DOMAIN it : it[j].id = it[i].id /\ n = Len(it) - j}
  <2>1. Len(it) - i \in T
    BY <1>3
  <2>2. PICK n \in T : \A m \in T : ~(<<m, n>> \in OpToRel(<, Nat))
    <3>1. T # {} /\ T \subseteq Nat
      BY <2>1
    <3> HIDE DEF T
    <3> QED BY Zenon, <3>1, NatLessThanWellFounded, WFMin
  <2>3. PICK j \in DOMAIN it : it[j].id = it[i].id /\ n = Len(it) - j
    OBVIOUS
  <2>4. ASSUME NEW k \in DOMAIN it, it[k].id = it[j].id PROVE k <= j
    <3>1. Len(it) - k \in T
      <4>1. k \in DOMAIN it /\ it[k].id = it[i].id /\ Len(it) - k \in Nat
        BY <2>3, <2>4, <1>3
      <4> QED BY <4>1
    <3>2. ~(Len(it) - k < n)
      <4>1. Len(it) - k \in Nat /\ n \in Nat
        BY <1>3
      <4>2. SUFFICES ASSUME Len(it) - k < n PROVE <<Len(it) - k, n>> \in OpToRel(<, Nat)
        BY Zenon, <2>2, <3>1
      <4> QED BY <4>1, <4>2 DEF OpToRel
    <3> QED BY <3>2, <2>3, <1>3
  <2>5. j \in kept
    BY <2>3, <2>4
  <2> QED BY <2>3, <2>5
<1> HIDE DEF kept, s
<1>8. Picks(a, s, kept)
  BY <1>5, PickedFacts
<1>9. Picks(b, items, new)
  BY PickedFacts
<1> HIDE DEF a, b
<1> DEFINE c == a \o b
<1>10. /\ a \in Seq(Item) /\ b \in Seq(Item) /\ c \in Seq(Item)
       /\ Len(a) \in Nat /\ Len(b) \in Nat
       /\ DOMAIN a = 1 .. Len(a) /\ DOMAIN b = 1 .. Len(b) /\ DOMAIN c = 1 .. Len(a) + Len(b)
       /\ \A i \in DOMAIN c : c[i] = IF i <= Len(a) THEN a[i] ELSE b[i - Len(a)]
  BY <1>8, <1>9 DEF Picks
<1> HIDE DEF c
<1>11. \A i \in DOMAIN c : \/ i \in DOMAIN a /\ c[i] = a[i]
                           \/ i - Len(a) \in DOMAIN b /\ c[i] = b[i - Len(a)]
  <2> TAKE i \in DOMAIN c
  <2>1. CASE i <= Len(a)
    BY <2>1, <1>10
  <2>2. CASE ~(i <= Len(a))
    <3>1. i - Len(a) \in 1 .. Len(b)
      BY <2>2, <1>10
    <3> QED BY <3>1, <2>2, <1>10
  <2> QED BY <2>1, <2>2
<1>12. \A i \in DOMAIN a : i \in DOMAIN c /\ c[i] = a[i]
  BY <1>10
<1>13. \A i \in DOMAIN b : i + Len(a) \in DOMAIN c /\ c[i + Len(a)] = b[i]
  <2> TAKE i \in DOMAIN b
  <2>1. i + Len(a) \in DOMAIN c /\ ~(i + Len(a) <= Len(a)) /\ (i + Len(a)) - Len(a) = i
    BY <1>10
  <2> QED BY <2>1, <1>10
<1>14. r \in List /\ r.items = c /\ r.active = l.active
  <2>1. r = [l EXCEPT !.items = c]
    BY <1>2 DEF c
  <2> QED BY Zenon, <2>1, <1>1, <1>10 DEF List
<1>15. \A i \in DOMAIN a : /\ \E k \in DOMAIN items : a[i] = items[k]
                           /\ a[i].id \in Ids(it)
  <2> TAKE i \in DOMAIN a
  <2>1. PICK j \in DOMAIN s : j \in kept /\ a[i] = s[j]
    BY <1>8 DEF Picks
  <2> QED BY <2>1, <1>5, <1>6 DEF Ids
<1>16. \A i \in DOMAIN b : \E k \in DOMAIN items : k \in new /\ b[i] = items[k]
  BY <1>9 DEF Picks
<1>17. \A i \in DOMAIN c : \E k \in DOMAIN items : c[i] = items[k]
  BY <1>11, <1>15, <1>16
<1>18. \A k \in DOMAIN items : items[k].id \in Ids(c)
  <2> TAKE k \in DOMAIN items
  <2>1. CASE k \in new
    <3>1. PICK i \in DOMAIN b : b[i] = items[k]
      BY <2>1, <1>9 DEF Picks
    <3> QED BY <3>1, <1>13 DEF Ids
  <2>2. CASE k \notin new
    <3>1. items[k].id \in Ids(it) /\ items[k].id \in Ids(items)
      BY <2>2 DEF Ids
    <3>2. PICK i \in DOMAIN it : it[i].id = items[k].id
      BY <3>1 DEF Ids
    <3>3. PICK j \in kept : it[j].id = items[k].id
      BY <3>1, <3>2, <1>7
    <3>4. PICK n \in DOMAIN a : a[n] = s[j]
      BY <3>3, <1>5, <1>8 DEF Picks
    <3> QED BY <3>3, <3>4, <1>6, <1>12 DEF Ids
  <2> QED BY <2>1, <2>2
<1>19. Distinct(items) => Distinct(c)
  <2> SUFFICES ASSUME Distinct(items) PROVE Distinct(c)
    OBVIOUS
  <2>1. Distinct(a)
    BY <1>5, <1>6, <1>8 DEF Picks
  <2>2. Distinct(b)
    BY Zenon, <1>9 DEF Picks, Distinct
  <2>3. \A i \in DOMAIN a, j \in DOMAIN b : a[i].id # b[j].id
    BY <1>15, <1>16
  <2> SUFFICES ASSUME NEW i \in DOMAIN c, NEW j \in DOMAIN c, c[i].id = c[j].id PROVE i = j
    BY DEF Distinct
  <2>4. i \in Nat /\ j \in Nat /\ Len(a) \in Nat
    BY <1>10
  <2>5. CASE i \in DOMAIN a /\ c[i] = a[i] /\ j \in DOMAIN a /\ c[j] = a[j]
    BY <2>1, <2>5 DEF Distinct
  <2>6. CASE /\ i - Len(a) \in DOMAIN b /\ c[i] = b[i - Len(a)]
             /\ j - Len(a) \in DOMAIN b /\ c[j] = b[j - Len(a)]
    <3>1. i - Len(a) = j - Len(a)
      BY <2>2, <2>6 DEF Distinct
    <3> QED BY <3>1, <2>4
  <2> QED BY <1>11, <2>3, <2>5, <2>6
<1> QED BY <1>14, <1>17, <1>18, <1>19 DEF Updates

-----------------------------------------------------------------------------
(* What is on its way.                                                       *)

\* A request that is sent.
LEMMA UpSend ==
  ASSUME up \in Seq(Request), NEW r, up' = Append(up, r)
  PROVE  /\ \A i \in DOMAIN up : i \in DOMAIN up' /\ up'[i] = up[i] /\ i < Len(up) + 1
         /\ \A i \in DOMAIN up' : i \in DOMAIN up \/ i = Len(up) + 1
         /\ Len(up) + 1 \in DOMAIN up' /\ up'[Len(up) + 1] = r /\ Len(up) \in Nat
         /\ r.method # "list" => Requests' = Requests /\ (OneAsked => OneAsked')
         /\ r.method = "list" => Requests' = Requests \union {r} /\ (Requests = {} => OneAsked')
<1> DEFINE n == Len(up) + 1
<1>1. /\ \A i \in DOMAIN up : i \in DOMAIN up' /\ up'[i] = up[i] /\ i < n
      /\ \A i \in DOMAIN up' : i \in DOMAIN up \/ i = n
      /\ n \in DOMAIN up' /\ up'[n] = r /\ n \notin DOMAIN up /\ Len(up) \in Nat
  BY AppendFacts
<1> HIDE DEF n
<1>2. CASE r.method # "list"
  <2>1. Asked' = Asked
    BY <1>1, <1>2 DEF Asked
  <2>2. Requests' = Requests
    BY <1>1, <2>1 DEF Requests, Asked
  <2> QED BY <1>1, <1>2, <2>1, <2>2 DEF OneAsked, n
<1>3. CASE r.method = "list"
  <2>1. Asked' = Asked \union {n}
    BY <1>1, <1>3 DEF Asked
  <2>2. Requests' = Requests \union {r}
    BY <1>1, <2>1 DEF Requests, Asked
  <2>3. Requests = {} => Asked = {}
    BY Zenon DEF Requests
  <2> QED BY <1>1, <1>3, <2>1, <2>2, <2>3 DEF OneAsked, n
<1> QED BY <1>2, <1>3

\* A request that is taken.
LEMMA UpTake ==
  ASSUME up \in Seq(Request), up # <<>>, up' = Tail(up), NEW r, r = Head(up)
  PROVE  /\ r = up[1] /\ r \in Request /\ 1 \in DOMAIN up /\ up' \in Seq(Request)
         /\ \A i \in DOMAIN up' : i + 1 \in DOMAIN up /\ up'[i] = up[i + 1] /\ i \in Nat
         /\ \A i \in DOMAIN up : i = 1 \/ (i - 1 \in DOMAIN up' /\ up'[i - 1] = up[i] /\ i \in Nat)
         /\ OneAsked => OneAsked'
         /\ r.method # "list" => Requests' = Requests
         /\ r.method = "list" /\ OneAsked => Requests = {r} /\ Requests' = {}
<1>1. /\ r = up[1] /\ r \in Request /\ 1 \in DOMAIN up /\ up' \in Seq(Request)
      /\ \A i \in DOMAIN up' : i + 1 \in DOMAIN up /\ up'[i] = up[i + 1] /\ i \in Nat /\ i + 1 # 1
      /\ \A i \in DOMAIN up : i = 1 \/ (i - 1 \in DOMAIN up' /\ up'[i - 1] = up[i] /\ i \in Nat)
  BY TailFacts
<1>2. \A i \in Asked' : i \in DOMAIN up' /\ i + 1 \in Asked /\ up'[i] = up[i + 1]
  BY <1>1 DEF Asked
<1>3. \A i \in Asked : i \in DOMAIN up /\ (i = 1 \/ (i - 1 \in Asked' /\ up'[i - 1] = up[i]))
  BY <1>1 DEF Asked
<1>4. OneAsked => OneAsked'
  <2> SUFFICES ASSUME OneAsked, NEW i \in Asked', NEW j \in Asked' PROVE i = j
    BY DEF OneAsked
  <2>1. i + 1 = j + 1 /\ i \in Nat /\ j \in Nat
    BY <1>1, <1>2 DEF OneAsked
  <2> QED BY <2>1
<1>5. CASE r.method # "list"
  <2>1. 1 \notin Asked
    BY <1>1, <1>5 DEF Asked
  <2>2. Requests' = Requests
    BY <1>2, <1>3, <2>1 DEF Requests
  <2> QED BY <1>1, <1>4, <1>5, <2>2
<1>6. CASE r.method = "list"
  <2>1. 1 \in Asked
    BY <1>1, <1>6 DEF Asked
  <2>2. OneAsked => Asked = {1}
    BY <2>1 DEF OneAsked
  <2>3. OneAsked => Requests = {r}
    BY <1>1, <2>2 DEF Requests
  <2>4. OneAsked => Asked' = {}
    <3> SUFFICES ASSUME OneAsked, NEW i \in Asked' PROVE FALSE
      OBVIOUS
    <3>1. i + 1 \in Asked /\ i \in DOMAIN up'
      BY <1>2
    <3>2. i + 1 # 1
      BY <3>1, <1>1
    <3> QED BY <3>1, <3>2, <2>2
  <2>5. OneAsked => Requests' = {}
    BY <2>4 DEF Requests
  <2> QED BY <1>1, <1>4, <1>6, <2>3, <2>5
<1> QED BY <1>5, <1>6

\* A message that is sent.
LEMMA DownSend ==
  ASSUME down \in Seq(Message), NEW m, down' = Append(down, m)
  PROVE  /\ \A p \in DOMAIN down : /\ p \in DOMAIN down' /\ down'[p] = down[p]
                                   /\ p \in Nat /\ p < Len(down) + 1
         /\ \A p \in DOMAIN down' : p \in DOMAIN down \/ p = Len(down) + 1
         /\ Len(down) + 1 \in DOMAIN down' /\ down'[Len(down) + 1] = m /\ Len(down) \in Nat
         /\ m.type # "list" => Batches' = Batches /\ (OneSent => OneSent')
         /\ m.type = "list" => Batches' = Batches \union {m} /\ (Batches = {} => OneSent')
<1> DEFINE n == Len(down) + 1
<1>1. /\ \A i \in DOMAIN down : i \in DOMAIN down' /\ down'[i] = down[i] /\ i \in Nat /\ i < n
      /\ \A i \in DOMAIN down' : i \in DOMAIN down \/ i = n
      /\ n \in DOMAIN down' /\ down'[n] = m /\ n \notin DOMAIN down /\ Len(down) \in Nat
  BY AppendFacts
<1> HIDE DEF n
<1>2. CASE m.type # "list"
  <2>1. Sent' = Sent
    BY <1>1, <1>2 DEF Sent
  <2>2. Batches' = Batches
    BY <1>1, <2>1 DEF Batches, Sent
  <2> QED BY <1>1, <1>2, <2>1, <2>2 DEF OneSent, n
<1>3. CASE m.type = "list"
  <2>1. Sent' = Sent \union {n}
    BY <1>1, <1>3 DEF Sent
  <2>2. Batches' = Batches \union {m}
    BY <1>1, <2>1 DEF Batches, Sent
  <2>3. Batches = {} => Sent = {}
    BY Zenon DEF Batches
  <2> QED BY <1>1, <1>3, <2>1, <2>2, <2>3 DEF OneSent, n
<1> QED BY <1>2, <1>3

\* A message that is taken.
LEMMA DownTake ==
  ASSUME down \in Seq(Message), down # <<>>, down' = Tail(down), NEW m, m = Head(down)
  PROVE  /\ m = down[1] /\ m \in Message /\ 1 \in DOMAIN down /\ down' \in Seq(Message)
         /\ \A i \in DOMAIN down' : i + 1 \in DOMAIN down /\ down'[i] = down[i + 1] /\ i \in Nat
         /\ \A i \in DOMAIN down :
              i = 1 \/ (i - 1 \in DOMAIN down' /\ down'[i - 1] = down[i] /\ i \in Nat)
         /\ OneSent => OneSent'
         /\ m.type # "list" => Batches' = Batches
         /\ m.type = "list" /\ OneSent => Batches = {m} /\ Batches' = {}
<1>1. /\ m = down[1] /\ m \in Message /\ 1 \in DOMAIN down /\ down' \in Seq(Message)
      /\ \A i \in DOMAIN down' :
           i + 1 \in DOMAIN down /\ down'[i] = down[i + 1] /\ i \in Nat /\ i + 1 # 1
      /\ \A i \in DOMAIN down :
           i = 1 \/ (i - 1 \in DOMAIN down' /\ down'[i - 1] = down[i] /\ i \in Nat)
  BY TailFacts
<1>2. \A i \in Sent' : i \in DOMAIN down' /\ i + 1 \in Sent /\ down'[i] = down[i + 1]
  BY <1>1 DEF Sent
<1>3. \A i \in Sent : i \in DOMAIN down /\ (i = 1 \/ (i - 1 \in Sent' /\ down'[i - 1] = down[i]))
  BY <1>1 DEF Sent
<1>4. OneSent => OneSent'
  <2> SUFFICES ASSUME OneSent, NEW i \in Sent', NEW j \in Sent' PROVE i = j
    BY DEF OneSent
  <2>1. i + 1 = j + 1 /\ i \in Nat /\ j \in Nat
    BY <1>1, <1>2 DEF OneSent
  <2> QED BY <2>1
<1>5. CASE m.type # "list"
  <2>1. 1 \notin Sent
    BY <1>1, <1>5 DEF Sent
  <2>2. Batches' = Batches
    BY <1>2, <1>3, <2>1 DEF Batches
  <2> QED BY <1>1, <1>4, <1>5, <2>2
<1>6. CASE m.type = "list"
  <2>1. 1 \in Sent
    BY <1>1, <1>6 DEF Sent
  <2>2. OneSent => Sent = {1}
    BY <2>1 DEF OneSent
  <2>3. OneSent => Batches = {m}
    BY <1>1, <2>2 DEF Batches
  <2>4. OneSent => Sent' = {}
    <3> SUFFICES ASSUME OneSent, NEW i \in Sent' PROVE FALSE
      OBVIOUS
    <3>1. i + 1 \in Sent /\ i \in DOMAIN down'
      BY <1>2
    <3>2. i + 1 # 1
      BY <3>1, <1>1
    <3> QED BY <3>1, <3>2, <2>2
  <2>5. OneSent => Batches' = {}
    BY <2>4 DEF Batches
  <2> QED BY <1>1, <1>4, <1>6, <2>3, <2>5
<1> QED BY <1>5, <1>6

\* What a request holds.
LEMMA RequestFacts ==
  ASSUME NEW r \in Request
  PROVE  /\ r.method \in {"list", "get", "update", "delete", "set_active"}
         /\ r.method = "list" => r.kind \in {"load", "reload"} /\ r.start \in Id \union {0}
         /\ r.method # "list" => r.id \in Id
  BY DEF Request, ListRequest, ItemRequest

\* What a message holds.
LEMMA MessageFacts ==
  ASSUME NEW m \in Message
  PROVE  /\ m.type \in {"list", "refused", "get", "update", "set_active", "delete", "error", "notify"}
         /\ m.type = "list" => m.page \in Seq(Item) /\ m.kind \in {"load", "reload"}
         /\ m.type \in {"get", "update", "set_active"} => m.item \in Item
         /\ m.type = "delete" => m.id \in Id
         /\ m.type = "notify" => m \in Notification
         /\ \A item \in RowsOf(m) : item \in Item
<1>1. CASE m \in Notification
  BY <1>1, NotificationFacts DEF RowsOf
<1>2. CASE m \in ListReply
  BY <1>2 DEF ListReply, RowsOf
<1>3. CASE m \in ItemReply
  BY <1>3 DEF ItemReply, RowsOf
<1> QED BY <1>1, <1>2, <1>3 DEF Message

\* What a page is.
LEMMA PageFacts ==
  ASSUME Typed, NEW start \in Id \union {0}, NEW page \in Pages(start), batchSize \in Nat
  PROVE  /\ page \in Seq(Item) /\ Ascending(page) /\ Len(page) <= batchSize
         /\ \A i \in DOMAIN page : /\ page[i].id \in Present /\ page[i].id > start
                                   /\ page[i] = Row(page[i].id)
         /\ \A id \in Present : id > start =>
              id \in Ids(page) \/ (Len(page) = batchSize /\ \A i \in DOMAIN page : page[i].id < id)
<1> DEFINE after == {Row(id) : id \in {k \in Present : k > start}}
<1>1. PICK n \in 0 .. batchSize : page \in [1 .. n -> after]
  BY DEF Pages
<1>2. /\ \A i, j \in DOMAIN page : i < j => page[i].id < page[j].id
      /\ \A row \in after : \/ \E i \in DOMAIN page : page[i] = row
                            \/ Len(page) = batchSize /\ \A i \in DOMAIN page : page[i].id < row.id
  BY DEF Pages
<1>3. \A row \in after : /\ row.id \in Present /\ row.id > start /\ row = Row(row.id)
                         /\ row \in Item
  <2> SUFFICES ASSUME NEW id \in Present, id > start
               PROVE  /\ Row(id).id = id /\ Row(id) \in Item
    OBVIOUS
  <2>1. id \in DOMAIN db /\ db[id] \in Nat
    BY DEF Present, Typed
  <2>2. id \in Id
    <3>1. DOMAIN db = 1 .. Len(db) /\ Len(db) \in Nat
      BY DEF Typed
    <3> QED BY <2>1, <3>1, ManagerAssumption DEF Typed, Id, ManagerAssumption
  <2> QED BY <2>1, <2>2 DEF Row, Item
<1>4. n \in Nat /\ DOMAIN page = 1 .. n /\ \A i \in DOMAIN page : page[i] \in after
  BY <1>1
<1>5. page \in Seq(Item) /\ Len(page) = n
  <2>1. page \in [1 .. n -> Item]
    BY <1>1, <1>3, <1>4
  <2> QED BY <2>1, <1>4
<1>6. \A id \in Present : id > start =>
        id \in Ids(page) \/ (Len(page) = batchSize /\ \A i \in DOMAIN page : page[i].id < id)
  <2> SUFFICES ASSUME NEW id \in Present, id > start
               PROVE  id \in Ids(page) \/ (Len(page) = batchSize /\ \A i \in DOMAIN page : page[i].id < id)
    OBVIOUS
  <2>1. Row(id) \in after /\ Row(id).id = id
    BY DEF Row
  <2> HIDE DEF after
  <2> QED BY <1>2, <2>1 DEF Ids
<1> HIDE DEF after
<1>7. n <= batchSize
  BY <1>1
<1> QED BY <1>2, <1>3, <1>4, <1>5, <1>6, <1>7 DEF Ascending

-----------------------------------------------------------------------------
(* What is to come.                                                          *)

\* What more is to come, the more items are settled.
LEMMA SettledMore ==
  ASSUME NEW item, NEW L, NEW M, SettledBy(item, L), db' = db, changes' = changes,
         \A m \in L : Corrects(m, item.id) => m \in M
  PROVE  SettledBy(item, M)'
<1>1. Announced(item.id)' <=> Announced(item.id)
  BY DEF Announced
<1>2. \A m : Corrects(m, item.id)' <=> Corrects(m, item.id)
  BY DEF Corrects, Row
<1> QED BY <1>1, <1>2 DEF SettledBy

\* A correction is a notification about the item.
LEMMA CorrectsFacts ==
  ASSUME NEW m, NEW id, Corrects(m, id)
  PROVE  /\ m.type = "notify" /\ IdOf(m) = id
         /\ m.kind # "delete" => m.item = Row(id) /\ m.item.v = db[id]
  BY DEF Corrects, Row, IdOf

\* Processing a notification leaves the items settled by what comes after it.
LEMMA SettleStep ==
  ASSUME NEW l \in List, NEW a \in Notification, NEW r, Processes(r, l, a),
         Distinct(l.items), NEW L,
         \A i \in DOMAIN l.items : SettledBy(l.items[i], L \union {a}),
         \A item \in RowsOf(a) : SettledBy(item, L)
  PROVE  \A i \in DOMAIN r.items : SettledBy(r.items[i], L)
<1> SUFFICES ASSUME NEW i \in DOMAIN r.items PROVE SettledBy(r.items[i], L)
  OBVIOUS
<1> DEFINE x == r.items[i]
<1>1. CASE a.kind # "delete" /\ x = a.item
  <2>1. x \in RowsOf(a)
    BY <1>1, NotificationFacts DEF RowsOf
  <2> QED BY <2>1
<1>2. CASE ~(a.kind # "delete" /\ x = a.item)
  <2>1. x.id # IdOf(a)
    BY <1>2 DEF Processes
  <2>2. PICK k \in DOMAIN l.items : x = l.items[k]
    BY <1>2 DEF Processes
  <2>3. SettledBy(x, L \union {a})
    BY <2>2
  <2>4. ~Corrects(a, x.id)
    BY <2>1, CorrectsFacts
  <2> QED BY <2>3, <2>4 DEF SettledBy
<1> QED BY <1>1, <1>2

\* Processing a notification shows what it brings.
LEMMA ShowStep ==
  ASSUME NEW l \in List, NEW a \in Notification, NEW r, Processes(r, l, a),
         a.kind = "delete" => a.id \notin Present,
         NEW id \in Present, id \in Ids(l.items) \/ Brings(a, id)
  PROVE  id \in Ids(r.items)
<1>1. CASE id \in Ids(l.items)
  BY <1>1 DEF Processes
<1>2. CASE Brings(a, id)
  BY <1>2, NotificationFacts DEF Brings, Processes
<1> QED BY <1>1, <1>2

\* A message that is sent is one more to come.
LEMMA LaterSend ==
  ASSUME down \in Seq(Message), NEW m, down' = Append(down, m), actionQueue' = actionQueue,
         NEW k, NEW p \in Nat
  PROVE  /\ Later(k, p) \subseteq Later(k, p)'
         /\ p <= Len(down) => m \in Later(k, p)'
         /\ Later(k, p)' \subseteq Later(k, p) \union {m}
<1>1. /\ \A q \in DOMAIN down : /\ q \in DOMAIN down' /\ down'[q] = down[q]
                                /\ q \in Nat /\ q < Len(down) + 1
      /\ \A q \in DOMAIN down' : q \in DOMAIN down \/ q = Len(down) + 1
      /\ Len(down) + 1 \in DOMAIN down' /\ down'[Len(down) + 1] = m /\ Len(down) \in Nat
  BY DownSend
<1>2. p <= Len(down) => Len(down) + 1 > p
  BY <1>1
<1> QED BY <1>1, <1>2 DEF Later

\* A message that is taken is no longer to come.
LEMMA LaterTake ==
  ASSUME down \in Seq(Message), down # <<>>, down' = Tail(down), actionQueue' = actionQueue,
         NEW m, m = Head(down), NEW k, NEW p \in Nat
  PROVE  /\ Later(k, p + 1) \subseteq Later(k, p)'
         /\ Later(k, 0) \subseteq Later(k, 0)' \union {m}
<1>1. /\ m = down[1]
      /\ \A i \in DOMAIN down :
           i = 1 \/ (i - 1 \in DOMAIN down' /\ down'[i - 1] = down[i] /\ i \in Nat)
      /\ \A i \in DOMAIN down : i \in Nat /\ i > 0
  BY DownTake
<1>2. ASSUME NEW q \in DOMAIN down, q > p + 1
      PROVE  \E i \in DOMAIN down' : i > p /\ down'[i] = down[q]
  <2>1. q # 1 /\ q - 1 > p
    BY <1>1, <1>2
  <2> QED BY <2>1, <1>1
<1>3. ASSUME NEW q \in DOMAIN down
      PROVE  down[q] = m \/ \E i \in DOMAIN down' : i > 0 /\ down'[i] = down[q]
  <2>1. CASE q = 1
    BY <2>1, <1>1
  <2>2. CASE q # 1
    <3>1. q - 1 > 0
      BY <2>2, <1>1
    <3> QED BY <3>1, <2>2, <1>1
  <2> QED BY <2>1, <2>2
<1>4. Later(k, p + 1) \subseteq Later(k, p)'
  BY <1>2 DEF Later
<1>5. Later(k, 0) \subseteq Later(k, 0)' \union {m}
  BY <1>3 DEF Later
<1> QED BY <1>4, <1>5

\* A notification that joins the queue is still to come.
LEMMA LaterQueue ==
  ASSUME down \in Seq(Message), down # <<>>, down' = Tail(down),
         actionQueue \in Seq(Notification),
         NEW m, m = Head(down), actionQueue' = Append(actionQueue, m),
         NEW n, n = Len(actionQueue)
  PROVE  /\ \A k \in Nat : k <= n => Later(k, 0) \subseteq Later(k, 0)'
         /\ \A p \in Nat : Later(n, p + 1) \subseteq Later(n + 1, p)'
<1>1. /\ m = down[1]
      /\ \A i \in DOMAIN down :
           i = 1 \/ (i - 1 \in DOMAIN down' /\ down'[i - 1] = down[i] /\ i \in Nat)
      /\ \A i \in DOMAIN down : i \in Nat /\ i > 0
  BY DownTake
<1>2. /\ \A j \in DOMAIN actionQueue : /\ j \in DOMAIN actionQueue' /\ j \in Nat /\ j <= n
                                       /\ actionQueue'[j] = actionQueue[j]
      /\ n + 1 \in DOMAIN actionQueue' /\ actionQueue'[n + 1] = m /\ n \in Nat
  BY AppendFacts
<1>3. ASSUME NEW p \in Nat, NEW q \in DOMAIN down, q > p + 1
      PROVE  \E i \in DOMAIN down' : i > p /\ down'[i] = down[q]
  <2>1. q # 1 /\ q - 1 > p
    BY <1>1, <1>3
  <2> QED BY <2>1, <1>1
<1>4. ASSUME NEW p \in Nat PROVE Later(n, p + 1) \subseteq Later(n + 1, p)'
  <2>1. \A j \in DOMAIN actionQueue : ~(j > n)
    BY <1>2
  <2>2. \A x \in Later(n, p + 1) : \E q \in DOMAIN down : q > p + 1 /\ x = down[q]
    BY <2>1 DEF Later
  <2>3. \A x \in Later(n, p + 1) : \E i \in DOMAIN down' : i > p /\ x = down'[i]
    <3> TAKE x \in Later(n, p + 1)
    <3>1. PICK q \in DOMAIN down : q > p + 1 /\ x = down[q]
      BY <2>2
    <3> QED BY Zenon, <1>3, <3>1
  <2> QED BY Zenon, <2>3 DEF Later
<1>5. ASSUME NEW k \in Nat, k <= n PROVE Later(k, 0) \subseteq Later(k, 0)'
  <2>1. n + 1 > k
    BY <1>2, <1>5
  <2>2. ASSUME NEW q \in DOMAIN down
        PROVE  down[q] = m \/ \E i \in DOMAIN down' : i > 0 /\ down'[i] = down[q]
    <3>1. CASE q = 1
      BY <3>1, <1>1
    <3>2. CASE q # 1
      <4>1. q - 1 > 0
        BY <3>2, <1>1
      <4> QED BY <4>1, <3>2, <1>1
    <3> QED BY <3>1, <3>2
  <2>3. m \in Later(k, 0)'
    BY <2>1, <1>2 DEF Later
  <2>4. \A q \in DOMAIN down : down[q] \in Later(k, 0)'
    BY Zenon, <2>2, <2>3 DEF Later
  <2>5. \A j \in DOMAIN actionQueue : j > k => actionQueue[j] \in Later(k, 0)'
    BY <1>2 DEF Later
  <2> QED BY Zenon, <2>4, <2>5 DEF Later
<1> QED BY <1>4, <1>5

\* When the queue is emptied and a message taken, what was behind both is to come.
LEMMA LaterFlush ==
  ASSUME down \in Seq(Message), down # <<>>, down' = Tail(down),
         actionQueue \in Seq(Notification), actionQueue' = <<>>
  PROVE  \A p \in Nat : Later(Len(actionQueue), p + 1) \subseteq Later(0, p)'
<1>1. /\ \A i \in DOMAIN down :
           i = 1 \/ (i - 1 \in DOMAIN down' /\ down'[i - 1] = down[i] /\ i \in Nat)
      /\ \A i \in DOMAIN down : i \in Nat /\ i > 0
  BY DownTake
<1>2. \A j \in DOMAIN actionQueue : ~(j > Len(actionQueue))
  OBVIOUS
<1>3. ASSUME NEW p \in Nat, NEW q \in DOMAIN down, q > p + 1
      PROVE  \E i \in DOMAIN down' : i > p /\ down'[i] = down[q]
  <2>1. q # 1 /\ q - 1 > p
    BY <1>1, <1>3
  <2> QED BY <2>1, <1>1
<1>4. ASSUME NEW p \in Nat PROVE Later(Len(actionQueue), p + 1) \subseteq Later(0, p)'
  <2> DEFINE n == Len(actionQueue)
  <2>1. \A j \in DOMAIN actionQueue : ~(j > n)
    BY <1>2
  <2> HIDE DEF n
  <2>2. \A x \in Later(n, p + 1) : \E q \in DOMAIN down : q > p + 1 /\ x = down[q]
    BY <2>1 DEF Later
  <2>3. \A x \in Later(n, p + 1) : \E i \in DOMAIN down' : i > p /\ down'[i] = x
    BY Zenon, <1>3, <2>2
  <2> QED BY Zenon, <2>3 DEF Later, n
<1> QED BY <1>4

-----------------------------------------------------------------------------
(* What a step leaves as it was.                                             *)

\* Batches that stay what they are.
SameBatches ==
  /\ OneAsked' /\ OneSent'
  /\ Requests' = Requests /\ Batches' = Batches

\* Both ends of the channel as they were.
LEMMA BatchesKept ==
  ASSUME OneBatch, up' = up, down' = down
  PROVE  SameBatches
  BY DEF OneBatch, OneAsked, OneSent, Asked, Sent, Requests, Batches, SameBatches

\* Loads go on as they were.
LEMMA OneBatchKept ==
  ASSUME OneBatch, SameBatches, isLoading' = isLoading, currentItems' = currentItems,
         actionQueue' = actionQueue \/ isLoading,
         loaded => loaded', loaded' => loaded \/ "get" \in early',
         "get" \in early => "get" \in early'
  PROVE  OneBatch'
<1>1. Kinds' = Kinds
  BY DEF SameBatches, Kinds
<1> QED BY <1>1 DEF OneBatch, SameBatches

\* The kinds of the batches on their way.
LEMMA KindsFacts ==
  ASSUME Typed
  PROVE  /\ \A r \in Requests : r.kind \in Kinds /\ r \in ListRequest
         /\ \A m \in Batches : m.kind \in Kinds /\ m \in Message /\ m.type = "list"
         /\ Kinds \subseteq {"load", "reload"}
         /\ Kinds = {} <=> Requests = {} /\ Batches = {}
<1>1. \A r \in Requests : r \in ListRequest
  <2> TAKE r \in Requests
  <2>1. PICK i \in DOMAIN up : r = up[i] /\ r.method = "list"
    BY DEF Requests, Asked
  <2>2. r \in Request
    BY <2>1 DEF Typed
  <2> QED BY <2>1, <2>2 DEF Request, ItemRequest
<1>2. \A m \in Batches : m \in Message /\ m.type = "list"
  <2> TAKE m \in Batches
  <2>1. PICK i \in DOMAIN down : m = down[i] /\ m.type = "list"
    BY DEF Batches, Sent
  <2>2. m \in Message
    BY <2>1 DEF Typed
  <2> QED BY <2>1, <2>2
<1>3. \A r \in Requests : r.kind \in {"load", "reload"}
  BY <1>1 DEF ListRequest
<1>4. \A m \in Batches : m.kind \in {"load", "reload"}
  BY <1>2, MessageFacts
<1> QED BY Zenon, <1>1, <1>2, <1>3, <1>4 DEF Kinds

\* Two lists of the same items, whatever their versions.
SameIds(a, b) == DOMAIN a = DOMAIN b /\ \A i \in DOMAIN b : a[i].id = b[i].id

\* The order of the batches does not depend on the versions.
LEMMA InOrderKept ==
  ASSUME InOrder, SameBatches, currentItems' = currentItems,
         SameIds(list'.items, list.items),
         "get" \in early => "get" \in early', loaded => loaded'
  PROVE  InOrder'
<1>1. \A kind : Counts(kind)' => Counts(kind)
  BY DEF Counts
<1>2. \A kind : SameIds(Array(kind)', Array(kind))
  BY DEF SameIds, Array
<1>3. Distinct(list.items) => Distinct(list.items)'
  BY DEF SameIds, Distinct
<1>4. Ascending(list.items) => Ascending(list.items)'
  BY DEF SameIds, Ascending
<1>5. Ascending(currentItems)'
  BY DEF InOrder, Ascending
<1>6. ASSUME NEW r \in Requests', Counts(r.kind)'
      PROVE  UpTo(Array(r.kind)', r.start)
  <2>1. UpTo(Array(r.kind), r.start)
    BY <1>1, <1>6 DEF InOrder, SameBatches
  <2> QED BY <2>1, <1>2 DEF SameIds, UpTo
<1>7. ASSUME NEW m \in Batches'
      PROVE  /\ Ascending(m.page) /\ Len(m.page) <= batchSize
             /\ Counts(m.kind)' => Follows(m.page, Array(m.kind)')
  <2>1. /\ Ascending(m.page) /\ Len(m.page) <= batchSize
        /\ Counts(m.kind) => Follows(m.page, Array(m.kind))
    BY DEF InOrder, SameBatches
  <2> QED BY <2>1, <1>1, <1>2 DEF SameIds, Follows
<1>8. \A r \in Requests' : Counts(r.kind)' => UpTo(Array(r.kind)', r.start)
  BY <1>6
<1>9. "get" \notin early' => Distinct(list.items)'
  BY <1>3 DEF InOrder
<1>10. "get" \notin early' /\ ~loaded' => Ascending(list.items)'
  BY <1>4 DEF InOrder
<1> QED BY <1>5, <1>7, <1>8, <1>9, <1>10 DEF InOrder, UpTo, Follows, Ascending

\* The list is not what a batch on its way continues.
LEMMA InOrderApart ==
  ASSUME Typed, InOrder, SameBatches, currentItems' = currentItems,
         "get" \in early => "get" \in early',
         "load" \notin Kinds \/ "get" \in early',
         "get" \notin early' => Distinct(list'.items) /\ (~loaded' => Ascending(list'.items))
  PROVE  InOrder'
<1>1. ASSUME NEW kind \in Kinds, Counts(kind)'
      PROVE  Counts(kind) /\ Array(kind)' = Array(kind)
  <2>1. kind = "reload"
    BY <1>1, KindsFacts DEF Counts
  <2> QED BY <2>1 DEF Counts, Array
<1>2. ASSUME NEW r \in Requests', Counts(r.kind)'
      PROVE  UpTo(Array(r.kind)', r.start)
  <2>1. r \in Requests /\ r.kind \in Kinds
    BY KindsFacts DEF SameBatches
  <2> QED BY <2>1, <1>1, <1>2 DEF InOrder
<1>3. ASSUME NEW m \in Batches'
      PROVE  /\ Ascending(m.page) /\ Len(m.page) <= batchSize
             /\ Counts(m.kind)' => Follows(m.page, Array(m.kind)')
  <2>1. m \in Batches /\ m.kind \in Kinds
    BY KindsFacts DEF SameBatches
  <2> QED BY <2>1, <1>1 DEF InOrder
<1>4. Ascending(currentItems)'
  BY DEF InOrder, Ascending
<1>5. \A r \in Requests' : Counts(r.kind)' => UpTo(Array(r.kind)', r.start)
  BY <1>2
<1>6. "get" \notin early' => Distinct(list.items)' /\ (~loaded' => Ascending(list.items)')
  BY DEF Distinct, Ascending
<1> QED BY <1>3, <1>4, <1>5, <1>6 DEF InOrder, UpTo, Follows, Ascending

\* No creation is new, and no item is, of a list that is not loaded.
LEMMA CreationsKept ==
  ASSUME Typed, CreationsInOrder, NEW c \in Nat, NEW d \in Nat,
         DOMAIN db \subseteq DOMAIN db',
         \A i \in Creations' : i + c \in Creations /\ changes'[i] = changes[i + c] /\ i \in Nat,
         \A p \in Created' : p + d \in Created /\ down'[p] = down[p + d] /\ p \in Nat,
         "get" \notin early' /\ ~loaded' /\ ~isLoading' =>
           /\ "get" \notin early /\ ~loaded /\ ~isLoading
           /\ \A k \in DOMAIN list'.items :
                \E j \in DOMAIN list.items : list'.items[k].id = list.items[j].id
  PROVE  CreationsInOrder'
<1>1. \A i \in Creations' : changes'[i].id \in DOMAIN db'
  BY DEF CreationsInOrder
<1>2. ASSUME NEW i \in Creations', NEW j \in Creations', i < j
      PROVE  changes'[i].id < changes'[j].id
  <2>1. i + c < j + c
    BY <1>2
  <2> QED BY <2>1 DEF CreationsInOrder
<1>3. ASSUME NEW p \in Created', NEW q \in Created', p < q
      PROVE  down'[p].item.id < down'[q].item.id
  <2>1. p + d < q + d
    BY <1>3
  <2> QED BY <2>1 DEF CreationsInOrder
<1>4. \A p \in Created', i \in Creations' : down'[p].item.id < changes'[i].id
  BY DEF CreationsInOrder
<1>5. ASSUME "get" \notin early' /\ ~loaded' /\ ~isLoading', NEW k \in DOMAIN list'.items
      PROVE  /\ \A p \in Created' : list'.items[k].id < down'[p].item.id
             /\ \A i \in Creations' : list'.items[k].id < changes'[i].id
  BY <1>5 DEF CreationsInOrder
<1> QED BY <1>1, <1>2, <1>3, <1>4, <1>5 DEF CreationsInOrder

\* Real items stay real.
LEMMA RealKept ==
  ASSUME DOMAIN db \subseteq DOMAIN db'
  PROVE  \A item : Real(item) => Real(item)'
  BY DEF Real

\* A message has the same items whenever it is looked at.
LEMMA RowsOfFacts ==
  \A m : /\ m.type = "list" => RowsOf(m) = {m.page[i] : i \in DOMAIN m.page}
         /\ m.type \in {"get", "update", "set_active"} => RowsOf(m) = {m.item}
         /\ m.type = "notify" /\ m.kind # "delete" => RowsOf(m) = {m.item}
         /\ m.type = "notify" /\ m.kind = "delete" => RowsOf(m) = {}
         /\ m.type \in {"delete", "error", "refused"} => RowsOf(m) = {}
  BY DEF RowsOf

\* The region, the channel and the arrays as they were.
LEMMA ItemsKept ==
  ASSUME ItemsSettled, db' = db, changes' = changes, actionQueue' = actionQueue, down' = down,
         currentItems' = currentItems, list'.items = list.items,
         Regular' => Regular, Followed' => Followed
  PROVE  ItemsSettled'
<1>1. \A k, p : Later(k, p)' = Later(k, p)
  BY DEF Later
<1>2. \A item, k, p : Settled(item, k, p) => Settled(item, k, p)'
  BY <1>1, SettledMore DEF Settled
<1> QED BY <1>2 DEF ItemsSettled

\* What is to come, with the channel as it was.
LEMMA ToComeKept ==
  ASSUME SameBatches, db' = db
  PROVE  /\ \A id : ToCome(id)' <=> ToCome(id)
         /\ Present' = Present /\ Kinds' = Kinds
  BY DEF SameBatches, ToCome, Present, Kinds

\* Nothing is missed that was not.
LEMMA MissedKept ==
  ASSUME NoneMissed, SameBatches, db' = db, changes' = changes,
         actionQueue' = actionQueue, down' = down,
         currentItems' = currentItems, Ids(list.items) \subseteq Ids(list'.items),
         Regular' => Regular, isLoading' = isLoading, loaded' = loaded, Tracking' => Tracking
  PROVE  NoneMissed'
<1>1. \A id : OnItsWay(id)' <=> OnItsWay(id)
  BY DEF OnItsWay, ToBeAnnounced, Creations, Later
<1>2. /\ \A id : ToCome(id)' <=> ToCome(id)
      /\ Present' = Present /\ Kinds' = Kinds
  BY ToComeKept
<1>3. /\ Ids(currentItems)' = Ids(currentItems)
      /\ Ids(list.items)' = Ids(list'.items)
  BY DEF Ids
<1> QED BY <1>1, <1>2, <1>3 DEF NoneMissed

-----------------------------------------------------------------------------
(* Calls.                                                                    *)

\* A page asks about an item, or makes one the active item.
LEMMA CallStep ==
  ASSUME IInv, NEW r \in ItemRequest, r.id \in DOMAIN db, NEW x \in Id \union {0},
         callMethod(r) \/ up' = up,
         UNCHANGED <<region, connection, loading, down, autoReload, actionQueue, history>>,
         list' = [list EXCEPT !.active = x],
         x # 0 => x \in Ids(list.items) /\ loaded,
         r.method = "get" \/ loaded,
         \/ x = 0
         \/ x = list.active /\ (up' = up \/ r.method # "set_active")
         \/ callMethod(r) /\ r.method = "set_active" /\ r.id = x
  PROVE  IInv'
<1>1. /\ db' = db /\ changes' = changes /\ regionActive' = regionActive /\ changed' = changed
      /\ connected' = connected /\ opening' = opening
      /\ loaded' = loaded /\ isLoading' = isLoading /\ currentItems' = currentItems
      /\ down' = down /\ autoReload' = autoReload /\ actionQueue' = actionQueue
      /\ lost' = lost /\ early' = early
  BY DEF region, connection, loading, history
<1>2. /\ list \in [items: Seq(Item), active: Id \union {0}]
      /\ up \in Seq(Request) /\ r \in Request /\ r.method # "list"
  BY Zenon DEF IInv, Typed, Request, ItemRequest
<1>3. list' \in [items: Seq(Item), active: Id \union {0}] /\ list'.items = list.items
      /\ list'.active = x
  BY <1>2
<1>4. \/ up' = up
      \/ connected /\ up' = Append(up, r)
  BY DEF callMethod
<1>5. SameBatches
  <2>1. CASE up' = up
    BY <2>1, <1>1, BatchesKept DEF IInv
  <2>2. CASE up' = Append(up, r)
    <3>1. Requests' = Requests /\ OneAsked'
      BY <2>2, <1>2, UpSend DEF IInv, OneBatch
    <3>2. Batches' = Batches /\ OneSent'
      BY <1>1 DEF IInv, OneBatch, Batches, Sent, OneSent
    <3> QED BY <3>1, <3>2 DEF SameBatches
  <2> QED BY <1>4, <2>1, <2>2
<1>6. \A i \in DOMAIN up' : \/ i \in DOMAIN up /\ up'[i] = up[i]
                            \/ up'[i] = r /\ up' = Append(up, r)
  BY <1>2, <1>4, UpSend
<1>7. Typed'
  <2>1. CASE up' = up
    BY <2>1, <1>1, <1>3 DEF IInv, Typed
  <2>2. CASE up' = Append(up, r)
    <3>1. up' \in Seq(Request)
      BY <2>2, <1>2, AppendProperties
    <3> QED BY <3>1, <1>1, <1>3 DEF IInv, Typed
  <2> QED BY <1>4, <2>1, <2>2
<1>8. OneBatch'
  BY <1>1, <1>5, OneBatchKept DEF IInv
<1>9. Cut'
  BY <1>1, <1>4 DEF IInv, Cut
<1>10. NotLoaded'
  BY <1>1, <1>3, <1>6 DEF IInv, NotLoaded
<1>11. InOrder'
  <2>1. SameIds(list'.items, list.items)
    BY <1>3 DEF SameIds
  <2> QED BY <2>1, <1>1, <1>5, InOrderKept DEF IInv
<1>12. CreationsInOrder'
  BY <1>1, <1>3 DEF IInv, CreationsInOrder, Creations, Created
<1>13. ActiveListed'
  BY <1>3 DEF ActiveListed, Ids
<1>14. RowsReal'
  BY <1>1, <1>3, <1>6 DEF IInv, RowsReal, Real
<1>15. DeletionsReal'
  BY <1>1 DEF IInv, DeletionsReal
<1>16. Regular' <=> Regular
  BY <1>1 DEF Regular
<1>17. Under'
  <2>1. Kinds' = Kinds
    BY <1>1, <1>5, ToComeKept
  <2> QED BY <2>1, <1>1, <1>3, <1>16 DEF IInv, Under
<1>18. (Tracking' <=> Tracking) /\ (Followed' <=> Followed)
  BY <1>1 DEF Tracking, Followed
<1>19. ItemsSettled'
  BY <1>1, <1>3, <1>16, <1>18, ItemsKept DEF IInv
<1>20. NoneMissed'
  BY <1>1, <1>3, <1>5, <1>16, <1>18, MissedKept DEF IInv
<1>21. ActiveTold'
  <2> SUFFICES ASSUME Regular, Tracking, x # 0
               PROVE  \/ \E i \in Told' : up'[i].id = x /\ \A j \in Told' : j <= i
                      \/ Told' = {} /\ (regionActive = x \/ db[x] = 0)
    BY <1>1, <1>3, <1>16, <1>18 DEF ActiveTold
  <2>1. CASE x = list.active /\ up' = up
    <3>1. Told' = Told
      BY <2>1 DEF Told
    <3> QED BY <2>1, <3>1 DEF IInv, ActiveTold
  <2>2. CASE x = list.active /\ r.method # "set_active" /\ up' = Append(up, r)
    <3>1. Told' = Told /\ \A i \in Told : up'[i] = up[i]
      BY <2>2, <1>2, UpSend DEF Told
    <3> QED BY Zenon, <2>2, <3>1 DEF IInv, ActiveTold
  <2>3. CASE callMethod(r) /\ r.method = "set_active" /\ r.id = x
    <3>1. up' = Append(up, r)
      BY <2>3, <1>1 DEF callMethod, Tracking
    <3>2. /\ \A i \in DOMAIN up : i \in DOMAIN up' /\ up'[i] = up[i] /\ i < Len(up) + 1
          /\ \A i \in DOMAIN up' : i \in DOMAIN up \/ i = Len(up) + 1
          /\ Len(up) + 1 \in DOMAIN up' /\ up'[Len(up) + 1] = r /\ Len(up) \in Nat
      BY <3>1, <1>2, UpSend
    <3>3. Len(up) + 1 \in Told' /\ \A j \in Told' : j <= Len(up) + 1
      <4>1. \A j \in DOMAIN up : j \in Nat
        BY <1>2
      <4> QED BY <3>2, <2>3, <4>1 DEF Told
    <3> QED BY <3>2, <3>3, <2>3
  <2> QED BY <1>4, <2>1, <2>2, <2>3
<1> QED BY <1>7, <1>8, <1>9, <1>10, <1>11, <1>12, <1>13, <1>14, <1>15, <1>17, <1>19, <1>20, <1>21 DEF IInv

\* Ids are of the items that have existed.
LEMMA IdFacts ==
  ASSUME Typed
  PROVE  /\ DOMAIN db = 1 .. Len(db) /\ Len(db) \in Nat /\ DOMAIN db \subseteq Id
         /\ changed < MaxChanges => Len(db) + 1 \in Id
         /\ \A id \in DOMAIN db : id # 0
         /\ 0 \notin Id /\ Id \subseteq Nat
<1>1. /\ DOMAIN db = 1 .. Len(db) /\ Len(db) \in Nat /\ changed \in Nat
      /\ Len(db) <= Initial + changed /\ changed <= MaxChanges
      /\ Initial \in Nat /\ MaxChanges \in Nat
  BY ManagerAssumption DEF Typed, ManagerAssumption
<1>2. changed < MaxChanges => Len(db) + 1 <= Initial + MaxChanges
  BY <1>1
<1>3. Len(db) <= Initial + MaxChanges
  BY <1>1
<1> QED BY <1>1, <1>2, <1>3 DEF Id

\* A page gets an item, or updates or deletes one it shows.
LEMMA CallItemStep ==
  ASSUME IInv, CallItem
  PROVE  IInv'
<1>1. PICK id \in DOMAIN db, method \in {"get", "update", "delete"} :
        /\ method = "get" \/ (loaded /\ id \in Ids(list.items))
        /\ callMethod([method |-> method, id |-> id])
  BY DEF CallItem
<1> DEFINE r == [method |-> method, id |-> id]
<1>2. id \in Id
  BY IdFacts DEF IInv
<1>3. r \in ItemRequest /\ r.id = id /\ r.method = method /\ r.method # "set_active"
  BY <1>2 DEF ItemRequest
<1>4. UNCHANGED <<region, connection, loading, down, autoReload, actionQueue, history, list>>
  BY DEF CallItem, Call
<1>5. list \in [items: Seq(Item), active: Id \union {0}]
  BY DEF IInv, Typed
<1>6. /\ list.active \in Id \union {0} /\ list' = [list EXCEPT !.active = list.active]
      /\ list.active # 0 => list.active \in Ids(list.items) /\ loaded
  BY <1>4, <1>5 DEF IInv, ActiveListed, NotLoaded
<1>7. callMethod(r) /\ (r.method = "get" \/ loaded)
  BY <1>1
<1> HIDE DEF r
<1> QED BY Zenon, <1>3, <1>4, <1>6, <1>7, CallStep

\* A page makes an item the active one.
LEMMA CallSetActiveItemStep ==
  ASSUME IInv, CallSetActiveItem
  PROVE  IInv'
<1>1. PICK id \in DOMAIN db : setActiveItem(list, id)
  BY DEF CallSetActiveItem
<1> DEFINE r == [method |-> "set_active", id |-> id]
           x == IF id \in Ids(list.items) THEN id ELSE 0
<1>2. id \in Id
  BY IdFacts DEF IInv
<1>3. r \in ItemRequest /\ r.id = id /\ r.method = "set_active"
  BY <1>2 DEF ItemRequest
<1>4. UNCHANGED <<region, connection, loading, down, autoReload, actionQueue, history>> /\ loaded
  BY DEF CallSetActiveItem, Call
<1>5. /\ x \in Id \union {0} /\ list' = [list EXCEPT !.active = x]
      /\ x # 0 => x \in Ids(list.items) /\ x = id
  BY <1>1, <1>2 DEF setActiveItem
<1>6. \/ x = 0 /\ up' = up
      \/ callMethod(r) /\ r.id = x
  BY <1>1, <1>3 DEF setActiveItem
<1> HIDE DEF r, x
<1> QED BY <1>3, <1>4, <1>5, <1>6, CallStep

\* Loads and reloads that go on, or one that starts.
LEMMA LoadStep ==
  ASSUME IInv, loadItems \/ UNCHANGED <<up, loading>>,
         UNCHANGED <<region, connected, down, list, actionQueue, history>>,
         autoReload' \in BOOLEAN, opening' \in BOOLEAN,
         opening' => opening, autoReload => autoReload',
         Regular /\ isLoading' => autoReload' /\ (isLoading \/ connected),
         Regular /\ Tracking' => Tracking
  PROVE  IInv'
<1>1. /\ db' = db /\ changes' = changes /\ regionActive' = regionActive /\ changed' = changed
      /\ connected' = connected /\ down' = down /\ list' = list
      /\ actionQueue' = actionQueue /\ lost' = lost /\ early' = early
  BY DEF region, history
<1>2. Regular' <=> Regular
  BY <1>1 DEF Regular
<1>3. /\ list \in [items: Seq(Item), active: Id \union {0}]
      /\ up \in Seq(Request)
  BY DEF IInv, Typed
<1>4. ActiveListed' /\ DeletionsReal'
  BY <1>1 DEF IInv, ActiveListed, Ids, DeletionsReal
<1>5. CASE up' = up /\ loaded' = loaded /\ isLoading' = isLoading /\ currentItems' = currentItems
  <2>1. SameBatches
    BY <1>1, <1>5, BatchesKept DEF IInv
  <2>2. Typed' /\ Cut'
    BY <1>1, <1>5 DEF IInv, Typed, Cut
  <2>3. OneBatch'
    BY <1>1, <1>5, <2>1, OneBatchKept DEF IInv
  <2>4. NotLoaded'
    BY <1>1, <1>5 DEF IInv, NotLoaded
  <2>5. SameIds(list'.items, list.items)
    BY <1>1 DEF SameIds
  <2>6. InOrder'
    BY <1>1, <1>5, <2>1, <2>5, InOrderKept DEF IInv
  <2>7. CreationsInOrder'
    BY <1>1, <1>5 DEF IInv, CreationsInOrder, Creations, Created
  <2>8. RowsReal'
    BY <1>1, <1>5 DEF IInv, RowsReal, Real
  <2>9. Under'
    <3>1. Kinds' = Kinds
      BY <1>1, <2>1, ToComeKept
    <3> QED BY <3>1, <1>1, <1>2, <1>5 DEF IInv, Under
  <2>10. Regular => (Tracking' => Tracking) /\ (Followed' => Followed)
    BY <1>1, <1>5 DEF Followed
  <2>11. ItemsSettled'
    <3>1. CASE Regular
      BY <1>1, <1>2, <1>5, <2>10, <3>1, ItemsKept DEF IInv
    <3>2. CASE ~Regular
      BY <1>2, <3>2 DEF ItemsSettled
    <3> QED BY <3>1, <3>2
  <2>12. NoneMissed'
    <3>1. CASE Regular
      BY <1>1, <1>2, <1>5, <2>1, <2>10, <3>1, MissedKept DEF IInv
    <3>2. CASE ~Regular
      BY <1>2, <3>2 DEF NoneMissed
    <3> QED BY <3>1, <3>2
  <2>13. ActiveTold'
    BY <1>1, <1>2, <1>5, <2>10 DEF IInv, ActiveTold, Told
  <2> QED BY <1>4, <2>2, <2>3, <2>4, <2>6, <2>7, <2>8, <2>9, <2>11, <2>12, <2>13 DEF IInv
<1>6. CASE ~isLoading /\ isLoading' /\ loadItems
  <2> DEFINE kind == IF loaded THEN "reload" ELSE "load"
             array == IF loaded THEN <<>> ELSE list.items
             start == IF array = <<>> THEN 0 ELSE Last(array).id
             r == [method |-> "list", kind |-> kind, start |-> start]
  <2>1. /\ up' = IF connected THEN Append(up, r) ELSE up
        /\ loaded' = loaded /\ currentItems' = currentItems /\ isLoading' = TRUE
    BY Zenon, <1>6 DEF loadItems, callLoad, callMethod, loading
  <2>2. /\ Requests = {} /\ Batches = {} /\ Kinds = {}
        /\ actionQueue = <<>> /\ currentItems = <<>> /\ OneAsked /\ OneSent
    BY <1>6, KindsFacts DEF IInv, OneBatch
  <2>3. /\ start \in Id \union {0}
        /\ "get" \notin early /\ ~loaded => UpTo(list.items, start)
        /\ Regular => start = 0
    <3>1. CASE array = <<>>
      BY <3>1 DEF UpTo
    <3>2. CASE array # <<>>
      <4>1. ~loaded /\ array = list.items /\ list.items \in Seq(Item) /\ list.items # <<>>
        BY <3>2, <1>3
      <4>2. /\ DOMAIN list.items = 1 .. Len(list.items) /\ Len(list.items) \in Nat
            /\ Len(list.items) \in DOMAIN list.items
        BY <4>1
      <4>3. start = list.items[Len(list.items)].id
        BY <3>2, <4>1 DEF Last
      <4>4. \A i \in DOMAIN list.items : list.items[i].id \in Id
        <5>1. \A i \in DOMAIN list.items : list.items[i] \in Item
          BY <4>1
        <5> QED BY <5>1 DEF Item
      <4>5. start \in Id
        BY <4>2, <4>3, <4>4
      <4>6. "get" \notin early => UpTo(list.items, start)
        <5> SUFFICES ASSUME "get" \notin early, NEW i \in DOMAIN list.items
                     PROVE  list.items[i].id <= start
          BY DEF UpTo
        <5>1. Ascending(list.items)
          BY <4>1 DEF IInv, InOrder
        <5>2. i = Len(list.items) \/ i < Len(list.items)
          BY <4>2
        <5>3. list.items[i].id \in Nat /\ start \in Nat
          BY <4>4, <4>5, IdFacts DEF IInv
        <5>4. CASE i = Len(list.items)
          BY <4>3, <5>3, <5>4
        <5>5. CASE i < Len(list.items)
          <6>1. list.items[i].id < start
            BY <4>2, <4>3, <5>1, <5>5 DEF Ascending
          <6> QED BY <5>3, <6>1
        <5> QED BY <5>2, <5>4, <5>5
      <4>7. ~Regular
        BY <4>1, <1>6 DEF IInv, Under
      <4> QED BY <4>5, <4>6, <4>7
    <3> QED BY <3>1, <3>2
  <2> HIDE DEF start
  <2>4. r \in ListRequest /\ r.method = "list" /\ r.start = start /\ r.kind = kind
    BY <2>3 DEF ListRequest
  <2> HIDE DEF r, array
  <2>5. /\ OneAsked' /\ OneSent' /\ Batches' = {}
        /\ \/ connected /\ Requests' = {r}
           \/ ~connected /\ Requests' = {}
    <3>1. OneSent' /\ Batches' = {}
      BY <1>1, <2>2 DEF Batches, OneSent, Sent
    <3>2. CASE connected
      BY <1>3, <2>1, <2>2, <2>4, <3>1, <3>2, UpSend
    <3>3. CASE ~connected
      <4>1. up' = up
        BY <2>1, <3>3
      <4> QED BY <4>1, <2>2, <3>1, <3>3 DEF OneAsked, Asked, Requests
    <3> QED BY <3>1, <3>2, <3>3
  <2>6. Kinds' = IF connected THEN {kind} ELSE {}
    BY <2>4, <2>5 DEF Kinds
  <2>7. \A i \in DOMAIN up' : (i \in DOMAIN up /\ up'[i] = up[i]) \/ up'[i] = r
    BY <1>3, <2>1, UpSend
  <2>8. Typed'
    <3>1. up' \in Seq(Request)
      <4>1. r \in Request
        BY <2>4 DEF Request
      <4> QED BY <4>1, <1>3, <2>1
    <3> QED BY <3>1, <1>1, <2>1 DEF IInv, Typed
  <2>9. OneBatch'
    BY <1>1, <2>1, <2>2, <2>5, <2>6 DEF IInv, OneBatch
  <2>10. Cut'
    BY <1>1, <2>1 DEF IInv, Cut
  <2>11. NotLoaded'
    BY <1>1, <2>1, <2>4, <2>7 DEF IInv, NotLoaded
  <2>12. InOrder'
    <3>1. ASSUME NEW q \in Requests', Counts(q.kind)'
          PROVE  UpTo(Array(q.kind)', q.start)
      <4>1. q = r
        BY <2>5
      <4>2. CASE loaded
        <5>1. Array(q.kind)' = <<>>
          BY <4>1, <4>2, <2>1, <2>2, <2>4 DEF Array
        <5> QED BY <5>1 DEF UpTo
      <4>3. CASE ~loaded
        <5>1. Array(q.kind)' = list.items /\ "get" \notin early
          BY <4>1, <4>3, <1>1, <2>4, <3>1 DEF Array, Counts
        <5> QED BY <5>1, <4>1, <4>3, <2>3, <2>4
      <4> QED BY <4>2, <4>3
    <3>2. \A q \in Requests' : Counts(q.kind)' => UpTo(Array(q.kind)', q.start)
      BY <3>1
    <3> QED BY <3>2, <1>1, <2>1, <2>5 DEF IInv, InOrder, UpTo, Ascending, Distinct
  <2>13. CreationsInOrder'
    BY <1>1, <2>1 DEF IInv, CreationsInOrder, Creations, Created
  <2>14. RowsReal'
    BY <1>1, <2>1, <2>4, <2>7 DEF IInv, RowsReal, Real
  <2>15. Under'
    BY <1>1, <1>2, <1>6, <2>1, <2>6 DEF IInv, Under
  <2>16. ItemsSettled'
    <3> SUFFICES ASSUME Regular PROVE ItemsSettled'
      BY <1>2 DEF ItemsSettled
    <3>1. \A k, p : Later(k, p)' = Later(k, p)
      BY <1>1 DEF Later
    <3>2. \A item, k, p : Settled(item, k, p) => Settled(item, k, p)'
      BY <1>1, <3>1, SettledMore DEF Settled
    <3>3. Followed' => list'.items = <<>>
      BY <1>1, <1>6, <2>1 DEF IInv, Under, Followed, Tracking
    <3>4. DOMAIN <<>> = {}
      OBVIOUS
    <3> QED BY <1>1, <2>1, <2>2, <3>2, <3>3, <3>4 DEF IInv, ItemsSettled
  <2>17. NoneMissed'
    <3> SUFFICES ASSUME Regular PROVE NoneMissed'
      BY <1>2 DEF NoneMissed
    <3>1. ~Tracking'
      BY <2>1 DEF Tracking
    <3>2. ASSUME NEW id \in Present', Kinds' # {} PROVE ToCome(id)'
      <4>1. r \in Requests' /\ r.start = 0
        BY <2>3, <2>4, <2>5, <2>6, <3>2
      <4>2. id \in DOMAIN db
        BY <1>1, <3>2 DEF Present
      <4>3. 0 < id
        BY <4>2, IdFacts DEF IInv
      <4> QED BY <4>1, <4>3 DEF ToCome
    <3> QED BY <3>1, <3>2 DEF NoneMissed
  <2>18. ActiveTold'
    BY <2>1 DEF ActiveTold, Tracking
  <2> QED BY <1>4, <2>8, <2>9, <2>10, <2>11, <2>12, <2>13, <2>14, <2>15, <2>16, <2>17, <2>18 DEF IInv
<1>7. loadItems => \/ up' = up /\ loaded' = loaded /\ isLoading' = isLoading /\ currentItems' = currentItems
                   \/ ~isLoading /\ isLoading' /\ loadItems
  BY DEF loadItems, loading
<1> QED BY <1>5, <1>6, <1>7 DEF loading

\* A page has its manager loaded.
LEMMA LoadManagerStep ==
  ASSUME IInv, LoadManager
  PROVE  IInv'
<1>1. /\ loadItems \/ UNCHANGED <<up, loading>>
      /\ UNCHANGED <<region, connected, opening, down, list, actionQueue, history>>
      /\ connected /\ autoReload' = TRUE
  BY DEF LoadManager, Call, connection
<1>2. loaded' = loaded /\ (isLoading => isLoading')
  BY <1>1 DEF loadItems, loading
<1>3. Tracking' => Tracking
  BY <1>1, <1>2 DEF Tracking, IInv, Typed
<1>4. opening' \in BOOLEAN /\ (opening' => opening)
  BY <1>1 DEF IInv, Typed
<1> QED BY <1>1, <1>3, <1>4, LoadStep

\* The open handlers run.
LEMMA RunOpenHandlersStep ==
  ASSUME IInv, RunOpenHandlers
  PROVE  IInv'
<1>1. /\ UNCHANGED <<region, connected, autoReload, down, list, actionQueue, history>>
      /\ opening /\ opening' = FALSE
      /\ IF autoReload THEN loadItems ELSE UNCHANGED <<up, loading>>
  BY DEF RunOpenHandlers, reloadFunc
<1>2. /\ loaded' = loaded
      /\ autoReload => isLoading'
      /\ isLoading' => isLoading \/ autoReload
  BY <1>1 DEF loadItems, loading, IInv, Typed
<1>3. Regular /\ isLoading' => autoReload' /\ (isLoading \/ connected)
  BY <1>1, <1>2 DEF IInv, Under
<1>4. Regular /\ Tracking' => Tracking
  BY <1>1, <1>2 DEF IInv, Under, Tracking
<1>5. autoReload' \in BOOLEAN
  BY <1>1 DEF IInv, Typed
<1> QED BY Zenon, <1>1, <1>3, <1>4, <1>5, LoadStep

-----------------------------------------------------------------------------
(* The region.                                                               *)

\* A change of kind `k` of item `id`.
Changes(id, k) ==
  /\ changes' = Append(changes, [kind |-> k, id |-> id])
  /\ k \in {"create", "update", "delete"} /\ id \in Id
  /\ db' \in Seq(Nat) /\ Len(db') <= Len(db) + 1
  /\ DOMAIN db' = DOMAIN db \union {id}
  /\ \A x \in DOMAIN db : x # id => db'[x] = db[x]
  /\ k = "delete" <=> db'[id] = 0
  /\ id \in DOMAIN db => db[id] > 0 /\ k # "create" /\ Len(db') = Len(db)
  /\ id \notin DOMAIN db => k = "create" /\ id = Len(db) + 1

Moves == UNCHANGED <<db, changes>> \/ \E id, k : Changes(id, k)

\* An update is such a change.
LEMMA UpdateChanges ==
  ASSUME Typed, NEW id \in Present, Update(id)
  PROVE  Changes(id, "update") /\ db'[id] = db[id] + 1
<1>1. db \in Seq(Nat) /\ id \in DOMAIN db /\ db[id] > 0 /\ db[id] \in Nat /\ id \in Id
  BY IdFacts DEF Typed, Present
<1>2. db' = [db EXCEPT ![id] = db[id] + 1]
  BY DEF Update
<1>3. /\ db' \in Seq(Nat) /\ Len(db') = Len(db) /\ DOMAIN db' = DOMAIN db
      /\ db'[id] = db[id] + 1 /\ \A x \in DOMAIN db : x # id => db'[x] = db[x]
  BY <1>1, <1>2
<1>4. db'[id] # 0 /\ Len(db) \in Nat
  BY <1>1, <1>3
<1> QED BY <1>1, <1>3, <1>4 DEF Update, Changes

\* A deletion is one.
LEMMA DeleteChanges ==
  ASSUME Typed, NEW id \in Present, Delete(id)
  PROVE  Changes(id, "delete")
<1>1. db \in Seq(Nat) /\ id \in DOMAIN db /\ db[id] > 0 /\ db[id] \in Nat /\ id \in Id
  BY IdFacts DEF Typed, Present
<1>2. db' = [db EXCEPT ![id] = 0]
  BY DEF Delete
<1>3. /\ db' \in Seq(Nat) /\ Len(db') = Len(db) /\ DOMAIN db' = DOMAIN db
      /\ db'[id] = 0 /\ \A x \in DOMAIN db : x # id => db'[x] = db[x]
  BY <1>1, <1>2
<1>4. Len(db) \in Nat
  BY <1>1
<1> QED BY <1>1, <1>3, <1>4 DEF Delete, Changes

\* A creation is one.
LEMMA CreateChanges ==
  ASSUME Typed, changed < MaxChanges, Create
  PROVE  Changes(Len(db) + 1, "create")
<1>1. db \in Seq(Nat) /\ Len(db) + 1 \in Id /\ DOMAIN db = 1 .. Len(db) /\ Len(db) \in Nat
  BY IdFacts DEF Typed
<1>2. db' = Append(db, 1)
  BY DEF Create
<1>3. /\ db' \in Seq(Nat) /\ Len(db') = Len(db) + 1 /\ DOMAIN db' = 1 .. Len(db) + 1
      /\ db'[Len(db) + 1] = 1 /\ \A x \in 1 .. Len(db) : db'[x] = db[x]
  BY <1>1, <1>2, AppendFacts
<1>4. DOMAIN db' = DOMAIN db \union {Len(db) + 1} /\ Len(db) + 1 \notin DOMAIN db
  BY <1>1, <1>3
<1> QED BY <1>1, <1>3, <1>4 DEF Create, Changes

\* What a change of the region leaves true.
LEMMA MovesFacts ==
  ASSUME IInv, Moves
  PROVE  /\ DOMAIN db \subseteq DOMAIN db'
         /\ \A item, L : item.id \in DOMAIN db /\ SettledBy(item, L) => SettledBy(item, L)'
         /\ \A id \in DOMAIN db : db[id] = 0 => db'[id] = 0
         /\ \A id \in Present' : id \in Present \/ ToBeAnnounced(id)'
         /\ \A id : ToBeAnnounced(id) => ToBeAnnounced(id)'
         /\ \A i \in DOMAIN changes' :
              changes'[i].id \in DOMAIN db' /\ (changes'[i].kind = "delete" => db'[changes'[i].id] = 0)
         /\ \A i \in Creations' : \/ i \in Creations /\ changes'[i] = changes[i]
                                  \/ /\ changes'[i].id = Len(db) + 1
                                     /\ i \notin DOMAIN changes
                                     /\ \A j \in Creations' : j # i => j < i /\ j \in Creations
<1>1. CASE UNCHANGED <<db, changes>>
  <2>1. \A item, L : SettledBy(item, L) => SettledBy(item, L)'
    BY <1>1, SettledMore
  <2> QED BY <1>1, <2>1 DEF Present, ToBeAnnounced, Creations, IInv, DeletionsReal
<1>2. ASSUME NEW id, NEW k, Changes(id, k)
      PROVE  /\ DOMAIN db \subseteq DOMAIN db'
             /\ \A item, L : item.id \in DOMAIN db /\ SettledBy(item, L) => SettledBy(item, L)'
             /\ \A x \in DOMAIN db : db[x] = 0 => db'[x] = 0
             /\ \A x \in Present' : x \in Present \/ ToBeAnnounced(x)'
             /\ \A x : ToBeAnnounced(x) => ToBeAnnounced(x)'
             /\ \A i \in DOMAIN changes' :
                  changes'[i].id \in DOMAIN db' /\ (changes'[i].kind = "delete" => db'[changes'[i].id] = 0)
             /\ \A i \in Creations' : \/ i \in Creations /\ changes'[i] = changes[i]
                                      \/ /\ changes'[i].id = Len(db) + 1
                                         /\ i \notin DOMAIN changes
                                         /\ \A j \in Creations' : j # i => j < i /\ j \in Creations
  <2> DEFINE c == [kind |-> k, id |-> id]
             n == Len(changes) + 1
  <2>1. changes \in Seq(Change) /\ changes' = Append(changes, c) /\ c.kind = k /\ c.id = id
    BY <1>2 DEF Changes, IInv, Typed
  <2>2. /\ \A i \in DOMAIN changes : /\ i \in DOMAIN changes' /\ changes'[i] = changes[i]
                                     /\ i < n
        /\ \A i \in DOMAIN changes' : i \in DOMAIN changes \/ i = n
        /\ n \in DOMAIN changes' /\ changes'[n] = c /\ n \notin DOMAIN changes
    BY <2>1, AppendFacts
  <2> HIDE DEF c, n
  <2>3. DOMAIN db \subseteq DOMAIN db' /\ id \in DOMAIN db'
    BY <1>2 DEF Changes
  <2>4. \A x \in DOMAIN db : x # id => db'[x] = db[x]
    BY <1>2 DEF Changes
  <2>5. \A x \in DOMAIN db : db[x] = 0 => x # id
    BY <1>2 DEF Changes
  <2>6. \A i \in DOMAIN changes :
          changes[i].id \in DOMAIN db /\ (changes[i].kind = "delete" => db[changes[i].id] = 0)
    BY DEF IInv, DeletionsReal
  <2>7. \A i \in DOMAIN changes' :
          changes'[i].id \in DOMAIN db' /\ (changes'[i].kind = "delete" => db'[changes'[i].id] = 0)
    <3> TAKE i \in DOMAIN changes'
    <3>1. CASE i \in DOMAIN changes
      BY <3>1, <2>2, <2>3, <2>4, <2>5, <2>6
    <3>2. CASE i = n
      BY <3>2, <2>1, <2>2, <2>3, <1>2 DEF Changes
    <3> QED BY <2>2, <3>1, <3>2
  <2>8. \A x : ToBeAnnounced(x) => ToBeAnnounced(x)'
    BY <2>2 DEF ToBeAnnounced, Creations
  <2>9. \A x \in Present' : x \in Present \/ ToBeAnnounced(x)'
    <3> TAKE x \in Present'
    <3>1. x \in DOMAIN db' /\ db'[x] > 0
      BY DEF Present
    <3>2. CASE x \in DOMAIN db
      <4>1. CASE x = id
        BY <3>2, <4>1, <1>2 DEF Changes, Present
      <4>2. CASE x # id
        BY <3>1, <3>2, <4>2, <2>4 DEF Present
      <4> QED BY <4>1, <4>2
    <3>3. CASE x \notin DOMAIN db
      <4>1. x = id /\ k = "create"
        BY <3>1, <3>3, <1>2 DEF Changes
      <4> QED BY <4>1, <2>1, <2>2 DEF ToBeAnnounced, Creations
    <3> QED BY <3>2, <3>3
  <2>10. ASSUME NEW item, NEW L, item.id \in DOMAIN db, SettledBy(item, L)
         PROVE  SettledBy(item, L)'
    <3>1. CASE item.id = id
      <4>1. Announced(item.id)'
        BY <3>1, <1>2, <2>1, <2>2 DEF Announced, Changes
      <4> QED BY <4>1 DEF SettledBy
    <3>2. CASE item.id # id
      <4>1. db'[item.id] = db[item.id]
        BY <2>4, <2>10, <3>2
      <4>2. Announced(item.id) => Announced(item.id)'
        BY <2>2, <4>1 DEF Announced
      <4>3. \A m : Corrects(m, item.id) => Corrects(m, item.id)'
        BY <4>1 DEF Corrects, Row
      <4> QED BY <2>10, <4>1, <4>2, <4>3 DEF SettledBy
    <3> QED BY <3>1, <3>2
  <2>11. ASSUME NEW i \in Creations'
         PROVE  \/ i \in Creations /\ changes'[i] = changes[i]
                \/ /\ changes'[i].id = Len(db) + 1 /\ i \notin DOMAIN changes
                   /\ \A j \in Creations' : j # i => j < i /\ j \in Creations
    <3>1. CASE i \in DOMAIN changes
      BY <3>1, <2>2, <2>11 DEF Creations
    <3>2. CASE i = n
      <4>1. changes'[i].id = Len(db) + 1
        BY <3>2, <2>1, <2>2, <2>11, <1>2 DEF Creations, Changes
      <4>2. \A j \in Creations' : j # i => j < i /\ j \in Creations
        BY <3>2, <2>2 DEF Creations
      <4> QED BY <3>2, <2>2, <4>1, <4>2
    <3> QED BY <3>1, <3>2, <2>2 DEF Creations
  <2>12. \A item, L : item.id \in DOMAIN db /\ SettledBy(item, L) => SettledBy(item, L)'
    BY <2>10
  <2> QED BY <2>3, <2>4, <2>5, <2>7, <2>8, <2>9, <2>11, <2>12
<1> QED BY <1>1, <1>2 DEF Moves

\* The region takes a request about an item and replies `m`.
Answers(m) ==
  /\ up # <<>> /\ up' = Tail(up) /\ Head(up).method # "list"
  /\ m \in ItemReply /\ down' = Append(down, m)
  /\ \A item \in RowsOf(m) : /\ item.id \in DOMAIN db /\ item.v > 0
                             /\ item.v = db'[item.id]
  /\ m.type = "delete" => m.id \in DOMAIN db /\ db'[m.id] = 0
  /\ m.type \in {"update", "set_active", "delete"} => Head(up).method = m.type
  /\ regionActive' = IF Head(up).method = "set_active" /\ Head(up).id \in Present
                     THEN Head(up).id ELSE regionActive

Unanswered == up' = up /\ down' = down /\ regionActive' = regionActive

\* The region changes an item or none, and replies or not.
LEMMA RegionStep ==
  ASSUME IInv, Moves, Unanswered \/ \E m : Answers(m),
         changed' \in Nat, changed' <= MaxChanges, Len(db') <= Initial + changed',
         UNCHANGED <<connection, list, loading, autoReload, actionQueue, history>>
  PROVE  IInv'
<1>1. /\ connected' = connected /\ opening' = opening
      /\ loaded' = loaded /\ isLoading' = isLoading /\ currentItems' = currentItems
      /\ list' = list /\ autoReload' = autoReload /\ actionQueue' = actionQueue
      /\ lost' = lost /\ early' = early
  BY DEF connection, loading, history
<1>2. /\ up \in Seq(Request) /\ down \in Seq(Message) /\ changes \in Seq(Change)
      /\ list.items \in Seq(Item) /\ list.active \in Id \union {0}
      /\ actionQueue \in Seq(Notification) /\ currentItems \in Seq(Item)
  BY DEF IInv, Typed
<1>3. /\ DOMAIN db \subseteq DOMAIN db'
      /\ \A item, L : item.id \in DOMAIN db /\ SettledBy(item, L) => SettledBy(item, L)'
      /\ \A id \in DOMAIN db : db[id] = 0 => db'[id] = 0
      /\ \A id \in Present' : id \in Present \/ ToBeAnnounced(id)'
      /\ \A id : ToBeAnnounced(id) => ToBeAnnounced(id)'
      /\ \A i \in DOMAIN changes' :
           changes'[i].id \in DOMAIN db' /\ (changes'[i].kind = "delete" => db'[changes'[i].id] = 0)
      /\ \A i \in Creations' : \/ i \in Creations /\ changes'[i] = changes[i]
                               \/ /\ changes'[i].id = Len(db) + 1
                                  /\ i \notin DOMAIN changes
                                  /\ \A j \in Creations' : j # i => j < i /\ j \in Creations
  BY MovesFacts
<1>4. ASSUME NEW m, Answers(m)
      PROVE  /\ m \in Message /\ m.type \in {"get", "update", "set_active", "delete", "error"}
             /\ Head(up) \in Request /\ connected
  <2>1. m \in Message
    BY <1>4 DEF Answers, Message
  <2>2. m.type \in {"get", "update", "set_active", "delete", "error"}
    BY <1>4 DEF Answers, ItemReply
  <2>3. up # <<>>
    BY <1>4 DEF Answers
  <2>4. connected
    BY <2>3 DEF IInv, Cut, Typed
  <2> QED BY <1>2, <2>1, <2>2, <2>3, <2>4, TailFacts
<1>5. SameBatches
  <2>1. CASE Unanswered
    BY <2>1, BatchesKept DEF Unanswered, IInv
  <2>2. ASSUME NEW m, Answers(m) PROVE SameBatches
    <3>1. Requests' = Requests /\ OneAsked'
      BY <1>2, <2>2, UpTake DEF Answers, IInv, OneBatch
    <3>2. m.type # "list"
      BY <2>2, <1>4
    <3>3. Batches' = Batches /\ OneSent'
      BY Zenon, <1>2, <2>2, <3>2, DownSend DEF Answers, IInv, OneBatch
    <3> QED BY <3>1, <3>3 DEF SameBatches
  <2> QED BY <2>1, <2>2
<1>6. /\ \A i \in DOMAIN up' : \E j \in DOMAIN up : up'[i] = up[j]
      /\ \A p \in DOMAIN down : p \in DOMAIN down' /\ down'[p] = down[p] /\ p \in Nat
      /\ \A p \in DOMAIN down' : \/ p \in DOMAIN down
                                 \/ p = Len(down) + 1 /\ \E m : Answers(m) /\ down'[p] = m
  <2>1. CASE Unanswered
    BY <1>2, <2>1 DEF Unanswered
  <2>2. ASSUME NEW m, Answers(m)
        PROVE  /\ \A i \in DOMAIN up' : \E j \in DOMAIN up : up'[i] = up[j]
               /\ \A p \in DOMAIN down : p \in DOMAIN down' /\ down'[p] = down[p] /\ p \in Nat
               /\ \A p \in DOMAIN down' : p \in DOMAIN down \/ (p = Len(down) + 1 /\ down'[p] = m)
    <3>1. \A i \in DOMAIN up' : i + 1 \in DOMAIN up /\ up'[i] = up[i + 1]
      BY Zenon, <1>2, <2>2, UpTake DEF Answers
    <3>2. /\ \A p \in DOMAIN down : p \in DOMAIN down' /\ down'[p] = down[p] /\ p \in Nat
          /\ \A p \in DOMAIN down' : p \in DOMAIN down \/ p = Len(down) + 1
          /\ down'[Len(down) + 1] = m
      BY Zenon, <1>2, <2>2, DownSend DEF Answers
    <3> QED BY <3>1, <3>2
  <2> QED BY <2>1, <2>2
<1>7. Typed'
  <2>1. db' \in Seq(Nat) /\ changes' \in Seq(Change)
    <3>1. CASE UNCHANGED <<db, changes>>
      BY <3>1 DEF IInv, Typed
    <3>2. ASSUME NEW id, NEW k, Changes(id, k) PROVE db' \in Seq(Nat) /\ changes' \in Seq(Change)
      <4>1. [kind |-> k, id |-> id] \in Change
        BY <3>2 DEF Changes, Change
      <4> QED BY <1>2, <3>2, <4>1 DEF Changes
    <3> QED BY <3>1, <3>2 DEF Moves
  <2>2. up' \in Seq(Request) /\ down' \in Seq(Message) /\ regionActive' \in Id \union {0}
    <3>1. CASE Unanswered
      BY <1>2, <3>1 DEF Unanswered, IInv, Typed
    <3>2. ASSUME NEW m, Answers(m)
          PROVE  up' \in Seq(Request) /\ down' \in Seq(Message) /\ regionActive' \in Id \union {0}
      <4>1. up' \in Seq(Request)
        BY <1>2, <3>2, UpTake DEF Answers
      <4>2. down' \in Seq(Message)
        BY <1>2, <1>4, <3>2 DEF Answers
      <4>3. regionActive' \in Id \union {0}
        BY Zenon, <1>4, <3>2, RequestFacts DEF Answers, IInv, Typed
      <4> QED BY <4>1, <4>2, <4>3
    <3> QED BY <3>1, <3>2
  <2> QED BY <1>1, <2>1, <2>2 DEF IInv, Typed
<1>8. OneBatch'
  BY <1>1, <1>5, OneBatchKept DEF IInv
<1>9. Cut'
  <2>1. CASE Unanswered
    BY <1>1, <2>1 DEF Unanswered, IInv, Cut
  <2>2. CASE \E m : Answers(m)
    BY <1>1, <1>4, <2>2 DEF Cut
  <2> QED BY <2>1, <2>2
<1>10. NotLoaded'
  <2> SUFFICES ASSUME ~loaded PROVE NotLoaded'
    BY <1>1 DEF NotLoaded
  <2>1. /\ list.active = 0
        /\ \A i \in DOMAIN up : up[i].method \in {"list", "get"}
        /\ \A p \in DOMAIN down : down[p].type \in {"list", "refused", "get", "error", "notify"}
    BY DEF IInv, NotLoaded
  <2>2. ASSUME NEW m, Answers(m) PROVE m.type \in {"get", "error"}
    <3>1. Head(up).method \in {"list", "get"}
      BY <1>2, <2>1, <2>2, UpTake DEF Answers
    <3> QED BY <1>4, <2>2, <3>1 DEF Answers
  <2>3. \A i \in DOMAIN up' : up'[i].method \in {"list", "get"}
    BY <1>6, <2>1
  <2>4. \A p \in DOMAIN down' : down'[p].type \in {"list", "refused", "get", "error", "notify"}
    BY <1>6, <2>1, <2>2
  <2> QED BY <1>1, <2>1, <2>3, <2>4 DEF NotLoaded
<1>11. InOrder'
  <2>1. SameIds(list'.items, list.items)
    BY <1>1 DEF SameIds
  <2> QED BY <1>1, <1>5, <2>1, InOrderKept DEF IInv
<1>12. Created' = Created /\ \A p \in Created : p \in DOMAIN down /\ down'[p] = down[p]
  BY <1>4, <1>6 DEF Created
<1>13. CreationsInOrder'
  <2> DEFINE n == Len(db) + 1
  <2>1. \A id \in DOMAIN db : id < n
    BY IdFacts DEF IInv
  <2> HIDE DEF n
  <2>2. \A p \in Created : down[p].item.id < n
    <3> TAKE p \in Created
    <3>1. p \in DOMAIN down /\ down[p].type = "notify" /\ down[p].kind = "create"
      BY DEF Created
    <3>2. RowsOf(down[p]) = {down[p].item}
      BY <3>1, RowsOfFacts
    <3>3. Real(down[p].item)
      BY <3>1, <3>2 DEF IInv, RowsReal
    <3> QED BY <2>1, <3>3 DEF Real
  <2>3. \A k \in DOMAIN list.items : list.items[k].id < n
    BY <2>1 DEF IInv, RowsReal, Real
  <2>4. /\ \A i \in Creations : changes[i].id < n
        /\ \A i \in Creations : i \in DOMAIN changes
        /\ \A i, j \in Creations : i < j => changes[i].id < changes[j].id
        /\ \A p, q \in Created : p < q => down[p].item.id < down[q].item.id
        /\ \A p \in Created, i \in Creations : down[p].item.id < changes[i].id
        /\ "get" \notin early /\ ~loaded /\ ~isLoading =>
             \A k \in DOMAIN list.items :
               /\ \A p \in Created : list.items[k].id < down[p].item.id
               /\ \A i \in Creations : list.items[k].id < changes[i].id
    BY <2>1 DEF IInv, CreationsInOrder, Creations
  <2>5. \A i \in Creations' : \/ i \in Creations /\ changes'[i] = changes[i]
                              \/ /\ changes'[i].id = n /\ i \notin Creations
                                 /\ \A j \in Creations' : j # i => j < i /\ j \in Creations
    BY <1>3, <2>4 DEF n
  <2>6. \A i \in Creations' : i \in DOMAIN changes' /\ i \in Nat
    BY <1>7 DEF Creations, Typed
  <2>7. ASSUME NEW i \in Creations', NEW j \in Creations', i < j
        PROVE  changes'[i].id < changes'[j].id
    <3>1. i # j /\ ~(j < i)
      BY <2>6, <2>7
    <3>2. i \in Creations /\ changes'[i] = changes[i]
      BY <2>5, <3>1
    <3> QED BY <2>4, <2>5, <2>7, <3>2
  <2>8. \A p \in Created', i \in Creations' : down'[p].item.id < changes'[i].id
    BY <1>12, <2>2, <2>4, <2>5
  <2>9. \A p, q \in Created' : p < q => down'[p].item.id < down'[q].item.id
    BY <1>12, <2>4
  <2>10. "get" \notin early' /\ ~loaded' /\ ~isLoading' =>
             \A k \in DOMAIN list'.items :
               /\ \A p \in Created' : list'.items[k].id < down'[p].item.id
               /\ \A i \in Creations' : list'.items[k].id < changes'[i].id
    BY <1>1, <1>12, <2>3, <2>4, <2>5
  <2>11. \A i \in Creations' : changes'[i].id \in DOMAIN db'
    BY <1>3, <2>6
  <2> QED BY <2>7, <2>8, <2>9, <2>10, <2>11 DEF CreationsInOrder
<1>14. ActiveListed'
  BY <1>1 DEF IInv, ActiveListed, Ids
<1>15. RowsReal'
  <2>1. \A item : Real(item) => Real(item)'
    BY <1>3, RealKept
  <2>2. \A p \in DOMAIN down' : \A item \in RowsOf(down'[p]) : Real(item)'
    <3> TAKE p \in DOMAIN down'
    <3>1. CASE p \in DOMAIN down
      BY <1>6, <2>1, <3>1 DEF IInv, RowsReal
    <3>2. ASSUME NEW m, Answers(m), down'[p] = m
          PROVE  \A item \in RowsOf(down'[p]) : Real(item)'
      BY <1>3, <3>2 DEF Answers, Real
    <3> QED BY <1>6, <3>1, <3>2
  <2>3. \A i \in DOMAIN up' : up'[i].method # "list" => up'[i].id \in DOMAIN db'
    BY <1>3, <1>6 DEF IInv, RowsReal
  <2>4. \A p : RowsOf(down[p])' = RowsOf(down'[p])
    BY DEF RowsOf
  <2>5. \A k : RowsOf(actionQueue[k])' = RowsOf(actionQueue[k])
    BY <1>1 DEF RowsOf
  <2> QED BY <1>1, <2>1, <2>2, <2>3, <2>4, <2>5 DEF IInv, RowsReal
<1>16. DeletionsReal'
  <2>1. \A id \in DOMAIN db : db[id] = 0 => id \in DOMAIN db' /\ db'[id] = 0
    BY <1>3
  <2>2. ASSUME NEW p \in DOMAIN down',
               down'[p].type = "delete" \/ (down'[p].type = "notify" /\ down'[p].kind = "delete")
        PROVE  down'[p].id \in DOMAIN db' /\ db'[down'[p].id] = 0
    <3>1. CASE p \in DOMAIN down
      BY <1>6, <2>1, <2>2, <3>1 DEF IInv, DeletionsReal
    <3>2. ASSUME NEW m, Answers(m), down'[p] = m
          PROVE  down'[p].id \in DOMAIN db' /\ db'[down'[p].id] = 0
      <4>1. m.type = "delete"
        BY <1>4, <2>2, <3>2
      <4> QED BY <1>3, <3>2, <4>1 DEF Answers
    <3> QED BY <1>6, <3>1, <3>2
  <2> QED BY <1>1, <1>3, <2>1, <2>2 DEF IInv, DeletionsReal
<1>17. Regular' <=> Regular
  BY <1>1 DEF Regular
<1>18. /\ \A id : ToCome(id)' <=> ToCome(id)
       /\ Kinds' = Kinds
  BY <1>5 DEF SameBatches, ToCome, Kinds
<1>19. Under'
  BY <1>1, <1>6, <1>17, <1>18 DEF IInv, Under
<1>20. (Tracking' <=> Tracking) /\ (Followed' <=> Followed)
  BY <1>1 DEF Tracking, Followed
<1>21. \A k : \A p \in Nat : Later(k, p) \subseteq Later(k, p)'
  <2> TAKE k
  <2> TAKE p \in Nat
  <2>1. CASE Unanswered
    BY <1>1, <2>1 DEF Unanswered, Later
  <2>2. ASSUME NEW m, Answers(m) PROVE Later(k, p) \subseteq Later(k, p)'
    BY Zenon, <1>1, <1>2, <2>2, LaterSend DEF Answers
  <2> QED BY <2>1, <2>2
<1>22. ItemsSettled'
  <2> SUFFICES ASSUME Regular PROVE ItemsSettled'
    BY <1>17 DEF ItemsSettled
  <2>1. ASSUME NEW item, NEW k, NEW p \in Nat, Real(item), Settled(item, k, p)
        PROVE  Settled(item, k, p)'
    <3>1. PICK L : L = Later(k, p)
      OBVIOUS
    <3>2. SettledBy(item, L)'
      BY <1>3, <2>1, <3>1 DEF Real, Settled
    <3>3. L \subseteq Later(k, p)'
      BY <1>21, <3>1
    <3> QED BY <3>2, <3>3 DEF Settled, SettledBy
  <2>2. Followed => \A i \in DOMAIN list.items : Settled(list.items[i], 0, 0)'
    BY <2>1 DEF IInv, ItemsSettled, RowsReal
  <2>3. \A i \in DOMAIN currentItems : Settled(currentItems[i], 0, 0)'
    <3> TAKE i \in DOMAIN currentItems
    <3>1. PICK item : item = currentItems[i]
      OBVIOUS
    <3>2. Real(item) /\ Settled(item, 0, 0)
      BY <3>1 DEF IInv, ItemsSettled, RowsReal
    <3>3. Settled(item, 0, 0)'
      BY <2>1, <3>2
    <3>4. item = currentItems'[i]
      BY <1>1, <3>1
    <3> QED BY <3>3, <3>4
  <2>4. \A k \in DOMAIN actionQueue : \A item \in RowsOf(actionQueue[k]) : Settled(item, k, 0)'
    BY <2>1 DEF IInv, ItemsSettled, RowsReal
  <2>5. \A p \in DOMAIN down' : \A item \in RowsOf(down'[p]) : Settled(item, Len(actionQueue), p)'
    <3> TAKE p \in DOMAIN down'
    <3>1. CASE p \in DOMAIN down
      <4>1. \A item \in RowsOf(down[p]) : Real(item) /\ Settled(item, Len(actionQueue), p)
        BY <3>1 DEF IInv, ItemsSettled, RowsReal
      <4> QED BY <1>6, <2>1, <3>1, <4>1
    <3>2. ASSUME NEW m, Answers(m), down'[p] = m
          PROVE  \A item \in RowsOf(down'[p]) : Settled(item, Len(actionQueue), p)'
      BY <3>2 DEF Answers, Settled, SettledBy
    <3> QED BY <1>6, <3>1, <3>2
  <2> QED BY <1>1, <1>17, <1>20, <2>2, <2>3, <2>4, <2>5 DEF ItemsSettled, RowsOf
<1>23. NoneMissed'
  <2>1. \A id : OnItsWay(id) => OnItsWay(id)'
    BY <1>3, <1>21 DEF OnItsWay, Brings, Ids
  <2>2. \A id \in Present' : id \in Present \/ OnItsWay(id)'
    BY <1>3 DEF OnItsWay
  <2>3. Ids(currentItems)' = Ids(currentItems) /\ Ids(list.items)' = Ids(list.items)
    BY <1>1 DEF Ids
  <2> QED BY <1>1, <1>17, <1>18, <1>20, <2>1, <2>2, <2>3 DEF IInv, NoneMissed
<1>24. ActiveTold'
  <2> SUFFICES ASSUME Regular, Tracking, list.active # 0
               PROVE  \/ \E i \in Told' : up'[i].id = list.active /\ \A j \in Told' : j <= i
                      \/ Told' = {} /\ (regionActive' = list.active \/ db'[list.active] = 0)
    BY <1>1, <1>17, <1>20 DEF ActiveTold
  <2>1. list.active \in DOMAIN db
    <3>1. list.active \in Ids(list.items)
      BY DEF IInv, ActiveListed
    <3> QED BY <3>1 DEF IInv, RowsReal, Real, Ids
  <2>2. \/ \E i \in Told : up[i].id = list.active /\ \A j \in Told : j <= i
        \/ Told = {} /\ (regionActive = list.active \/ db'[list.active] = 0)
    BY <1>3, <2>1 DEF IInv, ActiveTold
  <2>3. CASE Unanswered
    BY <2>2, <2>3 DEF Unanswered, Told
  <2>4. ASSUME NEW m, Answers(m)
        PROVE  \/ \E i \in Told' : up'[i].id = list.active /\ \A j \in Told' : j <= i
               \/ Told' = {} /\ (regionActive' = list.active \/ db'[list.active] = 0)
    <3>1. /\ Head(up) = up[1] /\ 1 \in DOMAIN up
          /\ \A i \in DOMAIN up' : i + 1 \in DOMAIN up /\ up'[i] = up[i + 1] /\ i \in Nat
          /\ \A i \in DOMAIN up :
               i = 1 \/ (i - 1 \in DOMAIN up' /\ up'[i - 1] = up[i] /\ i \in Nat)
      BY Zenon, <1>2, <2>4, UpTake DEF Answers
    <3>2. /\ \A i \in Told' : i + 1 \in Told /\ i \in Nat
          /\ \A i \in Told : i = 1 \/ (i - 1 \in Told' /\ up'[i - 1] = up[i] /\ i \in Nat)
      BY <3>1 DEF Told
    <3>3. ASSUME NEW i \in Told, up[i].id = list.active, \A j \in Told : j <= i, i # 1
          PROVE  \E n \in Told' : up'[n].id = list.active /\ \A j \in Told' : j <= n
      <4>1. i - 1 \in Told' /\ up'[i - 1].id = list.active /\ i \in Nat
        BY <3>2, <3>3
      <4>2. ASSUME NEW j \in Told' PROVE j <= i - 1
        <5>1. j + 1 <= i /\ j \in Nat
          BY <3>2, <3>3
        <5> QED BY <4>1, <5>1
      <4> QED BY <4>1, <4>2
    <3>4. ASSUME 1 \in Told, up[1].id = list.active, \A j \in Told : j <= 1
          PROVE  Told' = {} /\ (regionActive' = list.active \/ db'[list.active] = 0)
      <4>1. Told' = {}
        <5> SUFFICES ASSUME NEW i \in Told' PROVE FALSE
          OBVIOUS
        <5>1. i + 1 <= 1 /\ i \in Nat /\ i \in DOMAIN up'
          BY <3>2, <3>4 DEF Told
        <5>2. i # 0
          <6>1. up' \in Seq(Request)
            BY <1>7 DEF Typed
          <6> QED BY <5>1, <6>1
        <5> QED BY <5>1, <5>2
      <4>2. Head(up).method = "set_active" /\ Head(up).id = list.active
        BY <3>1, <3>4 DEF Told
      <4>3. list.active \in Present \/ db[list.active] = 0
        BY <2>1 DEF Present, IInv, Typed
      <4> QED BY <4>1, <4>2, <4>3, <1>3, <2>1, <2>4 DEF Answers
    <3>5. CASE Told = {} /\ (regionActive = list.active \/ db'[list.active] = 0)
      <4>1. Told' = {}
        BY <3>2, <3>5
      <4>2. Head(up).method # "set_active"
        BY <3>1, <3>5 DEF Told
      <4> QED BY <2>4, <3>5, <4>1, <4>2 DEF Answers
    <3> QED BY <2>2, <3>3, <3>4, <3>5
  <2> QED BY <2>3, <2>4
<1> QED BY <1>7, <1>8, <1>9, <1>10, <1>11, <1>13, <1>14, <1>15, <1>16, <1>19, <1>22, <1>23, <1>24 DEF IInv

\* The region changes an item.
LEMMA RegionChangesStep ==
  ASSUME IInv, RegionChanges
  PROVE  IInv'
<1>1. Typed /\ changed < MaxChanges /\ changed' = changed + 1
  BY DEF IInv, RegionChanges
<1>2. changed \in Nat /\ changed <= MaxChanges /\ Len(db) <= Initial + changed /\ db \in Seq(Nat)
      /\ Initial \in Nat /\ MaxChanges \in Nat /\ Len(db) \in Nat
  BY <1>1, ManagerAssumption DEF Typed, ManagerAssumption
<1>3. \E id, k : Changes(id, k)
  <2>1. CASE Create
    BY <1>1, <2>1, CreateChanges
  <2>2. CASE \E id \in Present : Update(id)
    BY <1>1, <2>2, UpdateChanges
  <2>3. CASE \E id \in Present : Delete(id)
    BY <1>1, <2>3, DeleteChanges
  <2> QED BY <2>1, <2>2, <2>3 DEF RegionChanges
<1>4. db' \in Seq(Nat) /\ Len(db') <= Len(db) + 1 /\ Len(db') \in Nat
  BY <1>3 DEF Changes
<1>5. changed' \in Nat /\ changed' <= MaxChanges /\ Len(db') <= Initial + changed'
  BY <1>1, <1>2, <1>4
<1>6. Moves /\ Unanswered
  BY <1>3 DEF Moves, Unanswered, RegionChanges
<1> QED BY <1>5, <1>6, RegionStep DEF RegionChanges

\* The region answers a request about an item.
LEMMA AnswersItemStep ==
  ASSUME IInv, RegionAnswers, Head(up).method # "list"
  PROVE  IInv'
<1>1. PICK r : r = Head(up)
  OBVIOUS
<1>2. /\ up # <<>> /\ r.method # "list" /\ r \in Request /\ Typed
      /\ UNCHANGED <<connection, list, loading, autoReload, actionQueue, history>>
  <2>1. up # <<>> /\ up \in Seq(Request) /\ Typed
    BY DEF RegionAnswers, IInv, Typed
  <2> QED BY <1>1, <2>1, TailFacts DEF RegionAnswers
<1>3. r.id \in Id
  BY <1>2, RequestFacts
<1>4. /\ changed \in Nat /\ changed <= MaxChanges /\ Len(db) <= Initial + changed
      /\ db \in Seq(Nat)
  BY <1>2 DEF Typed
<1>5. CASE /\ r.id \notin Present /\ Reply([type |-> "error"]) /\ UNCHANGED region
  <2>1. PICK m : m = [type |-> "error"]
    BY Zenon
  <2>2. m.type = "error" /\ m \in ItemReply
    BY <2>1 DEF ItemReply
  <2>3. Answers(m)
    BY <1>1, <1>2, <1>5, <2>1, <2>2, RowsOfFacts DEF Answers, Reply, region
  <2> QED BY <1>2, <1>4, <1>5, <2>3, RegionStep DEF Moves, region
<1>6. CASE /\ r.method \in {"get", "set_active"} /\ r.id \in Present
           /\ Reply([type |-> r.method, item |-> Row(r.id)])
           /\ regionActive' = IF r.method = "get" THEN regionActive ELSE r.id
           /\ UNCHANGED <<db, changes, changed>>
  <2>1. PICK m : m = [type |-> r.method, item |-> Row(r.id)]
    BY Zenon
  <2>2. r.id \in DOMAIN db /\ db[r.id] > 0 /\ db[r.id] \in Nat
    BY <1>4, <1>6 DEF Present
  <2>3. PICK item : item = Row(r.id)
    OBVIOUS
  <2>4. item.id = r.id /\ item.v = db[r.id] /\ item \in Item
    BY <1>3, <2>2, <2>3 DEF Row, Item
  <2>5. m.type = r.method /\ m.item = item /\ m \in ItemReply
    BY <1>6, <2>1, <2>3, <2>4 DEF ItemReply
  <2>6. RowsOf(m) = {item}
    BY <1>6, <2>5, RowsOfFacts
  <2>7. Answers(m)
    BY <1>1, <1>2, <1>6, <2>1, <2>2, <2>4, <2>5, <2>6 DEF Answers, Reply
  <2> QED BY <1>2, <1>4, <1>6, <2>7, RegionStep DEF Moves
<1>7. CASE /\ r.method = "update" /\ r.id \in Present /\ Update(r.id)
           /\ Reply([type |-> "update", item |-> [id |-> r.id, v |-> db[r.id] + 1]])
           /\ UNCHANGED <<regionActive, changed>>
  <2>1. PICK item : item = [id |-> r.id, v |-> db[r.id] + 1]
    BY Zenon
  <2>2. PICK m : m = [type |-> "update", item |-> item]
    BY Zenon
  <2>3. r.id \in DOMAIN db /\ db[r.id] > 0 /\ db[r.id] \in Nat
    BY <1>4, <1>7 DEF Present
  <2>4. item.id = r.id /\ item.v = db[r.id] + 1 /\ item \in Item /\ item.v > 0
    BY <1>3, <2>1, <2>3 DEF Item
  <2>5. m.type = "update" /\ m.item = item /\ m \in ItemReply
    BY <2>2, <2>4 DEF ItemReply
  <2>6. RowsOf(m) = {item}
    BY <2>5, RowsOfFacts
  <2>7. Changes(r.id, "update") /\ db'[r.id] = db[r.id] + 1
    BY <1>2, <1>7, UpdateChanges
  <2>8. Answers(m)
    BY <1>1, <1>2, <1>7, <2>1, <2>2, <2>3, <2>4, <2>5, <2>6, <2>7 DEF Answers, Reply
  <2>9. Len(db') = Len(db)
    BY <2>3, <2>7 DEF Changes
  <2> QED BY <1>2, <1>4, <1>7, <2>7, <2>8, <2>9, RegionStep DEF Moves
<1>8. CASE /\ r.method = "delete" /\ r.id \in Present /\ Delete(r.id)
           /\ Reply([type |-> "delete", id |-> r.id])
           /\ UNCHANGED <<regionActive, changed>>
  <2>1. PICK m : m = [type |-> "delete", id |-> r.id]
    BY Zenon
  <2>2. r.id \in DOMAIN db /\ db[r.id] > 0
    BY <1>4, <1>8 DEF Present
  <2>3. m.type = "delete" /\ m.id = r.id /\ m \in ItemReply
    BY <1>3, <2>1 DEF ItemReply
  <2>4. RowsOf(m) = {}
    BY <2>3, RowsOfFacts
  <2>5. Changes(r.id, "delete")
    BY <1>2, <1>8, DeleteChanges
  <2>6. db'[r.id] = 0 /\ Len(db') = Len(db)
    BY <2>2, <2>5 DEF Changes
  <2>7. Answers(m)
    BY <1>1, <1>2, <1>8, <2>1, <2>2, <2>3, <2>4, <2>6 DEF Answers, Reply
  <2> QED BY <1>2, <1>4, <1>8, <2>5, <2>6, <2>7, RegionStep DEF Moves
<1> QED BY <1>1, <1>2, <1>5, <1>6, <1>7, <1>8 DEF RegionAnswers

\* A list request is answered with a batch, or refused.
LEMMA ListReplyStep ==
  ASSUME IInv, up # <<>>, Head(up).method = "list", NEW m \in ListReply,
         Reply(m), UNCHANGED region,
         UNCHANGED <<connection, list, loading, autoReload, actionQueue, history>>,
         \A item \in RowsOf(m) : item.id \in Present /\ item.v = db[item.id],
         OneBatch', InOrder', NoneMissed', Kinds' # {} \/ m.type = "refused"
  PROVE  IInv'
<1>1. /\ connected' = connected /\ opening' = opening
      /\ loaded' = loaded /\ isLoading' = isLoading /\ currentItems' = currentItems
      /\ list' = list /\ autoReload' = autoReload /\ actionQueue' = actionQueue
      /\ lost' = lost /\ early' = early
      /\ db' = db /\ changes' = changes /\ regionActive' = regionActive /\ changed' = changed
  BY DEF connection, loading, history, region
<1>2. /\ up \in Seq(Request) /\ down \in Seq(Message) /\ up' = Tail(up) /\ down' = Append(down, m)
      /\ m \in Message /\ m.type \in {"list", "refused"}
  BY DEF IInv, Typed, Reply, Message, ListReply
<1>3. /\ \A i \in DOMAIN up' : i + 1 \in DOMAIN up /\ up'[i] = up[i + 1] /\ i \in Nat
      /\ \A i \in DOMAIN up : i = 1 \/ (i - 1 \in DOMAIN up' /\ up'[i - 1] = up[i] /\ i \in Nat)
      /\ up' \in Seq(Request) /\ 1 \in DOMAIN up /\ up[1].method = "list"
  BY <1>2, UpTake
<1>4. /\ \A p \in DOMAIN down : p \in DOMAIN down' /\ down'[p] = down[p] /\ p \in Nat
      /\ \A p \in DOMAIN down' : p \in DOMAIN down \/ p = Len(down) + 1
      /\ Len(down) + 1 \in DOMAIN down' /\ down'[Len(down) + 1] = m
      /\ down' \in Seq(Message)
  BY <1>2, DownSend
<1>5. \A k : \A p \in Nat : Later(k, p) \subseteq Later(k, p)'
  BY <1>1, <1>2, LaterSend
<1>6. Regular' <=> Regular
  BY <1>1 DEF Regular
<1>7. (Tracking' <=> Tracking) /\ (Followed' <=> Followed)
  BY <1>1 DEF Tracking, Followed
<1>8. Typed'
  BY <1>1, <1>3, <1>4 DEF IInv, Typed
<1>9. Cut'
  <2>1. connected
    BY <1>2 DEF IInv, Cut, Typed
  <2> QED BY <1>1, <2>1 DEF Cut
<1>10. NotLoaded'
  BY <1>1, <1>2, <1>3, <1>4 DEF IInv, NotLoaded
<1>11. Created' = Created /\ \A p \in Created : p \in DOMAIN down /\ down'[p] = down[p]
  BY <1>2, <1>4 DEF Created
<1>12. CreationsInOrder'
  BY <1>1, <1>11 DEF IInv, CreationsInOrder, Creations
<1>13. ActiveListed'
  BY <1>1 DEF IInv, ActiveListed, Ids
<1>14. RowsReal'
  <2>1. \A item : Real(item) => Real(item)'
    BY <1>1, RealKept
  <2>2. \A item \in RowsOf(m) : Real(item)
    BY DEF Present, Real
  <2>3. \A p \in DOMAIN down' : \A item \in RowsOf(down'[p]) : Real(item)'
    BY <1>4, <2>1, <2>2 DEF IInv, RowsReal
  <2>4. \A i \in DOMAIN up' : up'[i].method # "list" => up'[i].id \in DOMAIN db'
    BY <1>1, <1>3 DEF IInv, RowsReal
  <2>5. \A p : RowsOf(down[p])' = RowsOf(down'[p])
    BY DEF RowsOf
  <2>6. \A k : RowsOf(actionQueue[k])' = RowsOf(actionQueue[k])
    BY <1>1 DEF RowsOf
  <2> QED BY <1>1, <2>1, <2>3, <2>4, <2>5, <2>6 DEF IInv, RowsReal
<1>15. DeletionsReal'
  BY <1>1, <1>2, <1>4 DEF IInv, DeletionsReal
<1>16. Under'
  <2>1. isLoading /\ Regular => Kinds' # {} \/ \E p \in DOMAIN down' : down'[p].type = "refused"
    BY <1>4
  <2> QED BY <1>1, <1>6, <2>1 DEF IInv, Under
<1>17. ItemsSettled'
  <2> SUFFICES ASSUME Regular PROVE ItemsSettled'
    BY <1>6 DEF ItemsSettled
  <2>1. ASSUME NEW item, NEW k, NEW p \in Nat, Settled(item, k, p)
        PROVE  Settled(item, k, p)'
    <3>1. PICK L : L = Later(k, p)
      OBVIOUS
    <3>2. PICK M : M = Later(k, p)'
      OBVIOUS
    <3>3. L \subseteq M
      BY <1>5, <3>1, <3>2
    <3>4. SettledBy(item, M)'
      BY <1>1, <2>1, <3>1, <3>3, SettledMore DEF Settled
    <3> QED BY <3>2, <3>4 DEF Settled, SettledBy
  <2>2. \A i \in DOMAIN list.items : Followed => Settled(list.items[i], 0, 0)'
    <3> TAKE i \in DOMAIN list.items
    <3>1. PICK item : item = list.items[i]
      OBVIOUS
    <3>2. Followed => Settled(item, 0, 0)'
      BY <2>1, <3>1 DEF IInv, ItemsSettled
    <3>3. item = list'.items[i]
      BY <1>1, <3>1
    <3> QED BY <3>2, <3>3
  <2>3. \A i \in DOMAIN currentItems : Settled(currentItems[i], 0, 0)'
    <3> TAKE i \in DOMAIN currentItems
    <3>1. PICK item : item = currentItems[i]
      OBVIOUS
    <3>2. Settled(item, 0, 0)'
      BY <2>1, <3>1 DEF IInv, ItemsSettled
    <3>3. item = currentItems'[i]
      BY <1>1, <3>1
    <3> QED BY <3>2, <3>3
  <2>4. \A k \in DOMAIN actionQueue : \A item \in RowsOf(actionQueue[k]) : Settled(item, k, 0)'
    BY <2>1 DEF IInv, ItemsSettled
  <2>5. \A p \in DOMAIN down' : \A item \in RowsOf(down'[p]) : Settled(item, Len(actionQueue), p)'
    <3> TAKE p \in DOMAIN down'
    <3>1. CASE p \in DOMAIN down
      <4>1. \A item \in RowsOf(down[p]) : Settled(item, Len(actionQueue), p)
        BY <3>1 DEF IInv, ItemsSettled
      <4> QED BY <1>4, <2>1, <3>1, <4>1
    <3>2. CASE p = Len(down) + 1
      <4>1. \A item \in RowsOf(m) : item.v = db'[item.id]
        BY <1>1
      <4> QED BY <1>4, <3>2, <4>1 DEF Settled, SettledBy
    <3> QED BY <1>4, <3>1, <3>2
  <2> QED BY <1>1, <1>6, <1>7, <2>2, <2>3, <2>4, <2>5 DEF ItemsSettled, RowsOf
<1>18. ActiveTold'
  <2>1. /\ \A i \in Told' : i + 1 \in Told /\ i \in Nat /\ up'[i] = up[i + 1]
        /\ \A i \in Told : i - 1 \in Told' /\ up'[i - 1] = up[i] /\ i \in Nat
    BY <1>3 DEF Told
  <2> SUFFICES ASSUME Regular, Tracking, list.active # 0
               PROVE  \/ \E i \in Told' : up'[i].id = list.active /\ \A j \in Told' : j <= i
                      \/ Told' = {} /\ (regionActive = list.active \/ db[list.active] = 0)
    BY <1>1, <1>6, <1>7 DEF ActiveTold
  <2>2. CASE Told = {} /\ (regionActive = list.active \/ db[list.active] = 0)
    BY <2>1, <2>2
  <2>3. ASSUME NEW i \in Told, up[i].id = list.active, \A j \in Told : j <= i
        PROVE  \E n \in Told' : up'[n].id = list.active /\ \A j \in Told' : j <= n
    <3>1. i - 1 \in Told' /\ up'[i - 1].id = list.active /\ i \in Nat
      BY <2>1, <2>3
    <3>2. ASSUME NEW j \in Told' PROVE j <= i - 1
      <4>1. j + 1 <= i /\ j \in Nat
        BY <2>1, <2>3
      <4> QED BY <3>1, <4>1
    <3> QED BY <3>1, <3>2
  <2> QED BY <2>2, <2>3 DEF IInv, ActiveTold
<1> QED BY <1>8, <1>9, <1>10, <1>12, <1>13, <1>14, <1>15, <1>16, <1>17, <1>18 DEF IInv

\* A batch is answered.
LEMMA AnswersListStep ==
  ASSUME IInv, RegionAnswers, Head(up).method = "list"
  PROVE  IInv'
<1>1. PICK r : r = Head(up)
  OBVIOUS
<1>2. /\ up # <<>> /\ up \in Seq(Request) /\ down \in Seq(Message) /\ Typed /\ OneBatch
      /\ UNCHANGED <<connection, list, loading, autoReload, actionQueue, history>>
  BY DEF RegionAnswers, IInv, Typed
<1>3. /\ connected' = connected /\ opening' = opening
      /\ loaded' = loaded /\ isLoading' = isLoading /\ currentItems' = currentItems
      /\ list' = list /\ actionQueue' = actionQueue
      /\ lost' = lost /\ early' = early
  BY <1>2 DEF connection, loading, history
<1>4. r \in Request /\ r.method = "list" /\ r.kind \in {"load", "reload"} /\ r.start \in Id \union {0}
  BY <1>1, <1>2, TailFacts, RequestFacts
<1>5. PICK m : /\ Reply(m) /\ UNCHANGED region
               /\ \/ \E page \in Pages(r.start) : m = [type |-> "list", kind |-> r.kind, page |-> page]
                  \/ m = [type |-> "refused", kind |-> r.kind]
  BY Zenon, <1>1, <1>4 DEF RegionAnswers
<1>6. db' = db /\ changes' = changes /\ up' = Tail(up) /\ down' = Append(down, m)
  BY <1>5 DEF region, Reply
<1>7. Requests = {r} /\ Requests' = {} /\ OneAsked' /\ Batches = {}
  BY Zenon, <1>1, <1>2, <1>4, <1>6, UpTake DEF OneBatch
<1>8. (Regular' <=> Regular) /\ (Tracking' <=> Tracking)
  BY <1>3 DEF Regular, Tracking
<1>9. Later(0, 0) \subseteq Later(0, 0)' /\ m \in Later(0, 0)'
  <2>1. Len(down) \in Nat
    BY <1>2
  <2>2. 0 <= Len(down) /\ 0 \in Nat
    BY <2>1
  <2> QED BY <1>2, <1>3, <1>6, <2>2, LaterSend
<1>10. \A id : OnItsWay(id) => OnItsWay(id)'
  BY <1>6, <1>9 DEF OnItsWay, ToBeAnnounced, Creations, Brings, Ids
<1>11. Ids(list.items)' = Ids(list.items) /\ Ids(currentItems)' = Ids(currentItems) /\ Present' = Present
  BY <1>3, <1>6 DEF Ids, Present
<1>12. r.kind \in Kinds
  BY <1>7 DEF Kinds
<1>13. CASE m = [type |-> "refused", kind |-> r.kind]
  <2>1. m \in ListReply /\ m.type = "refused" /\ RowsOf(m) = {}
    BY <1>4, <1>13, RowsOfFacts DEF ListReply
  <2>2. Batches' = {} /\ OneSent'
    BY <1>2, <1>6, <1>7, <2>1, DownSend DEF OneBatch
  <2>3. Kinds' = {}
    BY <1>7, <2>2 DEF Kinds
  <2>4. OneBatch'
    BY <1>2, <1>3, <1>7, <2>2, <2>3 DEF OneBatch
  <2>5. InOrder'
    BY <1>3, <1>7, <2>2 DEF IInv, InOrder, Ascending, Distinct
  <2>6. NoneMissed'
    BY <1>3, <1>8, <1>10, <1>11, <2>3 DEF IInv, NoneMissed
  <2> QED BY <1>1, <1>2, <1>4, <1>5, <2>1, <2>4, <2>5, <2>6, ListReplyStep
<1>14. ASSUME NEW page \in Pages(r.start), m = [type |-> "list", kind |-> r.kind, page |-> page]
       PROVE  IInv'
  <2>1. m.type = "list" /\ m.kind = r.kind /\ m.page = page
    BY <1>14
  <2>2. /\ page \in Seq(Item) /\ Ascending(page) /\ Len(page) <= batchSize
        /\ \A i \in DOMAIN page : /\ page[i].id \in Present /\ page[i].id > r.start
                                  /\ page[i] = Row(page[i].id)
        /\ \A id \in Present : id > r.start =>
             id \in Ids(page) \/ (Len(page) = batchSize /\ \A i \in DOMAIN page : page[i].id < id)
    BY Zenon, <1>2, <1>4, <1>14, PageFacts, ManagerAssumption DEF ManagerAssumption
  <2>3. m \in ListReply
    BY <1>4, <1>14, <2>2 DEF ListReply
  <2>4. \A item \in RowsOf(m) : item.id \in Present /\ item.v = db[item.id]
    <3>1. RowsOf(m) = {page[i] : i \in DOMAIN page}
      BY <2>1, RowsOfFacts
    <3>2. \A id : Row(id).v = db[id]
      BY DEF Row
    <3> QED BY <2>2, <3>1, <3>2
  <2>5. Batches' = {m} /\ OneSent'
    BY <1>2, <1>6, <1>7, <2>1, DownSend
  <2>6. Kinds' = Kinds /\ Kinds = {r.kind}
    BY <1>7, <2>1, <2>5 DEF Kinds
  <2>7. OneBatch'
    BY <1>2, <1>3, <1>7, <2>5, <2>6 DEF OneBatch
  <2>8. InOrder'
    <3>1. Counts(m.kind)' => Counts(r.kind)
      BY <1>3, <2>1 DEF Counts
    <3>2. PICK items : items = Array(r.kind)
      OBVIOUS
    <3>3. Array(m.kind)' = items
      BY <1>3, <2>1, <3>2 DEF Array
    <3>4. Counts(r.kind) => UpTo(items, r.start)
      BY <1>7, <3>2 DEF IInv, InOrder
    <3>5. \A j \in DOMAIN items : items[j].id \in Nat
      <4>1. items \in Seq(Item)
        BY <1>2, <3>2 DEF Array, Typed
      <4>2. \A j \in DOMAIN items : items[j] \in Item
        BY <4>1
      <4> QED BY <1>2, <4>2, IdFacts DEF Item
    <3>6. \A i \in DOMAIN page : page[i].id \in Nat
      BY <1>2, <2>2, IdFacts DEF Present
    <3>7. r.start \in Nat
      BY <1>2, <1>4, IdFacts
    <3>8. Counts(r.kind) => Follows(page, items)
      <4> SUFFICES ASSUME UpTo(items, r.start) PROVE Follows(page, items)
        BY <3>4
      <4> SUFFICES ASSUME NEW i \in DOMAIN page, NEW j \in DOMAIN items
                   PROVE  items[j].id < page[i].id
        BY DEF Follows
      <4>1. items[j].id <= r.start /\ page[i].id > r.start
        BY <2>2 DEF UpTo
      <4> QED BY <3>5, <3>6, <3>7, <4>1
    <3>9. Counts(m.kind)' => Follows(m.page, Array(m.kind))'
      BY <2>1, <3>1, <3>3, <3>8 DEF Follows
    <3>10. /\ Ascending(currentItems)'
           /\ ("get" \notin early => Distinct(list.items))'
           /\ ("get" \notin early /\ ~loaded => Ascending(list.items))'
      BY <1>3 DEF IInv, InOrder, Ascending, Distinct
    <3>11. Ascending(m.page)' /\ (Len(m.page) <= batchSize)'
      BY <2>1, <2>2 DEF Ascending
    <3> QED BY <1>7, <2>5, <3>9, <3>10, <3>11 DEF InOrder, Ascending
  <2>9. NoneMissed'
    <3>1. ASSUME NEW id \in Present, ToCome(id) PROVE OnItsWay(id)' \/ ToCome(id)'
      <4>1. r.start < id
        BY <1>7, <3>1 DEF ToCome
      <4>2. id > r.start
        BY <4>1, <1>2, <1>4, IdFacts DEF Present
      <4>3. CASE id \in Ids(page)
        <5>1. Brings(m, id)
          BY <2>1, <4>3 DEF Brings
        <5> QED BY <1>9, <5>1 DEF OnItsWay, Brings, Ids
      <4>4. CASE Len(page) = batchSize /\ \A i \in DOMAIN page : page[i].id < id
        BY <2>1, <2>5, <4>4 DEF ToCome
      <4> QED BY <2>2, <4>2, <4>3, <4>4
    <3> QED BY <1>3, <1>8, <1>10, <1>11, <2>6, <3>1 DEF IInv, NoneMissed
  <2>10. Kinds' # {}
    BY <1>12, <2>6
  <2> QED BY <1>1, <1>2, <1>4, <1>5, <2>3, <2>4, <2>7, <2>8, <2>9, <2>10, ListReplyStep
<1> QED BY <1>5, <1>13, <1>14

\* The region answers.
LEMMA RegionAnswersStep ==
  ASSUME IInv, RegionAnswers
  PROVE  IInv'
BY AnswersItemStep, AnswersListStep

\* The notification that announces a change.
Announces(m, c) ==
  /\ m \in Notification
  /\ \/ c.kind = "delete" /\ m.kind = "delete" /\ m.id = c.id
     \/ c.kind # "delete" /\ c.id \in Present /\ m.kind = c.kind /\ m.item = Row(c.id)

\* A change is announced, unless there is nothing to announce or no connection.
LEMMA NotifiesCases ==
  ASSUME Typed, RegionNotifies, NEW c, c = Head(changes)
  PROVE  \/ down' = down /\ (connected => c.kind # "delete" /\ c.id \notin Present)
         \/ connected /\ \E m : Announces(m, c) /\ down' = Append(down, m)
<1>1. c \in Change /\ changes # <<>> /\ connected \in BOOLEAN
  <2>1. changes \in Seq(Change) /\ changes # <<>>
    BY DEF Typed, RegionNotifies
  <2> QED BY <2>1, TailFacts DEF Typed
<1>2. c.kind \in {"create", "update", "delete"} /\ c.id \in Id
  BY <1>1 DEF Change
<1>3. CASE c.kind = "delete" /\ Notify([type |-> "notify", kind |-> "delete", id |-> c.id])
  <2>1. PICK m : m = [type |-> "notify", kind |-> "delete", id |-> c.id]
    BY Zenon
  <2>2. Announces(m, c)
    BY <1>2, <1>3, <2>1 DEF Announces, Notification
  <2> QED BY <1>1, <1>3, <2>1, <2>2 DEF Notify
<1>4. CASE /\ c.kind # "delete" /\ c.id \in Present
           /\ Notify([type |-> "notify", kind |-> c.kind, item |-> Row(c.id)])
  <2>1. PICK m : m = [type |-> "notify", kind |-> c.kind, item |-> Row(c.id)]
    BY Zenon
  <2>2. Row(c.id) \in Item
    BY <1>2, <1>4 DEF Row, Item, Present, Typed
  <2>3. m \in Notification
    BY <1>2, <1>4, <2>1, <2>2 DEF Notification
  <2>4. Announces(m, c)
    BY <1>4, <2>1, <2>3 DEF Announces
  <2> QED BY <1>1, <1>4, <2>1, <2>4 DEF Notify
<1>5. CASE c.kind # "delete" /\ c.id \notin Present /\ UNCHANGED down
  BY <1>5
<1> QED BY <1>3, <1>4, <1>5 DEF RegionNotifies

\* The region announces a change.
LEMMA RegionNotifiesStep ==
  ASSUME IInv, RegionNotifies
  PROVE  IInv'
<1>1. /\ connected' = connected /\ opening' = opening /\ up' = up
      /\ loaded' = loaded /\ isLoading' = isLoading /\ currentItems' = currentItems
      /\ list' = list /\ autoReload' = autoReload /\ actionQueue' = actionQueue
      /\ lost' = lost /\ early' = early
      /\ db' = db /\ regionActive' = regionActive /\ changed' = changed
  BY DEF connection, loading, history, RegionNotifies
<1>2. /\ up \in Seq(Request) /\ down \in Seq(Message) /\ changes \in Seq(Change) /\ Typed
      /\ db \in Seq(Nat) /\ changes # <<>> /\ changes' = Tail(changes)
  BY DEF IInv, Typed, RegionNotifies
<1>3. PICK c : c = Head(changes)
  OBVIOUS
<1>4. /\ c = changes[1] /\ 1 \in DOMAIN changes /\ changes' \in Seq(Change) /\ c \in Change
      /\ \A i \in DOMAIN changes' : i + 1 \in DOMAIN changes /\ changes'[i] = changes[i + 1] /\ i \in Nat /\ i > 0
      /\ \A i \in DOMAIN changes :
           i = 1 \/ (i - 1 \in DOMAIN changes' /\ changes'[i - 1] = changes[i] /\ i \in Nat)
  BY <1>2, <1>3, TailFacts
<1>5. /\ c.id \in DOMAIN db /\ c.kind \in {"create", "update", "delete"}
      /\ c.kind = "delete" => db[c.id] = 0
  BY <1>4 DEF IInv, DeletionsReal, Change
<1>6. \/ down' = down /\ (connected => c.kind # "delete" /\ c.id \notin Present)
      \/ connected /\ \E m : Announces(m, c) /\ down' = Append(down, m)
  BY <1>2, <1>3, NotifiesCases
<1>7. ASSUME NEW m, Announces(m, c)
      PROVE  /\ m \in Message /\ m.type = "notify" /\ m.kind \in {"create", "update", "delete"}
             /\ \A item \in RowsOf(m) : item = Row(c.id) /\ item.id = c.id /\ item.v = db[c.id] /\ db[c.id] > 0
             /\ m.kind = "create" => c.kind = "create" /\ m.item.id = c.id
             /\ m.kind = "delete" => c.kind = "delete" /\ m.id = c.id /\ db[c.id] = 0
  <2>1. m.type = "notify" /\ m.kind \in {"create", "update", "delete"} /\ m \in Message
    BY <1>7, NotificationFacts DEF Announces, Message
  <2>2. Row(c.id).id = c.id /\ Row(c.id).v = db[c.id]
    BY DEF Row
  <2>3. CASE m.kind = "delete"
    <3>1. RowsOf(m) = {} /\ c.kind = "delete" /\ m.id = c.id
      BY <1>7, <2>1, <2>3, RowsOfFacts DEF Announces
    <3> QED BY <1>5, <2>1, <2>3, <3>1
  <2>4. CASE m.kind # "delete"
    <3>1. m.item = Row(c.id) /\ c.id \in Present /\ m.kind = c.kind
      BY <1>7, <2>4 DEF Announces
    <3>2. RowsOf(m) = {Row(c.id)}
      BY <2>1, <2>4, <3>1, RowsOfFacts
    <3> QED BY <2>1, <2>2, <2>4, <3>1, <3>2 DEF Present
  <2> QED BY <2>3, <2>4
<1>8. /\ \A p \in DOMAIN down : p \in DOMAIN down' /\ down'[p] = down[p] /\ p \in Nat /\ p < Len(down) + 1
      /\ \A p \in DOMAIN down' : \/ p \in DOMAIN down
                                 \/ p = Len(down) + 1 /\ \E m : Announces(m, c) /\ down'[p] = m
  <2>1. CASE down' = down
    BY <1>2, <2>1
  <2>2. ASSUME NEW m, Announces(m, c), down' = Append(down, m)
        PROVE  /\ \A p \in DOMAIN down : p \in DOMAIN down' /\ down'[p] = down[p] /\ p \in Nat /\ p < Len(down) + 1
               /\ \A p \in DOMAIN down' : p \in DOMAIN down \/ (p = Len(down) + 1 /\ down'[p] = m)
    BY <1>2, <2>2, DownSend
  <2> QED BY <1>6, <2>1, <2>2
<1>9. SameBatches
  <2>1. CASE down' = down
    BY <1>1, <2>1, BatchesKept DEF IInv
  <2>2. ASSUME NEW m, Announces(m, c), down' = Append(down, m) PROVE SameBatches
    <3>1. m.type # "list"
      BY <1>7, <2>2
    <3>2. Batches' = Batches /\ OneSent'
      BY <1>2, <2>2, <3>1, DownSend DEF IInv, OneBatch
    <3>3. Requests' = Requests /\ OneAsked'
      BY <1>1 DEF IInv, OneBatch, Requests, OneAsked, Asked
    <3> QED BY <3>2, <3>3 DEF SameBatches
  <2> QED BY <1>6, <2>1, <2>2
<1>10. Typed'
  <2>1. down' \in Seq(Message)
    <3>1. ASSUME NEW m, Announces(m, c), down' = Append(down, m) PROVE down' \in Seq(Message)
      <4>1. m \in Message
        BY <1>7, <3>1
      <4> QED BY <1>2, <3>1, <4>1
    <3> QED BY <1>2, <1>6, <3>1
  <2> QED BY <1>1, <1>2, <1>4, <2>1 DEF Typed
<1>11. OneBatch'
  BY <1>1, <1>9, OneBatchKept DEF IInv
<1>12. Cut'
  BY <1>1, <1>6 DEF IInv, Cut
<1>13. NotLoaded'
  <2>1. ~loaded => \A p \in DOMAIN down' : down'[p].type \in {"list", "refused", "get", "error", "notify"}
    BY <1>7, <1>8 DEF IInv, NotLoaded
  <2> QED BY <1>1, <2>1 DEF IInv, NotLoaded
<1>14. InOrder'
  <2>1. SameIds(list'.items, list.items)
    BY <1>1 DEF SameIds
  <2> QED BY <1>1, <1>9, <2>1, InOrderKept DEF IInv
<1>15. CreationsInOrder'
  <2> DEFINE n == Len(down) + 1
  <2>1. \A i \in Creations' : i + 1 \in Creations /\ changes'[i] = changes[i + 1] /\ i \in Nat /\ i > 0
    BY <1>4 DEF Creations
  <2>2. \A p \in Created' : \/ p \in Created /\ down'[p] = down[p] /\ p \in Nat /\ p < n
                            \/ p = n /\ 1 \in Creations /\ down'[p].item.id = changes[1].id
    <3> TAKE p \in Created'
    <3>1. CASE p \in DOMAIN down
      BY <1>8, <3>1 DEF Created
    <3>2. ASSUME NEW m, Announces(m, c), down'[p] = m, p = n
          PROVE  p = n /\ 1 \in Creations /\ down'[p].item.id = changes[1].id
      <4>1. m.kind = "create"
        BY <3>2 DEF Created
      <4> QED BY <1>4, <1>7, <3>2, <4>1 DEF Creations
    <3> QED BY <1>8, <3>1, <3>2 DEF Created
  <2>3. n \in Nat
    BY <1>2
  <2> HIDE DEF n
  <2>4. /\ \A i \in Creations : changes[i].id \in DOMAIN db
        /\ \A i, j \in Creations : i < j => changes[i].id < changes[j].id
        /\ \A p, q \in Created : p < q => down[p].item.id < down[q].item.id
        /\ \A p \in Created, i \in Creations : down[p].item.id < changes[i].id
        /\ "get" \notin early /\ ~loaded /\ ~isLoading =>
             \A k \in DOMAIN list.items :
               /\ \A p \in Created : list.items[k].id < down[p].item.id
               /\ \A i \in Creations : list.items[k].id < changes[i].id
    BY DEF IInv, CreationsInOrder
  <2>5. \A i \in Creations' : changes'[i].id \in DOMAIN db'
    BY <1>1, <2>1, <2>4
  <2>6. ASSUME NEW i \in Creations', NEW j \in Creations', i < j
        PROVE  changes'[i].id < changes'[j].id
    BY <2>1, <2>4, <2>6
  <2>7. ASSUME NEW p \in Created', NEW q \in Created', p < q
        PROVE  down'[p].item.id < down'[q].item.id
    <3>1. p \in Created /\ down'[p] = down[p]
      BY <2>2, <2>3, <2>7
    <3> QED BY <2>2, <2>4, <2>7, <3>1
  <2>8. ASSUME NEW p \in Created', NEW i \in Creations'
        PROVE  down'[p].item.id < changes'[i].id
    <3>1. 1 < i + 1 /\ i + 1 \in Creations /\ changes'[i] = changes[i + 1]
      BY <2>1
    <3> QED BY <2>2, <2>4, <3>1
  <2>9. "get" \notin early /\ ~loaded /\ ~isLoading =>
             \A k \in DOMAIN list.items :
               /\ \A p \in Created' : list.items[k].id < down'[p].item.id
               /\ \A i \in Creations' : list.items[k].id < changes'[i].id
    BY <2>1, <2>2, <2>4
  <2> QED BY <1>1, <2>5, <2>6, <2>7, <2>8, <2>9 DEF CreationsInOrder
<1>16. ActiveListed'
  BY <1>1 DEF IInv, ActiveListed, Ids
<1>17. RowsReal'
  <2>1. \A item : Real(item) => Real(item)'
    BY <1>1, RealKept
  <2>2. \A p \in DOMAIN down' : \A item \in RowsOf(down'[p]) : Real(item)'
    <3> TAKE p \in DOMAIN down'
    <3>1. CASE p \in DOMAIN down
      BY <1>8, <2>1, <3>1 DEF IInv, RowsReal
    <3>2. ASSUME NEW m, Announces(m, c), down'[p] = m
          PROVE  \A item \in RowsOf(down'[p]) : Real(item)'
      BY <1>1, <1>5, <1>7, <3>2 DEF Real
    <3> QED BY <1>8, <3>1, <3>2
  <2>3. \A p : RowsOf(down[p])' = RowsOf(down'[p])
    BY DEF RowsOf
  <2>4. \A k : RowsOf(actionQueue[k])' = RowsOf(actionQueue[k])
    BY <1>1 DEF RowsOf
  <2> QED BY <1>1, <2>1, <2>2, <2>3, <2>4 DEF IInv, RowsReal
<1>18. DeletionsReal'
  <2>1. ASSUME NEW p \in DOMAIN down',
               down'[p].type = "delete" \/ (down'[p].type = "notify" /\ down'[p].kind = "delete")
        PROVE  down'[p].id \in DOMAIN db /\ db[down'[p].id] = 0
    <3>1. CASE p \in DOMAIN down
      BY <1>8, <2>1, <3>1 DEF IInv, DeletionsReal
    <3>2. ASSUME NEW m, Announces(m, c), down'[p] = m
          PROVE  down'[p].id \in DOMAIN db /\ db[down'[p].id] = 0
      BY <1>5, <1>7, <2>1, <3>2
    <3> QED BY <1>8, <3>1, <3>2
  <2>2. \A i \in DOMAIN changes' :
          changes'[i].id \in DOMAIN db /\ (changes'[i].kind = "delete" => db[changes'[i].id] = 0)
    BY <1>4 DEF IInv, DeletionsReal
  <2> QED BY <1>1, <2>1, <2>2 DEF IInv, DeletionsReal
<1>19. Regular' <=> Regular
  BY <1>1 DEF Regular
<1>20. /\ \A id : ToCome(id)' <=> ToCome(id)
       /\ Kinds' = Kinds /\ Present' = Present
  BY <1>1, <1>9, ToComeKept
<1>21. Under'
  BY <1>1, <1>8, <1>19, <1>20 DEF IInv, Under
<1>22. (Tracking' <=> Tracking) /\ (Followed' <=> Followed)
  BY <1>1 DEF Tracking, Followed
<1>23. Regular /\ isLoading => connected
  BY DEF IInv, Under
<1>24. \A k : \A p \in Nat : Later(k, p) \subseteq Later(k, p)'
  <2> TAKE k
  <2> TAKE p \in Nat
  <2>1. CASE down' = down
    BY <1>1, <2>1 DEF Later
  <2>2. ASSUME NEW m, down' = Append(down, m) PROVE Later(k, p) \subseteq Later(k, p)'
    BY <1>1, <1>2, <2>2, LaterSend
  <2> QED BY <1>6, <2>1, <2>2
<1>25. ASSUME connected, c.kind = "delete" \/ c.id \in Present
       PROVE  \E m : /\ Announces(m, c)
                     /\ \A k : \A p \in Nat : p <= Len(down) => m \in Later(k, p)'
  BY <1>1, <1>2, <1>6, <1>25, LaterSend
<1>26. ItemsSettled'
  <2> SUFFICES ASSUME Regular PROVE ItemsSettled'
    BY <1>19 DEF ItemsSettled
  <2>1. ASSUME NEW item, NEW k, NEW p \in Nat, p <= Len(down), connected,
               Real(item), Settled(item, k, p)
        PROVE  Settled(item, k, p)'
    <3>1. PICK id : id = item.id
      OBVIOUS
    <3>2. id \in DOMAIN db /\ (db[id] = 0 \/ id \in Present)
      BY <1>2, <2>1, <3>1 DEF Real, Present
    <3>3. CASE item.v = db[id]
      BY <1>1, <3>1, <3>3 DEF Settled, SettledBy
    <3>4. CASE \E m \in Later(k, p) : Corrects(m, id)
      <4>1. \A m : Corrects(m, id) => Corrects(m, id)'
        BY <1>1 DEF Corrects, Row
      <4> QED BY <1>24, <3>1, <3>4, <4>1 DEF Settled, SettledBy
    <3>5. ASSUME NEW i \in DOMAIN changes, changes[i].id = id,
                 changes[i].kind = "delete" <=> db[id] = 0
          PROVE  Settled(item, k, p)'
      <4>1. CASE i = 1
        <5>1. c.id = id /\ (c.kind = "delete" <=> db[id] = 0)
          BY <1>4, <3>5, <4>1
        <5>2. PICK m : Announces(m, c) /\ m \in Later(k, p)'
          BY <1>25, <2>1, <3>2, <5>1
        <5>3. m.type = "notify"
          BY <1>7, <5>2
        <5>4. Corrects(m, id)
          BY <3>2, <5>1, <5>2, <5>3 DEF Announces, Corrects, Present
        <5>5. Corrects(m, id)'
          BY <1>1, <5>4 DEF Corrects, Row
        <5> QED BY <3>1, <5>2, <5>5 DEF Settled, SettledBy
      <4>2. CASE i # 1
        <5>1. i - 1 \in DOMAIN changes' /\ changes'[i - 1] = changes[i]
          BY <1>4, <4>2
        <5>2. Announced(id)'
          BY <1>1, <3>5, <5>1 DEF Announced
        <5> QED BY <3>1, <5>2 DEF Settled, SettledBy
      <4> QED BY <4>1, <4>2
    <3> QED BY <2>1, <3>1, <3>3, <3>4, <3>5 DEF Settled, SettledBy, Announced
  <2>2. 0 \in Nat /\ 0 <= Len(down)
    BY <1>2
  <2>3. \A i \in DOMAIN list.items : Followed => Settled(list.items[i], 0, 0)'
    <3> TAKE i \in DOMAIN list.items
    <3>1. PICK item : item = list.items[i]
      OBVIOUS
    <3>2. Followed => connected
      BY <1>23 DEF Followed, Tracking
    <3>3. Followed => Settled(item, 0, 0)'
      BY <2>1, <2>2, <3>1, <3>2 DEF IInv, ItemsSettled, RowsReal
    <3>4. item = list'.items[i]
      BY <1>1, <3>1
    <3> QED BY <3>3, <3>4
  <2>4. \A i \in DOMAIN currentItems : Settled(currentItems[i], 0, 0)'
    <3> TAKE i \in DOMAIN currentItems
    <3>1. PICK item : item = currentItems[i]
      OBVIOUS
    <3>2. isLoading
      BY DEF IInv, OneBatch
    <3>3. Settled(item, 0, 0)'
      BY <1>23, <2>1, <2>2, <3>1, <3>2 DEF IInv, ItemsSettled, RowsReal
    <3>4. item = currentItems'[i]
      BY <1>1, <3>1
    <3> QED BY <3>3, <3>4
  <2>5. \A k \in DOMAIN actionQueue : \A item \in RowsOf(actionQueue[k]) : Settled(item, k, 0)'
    <3> TAKE k \in DOMAIN actionQueue
    <3>1. isLoading
      BY DEF IInv, OneBatch
    <3> QED BY <1>23, <2>1, <2>2, <3>1 DEF IInv, ItemsSettled, RowsReal
  <2>6. \A p \in DOMAIN down' : \A item \in RowsOf(down'[p]) : Settled(item, Len(actionQueue), p)'
    <3> TAKE p \in DOMAIN down'
    <3>1. CASE p \in DOMAIN down
      <4>1. connected
        BY <3>1 DEF IInv, Cut
      <4>2. p \in Nat /\ p <= Len(down) /\ down'[p] = down[p]
        BY <1>2, <1>8, <3>1
      <4>3. \A item \in RowsOf(down[p]) : Real(item) /\ Settled(item, Len(actionQueue), p)
        BY <3>1 DEF IInv, ItemsSettled, RowsReal
      <4>4. PICK n : n = Len(actionQueue)
        BY Zenon
      <4>5. \A item \in RowsOf(down[p]) : Settled(item, n, p)'
        BY <2>1, <4>1, <4>2, <4>3, <4>4
      <4>6. n = Len(actionQueue')
        BY <1>1, <4>4
      <4> QED BY <4>2, <4>5, <4>6
    <3>2. ASSUME NEW m, Announces(m, c), down'[p] = m
          PROVE  \A item \in RowsOf(down'[p]) : Settled(item, Len(actionQueue), p)'
      <4>1. \A item \in RowsOf(m) : item.v = db'[item.id]
        BY <1>1, <1>7, <3>2
      <4> QED BY <3>2, <4>1 DEF Settled, SettledBy
    <3> QED BY <1>8, <3>1, <3>2
  <2> QED BY <1>1, <1>19, <1>22, <2>3, <2>4, <2>5, <2>6 DEF ItemsSettled, RowsOf
<1>27. NoneMissed'
  <2>1. ASSUME connected, NEW id \in Present, OnItsWay(id) PROVE OnItsWay(id)'
    <3>1. CASE \E m \in Later(0, 0) : Brings(m, id)
      BY <1>24, <3>1 DEF OnItsWay, Brings, Ids
    <3>2. ASSUME NEW i \in Creations, changes[i].id = id PROVE OnItsWay(id)'
      <4>1. CASE i = 1
        <5>1. c.id = id /\ c.kind = "create"
          BY <1>4, <3>2, <4>1 DEF Creations
        <5>2. 0 \in Nat /\ 0 <= Len(down)
          BY <1>2
        <5>3. PICK m : Announces(m, c) /\ m \in Later(0, 0)'
          BY <1>25, <2>1, <5>1, <5>2
        <5>4. m.type = "notify" /\ m.kind = "create" /\ m.item.id = id
          BY <1>7, <5>1, <5>3 DEF Announces, Row
        <5> QED BY <5>3, <5>4 DEF OnItsWay, Brings
      <4>2. CASE i # 1
        <5>1. i - 1 \in Creations' /\ changes'[i - 1].id = id
          BY <1>4, <3>2, <4>2 DEF Creations
        <5> QED BY <5>1 DEF OnItsWay, ToBeAnnounced
      <4> QED BY <4>1, <4>2
    <3> QED BY <2>1, <3>1, <3>2 DEF OnItsWay, ToBeAnnounced
  <2>2. Ids(currentItems)' = Ids(currentItems) /\ Ids(list.items)' = Ids(list.items)
    BY <1>1 DEF Ids
  <2>3. Tracking => connected
    BY DEF Tracking
  <2> QED BY <1>1, <1>19, <1>20, <1>22, <1>23, <2>1, <2>2, <2>3 DEF IInv, NoneMissed
<1>28. ActiveTold'
  BY <1>1, <1>19, <1>22 DEF IInv, ActiveTold, Told
<1> QED BY <1>10, <1>11, <1>12, <1>13, <1>14, <1>15, <1>16, <1>17, <1>18, <1>21, <1>26, <1>27, <1>28 DEF IInv

-----------------------------------------------------------------------------
(* Messages.                                                                 *)

\* What a message that is taken leaves of the channel.
LEMMA TakenFacts ==
  ASSUME IInv, down # <<>>, down' = Tail(down), UNCHANGED <<region, connection>>
  PROVE  /\ Cut' /\ Present' = Present /\ db' = db /\ changes' = changes
         /\ connected' = connected /\ opening' = opening /\ connected
         /\ regionActive' = regionActive /\ changed' = changed
         /\ Head(down) \in Message /\ down' \in Seq(Message)
         /\ \A p \in DOMAIN down' : p + 1 \in DOMAIN down /\ down'[p] = down[p + 1] /\ p \in Nat
         /\ \A item : Real(item) => Real(item)'
         /\ \A p \in DOMAIN down' : \A item \in RowsOf(down'[p]) : Real(item)'
         /\ \A item \in RowsOf(Head(down)) : Real(item)
         /\ \A p \in DOMAIN down' :
              down'[p].type = "delete" \/ (down'[p].type = "notify" /\ down'[p].kind = "delete") =>
                down'[p].id \in DOMAIN db' /\ db'[down'[p].id] = 0
         /\ Head(down).type = "notify" /\ Head(down).kind = "delete" =>
              Head(down).id \in DOMAIN db /\ db[Head(down).id] = 0
         /\ ~loaded =>
              \A p \in DOMAIN down' : down'[p].type \in {"list", "refused", "get", "error", "notify"}
<1>1. /\ db' = db /\ changes' = changes /\ connected' = connected /\ opening' = opening
      /\ regionActive' = regionActive /\ changed' = changed /\ Present' = Present
  BY DEF region, connection, Present
<1>2. down \in Seq(Message) /\ connected
  BY DEF IInv, Typed, Cut
<1>3. PICK m : m = Head(down)
  OBVIOUS
<1>4. /\ m = down[1] /\ m \in Message /\ 1 \in DOMAIN down /\ down' \in Seq(Message)
      /\ \A i \in DOMAIN down' : i + 1 \in DOMAIN down /\ down'[i] = down[i + 1] /\ i \in Nat
  BY <1>2, <1>3, DownTake
<1>5. \A item : Real(item) => Real(item)'
  BY <1>1, RealKept
<1>6. \A p \in DOMAIN down : \A item \in RowsOf(down[p]) : Real(item)
  BY DEF IInv, RowsReal
<1>7. \A p \in DOMAIN down :
        down[p].type = "delete" \/ (down[p].type = "notify" /\ down[p].kind = "delete") =>
          down[p].id \in DOMAIN db /\ db[down[p].id] = 0
  BY DEF IInv, DeletionsReal
<1>8. Cut'
  BY <1>1, <1>2 DEF Cut
<1>9. ~loaded => \A p \in DOMAIN down : down[p].type \in {"list", "refused", "get", "error", "notify"}
  BY DEF IInv, NotLoaded
<1> QED BY <1>1, <1>2, <1>3, <1>4, <1>5, <1>6, <1>7, <1>8, <1>9

\* The creations on their way, once the message is taken.
LEMMA TakenCreations ==
  ASSUME IInv, down # <<>>, down' = Tail(down), UNCHANGED <<region, connection>>,
         "get" \notin early' /\ ~loaded' /\ ~isLoading' =>
           /\ "get" \notin early /\ ~loaded /\ ~isLoading
           /\ \A k \in DOMAIN list'.items :
                \E j \in DOMAIN list.items : list'.items[k].id = list.items[j].id
  PROVE  CreationsInOrder'
<1>1. /\ db' = db /\ changes' = changes /\ Typed /\ CreationsInOrder
      /\ \A p \in DOMAIN down' : p + 1 \in DOMAIN down /\ down'[p] = down[p + 1] /\ p \in Nat
  BY TakenFacts DEF IInv
<1>2. changes \in Seq(Change)
  BY <1>1 DEF Typed
<1>3. \A i \in Creations' : i + 0 \in Creations /\ changes'[i] = changes[i + 0] /\ i \in Nat
  <2>1. \A i \in DOMAIN changes : i \in Nat /\ i + 0 = i
    BY <1>2
  <2> QED BY <1>1, <2>1 DEF Creations
<1>4. \A p \in Created' : p + 1 \in Created /\ down'[p] = down[p + 1] /\ p \in Nat
  BY <1>1 DEF Created
<1>5. DOMAIN db \subseteq DOMAIN db'
  BY <1>1
<1> QED BY Zenon, <1>1, <1>3, <1>4, <1>5, CreationsKept

\* An item stays settled when its corrections are still to come.
LEMMA Settles ==
  ASSUME db' = db, changes' = changes, NEW item, NEW k, NEW p, NEW n, NEW q,
         Settled(item, k, p),
         \A m \in Later(k, p) : Corrects(m, item.id) => m \in Later(n, q)'
  PROVE  Settled(item, n, q)'
<1>1. PICK L : L = Later(k, p)
  OBVIOUS
<1>2. PICK M : M = Later(n, q)'
  OBVIOUS
<1>3. SettledBy(item, M)'
  BY <1>1, <1>2, SettledMore DEF Settled
<1> QED BY <1>2, <1>3 DEF Settled, SettledBy

\* A message about an item, or a refused list.
ItemMessage(m) ==
  /\ m.type \notin {"list", "notify"}
  /\ list' \in List /\ (list'.active = list.active \/ list'.active = 0)
  /\ ActiveIn(list')
  /\ \A i \in DOMAIN list'.items : \/ \E k \in DOMAIN list.items : list'.items[i] = list.items[k]
                                   \/ list'.items[i] \in RowsOf(m)
  /\ Distinct(list.items) => Distinct(list'.items)
  /\ \A id \in Ids(list.items) : id \in Ids(list'.items) \/ id \notin Present
  /\ loaded \/ "get" \in early' \/ list' = list
  /\ loaded' \in BOOLEAN /\ (loaded => loaded') /\ (loaded' => loaded \/ "get" \in early')
  /\ lost' \in BOOLEAN /\ (lost => lost') /\ (m.type = "refused" => lost')
  /\ early' \in SUBSET {"get", "notify"} /\ early \subseteq early'
  /\ UNCHANGED <<up, isLoading, currentItems, actionQueue>>

\* Such a message.
LEMMA ItemMessageStep ==
  ASSUME IInv, down # <<>>, down' = Tail(down), UNCHANGED <<region, connection, autoReload>>,
         NEW m, m = Head(down), ItemMessage(m)
  PROVE  IInv'
<1>1. /\ Cut' /\ Present' = Present /\ db' = db /\ changes' = changes
      /\ connected' = connected /\ opening' = opening /\ connected
      /\ regionActive' = regionActive /\ changed' = changed
      /\ m \in Message /\ down' \in Seq(Message)
      /\ \A p \in DOMAIN down' : p + 1 \in DOMAIN down /\ down'[p] = down[p + 1] /\ p \in Nat
      /\ \A item : Real(item) => Real(item)'
      /\ \A p \in DOMAIN down' : \A item \in RowsOf(down'[p]) : Real(item)'
      /\ \A item \in RowsOf(m) : Real(item)
      /\ \A p \in DOMAIN down' :
           down'[p].type = "delete" \/ (down'[p].type = "notify" /\ down'[p].kind = "delete") =>
             down'[p].id \in DOMAIN db' /\ db'[down'[p].id] = 0
      /\ ~loaded =>
           \A p \in DOMAIN down' : down'[p].type \in {"list", "refused", "get", "error", "notify"}
  BY TakenFacts
<1>2. /\ up' = up /\ isLoading' = isLoading /\ currentItems' = currentItems
      /\ actionQueue' = actionQueue /\ autoReload' = autoReload
      /\ (loaded => loaded') /\ (loaded' => loaded \/ "get" \in early')
      /\ early \subseteq early' /\ m.type \notin {"list", "notify"}
      /\ loaded \/ "get" \in early' \/ list' = list
  BY DEF ItemMessage
<1>3. down \in Seq(Message) /\ up \in Seq(Request) /\ actionQueue \in Seq(Notification) /\ Typed
  BY DEF IInv, Typed
<1>4. SameBatches
  <2>1. Batches' = Batches /\ OneSent'
    BY <1>2, <1>3, DownTake DEF IInv, OneBatch
  <2> QED BY <1>2, <2>1 DEF SameBatches, Requests, OneAsked, Asked, IInv, OneBatch
<1>5. Typed'
  BY <1>1, <1>2 DEF IInv, Typed, ItemMessage, List
<1>6. OneBatch'
  BY <1>2, <1>4, OneBatchKept DEF IInv
<1>7. NotLoaded'
  BY <1>1, <1>2 DEF IInv, NotLoaded, ItemMessage
<1>8. InOrder'
  <2>1. CASE list' = list
    <3>1. SameIds(list'.items, list.items)
      BY <2>1 DEF SameIds
    <3> QED BY <1>2, <1>4, <3>1, InOrderKept DEF IInv
  <2>2. CASE loaded \/ "get" \in early'
    <3>1. "load" \notin Kinds \/ "get" \in early'
      BY <1>2, <2>2 DEF IInv, OneBatch
    <3>2. "get" \notin early' => Distinct(list'.items) /\ (~loaded' => Ascending(list'.items))
      BY <1>2, <2>2 DEF IInv, InOrder, ItemMessage
    <3> QED BY <1>2, <1>3, <1>4, <3>1, <3>2, InOrderApart DEF IInv
  <2> QED BY <1>2, <2>1, <2>2
<1>9. CreationsInOrder'
  <2>1. list' = list => \A k \in DOMAIN list'.items :
                          \E j \in DOMAIN list.items : list'.items[k].id = list.items[j].id
    OBVIOUS
  <2> QED BY <1>2, <2>1, TakenCreations
<1>10. ActiveListed'
  BY DEF ActiveListed, ItemMessage, ActiveIn, Ids
<1>11. RowsReal'
  <2>1. \A i \in DOMAIN list'.items : Real(list.items[i])'
    <3> TAKE i \in DOMAIN list'.items
    <3>1. PICK item : item = list'.items[i]
      OBVIOUS
    <3>2. Real(item)
      BY <1>1, <3>1 DEF ItemMessage, IInv, RowsReal
    <3> QED BY <1>1, <3>1, <3>2
  <2>2. \A p : RowsOf(down[p])' = RowsOf(down'[p])
    BY DEF RowsOf
  <2>3. \A k : RowsOf(actionQueue[k])' = RowsOf(actionQueue[k])
    BY <1>2 DEF RowsOf
  <2> QED BY <1>1, <1>2, <2>1, <2>2, <2>3 DEF IInv, RowsReal
<1>12. DeletionsReal'
  BY <1>1, <1>2 DEF IInv, DeletionsReal
<1>13. Regular' => Regular /\ loaded' = loaded /\ m.type # "refused"
  BY <1>2 DEF Regular, ItemMessage, IInv, Typed
<1>14. Regular' => (Tracking' <=> Tracking) /\ (Followed' <=> Followed)
  BY <1>1, <1>2, <1>13 DEF Tracking, Followed
<1>15. /\ \A id : ToCome(id)' <=> ToCome(id)
       /\ Kinds' = Kinds
  BY <1>1, <1>4, ToComeKept
<1>16. Regular' => \A p \in DOMAIN down : down[p].type = "refused" => \E q \in DOMAIN down' : down'[q].type = "refused"
  BY Zenon, <1>3, <1>13, DownTake
<1>17. Under'
  BY <1>1, <1>2, <1>13, <1>15, <1>16 DEF IInv, Under, Regular
<1>18. /\ \A k : Later(k, 0) \subseteq Later(k, 0)' \union {m}
       /\ \A k : \A p \in Nat : Later(k, p + 1) \subseteq Later(k, p)'
  BY <1>2, <1>3, LaterTake
<1>19. \A id : ~Corrects(m, id) /\ ~Brings(m, id)
  BY <1>2 DEF Corrects, Brings
<1>20. ItemsSettled'
  <2> SUFFICES ASSUME Regular' PROVE ItemsSettled'
    BY DEF ItemsSettled
  <2>1. ASSUME NEW item, NEW k, Settled(item, k, 0) PROVE Settled(item, k, 0)'
    BY <1>1, <1>18, <1>19, <2>1, Settles
  <2>2. ASSUME NEW item, NEW k, NEW p \in Nat, Settled(item, k, p + 1) PROVE Settled(item, k, p)'
    BY <1>1, <1>18, <2>2, Settles
  <2>3. \A item \in RowsOf(m) : Settled(item, 0, 0)'
    <3> TAKE item \in RowsOf(m)
    <3>1. PICK n : n = Len(actionQueue)
      BY Zenon
    <3>2. Settled(item, n, 1)
      BY <1>3, <1>13, <3>1, DownTake DEF IInv, ItemsSettled
    <3>3. Later(n, 1) \subseteq Later(n, 0)'
      BY <1>18
    <3>4. Later(n, 0)' \subseteq Later(0, 0)'
      <4>1. n \in Nat /\ \A j \in DOMAIN actionQueue' : j > n => j > 0
        BY <1>2, <1>3, <3>1
      <4> QED BY <4>1 DEF Later
    <3> QED BY <1>1, <3>2, <3>3, <3>4, Settles
  <2>4. ASSUME Followed, NEW i \in DOMAIN list'.items PROVE Settled(list.items[i], 0, 0)'
    <3>1. PICK item : item = list'.items[i]
      OBVIOUS
    <3>2. CASE \E j \in DOMAIN list.items : item = list.items[j]
      <4>1. Settled(item, 0, 0)
        BY <1>13, <2>4, <3>2 DEF IInv, ItemsSettled
      <4> QED BY <2>1, <3>1, <4>1
    <3>3. CASE item \in RowsOf(m)
      BY <2>3, <3>1, <3>3
    <3> QED BY <3>1, <3>2, <3>3 DEF ItemMessage
  <2>5. \A i \in DOMAIN currentItems : Settled(currentItems[i], 0, 0)'
    <3> TAKE i \in DOMAIN currentItems
    <3>1. PICK item : item = currentItems[i]
      OBVIOUS
    <3>2. Settled(item, 0, 0)'
      BY <1>13, <2>1, <3>1 DEF IInv, ItemsSettled
    <3>3. item = currentItems'[i]
      BY <1>2, <3>1
    <3> QED BY <3>2, <3>3
  <2>6. \A k \in DOMAIN actionQueue : \A item \in RowsOf(actionQueue[k]) : Settled(item, k, 0)'
    BY <1>13, <2>1 DEF IInv, ItemsSettled
  <2>7. \A p \in DOMAIN down' : \A item \in RowsOf(down'[p]) : Settled(item, Len(actionQueue), p)'
    <3> TAKE p \in DOMAIN down'
    <3>1. PICK n : n = Len(actionQueue)
      BY Zenon
    <3>2. \A item \in RowsOf(down[p + 1]) : Settled(item, n, p + 1)
      BY <1>1, <1>13, <3>1 DEF IInv, ItemsSettled
    <3>3. \A item \in RowsOf(down[p + 1]) : Settled(item, n, p)'
      BY <1>1, <2>2, <3>2
    <3>4. n = Len(actionQueue') /\ down'[p] = down[p + 1]
      BY <1>1, <1>2, <3>1
    <3> QED BY <3>3, <3>4
  <2> QED BY <1>2, <1>14, <2>4, <2>5, <2>6, <2>7 DEF ItemsSettled, RowsOf
<1>21. NoneMissed'
  <2>1. \A id : OnItsWay(id) => OnItsWay(id)'
    <3> TAKE id
    <3>1. ToBeAnnounced(id) => ToBeAnnounced(id)'
      BY <1>1 DEF ToBeAnnounced, Creations
    <3>2. ASSUME NEW a \in Later(0, 0), Brings(a, id) PROVE a \in Later(0, 0)' /\ Brings(a, id)'
      BY Zenon, <1>18, <1>19, <3>2 DEF Brings, Ids
    <3> QED BY <3>1, <3>2 DEF OnItsWay
  <2>2. Ids(currentItems)' = Ids(currentItems)
    BY <1>2 DEF Ids
  <2>3. \A id \in Present : id \in Ids(list.items) => id \in Ids(list.items)'
    BY DEF ItemMessage, Ids
  <2> QED BY <1>1, <1>2, <1>13, <1>14, <1>15, <2>1, <2>2, <2>3 DEF IInv, NoneMissed
<1>22. ActiveTold'
  <2>1. list'.active # 0 => list'.active = list.active
    BY DEF ItemMessage
  <2>2. Told' = Told
    BY <1>2 DEF Told
  <2> QED BY <1>1, <1>2, <1>13, <1>14, <2>1, <2>2 DEF IInv, ActiveTold
<1> QED BY <1>1, <1>5, <1>6, <1>7, <1>8, <1>9, <1>10, <1>11, <1>12, <1>17, <1>20, <1>21, <1>22 DEF IInv

\* What a message about an item leaves of the list.
Takes(r, l, item) ==
  /\ r \in List /\ r.active = l.active /\ Ids(l.items) \subseteq Ids(r.items)
  /\ ActiveIn(l) => ActiveIn(r)
  /\ \A i \in DOMAIN r.items : (\E k \in DOMAIN l.items : r.items[i] = l.items[k]) \/ r.items[i] = item
  /\ Distinct(l.items) => Distinct(r.items)

\* A replacement takes the item.
LEMMA ReplaceTakes ==
  ASSUME NEW l \in List, NEW item \in Item, NEW r, r = replaceItem(l, item)
  PROVE  Takes(r, l, item)
<1>1. PICK items : items = replaceItemInArray(l.items, item)
  OBVIOUS
<1>2. l.items \in Seq(Item) /\ r = [l EXCEPT !.items = items]
  BY <1>1 DEF List, replaceItem
<1>3. Replaces(items, l.items, item)
  BY <1>1, <1>2, ReplaceFacts
<1>4. r.items = items /\ r.active = l.active /\ r \in List
  BY <1>2, <1>3 DEF List, Replaces
<1>5. Ids(l.items) = Ids(items)
  BY <1>3 DEF Replaces, Ids
<1>6. Distinct(l.items) => Distinct(items)
  BY <1>3 DEF Replaces, Distinct
<1> QED BY <1>3, <1>4, <1>5, <1>6 DEF Takes, ActiveIn, Replaces

\* So does an addition.
LEMMA AddTakes ==
  ASSUME NEW l \in List, NEW item \in Item, NEW r, r = addItem(l, item)
  PROVE  Takes(r, l, item)
<1>1. CASE item.id \in Ids(l.items) /\ r = replaceItem(l, item)
  BY <1>1, ReplaceTakes
<1>2. CASE item.id \notin Ids(l.items) /\ r = [l EXCEPT !.items = Append(@, item)]
  <2>1. /\ l.items \in Seq(Item) /\ r.items = Append(l.items, item) /\ r.active = l.active
        /\ r \in List
    <3>1. PICK items : items = Append(l.items, item)
      BY Zenon
    <3>2. l.items \in Seq(Item) /\ items \in Seq(Item)
      BY <3>1 DEF List
    <3>3. r = [l EXCEPT !.items = items]
      BY <1>2, <3>1 DEF List
    <3> QED BY Zenon, <3>1, <3>2, <3>3 DEF List
  <2>2. /\ \A i \in DOMAIN l.items : i \in DOMAIN r.items /\ r.items[i] = l.items[i]
        /\ \A i \in DOMAIN r.items : i \in DOMAIN l.items \/ i = Len(l.items) + 1
        /\ r.items[Len(l.items) + 1] = item
    BY <2>1, AppendFacts
  <2>3. Ids(l.items) \subseteq Ids(r.items)
    BY <2>2 DEF Ids
  <2>4. \A i \in DOMAIN l.items : l.items[i].id # item.id
    BY <1>2 DEF Ids
  <2>5. Distinct(l.items) => Distinct(r.items)
    BY <2>2, <2>4 DEF Distinct
  <2> QED BY <2>1, <2>2, <2>3, <2>5 DEF Takes, ActiveIn
<1> QED BY <1>1, <1>2, AddCases

\* A message about an item arrives, or a refused list.
LEMMA ItemMessagesStep ==
  ASSUME IInv, onMessage, Head(down).type \notin {"list", "notify"}
  PROVE  IInv'
<1>1. PICK m : m = Head(down)
  OBVIOUS
<1>2. /\ down # <<>> /\ down' = Tail(down) /\ UNCHANGED <<region, connection, autoReload>>
  BY DEF onMessage
<1>3. m \in Message /\ m.type \notin {"list", "notify"} /\ m = down[1] /\ 1 \in DOMAIN down
  <2>1. down \in Seq(Message)
    BY DEF IInv, Typed
  <2> QED BY <1>1, <1>2, <2>1, DownTake
<1>4. list \in List /\ ActiveIn(list) /\ loaded \in BOOLEAN /\ lost \in BOOLEAN
      /\ early \in SUBSET {"get", "notify"}
  BY DEF IInv, Typed, List, ActiveListed, ActiveIn
<1>5. m.type \in {"get", "update", "set_active"} => m.item \in Item /\ RowsOf(m) = {m.item}
  BY <1>3, MessageFacts, RowsOfFacts
<1>6. m.type \in {"update", "set_active", "delete"} => loaded
  BY <1>3 DEF IInv, NotLoaded
<1>7. CASE m.type = "refused" /\ HandleRefused
  <2>1. list' = list /\ lost' = TRUE /\ loaded' = loaded /\ early' = early
        /\ UNCHANGED <<up, isLoading, currentItems, actionQueue>>
    BY <1>7 DEF HandleRefused, loading
  <2>2. ItemMessage(m)
    BY <1>3, <1>4, <2>1 DEF ItemMessage
  <2> QED BY <1>1, <1>2, <2>2, ItemMessageStep
<1>8. CASE m.type = "get" /\ HandleGet(m.item)
  <2>1. Takes(list', list, m.item)
    BY <1>4, <1>5, <1>8, AddTakes DEF HandleGet
  <2>2. /\ loaded' = TRUE /\ early' = (IF loaded THEN early ELSE early \union {"get"}) /\ lost' = lost
        /\ UNCHANGED <<up, isLoading, currentItems, actionQueue>>
    BY <1>8 DEF HandleGet
  <2>3. /\ early' \in SUBSET {"get", "notify"} /\ early \subseteq early'
        /\ loaded \/ "get" \in early'
    BY <1>4, <2>2
  <2>4. ItemMessage(m)
    BY <1>4, <1>5, <1>8, <2>1, <2>2, <2>3 DEF ItemMessage, Takes
  <2> QED BY <1>1, <1>2, <2>4, ItemMessageStep
<1>9. CASE /\ m.type \in {"update", "set_active"} /\ list' = replaceItem(list, m.item)
           /\ UNCHANGED <<up, loading, actionQueue, history>>
  <2>1. Takes(list', list, m.item)
    BY <1>4, <1>5, <1>9, ReplaceTakes
  <2>2. ItemMessage(m)
    BY <1>4, <1>5, <1>6, <1>9, <2>1 DEF ItemMessage, Takes, loading, history
  <2> QED BY <1>1, <1>2, <2>2, ItemMessageStep
<1>10. CASE /\ m.type = "delete" /\ list' = removeItem(list, m.id)
            /\ UNCHANGED <<up, loading, actionQueue, history>>
  <2>1. PICK items : items = removeItemByIdFromArray(list.items, m.id)
    OBVIOUS
  <2>2. PICK active : active = IF list.active = m.id THEN 0 ELSE list.active
    OBVIOUS
  <2>3. list' = [items |-> items, active |-> active]
    BY Zenon, <1>4, <1>10, <2>1, <2>2 DEF removeItem, List
  <2>4. Removes(items, list.items, m.id) /\ list.items \in Seq(Item)
    BY <1>4, <2>1, RemoveFacts DEF List
  <2>5. active = 0 \/ (active = list.active /\ active # m.id)
    BY <2>2
  <2>6. \A id \in Ids(list.items) : id = m.id \/ id \in Ids(items)
    BY <2>4 DEF Removes, Ids
  <2>7. m.id \notin Present
    BY <1>3, <1>10 DEF IInv, DeletionsReal, Present
  <2>8. list' \in List /\ ActiveIn(list')
    BY <1>4, <2>3, <2>4, <2>5, <2>6 DEF List, ActiveIn, Removes
  <2>9. \A i \in DOMAIN items : \E k \in DOMAIN list.items : items[i] = list.items[k]
    BY <2>4 DEF Removes
  <2>10. Distinct(list.items) => Distinct(items)
    BY <2>4 DEF Removes
  <2>11. ItemMessage(m)
    BY <1>4, <1>6, <1>10, <2>3, <2>5, <2>6, <2>7, <2>8, <2>9, <2>10 DEF ItemMessage, loading, history
  <2> QED BY <1>1, <1>2, <2>11, ItemMessageStep
<1>11. CASE m.type = "error" /\ UNCHANGED <<up, list, loading, actionQueue, history>>
  <2>1. ItemMessage(m)
    BY <1>4, <1>11 DEF ItemMessage, loading, history
  <2> QED BY <1>1, <1>2, <2>1, ItemMessageStep
<1> QED BY <1>1, <1>3, <1>7, <1>8, <1>9, <1>10, <1>11 DEF onMessage

\* A notification joins the queue.
LEMMA QueuedStep ==
  ASSUME IInv, down # <<>>, down' = Tail(down), UNCHANGED <<region, connection, autoReload>>,
         NEW m, m = Head(down), m.type = "notify", isLoading,
         actionQueue' = Append(actionQueue, m), UNCHANGED <<up, list, loading, lost, early>>
  PROVE  IInv'
<1>1. /\ Cut' /\ Present' = Present /\ db' = db /\ changes' = changes
      /\ connected' = connected /\ opening' = opening /\ connected
      /\ regionActive' = regionActive /\ changed' = changed
      /\ m \in Message /\ down' \in Seq(Message)
      /\ \A p \in DOMAIN down' : p + 1 \in DOMAIN down /\ down'[p] = down[p + 1] /\ p \in Nat
      /\ \A item : Real(item) => Real(item)'
      /\ \A p \in DOMAIN down' : \A item \in RowsOf(down'[p]) : Real(item)'
      /\ \A item \in RowsOf(m) : Real(item)
      /\ \A p \in DOMAIN down' :
           down'[p].type = "delete" \/ (down'[p].type = "notify" /\ down'[p].kind = "delete") =>
             down'[p].id \in DOMAIN db' /\ db'[down'[p].id] = 0
      /\ m.type = "notify" /\ m.kind = "delete" => m.id \in DOMAIN db /\ db[m.id] = 0
      /\ ~loaded =>
           \A p \in DOMAIN down' : down'[p].type \in {"list", "refused", "get", "error", "notify"}
  BY TakenFacts
<1>2. /\ up' = up /\ isLoading' = isLoading /\ currentItems' = currentItems /\ loaded' = loaded
      /\ list' = list /\ autoReload' = autoReload /\ lost' = lost /\ early' = early
  BY DEF loading
<1>3. /\ down \in Seq(Message) /\ actionQueue \in Seq(Notification) /\ Typed
      /\ m \in Notification
  BY Zenon, <1>1, MessageFacts DEF IInv, Typed
<1>4. SameBatches
  <2>1. Batches' = Batches /\ OneSent'
    BY <1>3, DownTake DEF IInv, OneBatch
  <2> QED BY <1>2, <2>1 DEF SameBatches, Requests, OneAsked, Asked, IInv, OneBatch
<1>5. PICK n : n = Len(actionQueue)
  BY Zenon
<1>6. /\ \A k \in DOMAIN actionQueue' : \/ k \in DOMAIN actionQueue /\ actionQueue'[k] = actionQueue[k]
                                           /\ k \in Nat /\ k <= n
                                        \/ k = n + 1 /\ actionQueue'[k] = m
      /\ n \in Nat /\ Len(actionQueue') = n + 1 /\ actionQueue' \in Seq(Notification)
  BY <1>3, <1>5, AppendFacts
<1>7. Typed'
  BY <1>1, <1>2, <1>6 DEF IInv, Typed
<1>8. OneBatch'
  BY <1>2, <1>4, OneBatchKept DEF IInv
<1>9. NotLoaded'
  BY <1>1, <1>2 DEF IInv, NotLoaded
<1>10. InOrder'
  <2>1. SameIds(list'.items, list.items)
    BY <1>2 DEF SameIds
  <2> QED BY <1>2, <1>4, <2>1, InOrderKept DEF IInv
<1>11. CreationsInOrder'
  BY <1>2, TakenCreations
<1>12. ActiveListed'
  BY <1>2 DEF IInv, ActiveListed, Ids
<1>13. RowsReal'
  <2>1. \A k \in DOMAIN actionQueue' : \A item \in RowsOf(actionQueue'[k]) : Real(item)'
    BY <1>1, <1>6 DEF IInv, RowsReal
  <2>2. \A p : RowsOf(down[p])' = RowsOf(down'[p])
    BY DEF RowsOf
  <2>3. \A k : RowsOf(actionQueue[k])' = RowsOf(actionQueue'[k])
    BY DEF RowsOf
  <2> QED BY <1>1, <1>2, <2>1, <2>2, <2>3 DEF IInv, RowsReal
<1>14. DeletionsReal'
  <2>1. \A k \in DOMAIN actionQueue' : actionQueue'[k].kind = "delete" =>
          actionQueue'[k].id \in DOMAIN db /\ db[actionQueue'[k].id] = 0
    BY <1>1, <1>6 DEF IInv, DeletionsReal
  <2> QED BY <1>1, <2>1 DEF IInv, DeletionsReal
<1>15. (Regular' <=> Regular) /\ (Tracking' <=> Tracking) /\ (Followed' <=> Followed)
  BY <1>1, <1>2 DEF Regular, Tracking, Followed
<1>16. /\ \A id : ToCome(id)' <=> ToCome(id)
       /\ Kinds' = Kinds
  BY <1>1, <1>4, ToComeKept
<1>17. \A p \in DOMAIN down : down[p].type = "refused" => \E q \in DOMAIN down' : down'[q].type = "refused"
  BY Zenon, <1>3, DownTake
<1>18. Under'
  BY <1>1, <1>2, <1>15, <1>16, <1>17 DEF IInv, Under
<1>19. /\ \A k \in Nat : k <= n => Later(k, 0) \subseteq Later(k, 0)'
       /\ \A p \in Nat : Later(n, p + 1) \subseteq Later(n + 1, p)'
  BY Zenon, <1>3, <1>5, LaterQueue
<1>20. ItemsSettled'
  <2> SUFFICES ASSUME Regular PROVE ItemsSettled'
    BY <1>15 DEF ItemsSettled
  <2>1. ASSUME NEW item, NEW k \in Nat, k <= n, Settled(item, k, 0) PROVE Settled(item, k, 0)'
    BY <1>1, <1>19, <2>1, Settles
  <2>2. ASSUME NEW item, NEW p \in Nat, Settled(item, n, p + 1) PROVE Settled(item, n + 1, p)'
    BY <1>1, <1>19, <2>2, Settles
  <2>3. 0 \in Nat /\ 0 <= n
    BY <1>6
  <2>4. ASSUME Followed, NEW i \in DOMAIN list.items PROVE Settled(list.items[i], 0, 0)'
    <3>1. PICK item : item = list.items[i]
      OBVIOUS
    <3>2. Settled(item, 0, 0)'
      BY <2>1, <2>3, <2>4, <3>1 DEF IInv, ItemsSettled
    <3>3. item = list'.items[i]
      BY <1>2, <3>1
    <3> QED BY <3>2, <3>3
  <2>5. \A i \in DOMAIN currentItems : Settled(currentItems[i], 0, 0)'
    <3> TAKE i \in DOMAIN currentItems
    <3>1. PICK item : item = currentItems[i]
      OBVIOUS
    <3>2. Settled(item, 0, 0)'
      BY <2>1, <2>3, <3>1 DEF IInv, ItemsSettled
    <3>3. item = currentItems'[i]
      BY <1>2, <3>1
    <3> QED BY <3>2, <3>3
  <2>6. \A k \in DOMAIN actionQueue' : \A item \in RowsOf(actionQueue'[k]) : Settled(item, k, 0)'
    <3> TAKE k \in DOMAIN actionQueue'
    <3> TAKE item \in RowsOf(actionQueue'[k])
    <3>1. CASE k \in DOMAIN actionQueue /\ actionQueue'[k] = actionQueue[k] /\ k \in Nat /\ k <= n
      <4>1. Settled(item, k, 0)
        BY <3>1 DEF IInv, ItemsSettled
      <4> QED BY <2>1, <3>1, <4>1
    <3>2. CASE k = n + 1 /\ actionQueue'[k] = m
      <4>1. Settled(item, n, 1)
        BY <1>3, <1>5, <3>2, DownTake DEF IInv, ItemsSettled
      <4>2. Settled(item, n + 1, 0)'
        BY <2>2, <2>3, <4>1
      <4> QED BY <3>2, <4>2
    <3> QED BY <1>6, <3>1, <3>2
  <2>7. \A p \in DOMAIN down' : \A item \in RowsOf(down'[p]) : Settled(item, n + 1, p)'
    <3> TAKE p \in DOMAIN down'
    <3>1. \A item \in RowsOf(down[p + 1]) : Settled(item, n, p + 1)
      BY <1>1, <1>5 DEF IInv, ItemsSettled
    <3>2. \A item \in RowsOf(down[p + 1]) : Settled(item, n + 1, p)'
      BY <1>1, <2>2, <3>1
    <3> QED BY <1>1, <3>2
  <2>8. \A p \in DOMAIN down' : \A item \in RowsOf(down'[p]) : Settled(item, Len(actionQueue), p)'
    BY <1>6, <2>7
  <2> QED BY <1>2, <1>15, <2>4, <2>5, <2>6, <2>8 DEF ItemsSettled, RowsOf
<1>21. NoneMissed'
  <2>1. \A id : OnItsWay(id) => OnItsWay(id)'
    <3> TAKE id
    <3>1. ToBeAnnounced(id) => ToBeAnnounced(id)'
      BY <1>1 DEF ToBeAnnounced, Creations
    <3>2. ASSUME NEW a \in Later(0, 0), Brings(a, id) PROVE a \in Later(0, 0)' /\ Brings(a, id)'
      BY <1>6, <1>19, <3>2 DEF Brings, Ids
    <3> QED BY <3>1, <3>2 DEF OnItsWay
  <2>2. Ids(currentItems)' = Ids(currentItems) /\ Ids(list.items)' = Ids(list.items)
    BY <1>2 DEF Ids
  <2> QED BY <1>1, <1>2, <1>15, <1>16, <2>1, <2>2 DEF IInv, NoneMissed
<1>22. ActiveTold'
  BY <1>1, <1>2, <1>15 DEF IInv, ActiveTold, Told
<1> QED BY <1>1, <1>7, <1>8, <1>9, <1>10, <1>11, <1>12, <1>13, <1>14, <1>18, <1>20, <1>21, <1>22 DEF IInv

\* A notification is processed at once.
LEMMA ProcessedStep ==
  ASSUME IInv, down # <<>>, down' = Tail(down), UNCHANGED <<region, connection, autoReload>>,
         NEW m, m = Head(down), m.type = "notify", ~isLoading,
         list' = processAction(list, m), actionQueue' = <<>>,
         early' = IF loaded THEN early ELSE early \union {"notify"},
         UNCHANGED <<up, loading, lost>>
  PROVE  IInv'
<1>1. /\ Cut' /\ Present' = Present /\ db' = db /\ changes' = changes
      /\ connected' = connected /\ opening' = opening /\ connected
      /\ regionActive' = regionActive /\ changed' = changed
      /\ m \in Message /\ down' \in Seq(Message)
      /\ \A p \in DOMAIN down' : p + 1 \in DOMAIN down /\ down'[p] = down[p + 1] /\ p \in Nat
      /\ \A item : Real(item) => Real(item)'
      /\ \A p \in DOMAIN down' : \A item \in RowsOf(down'[p]) : Real(item)'
      /\ \A item \in RowsOf(m) : Real(item)
      /\ \A p \in DOMAIN down' :
           down'[p].type = "delete" \/ (down'[p].type = "notify" /\ down'[p].kind = "delete") =>
             down'[p].id \in DOMAIN db' /\ db'[down'[p].id] = 0
      /\ m.type = "notify" /\ m.kind = "delete" => m.id \in DOMAIN db /\ db[m.id] = 0
      /\ ~loaded =>
           \A p \in DOMAIN down' : down'[p].type \in {"list", "refused", "get", "error", "notify"}
  BY TakenFacts
<1>2. /\ up' = up /\ isLoading' = isLoading /\ currentItems' = currentItems /\ loaded' = loaded
      /\ autoReload' = autoReload /\ lost' = lost /\ early \subseteq early'
      /\ early' = (IF loaded THEN early ELSE early \union {"notify"})
      /\ "get" \in early' <=> "get" \in early
  BY DEF loading
<1>3. /\ down \in Seq(Message) /\ Typed /\ m \in Notification /\ list \in List
      /\ actionQueue = <<>> /\ currentItems = <<>>
  BY <1>1, MessageFacts DEF IInv, Typed, OneBatch, List
<1>4. SameBatches
  <2>1. Batches' = Batches /\ OneSent'
    BY <1>3, DownTake DEF IInv, OneBatch
  <2> QED BY <1>2, <2>1 DEF SameBatches, Requests, OneAsked, Asked, IInv, OneBatch
<1>5. Processes(list', list, m)
  BY <1>3, ProcessFacts
<1>6. /\ list' \in List /\ (list'.active = list.active \/ list'.active = 0)
      /\ ActiveIn(list')
      /\ \A i \in DOMAIN list'.items :
           (\E k \in DOMAIN list.items : list'.items[i] = list.items[k]) \/ list'.items[i] \in RowsOf(m)
      /\ "get" \notin early => Distinct(list'.items)
  <2>1. ActiveIn(list)
    BY DEF IInv, ActiveListed, ActiveIn
  <2>2. m.kind # "delete" => RowsOf(m) = {m.item}
    BY RowsOfFacts
  <2> QED BY <1>5, <2>1, <2>2 DEF Processes, IInv, InOrder
<1>7. Typed'
  <2>1. early' \in SUBSET {"get", "notify"}
    BY <1>2, <1>3 DEF Typed
  <2> QED BY <1>1, <1>2, <1>3, <1>6, <2>1 DEF Typed, List
<1>8. OneBatch'
  BY <1>2, <1>3, <1>4, OneBatchKept DEF IInv
<1>9. NotLoaded'
  BY <1>1, <1>2, <1>6 DEF IInv, NotLoaded
<1>10. 1 \in DOMAIN down /\ down[1] = m
  BY <1>3, DownTake
<1>11. m.kind = "create" => 1 \in Created
  BY <1>10 DEF Created
<1>12. InOrder'
  <2>1. "load" \notin Kinds
    BY DEF IInv, OneBatch
  <2>2. "get" \notin early /\ ~loaded => Ascending(list'.items)
    <3> SUFFICES ASSUME "get" \notin early, ~loaded PROVE Ascending(list'.items)
      OBVIOUS
    <3>1. Ascending(list.items)
      BY DEF IInv, InOrder
    <3>2. m.kind = "create" => \A k \in DOMAIN list.items : list.items[k].id < m.item.id
      BY <1>10, <1>11 DEF IInv, CreationsInOrder
    <3> QED BY <1>5, <3>1, <3>2 DEF Processes
  <2> QED BY <1>2, <1>3, <1>4, <1>6, <2>1, <2>2, InOrderApart DEF IInv
<1>13. CreationsInOrder'
  <2>1. CASE "get" \in early' \/ loaded'
    BY <2>1, TakenCreations
  <2>2. CASE "get" \notin early' /\ ~loaded'
    <3>1. "get" \notin early /\ ~loaded /\ ~isLoading
      BY <1>2, <2>2
    <3>2. /\ \A i, j \in Creations : i < j => changes[i].id < changes[j].id
          /\ \A i \in Creations : changes[i].id \in DOMAIN db
          /\ \A p, q \in Created : p < q => down[p].item.id < down[q].item.id
          /\ \A p \in Created, i \in Creations : down[p].item.id < changes[i].id
          /\ \A k \in DOMAIN list.items :
               /\ \A p \in Created : list.items[k].id < down[p].item.id
               /\ \A i \in Creations : list.items[k].id < changes[i].id
      BY <3>1 DEF IInv, CreationsInOrder
    <3>3. \A p \in Created' : p + 1 \in Created /\ down'[p] = down[p + 1] /\ p \in Nat /\ p + 1 > 1
      <4>1. \A p \in DOMAIN down' : p > 0
        BY <1>1
      <4> QED BY <1>1, <4>1 DEF Created
    <3>4. Creations' = Creations
      BY <1>1 DEF Creations
    <3>5. \A p, q \in Created' : p < q => down'[p].item.id < down'[q].item.id
      <4> TAKE p, q \in Created'
      <4>1. p < q => p + 1 < q + 1
        BY <3>3
      <4> QED BY Zenon, <3>2, <3>3, <4>1
    <3>6. \A p \in Created', i \in Creations : down'[p].item.id < changes[i].id
      BY Zenon, <3>2, <3>3
    <3>7. ASSUME NEW k \in DOMAIN list'.items
          PROVE  /\ \A p \in Created' : list'.items[k].id < down'[p].item.id
                 /\ \A i \in Creations : list'.items[k].id < changes[i].id
      <4>1. CASE \E j \in DOMAIN list.items : list'.items[k].id = list.items[j].id
        BY Zenon, <3>2, <3>3, <4>1
      <4>2. CASE m.kind = "create" /\ list'.items[k] = m.item
        <5>1. 1 \in Created /\ list'.items[k].id = down[1].item.id
          BY <1>10, <1>11, <4>2
        <5> QED BY Zenon, <3>2, <3>3, <5>1
      <4>3. \/ \E j \in DOMAIN list.items : list'.items[k].id = list.items[j].id
            \/ m.kind = "create" /\ list'.items[k] = m.item
        <5>1. m.kind \in {"create", "update", "delete"}
          BY <1>3, NotificationFacts
        <5> QED BY <1>5, <5>1 DEF Processes, Ids
      <4> QED BY Zenon, <4>1, <4>2, <4>3
    <3> QED BY Zenon, <1>1, <3>2, <3>4, <3>5, <3>6, <3>7 DEF CreationsInOrder
  <2> QED BY <2>1, <2>2
<1>14. ActiveListed'
  BY <1>6 DEF ActiveListed, ActiveIn, Ids
<1>15. RowsReal'
  <2>1. \A i \in DOMAIN list'.items : Real(list.items[i])'
    <3> TAKE i \in DOMAIN list'.items
    <3>1. PICK item : item = list'.items[i]
      OBVIOUS
    <3>2. Real(item)
      BY <1>1, <1>6, <3>1 DEF IInv, RowsReal
    <3> QED BY <1>1, <3>1, <3>2
  <2>2. \A p : RowsOf(down[p])' = RowsOf(down'[p])
    BY DEF RowsOf
  <2> QED BY <1>1, <1>2, <1>3, <2>1, <2>2 DEF IInv, RowsReal
<1>16. DeletionsReal'
  BY <1>1, <1>2 DEF IInv, DeletionsReal
<1>17. Regular' => Regular /\ loaded
  <2> SUFFICES ASSUME ~lost', early' = {} PROVE ~lost /\ early = {} /\ loaded
    BY Zenon DEF Regular
  <2>1. "notify" \notin early'
    BY Zenon
  <2> QED BY <1>2, <2>1
<1>18. (Tracking' <=> Tracking) /\ (Followed' => Tracking)
  BY <1>1, <1>2 DEF Tracking, Followed
<1>19. Kinds' = Kinds
  BY <1>4 DEF SameBatches, Kinds
<1>20. Under'
  BY <1>1, <1>2, <1>17, <1>19 DEF IInv, Under
<1>21. /\ Later(0, 0) \subseteq Later(0, 0)' \union {m}
       /\ \A p \in Nat : Later(0, p + 1) \subseteq Later(0, p)'
  BY <1>3, LaterTake
<1>22. ItemsSettled'
  <2> SUFFICES ASSUME Regular' PROVE ItemsSettled'
    BY DEF ItemsSettled
  <2>1. ASSUME NEW item, NEW p \in Nat, Settled(item, 0, p + 1) PROVE Settled(item, 0, p)'
    BY <1>1, <1>21, <2>1, Settles
  <2>2. ASSUME Tracking, NEW i \in DOMAIN list'.items PROVE Settled(list.items[i], 0, 0)'
    <3>1. PICK L : L = Later(0, 0)'
      OBVIOUS
    <3>2. ASSUME NEW j \in DOMAIN list.items PROVE SettledBy(list.items[j], L \union {m})
      <4>1. SettledBy(list.items[j], Later(0, 0))
        BY <1>17, <2>2 DEF IInv, ItemsSettled, Followed, Settled
      <4> QED BY <1>21, <3>1, <4>1 DEF SettledBy
    <3>3. ASSUME NEW item \in RowsOf(m) PROVE SettledBy(item, L)
      <4>1. Settled(item, 0, 1)
        BY <1>3, <1>10, <1>17 DEF IInv, ItemsSettled
      <4>2. Later(0, 1) \subseteq L
        BY <1>21, <3>1
      <4> QED BY <4>1, <4>2 DEF Settled, SettledBy
    <3>4. Distinct(list.items)
      BY <1>17 DEF IInv, InOrder, Regular
    <3>5. \A j \in DOMAIN list'.items : SettledBy(list'.items[j], L)
      BY Zenon, <1>3, <1>5, <3>2, <3>3, <3>4, SettleStep
    <3>6. PICK item : item = list'.items[i]
      OBVIOUS
    <3>7. SettledBy(item, L)
      BY <2>2, <3>5, <3>6
    <3>8. SettledBy(item, L)'
      BY <1>1, <3>7, SettledMore
    <3> QED BY <3>1, <3>6, <3>8 DEF Settled, SettledBy
  <2>3. \A p \in DOMAIN down' : \A item \in RowsOf(down'[p]) : Settled(item, 0, p)'
    <3> TAKE p \in DOMAIN down'
    <3>1. \A item \in RowsOf(down[p + 1]) : Settled(item, 0, p + 1)
      BY <1>1, <1>3, <1>17 DEF IInv, ItemsSettled
    <3> QED BY <1>1, <2>1, <3>1
  <2>4. \A p \in DOMAIN down' : \A item \in RowsOf(down'[p]) : Settled(item, Len(actionQueue), p)'
    <3>1. Len(actionQueue') = 0
      OBVIOUS
    <3> QED BY <2>3, <3>1
  <2> QED BY <1>2, <1>3, <1>18, <2>2, <2>4 DEF ItemsSettled, RowsOf
<1>23. NoneMissed'
  <2> SUFFICES ASSUME Regular', Tracking, NEW id \in Present
               PROVE  id \in Ids(list'.items) \/ OnItsWay(id)'
    BY <1>1, <1>2, <1>18 DEF NoneMissed, Ids
  <2>1. id \in Ids(list.items) \/ OnItsWay(id)
    BY <1>17 DEF IInv, NoneMissed
  <2>2. ToBeAnnounced(id) => ToBeAnnounced(id)'
    BY <1>1 DEF ToBeAnnounced, Creations
  <2>3. ASSUME NEW a \in Later(0, 0), Brings(a, id), a # m PROVE a \in Later(0, 0)' /\ Brings(a, id)'
    BY <1>21, <2>3 DEF Brings, Ids
  <2>4. m.kind = "delete" => m.id \notin Present
    BY <1>1 DEF Present
  <2>5. CASE id \in Ids(list.items) \/ Brings(m, id)
    <3>1. id \in Ids(list'.items)
      BY <1>3, <1>5, <2>4, <2>5, ShowStep
    <3> QED BY <3>1
  <2> QED BY <2>1, <2>2, <2>3, <2>5 DEF OnItsWay
<1>24. ActiveTold'
  BY <1>1, <1>2, <1>6, <1>17, <1>18 DEF IInv, ActiveTold, Told
<1> QED BY <1>1, <1>7, <1>8, <1>9, <1>12, <1>13, <1>14, <1>15, <1>16, <1>20, <1>22, <1>23, <1>24 DEF IInv

\* A notification arrives.
LEMMA NotificationsStep ==
  ASSUME IInv, onMessage, Head(down).type = "notify"
  PROVE  IInv'
<1>1. PICK m : m = Head(down)
  OBVIOUS
<1>2. /\ down # <<>> /\ down' = Tail(down) /\ UNCHANGED <<region, connection, autoReload>>
      /\ m.type = "notify" /\ onNotify(m)
  BY <1>1 DEF onMessage
<1>3. m \in Notification /\ list \in List
  <2>1. down \in Seq(Message) /\ list \in List
    BY DEF IInv, Typed, List
  <2>2. m \in Message
    BY <1>1, <1>2, <2>1, DownTake
  <2> QED BY <1>2, <2>1, <2>2, MessageFacts
<1>4. CASE isLoading
  BY <1>1, <1>2, <1>4, QueuedStep DEF onNotify
<1>5. CASE ~isLoading
  <2>1. actionQueue = <<>>
    BY <1>5 DEF IInv, OneBatch
  <2>2. PICK queue : queue = Append(actionQueue, m)
    BY Zenon
  <2>3. queue \in Seq(Notification) /\ Len(queue) = 1 /\ queue[1] = m
    BY <1>3, <2>1, <2>2
  <2>4. PICK f \in [0 .. Len(queue) -> List] :
          /\ f[0] = list /\ processActions(list, queue) = f[Len(queue)]
          /\ \A n \in 1 .. Len(queue) : f[n] = processAction(f[n - 1], queue[n])
    BY <1>3, <2>3, ProcessedDefined
  <2>5. f[1] = processAction(f[1 - 1], queue[1]) /\ 1 - 1 = 0
    BY <2>3, <2>4
  <2>6. processActions(list, queue) = processAction(list, m)
    BY <2>3, <2>4, <2>5
  <2>7. /\ list' = processAction(list, m) /\ actionQueue' = <<>>
        /\ early' = (IF loaded THEN early ELSE early \union {"notify"})
        /\ UNCHANGED <<up, loading, lost>>
    BY <1>2, <1>5, <2>2, <2>6 DEF onNotify
  <2> QED BY <1>1, <1>2, <1>5, <2>7, ProcessedStep
<1> QED BY <1>4, <1>5

\* What a sequence followed by another holds.
Concats(s, a, b) ==
  /\ s \in Seq(Item) /\ Len(s) = Len(a) + Len(b) /\ Len(a) \in Nat /\ Len(b) \in Nat
  /\ \A i \in DOMAIN a : i \in DOMAIN s /\ s[i] = a[i] /\ i \in Nat /\ i <= Len(a)
  /\ \A j \in DOMAIN b : Len(a) + j \in DOMAIN s /\ s[Len(a) + j] = b[j] /\ j \in Nat
  /\ \A k \in DOMAIN s : \/ k \in DOMAIN a /\ s[k] = a[k] /\ k <= Len(a)
                         \/ k - Len(a) \in DOMAIN b /\ s[k] = b[k - Len(a)] /\ k > Len(a)
  /\ \A k \in DOMAIN s : k \in Nat /\ k <= Len(s) /\ s[k] \in Item
  /\ DOMAIN s = 1 .. Len(s)

\* A concatenation holds it.
LEMMA ConcatFacts ==
  ASSUME NEW a \in Seq(Item), NEW b \in Seq(Item), NEW s, s = a \o b
  PROVE  Concats(s, a, b)
<1>1. /\ s \in Seq(Item) /\ Len(s) = Len(a) + Len(b) /\ Len(a) \in Nat /\ Len(b) \in Nat
      /\ DOMAIN a = 1 .. Len(a) /\ DOMAIN b = 1 .. Len(b) /\ DOMAIN s = 1 .. Len(a) + Len(b)
      /\ \A k \in 1 .. Len(a) + Len(b) : s[k] = IF k <= Len(a) THEN a[k] ELSE b[k - Len(a)]
  OBVIOUS
<1>2. ASSUME NEW i \in DOMAIN a PROVE i \in DOMAIN s /\ s[i] = a[i] /\ i \in Nat /\ i <= Len(a)
  <2>1. i \in Nat /\ i <= Len(a) /\ i \in 1 .. Len(a) + Len(b)
    BY <1>1
  <2> QED BY <1>1, <2>1
<1>3. ASSUME NEW j \in DOMAIN b
      PROVE  Len(a) + j \in DOMAIN s /\ s[Len(a) + j] = b[j] /\ j \in Nat
  <2>1. /\ j \in Nat /\ Len(a) + j \in 1 .. Len(a) + Len(b) /\ ~(Len(a) + j <= Len(a))
        /\ (Len(a) + j) - Len(a) = j
    BY <1>1
  <2> QED BY <1>1, <2>1
<1>4. ASSUME NEW k \in DOMAIN s
      PROVE  \/ k \in DOMAIN a /\ s[k] = a[k] /\ k <= Len(a)
             \/ k - Len(a) \in DOMAIN b /\ s[k] = b[k - Len(a)] /\ k > Len(a)
  <2>1. CASE k <= Len(a)
    BY <1>1, <2>1
  <2>2. CASE ~(k <= Len(a))
    <3>1. k - Len(a) \in DOMAIN b /\ k > Len(a)
      BY <1>1, <2>2
    <3> QED BY <1>1, <2>2, <3>1
  <2> QED BY <2>1, <2>2
<1>5. \A k \in DOMAIN s : k \in Nat /\ k <= Len(s) /\ s[k] \in Item
  BY <1>1
<1>6. DOMAIN s = 1 .. Len(s)
  BY <1>1
<1> QED BY Zenon, <1>1, <1>2, <1>3, <1>4, <1>5, <1>6 DEF Concats

\* What is fetched once a batch has come.
LEMMA BatchFacts ==
  ASSUME IInv, down # <<>>, NEW m, m = Head(down), m.type = "list",
         NEW items, items = Array(m.kind) \o m.page
  PROVE  /\ m \in Message /\ m.page \in Seq(Item) /\ items \in Seq(Item)
         /\ m.kind \in {"load", "reload"} /\ m.kind \in Kinds
         /\ Batches = {m} /\ Requests = {} /\ isLoading
         /\ m.kind = "load" => currentItems = <<>> /\ (loaded => "get" \in early)
         /\ m.kind = "reload" => loaded
         /\ Counts(m.kind) => Ascending(items)
         /\ \A i \in DOMAIN items : Real(items[i])
         /\ Regular => \A i \in DOMAIN items : SettledBy(items[i], Later(0, 1))
         /\ Regular => \A id \in Present :
              \/ id \in Ids(items)
              \/ ToBeAnnounced(id) \/ \E n \in Later(0, 1) : Brings(n, id)
              \/ Len(m.page) = batchSize /\ \A i \in DOMAIN m.page : m.page[i].id < id
<1>1. down \in Seq(Message) /\ actionQueue \in Seq(Notification) /\ Typed /\ list.items \in Seq(Item)
      /\ currentItems \in Seq(Item)
  BY DEF IInv, Typed
<1>2. m = down[1] /\ m \in Message /\ 1 \in DOMAIN down
  BY <1>1, TailFacts
<1>3. m.page \in Seq(Item) /\ m.kind \in {"load", "reload"}
  BY <1>2, MessageFacts
<1>4. m \in Batches /\ Batches = {m} /\ Requests = {}
  <2>1. 1 \in Sent /\ m \in Batches
    BY <1>2 DEF Batches, Sent
  <2>2. Batches = {m}
    BY <1>2, <2>1 DEF Batches, IInv, OneBatch, OneSent
  <2> QED BY <2>1, <2>2 DEF IInv, OneBatch
<1>5. m.kind \in Kinds
  BY <1>4 DEF Kinds
<1>6. /\ isLoading
      /\ m.kind = "load" => currentItems = <<>> /\ (loaded => "get" \in early)
      /\ m.kind = "reload" => loaded
  BY <1>5 DEF IInv, OneBatch
<1>7. PICK array : array = Array(m.kind)
  OBVIOUS
<1>8. array \in Seq(Item) /\ array = (IF m.kind = "load" THEN list.items ELSE currentItems)
  BY <1>1, <1>7 DEF Array
<1>9. /\ items \in Seq(Item) /\ Len(array) \in Nat
      /\ \A i \in DOMAIN array : i \in DOMAIN items /\ items[i] = array[i]
      /\ \A j \in DOMAIN m.page : Len(array) + j \in DOMAIN items /\ items[Len(array) + j] = m.page[j]
      /\ \A k \in DOMAIN items :
           \/ k \in DOMAIN array /\ items[k] = array[k] /\ k <= Len(array)
           \/ k - Len(array) \in DOMAIN m.page /\ items[k] = m.page[k - Len(array)] /\ k > Len(array)
      /\ \A k \in DOMAIN items : k \in Nat
  <2>1. items = array \o m.page
    BY <1>7
  <2>2. Concats(items, array, m.page)
    BY Zenon, <1>3, <1>8, <2>1, ConcatFacts
  <2> QED BY Zenon, <2>2 DEF Concats
<1>10. Counts(m.kind) => Ascending(items)
  <2> SUFFICES ASSUME Counts(m.kind), NEW i \in DOMAIN items, NEW j \in DOMAIN items, i < j
               PROVE  items[i].id < items[j].id
    BY Zenon DEF Ascending
  <2>1. Ascending(array)
    BY <1>3, <1>6, <1>8 DEF IInv, InOrder, Counts
  <2>2. Ascending(m.page) /\ Follows(m.page, array)
    BY <1>4, <1>7 DEF IInv, InOrder
  <2>3. CASE i \in DOMAIN array /\ items[i] = array[i]
    BY Zenon, <1>9, <2>1, <2>2, <2>3 DEF Ascending, Follows
  <2>4. CASE i - Len(array) \in DOMAIN m.page /\ items[i] = m.page[i - Len(array)] /\ i > Len(array)
    <3>1. j > Len(array) /\ i - Len(array) < j - Len(array)
      BY <1>9, <2>4
    <3>2. ~(j <= Len(array))
      BY <1>9, <3>1
    <3>3. j - Len(array) \in DOMAIN m.page /\ items[j] = m.page[j - Len(array)]
      BY Zenon, <1>9, <3>2
    <3> QED BY <2>2, <2>4, <3>1, <3>3 DEF Ascending
  <2> QED BY Zenon, <1>9, <2>3, <2>4
<1>11. RowsOf(m) = {m.page[i] : i \in DOMAIN m.page}
  BY RowsOfFacts
<1>12. \A i \in DOMAIN items : Real(items[i])
  <2>1. \A i \in DOMAIN array : Real(array[i])
    BY <1>8 DEF IInv, RowsReal
  <2>2. \A i \in DOMAIN m.page : Real(m.page[i])
    BY <1>2, <1>11 DEF IInv, RowsReal
  <2> QED BY Zenon, <1>9, <2>1, <2>2
<1>13. Later(0, 0) \subseteq Later(0, 1) \union {m}
  <2>1. \A q \in DOMAIN down : q = 1 \/ q > 1
    BY <1>1
  <2> QED BY <1>2, <2>1 DEF Later
<1>14. ASSUME Regular, NEW i \in DOMAIN items PROVE SettledBy(items[i], Later(0, 1))
  <2>1. CASE i \in DOMAIN array /\ items[i] = array[i]
    <3>1. SettledBy(array[i], Later(0, 0))
      BY <1>6, <1>8, <1>14, <2>1 DEF IInv, ItemsSettled, Followed, Settled, Regular
    <3>2. \A id : ~Corrects(m, id)
      BY DEF Corrects
    <3> QED BY <1>13, <2>1, <3>1, <3>2 DEF SettledBy
  <2>2. CASE i - Len(array) \in DOMAIN m.page /\ items[i] = m.page[i - Len(array)]
    <3>1. items[i] \in RowsOf(m)
      BY <1>11, <2>2
    <3>2. SettledBy(items[i], Later(Len(actionQueue), 1))
      BY <1>2, <1>14, <3>1 DEF IInv, ItemsSettled, Settled
    <3>3. Later(Len(actionQueue), 1) \subseteq Later(0, 1)
      <4>1. \A j \in DOMAIN actionQueue : j > Len(actionQueue) => j > 0
        BY <1>1
      <4> QED BY <4>1 DEF Later
    <3> QED BY Zenon, <3>2, <3>3 DEF SettledBy
  <2> QED BY Zenon, <1>9, <2>1, <2>2
<1>15. ASSUME Regular, NEW id \in Present
       PROVE  \/ id \in Ids(items)
              \/ ToBeAnnounced(id) \/ \E n \in Later(0, 1) : Brings(n, id)
              \/ Len(m.page) = batchSize /\ \A i \in DOMAIN m.page : m.page[i].id < id
  <2>1. id \in Ids(array) \/ OnItsWay(id) \/ ToCome(id)
    <3>1. loaded <=> m.kind = "reload"
      BY <1>3, <1>6, <1>15 DEF Regular
    <3> QED BY <1>3, <1>5, <1>6, <1>8, <1>15, <3>1 DEF IInv, NoneMissed
  <2>2. Ids(array) \subseteq Ids(items) /\ Ids(m.page) \subseteq Ids(items)
    <3>1. \A i \in DOMAIN array : \E k \in DOMAIN items : array[i].id = items[k].id
      BY Zenon, <1>9
    <3>2. \A i \in DOMAIN m.page : \E k \in DOMAIN items : m.page[i].id = items[k].id
      BY Zenon, <1>9
    <3>3. ASSUME NEW x \in Ids(array) PROVE x \in Ids(items)
      <4>1. PICK i \in DOMAIN array : x = array[i].id
        BY <3>3 DEF Ids
      <4>2. PICK k \in DOMAIN items : x = items[k].id
        BY Zenon, <3>1, <4>1
      <4> QED BY Zenon, <4>2 DEF Ids
    <3>4. ASSUME NEW x \in Ids(m.page) PROVE x \in Ids(items)
      <4>1. PICK i \in DOMAIN m.page : x = m.page[i].id
        BY <3>4 DEF Ids
      <4>2. PICK k \in DOMAIN items : x = items[k].id
        BY Zenon, <3>2, <4>1
      <4> QED BY Zenon, <4>2 DEF Ids
    <3> QED BY <3>3, <3>4
  <2>3. Brings(m, id) => id \in Ids(m.page)
    BY DEF Brings
  <2>4. ToCome(id) => Len(m.page) = batchSize /\ \A i \in DOMAIN m.page : m.page[i].id < id
    BY <1>4 DEF ToCome
  <2> QED BY <1>13, <2>1, <2>2, <2>3, <2>4 DEF OnItsWay
<1>16. \A i \in DOMAIN items : Regular => SettledBy(items[i], Later(0, 1))
  BY Zenon, <1>14
<1> QED BY Zenon, <1>2, <1>3, <1>4, <1>5, <1>6, <1>9, <1>10, <1>12, <1>15, <1>16

\* A batch that is full arrives.
LEMMA BatchStep ==
  ASSUME IInv, down # <<>>, down' = Tail(down),
         UNCHANGED <<region, connection, autoReload, lost, early>>,
         NEW m, m = Head(down), m.type = "list", Len(m.page) = batchSize,
         NEW items, items = Array(m.kind) \o m.page,
         callLoad(m.kind, items),
         \/ m.kind = "load" /\ list' = [list EXCEPT !.items = items] /\ UNCHANGED currentItems
         \/ m.kind = "reload" /\ currentItems' = items /\ UNCHANGED list,
         UNCHANGED <<loaded, isLoading, actionQueue>>
  PROVE  IInv'
<1>1. /\ Cut' /\ Present' = Present /\ db' = db /\ changes' = changes
      /\ connected' = connected /\ opening' = opening /\ connected
      /\ regionActive' = regionActive /\ changed' = changed
      /\ m \in Message /\ down' \in Seq(Message)
      /\ \A p \in DOMAIN down' : p + 1 \in DOMAIN down /\ down'[p] = down[p + 1] /\ p \in Nat
      /\ \A item : Real(item) => Real(item)'
      /\ \A p \in DOMAIN down' : \A item \in RowsOf(down'[p]) : Real(item)'
      /\ \A p \in DOMAIN down' :
           down'[p].type = "delete" \/ (down'[p].type = "notify" /\ down'[p].kind = "delete") =>
             down'[p].id \in DOMAIN db' /\ db'[down'[p].id] = 0
      /\ ~loaded =>
           \A p \in DOMAIN down' : down'[p].type \in {"list", "refused", "get", "error", "notify"}
  BY TakenFacts
<1>2. /\ loaded' = loaded /\ isLoading' = isLoading /\ autoReload' = autoReload
      /\ actionQueue' = actionQueue /\ lost' = lost /\ early' = early
  OBVIOUS
<1>3. /\ down \in Seq(Message) /\ up \in Seq(Request) /\ actionQueue \in Seq(Notification)
      /\ Typed /\ list \in List
  BY DEF IInv, Typed, List
<1>4. /\ m.page \in Seq(Item) /\ items \in Seq(Item)
      /\ m.kind \in {"load", "reload"} /\ m.kind \in Kinds
      /\ Batches = {m} /\ Requests = {} /\ isLoading
      /\ m.kind = "load" => currentItems = <<>> /\ (loaded => "get" \in early)
      /\ m.kind = "reload" => loaded
      /\ Counts(m.kind) => Ascending(items)
      /\ \A i \in DOMAIN items : Real(items[i])
      /\ Regular => \A i \in DOMAIN items : SettledBy(items[i], Later(0, 1))
      /\ Regular => \A id \in Present :
           \/ id \in Ids(items)
           \/ ToBeAnnounced(id) \/ \E n \in Later(0, 1) : Brings(n, id)
           \/ Len(m.page) = batchSize /\ \A i \in DOMAIN m.page : m.page[i].id < id
  BY Zenon, BatchFacts
<1>5. PICK array : array = Array(m.kind)
  OBVIOUS
<1>6. array \in Seq(Item) /\ array = (IF m.kind = "load" THEN list.items ELSE currentItems)
  BY <1>3, <1>5 DEF Array, Typed
<1>7. Concats(items, array, m.page)
  BY Zenon, <1>4, <1>5, <1>6, ConcatFacts
<1>8. PICK last : last = Len(items)
  BY Zenon
<1>9. /\ last \in DOMAIN items /\ last \in Nat /\ \A i \in DOMAIN items : i \in Nat /\ i <= last
      /\ batchSize \in DOMAIN m.page /\ items[last] = m.page[batchSize] /\ items # <<>>
  <2>1. batchSize \in Nat /\ batchSize > 0
    BY ManagerAssumption DEF ManagerAssumption
  <2>2. batchSize \in DOMAIN m.page
    BY <1>4, <2>1
  <2>3. last = Len(array) + batchSize /\ last \in Nat /\ last > 0
    <3>1. Len(items) = Len(array) + Len(m.page) /\ Len(array) \in Nat
      BY Zenon, <1>7 DEF Concats
    <3>2. PICK size : size = Len(array)
      OBVIOUS
    <3>3. last = size + batchSize /\ size \in Nat
      BY Zenon, <1>8, <3>1, <3>2
    <3>4. last \in Nat /\ last > 0
      BY <2>1, <3>3
    <3> QED BY Zenon, <3>2, <3>3, <3>4
  <2>4. DOMAIN items = 1 .. last
    BY Zenon, <1>7, <1>8 DEF Concats
  <2>5. last \in DOMAIN items /\ \A i \in DOMAIN items : i \in Nat /\ i <= last
    <3>1. last \in Nat /\ last > 0
      BY <2>3
    <3>2. last \in 1 .. last /\ \A i \in 1 .. last : i \in Nat /\ i <= last
      BY <3>1
    <3> QED BY Zenon, <2>4, <3>2, Zenon
  <2>6. items[last] = m.page[batchSize]
    BY Zenon, <1>7, <2>2, <2>3 DEF Concats
  <2>7. items # <<>>
    <3>1. last # 0
      BY <2>3
    <3>2. Len(<<>>) = 0
      OBVIOUS
    <3> QED BY Zenon, <1>8, <3>1, <3>2, Zenon
  <2> QED BY Zenon, <2>2, <2>3, <2>5, <2>6, <2>7
<1>10. PICK r : r = [method |-> "list", kind |-> m.kind, start |-> items[last].id]
  BY Zenon
<1>11. /\ up' = Append(up, r) /\ r \in Request
       /\ r.method = "list" /\ r.kind = m.kind /\ r.start = items[last].id /\ r.start \in Id
  <2>1. items[last] \in Item
    BY <1>4, <1>9
  <2>2. items[last].id \in Id
    BY Zenon, <2>1 DEF Item
  <2>3. r \in Request
    BY Zenon, <1>4, <1>10, <2>2 DEF Request, ListRequest
  <2>4. up' = Append(up, r)
    BY Zenon, <1>1, <1>8, <1>9, <1>10 DEF callLoad, callMethod, Last
  <2> QED BY Zenon, <1>10, <2>2, <2>3, <2>4
<1>12. /\ Requests' = {r} /\ OneAsked'
       /\ Batches' = {} /\ OneSent' /\ Kinds' = {m.kind}
  <2>1. Requests' = {r} /\ OneAsked'
    BY <1>3, <1>4, <1>11, UpSend
  <2>2. Batches' = {} /\ OneSent'
    BY <1>3, DownTake DEF IInv, OneBatch
  <2> QED BY <1>11, <2>1, <2>2 DEF Kinds
<1>13. \/ m.kind = "load" /\ list'.items = items /\ currentItems' = currentItems
       \/ m.kind = "reload" /\ list'.items = list.items /\ currentItems' = items
  BY Zenon, <1>3 DEF List
<1>14. list'.active = list.active /\ list' \in List /\ Ids(list.items) \subseteq Ids(list'.items)
  <2>1. CASE m.kind = "load" /\ list' = [list EXCEPT !.items = items]
    <3>1. \A i \in DOMAIN list.items : \E k \in DOMAIN items : list.items[i].id = items[k].id
      BY Zenon, <1>6, <1>7, <2>1 DEF Concats
    <3>2. ASSUME NEW x \in Ids(list.items) PROVE x \in Ids(items)
      <4>1. PICK i \in DOMAIN list.items : x = list.items[i].id
        BY <3>2 DEF Ids
      <4>2. PICK k \in DOMAIN items : x = items[k].id
        BY Zenon, <3>1, <4>1
      <4> QED BY Zenon, <4>2 DEF Ids
    <3>3. list'.items = items /\ list'.active = list.active /\ list' \in List
      BY Zenon, <1>3, <1>4, <2>1 DEF List
    <3> QED BY <3>2, <3>3
  <2>2. CASE list' = list
    BY <1>3, <2>2
  <2> QED BY Zenon, <2>1, <2>2
<1>15. Typed'
  <2>1. up' \in Seq(Request)
    BY <1>3, <1>11
  <2>2. currentItems' \in Seq(Item)
    BY Zenon, <1>3, <1>4, <1>13 DEF Typed
  <2> QED BY <1>1, <1>2, <1>3, <1>14, <2>1, <2>2 DEF Typed, List
<1>16. OneBatch'
  <2>1. OneAsked' /\ OneSent' /\ Batches' = {} /\ isLoading'
    BY <1>2, <1>4, <1>12
  <2>2. "load" \in Kinds' => currentItems' = <<>> /\ (loaded' => "get" \in early')
    <3> SUFFICES ASSUME m.kind = "load" PROVE currentItems' = <<>> /\ (loaded => "get" \in early)
      BY <1>2, <1>12
    <3>1. currentItems = <<>> /\ (loaded => "get" \in early)
      BY <1>4
    <3>2. currentItems' = currentItems
      BY Zenon, <1>13
    <3> QED BY <3>1, <3>2
  <2>3. "reload" \in Kinds' => loaded'
    BY <1>2, <1>4, <1>12
  <2> QED BY <2>1, <2>2, <2>3 DEF OneBatch
<1>17. NotLoaded'
  <2>1. ~loaded => \A i \in DOMAIN up' : up'[i].method \in {"list", "get"}
    BY <1>3, <1>11, UpSend DEF IInv, NotLoaded
  <2> QED BY <1>1, <1>2, <1>14, <2>1 DEF IInv, NotLoaded
<1>18. Counts(m.kind)' <=> Counts(m.kind)
  BY <1>2 DEF Counts
<1>19. \A i \in DOMAIN items : items[i].id \in Nat
  <2>1. \A i \in DOMAIN items : items[i] \in Item
    BY Zenon, <1>7 DEF Concats
  <2> QED BY Zenon, <1>3, <2>1, IdFacts DEF Item
<1>20. Counts(m.kind) => UpTo(items, r.start) /\ Distinct(items)
  <2> SUFFICES ASSUME Ascending(items) PROVE UpTo(items, r.start) /\ Distinct(items)
    BY <1>4
  <2>1. UpTo(items, r.start)
    <3> SUFFICES ASSUME NEW i \in DOMAIN items PROVE items[i].id <= r.start
      BY Zenon DEF UpTo
    <3>1. last \in DOMAIN items /\ last \in Nat /\ i \in Nat /\ i <= last /\ r.start = items[last].id
      BY Zenon, <1>9, <1>11
    <3>2. items[i].id \in Nat /\ items[last].id \in Nat
      BY Zenon, <1>19, <3>1
    <3>3. i = last \/ i < last
      BY <3>1
    <3>4. i < last => items[i].id < items[last].id
      BY Zenon, <3>1 DEF Ascending
    <3> QED BY <3>1, <3>2, <3>3, <3>4
  <2>2. Distinct(items)
    <3> SUFFICES ASSUME NEW i \in DOMAIN items, NEW j \in DOMAIN items, items[i].id = items[j].id
                 PROVE  i = j
      BY Zenon DEF Distinct
    <3>1. items[i].id \in Nat /\ items[j].id \in Nat
      BY Zenon, <1>19
    <3>2. ~(items[i].id < items[j].id) /\ ~(items[j].id < items[i].id)
      BY <3>1
    <3>3. ~(i < j) /\ ~(j < i)
      BY Zenon, <3>2 DEF Ascending
    <3>4. i \in Nat /\ j \in Nat
      BY <1>9
    <3> QED BY <3>3, <3>4
  <2> QED BY <2>1, <2>2
<1>21. InOrder'
  <2>1. Ascending(currentItems)'
    <3>1. m.kind = "reload" => Ascending(items)
      BY <1>4 DEF Counts
    <3> QED BY Zenon, <1>13, <3>1 DEF IInv, InOrder, Ascending
  <2>2. "get" \notin early => Distinct(list'.items) /\ (~loaded => Ascending(list'.items))
    BY Zenon, <1>4, <1>13, <1>20 DEF IInv, InOrder, Counts
  <2>3. Array(r.kind)' = items
    BY Zenon, <1>11, <1>13 DEF Array
  <2>4. Counts(r.kind)' => UpTo(Array(r.kind), r.start)'
    BY Zenon, <1>11, <1>18, <1>20, <2>3 DEF UpTo
  <2> QED BY <1>2, <1>12, <2>1, <2>2, <2>4 DEF InOrder, Distinct, Ascending
<1>22. CreationsInOrder'
  BY <1>2, <1>4, TakenCreations
<1>23. ActiveListed'
  BY Zenon, <1>14 DEF IInv, ActiveListed, Ids
<1>24. RowsReal'
  <2>1. \A i \in DOMAIN list'.items : Real(list.items[i])'
    <3> TAKE i \in DOMAIN list'.items
    <3>1. PICK item : item = list'.items[i]
      OBVIOUS
    <3>2. Real(item)
      BY Zenon, <1>4, <1>13, <3>1 DEF IInv, RowsReal
    <3> QED BY <1>1, <3>1, <3>2
  <2>2. \A i \in DOMAIN currentItems' : Real(currentItems[i])'
    <3> TAKE i \in DOMAIN currentItems'
    <3>1. PICK item : item = currentItems'[i]
      OBVIOUS
    <3>2. Real(item)
      BY Zenon, <1>4, <1>13, <3>1 DEF IInv, RowsReal
    <3> QED BY <1>1, <3>1, <3>2
  <2>3. \A p : RowsOf(down[p])' = RowsOf(down'[p])
    BY DEF RowsOf
  <2>4. \A k : RowsOf(actionQueue[k])' = RowsOf(actionQueue[k])
    BY <1>2 DEF RowsOf
  <2>5. \A i \in DOMAIN up' : up'[i].method # "list" => up'[i].id \in DOMAIN db'
    BY <1>1, <1>3, <1>11, UpSend DEF IInv, RowsReal
  <2> QED BY <1>1, <1>2, <2>1, <2>2, <2>3, <2>4, <2>5 DEF IInv, RowsReal
<1>25. DeletionsReal'
  BY <1>1, <1>2 DEF IInv, DeletionsReal
<1>26. Regular' <=> Regular
  BY <1>2 DEF Regular
<1>27. Under'
  BY <1>1, <1>2, <1>4, <1>12, <1>26 DEF IInv, Under
<1>28. /\ \A k : Later(k, 0) \subseteq Later(k, 0)' \union {m}
       /\ \A k : \A p \in Nat : Later(k, p + 1) \subseteq Later(k, p)'
  BY Zenon, <1>2, <1>3, LaterTake
<1>29. Later(0, 1) \subseteq Later(0, 0)'
  BY <1>28
<1>30. ItemsSettled'
  <2> SUFFICES ASSUME Regular PROVE ItemsSettled'
    BY <1>26 DEF ItemsSettled
  <2>1. \A id : ~Corrects(m, id)
    BY DEF Corrects
  <2>2. ASSUME NEW item, NEW k, Settled(item, k, 0) PROVE Settled(item, k, 0)'
    BY <1>1, <1>28, <2>1, <2>2, Settles
  <2>3. ASSUME NEW item, NEW k, NEW p \in Nat, Settled(item, k, p + 1) PROVE Settled(item, k, p)'
    BY <1>1, <1>28, <2>3, Settles
  <2>4. \A i \in DOMAIN items : Settled(items[i], 0, 0)'
    <3> TAKE i \in DOMAIN items
    <3>1. Settled(items[i], 0, 1)
      BY Zenon, <1>4 DEF Settled
    <3> QED BY <1>1, <1>29, <3>1, Settles
  <2>5. ASSUME Followed', NEW i \in DOMAIN list'.items PROVE Settled(list.items[i], 0, 0)'
    <3>1. m.kind = "load"
      BY <1>2, <1>4, <2>5 DEF Followed, Tracking
    <3>2. PICK item : item = list'.items[i]
      OBVIOUS
    <3>3. Settled(item, 0, 0)'
      BY Zenon, <1>13, <2>4, <3>1, <3>2
    <3> QED BY <3>2, <3>3
  <2>6. \A i \in DOMAIN currentItems' : Settled(currentItems[i], 0, 0)'
    <3> TAKE i \in DOMAIN currentItems'
    <3>1. PICK item : item = currentItems'[i]
      OBVIOUS
    <3>2. Settled(item, 0, 0)'
      <4>1. CASE m.kind = "load"
        <5>1. currentItems' = <<>>
          BY Zenon, <1>4, <1>13, <4>1
        <5> QED BY <5>1
      <4>2. CASE m.kind = "reload"
        <5>1. currentItems' = items
          BY Zenon, <1>13, <4>2
        <5> QED BY Zenon, <2>4, <3>1, <5>1
      <4> QED BY Zenon, <1>13, <4>1, <4>2
    <3> QED BY <3>1, <3>2
  <2>7. \A k \in DOMAIN actionQueue : \A item \in RowsOf(actionQueue[k]) : Settled(item, k, 0)'
    BY <2>2 DEF IInv, ItemsSettled
  <2>8. \A p \in DOMAIN down' : \A item \in RowsOf(down'[p]) : Settled(item, Len(actionQueue), p)'
    <3> TAKE p \in DOMAIN down'
    <3>1. PICK n : n = Len(actionQueue)
      BY Zenon
    <3>2. \A item \in RowsOf(down[p + 1]) : Settled(item, n, p + 1)
      BY <1>1, <3>1 DEF IInv, ItemsSettled
    <3>3. \A item \in RowsOf(down[p + 1]) : Settled(item, n, p)'
      BY <1>1, <2>3, <3>2
    <3>4. n = Len(actionQueue') /\ down'[p] = down[p + 1]
      BY <1>1, <1>2, <3>1
    <3> QED BY <3>3, <3>4
  <2> QED BY <1>2, <2>5, <2>6, <2>7, <2>8 DEF ItemsSettled, RowsOf
<1>31. NoneMissed'
  <2> SUFFICES ASSUME Regular, NEW id \in Present
               PROVE  \/ id \in Ids(IF loaded THEN currentItems ELSE list.items)'
                      \/ OnItsWay(id)' \/ ToCome(id)'
    BY <1>1, <1>2, <1>4, <1>26 DEF NoneMissed, Tracking
  <2>1. Ids(IF loaded THEN currentItems ELSE list.items)' = Ids(items)
    <3>1. loaded <=> m.kind = "reload"
      BY <1>4 DEF Regular
    <3>2. (IF loaded THEN currentItems ELSE list.items)' = items
      BY Zenon, <1>2, <1>13, <3>1
    <3> QED BY Zenon, <3>2 DEF Ids
  <2>2. ToBeAnnounced(id) => ToBeAnnounced(id)'
    BY <1>1 DEF ToBeAnnounced, Creations
  <2>3. ASSUME NEW a \in Later(0, 1), Brings(a, id) PROVE a \in Later(0, 0)' /\ Brings(a, id)'
    BY <1>29, <2>3 DEF Brings, Ids
  <2>4. ASSUME \A i \in DOMAIN m.page : m.page[i].id < id PROVE ToCome(id)'
    <3>1. r.start < id
      BY <1>9, <1>11, <2>4
    <3> QED BY <1>12, <3>1 DEF ToCome
  <2> QED BY <1>4, <2>1, <2>2, <2>3, <2>4 DEF OnItsWay
<1>32. ActiveTold'
  BY <1>2, <1>4 DEF ActiveTold, Tracking
<1> QED BY <1>1, <1>15, <1>16, <1>17, <1>21, <1>22, <1>23, <1>24, <1>25, <1>27, <1>30, <1>31, <1>32 DEF IInv

\* What a load or reload has come to once it has processed `n` notifications of
\* its queue, starting from the list `l`.
Reached(x, l, n) ==
  /\ x.active = l.active \/ x.active = 0
  /\ ActiveIn(l) => ActiveIn(x)
  /\ \A i \in DOMAIN x.items : Real(x.items[i])
  /\ "get" \notin early => Distinct(x.items)
  /\ Regular => \A i \in DOMAIN x.items : SettledBy(x.items[i], Later(n, 1))
  /\ Regular => \A id \in Present :
       id \in Ids(x.items) \/ ToBeAnnounced(id) \/ \E a \in Later(n, 1) : Brings(a, id)

\* It processes the next one.
LEMMA ReachedNext ==
  ASSUME IInv, down # <<>>, Head(down).type = "list",
         NEW l \in List, NEW n \in 1 .. Len(actionQueue),
         NEW x \in List, Reached(x, l, n - 1),
         NEW r, r = processAction(x, actionQueue[n])
  PROVE  r \in List /\ Reached(r, l, n)
<1>1. PICK a : a = actionQueue[n]
  OBVIOUS
<1>2. actionQueue \in Seq(Notification) /\ down \in Seq(Message) /\ n \in DOMAIN actionQueue /\ n \in Nat
  BY DEF IInv, Typed
<1>3. a \in Notification /\ a.kind \in {"create", "update", "delete"}
  <2>1. a \in Notification
    BY <1>1, <1>2
  <2> QED BY <2>1, NotificationFacts
<1>4. Processes(r, x, a)
  BY <1>1, <1>3, ProcessFacts
<1>5. a.kind # "delete" => RowsOf(a) = {a.item}
  BY <1>3, NotificationFacts, RowsOfFacts
<1>6. \A item \in RowsOf(a) : Real(item)
  BY <1>1, <1>2 DEF IInv, RowsReal
<1>7. a.kind = "delete" => a.id \notin Present
  BY <1>1, <1>2 DEF IInv, DeletionsReal, Present
<1>8. Later(n - 1, 1) \subseteq Later(n, 1) \union {a}
  <2>1. \A j \in DOMAIN actionQueue : j > n - 1 => j > n \/ j = n
    BY <1>2
  <2> QED BY <1>1, <2>1 DEF Later
<1>9. ASSUME NEW item, NEW L, L = Later(n, 0), SettledBy(item, L) PROVE SettledBy(item, Later(n, 1))
  <2>1. \A q \in DOMAIN down : q > 1 \/ q = 1
    BY <1>2
  <2>2. down[1].type = "list"
    BY <1>2, TailFacts
  <2>3. \A m \in L : m \in Later(n, 1) \/ m = down[1]
    BY <1>9, <2>1 DEF Later
  <2>4. \A id : ~Corrects(down[1], id)
    BY <2>2 DEF Corrects
  <2> QED BY <1>9, <2>3, <2>4 DEF SettledBy
<1>10. \A i \in DOMAIN r.items : Real(r.items[i])
  BY <1>4, <1>5, <1>6 DEF Processes, Reached
<1>11. ASSUME Regular PROVE \A i \in DOMAIN r.items : SettledBy(r.items[i], Later(n, 1))
  <2>1. PICK L : L = Later(n, 1)
    OBVIOUS
  <2>2. \A i \in DOMAIN x.items : SettledBy(x.items[i], L \union {a})
    BY <1>8, <1>11, <2>1 DEF Reached, SettledBy
  <2>3. \A item \in RowsOf(a) : SettledBy(item, L)
    BY <1>1, <1>2, <1>9, <1>11, <2>1 DEF IInv, ItemsSettled, Settled
  <2>4. Distinct(x.items)
    BY <1>11 DEF Reached, Regular
  <2> QED BY Zenon, <1>3, <1>4, <2>1, <2>2, <2>3, <2>4, SettleStep
<1>12. ASSUME Regular, NEW id \in Present
       PROVE  id \in Ids(r.items) \/ ToBeAnnounced(id) \/ \E b \in Later(n, 1) : Brings(b, id)
  <2>1. id \in Ids(x.items) \/ ToBeAnnounced(id) \/ \E b \in Later(n - 1, 1) : Brings(b, id)
    BY <1>12 DEF Reached
  <2>2. id \in Ids(x.items) \/ Brings(a, id) => id \in Ids(r.items)
    BY <1>3, <1>4, <1>7, ShowStep
  <2> QED BY <1>8, <2>1, <2>2
<1>13. "get" \notin early => Distinct(r.items)
  BY <1>4 DEF Processes, Reached
<1>14. /\ r.active = l.active \/ r.active = 0
       /\ ActiveIn(l) => ActiveIn(r)
       /\ r \in List
  BY <1>4 DEF Processes, Reached
<1> QED BY <1>10, <1>11, <1>12, <1>13, <1>14 DEF Reached

\* It has processed the whole queue.
LEMMA ReachedAll ==
  ASSUME IInv, down # <<>>, NEW m, m = Head(down), m.type = "list", Len(m.page) # batchSize,
         NEW items, items = Array(m.kind) \o m.page,
         NEW l \in List,
         \A i \in DOMAIN l.items : \E k \in DOMAIN items : l.items[i] = items[k],
         \A k \in DOMAIN items : items[k].id \in Ids(l.items),
         Distinct(items) => Distinct(l.items),
         NEW r, r = processActions(l, actionQueue)
  PROVE  r \in List /\ Reached(r, l, Len(actionQueue))
<1>1. actionQueue \in Seq(Notification) /\ Len(actionQueue) \in Nat /\ Typed
  BY DEF IInv, Typed
<1>2. /\ items \in Seq(Item) /\ m.kind \in {"load", "reload"}
      /\ Counts(m.kind) => Ascending(items)
      /\ \A i \in DOMAIN items : Real(items[i])
      /\ Regular => \A i \in DOMAIN items : SettledBy(items[i], Later(0, 1))
      /\ Regular => \A id \in Present :
           \/ id \in Ids(items)
           \/ ToBeAnnounced(id) \/ \E n \in Later(0, 1) : Brings(n, id)
           \/ Len(m.page) = batchSize /\ \A i \in DOMAIN m.page : m.page[i].id < id
  BY Zenon, BatchFacts
<1>3. "get" \notin early => Distinct(items)
  <2> SUFFICES ASSUME Ascending(items), NEW i \in DOMAIN items, NEW j \in DOMAIN items,
                      items[i].id = items[j].id
               PROVE  i = j
    BY Zenon, <1>2 DEF Counts, Distinct
  <2>1. items[i].id \in Nat /\ items[j].id \in Nat
    BY Zenon, <1>1, <1>2, IdFacts DEF Real
  <2>2. ~(items[i].id < items[j].id) /\ ~(items[j].id < items[i].id)
    BY <2>1
  <2>3. ~(i < j) /\ ~(j < i)
    BY Zenon, <2>2 DEF Ascending
  <2>4. i \in Nat /\ j \in Nat
    <3>1. \A s \in Seq(Item) : \A k \in DOMAIN s : k \in Nat
      OBVIOUS
    <3> QED BY Zenon, <1>2, <3>1, Zenon
  <2> QED BY <2>3, <2>4
<1>4. Reached(l, l, 0)
  <2>1. \A x \in Ids(items) : x \in Ids(l.items)
    BY Zenon DEF Ids
  <2>2. \A i \in DOMAIN l.items : Real(l.items[i])
    BY Zenon, <1>2
  <2>3. Regular => \A i \in DOMAIN l.items : SettledBy(l.items[i], Later(0, 1))
    BY Zenon, <1>2
  <2>4. Regular => \A id \in Present :
          id \in Ids(l.items) \/ ToBeAnnounced(id) \/ \E a \in Later(0, 1) : Brings(a, id)
    BY <1>2, <2>1
  <2> QED BY <1>3, <2>2, <2>3, <2>4 DEF Reached
<1>5. PICK G : G = [n \in 0 .. Len(actionQueue) |-> {x \in List : Reached(x, l, n)}]
  BY Zenon
<1>6. \A n \in 0 .. Len(actionQueue) : \A x : x \in G[n] <=> x \in List /\ Reached(x, l, n)
  BY <1>5
<1>7. 0 \in 0 .. Len(actionQueue) /\ Len(actionQueue) \in 0 .. Len(actionQueue)
  BY <1>1
<1>8. l \in G[0]
  BY <1>4, <1>6, <1>7
<1>9. ASSUME NEW n \in 1 .. Len(actionQueue), NEW x \in List, x \in G[n - 1]
      PROVE  processAction(x, actionQueue[n]) \in G[n]
  <2>1. n - 1 \in 0 .. Len(actionQueue) /\ n \in 0 .. Len(actionQueue)
    BY <1>1
  <2>2. Reached(x, l, n - 1)
    BY <1>6, <1>9, <2>1
  <2>3. PICK y : y = processAction(x, actionQueue[n])
    OBVIOUS
  <2>4. y \in List /\ Reached(y, l, n)
    BY <2>2, <2>3, ReachedNext
  <2> QED BY <1>6, <2>1, <2>3, <2>4
<1>10. r \in G[Len(actionQueue)] /\ r \in List
  BY <1>1, <1>8, <1>9, ProcessedIn
<1> QED BY <1>6, <1>7, <1>10

\* The last batch arrives, and the queue is processed.
LEMMA LastBatchStep ==
  ASSUME IInv, down # <<>>, down' = Tail(down),
         UNCHANGED <<region, connection, autoReload, lost, early>>,
         NEW m, m = Head(down), m.type = "list",
         NEW l \in List, NEW r \in List, Reached(r, l, Len(actionQueue)),
         list' \in List, list'.items = r.items, ActiveIn(list'),
         \/ up' = up /\ (Regular => list'.active = 0)
         \/ list'.active # 0 /\ up' = Append(up, [method |-> "set_active", id |-> list'.active]),
         loaded' = TRUE, isLoading' = FALSE, currentItems' = <<>>, actionQueue' = <<>>
  PROVE  IInv'
<1>1. /\ Cut' /\ Present' = Present /\ db' = db /\ changes' = changes
      /\ connected' = connected /\ opening' = opening /\ connected
      /\ regionActive' = regionActive /\ changed' = changed
      /\ m \in Message /\ down' \in Seq(Message)
      /\ \A p \in DOMAIN down' : p + 1 \in DOMAIN down /\ down'[p] = down[p + 1] /\ p \in Nat
      /\ \A item : Real(item) => Real(item)'
      /\ \A p \in DOMAIN down' : \A item \in RowsOf(down'[p]) : Real(item)'
      /\ \A p \in DOMAIN down' :
           down'[p].type = "delete" \/ (down'[p].type = "notify" /\ down'[p].kind = "delete") =>
             down'[p].id \in DOMAIN db' /\ db'[down'[p].id] = 0
  BY TakenFacts
<1>2. autoReload' = autoReload /\ lost' = lost /\ early' = early
  OBVIOUS
<1>3. /\ down \in Seq(Message) /\ up \in Seq(Request) /\ actionQueue \in Seq(Notification) /\ Typed
  BY DEF IInv, Typed
<1>4. Requests = {} /\ Batches = {m} /\ isLoading
  <2>1. PICK items : items = Array(m.kind) \o m.page
    BY Zenon
  <2> QED BY Zenon, <2>1, BatchFacts
<1>5. Batches' = {} /\ OneSent'
  BY <1>3, DownTake DEF IInv, OneBatch
<1>6. PICK q : q = [method |-> "set_active", id |-> list'.active]
  OBVIOUS
<1>7. q.method = "set_active" /\ q.id = list'.active
  BY <1>6
<1>8. up' = up \/ (list'.active # 0 /\ up' = Append(up, q))
  BY <1>6
<1>9. Requests' = {} /\ OneAsked'
  <2>1. CASE up' = up
    BY <1>4, <2>1 DEF IInv, OneBatch, Requests, OneAsked, Asked
  <2>2. CASE up' = Append(up, q)
    BY <1>3, <1>4, <1>7, <2>2, UpSend DEF IInv, OneBatch
  <2> QED BY <1>8, <2>1, <2>2
<1>10. Kinds' = {}
  BY <1>5, <1>9 DEF Kinds
<1>11. \A i \in DOMAIN list'.items : Real(list'.items[i])
  BY DEF Reached
<1>12. list'.active # 0 => list'.active \in DOMAIN db /\ q \in Request
  <2> SUFFICES ASSUME list'.active # 0 PROVE list'.active \in DOMAIN db /\ q \in Request
    OBVIOUS
  <2>1. list'.active \in Ids(list'.items)
    BY DEF ActiveIn
  <2>2. list'.active \in DOMAIN db
    BY <1>11, <2>1 DEF Real, Ids
  <2>3. list'.active \in Id
    BY <1>3, <2>2, IdFacts
  <2>4. q \in Request
    BY <1>6, <2>3 DEF Request, ItemRequest
  <2> QED BY <2>2, <2>4
<1>13. Typed'
  <2>1. up' \in Seq(Request)
    <3>1. CASE up' = up
      BY <1>3, <3>1
    <3>2. CASE list'.active # 0 /\ up' = Append(up, q)
      <4>1. q \in Request
        BY <1>12, <3>2
      <4> QED BY <1>3, <3>2, <4>1
    <3> QED BY <1>8, <3>1, <3>2
  <2>2. list' \in [items: Seq(Item), active: Id \union {0}]
    BY DEF List
  <2>3. currentItems' \in Seq(Item) /\ actionQueue' \in Seq(Notification)
    OBVIOUS
  <2> QED BY Zenon, <1>1, <1>2, <1>3, <2>1, <2>2, <2>3 DEF Typed
<1>14. OneBatch'
  BY <1>5, <1>9, <1>10 DEF OneBatch
<1>15. NotLoaded'
  BY DEF NotLoaded
<1>16. InOrder'
  <2>1. "get" \notin early => Distinct(r.items)
    BY DEF Reached
  <2> QED BY <1>2, <1>5, <1>9, <2>1 DEF InOrder, Distinct, Ascending
<1>17. CreationsInOrder'
  BY TakenCreations
<1>18. ActiveListed'
  BY DEF ActiveListed, ActiveIn, Ids
<1>19. RowsReal'
  <2>1. \A i \in DOMAIN list'.items : Real(list.items[i])'
    <3> TAKE i \in DOMAIN list'.items
    <3>1. PICK item : item = list'.items[i]
      OBVIOUS
    <3>2. Real(item)
      BY <1>11, <3>1
    <3> QED BY <1>1, <3>1, <3>2
  <2>2. \A p : RowsOf(down[p])' = RowsOf(down'[p])
    BY DEF RowsOf
  <2>3. \A i \in DOMAIN up' : up'[i].method # "list" => up'[i].id \in DOMAIN db'
    <3>1. \A i \in DOMAIN up : up[i].method # "list" => up[i].id \in DOMAIN db'
      BY <1>1 DEF IInv, RowsReal
    <3>2. CASE up' = up
      BY <3>1, <3>2
    <3>3. CASE list'.active # 0 /\ up' = Append(up, q)
      BY <1>1, <1>3, <1>7, <1>12, <3>1, <3>3, UpSend
    <3> QED BY <1>8, <3>2, <3>3
  <2> QED BY <1>1, <2>1, <2>2, <2>3 DEF RowsReal
<1>20. DeletionsReal'
  BY <1>1 DEF IInv, DeletionsReal
<1>21. Regular' <=> Regular
  BY <1>2 DEF Regular
<1>22. Under'
  BY <1>1, <1>2, <1>4, <1>21 DEF IInv, Under
<1>23. \A p \in Nat : Later(Len(actionQueue), p + 1) \subseteq Later(0, p)'
  BY <1>3, LaterFlush
<1>24. Later(Len(actionQueue), 1) \subseteq Later(0, 0)'
  BY <1>23
<1>25. ItemsSettled'
  <2> SUFFICES ASSUME Regular PROVE ItemsSettled'
    BY <1>21 DEF ItemsSettled
  <2>1. \A i \in DOMAIN list'.items : Settled(list.items[i], 0, 0)'
    <3> TAKE i \in DOMAIN list'.items
    <3>1. PICK item : item = list'.items[i]
      OBVIOUS
    <3>2. PICK n : n = Len(actionQueue)
      OBVIOUS
    <3>3. Settled(item, n, 1)
      BY <3>1, <3>2 DEF Reached, Settled
    <3>4. Settled(item, 0, 0)'
      BY <1>1, <1>24, <3>2, <3>3, Settles
    <3> QED BY <3>1, <3>4
  <2>2. \A p \in DOMAIN down' : \A item \in RowsOf(down'[p]) : Settled(item, 0, p)'
    <3> TAKE p \in DOMAIN down'
    <3>1. PICK n : n = Len(actionQueue)
      OBVIOUS
    <3>2. \A item \in RowsOf(down[p + 1]) : Settled(item, n, p + 1)
      BY <1>1, <3>1 DEF IInv, ItemsSettled
    <3>3. Later(n, p + 1) \subseteq Later(0, p)'
      BY <1>1, <1>23, <3>1
    <3>4. \A item \in RowsOf(down[p + 1]) : Settled(item, 0, p)'
      BY <1>1, <3>2, <3>3, Settles
    <3> QED BY <1>1, <3>4
  <2>3. \A p \in DOMAIN down' : \A item \in RowsOf(down'[p]) : Settled(item, Len(actionQueue), p)'
    <3>1. Len(actionQueue') = 0
      OBVIOUS
    <3> QED BY <2>2, <3>1
  <2> QED BY <2>1, <2>3 DEF ItemsSettled, RowsOf
<1>26. NoneMissed'
  <2> SUFFICES ASSUME Regular, NEW id \in Present
               PROVE  id \in Ids(list'.items) \/ OnItsWay(id)'
    BY <1>1, <1>21 DEF NoneMissed, Ids
  <2>1. \/ id \in Ids(r.items) \/ ToBeAnnounced(id)
        \/ \E a \in Later(Len(actionQueue), 1) : Brings(a, id)
    BY DEF Reached
  <2>2. ToBeAnnounced(id) => ToBeAnnounced(id)'
    BY <1>1 DEF ToBeAnnounced, Creations
  <2>3. \A a \in Later(Len(actionQueue), 1) : Brings(a, id) => a \in Later(0, 0)' /\ Brings(a, id)'
    BY <1>24 DEF Brings, Ids
  <2> QED BY <2>1, <2>2, <2>3 DEF OnItsWay
<1>27. ActiveTold'
  <2> SUFFICES ASSUME Regular, list'.active # 0
               PROVE  \E i \in Told' : up'[i].id = list'.active /\ \A j \in Told' : j <= i
    BY <1>21 DEF ActiveTold
  <2>1. up' = Append(up, q)
    BY <1>6
  <2>2. /\ \A i \in DOMAIN up' : i \in DOMAIN up \/ i = Len(up) + 1
        /\ \A i \in DOMAIN up : i < Len(up) + 1 /\ i \in Nat
        /\ Len(up) + 1 \in DOMAIN up' /\ up'[Len(up) + 1] = q /\ Len(up) \in Nat
    BY <1>3, <2>1, AppendFacts
  <2>3. Len(up) + 1 \in Told' /\ up'[Len(up) + 1].id = list'.active
    BY <1>7, <2>2 DEF Told
  <2>4. \A j \in Told' : j <= Len(up) + 1
    BY <2>2 DEF Told
  <2> QED BY <2>3, <2>4
<1> QED BY <1>1, <1>13, <1>14, <1>15, <1>16, <1>17, <1>18, <1>19, <1>20, <1>22, <1>25, <1>26, <1>27 DEF IInv

\* The last batch of a load arrives.
LEMMA LoadedStep ==
  ASSUME IInv, down # <<>>, down' = Tail(down),
         UNCHANGED <<region, connection, autoReload, lost, early>>,
         NEW m, m = Head(down), m.type = "list", m.kind = "load", Len(m.page) # batchSize,
         NEW items, items = Array(m.kind) \o m.page,
         Loaded(items), isLoading' = FALSE, actionQueue' = <<>>
  PROVE  IInv'
<1>1. /\ items \in Seq(Item) /\ m.page \in Seq(Item)
      /\ currentItems = <<>> /\ (loaded => "get" \in early)
  BY Zenon, BatchFacts
<1>2. list \in List /\ list.items \in Seq(Item)
  BY DEF IInv, Typed, List
<1>3. PICK l : l = [list EXCEPT !.items = items]
  BY Zenon
<1>4. l \in List /\ l.items = items /\ l.active = list.active
  BY Zenon, <1>1, <1>2, <1>3 DEF List
<1>5. PICK r : r = processActions(l, actionQueue)
  OBVIOUS
<1>6. r \in List /\ Reached(r, l, Len(actionQueue))
  <2>1. \A i \in DOMAIN l.items : \E k \in DOMAIN items : l.items[i] = items[k]
    BY <1>4
  <2>2. \A k \in DOMAIN items : items[k].id \in Ids(l.items)
    BY <1>4 DEF Ids
  <2>3. Distinct(items) => Distinct(l.items)
    BY <1>4
  <2> QED BY Zenon, <1>4, <1>5, <2>1, <2>2, <2>3, ReachedAll
<1>7. ActiveIn(r)
  <2>1. Concats(items, list.items, m.page)
    <3>1. items = list.items \o m.page
      BY DEF Array
    <3> QED BY Zenon, <1>1, <1>2, <3>1, ConcatFacts
  <2>2. \A i \in DOMAIN list.items : \E k \in DOMAIN items : list.items[i].id = items[k].id
    BY Zenon, <2>1 DEF Concats
  <2>3. ASSUME NEW x \in Ids(list.items) PROVE x \in Ids(items)
    <3>1. PICK i \in DOMAIN list.items : x = list.items[i].id
      BY <2>3 DEF Ids
    <3>2. PICK k \in DOMAIN items : x = items[k].id
      BY <2>2, <3>1
    <3> QED BY <3>2 DEF Ids
  <2>4. ActiveIn(l)
    BY <1>4, <2>3 DEF ActiveIn, IInv, ActiveListed
  <2> QED BY <1>6, <2>4 DEF Reached
<1>8. Regular => r.active = 0
  BY <1>1, <1>4, <1>6 DEF Reached, Regular, IInv, NotLoaded
<1>9. list' = r /\ loaded' = TRUE /\ up' = up /\ currentItems' = <<>>
  BY <1>1, <1>3, <1>5 DEF Loaded
<1> QED BY Zenon, <1>4, <1>6, <1>7, <1>8, <1>9, LastBatchStep

\* The last batch of a reload arrives.
LEMMA ReloadedStep ==
  ASSUME IInv, down # <<>>, down' = Tail(down),
         UNCHANGED <<region, connection, autoReload, lost, early>>,
         NEW m, m = Head(down), m.type = "list", m.kind = "reload", Len(m.page) # batchSize,
         NEW items, items = Array(m.kind) \o m.page,
         Reloaded(items), isLoading' = FALSE, actionQueue' = <<>>
  PROVE  IInv'
<1>1. items \in Seq(Item) /\ loaded
  BY Zenon, BatchFacts
<1>2. list \in List /\ connected
  BY DEF IInv, Typed, List, Cut
<1>3. PICK l : l = updateItems(list, items)
  OBVIOUS
<1>4. Updates(l, list, items)
  BY Zenon, <1>1, <1>2, <1>3, UpdateFacts
<1>5. l \in List
  BY <1>4 DEF Updates
<1>6. PICK r : r = processActions(l, actionQueue)
  OBVIOUS
<1>7. r \in List /\ Reached(r, l, Len(actionQueue))
  <2>1. /\ \A i \in DOMAIN l.items : \E k \in DOMAIN items : l.items[i] = items[k]
        /\ \A k \in DOMAIN items : items[k].id \in Ids(l.items)
        /\ Distinct(items) => Distinct(l.items)
    BY <1>4 DEF Updates
  <2> QED BY Zenon, <1>5, <1>6, <2>1, ReachedAll
<1>8. loaded' = TRUE /\ currentItems' = <<>>
  BY <1>1 DEF Reloaded, IInv, Typed
<1>9. \/ r.active # 0 /\ setActiveItem(r, r.active)
      \/ r.active = 0 /\ list' = r /\ up' = up
  BY <1>3, <1>6 DEF Reloaded
<1>10. CASE r.active = 0 /\ list' = r /\ up' = up
  <2>1. ActiveIn(list')
    BY <1>10 DEF ActiveIn
  <2> QED BY Zenon, <1>5, <1>7, <1>8, <1>10, <2>1, LastBatchStep
<1>11. CASE r.active # 0 /\ setActiveItem(r, r.active)
  <2>1. CASE r.active \in Ids(r.items)
    <3>1. list' = r
      BY <1>7, <1>11, <2>1 DEF setActiveItem, List
    <3>2. up' = Append(up, [method |-> "set_active", id |-> r.active])
      BY <1>2, <1>11, <2>1 DEF setActiveItem, callMethod
    <3>3. ActiveIn(list')
      BY <2>1, <3>1 DEF ActiveIn
    <3> QED BY Zenon, <1>5, <1>7, <1>8, <1>11, <3>1, <3>2, <3>3, LastBatchStep
  <2>2. CASE r.active \notin Ids(r.items)
    <3>1. list' = [r EXCEPT !.active = 0] /\ up' = up
      BY <1>11, <2>2 DEF setActiveItem
    <3>2. list'.items = r.items /\ list'.active = 0 /\ list' \in List
      BY Zenon, <1>7, <3>1 DEF List
    <3>3. ActiveIn(list')
      BY <3>2 DEF ActiveIn
    <3> QED BY Zenon, <1>5, <1>7, <1>8, <3>1, <3>2, <3>3, LastBatchStep
  <2> QED BY <2>1, <2>2
<1> QED BY <1>9, <1>10, <1>11

\* A message arrives.
LEMMA MessageStep ==
  ASSUME IInv, onMessage
  PROVE  IInv'
<1>1. PICK m : m = Head(down)
  OBVIOUS
<1>2. /\ down # <<>> /\ down' = Tail(down) /\ UNCHANGED <<region, connection, autoReload>>
  BY DEF onMessage
<1>3. CASE m.type \notin {"list", "notify"}
  BY <1>1, <1>3, ItemMessagesStep
<1>4. CASE m.type = "notify"
  BY <1>1, <1>4, NotificationsStep
<1>5. CASE m.type = "list"
  <2>1. HandleList(m) /\ lost' = lost /\ early' = early
    BY <1>1, <1>5 DEF onMessage, history
  <2>2. PICK items : items = Array(m.kind) \o m.page
    BY Zenon
  <2>3. items = (IF m.kind = "load" THEN list.items ELSE currentItems) \o m.page
    BY <2>2 DEF Array
  <2>4. \/ /\ Len(m.page) = batchSize
           /\ callLoad(m.kind, items)
           /\ \/ m.kind = "load" /\ list' = [list EXCEPT !.items = items] /\ UNCHANGED currentItems
              \/ m.kind = "reload" /\ currentItems' = items /\ UNCHANGED list
           /\ UNCHANGED <<loaded, isLoading, actionQueue>>
        \/ /\ Len(m.page) # batchSize
           /\ isLoading' = FALSE
           /\ actionQueue' = <<>>
           /\ \/ m.kind = "load" /\ Loaded(items)
              \/ m.kind = "reload" /\ Reloaded(items)
    BY Zenon, <2>1, <2>3 DEF HandleList
  <2>5. CASE /\ Len(m.page) = batchSize
             /\ callLoad(m.kind, items)
             /\ \/ m.kind = "load" /\ list' = [list EXCEPT !.items = items] /\ UNCHANGED currentItems
                \/ m.kind = "reload" /\ currentItems' = items /\ UNCHANGED list
             /\ UNCHANGED <<loaded, isLoading, actionQueue>>
    BY Zenon, <1>1, <1>2, <1>5, <2>1, <2>2, <2>5, BatchStep
  <2>6. CASE Len(m.page) # batchSize /\ isLoading' = FALSE /\ actionQueue' = <<>>
             /\ m.kind = "load" /\ Loaded(items)
    BY Zenon, <1>1, <1>2, <1>5, <2>1, <2>2, <2>6, LoadedStep
  <2>7. CASE Len(m.page) # batchSize /\ isLoading' = FALSE /\ actionQueue' = <<>>
             /\ m.kind = "reload" /\ Reloaded(items)
    BY Zenon, <1>1, <1>2, <1>5, <2>1, <2>2, <2>7, ReloadedStep
  <2> QED BY Zenon, <2>4, <2>5, <2>6, <2>7
<1> QED BY <1>3, <1>4, <1>5

-----------------------------------------------------------------------------
(* The connection.                                                           *)

\* The connection is lost.
LEMMA DisconnectStep ==
  ASSUME IInv, Disconnect
  PROVE  IInv'
<1>1. /\ connected' = FALSE /\ opening' = opening /\ up' = <<>> /\ down' = <<>>
      /\ regionActive' = 0 /\ lost' = (lost \/ isLoading \/ opening)
      /\ loaded' = loaded /\ isLoading' = isLoading /\ currentItems' = currentItems
      /\ list' = list /\ autoReload' = autoReload /\ actionQueue' = actionQueue
      /\ early' = early /\ db' = db /\ changes' = changes /\ changed' = changed
  BY DEF Disconnect, loading
<1>2. Requests' = {} /\ Batches' = {} /\ OneAsked' /\ OneSent' /\ Kinds' = {}
  BY <1>1 DEF Requests, Batches, Asked, Sent, OneAsked, OneSent, Kinds
<1>3. Typed'
  <2>1. up' \in Seq(Request) /\ down' \in Seq(Message)
    BY <1>1
  <2>2. lost' \in BOOLEAN /\ regionActive' \in Id \union {0}
    BY <1>1 DEF IInv, Typed
  <2> QED BY Zenon, <1>1, <2>1, <2>2 DEF IInv, Typed
<1>4. OneBatch'
  BY <1>1, <1>2 DEF IInv, OneBatch
<1>5. Cut' /\ NotLoaded'
  BY <1>1 DEF IInv, NotLoaded, Cut
<1>6. InOrder'
  BY <1>1, <1>2 DEF IInv, InOrder, Ascending, Distinct
<1>7. Created' = {} /\ Creations' = Creations
  BY <1>1 DEF Created, Creations
<1>8. CreationsInOrder'
  BY <1>1, <1>7 DEF IInv, CreationsInOrder
<1>9. ActiveListed'
  BY <1>1 DEF IInv, ActiveListed, Ids
<1>10. RowsReal'
  <2>1. \A item : Real(item) => Real(item)'
    BY <1>1, RealKept
  <2>2. \A k : RowsOf(actionQueue[k])' = RowsOf(actionQueue[k])
    BY <1>1 DEF RowsOf
  <2>3. \A i \in DOMAIN list'.items : Real(list.items[i])'
    BY <1>1, <2>1 DEF IInv, RowsReal, Real
  <2>4. \A i \in DOMAIN currentItems' : Real(currentItems[i])'
    BY <1>1, <2>1 DEF IInv, RowsReal, Real
  <2> QED BY <1>1, <2>1, <2>2, <2>3, <2>4 DEF IInv, RowsReal
<1>11. DeletionsReal'
  BY <1>1 DEF IInv, DeletionsReal
<1>12. Regular' => Regular /\ ~isLoading /\ ~opening
  BY <1>1 DEF Regular, IInv, Typed
<1>13. Under'
  BY <1>1, <1>12 DEF IInv, Under
<1>14. ~Tracking'
  BY <1>1 DEF Tracking
<1>15. ItemsSettled'
  <2>1. Regular' => actionQueue' = <<>> /\ currentItems' = <<>> /\ ~Followed'
    BY <1>1, <1>12, <1>14 DEF IInv, OneBatch, Followed
  <2> QED BY <1>1, <2>1 DEF ItemsSettled
<1>16. NoneMissed' /\ ActiveTold'
  BY <1>1, <1>12, <1>14 DEF NoneMissed, ActiveTold
<1> QED BY <1>3, <1>4, <1>5, <1>6, <1>8, <1>9, <1>10, <1>11, <1>13, <1>15, <1>16 DEF IInv

\* The connection opens again.
LEMMA ReconnectStep ==
  ASSUME IInv, Reconnect
  PROVE  IInv'
<1>1. /\ ~connected /\ connected' = TRUE /\ opening' = TRUE /\ up' = up /\ down' = down
      /\ regionActive' = regionActive
      /\ loaded' = loaded /\ isLoading' = isLoading /\ currentItems' = currentItems
      /\ list' = list /\ autoReload' = autoReload /\ actionQueue' = actionQueue
      /\ lost' = lost /\ early' = early /\ db' = db /\ changes' = changes /\ changed' = changed
  BY DEF Reconnect, loading, region, history
<1>2. SameBatches
  BY <1>1, BatchesKept DEF IInv
<1>3. Typed'
  BY <1>1 DEF IInv, Typed
<1>4. OneBatch'
  BY <1>1, <1>2, OneBatchKept DEF IInv
<1>5. Cut' /\ NotLoaded'
  BY <1>1 DEF IInv, NotLoaded, Cut
<1>6. InOrder'
  <2>1. SameIds(list'.items, list.items)
    BY <1>1 DEF SameIds
  <2> QED BY <1>1, <1>2, <2>1, InOrderKept DEF IInv
<1>7. Created' = Created /\ Creations' = Creations
  BY <1>1 DEF Created, Creations
<1>8. CreationsInOrder'
  BY <1>1, <1>7 DEF IInv, CreationsInOrder
<1>9. ActiveListed'
  BY <1>1 DEF IInv, ActiveListed, Ids
<1>10. RowsReal'
  <2>1. \A item : Real(item)' <=> Real(item)
    BY <1>1 DEF Real
  <2>2. \A k : RowsOf(actionQueue[k])' = RowsOf(actionQueue[k])
    BY <1>1 DEF RowsOf
  <2>3. \A p : RowsOf(down[p])' = RowsOf(down[p])
    BY <1>1 DEF RowsOf
  <2>4. \A i \in DOMAIN list'.items : Real(list.items[i])'
    BY <1>1 DEF IInv, RowsReal, Real
  <2>5. \A i \in DOMAIN currentItems' : Real(currentItems[i])'
    BY <1>1 DEF IInv, RowsReal, Real
  <2> QED BY <1>1, <2>1, <2>2, <2>3, <2>4, <2>5 DEF IInv, RowsReal
<1>11. DeletionsReal'
  BY <1>1 DEF IInv, DeletionsReal
<1>12. Regular' <=> Regular
  BY <1>1 DEF Regular
<1>13. Regular => ~isLoading
  BY <1>1 DEF IInv, Under
<1>14. Under'
  BY <1>1, <1>12, <1>13 DEF IInv, Under
<1>15. ~Tracking'
  BY <1>1 DEF Tracking
<1>16. ItemsSettled'
  <2>1. Regular' => actionQueue' = <<>> /\ currentItems' = <<>> /\ down' = <<>> /\ ~Followed'
    BY <1>1, <1>12, <1>13, <1>15 DEF IInv, OneBatch, Followed, Cut
  <2> QED BY <2>1 DEF ItemsSettled
<1>17. NoneMissed' /\ ActiveTold'
  BY <1>1, <1>12, <1>13, <1>15 DEF NoneMissed, ActiveTold
<1> QED BY <1>3, <1>4, <1>5, <1>6, <1>8, <1>9, <1>10, <1>11, <1>14, <1>16, <1>17 DEF IInv

-----------------------------------------------------------------------------
(* The theorems.                                                             *)

\* The first state.
LEMMA InitStep ==
  ASSUME Init
  PROVE  IInv
<1>1. /\ db = [id \in 1 .. Initial |-> 1] /\ changes = <<>> /\ up = <<>> /\ down = <<>>
      /\ regionActive = 0 /\ connected = TRUE /\ opening = FALSE
      /\ list = [items |-> <<>>, active |-> 0]
      /\ loaded = FALSE /\ isLoading = FALSE /\ autoReload = FALSE
      /\ currentItems = <<>> /\ actionQueue = <<>> /\ lost = FALSE /\ early = {} /\ changed = 0
  BY DEF Init
<1>2. Initial \in Nat /\ MaxChanges \in Nat
  BY ManagerAssumption DEF ManagerAssumption
<1>3. db \in Seq(Nat) /\ Len(db) = Initial
  BY <1>1, <1>2
<1>4. list.items = <<>> /\ list.active = 0 /\ list \in [items: Seq(Item), active: Id \union {0}]
  BY <1>1
<1>5. Typed
  <2>1. Len(db) <= Initial + changed /\ changed \in Nat /\ changed <= MaxChanges
    BY <1>1, <1>2, <1>3
  <2>2. /\ changes \in Seq(Change) /\ up \in Seq(Request) /\ down \in Seq(Message)
        /\ currentItems \in Seq(Item) /\ actionQueue \in Seq(Notification)
    BY <1>1
  <2> QED BY Zenon, <1>1, <1>3, <1>4, <2>1, <2>2 DEF Typed
<1>6. Requests = {} /\ Batches = {} /\ OneAsked /\ OneSent /\ Kinds = {}
  BY <1>1 DEF Requests, Batches, Asked, Sent, OneAsked, OneSent, Kinds
<1>7. OneBatch /\ Cut /\ NotLoaded
  BY <1>1, <1>4, <1>6 DEF OneBatch, Cut, NotLoaded
<1>8. InOrder
  BY <1>1, <1>4, <1>6 DEF InOrder, Ascending, Distinct
<1>9. CreationsInOrder /\ ActiveListed /\ RowsReal /\ DeletionsReal
  BY <1>1, <1>4 DEF CreationsInOrder, Creations, Created, ActiveListed, RowsReal, DeletionsReal
<1>10. Under /\ ItemsSettled /\ NoneMissed /\ ActiveTold
  BY <1>1, <1>4 DEF Under, ItemsSettled, NoneMissed, ActiveTold, Tracking, Followed
<1> QED BY <1>5, <1>7, <1>8, <1>9, <1>10 DEF IInv

\* A step that changes nothing, or the number of calls only.
LEMMA StutterStep ==
  ASSUME IInv, UNCHANGED vars
  PROVE  IInv'
<1>1. /\ UNCHANGED <<up, loading>>
      /\ UNCHANGED <<region, connected, down, list, actionQueue, history>>
      /\ autoReload' = autoReload /\ opening' = opening /\ isLoading' = isLoading /\ loaded' = loaded
      /\ connected' = connected
  BY DEF vars, connection, loading
<1>2. Tracking' <=> Tracking
  BY <1>1 DEF Tracking
<1>3. Regular /\ isLoading => autoReload
  BY DEF IInv, Under
<1> QED BY <1>1, <1>2, <1>3, LoadStep DEF IInv, Typed

\* The invariant holds in every state that is reached.
THEOREM Invariance == Spec => []IInv
<1>1. Init => IInv
  BY InitStep
<1>2. IInv /\ [Next]_vars => IInv'
  <2> SUFFICES ASSUME IInv, [Next]_vars PROVE IInv'
    OBVIOUS
  <2>1. CASE LoadManager
    BY <2>1, LoadManagerStep
  <2>2. CASE CallItem
    BY <2>2, CallItemStep
  <2>3. CASE CallSetActiveItem
    BY <2>3, CallSetActiveItemStep
  <2>4. CASE RegionChanges
    BY <2>4, RegionChangesStep
  <2>5. CASE RegionNotifies
    BY <2>5, RegionNotifiesStep
  <2>6. CASE RegionAnswers
    BY <2>6, RegionAnswersStep
  <2>7. CASE onMessage
    BY <2>7, MessageStep
  <2>8. CASE Disconnect
    BY <2>8, DisconnectStep
  <2>9. CASE Reconnect
    BY <2>9, ReconnectStep
  <2>10. CASE RunOpenHandlers
    BY <2>10, RunOpenHandlersStep
  <2>11. CASE UNCHANGED vars
    BY <2>11, StutterStep
  <2> QED BY <2>1, <2>2, <2>3, <2>4, <2>5, <2>6, <2>7, <2>8, <2>9, <2>10, <2>11 DEF Next
<1> QED BY <1>1, <1>2, PTL DEF Spec

\* Every variable keeps its type, and what waits does so only while a load or
\* reload is under way (manager.js, onNotify and _batchLoadItems).
THEOREM TypeCorrect == Spec => []TypeOK
<1>1. IInv => TypeOK
  <2> SUFFICES ASSUME IInv PROVE TypeOK
    OBVIOUS
  <2>1. Typed
    BY DEF IInv
  <2>2. Len(db) <= Initial + MaxChanges
    <3>1. Initial \in Nat /\ MaxChanges \in Nat /\ Len(db) \in Nat
      BY <2>1, ManagerAssumption DEF Typed, ManagerAssumption
    <3> QED BY <2>1, <3>1 DEF Typed
  <2>3. ~isLoading => actionQueue = <<>> /\ currentItems = <<>>
    BY DEF IInv, OneBatch
  <2> QED BY <2>1, <2>2, <2>3 DEF Typed, TypeOK
<1> QED BY <1>1, Invariance, PTL

\* Items with different ids are as many as their ids.
LEMMA DistinctIds ==
  ASSUME NEW items \in Seq(Item), Distinct(items)
  PROVE  Cardinality(Ids(items)) = Len(items)
<1> DEFINE n == Len(items)
           f == [i \in 1 .. n |-> items[i].id]
<1>1. n \in Nat /\ DOMAIN items = 1 .. n
  OBVIOUS
<1>2. f \in Surjection(1 .. n, Ids(items))
  BY <1>1 DEF Surjection, Ids
<1>3. f \in Injection(1 .. n, Ids(items))
  BY Zenon, <1>1, <1>2 DEF Surjection, Injection, IsInjective, Distinct
<1>4. IsFiniteSet(1 .. n) /\ Cardinality(1 .. n) = n
  <2>1. IsFiniteSet(1 .. n) /\ Cardinality(1 .. n) = IF 1 > n THEN 0 ELSE n - 1 + 1
    BY <1>1, FS_Interval
  <2> QED BY <1>1, <2>1
<1> QED BY <1>2, <1>3, <1>4, FS_Surjection

\* Whatever order batches, replies and notifications about an item arrive in, it
\* is listed once, and what left the list is not active (addItem in getItem and
\* onNotify, _removeItem, the reload's _setActiveItem).
THEOREM Consistent == Spec => []ListConsistent
<1>1. IInv => ListConsistent
  <2> SUFFICES ASSUME IInv PROVE ListConsistent
    OBVIOUS
  <2>1. list.items \in Seq(Item)
    BY DEF IInv, Typed
  <2>2. NoDuplicates
    BY <2>1, DistinctIds DEF NoDuplicates, IInv, InOrder
  <2> QED BY <2>2 DEF IInv, ListConsistent
<1> QED BY <1>1, Invariance, PTL

\* Once nothing is on its way.
LEMMA QuietFacts ==
  ASSUME IInv, Quiet, Regular, loaded
  PROVE  /\ Tracking /\ Later(0, 0) = {}
         /\ \A i \in DOMAIN list.items : list.items[i] = Row(list.items[i].id)
         /\ \A i \in DOMAIN list.items : list.items[i].id \in Present
<1>1. connected /\ ~opening /\ DOMAIN changes = {} /\ DOMAIN up = {} /\ DOMAIN down = {}
  BY DEF Quiet
<1>2. Kinds = {}
  BY <1>1 DEF Kinds, Requests, Batches, Asked, Sent
<1>3. ~isLoading
  BY <1>1, <1>2 DEF IInv, Under
<1>4. Tracking
  BY <1>1, <1>3 DEF Tracking
<1>5. Later(0, 0) = {}
  <2>1. actionQueue = <<>>
    BY <1>3 DEF IInv, OneBatch
  <2> QED BY <1>1, <2>1 DEF Later
<1>6. ASSUME NEW i \in DOMAIN list.items
      PROVE  list.items[i] = Row(list.items[i].id) /\ list.items[i].id \in Present
  <2>1. PICK item : item = list.items[i]
    OBVIOUS
  <2>2. Settled(item, 0, 0) /\ Real(item) /\ item \in Item
    BY <1>4, <2>1 DEF IInv, ItemsSettled, RowsReal, Followed, Typed
  <2>3. item.v = db[item.id]
    BY <1>1, <1>5, <2>2 DEF Settled, SettledBy, Announced
  <2>4. item = Row(item.id)
    BY <2>2, <2>3 DEF Item, Row
  <2> QED BY <2>1, <2>2, <2>3, <2>4 DEF Real, Present
<1> QED BY <1>4, <1>5, <1>6

\* Once nothing is on its way, a list that is loaded has exactly the items of the
\* region, each as the region has it, whatever was changed, queued or lost during
\* the loads and reloads (loadItems, reloadItems, processActions, updateItems).
THEOREM InSync == Spec => []Synced
<1>1. IInv => Synced
  <2> SUFFICES ASSUME IInv, Quiet, Regular, loaded
               PROVE  Range(list.items) = {Row(id) : id \in Present}
    BY DEF Synced
  <2>1. /\ Tracking /\ Later(0, 0) = {}
        /\ \A i \in DOMAIN list.items : list.items[i] = Row(list.items[i].id)
        /\ \A i \in DOMAIN list.items : list.items[i].id \in Present
    BY QuietFacts
  <2>2. \A id : ~OnItsWay(id)
    BY <2>1 DEF OnItsWay, ToBeAnnounced, Creations, Quiet
  <2>3. ASSUME NEW id \in Present PROVE \E i \in DOMAIN list.items : list.items[i] = Row(id)
    <3>1. id \in Ids(list.items)
      BY <2>1, <2>2 DEF IInv, NoneMissed
    <3> QED BY <2>1, <3>1 DEF Ids
  <2> QED BY <2>1, <2>3 DEF Range
<1> QED BY <1>1, Invariance, PTL

\* Once nothing is on its way, the region knows the active item, also on a
\* connection that was opened after the item was made active (_setActiveItem
\* after a reload).
THEOREM KnowsActive == Spec => []RegionKnowsActive
<1>1. IInv => RegionKnowsActive
  <2> SUFFICES ASSUME IInv, Quiet, Regular, list.active # 0 PROVE regionActive = list.active
    BY DEF RegionKnowsActive
  <2>1. loaded
    BY DEF IInv, NotLoaded
  <2>2. Tracking /\ \A i \in DOMAIN list.items : list.items[i].id \in Present
    BY <2>1, QuietFacts
  <2>3. Told = {}
    BY DEF Told, Quiet
  <2>4. list.active \in Present
    BY <2>2 DEF IInv, ActiveListed, Ids
  <2> QED BY <2>2, <2>3, <2>4 DEF IInv, ActiveTold, Present
<1> QED BY <1>1, Invariance, PTL
=============================================================================
