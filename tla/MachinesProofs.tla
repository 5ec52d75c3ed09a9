---------------------------- MODULE MachinesProofs ----------------------------
(* Proofs about Machines, for every number of machines, changes, requests and *)
(* losses of the connection, and for every limit of the batches; the last     *)
(* part shows that Machines implements MachineList.                           *)
EXTENDS MachinesRefinement, SequenceTheorems, WellFoundedInduction, TLAPS

-----------------------------------------------------------------------------
(* The inductive invariant.                                                  *)

ListMessage == [type: {"list"}, request: ListRequest, page: Seq(Machine)]
RowMessage == [type: {"get", "create", "update"}, row: Machine]
DeleteMessage == [type: {"delete"}, id: Id]
ErrorMessage == [type: {"error"}, method: {"list", "get"}]
Message == ListMessage \union RowMessage \union DeleteMessage \union ErrorMessage

\* What is on its way to the client, and how many machines there can be.
Typed ==
  /\ db \in Seq(Nat)
  /\ changed \in Nat /\ changed <= MaxChanges
  /\ Len(db) <= Initial + changed
  /\ changes \in Seq(Change)
  /\ up \in Seq(ListRequest \union GetRequest)
  /\ down \in Seq(Message)
  /\ items \in Seq(Machine)
  /\ statuses \in SUBSET Id
  /\ selected \in SUBSET Id
  /\ loading \in BOOLEAN /\ loaded \in BOOLEAN /\ listLoaded \in BOOLEAN
  /\ stray \in BOOLEAN /\ cut \in BOOLEAN

\* Every row is of a machine that has existed, and no list has room for none.
Real(row) == row.id \in DOMAIN db /\ row.v > 0

RowsReal ==
  /\ \A i \in DOMAIN items : Real(items[i])
  /\ \A p \in DOMAIN down : \A row \in RowsOf(down[p]) : Real(row)

LimitsReal ==
  /\ \A i \in DOMAIN up : up[i].method = "list" => up[i].limit > 0
  /\ \A p \in DOMAIN down : down[p].type = "list" => down[p].request.limit > 0

\* A row is as the region has the machine, or a correction of it is to come:
\* in the channel behind the row, or not announced yet.
Announced(id) ==
  \E i \in DOMAIN changes :
    changes[i].id = id /\ (changes[i].kind = "delete" <=> db[id] = 0)

Corrects(m, id) ==
  \/ db[id] > 0 /\ m.type \in {"create", "update"} /\ m.row = Row(id)
  \/ db[id] = 0 /\ m.type = "delete" /\ m.id = id

Settled(row, p) ==
  \/ row.v = db[row.id]
  \/ Announced(row.id)
  \/ \E q \in DOMAIN down : q > p /\ Corrects(down[q], row.id)

RowsSettled ==
  /\ \A i \in DOMAIN items : Settled(items[i], 0)
  /\ \A p \in DOMAIN down : \A row \in RowsOf(down[p]) : Settled(row, p)

\* Only what has been deleted is announced so.
DeletionsReal ==
  /\ \A i \in DOMAIN changes :
       changes[i].id \in DOMAIN db /\ (changes[i].kind = "delete" => db[changes[i].id] = 0)
  /\ \A p \in DOMAIN down :
       down[p].type = "delete" => down[p].id \in DOMAIN db /\ db[down[p].id] = 0

\* One batch at a time is on its way, and none when the list is loaded.
Asked == {i \in DOMAIN up : up[i].method = "list"}
Sent == {p \in DOMAIN down : down[p].type = "list"}

OneBatch ==
  /\ \A i, j \in Asked : i = j
  /\ \A p, q \in Sent : p = q
  /\ Asked = {} \/ Sent = {}
  /\ Asked # {} \/ Sent # {} => listLoaded /\ ~loaded
  /\ loaded => listLoaded

\* While the list loads and when it has loaded, a machine that exists is shown,
\* on its way, not announced yet, or still before the batches.
ToCome(id) ==
  \/ \E i \in Asked : up[i].start < id
  \/ \E p \in Sent : /\ Full(down[p].request, down[p].page)
                     /\ \A i \in DOMAIN down[p].page : down[p].page[i].id < id

OnItsWay(id) ==
  \/ \E i \in DOMAIN changes : changes[i].id = id /\ changes[i].kind = "create"
  \/ \E p \in DOMAIN down : /\ down[p].type # "update"
                            /\ \E row \in RowsOf(down[p]) : row.id = id

NoneMissed ==
  ~stray /\ (loaded \/ Asked # {} \/ Sent # {}) =>
    \A id \in Present : id \in Shown \/ OnItsWay(id) \/ ToCome(id)

IInv ==
  /\ Typed /\ RowsReal /\ LimitsReal
  /\ NoDuplicates /\ RowsHaveStatuses /\ SelectionListed
  /\ RowsSettled
  /\ DeletionsReal /\ OneBatch /\ NoneMissed

-----------------------------------------------------------------------------
(* Sequences, and what fetchSuccess adds.                                    *)

\* Natural induction, over a set instead of a predicate.
LEMMA SetInduction ==
  ASSUME NEW S, 0 \in S, \A n \in Nat : n \in S => n + 1 \in S
  PROVE  Nat \subseteq S
<1> DEFINE T == Nat \ S
<1>1. SUFFICES ASSUME T # {} PROVE FALSE
  OBVIOUS
<1>2. PICK x \in T : \A y \in T : ~(<<y, x>> \in OpToRel(<, Nat))
  <2>1. T \subseteq Nat
    OBVIOUS
  <2> HIDE DEF T
  <2> QED
    BY Zenon, <1>1, <2>1, NatLessThanWellFounded, WFMin
<1>3. x \in Nat /\ x # 0
  OBVIOUS
<1>4. x - 1 \in Nat /\ x - 1 < x /\ (x - 1) + 1 = x
  BY <1>3
<1>5. x - 1 \in T
  BY <1>4
<1>6. <<x - 1, x>> \in OpToRel(<, Nat)
  BY <1>3, <1>4 DEF OpToRel
<1> QED
  BY Zenon, <1>2, <1>5, <1>6

\* What Append does to length and elements.
LEMMA AppendFacts ==
  ASSUME NEW S, NEW s \in Seq(S), NEW e
  PROVE  /\ Len(Append(s, e)) = Len(s) + 1
         /\ DOMAIN Append(s, e) = 1 .. Len(s) + 1
         /\ \A i \in 1 .. Len(s) : Append(s, e)[i] = s[i]
         /\ Append(s, e)[Len(s) + 1] = e
         /\ DOMAIN s = 1 .. Len(s) /\ Len(s) \in Nat
  OBVIOUS

\* What Tail does to length and elements.
LEMMA TailFacts ==
  ASSUME NEW S, NEW s \in Seq(S), s # <<>>
  PROVE  /\ Len(Tail(s)) = Len(s) - 1 /\ Tail(s) \in Seq(S)
         /\ DOMAIN Tail(s) = 1 .. Len(s) - 1
         /\ \A i \in 1 .. Len(s) - 1 : Tail(s)[i] = s[i + 1]
         /\ Len(s) \in Nat /\ Len(s) > 0 /\ 1 \in DOMAIN s
         /\ Head(s) = s[1] /\ Head(s) \in S
         /\ DOMAIN s = 1 .. Len(s)
  OBVIOUS

\* One step of fetchSuccess over the list `s`: it takes the machine or skips it.
Take(s, row) ==
  IF \E i \in DOMAIN s : s[i].id = row.id THEN s ELSE Append(s, row)

\* The recursion of Added defines a function: there is one for each prefix.
LEMMA AddedDefined ==
  ASSUME NEW page \in Seq(Machine)
  PROVE  \E f : /\ f = [n \in 0 .. Len(page) |->
                          IF n = 0 THEN items ELSE Take(f[n - 1], page[n])]
                /\ Added(page) = f[Len(page)]
<1> DEFINE F(f, k) == f = [n \in 0 .. k |->
                             IF n = 0 THEN items ELSE Take(f[n - 1], page[n])]
           S == {k \in Nat : \E f : F(f, k)}
<1>1. 0 \in S
  <2> DEFINE f == [n \in 0 .. 0 |-> items]
  <2>1. f = [n \in 0 .. 0 |-> IF n = 0 THEN items ELSE Take(f[n - 1], page[n])]
    OBVIOUS
  <2> QED BY Zenon, <2>1
<1>2. ASSUME NEW k \in Nat, k \in S PROVE k + 1 \in S
  <2>1. PICK f : F(f, k)
    BY <1>2
  <2> DEFINE g == [n \in 0 .. k + 1 |-> IF n = k + 1 THEN Take(f[k], page[k + 1]) ELSE f[n]]
  <2>2. \A n \in 0 .. k + 1 :
          g[n] = IF n = 0 THEN items ELSE Take(g[n - 1], page[n])
    <3> TAKE n \in 0 .. k + 1
    <3>1. CASE n = 0
      BY <3>1, <2>1
    <3>2. CASE n # 0 /\ n # k + 1
      <4>1. n - 1 \in 0 .. k /\ n \in 0 .. k
        BY <3>2
      <4>2. g[n - 1] = f[n - 1] /\ g[n] = f[n]
        BY <4>1, <3>2
      <4>3. f[n] = Take(f[n - 1], page[n])
        BY <2>1, <4>1, <3>2
      <4> QED BY <4>2, <4>3, <3>2
    <3>3. CASE n = k + 1
      <4>1. n - 1 = k /\ n # 0 /\ k \in 0 .. k + 1 /\ k # k + 1
        BY <3>3
      <4>2. g[k] = f[k] /\ g[n] = Take(f[k], page[k + 1])
        BY <4>1, <3>3
      <4> QED BY <4>1, <4>2, <3>3
    <3> QED BY <3>1, <3>2, <3>3
  <2>3. F(g, k + 1)
    BY <2>2
  <2> HIDE DEF F
  <2> QED BY <2>3
<1>3. Len(page) \in S
  <2>1. Len(page) \in Nat
    OBVIOUS
  <2> HIDE DEF S
  <2> QED BY <1>1, <1>2, <2>1, SetInduction
<1>4. \E f : F(f, Len(page))
  BY <1>3
<1> DEFINE G(f) == f = [n \in 0 .. Len(page) |->
        IF n = 0 THEN items
        ELSE IF \E i \in DOMAIN f[n - 1] : f[n - 1][i].id = page[n].id
        THEN f[n - 1]
        ELSE Append(f[n - 1], page[n])]
<1>5. \A f : F(f, Len(page)) <=> G(f)
  BY DEF Take
<1>6. G(CHOOSE f : G(f)) /\ Added(page) = (CHOOSE f : G(f))[Len(page)]
  <2>1. \E f : G(f)
    <3> HIDE DEF F, G
    <3> QED BY <1>4, <1>5
  <2>2. G(CHOOSE f : G(f))
    <3> HIDE DEF G
    <3> QED BY <2>1
  <2> QED BY Zenon, <2>2 DEF Added
<1> QED BY Zenon, <1>5, <1>6

\* `s` lists the items and the first `n` machines of the page, each once.
Merges(s, n, page) ==
  /\ s \in Seq(Machine)
  /\ \A i, j \in DOMAIN s : s[i].id = s[j].id => i = j
  /\ \A i \in DOMAIN s : \/ \E j \in DOMAIN items : s[i] = items[j]
                         \/ \E j \in DOMAIN page : s[i] = page[j]
  /\ \A j \in DOMAIN items : \E i \in DOMAIN s : s[i].id = items[j].id
  /\ \A j \in DOMAIN page : j <= n => \E i \in DOMAIN s : s[i].id = page[j].id

\* One step of fetchSuccess lists one more machine of the page.
LEMMA TakeMerges ==
  ASSUME NEW page \in Seq(Machine), NEW n \in 1 .. Len(page),
         NEW s, Merges(s, n - 1, page)
  PROVE  Merges(Take(s, page[n]), n, page)
<1>1. n \in DOMAIN page /\ n - 1 \in Nat /\ DOMAIN page \subseteq Nat
  OBVIOUS
<1>2. \A j \in DOMAIN page : j <= n <=> j <= n - 1 \/ j = n
  BY <1>1
<1>3. CASE \E i \in DOMAIN s : s[i].id = page[n].id
  <2>1. Take(s, page[n]) = s
    BY <1>3 DEF Take
  <2>2. \A j \in DOMAIN page : j <= n => \E i \in DOMAIN s : s[i].id = page[j].id
    BY <1>2, <1>3 DEF Merges
  <2>3. Merges(s, n, page)
    BY <2>2 DEF Merges
  <2> QED BY <2>1, <2>3
<1>4. CASE ~\E i \in DOMAIN s : s[i].id = page[n].id
  <2> DEFINE t == Append(s, page[n])
  <2>1. s \in Seq(Machine) /\ page[n] \in Machine
    BY <1>1 DEF Merges
  <2>2. /\ Len(s) \in Nat /\ DOMAIN s = 1 .. Len(s) /\ DOMAIN t = 1 .. Len(s) + 1
        /\ \A i \in 1 .. Len(s) : t[i] = s[i]
        /\ t[Len(s) + 1] = page[n] /\ t \in Seq(Machine)
    BY <2>1
  <2>3. \A i \in DOMAIN t : i \in DOMAIN s \/ i = Len(s) + 1
    BY <2>2
  <2>4. Take(s, page[n]) = t
    BY <1>4 DEF Take
  <2> HIDE DEF t
  <2>5. \A i \in DOMAIN s : i \in DOMAIN t /\ t[i] = s[i]
    BY <2>2
  <2>6. \A i, j \in DOMAIN t : t[i].id = t[j].id => i = j
    BY <2>2, <2>3, <2>5, <1>4 DEF Merges
  <2>7. \A i \in DOMAIN t : \/ \E j \in DOMAIN items : t[i] = items[j]
                            \/ \E j \in DOMAIN page : t[i] = page[j]
    BY <2>2, <2>3, <2>5, <1>1 DEF Merges
  <2>8. \A j \in DOMAIN items : \E i \in DOMAIN t : t[i].id = items[j].id
    <3> TAKE j \in DOMAIN items
    <3>1. PICK i \in DOMAIN s : s[i].id = items[j].id
      BY DEF Merges
    <3> QED BY <3>1, <2>5
  <2>9. \A j \in DOMAIN page : j <= n => \E i \in DOMAIN t : t[i].id = page[j].id
    <3> SUFFICES ASSUME NEW j \in DOMAIN page, j <= n
                 PROVE  \E i \in DOMAIN t : t[i].id = page[j].id
      OBVIOUS
    <3>1. CASE j = n
      <4>1. Len(s) + 1 \in DOMAIN t
        BY <2>2
      <4> QED BY <4>1, <3>1, <2>2
    <3>2. CASE j <= n - 1
      <4>1. PICK i \in DOMAIN s : s[i].id = page[j].id
        BY <3>2 DEF Merges
      <4> QED BY <4>1, <2>5
    <3> QED BY <1>2, <3>1, <3>2
  <2> QED BY <2>2, <2>4, <2>6, <2>7, <2>8, <2>9 DEF Merges
<1> QED BY <1>3, <1>4

\* fetchSuccess lists the items and the machines of the page, each once.
LEMMA AddedMerges ==
  ASSUME items \in Seq(Machine), NoDuplicates, NEW page \in Seq(Machine)
  PROVE  Merges(Added(page), Len(page), page)
<1>1. PICK f : /\ f = [n \in 0 .. Len(page) |->
                         IF n = 0 THEN items ELSE Take(f[n - 1], page[n])]
               /\ Added(page) = f[Len(page)]
  BY AddedDefined
<1>2. Len(page) \in Nat /\ DOMAIN page = 1 .. Len(page)
  OBVIOUS
<1> DEFINE S == {n \in Nat : n <= Len(page) => Merges(f[n], n, page)}
<1>3. 0 \in S
  <2>1. f[0] = items
    BY <1>1, <1>2
  <2>2. \A j \in DOMAIN page : ~(j <= 0)
    BY <1>2
  <2>3. Merges(items, 0, page)
    BY <2>2 DEF Merges, NoDuplicates
  <2> QED BY <2>1, <2>3
<1>4. ASSUME NEW n \in Nat, n \in S PROVE n + 1 \in S
  <2> SUFFICES ASSUME n + 1 <= Len(page) PROVE Merges(f[n + 1], n + 1, page)
    OBVIOUS
  <2>1. /\ n + 1 \in 1 .. Len(page) /\ n + 1 \in 0 .. Len(page) /\ n + 1 # 0
        /\ (n + 1) - 1 = n /\ n <= Len(page)
    BY <1>2
  <2>2. Merges(f[n], n, page)
    BY <1>4, <2>1
  <2>3. f[n + 1] = Take(f[n], page[n + 1])
    BY <1>1, <2>1
  <2>4. Merges(Take(f[n], page[n + 1]), n + 1, page)
    BY <2>1, <2>2, TakeMerges
  <2> QED BY <2>3, <2>4
<1>5. Len(page) \in S
  <2> HIDE DEF S
  <2> QED BY <1>2, <1>3, <1>4, SetInduction
<1> QED BY <1>1, <1>2, <1>5

-----------------------------------------------------------------------------
(* Messages.                                                                 *)

\* What a message of each type holds.
LEMMA MessageFacts ==
  ASSUME NEW m \in Message
  PROVE  /\ m.type \in {"list", "get", "create", "update", "delete", "error"}
         /\ m.type = "list" => m.request \in ListRequest /\ m.page \in Seq(Machine)
         /\ m.type \in {"get", "create", "update"} => m.row \in Machine
         /\ m.type = "delete" => m.id \in Id
         /\ m.type = "error" => m.method \in {"list", "get"}
         /\ \A row \in RowsOf(m) : row \in Machine
  BY DEF Message, ListMessage, RowMessage, DeleteMessage, ErrorMessage, RowsOf

\* A correction is a message about the machine it corrects.
LEMMA CorrectsFacts ==
  ASSUME NEW m, NEW id, Corrects(m, id)
  PROVE  \/ /\ m.type \in {"create", "update"} /\ m.row = Row(id)
            /\ m.row.id = id /\ m.row.v = db[id]
         \/ m.type = "delete" /\ m.id = id
  BY DEF Corrects, Row

\* A message that joins the channel takes no correction away from a row.
LEMMA SettledBySend ==
  ASSUME down \in Seq(Message), NEW m, down' = Append(down, m),
         UNCHANGED <<db, changes>>, NEW row, NEW p, Settled(row, p)
  PROVE  Settled(row, p)'
<1>1. \A q \in DOMAIN down : q \in DOMAIN down' /\ down'[q] = down[q]
  BY AppendFacts
<1>2. Announced(row.id)' <=> Announced(row.id)
  BY DEF Announced
<1>3. CASE \E q \in DOMAIN down : q > p /\ Corrects(down[q], row.id)
  <2>1. PICK q \in DOMAIN down : q > p /\ Corrects(down[q], row.id)
    BY <1>3
  <2>2. q \in DOMAIN down' /\ down'[q] = down[q]
    BY <1>1
  <2>3. Corrects(down[q], row.id)'
    BY <2>1, <2>2 DEF Corrects, Row
  <2> QED BY <2>1, <2>2, <2>3 DEF Settled
<1> QED BY <1>2, <1>3 DEF Settled

\* Taking the first message of the channel leaves the corrections behind it.
LEMMA SettledByTake ==
  ASSUME down \in Seq(Message), down # <<>>, down' = Tail(down),
         UNCHANGED <<db, changes>>,
         NEW row, NEW p \in Nat, Settled(row, p),
         p > 0 \/ ~Corrects(Head(down), row.id)
  PROVE  Settled(row, p - 1)' /\ (p = 0 => Settled(row, 0)')
<1>1. /\ Head(down) = down[1] /\ DOMAIN down = 1 .. Len(down) /\ Len(down) \in Nat
      /\ DOMAIN down' = 1 .. Len(down) - 1
      /\ \A q \in 1 .. Len(down) - 1 : down'[q] = down[q + 1]
  BY TailFacts
<1>2. Announced(row.id)' <=> Announced(row.id)
  BY DEF Announced
<1>3. CASE \E q \in DOMAIN down : q > p /\ Corrects(down[q], row.id)
  <2>1. PICK q \in DOMAIN down : q > p /\ Corrects(down[q], row.id)
    BY <1>3
  <2>2. q # 1
    BY <2>1, <1>1
  <2>3. /\ q - 1 \in DOMAIN down' /\ down'[q - 1] = down[q]
        /\ q - 1 > p - 1 /\ (p = 0 => q - 1 > 0)
    BY <2>1, <2>2, <1>1
  <2>4. \E k \in DOMAIN down' : /\ down'[k] = down[q]
                                /\ k > p - 1 /\ (p = 0 => k > 0)
    BY <2>3
  <2>5. PICK k \in DOMAIN down' : /\ down'[k] = down[q]
                                  /\ k > p - 1 /\ (p = 0 => k > 0)
    BY <2>4
  <2>6. Corrects(down[k], row.id)'
    BY <2>1, <2>5 DEF Corrects, Row
  <2> QED BY <2>5, <2>6 DEF Settled
<1> QED BY <1>2, <1>3 DEF Settled
-----------------------------------------------------------------------------
(* One lemma per action.                                                     *)

\* A change of kind `k` of machine `id`.
Changes(id, k) ==
  /\ changes' = Append(changes, [kind |-> k, id |-> id])
  /\ k \in {"create", "update", "delete"} /\ id \in Id
  /\ db' \in Seq(Nat) /\ Len(db') <= Len(db) + 1
  /\ DOMAIN db' = DOMAIN db \union {id}
  /\ \A x \in DOMAIN db : x # id => db'[x] = db[x]
  /\ k = "delete" <=> db'[id] = 0
  /\ id \in DOMAIN db => db[id] > 0
  /\ id \notin DOMAIN db => k = "create" /\ db'[id] = 1
  /\ id \in DOMAIN db => db'[id] \in {db[id] + 1, 0}

\* RegionChanges changes one machine.
LEMMA ChangeFacts ==
  ASSUME MachinesAssumption, IInv, RegionChanges
  PROVE  \E id, k : Changes(id, k)
<1>1. /\ db \in Seq(Nat) /\ Len(db) \in Nat /\ DOMAIN db = 1 .. Len(db)
      /\ Len(db) <= Initial + changed /\ changed < MaxChanges
      /\ Initial \in Nat /\ MaxChanges \in Nat /\ changed \in Nat
  BY DEF IInv, Typed, RegionChanges, MachinesAssumption
<1>2. DOMAIN db \subseteq Id /\ Len(db) + 1 \in Id
  BY <1>1 DEF Id
<1>3. CASE /\ db' = Append(db, 1)
           /\ changes' = Append(changes, [kind |-> "create", id |-> Len(db) + 1])
  <2>1. /\ db' \in Seq(Nat) /\ Len(db') = Len(db) + 1
        /\ DOMAIN db' = DOMAIN db \union {Len(db) + 1}
        /\ \A x \in DOMAIN db : db'[x] = db[x]
        /\ db'[Len(db) + 1] = 1 /\ Len(db) + 1 \notin DOMAIN db
    BY <1>1, <1>3
  <2>2. Changes(Len(db) + 1, "create")
    BY <1>1, <1>2, <1>3, <2>1 DEF Changes
  <2> QED BY <2>2
<1>4. CASE \E id \in Present :
             /\ db' = [db EXCEPT ![id] = @ + 1]
             /\ changes' = Append(changes, [kind |-> "update", id |-> id])
  <2>1. PICK id \in Present :
          /\ db' = [db EXCEPT ![id] = @ + 1]
          /\ changes' = Append(changes, [kind |-> "update", id |-> id])
    BY Zenon, <1>4
  <2>2. id \in DOMAIN db /\ db[id] > 0 /\ db[id] \in Nat
    BY <1>1 DEF Present
  <2>3. /\ db' \in Seq(Nat) /\ Len(db') = Len(db) /\ DOMAIN db' = DOMAIN db
        /\ \A x \in DOMAIN db : x # id => db'[x] = db[x]
        /\ db'[id] = db[id] + 1
    <3>1. db[id] + 1 \in Nat
      BY <2>2
    <3> QED BY <1>1, <2>1, <2>2, <3>1
  <2>4. /\ DOMAIN db' = DOMAIN db \union {id} /\ db'[id] # 0 /\ id \in Id
        /\ Len(db') <= Len(db) + 1
    <3>1. DOMAIN db' = DOMAIN db \union {id} /\ id \in Id
      BY Zenon, <1>2, <2>2, <2>3
    <3>2. db'[id] # 0 /\ Len(db') <= Len(db) + 1
      <4>1. db'[id] # 0
        BY <2>2, <2>3
      <4> QED BY <1>1, <2>3, <4>1
    <3> QED BY <3>1, <3>2
  <2>5. Changes(id, "update")
    BY Zenon, <2>1, <2>2, <2>3, <2>4 DEF Changes
  <2> QED BY <2>5
<1>5. CASE \E id \in Present :
             /\ db' = [db EXCEPT ![id] = 0]
             /\ changes' = Append(changes, [kind |-> "delete", id |-> id])
  <2>1. PICK id \in Present :
          /\ db' = [db EXCEPT ![id] = 0]
          /\ changes' = Append(changes, [kind |-> "delete", id |-> id])
    BY Zenon, <1>5
  <2>2. id \in DOMAIN db /\ db[id] > 0 /\ db[id] \in Nat
    BY <1>1 DEF Present
  <2>3. /\ db' \in Seq(Nat) /\ Len(db') = Len(db) /\ DOMAIN db' = DOMAIN db
        /\ \A x \in DOMAIN db : x # id => db'[x] = db[x]
        /\ db'[id] = 0
    BY <1>1, <2>1, <2>2
  <2>4. DOMAIN db' = DOMAIN db \union {id} /\ id \in Id /\ Len(db') <= Len(db) + 1
    BY <1>1, <1>2, <2>2, <2>3
  <2>5. Changes(id, "delete")
    BY Zenon, <2>1, <2>2, <2>3, <2>4 DEF Changes
  <2> QED BY <2>5
<1> QED BY Zenon, <1>3, <1>4, <1>5 DEF RegionChanges

\* RegionChanges keeps the invariant.
LEMMA ChangesInv ==
  ASSUME MachinesAssumption, IInv, RegionChanges
  PROVE  IInv'
<1>0. PICK id, k : Changes(id, k)
  BY ChangeFacts
<1>1. /\ changes' = Append(changes, [kind |-> k, id |-> id])
      /\ k \in {"create", "update", "delete"} /\ id \in Id
      /\ db' \in Seq(Nat) /\ Len(db') <= Len(db) + 1
      /\ DOMAIN db' = DOMAIN db \union {id}
      /\ \A x \in DOMAIN db : x # id => db'[x] = db[x]
      /\ k = "delete" <=> db'[id] = 0
      /\ id \in DOMAIN db => db[id] > 0
      /\ id \notin DOMAIN db => k = "create"
  BY <1>0 DEF Changes
<1>2. /\ UNCHANGED <<up, down, items, statuses, selected, loading, loaded>>
      /\ UNCHANGED <<listLoaded, stray, cut, gets, errors, drops>>
      /\ changed < MaxChanges /\ changed' = changed + 1
  BY DEF RegionChanges, slice, history
<1>3. Typed
  BY DEF IInv
<1>4. [kind |-> k, id |-> id] \in Change
  BY <1>1 DEF Change
<1>5. /\ DOMAIN changes = 1 .. Len(changes) /\ Len(changes) \in Nat
      /\ DOMAIN changes' = 1 .. Len(changes) + 1
      /\ \A i \in 1 .. Len(changes) : changes'[i] = changes[i]
      /\ changes'[Len(changes) + 1] = [kind |-> k, id |-> id]
      /\ changes' \in Seq(Change)
  <2> DEFINE c == [kind |-> k, id |-> id]
  <2>1. changes \in Seq(Change) /\ changes' = Append(changes, c) /\ c \in Change
    BY <1>1, <1>3, <1>4 DEF Typed
  <2> HIDE DEF c
  <2>2. /\ DOMAIN changes = 1 .. Len(changes) /\ Len(changes) \in Nat
        /\ DOMAIN changes' = 1 .. Len(changes) + 1
        /\ \A i \in 1 .. Len(changes) : changes'[i] = changes[i]
        /\ changes'[Len(changes) + 1] = c
        /\ changes' \in Seq(Change)
    BY <2>1, AppendFacts
  <2> QED BY <2>2 DEF c
<1>6. \A i \in DOMAIN changes : i \in DOMAIN changes' /\ changes'[i] = changes[i]
  BY <1>5
<1>7. \E i \in DOMAIN changes' : changes'[i].kind = k /\ changes'[i].id = id
  BY <1>5
<1>8. Typed'
  <2>1. Len(db') \in Nat /\ Len(db) \in Nat /\ Initial \in Nat /\ MaxChanges \in Nat
    <3>1. db \in Seq(Nat)
      BY <1>3 DEF Typed
    <3> QED BY <1>1, <3>1 DEF MachinesAssumption
  <2>2. changed' \in Nat /\ changed' <= MaxChanges /\ Len(db') <= Initial + changed'
    <3>1. changed \in Nat /\ Len(db) <= Initial + changed
      BY <1>3 DEF Typed
    <3>2. Len(db') <= Len(db) + 1
      BY <1>1
    <3> QED BY <2>1, <1>2, <3>1, <3>2
  <2> QED BY Zenon, <1>1, <1>2, <1>3, <1>5, <2>2 DEF Typed
<1>9. RowsReal'
  <2>1. \A row : Real(row) => Real(row)'
    BY Zenon, <1>1 DEF Real
  <2>2. \A i \in DOMAIN items : Real(items[i])'
    BY <2>1, <1>2 DEF IInv, RowsReal, Real
  <2>3. \A p \in DOMAIN down : \A row \in RowsOf(down[p]) : Real(row)'
    BY <2>1 DEF IInv, RowsReal
  <2> QED BY <1>2, <2>2, <2>3 DEF RowsReal, RowsOf
<1>10. LimitsReal' /\ NoDuplicates' /\ RowsHaveStatuses' /\ SelectionListed' /\ OneBatch'
  BY <1>2 DEF IInv, LimitsReal, NoDuplicates, RowsHaveStatuses, SelectionListed,
              OneBatch, Asked, Sent, Shown
<1>11. RowsSettled'
  <2>1. ASSUME NEW row, NEW p, Real(row), Settled(row, p)
        PROVE  Settled(row, p)'
    <3>1. CASE row.id = id
      <4>1. Announced(row.id)'
        BY Zenon, <3>1, <1>1, <1>7 DEF Announced
      <4> QED BY <4>1 DEF Settled
    <3>2. CASE row.id # id
      <4>1. row.id \in DOMAIN db /\ db'[row.id] = db[row.id]
        BY <3>2, <2>1, <1>1 DEF Real
      <4>2. Announced(row.id) => Announced(row.id)'
        BY <4>1, <1>6 DEF Announced
      <4>3. ASSUME NEW q \in DOMAIN down, Corrects(down[q], row.id)
            PROVE  Corrects(down[q], row.id)'
        BY <4>1, <4>3, <1>2 DEF Corrects, Row
      <4> QED BY <2>1, <4>1, <4>2, <4>3, <1>2 DEF Settled
    <3> QED BY <3>1, <3>2
  <2>2. \A i \in DOMAIN items : Settled(items[i], 0)'
    <3> TAKE i \in DOMAIN items
    <3> DEFINE row == items[i]
    <3>1. Real(row) /\ Settled(row, 0)
      BY DEF IInv, RowsReal, RowsSettled
    <3>2. PICK r : r = items[i]
      OBVIOUS
    <3>3. Settled(r, 0)'
      BY <3>1, <3>2, <2>1
    <3> QED BY <3>2, <3>3, <1>2
  <2>3. \A p \in DOMAIN down : \A row \in RowsOf(down[p]) : Settled(row, p)'
    BY <2>1 DEF IInv, RowsReal, RowsSettled
  <2> QED BY <1>2, <2>2, <2>3 DEF RowsSettled, RowsOf
<1>12. DeletionsReal'
  <2>1. ASSUME NEW x \in DOMAIN db, db[x] = 0
        PROVE  x \in DOMAIN db' /\ db'[x] = 0
    BY <2>1, <1>1
  <2>2. \A i \in DOMAIN changes :
          /\ changes[i].id \in DOMAIN db'
          /\ changes[i].kind = "delete" => db'[changes[i].id] = 0
    BY Zenon, <2>1, <1>1 DEF IInv, DeletionsReal
  <2>3. \A i \in DOMAIN changes' : i \in DOMAIN changes \/ i = Len(changes) + 1
    BY <1>5
  <2>4. \A i \in DOMAIN changes' :
          /\ changes'[i].id \in DOMAIN db'
          /\ changes'[i].kind = "delete" => db'[changes'[i].id] = 0
    BY <1>1, <1>5, <1>6, <2>2, <2>3
  <2>5. \A p \in DOMAIN down :
          down[p].type = "delete" => down[p].id \in DOMAIN db' /\ db'[down[p].id] = 0
    BY <2>1 DEF IInv, DeletionsReal
  <2> QED BY <1>2, <2>4, <2>5 DEF DeletionsReal
<1>13. NoneMissed'
  <2> SUFFICES ASSUME ~stray, loaded \/ Asked # {} \/ Sent # {}, NEW x \in Present'
               PROVE  x \in Shown \/ OnItsWay(x)' \/ ToCome(x)
    BY Zenon, <1>2 DEF NoneMissed, Shown, Asked, Sent, ToCome
  <2>1. OnItsWay(x) => OnItsWay(x)'
    BY <1>2, <1>6 DEF OnItsWay, RowsOf
  <2>2. CASE x \in Present
    BY <2>1, <2>2 DEF IInv, NoneMissed
  <2>3. CASE x \notin Present
    <3>1. x \in DOMAIN db' /\ db'[x] > 0
      BY DEF Present
    <3>2. x = id
      BY <3>1, <2>3, <1>1 DEF Present
    <3>3. id \notin DOMAIN db
      BY <3>2, <2>3, <1>1 DEF Present
    <3>4. k = "create"
      BY <3>3, <1>1
    <3> QED BY <3>2, <3>4, <1>7 DEF OnItsWay
  <2> QED BY <2>2, <2>3
<1> QED BY <1>8, <1>9, <1>10, <1>11, <1>12, <1>13 DEF IInv

\* What the region sends is as it has it: the rows in the channel stay real.
LEMMA SendRows ==
  ASSUME IInv, NEW m \in Message, down' = Append(down, m), UNCHANGED <<db, items>>,
         \A row \in RowsOf(m) : Real(row),
         m.type = "list" => m.request.limit > 0,
         m.type = "delete" => m.id \in DOMAIN db /\ db[m.id] = 0
  PROVE  /\ down' \in Seq(Message)
         /\ \A p \in DOMAIN down' : down'[p] = m \/ (p \in DOMAIN down /\ down'[p] = down[p])
         /\ \A p \in DOMAIN down : p \in DOMAIN down' /\ down'[p] = down[p]
         /\ Len(down) + 1 \in DOMAIN down' /\ down'[Len(down) + 1] = m
         /\ \A p \in DOMAIN down : p < Len(down) + 1
         /\ RowsReal'
         /\ \A p \in DOMAIN down' : down'[p].type = "list" => down'[p].request.limit > 0
         /\ \A p \in DOMAIN down' :
              down'[p].type = "delete" => down'[p].id \in DOMAIN db' /\ db'[down'[p].id] = 0
<1>1. /\ down \in Seq(Message) /\ Len(down) \in Nat /\ DOMAIN down = 1 .. Len(down)
      /\ DOMAIN down' = 1 .. Len(down) + 1
      /\ \A p \in 1 .. Len(down) : down'[p] = down[p]
      /\ down'[Len(down) + 1] = m /\ down' \in Seq(Message)
  BY AppendFacts DEF IInv, Typed
<1>2. \A p \in DOMAIN down' : down'[p] = m \/ (p \in DOMAIN down /\ down'[p] = down[p])
  BY <1>1
<1>3. \A p \in DOMAIN down' : \A row \in RowsOf(down'[p]) : Real(row)
  BY <1>2 DEF IInv, RowsReal
<1>4. RowsReal'
  <2>1. \A i \in DOMAIN items : Real(items[i])'
    BY DEF IInv, RowsReal, Real
  <2>2. \A row : Real(row)' <=> Real(row)
    BY DEF Real
  <2>3. \A p \in DOMAIN down' : \A row \in RowsOf(down'[p]) : Real(row)'
    BY <1>3, <2>2
  <2> QED BY <2>1, <2>3 DEF RowsReal, RowsOf, Real
<1>5. \A p \in DOMAIN down' : down'[p].type = "list" => down'[p].request.limit > 0
  BY <1>2 DEF IInv, LimitsReal
<1>6. \A p \in DOMAIN down' :
        down'[p].type = "delete" => down'[p].id \in DOMAIN db' /\ db'[down'[p].id] = 0
  BY <1>2 DEF IInv, DeletionsReal
<1> QED BY <1>1, <1>2, <1>4, <1>5, <1>6

\* A row that shows a machine that exists is real, and of the right type.
LEMMA RowFacts ==
  ASSUME MachinesAssumption, IInv, NEW id \in Present
  PROVE  /\ Row(id) \in Machine /\ Real(Row(id)) /\ id \in Id
         /\ Row(id).id = id /\ Row(id).v = db[id] /\ db[id] > 0
<1>1. /\ db \in Seq(Nat) /\ Len(db) \in Nat /\ DOMAIN db = 1 .. Len(db)
      /\ Len(db) <= Initial + changed /\ changed <= MaxChanges
      /\ Initial \in Nat /\ MaxChanges \in Nat /\ changed \in Nat
  BY DEF IInv, Typed, MachinesAssumption
<1>2. id \in DOMAIN db /\ db[id] > 0 /\ db[id] \in Nat
  BY <1>1 DEF Present
<1>3. id \in Id
  BY <1>1, <1>2 DEF Id
<1> QED BY <1>2, <1>3 DEF Row, Machine, Real

\* The message that announces a change, if one does.
Announcement(c) ==
  IF c.kind = "delete" THEN [type |-> "delete", id |-> c.id]
  ELSE [type |-> c.kind, row |-> Row(c.id)]

\* RegionNotifies keeps the invariant: what it announces corrects every row of
\* the machine.
LEMMA NotifiesInv ==
  ASSUME MachinesAssumption, IInv, RegionNotifies
  PROVE  IInv'
<1> DEFINE c == Head(changes)
           m == Announcement(c)
           sent == c.kind = "delete" \/ c.id \in Present
<1>1. /\ changes # <<>> /\ changes' = Tail(changes)
      /\ down' = IF sent THEN Append(down, m) ELSE down
      /\ UNCHANGED <<db, up, items, statuses, selected, loading, loaded>>
      /\ UNCHANGED <<listLoaded, stray, cut, changed, gets, errors, drops>>
  BY DEF RegionNotifies, slice, history, Announcement
<1>2. Typed
  BY DEF IInv
<1>3. /\ DOMAIN changes = 1 .. Len(changes) /\ Len(changes) \in Nat
      /\ DOMAIN changes' = 1 .. Len(changes) - 1
      /\ \A i \in 1 .. Len(changes) - 1 : changes'[i] = changes[i + 1]
      /\ changes' \in Seq(Change) /\ c = changes[1] /\ c \in Change /\ 1 \in DOMAIN changes
  BY <1>1, <1>2, TailFacts DEF Typed
<1>4. \A i \in DOMAIN changes : i = 1 \/ (i - 1 \in DOMAIN changes' /\ changes'[i - 1] = changes[i])
  BY <1>3
<1>5. \A i \in DOMAIN changes' : i + 1 \in DOMAIN changes /\ changes'[i] = changes[i + 1]
  BY <1>3
<1>6. c.id \in Id /\ c.kind \in {"create", "update", "delete"}
  BY Zenon, <1>3 DEF Change
<1>7. c.id \in DOMAIN db /\ (c.kind = "delete" => db[c.id] = 0)
  BY <1>3 DEF IInv, DeletionsReal
<1>8. sent => /\ m \in Message /\ \A row \in RowsOf(m) : Real(row) /\ row.v = db[row.id]
              /\ m.type = c.kind
              /\ m.type = "delete" => m.id = c.id
              /\ m.type # "delete" => m.row = Row(c.id) /\ RowsOf(m) = {m.row} /\ m.row.id = c.id
  <2>1. CASE c.kind = "delete"
    BY <2>1, <1>6 DEF Announcement, Message, DeleteMessage, RowsOf
  <2>2. CASE c.kind # "delete" /\ c.id \in Present
    <3>1. Row(c.id) \in Machine /\ Real(Row(c.id)) /\ Row(c.id).v = db[Row(c.id).id] /\ Row(c.id).id = c.id
      BY <2>2, RowFacts
    <3>2. m = [type |-> c.kind, row |-> Row(c.id)]
      BY <2>2 DEF Announcement
    <3>3. m \in RowMessage /\ RowsOf(m) = {Row(c.id)}
      BY <3>1, <3>2, <2>2, <1>6 DEF RowMessage, RowsOf
    <3> QED BY <3>1, <3>2, <3>3, <2>2 DEF Message
  <2> QED BY <2>1, <2>2
<1> HIDE DEF c, m
<1>9. \A i \in DOMAIN changes' :
        changes'[i].id \in DOMAIN db' /\ (changes'[i].kind = "delete" => db'[changes'[i].id] = 0)
  BY <1>1, <1>5 DEF IInv, DeletionsReal
<1>10. \A id : Announced(id) => Announced(id)' \/ (c.id = id /\ (c.kind = "delete" <=> db[id] = 0))
  <2> SUFFICES ASSUME NEW id, NEW i \in DOMAIN changes, changes[i].id = id,
                      changes[i].kind = "delete" <=> db[id] = 0,
                      ~(c.id = id /\ (c.kind = "delete" <=> db[id] = 0))
               PROVE  Announced(id)'
    BY DEF Announced
  <2>1. i # 1
    BY Zenon, <1>3
  <2>2. PICK j \in DOMAIN changes' : changes'[j] = changes[i]
    BY <2>1, <1>4
  <2> QED BY Zenon, <2>2, <1>1 DEF Announced
<1>11. CASE ~sent
  <2>1. down' = down
    BY <1>1, <1>11
  <2>2. /\ Typed' /\ RowsReal' /\ LimitsReal' /\ NoDuplicates' /\ RowsHaveStatuses'
        /\ SelectionListed' /\ OneBatch'
    <3>1. Typed'
      BY Zenon, <2>1, <1>1, <1>2, <1>3 DEF Typed
    <3>2. RowsReal' /\ LimitsReal'
      BY <2>1, <1>1 DEF IInv, RowsReal, Real, RowsOf, LimitsReal
    <3>3. NoDuplicates' /\ RowsHaveStatuses' /\ SelectionListed'
      BY <1>1 DEF IInv, NoDuplicates, RowsHaveStatuses, SelectionListed, Shown
    <3>4. OneBatch'
      BY <2>1, <1>1 DEF IInv, OneBatch, Asked, Sent
    <3> QED BY <3>1, <3>2, <3>3, <3>4
  <2>3. DeletionsReal'
    BY <2>1, <1>1, <1>9 DEF IInv, DeletionsReal
  <2>4. ASSUME NEW row, NEW p, Real(row), Settled(row, p)
        PROVE  Settled(row, p)'
    <3>1. row.id \in DOMAIN db /\ (c.id = row.id => db[row.id] = 0)
      <4>1. row.id \in DOMAIN db /\ db \in Seq(Nat)
        BY <2>4, <1>2 DEF Real, Typed
      <4>2. db[row.id] \in Nat
        BY <4>1
      <4> QED BY <4>1, <4>2, <1>11 DEF Present
    <3>2. Announced(row.id) => Announced(row.id)'
      BY <3>1, <1>10, <1>11
    <3>3. \A q \in DOMAIN down : Corrects(down[q], row.id) => Corrects(down[q], row.id)'
      BY <1>1, <2>1 DEF Corrects, Row
    <3> QED BY Zenon, <2>4, <2>1, <1>1, <3>2, <3>3 DEF Settled
  <2>5. RowsSettled'
    <3>1. ASSUME NEW i \in DOMAIN items PROVE Settled(items[i], 0)'
      <4>1. PICK r : r = items[i]
        OBVIOUS
      <4>2. Settled(r, 0)'
        BY <4>1, <2>4 DEF IInv, RowsReal, RowsSettled
      <4> QED BY <4>1, <4>2, <1>1
    <3>2. \A p \in DOMAIN down : \A row \in RowsOf(down[p]) : Settled(row, p)'
      BY <2>4 DEF IInv, RowsReal, RowsSettled
    <3> QED BY <1>1, <2>1, <3>1, <3>2 DEF RowsSettled, RowsOf
  <2>6. NoneMissed'
    <3> SUFFICES ASSUME ~stray, loaded \/ Asked # {} \/ Sent # {}, NEW x \in Present
                 PROVE  x \in Shown \/ OnItsWay(x)' \/ ToCome(x)
      BY Zenon, <1>1, <2>1 DEF NoneMissed, Shown, Asked, Sent, ToCome, Present
    <3>1. OnItsWay(x) => OnItsWay(x)'
      <4>1. ASSUME NEW i \in DOMAIN changes, changes[i].id = x, changes[i].kind = "create"
            PROVE  OnItsWay(x)'
        <5>1. i # 1
          BY Zenon, <4>1, <1>3, <1>11
        <5>2. PICK j \in DOMAIN changes' : changes'[j] = changes[i]
          BY <5>1, <1>4
        <5> QED BY <4>1, <5>2 DEF OnItsWay
      <4>2. ASSUME NEW p \in DOMAIN down, down[p].type # "update",
                   \E row \in RowsOf(down[p]) : row.id = x
            PROVE  OnItsWay(x)'
        BY <4>2, <2>1 DEF OnItsWay, RowsOf
      <4> QED BY <4>1, <4>2 DEF OnItsWay
    <3> QED BY <3>1 DEF IInv, NoneMissed
  <2> QED BY <2>2, <2>3, <2>5, <2>6 DEF IInv
<1>12. CASE sent
  <2>1. /\ m \in Message /\ \A row \in RowsOf(m) : Real(row) /\ row.v = db[row.id]
        /\ m.type = c.kind
        /\ m.type = "delete" => m.id = c.id
        /\ m.type # "delete" => m.row = Row(c.id) /\ RowsOf(m) = {m.row} /\ m.row.id = c.id
        /\ down' = Append(down, m)
    BY Zenon, <1>12, <1>8, <1>1
  <2>2. /\ down' \in Seq(Message)
        /\ \A p \in DOMAIN down' : down'[p] = m \/ (p \in DOMAIN down /\ down'[p] = down[p])
        /\ \A p \in DOMAIN down : p \in DOMAIN down' /\ down'[p] = down[p]
        /\ Len(down) + 1 \in DOMAIN down' /\ down'[Len(down) + 1] = m
        /\ \A p \in DOMAIN down : p < Len(down) + 1
        /\ RowsReal'
        /\ \A p \in DOMAIN down' : down'[p].type = "list" => down'[p].request.limit > 0
        /\ \A p \in DOMAIN down' :
             down'[p].type = "delete" => down'[p].id \in DOMAIN db' /\ db'[down'[p].id] = 0
    BY Zenon, <2>1, <1>1, <1>6, <1>7, SendRows
  <2>3. Typed'
    BY Zenon, <1>1, <1>2, <1>3, <2>2 DEF Typed
  <2>4. LimitsReal' /\ DeletionsReal'
    BY Zenon, <1>1, <1>9, <2>2 DEF IInv, LimitsReal, DeletionsReal
  <2>5. NoDuplicates' /\ RowsHaveStatuses' /\ SelectionListed'
    BY <1>1 DEF IInv, NoDuplicates, RowsHaveStatuses, SelectionListed, Shown
  <2>6. Sent' = Sent /\ Asked' = Asked
    BY <1>1, <2>1, <2>2, <1>6 DEF Sent, Asked
  <2>7. OneBatch'
    BY Zenon, <2>6, <1>1 DEF IInv, OneBatch
  <2>8. ASSUME NEW row, NEW p, Real(row), Settled(row, p), p = 0 \/ p \in DOMAIN down
        PROVE  Settled(row, p)'
    <3>1. p < Len(down) + 1
      BY <2>8, <2>2, <1>2 DEF Typed
    <3>2. ASSUME c.id = row.id, c.kind = "delete" <=> db[row.id] = 0
          PROVE  Corrects(m, row.id)
      <4>1. row.id \in DOMAIN db /\ db \in Seq(Nat)
        BY <2>8, <1>2 DEF Real, Typed
      <4>2. db[row.id] \in Nat
        BY <4>1
      <4> QED BY <3>2, <4>2, <2>1, <1>6 DEF Corrects
    <3>4. Corrects(m, row.id) => Settled(row, p)'
      <4> SUFFICES ASSUME Corrects(m, row.id)
                   PROVE  \E q \in DOMAIN down' : q > p /\ Corrects(down[q], row.id)'
        BY DEF Settled
      <4>1. PICK q \in DOMAIN down' : q = Len(down) + 1
        BY <2>2
      <4>2. Corrects(down[q], row.id)'
        BY <4>1, <2>2, <1>1 DEF Corrects, Row
      <4> QED BY <4>1, <4>2, <3>1
    <3>5. ASSUME NEW q \in DOMAIN down, q > p, Corrects(down[q], row.id)
          PROVE  Settled(row, p)'
      <4>1. q \in DOMAIN down' /\ down'[q] = down[q]
        BY <2>2
      <4>2. Corrects(down[q], row.id)'
        BY <3>5, <4>1, <1>1 DEF Corrects, Row
      <4> QED BY <3>5, <4>1, <4>2 DEF Settled
    <3>6. Announced(row.id) => Announced(row.id)' \/ Corrects(m, row.id)
      BY <3>2, <1>10
    <3> QED BY Zenon, <2>8, <1>1, <3>4, <3>5, <3>6 DEF Settled
  <2>9. RowsSettled'
    <3>1. ASSUME NEW i \in DOMAIN items PROVE Settled(items[i], 0)'
      <4>1. PICK r : r = items[i]
        OBVIOUS
      <4>2. Settled(r, 0)'
        BY <4>1, <2>8 DEF IInv, RowsReal, RowsSettled
      <4> QED BY <4>1, <4>2, <1>1
    <3>2. \A p \in DOMAIN down : \A row \in RowsOf(down[p]) : Settled(row, p)'
      BY <2>8 DEF IInv, RowsReal, RowsSettled
    <3>3. \A row \in RowsOf(m) : \A p : Settled(row, p)'
      BY <2>1, <1>1 DEF Settled
    <3>4. \A p \in DOMAIN down' : \A row \in RowsOf(down'[p]) : Settled(row, p)'
      BY Zenon, <3>2, <3>3, <2>2
    <3> QED BY Zenon, <1>1, <3>1, <3>4 DEF RowsSettled, RowsOf
  <2>10. NoneMissed'
    <3> SUFFICES ASSUME ~stray, loaded \/ Asked # {} \/ Sent # {}, NEW x \in Present
                 PROVE  x \in Shown \/ OnItsWay(x)' \/ ToCome(x)'
      BY <1>1, <2>6 DEF NoneMissed, Shown, Present
    <3>1. ToCome(x) => ToCome(x)'
      <4>1. \A p \in Sent : p \in DOMAIN down /\ down'[p] = down[p]
        BY <2>2 DEF Sent
      <4>2. (\E i \in Asked : up[i].start < x) => ToCome(x)'
        BY <2>6, <1>1 DEF ToCome
      <4>3. ASSUME NEW p \in Sent, Full(down[p].request, down[p].page),
                   \A i \in DOMAIN down[p].page : down[p].page[i].id < x
            PROVE  ToCome(x)'
        <5>1. p \in Sent' /\ down'[p] = down[p]
          BY <2>6, <4>1
        <5> QED BY Zenon, <4>3, <5>1 DEF ToCome, Full
      <4> QED BY <4>2, <4>3 DEF ToCome
    <3>2. OnItsWay(x) => OnItsWay(x)'
      <4>1. ASSUME NEW i \in DOMAIN changes, changes[i].id = x, changes[i].kind = "create"
            PROVE  OnItsWay(x)'
        <5>1. CASE i = 1
          <6>1. m.type = "create" /\ m.row.id = x /\ m.row \in RowsOf(m)
            BY Zenon, <5>1, <4>1, <1>3, <2>1
          <6>2. PICK q \in DOMAIN down' : down'[q] = m
            BY <2>2
          <6>3. m.type # "update" /\ \E row \in RowsOf(down'[q]) : row.id = x
            BY <6>1, <6>2
          <6> QED BY <6>2, <6>3 DEF OnItsWay, RowsOf
        <5>2. CASE i # 1
          <6>1. PICK j \in DOMAIN changes' : changes'[j] = changes[i]
            BY <5>2, <1>4
          <6> QED BY <4>1, <6>1 DEF OnItsWay
        <5> QED BY <5>1, <5>2
      <4>2. ASSUME NEW p \in DOMAIN down, down[p].type # "update",
                   \E row \in RowsOf(down[p]) : row.id = x
            PROVE  OnItsWay(x)'
        BY <4>2, <2>2 DEF OnItsWay, RowsOf
      <4> QED BY <4>1, <4>2 DEF OnItsWay
    <3> QED BY <3>1, <3>2 DEF IInv, NoneMissed
  <2> QED BY <2>2, <2>3, <2>4, <2>5, <2>7, <2>9, <2>10 DEF IInv
<1> QED BY <1>11, <1>12

\* The page that answers a list request: rows as they are, in order, and what it
\* leaves out comes after them.
LEMMA PageFacts ==
  ASSUME MachinesAssumption, IInv, NEW r \in ListRequest, NEW page \in Pages(r)
  PROVE  /\ page \in Seq(Machine)
         /\ \A i \in DOMAIN page : /\ Real(page[i]) /\ page[i].v = db[page[i].id]
                                   /\ page[i].id \in Present
         /\ \A x \in Present : x > r.start =>
              \/ \E i \in DOMAIN page : page[i].id = x
              \/ Len(page) = r.limit /\ \A i \in DOMAIN page : page[i].id < x
<1> DEFINE after == {Row(id) : id \in {k \in Present : k > r.start}}
<1>1. PICK n \in 0 .. r.limit : page \in [1 .. n -> after]
  BY Zenon DEF Pages
<1>2. n \in Nat /\ r.limit \in Nat
  BY DEF ListRequest
<1>3. DOMAIN page = 1 .. n
  BY <1>1
<1>4. \A row \in after : /\ row \in Machine /\ Real(row)
                         /\ row.v = db[row.id] /\ row.id \in Present
  BY RowFacts
<1>5. \A x \in Present : x > r.start => Row(x) \in after /\ Row(x).id = x
  BY RowFacts
<1>6. \A row \in after :
        \/ \E i \in DOMAIN page : page[i] = row
        \/ Len(page) = r.limit /\ \A i \in DOMAIN page : page[i].id < row.id
  BY Zenon DEF Pages
<1> HIDE DEF after
<1>7. \A i \in DOMAIN page : page[i] \in after
  BY <1>1, <1>3
<1>8. page \in Seq(Machine)
  <2>1. page \in [1 .. n -> Machine]
    BY <1>1, <1>4
  <2> QED BY <2>1, <1>2
<1>9. ASSUME NEW x \in Present, x > r.start
      PROVE  \/ \E i \in DOMAIN page : page[i].id = x
             \/ Len(page) = r.limit /\ \A i \in DOMAIN page : page[i].id < x
  BY <1>5, <1>6, <1>9
<1> QED BY <1>4, <1>7, <1>8, <1>9

\* An answer that is as the region has its machines keeps what is said of rows.
LEMMA AnswerRows ==
  ASSUME IInv, NEW m \in Message, up # <<>>, up' = Tail(up), down' = Append(down, m),
         UNCHANGED <<db, changes, items, statuses, selected, loading, loaded>>,
         UNCHANGED <<listLoaded, stray, cut, changed>>,
         \A row \in RowsOf(m) : Real(row) /\ row.v = db[row.id],
         m.type = "list" => m.request.limit > 0,
         m.type # "delete"
  PROVE  /\ Typed' /\ RowsReal' /\ LimitsReal' /\ DeletionsReal'
         /\ NoDuplicates' /\ RowsHaveStatuses' /\ SelectionListed' /\ RowsSettled'
<1>1. /\ down' \in Seq(Message)
      /\ \A p \in DOMAIN down' : down'[p] = m \/ (p \in DOMAIN down /\ down'[p] = down[p])
      /\ RowsReal'
      /\ \A p \in DOMAIN down' : down'[p].type = "list" => down'[p].request.limit > 0
      /\ \A p \in DOMAIN down' :
           down'[p].type = "delete" => down'[p].id \in DOMAIN db' /\ db'[down'[p].id] = 0
  BY SendRows
<1>2. /\ up' \in Seq(ListRequest \union GetRequest)
      /\ \A i \in DOMAIN up' : i + 1 \in DOMAIN up /\ up'[i] = up[i + 1]
  <2>1. up \in Seq(ListRequest \union GetRequest)
    BY DEF IInv, Typed
  <2> QED BY <2>1, TailFacts
<1>3. Typed'
  BY <1>1, <1>2 DEF IInv, Typed
<1>4. LimitsReal' /\ DeletionsReal'
  BY <1>1, <1>2 DEF IInv, LimitsReal, DeletionsReal
<1>5. NoDuplicates' /\ RowsHaveStatuses' /\ SelectionListed'
  BY DEF IInv, NoDuplicates, RowsHaveStatuses, SelectionListed, Shown
<1>6. RowsSettled'
  <2>1. ASSUME NEW row, NEW p, Settled(row, p) PROVE Settled(row, p)'
    BY <2>1, SettledBySend DEF IInv, Typed
  <2>2. ASSUME NEW i \in DOMAIN items PROVE Settled(items[i], 0)'
    <3>1. PICK r : r = items[i]
      OBVIOUS
    <3>2. Settled(r, 0)'
      BY <3>1, <2>1 DEF IInv, RowsSettled
    <3> QED BY <3>1, <3>2
  <2>3. \A p \in DOMAIN down : \A row \in RowsOf(down[p]) : Settled(row, p)'
    BY <2>1 DEF IInv, RowsSettled
  <2>4. \A row \in RowsOf(m) : \A p : Settled(row, p)'
    BY DEF Settled
  <2>5. \A p \in DOMAIN down' : \A row \in RowsOf(down'[p]) : Settled(row, p)'
    BY <2>3, <2>4, <1>1
  <2> QED BY <2>2, <2>5 DEF RowsSettled, RowsOf
<1> QED BY <1>1, <1>3, <1>4, <1>5, <1>6

\* The answer to the request for one machine leaves the batches as they are.
LEMMA AnswersGet ==
  ASSUME MachinesAssumption, IInv, NEW m \in Message,
         up # <<>>, up' = Tail(up), down' = Append(down, m),
         UNCHANGED <<db, changes, items, loaded, listLoaded, stray>>,
         Head(up).method # "list", m.type # "list"
  PROVE  OneBatch' /\ NoneMissed'
<1>1. /\ up \in Seq(ListRequest \union GetRequest) /\ down \in Seq(Message)
      /\ Len(up) \in Nat /\ Len(down) \in Nat
  <2>1. Typed
    BY DEF IInv
  <2>2. up \in Seq(ListRequest \union GetRequest) /\ down \in Seq(Message)
    BY <2>1 DEF Typed
  <2> QED BY <2>2
<1>2. \A i \in DOMAIN up' : i + 1 \in DOMAIN up /\ up'[i] = up[i + 1] /\ i \in Nat
  BY <1>1, TailFacts
<1>3. \A i \in DOMAIN up : i # 1 => i - 1 \in DOMAIN up' /\ up'[i - 1] = up[i] /\ i \in Nat
  <2>1. /\ DOMAIN up = 1 .. Len(up) /\ DOMAIN up' = 1 .. Len(up) - 1
        /\ \A i \in 1 .. Len(up) - 1 : up'[i] = up[i + 1]
    BY <1>1, TailFacts
  <2> QED BY <1>1, <2>1
<1>4. up[1].method # "list"
  BY Zenon, <1>1, TailFacts
<1>5. /\ \A p \in DOMAIN down : p \in DOMAIN down' /\ down'[p] = down[p]
      /\ \A p \in DOMAIN down' : down'[p] = m \/ (p \in DOMAIN down /\ down'[p] = down[p])
  <2>1. /\ DOMAIN down = 1 .. Len(down) /\ DOMAIN down' = 1 .. Len(down) + 1
        /\ \A i \in 1 .. Len(down) : down'[i] = down[i]
        /\ down'[Len(down) + 1] = m
    BY <1>1, AppendFacts
  <2> QED BY <1>1, <2>1
<1>6. /\ \A i \in Asked' : i + 1 \in Asked /\ i \in Nat
      /\ \A i \in Asked : i - 1 \in Asked' /\ up'[i - 1] = up[i]
      /\ Sent' = Sent
  BY Zenon, <1>2, <1>3, <1>4, <1>5 DEF Asked, Sent
<1>7. OneBatch'
  <2>1. \A i, j \in Asked' : i = j
    <3> TAKE i, j \in Asked'
    <3>1. i + 1 = j + 1 /\ i \in Nat /\ j \in Nat
      BY <1>6 DEF IInv, OneBatch
    <3> QED BY <3>1
  <2> QED BY Zenon, <2>1, <1>6 DEF IInv, OneBatch
<1>8. NoneMissed'
  <2> SUFFICES ASSUME ~stray, loaded \/ Asked # {} \/ Sent # {}, NEW x \in Present
               PROVE  x \in Shown \/ OnItsWay(x)' \/ ToCome(x)'
    BY <1>6 DEF NoneMissed, Shown, Present
  <2>1. OnItsWay(x) => OnItsWay(x)'
    <3>1. ASSUME NEW p \in DOMAIN down, down[p].type # "update",
                 \E row \in RowsOf(down[p]) : row.id = x
          PROVE  OnItsWay(x)'
      <4>1. p \in DOMAIN down' /\ down'[p] = down[p]
        BY Zenon, <1>5
      <4> QED BY Zenon, <3>1, <4>1 DEF OnItsWay, RowsOf
    <3> QED BY Zenon, <3>1 DEF OnItsWay
  <2>2. ToCome(x) => ToCome(x)'
    <3>1. ASSUME NEW i \in Asked, up[i].start < x PROVE ToCome(x)'
      <4>1. i - 1 \in Asked' /\ up'[i - 1] = up[i]
        BY Zenon, <1>6
      <4> QED BY Zenon, <3>1, <4>1 DEF ToCome
    <3>2. ASSUME NEW p \in Sent, Full(down[p].request, down[p].page),
                 \A i \in DOMAIN down[p].page : down[p].page[i].id < x
          PROVE  ToCome(x)'
      <4>1. p \in Sent' /\ down'[p] = down[p]
        BY Zenon, <1>5, <1>6 DEF Sent
      <4> QED BY Zenon, <3>2, <4>1 DEF ToCome, Full
    <3> QED BY Zenon, <3>1, <3>2 DEF ToCome
  <2> QED BY <2>1, <2>2 DEF IInv, NoneMissed
<1> QED BY <1>7, <1>8

\* The answer to a list request is the only batch under way, and leaves nothing
\* out that does not come after it; an error ends the batches.
LEMMA AnswersList ==
  ASSUME MachinesAssumption, IInv, NEW m \in Message,
         up # <<>>, up' = Tail(up), down' = Append(down, m),
         UNCHANGED <<db, changes, items, loaded, listLoaded, stray>>,
         Head(up).method = "list",
         \/ m.type = "error"
         \/ /\ m.type = "list" /\ m.request = Head(up)
            /\ \A x \in Present : x > m.request.start =>
                 \/ \E i \in DOMAIN m.page : m.page[i].id = x
                 \/ /\ Full(m.request, m.page)
                    /\ \A i \in DOMAIN m.page : m.page[i].id < x
  PROVE  OneBatch' /\ NoneMissed'
<1>1. /\ up \in Seq(ListRequest \union GetRequest) /\ down \in Seq(Message)
      /\ Len(up) \in Nat /\ Len(down) \in Nat
  <2>1. Typed
    BY DEF IInv
  <2>2. up \in Seq(ListRequest \union GetRequest) /\ down \in Seq(Message)
    BY <2>1 DEF Typed
  <2> QED BY <2>2
<1>2. \A i \in DOMAIN up' : i + 1 \in DOMAIN up /\ up'[i] = up[i + 1] /\ i \in Nat
  BY <1>1, TailFacts
<1>3. up[1].method = "list" /\ 1 \in DOMAIN up /\ Head(up) = up[1]
  BY <1>1, TailFacts
<1>4. /\ \A p \in DOMAIN down : p \in DOMAIN down' /\ down'[p] = down[p]
      /\ \A p \in DOMAIN down' :
           \/ p = Len(down) + 1 /\ down'[p] = m
           \/ p \in DOMAIN down /\ down'[p] = down[p]
      /\ Len(down) + 1 \in DOMAIN down' /\ down'[Len(down) + 1] = m
  <2>1. /\ DOMAIN down = 1 .. Len(down) /\ DOMAIN down' = 1 .. Len(down) + 1
        /\ \A i \in 1 .. Len(down) : down'[i] = down[i]
        /\ down'[Len(down) + 1] = m
    BY <1>1, AppendFacts
  <2> QED BY <1>1, <2>1
<1>5. 1 \in Asked /\ \A i \in Asked : i = 1
  BY <1>3 DEF Asked, IInv, OneBatch
<1>6. Sent = {} /\ listLoaded /\ ~loaded
  BY <1>5 DEF IInv, OneBatch
<1>7. Asked' = {}
  <2> SUFFICES ASSUME NEW i \in Asked' PROVE FALSE
    OBVIOUS
  <2>1. i + 1 \in Asked /\ i \in Nat /\ i \in DOMAIN up'
    BY <1>2 DEF Asked
  <2>2. i # 0
    BY <2>1, <1>1, TailFacts
  <2> QED BY <1>5, <2>1, <2>2
<1>8. CASE m.type = "error"
  <2>1. Sent' = {}
    BY Zenon, <1>4, <1>6, <1>8 DEF Sent
  <2> QED BY <2>1, <1>6, <1>7 DEF OneBatch, NoneMissed
<1>9. CASE /\ m.type = "list" /\ m.request = Head(up)
           /\ \A x \in Present : x > m.request.start =>
                \/ \E i \in DOMAIN m.page : m.page[i].id = x
                \/ /\ Full(m.request, m.page)
                   /\ \A i \in DOMAIN m.page : m.page[i].id < x
  <2>1. Sent' = {Len(down) + 1}
    BY <1>4, <1>6, <1>9 DEF Sent
  <2>2. OneBatch'
    BY <2>1, <1>6, <1>7 DEF OneBatch
  <2>3. NoneMissed'
    <3> SUFFICES ASSUME ~stray, NEW x \in Present
                 PROVE  x \in Shown \/ OnItsWay(x)' \/ ToCome(x)'
      BY DEF NoneMissed, Shown, Present
    <3>1. OnItsWay(x) => OnItsWay(x)'
      BY <1>4 DEF OnItsWay, RowsOf
    <3>2. ASSUME ToCome(x) PROVE OnItsWay(x)' \/ ToCome(x)'
      <4>1. m.request.start < x
        BY <3>2, <1>3, <1>5, <1>6, <1>9 DEF ToCome
      <4>2. x > m.request.start
        <5>1. m.request.start \in Nat
          BY Zenon, <1>9, <1>3, MessageFacts DEF ListRequest
        <5>2. x \in Nat
          <6>1. db \in Seq(Nat)
            BY DEF IInv, Typed
          <6>2. DOMAIN db \subseteq Nat
            BY <6>1
          <6> QED BY <6>2 DEF Present
        <5> QED BY <5>1, <5>2, <4>1
      <4>3. CASE \E i \in DOMAIN m.page : m.page[i].id = x
        <5>1. \E row \in RowsOf(m) : row.id = x
          BY <4>3, <1>9 DEF RowsOf
        <5>2. PICK p \in DOMAIN down' : down'[p] = m
          BY Zenon, <1>4
        <5>3. down'[p].type # "update" /\ \E row \in RowsOf(down'[p]) : row.id = x
          BY Zenon, <5>1, <5>2, <1>9
        <5> QED BY Zenon, <5>3 DEF OnItsWay, RowsOf
      <4>4. CASE /\ Full(m.request, m.page)
                 /\ \A i \in DOMAIN m.page : m.page[i].id < x
        <5>1. PICK p \in Sent' : down'[p] = m
          BY <1>4, <2>1
        <5> QED BY Zenon, <5>1, <4>4 DEF ToCome, Full
      <4> QED BY <1>9, <4>2, <4>3, <4>4
    <3> QED BY <3>1, <3>2, <1>5 DEF IInv, NoneMissed
  <2> QED BY <2>2, <2>3
<1> QED BY <1>8, <1>9

\* RegionAnswers keeps the invariant.
LEMMA AnswersInv ==
  ASSUME MachinesAssumption, IInv, RegionAnswers
  PROVE  IInv'
<1> DEFINE r == Head(up)
<1>1. /\ up # <<>> /\ up' = Tail(up)
      /\ UNCHANGED <<db, changes, items, statuses, selected, loading, loaded>>
      /\ UNCHANGED <<listLoaded, stray, cut, changed>>
  BY DEF RegionAnswers, slice, history
<1>2. /\ up \in Seq(ListRequest \union GetRequest) /\ r = up[1] /\ 1 \in DOMAIN up
      /\ r \in ListRequest \union GetRequest
  <2>1. up \in Seq(ListRequest \union GetRequest)
    BY DEF IInv, Typed
  <2> QED BY <1>1, <2>1, TailFacts
<1>3. /\ r.method = "list" => r \in ListRequest /\ r.limit > 0
      /\ r.method # "list" => r.method = "get"
  BY <1>2 DEF ListRequest, GetRequest, IInv, LimitsReal
<1>4. ASSUME NEW m \in Message, down' = Append(down, m),
             \A row \in RowsOf(m) : Real(row) /\ row.v = db[row.id],
             m.type = "list" => m.request.limit > 0,
             m.type # "delete",
             OneBatch' /\ NoneMissed'
      PROVE  IInv'
  BY <1>1, <1>4, AnswerRows DEF IInv
<1>5. ASSUME r.method = "list", NEW page \in Pages(r),
             down' = Append(down, [type |-> "list", request |-> r, page |-> page])
      PROVE  IInv'
  <2> DEFINE m == [type |-> "list", request |-> r, page |-> page]
  <2>1. /\ page \in Seq(Machine)
        /\ \A i \in DOMAIN page : /\ Real(page[i]) /\ page[i].v = db[page[i].id]
                                  /\ page[i].id \in Present
        /\ \A x \in Present : x > r.start =>
             \/ \E i \in DOMAIN page : page[i].id = x
             \/ Len(page) = r.limit /\ \A i \in DOMAIN page : page[i].id < x
    BY <1>3, <1>5, PageFacts
  <2>2. m \in Message
    BY <1>3, <1>5, <2>1 DEF Message, ListMessage
  <2>3. \A row \in RowsOf(m) : Real(row) /\ row.v = db[row.id]
    BY <2>1 DEF RowsOf
  <2>4. OneBatch' /\ NoneMissed'
    <3>1. \A x \in Present : x > m.request.start =>
            \/ \E i \in DOMAIN m.page : m.page[i].id = x
            \/ /\ Full(m.request, m.page)
               /\ \A i \in DOMAIN m.page : m.page[i].id < x
      BY <2>1 DEF Full
    <3>2. m.type = "list" /\ m.request = Head(up)
      OBVIOUS
    <3>3. down' = Append(down, m)
      BY <1>5
    <3> HIDE DEF m
    <3> QED BY Zenon, <1>1, <1>5, <2>2, <3>1, <3>2, <3>3, AnswersList
  <2>5. m.type = "list" /\ m.request.limit > 0 /\ down' = Append(down, m)
    BY <1>3, <1>5
  <2> HIDE DEF m
  <2> QED BY <1>4, <2>2, <2>3, <2>4, <2>5
<1>6. ASSUME r.method = "list" \/ r.method = "get",
             down' = Append(down, [type |-> "error", method |-> r.method])
      PROVE  IInv'
  <2> DEFINE m == [type |-> "error", method |-> r.method]
  <2>1. m \in Message /\ RowsOf(m) = {} /\ m.type = "error" /\ down' = Append(down, m)
    BY <1>6 DEF Message, ErrorMessage, RowsOf
  <2> HIDE DEF m
  <2>2. OneBatch' /\ NoneMissed'
    <3>1. CASE r.method = "list"
      BY Zenon, <1>1, <2>1, <3>1, AnswersList
    <3>2. CASE r.method = "get"
      BY <1>1, <2>1, <3>2, AnswersGet
    <3> QED BY <1>6, <3>1, <3>2
  <2> QED BY <1>4, <2>1, <2>2
<1>7. ASSUME r.method = "get", r.id \in Present,
             down' = Append(down, [type |-> "get", row |-> Row(r.id)])
      PROVE  IInv'
  <2> DEFINE m == [type |-> "get", row |-> Row(r.id)]
  <2>1. /\ Row(r.id) \in Machine /\ Real(Row(r.id))
        /\ Row(r.id).v = db[Row(r.id).id]
    BY <1>7, RowFacts
  <2>2. m \in RowMessage /\ RowsOf(m) = {Row(r.id)}
    BY <2>1 DEF RowMessage, RowsOf
  <2>3. m \in Message /\ m.type = "get" /\ down' = Append(down, m)
    BY <1>7, <2>2 DEF Message
  <2> HIDE DEF m
  <2>4. OneBatch' /\ NoneMissed'
    BY Zenon, <1>1, <1>7, <2>3, AnswersGet
  <2> QED BY <1>4, <2>1, <2>2, <2>3, <2>4
<1>8. \/ r.method = "list" /\ \E page \in Pages(r) :
           down' = Append(down, [type |-> "list", request |-> r, page |-> page])
      \/ r.method = "list" /\ down' = Append(down, [type |-> "error", method |-> r.method])
      \/ /\ r.method = "get" /\ r.id \in Present
         /\ down' = Append(down, [type |-> "get", row |-> Row(r.id)])
      \/ r.method = "get" /\ down' = Append(down, [type |-> "error", method |-> r.method])
  BY Zenon DEF RegionAnswers
<1> HIDE DEF r
<1> QED BY Zenon, <1>5, <1>6, <1>7, <1>8

\* fetch keeps the invariant: its batch starts before every machine.
LEMMA FetchInv ==
  ASSUME MachinesAssumption, IInv, fetch
  PROVE  IInv'
<1> DEFINE r == [method |-> "list", start |-> 0, limit |-> FirstLimit]
<1>1. /\ up' = Append(up, r) /\ ~listLoaded /\ listLoaded' = TRUE /\ loading' = TRUE
      /\ UNCHANGED <<db, changes, down, items, statuses, selected, loaded>>
      /\ UNCHANGED <<stray, cut, changed>>
  BY DEF fetch, history
<1>2. r \in ListRequest /\ r.limit > 0 /\ r.start = 0 /\ r.method = "list"
  BY DEF ListRequest, MachinesAssumption
<1> HIDE DEF r
<1>3. up \in Seq(ListRequest \union GetRequest)
  BY DEF IInv, Typed
<1>4. /\ up' \in Seq(ListRequest \union GetRequest)
      /\ \A i \in DOMAIN up : i \in DOMAIN up' /\ up'[i] = up[i]
      /\ \A i \in DOMAIN up' : \/ i = Len(up) + 1 /\ up'[i] = r
                               \/ i \in DOMAIN up /\ up'[i] = up[i]
      /\ Len(up) + 1 \in DOMAIN up' /\ up'[Len(up) + 1] = r
  BY <1>1, <1>2, <1>3, AppendFacts
<1>5. Asked = {} /\ Sent = {} /\ ~loaded
  BY <1>1 DEF IInv, OneBatch
<1>6. Asked' = {Len(up) + 1} /\ Sent' = {}
  BY <1>1, <1>2, <1>4, <1>5 DEF Asked, Sent
<1>7. Typed'
  BY Zenon, <1>1, <1>4 DEF IInv, Typed
<1>8. RowsReal' /\ DeletionsReal'
  BY <1>1 DEF IInv, RowsReal, Real, RowsOf, DeletionsReal
<1>9. LimitsReal'
  BY <1>1, <1>2, <1>4 DEF IInv, LimitsReal
<1>10. NoDuplicates' /\ RowsHaveStatuses' /\ SelectionListed'
  BY <1>1 DEF IInv, NoDuplicates, RowsHaveStatuses, SelectionListed, Shown
<1>11. RowsSettled'
  BY <1>1 DEF IInv, RowsSettled, Settled, Announced, Corrects, Row, RowsOf
<1>12. OneBatch'
  BY <1>1, <1>5, <1>6 DEF OneBatch
<1>13. NoneMissed'
  <2>1. ASSUME NEW x \in Present PROVE ToCome(x)'
    <3>1. db \in Seq(Nat)
      BY DEF IInv, Typed
    <3>2. \A y \in DOMAIN db : 0 < y
      BY <3>1
    <3>3. 0 < x
      BY <3>2 DEF Present
    <3>4. \E i \in Asked' : up'[i].start < x
      BY <1>2, <1>4, <1>6, <3>3
    <3> QED BY <3>4 DEF ToCome
  <2>2. Present' = Present
    BY <1>1 DEF Present
  <2> QED BY <2>1, <2>2 DEF NoneMissed
<1> QED BY <1>7, <1>8, <1>9, <1>10, <1>11, <1>12, <1>13 DEF IInv

\* get keeps the invariant: it asks for no batch.
LEMMA GetInv ==
  ASSUME MachinesAssumption, IInv, get
  PROVE  IInv'
<1>1. PICK id \in DOMAIN db : up' = Append(up, [method |-> "get", id |-> id])
  BY DEF get
<1> DEFINE r == [method |-> "get", id |-> id]
<1>2. /\ up' = Append(up, r) /\ loading' = TRUE
      /\ UNCHANGED <<db, changes, down, items, statuses, selected, loaded, listLoaded>>
      /\ UNCHANGED <<stray, cut, changed>>
  BY Zenon, <1>1 DEF get, history
<1>3. r \in GetRequest /\ r.method # "list"
  <2>1. /\ db \in Seq(Nat) /\ Len(db) \in Nat /\ DOMAIN db = 1 .. Len(db)
        /\ Len(db) <= Initial + changed /\ changed <= MaxChanges
        /\ Initial \in Nat /\ MaxChanges \in Nat /\ changed \in Nat
    BY DEF IInv, Typed, MachinesAssumption
  <2>2. id \in Id
    BY <2>1 DEF Id
  <2> QED BY <2>2 DEF GetRequest
<1> HIDE DEF r
<1>4. up \in Seq(ListRequest \union GetRequest)
  BY DEF IInv, Typed
<1>5. /\ up' \in Seq(ListRequest \union GetRequest)
      /\ \A i \in DOMAIN up : i \in DOMAIN up' /\ up'[i] = up[i]
      /\ \A i \in DOMAIN up' : up'[i] = r \/ (i \in DOMAIN up /\ up'[i] = up[i])
  BY <1>2, <1>3, <1>4, AppendFacts
<1>6. Asked' = Asked /\ Sent' = Sent
  BY <1>2, <1>3, <1>5 DEF Asked, Sent
<1>7. Typed'
  BY Zenon, <1>2, <1>5 DEF IInv, Typed
<1>8. RowsReal' /\ DeletionsReal'
  BY <1>2 DEF IInv, RowsReal, Real, RowsOf, DeletionsReal
<1>9. LimitsReal'
  BY <1>2, <1>3, <1>5 DEF IInv, LimitsReal
<1>10. NoDuplicates' /\ RowsHaveStatuses' /\ SelectionListed'
  BY <1>2 DEF IInv, NoDuplicates, RowsHaveStatuses, SelectionListed, Shown
<1>11. RowsSettled'
  BY <1>2 DEF IInv, RowsSettled, Settled, Announced, Corrects, Row, RowsOf
<1>12. OneBatch'
  BY <1>2, <1>6 DEF IInv, OneBatch
<1>13. NoneMissed'
  <2>1. \A i \in Asked : up'[i] = up[i]
    BY <1>5 DEF Asked
  <2>2. \A x : ToCome(x) => ToCome(x)'
    BY Zenon, <1>2, <1>6, <2>1 DEF ToCome, Full
  <2>3. \A x : OnItsWay(x) => OnItsWay(x)'
    BY <1>2 DEF OnItsWay, RowsOf
  <2> QED BY <1>2, <1>6, <2>2, <2>3 DEF IInv, NoneMissed, Present, Shown
<1> QED BY <1>7, <1>8, <1>9, <1>10, <1>11, <1>12, <1>13 DEF IInv

\* setSelected keeps the invariant: it takes a listed machine.
LEMMA SelectInv ==
  ASSUME IInv, setSelected
  PROVE  IInv'
<1>1. PICK id \in Shown : selected' = selected \union {id}
  BY DEF setSelected
<1>2. /\ UNCHANGED <<db, changes, up, down, items, statuses, loading, loaded>>
      /\ UNCHANGED <<listLoaded, stray, cut, changed>>
  BY DEF setSelected, history
<1>3. id \in Id
  <2>1. items \in Seq(Machine)
    BY DEF IInv, Typed
  <2>2. \A i \in DOMAIN items : items[i] \in Machine
    BY <2>1
  <2> QED BY <1>1, <2>2 DEF Shown, Machine
<1>4. Typed'
  BY <1>1, <1>2, <1>3 DEF IInv, Typed
<1>5. RowsReal' /\ DeletionsReal' /\ LimitsReal'
  BY <1>2 DEF IInv, RowsReal, Real, RowsOf, DeletionsReal, LimitsReal
<1>6. NoDuplicates' /\ RowsHaveStatuses' /\ SelectionListed'
  BY <1>1, <1>2 DEF IInv, NoDuplicates, RowsHaveStatuses, SelectionListed, Shown
<1>7. RowsSettled'
  BY <1>2 DEF IInv, RowsSettled, Settled, Announced, Corrects, Row, RowsOf
<1>8. OneBatch'
  BY <1>2 DEF IInv, OneBatch, Asked, Sent
<1>9. NoneMissed'
  <2>1. \A x : ToCome(x) => ToCome(x)'
    BY <1>2 DEF ToCome, Full, Asked, Sent
  <2>2. \A x : OnItsWay(x) => OnItsWay(x)'
    BY <1>2 DEF OnItsWay, RowsOf
  <2>3. Asked' = Asked /\ Sent' = Sent
    BY <1>2 DEF Asked, Sent
  <2> QED BY <1>2, <2>1, <2>2, <2>3 DEF IInv, NoneMissed, Present, Shown
<1> QED BY <1>4, <1>5, <1>6, <1>7, <1>8, <1>9 DEF IInv

-----------------------------------------------------------------------------
(* handleMessage, one lemma per reducer.                                     *)

\* The positions of the channel, before and after its first message is taken.
LEMMA TakeFacts ==
  ASSUME IInv, down # <<>>, down' = Tail(down)
  PROVE  /\ Head(down) \in Message /\ Head(down) = down[1] /\ 1 \in DOMAIN down
         /\ down' \in Seq(Message)
         /\ \A p \in DOMAIN down : p \in Nat /\ p > 0
         /\ \A p \in DOMAIN down : p # 1 => p - 1 \in DOMAIN down' /\ down'[p - 1] = down[p]
         /\ \A p \in DOMAIN down' : /\ p \in Nat /\ p > 0 /\ p + 1 # 1
                                    /\ p + 1 \in DOMAIN down /\ down'[p] = down[p + 1]
<1>1. down \in Seq(Message)
  BY DEF IInv, Typed
<1>2. /\ Len(down) \in Nat /\ DOMAIN down = 1 .. Len(down)
      /\ DOMAIN down' = 1 .. Len(down) - 1 /\ down' \in Seq(Message)
      /\ Head(down) = down[1] /\ Head(down) \in Message /\ 1 \in DOMAIN down
      /\ \A p \in 1 .. Len(down) - 1 : down'[p] = down[p + 1]
  BY <1>1, TailFacts
<1>3. \A p \in DOMAIN down : p # 1 => p - 1 \in DOMAIN down' /\ down'[p - 1] = down[p]
  BY <1>2
<1>4. \A p \in DOMAIN down' : p + 1 \in DOMAIN down /\ down'[p] = down[p + 1]
  BY <1>2
<1>5. \A p \in DOMAIN down' : p \in Nat /\ p > 0 /\ p + 1 # 1
  BY <1>2
<1> QED BY <1>2, <1>3, <1>4, <1>5

\* Items that come from the message, or that it does not correct, are settled.
LEMMA HandleRows ==
  ASSUME IInv, down # <<>>, down' = Tail(down), UNCHANGED <<db, changes>>,
         \A i \in DOMAIN items' :
           \/ items'[i] \in RowsOf(Head(down))
           \/ \E j \in DOMAIN items : /\ items'[i] = items[j]
                                      /\ ~Corrects(Head(down), items[j].id)
  PROVE  RowsReal' /\ RowsSettled' /\ DeletionsReal'
<1> DEFINE m == Head(down)
<1>1. /\ m \in Message /\ m = down[1] /\ 1 \in DOMAIN down
      /\ \A p \in DOMAIN down' : /\ p \in Nat /\ p > 0 /\ p + 1 # 1
                                 /\ p + 1 \in DOMAIN down /\ down'[p] = down[p + 1]
  BY TakeFacts
<1>2. \A row : Real(row) => Real(row)'
  BY DEF Real
<1>3. \A row \in RowsOf(m) : Real(row) /\ Settled(row, 1)
  BY <1>1 DEF IInv, RowsReal, RowsSettled
<1>4. ASSUME NEW row, NEW p \in Nat, Settled(row, p), p > 0 \/ ~Corrects(m, row.id)
      PROVE  Settled(row, p - 1)' /\ (p = 0 => Settled(row, 0)')
  BY <1>4, SettledByTake DEF IInv, Typed
<1>5. \A row \in RowsOf(m) : Settled(row, 0)'
  <2> TAKE row \in RowsOf(m)
  <2>1. Settled(row, 1 - 1)'
    BY <1>3, <1>4
  <2>2. 1 - 1 = 0
    OBVIOUS
  <2> QED BY <2>1, <2>2
<1>6. ASSUME NEW i \in DOMAIN items'
      PROVE  Real(items[i])' /\ Settled(items[i], 0)'
  <2>1. PICK r : r = items'[i]
    OBVIOUS
  <2>2. CASE r \in RowsOf(m)
    <3>1. Real(r)' /\ Settled(r, 0)'
      BY <2>2, <1>2, <1>3, <1>5
    <3> QED BY <2>1, <3>1
  <2>3. CASE \E j \in DOMAIN items : r = items[j] /\ ~Corrects(m, items[j].id)
    <3>1. PICK j \in DOMAIN items : r = items[j] /\ ~Corrects(m, items[j].id)
      BY <2>3
    <3>2. Real(r) /\ Settled(r, 0) /\ ~Corrects(m, r.id)
      BY <3>1 DEF IInv, RowsReal, RowsSettled
    <3>3. Real(r)' /\ Settled(r, 0)'
      BY <3>2, <1>2, <1>4
    <3> QED BY <2>1, <3>3
  <2> QED BY <2>1, <2>2, <2>3
<1>7. ASSUME NEW p \in DOMAIN down', NEW row \in RowsOf(down'[p])
      PROVE  Real(row)' /\ Settled(row, p)'
  <2>1. /\ p + 1 \in DOMAIN down /\ row \in RowsOf(down[p + 1])
        /\ p + 1 \in Nat /\ p + 1 > 0 /\ (p + 1) - 1 = p
    BY <1>1
  <2>2. Real(row) /\ Settled(row, p + 1)
    BY <2>1 DEF IInv, RowsReal, RowsSettled
  <2>3. Settled(row, (p + 1) - 1)'
    BY <2>1, <2>2, <1>4
  <2> QED BY <2>1, <2>2, <2>3, <1>2
<1>8. RowsReal' /\ RowsSettled'
  <2>1. \A p \in DOMAIN down' : \A row \in RowsOf(down[p])' : Real(row)' /\ Settled(row, p)'
    BY <1>7 DEF RowsOf
  <2> QED BY <1>6, <2>1 DEF RowsReal, RowsSettled
<1>9. DeletionsReal'
  BY <1>1 DEF IInv, DeletionsReal
<1> QED BY <1>8, <1>9

\* The first message adds machine `x` to the list, if it is not there.
Carried(x) ==
  Head(down).type # "update" /\ \E row \in RowsOf(Head(down)) : row.id = x

\* A message that is no batch leaves the batches as they are, and loses no
\* machine that was shown or that it carried.
LEMMA HandleOther ==
  ASSUME IInv, down # <<>>, down' = Tail(down), Head(down).type # "list",
         UNCHANGED <<db, changes, up, loaded, listLoaded>>,
         stray => stray'
  PROVE  /\ OneBatch'
         /\ (~stray' => \A x \in Present : x \in Shown \/ Carried(x) => x \in Shown')
            => NoneMissed'
<1> DEFINE m == Head(down)
<1>1. /\ m = down[1]
      /\ \A p \in DOMAIN down : p \in Nat
      /\ \A p \in DOMAIN down : p # 1 => p - 1 \in DOMAIN down' /\ down'[p - 1] = down[p]
      /\ \A p \in DOMAIN down' : /\ p \in Nat /\ p > 0 /\ p + 1 # 1
                                 /\ p + 1 \in DOMAIN down /\ down'[p] = down[p + 1]
  BY TakeFacts
<1>2. /\ \A p \in Sent' : p + 1 \in Sent /\ p \in Nat
      /\ \A p \in Sent : p - 1 \in Sent' /\ down'[p - 1] = down[p]
      /\ Asked' = Asked
  BY <1>1 DEF Sent, Asked
<1>3. Sent' # {} <=> Sent # {}
  BY <1>2
<1>4. OneBatch'
  <2>1. \A p, q \in Sent' : p = q
    <3> TAKE p, q \in Sent'
    <3>1. p + 1 = q + 1 /\ p \in Nat /\ q \in Nat
      BY <1>2 DEF IInv, OneBatch
    <3> QED BY <3>1
  <2> QED BY <2>1, <1>2, <1>3 DEF IInv, OneBatch
<1>5. ASSUME ~stray', NEW x, x \in Present,
             loaded \/ Asked # {} \/ Sent # {},
             x \in Shown \/ Carried(x) => x \in Shown'
      PROVE  x \in Shown' \/ OnItsWay(x)' \/ ToCome(x)'
  <2>1. x \in Shown \/ OnItsWay(x) \/ ToCome(x)
    BY <1>5 DEF IInv, NoneMissed
  <2>2. ASSUME ToCome(x) PROVE ToCome(x)'
    <3>1. ASSUME NEW p \in Sent, Full(down[p].request, down[p].page),
                 \A i \in DOMAIN down[p].page : down[p].page[i].id < x
          PROVE  ToCome(x)'
      <4>1. PICK q \in Sent' : down'[q] = down[p]
        BY Zenon, <1>2
      <4> QED BY Zenon, <3>1, <4>1 DEF ToCome, Full
    <3> QED BY Zenon, <2>2, <3>1, <1>2 DEF ToCome
  <2>3. ASSUME OnItsWay(x) PROVE OnItsWay(x)' \/ x \in Shown'
    <3>1. ASSUME NEW p \in DOMAIN down, down[p].type # "update",
                 \E row \in RowsOf(down[p]) : row.id = x
          PROVE  OnItsWay(x)' \/ x \in Shown'
      <4>1. CASE p = 1
        BY <4>1, <3>1, <1>1, <1>5 DEF Carried
      <4>2. CASE p # 1
        <5>1. PICK q \in DOMAIN down' : down'[q] = down[p]
          BY Zenon, <4>2, <1>1
        <5> QED BY <3>1, <5>1 DEF OnItsWay, RowsOf
      <4> QED BY <4>1, <4>2
    <3> QED BY <2>3, <3>1 DEF OnItsWay
  <2> QED BY <2>1, <2>2, <2>3, <1>5
<1>6. ASSUME ~stray' => \A x \in Present : x \in Shown \/ Carried(x) => x \in Shown'
      PROVE  NoneMissed'
  <2> SUFFICES ASSUME ~stray', loaded' \/ Asked' # {} \/ Sent' # {}, NEW x \in Present'
               PROVE  x \in Shown' \/ OnItsWay(x)' \/ ToCome(x)'
    BY DEF NoneMissed
  <2>1. x \in Present /\ (loaded \/ Asked # {} \/ Sent # {})
    BY <1>2, <1>3 DEF Present
  <2> QED BY <2>1, <1>5, <1>6
<1> QED BY <1>4, <1>6

\* Upsert lists the machine once, as the message has it, with its statuses.
LEMMA UpsertFacts ==
  ASSUME items \in Seq(Machine), NoDuplicates, RowsHaveStatuses, statuses \in SUBSET Id,
         NEW row \in Machine, Upsert(row)
  PROVE  /\ items' \in Seq(Machine) /\ statuses' \in SUBSET Id
         /\ NoDuplicates' /\ RowsHaveStatuses'
         /\ Shown' = Shown \union {row.id}
         /\ \A i \in DOMAIN items' :
              \/ items'[i] = row
              \/ \E j \in DOMAIN items : items'[i] = items[j] /\ items[j].id # row.id
<1>1. DOMAIN items = 1 .. Len(items) /\ Len(items) \in Nat /\ row.id \in Id
  BY DEF Machine
<1>2. CASE row.id \in Shown
  <2>1. /\ items' = [i \in DOMAIN items |-> IF i \in IndexOf(row.id) THEN row ELSE items[i]]
        /\ statuses' = statuses
    BY <1>2 DEF Upsert
  <2>2. /\ DOMAIN items' = DOMAIN items
        /\ \A i \in DOMAIN items : items'[i] = IF items[i].id = row.id THEN row ELSE items[i]
    BY <2>1 DEF IndexOf
  <2>3. \A i \in DOMAIN items : items'[i].id = items[i].id
    BY <2>2
  <2>4. items' \in Seq(Machine)
    <3>1. \A i \in DOMAIN items : items[i] \in Machine
      OBVIOUS
    <3>2. items' \in [1 .. Len(items) -> Machine]
      BY <1>1, <2>1, <3>1
    <3> QED BY <1>1, <3>2
  <2>5. Shown' = Shown
    BY <2>2, <2>3 DEF Shown
  <2>6. NoDuplicates'
    BY <2>2, <2>3 DEF NoDuplicates
  <2> QED BY <1>2, <2>1, <2>2, <2>4, <2>5, <2>6 DEF RowsHaveStatuses
<1>3. CASE row.id \notin Shown
  <2>1. items' = Append(items, row) /\ statuses' = statuses \union {row.id}
    BY <1>3 DEF Upsert
  <2>2. /\ DOMAIN items' = 1 .. Len(items) + 1 /\ items'[Len(items) + 1] = row
        /\ \A i \in 1 .. Len(items) : items'[i] = items[i]
        /\ items' \in Seq(Machine)
    BY <2>1, AppendFacts
  <2>3. /\ \A i \in DOMAIN items : i \in DOMAIN items' /\ items'[i] = items[i]
        /\ \A i \in DOMAIN items' :
             \/ i = Len(items) + 1 /\ items'[i] = row
             \/ i \in DOMAIN items /\ items'[i] = items[i]
        /\ Len(items) + 1 \in DOMAIN items'
    BY <1>1, <2>2
  <2>4. \A i \in DOMAIN items : items[i].id # row.id
    BY <1>3 DEF Shown
  <2>5. NoDuplicates'
    BY <2>3, <2>4 DEF NoDuplicates
  <2>6. Shown' = Shown \union {row.id}
    BY <2>2, <2>3 DEF Shown
  <2> QED BY <1>1, <2>1, <2>2, <2>3, <2>4, <2>5, <2>6 DEF RowsHaveStatuses
<1> QED BY <1>2, <1>3

\* updateNotify keeps the list and replaces the machine if it is there.
LEMMA UpdateFacts ==
  ASSUME items \in Seq(Machine), NoDuplicates, NEW row \in Machine, updateNotify(row)
  PROVE  /\ items' \in Seq(Machine) /\ NoDuplicates' /\ Shown' = Shown
         /\ \A i \in DOMAIN items' :
              \/ items'[i] = row
              \/ \E j \in DOMAIN items : items'[i] = items[j] /\ items[j].id # row.id
<1>1. DOMAIN items = 1 .. Len(items) /\ Len(items) \in Nat
  OBVIOUS
<1>2. items' = [i \in DOMAIN items |-> IF items[i].id = row.id THEN row ELSE items[i]]
  BY DEF updateNotify
<1>3. /\ DOMAIN items' = DOMAIN items
      /\ \A i \in DOMAIN items : items'[i] = IF items[i].id = row.id THEN row ELSE items[i]
  BY <1>2
<1>4. \A i \in DOMAIN items : items'[i].id = items[i].id
  BY <1>3
<1>5. items' \in Seq(Machine)
  <2>1. \A i \in DOMAIN items : items[i] \in Machine
    OBVIOUS
  <2>2. items' \in [1 .. Len(items) -> Machine]
    BY <1>1, <1>2, <2>1
  <2> QED BY <1>1, <2>2
<1>6. Shown' = Shown /\ NoDuplicates'
  BY <1>3, <1>4 DEF Shown, NoDuplicates
<1> QED BY <1>3, <1>5, <1>6

\* deleteNotify takes one item: the machine's when it is listed.
LEMMA SplicedFacts ==
  ASSUME items \in Seq(Machine), NoDuplicates, NEW id, items' = Spliced(id)
  PROVE  /\ items' \in Seq(Machine) /\ NoDuplicates'
         /\ Shown' \subseteq Shown \ {id}
         /\ id \in Shown => Shown' = Shown \ {id}
         /\ \A i \in DOMAIN items' :
              \E j \in DOMAIN items : items'[i] = items[j] /\ items[j].id # id
<1>1. DOMAIN items = 1 .. Len(items) /\ Len(items) \in Nat
  OBVIOUS
<1>2. CASE id \in Shown
  <2> DEFINE k == CHOOSE i \in IndexOf(id) : TRUE
  <2>1. k \in DOMAIN items /\ items[k].id = id
    <3>1. IndexOf(id) # {}
      BY <1>2 DEF Shown, IndexOf
    <3>2. k \in IndexOf(id)
      BY <3>1
    <3> QED BY <3>2 DEF IndexOf
  <2>2. items' = RemoveAt(items, k)
    BY <1>2 DEF Spliced
  <2> HIDE DEF k
  <2>3. /\ items' \in Seq(Machine) /\ DOMAIN items' = 1 .. Len(items) - 1
        /\ \A i \in 1 .. Len(items) - 1 : items'[i] = IF i < k THEN items[i] ELSE items[i + 1]
    <3>1. k \in 1 .. Len(items)
      BY <1>1, <2>1
    <3>2. items' = SubSeq(items, 1, k - 1) \o SubSeq(items, k + 1, Len(items))
      BY <2>2 DEF RemoveAt
    <3>3. /\ SubSeq(items, 1, k - 1) \in Seq(Machine)
          /\ Len(SubSeq(items, 1, k - 1)) = k - 1
          /\ \A i \in 1 .. k - 1 : SubSeq(items, 1, k - 1)[i] = items[i]
      BY <1>1, <3>1
    <3>4. /\ SubSeq(items, k + 1, Len(items)) \in Seq(Machine)
          /\ Len(SubSeq(items, k + 1, Len(items))) = Len(items) - k
          /\ \A i \in 1 .. Len(items) - k : SubSeq(items, k + 1, Len(items))[i] = items[k + i]
      <4> DEFINE l == Len(items)
                 c == SubSeq(items, k + 1, l)
      <4>1. k \in Int /\ l \in Int /\ k <= l /\ l - (k + 1) + 1 = l - k
            /\ \A i \in (k + 1) .. l : items[i] \in Machine
        BY <1>1, <3>1
      <4>2. /\ c \in Seq(Machine) /\ Len(c) = IF k + 1 <= l THEN l - (k + 1) + 1 ELSE 0
            /\ \A i \in 1 .. l - (k + 1) + 1 : c[i] = items[(k + 1) + i - 1]
        BY <4>1, SubSeqProperties
      <4> HIDE DEF c, l
      <4>3. Len(c) = l - k
        BY <4>1, <4>2
      <4>4. \A i \in 1 .. l - k : c[i] = items[k + i]
        <5> TAKE i \in 1 .. l - k
        <5>1. (k + 1) + i - 1 = k + i
          BY <4>1
        <5> QED BY <4>1, <4>2, <5>1
      <4> QED BY <4>2, <4>3, <4>4 DEF c, l
    <3> DEFINE a == SubSeq(items, 1, k - 1)
               b == SubSeq(items, k + 1, Len(items))
    <3>5. /\ a \o b \in Seq(Machine) /\ Len(a \o b) = Len(items) - 1
          /\ \A i \in 1 .. Len(items) - 1 :
               (a \o b)[i] = IF i <= k - 1 THEN a[i] ELSE b[i - (k - 1)]
      <4> HIDE DEF a, b
      <4>1. /\ a \in Seq(Machine) /\ b \in Seq(Machine)
            /\ Len(a) = k - 1 /\ Len(b) = Len(items) - k
        BY <3>3, <3>4 DEF a, b
      <4>2. /\ a \o b \in Seq(Machine) /\ Len(a \o b) = Len(a) + Len(b)
            /\ \A i \in 1 .. Len(a) + Len(b) :
                 (a \o b)[i] = IF i <= Len(a) THEN a[i] ELSE b[i - Len(a)]
        BY Zenon, <4>1, ConcatProperties
      <4>3. Len(a) + Len(b) = Len(items) - 1
        BY <1>1, <3>1, <4>1
      <4> QED BY Zenon, <4>1, <4>2, <4>3
    <3>6. \A i \in 1 .. Len(items) - 1 :
            (a \o b)[i] = IF i < k THEN items[i] ELSE items[i + 1]
      <4> TAKE i \in 1 .. Len(items) - 1
      <4>1. CASE i < k
        <5>1. i <= k - 1 /\ i \in 1 .. k - 1
          BY <1>1, <3>1, <4>1
        <5> QED BY <3>3, <3>5, <4>1, <5>1
      <4>2. CASE ~(i < k)
        <5>1. ~(i <= k - 1) /\ i - (k - 1) \in 1 .. Len(items) - k /\ k + (i - (k - 1)) = i + 1
          BY <1>1, <3>1, <4>2
        <5>2. b[i - (k - 1)] = items[i + 1]
          BY <3>4, <5>1
        <5> HIDE DEF a, b
        <5> QED BY <3>5, <4>2, <5>1, <5>2
      <4> QED BY Zenon, <4>1, <4>2
    <3>7. items' = a \o b
      BY <3>2
    <3> HIDE DEF a, b
    <3>8. items' \in Seq(Machine) /\ Len(items') = Len(items) - 1
      BY <3>5, <3>7
    <3>9. DOMAIN items' = 1 .. Len(items) - 1
      BY <3>8
    <3> QED BY <3>6, <3>7, <3>8, <3>9
  <2>4. k \in Nat /\ k <= Len(items) /\ k >= 1
    BY <1>1, <2>1
  <2> DEFINE at(i) == IF i < k THEN i ELSE i + 1
  <2>5. \A i \in DOMAIN items' : /\ at(i) \in DOMAIN items /\ at(i) # k
                                 /\ items'[i] = items[at(i)]
    BY <1>1, <2>3, <2>4
  <2>6. \A i, j \in DOMAIN items' : at(i) = at(j) => i = j
    BY <2>3, <2>4, <1>1
  <2>7. \A j \in DOMAIN items : j # k => \E i \in DOMAIN items' : at(i) = j
    <3> TAKE j \in DOMAIN items
    <3> HAVE j # k
    <3> DEFINE i == IF j < k THEN j ELSE j - 1
    <3>1. i \in DOMAIN items' /\ at(i) = j
      BY <1>1, <2>3, <2>4
    <3> QED BY <3>1
  <2> HIDE DEF at
  <2>8. \A j \in DOMAIN items : j # k => items[j].id # id
    BY <2>1 DEF NoDuplicates
  <2>9. NoDuplicates'
    BY <2>5, <2>6 DEF NoDuplicates
  <2>10. \A i \in DOMAIN items' :
           \E j \in DOMAIN items : items'[i] = items[j] /\ items[j].id # id
    BY <2>5, <2>8
  <2>11. \A j \in DOMAIN items : j # k => \E i \in DOMAIN items' : items'[i] = items[j]
    BY <2>5, <2>7
  <2>12. Shown' = Shown \ {id}
    BY <2>1, <2>10, <2>11 DEF Shown
  <2> QED BY <2>3, <2>9, <2>10, <2>12
<1>3. CASE id \notin Shown
  <2>1. /\ items' \in Seq(Machine) /\ DOMAIN items' \subseteq DOMAIN items
        /\ \A i \in DOMAIN items' : items'[i] = items[i]
    <3>1. CASE items = <<>>
      BY <1>3, <3>1 DEF Spliced
    <3>2. CASE items # <<>>
      <4>1. items' = SubSeq(items, 1, Len(items) - 1)
        BY <1>3, <3>2 DEF Spliced, Front
      <4>2. Len(items) > 0
        BY <3>2, EmptySeq
      <4> QED BY <1>1, <4>1, <4>2
    <3> QED BY <3>1, <3>2
  <2>2. \A i \in DOMAIN items : items[i].id # id
    BY <1>3 DEF Shown
  <2> QED BY <1>3, <2>1, <2>2 DEF NoDuplicates, Shown
<1> QED BY <1>2, <1>3

\* The message is taken and the region and the requests are left alone.
Taken ==
  /\ down # <<>> /\ down' = Tail(down)
  /\ UNCHANGED <<db, changes, listLoaded, changed>>

\* A batch keeps the invariant: it lists its machines, and a full one is followed
\* by the batch that starts after its last machine.
LEMMA HandleList ==
  ASSUME MachinesAssumption, IInv, Taken, Head(down).type = "list",
         fetchSuccess(Head(down).request, Head(down).page), UNCHANGED history
  PROVE  IInv'
<1> DEFINE m == Head(down)
           r == m.request
           page == m.page
<1>1. /\ m \in Message /\ m = down[1] /\ 1 \in DOMAIN down
      /\ down' \in Seq(Message)
      /\ \A p \in DOMAIN down : p # 1 => p - 1 \in DOMAIN down' /\ down'[p - 1] = down[p]
      /\ \A p \in DOMAIN down' : /\ p \in Nat /\ p > 0 /\ p + 1 # 1
                                 /\ p + 1 \in DOMAIN down /\ down'[p] = down[p + 1]
  BY Zenon, TakeFacts DEF Taken
<1>2. /\ down # <<>> /\ down' = Tail(down)
      /\ UNCHANGED <<db, changes, listLoaded, changed, stray, cut, selected>>
      /\ m.type = "list"
      /\ items' = Added(page)
      /\ statuses' = statuses \union ({row.id : row \in Range(page)} \ Shown)
      /\ \/ /\ Full(r, page) /\ up' = Append(up, NextBatch(page))
            /\ loading' = TRUE /\ loaded' = loaded
         \/ /\ ~Full(r, page) /\ up' = up /\ loading' = FALSE /\ loaded' = TRUE
  BY Zenon DEF Taken, fetchSuccess, history
<1>3. page \in Seq(Machine) /\ r \in ListRequest
  BY <1>1, <1>2, MessageFacts
<1>4. r.limit \in Nat /\ r.limit > 0
  BY Zenon, <1>1, <1>2, <1>3 DEF ListRequest, IInv, LimitsReal
<1>5. /\ Len(page) \in Nat /\ DOMAIN page = 1 .. Len(page)
      /\ \A i \in DOMAIN page : page[i] \in Machine
      /\ RowsOf(m) = {page[i] : i \in DOMAIN page}
      /\ Range(page) = {page[i] : i \in DOMAIN page}
  BY <1>2, <1>3 DEF RowsOf, Range
<1>6. Merges(items', Len(page), page)
  BY Zenon, <1>2, <1>3, AddedMerges DEF IInv, Typed
<1>7. Full(r, page) => /\ Len(page) > 0 /\ Len(page) \in DOMAIN page
                       /\ NextBatch(page) = [method |-> "list", start |-> page[Len(page)].id,
                                             limit |-> SubsequentLimit]
                       /\ NextBatch(page) \in ListRequest
  <2> SUFFICES ASSUME Full(r, page)
               PROVE  /\ Len(page) > 0 /\ Len(page) \in DOMAIN page
                      /\ NextBatch(page) = [method |-> "list", start |-> page[Len(page)].id,
                                            limit |-> SubsequentLimit]
                      /\ NextBatch(page) \in ListRequest
    OBVIOUS
  <2>1. Len(page) > 0 /\ Len(page) \in DOMAIN page
    BY <1>4, <1>5 DEF Full
  <2>2. NextBatch(page) = [method |-> "list", start |-> page[Len(page)].id,
                           limit |-> SubsequentLimit]
    BY DEF NextBatch, Last
  <2>3. page[Len(page)].id \in Id /\ Id \subseteq Nat
    BY <1>5, <2>1 DEF Machine, Id
  <2>4. SubsequentLimit \in Nat /\ page[Len(page)].id \in Nat
    BY Zenon, <2>3 DEF MachinesAssumption
  <2> DEFINE b == [method |-> "list", start |-> page[Len(page)].id, limit |-> SubsequentLimit]
  <2>5. b \in ListRequest
    BY <2>4 DEF ListRequest
  <2> HIDE DEF b
  <2> QED BY <2>1, <2>2, <2>5 DEF b
<1> HIDE DEF m, r, page
<1>8. 1 \in Sent /\ \A p \in Sent : p = 1
  BY Zenon, <1>1, <1>2 DEF Sent, IInv, OneBatch
<1>9. Asked = {} /\ listLoaded /\ ~loaded
  BY <1>8 DEF IInv, OneBatch
<1>10. Sent' = {}
  <2> SUFFICES ASSUME NEW p \in Sent' PROVE FALSE
    OBVIOUS
  <2>1. p + 1 \in Sent /\ p + 1 # 1
    BY Zenon, <1>1 DEF Sent
  <2> QED BY <1>8, <2>1
<1>11. Asked' # {} => Full(r, page) /\ Asked' = {Len(up) + 1} /\ up' = Append(up, NextBatch(page))
                      /\ up'[Len(up) + 1] = NextBatch(page) /\ ~loaded'
  <2>1. up \in Seq(ListRequest \union GetRequest)
    BY DEF IInv, Typed
  <2>2. CASE Full(r, page)
    <3>1. up' = Append(up, NextBatch(page)) /\ loaded' = loaded
      BY <1>2, <2>2
    <3>2. /\ \A i \in DOMAIN up' : \/ i = Len(up) + 1
                                   \/ i \in DOMAIN up /\ up'[i] = up[i]
          /\ Len(up) + 1 \in DOMAIN up' /\ up'[Len(up) + 1] = NextBatch(page)
      BY <2>1, <3>1, AppendFacts
    <3>3. NextBatch(page).method = "list"
      BY <1>7, <2>2
    <3>4. Asked' = {Len(up) + 1}
      BY <3>2, <3>3, <1>9 DEF Asked
    <3> QED BY <2>2, <3>1, <3>2, <3>4, <1>9
  <2>3. CASE ~Full(r, page)
    BY <2>3, <1>2, <1>9 DEF Asked
  <2> QED BY <2>2, <2>3
<1>12. Full(r, page) => Asked' # {} /\ ~loaded'
  <2> SUFFICES ASSUME Full(r, page) PROVE Asked' # {} /\ ~loaded'
    OBVIOUS
  <2>1. up \in Seq(ListRequest \union GetRequest)
    BY DEF IInv, Typed
  <2>2. up' = Append(up, NextBatch(page)) /\ NextBatch(page).method = "list" /\ ~loaded'
    BY <1>2, <1>7, <1>9
  <2>3. Len(up) + 1 \in DOMAIN up' /\ up'[Len(up) + 1] = NextBatch(page)
    BY <2>1, <2>2, AppendFacts
  <2> QED BY <2>2, <2>3 DEF Asked
<1>13. Typed'
  <2>1. up' \in Seq(ListRequest \union GetRequest)
    <3>1. up \in Seq(ListRequest \union GetRequest)
      BY DEF IInv, Typed
    <3>2. CASE Full(r, page)
      <4>1. up' = Append(up, NextBatch(page)) /\ NextBatch(page) \in ListRequest \union GetRequest
        BY <1>2, <1>7, <3>2
      <4> QED BY <3>1, <4>1
    <3>3. CASE ~Full(r, page)
      BY <1>2, <3>1, <3>3
    <3> QED BY <3>2, <3>3
  <2>2. items' \in Seq(Machine)
    BY <1>6 DEF Merges
  <2>3. {row.id : row \in Range(page)} \subseteq Id
    BY <1>5 DEF Machine
  <2>4. statuses' \in SUBSET Id
    BY <1>2, <2>3 DEF IInv, Typed
  <2>5. loading' \in BOOLEAN /\ loaded' \in BOOLEAN
    BY Zenon, <1>2 DEF IInv, Typed
  <2> QED BY Zenon, <1>1, <1>2, <2>1, <2>2, <2>4, <2>5 DEF IInv, Typed
<1>14. Shown' = Shown \union {page[i].id : i \in DOMAIN page}
  <2>1. \A i \in DOMAIN items' : \/ \E j \in DOMAIN items : items'[i] = items[j]
                                 \/ \E j \in DOMAIN page : items'[i] = page[j]
    BY Zenon, <1>6 DEF Merges
  <2>2. \A j \in DOMAIN items : \E i \in DOMAIN items' : items'[i].id = items[j].id
    BY <1>6 DEF Merges
  <2>3. \A j \in DOMAIN page : \E i \in DOMAIN items' : items'[i].id = page[j].id
    BY <1>5, <1>6 DEF Merges
  <2> QED BY <2>1, <2>2, <2>3 DEF Shown
<1>15. NoDuplicates'
  BY <1>6 DEF Merges, NoDuplicates
<1>16. RowsHaveStatuses'
  BY <1>2, <1>5, <1>14 DEF IInv, RowsHaveStatuses
<1>17. SelectionListed'
  BY <1>2, <1>14 DEF IInv, SelectionListed
<1>18. RowsReal' /\ RowsSettled' /\ DeletionsReal'
  <2>1. \A id : ~Corrects(m, id)
    BY <1>2 DEF Corrects
  <2>2. \A i \in DOMAIN items' : \/ items'[i] \in RowsOf(m)
                                 \/ \E j \in DOMAIN items : items'[i] = items[j]
    BY Zenon, <1>5, <1>6 DEF Merges
  <2>3. \A i \in DOMAIN items' :
          \/ items'[i] \in RowsOf(Head(down))
          \/ \E j \in DOMAIN items : /\ items'[i] = items[j]
                                     /\ ~Corrects(Head(down), items[j].id)
    BY <2>1, <2>2 DEF m
  <2> QED BY <1>2, <2>3, HandleRows
<1>19. LimitsReal'
  <2>1. \A p \in DOMAIN down' : down'[p].type = "list" => down'[p].request.limit > 0
    BY <1>1 DEF IInv, LimitsReal
  <2>2. \A i \in DOMAIN up' : up'[i].method = "list" => up'[i].limit > 0
    <3> SUFFICES ASSUME NEW i \in Asked' PROVE up'[i].limit > 0
      BY DEF Asked
    <3>1. i = Len(up) + 1 /\ up'[i] = NextBatch(page) /\ Full(r, page)
      BY <1>11
    <3>2. SubsequentLimit > 0
      BY DEF MachinesAssumption
    <3> QED BY <1>7, <3>1, <3>2
  <2> QED BY <2>1, <2>2 DEF LimitsReal
<1>20. OneBatch'
  BY <1>2, <1>9, <1>10, <1>11 DEF OneBatch
<1>21. NoneMissed'
  <2> SUFFICES ASSUME ~stray, NEW x \in Present
               PROVE  x \in Shown' \/ OnItsWay(x)' \/ ToCome(x)'
    BY <1>2 DEF NoneMissed, Present
  <2>1. x \in Shown \/ OnItsWay(x) \/ ToCome(x)
    BY <1>8 DEF IInv, NoneMissed
  <2>2. CASE x \in Shown
    BY <2>2, <1>14
  <2>3. CASE OnItsWay(x)
    <3>1. CASE \E i \in DOMAIN changes : changes[i].id = x /\ changes[i].kind = "create"
      BY <3>1, <1>2 DEF OnItsWay
    <3>2. ASSUME NEW p \in DOMAIN down, down[p].type # "update",
                 \E row \in RowsOf(down[p]) : row.id = x
          PROVE  OnItsWay(x)' \/ x \in Shown'
      <4>1. CASE p = 1
        BY <4>1, <3>2, <1>1, <1>5, <1>14
      <4>2. CASE p # 1
        <5>1. PICK q \in DOMAIN down' : down'[q] = down[p]
          BY <4>2, <1>1
        <5> QED BY <3>2, <5>1 DEF OnItsWay, RowsOf
      <4> QED BY <4>1, <4>2
    <3> QED BY <2>3, <3>1, <3>2 DEF OnItsWay
  <2>4. CASE ToCome(x)
    <3>1. Full(r, page) /\ \A i \in DOMAIN page : page[i].id < x
      BY <2>4, <1>1, <1>8, <1>9 DEF ToCome, r, page
    <3>2. NextBatch(page).start = page[Len(page)].id /\ page[Len(page)].id < x
      BY <3>1, <1>7
    <3>3. \E i \in Asked' : up'[i].start < x
      BY Zenon, <3>1, <3>2, <1>11, <1>12
    <3> QED BY <3>3 DEF ToCome
  <2> QED BY <2>1, <2>2, <2>3, <2>4
<1> QED BY <1>13, <1>15, <1>16, <1>17, <1>18, <1>19, <1>20, <1>21 DEF IInv

\* What the other messages have in common.
LEMMA HandleRest ==
  ASSUME IInv, Taken, Head(down).type # "list",
         UNCHANGED <<up, loaded, cut>>,
         items' \in Seq(Machine), statuses' \in SUBSET Id, selected' \in SUBSET selected,
         loading' \in BOOLEAN, stray' \in BOOLEAN, stray => stray',
         NoDuplicates', RowsHaveStatuses', SelectionListed',
         ~stray' => \A x \in Present : x \in Shown \/ Carried(x) => x \in Shown',
         \A i \in DOMAIN items' :
           \/ items'[i] \in RowsOf(Head(down))
           \/ \E j \in DOMAIN items : /\ items'[i] = items[j]
                                      /\ ~Corrects(Head(down), items[j].id)
  PROVE  IInv'
<1>1. RowsReal' /\ RowsSettled' /\ DeletionsReal'
  BY HandleRows DEF Taken
<1>2. OneBatch' /\ NoneMissed'
  BY HandleOther DEF Taken
<1>3. down' \in Seq(Message) /\ \A p \in DOMAIN down' : p + 1 \in DOMAIN down /\ down'[p] = down[p + 1]
  BY TakeFacts DEF Taken
<1>4. UNCHANGED <<db, changes, listLoaded, changed>>
  BY DEF Taken
<1>5. Typed'
  BY <1>3, <1>4 DEF IInv, Typed
<1>6. LimitsReal'
  BY <1>3, <1>4 DEF IInv, LimitsReal
<1> QED BY <1>1, <1>2, <1>5, <1>6 DEF IInv

\* A machine that is fetched or created is listed.
LEMMA HandleUpsert ==
  ASSUME IInv, Taken, Head(down).type \in {"get", "create"}, Upsert(Head(down).row),
         UNCHANGED <<up, loaded, cut, stray, selected>>, loading' \in BOOLEAN
  PROVE  IInv'
<1> DEFINE m == Head(down)
           row == m.row
<1>1. m \in Message
  BY TakeFacts DEF Taken
<1>2. row \in Machine /\ RowsOf(m) = {row} /\ m.type # "list" /\ m.type # "delete"
  BY <1>1, MessageFacts DEF RowsOf
<1>3. /\ items' \in Seq(Machine) /\ statuses' \in SUBSET Id
      /\ NoDuplicates' /\ RowsHaveStatuses'
      /\ Shown' = Shown \union {row.id}
      /\ \A i \in DOMAIN items' :
           \/ items'[i] = row
           \/ \E j \in DOMAIN items : items'[i] = items[j] /\ items[j].id # row.id
  BY Zenon, <1>2, UpsertFacts DEF IInv, Typed
<1>4. \A id : id # row.id => ~Corrects(m, id)
  BY <1>2, CorrectsFacts
<1>5. \A i \in DOMAIN items' :
        \/ items'[i] \in RowsOf(Head(down))
        \/ \E j \in DOMAIN items : /\ items'[i] = items[j]
                                   /\ ~Corrects(Head(down), items[j].id)
  BY <1>2, <1>3, <1>4
<1>6. \A x \in Present : x \in Shown \/ Carried(x) => x \in Shown'
  BY <1>2, <1>3 DEF Carried
<1>7. SelectionListed' /\ selected' \in SUBSET selected /\ stray' \in BOOLEAN
  BY <1>3 DEF IInv, SelectionListed, Typed
<1> HIDE DEF m, row
<1> QED BY <1>2, <1>3, <1>5, <1>6, <1>7, HandleRest DEF m

\* A machine that is updated is replaced where it is listed.
LEMMA HandleUpdate ==
  ASSUME IInv, Taken, Head(down).type = "update", updateNotify(Head(down).row),
         UNCHANGED <<up, cut, stray>>
  PROVE  IInv'
<1> DEFINE m == Head(down)
           row == m.row
<1>1. m \in Message
  BY TakeFacts DEF Taken
<1>2. row \in Machine /\ RowsOf(m) = {row} /\ m.type # "list" /\ m.type # "delete"
  BY <1>1, MessageFacts DEF RowsOf
<1>3. /\ items' \in Seq(Machine) /\ NoDuplicates' /\ Shown' = Shown
      /\ \A i \in DOMAIN items' :
           \/ items'[i] = row
           \/ \E j \in DOMAIN items : items'[i] = items[j] /\ items[j].id # row.id
  BY Zenon, <1>2, UpdateFacts DEF IInv, Typed
<1>4. \A id : id # row.id => ~Corrects(m, id)
  BY <1>2, CorrectsFacts
<1>5. \A i \in DOMAIN items' :
        \/ items'[i] \in RowsOf(Head(down))
        \/ \E j \in DOMAIN items : /\ items'[i] = items[j]
                                   /\ ~Corrects(Head(down), items[j].id)
  BY <1>2, <1>3, <1>4
<1>6. \A x \in Present : x \in Shown \/ Carried(x) => x \in Shown'
  BY <1>3 DEF Carried
<1>7. UNCHANGED <<statuses, selected, loading, loaded>>
  BY DEF updateNotify
<1>8. /\ SelectionListed' /\ RowsHaveStatuses'
      /\ selected' \in SUBSET selected /\ statuses' \in SUBSET Id
      /\ stray' \in BOOLEAN /\ loading' \in BOOLEAN
  BY <1>3, <1>7 DEF IInv, SelectionListed, RowsHaveStatuses, Typed
<1> HIDE DEF m, row
<1> QED BY <1>2, <1>3, <1>5, <1>6, <1>7, <1>8, HandleRest DEF m

\* A machine that is deleted leaves the list, or the deletion is a stray one.
LEMMA HandleDelete ==
  ASSUME IInv, Taken, Head(down).type = "delete", deleteNotify(Head(down).id),
         stray' = (stray \/ Head(down).id \notin Shown), UNCHANGED <<up, cut>>
  PROVE  IInv'
<1> DEFINE m == Head(down)
           id == m.id
<1>1. m \in Message /\ m = down[1] /\ 1 \in DOMAIN down
  BY TakeFacts DEF Taken
<1>2. id \in Id /\ RowsOf(m) = {} /\ m.type = "delete"
  BY <1>1, MessageFacts DEF RowsOf
<1>3. id \notin Present
  BY <1>1, <1>2 DEF IInv, DeletionsReal, Present
<1>4. /\ items' = Spliced(id) /\ selected' = selected \ {id} /\ statuses' = statuses \ {id}
      /\ UNCHANGED <<loading, loaded>>
  BY DEF deleteNotify
<1>5. /\ items' \in Seq(Machine) /\ NoDuplicates'
      /\ Shown' \subseteq Shown \ {id}
      /\ id \in Shown => Shown' = Shown \ {id}
      /\ \A i \in DOMAIN items' :
           \E j \in DOMAIN items : items'[i] = items[j] /\ items[j].id # id
  BY Zenon, <1>4, SplicedFacts DEF IInv, Typed
<1>6. \A x : x # id => ~Corrects(m, x)
  BY <1>2, CorrectsFacts
<1>7. \A i \in DOMAIN items' :
        \/ items'[i] \in RowsOf(Head(down))
        \/ \E j \in DOMAIN items : /\ items'[i] = items[j]
                                   /\ ~Corrects(Head(down), items[j].id)
  BY <1>5, <1>6
<1>8. ~stray' => \A x \in Present : x \in Shown \/ Carried(x) => x \in Shown'
  BY Zenon, <1>2, <1>3, <1>5 DEF Carried
<1>9. /\ RowsHaveStatuses' /\ SelectionListed'
      /\ selected' \in SUBSET selected /\ statuses' \in SUBSET Id
      /\ stray' \in BOOLEAN /\ loading' \in BOOLEAN
  BY Zenon, <1>4, <1>5 DEF IInv, SelectionListed, RowsHaveStatuses, Typed
<1> HIDE DEF m, id
<1> QED BY Zenon, <1>2, <1>4, <1>5, <1>7, <1>8, <1>9, HandleRest DEF m

\* An error changes nothing in the list.
LEMMA HandleError ==
  ASSUME IInv, Taken, Head(down).type = "error", loading' = FALSE, cut' \in BOOLEAN,
         UNCHANGED <<up, items, statuses, selected, loaded, stray>>
  PROVE  IInv'
<1>1. \A x : ~Carried(x) /\ ~Corrects(Head(down), x)
  BY DEF Carried, RowsOf, Corrects
<1>2. RowsReal' /\ RowsSettled' /\ DeletionsReal'
  BY <1>1, HandleRows DEF Taken
<1>3. \A x \in Present : x \in Shown \/ Carried(x) => x \in Shown'
  BY <1>1 DEF Shown
<1>4. OneBatch' /\ NoneMissed'
  BY <1>3, HandleOther DEF Taken
<1>5. down' \in Seq(Message) /\ \A p \in DOMAIN down' : p + 1 \in DOMAIN down /\ down'[p] = down[p + 1]
  BY TakeFacts DEF Taken
<1>6. UNCHANGED <<db, changes, listLoaded, changed>>
  BY DEF Taken
<1>7. Typed'
  BY Zenon, <1>5, <1>6 DEF IInv, Typed
<1>8. LimitsReal'
  BY <1>5, <1>6 DEF IInv, LimitsReal
<1>9. NoDuplicates' /\ RowsHaveStatuses' /\ SelectionListed'
  BY DEF IInv, NoDuplicates, RowsHaveStatuses, SelectionListed, Shown
<1> QED BY <1>2, <1>4, <1>7, <1>8, <1>9 DEF IInv

\* handleMessage keeps the invariant.
LEMMA HandleInv ==
  ASSUME MachinesAssumption, IInv, handleMessage
  PROVE  IInv'
<1> DEFINE m == Head(down)
<1>1. Taken
  BY DEF handleMessage, Taken
<1>2. CASE m.type = "list" /\ fetchSuccess(m.request, m.page) /\ UNCHANGED history
  BY <1>1, <1>2, HandleList
<1>3. CASE m.type = "get" /\ getSuccess(m.row) /\ UNCHANGED <<up, history>>
  BY Zenon, <1>1, <1>3, HandleUpsert DEF getSuccess, history
<1>4. CASE /\ m.type = "error"
           /\ loading' = FALSE
           /\ cut' = (cut \/ m.method = "list")
           /\ UNCHANGED <<up, items, statuses, selected, loaded, stray>>
  BY Zenon, <1>1, <1>4, HandleError
<1>5. CASE m.type = "create" /\ createNotify(m.row) /\ UNCHANGED <<up, history>>
  BY Zenon, <1>1, <1>5, HandleUpsert DEF createNotify, history, IInv, Typed
<1>6. CASE m.type = "update" /\ updateNotify(m.row) /\ UNCHANGED <<up, history>>
  BY <1>1, <1>6, HandleUpdate DEF history
<1>7. CASE /\ m.type = "delete" /\ deleteNotify(m.id)
           /\ stray' = (stray \/ m.id \notin Shown)
           /\ UNCHANGED <<up, cut>>
  BY <1>1, <1>7, HandleDelete
<1> QED BY Zenon, <1>2, <1>3, <1>4, <1>5, <1>6, <1>7 DEF handleMessage

\* A lost connection empties the list and the channel.
LEMMA ReconnectInv ==
  ASSUME IInv, Reconnect
  PROVE  IInv'
<1>1. /\ up' = <<>> /\ down' = <<>> /\ items' = <<>> /\ statuses' = {} /\ selected' = {}
      /\ loading' = FALSE /\ loaded' = FALSE /\ listLoaded' = FALSE
      /\ stray' = FALSE /\ cut' = FALSE
      /\ changes' = changes \/ changes' = <<>>
      /\ UNCHANGED <<db, changed>>
  BY DEF Reconnect
<1>2. Typed'
  <2>1. /\ <<>> \in Seq(Change) /\ <<>> \in Seq(Message) /\ <<>> \in Seq(Machine)
        /\ <<>> \in Seq(ListRequest \union GetRequest)
        /\ {} \in SUBSET Id
    OBVIOUS
  <2> QED BY Zenon, <1>1, <2>1 DEF IInv, Typed
<1>3. Asked' = {} /\ Sent' = {} /\ Shown' = {}
  BY <1>1 DEF Asked, Sent, Shown
<1>4. RowsReal' /\ LimitsReal' /\ RowsSettled'
  BY <1>1 DEF RowsReal, LimitsReal, RowsSettled
<1>5. NoDuplicates' /\ RowsHaveStatuses' /\ SelectionListed'
  BY <1>1, <1>3 DEF NoDuplicates, RowsHaveStatuses, SelectionListed
<1>6. DeletionsReal'
  BY <1>1 DEF IInv, DeletionsReal
<1>7. OneBatch' /\ NoneMissed'
  BY <1>1, <1>3 DEF OneBatch, NoneMissed
<1> QED BY <1>2, <1>4, <1>5, <1>6, <1>7 DEF IInv

-----------------------------------------------------------------------------
(* The theorems.                                                             *)

\* Every state of every behaviour satisfies the invariant.
LEMMA Invariant == Spec => []IInv
<1>1. Init => IInv
  <2> SUFFICES ASSUME Init PROVE IInv
    OBVIOUS
  <2>1. Initial \in Nat /\ MaxChanges \in Nat
    BY MachinesAssumption DEF MachinesAssumption
  <2>2. db \in Seq(Nat) /\ Len(db) = Initial
    <3>1. db \in [1 .. Initial -> Nat]
      BY DEF Init
    <3> QED BY <2>1, <3>1
  <2>3. Typed
    <3>1. /\ <<>> \in Seq(Change) /\ <<>> \in Seq(Message) /\ <<>> \in Seq(Machine)
          /\ <<>> \in Seq(ListRequest \union GetRequest)
          /\ {} \in SUBSET Id
      OBVIOUS
    <3>2. changed \in Nat /\ changed <= MaxChanges /\ Len(db) <= Initial + changed
      BY <2>1, <2>2 DEF Init
    <3> QED BY Zenon, <2>2, <3>1, <3>2 DEF Init, Typed
  <2>4. Asked = {} /\ Sent = {} /\ Shown = {}
    BY DEF Init, Asked, Sent, Shown
  <2>5. RowsReal /\ LimitsReal /\ RowsSettled /\ DeletionsReal
    BY DEF Init, RowsReal, LimitsReal, RowsSettled, DeletionsReal
  <2>6. NoDuplicates /\ RowsHaveStatuses /\ SelectionListed
    BY <2>4 DEF Init, NoDuplicates, RowsHaveStatuses, SelectionListed
  <2>7. OneBatch /\ NoneMissed
    BY <2>4 DEF Init, OneBatch, NoneMissed
  <2> QED BY <2>3, <2>5, <2>6, <2>7 DEF IInv
<1>2. IInv /\ [Next]_vars => IInv'
  <2> SUFFICES ASSUME IInv, [Next]_vars PROVE IInv'
    OBVIOUS
  <2>1. CASE RegionChanges
    BY <2>1, MachinesAssumption, ChangesInv
  <2>2. CASE RegionNotifies
    BY <2>2, MachinesAssumption, NotifiesInv
  <2>3. CASE RegionAnswers
    BY <2>3, MachinesAssumption, AnswersInv
  <2>4. CASE fetch
    BY <2>4, MachinesAssumption, FetchInv
  <2>5. CASE get
    BY <2>5, MachinesAssumption, GetInv
  <2>6. CASE setSelected
    BY <2>6, SelectInv
  <2>7. CASE handleMessage
    BY <2>7, MachinesAssumption, HandleInv
  <2>8. CASE Reconnect
    BY <2>8, ReconnectInv
  <2>9. CASE UNCHANGED vars
    <3>1. /\ UNCHANGED <<db, changes, up, down, items, statuses, selected, loading>>
          /\ UNCHANGED <<loaded, listLoaded, stray, cut, changed>>
      BY <2>9 DEF vars, history
    <3>2. Typed' /\ LimitsReal' /\ DeletionsReal'
      BY <3>1 DEF IInv, Typed, LimitsReal, DeletionsReal
    <3>3. RowsReal' /\ RowsSettled'
      BY <3>1 DEF IInv, RowsReal, Real, RowsOf, RowsSettled, Settled, Announced, Corrects, Row
    <3>4. NoDuplicates' /\ RowsHaveStatuses' /\ SelectionListed'
      BY <3>1 DEF IInv, NoDuplicates, RowsHaveStatuses, SelectionListed, Shown
    <3>5. OneBatch'
      BY <3>1 DEF IInv, OneBatch, Asked, Sent
    <3>6. NoneMissed'
      <4>1. \A x : ToCome(x) => ToCome(x)'
        BY <3>1 DEF ToCome, Full, Asked, Sent
      <4>2. \A x : OnItsWay(x) => OnItsWay(x)'
        BY <3>1 DEF OnItsWay, RowsOf
      <4>3. Asked' = Asked /\ Sent' = Sent
        BY <3>1 DEF Asked, Sent
      <4> QED BY <3>1, <4>1, <4>2, <4>3 DEF IInv, NoneMissed, Present, Shown
    <3> QED BY <3>2, <3>3, <3>4, <3>5, <3>6 DEF IInv
  <2> QED BY <2>1, <2>2, <2>3, <2>4, <2>5, <2>6, <2>7, <2>8, <2>9 DEF Next
<1> QED BY <1>1, <1>2, PTL DEF Spec

\* Every variable keeps its type: what the sagas ask for, what is on its way and
\* what the slice holds (machine/slice.ts, handleBatch).
THEOREM TypeCorrect == Spec => []TypeOK
<1>1. IInv => TypeOK
  <2> SUFFICES ASSUME IInv PROVE TypeOK
    OBVIOUS
  <2>1. Typed
    BY DEF IInv
  <2>2. \A i \in DOMAIN down :
          down[i].type \in {"list", "get", "error", "create", "update", "delete"}
    <3>1. \A i \in DOMAIN down : down[i] \in Message
      BY <2>1 DEF Typed
    <3> QED BY <3>1, MessageFacts
  <2>3. Len(db) <= Initial + MaxChanges
    <3>1. Initial \in Nat /\ MaxChanges \in Nat /\ Len(db) \in Nat
      BY <2>1, MachinesAssumption DEF Typed, MachinesAssumption
    <3> QED BY <2>1, <3>1 DEF Typed
  <2> QED BY <2>1, <2>2, <2>3 DEF Typed, TypeOK
<1> QED BY <1>1, Invariant, PTL

\* However batches, single machines and announcements interleave, a machine is
\* listed once, with its statuses, in the end as the region has it, and nothing is
\* selected that is not listed (createNotify, getSuccess, fetchSuccess, deleteNotify).
THEOREM Consistent == Spec => []RowsConsistent
<1>1. IInv => RowsConsistent
  <2> SUFFICES ASSUME IInv PROVE RowsConsistent
    OBVIOUS
  <2>1. NoStaleRow
    <3> SUFFICES ASSUME Quiet, NEW i \in DOMAIN items PROVE items[i].v = db[items[i].id]
      BY DEF NoStaleRow
    <3>1. DOMAIN changes = {} /\ DOMAIN down = {}
      BY DEF Quiet
    <3> QED BY <3>1 DEF IInv, RowsSettled, Settled, Announced
  <2> QED BY <2>1 DEF IInv, RowsConsistent
<1> QED BY <1>1, Invariant, PTL

\* When nothing is on its way a list that has loaded shows exactly the machines
\* that exist, until a deletion takes a wrong one (handleBatch, deleteNotify).
THEOREM InSync == Spec => []Synced
<1>1. IInv => Synced
  <2> SUFFICES ASSUME IInv, ~stray, Quiet, loaded PROVE Shown = Present
    BY DEF Synced, ShowsAll
  <2>1. DOMAIN changes = {} /\ DOMAIN down = {}
    BY DEF Quiet
  <2>2. \A i \in DOMAIN items : items[i].v = db[items[i].id] /\ Real(items[i])
    BY <2>1 DEF IInv, RowsSettled, Settled, Announced, RowsReal
  <2>3. Shown \subseteq Present
    BY <2>2 DEF Shown, Present, Real
  <2>4. Asked = {} /\ Sent = {}
    BY DEF IInv, OneBatch
  <2>5. \A x : ~OnItsWay(x) /\ ~ToCome(x)
    BY <2>1, <2>4 DEF OnItsWay, ToCome
  <2>6. Present \subseteq Shown
    BY <2>5 DEF IInv, NoneMissed
  <2> QED BY Zenon, <2>3, <2>6
<1> QED BY <1>1, Invariant, PTL

-----------------------------------------------------------------------------
(* The list: what the mapped steps need beyond the invariant.                *)

\* A row is no newer than any of its machine that comes after it, or than the
\* region's.
NoNewer(row, p) ==
  /\ row.id \in Present => row.v <= db[row.id]
  /\ \A q \in DOMAIN down : q > p =>
       \A s \in RowsOf(down[q]) : s.id = row.id => row.v <= s.v

\* The versions of a machine ascend from the list through the channel.
Ascending ==
  /\ \A i \in DOMAIN items : NoNewer(items[i], 0)
  /\ \A p \in DOMAIN down : \A row \in RowsOf(down[p]) : NoNewer(row, p)

\* What is announced of a machine that has gone, its deletion comes after it.
GoneTold ==
  \A i \in DOMAIN changes : changes[i].id \notin Present =>
    \E j \in DOMAIN changes :
      j >= i /\ changes[j].id = changes[i].id /\ changes[j].kind = "delete"

\* A deletion is the last that is on its way about a machine.
DeletionsLast ==
  /\ \A i, j \in DOMAIN changes :
       changes[i].kind = "delete" /\ changes[j].id = changes[i].id => j <= i
  /\ \A p \in DOMAIN down : down[p].type = "delete" =>
       /\ \A i \in DOMAIN changes : changes[i].id # down[p].id
       /\ \A q \in DOMAIN down : q > p => down[p].id \notin IdsOf(down[q])

\* A machine of which nothing is on its way is listed as it is.
RightUnlessOwed == \A id \in DOMAIN db \ Owed : ML!Right(id)

\* Each listed machine has the version of its row.
VersionsRight ==
  /\ DOMAIN Versions = Shown
  /\ \A i \in DOMAIN items : items[i].id \in Shown /\ Versions[items[i].id] = items[i].v
  /\ \A id \in Shown : \E i \in DOMAIN items : items[i].id = id /\ Versions[id] = items[i].v

\* What is not on its way has not been missed: rows are settled, and none is
\* missing.
LEMMA NothingMissed == IInv => RightUnlessOwed
<1> SUFFICES ASSUME IInv, NEW id \in DOMAIN db, id \notin Owed PROVE ML!Right(id)
  BY DEF RightUnlessOwed
<1>1. /\ \A i \in DOMAIN changes : changes[i].id # id
      /\ \A p \in DOMAIN down : id \notin IdsOf(down[p])
  BY DEF Owed
<1>2. ~Announced(id)
  BY <1>1 DEF Announced
<1>3. \A p \in DOMAIN down : ~Corrects(down[p], id)
  <2> TAKE p \in DOMAIN down
  <2>1. down[p].type = "delete" => down[p].id # id
    BY <1>1 DEF IdsOf
  <2>2. down[p].type \in {"create", "update"} => down[p].row.id # id
    BY <1>1 DEF IdsOf, RowsOf
  <2> QED
    BY <2>1, <2>2, CorrectsFacts
<1>4. id \in DOMAIN Versions => Versions[id] = db[id]
  <2> SUFFICES ASSUME id \in Shown PROVE Versions[id] = db[id]
    BY DEF Versions
  <2> DEFINE k == CHOOSE i \in DOMAIN items : items[i].id = id
  <2>1. k \in DOMAIN items /\ items[k].id = id
    BY DEF Shown
  <2>2. Versions[id] = items[k].v
    BY DEF Versions
  <2>3. Settled(items[k], 0)
    BY <2>1 DEF IInv, RowsSettled
  <2> HIDE DEF k
  <2> QED
    BY <2>1, <2>2, <2>3, <1>2, <1>3 DEF Settled
<1>5. loaded /\ ~stray /\ id \in Present => id \in Shown
  <2> SUFFICES ASSUME loaded, ~stray, id \in Present PROVE id \in Shown
    OBVIOUS
  <2>1. id \in Shown \/ OnItsWay(id) \/ ToCome(id)
    BY DEF IInv, NoneMissed
  <2>2. ~OnItsWay(id)
    BY <1>1 DEF OnItsWay, IdsOf
  <2>3. ~ToCome(id)
    BY DEF ToCome, IInv, OneBatch
  <2> QED
    BY <2>1, <2>2, <2>3
<1>6. ML!Existing = Present /\ DOMAIN Versions = Shown
  BY DEF ML!Existing, Present, Versions
<1> QED
  BY <1>4, <1>5, <1>6 DEF ML!Right

\* The list by machine: what each row says.
LEMMA VersionsFacts == IInv => VersionsRight
<1> SUFFICES ASSUME IInv PROVE VersionsRight
  OBVIOUS
<1>1. DOMAIN Versions = Shown
  BY DEF Versions
<1>2. ASSUME NEW i \in DOMAIN items
      PROVE  items[i].id \in Shown /\ Versions[items[i].id] = items[i].v
  <2> DEFINE k == CHOOSE j \in DOMAIN items : items[j].id = items[i].id
  <2>1. items[i].id \in Shown
    BY DEF Shown
  <2>2. k \in DOMAIN items /\ items[k].id = items[i].id
    OBVIOUS
  <2>3. k = i
    BY <2>2 DEF IInv, NoDuplicates
  <2>4. Versions[items[i].id] = items[k].v
    BY <2>1 DEF Versions
  <2> QED
    BY <2>1, <2>3, <2>4
<1>3. \A id \in Shown : \E i \in DOMAIN items : items[i].id = id
  BY DEF Shown
<1> QED
  BY <1>1, <1>2, <1>3 DEF VersionsRight

\* A row that the region sends is newer than none: the versions go on ascending.
LEMMA AscendsBySend ==
  ASSUME IInv, Ascending, NEW m \in Message, down' = Append(down, m),
         UNCHANGED <<db, items>>,
         \A row \in RowsOf(m) : row.id \in Present /\ row.v = db[row.id]
  PROVE  Ascending'
<1>1. /\ DOMAIN down = 1 .. Len(down) /\ Len(down) \in Nat
      /\ DOMAIN down' = 1 .. Len(down) + 1
      /\ \A p \in 1 .. Len(down) : down'[p] = down[p]
      /\ down'[Len(down) + 1] = m
  BY AppendFacts DEF IInv, Typed
<1>7. PICK n \in Nat : n = Len(down) + 1
  BY <1>1
<1>2. Present' = Present
  BY DEF Present
<1>3. ASSUME NEW row, NEW p, NoNewer(row, p)
      PROVE  NoNewer(row, p)'
  <2>1. ASSUME NEW q \in DOMAIN down', q > p, NEW s \in RowsOf(down'[q]), s.id = row.id
        PROVE  row.v <= s.v
    <3>1. CASE q \in DOMAIN down
      BY <3>1, <2>1, <1>1, <1>3 DEF NoNewer
    <3>2. CASE q = Len(down) + 1
      BY <3>2, <2>1, <1>1, <1>3 DEF NoNewer
    <3> QED
      BY <3>1, <3>2, <1>1
  <2> QED
    BY <2>1, <1>2, <1>3 DEF NoNewer, RowsOf
<1>4. ASSUME NEW row \in RowsOf(m)
      PROVE  NoNewer(row, n)'
  <2>1. \A q \in DOMAIN down' : ~(q > n)
    BY <1>7, <1>1
  <2>2. row.id \in Present' => row.v <= db'[row.id]
    <3>1. row.v = db[row.id] /\ row.id \in DOMAIN db /\ db \in Seq(Nat)
      BY DEF IInv, Typed, Present
    <3>2. db[row.id] \in Nat
      BY <3>1
    <3> QED
      BY <3>1, <3>2
  <2> QED
    BY <2>1, <2>2 DEF NoNewer
<1>5. \A i \in DOMAIN items' : NoNewer(items[i], 0)'
  BY <1>3 DEF Ascending
<1>6. ASSUME NEW p \in DOMAIN down', NEW row \in RowsOf(down'[p])
      PROVE  NoNewer(row, p)'
  <2>1. CASE p \in DOMAIN down
    <3>1. row \in RowsOf(down[p])
      BY <2>1, <1>1
    <3> QED
      BY <3>1, <2>1, <1>3 DEF Ascending
  <2>2. CASE p = Len(down) + 1
    <3>1. row \in RowsOf(m) /\ p = n
      BY <2>2, <1>7, <1>1
    <3> QED
      BY <3>1, <1>4
  <2> QED
    BY <2>1, <2>2, <1>1
<1> QED
  BY <1>5, <1>6 DEF Ascending, RowsOf

\* A message that is taken hands its rows to the list, in the order of versions.
LEMMA AscendsByTake ==
  ASSUME IInv, Ascending, down # <<>>, down' = Tail(down), UNCHANGED db,
         \A i \in DOMAIN items' : \/ items'[i] \in RowsOf(Head(down))
                                  \/ \E j \in DOMAIN items : items'[i] = items[j]
  PROVE  Ascending'
<1>1. /\ Head(down) = down[1] /\ 1 \in DOMAIN down
      /\ \A p \in DOMAIN down' : /\ p \in Nat /\ p > 0
                                 /\ p + 1 \in DOMAIN down /\ down'[p] = down[p + 1]
  BY TakeFacts
<1>2. Present' = Present
  BY DEF Present
<1>3. ASSUME NEW row, NEW p \in Nat, NEW k \in Nat, k + 1 >= p, NoNewer(row, p)
      PROVE  NoNewer(row, k)'
  <2>1. ASSUME NEW q \in DOMAIN down', q > k, NEW s \in RowsOf(down'[q]), s.id = row.id
        PROVE  row.v <= s.v
    <3>1. q + 1 \in DOMAIN down /\ q + 1 > p /\ s \in RowsOf(down[q + 1])
      BY <2>1, <1>1, <1>3
    <3> QED
      BY <3>1, <2>1, <1>3 DEF NoNewer
  <2> QED
    BY <2>1, <1>2, <1>3 DEF NoNewer, RowsOf
<1>4. ASSUME NEW i \in DOMAIN items'
      PROVE  NoNewer(items[i], 0)'
  <2>1. PICK row : row = items'[i]
    OBVIOUS
  <2>2. NoNewer(row, 1) \/ NoNewer(row, 0)
    BY <2>1, <1>1 DEF Ascending
  <2>3. NoNewer(row, 0)'
    <3>1. 0 + 1 >= 1 /\ 0 + 1 >= 0 /\ 0 \in Nat /\ 1 \in Nat
      OBVIOUS
    <3> QED
      BY <2>2, <3>1, <1>3
  <2> QED
    BY <2>1, <2>3
<1>5. ASSUME NEW p \in DOMAIN down', NEW row \in RowsOf(down'[p])
      PROVE  NoNewer(row, p)'
  <2>1. row \in RowsOf(down[p + 1]) /\ p + 1 \in DOMAIN down /\ p \in Nat
    BY <1>1
  <2>2. NoNewer(row, p + 1)
    BY <2>1 DEF Ascending
  <2>3. p + 1 \in Nat /\ p + 1 >= p + 1
    BY <2>1
  <2> QED
    BY <2>1, <2>2, <2>3, <1>3
<1> QED
  BY <1>4, <1>5 DEF Ascending, RowsOf

\* A change moves the machine past every version that is listed or on its way.
LEMMA AscendsByChange ==
  ASSUME MachinesAssumption, IInv, Ascending, RegionChanges
  PROVE  Ascending'
<1>1. PICK id, k : Changes(id, k)
  BY ChangeFacts
<1>2. UNCHANGED <<down, items>> /\ db \in Seq(Nat)
  BY DEF RegionChanges, slice, IInv, Typed
<1>3. ASSUME NEW row \in Machine, NEW p, NoNewer(row, p), Real(row)
      PROVE  NoNewer(row, p)'
  <2>1. row.id \in DOMAIN db /\ db[row.id] \in Nat /\ row.v \in Nat
    BY <1>2, <1>3 DEF Real, Machine
  <2>2. ASSUME row.id \in Present' PROVE row.v <= db'[row.id]
    <3>1. row.id \in DOMAIN db' /\ db'[row.id] > 0
      BY <2>2 DEF Present
    <3>2. CASE row.id = id
      <4>1. db[id] > 0 /\ db'[id] = db[id] + 1
        BY <2>1, <3>1, <3>2, <1>1 DEF Changes
      <4>2. row.v <= db[id]
        BY <4>1, <2>1, <3>2, <1>3 DEF NoNewer, Present
      <4> QED
        BY <4>1, <4>2, <2>1, <3>2
    <3>3. CASE row.id # id
      <4>1. db'[row.id] = db[row.id]
        BY <2>1, <3>3, <1>1 DEF Changes
      <4> QED
        BY <4>1, <2>1, <3>1, <1>3 DEF NoNewer, Present
    <3> QED
      BY <3>2, <3>3
  <2> QED
    BY <2>2, <1>2, <1>3 DEF NoNewer, RowsOf
<1>4. /\ \A i \in DOMAIN items : items[i] \in Machine /\ Real(items[i])
      /\ \A p \in DOMAIN down : \A row \in RowsOf(down[p]) : row \in Machine /\ Real(row)
  <2>1. /\ items \in Seq(Machine) /\ down \in Seq(Message) /\ RowsReal
    BY DEF IInv, Typed
  <2>2. \A p \in DOMAIN down : down[p] \in Message
    BY <2>1
  <2> QED
    BY <2>1, <2>2, MessageFacts DEF RowsReal
<1> QED
  BY <1>2, <1>3, <1>4 DEF Ascending, RowsOf

\* What the region announces is its own, or nothing.
LEMMA AscendsByNotify ==
  ASSUME MachinesAssumption, IInv, Ascending, RegionNotifies
  PROVE  Ascending'
<1> DEFINE c == Head(changes)
<1>1. /\ UNCHANGED <<db, items>> /\ changes # <<>>
      /\ \/ c.kind = "delete" /\ down' = Append(down, [type |-> "delete", id |-> c.id])
         \/ /\ c.kind # "delete" /\ c.id \in Present
            /\ down' = Append(down, [type |-> c.kind, row |-> Row(c.id)])
         \/ UNCHANGED down
  BY DEF RegionNotifies, slice
<1>2. c.id \in Id /\ c.kind \in {"create", "update", "delete"}
  <2>1. changes \in Seq(Change)
    BY DEF IInv, Typed
  <2>2. c \in Change
    BY <1>1, <2>1, TailFacts
  <2> QED
    BY <2>2 DEF Change
<1> HIDE DEF c
<1>3. CASE UNCHANGED down
  BY <1>1, <1>3 DEF Ascending, NoNewer, RowsOf, Present
<1>4. CASE c.kind = "delete" /\ down' = Append(down, [type |-> "delete", id |-> c.id])
  <2> DEFINE m == [type |-> "delete", id |-> c.id]
  <2>1. m \in Message /\ RowsOf(m) = {}
    BY <1>2 DEF Message, DeleteMessage, RowsOf
  <2> HIDE DEF m
  <2>2. down' = Append(down, m)
    BY <1>4 DEF m
  <2> QED
    BY <2>1, <2>2, <1>1, AscendsBySend
<1>5. CASE /\ c.kind # "delete" /\ c.id \in Present
           /\ down' = Append(down, [type |-> c.kind, row |-> Row(c.id)])
  <2> DEFINE m == [type |-> c.kind, row |-> Row(c.id)]
  <2>1. Row(c.id) \in Machine /\ Row(c.id).id = c.id /\ Row(c.id).v = db[c.id]
    BY <1>5, RowFacts
  <2>2. m \in Message /\ RowsOf(m) = {Row(c.id)}
    BY <1>2, <1>5, <2>1 DEF Message, RowMessage, RowsOf
  <2> HIDE DEF m
  <2>3. down' = Append(down, m)
    BY <1>5 DEF m
  <2>4. \A row \in RowsOf(m) : row.id \in Present /\ row.v = db[row.id]
    BY <2>1, <2>2, <1>5
  <2> QED
    BY <2>2, <2>3, <2>4, <1>1, AscendsBySend
<1> QED
  BY <1>1, <1>3, <1>4, <1>5

\* What an answer is: a page of machines as they are, one of them, or an error.
LEMMA AnswerFacts ==
  ASSUME MachinesAssumption, IInv, RegionAnswers
  PROVE  /\ UNCHANGED <<db, changes, items, statuses, selected, loading, loaded, stray>>
         /\ \E m \in Message :
              /\ down' = Append(down, m) /\ m.type # "delete"
              /\ \A row \in RowsOf(m) : row.id \in Present /\ row.v = db[row.id]
<1> DEFINE r == Head(up)
<1>1. /\ up # <<>>
      /\ UNCHANGED <<db, changes, items, statuses, selected, loading, loaded, stray>>
      /\ \/ /\ r.method = "list"
            /\ \E page \in Pages(r) :
                 down' = Append(down, [type |-> "list", request |-> r, page |-> page])
         \/ /\ r.method \in {"list", "get"}
            /\ down' = Append(down, [type |-> "error", method |-> r.method])
         \/ /\ r.method = "get" /\ r.id \in Present
            /\ down' = Append(down, [type |-> "get", row |-> Row(r.id)])
  BY DEF RegionAnswers, slice, history
<1>2. r \in ListRequest \union GetRequest
  <2>1. up \in Seq(ListRequest \union GetRequest)
    BY DEF IInv, Typed
  <2> QED
    BY <1>1, <2>1, TailFacts
<1> HIDE DEF r
<1>3. CASE /\ r.method = "list"
           /\ \E page \in Pages(r) :
                down' = Append(down, [type |-> "list", request |-> r, page |-> page])
  <2>1. PICK page \in Pages(r) :
          down' = Append(down, [type |-> "list", request |-> r, page |-> page])
    BY <1>3
  <2>2. r \in ListRequest
    BY <1>2, <1>3 DEF GetRequest
  <2>3. /\ page \in Seq(Machine)
        /\ \A i \in DOMAIN page : page[i].v = db[page[i].id] /\ page[i].id \in Present
    BY <2>2, PageFacts
  <2> DEFINE m == [type |-> "list", request |-> r, page |-> page]
  <2>4. m \in Message /\ m.type # "delete" /\ RowsOf(m) = {page[i] : i \in DOMAIN page}
    BY <2>2, <2>3 DEF Message, ListMessage, RowsOf
  <2>5. \A row \in RowsOf(m) : row.id \in Present /\ row.v = db[row.id]
    BY <2>3, <2>4
  <2> QED
    BY <2>1, <2>4, <2>5, <1>1
<1>4. CASE /\ r.method \in {"list", "get"}
           /\ down' = Append(down, [type |-> "error", method |-> r.method])
  <2> DEFINE m == [type |-> "error", method |-> r.method]
  <2>1. m \in Message /\ m.type # "delete" /\ RowsOf(m) = {}
    BY <1>4 DEF Message, ErrorMessage, RowsOf
  <2> QED
    BY <2>1, <1>1, <1>4
<1>5. CASE /\ r.method = "get" /\ r.id \in Present
           /\ down' = Append(down, [type |-> "get", row |-> Row(r.id)])
  <2> DEFINE m == [type |-> "get", row |-> Row(r.id)]
  <2>1. Row(r.id) \in Machine /\ Row(r.id).id = r.id /\ Row(r.id).v = db[r.id]
    BY <1>5, RowFacts
  <2>2. m \in Message /\ m.type # "delete" /\ RowsOf(m) = {Row(r.id)}
    BY <2>1 DEF Message, RowMessage, RowsOf
  <2>3. \A row \in RowsOf(m) : row.id \in Present /\ row.v = db[row.id]
    BY <2>1, <2>2, <1>5
  <2> QED
    BY <2>2, <2>3, <1>1, <1>5
<1> QED
  BY <1>1, <1>3, <1>4, <1>5

\* What a message does to the list, but for a deletion: its rows and those that
\* were listed are listed, each machine once.
LEMMA ArrivalFacts ==
  ASSUME IInv, handleMessage, Head(down).type # "delete"
  PROVE  /\ items' \in Seq(Machine) /\ NoDuplicates' /\ Shown \subseteq Shown'
         /\ \A i \in DOMAIN items' : \/ items'[i] \in RowsOf(Head(down))
                                     \/ \E j \in DOMAIN items : items'[i] = items[j]
         /\ loaded => loaded'
         /\ loaded' \in BOOLEAN
         /\ UNCHANGED stray
<1> DEFINE m == Head(down)
<1>6. down # <<>> /\ m \in Message
  BY TakeFacts DEF handleMessage
<1>1. /\ items \in Seq(Machine) /\ NoDuplicates /\ RowsHaveStatuses
      /\ statuses \in SUBSET Id /\ loaded \in BOOLEAN
  BY DEF IInv, Typed
<1>2. CASE m.type = "list" /\ fetchSuccess(m.request, m.page) /\ UNCHANGED history
  <2>1. /\ items' = Added(m.page) /\ loaded' \in {loaded, TRUE} /\ UNCHANGED stray
    BY <1>2 DEF fetchSuccess, history
  <2>2. m.page \in Seq(Machine) /\ RowsOf(m) = {m.page[i] : i \in DOMAIN m.page}
    BY <1>6, <1>2, MessageFacts DEF RowsOf
  <2>3. Merges(items', Len(m.page), m.page)
    BY <1>1, <2>1, <2>2, AddedMerges
  <2>4. /\ items' \in Seq(Machine) /\ NoDuplicates' /\ Shown \subseteq Shown'
        /\ \A i \in DOMAIN items' : \/ items'[i] \in RowsOf(m)
                                    \/ \E j \in DOMAIN items : items'[i] = items[j]
    BY <2>2, <2>3 DEF Merges, NoDuplicates, Shown
  <2> QED
    BY <1>1, <2>1, <2>4
<1>3. CASE m.type \in {"get", "create"} /\ Upsert(m.row) /\ UNCHANGED <<loaded, history>>
  <2>1. m.row \in Machine /\ RowsOf(m) = {m.row}
    BY <1>6, <1>3, MessageFacts DEF RowsOf
  <2>2. /\ items' \in Seq(Machine) /\ NoDuplicates'
        /\ Shown' = Shown \union {m.row.id}
        /\ \A i \in DOMAIN items' :
             \/ items'[i] = m.row
             \/ \E j \in DOMAIN items : items'[i] = items[j]
    BY <1>1, <1>3, <2>1, UpsertFacts
  <2> QED
    BY <1>1, <1>3, <2>1, <2>2 DEF history
<1>4. CASE m.type = "update" /\ updateNotify(m.row) /\ UNCHANGED history
  <2>1. m.row \in Machine /\ RowsOf(m) = {m.row}
    BY <1>6, <1>4, MessageFacts DEF RowsOf
  <2>2. /\ items' \in Seq(Machine) /\ NoDuplicates' /\ Shown' = Shown
        /\ \A i \in DOMAIN items' :
             \/ items'[i] = m.row
             \/ \E j \in DOMAIN items : items'[i] = items[j]
    BY <1>1, <1>4, <2>1, UpdateFacts
  <2>3. UNCHANGED <<loaded, stray>>
    BY <1>4 DEF updateNotify, history
  <2> QED
    BY <1>1, <2>1, <2>2, <2>3
<1>5. CASE m.type = "error" /\ UNCHANGED <<items, loaded, stray>>
  BY <1>1, <1>5 DEF NoDuplicates, Shown
<1> QED
  BY <1>2, <1>3, <1>4, <1>5 DEF handleMessage, getSuccess, createNotify

\* A deletion takes the machine from the list, or another one or none.
LEMMA RemovalFacts ==
  ASSUME IInv, handleMessage, Head(down).type = "delete"
  PROVE  /\ items' = Spliced(Head(down).id) /\ items' \in Seq(Machine) /\ NoDuplicates'
         /\ Head(down).id \in DOMAIN db \ Present
         /\ Head(down).id \in Shown => Shown' = Shown \ {Head(down).id}
         /\ \A i \in DOMAIN items' : \E j \in DOMAIN items : items'[i] = items[j]
         /\ UNCHANGED loaded
         /\ stray' = (stray \/ Head(down).id \notin Shown)
<1> DEFINE m == Head(down)
<1>1. /\ deleteNotify(m.id) /\ stray' = (stray \/ m.id \notin Shown)
  BY DEF handleMessage
<1>2. items' = Spliced(m.id) /\ UNCHANGED loaded
  BY <1>1 DEF deleteNotify
<1>3. items \in Seq(Machine) /\ NoDuplicates
  BY DEF IInv, Typed
<1>4. m = down[1] /\ 1 \in DOMAIN down
  BY TakeFacts DEF handleMessage
<1>5. m.id \in DOMAIN db \ Present
  BY <1>4 DEF IInv, DeletionsReal, Present
<1>6. /\ items' \in Seq(Machine) /\ NoDuplicates'
      /\ m.id \in Shown => Shown' = Shown \ {m.id}
      /\ \A i \in DOMAIN items' : \E j \in DOMAIN items : items'[i] = items[j]
  BY <1>2, <1>3, SplicedFacts
<1> QED
  BY <1>1, <1>2, <1>5, <1>6

\* What a deletion leaves of the list: all of it, or all but one machine.
LEMMA StrayFacts ==
  ASSUME items \in Seq(Machine), NoDuplicates, NEW id, id \notin Shown, items' = Spliced(id)
  PROVE  \/ UNCHANGED items
         \/ \E k \in Shown : Shown' = Shown \ {k}
<1>1. CASE items = <<>>
  BY <1>1 DEF Spliced
<1>2. CASE items # <<>>
  <2>1. items' = SubSeq(items, 1, Len(items) - 1)
    BY <1>2 DEF Spliced, Front
  <2>2. /\ Len(items) \in Nat /\ Len(items) > 0 /\ DOMAIN items = 1 .. Len(items)
    BY <1>2
  <2>3. /\ DOMAIN items' = 1 .. Len(items) - 1
        /\ \A i \in 1 .. Len(items) - 1 : items'[i] = items[i]
    BY <2>1, <2>2
  <2> DEFINE k == items[Len(items)].id
  <2>4. k \in Shown /\ \A i \in 1 .. Len(items) - 1 : items[i].id # k
    BY <2>2 DEF NoDuplicates, Shown
  <2>5. Shown' = {items[i].id : i \in 1 .. Len(items) - 1}
    BY <2>3 DEF Shown
  <2>6. Shown = {items[i].id : i \in 1 .. Len(items) - 1} \union {k}
    <3>1. 1 .. Len(items) = (1 .. Len(items) - 1) \union {Len(items)}
      BY <2>2
    <3> QED
      BY <2>2, <3>1 DEF Shown
  <2>7. Shown' = Shown \ {k}
    <3> HIDE DEF k
    <3>1. k \notin {items[i].id : i \in 1 .. Len(items) - 1}
      BY <2>4
    <3> QED
      BY <2>5, <2>6, <3>1
  <2> QED
    BY <2>4, <2>7
<1> QED
  BY <1>1, <1>2

\* The versions go on ascending.
LEMMA AscendingNext ==
  ASSUME MachinesAssumption, IInv, Ascending, [Next]_vars
  PROVE  Ascending'
<1>1. CASE RegionChanges
  BY <1>1, AscendsByChange
<1>2. CASE RegionNotifies
  BY <1>2, AscendsByNotify
<1>3. CASE RegionAnswers
  BY <1>3, AnswerFacts, AscendsBySend
<1>4. CASE UNCHANGED <<db, down, items>>
  BY <1>4 DEF Ascending, NoNewer, RowsOf, Present
<1>5. CASE handleMessage
  <2>1. down # <<>> /\ down' = Tail(down) /\ UNCHANGED db
    BY <1>5 DEF handleMessage
  <2>2. \A i \in DOMAIN items' : \/ items'[i] \in RowsOf(Head(down))
                                 \/ \E j \in DOMAIN items : items'[i] = items[j]
    BY <1>5, ArrivalFacts, RemovalFacts
  <2> QED
    BY <2>1, <2>2, AscendsByTake
<1>6. CASE Reconnect
  BY <1>6 DEF Reconnect, Ascending
<1> QED
  BY <1>1, <1>2, <1>3, <1>4, <1>5, <1>6 DEF Next, vars, fetch, get, setSelected

\* A deletion is announced last.
LEMMA GoneToldNext ==
  ASSUME MachinesAssumption, IInv, GoneTold, [Next]_vars
  PROVE  GoneTold'
<1>1. changes \in Seq(Change) /\ DOMAIN changes = 1 .. Len(changes) /\ Len(changes) \in Nat
  BY DEF IInv, Typed
<1>2. CASE UNCHANGED <<db, changes>>
  BY <1>2 DEF GoneTold, Present
<1>3. CASE RegionChanges
  <2>1. PICK id, k : Changes(id, k)
    BY <1>3, ChangeFacts
  <2> DEFINE c == [kind |-> k, id |-> id]
  <2>2. /\ changes' = Append(changes, c) /\ DOMAIN db' = DOMAIN db \union {id}
        /\ k = "delete" <=> db'[id] = 0
        /\ \A x \in DOMAIN db : x # id => db'[x] = db[x]
        /\ db' \in Seq(Nat)
    BY <2>1 DEF Changes
  <2>3. c.id = id /\ c.kind = k
    OBVIOUS
  <2> HIDE DEF c
  <2>4. /\ DOMAIN changes' = 1 .. Len(changes) + 1 /\ changes'[Len(changes) + 1] = c
        /\ \A i \in 1 .. Len(changes) : changes'[i] = changes[i]
    BY <1>1, <2>2, AppendFacts
  <2>5. id \notin Present' => k = "delete"
    <3>1. CASE id \in DOMAIN db
      <4>1. db[id] > 0 /\ db'[id] \in {db[id] + 1, 0}
        BY <2>1, <3>1 DEF Changes
      <4>2. db[id] \in Nat
        <5>1. db \in Seq(Nat)
          BY DEF IInv, Typed
        <5> QED
          BY <3>1, <5>1
      <4> QED
        BY <2>2, <4>1, <4>2 DEF Present
    <3>2. CASE id \notin DOMAIN db
      <4>1. db'[id] = 1
        BY <2>1, <3>2 DEF Changes
      <4> QED
        BY <2>2, <4>1 DEF Present
    <3> QED
      BY <3>1, <3>2
  <2>6. \A x \in DOMAIN db : x # id /\ x \notin Present' => x \notin Present
    BY <2>2 DEF Present
  <2>7. ASSUME NEW i \in DOMAIN changes', changes'[i].id \notin Present'
        PROVE  \E j \in DOMAIN changes' :
                 j >= i /\ changes'[j].id = changes'[i].id /\ changes'[j].kind = "delete"
    <3>1. CASE changes'[i].id = id
      <4>1. /\ Len(changes) + 1 \in DOMAIN changes' /\ Len(changes) + 1 >= i
            /\ changes'[Len(changes) + 1].id = id /\ changes'[Len(changes) + 1].kind = "delete"
        BY <1>1, <2>3, <2>4, <2>5, <2>7, <3>1
      <4> QED
        BY <3>1, <4>1
    <3>2. CASE changes'[i].id # id
      <4>1. i \in DOMAIN changes /\ changes'[i] = changes[i]
        BY <1>1, <2>3, <2>4, <3>2
      <4>2. changes[i].id \in DOMAIN db /\ changes[i].id \notin Present
        BY <2>6, <2>7, <3>2, <4>1 DEF IInv, DeletionsReal
      <4>3. PICK j \in DOMAIN changes :
              j >= i /\ changes[j].id = changes[i].id /\ changes[j].kind = "delete"
        BY <4>1, <4>2 DEF GoneTold
      <4>4. j \in DOMAIN changes' /\ changes'[j] = changes[j]
        BY <1>1, <2>4
      <4> QED
        BY <4>1, <4>3, <4>4
    <3> QED
      BY <3>1, <3>2
  <2> QED
    BY <2>7 DEF GoneTold
<1>4. CASE RegionNotifies
  <2>1. changes # <<>> /\ changes' = Tail(changes) /\ UNCHANGED db
    BY <1>4 DEF RegionNotifies
  <2>2. /\ DOMAIN changes' = 1 .. Len(changes) - 1
        /\ \A i \in 1 .. Len(changes) - 1 : changes'[i] = changes[i + 1]
    BY <1>1, <2>1, TailFacts
  <2>3. ASSUME NEW i \in DOMAIN changes', changes'[i].id \notin Present
        PROVE  \E j \in DOMAIN changes' :
                 j >= i /\ changes'[j].id = changes'[i].id /\ changes'[j].kind = "delete"
    <3>1. i + 1 \in DOMAIN changes /\ changes'[i] = changes[i + 1]
      BY <1>1, <2>2
    <3>2. PICK j \in DOMAIN changes :
            j >= i + 1 /\ changes[j].id = changes'[i].id /\ changes[j].kind = "delete"
      BY <2>3, <3>1 DEF GoneTold
    <3>3. j - 1 \in DOMAIN changes' /\ j - 1 >= i /\ changes'[j - 1] = changes[j]
      BY <1>1, <2>2, <3>2
    <3> QED
      BY <3>2, <3>3
  <2> QED
    BY <2>1, <2>3 DEF GoneTold, Present
<1>5. CASE Reconnect
  <2>1. UNCHANGED db /\ (UNCHANGED changes \/ changes' = <<>>)
    BY <1>5 DEF Reconnect
  <2> QED
    BY <2>1 DEF GoneTold, Present
<1> QED
  BY <1>2, <1>3, <1>4, <1>5 DEF Next, vars, RegionAnswers, fetch, get, setSelected, handleMessage

-----------------------------------------------------------------------------
(* The list: what is on its way.                                             *)

\* A machine is owed something by the channel or the announcements to come.
LEMMA OwedFacts ==
  \A id : id \in Owed <=> \/ \E i \in DOMAIN changes : changes[i].id = id
                          \/ \E p \in DOMAIN down : id \in IdsOf(down[p])
  BY DEF Owed

\* Something is on its way about machines that have existed only.
LEMMA OwedReal ==
  ASSUME IInv
  PROVE  Owed \subseteq DOMAIN db
<1>1. \A p \in DOMAIN down : IdsOf(down[p]) \subseteq DOMAIN db
  <2> TAKE p \in DOMAIN down
  <2>1. \A row \in RowsOf(down[p]) : row.id \in DOMAIN db
    BY DEF IInv, RowsReal, Real
  <2>2. down[p].type = "delete" => down[p].id \in DOMAIN db
    BY DEF IInv, DeletionsReal
  <2> QED
    BY <2>1, <2>2 DEF IdsOf
<1>2. \A i \in DOMAIN changes : changes[i].id \in DOMAIN db
  BY DEF IInv, DeletionsReal
<1> QED
  BY <1>1, <1>2 DEF Owed

\* A message that joins the channel is owed, with what was.
LEMMA OwedBySend ==
  ASSUME IInv, NEW m, down' = Append(down, m), UNCHANGED changes
  PROVE  Owed' = Owed \union IdsOf(m)
<1>1. /\ DOMAIN down = 1 .. Len(down) /\ Len(down) \in Nat
      /\ DOMAIN down' = 1 .. Len(down) + 1
      /\ \A p \in 1 .. Len(down) : down'[p] = down[p]
      /\ down'[Len(down) + 1] = m
  BY AppendFacts DEF IInv, Typed
<1>2. ASSUME NEW id
      PROVE  (\E p \in DOMAIN down' : id \in IdsOf(down'[p])) <=>
               (\E p \in DOMAIN down : id \in IdsOf(down[p])) \/ id \in IdsOf(m)
  <2>1. \A p \in DOMAIN down' : down'[p] = m \/ (p \in DOMAIN down /\ down'[p] = down[p])
    BY <1>1
  <2>2. /\ \A p \in DOMAIN down : p \in DOMAIN down' /\ down'[p] = down[p]
        /\ Len(down) + 1 \in DOMAIN down'
    BY <1>1
  <2> QED
    BY <2>1, <2>2, <1>1
<1>3. ASSUME NEW id
      PROVE  id \in Owed' <=> \/ \E i \in DOMAIN changes : changes[i].id = id
                              \/ \E p \in DOMAIN down' : id \in IdsOf(down'[p])
  BY DEF Owed, IdsOf, RowsOf
<1> QED
  BY <1>2, <1>3, OwedFacts

\* What is left of the channel was owed before; the first message is owed too.
LEMMA OwedByTake ==
  ASSUME IInv, down # <<>>, down' = Tail(down), UNCHANGED changes
  PROVE  Owed' \subseteq Owed /\ IdsOf(Head(down)) \subseteq Owed
<1>1. /\ Head(down) = down[1] /\ 1 \in DOMAIN down
      /\ \A p \in DOMAIN down' : p + 1 \in DOMAIN down /\ down'[p] = down[p + 1]
  BY TakeFacts
<1>2. ASSUME NEW id \in Owed' PROVE id \in Owed
  <2>1. \/ \E i \in DOMAIN changes : changes[i].id = id
        \/ \E p \in DOMAIN down' : id \in IdsOf(down'[p])
    BY <1>2 DEF Owed, IdsOf, RowsOf
  <2> QED
    BY <2>1, <1>1 DEF Owed
<1> QED
  BY <1>1, <1>2 DEF Owed

\* An announcement that is made moves from those to come to the channel.
LEMMA NotifyFacts ==
  ASSUME IInv, RegionNotifies
  PROVE  \E c, m :
           /\ c \in Change
           /\ DOMAIN changes = 1 .. Len(changes) /\ Len(changes) \in Nat
           /\ DOMAIN changes' = 1 .. Len(changes) - 1
           /\ \A i \in 1 .. Len(changes) - 1 : changes'[i] = changes[i + 1]
           /\ c = changes[1] /\ 1 \in DOMAIN changes
           /\ IdsOf(m) = {c.id} /\ m.type = c.kind
           /\ m.type = "delete" => m.id = c.id
           /\ \/ /\ c.kind = "delete" \/ c.id \in Present
                 /\ down' = Append(down, m)
              \/ /\ c.kind # "delete" /\ c.id \notin Present
                 /\ UNCHANGED down
           /\ UNCHANGED <<db, items>>
<1> DEFINE c == Head(changes)
           m == Announcement(c)
           sent == c.kind = "delete" \/ c.id \in Present
<1>1. /\ changes # <<>> /\ changes' = Tail(changes)
      /\ down' = IF sent THEN Append(down, m) ELSE down
      /\ UNCHANGED <<db, items>>
  BY DEF RegionNotifies, Announcement, slice
<1>2. /\ changes \in Seq(Change) /\ down \in Seq(Message)
  BY DEF IInv, Typed
<1>3. /\ DOMAIN changes = 1 .. Len(changes) /\ Len(changes) \in Nat
      /\ DOMAIN changes' = 1 .. Len(changes) - 1
      /\ \A i \in 1 .. Len(changes) - 1 : changes'[i] = changes[i + 1]
      /\ c = changes[1] /\ c \in Change /\ 1 \in DOMAIN changes
  BY <1>1, <1>2, TailFacts
<1>4. IdsOf(m) = {c.id}
  <2>1. c.kind \in {"create", "update", "delete"}
    BY <1>3 DEF Change
  <2>2. CASE c.kind = "delete"
    BY <2>2 DEF Announcement, IdsOf, RowsOf
  <2>3. CASE c.kind # "delete"
    <3>1. m.type = c.kind /\ m.row.id = c.id
      BY <2>3 DEF Announcement, Row
    <3>2. RowsOf(m) = {m.row}
      BY <2>1, <2>3, <3>1 DEF RowsOf
    <3> QED
      BY <2>3, <3>1, <3>2 DEF IdsOf
  <2> QED
    BY <2>2, <2>3
<1>5. m.type = c.kind /\ (m.type = "delete" => m.id = c.id)
  BY DEF Announcement
<1> HIDE DEF c, m
<1> QED
  BY <1>1, <1>3, <1>4, <1>5

\* An announcement is on its way to the client when it no longer waits to be
\* made, and one of a machine that has gone is followed by that of its deletion.
LEMMA OwedByNotify ==
  ASSUME IInv, GoneTold, RegionNotifies
  PROVE  Owed' = Owed
<1>1. PICK c, m :
        /\ c \in Change
        /\ DOMAIN changes = 1 .. Len(changes) /\ Len(changes) \in Nat
        /\ DOMAIN changes' = 1 .. Len(changes) - 1
        /\ \A i \in 1 .. Len(changes) - 1 : changes'[i] = changes[i + 1]
        /\ c = changes[1] /\ 1 \in DOMAIN changes
        /\ IdsOf(m) = {c.id}
        /\ \/ /\ c.kind = "delete" \/ c.id \in Present
              /\ down' = Append(down, m)
           \/ /\ c.kind # "delete" /\ c.id \notin Present
              /\ UNCHANGED down
        /\ UNCHANGED db
  BY NotifyFacts
<1> DEFINE sent == c.kind = "delete" \/ c.id \in Present
<1>2. down \in Seq(Message)
  BY DEF IInv, Typed
<1>3. /\ \A p \in DOMAIN down' : (sent /\ down'[p] = m) \/ (p \in DOMAIN down /\ down'[p] = down[p])
      /\ \A p \in DOMAIN down : p \in DOMAIN down' /\ down'[p] = down[p]
      /\ sent => \E p \in DOMAIN down' : down'[p] = m
  <2>1. CASE sent
    <3>1. /\ DOMAIN down = 1 .. Len(down) /\ Len(down) \in Nat
          /\ DOMAIN down' = 1 .. Len(down) + 1
          /\ \A p \in 1 .. Len(down) : down'[p] = down[p]
          /\ down'[Len(down) + 1] = m
      BY <2>1, <1>1, <1>2, AppendFacts
    <3> QED
      BY <2>1, <3>1
  <2>2. CASE ~sent
    BY <2>2, <1>1
  <2> QED
    BY <2>1, <2>2
<1>4. ASSUME NEW id
      PROVE  id \in Owed' <=> \/ \E i \in DOMAIN changes' : changes'[i].id = id
                              \/ \E p \in DOMAIN down' : id \in IdsOf(down'[p])
  BY DEF Owed, IdsOf, RowsOf
<1>5. ASSUME NEW id \in Owed' PROVE id \in Owed
  <2>1. CASE \E i \in DOMAIN changes' : changes'[i].id = id
    <3>1. \A i \in DOMAIN changes' : i + 1 \in DOMAIN changes /\ changes'[i] = changes[i + 1]
      BY <1>1
    <3> QED
      BY <2>1, <3>1, OwedFacts
  <2>2. CASE \E p \in DOMAIN down' : id \in IdsOf(down'[p])
    BY <2>2, <1>1, <1>3, OwedFacts
  <2> QED
    BY <2>1, <2>2, <1>4, <1>5
<1>6. ASSUME NEW id \in Owed PROVE id \in Owed'
  <2>1. CASE \E i \in DOMAIN changes : i # 1 /\ changes[i].id = id
    <3>1. \A i \in DOMAIN changes : i # 1 => i - 1 \in DOMAIN changes' /\ changes'[i - 1] = changes[i]
      BY <1>1
    <3> QED
      BY <2>1, <3>1, <1>4
  <2>2. CASE id = c.id /\ sent
    BY <2>2, <1>1, <1>3, <1>4
  <2>3. CASE id = c.id /\ ~sent
    <3>1. PICK j \in DOMAIN changes : j >= 1 /\ changes[j].id = id /\ changes[j].kind = "delete"
      BY <2>3, <1>1 DEF GoneTold
    <3>2. j # 1
      BY <2>3, <3>1, <1>1
    <3> QED
      BY <2>1, <3>1, <3>2
  <2>4. CASE \E p \in DOMAIN down : id \in IdsOf(down[p])
    BY <2>4, <1>3, <1>4
  <2> QED
    BY <2>1, <2>2, <2>3, <2>4, <1>1, <1>6, OwedFacts
<1> QED
  BY <1>5, <1>6

\* A message joins the channel behind the others, and one that is taken moves
\* them up.
LEMMA ChannelFacts ==
  ASSUME IInv
  PROVE  /\ DOMAIN down = 1 .. Len(down) /\ Len(down) \in Nat
         /\ \A m : down' = Append(down, m) =>
              /\ \A p \in DOMAIN down' : \/ p = Len(down) + 1 /\ down'[p] = m
                                         \/ p \in DOMAIN down /\ down'[p] = down[p]
              /\ \A p \in DOMAIN down : p < Len(down) + 1
         /\ down # <<>> /\ down' = Tail(down) =>
              \A p \in DOMAIN down' : p + 1 \in DOMAIN down /\ down'[p] = down[p + 1]
<1>1. down \in Seq(Message)
  BY DEF IInv, Typed
<1>2. DOMAIN down = 1 .. Len(down) /\ Len(down) \in Nat
  BY <1>1
<1>3. ASSUME NEW m, down' = Append(down, m)
      PROVE  /\ \A p \in DOMAIN down' : \/ p = Len(down) + 1 /\ down'[p] = m
                                        \/ p \in DOMAIN down /\ down'[p] = down[p]
             /\ \A p \in DOMAIN down : p < Len(down) + 1
  <2>1. /\ DOMAIN down' = 1 .. Len(down) + 1 /\ down'[Len(down) + 1] = m
        /\ \A p \in 1 .. Len(down) : down'[p] = down[p]
    BY <1>1, <1>3, AppendFacts
  <2> QED
    BY <1>2, <2>1
<1>4. ASSUME down # <<>>, down' = Tail(down)
      PROVE  \A p \in DOMAIN down' : p + 1 \in DOMAIN down /\ down'[p] = down[p + 1]
  BY <1>4, TakeFacts
<1> QED
  BY <1>2, <1>3, <1>4

\* Nothing is on its way behind a deletion: what has gone does not change, and
\* the region sends what it has.
LEMMA DeletionsLastNext ==
  ASSUME MachinesAssumption, IInv, DeletionsLast, [Next]_vars
  PROVE  DeletionsLast'
<1>1. changes \in Seq(Change) /\ DOMAIN changes = 1 .. Len(changes) /\ Len(changes) \in Nat
  BY DEF IInv, Typed
<1>2. /\ \A i \in DOMAIN changes : changes[i].id \in DOMAIN db
      /\ \A i \in DOMAIN changes : changes[i].kind = "delete" => changes[i].id \notin Present
      /\ \A p \in DOMAIN down :
           down[p].type = "delete" => down[p].id \in DOMAIN db \ Present
  BY DEF IInv, DeletionsReal, Present
<1>3. \A m : IdsOf(m)' = IdsOf(m)
  BY DEF IdsOf, RowsOf
<1>4. CASE UNCHANGED <<changes, down>>
  BY <1>4 DEF DeletionsLast, IdsOf, RowsOf
<1>5. CASE RegionChanges
  <2>1. PICK id, k : Changes(id, k)
    BY <1>5, ChangeFacts
  <2>2. PICK c : changes' = Append(changes, c) /\ c.id = id
    BY <2>1 DEF Changes
  <2>3. id \notin DOMAIN db \/ id \in Present
    BY <2>1 DEF Changes, Present
  <2>4. /\ \A i \in DOMAIN changes' : \/ i = Len(changes) + 1 /\ changes'[i] = c
                                      \/ i \in DOMAIN changes /\ changes'[i] = changes[i]
        /\ \A i \in DOMAIN changes : i < Len(changes) + 1
    <3>1. /\ DOMAIN changes' = 1 .. Len(changes) + 1 /\ changes'[Len(changes) + 1] = c
          /\ \A i \in 1 .. Len(changes) : changes'[i] = changes[i]
      BY <1>1, <2>2, AppendFacts
    <3> QED
      BY <1>1, <3>1
  <2>5. UNCHANGED down
    BY <1>5 DEF RegionChanges
  <2>6. ASSUME NEW i \in DOMAIN changes', NEW j \in DOMAIN changes',
               changes'[i].kind = "delete", changes'[j].id = changes'[i].id
        PROVE  j <= i
    <3>1. CASE i = Len(changes) + 1
      BY <1>1, <2>4, <3>1
    <3>2. CASE i \in DOMAIN changes /\ changes'[i] = changes[i]
      <4>1. changes[i].id # id
        BY <1>2, <2>3, <2>6, <3>2
      <4>2. j \in DOMAIN changes /\ changes'[j] = changes[j]
        BY <2>2, <2>4, <2>6, <3>2, <4>1
      <4> QED
        BY <2>6, <3>2, <4>2 DEF DeletionsLast
    <3> QED
      BY <2>4, <3>1, <3>2
  <2>7. ASSUME NEW p \in DOMAIN down, down[p].type = "delete"
        PROVE  \A i \in DOMAIN changes' : changes'[i].id # down[p].id
    BY <1>2, <2>2, <2>3, <2>4, <2>7 DEF DeletionsLast
  <2> QED
    BY <2>5, <2>6, <2>7 DEF DeletionsLast, IdsOf, RowsOf
<1>6. CASE RegionNotifies
  <2>1. PICK c, m :
          /\ c \in Change
          /\ DOMAIN changes' = 1 .. Len(changes) - 1
          /\ \A i \in 1 .. Len(changes) - 1 : changes'[i] = changes[i + 1]
          /\ c = changes[1] /\ 1 \in DOMAIN changes
          /\ IdsOf(m) = {c.id} /\ m.type = c.kind
          /\ m.type = "delete" => m.id = c.id
          /\ down' = Append(down, m) \/ UNCHANGED down
    BY <1>6, NotifyFacts
  <2>2. \A i \in DOMAIN changes' : /\ i + 1 \in DOMAIN changes /\ i + 1 > 1
                                   /\ changes'[i] = changes[i + 1] /\ i \in Nat
    BY <1>1, <2>1
  <2>3. \A p \in DOMAIN down' : \/ p = Len(down) + 1 /\ down'[p] = m
                                \/ p \in DOMAIN down /\ down'[p] = down[p]
    BY <2>1, ChannelFacts
  <2>4. ASSUME NEW i \in DOMAIN changes', NEW j \in DOMAIN changes',
               changes'[i].kind = "delete", changes'[j].id = changes'[i].id
        PROVE  j <= i
    <3>1. j + 1 <= i + 1
      BY <2>2, <2>4 DEF DeletionsLast
    <3> QED
      BY <2>2, <3>1
  <2>5. ASSUME NEW p \in DOMAIN down', down'[p].type = "delete"
        PROVE  /\ \A i \in DOMAIN changes' : changes'[i].id # down'[p].id
               /\ \A q \in DOMAIN down' : q > p => down'[p].id \notin IdsOf(down'[q])
    <3>1. CASE p = Len(down) + 1 /\ down'[p] = m
      <4>1. \A i \in DOMAIN changes : changes[i].id = c.id => i <= 1
        BY <2>1, <2>5, <3>1 DEF DeletionsLast
      <4>2. \A i \in DOMAIN changes' : changes'[i].id # c.id
        <5> TAKE i \in DOMAIN changes'
        <5>1. ~(i + 1 <= 1)
          BY <2>2
        <5> QED
          BY <2>2, <4>1, <5>1
      <4>3. \A q \in DOMAIN down' : ~(q > p)
        BY <2>3, <3>1, ChannelFacts
      <4> QED
        BY <2>1, <2>5, <3>1, <4>2, <4>3
    <3>2. CASE p \in DOMAIN down /\ down'[p] = down[p]
      <4>1. /\ \A i \in DOMAIN changes : changes[i].id # down[p].id
            /\ \A q \in DOMAIN down : q > p => down[p].id \notin IdsOf(down[q])
        BY <2>5, <3>2 DEF DeletionsLast
      <4>2. down[p].id \notin IdsOf(m)
        BY <2>1, <4>1
      <4> QED
        BY <2>2, <2>3, <3>2, <4>1, <4>2
    <3> QED
      BY <2>3, <3>1, <3>2
  <2> QED
    BY <2>4, <2>5, <1>3 DEF DeletionsLast
<1>7. CASE RegionAnswers
  <2>1. PICK m \in Message :
          /\ down' = Append(down, m) /\ m.type # "delete"
          /\ \A row \in RowsOf(m) : row.id \in Present
    BY <1>7, AnswerFacts
  <2>2. UNCHANGED changes
    BY <1>7, AnswerFacts
  <2>3. IdsOf(m) \subseteq Present
    BY <2>1 DEF IdsOf
  <2>4. \A p \in DOMAIN down' : \/ p = Len(down) + 1 /\ down'[p] = m
                                \/ p \in DOMAIN down /\ down'[p] = down[p]
    BY <2>1, ChannelFacts
  <2>5. ASSUME NEW p \in DOMAIN down', down'[p].type = "delete"
        PROVE  /\ \A i \in DOMAIN changes : changes[i].id # down'[p].id
               /\ \A q \in DOMAIN down' : q > p => down'[p].id \notin IdsOf(down'[q])
    <3>1. p \in DOMAIN down /\ down'[p] = down[p]
      BY <2>1, <2>4, <2>5
    <3>2. down[p].id \notin IdsOf(m)
      BY <1>2, <2>3, <2>5, <3>1
    <3> QED
      BY <2>4, <2>5, <3>1, <3>2 DEF DeletionsLast
  <2> QED
    BY <2>2, <2>5, <1>3 DEF DeletionsLast
<1>8. CASE handleMessage
  <2>1. down # <<>> /\ down' = Tail(down) /\ UNCHANGED changes
    BY <1>8 DEF handleMessage
  <2>2. \A p \in DOMAIN down' : p + 1 \in DOMAIN down /\ down'[p] = down[p + 1]
    BY <2>1, ChannelFacts
  <2>3. ASSUME NEW p \in DOMAIN down', down'[p].type = "delete"
        PROVE  /\ \A i \in DOMAIN changes : changes[i].id # down'[p].id
               /\ \A q \in DOMAIN down' : q > p => down'[p].id \notin IdsOf(down'[q])
    <3>1. \A q \in DOMAIN down' : q > p => q + 1 > p + 1
      BY <2>1, TakeFacts
    <3> QED
      BY <2>2, <2>3, <3>1 DEF DeletionsLast
  <2> QED
    BY <2>1, <2>3, <1>3 DEF DeletionsLast
<1>9. CASE Reconnect
  <2>1. down' = <<>> /\ (UNCHANGED changes \/ changes' = <<>>)
    BY <1>9 DEF Reconnect
  <2> QED
    BY <2>1 DEF DeletionsLast
<1> QED
  BY <1>4, <1>5, <1>6, <1>7, <1>8, <1>9 DEF Next, vars, fetch, get, setSelected

-----------------------------------------------------------------------------
(* The list: each step is one of the list, or changes nothing of it.         *)

\* What arrives moves rows forward, or adds rows of machines that were owed.
LEMMA ArriveStep ==
  ASSUME MachinesAssumption, IInv, Ascending, VersionsRight, VersionsRight',
         RightUnlessOwed', handleMessage, Head(down).type # "delete"
  PROVE  ML!Arrive
<1> DEFINE m == Head(down)
<1>1. /\ down # <<>> /\ down' = Tail(down) /\ UNCHANGED <<db, changes>>
      /\ m = down[1] /\ 1 \in DOMAIN down
  BY TakeFacts DEF handleMessage
<1>2. /\ NoDuplicates' /\ Shown \subseteq Shown'
      /\ \A i \in DOMAIN items' : \/ items'[i] \in RowsOf(m)
                                  \/ \E j \in DOMAIN items : items'[i] = items[j]
      /\ loaded => loaded'
      /\ UNCHANGED stray
  BY ArrivalFacts
<1>3. Owed' \subseteq Owed /\ \A row \in RowsOf(m) : row.id \in Owed
  BY <1>1, OwedByTake DEF IdsOf
<1>4. \A i \in DOMAIN items : items[i].v \in Nat
  <2>1. items \in Seq(Machine)
    BY DEF IInv, Typed
  <2>2. \A i \in DOMAIN items : items[i] \in Machine
    BY <2>1
  <2> QED
    BY <2>2 DEF Machine
<1>5. \A i \in DOMAIN items : \A row \in RowsOf(m) : row.id = items[i].id => items[i].v <= row.v
  <2> TAKE i \in DOMAIN items
  <2>1. NoNewer(items[i], 0)
    BY DEF Ascending
  <2> QED
    BY <2>1, <1>1 DEF NoNewer
<1>6. \A row \in RowsOf(m) : row.id \in Present => row.v <= db[row.id]
  BY <1>1 DEF Ascending, NoNewer
<1> HIDE DEF m
<1>7. ASSUME NEW id \in Shown PROVE id \in Shown' /\ Versions'[id] >= Versions[id]
  <2>1. PICK i \in DOMAIN items : items[i].id = id /\ Versions[id] = items[i].v
    BY DEF VersionsRight
  <2>2. PICK k \in DOMAIN items' : items'[k].id = id /\ Versions'[id] = items'[k].v
    BY <1>2 DEF VersionsRight
  <2>3. CASE items'[k] \in RowsOf(m)
    <3>1. items[i].v <= items'[k].v
      BY <2>1, <2>2, <2>3, <1>5
    <3>2. items'[k].v \in Nat
      <4>1. items' \in Seq(Machine)
        BY ArrivalFacts
      <4>2. \A j \in DOMAIN items' : items'[j] \in Machine
        BY <4>1
      <4> QED
        BY <4>2 DEF Machine
    <3> QED
      BY <2>1, <2>2, <3>1, <3>2, <1>2, <1>4
  <2>4. CASE \E j \in DOMAIN items : items'[k] = items[j]
    <3>1. PICK j \in DOMAIN items : items'[k] = items[j]
      BY <2>4
    <3>2. Versions[id] = items[j].v
      BY <3>1, <2>2 DEF VersionsRight
    <3> QED
      BY <2>1, <2>2, <3>1, <3>2, <1>2, <1>4
  <2> QED
    BY <2>3, <2>4, <1>2
<1>8. ASSUME NEW id \in Shown'
      PROVE  \/ id \in Shown /\ Versions'[id] = Versions[id]
             \/ id \in Owed /\ (id \in Present => Versions'[id] <= db[id])
  <2>1. PICK k \in DOMAIN items' : items'[k].id = id /\ Versions'[id] = items'[k].v
    BY DEF VersionsRight
  <2>2. CASE items'[k] \in RowsOf(m)
    BY <2>1, <2>2, <1>3, <1>6
  <2>3. CASE \E j \in DOMAIN items : items'[k] = items[j]
    BY <2>1, <2>3 DEF VersionsRight
  <2> QED
    BY <2>2, <2>3, <1>2
<1>9. DOMAIN Versions = Shown /\ DOMAIN Versions' = Shown' /\ ML!Existing = Present
  BY DEF VersionsRight, ML!Existing, Present
<1>10. ML!Caught
  BY <1>1, <1>3, OwedReal DEF ML!Caught, RightUnlessOwed
<1> QED
  BY <1>1, <1>2, <1>7, <1>8, <1>9, <1>10 DEF ML!Arrive

\* A deletion takes its machine from the list, or leads the list astray.
LEMMA RemoveStep ==
  ASSUME MachinesAssumption, IInv, DeletionsLast, VersionsRight, VersionsRight',
         RightUnlessOwed', handleMessage, Head(down).type = "delete"
  PROVE  \E id \in DOMAIN db : ML!Remove(id)
<1> DEFINE id == Head(down).id
<1>1. /\ down # <<>> /\ down' = Tail(down) /\ UNCHANGED <<db, changes>>
  BY DEF handleMessage
<1>2. /\ items' = Spliced(id) /\ id \in DOMAIN db \ Present
      /\ id \in Shown => Shown' = Shown \ {id}
      /\ \A i \in DOMAIN items' : \E j \in DOMAIN items : items'[i] = items[j]
      /\ UNCHANGED loaded
      /\ stray' = (stray \/ id \notin Shown)
  BY RemovalFacts
<1>3. Owed' \subseteq Owed /\ id \in Owed
  BY <1>1, OwedByTake DEF IdsOf
<1>4. id \notin Owed'
  <2>1. /\ Head(down) = down[1] /\ 1 \in DOMAIN down
        /\ \A p \in DOMAIN down' : /\ p + 1 \in DOMAIN down /\ p + 1 > 1
                                   /\ down'[p] = down[p + 1]
    BY <1>1, TakeFacts
  <2>2. /\ \A i \in DOMAIN changes : changes[i].id # id
        /\ \A p \in DOMAIN down' : id \notin IdsOf(down'[p])
    BY <2>1 DEF DeletionsLast
  <2> QED
    BY <2>2, <1>1 DEF Owed, IdsOf, RowsOf
<1> HIDE DEF id
<1>5. ASSUME NEW x \in Shown' PROVE x \in Shown /\ Versions'[x] = Versions[x]
  <2>1. PICK k \in DOMAIN items' : items'[k].id = x /\ Versions'[x] = items'[k].v
    BY DEF VersionsRight
  <2>2. PICK j \in DOMAIN items : items'[k] = items[j]
    BY <1>2
  <2> QED
    BY <2>1, <2>2 DEF VersionsRight
<1>6. /\ DOMAIN Versions = Shown /\ ML!Existing = Present
      /\ Versions' = [x \in Shown' |-> Versions'[x]]
  BY DEF VersionsRight, ML!Existing, Present, Versions
<1>7. ASSUME NEW y, Shown' = Shown \ {y}
      PROVE  Versions' = [x \in DOMAIN Versions \ {y} |-> Versions[x]]
  BY <1>5, <1>6, <1>7
<1>8. ML!Caught
  BY <1>1, <1>3, OwedReal DEF ML!Caught, RightUnlessOwed
<1>9. CASE id \in Shown
  <2>1. Versions' = [x \in DOMAIN Versions \ {id} |-> Versions[x]]
    BY <1>2, <1>7, <1>9
  <2>2. UNCHANGED stray
    BY <1>2, <1>9 DEF IInv, Typed
  <2>3. ML!Remove(id)
    BY <1>1, <1>2, <1>3, <1>6, <1>8, <1>9, <1>4, <2>1, <2>2 DEF ML!Remove
  <2> QED
    BY <2>3, <1>2
<1>10. CASE id \notin Shown
  <2>1. \/ UNCHANGED Versions
        \/ \E y \in DOMAIN Versions : Versions' = [x \in DOMAIN Versions \ {y} |-> Versions[x]]
    <3>1. UNCHANGED items \/ \E y \in Shown : Shown' = Shown \ {y}
      BY <1>2, <1>10, StrayFacts DEF IInv, Typed
    <3>2. UNCHANGED items => UNCHANGED Versions
      BY DEF Versions, Shown
    <3> QED
      BY <3>1, <3>2, <1>6, <1>7
  <2>2. stray' = TRUE
    BY <1>2, <1>10 DEF IInv, Typed
  <2>3. ML!Remove(id)
    BY <1>1, <1>2, <1>3, <1>6, <1>8, <1>10, <1>4, <2>1, <2>2 DEF ML!Remove
  <2> QED
    BY <2>3, <1>2
<1> QED
  BY <1>9, <1>10

\* Every step of Machines is one of the list, or changes nothing of it.
LEMMA StepRefines ==
  MachinesAssumption /\ IInv /\ Ascending /\ GoneTold /\ DeletionsLast /\ VersionsRight
    /\ VersionsRight' /\ RightUnlessOwed' /\ [Next]_vars => [ML!Next]_(ML!vars)
<1> SUFFICES ASSUME MachinesAssumption, IInv, Ascending, GoneTold, DeletionsLast,
                    VersionsRight, VersionsRight', RightUnlessOwed', [Next]_vars
             PROVE  [ML!Next]_(ML!vars)
  OBVIOUS
<1>1. ML!Existing = Present
  BY DEF ML!Existing, Present
<1>2. UNCHANGED items => UNCHANGED Versions
  BY DEF Versions, Shown
<1>3. UNCHANGED <<changes, down>> => UNCHANGED Owed
  BY DEF Owed, IdsOf, RowsOf
<1>4. CASE RegionChanges
  <2>1. PICK id, k : Changes(id, k)
    BY <1>4, ChangeFacts
  <2>2. UNCHANGED <<down, items, loaded, stray>>
    BY <1>4 DEF RegionChanges, slice, history
  <2>3. Owed' = Owed \union {id}
    <3> DEFINE c == [kind |-> k, id |-> id]
    <3>1. changes \in Seq(Change) /\ changes' = Append(changes, c) /\ c.id = id
      BY <2>1 DEF Changes, IInv, Typed
    <3> HIDE DEF c
    <3>2. /\ DOMAIN changes = 1 .. Len(changes) /\ Len(changes) \in Nat
          /\ DOMAIN changes' = 1 .. Len(changes) + 1
          /\ \A i \in 1 .. Len(changes) : changes'[i] = changes[i]
          /\ changes'[Len(changes) + 1].id = id
      BY <3>1, AppendFacts
    <3>3. {changes'[i].id : i \in DOMAIN changes'} =
            {changes[i].id : i \in DOMAIN changes} \union {id}
      <4>1. DOMAIN changes' = DOMAIN changes \union {Len(changes) + 1}
        BY <3>2
      <4> QED
        BY <3>2, <4>1
    <3> QED
      BY <2>2, <3>3 DEF Owed, IdsOf, RowsOf
  <2>4. ML!Change(id) /\ id \in DOMAIN db'
    BY <2>1, <2>2, <2>3, <1>1, <1>2 DEF ML!Change, Changes, Present
  <2> QED
    BY <2>4 DEF ML!Next
<1>5. CASE RegionNotifies
  <2>1. UNCHANGED <<db, items, loaded, stray>>
    BY <1>5 DEF RegionNotifies, slice, history
  <2> QED
    BY <2>1, <1>2, <1>5, OwedByNotify DEF ML!vars
<1>6. CASE RegionAnswers
  <2>1. PICK m \in Message :
          /\ down' = Append(down, m) /\ m.type # "delete"
          /\ \A row \in RowsOf(m) : row.id \in Present /\ row.v = db[row.id]
    BY <1>6, AnswerFacts
  <2>2. UNCHANGED <<db, changes, items, loaded, stray>>
    BY <1>6, AnswerFacts
  <2>3. Owed' = Owed \union IdsOf(m) /\ IdsOf(m) \subseteq Present
    BY <2>1, <2>2, OwedBySend DEF IdsOf
  <2>4. ML!Answer
    BY <2>2, <2>3, <1>1, <1>2 DEF ML!Answer
  <2> QED
    BY <2>4 DEF ML!Next
<1>7. CASE UNCHANGED <<db, changes, down, items, loaded, stray>>
  BY <1>2, <1>3, <1>7 DEF ML!vars
<1>8. CASE handleMessage
  BY <1>8, ArriveStep, RemoveStep DEF ML!Next
<1>9. CASE Reconnect
  <2>1. /\ UNCHANGED db /\ down' = <<>> /\ items' = <<>>
        /\ loaded' = FALSE /\ stray' = FALSE
        /\ UNCHANGED changes \/ changes' = <<>>
    BY <1>9 DEF Reconnect
  <2>2. Shown' = {}
    BY <2>1 DEF Shown
  <2>3. Owed' \subseteq Owed
    BY <2>1 DEF Owed
  <2>4. ML!Lose
    BY <2>1, <2>2, <2>3 DEF ML!Lose, VersionsRight
  <2> QED
    BY <2>4 DEF ML!Next
<1> QED
  BY <1>4, <1>5, <1>6, <1>7, <1>8, <1>9 DEF Next, vars, history, fetch, get, setSelected

\* The machine slice, its batches and its notifications implement the list: rows
\* move forward only, none comes from nowhere, what leaves has been deleted unless
\* a deletion was a stray one, and what is not on its way is right (handleBatch,
\* createNotify, updateNotify, getSuccess, deleteNotify).
THEOREM Implements == Spec => ImplementsMachineList
<1>1. Init => ML!Init /\ Ascending /\ GoneTold /\ DeletionsLast
  <2> SUFFICES ASSUME Init PROVE ML!Init /\ Ascending /\ GoneTold /\ DeletionsLast
    OBVIOUS
  <2>1. /\ DOMAIN down = {} /\ DOMAIN changes = {} /\ DOMAIN items = {}
        /\ \A id \in DOMAIN db : db[id] = 1
    BY DEF Init
  <2>2. Owed = {} /\ Shown = {}
    BY <2>1 DEF Owed, Shown
  <2>3. DOMAIN Versions = {}
    BY <2>2 DEF Versions
  <2> QED
    BY <2>1, <2>2, <2>3 DEF Init, ML!Init, Ascending, GoneTold, DeletionsLast
<1>2. IInv /\ Ascending /\ GoneTold /\ DeletionsLast /\ [Next]_vars
        => Ascending' /\ GoneTold' /\ DeletionsLast'
  BY MachinesAssumption, AscendingNext, GoneToldNext, DeletionsLastNext
<1>3. IInv => VersionsRight /\ RightUnlessOwed
  BY VersionsFacts, NothingMissed
<1>4. IInv /\ Ascending /\ GoneTold /\ DeletionsLast /\ VersionsRight /\ VersionsRight'
        /\ RightUnlessOwed' /\ [Next]_vars => [ML!Next]_(ML!vars)
  BY MachinesAssumption, StepRefines
<1> QED
  BY <1>1, <1>2, <1>3, <1>4, Invariant, PTL DEF Spec, ImplementsMachineList, ML!Spec
=============================================================================
