-------------------------- MODULE ConfigUpdateProofs --------------------------
(* Proofs about ConfigUpdate, for every set of settings and of forms that     *)
(* save them, and for every number of updates, of changes by others and of    *)
(* losses of the connection.                                                  *)
EXTENDS ConfigUpdate, SequenceTheorems, WellFoundedInduction, TLAPS

-----------------------------------------------------------------------------
(* The inductive invariant.                                                  *)

Request == [u: 1 .. MaxUpdates, name: Name]
ReplyMessage == [type: {"success", "error"}, u: 1 .. MaxUpdates]
ListMessage == [type: {"list"}, values: [Name -> Value]]
NotifyMessage == [type: {"notify"}, name: Name, value: Value]
Message == ReplyMessage \union ListMessage \union NotifyMessage

Typed ==
  /\ config \in [Name -> Value]
  /\ changes \in Seq(Name)
  /\ open \in BOOLEAN
  /\ up \in Seq(Request \union {List})
  /\ down \in Seq(Message)
  /\ slice \in [saving: BOOLEAN, saved: BOOLEAN, errors: BOOLEAN]
  /\ items = NotLoaded \/ items \in [Name -> Value]
  /\ sagas \in Seq(Saga) /\ Len(sagas) <= MaxUpdates
  /\ \A u \in DOMAIN sagas : sagas[u].sent \in 1 .. Len(sagas[u].params)
  /\ refused \in BOOLEAN /\ overlapped \in BOOLEAN /\ drops \in Nat

\* Without a connection nothing is on its way and nothing is shown.
Offline ==
  /\ ~open => up = <<>> /\ down = <<>> /\ items = NotLoaded
  /\ drops = 0 => open

\* A value that is shown or on its way is the region's, or one that is comes
\* after it, or the change is not announced yet.
Carries(m, n) == m.type = "list" \/ (m.type = "notify" /\ m.name = n)
Brings(m, n) == IF m.type = "list" THEN m.values[n] ELSE m.value

Settled(n, v, p) ==
  \/ v = config[n]
  \/ \E i \in DOMAIN changes : changes[i] = n
  \/ \E q \in DOMAIN down : q > p /\ Carries(down[q], n) /\ Brings(down[q], n) = config[n]

ValuesSettled ==
  /\ items # NotLoaded => \A n \in Name : Settled(n, items[n], 0)
  /\ \A p \in DOMAIN down : \A n \in Name :
       Carries(down[p], n) => Settled(n, Brings(down[p], n), p)

\* A run that has not returned has something coming that resumes it, unless a
\* value was refused or lost.
Moves ==
  \/ \E i \in DOMAIN up : up[i] # List
  \/ changes # <<>>
  \/ \E p \in DOMAIN down : down[p].type = "notify"

NoneWaits ==
  ~refused /\ drops = 0 => (\A u \in DOMAIN sagas : sagas[u].done) \/ Moves

\* Without overlaps all requests are of the latest update, and nothing of a later
\* one is in the settings.
InTurn ==
  ~refused /\ ~overlapped /\ drops = 0 =>
    /\ \A u \in DOMAIN sagas : u < Len(sagas) => sagas[u].done
    /\ \A i \in DOMAIN up : up[i] # List => up[i].u = Len(sagas)
    /\ \A n \in Name : config[n] = Other \/ config[n] <= Len(sagas)

IInv == Typed /\ Offline /\ SavingAnswered /\ ValuesSettled /\ NoneWaits /\ InTurn

-----------------------------------------------------------------------------
(* Sequences.                                                                *)

\* Natural induction, over a set instead of a predicate.
LEMMA SetInduction ==
  ASSUME NEW S, 0 \in S, \A n \in Nat : n \in S => n + 1 \in S
  PROVE  Nat \subseteq S
<1> DEFINE T == Nat \ S
<1>1. SUFFICES ASSUME T # {} PROVE FALSE
  OBVIOUS
<1>2. PICK x \in T : \A y \in T : ~(<<y, x>> \in OpToRel(<, Nat))
  <2>1. T \subseteq Nat
    OBVIOUS
  <2> HIDE DEF T
  <2> QED
    BY <1>1, <2>1, NatLessThanWellFounded, WFMin
<1>3. x \in Nat /\ x # 0
  OBVIOUS
<1>4. x - 1 \in Nat /\ x - 1 < x /\ (x - 1) + 1 = x
  BY <1>3
<1>5. x - 1 \in T
  BY <1>4
<1>6. <<x - 1, x>> \in OpToRel(<, Nat)
  BY <1>3, <1>4 DEF OpToRel
<1> QED
  BY <1>2, <1>5, <1>6

\* What Append does to length and elements.
LEMMA AppendFacts ==
  ASSUME NEW S, NEW s \in Seq(S), NEW e
  PROVE  /\ Len(Append(s, e)) = Len(s) + 1
         /\ DOMAIN Append(s, e) = 1 .. Len(s) + 1
         /\ \A i \in 1 .. Len(s) : Append(s, e)[i] = s[i]
         /\ Append(s, e)[Len(s) + 1] = e
         /\ DOMAIN s = 1 .. Len(s) /\ Len(s) \in Nat
  OBVIOUS

\* What Tail does to length and elements.
LEMMA TailFacts ==
  ASSUME NEW S, NEW s \in Seq(S), s # <<>>
  PROVE  /\ Len(Tail(s)) = Len(s) - 1 /\ Tail(s) \in Seq(S)
         /\ DOMAIN Tail(s) = 1 .. Len(s) - 1
         /\ \A i \in 1 .. Len(s) - 1 : Tail(s)[i] = s[i + 1]
         /\ Len(s) \in Nat /\ Len(s) > 0 /\ 1 \in DOMAIN s
         /\ Head(s) = s[1] /\ Head(s) \in S
         /\ DOMAIN s = 1 .. Len(s)
  OBVIOUS

\* What Concat does to length and elements.
LEMMA ConcatFacts ==
  ASSUME NEW S, NEW s \in Seq(S), NEW t \in Seq(S)
  PROVE  /\ s \o t \in Seq(S)
         /\ \A i \in DOMAIN s : i \in DOMAIN (s \o t) /\ (s \o t)[i] = s[i]
         /\ \A j \in DOMAIN t : \E i \in DOMAIN (s \o t) : (s \o t)[i] = t[j]
         /\ \A i \in DOMAIN (s \o t) : \/ i \in DOMAIN s /\ (s \o t)[i] = s[i]
                                       \/ \E j \in DOMAIN t : (s \o t)[i] = t[j]
<1>1. /\ s \o t \in Seq(S) /\ Len(s \o t) = Len(s) + Len(t)
      /\ \A i \in 1 .. Len(s) + Len(t) :
           (s \o t)[i] = IF i <= Len(s) THEN s[i] ELSE t[i - Len(s)]
  BY ConcatProperties
<1>2. /\ Len(s) \in Nat /\ Len(t) \in Nat
      /\ DOMAIN s = 1 .. Len(s) /\ DOMAIN t = 1 .. Len(t)
  OBVIOUS
<1>3. DOMAIN (s \o t) = 1 .. Len(s) + Len(t)
  BY <1>1
<1> DEFINE c == s \o t
<1>4. \A i \in DOMAIN s : i \in DOMAIN c /\ c[i] = s[i]
  BY <1>1, <1>2, <1>3
<1>5. \A j \in DOMAIN t : Len(s) + j \in DOMAIN c /\ c[Len(s) + j] = t[j]
  <2> TAKE j \in DOMAIN t
  <2>1. /\ Len(s) + j \in 1 .. Len(s) + Len(t) /\ ~(Len(s) + j <= Len(s))
        /\ (Len(s) + j) - Len(s) = j
    BY <1>2
  <2> QED BY <1>1, <1>3, <2>1
<1>6. \A i \in DOMAIN c : \/ i \in DOMAIN s /\ c[i] = s[i]
                          \/ i - Len(s) \in DOMAIN t /\ c[i] = t[i - Len(s)]
  <2> TAKE i \in DOMAIN c
  <2>1. i \in 1 .. Len(s) + Len(t)
    BY <1>3
  <2>2. CASE i <= Len(s)
    BY <1>1, <1>2, <2>1, <2>2
  <2>3. CASE ~(i <= Len(s))
    <3>1. i - Len(s) \in DOMAIN t
      BY <1>2, <2>1, <2>3
    <3> QED BY <1>1, <2>1, <2>3, <3>1
  <2> QED BY <2>2, <2>3
<1> HIDE DEF c
<1>7. \A j \in DOMAIN t : \E i \in DOMAIN c : c[i] = t[j]
  BY <1>5
<1> QED BY <1>1, <1>4, <1>6, <1>7 DEF c

\* `s` holds the elements of the first `n` of the sequences `ss`, and no others.
Joins(s, n, ss, S) ==
  /\ s \in Seq(S)
  /\ \A i \in DOMAIN s : \E k \in DOMAIN ss : \E j \in DOMAIN ss[k] : s[i] = ss[k][j]
  /\ \A k \in DOMAIN ss : k <= n =>
       \A j \in DOMAIN ss[k] : \E i \in DOMAIN s : s[i] = ss[k][j]

\* FlattenSeq's recursion defines a function: there is one for each prefix.
LEMMA FlattenDefined ==
  ASSUME NEW S, NEW ss \in Seq(Seq(S)), ss # <<>>
  PROVE  \E f : /\ f = [i \in 1 .. Len(ss) |->
                          IF i = 1 THEN ss[i] ELSE f[i - 1] \o ss[i]]
                /\ FlattenSeq(ss) = f[Len(ss)]
<1> DEFINE F(f, k) == f = [i \in 1 .. k |-> IF i = 1 THEN ss[i] ELSE f[i - 1] \o ss[i]]
           T == {k \in Nat : \E f : F(f, k)}
<1>1. 0 \in T
  <2> DEFINE f == [i \in 1 .. 0 |-> ss[i]]
  <2>1. F(f, 0)
    OBVIOUS
  <2> HIDE DEF F, f
  <2> QED BY <2>1
<1>2. ASSUME NEW k \in Nat, k \in T PROVE k + 1 \in T
  <2>1. PICK f : F(f, k)
    BY <1>2
  <2> DEFINE g == [i \in 1 .. k + 1 |->
                     IF i = k + 1 THEN IF i = 1 THEN ss[i] ELSE f[k] \o ss[i]
                     ELSE f[i]]
  <2>2. \A i \in 1 .. k + 1 : g[i] = IF i = 1 THEN ss[i] ELSE g[i - 1] \o ss[i]
    <3> TAKE i \in 1 .. k + 1
    <3>1. CASE i = 1
      BY <3>1, <2>1
    <3>2. CASE i # 1 /\ i # k + 1
      <4>1. i - 1 \in 1 .. k /\ i - 1 \in 1 .. k + 1 /\ i \in 1 .. k /\ i - 1 # k + 1
        BY <3>2
      <4>2. g[i - 1] = f[i - 1] /\ g[i] = f[i]
        BY <4>1, <3>2
      <4>3. f[i] = f[i - 1] \o ss[i]
        BY <2>1, <4>1, <3>2
      <4> QED BY <4>2, <4>3, <3>2
    <3>3. CASE i # 1 /\ i = k + 1
      <4>1. i - 1 = k /\ k \in 1 .. k + 1 /\ k # k + 1
        BY <3>3
      <4>2. g[k] = f[k] /\ g[i] = f[k] \o ss[i]
        BY <4>1, <3>3
      <4> QED BY <4>1, <4>2, <3>3
    <3> QED BY <3>1, <3>2, <3>3
  <2>3. F(g, k + 1)
    BY <2>2
  <2> HIDE DEF F
  <2> QED BY <2>3
<1>3. Len(ss) \in T
  <2>1. Len(ss) \in Nat
    OBVIOUS
  <2> HIDE DEF T
  <2> QED BY <1>1, <1>2, <2>1, SetInduction
<1>4. \E f : F(f, Len(ss))
  BY <1>3
<1>5. F(CHOOSE f : F(f, Len(ss)), Len(ss))
  <2> HIDE DEF F
  <2> QED BY <1>4
<1>6. FlattenSeq(ss) = (CHOOSE f : F(f, Len(ss)))[Len(ss)]
  <2>1. Len(ss) # 0
    BY EmptySeq
  <2> QED BY <2>1 DEF FlattenSeq
<1> QED BY <1>5, <1>6

\* The next sequence adds its elements.
LEMMA JoinsNext ==
  ASSUME NEW S, NEW ss, NEW a, NEW m, NEW k \in DOMAIN ss,
         ss[k] \in Seq(S), Joins(a, m, ss, S),
         \A l \in DOMAIN ss : l <= k <=> l <= m \/ l = k
  PROVE  Joins(a \o ss[k], k, ss, S)
<1> DEFINE b == ss[k]
           c == a \o b
<1>1. a \in Seq(S) /\ b \in Seq(S)
  BY DEF Joins
<1>2. /\ c \in Seq(S)
      /\ \A i \in DOMAIN a : i \in DOMAIN c /\ c[i] = a[i]
      /\ \A j \in DOMAIN b : \E i \in DOMAIN c : c[i] = b[j]
      /\ \A i \in DOMAIN c : \/ i \in DOMAIN a /\ c[i] = a[i]
                            \/ \E j \in DOMAIN b : c[i] = b[j]
  <2> HIDE DEF b
  <2> QED BY <1>1, ConcatFacts
<1> HIDE DEF c
<1>3. \A i \in DOMAIN c : \E l \in DOMAIN ss : \E j \in DOMAIN ss[l] : c[i] = ss[l][j]
  <2> TAKE i \in DOMAIN c
  <2>1. CASE i \in DOMAIN a /\ c[i] = a[i]
    <3>1. \E l \in DOMAIN ss : \E j \in DOMAIN ss[l] : a[i] = ss[l][j]
      BY <2>1 DEF Joins
    <3> QED BY <2>1, <3>1
  <2>2. CASE \E j \in DOMAIN b : c[i] = b[j]
    BY <2>2
  <2> QED BY <1>2, <2>1, <2>2
<1>4. \A l \in DOMAIN ss : l <= k =>
        \A j \in DOMAIN ss[l] : \E i \in DOMAIN c : c[i] = ss[l][j]
  <2> SUFFICES ASSUME NEW l \in DOMAIN ss, l <= k, NEW j \in DOMAIN ss[l]
               PROVE  \E i \in DOMAIN c : c[i] = ss[l][j]
    OBVIOUS
  <2>1. CASE l = k
    BY <1>2, <2>1
  <2>2. CASE l <= m
    <3>1. PICK i \in DOMAIN a : a[i] = ss[l][j]
      BY <2>2 DEF Joins
    <3> QED BY <1>2, <3>1
  <2> QED BY <2>1, <2>2
<1>5. Joins(c, k, ss, S)
  BY <1>2, <1>3, <1>4 DEF Joins
<1> QED BY <1>5 DEF c

\* FlattenSeq holds what the sequences hold.
LEMMA FlattenJoins ==
  ASSUME NEW S, NEW ss \in Seq(Seq(S))
  PROVE  Joins(FlattenSeq(ss), Len(ss), ss, S)
<1>1. CASE ss = <<>>
  <2>1. FlattenSeq(ss) = <<>> /\ DOMAIN ss = {}
    BY <1>1 DEF FlattenSeq
  <2>2. <<>> \in Seq(S) /\ DOMAIN <<>> = {}
    OBVIOUS
  <2> QED BY <2>1, <2>2 DEF Joins
<1>2. CASE ss # <<>>
  <2>1. PICK f : /\ f = [i \in 1 .. Len(ss) |->
                           IF i = 1 THEN ss[i] ELSE f[i - 1] \o ss[i]]
                 /\ FlattenSeq(ss) = f[Len(ss)]
    BY <1>2, FlattenDefined
  <2>2. /\ Len(ss) \in Nat /\ Len(ss) # 0 /\ DOMAIN ss = 1 .. Len(ss)
        /\ \A k \in DOMAIN ss : ss[k] \in Seq(S)
    BY <1>2, EmptySeq
  <2> DEFINE T == {n \in Nat : n + 1 <= Len(ss) => Joins(f[n + 1], n + 1, ss, S)}
  <2>3. 0 \in T
    <3>1. 1 \in DOMAIN ss /\ f[1] = ss[1]
      BY <2>1, <2>2
    <3>2. \A k \in DOMAIN ss : k <= 1 => k = 1
      BY <2>2
    <3>3. Joins(ss[1], 1, ss, S)
      BY <2>2, <3>1, <3>2 DEF Joins
    <3> QED BY <3>1, <3>3
  <2>4. ASSUME NEW n \in Nat, n \in T PROVE n + 1 \in T
    <3> SUFFICES ASSUME (n + 1) + 1 <= Len(ss)
                 PROVE  Joins(f[(n + 1) + 1], (n + 1) + 1, ss, S)
      OBVIOUS
    <3> DEFINE k == (n + 1) + 1
    <3>1. /\ k \in 1 .. Len(ss) /\ k # 1 /\ k - 1 = n + 1 /\ n + 1 <= Len(ss)
          /\ k \in DOMAIN ss
      BY <2>2
    <3>2. Joins(f[n + 1], n + 1, ss, S)
      BY <2>4, <3>1
    <3>3. f[k] = f[n + 1] \o ss[k]
      BY <2>1, <3>1
    <3>4. \A i \in DOMAIN ss : i <= k <=> i <= n + 1 \/ i = k
      BY <2>2, <3>1
    <3> HIDE DEF k
    <3>5. Joins(f[n + 1] \o ss[k], k, ss, S)
      BY <2>2, <3>1, <3>2, <3>4, JoinsNext
    <3> QED BY <3>3, <3>5 DEF k
  <2>5. Len(ss) - 1 \in T
    <3>1. Len(ss) - 1 \in Nat
      BY <2>2
    <3> HIDE DEF T
    <3> QED BY <2>3, <2>4, <3>1, SetInduction
  <2>6. (Len(ss) - 1) + 1 = Len(ss)
    BY <2>2
  <2>7. Joins(f[Len(ss)], Len(ss), ss, S)
    BY <2>2, <2>5, <2>6
  <2> QED BY <2>1, <2>7
<1> QED BY <1>1, <1>2

-----------------------------------------------------------------------------
(* Operators.                                                                *)

\* What requests and messages are made of.
LEMMA MessageFacts ==
  ASSUME NEW m \in Message
  PROVE  /\ m.type \in {"success", "error", "list", "notify"}
         /\ m.type = "list" => m.values \in [Name -> Value]
         /\ m.type = "notify" => m.name \in Name /\ m.value \in Value
BY DEF Message, ReplyMessage, ListMessage, NotifyMessage

\* A request that is not for the list saves a value.
LEMMA RequestFacts ==
  ASSUME NEW r \in Request \union {List}
  PROVE  /\ r # List => r \in Request /\ r.u \in 1 .. MaxUpdates /\ r.name \in Name
         /\ List \notin Request
<1>1. List.u = 0
  BY DEF List
<1>2. \A x \in Request : x.u # 0
  BY ConfigUpdateAssumption DEF Request
<1> QED BY <1>1, <1>2 DEF Request

\* The setting a run saves next is one of the settings.
LEMMA NameFacts ==
  ASSUME NEW saga \in Saga, saga.sent \in 1 .. Len(saga.params)
  PROVE  /\ saga.params \in Seq(Name) /\ saga.params[saga.sent] \in Name
         /\ saga.params # <<>> /\ Len(saga.params) \in Nat
<1>1. saga.params \in Forms
  BY DEF Saga
<1>2. saga.params \in Seq(Name) /\ saga.params # <<>>
  BY <1>1, ConfigUpdateAssumption
<1> QED BY <1>2

\* A form names at least one setting.
LEMMA FormFacts ==
  ASSUME NEW form \in Forms
  PROVE  form \in Seq(Name) /\ 1 \in 1 .. Len(form) /\ form[1] \in Name
<1>1. form \in Seq(Name) /\ form # <<>>
  BY ConfigUpdateAssumption
<1>2. Len(form) \in Nat /\ Len(form) # 0
  BY <1>1, EmptySeq
<1> QED BY <1>1, <1>2

\* The numbers of the updates are values.
LEMMA ValueFacts ==
  /\ Other \in Value /\ 0 \in Value /\ Other \in Nat
  /\ \A u \in 1 .. MaxUpdates : u \in Value /\ u # Other /\ u < Other
BY ConfigUpdateAssumption DEF Value, Other

\* A step after which a value is no less settled than before.
LEMMA SettledKept ==
  ASSUME NEW n, NEW v, NEW p,
         Settled(n, v, p), config'[n] = config[n],
         \A i \in DOMAIN changes : changes[i] = n =>
           \E j \in DOMAIN changes' : changes'[j] = n,
         \A q \in DOMAIN down : q \in DOMAIN down' /\ down'[q] = down[q]
  PROVE  Settled(n, v, p)'
BY DEF Settled, Carries, Brings

\* A message is taken: what is behind it moves up.
LEMMA SettledByTake ==
  ASSUME Typed, down # <<>>, down' = Tail(down), config' = config, changes' = changes,
         NEW n, NEW v, NEW p \in Nat, Settled(n, v, p),
         p = 0 => ~Carries(Head(down), n)
  PROVE  Settled(n, v, IF p = 0 THEN 0 ELSE p - 1)'
<1>1. down \in Seq(Message)
  BY DEF Typed
<1>2. CASE \E q \in DOMAIN down : q > p /\ Carries(down[q], n) /\ Brings(down[q], n) = config[n]
  <2>1. PICK q \in DOMAIN down : q > p /\ Carries(down[q], n) /\ Brings(down[q], n) = config[n]
    BY <1>2
  <2>2. /\ DOMAIN down = 1 .. Len(down) /\ Len(down) \in Nat
        /\ DOMAIN Tail(down) = 1 .. Len(down) - 1 /\ Head(down) = down[1]
        /\ \A i \in 1 .. Len(down) - 1 : Tail(down)[i] = down[i + 1]
    BY <1>1, TailFacts
  <2>3. q # 1
    BY <2>1, <2>2
  <2>4. /\ q - 1 \in DOMAIN down' /\ (q - 1) + 1 = q
        /\ q - 1 > (IF p = 0 THEN 0 ELSE p - 1)
    BY <2>1, <2>2, <2>3
  <2>5. down'[q - 1] = down[q]
    BY <2>2, <2>4
  <2>6. Carries(down'[q - 1], n) /\ Brings(down'[q - 1], n) = config'[n]
    BY <2>1, <2>5
  <2> QED BY <2>4, <2>6 DEF Settled, Carries, Brings
<1> QED BY <1>2 DEF Settled

\* A step that adds messages behind those on their way.
LEMMA ValuesGrow ==
  ASSUME Typed, ValuesSettled, items' = items,
         \A q \in DOMAIN down : q \in DOMAIN down' /\ down'[q] = down[q],
         \A n \in Name : \A v : \A p \in {0} \union DOMAIN down :
           Settled(n, v, p) => Settled(n, v, p)',
         \A p \in DOMAIN down' \ DOMAIN down : \A n \in Name :
           Carries(down'[p], n) => \A v : v = Brings(down'[p], n) => Settled(n, v, p)'
  PROVE  ValuesSettled'
<1>1. ASSUME items # NotLoaded, NEW n \in Name
      PROVE  \A v : v = items[n] => Settled(n, v, 0)'
  <2>1. Settled(n, items[n], 0)
    BY <1>1 DEF ValuesSettled
  <2> QED BY <2>1
<1>2. ASSUME NEW p \in DOMAIN down', NEW n \in Name, Carries(down'[p], n)
      PROVE  \A v : v = Brings(down'[p], n) => Settled(n, v, p)'
  <2>1. CASE p \in DOMAIN down
    <3>1. Settled(n, Brings(down[p], n), p)
      BY <1>2, <2>1 DEF ValuesSettled
    <3>2. down'[p] = down[p]
      BY <2>1
    <3> QED BY <2>1, <3>1, <3>2
  <2>2. CASE p \notin DOMAIN down
    BY <1>2, <2>2
  <2> QED BY <2>1, <2>2
<1> QED BY <1>1, <1>2 DEF ValuesSettled, Settled, Carries, Brings

\* A step that leaves settings, changes and messages alone.
LEMMA ValuesSame ==
  ASSUME ValuesSettled, config' = config, changes' = changes, down' = down, items' = items
  PROVE  ValuesSettled'
BY DEF ValuesSettled, Settled, Carries, Brings

\* What the notification does to the runs: none that waits is left with nothing
\* on its way, and only runs that wait send.
LEMMA ResumeFacts ==
  ASSUME Typed, Resume
  PROVE  /\ sagas' \in Seq(Saga) /\ Len(sagas') = Len(sagas)
         /\ DOMAIN sagas' = DOMAIN sagas
         /\ \A u \in DOMAIN sagas' : sagas'[u].sent \in 1 .. Len(sagas'[u].params)
         /\ \A u \in DOMAIN sagas : sagas[u].done => sagas'[u].done
         /\ up' \in Seq(Request \union {List})
         /\ \A i \in DOMAIN up : i \in DOMAIN up' /\ up'[i] = up[i]
         /\ \A i \in DOMAIN up' :
              \/ i \in DOMAIN up /\ up'[i] = up[i]
              \/ up'[i] # List /\ \E u \in DOMAIN sagas : ~sagas[u].done /\ up'[i].u = u
         /\ \A u \in DOMAIN sagas : ~sagas'[u].done => \E i \in DOMAIN up' : up'[i] # List
<1> DEFINE next(u) == IF sagas[u].done THEN sagas[u] ELSE Resumed(sagas[u])
           sends(u) == IF next(u).sent = sagas[u].sent THEN <<>> ELSE Requests(u, next(u))
           ss == [u \in DOMAIN sagas |-> sends(u)]
           S == Request \union {List}
<1>1. /\ sagas \in Seq(Saga) /\ Len(sagas) <= MaxUpdates /\ up \in Seq(S)
      /\ Len(sagas) \in Nat /\ DOMAIN sagas = 1 .. Len(sagas)
      /\ \A u \in DOMAIN sagas : sagas[u] \in Saga
  BY DEF Typed
<1>2. sagas' = [u \in DOMAIN sagas |-> next(u)] /\ up' = up \o FlattenSeq(ss)
  BY DEF Resume
<1>3. ASSUME NEW u \in DOMAIN sagas
      PROVE  /\ next(u) \in Saga /\ next(u).sent \in 1 .. Len(next(u).params)
             /\ sagas[u].done => next(u) = sagas[u]
             /\ ~next(u).done => next(u).sent # sagas[u].sent
  <2>1. sagas[u] \in Saga /\ sagas[u].sent \in 1 .. Len(sagas[u].params)
    BY <1>1 DEF Typed
  <2>2. Len(sagas[u].params) \in Nat
    BY <2>1, NameFacts
  <2>3. CASE sagas[u].done
    BY <2>1, <2>3
  <2>4. CASE ~sagas[u].done /\ sagas[u].sent = Len(sagas[u].params)
    BY <2>1, <2>2, <2>4 DEF Resumed, Saga
  <2>5. CASE ~sagas[u].done /\ sagas[u].sent # Len(sagas[u].params)
    BY <2>1, <2>2, <2>5 DEF Resumed, Saga
  <2> QED BY <2>3, <2>4, <2>5
<1>4. ASSUME NEW u \in DOMAIN sagas
      PROVE  /\ sends(u) \in Seq(S)
             /\ \A j \in DOMAIN sends(u) :
                  sends(u)[j] # List /\ sends(u)[j].u = u /\ ~sagas[u].done
             /\ ~next(u).done => 1 \in DOMAIN sends(u)
  <2>1. CASE next(u).sent = sagas[u].sent
    <3>1. sends(u) = <<>>
      BY <2>1
    <3>2. <<>> \in Seq(S) /\ DOMAIN <<>> = {}
      OBVIOUS
    <3> HIDE DEF sends, next
    <3>3. next(u).done
      BY <1>3, <2>1
    <3> QED BY <3>1, <3>2, <3>3
  <2>2. CASE next(u).sent # sagas[u].sent
    <3> DEFINE r == [u |-> u, name |-> next(u).params[next(u).sent]]
    <3>1. sends(u) = <<r>>
      BY <2>2 DEF Requests
    <3>2. next(u).params[next(u).sent] \in Name
      BY <1>3, NameFacts
    <3>3. u \in 1 .. MaxUpdates
      BY <1>1, ConfigUpdateAssumption
    <3>4. r \in Request /\ r.u = u
      BY <3>2, <3>3 DEF Request
    <3>5. ~sagas[u].done
      BY <1>3, <2>2
    <3> HIDE DEF r, sends, next
    <3>6. r \in S /\ r # List
      BY <3>4, RequestFacts
    <3>7. <<r>> \in Seq(S) /\ DOMAIN <<r>> = {1} /\ <<r>>[1] = r
      BY <3>6
    <3> QED BY <3>1, <3>4, <3>5, <3>6, <3>7
  <2> QED BY <2>1, <2>2
<1> HIDE DEF S, next, sends
<1>5. /\ sagas' \in Seq(Saga) /\ Len(sagas') = Len(sagas)
      /\ DOMAIN sagas' = DOMAIN sagas
      /\ \A u \in DOMAIN sagas : sagas'[u] = next(u)
  BY <1>1, <1>2, <1>3
<1>6. ss \in Seq(Seq(S)) /\ DOMAIN ss = DOMAIN sagas
  BY <1>1, <1>4
<1>7. Joins(FlattenSeq(ss), Len(ss), ss, S)
  BY <1>6, FlattenJoins
<1>8. \A k \in DOMAIN ss : k <= Len(ss)
  BY <1>6
<1> DEFINE R == FlattenSeq(ss)
<1>9. /\ R \in Seq(S)
      /\ \A i \in DOMAIN R : \E u \in DOMAIN sagas : \E j \in DOMAIN sends(u) : R[i] = sends(u)[j]
      /\ \A u \in DOMAIN sagas : \A j \in DOMAIN sends(u) : \E i \in DOMAIN R : R[i] = sends(u)[j]
  BY <1>6, <1>7, <1>8 DEF Joins
<1> HIDE DEF R
<1>10. up' = up \o R
  BY <1>2 DEF R
<1>11. /\ up' \in Seq(S)
       /\ \A i \in DOMAIN up : i \in DOMAIN up' /\ up'[i] = up[i]
       /\ \A j \in DOMAIN R : \E i \in DOMAIN up' : up'[i] = R[j]
       /\ \A i \in DOMAIN up' : \/ i \in DOMAIN up /\ up'[i] = up[i]
                                \/ \E j \in DOMAIN R : up'[i] = R[j]
  <2>1. R \in Seq(S) /\ up \in Seq(S)
    BY <1>1, <1>9
  <2>2. /\ up \o R \in Seq(S)
        /\ \A i \in DOMAIN up : i \in DOMAIN (up \o R) /\ (up \o R)[i] = up[i]
        /\ \A j \in DOMAIN R : \E i \in DOMAIN (up \o R) : (up \o R)[i] = R[j]
        /\ \A i \in DOMAIN (up \o R) : \/ i \in DOMAIN up /\ (up \o R)[i] = up[i]
                                      \/ \E j \in DOMAIN R : (up \o R)[i] = R[j]
    BY <2>1, ConcatFacts
  <2> QED BY <1>10, <2>2
<1>12. \A j \in DOMAIN R : R[j] # List /\ \E u \in DOMAIN sagas : ~sagas[u].done /\ R[j].u = u
  BY <1>4, <1>9
<1>13. \A i \in DOMAIN up' :
         \/ i \in DOMAIN up /\ up'[i] = up[i]
         \/ up'[i] # List /\ \E u \in DOMAIN sagas : ~sagas[u].done /\ up'[i].u = u
  BY <1>11, <1>12
<1>14. ASSUME NEW u \in DOMAIN sagas, ~sagas'[u].done
       PROVE  \E i \in DOMAIN up' : up'[i] # List
  <2>1. 1 \in DOMAIN sends(u)
    BY <1>4, <1>5, <1>14
  <2>2. PICK j \in DOMAIN R : R[j] = sends(u)[1]
    BY <1>9, <2>1
  <2>3. R[j] # List
    BY <1>12
  <2> QED BY <1>11, <2>3
<1>15. up' \in Seq(Request \union {List})
  BY <1>11 DEF S
<1>16. /\ \A u \in DOMAIN sagas' : sagas'[u].sent \in 1 .. Len(sagas'[u].params)
       /\ \A u \in DOMAIN sagas : sagas[u].done => sagas'[u].done
  BY <1>3, <1>5
<1> QED BY <1>5, <1>11, <1>13, <1>14, <1>15, <1>16

-----------------------------------------------------------------------------
(* Each action keeps the invariant.                                          *)

\* It holds at the start.
LEMMA InitHolds == Init => IInv
<1> SUFFICES ASSUME Init PROVE IInv
  OBVIOUS
<1>1. /\ config = [n \in Name |-> 0] /\ changes = <<>> /\ open = TRUE
      /\ up = <<>> /\ down = <<>> /\ slice = cleared /\ items = config
      /\ sagas = <<>> /\ refused = FALSE /\ overlapped = FALSE /\ drops = 0
  BY DEF Init
<1>2. <<>> \in Seq(Name) /\ <<>> \in Seq(Request \union {List}) /\ <<>> \in Seq(Message)
      /\ <<>> \in Seq(Saga) /\ Len(<<>>) = 0 /\ DOMAIN <<>> = {}
  OBVIOUS
<1>3. MaxUpdates \in Nat /\ 0 \in Value
  BY ConfigUpdateAssumption, ValueFacts
<1>4. cleared = [saving |-> FALSE, saved |-> FALSE, errors |-> FALSE]
  BY DEF cleared
<1>5. config \in [Name -> Value] /\ \A n \in Name : config[n] = 0
  BY <1>1, <1>3
<1>6. Typed
  <2>1. slice \in [saving: BOOLEAN, saved: BOOLEAN, errors: BOOLEAN]
    BY <1>1, <1>4
  <2>2. sagas \in Seq(Saga) /\ Len(sagas) <= MaxUpdates /\ DOMAIN sagas = {}
    BY <1>1, <1>2, <1>3
  <2>3. changes \in Seq(Name) /\ up \in Seq(Request \union {List}) /\ down \in Seq(Message)
    BY <1>1, <1>2
  <2> QED BY <1>1, <1>5, <2>1, <2>2, <2>3 DEF Typed
<1>7. Offline /\ SavingAnswered /\ NoneWaits
  BY <1>1, <1>2, <1>4 DEF Offline, SavingAnswered, NoneWaits
<1>8. ValuesSettled
  BY <1>1, <1>2 DEF ValuesSettled, Settled
<1>9. InTurn
  BY <1>1, <1>2, <1>5 DEF InTurn
<1> QED BY <1>6, <1>7, <1>8, <1>9 DEF IInv

\* A form is submitted.
LEMMA SubmitKeeps ==
  ASSUME IInv, Submit
  PROVE  IInv'
<1>1. Typed /\ Offline /\ ValuesSettled /\ NoneWaits /\ InTurn
  BY DEF IInv
<1>2. /\ sagas \in Seq(Saga) /\ up \in Seq(Request \union {List})
      /\ Len(sagas) \in Nat /\ DOMAIN sagas = 1 .. Len(sagas)
  BY <1>1 DEF Typed
<1>3. /\ open /\ Len(sagas) < MaxUpdates
      /\ slice' = [slice EXCEPT !.saving = TRUE, !.saved = FALSE]
      /\ overlapped' = (overlapped \/ ~Quiet)
      /\ UNCHANGED <<config, changes, open, down, items, refused, others, drops>>
  BY DEF Submit
<1>4. PICK form \in Forms :
        LET saga == [params |-> form, sent |-> 1, done |-> FALSE] IN
        /\ sagas' = Append(sagas, saga)
        /\ up' = up \o Requests(Len(sagas'), saga)
  BY DEF Submit
<1> DEFINE saga == [params |-> form, sent |-> 1, done |-> FALSE]
           r == [u |-> Len(sagas) + 1, name |-> form[1]]
<1>5. form \in Seq(Name) /\ 1 \in 1 .. Len(form) /\ form[1] \in Name
  BY FormFacts
<1>6. saga \in Saga /\ saga.sent = 1 /\ saga.params = form
  BY DEF Saga
<1>7. sagas' = Append(sagas, saga) /\ Len(sagas') = Len(sagas) + 1
  BY <1>2, <1>4
<1>8. up' = up \o <<r>>
  BY <1>4, <1>7 DEF Requests
<1>9. Len(sagas) + 1 \in 1 .. MaxUpdates /\ Len(sagas') <= MaxUpdates
  BY <1>2, <1>3, <1>7, ConfigUpdateAssumption
<1>10. r \in Request /\ r # List /\ r.u = Len(sagas')
  <2>1. r \in Request
    BY <1>5, <1>9 DEF Request
  <2> QED BY <2>1, <1>7, RequestFacts
<1> HIDE DEF saga, r
<1>11. /\ sagas' \in Seq(Saga) /\ DOMAIN sagas' = 1 .. Len(sagas) + 1
       /\ \A u \in DOMAIN sagas : sagas'[u] = sagas[u]
       /\ sagas'[Len(sagas) + 1] = saga
  BY <1>2, <1>6, <1>7, AppendFacts
<1>12. /\ up' \in Seq(Request \union {List})
       /\ \A i \in DOMAIN up : i \in DOMAIN up' /\ up'[i] = up[i]
       /\ \E i \in DOMAIN up' : up'[i] = r
       /\ \A i \in DOMAIN up' : (i \in DOMAIN up /\ up'[i] = up[i]) \/ up'[i] = r
  <2> DEFINE S == Request \union {List}
  <2>1. up \in Seq(S) /\ r \in S
    BY <1>2, <1>10
  <2> HIDE DEF S
  <2>2. up' = Append(up, r)
    BY <1>8, <2>1
  <2>3. /\ up' \in Seq(S) /\ DOMAIN up = 1 .. Len(up) /\ Len(up) \in Nat
        /\ DOMAIN up' = 1 .. Len(up) + 1 /\ up'[Len(up) + 1] = r
        /\ \A i \in 1 .. Len(up) : up'[i] = up[i]
    BY <2>1, <2>2, AppendFacts
  <2>4. Len(up) + 1 \in DOMAIN up' /\ \A i \in DOMAIN up' : i \in DOMAIN up \/ i = Len(up) + 1
    BY <2>3
  <2>5. \A i \in DOMAIN up : i \in DOMAIN up' /\ up'[i] = up[i]
    BY <2>3
  <2> QED BY <2>3, <2>4, <2>5 DEF S
<1>13. \A u \in DOMAIN sagas' : sagas'[u].sent \in 1 .. Len(sagas'[u].params)
  <2>1. \A u \in DOMAIN sagas : sagas[u].sent \in 1 .. Len(sagas[u].params)
    BY <1>1 DEF Typed
  <2>2. \A u \in DOMAIN sagas' : u \in DOMAIN sagas \/ u = Len(sagas) + 1
    BY <1>2, <1>11
  <2> QED BY <2>1, <2>2, <1>5, <1>6, <1>11
<1>14. Typed'
  <2>1. slice' \in [saving: BOOLEAN, saved: BOOLEAN, errors: BOOLEAN]
    BY <1>1, <1>3 DEF Typed
  <2>2. overlapped' \in BOOLEAN
    BY <1>1, <1>3 DEF Typed, Quiet
  <2> QED BY <1>1, <1>3, <1>9, <1>11, <1>12, <1>13, <2>1, <2>2 DEF Typed
<1>15. Offline'
  BY <1>1, <1>3 DEF Offline
<1>16. \E i \in DOMAIN up' : up'[i] # List
  BY <1>10, <1>12
<1>17. SavingAnswered' /\ NoneWaits'
  BY <1>16 DEF SavingAnswered, NoneWaits, Moves
<1>18. ValuesSettled'
  BY <1>1, <1>3, ValuesSame
<1>19. InTurn'
  <2> SUFFICES ASSUME ~refused', ~overlapped', drops' = 0
               PROVE  /\ \A u \in DOMAIN sagas' : u < Len(sagas') => sagas'[u].done
                      /\ \A i \in DOMAIN up' : up'[i] # List => up'[i].u = Len(sagas')
                      /\ \A n \in Name : config'[n] = Other \/ config'[n] <= Len(sagas')
    BY DEF InTurn
  <2>1. ~refused /\ ~overlapped /\ drops = 0 /\ Quiet
    BY <1>3
  <2>2. up = <<>> /\ down = <<>> /\ changes = <<>> /\ DOMAIN up = {} /\ DOMAIN down = {}
    BY <2>1 DEF Quiet
  <2>3. \A u \in DOMAIN sagas : sagas[u].done
    BY <1>1, <2>1, <2>2 DEF NoneWaits, Moves
  <2>4. \A u \in DOMAIN sagas' : u < Len(sagas') => u \in DOMAIN sagas
    BY <1>2, <1>7, <1>11
  <2>5. \A n \in Name : config[n] = Other \/ config[n] <= Len(sagas)
    BY <1>1, <2>1 DEF InTurn
  <2>6. \A n \in Name : config[n] \in Nat
    BY <1>1, ConfigUpdateAssumption DEF Typed, Value, Other
  <2>7. \A n \in Name : config[n] = Other \/ config[n] <= Len(sagas')
    BY <1>2, <1>7, <2>5, <2>6
  <2>8. \A u \in DOMAIN sagas' : u < Len(sagas') => sagas'[u].done
    BY <1>11, <2>3, <2>4
  <2>9. \A i \in DOMAIN up' : up'[i] # List => up'[i].u = Len(sagas')
    BY <1>10, <1>12, <2>2
  <2> QED BY <1>3, <2>7, <2>8, <2>9
<1> QED BY <1>14, <1>15, <1>17, <1>18, <1>19 DEF IInv

\* The form is left.
LEMMA cleanupKeeps ==
  ASSUME IInv, cleanup
  PROVE  IInv'
<1>1. Typed /\ Offline /\ SavingAnswered /\ ValuesSettled /\ NoneWaits /\ InTurn
  BY DEF IInv
<1>2. slice' = cleared /\ cleared = [saving |-> FALSE, saved |-> FALSE, errors |-> FALSE]
  BY DEF cleanup, cleared
<1>3. UNCHANGED <<config, changes, open, up, down, items, sagas, refused, overlapped, drops>>
  BY DEF cleanup, history
<1>4. Typed'
  BY <1>1, <1>2, <1>3 DEF Typed
<1>5. Offline' /\ SavingAnswered'
  BY <1>1, <1>2, <1>3 DEF Offline, SavingAnswered
<1>6. ValuesSettled'
  BY <1>1, <1>3, ValuesSame
<1>7. NoneWaits'
  BY <1>1, <1>3 DEF NoneWaits, Moves
<1>8. InTurn'
  BY <1>1, <1>3 DEF InTurn
<1> QED BY <1>4, <1>5, <1>6, <1>7, <1>8 DEF IInv

\* The connection is lost.
LEMMA CloseKeeps ==
  ASSUME IInv, Close
  PROVE  IInv'
<1>1. Typed /\ Offline
  BY DEF IInv
<1>2. /\ drops' = drops + 1 /\ open' = FALSE /\ up' = <<>> /\ down' = <<>>
      /\ items' = NotLoaded /\ slice' = cleared
      /\ cleared = [saving |-> FALSE, saved |-> FALSE, errors |-> FALSE]
      /\ UNCHANGED <<config, changes, sagas, refused, overlapped>>
  BY DEF Close, Closed, cleared, history
<1>3. drops' \in Nat /\ drops' # 0
  BY <1>1, <1>2 DEF Typed
<1>4. Typed'
  <2>1. <<>> \in Seq(Request \union {List}) /\ <<>> \in Seq(Message)
    OBVIOUS
  <2> QED BY <1>1, <1>2, <1>3, <2>1 DEF Typed
<1>5. Offline' /\ SavingAnswered'
  BY <1>2, <1>3 DEF Offline, SavingAnswered
<1>6. ValuesSettled'
  BY <1>2 DEF ValuesSettled
<1>7. NoneWaits' /\ InTurn'
  BY <1>3 DEF NoneWaits, InTurn
<1> QED BY <1>4, <1>5, <1>6, <1>7 DEF IInv

\* It is there again, and the list is asked for.
LEMMA OpenKeeps ==
  ASSUME IInv, Open
  PROVE  IInv'
<1>1. Typed /\ Offline /\ SavingAnswered /\ ValuesSettled /\ NoneWaits /\ InTurn
  BY DEF IInv
<1>2. /\ ~open /\ open' = TRUE /\ up' = Append(up, List)
      /\ UNCHANGED <<config, changes, down, slice, items, sagas, refused, overlapped, drops>>
  BY DEF Open, history
<1>3. up \in Seq(Request \union {List}) /\ drops # 0
  BY <1>1, <1>2 DEF Typed, Offline
<1>4. /\ up' \in Seq(Request \union {List})
      /\ \A i \in DOMAIN up : i \in DOMAIN up' /\ up'[i] = up[i]
  BY <1>2, <1>3, AppendFacts
<1>5. Typed'
  BY <1>1, <1>2, <1>4 DEF Typed
<1>6. Offline' /\ SavingAnswered'
  BY <1>1, <1>2, <1>4 DEF Offline, SavingAnswered
<1>7. ValuesSettled'
  BY <1>1, <1>2, ValuesSame
<1>8. NoneWaits' /\ InTurn'
  BY <1>2, <1>3 DEF NoneWaits, InTurn
<1> QED BY <1>5, <1>6, <1>7, <1>8 DEF IInv

\* The values that are shown stay settled when a message is taken, whatever it is.
LEMMA ValuesByTake ==
  ASSUME Typed, ValuesSettled, down # <<>>, down' = Tail(down),
         config' = config, changes' = changes,
         items' # NotLoaded => \A n \in Name :
           \/ ~Carries(Head(down), n) /\ items # NotLoaded /\ items'[n] = items[n]
           \/ Carries(Head(down), n) /\ items'[n] = Brings(Head(down), n)
  PROVE  ValuesSettled'
<1>1. /\ DOMAIN down = 1 .. Len(down) /\ Len(down) \in Nat /\ 1 \in DOMAIN down
      /\ DOMAIN down' = 1 .. Len(down) - 1 /\ Head(down) = down[1]
      /\ \A i \in 1 .. Len(down) - 1 : down'[i] = down[i + 1]
  <2>1. down \in Seq(Message)
    BY DEF Typed
  <2> QED BY <2>1, TailFacts
<1>2. ASSUME items' # NotLoaded, NEW n \in Name
      PROVE  \A v : v = items'[n] => Settled(n, v, 0)'
  <2>1. CASE ~Carries(Head(down), n) /\ items # NotLoaded /\ items'[n] = items[n]
    <3>1. Settled(n, items[n], 0)
      BY <2>1 DEF ValuesSettled
    <3> DEFINE w == items[n]
    <3> HIDE DEF w
    <3>2. \A v : v = items[n] => Settled(n, v, IF 0 = 0 THEN 0 ELSE 0 - 1)'
      <4> TAKE v
      <4> HAVE v = items[n]
      <4>1. Settled(n, v, 0)
        BY <3>1
      <4> QED BY <4>1, <2>1, SettledByTake
    <3> QED BY <2>1, <3>2
  <2>2. CASE Carries(Head(down), n) /\ items'[n] = Brings(Head(down), n)
    <3>1. Settled(n, Brings(down[1], n), 1)
      BY <1>1, <2>2 DEF ValuesSettled
    <3> TAKE v
    <3> HAVE v = items'[n]
    <3>2. Settled(n, v, 1)
      BY <1>1, <2>2, <3>1
    <3>3. Settled(n, v, IF 1 = 0 THEN 0 ELSE 1 - 1)'
      BY <3>2, SettledByTake
    <3> QED BY <3>3
  <2> QED BY <1>2, <2>1, <2>2
<1>3. ASSUME NEW p \in DOMAIN down', NEW n \in Name, Carries(down'[p], n)
      PROVE  \A v : v = Brings(down'[p], n) => Settled(n, v, p)'
  <2>1. /\ p + 1 \in DOMAIN down /\ p + 1 \in Nat /\ p + 1 # 0
        /\ (IF p + 1 = 0 THEN 0 ELSE (p + 1) - 1) = p
        /\ down'[p] = down[p + 1]
    BY <1>1
  <2>2. Settled(n, Brings(down[p + 1], n), p + 1)
    BY <1>3, <2>1 DEF ValuesSettled
  <2> TAKE v
  <2> HAVE v = Brings(down'[p], n)
  <2>3. Settled(n, v, p + 1)
    BY <2>1, <2>2
  <2>4. Settled(n, v, IF p + 1 = 0 THEN 0 ELSE (p + 1) - 1)'
    BY <2>1, <2>3, SettledByTake
  <2> QED BY <2>1, <2>4
<1> QED BY <1>2, <1>3 DEF ValuesSettled, Settled, Carries, Brings

\* A message is handled.
LEMMA handleMessageKeeps ==
  ASSUME IInv, handleMessage
  PROVE  IInv'
<1>1. Typed /\ Offline /\ SavingAnswered /\ ValuesSettled /\ NoneWaits /\ InTurn
  BY DEF IInv
<1>2. /\ down # <<>> /\ down' = Tail(down)
      /\ UNCHANGED <<config, changes, open, refused, overlapped, drops>>
  BY DEF handleMessage, history
<1>3. /\ down' \in Seq(Message) /\ Head(down) \in Message /\ Head(down) = down[1]
      /\ DOMAIN down = 1 .. Len(down) /\ Len(down) \in Nat
      /\ DOMAIN down' = 1 .. Len(down) - 1
      /\ \A i \in 1 .. Len(down) - 1 : down'[i] = down[i + 1]
  <2>1. down \in Seq(Message)
    BY <1>1 DEF Typed
  <2> QED BY <1>2, <2>1, TailFacts
<1>4. \A q \in DOMAIN down : down[q] # Head(down) => q - 1 \in DOMAIN down' /\ down'[q - 1] = down[q]
  BY <1>3
<1>5. open
  BY <1>1, <1>2 DEF Offline
<1>6. Offline'
  BY <1>2, <1>5 DEF Offline
<1> DEFINE m == Head(down)
<1>7. \/ m.type = "success" /\ updateSuccess /\ UNCHANGED <<up, items, sagas>>
      \/ m.type = "error" /\ updateError /\ UNCHANGED <<up, items, sagas>>
      \/ m.type = "list" /\ fetchSuccess(m.values) /\ UNCHANGED <<up, slice, sagas>>
      \/ m.type = "notify" /\ updateNotify(m.name, m.value) /\ Resume /\ UNCHANGED slice
  BY DEF handleMessage
<1>8. /\ m.type = "list" => m.values \in [Name -> Value]
      /\ m.type = "notify" => m.name \in Name /\ m.value \in Value
  BY <1>3, MessageFacts
<1> HIDE DEF m
\* What a step does that leaves requests and runs alone.
<1>9. ASSUME UNCHANGED <<up, sagas>>, m.type # "notify" PROVE NoneWaits' /\ InTurn'
  <2>1. InTurn'
    BY <1>1, <1>2, <1>9 DEF InTurn
  <2>2. \A q \in DOMAIN down : down[q].type = "notify" => q - 1 \in DOMAIN down' /\ down'[q - 1] = down[q]
    BY <1>4, <1>9 DEF m
  <2>3. Moves => Moves'
    BY <1>2, <1>9, <2>2 DEF Moves
  <2>4. NoneWaits'
    BY <1>1, <1>2, <1>9, <2>3 DEF NoneWaits
  <2> QED BY <2>1, <2>4
<1>10. CASE \/ m.type = "success" /\ updateSuccess /\ UNCHANGED <<up, items, sagas>>
            \/ m.type = "error" /\ updateError /\ UNCHANGED <<up, items, sagas>>
  <2>1. /\ slice' \in [saving: BOOLEAN, saved: BOOLEAN, errors: BOOLEAN] /\ ~slice'.saving
        /\ UNCHANGED <<up, items, sagas>> /\ m.type \notin {"notify", "list"}
    <3>1. slice \in [saving: BOOLEAN, saved: BOOLEAN, errors: BOOLEAN]
      BY <1>1 DEF Typed
    <3>2. CASE m.type = "success" /\ updateSuccess /\ UNCHANGED <<up, items, sagas>>
      BY <3>2 DEF updateSuccess
    <3>3. CASE m.type = "error" /\ updateError /\ UNCHANGED <<up, items, sagas>>
      BY <3>1, <3>3 DEF updateError
    <3> QED BY <1>10, <3>2, <3>3
  <2>2. Typed'
    BY <1>1, <1>2, <1>3, <2>1 DEF Typed
  <2>3. SavingAnswered'
    BY <2>1 DEF SavingAnswered
  <2>4. ValuesSettled'
    <3>1. \A n \in Name : ~Carries(Head(down), n)
      BY <2>1 DEF Carries, m
    <3> QED BY <1>1, <1>2, <2>1, <3>1, ValuesByTake
  <2> QED BY <1>6, <1>9, <2>1, <2>2, <2>3, <2>4 DEF IInv
<1>11. ASSUME m.type \in {"list", "notify"}, slice' = slice,
              \A i \in DOMAIN up : i \in DOMAIN up' /\ up'[i] = up[i]
       PROVE  SavingAnswered'
  <2>1. \A q \in DOMAIN down : down[q].type \in {"success", "error"} =>
          q - 1 \in DOMAIN down' /\ down'[q - 1] = down[q]
    BY <1>4, <1>11 DEF m
  <2> QED BY <1>1, <1>11, <2>1 DEF SavingAnswered
<1>12. CASE m.type = "list" /\ fetchSuccess(m.values) /\ UNCHANGED <<up, slice, sagas>>
  <2>1. items' = m.values /\ items' \in [Name -> Value]
    BY <1>8, <1>12 DEF fetchSuccess
  <2>2. Typed'
    BY <1>1, <1>2, <1>3, <1>12, <2>1 DEF Typed
  <2>3. SavingAnswered'
    BY <1>11, <1>12
  <2>4. ValuesSettled'
    <3>1. \A n \in Name : Carries(Head(down), n) /\ items'[n] = Brings(Head(down), n)
      BY <1>12, <2>1 DEF Carries, Brings, m
    <3> QED BY <1>1, <1>2, <3>1, ValuesByTake
  <2> QED BY <1>6, <1>9, <1>12, <2>2, <2>3, <2>4 DEF IInv
<1>13. CASE m.type = "notify" /\ updateNotify(m.name, m.value) /\ Resume /\ UNCHANGED slice
  <2>1. /\ sagas' \in Seq(Saga) /\ Len(sagas') = Len(sagas)
        /\ DOMAIN sagas' = DOMAIN sagas
        /\ \A u \in DOMAIN sagas' : sagas'[u].sent \in 1 .. Len(sagas'[u].params)
        /\ \A u \in DOMAIN sagas : sagas[u].done => sagas'[u].done
        /\ up' \in Seq(Request \union {List})
        /\ \A i \in DOMAIN up : i \in DOMAIN up' /\ up'[i] = up[i]
        /\ \A i \in DOMAIN up' :
             \/ i \in DOMAIN up /\ up'[i] = up[i]
             \/ up'[i] # List /\ \E u \in DOMAIN sagas : ~sagas[u].done /\ up'[i].u = u
        /\ \A u \in DOMAIN sagas : ~sagas'[u].done => \E i \in DOMAIN up' : up'[i] # List
    BY <1>1, <1>13, ResumeFacts
  <2>2. /\ items' = IF items = NotLoaded THEN items ELSE [items EXCEPT ![m.name] = m.value]
        /\ items = NotLoaded \/ items \in [Name -> Value]
    BY <1>1, <1>13 DEF updateNotify, Typed
  <2>3. items' = NotLoaded \/ items' \in [Name -> Value]
    BY <1>8, <1>13, <2>2
  <2>4. Typed'
    BY <1>1, <1>2, <1>3, <1>13, <2>1, <2>3 DEF Typed
  <2>5. SavingAnswered'
    BY <1>11, <1>13, <2>1
  <2>6. ValuesSettled'
    <3>1. ASSUME items' # NotLoaded, NEW n \in Name
          PROVE  \/ ~Carries(Head(down), n) /\ items # NotLoaded /\ items'[n] = items[n]
                 \/ Carries(Head(down), n) /\ items'[n] = Brings(Head(down), n)
      <4>1. items # NotLoaded /\ items' = [items EXCEPT ![m.name] = m.value] /\ DOMAIN items = Name
        BY <2>2, <3>1
      <4>2. CASE m.name = n
        BY <1>13, <4>1, <4>2 DEF Carries, Brings, m
      <4>3. CASE m.name # n
        BY <1>13, <4>1, <4>3 DEF Carries, m
      <4> QED BY <4>2, <4>3
    <3> QED BY <1>1, <1>2, <3>1, ValuesByTake
  <2>7. NoneWaits'
    BY <2>1 DEF NoneWaits, Moves
  <2>8. InTurn'
    <3> SUFFICES ASSUME ~refused', ~overlapped', drops' = 0
                 PROVE  /\ \A u \in DOMAIN sagas' : u < Len(sagas') => sagas'[u].done
                        /\ \A i \in DOMAIN up' : up'[i] # List => up'[i].u = Len(sagas')
                        /\ \A n \in Name : config'[n] = Other \/ config'[n] <= Len(sagas')
      BY DEF InTurn
    <3>1. /\ \A u \in DOMAIN sagas : u < Len(sagas) => sagas[u].done
          /\ \A i \in DOMAIN up : up[i] # List => up[i].u = Len(sagas)
          /\ \A n \in Name : config[n] = Other \/ config[n] <= Len(sagas)
      BY <1>1, <1>2 DEF InTurn
    <3>2. \A u \in DOMAIN sagas : ~sagas[u].done => u = Len(sagas)
      <4>1. DOMAIN sagas = 1 .. Len(sagas) /\ Len(sagas) \in Nat
        BY <1>1 DEF Typed
      <4> QED BY <3>1, <4>1
    <3>3. \A i \in DOMAIN up' : up'[i] # List => up'[i].u = Len(sagas')
      BY <2>1, <3>1, <3>2
    <3>4. \A u \in DOMAIN sagas' : u < Len(sagas') => sagas'[u].done
      BY <2>1, <3>1
    <3> QED BY <1>2, <2>1, <3>1, <3>3, <3>4
  <2> QED BY <1>6, <2>4, <2>5, <2>6, <2>7, <2>8 DEF IInv
<1> QED BY <1>7, <1>10, <1>12, <1>13

\* The region handles a request.
LEMMA RegionHandlesKeeps ==
  ASSUME IInv, RegionHandles
  PROVE  IInv'
<1>1. Typed /\ Offline /\ SavingAnswered /\ ValuesSettled /\ NoneWaits /\ InTurn
  BY DEF IInv
<1>2. /\ open /\ up # <<>> /\ up' = Tail(up)
      /\ UNCHANGED <<open, slice, items, sagas, overlapped, drops>>
  BY DEF RegionHandles
<1>3. /\ up' \in Seq(Request \union {List})
      /\ DOMAIN up = 1 .. Len(up) /\ Len(up) \in Nat /\ 1 \in DOMAIN up
      /\ DOMAIN up' = 1 .. Len(up) - 1
      /\ \A i \in 1 .. Len(up) - 1 : up'[i] = up[i + 1]
      /\ Head(up) = up[1] /\ Head(up) \in Request \union {List}
  <2> DEFINE S == Request \union {List}
  <2>1. up \in Seq(S)
    BY <1>1 DEF Typed
  <2> HIDE DEF S
  <2>2. /\ up' \in Seq(S)
        /\ DOMAIN up = 1 .. Len(up) /\ Len(up) \in Nat /\ 1 \in DOMAIN up
        /\ DOMAIN up' = 1 .. Len(up) - 1
        /\ \A i \in 1 .. Len(up) - 1 : up'[i] = up[i + 1]
        /\ Head(up) = up[1] /\ Head(up) \in S
    BY <1>2, <2>1, TailFacts
  <2> QED BY <2>2 DEF S
<1> DEFINE r == Head(up)
<1>4. r # List => r \in Request /\ r.u \in 1 .. MaxUpdates /\ r.name \in Name
  BY <1>3, RequestFacts
<1>5. /\ down \in Seq(Message) /\ DOMAIN down = 1 .. Len(down) /\ Len(down) \in Nat
      /\ config \in [Name -> Value] /\ changes \in Seq(Name)
  BY <1>1 DEF Typed
<1>6. \A i \in DOMAIN up : up[i] # r => i - 1 \in DOMAIN up' /\ up'[i - 1] = up[i]
  BY <1>3
<1>7. \A i \in DOMAIN up' : \E j \in DOMAIN up : up'[i] = up[j]
  BY <1>3
<1>8. Offline'
  BY <1>1, <1>2 DEF Offline
<1>9. \/ /\ r = List
         /\ down' = Append(down, [type |-> "list", values |-> config])
         /\ UNCHANGED <<config, changes, refused>>
      \/ /\ r # List
         /\ down' = Append(down, [type |-> "error", u |-> r.u])
         /\ refused' = TRUE
         /\ UNCHANGED <<config, changes>>
      \/ /\ r # List
         /\ config' = [config EXCEPT ![r.name] = r.u]
         /\ \/ /\ down' = Append(down, [type |-> "success", u |-> r.u])
               /\ changes' = Append(changes, r.name)
            \/ /\ changes = <<>>
               /\ down' = down \o <<Notification(r.name, r.u), [type |-> "success", u |-> r.u]>>
               /\ UNCHANGED changes
         /\ UNCHANGED refused
  BY DEF RegionHandles
<1>10. ~refused /\ ~overlapped /\ drops = 0 =>
         \A i \in DOMAIN up : up[i] # List => up[i].u = Len(sagas)
  BY <1>1 DEF InTurn
<1> HIDE DEF r
\* What the rest of the settings needs for the updates to stay in turn.
<1>11. ASSUME \A n \in Name : config'[n] \in {config[n], Other, Len(sagas)},
              refused' = refused
       PROVE  InTurn'
  <2> SUFFICES ASSUME ~refused', ~overlapped', drops' = 0
               PROVE  /\ \A u \in DOMAIN sagas' : u < Len(sagas') => sagas'[u].done
                      /\ \A i \in DOMAIN up' : up'[i] # List => up'[i].u = Len(sagas')
                      /\ \A n \in Name : config'[n] = Other \/ config'[n] <= Len(sagas')
    BY DEF InTurn
  <2>1. Len(sagas) \in Nat
    BY <1>1 DEF Typed
  <2>2. /\ \A u \in DOMAIN sagas : u < Len(sagas) => sagas[u].done
        /\ \A n \in Name : config[n] = Other \/ config[n] <= Len(sagas)
    BY <1>1, <1>2, <1>11 DEF InTurn
  <2>3. \A i \in DOMAIN up' : up'[i] # List => up'[i].u = Len(sagas')
    BY <1>2, <1>7, <1>10, <1>11
  <2> QED BY <1>2, <1>11, <2>1, <2>2, <2>3
\* A reply, or the list, is put behind the messages on their way.
<1>12. ASSUME NEW m \in Message, down' = Append(down, m)
       PROVE  /\ down' \in Seq(Message)
              /\ \A q \in DOMAIN down : q \in DOMAIN down' /\ down'[q] = down[q]
              /\ \A q \in DOMAIN down' \ DOMAIN down : down'[q] = m
              /\ \E q \in DOMAIN down' : down'[q] = m
  <2>1. /\ DOMAIN Append(down, m) = 1 .. Len(down) + 1
        /\ \A i \in 1 .. Len(down) : Append(down, m)[i] = down[i]
        /\ Append(down, m)[Len(down) + 1] = m
        /\ Append(down, m) \in Seq(Message)
    BY <1>5, <1>12, AppendFacts
  <2>2. /\ down' \in Seq(Message) /\ DOMAIN down' = 1 .. Len(down) + 1
        /\ \A i \in 1 .. Len(down) : down'[i] = down[i]
        /\ down'[Len(down) + 1] = m
    BY <1>12, <2>1
  <2> QED BY <1>5, <2>2
<1>13. CASE /\ r = List
            /\ down' = Append(down, [type |-> "list", values |-> config])
            /\ UNCHANGED <<config, changes, refused>>
  <2> DEFINE m == [type |-> "list", values |-> config]
  <2>1. m \in Message /\ m.type = "list" /\ m.values = config
    BY <1>5 DEF Message, ListMessage
  <2> HIDE DEF m
  <2>2. /\ down' \in Seq(Message)
        /\ \A q \in DOMAIN down : q \in DOMAIN down' /\ down'[q] = down[q]
        /\ \A q \in DOMAIN down' \ DOMAIN down : down'[q] = m
    <3>1. down' = Append(down, m)
      BY <1>13 DEF m
    <3> QED BY <1>12, <2>1, <3>1
  <2>3. Typed'
    BY <1>1, <1>2, <1>3, <1>13, <2>2 DEF Typed
  <2>4. \A i \in DOMAIN up : up[i] # List => i - 1 \in DOMAIN up' /\ up'[i - 1] = up[i]
    BY <1>6, <1>13
  <2>5. SavingAnswered'
    BY <1>1, <1>2, <2>2, <2>4 DEF SavingAnswered
  <2>6. ValuesSettled'
    <3>1. \A n \in Name : \A v : \A p \in {0} \union DOMAIN down : Settled(n, v, p) => Settled(n, v, p)'
      BY <1>13, <2>2, SettledKept
    <3>2. \A p \in DOMAIN down' \ DOMAIN down : \A n \in Name :
            Carries(down'[p], n) => \A v : v = Brings(down'[p], n) => Settled(n, v, p)'
      BY <1>13, <2>1, <2>2 DEF Brings, Settled
    <3> QED BY <1>1, <1>2, <2>2, <3>1, <3>2, ValuesGrow
  <2>7. Moves => Moves'
    BY <1>13, <2>2, <2>4 DEF Moves
  <2>8. NoneWaits'
    BY <1>1, <1>2, <1>13, <2>7 DEF NoneWaits
  <2>9. InTurn'
    BY <1>11, <1>13
  <2> QED BY <1>8, <2>3, <2>5, <2>6, <2>8, <2>9 DEF IInv
<1>14. CASE /\ r # List
            /\ down' = Append(down, [type |-> "error", u |-> r.u])
            /\ refused' = TRUE
            /\ UNCHANGED <<config, changes>>
  <2> DEFINE m == [type |-> "error", u |-> r.u]
  <2>1. m \in Message /\ m.type = "error"
    BY <1>4, <1>14 DEF Message, ReplyMessage
  <2> HIDE DEF m
  <2>2. /\ down' \in Seq(Message)
        /\ \A q \in DOMAIN down : q \in DOMAIN down' /\ down'[q] = down[q]
        /\ \A q \in DOMAIN down' \ DOMAIN down : down'[q] = m
        /\ \E q \in DOMAIN down' : down'[q] = m
    <3>1. down' = Append(down, m)
      BY <1>14 DEF m
    <3> QED BY <1>12, <2>1, <3>1
  <2>3. Typed'
    BY <1>1, <1>2, <1>3, <1>14, <2>2 DEF Typed
  <2>4. SavingAnswered'
    BY <2>1, <2>2 DEF SavingAnswered
  <2>5. ValuesSettled'
    <3>1. \A n \in Name : \A v : \A p \in {0} \union DOMAIN down : Settled(n, v, p) => Settled(n, v, p)'
      BY <1>14, <2>2, SettledKept
    <3>2. \A p \in DOMAIN down' \ DOMAIN down : \A n \in Name : ~Carries(down'[p], n)
      BY <2>1, <2>2 DEF Carries
    <3> QED BY <1>1, <1>2, <2>2, <3>1, <3>2, ValuesGrow
  <2>6. NoneWaits' /\ InTurn'
    BY <1>14 DEF NoneWaits, InTurn
  <2> QED BY <1>8, <2>3, <2>4, <2>5, <2>6 DEF IInv
<1>15. CASE /\ r # List
            /\ config' = [config EXCEPT ![r.name] = r.u]
            /\ \/ /\ down' = Append(down, [type |-> "success", u |-> r.u])
                  /\ changes' = Append(changes, r.name)
               \/ /\ changes = <<>>
                  /\ down' = down \o <<Notification(r.name, r.u), [type |-> "success", u |-> r.u]>>
                  /\ UNCHANGED changes
            /\ UNCHANGED refused
  <2> DEFINE m == [type |-> "success", u |-> r.u]
             w == Notification(r.name, r.u)
  <2>1. m \in Message /\ m.type = "success"
    BY <1>4, <1>15 DEF Message, ReplyMessage
  <2>2. w \in Message /\ w.type = "notify" /\ w.name = r.name /\ w.value = r.u
    BY <1>4, <1>15, ValueFacts DEF Notification, Message, NotifyMessage
  <2> HIDE DEF m, w
  <2>3. /\ config' \in [Name -> Value] /\ config'[r.name] = r.u
        /\ \A n \in Name : n # r.name => config'[n] = config[n]
    BY <1>4, <1>5, <1>15, ValueFacts
  <2>4. InTurn'
    <3>1. CASE ~refused /\ ~overlapped /\ drops = 0
      <4>1. r.u = Len(sagas)
        BY <1>3, <1>10, <1>15, <3>1 DEF r
      <4>2. \A n \in Name : config'[n] \in {config[n], Other, Len(sagas)}
        BY <2>3, <4>1
      <4> QED BY <1>11, <1>15, <4>2
    <3>2. CASE ~(~refused /\ ~overlapped /\ drops = 0)
      BY <1>2, <1>15, <3>2 DEF InTurn
    <3> QED BY <3>1, <3>2
  <2>5. CASE down' = Append(down, m) /\ changes' = Append(changes, r.name)
    <3>1. /\ down' \in Seq(Message)
          /\ \A q \in DOMAIN down : q \in DOMAIN down' /\ down'[q] = down[q]
          /\ \A q \in DOMAIN down' \ DOMAIN down : down'[q] = m
          /\ \E q \in DOMAIN down' : down'[q] = m
      BY <1>12, <2>1, <2>5
    <3>2. /\ changes' \in Seq(Name) /\ changes' # <<>>
          /\ \A i \in DOMAIN changes : i \in DOMAIN changes' /\ changes'[i] = changes[i]
          /\ \E i \in DOMAIN changes' : changes'[i] = r.name
      <4>1. /\ DOMAIN Append(changes, r.name) = 1 .. Len(changes) + 1
            /\ \A i \in 1 .. Len(changes) : Append(changes, r.name)[i] = changes[i]
            /\ Append(changes, r.name)[Len(changes) + 1] = r.name
            /\ DOMAIN changes = 1 .. Len(changes) /\ Len(changes) \in Nat
            /\ Append(changes, r.name) \in Seq(Name)
        BY <1>4, <1>5, <1>15, AppendFacts
      <4>2. Len(changes) + 1 \in DOMAIN changes' /\ changes'[Len(changes) + 1] = r.name
        BY <2>5, <4>1
      <4>3. changes' # <<>>
        BY <4>2
      <4> QED BY <2>5, <4>1, <4>2, <4>3
    <3>3. Typed'
      BY <1>1, <1>2, <1>3, <1>15, <2>3, <3>1, <3>2 DEF Typed
    <3>4. SavingAnswered'
      BY <2>1, <3>1 DEF SavingAnswered
    <3>5. NoneWaits'
      BY <3>2 DEF NoneWaits, Moves
    <3>6. ValuesSettled'
      <4>1. ASSUME NEW n \in Name, NEW v, NEW p, Settled(n, v, p) PROVE Settled(n, v, p)'
        <5>1. CASE n = r.name
          BY <3>2, <5>1 DEF Settled
        <5>2. CASE n # r.name
          BY <2>3, <3>1, <3>2, <4>1, <5>2, SettledKept
        <5> QED BY <5>1, <5>2
      <4>2. \A p \in DOMAIN down' \ DOMAIN down : \A n \in Name : ~Carries(down'[p], n)
        BY <2>1, <3>1 DEF Carries
      <4> QED BY <1>1, <1>2, <3>1, <4>1, <4>2, ValuesGrow
    <3> QED BY <1>8, <2>4, <3>3, <3>4, <3>5, <3>6 DEF IInv
  <2>6. CASE changes = <<>> /\ down' = down \o <<w, m>> /\ UNCHANGED changes
    <3> DEFINE t == <<w, m>>
               k == Len(down)
    <3>1. /\ t \in Seq(Message) /\ Len(t) = 2 /\ t[1] = w /\ t[2] = m
      BY <2>1, <2>2
    <3> HIDE DEF t
    <3>2. down' = down \o t
      BY <2>6 DEF t
    <3>3. /\ down \o t \in Seq(Message) /\ Len(down \o t) = k + 2
          /\ \A i \in 1 .. k + 2 : (down \o t)[i] = IF i <= k THEN down[i] ELSE t[i - k]
      <4>1. /\ down \o t \in Seq(Message) /\ Len(down \o t) = Len(down) + Len(t)
            /\ \A i \in 1 .. Len(down) + Len(t) :
                 (down \o t)[i] = IF i <= Len(down) THEN down[i] ELSE t[i - Len(down)]
        BY <1>5, <3>1, ConcatProperties
      <4> QED BY <3>1, <4>1
    <3>4. DOMAIN (down \o t) = 1 .. k + 2
      BY <3>3
    <3>5. /\ k \in Nat /\ DOMAIN down = 1 .. k
          /\ (k + 1) - k = 1 /\ (k + 2) - k = 2 /\ ~(k + 1 <= k) /\ ~(k + 2 <= k)
          /\ k + 1 \in 1 .. k + 2 /\ k + 2 \in 1 .. k + 2
      BY <1>5
    <3>6. /\ down' \in Seq(Message) /\ DOMAIN down' = 1 .. k + 2
          /\ \A i \in 1 .. k + 2 : down'[i] = IF i <= k THEN down[i] ELSE t[i - k]
      BY <3>2, <3>3, <3>4
    <3>7. down'[k + 1] = w /\ down'[k + 2] = m
      BY <3>1, <3>5, <3>6
    <3> HIDE DEF k
    <3>8. /\ \A q \in DOMAIN down : q \in DOMAIN down' /\ down'[q] = down[q]
          /\ \A q \in DOMAIN down' \ DOMAIN down : q = k + 1 \/ q = k + 2
          /\ k + 1 \in DOMAIN down' /\ k + 2 \in DOMAIN down'
      BY <3>5, <3>6
    <3>9. Typed'
      BY <1>1, <1>2, <1>3, <1>15, <2>3, <2>6, <3>6 DEF Typed
    <3>10. SavingAnswered'
      BY <2>1, <3>7, <3>8 DEF SavingAnswered
    <3>11. NoneWaits'
      BY <2>2, <3>7, <3>8 DEF NoneWaits, Moves
    <3>12. ValuesSettled'
      <4>1. ASSUME NEW n \in Name, NEW v, NEW p \in {0} \union DOMAIN down, Settled(n, v, p)
            PROVE  Settled(n, v, p)'
        <5>1. CASE n = r.name
          <6>1. k + 1 > p
            BY <3>5
          <6>2. Carries(down'[k + 1], n) /\ Brings(down'[k + 1], n) = config'[n]
            BY <2>2, <2>3, <3>7, <5>1 DEF Carries, Brings
          <6> QED BY <3>8, <6>1, <6>2 DEF Settled, Carries, Brings
        <5>2. CASE n # r.name
          BY <2>3, <2>6, <3>8, <4>1, <5>2, SettledKept
        <5> QED BY <5>1, <5>2
      <4>2. ASSUME NEW p \in DOMAIN down' \ DOMAIN down, NEW n \in Name, Carries(down'[p], n)
            PROVE  \A v : v = Brings(down'[p], n) => Settled(n, v, p)'
        <5>1. p = k + 1 /\ n = r.name
          BY <2>1, <2>2, <3>7, <3>8, <4>2 DEF Carries
        <5>2. Brings(down'[p], n) = config'[n]
          BY <2>2, <2>3, <3>7, <5>1 DEF Brings
        <5> QED BY <5>2 DEF Settled
      <4> QED BY <1>1, <1>2, <3>8, <4>1, <4>2, ValuesGrow
    <3> QED BY <1>8, <2>4, <3>9, <3>10, <3>11, <3>12 DEF IInv
  <2> QED BY <1>15, <2>5, <2>6 DEF m, w
<1> QED BY <1>9, <1>13, <1>14, <1>15

\* Another client changes a setting.
LEMMA OtherChangesKeeps ==
  ASSUME IInv, OtherChanges
  PROVE  IInv'
<1>1. Typed /\ Offline /\ SavingAnswered /\ ValuesSettled /\ NoneWaits /\ InTurn
  BY DEF IInv
<1>2. UNCHANGED <<open, up, down, slice, items, sagas, refused, overlapped, drops>>
  BY DEF OtherChanges, history
<1>3. PICK name \in Name :
        config' = [config EXCEPT ![name] = Other] /\ changes' = Append(changes, name)
  BY DEF OtherChanges
<1>4. config \in [Name -> Value] /\ changes \in Seq(Name)
  BY <1>1 DEF Typed
<1>5. /\ config' \in [Name -> Value] /\ config'[name] = Other
      /\ \A n \in Name : n # name => config'[n] = config[n]
  BY <1>3, <1>4, ValueFacts
<1>6. /\ changes' \in Seq(Name) /\ changes' # <<>>
      /\ \A i \in DOMAIN changes : i \in DOMAIN changes' /\ changes'[i] = changes[i]
      /\ \E i \in DOMAIN changes' : changes'[i] = name
  <2>1. /\ DOMAIN Append(changes, name) = 1 .. Len(changes) + 1
        /\ \A i \in 1 .. Len(changes) : Append(changes, name)[i] = changes[i]
        /\ Append(changes, name)[Len(changes) + 1] = name
        /\ DOMAIN changes = 1 .. Len(changes) /\ Len(changes) \in Nat
        /\ Append(changes, name) \in Seq(Name)
    BY <1>4, AppendFacts
  <2>2. Len(changes) + 1 \in DOMAIN changes' /\ changes'[Len(changes) + 1] = name
    BY <1>3, <2>1
  <2>3. changes' # <<>>
    BY <2>2
  <2> QED BY <1>3, <2>1, <2>2, <2>3
<1>7. Typed'
  BY <1>1, <1>2, <1>5, <1>6 DEF Typed
<1>8. Offline' /\ SavingAnswered'
  BY <1>1, <1>2 DEF Offline, SavingAnswered
<1>9. ValuesSettled'
  <2>1. ASSUME NEW n \in Name, NEW v, NEW p, Settled(n, v, p) PROVE Settled(n, v, p)'
    <3>1. CASE n = name
      BY <1>6, <3>1 DEF Settled
    <3>2. CASE n # name
      BY <1>2, <1>5, <1>6, <2>1, <3>2, SettledKept
    <3> QED BY <3>1, <3>2
  <2> QED BY <1>1, <1>2, <2>1, ValuesGrow
<1>10. NoneWaits'
  BY <1>6 DEF NoneWaits, Moves
<1>11. InTurn'
  <2>1. \A n \in Name : config[n] # config'[n] => config'[n] = Other
    BY <1>5
  <2> QED BY <1>1, <1>2, <2>1 DEF InTurn
<1> QED BY <1>7, <1>8, <1>9, <1>10, <1>11 DEF IInv

\* A change is announced.
LEMMA RegionAnnouncesKeeps ==
  ASSUME IInv, RegionAnnounces
  PROVE  IInv'
<1>1. Typed /\ Offline /\ SavingAnswered /\ ValuesSettled /\ NoneWaits /\ InTurn
  BY DEF IInv
<1> DEFINE name == Head(changes)
           m == Notification(name, config[name])
<1>2. /\ changes # <<>> /\ changes' = Tail(changes)
      /\ down' = IF open THEN Append(down, m) ELSE down
      /\ UNCHANGED <<config, open, up, slice, items, sagas, refused, overlapped, drops>>
  BY DEF RegionAnnounces, history
<1>3. /\ config \in [Name -> Value] /\ changes \in Seq(Name) /\ down \in Seq(Message)
      /\ DOMAIN down = 1 .. Len(down) /\ Len(down) \in Nat
  BY <1>1 DEF Typed
<1>4. /\ changes' \in Seq(Name) /\ name \in Name /\ name = changes[1]
      /\ DOMAIN changes = 1 .. Len(changes) /\ Len(changes) \in Nat
      /\ DOMAIN changes' = 1 .. Len(changes) - 1
      /\ \A i \in 1 .. Len(changes) - 1 : changes'[i] = changes[i + 1]
  BY <1>2, <1>3, TailFacts
<1>5. m \in Message /\ m.type = "notify" /\ m.name = name /\ m.value = config[name]
  BY <1>3, <1>4 DEF Notification, Message, NotifyMessage
<1>6. \A i \in DOMAIN changes : changes[i] # name => i - 1 \in DOMAIN changes' /\ changes'[i - 1] = changes[i]
  BY <1>4
<1> HIDE DEF m, name
<1>7. CASE ~open
  <2>1. down' = down /\ down = <<>> /\ items = NotLoaded /\ drops # 0 /\ DOMAIN down = {}
    BY <1>1, <1>2, <1>7 DEF Offline
  <2>2. Typed'
    BY <1>1, <1>2, <1>4, <2>1 DEF Typed
  <2>3. Offline' /\ SavingAnswered' /\ InTurn'
    BY <1>1, <1>2, <2>1 DEF Offline, SavingAnswered, InTurn
  <2>4. ValuesSettled' /\ NoneWaits'
    BY <1>2, <2>1 DEF ValuesSettled, NoneWaits
  <2> QED BY <2>2, <2>3, <2>4 DEF IInv
<1>8. CASE open
  <2>1. /\ down' \in Seq(Message)
        /\ \A q \in DOMAIN down : q \in DOMAIN down' /\ down'[q] = down[q]
        /\ \A q \in DOMAIN down' \ DOMAIN down : down'[q] = m
        /\ Len(down) + 1 \in DOMAIN down' /\ down'[Len(down) + 1] = m
    <3>1. /\ DOMAIN Append(down, m) = 1 .. Len(down) + 1
          /\ \A i \in 1 .. Len(down) : Append(down, m)[i] = down[i]
          /\ Append(down, m)[Len(down) + 1] = m
          /\ Append(down, m) \in Seq(Message)
      BY <1>3, <1>5, AppendFacts
    <3>2. /\ down' \in Seq(Message) /\ DOMAIN down' = 1 .. Len(down) + 1
          /\ \A i \in 1 .. Len(down) : down'[i] = down[i]
          /\ down'[Len(down) + 1] = m
      BY <1>2, <1>8, <3>1
    <3> QED BY <1>3, <3>2
  <2>2. Typed'
    BY <1>1, <1>2, <1>4, <2>1 DEF Typed
  <2>3. Offline'
    BY <1>2, <1>8 DEF Offline
  <2>4. SavingAnswered'
    BY <1>1, <1>2, <2>1 DEF SavingAnswered
  <2>5. ValuesSettled'
    <3>1. ASSUME NEW n \in Name, NEW v, NEW p \in {0} \union DOMAIN down, Settled(n, v, p)
          PROVE  Settled(n, v, p)'
      <4>1. CASE n = name
        <5>1. Len(down) + 1 > p
          BY <1>3
        <5>2. Carries(down'[Len(down) + 1], n) /\ Brings(down'[Len(down) + 1], n) = config'[n]
          BY <1>2, <1>5, <2>1, <4>1 DEF Carries, Brings
        <5> QED BY <2>1, <5>1, <5>2 DEF Settled, Carries, Brings
      <4>2. CASE n # name
        <5>1. \A i \in DOMAIN changes : changes[i] = n => \E j \in DOMAIN changes' : changes'[j] = n
          BY <1>6, <4>2
        <5> QED BY <1>2, <2>1, <3>1, <5>1, SettledKept
      <4> QED BY <4>1, <4>2
    <3>2. ASSUME NEW p \in DOMAIN down' \ DOMAIN down, NEW n \in Name, Carries(down'[p], n)
          PROVE  \A v : v = Brings(down'[p], n) => Settled(n, v, p)'
      <4>1. down'[p] = m /\ n = name
        BY <1>5, <2>1, <3>2 DEF Carries
      <4>2. Brings(down'[p], n) = config'[n]
        BY <1>2, <1>5, <4>1 DEF Brings
      <4> QED BY <4>2 DEF Settled
    <3> QED BY <1>1, <1>2, <2>1, <3>1, <3>2, ValuesGrow
  <2>6. NoneWaits'
    BY <1>5, <2>1 DEF NoneWaits, Moves
  <2>7. InTurn'
    BY <1>1, <1>2 DEF InTurn
  <2> QED BY <2>2, <2>3, <2>4, <2>5, <2>6, <2>7 DEF IInv
<1> QED BY <1>7, <1>8

\* So it holds in every state that the specification reaches.
LEMMA Invariant == Spec => []IInv
<1>1. ASSUME IInv, [Next]_vars PROVE IInv'
  <2>1. CASE UNCHANGED vars
    <3>1. UNCHANGED <<config, changes, open, up, down, slice, items, sagas>>
      BY <2>1 DEF vars
    <3>2. UNCHANGED <<refused, overlapped, drops>>
      BY <2>1 DEF vars, history
    <3>3. Typed /\ Offline /\ SavingAnswered /\ ValuesSettled /\ NoneWaits /\ InTurn
      BY <1>1 DEF IInv
    <3>4. Typed' /\ Offline' /\ SavingAnswered'
      BY <3>1, <3>2, <3>3 DEF Typed, Offline, SavingAnswered
    <3>5. ValuesSettled'
      BY <3>1, <3>3, ValuesSame
    <3>6. NoneWaits' /\ InTurn'
      BY <3>1, <3>2, <3>3 DEF NoneWaits, InTurn, Moves
    <3> QED BY <3>4, <3>5, <3>6 DEF IInv
  <2> QED BY <1>1, <2>1, SubmitKeeps, cleanupKeeps, handleMessageKeeps, CloseKeeps,
             OpenKeeps, RegionHandlesKeeps, OtherChangesKeeps, RegionAnnouncesKeeps
          DEF Next
<1> QED BY InitHolds, <1>1, PTL DEF Spec

-----------------------------------------------------------------------------
(* Theorems.                                                                 *)

\* Settings, messages and runs are what their types say.
THEOREM TypeCorrect == Spec => []TypeOK
<1>1. IInv => TypeOK
  BY DEF IInv, Typed, TypeOK
<1> QED BY Invariant, <1>1, PTL

\* A form that says it is saving has a request on its way whose reply ends that.
THEOREM Answered == Spec => []SavingAnswered
<1>1. IInv => SavingAnswered
  BY DEF IInv
<1> QED BY Invariant, <1>1, PTL

\* Once nothing is on its way, the settings shown are those of the region.
THEOREM InSync == Spec => []ItemsSynced
<1>1. IInv => ItemsSynced
  <2> SUFFICES ASSUME IInv, Quiet, items # NotLoaded PROVE items = config
    BY DEF ItemsSynced
  <2>1. items \in [Name -> Value] /\ config \in [Name -> Value]
    BY DEF IInv, Typed
  <2>2. DOMAIN changes = {} /\ DOMAIN down = {}
    BY DEF Quiet
  <2>3. \A n \in Name : items[n] = config[n]
    BY <2>2 DEF IInv, ValuesSettled, Settled
  <2> QED BY <2>1, <2>3
<1> QED BY Invariant, <1>1, PTL

\* Saves that settle before the next is submitted are written in their order,
\* unless a value was refused or lost on the way.
THEOREM InOrderUnlessRefused == Spec => NeverOlder
<1>1. ASSUME IInv, [Next]_vars
      PROVE  [~refused /\ ~overlapped /\ drops = 0 => Newer]_config
  <2> SUFFICES ASSUME config' # config, ~refused, ~overlapped, drops = 0,
                      NEW n \in Name, config[n] # config'[n],
                      Other \notin {config[n], config'[n]}
               PROVE  config'[n] > config[n]
    BY DEF Newer
  <2>1. /\ \A i \in DOMAIN up : up[i] # List => up[i].u = Len(sagas)
        /\ config[n] <= Len(sagas)
    BY <1>1 DEF IInv, InTurn
  <2>2. /\ config \in [Name -> Value] /\ config[n] \in Nat
        /\ Len(sagas) \in Nat /\ up \in Seq(Request \union {List})
    BY <1>1, ConfigUpdateAssumption DEF IInv, Typed, Value, Other
  <2>3. CASE RegionHandles
    <3>1. /\ up # <<>> /\ Head(up) # List
          /\ config' = [config EXCEPT ![Head(up).name] = Head(up).u]
      BY <2>3 DEF RegionHandles
    <3>2. Head(up) = up[1] /\ 1 \in DOMAIN up
      BY <2>2, <3>1
    <3>3. Head(up).u = Len(sagas)
      BY <2>1, <3>1, <3>2
    <3>4. config'[n] = Len(sagas)
      BY <2>2, <3>1, <3>3
    <3> QED BY <2>1, <2>2, <3>4
  <2>4. CASE OtherChanges
    <3>1. PICK name \in Name : config' = [config EXCEPT ![name] = Other]
      BY <2>4 DEF OtherChanges
    <3> QED BY <2>2, <3>1
  <2>5. ASSUME \/ Submit \/ cleanup \/ handleMessage \/ Close \/ Open
               \/ RegionAnnounces \/ UNCHANGED vars
        PROVE  FALSE
    BY <2>5 DEF Submit, cleanup, handleMessage, Close, Open, RegionAnnounces, vars
  <2> QED BY <1>1, <2>3, <2>4, <2>5 DEF Next
<1> QED BY Invariant, <1>1, PTL DEF Spec, NeverOlder
=============================================================================
