--------------------------- MODULE SessionProofs ---------------------------
(* Proofs about the session: the socket and what the store says of it.       *)
EXTENDS Session, FiniteSetTheorems, SequenceTheorems, TLAPS

-----------------------------------------------------------------------------
(* Sequences.                                                                *)

Has(q, a) == \E i \in 1 .. Len(q) : q[i] = a

\* Every a of the sequence comes before every b.
Before(q, a, b) == \A i, j \in 1 .. Len(q) : q[i] = a /\ q[j] = b => i < j

\* What a sequence of at most two elements has.
LEMMA HasShort ==
  /\ \A a : ~Has(<<>>, a)
  /\ \A a, b : Has(<<a>>, b) <=> a = b
  /\ \A a, b, c : Has(<<a, b>>, c) <=> c \in {a, b}
BY DEF Has

\* What a concatenation has.
LEMMA HasConcat ==
  ASSUME NEW S, NEW s \in Seq(S), NEW t \in Seq(S), NEW a
  PROVE  Has(s \o t, a) <=> Has(s, a) \/ Has(t, a)
<1>1. /\ s \o t \in Seq(S) /\ Len(s \o t) = Len(s) + Len(t)
      /\ Len(s) \in Nat /\ Len(t) \in Nat
      /\ \A i \in 1 .. Len(s) + Len(t) :
           (s \o t)[i] = IF i <= Len(s) THEN s[i] ELSE t[i - Len(s)]
  OBVIOUS
<1>2. ASSUME NEW i \in 1 .. Len(s), s[i] = a PROVE Has(s \o t, a)
  <2>1. i \in 1 .. Len(s \o t) /\ (s \o t)[i] = a
    BY <1>1, <1>2
  <2> QED
    BY <2>1 DEF Has
<1>3. ASSUME NEW i \in 1 .. Len(t), t[i] = a PROVE Has(s \o t, a)
  <2>1. Len(s) + i \in 1 .. Len(s \o t) /\ (s \o t)[Len(s) + i] = a
    BY <1>1, <1>3
  <2> QED
    BY <2>1 DEF Has
<1>4. ASSUME NEW i \in 1 .. Len(s \o t), (s \o t)[i] = a PROVE Has(s, a) \/ Has(t, a)
  <2>1. CASE i <= Len(s)
    BY <1>1, <1>4, <2>1 DEF Has
  <2>2. CASE ~(i <= Len(s))
    <3>1. i - Len(s) \in 1 .. Len(t) /\ t[i - Len(s)] = a
      BY <1>1, <1>4, <2>2
    <3> QED
      BY <3>1 DEF Has
  <2> QED
    BY <2>1, <2>2
<1> QED
  BY <1>2, <1>3, <1>4 DEF Has

\* What a concatenation of three has.
LEMMA HasConcat3 ==
  ASSUME NEW S, NEW s \in Seq(S), NEW t \in Seq(S), NEW u \in Seq(S), NEW a
  PROVE  Has((s \o t) \o u, a) <=> Has(s, a) \/ Has(t, a) \/ Has(u, a)
<1>1. s \o t \in Seq(S)
  OBVIOUS
<1>3. Has((s \o t) \o u, a) <=> Has(s \o t, a) \/ Has(u, a)
  BY Zenon, <1>1, HasConcat
<1>4. Has(s \o t, a) <=> Has(s, a) \/ Has(t, a)
  BY HasConcat
<1> QED
  BY <1>3, <1>4

\* An empty sequence has nothing.
LEMMA HasEmpty ==
  ASSUME NEW q, q = <<>> \/ Len(q) = 0, NEW a
  PROVE  ~Has(q, a)
<1>1. Len(q) = 0
  OBVIOUS
<1>2. \A i \in 1 .. 0 : FALSE
  OBVIOUS
<1> QED
  BY <1>1, <1>2 DEF Has

\* A sequence has its head and what its tail has.
LEMMA HasTail ==
  ASSUME NEW S, NEW q \in Seq(S), q # <<>>, NEW a
  PROVE  /\ Tail(q) \in Seq(S) /\ Head(q) \in S
         /\ Has(q, a) <=> Head(q) = a \/ Has(Tail(q), a)
<1>1. /\ Tail(q) \in Seq(S) /\ Head(q) = q[1] /\ Head(q) \in S /\ Len(q) \in Nat /\ Len(q) >= 1
      /\ Len(Tail(q)) = Len(q) - 1
      /\ \A i \in 1 .. Len(q) - 1 : Tail(q)[i] = q[i + 1]
  OBVIOUS
<1>2. ASSUME NEW i \in 1 .. Len(q), q[i] = a PROVE Head(q) = a \/ Has(Tail(q), a)
  <2>1. CASE i = 1
    BY <1>1, <1>2, <2>1
  <2>2. CASE i # 1
    <3>1. i - 1 \in 1 .. Len(Tail(q)) /\ Tail(q)[i - 1] = a
      BY <1>1, <1>2, <2>2
    <3> QED
      BY Zenon, <3>1 DEF Has
  <2> QED
    BY <2>1, <2>2
<1>3. ASSUME NEW i \in 1 .. Len(Tail(q)), Tail(q)[i] = a PROVE Has(q, a)
  <2>1. i + 1 \in 1 .. Len(q) /\ q[i + 1] = a
    BY <1>1, <1>3
  <2> QED
    BY <2>1 DEF Has
<1>4. Head(q) = a => Has(q, a)
  BY <1>1 DEF Has
<1> QED
  BY <1>1, <1>2, <1>3, <1>4 DEF Has

\* What a sequence has is an element of its type.
LEMMA HasIn ==
  ASSUME NEW S, NEW q \in Seq(S), NEW a, Has(q, a)
  PROVE  a \in S
BY DEF Has

\* The order outlives the head.
LEMMA BeforeTail ==
  ASSUME NEW S, NEW q \in Seq(S), q # <<>>, NEW a, NEW b, Before(q, a, b)
  PROVE  Before(Tail(q), a, b)
<1>1. /\ Len(q) \in Nat /\ Len(Tail(q)) = Len(q) - 1
      /\ \A i \in 1 .. Len(q) - 1 : Tail(q)[i] = q[i + 1]
  OBVIOUS
<1>2. ASSUME NEW i \in 1 .. Len(Tail(q)), NEW j \in 1 .. Len(Tail(q)),
             Tail(q)[i] = a, Tail(q)[j] = b
      PROVE  i < j
  <2>1. i + 1 \in 1 .. Len(q) /\ j + 1 \in 1 .. Len(q) /\ q[i + 1] = a /\ q[j + 1] = b
    BY <1>1, <1>2
  <2>2. i + 1 < j + 1
    BY <2>1 DEF Before
  <2> QED
    BY <1>1, <2>2
<1> QED
  BY <1>2 DEF Before

\* The order outlives an appending without a.
LEMMA BeforeConcat ==
  ASSUME NEW S, NEW s \in Seq(S), NEW t \in Seq(S), NEW a, NEW b, Before(s, a, b), ~Has(t, a)
  PROVE  Before(s \o t, a, b)
<1>1. /\ Len(s \o t) = Len(s) + Len(t) /\ Len(s) \in Nat /\ Len(t) \in Nat
      /\ \A i \in 1 .. Len(s) + Len(t) :
           (s \o t)[i] = IF i <= Len(s) THEN s[i] ELSE t[i - Len(s)]
  OBVIOUS
<1>2. ASSUME NEW i \in 1 .. Len(s \o t), NEW j \in 1 .. Len(s \o t),
             (s \o t)[i] = a, (s \o t)[j] = b
      PROVE  i < j
  <2>1. i <= Len(s)
    <3> SUFFICES ASSUME ~(i <= Len(s)) PROVE FALSE
      OBVIOUS
    <3>1. i - Len(s) \in 1 .. Len(t) /\ t[i - Len(s)] = a
      BY <1>1, <1>2
    <3> QED
      BY <3>1 DEF Has
  <2>2. CASE j <= Len(s)
    BY <1>1, <1>2, <2>1, <2>2 DEF Before
  <2>3. CASE ~(j <= Len(s))
    BY <1>1, <2>1, <2>3
  <2> QED
    BY <2>2, <2>3
<1> QED
  BY <1>2 DEF Before

\* The order holds where there is no b.
LEMMA BeforeNone ==
  ASSUME NEW q, NEW a, NEW b, ~Has(q, b)
  PROVE  Before(q, a, b)
BY DEF Before, Has

\* A head that every a precedes is the head of a sequence without a.
LEMMA BeforeHead ==
  ASSUME NEW S, NEW q \in Seq(S), q # <<>>, NEW a, Before(q, a, Head(q))
  PROVE  ~Has(q, a)
BY DEF Before, Has

-----------------------------------------------------------------------------
(* The invariant.                                                            *)

\* What App dispatches, and what begins a turn.
Dispatched == {"checkAuthenticated", "websocketConnect", "fetch"}
Answers == {"checkedIn", "checkedOut", "checkAuthenticatedError", "loginSuccess", "loginError"}
UserReplies == {"fetchSuccess", "fetchError"}
Alone == Answers \union UserReplies \union {"logoutSuccess"}
Others == {"checkAuthenticatedStart", "loginStart", "logoutStart", "logoutError",
           "websocketConnected", "websocketDisconnect", "websocketDisconnected",
           "websocketError", "ready"}
Action == Dispatched \union Alone \union Others

QueueOK ==
  /\ queue \in Seq(Action) /\ effects \in Seq(Dispatched)
  /\ mounts \in Nat /\ mounts >= 1
  /\ ~mounted => effects = <<>>
  /\ \A a \in Alone : Has(queue, a) => Len(queue) = 1

\* No sign of a connection is dispatched before the socket is disconnected.
DisconnectFirst == Before(queue, "websocketDisconnect", "ready")

\* What waits in the queue to be said of the connection is true of it.
Told ==
  /\ setup = "ready" => Has(queue, "ready") /\ ClientIs("open")
  /\ Has(queue, "websocketConnected") => ClientIs("open") /\ setup \in {"ready", "watching"}
  /\ Has(queue, "websocketDisconnected") \/ Has(queue, "websocketError") => ~ClientIs("open")
  /\ Has(queue, "websocketDisconnect") => ~status.connected /\ ~Has(queue, "websocketConnected")

\* The store is right about the connection, or what corrects it waits in the queue.
Corrected ==
  /\ status.connected => \/ setup \in {"ready", "watching"} /\ ClientIs("open")
                         \/ queue # <<>> /\ Head(queue) = "websocketDisconnected"
  /\ setup = "watching" /\ ClientIs("open") =>
       status.connected \/ Has(queue, "websocketConnected") \/ Has(queue, "websocketDisconnect")

\* Without a crossing, sockets but the last are closed, and the logout of a user
\* finds the race that takes its disconnect.
Uncrossed ==
  ~crossed =>
    /\ Live \subseteq {Client}
    /\ user.known \/ "logout" \in http => setup \in {"ready", "watching"}
    /\ Has(queue, "logoutSuccess") => setup = "watching"
    /\ Has(queue, "websocketDisconnect") => setup = "watching" \/ Live = {}
    /\ ~session => \/ Live = {} \/ Has(queue, "logoutSuccess") \/ Has(queue, "websocketDisconnect")

LoggingOut ==
  /\ \A a \in UserReplies : Has(queue, a) => setup = "watching"
  /\ Has(queue, "logoutSuccess") \/ Has(queue, "websocketDisconnect") =>
       ~session /\ "logout" \notin http
  /\ Has(queue, "websocketDisconnect") => ~user.known
  /\ Has(queue, "checkedIn") \/ Has(queue, "loginSuccess") => session

\* The user is asked for in one way at a time, in the first mount of App.
Checking == Has(queue, "checkAuthenticated") \/ "check" \in http
Owed == Has(effects, "checkAuthenticated")
Answered == \E a \in Answers : Has(queue, a)

NotLive == sockets = <<>> \/ ClientIs("closed")

AskedOnce ==
  /\ Owed => ~Checking /\ "login" \notin http /\ ~Answered
  /\ Checking => "login" \notin http /\ ~Answered
  /\ "login" \in http => ~Answered
  /\ Owed \/ Checking \/ "login" \in http \/ Answered => ~status.authenticated
  /\ "check" \in http => status.authenticating \/ Has(queue, "checkAuthenticatedStart")

\* In the first mount of App it connects when it is logged in and has no connection.
FirstMount ==
  /\ ~crossed
  /\ AskedOnce
  /\ ~status.authenticated =>
       /\ ~status.connecting /\ ~user.known /\ "logout" \notin http
       /\ ~Has(queue, "websocketConnect") /\ ~Has(effects, "websocketConnect")
       /\ Has(queue, "websocketDisconnect") \/ (NotLive /\ setup \in {"none", "ended"})
  /\ Has(queue, "logoutSuccess") => status.authenticated
  /\ Has(queue, "websocketConnect") =>
       /\ session /\ setup \notin {"ready", "watching"}
       /\ ~ClientIs("waiting") /\ ~ClientIs("open")
  /\ Has(effects, "websocketConnect") =>
       session /\ NotLive /\ ~status.connecting /\ setup \in {"none", "ended"}

IInv ==
  /\ TypeOK /\ QueueOK /\ DisconnectFirst /\ Told /\ Corrected /\ Uncrossed /\ LoggingOut
  /\ mounts = 1 => FirstMount

-----------------------------------------------------------------------------
(* The store.                                                                *)

Status == [authenticating: BOOLEAN, authenticated: BOOLEAN, connected: BOOLEAN,
           connecting: BOOLEAN, error: BOOLEAN]

Changed(a, on, off, old) == IF a \in on THEN TRUE ELSE IF a \in off THEN FALSE ELSE old

\* What each flag of the slice takes from an action.
LEMMA ReducedFacts ==
  ASSUME NEW s \in Status, NEW a \in Action
  PROVE  LET r == Reduced(a, s) IN
         /\ r \in Status
         /\ r.connected = Changed(a, {"websocketConnected"},
              {"logoutSuccess", "websocketConnect", "websocketDisconnected", "websocketError"},
              s.connected)
         /\ r.connecting = Changed(a, {"websocketConnect"},
              {"logoutSuccess", "websocketConnected", "websocketError"}, s.connecting)
         /\ r.authenticated = Changed(a, {"checkedIn", "loginSuccess"},
              {"checkedOut", "checkAuthenticatedError", "logoutSuccess"}, s.authenticated)
         /\ r.authenticating = Changed(a, {"checkAuthenticatedStart", "loginStart"},
              Answers \union {"logoutSuccess"}, s.authenticating)
<1> USE DEF Reduced, Changed, Status, Answers
<1>1. CASE a \in {"checkAuthenticatedStart", "loginStart"}
  BY Zenon, <1>1
<1>2. CASE a \in {"checkedIn", "checkedOut", "checkAuthenticatedError"}
  BY Zenon, <1>2
<1>3. CASE a \in {"loginSuccess", "loginError"}
  BY Zenon, <1>3
<1>4. CASE a = "logoutSuccess"
  BY Zenon, <1>4 DEF loggedOut
<1>5. CASE a \in {"websocketConnect", "websocketConnected"}
  BY Zenon, <1>5 DEF websocketConnected
<1>6. CASE a \in {"websocketDisconnected", "websocketError"}
  BY Zenon, <1>6
<1>7. CASE a \in {"checkAuthenticated", "fetch", "fetchSuccess", "fetchError", "logoutStart",
                  "logoutError", "websocketDisconnect", "ready"}
  BY Zenon, <1>7
<1> QED
  BY Zenon, <1>1, <1>2, <1>3, <1>4, <1>5, <1>6, <1>7 DEF Action, Dispatched, Alone, Others, UserReplies

\* The effects of App after a render.
LEMMA EffectsFacts ==
  ASSUME NEW old \in Status, NEW new \in Status
  PROVE  /\ EffectsOf(old, new) \in Seq(Dispatched)
         /\ Has(EffectsOf(old, new), "checkAuthenticated")
              <=> old.authenticated /\ ~new.authenticated
         /\ Has(EffectsOf(old, new), "websocketConnect")
              <=> ~old.authenticated /\ new.authenticated
<1> DEFINE s == IF old.authenticated /\ ~new.authenticated
                THEN <<"checkAuthenticated">> ELSE <<>>
           t == IF ~old.authenticated /\ new.authenticated
                THEN <<"websocketConnect">> ELSE <<>>
           u == IF ~old.connected /\ new.connected THEN <<"fetch">> ELSE <<>>
<1>1. s \in Seq(Dispatched) /\ t \in Seq(Dispatched) /\ u \in Seq(Dispatched)
  <2>1. /\ <<"checkAuthenticated">> \in Seq(Dispatched) /\ <<"websocketConnect">> \in Seq(Dispatched)
        /\ <<"fetch">> \in Seq(Dispatched) /\ <<>> \in Seq(Dispatched)
    BY DEF Dispatched
  <2> QED
    BY <2>1
<1>2. \A x : /\ Has(s, x) <=> x = "checkAuthenticated" /\ old.authenticated /\ ~new.authenticated
             /\ Has(t, x) <=> x = "websocketConnect" /\ ~old.authenticated /\ new.authenticated
             /\ Has(u, x) <=> x = "fetch" /\ ~old.connected /\ new.connected
  BY HasShort
<1>3. EffectsOf(old, new) = (s \o t) \o u
  BY DEF EffectsOf
<1> HIDE DEF s, t, u
<1>4. s \o t \in Seq(Dispatched) /\ (s \o t) \o u \in Seq(Dispatched)
  BY <1>1
<1>5. \A x : Has((s \o t) \o u, x) <=> Has(s, x) \/ Has(t, x) \/ Has(u, x)
  <2>1. \A x : Has(s \o t, x) <=> Has(s, x) \/ Has(t, x)
    BY <1>1, HasConcat
  <2> DEFINE v == s \o t
  <2>2. v \in Seq(Dispatched)
    BY <1>4
  <2> HIDE DEF v
  <2>3. \A x : Has(v \o u, x) <=> Has(v, x) \/ Has(u, x)
    BY <1>1, <2>2, HasConcat
  <2> QED
    BY <2>1, <2>3 DEF v
<1> QED
  BY <1>2, <1>3, <1>4, <1>5

-----------------------------------------------------------------------------
(* A step of a turn.                                                         *)

\* The queue and the effects after the first task was run, with what a saga puts:
\* App does not render, or it renders, which runs the effects it owes.
Turned(puts) ==
  \/ /\ effects' = effects /\ (mounted => status' = status /\ user' = user)
     /\ \A x : Has(queue', x) <=> Has(Tail(queue), x) \/ Has(puts, x)
  \/ /\ mounted /\ <<status', user'>> # <<status, user>>
     /\ Has(effects', "checkAuthenticated") <=> status.authenticated /\ ~status'.authenticated
     /\ Has(effects', "websocketConnect") <=> ~status.authenticated /\ status'.authenticated
     /\ \A x : Has(queue', x) <=> Has(Tail(queue), x) \/ Has(effects, x) \/ Has(puts, x)

\* What a turn's step does to the queue.
LEMMA TurnQueue ==
  ASSUME QueueOK, DisconnectFirst, queue # <<>>, NEW puts \in Seq(Action),
         UNCHANGED <<mounted, mounts>>, \A x \in Alone : ~Has(puts, x),
         effects' \in Seq(Dispatched), ~mounted => effects' = effects,
         \/ queue' = Tail(queue) \o puts
         \/ queue' = (Tail(queue) \o effects) \o puts,
         \/ ~Has(puts, "websocketDisconnect")
         \/ Tail(queue) = <<>> /\ puts = <<"websocketDisconnect">>
  PROVE  QueueOK' /\ DisconnectFirst' /\ \A x \in Alone : ~Has(queue', x)
<1>1. /\ Tail(queue) \in Seq(Action) /\ effects \in Seq(Action)
      /\ Tail(queue) \o effects \in Seq(Action) /\ queue' \in Seq(Action)
  <2>1. Tail(queue) \in Seq(Action)
    BY HasTail DEF QueueOK
  <2>2. effects \in Seq(Action)
    BY DEF QueueOK, Action
  <2>3. Tail(queue) \o effects \in Seq(Action)
    BY <2>1, <2>2
  <2>4. Tail(queue) \o puts \in Seq(Action) /\ (Tail(queue) \o effects) \o puts \in Seq(Action)
    BY <2>1, <2>3
  <2> QED
    BY Zenon, <2>1, <2>2, <2>3, <2>4
<1>2. \A x : ~(x \in Dispatched) => ~Has(effects, x)
  BY HasIn DEF QueueOK
<1>3. \A x : Has(Tail(queue) \o puts, x) <=> Has(Tail(queue), x) \/ Has(puts, x)
  BY Zenon, <1>1, HasConcat
<1>3a. \A x : Has((Tail(queue) \o effects) \o puts, x)
             <=> Has(Tail(queue), x) \/ Has(effects, x) \/ Has(puts, x)
  <2> DEFINE s == Tail(queue)
  <2>1. s \in Seq(Action) /\ effects \in Seq(Action) /\ puts \in Seq(Action)
    BY <1>1
  <2> HIDE DEF s
  <2>2. \A x : Has((s \o effects) \o puts, x) <=> Has(s, x) \/ Has(effects, x) \/ Has(puts, x)
    BY <2>1, HasConcat3
  <2> QED
    BY <2>2 DEF s
<1>4. \A x \in Alone : ~Has(queue', x)
  <2> SUFFICES ASSUME NEW x \in Alone, Has(Tail(queue), x) PROVE FALSE
    BY Zenon, <1>2, <1>3, <1>3a DEF Alone, Answers, Dispatched, UserReplies
  <2>1. Has(queue, x)
    BY HasTail DEF QueueOK
  <2>2. Len(queue) = 1
    BY <2>1 DEF QueueOK
  <2>3. Len(Tail(queue)) = 0
    BY <2>2 DEF QueueOK
  <2> QED
    BY Zenon, <2>3, HasEmpty
<1>5. DisconnectFirst'
  <2>1. Before(Tail(queue), "websocketDisconnect", "ready")
    BY BeforeTail DEF QueueOK, DisconnectFirst
  <2>2. ~Has(effects, "websocketDisconnect") /\ ~Has(effects, "ready")
    BY Zenon, <1>2 DEF Dispatched
  <2>3. Before(Tail(queue) \o effects, "websocketDisconnect", "ready")
    BY Zenon, <1>1, <2>1, <2>2, BeforeConcat
  <2>4. CASE ~Has(puts, "websocketDisconnect")
    BY Zenon, <1>1, <2>1, <2>3, <2>4, BeforeConcat DEF DisconnectFirst
  <2>5. CASE Tail(queue) = <<>> /\ puts = <<"websocketDisconnect">>
    <3>1. ~Has(Tail(queue), "ready")
      BY Zenon, <2>5, HasEmpty
    <3>2. ~Has(puts, "ready")
      <4>1. "websocketDisconnect" # "ready"
        OBVIOUS
      <4> QED
        BY <2>5, <4>1, HasShort
    <3>3. ~Has(queue', "ready")
      BY Zenon, <1>3, <1>3a, <2>2, <3>1, <3>2
    <3> QED
      BY <3>3, BeforeNone DEF DisconnectFirst
  <2> QED
    BY <2>4, <2>5
<1> QED
  BY <1>1, <1>4, <1>5 DEF QueueOK

\* Dispatching an action.
LEMMA DispatchTurn ==
  ASSUME TypeOK, QueueOK, DisconnectFirst, queue # <<>>,
         NEW a \in Action, NEW puts \in Seq(Action), NEW asks, Dispatch(a, puts, asks),
         UNCHANGED <<mounted, mounts>>, \A x \in Alone : ~Has(puts, x),
         \/ ~Has(puts, "websocketDisconnect")
         \/ Tail(queue) = <<>> /\ puts = <<"websocketDisconnect">>
  PROVE  /\ status' = Reduced(a, status) /\ status' \in Status /\ user' = ReducedUser(a, asks)
         /\ QueueOK' /\ DisconnectFirst' /\ \A x \in Alone : ~Has(queue', x)
         /\ Turned(puts)
<1>1. /\ status \in Status /\ Tail(queue) \in Seq(Action) /\ effects \in Seq(Action)
      /\ effects \in Seq(Dispatched)
  BY HasTail DEF TypeOK, Status, QueueOK, Action
<1>2. status' = Reduced(a, status) /\ user' = ReducedUser(a, asks) /\ status' \in Status
  BY <1>1, ReducedFacts DEF Dispatch
<1>3. \A x : Has(Tail(queue) \o puts, x) <=> Has(Tail(queue), x) \/ Has(puts, x)
  BY Zenon, <1>1, HasConcat
<1>3a. \A x : Has((Tail(queue) \o effects) \o puts, x)
             <=> Has(Tail(queue), x) \/ Has(effects, x) \/ Has(puts, x)
  <2> DEFINE s == Tail(queue)
  <2>1. s \in Seq(Action) /\ effects \in Seq(Action) /\ puts \in Seq(Action)
    BY <1>1
  <2> HIDE DEF s
  <2>2. \A x : Has((s \o effects) \o puts, x) <=> Has(s, x) \/ Has(effects, x) \/ Has(puts, x)
    BY <2>1, HasConcat3
  <2> QED
    BY <2>2 DEF s
<1>4. CASE mounted /\ <<status', user'>> # <<status, user>>
  <2>1. /\ queue' = (Tail(queue) \o effects) \o puts
        /\ effects' = EffectsOf(status, status')
    BY <1>2, <1>4 DEF Dispatch
  <2>2. /\ effects' \in Seq(Dispatched)
        /\ Has(effects', "checkAuthenticated") <=> status.authenticated /\ ~status'.authenticated
        /\ Has(effects', "websocketConnect") <=> ~status.authenticated /\ status'.authenticated
    BY <1>1, <1>2, <2>1, EffectsFacts
  <2>3. QueueOK' /\ DisconnectFirst' /\ \A x \in Alone : ~Has(queue', x)
    BY Zenon, <1>4, <2>1, <2>2, TurnQueue
  <2>4. Turned(puts)
    BY <1>3a, <1>4, <2>1, <2>2 DEF Turned
  <2> QED
    BY <1>2, <2>3, <2>4
<1>5. CASE ~(mounted /\ <<status', user'>> # <<status, user>>)
  <2>1. queue' = Tail(queue) \o puts /\ effects' = effects
    BY <1>2, <1>5 DEF Dispatch
  <2>2. QueueOK' /\ DisconnectFirst' /\ \A x \in Alone : ~Has(queue', x)
    BY Zenon, <1>1, <1>5, <2>1, TurnQueue
  <2>3. Turned(puts)
    BY <1>3, <1>5, <2>1 DEF Turned
  <2> QED
    BY <1>2, <2>2, <2>3
<1> QED
  BY <1>4, <1>5

-----------------------------------------------------------------------------
(* Between turns.                                                            *)

\* What the queue and the effects hold.
LEMMA QueueFacts ==
  ASSUME QueueOK
  PROVE  /\ \A x : x \notin Dispatched => ~Has(effects, x)
         /\ ~mounted => \A x : ~Has(effects, x)
         /\ queue = <<>> => \A x : ~Has(queue, x)
         /\ queue # <<>> =>
              /\ Head(queue) \in Action
              /\ \A x : Has(queue, x) <=> Head(queue) = x \/ Has(Tail(queue), x)
              /\ Head(queue) \in Alone => Tail(queue) = <<>> /\ \A x : ~Has(Tail(queue), x)
<1>1. \A x : x \notin Dispatched => ~Has(effects, x)
  BY HasIn DEF QueueOK
<1>2. /\ ~mounted => \A x : ~Has(effects, x)
      /\ queue = <<>> => \A x : ~Has(queue, x)
  BY HasEmpty DEF QueueOK
<1>3. ASSUME queue # <<>>
      PROVE  /\ Head(queue) \in Action
             /\ \A x : Has(queue, x) <=> Head(queue) = x \/ Has(Tail(queue), x)
  BY <1>3, HasTail DEF QueueOK
<1>4. ASSUME queue # <<>>, Head(queue) \in Alone
      PROVE  Tail(queue) = <<>> /\ \A x : ~Has(Tail(queue), x)
  <2>1. Len(queue) = 1
    BY <1>3, <1>4 DEF QueueOK
  <2>2. Tail(queue) \in Seq(Action) /\ Len(Tail(queue)) = 0
    BY <1>4, <2>1 DEF QueueOK
  <2>3. Tail(queue) = <<>>
    BY Zenon, <2>2, EmptySeq
  <2> QED
    BY Zenon, <2>3, HasEmpty
<1> QED
  BY <1>1, <1>2, <1>3, <1>4

\* React runs what it owes, of its own or since App leaves the page.
LEMMA EffectsRun ==
  ASSUME IInv, BetweenTurns, queue' = effects, effects' = <<>>,
         mounted' \in {mounted, FALSE},
         UNCHANGED <<session, http, sockets, asked, setup, status, user, crossed, counters>>
  PROVE  IInv'
<1> USE DEF BetweenTurns, counters
<1>1. /\ \A x : Has(queue', x) <=> Has(effects, x)
      /\ \A x : ~Has(queue, x) /\ ~Has(effects', x)
      /\ \A x : x \notin Dispatched => ~Has(queue', x)
  BY QueueFacts, HasEmpty DEF IInv
<1>2. TypeOK'
  <2>1. TypeOK
    BY DEF IInv
  <2>2. Live' = Live /\ Client' = Client
    BY DEF Live, Client
  <2> QED
    <3>1. mounted' \in BOOLEAN /\ crossed' \in BOOLEAN
      BY Zenon, <2>1 DEF TypeOK
    <3> QED
      BY <2>1, <2>2, <3>1 DEF TypeOK
<1>3. QueueOK'
  <2>1. queue' \in Seq(Action) /\ effects' \in Seq(Dispatched)
    BY DEF IInv, QueueOK, Action
  <2> QED
    BY <1>1, <2>1 DEF IInv, QueueOK, Alone, Answers, Dispatched, UserReplies
<1>4. DisconnectFirst'
  BY <1>1, BeforeNone DEF DisconnectFirst, Dispatched
<1>5. Told' /\ Corrected'
  BY <1>1 DEF IInv, Told, Corrected, ClientIs, Client, Dispatched
<1>6. Uncrossed' /\ LoggingOut'
  BY <1>1 DEF IInv, Uncrossed, LoggingOut, Live, Client, Dispatched, UserReplies
<1>7. mounts' = 1 => FirstMount'
  BY <1>1 DEF IInv, FirstMount, AskedOnce, Owed, Checking, Answered, NotLive, ClientIs, Client,
              Dispatched, Answers
<1> QED
  BY <1>2, <1>3, <1>4, <1>5, <1>6, <1>7 DEF IInv

\* App returns.
LEMMA MountKeeps == IInv /\ Mount => IInv'
<1> SUFFICES ASSUME IInv, Mount PROVE IInv'
  OBVIOUS
<1> USE DEF Mount, BetweenTurns
<1>1. mounts' \in Nat /\ mounts' > 1
  BY DEF IInv, QueueOK
<1>2. effects' \in Seq(Dispatched)
  <2>1. loggedOut \in Status /\ status \in Status
    BY DEF IInv, TypeOK, loggedOut, Status
  <2>2. <<"checkAuthenticated">> \in Seq(Dispatched)
    BY DEF Dispatched
  <2>3. EffectsOf(loggedOut, status) \in Seq(Dispatched)
    BY <2>1, EffectsFacts
  <2> QED
    BY <2>2, <2>3
<1>3. TypeOK'
  BY DEF IInv, TypeOK, Live, Client
<1>4. QueueOK'
  BY <1>1, <1>2 DEF IInv, QueueOK
<1>5. DisconnectFirst' /\ Told' /\ Corrected'
  BY DEF IInv, DisconnectFirst, Told, Corrected, ClientIs, Client
<1>6. Uncrossed' /\ LoggingOut'
  BY DEF IInv, Uncrossed, LoggingOut, Live, Client, UserReplies
<1> QED
  BY <1>1, <1>3, <1>4, <1>5, <1>6 DEF IInv

\* A turn that begins with one task.
LEMMA OneTask ==
  ASSUME QueueOK, NEW a \in Action, queue' = <<a>>, UNCHANGED <<effects, mounted, mounts>>
  PROVE  QueueOK' /\ DisconnectFirst' /\ \A x : Has(queue', x) <=> x = a
<1>1. <<a>> \in Seq(Action) /\ Len(<<a>>) = 1
  OBVIOUS
<1>2. \A x : Has(queue', x) <=> x = a
  BY HasShort
<1>3. QueueOK'
  BY <1>1 DEF QueueOK
<1>4. ~Has(queue', "ready") \/ ~Has(queue', "websocketDisconnect")
  BY <1>2
<1>5. DisconnectFirst'
  BY <1>4 DEF DisconnectFirst, Before, Has
<1> QED
  BY <1>2, <1>3, <1>5

\* The user logs in.
LEMMA LoginKeeps == IInv /\ login => IInv'
<1> SUFFICES ASSUME IInv, login PROVE IInv'
  OBVIOUS
<1> USE DEF login, BetweenTurns, Starts
<1>1. (\A x : ~Has(queue, x)) /\ \A x : ~Has(effects, x)
  BY QueueFacts, HasEmpty DEF IInv
<1>2. QueueOK' /\ DisconnectFirst' /\ \A x : Has(queue', x) <=> x = "loginStart"
  BY OneTask DEF IInv, Action, Others
<1>3. TypeOK'
  BY DEF IInv, TypeOK, Live, Client
<1>4. Told' /\ Corrected'
  BY <1>1, <1>2 DEF IInv, Told, Corrected, ClientIs, Client
<1>5. Uncrossed' /\ LoggingOut'
  BY <1>1, <1>2 DEF IInv, Uncrossed, LoggingOut, Live, Client, UserReplies
<1>6. ~status.authenticated /\ ~status.authenticating
  BY DEF Page
<1>7. ASSUME mounts = 1 PROVE FirstMount'
  <2>1. AskedOnce'
    BY <1>1, <1>2, <1>6, <1>7
       DEF IInv, FirstMount, AskedOnce, Owed, Checking, Answered, Answers
  <2> QED
    BY <1>1, <1>2, <1>7, <2>1 DEF IInv, FirstMount, NotLive, ClientIs, Client
<1> QED
  BY <1>2, <1>3, <1>4, <1>5, <1>7 DEF IInv

\* The user logs out.
LEMMA LogoutKeeps == IInv /\ logout => IInv'
<1> SUFFICES ASSUME IInv, logout PROVE IInv'
  OBVIOUS
<1> USE DEF logout, mayLogout, BetweenTurns, Starts, counters
<1>1. (\A x : ~Has(queue, x)) /\ \A x : ~Has(effects, x)
  BY QueueFacts, HasEmpty DEF IInv
<1>2. QueueOK' /\ DisconnectFirst' /\ \A x : Has(queue', x) <=> x = "logoutStart"
  BY OneTask DEF IInv, Action, Others
<1>3. TypeOK'
  BY DEF IInv, TypeOK, Live, Client
<1>4. Told' /\ Corrected'
  BY <1>1, <1>2 DEF IInv, Told, Corrected, ClientIs, Client
<1>5. Uncrossed' /\ LoggingOut'
  BY <1>1, <1>2 DEF IInv, Uncrossed, LoggingOut, Live, Client, UserReplies
<1>6. ASSUME mounts = 1 PROVE FirstMount'
  <2>1. AskedOnce'
    BY <1>1, <1>2, <1>6
       DEF IInv, FirstMount, AskedOnce, Owed, Checking, Answered, Answers
  <2> QED
    BY <1>1, <1>2, <1>6, <2>1 DEF IInv, FirstMount, NotLive, ClientIs, Client
<1> QED
  BY <1>2, <1>3, <1>4, <1>5, <1>6 DEF IInv

\* The region answers a request of the http sagas, or it fails.
LEMMA HttpKeeps == IInv /\ HttpReplies => IInv'
<1> SUFFICES ASSUME IInv, HttpReplies PROVE IInv'
  OBVIOUS
<1> USE DEF BetweenTurns
<1>1. PICK kind \in http :
        /\ http' = http \ {kind}
        /\ \/ queue' = <<Answer(kind)>> /\ session' = (kind = "login" \/ (session /\ kind # "logout"))
           \/ queue' = <<Failure(kind)>> /\ UNCHANGED session
  BY DEF HttpReplies
<1>2. /\ queue = <<>> /\ kind \in {"check", "login", "logout"}
      /\ UNCHANGED <<crossed, mounted, mounts, logins, drops, sockets, asked, setup, status, user,
                    effects>>
  BY DEF HttpReplies, IInv, TypeOK
<1>3. \A x : ~Has(queue, x)
  BY <1>2, QueueFacts DEF IInv
<1>4. PICK a : /\ queue' = <<a>>
               /\ \/ a = "logoutSuccess" /\ kind = "logout" /\ session' = FALSE
                  \/ a = "logoutError" /\ kind = "logout" /\ session' = session
                  \/ a \in {"checkedOut", "checkAuthenticatedError"}
                       /\ kind = "check" /\ session' = session
                  \/ a = "checkedIn" /\ kind = "check" /\ session /\ session' = session
                  \/ a = "loginError" /\ kind = "login" /\ session' = session
                  \/ a = "loginSuccess" /\ kind = "login" /\ session' = TRUE
  BY Zenon, <1>1, <1>2 DEF Answer, Failure, IInv, TypeOK
<1>5. a \in Action /\ session' \in BOOLEAN
  <2>1. a \in Action
    BY <1>4 DEF Action, Alone, Answers, Others, UserReplies
  <2>2. session \in BOOLEAN
    BY DEF IInv, TypeOK
  <2> QED
    BY Zenon, <1>4, <2>1, <2>2
<1>6. QueueOK' /\ DisconnectFirst' /\ \A x : Has(queue', x) <=> x = a
  BY <1>2, <1>4, <1>5, OneTask DEF IInv
<1>7. TypeOK'
  BY <1>1, <1>2, <1>5 DEF IInv, TypeOK, Live, Client
<1>8. a \notin {"ready", "websocketConnected", "websocketDisconnected", "websocketError",
                "websocketDisconnect", "fetchSuccess", "fetchError", "websocketConnect",
                "checkAuthenticated", "checkAuthenticatedStart"}
  BY <1>4
<1>9. Told' /\ Corrected'
  BY <1>2, <1>3, <1>6, <1>8 DEF IInv, Told, Corrected, ClientIs, Client
<1>10. Uncrossed'
  BY <1>1, <1>2, <1>3, <1>4, <1>6, <1>8 DEF IInv, Uncrossed, Told, Live, Client
<1>11. LoggingOut'
  BY <1>1, <1>2, <1>3, <1>4, <1>6, <1>8 DEF IInv, LoggingOut, UserReplies
<1>12. ASSUME mounts = 1 PROVE FirstMount'
  <2>1. AskedOnce'
    BY <1>1, <1>2, <1>3, <1>4, <1>6, <1>8, <1>12
       DEF IInv, FirstMount, AskedOnce, Owed, Checking, Answered, Answers
  <2>2. kind = "logout" => status.authenticated /\ ~Has(effects, "websocketConnect")
    BY <1>1, <1>12 DEF IInv, FirstMount, Uncrossed
  <2> QED
    BY <1>1, <1>2, <1>3, <1>4, <1>6, <1>8, <1>12, <2>1, <2>2
       DEF IInv, FirstMount, NotLive, ClientIs, Client
<1> QED
  BY <1>2, <1>6, <1>7, <1>9, <1>10, <1>11, <1>12 DEF IInv

\* Where a socket is the client's or another's; without a crossing it is the client's.
LEMMA SocketFacts ==
  ASSUME IInv, NEW i \in DOMAIN sockets, NEW to \in {"connecting", "open", "waiting"},
         sockets[i] # "closed", sockets' = [sockets EXCEPT ![i] = to]
  PROVE  /\ sockets' \in Seq({"connecting", "open", "waiting", "closed"})
         /\ sockets # <<>> /\ sockets' # <<>> /\ Client' = Client /\ Live' = Live /\ i \in Live
         /\ Client \in DOMAIN sockets
         /\ sockets'[Client] = IF i = Client THEN to ELSE sockets[Client]
         /\ ~crossed => i = Client
<1>1. /\ sockets \in Seq({"connecting", "open", "waiting", "closed"})
      /\ Len(sockets) \in Nat /\ DOMAIN sockets = 1 .. Len(sockets)
  BY DEF IInv, TypeOK
<1>2. /\ sockets' \in Seq({"connecting", "open", "waiting", "closed"})
      /\ Len(sockets') = Len(sockets) /\ DOMAIN sockets' = DOMAIN sockets
      /\ \A j \in DOMAIN sockets : sockets'[j] = IF j = i THEN to ELSE sockets[j]
  BY <1>1
<1>3. Len(sockets) >= 1 /\ Len(sockets) \in DOMAIN sockets
  BY <1>1
<1>4. sockets # <<>> /\ sockets' # <<>>
  BY <1>1, <1>2, <1>3
<1>5. Live' = Live /\ i \in Live
  BY <1>2 DEF Live
<1>6. ~crossed => i = Client
  BY <1>5 DEF IInv, Uncrossed
<1> QED
  BY <1>2, <1>3, <1>4, <1>5, <1>6 DEF Client

\* A socket opens.
LEMMA OpensKeeps ==
  ASSUME IInv, NEW i \in DOMAIN sockets, SocketOpens(i)
  PROVE  IInv'
<1> USE DEF SocketOpens, BetweenTurns, world, counters
<1>1. /\ sockets' \in Seq({"connecting", "open", "waiting", "closed"})
      /\ sockets # <<>> /\ sockets' # <<>> /\ Client' = Client /\ Live' = Live /\ i \in Live
      /\ sockets'[Client] = IF i = Client THEN "open" ELSE sockets[Client]
      /\ ~crossed => i = Client
  BY Zenon, SocketFacts
<1>2. \A x : ~Has(queue, x)
  BY QueueFacts DEF IInv
<1>3. /\ QueueOK' /\ DisconnectFirst'
      /\ \/ /\ i = Client /\ setup = "creating" /\ setup' = "ready"
            /\ \A x : Has(queue', x) <=> x = "ready"
         \/ /\ i = Client /\ setup = "watching" /\ setup' = setup
            /\ \A x : Has(queue', x) <=> x = "websocketConnected"
         \/ /\ ~(i = Client /\ setup \in {"creating", "watching"}) /\ setup' = setup
            /\ queue' = <<>> /\ \A x : ~Has(queue', x)
  <2>1. CASE i = Client /\ setup = "creating"
    BY <2>1, OneTask DEF IInv, Action, Others
  <2>2. CASE i = Client /\ setup = "watching"
    BY <2>2, OneTask DEF IInv, Action, Others, Hears
  <2>3. CASE ~(i = Client /\ setup \in {"creating", "watching"})
    <3>1. queue' = <<>> /\ \A x : ~Has(queue', x)
      BY <2>3, HasEmpty DEF Hears
    <3> QED
      BY <2>3, <3>1 DEF IInv, QueueOK, DisconnectFirst
  <2> QED
    BY <2>1, <2>2, <2>3
<1>4. TypeOK'
  BY <1>1, <1>3 DEF IInv, TypeOK
<1>5. Told'
  BY <1>1, <1>2, <1>3 DEF IInv, Told, ClientIs
<1>6. Corrected'
  BY <1>1, <1>2, <1>3 DEF IInv, Corrected, ClientIs
<1>7. Uncrossed' /\ LoggingOut'
  BY <1>1, <1>2, <1>3 DEF IInv, Uncrossed, LoggingOut, UserReplies
<1>8. ASSUME mounts = 1 PROVE FirstMount'
  <2>1. i = Client /\ ~NotLive
    BY <1>1, <1>8 DEF IInv, FirstMount, NotLive, ClientIs
  <2>2. AskedOnce'
    BY <1>2, <1>3, <1>8 DEF IInv, FirstMount, AskedOnce, Owed, Checking, Answered, Answers
  <2> QED
    BY <1>2, <1>3, <1>8, <2>1, <2>2 DEF IInv, FirstMount
<1> QED
  BY <1>3, <1>4, <1>5, <1>6, <1>7, <1>8 DEF IInv

\* An attempt fails or a connection is lost.
LEMMA ClosesKeeps ==
  ASSUME IInv, NEW i \in DOMAIN sockets, SocketCloses(i)
  PROVE  IInv'
<1> USE DEF SocketCloses, BetweenTurns
<1>1. /\ sockets' \in Seq({"connecting", "open", "waiting", "closed"})
      /\ sockets # <<>> /\ sockets' # <<>> /\ Client' = Client /\ Live' = Live /\ i \in Live
      /\ sockets'[Client] = IF i = Client THEN "waiting" ELSE sockets[Client]
      /\ ~crossed => i = Client
  BY Zenon, SocketFacts
<1>2. \A x : ~Has(queue, x)
  BY QueueFacts DEF IInv
<1>3. /\ QueueOK' /\ DisconnectFirst'
      /\ \/ /\ i = Client /\ setup = "watching"
            /\ queue' # <<>> /\ Head(queue') = "websocketDisconnected"
            /\ \A x : Has(queue', x) => x \in {"websocketDisconnected", "websocketError"}
         \/ /\ ~(i = Client /\ setup = "watching")
            /\ queue' = <<>> /\ \A x : ~Has(queue', x)
  <2>1. CASE i = Client /\ setup = "watching"
    <3>1. CASE queue' = <<"websocketDisconnected">>
      BY <2>1, <3>1, OneTask DEF IInv, Action, Others
    <3>2. CASE queue' = <<"websocketDisconnected", "websocketError">>
      <4>1. \A x : Has(queue', x) => x \in {"websocketDisconnected", "websocketError"}
        BY <3>2, HasShort
      <4>2. queue' \in Seq(Action) /\ queue' # <<>> /\ Head(queue') = "websocketDisconnected"
        BY <3>2 DEF Action, Others
      <4>3. QueueOK'
        BY Zenon, <4>1, <4>2 DEF IInv, QueueOK, Alone, Answers, UserReplies
      <4>4. DisconnectFirst'
        BY <4>1, BeforeNone DEF DisconnectFirst
      <4> QED
        BY <2>1, <4>1, <4>2, <4>3, <4>4
    <3> QED
      BY <2>1, <3>1, <3>2 DEF Hears
  <2>2. CASE ~(i = Client /\ setup = "watching")
    <3>1. queue' = <<>> /\ \A x : ~Has(queue', x)
      BY <2>2, HasEmpty DEF Hears
    <3> QED
      BY <2>2, <3>1 DEF IInv, QueueOK, DisconnectFirst
  <2> QED
    BY <2>1, <2>2
<1>4. TypeOK'
  BY <1>1 DEF IInv, TypeOK
<1>5. Told'
  <2>1. Told
    BY DEF IInv
  <2>2. setup # "ready"
    BY <1>2, <2>1 DEF Told
  <2>3. Has(queue', "websocketDisconnected") \/ Has(queue', "websocketError") => ~ClientIs("open")'
    BY <1>1, <1>3 DEF ClientIs
  <2>4. ~Has(queue', "websocketConnected") /\ ~Has(queue', "websocketDisconnect")
    BY <1>3
  <2> QED
    BY <2>2, <2>3, <2>4 DEF Told
<1>6. Corrected'
  BY <1>1, <1>2, <1>3 DEF IInv, Told, Corrected, ClientIs
<1>7. Uncrossed' /\ LoggingOut'
  BY <1>1, <1>2, <1>3 DEF IInv, Uncrossed, LoggingOut, UserReplies
<1>8. ASSUME mounts = 1 PROVE FirstMount'
  <2>1. i = Client /\ ~NotLive
    BY <1>1, <1>8 DEF IInv, FirstMount, NotLive, ClientIs
  <2>2. AskedOnce'
    BY <1>2, <1>3, <1>8 DEF IInv, FirstMount, AskedOnce, Owed, Checking, Answered, Answers
  <2> QED
    BY <1>2, <1>3, <1>8, <2>1, <2>2 DEF IInv, FirstMount
<1> QED
  BY <1>3, <1>4, <1>5, <1>6, <1>7, <1>8 DEF IInv

\* A socket tries again.
LEMMA RetriesKeeps ==
  ASSUME IInv, NEW i \in DOMAIN sockets, SocketRetries(i)
  PROVE  IInv'
<1> USE DEF SocketRetries, BetweenTurns, world, counters
<1>1. /\ sockets' \in Seq({"connecting", "open", "waiting", "closed"})
      /\ sockets # <<>> /\ sockets' # <<>> /\ Client' = Client /\ Live' = Live /\ i \in Live
      /\ sockets'[Client] = IF i = Client THEN "connecting" ELSE sockets[Client]
      /\ ~crossed => i = Client
  BY Zenon, SocketFacts
<1>2. \A x : ~Has(queue, x)
  BY QueueFacts DEF IInv
<1>3. QueueOK' /\ DisconnectFirst' /\ queue' = queue
  BY DEF IInv, QueueOK, DisconnectFirst
<1>4. TypeOK'
  BY <1>1 DEF IInv, TypeOK
<1>5. Told' /\ Corrected'
  BY <1>1, <1>2, <1>3 DEF IInv, Told, Corrected, ClientIs
<1>6. Uncrossed' /\ LoggingOut'
  BY <1>1, <1>2, <1>3 DEF IInv, Uncrossed, LoggingOut, UserReplies
<1>7. ASSUME mounts = 1 PROVE FirstMount'
  <2>1. i = Client /\ ~NotLive
    BY <1>1, <1>7 DEF IInv, FirstMount, NotLive, ClientIs
  <2>2. AskedOnce'
    BY <1>2, <1>3, <1>7 DEF IInv, FirstMount, AskedOnce, Owed, Checking, Answered
  <2> QED
    BY <1>2, <1>3, <1>7, <2>1, <2>2 DEF IInv, FirstMount
<1> QED
  BY <1>3, <1>4, <1>5, <1>6, <1>7 DEF IInv

\* The user arrives.
LEMMA RegionKeeps == IInv /\ RegionReplies => IInv'
<1> SUFFICES ASSUME IInv, RegionReplies PROVE IInv'
  OBVIOUS
<1> USE DEF RegionReplies, BetweenTurns, world, counters
<1>1. \A x : ~Has(queue, x)
  BY QueueFacts DEF IInv
<1>2. /\ QueueOK' /\ DisconnectFirst'
      /\ \A x : Has(queue', x) => x \in UserReplies /\ setup = "watching"
  <2>1. CASE setup = "watching"
    <3>1. PICK a \in UserReplies : queue' = <<a>>
      BY <2>1 DEF Hears, UserReplies
    <3> QED
      BY <2>1, <3>1, OneTask DEF IInv, Action, Alone, UserReplies
  <2>2. CASE setup # "watching"
    <3>1. queue' = <<>> /\ \A x : ~Has(queue', x)
      BY <2>2, HasEmpty DEF Hears
    <3> QED
      BY <3>1 DEF IInv, QueueOK, DisconnectFirst
  <2> QED
    BY <2>1, <2>2
<1>3. TypeOK'
  BY DEF IInv, TypeOK, Live, Client
<1>4. Told' /\ Corrected'
  BY <1>1, <1>2 DEF IInv, Told, Corrected, ClientIs, Client, UserReplies
<1>5. Uncrossed' /\ LoggingOut'
  BY <1>1, <1>2 DEF IInv, Uncrossed, LoggingOut, Live, Client, UserReplies
<1>6. ASSUME mounts = 1 PROVE FirstMount'
  <2>1. AskedOnce'
    BY <1>1, <1>2, <1>6
       DEF IInv, FirstMount, AskedOnce, Owed, Checking, Answered, Answers, UserReplies
  <2> QED
    BY <1>1, <1>2, <1>6, <2>1 DEF IInv, FirstMount, NotLive, ClientIs, Client, UserReplies
<1> QED
  BY <1>2, <1>3, <1>4, <1>5, <1>6 DEF IInv

-----------------------------------------------------------------------------
(* In a turn.                                                                *)

\* takeLatest starts the request for the state of the login.
LEMMA CheckKeeps == IInv /\ TakeCheckAuthenticated => IInv'
<1> SUFFICES ASSUME IInv, TakeCheckAuthenticated PROVE IInv'
  OBVIOUS
<1> DEFINE puts == <<"checkAuthenticatedStart">>
<1>1. /\ queue # <<>> /\ Head(queue) = "checkAuthenticated"
      /\ http' = http \union {"check"}
      /\ UNCHANGED <<crossed, session, mounted, counters, sockets, asked, setup>>
      /\ Dispatch("checkAuthenticated", puts, FALSE)
  BY Zenon DEF TakeCheckAuthenticated, Task, Starts
<1>2. puts \in Seq(Action) /\ \A x : Has(puts, x) <=> x = "checkAuthenticatedStart"
  BY HasShort DEF Action, Others
<1> HIDE DEF puts
<1>3. /\ QueueOK' /\ DisconnectFirst' /\ \A x \in Alone : ~Has(queue', x)
      /\ Turned(puts) /\ status' = Reduced("checkAuthenticated", status)
      /\ user' = ReducedUser("checkAuthenticated", FALSE)
  BY Zenon, <1>1, <1>2, DispatchTurn DEF IInv, Action, Dispatched, Alone, Answers, counters, UserReplies
<1>4. status' = status /\ user' = user
  BY <1>3 DEF Reduced, ReducedUser
<1>5. effects' = effects
      /\ \A x : Has(queue', x) <=> Has(Tail(queue), x) \/ x = "checkAuthenticatedStart"
  BY Zenon, <1>2, <1>3, <1>4 DEF Turned
<1>6. /\ \A x : Has(queue, x) <=> x = "checkAuthenticated" \/ Has(Tail(queue), x)
  BY <1>1, QueueFacts DEF IInv
<1>7. TypeOK'
  BY <1>1, <1>4 DEF IInv, TypeOK, Live, Client
<1>8. Told' /\ Corrected'
  BY <1>1, <1>4, <1>5, <1>6 DEF IInv, Told, Corrected, ClientIs, Client
<1>9. Uncrossed' /\ LoggingOut'
  BY Zenon, <1>1, <1>3, <1>4, <1>5, <1>6 DEF IInv, Uncrossed, LoggingOut, Live, Client, Alone, UserReplies
<1>10. ASSUME mounts = 1 PROVE FirstMount'
  <2>1. AskedOnce'
    BY <1>1, <1>3, <1>4, <1>5, <1>6, <1>10
       DEF IInv, FirstMount, AskedOnce, Owed, Checking, Answered, Answers, Alone, UserReplies
  <2> QED
    BY Zenon, <1>1, <1>3, <1>4, <1>5, <1>6, <1>10, <2>1
       DEF IInv, FirstMount, NotLive, ClientIs, Client, Alone, counters, UserReplies
<1> QED
  BY <1>1, <1>3, <1>7, <1>8, <1>9, <1>10 DEF IInv, counters

\* App asks for the user.
LEMMA FetchKeeps == IInv /\ TakeFetch => IInv'
<1> SUFFICES ASSUME IInv, TakeFetch PROVE IInv'
  OBVIOUS
<1> USE DEF world, counters
<1>1. /\ queue # <<>> /\ Head(queue) = "fetch"
      /\ UNCHANGED <<world, sockets, setup>>
      /\ Dispatch("fetch", <<>>, setup = "watching")
  BY DEF TakeFetch, Task
<1>2. <<>> \in Seq(Action) /\ \A x : ~Has(<<>>, x)
  BY HasShort
<1>3. /\ QueueOK' /\ DisconnectFirst' /\ \A x \in Alone : ~Has(queue', x)
      /\ Turned(<<>>) /\ status' = Reduced("fetch", status)
      /\ user' = ReducedUser("fetch", setup = "watching")
  BY Zenon, <1>1, <1>2, DispatchTurn DEF IInv, Action, Dispatched
<1>4. status' = status /\ user' \in {user, [user EXCEPT !.loading = TRUE]}
  BY <1>3 DEF Reduced, ReducedUser
<1>11. user'.known = user.known /\ user' \in [loading: BOOLEAN, known: BOOLEAN, errors: BOOLEAN]
  BY <1>4 DEF IInv, TypeOK
<1>5. /\ \A x : Has(queue', x) => Has(Tail(queue), x) \/ Has(effects, x)
      /\ \A x : Has(Tail(queue), x) => Has(queue', x)
      /\ \A x \in {"checkAuthenticated", "websocketConnect"} :
           Has(effects', x) => Has(effects, x) /\ (Has(queue', x) => Has(queue, x))
  BY <1>1, <1>2, <1>3, <1>4, QueueFacts DEF Turned, IInv
<1>6. /\ \A x : Has(queue, x) <=> x = "fetch" \/ Has(Tail(queue), x)
      /\ \A x : x \notin Dispatched => ~Has(effects, x)
  BY <1>1, QueueFacts DEF IInv
<1>7. TypeOK'
  <2>1. asked' \subseteq {"buffered", "sent"}
    BY DEF TakeFetch, IInv, TypeOK
  <2> QED
    BY <1>1, <1>4, <1>11, <2>1 DEF IInv, TypeOK, Live, Client
<1>8. Told' /\ Corrected'
  BY <1>1, <1>4, <1>5, <1>6 DEF IInv, Told, Corrected, ClientIs, Client, Dispatched
<1>9. Uncrossed' /\ LoggingOut'
  BY <1>1, <1>3, <1>4, <1>5, <1>6, <1>11 DEF IInv, Uncrossed, LoggingOut, UserReplies, Live, Client, Alone, Dispatched
<1>10. ASSUME mounts = 1 PROVE FirstMount'
  <2>1. AskedOnce'
    BY <1>1, <1>3, <1>4, <1>5, <1>6, <1>10
       DEF IInv, FirstMount, AskedOnce, Owed, Checking, Answered, Answers, Alone, Dispatched, UserReplies
  <2> QED
    BY <1>1, <1>3, <1>4, <1>5, <1>6, <1>10, <1>11, <2>1
       DEF IInv, FirstMount, NotLive, ClientIs, Client, Alone, Dispatched, UserReplies
<1> QED
  BY <1>1, <1>3, <1>7, <1>8, <1>9, <1>10 DEF IInv

\* The saga says that the connection is there.
LEMMA ReadyKeeps == IInv /\ TakeReady => IInv'
<1> SUFFICES ASSUME IInv, TakeReady PROVE IInv'
  OBVIOUS
<1> USE DEF world, counters
<1> DEFINE puts == IF setup = "ready" THEN <<"websocketConnected">> ELSE <<>>
<1>1. /\ queue # <<>> /\ Head(queue) = "ready"
      /\ UNCHANGED <<world, sockets, asked, status, user, effects>>
      /\ setup' = (IF setup = "ready" THEN "watching" ELSE setup)
      /\ queue' = Tail(queue) \o puts
  BY DEF TakeReady, Task
<1>2. puts \in Seq(Action) /\ \A x : Has(puts, x) <=> x = "websocketConnected" /\ setup = "ready"
  <2>1. <<>> \in Seq(Action) /\ <<"websocketConnected">> \in Seq(Action)
    BY DEF Action, Others
  <2> QED
    BY <2>1, HasShort
<1> HIDE DEF puts
<1>3. QueueOK' /\ DisconnectFirst' /\ \A x \in Alone : ~Has(queue', x)
  <2>1. effects' \in Seq(Dispatched) /\ (~mounted => effects' = effects)
    BY <1>1 DEF IInv, QueueOK
  <2>2. (\A x \in Alone : ~Has(puts, x)) /\ ~Has(puts, "websocketDisconnect")
    BY <1>2 DEF Alone, Answers, UserReplies
  <2>3. QueueOK /\ DisconnectFirst /\ UNCHANGED <<mounted, mounts>>
    BY <1>1 DEF IInv
  <2> QED
    BY Zenon, <1>1, <1>2, <2>1, <2>2, <2>3, TurnQueue
<1>4. \A x : Has(queue', x)
               <=> Has(Tail(queue), x) \/ (x = "websocketConnected" /\ setup = "ready")
  <2>1. Tail(queue) \in Seq(Action)
    BY <1>1, HasTail DEF IInv, QueueOK
  <2> QED
    BY Zenon, <1>1, <1>2, <2>1, HasConcat
<1>5. \A x : Has(queue, x) <=> x = "ready" \/ Has(Tail(queue), x)
  BY <1>1, QueueFacts DEF IInv
<1>6. ~Has(queue, "websocketDisconnect")
  BY <1>1, BeforeHead DEF IInv, QueueOK, DisconnectFirst
<1>7. TypeOK'
  BY <1>1 DEF IInv, TypeOK, Live, Client
<1>8. Told'
  BY <1>1, <1>4, <1>5, <1>6 DEF IInv, Told, ClientIs, Client
<1>9. Corrected'
  BY <1>1, <1>4, <1>5, <1>6 DEF IInv, Told, Corrected, ClientIs, Client
<1>10. Uncrossed' /\ LoggingOut'
  BY <1>1, <1>3, <1>4, <1>5, <1>6 DEF IInv, Uncrossed, LoggingOut, Live, Client, Alone, UserReplies
<1>11. ASSUME mounts = 1 PROVE FirstMount'
  <2>1. AskedOnce'
    BY <1>1, <1>3, <1>4, <1>5, <1>11
       DEF IInv, FirstMount, AskedOnce, Owed, Checking, Answered, Answers, Alone, UserReplies
  <2> QED
    BY <1>1, <1>3, <1>4, <1>5, <1>6, <1>11, <2>1
       DEF IInv, FirstMount, NotLive, ClientIs, Client, Alone, UserReplies
<1> QED
  BY <1>1, <1>3, <1>7, <1>8, <1>9, <1>10, <1>11 DEF IInv

\* The race takes the disconnect: the store is right when it hears of it.
LEMMA DisconnectWatching == IInv /\ TakeDisconnect /\ setup = "watching" => IInv'
<1> SUFFICES ASSUME IInv, TakeDisconnect, setup = "watching" PROVE IInv'
  OBVIOUS
<1> USE DEF world, counters
<1>1. PICK after \in {<<>>, <<"websocketError">>} :
        Dispatch("websocketDisconnect", <<"websocketDisconnected">> \o after, FALSE)
  BY Zenon DEF TakeDisconnect
<1> DEFINE puts == <<"websocketDisconnected">> \o after
<1>2. /\ queue # <<>> /\ Head(queue) = "websocketDisconnect"
      /\ UNCHANGED world
      /\ sockets' = [sockets EXCEPT ![Client] = "closed"]
      /\ asked' = {} /\ setup' = "ended"
  BY DEF TakeDisconnect, Task
<1>3. /\ puts \in Seq(Action)
      /\ \A x : Has(puts, x) => x \in {"websocketDisconnected", "websocketError"}
  <2>1. /\ <<"websocketDisconnected">> \in Seq(Action) /\ after \in Seq(Action)
        /\ \A x : Has(after, x) => x = "websocketError"
    <3>1. <<>> \in Seq(Action) /\ <<"websocketError">> \in Seq(Action)
          /\ <<"websocketDisconnected">> \in Seq(Action)
      BY DEF Action, Others
    <3>2. \A x : ~Has(<<>>, x) /\ (Has(<<"websocketError">>, x) => x = "websocketError")
      BY HasShort
    <3>3. CASE after = <<>>
      BY <3>1, <3>2, <3>3
    <3>4. CASE after = <<"websocketError">>
      BY <3>1, <3>2, <3>4
    <3> QED
      BY <3>3, <3>4
  <2>2. \A x : Has(puts, x) <=> Has(<<"websocketDisconnected">>, x) \/ Has(after, x)
    BY Zenon, <2>1, HasConcat
  <2>3. puts \in Seq(Action)
    BY <2>1
  <2> QED
    BY <2>1, <2>2, <2>3, HasShort
<1>4. Dispatch("websocketDisconnect", puts, FALSE)
  BY Zenon, <1>1
<1> HIDE DEF puts
<1>5. /\ QueueOK' /\ DisconnectFirst' /\ \A x \in Alone : ~Has(queue', x)
      /\ Turned(puts) /\ status' = Reduced("websocketDisconnect", status)
      /\ user' = ReducedUser("websocketDisconnect", FALSE)
  BY Zenon, <1>2, <1>3, <1>4, DispatchTurn DEF IInv, Action, Others, Alone, Answers, UserReplies
<1>6. status' = status /\ user' = user
  BY <1>5 DEF Reduced, ReducedUser
<1>7. effects' = effects
      /\ \A x : Has(queue', x) <=> Has(Tail(queue), x) \/ Has(puts, x)
  BY Zenon, <1>5, <1>6 DEF Turned
<1>8. \A x : Has(queue, x) <=> x = "websocketDisconnect" \/ Has(Tail(queue), x)
  BY <1>2, QueueFacts DEF IInv
<1>9. /\ sockets' \in Seq({"connecting", "open", "waiting", "closed"})
      /\ Client' = Client /\ sockets'[Client] = "closed" /\ sockets' # <<>>
      /\ Live' = Live \ {Client}
  <2>1. /\ sockets \in Seq({"connecting", "open", "waiting", "closed"})
        /\ Client \in DOMAIN sockets /\ DOMAIN sockets = 1 .. Len(sockets)
    BY DEF IInv, TypeOK, Live
  <2>2. /\ sockets' \in Seq({"connecting", "open", "waiting", "closed"})
        /\ Len(sockets') = Len(sockets) /\ DOMAIN sockets' = DOMAIN sockets
        /\ \A j \in DOMAIN sockets : sockets'[j] = IF j = Client THEN "closed" ELSE sockets[j]
    BY <1>2, <2>1
  <2>3. sockets' # <<>>
    BY <2>1, <2>2
  <2>4. Live' = Live \ {Client}
    BY <2>2 DEF Live
  <2> QED
    BY <2>1, <2>2, <2>3, <2>4 DEF Client
<1>10. TypeOK'
  BY <1>2, <1>6, <1>9 DEF IInv, TypeOK
<1>11. Told'
  BY <1>2, <1>3, <1>6, <1>7, <1>8, <1>9 DEF IInv, Told, ClientIs
<1>12. Corrected'
  BY <1>2, <1>6, <1>8, <1>9 DEF IInv, Told, Corrected
<1>13. Uncrossed' /\ LoggingOut'
  BY Zenon, <1>2, <1>3, <1>5, <1>6, <1>7, <1>8, <1>9 DEF IInv, Uncrossed, LoggingOut, Alone, UserReplies
<1>14. ASSUME mounts = 1 PROVE FirstMount'
  <2>1. AskedOnce'
    BY <1>2, <1>3, <1>5, <1>6, <1>7, <1>8, <1>14
       DEF IInv, FirstMount, AskedOnce, Owed, Checking, Answered, Answers, Alone, UserReplies
  <2> QED
    BY Zenon, <1>2, <1>3, <1>5, <1>6, <1>7, <1>8, <1>9, <1>14, <2>1
       DEF IInv, FirstMount, NotLive, ClientIs, Alone, UserReplies
<1> QED
  BY <1>2, <1>5, <1>10, <1>11, <1>12, <1>13, <1>14 DEF IInv

\* Nobody takes the disconnect.
LEMMA DisconnectLost == IInv /\ TakeDisconnect /\ setup # "watching" => IInv'
<1> SUFFICES ASSUME IInv, TakeDisconnect, setup # "watching" PROVE IInv'
  OBVIOUS
<1> USE DEF world, counters
<1>1. /\ queue # <<>> /\ Head(queue) = "websocketDisconnect"
      /\ UNCHANGED <<world, sockets, asked, setup>>
      /\ Dispatch("websocketDisconnect", <<>>, FALSE)
  BY Zenon DEF TakeDisconnect, Task
<1>2. <<>> \in Seq(Action) /\ \A x : ~Has(<<>>, x)
  BY HasShort
<1>3. /\ QueueOK' /\ DisconnectFirst' /\ \A x \in Alone : ~Has(queue', x)
      /\ Turned(<<>>) /\ status' = Reduced("websocketDisconnect", status)
      /\ user' = ReducedUser("websocketDisconnect", FALSE)
  BY Zenon, <1>1, <1>2, DispatchTurn DEF IInv, Action, Others
<1>4. status' = status /\ user' = user
  BY <1>3 DEF Reduced, ReducedUser
<1>5. effects' = effects /\ \A x : Has(queue', x) <=> Has(Tail(queue), x)
  BY Zenon, <1>2, <1>3, <1>4 DEF Turned
<1>6. \A x : Has(queue, x) <=> x = "websocketDisconnect" \/ Has(Tail(queue), x)
  BY <1>1, QueueFacts DEF IInv
<1>7. TypeOK'
  BY <1>1, <1>4 DEF IInv, TypeOK, Live, Client
<1>8. Told' /\ Corrected'
  BY <1>1, <1>4, <1>5, <1>6 DEF IInv, Told, Corrected, ClientIs, Client
<1>9. Uncrossed' /\ LoggingOut'
  BY Zenon, <1>1, <1>3, <1>4, <1>5, <1>6 DEF IInv, Uncrossed, LoggingOut, Live, Client, Alone, UserReplies
<1>10. ASSUME mounts = 1 PROVE FirstMount'
  <2>1. AskedOnce'
    BY <1>1, <1>3, <1>4, <1>5, <1>6, <1>10
       DEF IInv, FirstMount, AskedOnce, Owed, Checking, Answered, Answers, Alone, UserReplies
  <2>2. NotLive /\ setup \in {"none", "ended"}
    <3>1. Live = {}
      BY <1>6, <1>10 DEF IInv, FirstMount, Uncrossed
    <3>2. sockets = <<>> \/ Client \in DOMAIN sockets
      BY DEF IInv, TypeOK, Client
    <3> QED
      BY <3>1, <3>2 DEF IInv, TypeOK, Live, NotLive, ClientIs
  <2> QED
    BY Zenon, <1>1, <1>3, <1>4, <1>5, <1>6, <1>10, <2>1, <2>2
       DEF IInv, FirstMount, NotLive, ClientIs, Client, Alone, UserReplies
<1> QED
  BY <1>1, <1>3, <1>7, <1>8, <1>9, <1>10 DEF IInv

\* Connecting: what every way of it has in common.
LEMMA ConnectTurn ==
  ASSUME IInv, Task("websocketConnect"), NEW puts \in Seq(Action),
         Dispatch("websocketConnect", puts, FALSE), UNCHANGED <<mounted, mounts>>,
         \A x : Has(puts, x) => x \in {"ready", "websocketError"}
  PROVE  /\ QueueOK' /\ DisconnectFirst' /\ \A x \in Alone : ~Has(queue', x)
         /\ status' \in Status /\ user' = user
         /\ ~status'.connected /\ status'.connecting
         /\ status'.authenticated = status.authenticated
         /\ status'.authenticating = status.authenticating
         /\ \A x : Has(queue, x) <=> x = "websocketConnect" \/ Has(Tail(queue), x)
         /\ \A x : Has(queue', x) => Has(queue, x) \/ Has(effects, x) \/ Has(puts, x)
         /\ \A x : Has(puts, x) \/ (x # "websocketConnect" /\ Has(queue, x)) => Has(queue', x)
         /\ \A x : x \notin Dispatched => ~Has(effects, x)
         /\ \A x \in {"checkAuthenticated", "websocketConnect"} :
              Has(effects', x) => Has(effects, x) /\ (Has(queue', x) => Has(queue, x))
         /\ Has(effects', "websocketConnect") => status.connecting
<1>1. queue # <<>> /\ Head(queue) = "websocketConnect"
  BY DEF Task
<1>2. /\ QueueOK' /\ DisconnectFirst' /\ \A x \in Alone : ~Has(queue', x)
      /\ Turned(puts) /\ status' = Reduced("websocketConnect", status) /\ status' \in Status
      /\ user' = ReducedUser("websocketConnect", FALSE)
  <2>1. (\A x \in Alone : ~Has(puts, x)) /\ ~Has(puts, "websocketDisconnect")
    BY DEF Alone, Answers, UserReplies
  <2>2. TypeOK /\ QueueOK /\ DisconnectFirst /\ "websocketConnect" \in Action
    BY DEF IInv, Action, Dispatched
  <2> QED
    BY Zenon, <1>1, <2>1, <2>2, DispatchTurn
<1>3. status \in Status
  BY DEF IInv, TypeOK, Status
<1>4. /\ ~status'.connected /\ status'.connecting
      /\ status'.authenticated = status.authenticated
      /\ status'.authenticating = status.authenticating
  BY Zenon, <1>2, <1>3 DEF Reduced, Status
<1>5. user' = user
  BY <1>2 DEF ReducedUser
<1>6. /\ \A x : x \notin Dispatched => ~Has(effects, x)
      /\ ~mounted => \A x : ~Has(effects, x)
      /\ \A x : Has(queue, x) <=> x = "websocketConnect" \/ Has(Tail(queue), x)
  BY <1>1, QueueFacts DEF IInv
<1>7. /\ \A x : Has(queue', x) => Has(queue, x) \/ Has(effects, x) \/ Has(puts, x)
      /\ \A x : Has(puts, x) \/ (x # "websocketConnect" /\ Has(queue, x)) => Has(queue', x)
  BY Zenon, <1>2, <1>6 DEF Turned
<1>8. \A x \in {"checkAuthenticated", "websocketConnect"} :
        Has(effects', x) => Has(effects, x) /\ (Has(queue', x) => Has(queue, x))
  BY Zenon, <1>2, <1>4, <1>6 DEF Turned
<1>9. Has(effects', "websocketConnect") => status.connecting
  BY Zenon, <1>2, <1>4, <1>6 DEF Turned
<1> QED
  BY Zenon, <1>2, <1>4, <1>5, <1>6, <1>7, <1>8, <1>9

\* A socket is made: the last one, if there is one, was closed for good, unless
\* this is a crossing.
LEMMA ConnectCreates ==
  ASSUME IInv, TakeConnect, creates, sockets' = Append(sockets, "connecting"), asked' = {},
         setup' = "creating", Dispatch("websocketConnect", <<>>, FALSE)
  PROVE  IInv'
<1>1. /\ Task("websocketConnect") /\ UNCHANGED <<session, http, mounted, mounts, logins, drops>>
      /\ crossed' = \/ crossed \/ ~session \/ ClientIs("waiting")
                    \/ setup = "watching" /\ ~ClientIs("open")
  BY DEF TakeConnect
<1>2. <<>> \in Seq(Action) /\ \A x : ~Has(<<>>, x)
  BY HasShort
<1>3. /\ QueueOK' /\ DisconnectFirst' /\ \A x \in Alone : ~Has(queue', x)
      /\ status' \in Status /\ user' = user
      /\ ~status'.connected /\ status'.connecting
      /\ status'.authenticated = status.authenticated
      /\ status'.authenticating = status.authenticating
      /\ \A x : Has(queue, x) <=> x = "websocketConnect" \/ Has(Tail(queue), x)
      /\ \A x : Has(queue', x) => Has(queue, x) \/ Has(effects, x)
      /\ \A x : x # "websocketConnect" /\ Has(queue, x) => Has(queue', x)
      /\ \A x : x \notin Dispatched => ~Has(effects, x)
      /\ \A x \in {"checkAuthenticated", "websocketConnect"} :
           Has(effects', x) => Has(effects, x) /\ (Has(queue', x) => Has(queue, x))
      /\ Has(effects', "websocketConnect") => status.connecting
  BY Zenon, <1>1, <1>2, ConnectTurn
<1>4. /\ sockets' \in Seq({"connecting", "open", "waiting", "closed"})
      /\ sockets' # <<>> /\ sockets'[Client'] = "connecting" /\ ~ClientIs("open")
      /\ Client' \in Live' /\ Live' \subseteq Live \union {Client'}
      /\ ~crossed' => Live = {}
  <2>1. /\ sockets \in Seq({"connecting", "open", "waiting", "closed"})
        /\ Len(sockets) \in Nat /\ DOMAIN sockets = 1 .. Len(sockets)
    BY DEF IInv, TypeOK
  <2>2. /\ sockets' \in Seq({"connecting", "open", "waiting", "closed"})
        /\ Len(sockets') = Len(sockets) + 1 /\ DOMAIN sockets' = 1 .. Len(sockets) + 1
        /\ \A j \in 1 .. Len(sockets) + 1 :
             sockets'[j] = IF j <= Len(sockets) THEN sockets[j] ELSE "connecting"
    BY <2>1
  <2>3. sockets' # <<>> /\ sockets'[Client'] = "connecting" /\ Client' \in DOMAIN sockets'
    BY <2>1, <2>2 DEF Client
  <2>4. Client' \in Live' /\ Live' \subseteq Live \union {Client'}
    BY <2>1, <2>2, <2>3 DEF Live, Client
  <2>5. ~ClientIs("open")
    BY <2>1 DEF creates, ClientIs
  <2>6. ~crossed' => Live = {}
    BY <1>1, <2>1 DEF IInv, Uncrossed, creates, ClientIs, Live, Client
  <2> QED
    BY <2>2, <2>3, <2>4, <2>5, <2>6
<1>5. ClientIs("connecting")' /\ ~ClientIs("open")' /\ ~ClientIs("waiting")'
  BY Zenon, <1>4 DEF ClientIs
<1>6. TypeOK'
  <2>1. crossed' \in BOOLEAN /\ errors' = errors
    BY <1>1 DEF TakeConnect
  <2> QED
    BY <1>1, <1>3, <1>4, <2>1 DEF IInv, TypeOK, Status
<1>7. Told' /\ Corrected'
  BY <1>3, <1>4, <1>5 DEF IInv, Told, Corrected, Dispatched
<1>8. Uncrossed'
  <2> SUFFICES ASSUME ~crossed' PROVE Uncrossed'
    BY DEF Uncrossed
  <2>1. session /\ ~crossed /\ setup # "watching" /\ setup # "ready"
    BY <1>1, <1>4 DEF IInv, Told, TypeOK
  <2>2. ~user.known /\ "logout" \notin http
    BY <2>1 DEF IInv, Uncrossed
  <2>3. ~Has(queue', "logoutSuccess") /\ ~Has(queue', "websocketDisconnect")
    BY <1>3, <2>1 DEF IInv, LoggingOut, Alone, Dispatched, UserReplies
  <2> QED
    BY <1>1, <1>3, <1>4, <2>1, <2>2, <2>3 DEF Uncrossed
<1>9. LoggingOut'
  BY <1>1, <1>3 DEF IInv, LoggingOut, Alone, Dispatched, UserReplies
<1>10. ASSUME mounts = 1 PROVE FirstMount'
  <2>1. AskedOnce'
    BY <1>1, <1>3, <1>10
       DEF IInv, FirstMount, AskedOnce, Owed, Checking, Answered, Answers, Alone, Dispatched, UserReplies
  <2>2. ~crossed' /\ session /\ status.authenticated
    BY <1>1, <1>3, <1>10 DEF IInv, FirstMount
  <2>3. ~Has(effects', "websocketConnect")
    BY <1>3, <1>10 DEF IInv, FirstMount
  <2> QED
    BY <1>1, <1>3, <1>5, <2>1, <2>2, <2>3 DEF FirstMount, Alone, UserReplies
<1> QED
  BY <1>1, <1>3, <1>6, <1>7, <1>8, <1>9, <1>10 DEF IInv

\* No socket can be made.
LEMMA ConnectFails ==
  ASSUME IInv, TakeConnect, creates, setup' = "ended",
         Dispatch("websocketConnect", <<"websocketError">>, FALSE), UNCHANGED <<sockets, asked>>
  PROVE  IInv'
<1>1. /\ Task("websocketConnect") /\ UNCHANGED <<session, http, mounted, mounts, logins, drops>>
      /\ crossed' = \/ crossed \/ ~session \/ ClientIs("waiting")
                    \/ setup = "watching" /\ ~ClientIs("open")
  BY DEF TakeConnect
<1> DEFINE puts == <<"websocketError">>
<1>2. puts \in Seq(Action) /\ \A x : Has(puts, x) <=> x = "websocketError"
  BY HasShort DEF Action, Others
<1> HIDE DEF puts
<1>3. /\ QueueOK' /\ DisconnectFirst' /\ \A x \in Alone : ~Has(queue', x)
      /\ status' \in Status /\ user' = user
      /\ ~status'.connected /\ status'.connecting
      /\ status'.authenticated = status.authenticated
      /\ status'.authenticating = status.authenticating
      /\ \A x : Has(queue, x) <=> x = "websocketConnect" \/ Has(Tail(queue), x)
      /\ \A x : Has(queue', x) => Has(queue, x) \/ Has(effects, x) \/ x = "websocketError"
      /\ \A x : x # "websocketConnect" /\ Has(queue, x) => Has(queue', x)
      /\ \A x : x \notin Dispatched => ~Has(effects, x)
      /\ \A x \in {"checkAuthenticated", "websocketConnect"} :
           Has(effects', x) => Has(effects, x) /\ (Has(queue', x) => Has(queue, x))
      /\ Has(effects', "websocketConnect") => status.connecting
  <2>1. Dispatch("websocketConnect", puts, FALSE)
    BY Zenon DEF puts
  <2> QED
    BY Zenon, <1>1, <1>2, <2>1, ConnectTurn
<1>4. ~ClientIs("open") /\ Live' = Live /\ Client' = Client
  BY DEF creates, ClientIs, Live, Client
<1>5. ClientIs("open")' = ClientIs("open") /\ ClientIs("waiting")' = ClientIs("waiting")
  BY DEF ClientIs, Client
<1>6. TypeOK'
  <2>1. crossed' \in BOOLEAN
    BY <1>1
  <2> QED
    BY <1>1, <1>3, <2>1 DEF IInv, TypeOK, Status
<1>7. Told' /\ Corrected'
  BY <1>3, <1>4, <1>5 DEF IInv, Told, Corrected, Dispatched
<1>8. Uncrossed'
  <2> SUFFICES ASSUME ~crossed' PROVE Uncrossed'
    BY DEF Uncrossed
  <2>1. session /\ ~crossed /\ setup # "watching" /\ setup # "ready"
    BY <1>1, <1>4 DEF IInv, Told, TypeOK
  <2>2. ~user.known /\ "logout" \notin http
    BY <2>1 DEF IInv, Uncrossed
  <2>3. ~Has(queue', "logoutSuccess") /\ ~Has(queue', "websocketDisconnect")
    BY <1>3, <2>1 DEF IInv, LoggingOut, Alone, Dispatched, UserReplies
  <2> QED
    BY <1>1, <1>3, <1>4, <2>1, <2>2, <2>3 DEF IInv, Uncrossed
<1>9. LoggingOut'
  BY <1>1, <1>3 DEF IInv, LoggingOut, Alone, Dispatched, UserReplies
<1>10. ASSUME mounts = 1 PROVE FirstMount'
  <2>1. AskedOnce'
    BY <1>1, <1>3, <1>10
       DEF IInv, FirstMount, AskedOnce, Owed, Checking, Answered, Answers, Alone, Dispatched, UserReplies
  <2>2. ~crossed' /\ session /\ status.authenticated /\ ~ClientIs("waiting")
    BY <1>1, <1>3, <1>10 DEF IInv, FirstMount
  <2>3. ~Has(effects', "websocketConnect")
    BY <1>3, <1>10 DEF IInv, FirstMount
  <2> QED
    BY <1>1, <1>3, <1>4, <1>5, <2>1, <2>2, <2>3 DEF FirstMount, Alone, UserReplies
<1> QED
  BY <1>1, <1>3, <1>6, <1>7, <1>8, <1>9, <1>10 DEF IInv

\* The socket that is there is used again.
LEMMA ConnectReuses ==
  ASSUME IInv, TakeConnect, ~creates,
         setup' = (IF ClientIs("open") THEN "ready" ELSE "creating"),
         Dispatch("websocketConnect", IF ClientIs("open") THEN <<"ready">> ELSE <<>>, FALSE),
         UNCHANGED <<sockets, asked>>
  PROVE  IInv'
<1>1. /\ Task("websocketConnect") /\ UNCHANGED <<session, http, mounted, mounts, logins, drops>>
      /\ crossed' = \/ crossed \/ ~session \/ ClientIs("waiting")
                    \/ setup = "watching" /\ ~ClientIs("open")
  BY DEF TakeConnect
<1> DEFINE puts == IF ClientIs("open") THEN <<"ready">> ELSE <<>>
<1>2. puts \in Seq(Action) /\ \A x : Has(puts, x) <=> x = "ready" /\ ClientIs("open")
  <2>1. <<"ready">> \in Seq(Action) /\ <<>> \in Seq(Action)
    BY DEF Action, Others
  <2> QED
    BY <2>1, HasShort
<1>3. /\ QueueOK' /\ DisconnectFirst' /\ \A x \in Alone : ~Has(queue', x)
      /\ status' \in Status /\ user' = user
      /\ ~status'.connected /\ status'.connecting
      /\ status'.authenticated = status.authenticated
      /\ status'.authenticating = status.authenticating
      /\ \A x : Has(queue, x) <=> x = "websocketConnect" \/ Has(Tail(queue), x)
      /\ \A x : Has(queue', x) => Has(queue, x) \/ Has(effects, x) \/ x = "ready"
      /\ ClientIs("open") => Has(queue', "ready")
      /\ \A x : x # "websocketConnect" /\ Has(queue, x) => Has(queue', x)
      /\ \A x : x \notin Dispatched => ~Has(effects, x)
      /\ \A x \in {"checkAuthenticated", "websocketConnect"} :
           Has(effects', x) => Has(effects, x) /\ (Has(queue', x) => Has(queue, x))
      /\ Has(effects', "websocketConnect") => status.connecting
  <2>1. Dispatch("websocketConnect", puts, FALSE)
    BY Zenon
  <2> HIDE DEF puts
  <2> QED
    BY Zenon, <1>1, <1>2, <2>1, ConnectTurn
<1>4. Live' = Live /\ Client' = Client /\ Client \in Live
  <2>1. sockets \in Seq({"connecting", "open", "waiting", "closed"}) /\ sockets # <<>>
    BY DEF creates, IInv, TypeOK
  <2>2. Client \in DOMAIN sockets
    BY <2>1 DEF Client
  <2> QED
    BY <2>1, <2>2 DEF creates, ClientIs, Live, Client
<1>5. ClientIs("open")' = ClientIs("open") /\ ClientIs("waiting")' = ClientIs("waiting")
  BY DEF ClientIs, Client
<1>6. TypeOK'
  <2>1. crossed' \in BOOLEAN /\ setup' \in {"creating", "ready"}
    BY <1>1
  <2> QED
    BY <1>1, <1>3, <1>4, <2>1 DEF IInv, TypeOK, Status
<1>7. Told' /\ Corrected'
  BY <1>3, <1>5 DEF IInv, Told, Corrected, Dispatched
<1>8. Uncrossed'
  <2> SUFFICES ASSUME ~crossed' PROVE Uncrossed'
    BY DEF Uncrossed
  <2>1. session /\ ~crossed /\ (setup = "watching" => ClientIs("open"))
    BY <1>1 DEF IInv, TypeOK
  <2>2. user.known \/ "logout" \in http => setup' = "ready"
    BY <2>1 DEF IInv, Uncrossed, Told
  <2>3. ~Has(queue', "logoutSuccess") /\ ~Has(queue', "websocketDisconnect")
    BY <1>3, <2>1 DEF IInv, LoggingOut, Alone, Dispatched, UserReplies
  <2> QED
    BY <1>1, <1>3, <1>4, <2>1, <2>2, <2>3 DEF IInv, Uncrossed
<1>9. LoggingOut'
  BY <1>1, <1>3 DEF IInv, LoggingOut, Alone, Dispatched, UserReplies
<1>10. ASSUME mounts = 1 PROVE FirstMount'
  <2>1. AskedOnce'
    BY <1>1, <1>3, <1>10
       DEF IInv, FirstMount, AskedOnce, Owed, Checking, Answered, Answers, Alone, Dispatched, UserReplies
  <2>2. ~crossed' /\ session /\ status.authenticated /\ ~ClientIs("waiting") /\ ~ClientIs("open")
    BY <1>1, <1>3, <1>10 DEF IInv, FirstMount
  <2>3. ~Has(effects', "websocketConnect")
    BY <1>3, <1>10 DEF IInv, FirstMount
  <2> QED
    BY <1>1, <1>3, <1>5, <2>1, <2>2, <2>3 DEF FirstMount, Alone, UserReplies
<1> QED
  BY <1>1, <1>3, <1>6, <1>7, <1>8, <1>9, <1>10 DEF IInv

\* App connects.
LEMMA ConnectKeeps == IInv /\ TakeConnect => IInv'
<1> SUFFICES ASSUME IInv, TakeConnect PROVE IInv'
  OBVIOUS
<1> QED
  BY Zenon, ConnectCreates, ConnectFails, ConnectReuses DEF TakeConnect

\* What a plain action leaves: the queue with what a login or a logout puts, and with
\* the effects of App if it renders.
Plain(a) ==
  /\ a = Head(queue) /\ queue # <<>> /\ a \in Action
  /\ UNCHANGED <<world, sockets, setup>>
  /\ status' = Reduced(a, status) /\ user' = ReducedUser(a, FALSE)
  /\ \A x : Has(queue, x) <=> x = a \/ Has(Tail(queue), x)
  /\ a \in Alone => \A x : Has(queue, x) <=> x = a
  /\ \A x : x \notin Dispatched => ~Has(effects, x)
  /\ \A x : Has(queue', x) =>
       \/ Has(Tail(queue), x) \/ Has(effects, x)
       \/ (a = "loginSuccess" /\ x = "websocketConnect")
       \/ (a = "logoutSuccess" /\ x = "websocketDisconnect")
  /\ \A x : x # a /\ Has(queue, x) => Has(queue', x)
  /\ a = "logoutSuccess" => Has(queue', "websocketDisconnect")
  /\ \/ /\ effects' = effects
        /\ ~mounted => \A x : ~Has(effects, x)
        /\ mounted => status' = status /\ user' = user
        /\ Has(queue', "checkAuthenticated") => Has(queue, "checkAuthenticated")
     \/ /\ Has(effects', "checkAuthenticated") <=> status.authenticated /\ ~status'.authenticated
        /\ Has(effects', "websocketConnect") <=> ~status.authenticated /\ status'.authenticated

\* TakePlain is such a step, and keeps the types and the shape of the queue.
LEMMA PlainTurn ==
  ASSUME IInv, TakePlain
  PROVE  /\ Plain(Head(queue)) /\ status' \in Status
         /\ TypeOK' /\ QueueOK' /\ DisconnectFirst' /\ \A x \in Alone : ~Has(queue', x)
<1> DEFINE a == Head(queue)
           puts == FollowUp(a)
<1>1. /\ queue # <<>> /\ UNCHANGED <<world, sockets, asked, setup>> /\ Dispatch(a, puts, FALSE)
      /\ UNCHANGED <<mounted, mounts>>
  BY Zenon DEF TakePlain, world, counters
<1>2. /\ \A x : x \notin Dispatched => ~Has(effects, x)
      /\ ~mounted => \A x : ~Has(effects, x)
      /\ a \in Action
      /\ \A x : Has(queue, x) <=> a = x \/ Has(Tail(queue), x)
      /\ a \in Alone => Tail(queue) = <<>> /\ \A x : ~Has(Tail(queue), x)
  BY <1>1, QueueFacts DEF IInv
<1>3. /\ puts \in Seq(Action)
      /\ \A x : Has(puts, x) <=>
           \/ (a = "loginSuccess" /\ x = "websocketConnect")
           \/ (a = "logoutSuccess" /\ x = "websocketDisconnect")
      /\ a = "logoutSuccess" => puts = <<"websocketDisconnect">>
  <2>1. /\ <<"websocketConnect">> \in Seq(Action) /\ <<"websocketDisconnect">> \in Seq(Action)
        /\ <<>> \in Seq(Action)
    BY DEF Action, Others, Dispatched
  <2>2. /\ \A x : ~Has(<<>>, x)
        /\ \A x : Has(<<"websocketConnect">>, x) <=> x = "websocketConnect"
        /\ \A x : Has(<<"websocketDisconnect">>, x) <=> x = "websocketDisconnect"
    BY HasShort
  <2>3. CASE a = "loginSuccess"
    <3>1. puts = <<"websocketConnect">>
      BY <2>3 DEF FollowUp
    <3> QED
      BY Zenon, <2>1, <2>2, <2>3, <3>1
  <2>4. CASE a = "logoutSuccess"
    BY <2>1, <2>2, <2>4 DEF FollowUp
  <2>5. CASE a \notin {"loginSuccess", "logoutSuccess"}
    BY <2>1, <2>2, <2>5 DEF FollowUp
  <2> QED
    BY <2>3, <2>4, <2>5
<1> HIDE DEF a, puts
<1>4. /\ status' = Reduced(a, status) /\ status' \in Status /\ user' = ReducedUser(a, FALSE)
      /\ QueueOK' /\ DisconnectFirst' /\ \A x \in Alone : ~Has(queue', x)
      /\ Turned(puts)
  <2>1. \A x \in Alone : ~Has(puts, x)
    BY <1>3 DEF Alone, Answers, UserReplies
  <2>2. \/ ~Has(puts, "websocketDisconnect")
        \/ Tail(queue) = <<>> /\ puts = <<"websocketDisconnect">>
    BY <1>2, <1>3 DEF Alone, UserReplies
  <2>3. TypeOK /\ QueueOK /\ DisconnectFirst
    BY DEF IInv
  <2> QED
    BY Zenon, <1>1, <1>2, <1>3, <2>1, <2>2, <2>3, DispatchTurn
<1>5. TypeOK'
  <2>1. user' \in [loading: BOOLEAN, known: BOOLEAN, errors: BOOLEAN]
    BY <1>4 DEF IInv, TypeOK, ReducedUser, nobody
  <2> QED
    BY Zenon, <1>1, <1>4, <2>1 DEF IInv, TypeOK, Live, Client, world, Status
<1>6. /\ \A x : Has(queue', x) => Has(Tail(queue), x) \/ Has(effects, x) \/ Has(puts, x)
      /\ \A x : Has(Tail(queue), x) \/ Has(puts, x) => Has(queue', x)
  BY Zenon, <1>4 DEF Turned
<1>7. \/ /\ effects' = effects
         /\ ~mounted => \A x : ~Has(effects, x)
         /\ mounted => status' = status /\ user' = user
         /\ Has(queue', "checkAuthenticated") => Has(queue, "checkAuthenticated")
      \/ /\ Has(effects', "checkAuthenticated") <=> status.authenticated /\ ~status'.authenticated
         /\ Has(effects', "websocketConnect") <=> ~status.authenticated /\ status'.authenticated
  <2>1. ~Has(puts, "checkAuthenticated")
    BY <1>3
  <2>2. Has(Tail(queue), "checkAuthenticated") => Has(queue, "checkAuthenticated")
    BY <1>2
  <2> QED
    BY Zenon, <1>2, <1>4, <2>1, <2>2 DEF Turned
<1>8. Plain(a)
  BY Zenon, <1>1, <1>2, <1>3, <1>4, <1>6, <1>7 DEF Plain, a
<1> QED
  BY <1>4, <1>5, <1>8 DEF a

\* The requests of the http sagas that start, and a logout that fails.
LEMMA StartsKeep ==
  ASSUME IInv, NEW a \in {"checkAuthenticatedStart", "loginStart", "logoutStart", "logoutError"},
         Plain(a), \A x \in Alone : ~Has(queue', x)
  PROVE  Told' /\ Corrected' /\ Uncrossed' /\ LoggingOut' /\ (mounts' = 1 => FirstMount')
<1> USE DEF Plain, world, counters
<1>1. /\ status'.connected = status.connected /\ status'.connecting = status.connecting
      /\ status'.authenticated = status.authenticated
      /\ status.authenticating => status'.authenticating
      /\ a = "checkAuthenticatedStart" => status'.authenticating
      /\ user' = user
  BY Zenon DEF Reduced, ReducedUser, IInv, TypeOK
<1>2. Told' /\ Corrected'
  BY <1>1 DEF IInv, Told, Corrected, ClientIs, Client, Dispatched
<1>3. Uncrossed' /\ LoggingOut'
  BY Zenon, <1>1 DEF IInv, Uncrossed, LoggingOut, Live, Client, Dispatched, Alone, UserReplies
<1>4. ASSUME mounts = 1 PROVE FirstMount'
  <2>1. AskedOnce'
    BY Zenon, <1>1, <1>4
       DEF IInv, FirstMount, AskedOnce, Owed, Checking, Answered, Answers, Alone, Dispatched, UserReplies
  <2> QED
    BY Zenon, <1>1, <1>4, <2>1 DEF IInv, FirstMount, NotLive, ClientIs, Client, Alone, Dispatched, UserReplies
<1> QED
  BY <1>2, <1>3, <1>4

\* The answers to who is logged in.
LEMMA AnswersKeep ==
  ASSUME IInv, NEW a \in Answers, Plain(a), \A x \in Alone : ~Has(queue', x)
  PROVE  Told' /\ Corrected' /\ Uncrossed' /\ LoggingOut' /\ (mounts' = 1 => FirstMount')
<1> USE DEF Plain, world, counters
<1>1. /\ status'.connected = status.connected /\ status'.connecting = status.connecting
      /\ a \in {"checkedIn", "loginSuccess"} => session /\ status'.authenticated
      /\ a \in {"checkedOut", "checkAuthenticatedError"} => ~status'.authenticated
      /\ a = "loginError" => status'.authenticated = status.authenticated
      /\ user' = user
  BY Zenon DEF Reduced, ReducedUser, IInv, TypeOK, LoggingOut, Answers, UserReplies
<1>2. \A x : Has(queue, x) <=> x = a
  BY DEF Alone, UserReplies
<1>3. Told' /\ Corrected'
  BY <1>1, <1>2 DEF IInv, Told, Corrected, ClientIs, Client, Dispatched, Answers
<1>4. Uncrossed' /\ LoggingOut'
  BY Zenon, <1>1, <1>2 DEF IInv, Uncrossed, LoggingOut, Live, Client, Dispatched, Alone, Answers, UserReplies
<1>5. ASSUME mounts = 1 PROVE FirstMount'
  <2>1. ~Owed /\ ~Checking /\ "login" \notin http /\ ~status.authenticated
    BY <1>2, <1>5 DEF IInv, FirstMount, AskedOnce, Answered
  <2>2. /\ NotLive /\ setup \in {"none", "ended"} /\ ~status.connecting /\ ~user.known
        /\ "logout" \notin http /\ ~Has(effects, "websocketConnect")
    BY <1>2, <1>5, <2>1 DEF IInv, FirstMount, Answers
  <2>3. AskedOnce'
    BY Zenon, <1>1, <1>2, <2>1 DEF AskedOnce, Owed, Checking, Answered, Alone, Answers, Dispatched, UserReplies
  <2>4. Has(queue', "websocketConnect") => status'.authenticated /\ session
    BY <1>1, <1>2, <2>2 DEF Answers
  <2>5. Has(effects', "websocketConnect") => status'.authenticated /\ session
    BY Zenon, <1>1, <1>2, <2>1, <2>2 DEF Answers
  <2> QED
    BY Zenon, <1>1, <1>2, <1>5, <2>1, <2>2, <2>3, <2>4, <2>5
       DEF IInv, FirstMount, NotLive, ClientIs, Client, Alone, Dispatched, UserReplies
<1> QED
  BY <1>3, <1>4, <1>5

\* The logout: the store is reset, and the saga goes on to disconnect.
LEMMA LogoutKeep ==
  ASSUME IInv, Plain("logoutSuccess"), \A x \in Alone : ~Has(queue', x)
  PROVE  Told' /\ Corrected' /\ Uncrossed' /\ LoggingOut' /\ (mounts' = 1 => FirstMount')
<1> USE DEF Plain, world, counters
<1>1. status' = loggedOut /\ user' = nobody
  BY DEF Reduced, ReducedUser
<1>7. ~user'.known
  <2>1. nobody.known = FALSE
    BY DEF nobody
  <2> QED
    BY <1>1, <2>1
<1>2. /\ ~status'.connected /\ ~status'.connecting /\ ~status'.authenticated
  BY <1>1 DEF loggedOut
<1>3. \A x : Has(queue, x) <=> x = "logoutSuccess"
  BY DEF Alone, UserReplies
<1>4. Told' /\ Corrected'
  BY <1>2, <1>3 DEF IInv, Told, Corrected, ClientIs, Client, Dispatched
<1>5. Uncrossed' /\ LoggingOut'
  <2>1. Uncrossed'
    BY Zenon, <1>1, <1>3, <1>7 DEF IInv, Uncrossed, LoggingOut, Live, Client, Dispatched, Alone, UserReplies
  <2>2. LoggingOut'
    BY Zenon, <1>1, <1>3, <1>7 DEF IInv, LoggingOut, Alone, Answers, UserReplies
  <2> QED
    BY <2>1, <2>2
<1>6. ASSUME mounts = 1 PROVE FirstMount'
  <2>1. status.authenticated /\ ~Owed /\ ~Checking /\ "login" \notin http /\ ~Answered
    BY <1>3, <1>6 DEF IInv, FirstMount, AskedOnce
  <2>2. setup = "watching" /\ ~crossed
    BY <1>3, <1>6 DEF IInv, FirstMount, Uncrossed
  <2>3. ~Has(effects, "websocketConnect")
    BY <1>6, <2>2 DEF IInv, FirstMount
  <2>4. AskedOnce'
    BY <1>2, <1>3, <2>1 DEF AskedOnce, Owed, Checking, Answered, Alone, Answers, UserReplies
  <2>5. ~Has(queue', "websocketConnect")
    BY <1>3, <2>3
  <2>6. ~Has(effects', "websocketConnect")
    BY Zenon, <1>2, <2>3
  <2> QED
    BY Zenon, <1>1, <1>2, <1>3, <1>6, <1>7, <2>2, <2>3, <2>4, <2>5, <2>6 DEF IInv, FirstMount, LoggingOut, Alone, UserReplies
<1> QED
  BY <1>4, <1>5, <1>6

\* The reply for the user.
LEMMA UserKeep ==
  ASSUME IInv, NEW a \in UserReplies, Plain(a), \A x \in Alone : ~Has(queue', x)
  PROVE  Told' /\ Corrected' /\ Uncrossed' /\ LoggingOut' /\ (mounts' = 1 => FirstMount')
<1> USE DEF Plain, world, counters
<1>1. status' = status
  BY DEF Reduced, UserReplies
<1>2. \A x : Has(queue, x) <=> x = a
  BY DEF Alone, UserReplies
<1>3. setup = "watching"
  BY <1>2 DEF IInv, LoggingOut, UserReplies
<1>4. Told' /\ Corrected'
  BY <1>1, <1>2 DEF IInv, Told, Corrected, ClientIs, Client, Dispatched, UserReplies
<1>5. Uncrossed' /\ LoggingOut'
  BY Zenon, <1>1, <1>2, <1>3 DEF IInv, Uncrossed, LoggingOut, Live, Client, Dispatched, Alone, UserReplies
<1>6. ASSUME mounts = 1 PROVE FirstMount'
  <2>1. AskedOnce'
    BY Zenon, <1>1, <1>2, <1>6
       DEF IInv, FirstMount, AskedOnce, Owed, Checking, Answered, Answers, Alone, Dispatched, UserReplies
  <2>2. status.authenticated /\ ~Has(effects, "websocketConnect")
    BY <1>2, <1>3, <1>6 DEF IInv, FirstMount, UserReplies
  <2> QED
    BY Zenon, <1>1, <1>2, <1>6, <2>1, <2>2 DEF IInv, FirstMount, NotLive, ClientIs, Client, Alone, UserReplies
<1> QED
  BY <1>4, <1>5, <1>6

\* The reports of the connection.
LEMMA ReportsKeep ==
  ASSUME IInv, NEW a \in {"websocketConnected", "websocketDisconnected", "websocketError"},
         Plain(a), \A x \in Alone : ~Has(queue', x)
  PROVE  Told' /\ Corrected' /\ Uncrossed' /\ LoggingOut' /\ (mounts' = 1 => FirstMount')
<1> USE DEF Plain, world, counters
<1>1. /\ status'.connected = (a = "websocketConnected")
      /\ status'.connecting => status.connecting
      /\ status'.authenticated = status.authenticated
      /\ status'.authenticating = status.authenticating
      /\ user' = user
  BY Zenon DEF Reduced, websocketConnected, ReducedUser, IInv, TypeOK
<1>2. a = "websocketConnected" => ClientIs("open") /\ setup \in {"ready", "watching"}
  BY DEF IInv, Told
<1>3. a # "websocketConnected" => ~ClientIs("open")
  BY DEF IInv, Told
<1>4. Told'
  BY Zenon, <1>1 DEF IInv, Told, ClientIs, Client, Dispatched
<1>5. Corrected'
  BY Zenon, <1>1, <1>2, <1>3 DEF IInv, Corrected, ClientIs, Client
<1>6. Uncrossed' /\ LoggingOut'
  BY Zenon, <1>1 DEF IInv, Uncrossed, LoggingOut, Live, Client, Dispatched, Alone, UserReplies
<1>7. ASSUME mounts = 1 PROVE FirstMount'
  <2>1. AskedOnce'
    BY Zenon, <1>1, <1>7
       DEF IInv, FirstMount, AskedOnce, Owed, Checking, Answered, Answers, Alone, Dispatched, UserReplies
  <2> QED
    BY Zenon, <1>1, <1>7, <2>1 DEF IInv, FirstMount, NotLive, ClientIs, Client, Alone, Dispatched, UserReplies
<1> QED
  BY <1>4, <1>5, <1>6, <1>7

\* The actions that only the reducers and the http sagas know.
LEMMA PlainKeeps == IInv /\ TakePlain => IInv'
<1> SUFFICES ASSUME IInv, TakePlain PROVE IInv'
  OBVIOUS
<1> DEFINE a == Head(queue)
<1>1. /\ Plain(a) /\ TypeOK' /\ QueueOK' /\ DisconnectFirst'
      /\ \A x \in Alone : ~Has(queue', x)
  BY PlainTurn
<1>2. a \notin {"checkAuthenticated", "websocketConnect", "ready", "websocketDisconnect", "fetch"}
  BY DEF TakePlain
<1>3. a \in Action
  BY <1>1 DEF Plain
<1> HIDE DEF a
<1>4. CASE a \in {"checkAuthenticatedStart", "loginStart", "logoutStart", "logoutError"}
  BY <1>1, <1>4, StartsKeep DEF IInv
<1>5. CASE a \in Answers
  BY <1>1, <1>5, AnswersKeep DEF IInv
<1>6. CASE a = "logoutSuccess"
  BY <1>1, <1>6, LogoutKeep DEF IInv
<1>7. CASE a \in UserReplies
  BY <1>1, <1>7, UserKeep DEF IInv
<1>8. CASE a \in {"websocketConnected", "websocketDisconnected", "websocketError"}
  BY <1>1, <1>8, ReportsKeep DEF IInv
<1> QED
  BY <1>2, <1>3, <1>4, <1>5, <1>6, <1>7, <1>8 DEF Action, Dispatched, Alone, Others, UserReplies

-----------------------------------------------------------------------------
(* The theorems.                                                             *)

\* Every state of every behaviour satisfies the invariant.
LEMMA Invariant == Spec => []IInv
<1>1. Init => IInv
  <2> SUFFICES ASSUME Init PROVE IInv
    OBVIOUS
  <2>1. /\ \A x : ~Has(queue, x)
        /\ \A x : Has(effects, x) <=> x = "checkAuthenticated"
    BY HasShort DEF Init
  <2>2. TypeOK
    <3>1. status \in Status
      BY Zenon DEF Init, loggedOut, Status
    <3>2. <<>> \in Seq({"connecting", "open", "waiting", "closed"})
      OBVIOUS
    <3> QED
      BY Zenon, <3>1, <3>2 DEF Init, TypeOK, Status, nobody
  <2>3. QueueOK
    <3>1. <<>> \in Seq(Action) /\ <<"checkAuthenticated">> \in Seq(Dispatched)
      BY DEF Dispatched
    <3> QED
      BY <2>1, <3>1 DEF Init, QueueOK
  <2>4. DisconnectFirst
    BY <2>1, BeforeNone DEF DisconnectFirst
  <2>5. Told /\ Corrected /\ Uncrossed /\ LoggingOut
    BY <2>1 DEF Init, Told, Corrected, Uncrossed, LoggingOut, Live, loggedOut, nobody, UserReplies
  <2>6. FirstMount
    BY <2>1 DEF Init, FirstMount, AskedOnce, Owed, Checking, Answered, Answers, NotLive, loggedOut, nobody
  <2> QED
    BY <2>2, <2>3, <2>4, <2>5, <2>6 DEF IInv
<1>2. IInv /\ [Next]_vars => IInv'
  <2> SUFFICES ASSUME IInv, [Next]_vars PROVE IInv'
    OBVIOUS
  <2>1. CASE UNCHANGED vars
    <3>1. UNCHANGED <<session, http, sockets, asked, setup, status, user, queue, effects, crossed,
                      mounted, mounts>>
      BY <2>1 DEF vars, counters
    <3> QED
      BY <3>1 DEF IInv, TypeOK, QueueOK, DisconnectFirst, Told, Corrected, Uncrossed, LoggingOut,
                  FirstMount, AskedOnce, Owed, Checking, Answered, NotLive, ClientIs, Live, Client, UserReplies
  <2>2. CASE Scheduler
    BY <2>2, CheckKeeps, PlainKeeps, ConnectKeeps, ReadyKeeps, DisconnectWatching, DisconnectLost,
       FetchKeeps DEF Scheduler
  <2>3. CASE FlushEffects
    BY <2>3, EffectsRun DEF FlushEffects, world, counters, BetweenTurns
  <2>4. CASE Unmount
    BY Zenon, <2>4, EffectsRun DEF Unmount, counters, BetweenTurns
  <2>5. CASE Mount \/ login \/ logout \/ HttpReplies \/ RegionReplies
    BY <2>5, MountKeeps, LoginKeeps, LogoutKeeps, HttpKeeps, RegionKeeps
  <2>6. CASE \E i \in DOMAIN sockets : SocketOpens(i) \/ SocketCloses(i) \/ SocketRetries(i)
    BY <2>6, OpensKeeps, ClosesKeeps, RetriesKeeps
  <2> QED
    BY <2>1, <2>2, <2>3, <2>4, <2>5, <2>6 DEF Next
<1> QED
  BY <1>1, <1>2, PTL DEF Spec

\* The variables keep their types, and a saga that sets up or watches a socket has one
\* that was not closed for good.
THEOREM TypeCorrect == Spec => []TypeOK
<1>1. IInv => TypeOK
  BY DEF IInv
<1> QED
  BY <1>1, Invariant, PTL

\* Between turns the store says connected exactly while the socket that the saga
\* watches is open, whatever logs in, connects, drops, remounts or logs out.
THEOREM Connected == Spec => []ConnectedIffOpen
<1>1. IInv => ConnectedIffOpen
  <2> SUFFICES ASSUME IInv, BetweenTurns PROVE status.connected <=> setup = "watching" /\ ClientIs("open")
    BY DEF ConnectedIffOpen
  <2>1. \A x : ~Has(queue, x)
    BY QueueFacts DEF IInv, BetweenTurns
  <2> QED
    BY <2>1 DEF IInv, Corrected, Told, BetweenTurns
<1> QED
  BY <1>1, Invariant, PTL

\* There is one socket, and none for a user who is logged out, unless App connected
\* again while the connection was down or the user logged out, for which it has to be
\* mounted a second time.
THEOREM One == Spec => []OneSocket
<1>1. IInv => OneSocket
  <2> SUFFICES ASSUME IInv, BetweenTurns PROVE OneSocket
    BY DEF OneSocket
  <2>1. \A x : ~Has(queue, x)
    BY QueueFacts DEF IInv, BetweenTurns
  <2>2. ~crossed => Live \subseteq {Client} /\ (~session => Live = {})
    BY <2>1 DEF IInv, Uncrossed
  <2>3. ~crossed => Cardinality(Live) <= 1
    <3> SUFFICES ASSUME ~crossed PROVE Cardinality(Live) <= 1
      OBVIOUS
    <3>1. IsFiniteSet({Client}) /\ Cardinality({Client}) = 1
      BY Zenon, FS_Singleton
    <3> QED
      BY <2>2, <3>1, FS_Subset
  <2>4. crossed => mounts > 1
    BY DEF IInv, QueueOK, FirstMount
  <2> QED
    BY <2>2, <2>3, <2>4 DEF OneSocket
<1> QED
  BY <1>1, Invariant, PTL
=============================================================================
