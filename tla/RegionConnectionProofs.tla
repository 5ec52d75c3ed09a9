----------------------- MODULE RegionConnectionProofs -----------------------
(* Proofs about the connection of the AngularJS application.                 *)
EXTENDS RegionConnection, FiniteSetTheorems, TLAPS

\* A service that is gone hears nothing, checks nothing and waits for no ping.
AwayQuiet == ~mounted => ~attached /\ ~scheduled /\ pingsInFlight = {}

\* No message on the wire is from a later mount, or has an id that this one has
\* yet to hand out.
WirePast ==
  \A m \in wire : m.sender <= mounts /\ (m.sender = mounts => m.id <= requestId)

IInv == TypeOK /\ AwayQuiet /\ Watched /\ MissedOnWire /\ WirePast /\ FreshInMount

-----------------------------------------------------------------------------

\* The initial states satisfy the invariant.
LEMMA InitInv == Init => IInv
<1> SUFFICES ASSUME Init PROVE IInv
  OBVIOUS
<1>1. TypeOK
  BY DEF Init, TypeOK
<1>2. AwayQuiet /\ Watched /\ MissedOnWire
  BY DEF Init, AwayQuiet, Watched, MissedOnWire
<1>3. WirePast /\ FreshInMount
  BY DEF Init, WirePast, FreshInMount
<1> QED
  BY <1>1, <1>2, <1>3 DEF IInv

\* Every action keeps the types.
LEMMA TypeStep == TypeOK /\ AwayQuiet /\ [Next]_vars => TypeOK'
<1> SUFFICES ASSUME TypeOK, AwayQuiet, [Next]_vars PROVE TypeOK'
  OBVIOUS
<1> USE DEF TypeOK, service, onopen
<1>1. CASE defaultConnect
  BY <1>1 DEF defaultConnect, connect
<1>2. CASE callMethod
  BY <1>2 DEF callMethod, newRequestId, send, Sent, Message
<1>3. CASE Unmount
  BY <1>3 DEF Unmount
<1>4. CASE Mount
  BY <1>4 DEF Mount, AwayQuiet
<1>5. CASE ensureConnection
  <2>1. CASE state = "UP" /\ Impatient
    BY <1>5, <2>1 DEF ensureConnection, retry
  <2>2. CASE state = "UP" /\ ~Impatient
    <3>1. ping /\ UNCHANGED <<scheduled, mounted, mounts, connecting, drops>>
      BY <1>5, <2>2 DEF ensureConnection
    <3>2. 1 .. requestId \subseteq 1 .. requestId' /\ requestId' \in 1 .. requestId'
      BY <3>1 DEF ping, newRequestId
    <3>3. pingsInFlight' \subseteq 1 .. requestId' /\ callbacks' \subseteq 1 .. requestId'
      BY <3>1, <3>2 DEF ping, newRequestId
    <3>4. wire' \subseteq Message
      BY <3>1 DEF ping, newRequestId, send, Sent, Message
    <3> QED
      BY <3>1, <3>2, <3>3, <3>4 DEF ping
  <2>3. CASE state = "RETRY"
    BY <1>5, <2>3 DEF ensureConnection, connect
  <2> QED
    BY <1>5, <2>1, <2>2, <2>3 DEF ensureConnection
<1>6. CASE SocketOpens
  BY <1>6 DEF SocketOpens
<1>7. CASE RunOpenHandlers
  BY <1>7 DEF RunOpenHandlers
<1>8. CASE SocketCloses
  <2>1. CASE attached
    <3>1. retry
      BY <1>8, <2>1 DEF SocketCloses
    <3>2. connecting' = FALSE \/ connecting' = connecting
      BY <1>8, <2>1 DEF SocketCloses, errored
    <3>3. connecting' \in BOOLEAN
      BY <3>2
    <3>4. /\ drops' \in Nat
          /\ UNCHANGED <<mounted, mounts, service, pingsInFlight, scheduled, opened>>
      BY <1>8 DEF SocketCloses
    <3> QED
      BY <3>1, <3>3, <3>4 DEF retry
  <2>2. CASE ~attached
    BY <1>8, <2>2 DEF SocketCloses
  <2> QED
    BY <2>1, <2>2
<1>9. CASE RegionReplies
  BY <1>9 DEF RegionReplies, onResponse
<1>10. CASE UNCHANGED vars
  BY <1>10 DEF vars
<1> QED
  BY <1>1, <1>2, <1>3, <1>4, <1>5, <1>6, <1>7, <1>8, <1>9, <1>10 DEF Next

\* A connected service is watched and its missed pings are on the wire.
LEMMA WatchStep ==
  TypeOK /\ AwayQuiet /\ Watched /\ MissedOnWire /\ [Next]_vars
    => AwayQuiet' /\ Watched' /\ MissedOnWire'
<1> SUFFICES ASSUME TypeOK, AwayQuiet, Watched, MissedOnWire, [Next]_vars
             PROVE AwayQuiet' /\ Watched' /\ MissedOnWire'
  OBVIOUS
<1> USE DEF AwayQuiet, Watched, MissedOnWire, service, onopen, Sent
<1>1. CASE defaultConnect
  BY <1>1 DEF defaultConnect, connect
<1>2. CASE callMethod
  BY <1>2 DEF callMethod, send
<1>3. CASE Unmount
  BY <1>3 DEF Unmount
<1>4. CASE Mount
  BY <1>4 DEF Mount
<1>5. CASE ensureConnection
  <2>1. CASE state = "UP" /\ Impatient
    BY <1>5, <2>1 DEF ensureConnection, retry, TypeOK
  <2>2. CASE state = "UP" /\ ~Impatient
    <3>1. ping /\ UNCHANGED <<scheduled, mounted, mounts, connecting, drops>>
      BY <1>5, <2>2 DEF ensureConnection
    <3>2. mounted /\ socket = "open"
      BY <1>5, <2>2 DEF ensureConnection
    <3> QED
      BY <2>2, <3>1, <3>2 DEF ping, send, newRequestId
  <2>3. CASE state = "RETRY"
    BY <1>5, <2>3 DEF ensureConnection, connect, TypeOK
  <2> QED
    BY <1>5, <2>1, <2>2, <2>3 DEF ensureConnection
<1>6. CASE SocketOpens
  BY <1>6 DEF SocketOpens
<1>7. CASE RunOpenHandlers
  BY <1>7 DEF RunOpenHandlers
<1>8. CASE SocketCloses
  BY <1>8 DEF SocketCloses, retry
<1>9. CASE RegionReplies
  BY <1>9 DEF RegionReplies, onResponse
<1>10. CASE UNCHANGED vars
  BY <1>10 DEF vars
<1> QED
  BY <1>1, <1>2, <1>3, <1>4, <1>5, <1>6, <1>7, <1>8, <1>9, <1>10 DEF Next

\* The ids on the wire stay behind the service's counter, and differ.
LEMMA IdStep ==
  TypeOK /\ WirePast /\ FreshInMount /\ [Next]_vars => WirePast' /\ FreshInMount'
<1> SUFFICES ASSUME TypeOK, WirePast, FreshInMount, [Next]_vars
             PROVE WirePast' /\ FreshInMount'
  OBVIOUS
<1> USE DEF WirePast, FreshInMount, service
<1>1. ASSUME requestId' = requestId + 1, mounts' = mounts,
             NEW type, wire' \subseteq wire \union {Sent(requestId + 1, type)}
      PROVE WirePast' /\ FreshInMount'
  BY <1>1 DEF TypeOK, Sent, Message
<1>2. ASSUME requestId' = requestId, mounts' = mounts, wire' \subseteq wire
      PROVE WirePast' /\ FreshInMount'
  BY <1>2
<1>3. CASE callMethod
  BY <1>3, <1>1 DEF callMethod, send, newRequestId
<1>4. CASE Mount
  BY <1>4 DEF Mount, TypeOK, Message
<1>5. CASE ensureConnection
  BY <1>5, <1>1, <1>2 DEF ensureConnection, retry, ping, send, newRequestId
<1>6. CASE defaultConnect \/ Unmount \/ SocketOpens \/ RunOpenHandlers \/ SocketCloses
             \/ RegionReplies \/ UNCHANGED vars
  BY <1>6, <1>2
     DEF defaultConnect, Unmount, SocketOpens, RunOpenHandlers, SocketCloses, retry,
         RegionReplies, vars
<1> QED
  BY <1>3, <1>4, <1>5, <1>6 DEF Next

\* Every step keeps the inductive invariant.
LEMMA Step == IInv /\ [Next]_vars => IInv'
  BY TypeStep, WatchStep, IdStep DEF IInv

\* The inductive invariant holds in every behaviour.
THEOREM Invariance == Spec => []IInv
  BY InitInv, Step, PTL DEF Spec

\* Every variable keeps its type.
THEOREM TypeCorrect == Spec => []TypeOK
  BY Invariance, PTL DEF IInv

\* A connected service is watched: its socket is open and heard, and the next
\* check is scheduled.
THEOREM ConnectedIsWatched == Spec => []Watched
  BY Invariance, PTL DEF IInv

\* A ping counted as missed is unanswered on the current connection.
THEOREM MissedPingsUnanswered == Spec => []MissedOnWire
  BY Invariance, PTL DEF IInv

\* The unanswered messages of one mount have different ids.
THEOREM IdsFreshInMount == Spec => []FreshInMount
  BY Invariance, PTL DEF IInv

\* A connection is given up only over an unanswered ping.
THEOREM GivesUpOnlySilent == Spec => DropsOnlySilent
<1>1. ASSUME IInv, ensureConnection, state = "UP", state' = "RETRY"
      PROVE \E m \in wire : m.type = "ping" /\ m.sender = mounts
  <2>1. Impatient
    BY <1>1 DEF ensureConnection, ping
  <2>2. pingsInFlight # {}
    <3> SUFFICES ASSUME pingsInFlight = {} PROVE FALSE
      OBVIOUS
    <3>1. Missed = 0
      BY FS_EmptySet DEF Missed
    <3> QED
      BY <2>1, <3>1, RegionConnectionAssumption DEF Impatient
  <2>3. mounted
    BY <1>1, <2>2 DEF IInv, AwayQuiet, TypeOK
  <2>4. PICK id \in pingsInFlight : Sent(id, "ping") \in wire
    BY <1>1, <2>2, <2>3 DEF IInv, MissedOnWire
  <2> QED
    BY <2>4 DEF Sent
<1>2. IInv /\ [Next]_vars
        => [ensureConnection /\ state = "UP" /\ state' = "RETRY"
              => \E m \in wire : m.type = "ping" /\ m.sender = mounts]_vars
  BY <1>1
<1> QED
  BY <1>2, Invariance, PTL DEF Spec, DropsOnlySilent
=============================================================================
