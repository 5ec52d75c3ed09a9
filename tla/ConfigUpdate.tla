----------------------------- MODULE ConfigUpdate -----------------------------
(* Saving settings.  configActions.update (ui/src/app/store/config/slice.ts)  *)
(* carries several values; sendMessage (ui/src/app/base/sagas/websockets.ts)  *)
(* sends them one after another and waits, after each, for a                  *)
(* config/updateNotify -- of any setting, whoever changed it.                 *)
(*                                                                           *)
(* A value is the number of the update that submits it; Other stands for a    *)
(* value of another client.                                                   *)
EXTENDS Naturals, SequencesExt

CONSTANTS
  Name,       \* settings
  Forms,      \* what the forms save: the settings, in the order of their fields
  MaxUpdates, \* bound on the submissions
  MaxOthers,  \* bound on the changes of other clients
  MaxDrops    \* bound on the losses of the connection

ASSUME ConfigUpdateAssumption ==
  /\ Forms \subseteq Seq(Name) \ {<<>>}
  /\ MaxUpdates \in Nat /\ MaxOthers \in Nat /\ MaxDrops \in Nat

VARIABLES
  config,   \* the region's settings
  changes,  \* settings whose change the region has yet to announce
  open,     \* whether the socket is open
  up, down, \* requests and messages on their way
  slice,    \* flags of the config slice
  items,    \* its settings, or NotLoaded
  sagas,    \* the runs of sendMessage, oldest first
  refused,    \* history: the region refused a value
  overlapped, \* history: a form was submitted while something was on its way
  others, drops

history == <<refused, overlapped>>
vars == <<config, changes, open, up, down, slice, items, sagas, history, others, drops>>

Other == MaxUpdates + 1
Value == 0 .. Other
NotLoaded == [n \in {} |-> 0]
List == [u |-> 0, name |-> "list"]

\* A run of sendMessage: what it saves, how many values it has sent, and
\* whether it has returned.
Saga == [params: Forms, sent: Nat, done: BOOLEAN]

TypeOK ==
  /\ config \in [Name -> Value]
  /\ changes \in Seq(Name)
  /\ open \in BOOLEAN
  /\ slice \in [saving: BOOLEAN, saved: BOOLEAN, errors: BOOLEAN]
  /\ items = NotLoaded \/ items \in [Name -> Value]
  /\ sagas \in Seq(Saga)
  /\ {refused, overlapped} \subseteq BOOLEAN
  /\ \A u \in DOMAIN sagas : sagas[u].sent \in 1 .. Len(sagas[u].params)

cleared == [saving |-> FALSE, saved |-> FALSE, errors |-> FALSE]

Init ==
  /\ config = [n \in Name |-> 0]
  /\ changes = <<>>
  /\ open = TRUE
  /\ up = <<>> /\ down = <<>>
  /\ slice = cleared
  /\ items = config
  /\ sagas = <<>>
  /\ refused = FALSE /\ overlapped = FALSE
  /\ others = 0 /\ drops = 0

\* Nothing is on its way.
Quiet == open /\ up = <<>> /\ down = <<>> /\ changes = <<>>

-----------------------------------------------------------------------------
(* The client.                                                               *)

\* The request a run sends next.
Requests(u, saga) == <<[u |-> u, name |-> saga.params[saga.sent]]>>

\* A form is submitted: updateStart, and the first value is sent.
Submit ==
  /\ open /\ items # NotLoaded
  /\ ~slice.saving
  /\ Len(sagas) < MaxUpdates
  /\ \E form \in Forms :
       LET saga == [params |-> form, sent |-> 1, done |-> FALSE] IN
       /\ sagas' = Append(sagas, saga)
       /\ up' = up \o Requests(Len(sagas'), saga)
  /\ slice' = [slice EXCEPT !.saving = TRUE, !.saved = FALSE]
  /\ overlapped' = (overlapped \/ ~Quiet)
  /\ UNCHANGED <<config, changes, open, down, items, refused, others, drops>>

\* The form is left.
cleanup ==
  /\ slice # cleared
  /\ slice' = cleared
  /\ UNCHANGED <<config, changes, open, up, down, items, sagas, history, others, drops>>

\* Mutant: a run whose reply has come no longer hears the notification.
ResumedIfSaving(saga) ==
  IF ~slice.saving THEN saga
  ELSE IF saga.sent = Len(saga.params) THEN [saga EXCEPT !.done = TRUE]
  ELSE [saga EXCEPT !.sent = @ + 1]

\* A run after the notification it waited for.
Resumed(saga) ==
  IF saga.sent = Len(saga.params)
  THEN [saga EXCEPT !.done = TRUE]
  ELSE [saga EXCEPT !.sent = @ + 1]

\* The notification reaches every run that waits, in their order.
Resume ==
  LET next(u) == IF sagas[u].done THEN sagas[u] ELSE Resumed(sagas[u])
      sends(u) == IF next(u).sent = sagas[u].sent THEN <<>> ELSE Requests(u, next(u))
  IN /\ sagas' = [u \in DOMAIN sagas |-> next(u)]
     /\ up' = up \o FlattenSeq([u \in DOMAIN sagas |-> sends(u)])

updateError == slice' = [slice EXCEPT !.errors = TRUE, !.saving = FALSE]

updateSuccess == slice' = [saving |-> FALSE, saved |-> TRUE, errors |-> FALSE]

fetchSuccess(values) == items' = values

\* Mutant: the notified value is not stored.
updateNotifyLost(name, value) == UNCHANGED items

\* Mutant: a notification that comes before the list adds its setting.
updateNotifyAdds(name, value) ==
  items' = [n \in DOMAIN items \union {name} |-> IF n = name THEN value ELSE items[n]]

updateNotify(name, value) ==
  items' = IF items = NotLoaded THEN items ELSE [items EXCEPT ![name] = value]

handleMessage ==
  /\ down # <<>>
  /\ down' = Tail(down)
  /\ LET m == Head(down) IN
     \/ m.type = "success" /\ updateSuccess /\ UNCHANGED <<up, items, sagas>>
     \/ m.type = "error" /\ updateError /\ UNCHANGED <<up, items, sagas>>
     \/ m.type = "list" /\ fetchSuccess(m.values) /\ UNCHANGED <<up, slice, sagas>>
     \/ m.type = "notify" /\ updateNotify(m.name, m.value) /\ Resume /\ UNCHANGED slice
  /\ UNCHANGED <<config, changes, open, history, others, drops>>

-----------------------------------------------------------------------------
(* The connection.                                                           *)

\* Mutant: the flags survive the loss of the connection.
CloseKeepsFlags == items' = NotLoaded /\ UNCHANGED slice

\* The store is reset; the runs of sendMessage go on waiting.
Closed == items' = NotLoaded /\ slice' = cleared

Close ==
  /\ open
  /\ drops < MaxDrops
  /\ drops' = drops + 1
  /\ open' = FALSE
  /\ up' = <<>> /\ down' = <<>>
  /\ Closed
  /\ UNCHANGED <<config, changes, sagas, history, others>>

\* The socket opens again, and App fetches the settings.
Open ==
  /\ ~open
  /\ open' = TRUE
  /\ up' = Append(up, List)
  /\ UNCHANGED <<config, changes, down, slice, items, sagas, history, others, drops>>

-----------------------------------------------------------------------------
(* The region.                                                               *)

Notification(name, value) == [type |-> "notify", name |-> name, value |-> value]

\* It handles the requests in order.  A change is announced after it was made,
\* before or after the reply.
RegionHandles ==
  /\ open /\ up # <<>>
  /\ up' = Tail(up)
  /\ LET r == Head(up) IN
     \/ /\ r = List
        /\ down' = Append(down, [type |-> "list", values |-> config])
        /\ UNCHANGED <<config, changes, refused>>
     \/ /\ r # List
        /\ down' = Append(down, [type |-> "error", u |-> r.u])
        /\ refused' = TRUE
        /\ UNCHANGED <<config, changes>>
     \/ /\ r # List
        /\ config' = [config EXCEPT ![r.name] = r.u]
        /\ \/ /\ down' = Append(down, [type |-> "success", u |-> r.u])
              /\ changes' = Append(changes, r.name)
           \/ /\ changes = <<>>
              /\ down' = down \o <<Notification(r.name, r.u), [type |-> "success", u |-> r.u]>>
              /\ UNCHANGED changes
        /\ UNCHANGED refused
  /\ UNCHANGED <<open, slice, items, sagas, overlapped, others, drops>>

\* Another client changes a setting.
OtherChanges ==
  /\ others < MaxOthers
  /\ others' = others + 1
  /\ \E name \in Name :
       config' = [config EXCEPT ![name] = Other] /\ changes' = Append(changes, name)
  /\ UNCHANGED <<open, up, down, slice, items, sagas, history, drops>>

\* A change is announced, with the value as it is by then, to who is connected.
RegionAnnounces ==
  /\ changes # <<>>
  /\ changes' = Tail(changes)
  /\ down' = IF open THEN Append(down, Notification(Head(changes), config[Head(changes)]))
                     ELSE down
  /\ UNCHANGED <<config, open, up, slice, items, sagas, history, others, drops>>

Next ==
  \/ Submit \/ cleanup \/ handleMessage
  \/ Close \/ Open
  \/ RegionHandles \/ OtherChanges \/ RegionAnnounces

Spec == Init /\ [][Next]_vars

\* Messages arrive, the region works, and the socket reconnects by itself.
FairSpec ==
  /\ Spec
  /\ WF_vars(handleMessage) /\ WF_vars(RegionHandles) /\ WF_vars(RegionAnnounces)
  /\ WF_vars(Open)

-----------------------------------------------------------------------------
(* Properties.                                                               *)

\* A form that says it is saving has a request on its way whose reply ends that,
\* though replies to other updates, and losses of the connection, end it too.
SavingAnswered ==
  slice.saving => \/ \E i \in DOMAIN up : up[i] # List
                  \/ \E i \in DOMAIN down : down[i].type \in {"success", "error"}

\* Once nothing is on its way, the settings shown are those of the region, also
\* after values that other clients changed or that were refused.
ItemsSynced == Quiet /\ items # NotLoaded => items = config

\* A setting of this client is not overwritten by one that was submitted before it.
Newer ==
  \A n \in Name :
    config[n] # config'[n] /\ Other \notin {config[n], config'[n]} => config'[n] > config[n]

\* Saves that settle before the next is submitted are written in their order,
\* unless a value was refused or lost on the way: its run waits on, and the
\* notification of a later save resumes it.
NeverOlder == [][~refused /\ ~overlapped /\ drops = 0 => Newer]_config

\* Saves that settle before the next is submitted are written in their order.
InOrder == [][~overlapped /\ drops = 0 => Newer]_config

\* Every value of an update is sent, unless one is refused or lost: notifications
\* of others, and updates that overlap, let a run go on early but never hold it.
UpdateEnds ==
  \A u \in 1 .. MaxUpdates :
    u \in DOMAIN sagas ~> (u \in DOMAIN sagas /\ sagas[u].done) \/ refused \/ drops > 0
=============================================================================
