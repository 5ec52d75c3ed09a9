------------------------------- MODULE Polling -------------------------------
(* Polled requests: handlePolling and pollAction in                          *)
(* ui/src/app/base/sagas/websockets.ts, driven by the effect of a component  *)
(* that polls while it is mounted (ui/src/app/controllers/components/        *)
(* ImageStatus/ImageStatus.tsx): it starts its poll when it mounts, stops it *)
(* when it unmounts, and stops and starts it again when its controller       *)
(* changes, under one poll id.                                               *)
(*                                                                           *)
(* The order in which the saga scheduler runs what is put and dispatched     *)
(* during one JavaScript turn decides the outcome, so its queue is explicit: *)
(* an action dispatched while the scheduler is busy waits in `queue` behind  *)
(* what is there already, and no other event happens until it is empty.      *)
(* React runs the effects of a render later, in a turn of their own, or,     *)
(* when another render comes first, inside the turn that causes it.          *)
(*                                                                           *)
(* The specification's own definitions begin with Poll or poll, for those    *)
(* who extend WebSocketSagas too.                                            *)
EXTENDS Naturals, FiniteSets, SequencesExt

CONSTANTS
  PollId,     \* one poll id for each polling component
  MaxRenders  \* bound on the renders that change the components

ASSUME PollingAssumption == IsFiniteSet(PollId) /\ MaxRenders \in Nat

VARIABLES
  mounted,         \* components on the page
  effects,         \* dispatches owed by the effects of renders so far
  flushing,        \* whether React is running those effects, one turn each
  queue,           \* the scheduler's queue
  pollingRequests, \* ids registered as being polled
  waiting,         \* ids whose handlePolling waits for the stop action
  timers,          \* ids whose pollAction runs
  renders

pollVars == <<mounted, effects, flushing, queue, pollingRequests, waiting, timers,
              renders>>

Task == [type: {"start", "stop", "RequestStart", "PollingStarted", "PollingStopped"},
         id: PollId]
Start(id) == [type |-> "start", id |-> id]
Stop(id) == [type |-> "stop", id |-> id]

PollTypeOK ==
  /\ mounted \subseteq PollId
  /\ effects \in Seq([type: {"start", "stop"}, id: PollId])
  /\ flushing \in BOOLEAN
  /\ queue \in Seq(Task)
  /\ pollingRequests \subseteq PollId
  /\ waiting \subseteq PollId
  /\ timers \subseteq PollId
  /\ renders \in Nat

PollInit ==
  /\ mounted = {}
  /\ effects = <<>>
  /\ flushing = FALSE
  /\ queue = <<>>
  /\ pollingRequests = {}
  /\ waiting = {}
  /\ timers = {}
  /\ renders = 0

-----------------------------------------------------------------------------
(* The components.                                                           *)

Each(action(_), ids) == SetToSeq({action(id) : id \in ids})

\* A render leaves `page` on the page, with new controllers for `changed`.  All
\* clean-ups of the last effects come before the effects of this render.
Render(page, changed) ==
  /\ renders < MaxRenders
  /\ renders' = renders + 1
  /\ changed \subseteq mounted \intersect page
  /\ mounted' = page
  /\ effects' = Each(Stop, (mounted \ page) \union changed)
                  \o Each(Start, (page \ mounted) \union changed)

\* React renders in a turn of its own, owing no effects.
RenderPage ==
  /\ queue = <<>> /\ ~flushing /\ effects = <<>>
  /\ \E page, changed \in SUBSET PollId : Render(page, changed)
  /\ UNCHANGED <<flushing, queue, pollingRequests, waiting, timers>>

\* React runs the effects in a turn of their own: each dispatch finds the
\* scheduler idle and runs to its end before the next.
FlushEffects ==
  /\ queue = <<>>
  /\ effects # <<>>
  /\ queue' = <<Head(effects)>>
  /\ effects' = Tail(effects)
  /\ flushing' = (Tail(effects) # <<>>)
  /\ UNCHANGED <<mounted, pollingRequests, waiting, timers, renders>>

\* handleMessage puts the action of a message and the page renders in its turn:
\* React first runs the effects it still owes, whose dispatches wait in the
\* queue for the saga to pause.
MessageRenders ==
  /\ queue = <<>> /\ ~flushing
  /\ effects # <<>>
  /\ queue' = effects
  /\ \E page, changed \in SUBSET PollId : Render(page, changed)
  /\ UNCHANGED <<flushing, pollingRequests, waiting, timers>>

-----------------------------------------------------------------------------
(* The sagas.  A step takes the first task of the scheduler's queue.         *)

RunTask(type) == queue # <<>> /\ Head(queue).type = type

\* The endpoint is the same for all components here, so the id says it all.
pollRequestId(id) == id

isPolling(id) == pollRequestId(id) \in pollingRequests

\* The put of a saga, behind what the scheduler has to run already.
Put(type, id) == <<[type |-> type, id |-> id]>>

\* sendMessage takes every start action as a request.  isStartPollingAction
\* ignores one that is being polled; otherwise handlePolling registers it.
TakeStart ==
  /\ RunTask("start")
  /\ LET id == Head(queue).id IN
     IF isPolling(id)
     THEN /\ queue' = Tail(queue) \o Put("RequestStart", id)
          /\ UNCHANGED pollingRequests
     ELSE /\ pollingRequests' = pollingRequests \union {pollRequestId(id)}
          /\ queue' = Tail(queue) \o Put("RequestStart", id) \o Put("PollingStarted", id)
  /\ UNCHANGED <<mounted, effects, flushing, waiting, timers, renders>>

\* The request's Start action marks the controller as checking its images: that
\* renders too, so effects owed by a render in this turn run now.
RequestStart ==
  /\ RunTask("RequestStart")
  /\ IF ~flushing
     THEN queue' = Tail(queue) \o effects /\ effects' = <<>>
     ELSE queue' = Tail(queue) /\ UNCHANGED effects
  /\ UNCHANGED <<mounted, flushing, pollingRequests, waiting, timers, renders>>

\* PollingStarted has been dispatched: handlePolling forks pollAction and waits.
ForkPoll ==
  /\ RunTask("PollingStarted")
  /\ timers' = timers \union {Head(queue).id}
  /\ waiting' = waiting \union {Head(queue).id}
  /\ queue' = Tail(queue)
  /\ UNCHANGED <<mounted, effects, flushing, pollingRequests, renders>>

\* Mutant: the stop action ends handlePolling but does not cancel the timer.
TakeStopKeepsTimer ==
  /\ RunTask("stop")
  /\ LET id == Head(queue).id IN
     IF id \in waiting
     THEN /\ waiting' = waiting \ {id}
          /\ queue' = Tail(queue) \o Put("PollingStopped", id)
     ELSE queue' = Tail(queue) /\ UNCHANGED waiting
  /\ UNCHANGED <<mounted, effects, flushing, pollingRequests, timers, renders>>

\* handlePolling takes the stop action and cancels pollAction, which puts
\* PollingStopped as its last act.
TakeStop ==
  /\ RunTask("stop")
  /\ LET id == Head(queue).id IN
     IF id \in waiting
     THEN /\ waiting' = waiting \ {id}
          /\ timers' = timers \ {id}
          /\ queue' = Tail(queue) \o Put("PollingStopped", id)
     ELSE queue' = Tail(queue) /\ UNCHANGED <<waiting, timers>>
  /\ UNCHANGED <<mounted, effects, flushing, pollingRequests, renders>>

\* Mutant: a stopped poll stays registered.
KeepRegistration(id) == UNCHANGED pollingRequests

Unregister(id) == pollingRequests' = pollingRequests \ {pollRequestId(id)}

\* PollingStopped has been dispatched: pollAction drops the registration.
EndPoll ==
  /\ RunTask("PollingStopped")
  /\ Unregister(Head(queue).id)
  /\ queue' = Tail(queue)
  /\ UNCHANGED <<mounted, effects, flushing, waiting, timers, renders>>

Scheduler == TakeStart \/ RequestStart \/ ForkPoll \/ TakeStop \/ EndPoll

PollNext ==
  \/ RenderPage
  \/ FlushEffects
  \/ MessageRenders
  \/ Scheduler

\* The scheduler drains its queue and React runs the effects it owes.
PollSpec == PollInit /\ [][PollNext]_pollVars /\ WF_pollVars(Scheduler) /\ WF_pollVars(FlushEffects)

-----------------------------------------------------------------------------
(* Properties.                                                               *)

\* Ids with a task of this type in the scheduler's queue.
Queued(type) == {id \in PollId : [type |-> type, id |-> id] \in Range(queue)}

\* An id is registered, so that its start actions are ignored, exactly when a
\* timer polls it, or is about to, or PollingStopped still waits in the queue: a
\* start that was ignored only then leaves its component without a poll.  Every
\* timer has a handler that can stop it, and no poll that settled is orphaned.
RegisteredIffPolled ==
  /\ pollingRequests = timers \union Queued("PollingStarted") \union Queued("PollingStopped")
  /\ timers = waiting
  /\ queue = <<>> /\ effects = <<>> => timers \subseteq mounted

\* Every poll of a component that stays unmounted ends.
PollEnds ==
  \A id \in PollId : id \notin mounted ~> (id \notin timers \/ id \in mounted)
=============================================================================
