---------------------------- MODULE NodeActions ----------------------------
(* Actions on nodes, from the list of controllers or of machines: the form   *)
(* over the list that runs an action on every selected node                  *)
(* (ui/src/app/base/components/ActionForm and the hooks of                   *)
(* base/hooks/base.ts), the row menus of machines that run it on one, and    *)
(* the statuses and event errors that the slice keeps of the requests        *)
(* (generateStatusHandlers and updateErrors in store/utils/slice.ts).        *)
(*                                                                           *)
(* The form never sees a request: it guesses from the statuses of the rows   *)
(* that are selected when its work begins and ends, with refs that its       *)
(* effects compare from one render to the next.  A change of the store       *)
(* renders the form at once and runs the effects of the render before;       *)
(* otherwise they run in a turn of their own (FlushEffects).                 *)
(*                                                                           *)
(* The routes of the pages are given a new function as their component in    *)
(* every render, so that a page is mounted anew whenever what holds its      *)
(* route is rendered: the whole page with App, and the machine list also     *)
(* when its form opens or closes, for Machines holds the form and the route. *)
EXTENDS Naturals, FiniteSets

CONSTANTS
  Nodes,        \* the nodes listed when the client connects
  MaxRequests,  \* bound on the requests made
  MaxToggles,   \* bound on the changes of the selection
  MaxOthers,    \* bound on the nodes that other users delete
  MaxRenders,   \* bound on the renders of App that mount the page anew
  MaxDrops      \* bound on the times the connection is lost

ASSUME NodeActionsAssumption ==
  /\ IsFiniteSet(Nodes) /\ Nodes # {}
  /\ {MaxRequests, MaxToggles, MaxOthers, MaxRenders, MaxDrops}
       \subseteq Nat

(* setZone stands for the actions that a row menu runs too (lock, on, test,  *)
(* setPool, ...), delete for the one that takes the node away.               *)
Actions == {"setZone", "delete"}

VARIABLES
  page,      \* the list the user is on
  rows, selected, statuses, eventErrors, \* the slice of its nodes
  form,      \* the open form, its hooks' state and refs
  requests,  \* requests the region has not answered
  notices,   \* nodes whose deleteNotify is on its way
  gone,      \* nodes the region no longer has
  batch,     \* history: the form's last request for each node, 0 if none
  refused,   \* history: those of them answered with an error
  doubled,   \* history: status of a node with two requests at a time
  disturbed, \* history: something but the form's last submission has shown
             \* itself in the statuses the form looks at
  sent, toggles, others, renders, drops \* how often each bounded action happened

slice == <<rows, selected, statuses, eventErrors>>
region == <<requests, notices, gone>>
history == <<batch, refused, doubled, disturbed>>
bounds == <<sent, toggles, others, renders, drops>>
vars == <<page, slice, form, region, history, bounds>>

Request == [id : 1 .. MaxRequests, action : Actions, node : Nodes,
            done : BOOLEAN]

Closed(verdict) ==
  [open |-> FALSE, action |-> "setZone", wasBusy |-> FALSE, wasFailed |-> FALSE,
   started |-> FALSE, complete |-> FALSE, wasSaved |-> FALSE, hasSaved |-> FALSE,
   verdict |-> verdict]

TypeOK ==
  /\ page \in {"machines", "controllers"}
  /\ rows \subseteq Nodes /\ selected \subseteq rows
  /\ statuses \in [rows -> SUBSET Actions]
  /\ eventErrors \subseteq Actions \X Nodes
  /\ form \in [open : BOOLEAN, action : Actions, wasBusy : BOOLEAN,
               wasFailed : BOOLEAN, started : BOOLEAN, complete : BOOLEAN,
               wasSaved : BOOLEAN, hasSaved : BOOLEAN,
               verdict : {"none", "saved"}]
  /\ requests \subseteq Request
  /\ notices \subseteq gone /\ gone \subseteq Nodes
  /\ batch \in [Nodes -> 0 .. MaxRequests] /\ refused \subseteq 1 .. MaxRequests
  /\ doubled \subseteq Actions \X Nodes /\ disturbed \in BOOLEAN
  /\ sent \in 0 .. MaxRequests /\ toggles \in 0 .. MaxToggles
  /\ others \in 0 .. MaxOthers /\ renders \in 0 .. MaxRenders
  /\ drops \in 0 .. MaxDrops

Init ==
  /\ page \in {"machines", "controllers"}
  /\ rows = Nodes /\ selected = {} /\ eventErrors = {}
  /\ statuses = [m \in Nodes |-> {}]
  /\ form = Closed("none")
  /\ requests = {} /\ notices = {} /\ gone = {}
  /\ batch = [m \in Nodes |-> 0] /\ refused = {} /\ doubled = {}
  /\ disturbed = FALSE
  /\ sent = 0 /\ toggles = 0 /\ others = 0 /\ renders = 0 /\ drops = 0

--------------------------------------------------------------------------
(* What a render of the form sees.                                           *)

Pending(a, m) == \E r \in requests : r.action = a /\ r.node = m

(* processingCount # 0                                                       *)
Busy(a) == \E m \in selected : a \in statuses[m]

(* !!errors                                                                  *)
HasErrors(a, errors) == \E m \in selected : <<a, m>> \in errors

(* Mutant: the count only has to be zero.                                    *)
DoneWhenIdle(f, busy, failed) == ~busy /\ ~failed
(* The count has come back to zero, and not just is zero.                    *)
Done(f, busy, failed) == f.wasBusy /\ ~busy /\ ~failed

(* The effects of useProcessing: the count has left zero, has come back to   *)
(* it without errors, or an error came up after the start.                   *)
Processing(f, busy, failed) ==
  [f EXCEPT
     !.started = @ \/ (busy /\ ~f.wasBusy),
     !.complete = IF failed /\ f.started /\ ~f.wasFailed THEN FALSE
                  ELSE @ \/ Done(f, busy, failed),
     !.wasBusy = busy,
     !.wasFailed = failed /\ f.started]

(* The effects of FormikFormContent, which come first: saved has become true *)
(* in an earlier render, so onSuccess (clearHeaderContent) is called.        *)
Succeeds(f, failed) == f.hasSaved /\ ~failed

(* The effects of a render of an open form with these values.                *)
Effects(f, busy, failed) ==
  IF ~f.open THEN f
  ELSE IF Succeeds(f, failed) THEN Closed("saved")
  ELSE IF selected = {} THEN Closed("none")
  ELSE [Processing(f, busy, failed) EXCEPT
          !.hasSaved = @ \/ (f.complete /\ ~f.wasSaved),
          !.wasSaved = f.complete]

Flushed == Effects(form, Busy(form.action), HasErrors(form.action, eventErrors))

(* Machines renders when its form opens or closes, and mounts its list anew: *)
(* the list that goes empties the selection and cleans the errors up.  React *)
(* runs that clean-up before the next event.                                 *)
Remounts == page = "machines" /\ form'.open # form.open

(* A form that closes cleans all the errors of the slice up, too.            *)
Renders(selection, errors) ==
  /\ selected' = IF Remounts THEN {} ELSE selection
  /\ eventErrors' = IF Remounts \/ (form.open /\ ~form'.open) THEN {} ELSE errors

(* The store changes and the form renders: effects that still wait run first.*)
Shows(selection, errors) == form' = Flushed /\ Renders(selection, errors)

FlushEffects ==
  /\ Flushed # form
  /\ Shows(selected, eventErrors)
  /\ UNCHANGED <<page, rows, statuses, region, history, bounds>>

--------------------------------------------------------------------------
(* The user.                                                                 *)

(* A request is sent for each node of ms, and    its Start action sets the   *)
(* status of the node's row.                                                 *)
Send(a, ms, by) ==
  LET next == CHOOSE f \in [ms -> sent + 1 .. sent + Cardinality(ms)] :
                \A m, n \in ms : f[m] = f[n] => m = n
  IN
  /\ sent + Cardinality(ms) <= MaxRequests
  /\ sent' = sent + Cardinality(ms)
  /\ requests' = requests \cup
       {[id |-> next[m], action |-> a, node |-> m, done |-> FALSE] : m \in ms}
  /\ statuses' = [m \in rows |-> IF m \in ms THEN statuses[m] \cup {a} ELSE statuses[m]]
  /\ doubled' = doubled \cup {<<a, m>> : m \in {n \in ms : Pending(a, n)}}
  /\ batch' = IF by = "form"
              THEN [m \in Nodes |-> IF m \in ms THEN next[m] ELSE 0]
              ELSE batch
  /\ UNCHANGED <<page, rows, notices, gone, refused, toggles, others, renders, drops>>

(* The form of an action is opened over the selected nodes.                  *)
Open(a) ==
  /\ ~form.open /\ selected # {}
  /\ form' = [Closed("none") EXCEPT !.open = TRUE, !.action = a, !.wasBusy = Busy(a)]
  /\ Renders(selected, eventErrors)
  /\ batch' = [m \in Nodes |-> 0]
  /\ disturbed' = \E m \in selected : Pending(a, m)
  /\ refused' = {}
  /\ UNCHANGED <<page, rows, statuses, region, doubled, bounds>>

(* All forms but that of delete clean the errors up before they send.        *)
ErrorsOnSubmit(a) == IF a = "delete" THEN eventErrors ELSE {}

(* The form is submitted: the clean-up and each of the requests render it.   *)
Submit ==
  LET a == form.action
      errors == ErrorsOnSubmit(a)
      failed == HasErrors(a, errors)
      cleaned == Effects(Flushed, FALSE, failed)
      busy == IF Cardinality(selected) > 1 THEN Effects(cleaned, TRUE, failed)
              ELSE cleaned
  IN
  /\ form.open /\ Flushed.open /\ ~Busy(a)
  /\ Send(a, selected, "form")
  /\ form' = busy
  /\ Renders(selected, errors)
  /\ disturbed' = (disturbed \/ Flushed # form)

(* The form goes, after the effects that wait.                               *)
Gone == IF Flushed.open THEN Closed("none") ELSE Flushed

(* Cancel is disabled while the form is processing.                          *)
Cancel ==
  /\ form.open /\ ~Busy(form.action)
  /\ form' = Gone
  /\ Renders(selected, eventErrors)
  /\ UNCHANGED <<page, rows, statuses, region, history, bounds>>

(* App renders, as it does for every new search, and mounts the page anew:   *)
(* the form is not kept.  The list of controllers keeps the selection.       *)
RenderApp ==
  /\ renders < MaxRenders
  /\ renders' = renders + 1
  /\ form' = Gone
  /\ selected' = IF page = "machines" THEN {} ELSE selected
  /\ eventErrors' = IF page = "machines" \/ form.open THEN {} ELSE eventErrors
  /\ UNCHANGED <<page, rows, statuses, region, history, sent, toggles, others, drops>>

(* The menu of a machine's row runs the action on it.                        *)
RowAction(m) ==
  /\ page = "machines" /\ m \in rows
  /\ Send("setZone", {m}, "menu")
  /\ disturbed' = (disturbed \/ form.open)
  /\ Shows(selected, eventErrors)

(* The checkbox of a row.                                                    *)
Toggle(m) ==
  /\ m \in rows /\ toggles < MaxToggles
  /\ toggles' = toggles + 1
  /\ disturbed' = (disturbed \/ (form.open /\ m \notin selected))
  /\ Shows(IF m \in selected THEN selected \ {m} ELSE selected \cup {m}, eventErrors)
  /\ UNCHANGED <<page, rows, statuses, region, batch, refused, doubled, sent, others,
                 renders, drops>>

--------------------------------------------------------------------------
(* The region.                                                               *)

(* A node is deleted; its notification may pass the reply.                   *)
RegionDeletes(r) ==
  /\ r.action = "delete" /\ r.node \notin gone
  /\ requests' = (requests \ {r}) \cup {[r EXCEPT !.done = TRUE]}
  /\ gone' = gone \cup {r.node} /\ notices' = notices \cup {r.node}
  /\ UNCHANGED <<page, slice, form, history, bounds>>

OthersDelete(m) ==
  /\ m \notin gone /\ others < MaxOthers
  /\ others' = others + 1
  /\ gone' = gone \cup {m} /\ notices' = notices \cup {m}
  /\ UNCHANGED <<page, slice, form, requests, history, sent, toggles, renders, drops>>

(* Mutant: the status stays.                                                 *)
SettledNever(r) == statuses
(* The handlers of a status: the row may have gone before the reply.         *)
Settled(r) ==
  [m \in rows |-> IF m = r.node THEN statuses[m] \ {r.action} ELSE statuses[m]]

ReplySuccess(r) ==
  /\ IF r.action = "delete" THEN r.done ELSE r.node \notin gone
  /\ requests' = requests \ {r}
  /\ statuses' = Settled(r)
  /\ Shows(selected, eventErrors)
  /\ UNCHANGED <<page, rows, notices, gone, history, bounds>>

ReplyError(r) ==
  /\ ~r.done
  /\ requests' = requests \ {r}
  /\ refused' = refused \cup ({r.id} \cap {batch[r.node]})
  /\ statuses' = Settled(r)
  /\ Shows(selected, eventErrors \cup {<<r.action, r.node>>})
  /\ UNCHANGED <<page, rows, notices, gone, batch, doubled, disturbed, bounds>>

(* Mutant: the machine stays selected.                                       *)
SelectionKept(m) == selected
Deselected(m) == selected \ {m}

(* deleteNotify drops the row, its status and its selection.                 *)
DeleteNotify(m) ==
  /\ m \in notices
  /\ notices' = notices \ {m}
  /\ rows' = rows \ {m}
  /\ statuses' = [n \in rows \ {m} |-> statuses[n]]
  /\ Shows(Deselected(m), eventErrors)
  /\ UNCHANGED <<page, requests, gone, history, bounds>>

(* The connection is lost and made again: status/websocketDisconnected       *)
(* resets the slice and takes the page off, the list is fetched anew.        *)
Drop ==
  /\ drops < MaxDrops
  /\ drops' = drops + 1
  /\ rows' = Nodes \ gone /\ selected' = {} /\ eventErrors' = {}
  /\ statuses' = [m \in rows' |-> {}]
  /\ form' = Closed("none")
  /\ requests' = {} /\ notices' = {}
  /\ batch' = [m \in Nodes |-> 0] /\ refused' = {} /\ doubled' = {}
  /\ disturbed' = FALSE
  /\ UNCHANGED <<page, gone, sent, toggles, others, renders>>

--------------------------------------------------------------------------
RegionStep ==
  \/ \E r \in requests : RegionDeletes(r) \/ ReplySuccess(r) \/ ReplyError(r)
  \/ \E m \in notices : DeleteNotify(m)

Next ==
  \/ FlushEffects
  \/ \E a \in Actions : Open(a)
  \/ Submit \/ Cancel \/ RenderApp
  \/ \E m \in Nodes : RowAction(m) \/ Toggle(m) \/ OthersDelete(m)
  \/ RegionStep
  \/ Drop

(* React runs the effects, and the region answers and notifies.              *)
Spec == Init /\ [][Next]_vars /\ WF_vars(FlushEffects) /\ WF_vars(RegionStep)

--------------------------------------------------------------------------
Succeeded(m) ==
  /\ batch[m] # 0 /\ batch[m] \notin refused
  /\ \A r \in requests : r.id # batch[m]

(* A row shows an action in progress only while a request for it waits for   *)
(* its answer, and shows it as long as one does, unless two requests of one  *)
(* action were under way for the node: the first answer clears the flag      *)
(* they share (generateStatusHandlers).                                      *)
StatusTracksRequests ==
  \A m \in rows, a \in Actions :
    /\ a \in statuses[m] => Pending(a, m)
    /\ Pending(a, m) => a \in statuses[m] \/ <<a, m>> \in doubled

(* The form reports success only when it was submitted and the request of    *)
(* each node that it sent one for, and that is still selected, was           *)
(* answered without an error, though it looks at flags and renders only      *)
(* (useProcessing, FormikFormContent).  It takes that nobody ran the action  *)
(* from a row menu or selected one more node since the form was opened,      *)
(* and nobody submitted it again before its effects had run.                 *)
SuccessIsReal ==
  [][ form.open /\ form'.verdict = "saved" /\ ~disturbed =>
        /\ \E m \in Nodes : batch[m] # 0
        /\ \A m \in selected : batch[m] # 0 => Succeeded(m) ]_vars

(* When all the requests of a submission have succeeded the form closes, or  *)
(* it still shows the error of an earlier submission, as that of delete may. *)
AllSucceeded ==
  /\ form.open
  /\ \E m \in selected : batch[m] # 0
  /\ \A m \in Nodes : batch[m] # 0 => Succeeded(m)

DoneCloses == AllSucceeded ~> ~AllSucceeded \/ HasErrors(form.action, eventErrors)

(* The form that opens is over the nodes that were selected: the list of     *)
(* machines says of itself that it clears the selection "when closing the    *)
(* list" (MachineList.tsx), and the form closes when nothing is selected.    *)
OpensOnSelection == [][~form.open /\ form'.open => selected' = selected]_vars
=============================================================================
