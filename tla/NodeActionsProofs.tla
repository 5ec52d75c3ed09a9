------------------------- MODULE NodeActionsProofs -------------------------
(* Proofs about the forms and menus that run an action on nodes.             *)
EXTENDS NodeActions, FunctionTheorems, FiniteSetTheorems, TLAPS

\* Two requests of one action are under way for a node only after the second was
\* noted in doubled.
TwiceDoubled ==
  \A r, q \in requests :
    r.action = q.action /\ r.node = q.node /\ r # q => <<r.action, r.node>> \in doubled

\* No two requests have one id, and none has an id that is yet to be handed out.
IdsFresh ==
  /\ \A r \in requests : r.id <= sent
  /\ \A r, q \in requests : r.id = q.id => r = q
  /\ \A m \in Nodes : batch[m] <= sent
  /\ \A i \in refused : i <= sent

\* A request that the form has sent last for a node is for that node, and of the
\* action of the form that is open.
BatchOwn ==
  \A r \in requests, m \in Nodes :
    r.id = batch[m] => r.node = m /\ (form.open => r.action = form.action)

\* What success means: the form sent something, and what it sent for the nodes
\* that are still selected was answered without an error.
Real ==
  /\ \E m \in Nodes : batch[m] # 0
  /\ \A m \in selected : batch[m] # 0 => Succeeded(m)

\* The requests of the action for selected nodes are those of the form, and each
\* shows in its row.
OnlyOwn ==
  \A r \in requests :
    r.action = form.action /\ r.node \in selected =>
      r.id = batch[r.node] /\ form.action \in statuses[r.node]

RefusedShown ==
  \A m \in selected : batch[m] \in refused => <<form.action, m>> \in eventErrors

\* The flags of the hooks mean what their names say.
FlagsTrue(f) ==
  /\ f.wasBusy => \E m \in Nodes : batch[m] # 0
  /\ f.complete => Real /\ ~HasErrors(f.action, eventErrors)
  /\ f.hasSaved => f.complete
  /\ f.wasSaved => f.hasSaved

\* As long as nothing but the form's last submission shows itself in what the open
\* form looks at.
Undisturbed == form.open /\ ~disturbed => OnlyOwn /\ RefusedShown /\ FlagsTrue(form)

OpenUnsaved == form.open => form.verdict = "none"

IInv ==
  /\ TypeOK /\ StatusTracksRequests /\ TwiceDoubled
  /\ IdsFresh /\ BatchOwn /\ Undisturbed /\ OpenUnsaved

-----------------------------------------------------------------------------
(* The effects of the form.                                                  *)

Form == [open : BOOLEAN, action : Actions, wasBusy : BOOLEAN, wasFailed : BOOLEAN,
         started : BOOLEAN, complete : BOOLEAN, wasSaved : BOOLEAN,
         hasSaved : BOOLEAN, verdict : {"none", "saved"}]

\* The flags of a form that its effects leave open.
Moved(f, g, busy, failed) ==
  /\ g.open /\ g.action = f.action /\ g.verdict = f.verdict
  /\ g.wasBusy <=> busy
  /\ g.complete => f.complete \/ Done(f, busy, failed)
  /\ f.complete /\ ~failed => g.complete
  /\ g.hasSaved <=> f.hasSaved \/ (f.complete /\ ~f.wasSaved)
  /\ g.wasSaved <=> f.complete
  /\ ~(f.hasSaved /\ ~failed) /\ selected # {}

\* The effects of an open form report success, close it for want of a selection,
\* or leave it open with its flags moved on.
LEMMA EffectsShape ==
  ASSUME NEW f \in Form, f.open, NEW busy \in BOOLEAN, NEW failed \in BOOLEAN
  PROVE  LET g == Effects(f, busy, failed) IN
         /\ g \in Form
         /\ \/ g = Closed("saved") /\ f.hasSaved /\ ~failed
            \/ g = Closed("none")
            \/ Moved(f, g, busy, failed)
<1> DEFINE g == Effects(f, busy, failed)
           h == Processing(f, busy, failed)
<1>1. CASE Succeeds(f, failed)
  BY <1>1 DEF Effects, Succeeds, Closed, Form, Actions
<1>2. CASE ~Succeeds(f, failed) /\ selected = {}
  BY <1>2 DEF Effects, Closed, Form, Actions
<1>3. CASE ~Succeeds(f, failed) /\ selected # {}
  <2>1. h \in Form /\ h.open = f.open /\ h.action = f.action /\ h.verdict = f.verdict
    <3> DEFINE started == f.started \/ (busy /\ ~f.wasBusy)
               wasFailed == failed /\ f.started
               complete == IF failed /\ f.started /\ ~f.wasFailed THEN FALSE
                           ELSE f.complete \/ Done(f, busy, failed)
    <3>1. started \in BOOLEAN /\ wasFailed \in BOOLEAN /\ complete \in BOOLEAN
      BY DEF Form, Done
    <3>2. h = [f EXCEPT !.started = started, !.complete = complete, !.wasBusy = busy,
                        !.wasFailed = wasFailed]
      BY DEF Processing
    <3>3. f.open \in BOOLEAN /\ f.action \in Actions /\ f.wasSaved \in BOOLEAN
          /\ f.hasSaved \in BOOLEAN /\ f.verdict \in {"none", "saved"}
      BY DEF Form
    <3> HIDE DEF started, wasFailed, complete, h
    <3>4. h = [open |-> f.open, action |-> f.action, wasBusy |-> busy, wasFailed |-> wasFailed,
               started |-> started, complete |-> complete, wasSaved |-> f.wasSaved,
               hasSaved |-> f.hasSaved, verdict |-> f.verdict]
      BY <3>2 DEF Form
    <3> QED
      BY <3>1, <3>3, <3>4 DEF Form
  <2>2. /\ h.wasBusy = busy /\ h.hasSaved = f.hasSaved /\ h.wasSaved = f.wasSaved
        /\ h.complete = IF failed /\ f.started /\ ~f.wasFailed THEN FALSE
                        ELSE f.complete \/ Done(f, busy, failed)
    BY DEF Processing, Form
  <2>3. g = [h EXCEPT !.hasSaved = h.hasSaved \/ (f.complete /\ ~f.wasSaved),
                      !.wasSaved = f.complete]
    BY <1>3 DEF Effects
  <2>4. g \in Form
    BY <2>1, <2>3 DEF Form
  <2>5. /\ g.open /\ g.action = f.action /\ g.verdict = f.verdict
        /\ g.wasBusy = h.wasBusy /\ g.complete = h.complete
        /\ g.hasSaved = (h.hasSaved \/ (f.complete /\ ~f.wasSaved))
        /\ g.wasSaved = f.complete
    BY <2>1, <2>3 DEF Form
  <2> QED
    BY <2>2, <2>4, <2>5, <1>3 DEF Succeeds, Moved
<1> QED
  BY <1>1, <1>2, <1>3

\* A closed form has no effects.
LEMMA EffectsClosed ==
  ASSUME NEW f \in Form, ~f.open, NEW busy, NEW failed
  PROVE  Effects(f, busy, failed) = f
BY DEF Effects, Form

\* The effects leave a form a form.
LEMMA EffectsIn ==
  ASSUME NEW f \in Form, NEW busy \in BOOLEAN, NEW failed \in BOOLEAN
  PROVE  Effects(f, busy, failed) \in Form
<1>1. CASE f.open
  BY <1>1, EffectsShape
<1>2. CASE ~f.open
  BY <1>2, EffectsClosed
<1> QED
  BY <1>1, <1>2

\* A form that is open after its effects was open before, and its flags moved on.
LEMMA EffectsOpen ==
  ASSUME NEW f \in Form, NEW busy \in BOOLEAN, NEW failed \in BOOLEAN,
         Effects(f, busy, failed).open
  PROVE  f.open /\ Moved(f, Effects(f, busy, failed), busy, failed)
<1>1. f.open
  BY EffectsClosed
<1>2. ~Closed("saved").open /\ ~Closed("none").open
  BY DEF Closed
<1> QED
  BY <1>1, <1>2, EffectsShape

\* A form that was saved closes with a success.
LEMMA EffectsSaved ==
  ASSUME NEW f \in Form, NEW busy \in BOOLEAN, NEW failed \in BOOLEAN,
         Effects(f, busy, failed).verdict = "saved", f.verdict = "none"
  PROVE  f.hasSaved
<1>1. f.open
  BY EffectsClosed
<1>2. Closed("none").verdict = "none"
  BY DEF Closed
<1> QED
  BY <1>1, <1>2, EffectsShape DEF Moved

\* A form that closes is a form.
LEMMA ClosedForm ==
  ASSUME NEW verdict \in {"none", "saved"}
  PROVE  /\ Closed(verdict) \in Form
         /\ ~Closed(verdict).open /\ Closed(verdict).verdict = verdict
BY DEF Closed, Form, Actions

\* There are enough new ids for the nodes that requests are sent for.
LEMMA FreshIds ==
  ASSUME NEW ms, IsFiniteSet(ms), NEW n \in Nat
  PROVE  /\ Cardinality(ms) \in Nat
         /\ \E f \in [ms -> n + 1 .. n + Cardinality(ms)] :
              \A x, y \in ms : f[x] = f[y] => x = y
<1> DEFINE k == Cardinality(ms)
<1>1. k \in Nat /\ ExistsBijection(1 .. k, ms)
  BY FS_CardinalityType
<1>2. ExistsBijection(ms, 1 .. k)
  BY <1>1, Fun_ExistsBijSymmetric
<1>3. PICK g \in Bijection(ms, 1 .. k) : TRUE
  BY <1>2 DEF ExistsBijection
<1>4. g \in [ms -> 1 .. k] /\ \A x, y \in ms : g[x] = g[y] => x = y
  BY <1>3 DEF Bijection, Injection, IsInjective
<1> DEFINE f == [x \in ms |-> n + g[x]]
<1>5. f \in [ms -> n + 1 .. n + k]
  BY <1>1, <1>4
<1>6. \A x, y \in ms : f[x] = f[y] => x = y
  <2> SUFFICES ASSUME NEW x \in ms, NEW y \in ms, f[x] = f[y] PROVE x = y
    OBVIOUS
  <2>1. g[x] \in 1 .. k /\ g[y] \in 1 .. k /\ n + g[x] = n + g[y]
    BY <1>4
  <2> HIDE DEF f
  <2>2. g[x] = g[y]
    BY <1>1, <2>1
  <2> QED
    BY <1>4, <2>2
<1> QED
  BY <1>1, <1>5, <1>6

-----------------------------------------------------------------------------
(* Types.                                                                    *)

New(next, a, ms) ==
  {[id |-> next[m], action |-> a, node |-> m, done |-> FALSE] : m \in ms}

\* There is one new request for each node.
LEMMA NewFacts ==
  ASSUME NEW next, NEW a, NEW ms
  PROVE  /\ \A r \in New(next, a, ms) :
              r.action = a /\ r.node \in ms /\ r.id = next[r.node] /\ ~r.done
         /\ \A r, q \in New(next, a, ms) : r.node = q.node => r = q
         /\ \A m \in ms : \E r \in New(next, a, ms) :
              r.action = a /\ r.node = m /\ r.id = next[m]
<1> DEFINE request(m) == [id |-> next[m], action |-> a, node |-> m, done |-> FALSE]
<1>1. \A m : /\ request(m).node = m /\ request(m).action = a
             /\ request(m).id = next[m] /\ ~request(m).done
  OBVIOUS
<1>2. New(next, a, ms) = {request(m) : m \in ms}
  BY DEF New
<1> HIDE DEF request
<1> QED
  BY <1>1, <1>2

\* The requests that a send makes, and what the form notes of them.
Sends(next, a, ms, by) ==
  /\ \A m, n \in ms : next[m] = next[n] => m = n
  /\ requests' = requests \cup New(next, a, ms)
  /\ batch' = IF by = "form"
              THEN [m \in Nodes |-> IF m \in ms THEN next[m] ELSE 0]
              ELSE batch

\* The requests that are sent have ids of their own, after those of all before.
LEMMA SendFacts ==
  ASSUME TypeOK, NEW a, NEW ms \in SUBSET rows, NEW by, Send(a, ms, by)
  PROVE  /\ sent' \in sent .. MaxRequests
         /\ \E next \in [ms -> sent + 1 .. sent'] : Sends(next, a, ms, by)
<1> DEFINE Injective(f) == \A m, n \in ms : f[m] = f[n] => m = n
           Ids == sent + 1 .. sent + Cardinality(ms)
           next == CHOOSE f \in [ms -> Ids] : Injective(f)
<1>1. IsFiniteSet(ms) /\ sent \in Nat
  BY NodeActionsAssumption, FS_Subset DEF TypeOK
<1>2. Cardinality(ms) \in Nat /\ \E f \in [ms -> Ids] : Injective(f)
  BY <1>1, FreshIds
<1>3. next \in [ms -> Ids] /\ Injective(next)
  BY <1>2
<1>4. /\ sent' = sent + Cardinality(ms) /\ sent' <= MaxRequests
      /\ requests' = requests \cup New(next, a, ms)
      /\ batch' = IF by = "form"
                  THEN [m \in Nodes |-> IF m \in ms THEN next[m] ELSE 0]
                  ELSE batch
  BY DEF Send, New
<1>5. sent' \in sent .. MaxRequests
  BY <1>1, <1>2, <1>4, NodeActionsAssumption
<1> HIDE DEF next
<1>6. next \in [ms -> sent + 1 .. sent']
  BY <1>3, <1>4
<1>7. Sends(next, a, ms, by)
  BY <1>3, <1>4 DEF Sends
<1> QED
  BY <1>5, <1>6, <1>7

\* Sending keeps the types.
LEMMA SendType ==
  ASSUME TypeOK, NEW a \in Actions, NEW ms \in SUBSET rows, NEW by, Send(a, ms, by)
  PROVE  /\ requests' \subseteq Request /\ batch' \in [Nodes -> 0 .. MaxRequests]
         /\ statuses' \in [rows -> SUBSET Actions]
         /\ doubled' \subseteq Actions \X Nodes /\ sent' \in 0 .. MaxRequests
         /\ UNCHANGED <<page, rows, notices, gone, refused, toggles, others, renders,
                        drops>>
<1>1. MaxRequests \in Nat /\ sent \in 0 .. MaxRequests /\ ms \subseteq Nodes
  BY NodeActionsAssumption DEF TypeOK
<1>2. sent' \in sent .. MaxRequests
  BY SendFacts
<1>3. PICK next \in [ms -> sent + 1 .. sent'] : Sends(next, a, ms, by)
  BY SendFacts
<1>4. \A m \in ms : next[m] \in 1 .. MaxRequests
  BY <1>1, <1>2, <1>3
<1>5. New(next, a, ms) \subseteq Request
  <2> SUFFICES ASSUME NEW m \in ms
               PROVE  [id |-> next[m], action |-> a, node |-> m, done |-> FALSE] \in Request
    BY DEF New
  <2> QED
    BY <1>1, <1>4 DEF Request
<1>6. batch' \in [Nodes -> 0 .. MaxRequests]
  BY <1>1, <1>3, <1>4 DEF Sends, TypeOK
<1>7. statuses' \in [rows -> SUBSET Actions]
  BY DEF Send, TypeOK
<1>8. doubled' \subseteq Actions \X Nodes
  BY <1>1 DEF Send, TypeOK
<1>9. requests' \subseteq Request
  BY <1>3, <1>5 DEF Sends, TypeOK
<1>10. UNCHANGED <<page, rows, notices, gone, refused, toggles, others, renders, drops>>
  BY DEF Send
<1> QED
  BY <1>1, <1>2, <1>6, <1>7, <1>8, <1>9, <1>10

\* A render takes nothing into the selection and shows no error of its own.
LEMMA RendersSmaller ==
  ASSUME NEW selection, NEW errors, Renders(selection, errors)
  PROVE  selected' \subseteq selection /\ eventErrors' \subseteq errors
BY DEF Renders

\* So are the form after the effects that wait, and the one that goes.
LEMMA FlushedForm ==
  ASSUME TypeOK
  PROVE  Flushed \in Form /\ Gone \in Form /\ ~Gone.open
<1>1. /\ form \in Form /\ Busy(form.action) \in BOOLEAN
      /\ HasErrors(form.action, eventErrors) \in BOOLEAN
  BY DEF TypeOK, Form, Busy, HasErrors
<1>2. Flushed \in Form
  BY <1>1, EffectsIn DEF Flushed
<1> QED
  BY <1>2, ClosedForm DEF Gone

\* Every action keeps the types.
LEMMA TypeStep == TypeOK /\ [Next]_vars => TypeOK'
<1> SUFFICES ASSUME TypeOK, [Next]_vars PROVE TypeOK'
  OBVIOUS
<1> DEFINE FormOK == form' \in Form
           SliceOK == /\ rows' \subseteq Nodes /\ selected' \subseteq rows'
                      /\ statuses' \in [rows' -> SUBSET Actions]
                      /\ eventErrors' \subseteq Actions \X Nodes
           RegionOK == requests' \subseteq Request /\ notices' \subseteq gone' /\ gone' \subseteq Nodes
           HistoryOK == /\ batch' \in [Nodes -> 0 .. MaxRequests]
                        /\ refused' \subseteq 1 .. MaxRequests
                        /\ doubled' \subseteq Actions \X Nodes /\ disturbed' \in BOOLEAN
           BoundsOK == /\ sent' \in 0 .. MaxRequests /\ toggles' \in 0 .. MaxToggles
                       /\ others' \in 0 .. MaxOthers /\ renders' \in 0 .. MaxRenders
                       /\ drops' \in 0 .. MaxDrops
<1>a. page' = page /\ FormOK /\ SliceOK /\ RegionOK /\ HistoryOK /\ BoundsOK => TypeOK'
  BY DEF TypeOK, Form
<1>b. /\ {MaxRequests, MaxToggles, MaxOthers, MaxRenders, MaxDrops} \subseteq Nat
      /\ form \in Form /\ Flushed \in Form /\ Gone \in Form /\ Busy(form.action) \in BOOLEAN
  BY NodeActionsAssumption, FlushedForm DEF TypeOK, Form, Busy
<1> USE DEF slice, region, history, bounds
<1>1. CASE FlushEffects
  <2>1. selected' \subseteq selected /\ eventErrors' \subseteq eventErrors
    BY <1>1, RendersSmaller DEF FlushEffects, Shows
  <2> QED
    BY <1>1, <1>a, <1>b, <2>1 DEF FlushEffects, Shows, TypeOK
<1>2. ASSUME NEW a \in Actions, Open(a) PROVE TypeOK'
  <2>1. selected' \subseteq selected /\ eventErrors' \subseteq eventErrors
    BY <1>2, RendersSmaller DEF Open
  <2>2. Busy(a) \in BOOLEAN
    BY DEF Busy
  <2>3. FormOK
    BY <1>2, <2>2 DEF Open, Closed, Form
  <2>4. disturbed' \in BOOLEAN
    BY <1>2 DEF Open
  <2>5. HistoryOK
    BY <1>2, <1>b, <2>4 DEF Open, TypeOK
  <2> QED
    BY <1>2, <1>a, <2>1, <2>3, <2>5 DEF Open, TypeOK
<1>3. CASE Submit
  <2> DEFINE a == form.action
             failed == HasErrors(a, ErrorsOnSubmit(a))
             cleaned == Effects(Flushed, FALSE, failed)
  <2>1. failed \in BOOLEAN /\ a \in Actions
    BY <1>b DEF HasErrors, Form
  <2>2. cleaned \in Form
    BY <1>b, <2>1, EffectsIn
  <2>3. Effects(cleaned, TRUE, failed) \in Form
    BY <2>1, <2>2, EffectsIn
  <2>4. FormOK
    BY <1>3, <2>2, <2>3 DEF Submit
  <2>5. Send(a, selected, "form") /\ Renders(selected, ErrorsOnSubmit(a))
    BY <1>3 DEF Submit
  <2>6. selected' \subseteq selected /\ eventErrors' \subseteq ErrorsOnSubmit(a)
    BY <2>5, RendersSmaller
  <2>7. eventErrors' \subseteq Actions \X Nodes
    BY <2>6 DEF ErrorsOnSubmit, TypeOK
  <2>8. /\ requests' \subseteq Request /\ batch' \in [Nodes -> 0 .. MaxRequests]
        /\ statuses' \in [rows -> SUBSET Actions]
        /\ doubled' \subseteq Actions \X Nodes /\ sent' \in 0 .. MaxRequests
        /\ UNCHANGED <<page, rows, notices, gone, refused, toggles, others, renders, drops>>
    BY <2>1, <2>5, SendType DEF TypeOK
  <2>9. disturbed' \in BOOLEAN
    BY <1>3 DEF Submit, TypeOK
  <2> QED
    BY <1>a, <2>4, <2>6, <2>7, <2>8, <2>9 DEF TypeOK
<1>4. CASE Cancel
  <2>1. selected' \subseteq selected /\ eventErrors' \subseteq eventErrors
    BY <1>4, RendersSmaller DEF Cancel
  <2> QED
    BY <1>4, <1>a, <1>b, <2>1 DEF Cancel, TypeOK
<1>5. CASE RenderApp
  BY <1>5, <1>a, <1>b DEF RenderApp, TypeOK
<1>6. ASSUME NEW m \in Nodes, RowAction(m) PROVE TypeOK'
  <2>1. selected' \subseteq selected /\ eventErrors' \subseteq eventErrors
    BY <1>6, RendersSmaller DEF RowAction, Shows
  <2>2. /\ requests' \subseteq Request /\ batch' \in [Nodes -> 0 .. MaxRequests]
        /\ statuses' \in [rows -> SUBSET Actions]
        /\ doubled' \subseteq Actions \X Nodes /\ sent' \in 0 .. MaxRequests
        /\ UNCHANGED <<page, rows, notices, gone, refused, toggles, others, renders, drops>>
    BY <1>6, SendType DEF RowAction, Actions
  <2>3. FormOK /\ disturbed' \in BOOLEAN
    BY <1>6, <1>b DEF RowAction, Shows, TypeOK
  <2> QED
    BY <1>a, <2>1, <2>2, <2>3 DEF TypeOK
<1>7. ASSUME NEW m \in Nodes, Toggle(m) PROVE TypeOK'
  <2>1. selected' \subseteq rows /\ eventErrors' \subseteq eventErrors
    BY <1>7, RendersSmaller DEF Toggle, Shows, TypeOK
  <2>2. disturbed' \in BOOLEAN
    BY <1>7 DEF Toggle, TypeOK
  <2> QED
    BY <1>7, <1>a, <1>b, <2>1, <2>2 DEF Toggle, Shows, TypeOK
<1>8. ASSUME NEW m \in Nodes, OthersDelete(m) PROVE TypeOK'
  BY <1>8, <1>a, <1>b DEF OthersDelete, TypeOK
<1>9. ASSUME NEW r \in requests, RegionDeletes(r) PROVE TypeOK'
  <2>1. r \in Request
    BY DEF TypeOK
  <2>2. [r EXCEPT !.done = TRUE] \in Request /\ r.node \in Nodes
    BY <2>1 DEF Request
  <2>3. requests \subseteq Request /\ requests' \subseteq Request
    BY <1>9, <2>2 DEF RegionDeletes, TypeOK
  <2> QED
    BY <1>9, <1>a, <1>b, <2>2, <2>3 DEF RegionDeletes, TypeOK
<1>10. ASSUME NEW r \in requests, ReplySuccess(r) PROVE TypeOK'
  <2>1. selected' \subseteq selected /\ eventErrors' \subseteq eventErrors
    BY <1>10, RendersSmaller DEF ReplySuccess, Shows
  <2>2. statuses' \in [rows -> SUBSET Actions]
    BY <1>10 DEF ReplySuccess, Settled, TypeOK
  <2> QED
    BY <1>10, <1>a, <1>b, <2>1, <2>2 DEF ReplySuccess, Shows, TypeOK
<1>11. ASSUME NEW r \in requests, ReplyError(r) PROVE TypeOK'
  <2>1. r.action \in Actions /\ r.node \in Nodes /\ r.id \in 1 .. MaxRequests
    BY DEF TypeOK, Request
  <2>2. selected' \subseteq selected
    BY <1>11, RendersSmaller DEF ReplyError, Shows
  <2>3. eventErrors' \subseteq eventErrors \cup {<<r.action, r.node>>}
    BY <1>11, RendersSmaller DEF ReplyError, Shows
  <2>4. statuses' \in [rows -> SUBSET Actions]
    BY <1>11 DEF ReplyError, Settled, TypeOK
  <2>5. eventErrors' \subseteq Actions \X Nodes
    BY <2>1, <2>3 DEF TypeOK
  <2> QED
    BY <1>11, <1>a, <1>b, <2>1, <2>2, <2>4, <2>5 DEF ReplyError, Shows, TypeOK
<1>12. ASSUME NEW m \in notices, DeleteNotify(m) PROVE TypeOK'
  <2>1. selected' \subseteq selected \ {m} /\ eventErrors' \subseteq eventErrors
    BY <1>12, RendersSmaller DEF DeleteNotify, Shows, Deselected
  <2>2. statuses' \in [rows' -> SUBSET Actions]
    BY <1>12 DEF DeleteNotify, TypeOK
  <2> QED
    BY <1>12, <1>a, <1>b, <2>1, <2>2 DEF DeleteNotify, Shows, TypeOK
<1>13. CASE Drop
  <2>1. FormOK
    BY <1>13, ClosedForm DEF Drop
  <2>2. statuses' \in [rows' -> SUBSET Actions]
    BY <1>13 DEF Drop
  <2>3. batch' \in [Nodes -> 0 .. MaxRequests]
    BY <1>13, <1>b DEF Drop
  <2>4. SliceOK
    BY <1>13, <2>2 DEF Drop
  <2>5. RegionOK /\ HistoryOK
    BY <1>13, <2>3 DEF Drop, TypeOK
  <2>6. BoundsOK
    BY <1>13, <1>b DEF Drop, TypeOK
  <2> QED
    BY <1>13, <1>a, <2>1, <2>4, <2>5, <2>6 DEF Drop
<1>14. CASE UNCHANGED vars
  BY <1>14, <1>a, <1>b DEF vars, TypeOK
<1> QED
  BY <1>1, <1>2, <1>3, <1>4, <1>5, <1>6, <1>7, <1>8, <1>9, <1>10, <1>11, <1>12, <1>13, <1>14
  DEF Next, RegionStep

-----------------------------------------------------------------------------
(* The statuses.                                                             *)

\* A row and the requests agree after every step.
LEMMA StatusStep ==
  TypeOK /\ StatusTracksRequests /\ TwiceDoubled /\ [Next]_vars
    => StatusTracksRequests' /\ TwiceDoubled'
<1> SUFFICES ASSUME TypeOK, StatusTracksRequests, TwiceDoubled, [Next]_vars
             PROVE  StatusTracksRequests' /\ TwiceDoubled'
  OBVIOUS
<1> USE DEF StatusTracksRequests, TwiceDoubled, Pending
<1>1. ASSUME UNCHANGED <<rows, statuses, requests, doubled>>
      PROVE  StatusTracksRequests' /\ TwiceDoubled'
  BY <1>1
<1>2. ASSUME NEW a \in Actions, NEW ms \in SUBSET rows, NEW by, Send(a, ms, by)
      PROVE  StatusTracksRequests' /\ TwiceDoubled'
  <2>1. PICK next \in [ms -> sent + 1 .. sent'] : Sends(next, a, ms, by)
    BY <1>2, SendFacts
  <2>2. requests' = requests \cup New(next, a, ms)
    BY <2>1 DEF Sends
  <2>3. /\ rows' = rows
        /\ statuses' = [m \in rows |-> IF m \in ms THEN statuses[m] \cup {a} ELSE statuses[m]]
        /\ doubled' = doubled \cup {<<a, m>> : m \in {n \in ms : Pending(a, n)}}
    BY <1>2 DEF Send
  <2>4. ASSUME NEW r \in New(next, a, ms)
        PROVE  r.action = a /\ r.node \in ms
    BY NewFacts
  <2>5. \A r \in requests, q \in New(next, a, ms) :
          r.action = a /\ r.node = q.node => <<a, r.node>> \in doubled'
    BY <2>3, <2>4
  <2>6. \A r, q \in New(next, a, ms) : r.node = q.node => r = q
    BY NewFacts
  <2>7. TwiceDoubled'
    <3> SUFFICES ASSUME NEW r \in requests', NEW q \in requests',
                        r.action = q.action, r.node = q.node, r # q
                 PROVE  <<r.action, r.node>> \in doubled'
      OBVIOUS
    <3> QED
      BY <2>2, <2>3, <2>4, <2>5, <2>6
  <2>8. ASSUME NEW m \in rows, NEW b \in Actions
        PROVE  /\ b \in statuses'[m] => Pending(b, m)'
               /\ Pending(b, m)' => b \in statuses'[m] \/ <<b, m>> \in doubled'
    <3>1. m \in ms => \E r \in New(next, a, ms) : r.action = a /\ r.node = m
      BY NewFacts
    <3> QED
      BY <2>2, <2>3, <2>4, <3>1
  <2> QED
    BY <2>3, <2>7, <2>8
<1>3. ASSUME NEW r \in requests, requests' = requests \ {r}, statuses' = Settled(r),
             UNCHANGED <<rows, doubled>>
      PROVE  StatusTracksRequests' /\ TwiceDoubled'
  BY <1>3 DEF Settled, TypeOK
<1>4. CASE FlushEffects
  BY <1>4, <1>1 DEF FlushEffects, region, history
<1>5. ASSUME NEW a \in Actions, Open(a) PROVE StatusTracksRequests' /\ TwiceDoubled'
  BY <1>5, <1>1 DEF Open, region
<1>6. CASE Submit
  BY <1>6, <1>2 DEF Submit, TypeOK
<1>7. CASE Cancel \/ RenderApp
  BY <1>7, <1>1 DEF Cancel, RenderApp, region, history
<1>8. ASSUME NEW m \in Nodes, RowAction(m) PROVE StatusTracksRequests' /\ TwiceDoubled'
  BY <1>8, <1>2 DEF RowAction, Actions
<1>9. ASSUME NEW m \in Nodes, Toggle(m) \/ OthersDelete(m)
      PROVE  StatusTracksRequests' /\ TwiceDoubled'
  BY <1>9, <1>1 DEF Toggle, OthersDelete, slice, region, history
<1>10. ASSUME NEW r \in requests, RegionDeletes(r)
       PROVE  StatusTracksRequests' /\ TwiceDoubled'
  <2> DEFINE d == [r EXCEPT !.done = TRUE]
  <2>1. r \in Request
    BY DEF TypeOK
  <2>2. d.action = r.action /\ d.node = r.node
    BY <2>1 DEF Request
  <2>3. requests' = (requests \ {r}) \cup {d} /\ UNCHANGED <<rows, statuses, doubled>>
    BY <1>10 DEF RegionDeletes, slice, history
  <2> HIDE DEF d
  <2> QED
    BY <2>2, <2>3
<1>11. ASSUME NEW r \in requests, ReplySuccess(r) \/ ReplyError(r)
       PROVE  StatusTracksRequests' /\ TwiceDoubled'
  BY <1>11, <1>3 DEF ReplySuccess, ReplyError, history
<1>12. ASSUME NEW m \in notices, DeleteNotify(m)
       PROVE  StatusTracksRequests' /\ TwiceDoubled'
  BY <1>12 DEF DeleteNotify, history
<1>13. CASE Drop
  BY <1>13 DEF Drop
<1>14. CASE UNCHANGED vars
  BY <1>14, <1>1 DEF vars, slice, region, history
<1> QED
  BY <1>4, <1>5, <1>6, <1>7, <1>8, <1>9, <1>10, <1>11, <1>12, <1>13, <1>14 DEF Next, RegionStep

-----------------------------------------------------------------------------
(* The requests and what the form notes of them.                             *)

\* Ids are handed out once.
LEMMA IdsStep == TypeOK /\ IdsFresh /\ [Next]_vars => IdsFresh'
<1> SUFFICES ASSUME TypeOK, IdsFresh, [Next]_vars PROVE IdsFresh'
  OBVIOUS
<1> USE DEF IdsFresh
<1>1. ASSUME UNCHANGED <<requests, batch, refused, sent>> PROVE IdsFresh'
  BY <1>1
<1>2. ASSUME NEW a, NEW ms \in SUBSET rows, NEW by, Send(a, ms, by) PROVE IdsFresh'
  <2>1. PICK next \in [ms -> sent + 1 .. sent'] : Sends(next, a, ms, by)
    BY <1>2, SendFacts
  <2>2. /\ requests' = requests \cup New(next, a, ms)
        /\ \A m, n \in ms : next[m] = next[n] => m = n
    BY <2>1 DEF Sends
  <2>10. ASSUME NEW m \in Nodes
         PROVE  batch'[m] = batch[m] \/ batch'[m] = 0 \/ (m \in ms /\ batch'[m] = next[m])
    <3>1. CASE by = "form"
      BY <2>1, <3>1 DEF Sends
    <3>2. CASE by # "form"
      BY <2>1, <3>2 DEF Sends
    <3> QED
      BY <3>1, <3>2
  <2>3. /\ sent \in Nat /\ sent' \in Nat /\ sent <= sent'
        /\ \A m \in ms : next[m] \in sent + 1 .. sent'
        /\ \A r \in requests : r.id \in Nat
        /\ \A m \in Nodes : batch[m] \in Nat
        /\ \A i \in refused : i \in Nat
    BY <1>2, SendFacts DEF TypeOK, Request
  <2>4. \A r \in New(next, a, ms) : r.node \in ms /\ r.id = next[r.node]
    BY NewFacts
  <2>5. \A r, q \in New(next, a, ms) : r.node = q.node => r = q
    BY NewFacts
  <2>6. refused' = refused
    BY <1>2 DEF Send
  <2>7. \A r \in requests' : r.id <= sent'
    BY <2>2, <2>3, <2>4
  <2>8. ASSUME NEW r \in requests', NEW q \in requests', r.id = q.id PROVE r = q
    BY <2>2, <2>3, <2>4, <2>5, <2>8
  <2>9. \A m \in Nodes : batch'[m] <= sent'
    BY <2>3, <2>10
  <2> QED
    BY <2>3, <2>6, <2>7, <2>8, <2>9
<1>3. CASE FlushEffects
  BY <1>3, <1>1 DEF FlushEffects, region, history, bounds
<1>4. ASSUME NEW a \in Actions, Open(a) PROVE IdsFresh'
  BY <1>4 DEF Open, region, bounds, TypeOK
<1>5. CASE Submit
  BY <1>5, <1>2 DEF Submit, TypeOK
<1>6. CASE Cancel \/ RenderApp
  BY <1>6, <1>1 DEF Cancel, RenderApp, region, history, bounds
<1>7. ASSUME NEW m \in Nodes, RowAction(m) PROVE IdsFresh'
  BY <1>7, <1>2 DEF RowAction
<1>8. ASSUME NEW m \in Nodes, Toggle(m) \/ OthersDelete(m) PROVE IdsFresh'
  BY <1>8, <1>1 DEF Toggle, OthersDelete, region, history
<1>9. ASSUME NEW r \in requests, RegionDeletes(r) PROVE IdsFresh'
  <2> DEFINE d == [r EXCEPT !.done = TRUE]
  <2>1. r \in Request
    BY DEF TypeOK
  <2>2. d.id = r.id
    BY <2>1 DEF Request
  <2>3. requests' = (requests \ {r}) \cup {d} /\ UNCHANGED <<batch, refused, sent>>
    BY <1>9 DEF RegionDeletes, history, bounds
  <2> HIDE DEF d
  <2> QED
    BY <2>2, <2>3
<1>10. ASSUME NEW r \in requests, ReplySuccess(r) \/ ReplyError(r) PROVE IdsFresh'
  <2>1. /\ requests' = requests \ {r} /\ UNCHANGED <<batch, sent>>
        /\ refused' = refused \/ refused' = refused \cup ({r.id} \cap {batch[r.node]})
    BY <1>10 DEF ReplySuccess, ReplyError, history, bounds
  <2> QED
    BY <2>1
<1>11. ASSUME NEW m \in notices, DeleteNotify(m) PROVE IdsFresh'
  BY <1>11, <1>1 DEF DeleteNotify, history, bounds
<1>12. CASE Drop
  BY <1>12 DEF Drop, TypeOK
<1>13. CASE UNCHANGED vars
  BY <1>13, <1>1 DEF vars, region, history, bounds
<1> QED
  BY <1>3, <1>4, <1>5, <1>6, <1>7, <1>8, <1>9, <1>10, <1>11, <1>12, <1>13 DEF Next, RegionStep

\* What the form looks at moves on with it: if it is still open, it is the form of
\* its effects, and neither the selection nor the errors were emptied.
LEMMA ShowsOpen ==
  ASSUME TypeOK, NEW selection, NEW errors, Shows(selection, errors), form'.open
  PROVE  /\ form.open /\ form' = Flushed
         /\ selected' = selection /\ eventErrors' = errors
<1>1. form \in Form /\ form' = Flushed
  BY DEF TypeOK, Form, Shows
<1>2. form.open
  <2> SUFFICES ASSUME ~form.open PROVE FALSE
    OBVIOUS
  <2>1. Flushed = form
    BY <1>1, EffectsClosed DEF Flushed
  <2> QED
    BY <1>1, <2>1
<1>3. ~Remounts
  BY <1>1, <1>2 DEF Remounts, Form
<1> QED
  BY <1>1, <1>2, <1>3 DEF Shows, Renders

\* The effects of a form that stays open leave its action.
LEMMA FlushedAction ==
  ASSUME TypeOK, form.open, Flushed.open
  PROVE  Flushed.action = form.action /\ Flushed.verdict = form.verdict
<1>1. /\ form \in Form /\ Busy(form.action) \in BOOLEAN
      /\ HasErrors(form.action, eventErrors) \in BOOLEAN
  BY DEF TypeOK, Form, Busy, HasErrors
<1> QED
  BY <1>1, EffectsOpen DEF Flushed, Moved

\* The form that is submitted runs its effects twice or three times at once.
LEMMA SubmitKeeps ==
  ASSUME TypeOK, Submit, form'.open
  PROVE  form.open /\ form'.action = form.action /\ form'.verdict = form.verdict
<1> DEFINE failed == HasErrors(form.action, ErrorsOnSubmit(form.action))
           cleaned == Effects(Flushed, FALSE, failed)
           second == Effects(cleaned, TRUE, failed)
<1>1. form.open /\ Flushed.open /\ failed \in BOOLEAN /\ Flushed \in Form
  BY FlushedForm DEF Submit, HasErrors
<1>2. cleaned \in Form
  BY <1>1, EffectsIn
<1>3. form' = cleaned \/ form' = second
  BY DEF Submit
<1>4. cleaned.open => Moved(Flushed, cleaned, FALSE, failed)
  BY <1>1, EffectsOpen
<1>5. second.open => cleaned.open /\ Moved(cleaned, second, TRUE, failed)
  BY <1>1, <1>2, EffectsOpen
<1> HIDE DEF cleaned, second
<1> QED
  BY <1>1, <1>3, <1>4, <1>5, FlushedAction DEF Moved

\* A request that the form notes is the form's own after every step.
LEMMA BatchStep ==
  TypeOK /\ IdsFresh /\ BatchOwn /\ [Next]_vars => BatchOwn'
<1> SUFFICES ASSUME TypeOK, IdsFresh, BatchOwn, [Next]_vars PROVE BatchOwn'
  OBVIOUS
<1> USE DEF BatchOwn
<1> DEFINE SameForm == form'.open => form.open /\ form'.action = form.action
<1>1. ASSUME requests' \subseteq requests, batch' = batch, SameForm PROVE BatchOwn'
  BY <1>1
<1>2. \A selection, errors : Shows(selection, errors) => SameForm
  BY ShowsOpen, FlushedAction
<1>3. ASSUME NEW a, NEW ms \in SUBSET rows, NEW by, Send(a, ms, by), SameForm,
             by = "form" => a = form.action
      PROVE  BatchOwn'
  <2>1. PICK next \in [ms -> sent + 1 .. sent'] : Sends(next, a, ms, by)
    BY <1>3, SendFacts
  <2>2. /\ requests' = requests \cup New(next, a, ms)
        /\ \A m, n \in ms : next[m] = next[n] => m = n
    BY <2>1 DEF Sends
  <2>3. /\ sent \in Nat
        /\ \A m \in ms : next[m] \in Nat /\ next[m] > sent
        /\ \A r \in requests : r.id \in Nat /\ r.id >= 1 /\ r.id <= sent
        /\ \A m \in Nodes : batch[m] \in Nat /\ batch[m] <= sent
    BY <1>3, SendFacts DEF TypeOK, Request, IdsFresh
  <2>4. \A r \in New(next, a, ms) : r.action = a /\ r.node \in ms /\ r.id = next[r.node]
    BY NewFacts
  <2>5. CASE by = "form"
    <3>1. \A m \in Nodes : batch'[m] = IF m \in ms THEN next[m] ELSE 0
      BY <2>1, <2>5 DEF Sends
    <3>2. ASSUME NEW r \in requests, NEW m \in Nodes PROVE r.id # batch'[m]
      BY <3>1, <2>3
    <3>3. ASSUME NEW r \in New(next, a, ms), NEW m \in Nodes, r.id = batch'[m]
          PROVE  r.node = m /\ r.action = form.action
      BY <1>3, <2>2, <2>3, <2>4, <2>5, <3>1, <3>3
    <3> QED
      BY <1>3, <2>2, <3>2, <3>3
  <2>6. CASE by # "form"
    <3>1. batch' = batch
      BY <2>1, <2>6 DEF Sends
    <3>2. ASSUME NEW r \in New(next, a, ms), NEW m \in Nodes PROVE r.id # batch[m]
      BY <2>3, <2>4
    <3> QED
      BY <1>3, <2>2, <3>1, <3>2
  <2> QED
    BY <2>5, <2>6
<1>4. CASE FlushEffects
  BY <1>4, <1>1, <1>2 DEF FlushEffects, region, history
<1>5. ASSUME NEW a \in Actions, Open(a) PROVE BatchOwn'
  BY <1>5 DEF Open, region, TypeOK, Request
<1>6. CASE Submit
  <2>1. SameForm
    BY <1>6, SubmitKeeps
  <2>2. Send(form.action, selected, "form") /\ selected \in SUBSET rows
    BY <1>6 DEF Submit, TypeOK
  <2> QED
    BY <2>1, <2>2, <1>3
<1>7. CASE Cancel \/ RenderApp
  BY <1>7, <1>1, FlushedForm DEF Cancel, RenderApp, region, history
<1>8. ASSUME NEW m \in Nodes, RowAction(m) PROVE BatchOwn'
  <2>1. Send("setZone", {m}, "menu") /\ {m} \in SUBSET rows /\ SameForm
    BY <1>8, <1>2 DEF RowAction
  <2> QED
    BY <2>1, <1>3
<1>9. ASSUME NEW m \in Nodes, Toggle(m) \/ OthersDelete(m) PROVE BatchOwn'
  BY <1>9, <1>1, <1>2 DEF Toggle, OthersDelete, region, history
<1>10. ASSUME NEW r \in requests, RegionDeletes(r) PROVE BatchOwn'
  <2> DEFINE d == [r EXCEPT !.done = TRUE]
  <2>1. r \in Request
    BY DEF TypeOK
  <2>2. d.id = r.id /\ d.node = r.node /\ d.action = r.action
    BY <2>1 DEF Request
  <2>3. requests' = (requests \ {r}) \cup {d} /\ UNCHANGED <<batch, form>>
    BY <1>10 DEF RegionDeletes, history
  <2> HIDE DEF d
  <2> QED
    BY <2>2, <2>3
<1>11. ASSUME NEW r \in requests, ReplySuccess(r) \/ ReplyError(r) PROVE BatchOwn'
  BY <1>11, <1>1, <1>2 DEF ReplySuccess, ReplyError, history
<1>12. ASSUME NEW m \in notices, DeleteNotify(m) PROVE BatchOwn'
  BY <1>12, <1>1, <1>2 DEF DeleteNotify, history
<1>13. CASE Drop
  BY <1>13 DEF Drop
<1>14. CASE UNCHANGED vars
  BY <1>14 DEF vars, region, history
<1> QED
  BY <1>4, <1>5, <1>6, <1>7, <1>8, <1>9, <1>10, <1>11, <1>12, <1>13, <1>14 DEF Next, RegionStep

\* An open form has not reported success.
LEMMA UnsavedStep == TypeOK /\ OpenUnsaved /\ [Next]_vars => OpenUnsaved'
<1> SUFFICES ASSUME TypeOK, OpenUnsaved, [Next]_vars PROVE OpenUnsaved'
  OBVIOUS
<1> USE DEF OpenUnsaved
<1>1. \A selection, errors : Shows(selection, errors) => OpenUnsaved'
  BY ShowsOpen, FlushedAction
<1>2. CASE Submit
  BY <1>2, SubmitKeeps
<1>3. ASSUME NEW a \in Actions, Open(a) PROVE OpenUnsaved'
  BY <1>3 DEF Open, Closed
<1>4. CASE Cancel \/ RenderApp \/ Drop
  BY <1>4, FlushedForm, ClosedForm DEF Cancel, RenderApp, Drop
<1>5. ASSUME NEW m \in Nodes, OthersDelete(m) PROVE OpenUnsaved'
  BY <1>5 DEF OthersDelete
<1>6. ASSUME NEW r \in requests, RegionDeletes(r) PROVE OpenUnsaved'
  BY <1>6 DEF RegionDeletes
<1>7. CASE UNCHANGED vars
  BY <1>7 DEF vars
<1>8. CASE FlushEffects
  BY <1>8, <1>1 DEF FlushEffects
<1>9. ASSUME NEW m \in Nodes, RowAction(m) \/ Toggle(m) PROVE OpenUnsaved'
  BY <1>9, <1>1 DEF RowAction, Toggle
<1>10. ASSUME NEW r \in requests, ReplySuccess(r) \/ ReplyError(r) PROVE OpenUnsaved'
  BY <1>10, <1>1 DEF ReplySuccess, ReplyError
<1>11. ASSUME NEW m \in notices, DeleteNotify(m) PROVE OpenUnsaved'
  BY <1>11, <1>1 DEF DeleteNotify
<1> QED
  BY <1>2, <1>3, <1>4, <1>5, <1>6, <1>7, <1>8, <1>9, <1>10, <1>11 DEF Next, RegionStep

-----------------------------------------------------------------------------
(* The flags of the form.                                                    *)

\* When the form sees its work end, its requests were answered without an error.
LEMMA DoneReal ==
  ASSUME IInv, form.open, ~disturbed,
         Done(form, Busy(form.action), HasErrors(form.action, eventErrors))
  PROVE  Real
<1>1. OnlyOwn /\ RefusedShown /\ FlagsTrue(form)
  BY DEF IInv, Undisturbed
<1>2. /\ \A m \in selected : form.action \notin statuses[m]
      /\ \A m \in selected : <<form.action, m>> \notin eventErrors
      /\ form.wasBusy
  BY DEF Done, Busy, HasErrors
<1>3. ASSUME NEW m \in selected, batch[m] # 0 PROVE Succeeded(m)
  <2>1. batch[m] \notin refused
    BY <1>1, <1>2 DEF RefusedShown
  <2>2. ASSUME NEW r \in requests, r.id = batch[m] PROVE FALSE
    <3>1. r.node = m /\ r.action = form.action
      BY <2>2 DEF IInv, BatchOwn, TypeOK
    <3>2. form.action \in statuses[r.node]
      BY <1>1, <3>1 DEF OnlyOwn
    <3> QED
      BY <1>2, <3>1, <3>2
  <2> QED
    BY <1>3, <2>1, <2>2 DEF Succeeded
<1> QED
  BY <1>1, <1>2, <1>3 DEF Real, FlagsTrue

\* A form that sees its work under way has sent something.
LEMMA BusySent ==
  ASSUME IInv, form.open, ~disturbed, Busy(form.action)
  PROVE  \E m \in Nodes : batch[m] # 0
<1>1. OnlyOwn
  BY DEF IInv, Undisturbed
<1>2. PICK m \in selected : form.action \in statuses[m]
  BY DEF Busy
<1>3. form.action \in Actions /\ m \in rows /\ m \in Nodes
  BY DEF IInv, TypeOK
<1>4. PICK r \in requests : r.action = form.action /\ r.node = m
  BY <1>2, <1>3 DEF IInv, StatusTracksRequests, Pending
<1>5. r.id = batch[m] /\ r.id \in 1 .. MaxRequests
  BY <1>1, <1>4 DEF OnlyOwn, IInv, TypeOK, Request
<1> QED
  BY <1>3, <1>5

\* The effects keep the flags true, and report no success that is not real.
LEMMA FlushedTrue ==
  ASSUME IInv, form.open, ~disturbed
  PROVE  /\ Flushed.verdict = "saved" => Real
         /\ Flushed.open => FlagsTrue(Flushed)
<1> DEFINE busy == Busy(form.action)
           failed == HasErrors(form.action, eventErrors)
<1>1. form \in Form /\ busy \in BOOLEAN /\ failed \in BOOLEAN
  BY DEF IInv, TypeOK, Form, Busy, HasErrors
<1>2. FlagsTrue(form) /\ form.verdict = "none"
  BY DEF IInv, Undisturbed, OpenUnsaved
<1>3. Done(form, busy, failed) => Real
  BY DoneReal
<1>4. busy => \E m \in Nodes : batch[m] # 0
  BY BusySent
<1>5. CASE Flushed = Closed("saved") /\ form.hasSaved
  BY <1>2, <1>5 DEF FlagsTrue, Closed
<1>6. CASE Flushed = Closed("none")
  BY <1>6 DEF Closed
<1>7. CASE Moved(form, Flushed, busy, failed)
  <2>1. Flushed.wasBusy => \E m \in Nodes : batch[m] # 0
    BY <1>4, <1>7 DEF Moved
  <2>2. form.complete \/ Done(form, busy, failed) => Real /\ ~failed
    BY <1>2, <1>3 DEF FlagsTrue, Done
  <2>3. Flushed.hasSaved => Flushed.complete
    BY <1>2, <1>7, <2>2 DEF FlagsTrue, Moved
  <2>4. Flushed.wasSaved => Flushed.hasSaved
    BY <1>2, <1>7 DEF FlagsTrue, Moved
  <2> QED
    BY <1>2, <1>7, <2>1, <2>2, <2>3, <2>4 DEF FlagsTrue, Moved
<1> QED
  BY <1>1, <1>5, <1>6, <1>7, EffectsShape DEF Flushed

\* Success stays real as requests are answered and nodes are deselected.
LEMMA RealKept ==
  ASSUME Real, batch' = batch, selected' \subseteq selected,
         \A q \in requests' : \E r \in requests : q.id = r.id,
         \A m \in selected : batch[m] \in refused' => batch[m] \in refused
  PROVE  Real'
BY DEF Real, Succeeded

\* A step after which the form is open and undisturbed.
LEMMA UndisturbedStep == IInv /\ [Next]_vars => Undisturbed'
<1> SUFFICES ASSUME IInv, [Next]_vars, form'.open, ~disturbed'
             PROVE  OnlyOwn' /\ RefusedShown' /\ FlagsTrue(form)'
  BY DEF Undisturbed
<1>a. TypeOK
  BY DEF IInv
<1>b. ASSUME form.open, ~disturbed
      PROVE  OnlyOwn /\ RefusedShown /\ FlagsTrue(form)
  BY <1>b DEF IInv, Undisturbed
<1>c. ASSUME NEW selection, NEW errors, Shows(selection, errors), ~disturbed
      PROVE  /\ form.open /\ form'.action = form.action
             /\ selected' = selection /\ eventErrors' = errors
             /\ OnlyOwn /\ RefusedShown /\ FlagsTrue(form')
  <2>1. form.open /\ form' = Flushed /\ selected' = selection /\ eventErrors' = errors
    BY <1>a, <1>c, ShowsOpen
  <2>2. FlagsTrue(Flushed) /\ Flushed.action = form.action
    BY <1>a, <1>c, <2>1, FlushedTrue, FlushedAction
  <2> QED
    BY <1>b, <1>c, <2>1, <2>2
\* The step leaves what the flags are about, but for less of it.
<1>d. ASSUME FlagsTrue(form'), batch' = batch, selected' \subseteq selected,
             \A q \in requests' : \E r \in requests : q.id = r.id,
             form'.complete => \A m \in selected :
               /\ batch[m] \in refused' => batch[m] \in refused
               /\ <<form'.action, m>> \in eventErrors' => <<form'.action, m>> \in eventErrors
      PROVE  FlagsTrue(form)'
  BY <1>d, RealKept DEF FlagsTrue, HasErrors
<1>1. CASE FlushEffects
  <2>1. Shows(selected, eventErrors) /\ UNCHANGED <<statuses, requests, batch, refused, disturbed>>
    BY <1>1 DEF FlushEffects, region, history
  <2>2. /\ form.open /\ form'.action = form.action
        /\ selected' = selected /\ eventErrors' = eventErrors
        /\ OnlyOwn /\ RefusedShown /\ FlagsTrue(form')
    BY <1>c, <2>1
  <2> QED
    BY <1>d, <2>1, <2>2 DEF OnlyOwn, RefusedShown
<1>2. ASSUME NEW a \in Actions, Open(a)
      PROVE  OnlyOwn' /\ RefusedShown' /\ FlagsTrue(form)'
  <2>1. \A m \in selected, r \in requests : ~(r.action = a /\ r.node = m)
    BY <1>2 DEF Open, Pending
  <2>2. /\ form' = [Closed("none") EXCEPT !.open = TRUE, !.action = a, !.wasBusy = Busy(a)]
        /\ requests' = requests /\ refused' = {}
    BY <1>2 DEF Open, region
  <2>3. selected' \subseteq selected
    BY <1>2, RendersSmaller DEF Open
  <2>4. ~Busy(a)
    <3>1. selected \subseteq rows /\ StatusTracksRequests
      BY DEF IInv, TypeOK
    <3>2. \A m \in selected : ~Pending(a, m)
      BY <2>1 DEF Pending
    <3> QED
      BY <3>1, <3>2 DEF StatusTracksRequests, Busy
  <2>5. /\ form'.action = a /\ ~form'.wasBusy /\ ~form'.complete /\ ~form'.hasSaved
        /\ ~form'.wasSaved
    BY <2>2, <2>4 DEF Closed
  <2> QED
    BY <2>1, <2>2, <2>3, <2>5 DEF OnlyOwn, RefusedShown, FlagsTrue
<1>3. CASE Cancel \/ RenderApp \/ Drop
  BY <1>3, <1>a, FlushedForm, ClosedForm DEF Cancel, RenderApp, Drop
<1>4. ASSUME NEW m \in Nodes, RowAction(m)
      PROVE  OnlyOwn' /\ RefusedShown' /\ FlagsTrue(form)'
  BY <1>4, <1>a, ShowsOpen DEF RowAction
<1>5. ASSUME NEW m \in Nodes, Toggle(m)
      PROVE  OnlyOwn' /\ RefusedShown' /\ FlagsTrue(form)'
  <2> DEFINE selection == IF m \in selected THEN selected \ {m} ELSE selected \cup {m}
  <2>1. /\ Shows(selection, eventErrors) /\ ~disturbed /\ (form.open => m \in selected)
        /\ UNCHANGED <<statuses, requests, batch, refused>>
    BY <1>5 DEF Toggle, region
  <2>2. /\ form.open /\ form'.action = form.action
        /\ selected' = selection /\ eventErrors' = eventErrors
        /\ OnlyOwn /\ RefusedShown /\ FlagsTrue(form')
    BY <1>c, <2>1
  <2>3. selected' \subseteq selected
    BY <2>1, <2>2
  <2> QED
    BY <1>d, <2>1, <2>2, <2>3 DEF OnlyOwn, RefusedShown
<1>6. ASSUME NEW m \in Nodes, OthersDelete(m)
      PROVE  OnlyOwn' /\ RefusedShown' /\ FlagsTrue(form)'
  <2>1. UNCHANGED <<form, selected, statuses, eventErrors, requests, batch, refused, disturbed>>
    BY <1>6 DEF OthersDelete, slice, history
  <2> QED
    BY <1>b, <1>d, <2>1 DEF OnlyOwn, RefusedShown
<1>7. ASSUME NEW r \in requests, RegionDeletes(r)
      PROVE  OnlyOwn' /\ RefusedShown' /\ FlagsTrue(form)'
  <2> DEFINE d == [r EXCEPT !.done = TRUE]
  <2>1. r \in Request
    BY <1>a DEF TypeOK
  <2>2. d.id = r.id /\ d.node = r.node /\ d.action = r.action
    BY <2>1 DEF Request
  <2>3. /\ requests' = (requests \ {r}) \cup {d}
        /\ UNCHANGED <<form, selected, statuses, eventErrors, batch, refused, disturbed>>
    BY <1>7 DEF RegionDeletes, slice, history
  <2> HIDE DEF d
  <2>4. OnlyOwn /\ RefusedShown /\ FlagsTrue(form)
    BY <1>b, <2>3
  <2>5. OnlyOwn'
    BY <2>2, <2>3, <2>4 DEF OnlyOwn
  <2> QED
    BY <1>d, <2>2, <2>3, <2>4, <2>5 DEF RefusedShown
<1>8. ASSUME NEW r \in requests, ReplySuccess(r)
      PROVE  OnlyOwn' /\ RefusedShown' /\ FlagsTrue(form)'
  <2>1. /\ Shows(selected, eventErrors) /\ requests' = requests \ {r}
        /\ statuses' = Settled(r) /\ UNCHANGED <<batch, refused, disturbed>>
    BY <1>8 DEF ReplySuccess, history
  <2>2. /\ form.open /\ form'.action = form.action
        /\ selected' = selected /\ eventErrors' = eventErrors
        /\ OnlyOwn /\ RefusedShown /\ FlagsTrue(form')
    BY <1>c, <2>1
  <2>3. OnlyOwn'
    BY <1>a, <2>1, <2>2 DEF OnlyOwn, Settled, TypeOK, IInv, IdsFresh
  <2> QED
    BY <1>d, <2>1, <2>2, <2>3 DEF RefusedShown
<1>9. ASSUME NEW r \in requests, ReplyError(r)
      PROVE  OnlyOwn' /\ RefusedShown' /\ FlagsTrue(form)'
  <2>1. /\ Shows(selected, eventErrors \cup {<<r.action, r.node>>})
        /\ requests' = requests \ {r}
        /\ refused' = refused \cup ({r.id} \cap {batch[r.node]})
        /\ statuses' = Settled(r) /\ UNCHANGED <<batch, disturbed>>
    BY <1>9 DEF ReplyError
  <2>2. /\ form.open /\ form'.action = form.action
        /\ selected' = selected /\ eventErrors' = eventErrors \cup {<<r.action, r.node>>}
        /\ OnlyOwn /\ RefusedShown /\ FlagsTrue(form')
    BY <1>c, <2>1
  <2>3. OnlyOwn'
    BY <1>a, <2>1, <2>2 DEF OnlyOwn, Settled, TypeOK, IInv, IdsFresh
  <2>4. ASSUME NEW m \in selected, r.id = batch[m] PROVE r.node = m /\ r.action = form.action
    BY <1>a, <2>2, <2>4 DEF IInv, BatchOwn, TypeOK
  <2>5. RefusedShown'
    BY <2>1, <2>2, <2>4 DEF RefusedShown
  <2>6. ASSUME form'.complete, NEW m \in selected
        PROVE  r.id # batch[m] /\ ~(r.action = form.action /\ r.node = m)
    <3>1. batch[m] # 0 => Succeeded(m)
      BY <2>2, <2>6 DEF FlagsTrue, Real
    <3>2. r.id # 0
      BY <1>a DEF TypeOK, Request
    <3>3. r.id # batch[m]
      BY <3>1, <3>2 DEF Succeeded
    <3> QED
      BY <2>2, <3>3 DEF OnlyOwn
  <2> QED
    BY <1>d, <2>1, <2>2, <2>3, <2>5, <2>6
<1>10. ASSUME NEW m \in notices, DeleteNotify(m)
       PROVE  OnlyOwn' /\ RefusedShown' /\ FlagsTrue(form)'
  <2>1. /\ Shows(selected \ {m}, eventErrors)
        /\ statuses' = [n \in rows \ {m} |-> statuses[n]]
        /\ UNCHANGED <<requests, batch, refused, disturbed>>
    BY <1>10 DEF DeleteNotify, history, Deselected
  <2>2. /\ form.open /\ form'.action = form.action
        /\ selected' = selected \ {m} /\ eventErrors' = eventErrors
        /\ OnlyOwn /\ RefusedShown /\ FlagsTrue(form')
    BY <1>c, <2>1
  <2>3. OnlyOwn'
    BY <1>a, <2>1, <2>2 DEF OnlyOwn, TypeOK
  <2> QED
    BY <1>d, <2>1, <2>2, <2>3 DEF RefusedShown
<1>11. CASE UNCHANGED vars
  <2>1. UNCHANGED <<form, selected, statuses, eventErrors, requests, batch, refused, disturbed>>
    BY <1>11 DEF vars, slice, region, history
  <2> QED
    BY <1>b, <1>d, <2>1 DEF OnlyOwn, RefusedShown
<1>12. CASE Submit
  <2> DEFINE a == form.action
             failed == HasErrors(a, eventErrors)
             failed2 == HasErrors(a, ErrorsOnSubmit(a))
             cleaned == Effects(form, FALSE, failed2)
             second == Effects(cleaned, TRUE, failed2)
  <2>1. /\ form.open /\ Flushed = form /\ ~disturbed /\ ~Busy(a)
        /\ Send(a, selected, "form") /\ Renders(selected, ErrorsOnSubmit(a))
        /\ form' = cleaned \/ form' = second
    BY <1>12 DEF Submit
  <2>2. OnlyOwn /\ RefusedShown /\ FlagsTrue(form)
    BY <1>b, <2>1
  <2>3. form \in Form /\ failed \in BOOLEAN /\ failed2 \in BOOLEAN
    BY <1>a DEF TypeOK, Form, HasErrors
  <2>4. /\ ~form.wasBusy /\ ~form.complete /\ ~form.hasSaved /\ ~form.wasSaved
        /\ selected # {}
    <3>1. Effects(form, FALSE, failed) = form
      BY <2>1 DEF Flushed, Busy
    <3>2. Moved(form, form, FALSE, failed)
      BY <2>1, <2>3, <3>1, EffectsOpen
    <3> QED
      BY <2>2, <3>2 DEF FlagsTrue, Moved
  <2>5. cleaned \in Form /\ (form'.open => cleaned.open)
    <3>1. cleaned \in Form
      BY <2>3, EffectsIn
    <3> QED
      BY <2>1, <2>3, <3>1, EffectsOpen
  <2>6. ~cleaned.complete /\ ~cleaned.hasSaved /\ ~cleaned.wasSaved /\ cleaned.action = a
    <3>1. Moved(form, cleaned, FALSE, failed2)
      BY <2>3, <2>5, EffectsOpen
    <3> QED
      BY <2>4, <3>1 DEF Moved, Done
  <2>7. second.open =>
          ~second.complete /\ ~second.hasSaved /\ ~second.wasSaved /\ second.action = a
    <3>1. second.open => Moved(cleaned, second, TRUE, failed2)
      BY <2>3, <2>5, EffectsOpen
    <3> HIDE DEF cleaned, second
    <3> QED
      BY <2>6, <3>1 DEF Moved, Done
  <2>8. ~form'.complete /\ ~form'.hasSaved /\ ~form'.wasSaved /\ form'.action = a
    BY <2>1, <2>6, <2>7
  <2> HIDE DEF cleaned, second
  <2>9. selected \subseteq rows /\ selected \subseteq Nodes /\ selected' \subseteq selected
    BY <1>a, <2>1, RendersSmaller DEF TypeOK
  <2>10. PICK next \in [selected -> sent + 1 .. sent'] : Sends(next, a, selected, "form")
    BY <1>a, <2>1, <2>9, SendFacts
  <2>11. /\ requests' = requests \cup New(next, a, selected)
         /\ \A m \in Nodes : batch'[m] = IF m \in selected THEN next[m] ELSE 0
    BY <2>10 DEF Sends
  <2>12. /\ statuses' = [m \in rows |->
                           IF m \in selected THEN statuses[m] \cup {a} ELSE statuses[m]]
         /\ refused' = refused
    BY <2>1 DEF Send
  <2>13. /\ sent \in Nat /\ \A i \in refused : i \in Nat /\ i <= sent
         /\ \A m \in selected : next[m] \in Nat /\ next[m] > sent
    BY <1>a, <2>1, <2>9, SendFacts DEF TypeOK, IInv, IdsFresh
  <2>14. OnlyOwn'
    <3>1. \A r \in requests : ~(r.action = a /\ r.node \in selected)
      BY <2>1, <2>2 DEF OnlyOwn, Busy
    <3>2. \A r \in New(next, a, selected) : r.node \in selected /\ r.id = next[r.node]
      BY NewFacts
    <3> QED
      BY <2>8, <2>9, <2>11, <2>12, <3>1, <3>2 DEF OnlyOwn
  <2>15. \A m \in selected : batch'[m] \notin refused' /\ batch'[m] # 0
    BY <2>9, <2>11, <2>12, <2>13
  <2>16. \E m \in Nodes : batch'[m] # 0
    BY <2>4, <2>9, <2>15
  <2>17. RefusedShown'
    BY <2>9, <2>15 DEF RefusedShown
  <2>18. FlagsTrue(form)'
    BY <2>8, <2>16 DEF FlagsTrue
  <2> QED
    BY <2>14, <2>17, <2>18
<1> QED
  BY <1>1, <1>2, <1>3, <1>4, <1>5, <1>6, <1>7, <1>8, <1>9, <1>10, <1>11, <1>12
  DEF Next, RegionStep

-----------------------------------------------------------------------------
(* Theorems.                                                                 *)

\* The invariant holds of the page that has just been loaded.
LEMMA InitInv == Init => IInv
<1> SUFFICES ASSUME Init PROVE IInv
  OBVIOUS
<1>1. form \in Form /\ ~form.open
  BY ClosedForm DEF Init
<1>2. TypeOK
  <2>1. /\ statuses \in [rows -> SUBSET Actions] /\ batch \in [Nodes -> 0 .. MaxRequests]
        /\ 0 \in 0 .. MaxRequests /\ 0 \in 0 .. MaxToggles /\ 0 \in 0 .. MaxOthers
        /\ 0 \in 0 .. MaxRenders /\ 0 \in 0 .. MaxDrops
    BY NodeActionsAssumption DEF Init
  <2> QED
    BY <1>1, <2>1 DEF Init, TypeOK, Form
<1>3. StatusTracksRequests /\ TwiceDoubled
  BY DEF Init, StatusTracksRequests, TwiceDoubled, Pending
<1>4. IdsFresh /\ BatchOwn
  BY DEF Init, IdsFresh, BatchOwn
<1>5. Undisturbed /\ OpenUnsaved
  BY <1>1 DEF Undisturbed, OpenUnsaved
<1> QED
  BY <1>2, <1>3, <1>4, <1>5 DEF IInv

\* Every step keeps it.
LEMMA InvStep == IInv /\ [Next]_vars => IInv'
BY TypeStep, StatusStep, IdsStep, BatchStep, UndisturbedStep, UnsavedStep DEF IInv

\* Every reachable state is well typed: a node that is selected is listed, and
\* each listed node has the statuses of its actions.
THEOREM TypeCorrect == Spec => []TypeOK
<1>1. IInv => TypeOK
  BY DEF IInv
<1> QED
  BY <1>1, InitInv, InvStep, PTL DEF Spec

\* For any number of nodes and requests, a row shows an action in progress only
\* while one of its requests waits, and as long as one does, unless two requests
\* of the action were under way for the node (generateStatusHandlers).
THEOREM StatusTracked == Spec => []StatusTracksRequests
<1>1. IInv => StatusTracksRequests
  BY DEF IInv
<1> QED
  BY <1>1, InitInv, InvStep, PTL DEF Spec

\* Only the effects report success: those that wait, or those of a submission.
LEMMA SavedByEffects ==
  ASSUME IInv, [Next]_vars, form.open, ~disturbed, form'.verdict = "saved"
  PROVE  Real
<1>a. TypeOK /\ form.verdict = "none"
  BY DEF IInv, OpenUnsaved
<1>b. form' = Flushed => Real
  BY FlushedTrue
<1>1. CASE form' = form
  BY <1>1, <1>a
<1>2. CASE Submit
  <2> DEFINE failed == HasErrors(form.action, ErrorsOnSubmit(form.action))
             cleaned == Effects(Flushed, FALSE, failed)
             second == Effects(cleaned, TRUE, failed)
  <2>1. /\ form.open /\ Flushed.open /\ ~Busy(form.action)
        /\ form' = cleaned \/ form' = second
    BY <1>2 DEF Submit
  <2>2. Flushed \in Form /\ failed \in BOOLEAN
    BY <1>a, FlushedForm DEF HasErrors
  <2>3. Flushed.verdict = "none" /\ FlagsTrue(Flushed)
    BY <1>a, <2>1, FlushedAction, FlushedTrue
  <2>4. cleaned \in Form
    BY <2>2, EffectsIn
  <2>5. cleaned.verdict = "saved" => Flushed.hasSaved
    BY <2>2, <2>3, EffectsSaved
  <2>6. second.verdict = "saved" => Flushed.hasSaved \/ Flushed.complete
    <3>1. CASE cleaned.open
      <4>1. Moved(Flushed, cleaned, FALSE, failed)
        BY <2>2, <3>1, EffectsOpen
      <4>2. second.verdict = "saved" => cleaned.hasSaved
        BY <2>2, <2>3, <2>4, <4>1, EffectsSaved DEF Moved
      <4> HIDE DEF cleaned, second
      <4> QED
        BY <4>1, <4>2 DEF Moved
    <3>2. CASE ~cleaned.open
      <4>1. second = cleaned
        BY <2>4, <3>2, EffectsClosed
      <4> QED
        BY <2>5, <4>1
    <3> QED
      BY <3>1, <3>2
  <2> HIDE DEF cleaned, second
  <2>7. Flushed.hasSaved \/ Flushed.complete
    BY <2>1, <2>5, <2>6
  <2> QED
    BY <2>3, <2>7 DEF FlagsTrue
<1>3. ASSUME NEW a \in Actions, Open(a) PROVE Real
  BY <1>3 DEF Open
<1>4. CASE Cancel \/ RenderApp
  <2>1. form' = Closed("none") \/ form' = Flushed
    BY <1>4 DEF Cancel, RenderApp, Gone
  <2> QED
    BY <1>b, <2>1, ClosedForm
<1>5. CASE Drop
  BY <1>5, ClosedForm DEF Drop
<1>6. CASE FlushEffects
  BY <1>6, <1>b DEF FlushEffects, Shows
<1>7. ASSUME NEW m \in Nodes, RowAction(m) \/ Toggle(m) \/ OthersDelete(m) PROVE Real
  BY <1>7, <1>1, <1>b DEF RowAction, Toggle, OthersDelete, Shows
<1>8. ASSUME NEW r \in requests, RegionDeletes(r) \/ ReplySuccess(r) \/ ReplyError(r)
      PROVE  Real
  BY <1>8, <1>1, <1>b DEF RegionDeletes, ReplySuccess, ReplyError, Shows
<1>9. ASSUME NEW m \in notices, DeleteNotify(m) PROVE Real
  BY <1>9, <1>b DEF DeleteNotify, Shows
<1>10. CASE UNCHANGED vars
  BY <1>10, <1>1 DEF vars
<1> QED
  BY <1>2, <1>3, <1>4, <1>5, <1>6, <1>7, <1>8, <1>9, <1>10 DEF Next, RegionStep

\* For any number of nodes and requests: a form that was not disturbed reports
\* success only when it sent something and what it sent for the nodes that are
\* still selected was answered without an error (useProcessing,
\* FormikFormContent).
THEOREM SuccessReal == Spec => SuccessIsReal
<1>1. IInv /\ [Next]_vars =>
        [form.open /\ form'.verdict = "saved" /\ ~disturbed =>
           /\ \E m \in Nodes : batch[m] # 0
           /\ \A m \in selected : batch[m] # 0 => Succeeded(m)]_vars
  BY SavedByEffects DEF Real
<1> QED
  BY <1>1, InitInv, InvStep, PTL DEF Spec, SuccessIsReal
=============================================================================
