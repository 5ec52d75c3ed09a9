----------------------------- MODULE MachineList -----------------------------
(* What the list of machines promises to the pages that show it, whatever    *)
(* batches, single machines and announcements it is put together from: a row *)
(* only moves forward to newer versions, no row comes from nowhere or comes  *)
(* back, what leaves the list has been deleted, and a machine of which       *)
(* nothing is on its way is shown as it is.  When a machine is deleted that  *)
(* is not listed, another one may be taken from the list: it is astray.      *)
EXTENDS Naturals

VARIABLES
  real,   \* version of each machine there has been, 0 when deleted
  listed, \* the version that is shown of each listed machine
  owed,   \* machines about which something is on its way
  loaded, \* the list says it is complete
  stray   \* a machine was taken from the list that may still exist

vars == <<real, listed, owed, loaded, stray>>

Existing == {id \in DOMAIN real : real[id] > 0}

Right(id) ==
  /\ id \in DOMAIN listed => listed[id] = real[id]
  /\ loaded /\ ~stray /\ id \in Existing => id \in DOMAIN listed

\* What is no longer on its way has not been missed.
Caught ==
  /\ owed' \subseteq owed
  /\ \A id \in owed \ owed' : Right(id)'

Init ==
  /\ \A id \in DOMAIN real : real[id] = 1
  /\ DOMAIN listed = {} /\ owed = {}
  /\ ~loaded /\ ~stray

\* A machine is made, changed or deleted for good; the others stay.
Change(id) ==
  /\ IF id \in DOMAIN real
     THEN id \in Existing /\ real'[id] \in {real[id] + 1, 0} /\ DOMAIN real' = DOMAIN real
     ELSE real'[id] = 1 /\ DOMAIN real' = DOMAIN real \union {id}
  /\ \A other \in DOMAIN real \ {id} : real'[other] = real[other]
  /\ owed' = owed \union {id}
  /\ UNCHANGED <<listed, loaded, stray>>

\* Machines that exist are sent without having changed.
Answer ==
  /\ UNCHANGED <<real, loaded, stray, listed>>
  /\ owed \subseteq owed' /\ owed' \subseteq owed \union Existing

\* Some of what is on its way arrives, perhaps completing the list.
Arrive ==
  /\ UNCHANGED <<real, stray>> /\ (loaded => loaded')
  /\ DOMAIN listed \subseteq DOMAIN listed'
  /\ \A id \in DOMAIN listed : listed'[id] >= listed[id]
  /\ \A id \in DOMAIN listed' :
       \/ id \in DOMAIN listed /\ listed'[id] = listed[id]
       \/ id \in owed /\ (id \in Existing => listed'[id] <= real[id])
  /\ Caught

\* A deletion arrives, of a listed machine or of one that is not: it is the last
\* that is heard of the machine.
Remove(id) ==
  /\ id \notin Existing /\ id \in owed \ owed'
  /\ UNCHANGED <<real, loaded>>
  /\ \/ /\ id \in DOMAIN listed
        /\ listed' = [k \in DOMAIN listed \ {id} |-> listed[k]]
        /\ UNCHANGED stray
     \/ /\ id \notin DOMAIN listed
        /\ \/ UNCHANGED listed
           \/ \E k \in DOMAIN listed : listed' = [n \in DOMAIN listed \ {k} |-> listed[n]]
        /\ stray' = TRUE
  /\ Caught

\* The connection is lost, with what was on its way, and the list starts anew.
Lose ==
  /\ DOMAIN listed' = {} /\ loaded' = FALSE /\ stray' = FALSE
  /\ owed' \subseteq owed
  /\ UNCHANGED real

Next ==
  \/ Answer \/ Arrive
  \/ \E id \in DOMAIN real' : Change(id)
  \/ \E id \in DOMAIN real : Remove(id)
  \/ Lose

Spec == Init /\ [][Next]_vars
=============================================================================
