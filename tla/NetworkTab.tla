----------------------------- MODULE NetworkTab -----------------------------
(* The network tab of a machine (ui/src/app/machines/views/MachineDetails/   *)
(* MachineNetwork): the table of interfaces and their checkboxes, the forms  *)
(* that add, edit and remove interfaces, bonds, bridges and aliases, and     *)
(* what these forms make of the statuses and errors that the store keeps     *)
(* per machine and operation (useMachineDetailsForm).                        *)
(*                                                                           *)
(* The selection and the open form are kept by the tab and name interfaces   *)
(* and links by their ids.  The tab is mounted anew, without them, whenever  *)
(* its machine is replaced in the store, which every notification does: the  *)
(* route of the tab has its component made in the render of MachineDetails.  *)
(* So a row that was checked or has a form is a row that is shown, and what  *)
(* the code does about one that has gone (a spinner in the form of a bridge, *)
(* no form to edit it) is left out.                                          *)
(*                                                                           *)
(* A row is an interface without links, or one link of an interface; the     *)
(* first link stands for the interface itself, the others for its aliases.   *)
(* A render and its effects are one step, and a link stands for a configured *)
(* one.                                                                      *)
EXTENDS Naturals, FiniteSets, SequencesExt

CONSTANTS
  Machines,     \* the interfaces a machine may have at first
  MaxNics,      \* bound on the interfaces ever made
  MaxLinks,     \* bound on the links ever made
  MaxClicks,    \* bound on the forms opened and the changes of the selection
  MaxRequests   \* bound on the requests made, those of other users included

Types == {"physical", "bond", "bridge", "vlan"}
VLANs == 1 .. 2

(* The interfaces of a machine, by id.                                       *)
Nic == [type : Types, vlan : VLANs, parents : SUBSET (1 .. MaxNics),
        links : Seq(1 .. MaxLinks)]
IsInterfaces(nics) ==
  /\ DOMAIN nics \subseteq 1 .. MaxNics
  /\ \A n \in DOMAIN nics : nics[n] \in Nic /\ nics[n].parents \subseteq DOMAIN nics

LinkIds(nics) == UNION {Range(nics[n].links) : n \in DOMAIN nics}

(* A machine as the region keeps it: a link is of one interface; what is in  *)
(* a bond or bridge is in one only, and has no links; a bond is of physical  *)
(* interfaces of its VLAN.                                                   *)
IsMachine(nics) ==
  /\ IsInterfaces(nics)
  /\ \A m, n \in DOMAIN nics :
       Range(nics[m].links) \cap Range(nics[n].links) # {} => m = n
  /\ \A n \in DOMAIN nics : nics[n].type \in {"bond", "bridge"} =>
       \A p \in nics[n].parents :
         /\ nics[p].links = <<>>
         /\ \A m \in DOMAIN nics :
              nics[m].type \in {"bond", "bridge"} /\ p \in nics[m].parents => m = n
         /\ nics[n].type = "bond" =>
              nics[p].type = "physical" /\ nics[p].vlan = nics[n].vlan

(* At first its interfaces and links are numbered one by one.                *)
ASSUME NetworkTabAssumption ==
  /\ {MaxNics, MaxLinks, MaxClicks, MaxRequests} \subseteq Nat
  /\ \A nics \in Machines :
       /\ IsMachine(nics) /\ nics \in Seq(Nic)
       /\ \E l \in 0 .. MaxLinks : LinkIds(nics) = 1 .. l

(* The operations that have a status; an event has the name of its request.  *)
Ops == {"createBond", "createBridge", "createPhysical", "createVlan",
        "updateInterface", "deleteInterface", "linkSubnet", "unlinkSubnet"}

VARIABLES
  region,      \* the interfaces the region has
  shown,       \* the interfaces in the store
  statuses,    \* operations under way, of this machine in the store
  eventErrors, \* operations whose error the store keeps
  selected,    \* rows that were checked
  expanded,    \* the form that is open, with the row it was opened for
  requests,    \* requests the region has not answered
  nicsMade, linksMade, \* the ids the region has given out
  mine,        \* history: requests of the open form
  crossed,     \* history: other requests may look like those of the open form
  clicks, made \* forms opened and changes of the selection; requests

store == <<shown, statuses, eventErrors>>
tab == <<selected, expanded>>
server == <<region, requests, nicsMade, linksMade>>
history == <<mine, crossed>>
bounds == <<clicks, made>>
vars == <<store, tab, server, history, bounds>>

Row == [nic : 0 .. MaxNics, link : 0 .. MaxLinks]

Contents == {"none", "addBond", "addBridge", "addPhysical", "addVlan", "addAlias",
             "edit", "mark", "remove"}

NoForm == [content |-> "none", row |-> [nic |-> 0, link |-> 0], vlan |-> 1,
           editing |-> FALSE, again |-> FALSE]

Request == [id : 1 .. MaxRequests, op : Ops, nic : 0 .. MaxNics,
            link : 0 .. MaxLinks, parents : SUBSET (1 .. MaxNics), done : BOOLEAN]

TypeOK ==
  /\ IsInterfaces(region) /\ IsInterfaces(shown)
  /\ statuses \subseteq Ops /\ eventErrors \subseteq Ops
  /\ selected \subseteq Row
  /\ expanded \in [content : Contents, row : Row, vlan : VLANs,
                   editing : BOOLEAN, again : BOOLEAN]
  /\ requests \subseteq Request
  /\ nicsMade \in 0 .. MaxNics /\ linksMade \in 0 .. MaxLinks
  /\ mine \subseteq 1 .. MaxRequests
  /\ crossed \in BOOLEAN
  /\ clicks \in 0 .. MaxClicks /\ made \in 0 .. MaxRequests

Init ==
  /\ region \in Machines /\ shown = region
  /\ statuses = {} /\ eventErrors = {}
  /\ selected = {} /\ expanded = NoForm
  /\ requests = {} /\ nicsMade = Cardinality(DOMAIN region)
  /\ linksMade = Cardinality(LinkIds(region))
  /\ mine = {} /\ crossed = FALSE
  /\ clicks = 0 /\ made = 0

--------------------------------------------------------------------------
(* What store/utils/node/networking.ts makes of the interfaces.              *)

(* The interface a row is of: one that names only a link is looked for.      *)
getInterfaceById(nics, row) ==
  IF row.nic # 0 THEN {row.nic} \cap DOMAIN nics
  ELSE {n \in DOMAIN nics : row.link \in Range(nics[n].links)}

(* The first link provides supplementary data for the interface itself.      *)
isAlias(nics, row) ==
  \E n \in DOMAIN nics :
    \E i \in 2 .. Len(nics[n].links) : nics[n].links[i] = row.link

getInterfaceType(nics, row) ==
  IF isAlias(nics, row) THEN {"alias"}
  ELSE {nics[n].type : n \in getInterfaceById(nics, row)}

findBondOrBridgeChild(nics, n) ==
  {m \in DOMAIN nics : n \in nics[m].parents /\ nics[m].type \in {"bond", "bridge"}}

isBondOrBridgeParent(nics, row) ==
  /\ ~isAlias(nics, row)
  /\ \E n \in getInterfaceById(nics, row) : findBondOrBridgeChild(nics, n) # {}

RowsOf(nics, n) ==
  IF nics[n].links = <<>> THEN {[nic |-> n, link |-> 0]}
  ELSE {[nic |-> n, link |-> l] : l \in Range(nics[n].links)}
Rows(nics) == UNION {RowsOf(nics, n) : n \in DOMAIN nics}

(* The rows that have a checkbox and a menu.                                 *)
Selectable == {row \in Rows(shown) : ~isBondOrBridgeParent(shown, row)}

(* Those that can be members of a bond of the VLAN, or are of this child.    *)
getValidNics(nics, vlan, child) ==
  {n \in DOMAIN nics :
    /\ nics[n].vlan = vlan /\ nics[n].type = "physical"
    /\ LET bonds == findBondOrBridgeChild(nics, n)
       IN bonds = {} \/ child \cap bonds # {}}

(* Mutant: the ids of the links are taken.                                   *)
getParentIdsOfLinks(rows) == {row.link : row \in rows}
getParentIds(rows) == {row.nic : row \in rows}

--------------------------------------------------------------------------
(* The form that is rendered, and what it looks at.                          *)

(* The component, which React keeps as long as it is the same in one place.  *)
Component(f, nics) ==
  LET type == getInterfaceType(nics, f.row) IN
  CASE f.content = "edit" /\ type = {"physical"} -> "EditPhysicalForm"
    [] f.content = "edit" /\ type \in {{"alias"}, {"vlan"}} -> "EditAliasOrVlanForm"
    [] f.content = "edit" /\ type = {"bridge"} -> "EditBridgeForm"
    [] f.content = "edit" /\ type = {"bond"} -> "EditBondForm"
    [] f.content \in {"mark", "remove"} -> "ActionConfirm"
    [] f.content \in {"addAlias", "addVlan"} -> "AddAliasOrVlan"
    [] f.content = "addBond" -> "AddBondForm"
    [] f.content = "addBridge" -> "AddBridgeForm"
    [] f.content = "addPhysical" -> "AddInterface"
    [] OTHER -> "none"

Instance(f, nics) == <<Component(f, nics), f.row>>

(* The operation whose status and errors it looks at.                        *)
Op(f, nics) ==
  CASE f.content = "addBond" -> "createBond"
    [] f.content = "addBridge" -> "createBridge"
    [] f.content = "addPhysical" -> "createPhysical"
    [] f.content = "addVlan" -> "createVlan"
    [] f.content = "addAlias" -> "linkSubnet"
    [] f.content = "remove" ->
         IF isAlias(nics, f.row) THEN "unlinkSubnet" ELSE "deleteInterface"
    [] OTHER -> "updateInterface"

Open == Component(expanded, shown) # "none"
Saving == Op(expanded, shown) \in statuses /\ Open

(* The forms but the confirmations clean the errors up when they go.         *)
Cleans == Component(expanded, shown) \notin {"none", "ActionConfirm"}

(* Closing these empties the selection.                                      *)
ClearsSelection(f, nics) ==
  f.content \in {"addBond", "addBridge"} \/ Component(f, nics) = "EditBondForm"

(* The status has cleared; as a mutant of Saved: the errors are not read.     *)
SavedAnyway(f, sts, errors) ==
  Saving /\ Op(f, shown) \notin sts /\ Instance(f, shown) = Instance(expanded, shown)
(* The form has been saved: its status has cleared and it sees no error.     *)
Saved(f, sts, errors) == SavedAnyway(f, sts, errors) /\ Op(f, shown) \notin errors

(* The store has these statuses and errors, the tab this form and selection, *)
(* and they are rendered.  The form that edits a bond selects the bond's     *)
(* parents when it comes.                                                    *)
Render(f, rows, sts, errors) ==
  LET saved == Saved(f, sts, errors)
      next == IF saved /\ ~f.again THEN NoForm
              ELSE [f EXCEPT !.again = @ /\ ~saved]
      was == Instance(expanded, shown)
      is == Instance(next, shown)
  IN
  /\ statuses' = sts /\ UNCHANGED shown
  /\ expanded' = next
  /\ eventErrors' = IF is # was /\ Cleans THEN {} ELSE errors
  /\ selected' = IF next = NoForm /\ ClearsSelection(f, shown) THEN {}
                 ELSE IF is # was /\ is[1] = "EditBondForm"
                   THEN {[nic |-> p, link |-> 0] : p \in
                           UNION {shown[n].parents : n \in getInterfaceById(shown, f.row)}}
                 ELSE rows

(* The tab goes, and its form, and is mounted anew.                          *)
Mount ==
  /\ expanded' = NoForm /\ selected' = {}
  /\ eventErrors' = IF Cleans THEN {} ELSE eventErrors
  /\ mine' = {} /\ crossed' = FALSE
  /\ UNCHANGED <<statuses, server, bounds>>

(* The history of a step that neither opens a form nor sends a request.      *)
Remembers ==
  /\ mine' = IF expanded' = NoForm THEN {} ELSE mine
  /\ crossed' = (crossed /\ expanded' # NoForm)

--------------------------------------------------------------------------
(* The user.                                                                 *)

TableShown == expanded.content \notin {"edit", "addBond", "addBridge"}

(* generateCheckboxHandlers.                                                 *)
handleRowCheckbox(row) ==
  IF row \in selected THEN selected \ {row} ELSE selected \cup {row}
handleGroupCheckbox(rows) ==
  IF rows \cap selected # {} THEN selected \ rows ELSE selected \cup rows

(* A row, or all of them, is checked or unchecked.                           *)
Check ==
  /\ TableShown /\ clicks < MaxClicks /\ clicks' = clicks + 1
  /\ \E rows \in {handleRowCheckbox(row) : row \in Selectable}
                   \cup {handleGroupCheckbox(Selectable)} :
       Render(expanded, rows, statuses, eventErrors)
  /\ Remembers
  /\ UNCHANGED <<server, made>>

(* In the form of a bond: the members that can be edited, or can not.        *)
Members ==
  IF expanded.content = "addBond" THEN getValidNics(shown, expanded.vlan, {})
  ELSE UNION {getValidNics(shown, shown[n].vlan, {n}) :
                n \in getInterfaceById(shown, expanded.row)}

InBondForm == Component(expanded, shown) \in {"AddBondForm", "EditBondForm"}

CheckMember ==
  /\ InBondForm /\ expanded.editing
  /\ clicks < MaxClicks /\ clicks' = clicks + 1
  /\ \E n \in Members :
       LET first == IF shown[n].links = <<>> THEN 0 ELSE shown[n].links[1]
       IN Render(expanded, handleRowCheckbox([nic |-> n, link |-> first]), statuses,
                 eventErrors)
  /\ Remembers
  /\ UNCHANGED <<server, made>>

ToggleMembers ==
  /\ InBondForm
  /\ IF expanded.editing THEN Cardinality(selected) >= 2 ELSE Cardinality(Members) # 2
  /\ expanded' = [expanded EXCEPT !.editing = ~@]
  /\ UNCHANGED <<store, selected, server, history, bounds>>

(* When a bond can be created of the selection, and a bridge.                *)
CanBond ==
  /\ Cardinality(selected) >= 2
  /\ \A row \in selected : getInterfaceType(shown, row) = {"physical"}
  /\ \A a, b \in selected : shown[a.nic].vlan = shown[b.nic].vlan
CanBridge ==
  /\ Cardinality(selected) = 1
  /\ \A row \in selected : getInterfaceType(shown, row) \notin {{"alias"}, {"bridge"}}

(* What the menu of a row offers; mark stands for the three confirmations    *)
(* that mark an interface as connected or not.                               *)
Offers(row) ==
  LET type == getInterfaceType(shown, row) IN
  {"edit", "remove"}
    \cup (IF type = {"physical"} THEN {"mark"} ELSE {})
    \cup (IF type # {"alias"} /\ row.link # 0 THEN {"addAlias"} ELSE {})
    \cup (IF type \notin {{"alias"}, {"vlan"}} THEN {"addVlan"} ELSE {})

(* A component that stays keeps its flag of having been told to add another. *)
Opens(f) ==
  LET stays == Instance(f, shown) = Instance(expanded, shown) IN
  /\ clicks < MaxClicks /\ clicks' = clicks + 1
  /\ Render([f EXCEPT !.again = stays /\ expanded.again], selected, statuses, eventErrors)
  /\ mine' = {}
  /\ crossed' = (expanded' # NoForm
                   /\ ((\E r \in requests : r.op = Op(f, shown)) \/ (stays /\ Saving)))
  /\ UNCHANGED <<server, made>>

OpenAction ==
  /\ TableShown
  /\ \/ /\ CanBond
        /\ \E v \in {shown[row.nic].vlan : row \in selected} :
             Opens([NoForm EXCEPT !.content = "addBond", !.vlan = v])
     \/ CanBridge /\ Opens([NoForm EXCEPT !.content = "addBridge"])
     \/ /\ expanded.content # "addPhysical"
        /\ Opens([NoForm EXCEPT !.content = "addPhysical"])

(* The menu of a row names its link, and the interface only without one.     *)
OpenRow ==
  /\ TableShown
  /\ \E row \in Selectable : \E content \in Offers(row) :
       Opens([NoForm EXCEPT !.content = content,
                !.row = IF row.link = 0 THEN row ELSE [row EXCEPT !.nic = 0]])

(* Cancel is disabled while a form is saving, but not in a confirmation.     *)
Cancel ==
  /\ Open
  /\ Saving => Component(expanded, shown) = "ActionConfirm"
  /\ expanded' = NoForm
  /\ eventErrors' = IF Cleans THEN {} ELSE eventErrors
  /\ selected' = IF ClearsSelection(expanded, shown) THEN {} ELSE selected
  /\ Remembers
  /\ UNCHANGED <<shown, statuses, server, bounds>>

(* The user leaves the tab and comes back, or opens a form of the header.    *)
Leave == Mount /\ UNCHANGED shown

(* The errors are cleaned up first, but not by the confirmation of mark.     *)
Submit(again) ==
  LET op == Op(expanded, shown)
      rows == IF expanded.content = "addBridge" THEN selected ELSE {expanded.row}
      nics == UNION {getInterfaceById(shown, row) : row \in rows}
  IN
  /\ made < MaxRequests /\ (again => expanded.content \in {"addAlias", "addVlan"})
  /\ Open /\ ~Saving
  /\ InBondForm => Cardinality(selected) >= 2
  /\ made' = made + 1
  /\ requests' = requests \cup
       {[id |-> made + 1, op |-> op, done |-> FALSE,
         nic |-> CHOOSE n \in 0 .. MaxNics : IF nics = {} THEN n = 0 ELSE n \in nics,
         link |-> expanded.row.link,
         parents |-> IF InBondForm THEN getParentIds(selected) ELSE {}]}
  /\ Render([expanded EXCEPT !.again = @ \/ again], selected, statuses \cup {op},
            IF expanded.content = "mark" THEN eventErrors ELSE {})
  /\ mine' = mine \cup {made + 1}
  /\ UNCHANGED <<region, nicsMade, linksMade, crossed, clicks>>

--------------------------------------------------------------------------
(* The region.                                                               *)

(* Interfaces whose parents have all gone go with them.                      *)
Orphans(nics, ns) ==
  {m \in DOMAIN nics : nics[m].parents # {} /\ nics[m].parents \subseteq ns}
Without(nics, n) ==
  LET with == {n} \cup Orphans(nics, {n})
      all == with \cup Orphans(nics, with)
  IN [m \in DOMAIN nics \ all |-> [nics[m] EXCEPT !.parents = @ \ all]]

WithNic(nics, type, vlan, parents) ==
  [m \in DOMAIN nics \cup {nicsMade + 1} |->
    IF m = nicsMade + 1
    THEN [type |-> type, vlan |-> vlan, parents |-> parents, links |-> <<>>]
    ELSE IF type # "vlan" /\ m \in parents THEN [nics[m] EXCEPT !.links = <<>>]
    ELSE nics[m]]

(* What the region does for a request, or for another user.                  *)
MakesNic(type, vlan, parents) ==
  /\ parents \subseteq DOMAIN region /\ nicsMade < MaxNics
  /\ \A p \in parents : findBondOrBridgeChild(region, p) = {}
  /\ region' = WithNic(region, type, vlan, parents)
  /\ nicsMade' = nicsMade + 1 /\ UNCHANGED linksMade

MakesLink(n) ==
  /\ n \in DOMAIN region /\ linksMade < MaxLinks
  /\ findBondOrBridgeChild(region, n) = {}
  /\ region' = [region EXCEPT ![n].links = Append(@, linksMade + 1)]
  /\ linksMade' = linksMade + 1 /\ UNCHANGED nicsMade

RemovesLink(l) ==
  /\ \E n \in DOMAIN region : \E i \in DOMAIN region[n].links :
       /\ region[n].links[i] = l
       /\ region' = [region EXCEPT ![n].links = RemoveAt(@, i)]
  /\ UNCHANGED <<nicsMade, linksMade>>

RemovesNic(n) ==
  /\ n \in DOMAIN region
  /\ region' = Without(region, n) /\ UNCHANGED <<nicsMade, linksMade>>

(* An interface gets its first link, or none, or a bond other members, under *)
(* the conditions of a new bond.                                             *)
Updates(n, parents) ==
  /\ n \in DOMAIN region
  /\ \/ region[n].links = <<>> /\ parents = {} /\ MakesLink(n)
     \/ /\ parents = {}
        /\ UNCHANGED <<region, nicsMade, linksMade>>
     \/ /\ parents # {} /\ parents \subseteq DOMAIN region
        /\ \A p \in parents : /\ region[p].vlan = region[n].vlan
                              /\ findBondOrBridgeChild(region, p) \subseteq {n}
        /\ region' = [m \in DOMAIN region |->
                       IF m = n THEN [region[m] EXCEPT !.parents = parents]
                       ELSE IF m \in parents THEN [region[m] EXCEPT !.links = <<>>]
                       ELSE region[m]]
        /\ UNCHANGED <<nicsMade, linksMade>>

RegionDoes(r) ==
  /\ ~r.done
  /\ CASE r.op = "createBond" ->
            \E v \in VLANs : /\ \A p \in r.parents \cap DOMAIN region : region[p].vlan = v
                             /\ MakesNic("bond", v, r.parents)
       [] r.op = "createBridge" ->
            r.nic \in DOMAIN region /\ MakesNic("bridge", region[r.nic].vlan, {r.nic})
       [] r.op = "createVlan" -> MakesNic("vlan", 2, {r.nic})
       [] r.op = "createPhysical" -> MakesNic("physical", 2, {})
       [] r.op = "updateInterface" -> Updates(r.nic, r.parents)
       [] r.op = "deleteInterface" -> RemovesNic(r.nic)
       [] r.op = "linkSubnet" -> MakesLink(r.nic)
       [] r.op = "unlinkSubnet" -> RemovesLink(r.link)
  /\ requests' = (requests \ {r}) \cup {[r EXCEPT !.done = TRUE]}
  /\ UNCHANGED <<store, tab, history, bounds>>

OthersChange ==
  /\ made < MaxRequests /\ made' = made + 1
  /\ \/ \E n \in DOMAIN region : RemovesNic(n) \/ MakesLink(n)
     \/ \E l \in LinkIds(region) : RemovesLink(l)
     \/ \E a, b \in DOMAIN region :
          /\ a < b /\ region[a].type = "physical" /\ region[b].type = "physical"
          /\ region[a].vlan = region[b].vlan
          /\ MakesNic("bond", region[a].vlan, {a, b})
  /\ UNCHANGED <<store, tab, requests, history, clicks>>

(* Mutant: the route of the tab keeps its component.                         *)
UpdateNotifyKept ==
  /\ shown' = region
  /\ UNCHANGED <<statuses, eventErrors, tab, history, server, bounds>>
(* A notification brings the machine as the region has it.                   *)
UpdateNotify == Mount /\ shown' = region

(* The status of the operation clears with the first answer.                 *)
ReplySuccess(r) ==
  /\ r.done
  /\ requests' = requests \ {r}
  /\ Render(expanded, selected, statuses \ {r.op}, eventErrors)
  /\ Remembers
  /\ UNCHANGED <<region, nicsMade, linksMade, bounds>>

ReplyError(r) ==
  /\ ~r.done
  /\ requests' = requests \ {r}
  /\ Render(expanded, selected, statuses \ {r.op}, eventErrors \cup {r.op})
  /\ Remembers
  /\ UNCHANGED <<region, nicsMade, linksMade, bounds>>

--------------------------------------------------------------------------
Next ==
  \/ Check \/ CheckMember \/ ToggleMembers
  \/ OpenAction \/ OpenRow \/ Cancel \/ Leave
  \/ \E again \in BOOLEAN : Submit(again)
  \/ \E r \in requests : RegionDoes(r) \/ ReplySuccess(r) \/ ReplyError(r)
  \/ OthersChange \/ UpdateNotify

Spec == Init /\ [][Next]_vars

--------------------------------------------------------------------------
Sound(r) ==
  LET parents == IF r.op = "createBridge" THEN {r.nic} ELSE r.parents IN
  /\ parents \subseteq DOMAIN shown
  /\ r.op = "createBond" \/ r.parents # {} =>
       /\ Cardinality(parents) >= 2
       /\ \A p \in parents : shown[p].type = "physical"
       /\ Cardinality({shown[p].vlan : p \in parents}) = 1
  /\ \A p \in parents : findBondOrBridgeChild(shown, p) \subseteq {r.nic}
  /\ r.op = "createBridge" => shown[r.nic].type # "bridge"

(* The request for a bond, new or edited, names two physical interfaces or   *)
(* more of one VLAN, none of them in another bond or bridge, and that for a  *)
(* bridge one that is neither, by the interfaces that are shown: the         *)
(* selection is of rows of the table, an interface and each of its aliases   *)
(* being one, and is checked when the form is opened only, so it depends on  *)
(* the tab being mounted anew when its interfaces change (MachineDetails,    *)
(* MachineNetworkActions, AddBondForm, EditBondForm).                        *)
RequestsSound ==
  [][ \A r \in requests' \ requests : ~r.done => Sound(r) ]_vars

(* Of the answers, only the one that says that what the form sent has        *)
(* succeeded closes it, though it looks at a status that all forms of its    *)
(* operation share (useMachineDetailsForm), those of before the tab was      *)
(* mounted anew among them.  It takes that no request of the operation was   *)
(* under way when it opened; and it stays open when it was told to add       *)
(* another, or still has an earlier error, as that of a confirmation.        *)
OwnAnswerCloses ==
  [][ \A r \in requests : Open /\ ~crossed /\ requests' = requests \ {r} =>
        ( expanded' = NoForm <=>
            /\ r.done /\ r.id \in mine
            /\ ~expanded.again /\ r.op \notin eventErrors ) ]_vars
=============================================================================
