-------------------------- MODULE NetworkTabProofs --------------------------
(* Proofs about the network tab of a machine, for all machines the region    *)
(* may have and any bounds.                                                  *)
EXTENDS NetworkTab, FiniteSetTheorems, SequenceTheorems, TLAPS

-----------------------------------------------------------------------------
(* The inductive invariant.                                                  *)

Form == [content : Contents, row : Row, vlan : VLANs, editing : BOOLEAN, again : BOOLEAN]

\* The ids that have been given out.
Numbered ==
  /\ DOMAIN region \subseteq 1 .. nicsMade /\ DOMAIN shown \subseteq 1 .. nicsMade
  /\ LinkIds(region) \subseteq 1 .. linksMade
  /\ \A row \in selected : row.nic \in 1 .. nicsMade

\* An interface never becomes one of another type or VLAN.
Same ==
  \A n \in DOMAIN shown \cap DOMAIN region :
    shown[n].type = region[n].type /\ shown[n].vlan = region[n].vlan

\* An interface that is physical, or gone for good.
IsPhysical(n) == n \in 1 .. nicsMade /\ (n \in DOMAIN region => region[n].type = "physical")

\* What a bond is, or will be, asked for with.
OfPhysical ==
  /\ expanded.content = "addBond" => \A row \in selected : IsPhysical(row.nic)
  /\ \A r \in requests : \A p \in r.parents : IsPhysical(p)

\* The link that stands for the interface itself.
FirstLink(nics, n) == IF nics[n].links = <<>> THEN 0 ELSE nics[n].links[1]

\* The row of a physical interface of the VLAN that is in none but these bonds.
Member(nics, row, vlan, bonds) ==
  /\ row.nic \in DOMAIN nics /\ row.link = FirstLink(nics, row.nic)
  /\ nics[row.nic].type = "physical" /\ nics[row.nic].vlan = vlan
  /\ findBondOrBridgeChild(nics, row.nic) \subseteq bonds

SelectableIn(nics) == {row \in Rows(nics) : ~isBondOrBridgeParent(nics, row)}

\* In the form of a bond the selection is of its members, now or to be.
Bonded(f, rows, nics) ==
  Component(f, nics) = "EditBondForm" =>
    \E n \in DOMAIN nics :
      /\ getInterfaceById(nics, f.row) = {n}
      /\ \A row \in rows : Member(nics, row, nics[n].vlan, {n})

\* Else it is of rows that could be checked, and is what the form was opened for.
Fresh(f, rows, nics) ==
  /\ Component(f, nics) # "EditBondForm" => rows \subseteq SelectableIn(nics)
  /\ f.content = "addBond" => \A row \in rows : Member(nics, row, f.vlan, {})
  /\ f.content = "addBridge" =>
       /\ Cardinality(rows) = 1
       /\ \A row \in rows : getInterfaceType(nics, row) \notin {{"alias"}, {"bridge"}}

Chosen ==
  /\ Bonded(expanded, selected, shown)
  /\ Fresh(expanded, selected, shown)

\* No two requests have one id, and none has an id that is yet to be given.
Ids ==
  /\ \A r \in requests : r.id <= made
  /\ \A r, q \in requests : r.id = q.id => r = q

\* The open form has at most one request under way, whose status is set, and
\* nobody else has one of its operation.
OwnOf(ids, op, sts, reqs) ==
  /\ \A r \in reqs : r.id \in ids <=> r.op = op
  /\ \A r, q \in reqs : r.id \in ids /\ q.id \in ids => r = q
  /\ \A r \in reqs : r.id \in ids => r.op \in sts

Own ==
  expanded.content # "none" /\ ~crossed =>
    OwnOf(mine, Op(expanded, shown), statuses, requests)

IInv ==
  /\ TypeOK /\ IsMachine(region) /\ IsMachine(shown)
  /\ Numbered /\ Same /\ OfPhysical /\ Chosen /\ Ids /\ Own

-----------------------------------------------------------------------------
(* Interfaces and rows.                                                      *)

\* What an interface is made of.
LEMMA NicFields ==
  ASSUME NEW nics, IsInterfaces(nics), NEW n \in DOMAIN nics
  PROVE  /\ n \in 1 .. MaxNics /\ n \in Nat /\ n # 0
         /\ nics[n].type \in Types /\ nics[n].vlan \in VLANs
         /\ nics[n].parents \subseteq DOMAIN nics /\ nics[n].parents \subseteq 1 .. MaxNics
         /\ nics[n].links \in Seq(1 .. MaxLinks)
  BY NetworkTabAssumption DEF NetworkTabAssumption, IsInterfaces, Nic

\* The links of an interface.
LEMMA LinkFacts ==
  ASSUME NEW nics, IsInterfaces(nics), NEW n \in DOMAIN nics
  PROVE  /\ Range(nics[n].links) = {nics[n].links[i] : i \in 1 .. Len(nics[n].links)}
         /\ Range(nics[n].links) \subseteq 1 .. MaxLinks
         /\ Range(nics[n].links) \subseteq LinkIds(nics)
         /\ 0 \notin Range(nics[n].links)
         /\ Len(nics[n].links) \in Nat
         /\ nics[n].links = <<>> => Range(nics[n].links) = {}
         /\ nics[n].links # <<>> => Len(nics[n].links) >= 1
<1>1. nics[n].links \in Seq(1 .. MaxLinks)
  BY NicFields
<1>2. \A i \in 1 .. Len(nics[n].links) : nics[n].links[i] \in 1 .. MaxLinks
  BY <1>1, ElementOfSeq
<1>3. Range(nics[n].links) = {nics[n].links[i] : i \in 1 .. Len(nics[n].links)}
  BY <1>1 DEF Range
<1>4. Range(nics[n].links) \subseteq 1 .. MaxLinks /\ 0 \notin Range(nics[n].links)
  BY <1>2, <1>3
<1>5. Len(nics[n].links) \in Nat /\ (nics[n].links # <<>> => Len(nics[n].links) >= 1)
  BY <1>1
<1>6. nics[n].links = <<>> => Range(nics[n].links) = {}
  BY <1>3
<1>7. Range(nics[n].links) \subseteq LinkIds(nics)
  BY DEF LinkIds
<1> QED BY <1>3, <1>4, <1>5, <1>6, <1>7

\* A row of the table is of an interface, and of a link of it if it has links.
LEMMA RowFacts ==
  ASSUME NEW nics, IsInterfaces(nics), NEW row \in Rows(nics)
  PROVE  /\ row \in Row /\ row.nic \in DOMAIN nics /\ row.nic # 0
         /\ \/ row.link = 0 /\ nics[row.nic].links = <<>>
            \/ row.link \in Range(nics[row.nic].links) /\ row.link # 0
<1>1. PICK n \in DOMAIN nics : row \in RowsOf(nics, n)
  BY DEF Rows
<1>2. n \in 1 .. MaxNics /\ n # 0 /\ n \in Nat
  BY NicFields
<1>3. \/ nics[n].links = <<>> /\ row = [nic |-> n, link |-> 0]
      \/ \E l \in Range(nics[n].links) : row = [nic |-> n, link |-> l]
  BY <1>1 DEF RowsOf
<1>4. CASE nics[n].links = <<>> /\ row = [nic |-> n, link |-> 0]
  BY <1>2, <1>4, NetworkTabAssumption DEF Row, NetworkTabAssumption
<1>5. CASE \E l \in Range(nics[n].links) : row = [nic |-> n, link |-> l]
  <2>1. PICK l \in Range(nics[n].links) : row = [nic |-> n, link |-> l]
    BY <1>5
  <2>2. l \in 1 .. MaxLinks /\ l # 0 /\ l \in 0 .. MaxLinks
    BY LinkFacts, NetworkTabAssumption DEF NetworkTabAssumption
  <2> QED BY <1>2, <2>1, <2>2 DEF Row
<1> QED BY <1>3, <1>4, <1>5

\* A row that is no alias is that of its interface's first link.
LEMMA FirstFacts ==
  ASSUME NEW nics, IsInterfaces(nics), NEW row \in Rows(nics), ~isAlias(nics, row)
  PROVE  row.link = FirstLink(nics, row.nic)
<1>1. /\ row.nic \in DOMAIN nics
      /\ \/ row.link = 0 /\ nics[row.nic].links = <<>>
         \/ row.link \in Range(nics[row.nic].links) /\ row.link # 0
  BY RowFacts
<1>2. CASE row.link = 0 /\ nics[row.nic].links = <<>>
  BY <1>2 DEF FirstLink
<1>3. CASE row.link \in Range(nics[row.nic].links) /\ row.link # 0
  <2>. DEFINE links == nics[row.nic].links
  <2>0. Range(links) = {links[i] : i \in 1 .. Len(links)}
    BY <1>1, LinkFacts
  <2>1. PICK i \in 1 .. Len(links) : row.link = links[i]
    BY <1>3, <2>0
  <2>2. i \notin 2 .. Len(nics[row.nic].links)
    BY <1>1, <2>1 DEF isAlias
  <2>3. i = 1 /\ nics[row.nic].links # <<>>
    BY <1>1, <1>3, <2>1, <2>2, LinkFacts
  <2> QED BY <2>1, <2>3 DEF FirstLink
<1> QED BY <1>1, <1>2, <1>3

\* A row stands for one interface at most.
LEMMA ByIdFacts ==
  ASSUME NEW nics, IsMachine(nics), NEW row \in Row
  PROVE  /\ getInterfaceById(nics, row) \subseteq DOMAIN nics
         /\ \A m, n \in getInterfaceById(nics, row) : m = n
         /\ row.nic # 0 => getInterfaceById(nics, row) \subseteq {row.nic}
<1>1. getInterfaceById(nics, row) \subseteq DOMAIN nics
  BY DEF getInterfaceById
<1>2. CASE row.nic # 0
  BY <1>1, <1>2 DEF getInterfaceById
<1>3. CASE row.nic = 0
  <2> SUFFICES ASSUME NEW m \in getInterfaceById(nics, row), NEW n \in getInterfaceById(nics, row)
               PROVE  m = n
    BY <1>1, <1>3
  <2>1. /\ m \in DOMAIN nics /\ n \in DOMAIN nics
        /\ row.link \in Range(nics[m].links) /\ row.link \in Range(nics[n].links)
    BY <1>3 DEF getInterfaceById
  <2>2. Range(nics[m].links) \cap Range(nics[n].links) # {}
    BY <2>1
  <2> QED BY <2>1, <2>2 DEF IsMachine
<1> QED BY <1>2, <1>3

\* A row that names a physical interface.
LEMMA PhysicalRow ==
  ASSUME NEW nics, NEW row \in Row, row.nic # 0,
         getInterfaceType(nics, row) = {"physical"}
  PROVE  ~isAlias(nics, row) /\ row.nic \in DOMAIN nics /\ nics[row.nic].type = "physical"
<1>1. ~isAlias(nics, row)
  <2>1. {"alias"} # {"physical"}
    OBVIOUS
  <2> QED BY <2>1 DEF getInterfaceType
<1>2. {nics[n].type : n \in getInterfaceById(nics, row)} = {"physical"}
  BY <1>1 DEF getInterfaceType
<1>3. PICK n \in getInterfaceById(nics, row) : nics[n].type = "physical"
  BY <1>2
<1>4. n = row.nic /\ n \in DOMAIN nics
  BY <1>3 DEF getInterfaceById
<1> QED BY <1>1, <1>3, <1>4

\* Its row, if it has a checkbox, can be a member of a bond.
LEMMA SelectedMember ==
  ASSUME NEW nics, IsInterfaces(nics), NEW row \in SelectableIn(nics),
         getInterfaceType(nics, row) = {"physical"}
  PROVE  Member(nics, row, nics[row.nic].vlan, {})
<1>1. row \in Rows(nics) /\ ~isBondOrBridgeParent(nics, row)
  BY DEF SelectableIn
<1>2. row \in Row /\ row.nic \in DOMAIN nics /\ row.nic # 0
  BY <1>1, RowFacts
<1>3. ~isAlias(nics, row) /\ nics[row.nic].type = "physical"
  BY <1>2, PhysicalRow
<1>4. row.link = FirstLink(nics, row.nic)
  BY <1>1, <1>3, FirstFacts
<1>5. findBondOrBridgeChild(nics, row.nic) = {}
  <2>1. row.nic \in getInterfaceById(nics, row)
    BY <1>2 DEF getInterfaceById
  <2> QED BY <1>1, <1>3, <2>1 DEF isBondOrBridgeParent
<1> QED BY <1>2, <1>3, <1>4, <1>5 DEF Member

\* The first row of an interface that is in no bond or bridge has a checkbox.
LEMMA MemberSelectable ==
  ASSUME NEW nics, IsInterfaces(nics), NEW row \in Row, NEW vlan,
         Member(nics, row, vlan, {})
  PROVE  row \in SelectableIn(nics)
<1>1. /\ row.nic \in DOMAIN nics /\ row.link = FirstLink(nics, row.nic) /\ row.nic # 0
      /\ findBondOrBridgeChild(nics, row.nic) = {}
  BY NicFields DEF Member
<1>2. row = [nic |-> row.nic, link |-> row.link]
  BY DEF Row
<1>3. row \in RowsOf(nics, row.nic)
  <2>1. CASE nics[row.nic].links = <<>>
    BY <1>1, <1>2, <2>1 DEF RowsOf, FirstLink
  <2>2. CASE nics[row.nic].links # <<>>
    <3>1. row.link = nics[row.nic].links[1] /\ 1 \in 1 .. Len(nics[row.nic].links)
      BY <1>1, <2>2, LinkFacts DEF FirstLink
    <3>2. row.link \in Range(nics[row.nic].links)
      BY Zenon, <1>1, <3>1, LinkFacts
    <3> QED BY <1>2, <2>2, <3>2 DEF RowsOf
  <2> QED BY <2>1, <2>2
<1>4. row \in Rows(nics)
  BY <1>1, <1>3 DEF Rows
<1>5. ~isBondOrBridgeParent(nics, row)
  BY <1>1 DEF isBondOrBridgeParent, getInterfaceById
<1> QED BY <1>4, <1>5 DEF SelectableIn

-----------------------------------------------------------------------------
(* What the region does.                                                     *)

\* The machine of the region, with the ids it has given out.
RegionOK ==
  /\ IsMachine(region)
  /\ nicsMade \in 0 .. MaxNics /\ linksMade \in 0 .. MaxLinks
  /\ DOMAIN region \subseteq 1 .. nicsMade /\ LinkIds(region) \subseteq 1 .. linksMade

\* No interface comes back, or becomes another.
Kept ==
  /\ nicsMade <= nicsMade'
  /\ \A n \in DOMAIN region' : n \in 1 .. nicsMade =>
       /\ n \in DOMAIN region
       /\ region'[n].type = region[n].type /\ region'[n].vlan = region[n].vlan

\* What is in a bond or bridge.
Joined(nics) ==
  \A n \in DOMAIN nics : nics[n].type \in {"bond", "bridge"} =>
    \A p \in nics[n].parents :
      /\ nics[p].links = <<>>
      /\ \A m \in DOMAIN nics :
           nics[m].type \in {"bond", "bridge"} /\ p \in nics[m].parents => m = n
      /\ nics[n].type = "bond" =>
           nics[p].type = "physical" /\ nics[p].vlan = nics[n].vlan

\* The three parts of a machine.
LEMMA MachineParts ==
  ASSUME NEW nics
  PROVE  IsMachine(nics) <=>
           /\ IsInterfaces(nics) /\ Joined(nics)
           /\ \A m, n \in DOMAIN nics :
                Range(nics[m].links) \cap Range(nics[n].links) # {} => m = n
  BY Zenon DEF IsMachine, Joined

\* What is in no bond or bridge.
LEMMA NoChild ==
  ASSUME NEW nics, NEW p, findBondOrBridgeChild(nics, p) = {}, NEW m \in DOMAIN nics,
         nics[m].type \in {"bond", "bridge"}
  PROVE  p \notin nics[m].parents
  BY DEF findBondOrBridgeChild

\* Interfaces whose links are among those they had.
LEMMA LinksFrom ==
  ASSUME NEW nics, IsMachine(nics), NEW new,
         \A m \in DOMAIN new : \/ Range(new[m].links) = {}
                               \/ /\ m \in DOMAIN nics
                                  /\ Range(new[m].links) \subseteq Range(nics[m].links)
  PROVE  /\ \A m, n \in DOMAIN new :
              Range(new[m].links) \cap Range(new[n].links) # {} => m = n
         /\ LinkIds(new) \subseteq LinkIds(nics)
<1>1. \A m, n \in DOMAIN new :
        Range(new[m].links) \cap Range(new[n].links) # {} => m = n
  BY MachineParts
<1>2. LinkIds(new) \subseteq LinkIds(nics)
  <2> SUFFICES ASSUME NEW l \in LinkIds(new) PROVE l \in LinkIds(nics)
    OBVIOUS
  <2>1. PICK m \in DOMAIN new : l \in Range(new[m].links)
    BY DEF LinkIds
  <2>2. m \in DOMAIN nics /\ l \in Range(nics[m].links)
    BY <2>1
  <2> QED BY <2>2 DEF LinkIds
<1> QED BY <1>1, <1>2

\* No links.
LEMMA NoLinks ==
  /\ Range(<<>>) = {}
  /\ <<>> \in Seq(1 .. MaxLinks)
  BY DEF Range

\* A new interface.
LEMMA MakesNicStep ==
  ASSUME RegionOK, NEW type \in Types, NEW vlan \in VLANs, NEW parents,
         MakesNic(type, vlan, parents),
         type = "bond" => \A p \in parents :
           region[p].type = "physical" /\ region[p].vlan = vlan
  PROVE  RegionOK' /\ Kept
<1> DEFINE new == WithNic(region, type, vlan, parents)
           id == nicsMade + 1
<1>1. /\ parents \subseteq DOMAIN region /\ nicsMade < MaxNics
      /\ \A p \in parents : findBondOrBridgeChild(region, p) = {}
      /\ region' = new /\ nicsMade' = id /\ linksMade' = linksMade
  BY DEF MakesNic
<1>2. /\ nicsMade \in Nat /\ MaxNics \in Nat /\ id \in 1 .. MaxNics
      /\ IsInterfaces(region) /\ id \notin DOMAIN region
      /\ DOMAIN region \subseteq 1 .. nicsMade
  BY <1>1, MachineParts, NetworkTabAssumption DEF RegionOK, NetworkTabAssumption
<1>3. /\ DOMAIN new = DOMAIN region \cup {id}
      /\ new[id] = [type |-> type, vlan |-> vlan, parents |-> parents, links |-> <<>>]
  BY DEF WithNic
<1>4. ASSUME NEW m \in DOMAIN region
      PROVE  /\ new[m] \in Nic /\ m # id /\ m \in DOMAIN new
             /\ new[m].type = region[m].type /\ new[m].vlan = region[m].vlan
             /\ new[m].parents = region[m].parents
             /\ new[m].links = region[m].links \/ new[m].links = <<>>
             /\ type # "vlan" /\ m \in parents => new[m].links = <<>>
  <2>1. region[m] \in Nic /\ m # id
    BY <1>2 DEF IsInterfaces
  <2>2. new[m] = IF type # "vlan" /\ m \in parents THEN [region[m] EXCEPT !.links = <<>>]
                 ELSE region[m]
    BY <2>1 DEF WithNic
  <2> QED BY <2>1, <2>2, <1>3, NoLinks DEF Nic
<1>5. IsInterfaces(new)
  <2>1. parents \subseteq 1 .. MaxNics /\ DOMAIN new \subseteq 1 .. MaxNics
    BY <1>1, <1>2, <1>3 DEF IsInterfaces
  <2>2. new[id] \in Nic /\ new[id].parents \subseteq DOMAIN new
    BY <1>1, <1>3, <2>1, NoLinks DEF Nic
  <2>3. \A m \in DOMAIN region : new[m] \in Nic /\ new[m].parents \subseteq DOMAIN new
    BY <1>2, <1>3, <1>4, NicFields
  <2> QED BY <1>3, <2>1, <2>2, <2>3 DEF IsInterfaces
<1>6. \A m \in DOMAIN new : \/ Range(new[m].links) = {}
                            \/ /\ m \in DOMAIN region
                               /\ Range(new[m].links) \subseteq Range(region[m].links)
  BY <1>3, <1>4, NoLinks
<1>7. Joined(new)
  <2> SUFFICES ASSUME NEW n \in DOMAIN new, new[n].type \in {"bond", "bridge"},
                      NEW p \in new[n].parents
               PROVE  /\ new[p].links = <<>>
                      /\ \A m \in DOMAIN new :
                           new[m].type \in {"bond", "bridge"} /\ p \in new[m].parents => m = n
                      /\ new[n].type = "bond" =>
                           new[p].type = "physical" /\ new[p].vlan = new[n].vlan
    BY Zenon DEF Joined
  <2>1. CASE n = id
    <3>1. p \in parents /\ p \in DOMAIN region /\ type # "vlan"
      BY <1>1, <1>3, <2>1
    <3>2. new[p].links = <<>>
      BY <1>4, <3>1
    <3>3. \A m \in DOMAIN region :
            new[m].type \in {"bond", "bridge"} => p \notin new[m].parents
      BY <1>1, <1>4, <3>1, NoChild
    <3>4. type = "bond" => new[p].type = "physical" /\ new[p].vlan = vlan
      BY <1>4, <3>1
    <3> QED BY <1>3, <2>1, <3>2, <3>3, <3>4
  <2>2. CASE n \in DOMAIN region
    <3>1. /\ region[n].type \in {"bond", "bridge"} /\ p \in region[n].parents
          /\ p \in DOMAIN region
      BY <1>2, <1>4, <2>2, NicFields
    <3>2. /\ region[p].links = <<>>
          /\ \A m \in DOMAIN region :
               region[m].type \in {"bond", "bridge"} /\ p \in region[m].parents => m = n
          /\ region[n].type = "bond" =>
               region[p].type = "physical" /\ region[p].vlan = region[n].vlan
      BY <2>2, <3>1, MachineParts DEF RegionOK, Joined
    <3>3. new[id].type \in {"bond", "bridge"} => p \notin new[id].parents
      BY <1>1, <1>3, <2>2, <3>1, NoChild
    <3> QED BY <1>3, <1>4, <2>2, <3>1, <3>2, <3>3
  <2> QED BY <1>3, <2>1, <2>2
<1>8. IsMachine(new) /\ LinkIds(new) \subseteq LinkIds(region)
  BY <1>5, <1>6, <1>7, LinksFrom, MachineParts DEF RegionOK
<1>9. RegionOK'
  BY <1>1, <1>2, <1>3, <1>8 DEF RegionOK
<1>10. Kept
  <2>1. \A n \in DOMAIN region' : n \in 1 .. nicsMade => n \in DOMAIN region
    BY <1>1, <1>2, <1>3
  <2> QED BY <1>1, <1>2, <1>4, <2>1 DEF Kept
<1> QED BY <1>9, <1>10

\* A new link.
LEMMA MakesLinkStep ==
  ASSUME RegionOK, NEW n, MakesLink(n)
  PROVE  RegionOK' /\ Kept
<1> DEFINE id == linksMade + 1
           new == [region EXCEPT ![n].links = Append(@, id)]
<1>1. /\ n \in DOMAIN region /\ linksMade < MaxLinks
      /\ findBondOrBridgeChild(region, n) = {}
      /\ region' = new /\ nicsMade' = nicsMade /\ linksMade' = id
  BY DEF MakesLink
<1>2. /\ linksMade \in Nat /\ MaxLinks \in Nat /\ id \in 1 .. MaxLinks
      /\ IsInterfaces(region) /\ LinkIds(region) \subseteq 1 .. linksMade
      /\ nicsMade \in Nat /\ DOMAIN region \subseteq 1 .. nicsMade
  BY <1>1, MachineParts, NetworkTabAssumption DEF RegionOK, NetworkTabAssumption
<1>3. DOMAIN new = DOMAIN region
  OBVIOUS
<1>4. ASSUME NEW m \in DOMAIN region, m # n
      PROVE  new[m] = region[m]
  BY <1>4
<1>5. new[n] = [region[n] EXCEPT !.links = Append(@, id)]
  BY <1>1
<1>6. /\ new[n] \in Nic
      /\ new[n].type = region[n].type /\ new[n].vlan = region[n].vlan
      /\ new[n].parents = region[n].parents
      /\ new[n].links = Append(region[n].links, id)
  <2>1. region[n] \in Nic /\ region[n].links \in Seq(1 .. MaxLinks)
    BY <1>1, <1>2 DEF IsInterfaces, Nic
  <2>2. Append(region[n].links, id) \in Seq(1 .. MaxLinks)
    BY <1>2, <2>1
  <2> QED BY <1>5, <2>1, <2>2 DEF Nic
<1>7. Range(new[n].links) = Range(region[n].links) \cup {id}
  <2>. DEFINE links == region[n].links
  <2>1. links \in Seq(1 .. MaxLinks)
    BY <1>1, <1>2, NicFields
  <2>2. Range(links) = {links[i] : i \in 1 .. Len(links)}
    BY <2>1 DEF Range
  <2>3. Range(Append(links, id)) = {Append(links, id)[i] : i \in 1 .. Len(links) + 1}
    BY <2>1 DEF Range
  <2>4. /\ \A i \in 1 .. Len(links) : Append(links, id)[i] = links[i]
        /\ Append(links, id)[Len(links) + 1] = id
        /\ Len(links) \in Nat
    BY <2>1
  <2>5. 1 .. Len(links) + 1 = (1 .. Len(links)) \cup {Len(links) + 1}
    BY <2>4
  <2>6. {Append(links, id)[i] : i \in 1 .. Len(links) + 1} = {links[i] : i \in 1 .. Len(links)} \cup {id}
    BY <2>4, <2>5
  <2> QED BY <1>6, <2>2, <2>3, <2>6
<1>8. IsInterfaces(new)
  BY <1>1, <1>2, <1>3, <1>4, <1>6 DEF IsInterfaces
<1>9. \A m \in DOMAIN region : id \notin Range(region[m].links)
  BY <1>2 DEF LinkIds
<1>10. \A a, b \in DOMAIN new :
         Range(new[a].links) \cap Range(new[b].links) # {} => a = b
  <2> SUFFICES ASSUME NEW a \in DOMAIN new, NEW b \in DOMAIN new,
                      NEW l \in Range(new[a].links), l \in Range(new[b].links), a # b
               PROVE  FALSE
    OBVIOUS
  <2>1. l # id
    BY <1>3, <1>4, <1>9
  <2>2. l \in Range(region[a].links) /\ l \in Range(region[b].links)
    BY <1>3, <1>4, <1>7, <2>1
  <2>3. Range(region[a].links) \cap Range(region[b].links) # {}
    BY <2>2
  <2> QED BY <1>3, <2>3, MachineParts DEF RegionOK
<1>11. Joined(new)
  <2> SUFFICES ASSUME NEW b \in DOMAIN new, new[b].type \in {"bond", "bridge"},
                      NEW p \in new[b].parents
               PROVE  /\ new[p].links = <<>>
                      /\ \A m \in DOMAIN new :
                           new[m].type \in {"bond", "bridge"} /\ p \in new[m].parents => m = b
                      /\ new[b].type = "bond" =>
                           new[p].type = "physical" /\ new[p].vlan = new[b].vlan
    BY Zenon DEF Joined
  <2>1. /\ b \in DOMAIN region /\ region[b].type \in {"bond", "bridge"}
        /\ p \in region[b].parents /\ p \in DOMAIN region
    BY <1>2, <1>3, <1>4, <1>6, NicFields
  <2>2. p # n
    BY <1>1, <2>1, NoChild
  <2>3. /\ region[p].links = <<>>
        /\ \A m \in DOMAIN region :
             region[m].type \in {"bond", "bridge"} /\ p \in region[m].parents => m = b
        /\ region[b].type = "bond" =>
             region[p].type = "physical" /\ region[p].vlan = region[b].vlan
    BY <2>1, MachineParts DEF RegionOK, Joined
  <2> QED BY <1>3, <1>4, <1>6, <2>1, <2>2, <2>3
<1>12. IsMachine(new)
  BY <1>8, <1>10, <1>11, MachineParts
<1>13. LinkIds(new) \subseteq 1 .. id
  <2> SUFFICES ASSUME NEW l \in LinkIds(new) PROVE l \in 1 .. id
    OBVIOUS
  <2>1. PICK m \in DOMAIN new : l \in Range(new[m].links)
    BY DEF LinkIds
  <2>2. l = id \/ l \in Range(region[m].links)
    BY <1>3, <1>4, <1>7, <2>1
  <2>3. l = id \/ l \in LinkIds(region)
    BY <1>3, <2>1, <2>2 DEF LinkIds
  <2> QED BY <1>2, <2>3
<1> HIDE DEF new
<1>14. RegionOK'
  BY <1>1, <1>2, <1>3, <1>12, <1>13 DEF RegionOK
<1>15. Kept
  BY <1>1, <1>2, <1>3, <1>4, <1>6 DEF Kept
<1> QED BY <1>14, <1>15

\* What is left of a sequence.
LEMMA LeftOf ==
  ASSUME NEW S, NEW s \in Seq(S), NEW i \in 1 .. Len(s)
  PROVE  RemoveAt(s, i) \in Seq(S)
<1>1. Len(s) \in Nat
  OBVIOUS
<1>2. SubSeq(s, 1, i - 1) \in Seq(S)
  BY <1>1, SubSeqProperties, ElementOfSeq
<1>3. SubSeq(s, i + 1, Len(s)) \in Seq(S)
  BY <1>1, SubSeqProperties, ElementOfSeq
<1> QED BY <1>2, <1>3 DEF RemoveAt

\* A link goes.
LEMMA RemovesLinkStep ==
  ASSUME RegionOK, NEW l, RemovesLink(l)
  PROVE  RegionOK' /\ Kept
<1>1. PICK n \in DOMAIN region : \E i \in DOMAIN region[n].links :
        region' = [region EXCEPT ![n].links = RemoveAt(@, i)]
  BY DEF RemovesLink
<1>2. PICK i \in DOMAIN region[n].links :
        region' = [region EXCEPT ![n].links = RemoveAt(@, i)]
  BY <1>1
<1> DEFINE links == region[n].links
           left == RemoveAt(links, i)
           new == [region EXCEPT ![n].links = left]
<1>3. region' = new /\ nicsMade' = nicsMade /\ linksMade' = linksMade
  BY <1>2 DEF RemovesLink
<1>4. IsInterfaces(region) /\ nicsMade \in Nat /\ DOMAIN new = DOMAIN region
  BY MachineParts, NetworkTabAssumption DEF RegionOK, NetworkTabAssumption
<1> HIDE DEF left
<1>5. ASSUME NEW m \in DOMAIN region
      PROVE  /\ new[m] \in Nic
             /\ new[m].type = region[m].type /\ new[m].vlan = region[m].vlan
             /\ new[m].parents = region[m].parents
             /\ Range(new[m].links) \subseteq Range(region[m].links)
             /\ region[m].links = <<>> => new[m].links = <<>>
  <2>1. region[m] \in Nic /\ links \in Seq(1 .. MaxLinks) /\ i \in 1 .. Len(links)
    BY <1>2, <1>4 DEF IsInterfaces, Nic
  <2>2. new[m] = IF m = n THEN [region[m] EXCEPT !.links = left] ELSE region[m]
    OBVIOUS
  <2> HIDE DEF new
  <2>3. left \in Seq(1 .. MaxLinks)
    BY <2>1, LeftOf DEF left
  <2>4. links \in Seq(Range(links))
    BY <2>1 DEF Range
  <2>5. left \in Seq(Range(links))
    BY <2>1, <2>4, LeftOf DEF left
  <2>6. \A k \in 1 .. Len(left) : left[k] \in Range(links)
    BY <2>5, ElementOfSeq
  <2>7. Range(left) \subseteq Range(links)
    BY <2>5, <2>6 DEF Range
  <2>8. links # <<>>
    BY <2>1
  <2>9. CASE m = n
    BY <2>1, <2>2, <2>3, <2>7, <2>8, <2>9 DEF Nic
  <2>10. CASE m # n
    BY <2>1, <2>2, <2>10
  <2> QED BY <2>9, <2>10
<1> HIDE DEF new
<1>6. IsInterfaces(new)
  BY <1>4, <1>5 DEF IsInterfaces
<1>7. Joined(new)
  <2> SUFFICES ASSUME NEW b \in DOMAIN new, new[b].type \in {"bond", "bridge"},
                      NEW p \in new[b].parents
               PROVE  /\ new[p].links = <<>>
                      /\ \A m \in DOMAIN new :
                           new[m].type \in {"bond", "bridge"} /\ p \in new[m].parents => m = b
                      /\ new[b].type = "bond" =>
                           new[p].type = "physical" /\ new[p].vlan = new[b].vlan
    BY Zenon DEF Joined
  <2>1. /\ b \in DOMAIN region /\ region[b].type \in {"bond", "bridge"}
        /\ p \in region[b].parents /\ p \in DOMAIN region
    BY <1>4, <1>5, NicFields
  <2>2. /\ region[p].links = <<>>
        /\ \A m \in DOMAIN region :
             region[m].type \in {"bond", "bridge"} /\ p \in region[m].parents => m = b
        /\ region[b].type = "bond" =>
             region[p].type = "physical" /\ region[p].vlan = region[b].vlan
    BY <2>1, MachineParts DEF RegionOK, Joined
  <2> QED BY <1>4, <1>5, <2>1, <2>2
<1>8. IsMachine(new) /\ LinkIds(new) \subseteq LinkIds(region)
  BY <1>4, <1>5, <1>6, <1>7, LinksFrom, MachineParts DEF RegionOK
<1>9. RegionOK'
  BY <1>3, <1>4, <1>8 DEF RegionOK
<1>10. Kept
  BY <1>3, <1>4, <1>5 DEF Kept
<1> QED BY <1>9, <1>10

\* An interface goes, with those that are left without parents.
LEMMA RemovesNicStep ==
  ASSUME RegionOK, NEW n, RemovesNic(n)
  PROVE  RegionOK' /\ Kept
<1>1. PICK all : region' = [m \in DOMAIN region \ all |->
                             [region[m] EXCEPT !.parents = @ \ all]]
  BY DEF RemovesNic, Without
<1> DEFINE new == [m \in DOMAIN region \ all |-> [region[m] EXCEPT !.parents = @ \ all]]
<1>2. region' = new /\ nicsMade' = nicsMade /\ linksMade' = linksMade
  BY <1>1 DEF RemovesNic
<1>3. IsInterfaces(region) /\ nicsMade \in Nat /\ DOMAIN new = DOMAIN region \ all
  BY MachineParts, NetworkTabAssumption DEF RegionOK, NetworkTabAssumption
<1>4. ASSUME NEW m \in DOMAIN new
      PROVE  /\ m \in DOMAIN region /\ new[m] \in Nic
             /\ new[m].type = region[m].type /\ new[m].vlan = region[m].vlan
             /\ new[m].parents = region[m].parents \ all
             /\ new[m].links = region[m].links
  <2>1. m \in DOMAIN region /\ region[m] \in Nic
    BY <1>3 DEF IsInterfaces
  <2>2. new[m] = [region[m] EXCEPT !.parents = @ \ all]
    OBVIOUS
  <2> QED BY <2>1, <2>2 DEF Nic
<1> HIDE DEF new
<1>5. IsInterfaces(new)
  <2>1. \A m \in DOMAIN new : new[m].parents \subseteq DOMAIN new
    BY <1>3, <1>4, NicFields
  <2>2. DOMAIN new \subseteq 1 .. MaxNics
    BY <1>3 DEF IsInterfaces
  <2> QED BY <1>4, <2>1, <2>2 DEF IsInterfaces
<1>6. Joined(new)
  <2> SUFFICES ASSUME NEW b \in DOMAIN new, new[b].type \in {"bond", "bridge"},
                      NEW p \in new[b].parents
               PROVE  /\ new[p].links = <<>>
                      /\ \A m \in DOMAIN new :
                           new[m].type \in {"bond", "bridge"} /\ p \in new[m].parents => m = b
                      /\ new[b].type = "bond" =>
                           new[p].type = "physical" /\ new[p].vlan = new[b].vlan
    BY Zenon DEF Joined
  <2>1. /\ b \in DOMAIN region /\ region[b].type \in {"bond", "bridge"}
        /\ p \in region[b].parents /\ p \in DOMAIN region /\ p \in DOMAIN new
    BY <1>3, <1>4, NicFields
  <2>2. /\ region[p].links = <<>>
        /\ \A m \in DOMAIN region :
             region[m].type \in {"bond", "bridge"} /\ p \in region[m].parents => m = b
        /\ region[b].type = "bond" =>
             region[p].type = "physical" /\ region[p].vlan = region[b].vlan
    BY <2>1, MachineParts DEF RegionOK, Joined
  <2> QED BY <1>4, <2>1, <2>2
<1>7. \A m \in DOMAIN new : /\ m \in DOMAIN region
                            /\ Range(new[m].links) \subseteq Range(region[m].links)
  BY <1>4
<1>8. IsMachine(new) /\ LinkIds(new) \subseteq LinkIds(region)
  BY <1>5, <1>6, <1>7, LinksFrom, MachineParts DEF RegionOK
<1>9. RegionOK'
  BY <1>2, <1>3, <1>8 DEF RegionOK
<1>10. Kept
  BY <1>2, <1>3, <1>4 DEF Kept
<1> QED BY <1>9, <1>10

\* An interface is changed.
LEMMA UpdatesStep ==
  ASSUME RegionOK, NEW n, NEW parents, Updates(n, parents),
         \A p \in parents \cap DOMAIN region : region[p].type = "physical"
  PROVE  RegionOK' /\ Kept
<1>1. \/ MakesLink(n)
      \/ UNCHANGED <<region, nicsMade, linksMade>>
      \/ /\ n \in DOMAIN region /\ parents \subseteq DOMAIN region
         /\ \A p \in parents : /\ region[p].vlan = region[n].vlan
                               /\ findBondOrBridgeChild(region, p) \subseteq {n}
         /\ region' = [m \in DOMAIN region |->
                        IF m = n THEN [region[m] EXCEPT !.parents = parents]
                        ELSE IF m \in parents THEN [region[m] EXCEPT !.links = <<>>]
                        ELSE region[m]]
         /\ UNCHANGED <<nicsMade, linksMade>>
  BY DEF Updates
<1>2. CASE MakesLink(n)
  BY <1>2, MakesLinkStep
<1>3. CASE UNCHANGED <<region, nicsMade, linksMade>>
  BY <1>3 DEF RegionOK, Kept
<1>4. CASE /\ n \in DOMAIN region /\ parents \subseteq DOMAIN region
           /\ \A p \in parents : /\ region[p].vlan = region[n].vlan
                                 /\ findBondOrBridgeChild(region, p) \subseteq {n}
           /\ region' = [m \in DOMAIN region |->
                          IF m = n THEN [region[m] EXCEPT !.parents = parents]
                          ELSE IF m \in parents THEN [region[m] EXCEPT !.links = <<>>]
                          ELSE region[m]]
           /\ UNCHANGED <<nicsMade, linksMade>>
  <2> DEFINE new == [m \in DOMAIN region |->
                      IF m = n THEN [region[m] EXCEPT !.parents = parents]
                      ELSE IF m \in parents THEN [region[m] EXCEPT !.links = <<>>]
                      ELSE region[m]]
  <2>1. /\ region' = new /\ nicsMade' = nicsMade /\ linksMade' = linksMade
        /\ n \in DOMAIN region /\ parents \subseteq DOMAIN region
    BY <1>4
  <2>2. IsInterfaces(region) /\ nicsMade \in Nat /\ DOMAIN new = DOMAIN region
    BY MachineParts, NetworkTabAssumption DEF RegionOK, NetworkTabAssumption
  <2> HIDE DEF new
  <2>3. ASSUME NEW m \in DOMAIN region
        PROVE  /\ new[m] \in Nic
               /\ new[m].type = region[m].type /\ new[m].vlan = region[m].vlan
               /\ new[m].parents = IF m = n THEN parents ELSE region[m].parents
               /\ new[m].links = region[m].links \/ new[m].links = <<>>
               /\ m # n /\ m \in parents => new[m].links = <<>>
    <3>1. region[m] \in Nic /\ parents \subseteq 1 .. MaxNics
      BY <2>1, <2>2 DEF IsInterfaces
    <3>2. new[m] = IF m = n THEN [region[m] EXCEPT !.parents = parents]
                   ELSE IF m \in parents THEN [region[m] EXCEPT !.links = <<>>]
                   ELSE region[m]
      BY DEF new
    <3>3. CASE m = n
      BY <3>1, <3>2, <3>3 DEF Nic
    <3>4. CASE m # n /\ m \in parents
      BY <3>1, <3>2, <3>4, NoLinks DEF Nic
    <3>5. CASE m # n /\ m \notin parents
      BY <3>1, <3>2, <3>5
    <3> QED BY <3>3, <3>4, <3>5
  <2>4. IsInterfaces(new)
    <3>1. \A m \in DOMAIN new : new[m].parents \subseteq DOMAIN new
      BY <2>1, <2>2, <2>3, NicFields
    <3>2. DOMAIN new \subseteq 1 .. MaxNics
      BY <2>2 DEF IsInterfaces
    <3> QED BY <2>2, <2>3, <3>1, <3>2 DEF IsInterfaces
  <2>5. Joined(new)
    <3> SUFFICES ASSUME NEW b \in DOMAIN new, new[b].type \in {"bond", "bridge"},
                        NEW p \in new[b].parents
                 PROVE  /\ new[p].links = <<>>
                        /\ \A m \in DOMAIN new :
                             new[m].type \in {"bond", "bridge"} /\ p \in new[m].parents => m = b
                        /\ new[b].type = "bond" =>
                             new[p].type = "physical" /\ new[p].vlan = new[b].vlan
      BY Zenon DEF Joined
    <3>1. b \in DOMAIN region /\ region[b].type \in {"bond", "bridge"}
      BY <2>2, <2>3
    <3>2. CASE b = n
      <4>1. p \in parents /\ p \in DOMAIN region /\ findBondOrBridgeChild(region, p) \subseteq {n}
        BY <1>4, <2>3, <3>1, <3>2
      <4>2. region[p].type = "physical" /\ region[p].vlan = region[n].vlan /\ p # n
        BY <1>4, <3>1, <3>2, <4>1
      <4>3. \A m \in DOMAIN region :
              region[m].type \in {"bond", "bridge"} /\ p \in region[m].parents => m = n
        BY <4>1 DEF findBondOrBridgeChild
      <4> QED BY <2>2, <2>3, <3>1, <3>2, <4>1, <4>2, <4>3
    <3>3. CASE b # n
      <4>1. p \in region[b].parents /\ p \in DOMAIN region
        BY <2>2, <2>3, <3>1, <3>3, NicFields
      <4>2. /\ region[p].links = <<>>
            /\ \A m \in DOMAIN region :
                 region[m].type \in {"bond", "bridge"} /\ p \in region[m].parents => m = b
            /\ region[b].type = "bond" =>
                 region[p].type = "physical" /\ region[p].vlan = region[b].vlan
        BY <3>1, <4>1, MachineParts DEF RegionOK, Joined
      <4>3. p \notin parents
        BY <1>4, <3>1, <3>3, <4>1 DEF findBondOrBridgeChild
      <4> QED BY <2>2, <2>3, <3>1, <3>3, <4>1, <4>2, <4>3
    <3> QED BY <3>2, <3>3
  <2>6. \A m \in DOMAIN new : \/ Range(new[m].links) = {}
                              \/ /\ m \in DOMAIN region
                                 /\ Range(new[m].links) \subseteq Range(region[m].links)
    BY <2>2, <2>3, NoLinks
  <2>7. IsMachine(new) /\ LinkIds(new) \subseteq LinkIds(region)
    BY <2>4, <2>5, <2>6, LinksFrom, MachineParts DEF RegionOK
  <2>8. RegionOK'
    BY <2>1, <2>2, <2>7 DEF RegionOK
  <2>9. Kept
    BY <2>1, <2>2, <2>3 DEF Kept
  <2> QED BY <2>8, <2>9
<1> QED BY <1>1, <1>2, <1>3, <1>4

\* What the region does for a request.
LEMMA RegionDoesStep ==
  ASSUME IInv, RegionOK, NEW r \in requests, RegionDoes(r)
  PROVE  RegionOK' /\ Kept
<1>1. /\ r \in Request /\ IsInterfaces(region)
      /\ \A p \in r.parents \cap DOMAIN region : region[p].type = "physical"
  BY DEF IInv, TypeOK, OfPhysical, IsPhysical
<1>2. CASE r.op = "createBond"
  <2>1. \E v \in VLANs : /\ \A p \in r.parents \cap DOMAIN region : region[p].vlan = v
                         /\ MakesNic("bond", v, r.parents)
    BY <1>2 DEF RegionDoes
  <2>2. PICK v \in VLANs : /\ \A p \in r.parents \cap DOMAIN region : region[p].vlan = v
                           /\ MakesNic("bond", v, r.parents)
    BY <2>1
  <2>3. r.parents \subseteq DOMAIN region /\ "bond" \in Types
    BY <2>2 DEF MakesNic, Types
  <2>4. \A p \in r.parents : region[p].type = "physical" /\ region[p].vlan = v
    BY <1>1, <2>2, <2>3
  <2> QED BY <2>2, <2>3, <2>4, MakesNicStep
<1>3. CASE r.op = "createBridge"
  <2>1. r.nic \in DOMAIN region /\ MakesNic("bridge", region[r.nic].vlan, {r.nic})
    BY <1>3 DEF RegionDoes
  <2>2. region[r.nic].vlan \in VLANs /\ "bridge" \in Types /\ "bridge" # "bond"
    BY <1>1, <2>1, NicFields DEF Types
  <2> QED BY <2>1, <2>2, MakesNicStep
<1>4. CASE r.op = "createVlan"
  <2>1. MakesNic("vlan", 2, {r.nic})
    BY <1>4 DEF RegionDoes
  <2> QED BY <2>1, MakesNicStep DEF Types, VLANs
<1>5. CASE r.op = "createPhysical"
  <2>1. MakesNic("physical", 2, {})
    BY <1>5 DEF RegionDoes
  <2> QED BY <2>1, MakesNicStep DEF Types, VLANs
<1>6. CASE r.op = "updateInterface"
  <2>1. Updates(r.nic, r.parents)
    BY <1>6 DEF RegionDoes
  <2> QED BY <1>1, <2>1, UpdatesStep
<1>7. CASE r.op = "deleteInterface"
  <2>1. RemovesNic(r.nic)
    BY <1>7 DEF RegionDoes
  <2> QED BY <2>1, RemovesNicStep
<1>8. CASE r.op = "linkSubnet"
  <2>1. MakesLink(r.nic)
    BY <1>8 DEF RegionDoes
  <2> QED BY <2>1, MakesLinkStep
<1>9. CASE r.op = "unlinkSubnet"
  <2>1. RemovesLink(r.link)
    BY <1>9 DEF RegionDoes
  <2> QED BY <2>1, RemovesLinkStep
<1> QED BY <1>1, <1>2, <1>3, <1>4, <1>5, <1>6, <1>7, <1>8, <1>9 DEF Request, Ops

\* What it does for other users.
LEMMA OthersChangeStep ==
  ASSUME RegionOK, OthersChange
  PROVE  RegionOK' /\ Kept
<1>1. CASE \E n \in DOMAIN region : RemovesNic(n) \/ MakesLink(n)
  BY <1>1, RemovesNicStep, MakesLinkStep
<1>2. CASE \E l \in LinkIds(region) : RemovesLink(l)
  BY <1>2, RemovesLinkStep
<1>3. CASE \E a, b \in DOMAIN region :
             /\ a < b /\ region[a].type = "physical" /\ region[b].type = "physical"
             /\ region[a].vlan = region[b].vlan
             /\ MakesNic("bond", region[a].vlan, {a, b})
  <2>1. PICK a \in DOMAIN region, b \in DOMAIN region :
          /\ region[a].type = "physical" /\ region[b].type = "physical"
          /\ region[a].vlan = region[b].vlan
          /\ MakesNic("bond", region[a].vlan, {a, b})
    BY <1>3
  <2>2. region[a].vlan \in VLANs /\ "bond" \in Types
    BY NicFields, MachineParts DEF RegionOK, Types
  <2>3. \A p \in {a, b} : region[p].type = "physical" /\ region[p].vlan = region[a].vlan
    BY <2>1
  <2> QED BY <2>1, <2>2, <2>3, MakesNicStep
<1> QED BY <1>1, <1>2, <1>3 DEF OthersChange

\* The parts of the invariant that a step of the region may disturb.
LEMMA RegionPart ==
  ASSUME IInv, RegionOK', Kept, UNCHANGED <<shown, selected, expanded>>,
         \A q \in requests' : \E r \in requests : q.parents = r.parents
  PROVE  IsMachine(region)' /\ Numbered' /\ Same' /\ OfPhysical'
<1>1. nicsMade \in Nat /\ nicsMade' \in Nat /\ nicsMade <= nicsMade'
  BY NetworkTabAssumption DEF IInv, TypeOK, RegionOK, Kept, NetworkTabAssumption
<1>2. 1 .. nicsMade \subseteq 1 .. nicsMade'
  BY <1>1
<1>3. IsMachine(region)' /\ Numbered'
  BY <1>2 DEF IInv, RegionOK, Numbered
<1>4. Same'
  <2>1. \A n \in DOMAIN shown : n \in 1 .. nicsMade
    BY DEF IInv, Numbered
  <2> QED BY <2>1 DEF IInv, Same, Kept
<1>5. \A n : IsPhysical(n) => IsPhysical(n)'
  BY <1>2 DEF IsPhysical, Kept
<1>6. OfPhysical'
  BY <1>5 DEF IInv, OfPhysical
<1> QED BY <1>3, <1>4, <1>6

\* The invariant says what the lemmas about the region take.
LEMMA RegionOf ==
  ASSUME IInv
  PROVE  RegionOK
  BY DEF IInv, TypeOK, Numbered, RegionOK

-----------------------------------------------------------------------------
(* Forms and what a render makes of them.                                    *)

\* A component is that of the content and the row.
LEMMA ComponentFacts ==
  ASSUME NEW f, NEW nics
  PROVE  /\ Component(NoForm, nics) = "none"
         /\ f.content = "none" => Component(f, nics) = "none"
         /\ Component(f, nics) = "EditBondForm" =>
              f.content = "edit" /\ getInterfaceType(nics, f.row) = {"bond"}
         /\ f.content = "addBond" => Component(f, nics) = "AddBondForm"
         /\ Component(f, nics) = "AddBondForm" => f.content = "addBond"
         /\ f.content = "addBridge" => Component(f, nics) = "AddBridgeForm"
<1>1. f.content = "none" => Component(f, nics) = "none"
  BY DEF Component
<1>2. NoForm.content = "none"
  BY DEF NoForm
<1>3. Component(NoForm, nics) = "none"
  BY <1>2 DEF Component
<1>4. Component(f, nics) = "EditBondForm" =>
        f.content = "edit" /\ getInterfaceType(nics, f.row) = {"bond"}
  BY DEF Component
<1>5. f.content = "addBond" => Component(f, nics) = "AddBondForm"
  BY DEF Component
<1>6. Component(f, nics) = "AddBondForm" => f.content = "addBond"
  BY DEF Component
<1>7. f.content = "addBridge" => Component(f, nics) = "AddBridgeForm"
  BY DEF Component
<1> QED BY <1>1, <1>3, <1>4, <1>5, <1>6, <1>7

\* Forms of one content and row are of one component and operation.
LEMMA AlikeForms ==
  ASSUME NEW f, NEW g, NEW nics, f.content = g.content, f.row = g.row
  PROVE  /\ Component(f, nics) = Component(g, nics)
         /\ Op(f, nics) = Op(g, nics)
         /\ Instance(f, nics) = Instance(g, nics)
         /\ ClearsSelection(f, nics) <=> ClearsSelection(g, nics)
<1>1. Component(f, nics) = Component(g, nics)
  BY DEF Component
<1> QED BY <1>1 DEF Op, Instance, ClearsSelection

\* The operations of forms.
LEMMA OpFacts ==
  ASSUME NEW f, f.content \in Contents, NEW nics
  PROVE  /\ Op(f, nics) \in Ops
         /\ Op(f, nics) = "createBond" <=> f.content = "addBond"
         /\ Op(f, nics) = "createBridge" <=> f.content = "addBridge"
<1>1. CASE f.content \in {"addBond", "addBridge", "addPhysical", "addVlan", "addAlias"}
  BY <1>1 DEF Op, Ops
<1>2. CASE f.content = "remove"
  BY <1>2 DEF Op, Ops
<1>3. CASE f.content \in {"none", "edit", "mark"}
  BY <1>3 DEF Op, Ops
<1> QED BY <1>1, <1>2, <1>3 DEF Contents

\* A bond's members can be its members.
LEMMA ParentsAreMembers ==
  ASSUME NEW nics, IsMachine(nics), NEW n \in DOMAIN nics, nics[n].type = "bond",
         NEW p \in nics[n].parents
  PROVE  Member(nics, [nic |-> p, link |-> 0], nics[n].vlan, {n})
<1>1. p \in DOMAIN nics
  BY NicFields, MachineParts
<1>2. /\ nics[p].links = <<>>
      /\ \A m \in DOMAIN nics :
           nics[m].type \in {"bond", "bridge"} /\ p \in nics[m].parents => m = n
      /\ nics[p].type = "physical" /\ nics[p].vlan = nics[n].vlan
  BY MachineParts DEF Joined
<1> QED BY <1>1, <1>2 DEF Member, FirstLink, findBondOrBridgeChild

\* The rows that the form of a bond selects.
ParentRows(f, nics) ==
  {[nic |-> p, link |-> 0] :
     p \in UNION {nics[n].parents : n \in getInterfaceById(nics, f.row)}}

\* A row whose type is that of bonds is of one bond.
LEMMA BondRow ==
  ASSUME NEW nics, IsMachine(nics), NEW row \in Row,
         getInterfaceType(nics, row) = {"bond"}
  PROVE  \E n \in DOMAIN nics :
           getInterfaceById(nics, row) = {n} /\ nics[n].type = "bond"
<1>1. {nics[n].type : n \in getInterfaceById(nics, row)} = {"bond"}
  <2>1. {"alias"} # {"bond"}
    OBVIOUS
  <2> QED BY <2>1 DEF getInterfaceType
<1>2. PICK n \in getInterfaceById(nics, row) : nics[n].type = "bond"
  BY <1>1
<1>3. n \in DOMAIN nics /\ getInterfaceById(nics, row) = {n}
  BY <1>2, ByIdFacts
<1> QED BY <1>2, <1>3

\* They are its members.
LEMMA ParentRowsBonded ==
  ASSUME NEW nics, IsMachine(nics), NEW f \in Form
  PROVE  Bonded(f, ParentRows(f, nics), nics)
<1> SUFFICES ASSUME Component(f, nics) = "EditBondForm"
             PROVE  \E n \in DOMAIN nics :
                      /\ getInterfaceById(nics, f.row) = {n}
                      /\ \A row \in ParentRows(f, nics) : Member(nics, row, nics[n].vlan, {n})
  BY DEF Bonded
<1>1. getInterfaceType(nics, f.row) = {"bond"} /\ f.row \in Row
  BY ComponentFacts DEF Form
<1>2. PICK n \in DOMAIN nics : getInterfaceById(nics, f.row) = {n} /\ nics[n].type = "bond"
  BY <1>1, BondRow
<1>3. \A row \in ParentRows(f, nics) :
        \E p \in nics[n].parents : row = [nic |-> p, link |-> 0]
  BY <1>2 DEF ParentRows
<1> QED BY <1>2, <1>3, ParentsAreMembers

\* A render closes the form or keeps it, as it is but for the flag.
LEMMA RenderFacts ==
  ASSUME NEW f \in Form, NEW rows, NEW sts, NEW errors, Render(f, rows, sts, errors)
  PROVE  /\ shown' = shown /\ statuses' = sts /\ eventErrors' \in {{}, errors}
         /\ \/ /\ expanded' = NoForm
               /\ selected' = {} \/ (selected' = rows /\ ~ClearsSelection(f, shown))
            \/ /\ expanded' \in Form
               /\ expanded'.content = f.content /\ expanded'.row = f.row
               /\ expanded'.vlan = f.vlan
               /\ \/ /\ selected' = ParentRows(f, shown)
                     /\ Component(f, shown) = "EditBondForm"
                  \/ /\ selected' = rows
                     /\ Component(f, shown) = "EditBondForm" =>
                          Instance(f, shown) = Instance(expanded, shown)
<1> DEFINE saved == Saved(f, sts, errors)
           next == IF saved /\ ~f.again THEN NoForm ELSE [f EXCEPT !.again = @ /\ ~saved]
           was == Instance(expanded, shown)
           is == Instance(next, shown)
<1>1. /\ shown' = shown /\ statuses' = sts
      /\ expanded' = next
      /\ eventErrors' = IF is # was /\ Cleans THEN {} ELSE errors
      /\ selected' = IF next = NoForm /\ ClearsSelection(f, shown) THEN {}
                     ELSE IF is # was /\ is[1] = "EditBondForm"
                       THEN ParentRows(f, shown)
                     ELSE rows
  BY DEF Render, ParentRows
<1>2. is[1] = Component(next, shown) /\ is = Instance(next, shown)
  BY DEF Instance
<1>3. \/ next = NoForm
      \/ /\ next # NoForm /\ next \in Form
         /\ next.content = f.content /\ next.row = f.row /\ next.vlan = f.vlan
  <2>1. (f.again /\ ~saved) \in BOOLEAN
    BY DEF Form, Saved, SavedAnyway
  <2> QED BY <2>1 DEF Form
<1> HIDE DEF next, is, saved, was
<1>4. CASE next = NoForm
  <2>1. is[1] # "EditBondForm"
    BY <1>2, <1>4, ComponentFacts
  <2> QED BY <1>1, <1>4, <2>1
<1>5. CASE /\ next # NoForm /\ next \in Form
           /\ next.content = f.content /\ next.row = f.row /\ next.vlan = f.vlan
  <2>1. is[1] = Component(f, shown) /\ is = Instance(f, shown)
    BY <1>2, <1>5, AlikeForms
  <2>2. \/ selected' = ParentRows(f, shown) /\ Component(f, shown) = "EditBondForm"
        \/ /\ selected' = rows
           /\ Component(f, shown) = "EditBondForm" =>
                Instance(f, shown) = Instance(expanded, shown)
    BY <1>1, <1>5, <2>1 DEF was
  <2> QED BY <1>1, <1>5, <2>2
<1> QED BY <1>3, <1>4, <1>5

-----------------------------------------------------------------------------
(* Steps of the tab.                                                         *)

\* Forms of one content, row and VLAN say the same of the selection.
LEMMA AlikeChosen ==
  ASSUME NEW f, NEW g, NEW rows, NEW nics,
         f.content = g.content, f.row = g.row, f.vlan = g.vlan
  PROVE  /\ Bonded(f, rows, nics) <=> Bonded(g, rows, nics)
         /\ Fresh(f, rows, nics) <=> Fresh(g, rows, nics)
<1>1. Component(f, nics) = Component(g, nics)
  BY AlikeForms
<1> QED BY <1>1 DEF Bonded, Fresh

\* A selection that a form leaves when it closes.
LEMMA LeftSelection ==
  ASSUME NEW f, NEW rows, NEW nics
  PROVE  /\ Bonded(NoForm, rows, nics)
         /\ Fresh(NoForm, {}, nics)
         /\ Fresh(f, rows, nics) /\ ~ClearsSelection(f, nics) => Fresh(NoForm, rows, nics)
<1>1. Component(NoForm, nics) = "none" /\ NoForm.content = "none"
  BY ComponentFacts DEF NoForm
<1> QED BY <1>1 DEF Bonded, Fresh, ClearsSelection

\* The form of a bond makes nothing of what was checked before.
LEMMA EditedFresh ==
  ASSUME NEW f, NEW rows, NEW nics, Component(f, nics) = "EditBondForm"
  PROVE  Fresh(f, rows, nics)
<1>1. f.content = "edit"
  BY ComponentFacts
<1> QED BY <1>1 DEF Fresh

\* The selection after a render.
LEMMA ChosenRender ==
  ASSUME NEW f \in Form, NEW rows, NEW sts, NEW errors,
         IsMachine(shown), Render(f, rows, sts, errors),
         Bonded(f, rows, shown) \/ Instance(f, shown) # Instance(expanded, shown),
         Fresh(f, rows, shown)
  PROVE  Chosen'
<1>1. \/ /\ expanded' = NoForm
         /\ selected' = {} \/ (selected' = rows /\ ~ClearsSelection(f, shown))
      \/ /\ expanded'.content = f.content /\ expanded'.row = f.row
         /\ expanded'.vlan = f.vlan
         /\ \/ /\ selected' = ParentRows(f, shown)
               /\ Component(f, shown) = "EditBondForm"
            \/ /\ selected' = rows
               /\ Component(f, shown) = "EditBondForm" =>
                    Instance(f, shown) = Instance(expanded, shown)
  BY RenderFacts
<1>2. shown' = shown
  BY RenderFacts
<1>3. PICK next, left : next = expanded' /\ left = selected'
  OBVIOUS
<1>4. Bonded(next, left, shown)
  <2>1. CASE next = NoForm
    BY <2>1, LeftSelection
  <2>2. CASE left = ParentRows(f, shown) /\ next.content = f.content /\ next.row = f.row
               /\ next.vlan = f.vlan
    BY <2>2, ParentRowsBonded, AlikeChosen
  <2>3. CASE /\ next.content = f.content /\ next.row = f.row /\ next.vlan = f.vlan
             /\ left = rows
             /\ Component(f, shown) = "EditBondForm" =>
                  Instance(f, shown) = Instance(expanded, shown)
    <3>1. Bonded(f, rows, shown)
      BY <2>3 DEF Bonded
    <3> QED BY <2>3, <3>1, AlikeChosen
  <2> QED BY <1>1, <1>3, <2>1, <2>2, <2>3
<1>5. Fresh(next, left, shown)
  <2>1. CASE next = NoForm
    BY <1>1, <1>3, <2>1, LeftSelection, ComponentFacts DEF NoForm, ClearsSelection
  <2>2. CASE next.content = f.content /\ next.row = f.row /\ next.vlan = f.vlan /\ left = rows
    BY <2>2, AlikeChosen
  <2>3. CASE next.content = f.content /\ next.row = f.row /\ next.vlan = f.vlan
               /\ Component(f, shown) = "EditBondForm"
    BY <2>3, EditedFresh, AlikeChosen
  <2> QED BY <1>1, <1>3, <2>1, <2>2, <2>3
<1>6. Chosen' = (Bonded(next, left, shown) /\ Fresh(next, left, shown))
  BY <1>2, <1>3 DEF Chosen
<1> QED BY <1>4, <1>5, <1>6

\* The rows of a bond's members are rows of interfaces.
LEMMA ParentRowsFacts ==
  ASSUME NEW f, NEW nics, IsMachine(nics), NEW row \in ParentRows(f, nics)
  PROVE  row \in Row /\ row.nic \in DOMAIN nics
<1>1. PICK n \in getInterfaceById(nics, f.row) :
        \E p \in nics[n].parents : row = [nic |-> p, link |-> 0]
  BY DEF ParentRows
<1>2. PICK p \in nics[n].parents : row = [nic |-> p, link |-> 0]
  BY <1>1
<1>3. n \in DOMAIN nics /\ IsInterfaces(nics)
  BY MachineParts DEF getInterfaceById
<1>4. p \in DOMAIN nics /\ p \in 1 .. MaxNics
  BY <1>3, NicFields
<1> QED BY <1>2, <1>4, NetworkTabAssumption DEF NetworkTabAssumption, Row

\* The rows that a render leaves selected.
LEMMA RenderRows ==
  ASSUME NEW f \in Form, NEW rows, NEW sts, NEW errors, Render(f, rows, sts, errors)
  PROVE  /\ expanded' \in Form
         /\ selected' \subseteq rows \cup ParentRows(f, shown)
         /\ expanded'.content = "addBond" => f.content = "addBond" /\ selected' \subseteq rows
<1>1. NoForm \in Form /\ NoForm.content = "none"
  BY NetworkTabAssumption DEF NoForm, Form, Contents, Row, VLANs, NetworkTabAssumption
<1>2. Component(f, shown) = "EditBondForm" => f.content = "edit"
  BY ComponentFacts
<1>3. \/ /\ expanded' = NoForm
         /\ selected' = {} \/ selected' = rows
      \/ /\ expanded' \in Form /\ expanded'.content = f.content
         /\ \/ /\ selected' = ParentRows(f, shown)
               /\ Component(f, shown) = "EditBondForm"
            \/ selected' = rows
  BY RenderFacts
<1> QED BY <1>1, <1>2, <1>3

\* What IInv says of the interfaces in the store and in the region.
LEMMA ShownFacts ==
  ASSUME IInv
  PROVE  /\ IsMachine(shown) /\ IsInterfaces(shown)
         /\ IsMachine(region) /\ IsInterfaces(region)
         /\ DOMAIN shown \subseteq 1 .. nicsMade /\ DOMAIN region \subseteq 1 .. nicsMade
         /\ selected \subseteq Row /\ expanded \in Form
         /\ \A n \in DOMAIN shown : shown[n].type = "physical" => IsPhysical(n)
<1>1. \A n \in DOMAIN shown : n \in 1 .. nicsMade
  BY DEF IInv, Numbered
<1>2. \A n \in DOMAIN shown : shown[n].type = "physical" => IsPhysical(n)
  BY <1>1 DEF IInv, Same, IsPhysical
<1> QED BY <1>2 DEF IInv, TypeOK, Numbered, Form, IsMachine

\* What a step that renders, and leaves the region alone, makes of the parts of
\* the invariant that are not about requests.
LEMMA RenderPart ==
  ASSUME IInv, UNCHANGED <<region, nicsMade, linksMade>>,
         NEW f \in Form, NEW rows, NEW sts, NEW errors, Render(f, rows, sts, errors),
         rows \subseteq Row, \A row \in rows : row.nic \in 1 .. nicsMade,
         f.content = "addBond" => \A row \in rows : IsPhysical(row.nic),
         \A r \in requests' : \A p \in r.parents : IsPhysical(p),
         Bonded(f, rows, shown) \/ Instance(f, shown) # Instance(expanded, shown),
         Fresh(f, rows, shown)
  PROVE  /\ selected' \subseteq Row /\ expanded' \in Form
         /\ IsMachine(region)' /\ IsMachine(shown)'
         /\ Numbered' /\ Same' /\ OfPhysical' /\ Chosen'
<1>1. IsMachine(shown) /\ DOMAIN shown \subseteq 1 .. nicsMade /\ shown' = shown
  BY ShownFacts, RenderFacts
<1>2. /\ selected' \subseteq Row /\ expanded' \in Form
      /\ \A row \in selected' : row.nic \in 1 .. nicsMade
      /\ expanded'.content = "addBond" => f.content = "addBond" /\ selected' \subseteq rows
  <2>1. /\ expanded' \in Form
        /\ selected' \subseteq rows \cup ParentRows(f, shown)
        /\ expanded'.content = "addBond" => f.content = "addBond" /\ selected' \subseteq rows
    BY RenderRows
  <2>2. \A row \in ParentRows(f, shown) : row \in Row /\ row.nic \in 1 .. nicsMade
    BY <1>1, ParentRowsFacts
  <2> QED BY <2>1, <2>2
<1>3. IsMachine(region)' /\ IsMachine(shown)'
  BY <1>1 DEF IInv
<1>4. Numbered'
  BY <1>1, <1>2 DEF IInv, Numbered
<1>5. Same'
  BY <1>1 DEF IInv, Same
<1>6. \A n : IsPhysical(n)' <=> IsPhysical(n)
  BY DEF IsPhysical
<1>7. OfPhysical'
  BY <1>2, <1>6 DEF OfPhysical
<1>8. Chosen'
  BY <1>1, ChosenRender
<1> QED BY <1>2, <1>3, <1>4, <1>5, <1>7, <1>8

\* What Remembers makes of the history.
LEMMA RemembersFacts ==
  ASSUME TypeOK, Remembers
  PROVE  /\ mine' \subseteq 1 .. MaxRequests
         /\ crossed' \in BOOLEAN
         /\ expanded' # NoForm => mine' = mine /\ (crossed' <=> crossed)
  BY DEF TypeOK, Remembers

\* The requests of the form that is open, when it stays as it is.
LEMMA OwnKept ==
  ASSUME shown' = shown,
         \/ expanded' = NoForm
         \/ /\ expanded'.content = expanded.content /\ expanded'.row = expanded.row
            /\ mine' = mine /\ (crossed' <=> crossed),
         expanded.content # "none" /\ ~crossed =>
           OwnOf(mine, Op(expanded, shown), statuses', requests')
  PROVE  Own'
<1>1. PICK next : next = expanded'
  OBVIOUS
<1>2. CASE next = NoForm
  BY <1>1, <1>2 DEF Own, NoForm
<1>3. CASE next # NoForm
  <2>1. /\ next.content = expanded.content /\ next.row = expanded.row
        /\ mine' = mine /\ (crossed' <=> crossed)
    BY <1>1, <1>3
  <2>2. Op(next, shown) = Op(expanded, shown)
    BY <2>1, AlikeForms
  <2>3. next.content # "none" /\ ~crossed' =>
          OwnOf(mine', Op(next, shown'), statuses', requests')
    BY <2>1, <2>2
  <2> QED BY <1>1, <2>3 DEF Own
<1> QED BY <1>2, <1>3

\* A render of the form that is open, which may close it.
LEMMA RenderStep ==
  ASSUME IInv, NEW rows, NEW sts, NEW errors, sts \subseteq Ops, errors \subseteq Ops,
         Render(expanded, rows, sts, errors), Remembers,
         UNCHANGED <<region, nicsMade, linksMade, made>>, clicks' \in 0 .. MaxClicks,
         rows \subseteq Row, \A row \in rows : row.nic \in 1 .. nicsMade,
         expanded.content = "addBond" => \A row \in rows : IsPhysical(row.nic),
         Bonded(expanded, rows, shown), Fresh(expanded, rows, shown),
         requests' \subseteq requests,
         expanded.content # "none" /\ ~crossed =>
           OwnOf(mine, Op(expanded, shown), sts, requests')
  PROVE  IInv'
<1>1. TypeOK /\ expanded \in Form
  BY ShownFacts DEF IInv
<1>2. /\ mine' \subseteq 1 .. MaxRequests
      /\ crossed' \in BOOLEAN
      /\ expanded' # NoForm => mine' = mine /\ (crossed' <=> crossed)
  BY <1>1, RemembersFacts
<1>3. /\ shown' = shown /\ statuses' = sts /\ eventErrors' \in {{}, errors}
      /\ \/ expanded' = NoForm
         \/ expanded'.content = expanded.content /\ expanded'.row = expanded.row
  BY <1>1, RenderFacts
<1>4. \A r \in requests' : \A p \in r.parents : IsPhysical(p)
  BY DEF IInv, OfPhysical
<1>5. /\ selected' \subseteq Row /\ expanded' \in Form
      /\ IsMachine(region)' /\ IsMachine(shown)'
      /\ Numbered' /\ Same' /\ OfPhysical' /\ Chosen'
  BY <1>1, <1>2, <1>4, RenderPart
<1>6. TypeOK'
  BY <1>1, <1>2, <1>3, <1>5 DEF TypeOK, Form
<1>7. Ids'
  BY DEF IInv, Ids
<1>8. Own'
  BY <1>2, <1>3, OwnKept
<1> QED BY <1>5, <1>6, <1>7, <1>8 DEF IInv

\* The rows of the table.
LEMMA SelectableFacts ==
  ASSUME IInv, NEW row \in Selectable
  PROVE  /\ row \in SelectableIn(shown) /\ row \in Rows(shown)
         /\ row \in Row /\ row.nic \in DOMAIN shown /\ row.nic \in 1 .. nicsMade
<1>1. row \in Rows(shown) /\ row \in SelectableIn(shown)
  BY DEF Selectable, SelectableIn
<1>2. row \in Row /\ row.nic \in DOMAIN shown
  BY <1>1, ShownFacts, RowFacts
<1> QED BY <1>1, <1>2, ShownFacts

\* While the table is shown no form of a bond or bridge is open.
LEMMA TableFacts ==
  ASSUME TableShown
  PROVE  /\ Component(expanded, shown) # "EditBondForm"
         /\ expanded.content \notin {"addBond", "addBridge"}
  BY ComponentFacts DEF TableShown

\* The user checks rows.
LEMMA CheckStep ==
  ASSUME IInv, Check
  PROVE  IInv'
<1>1. PICK rows \in {handleRowCheckbox(row) : row \in Selectable}
                      \cup {handleGroupCheckbox(Selectable)} :
        Render(expanded, rows, statuses, eventErrors)
  BY DEF Check
<1>2. /\ TableShown /\ Remembers /\ clicks < MaxClicks /\ clicks' = clicks + 1
      /\ UNCHANGED <<server, made>>
  BY DEF Check
<1>3. rows \subseteq selected \cup Selectable
  BY <1>1 DEF handleRowCheckbox, handleGroupCheckbox
<1>4. \A row \in rows : row \in Row /\ row.nic \in 1 .. nicsMade
  <2>1. \A row \in selected : row \in Row /\ row.nic \in 1 .. nicsMade
    BY DEF IInv, TypeOK, Numbered
  <2> QED BY <1>3, <2>1, SelectableFacts
<1>5. /\ Component(expanded, shown) # "EditBondForm"
      /\ expanded.content \notin {"addBond", "addBridge"}
  BY <1>2, TableFacts
<1>6. Bonded(expanded, rows, shown)
  BY <1>5 DEF Bonded
<1>7. Fresh(expanded, rows, shown)
  <2>1. Selectable \subseteq SelectableIn(shown)
    BY SelectableFacts
  <2>2. selected \subseteq SelectableIn(shown)
    BY <1>5 DEF IInv, Chosen, Fresh
  <2> QED BY <1>3, <1>5, <2>1, <2>2 DEF Fresh
<1>8. clicks' \in 0 .. MaxClicks /\ statuses \subseteq Ops /\ eventErrors \subseteq Ops
  BY <1>2, NetworkTabAssumption DEF IInv, TypeOK, NetworkTabAssumption
<1>9. expanded.content # "none" /\ ~crossed =>
        OwnOf(mine, Op(expanded, shown), statuses, requests')
  BY <1>2 DEF IInv, Own, server
<1> QED BY <1>1, <1>2, <1>4, <1>5, <1>6, <1>7, <1>8, <1>9, RenderStep DEF server

\* The interfaces that can be made members in the form of a bond.
LEMMA MembersFacts ==
  ASSUME IInv, InBondForm, NEW n \in Members
  PROVE  LET row == [nic |-> n, link |-> FirstLink(shown, n)] IN
         /\ row \in Row /\ n \in DOMAIN shown /\ shown[n].type = "physical"
         /\ expanded.content = "addBond" => Member(shown, row, expanded.vlan, {})
         /\ Component(expanded, shown) = "EditBondForm" =>
              \A b \in DOMAIN shown : getInterfaceById(shown, expanded.row) = {b} =>
                Member(shown, row, shown[b].vlan, {b})
<1> DEFINE row == [nic |-> n, link |-> FirstLink(shown, n)]
<1>1. IsMachine(shown) /\ IsInterfaces(shown) /\ expanded \in Form
  BY ShownFacts
<1>2. \E vlan, child :
        /\ n \in getValidNics(shown, vlan, child)
        /\ expanded.content = "addBond" => vlan = expanded.vlan /\ child = {}
        /\ expanded.content # "addBond" =>
             \A b \in DOMAIN shown : getInterfaceById(shown, expanded.row) = {b} =>
               vlan = shown[b].vlan /\ child = {b}
  <2>1. CASE expanded.content = "addBond"
    BY <2>1 DEF Members
  <2>2. CASE expanded.content # "addBond"
    <3>1. PICK b \in getInterfaceById(shown, expanded.row) :
            n \in getValidNics(shown, shown[b].vlan, {b})
      BY <2>2 DEF Members
    <3> QED BY <2>2, <3>1
  <2> QED BY <2>1, <2>2
<1>3. PICK vlan, child :
        /\ n \in getValidNics(shown, vlan, child)
        /\ expanded.content = "addBond" => vlan = expanded.vlan /\ child = {}
        /\ expanded.content # "addBond" =>
             \A b \in DOMAIN shown : getInterfaceById(shown, expanded.row) = {b} =>
               vlan = shown[b].vlan /\ child = {b}
  BY <1>2
<1>4. /\ n \in DOMAIN shown /\ shown[n].vlan = vlan /\ shown[n].type = "physical"
      /\ findBondOrBridgeChild(shown, n) = {} \/ child \cap findBondOrBridgeChild(shown, n) # {}
  BY <1>3 DEF getValidNics
<1>5. row \in Row /\ row.nic = n /\ row.link = FirstLink(shown, n)
  <2>1. n \in 1 .. MaxNics
    BY <1>1, <1>4, NicFields
  <2>2. shown[n].links # <<>> => shown[n].links[1] \in 1 .. MaxLinks
    <3>1. shown[n].links # <<>> => 1 \in 1 .. Len(shown[n].links)
      BY <1>1, <1>4, LinkFacts
    <3> QED BY <1>1, <1>4, <3>1, NicFields, ElementOfSeq
  <2> QED BY <2>1, <2>2, NetworkTabAssumption DEF Row, FirstLink, NetworkTabAssumption
<1>6. expanded.content = "addBond" => Member(shown, row, expanded.vlan, {})
  BY <1>3, <1>4, <1>5 DEF Member
<1>7. ASSUME Component(expanded, shown) = "EditBondForm", NEW b \in DOMAIN shown,
             getInterfaceById(shown, expanded.row) = {b}
      PROVE  Member(shown, row, shown[b].vlan, {b})
  <2>1. vlan = shown[b].vlan /\ child = {b}
    BY <1>3, <1>7, ComponentFacts
  <2>2. findBondOrBridgeChild(shown, n) \subseteq {b}
    <3> SUFFICES ASSUME NEW m \in findBondOrBridgeChild(shown, n) PROVE m = b
      OBVIOUS
    <3>1. b \in findBondOrBridgeChild(shown, n)
      BY <1>4, <2>1
    <3>2. /\ m \in DOMAIN shown /\ shown[m].type \in {"bond", "bridge"} /\ n \in shown[m].parents
          /\ shown[b].type \in {"bond", "bridge"} /\ n \in shown[b].parents
      BY <3>1 DEF findBondOrBridgeChild
    <3> QED BY <1>1, <3>2, MachineParts DEF Joined
  <2> QED BY <1>4, <1>5, <2>1, <2>2 DEF Member
<1> QED BY <1>4, <1>5, <1>6, <1>7

\* The user checks or unchecks a member of a bond.
LEMMA CheckMemberStep ==
  ASSUME IInv, CheckMember
  PROVE  IInv'
<1>1. PICK n \in Members :
        Render(expanded, handleRowCheckbox([nic |-> n, link |-> FirstLink(shown, n)]),
               statuses, eventErrors)
  BY DEF CheckMember, FirstLink
<1>2. PICK row, rows : /\ row = [nic |-> n, link |-> FirstLink(shown, n)]
                       /\ rows = handleRowCheckbox(row)
  OBVIOUS
<1>3. /\ InBondForm /\ Remembers /\ clicks < MaxClicks /\ clicks' = clicks + 1
      /\ UNCHANGED <<server, made>>
  BY DEF CheckMember
<1>4. rows \subseteq selected \cup {row}
  BY <1>2 DEF handleRowCheckbox
<1>5. /\ row \in Row /\ row.nic = n /\ n \in DOMAIN shown /\ shown[n].type = "physical"
      /\ expanded.content = "addBond" => Member(shown, row, expanded.vlan, {})
      /\ Component(expanded, shown) = "EditBondForm" =>
           \A b \in DOMAIN shown : getInterfaceById(shown, expanded.row) = {b} =>
             Member(shown, row, shown[b].vlan, {b})
  BY <1>2, <1>3, MembersFacts
<1>6. \A q \in rows : q \in Row /\ q.nic \in 1 .. nicsMade
  <2>1. \A q \in selected : q \in Row /\ q.nic \in 1 .. nicsMade
    BY DEF IInv, TypeOK, Numbered
  <2> QED BY <1>4, <1>5, <2>1, ShownFacts
<1>7. expanded.content = "addBond" => \A q \in rows : IsPhysical(q.nic)
  BY <1>4, <1>5, ShownFacts DEF IInv, OfPhysical
<1>8. Bonded(expanded, rows, shown)
  <2>1. Bonded(expanded, selected, shown)
    BY DEF IInv, Chosen
  <2> QED BY <1>4, <1>5, <2>1 DEF Bonded
<1>9. Fresh(expanded, rows, shown)
  <2>1. CASE Component(expanded, shown) = "EditBondForm"
    BY <2>1, EditedFresh
  <2>2. CASE Component(expanded, shown) = "AddBondForm"
    <3>1. expanded.content = "addBond"
      BY <2>2, ComponentFacts
    <3>2. selected \subseteq SelectableIn(shown) /\ \A q \in selected : Member(shown, q, expanded.vlan, {})
      BY <2>2, <3>1 DEF IInv, Chosen, Fresh
    <3>3. row \in SelectableIn(shown)
      BY <1>5, <3>1, ShownFacts, MemberSelectable
    <3> QED BY <1>4, <1>5, <3>1, <3>2, <3>3 DEF Fresh
  <2> QED BY <1>3, <2>1, <2>2 DEF InBondForm
<1>10. clicks' \in 0 .. MaxClicks /\ statuses \subseteq Ops /\ eventErrors \subseteq Ops
  BY <1>3, NetworkTabAssumption DEF IInv, TypeOK, NetworkTabAssumption
<1>11. expanded.content # "none" /\ ~crossed =>
         OwnOf(mine, Op(expanded, shown), statuses, requests')
  BY <1>3 DEF IInv, Own, server
<1>12. Render(expanded, rows, statuses, eventErrors)
  BY <1>1, <1>2
<1> QED BY <1>3, <1>6, <1>7, <1>8, <1>9, <1>10, <1>11, <1>12, RenderStep DEF server

\* The user shows, or hides, the members that can be checked.
LEMMA ToggleMembersStep ==
  ASSUME IInv, ToggleMembers
  PROVE  IInv'
<1>1. /\ expanded' = [expanded EXCEPT !.editing = ~@]
      /\ UNCHANGED <<store, selected, server, history, bounds>>
  BY DEF ToggleMembers
<1>2. expanded \in Form
  BY ShownFacts
<1>3. PICK next : next = [expanded EXCEPT !.editing = ~@]
  OBVIOUS
<1>4. /\ next \in Form /\ expanded' = next
      /\ next.content = expanded.content /\ next.row = expanded.row /\ next.vlan = expanded.vlan
  BY <1>1, <1>2, <1>3 DEF Form
<1>5. TypeOK'
  BY <1>1, <1>4 DEF IInv, TypeOK, Form, store, server, history, bounds
<1>6. IsMachine(region)' /\ IsMachine(shown)' /\ Numbered' /\ Same' /\ Ids'
  BY <1>1 DEF IInv, Numbered, Same, Ids, store, server, bounds
<1>7. OfPhysical'
  BY <1>1, <1>4 DEF IInv, OfPhysical, IsPhysical, server
<1>8. Chosen'
  <2>1. Chosen' = (/\ Bonded(next, selected, shown)
                   /\ Fresh(next, selected, shown))
    BY <1>1, <1>4 DEF Chosen, store, history
  <2> QED BY <1>4, <2>1, AlikeChosen DEF IInv, Chosen
<1>9. Own'
  <2>1. expanded.content # "none" /\ ~crossed =>
          OwnOf(mine, Op(expanded, shown), statuses', requests')
    BY <1>1 DEF IInv, Own, store, server
  <2> QED BY <1>1, <1>4, <2>1, OwnKept DEF store, history
<1> QED BY <1>5, <1>6, <1>7, <1>8, <1>9 DEF IInv

\* A form that is closed by the user.
LEMMA CloseStep ==
  ASSUME IInv, expanded' = NoForm, eventErrors' \in {{}, eventErrors}, Remembers,
         UNCHANGED <<shown, statuses, server, bounds>>,
         \/ selected' = {}
         \/ selected' = selected /\ ~ClearsSelection(expanded, shown)
  PROVE  IInv'
<1>1. /\ mine' \subseteq 1 .. MaxRequests
      /\ crossed' \in BOOLEAN
  BY RemembersFacts DEF IInv
<1>2. NoForm \in Form /\ NoForm.content = "none"
  BY NetworkTabAssumption DEF NoForm, Form, Contents, Row, VLANs, NetworkTabAssumption
<1>3. TypeOK'
  BY <1>1, <1>2 DEF IInv, TypeOK, Form, server, bounds
<1>4. IsMachine(region)' /\ IsMachine(shown)' /\ Numbered' /\ Same' /\ Ids'
  BY DEF IInv, Numbered, Same, Ids, server, bounds
<1>5. OfPhysical'
  BY <1>2 DEF IInv, OfPhysical, IsPhysical, server
<1>6. Chosen'
  <2>1. PICK left : left = selected'
    OBVIOUS
  <2>2. Bonded(NoForm, left, shown)
    BY LeftSelection
  <2>3. Fresh(NoForm, left, shown)
    <3>1. Fresh(NoForm, {}, shown)
      BY LeftSelection
    <3>2. Fresh(expanded, selected, shown) /\ ~ClearsSelection(expanded, shown)
            => Fresh(NoForm, selected, shown)
      BY LeftSelection
    <3> QED BY <1>1, <2>1, <3>1, <3>2 DEF IInv, Chosen
  <2> QED BY <2>1, <2>2, <2>3 DEF Chosen
<1>7. Own'
  BY <1>2 DEF Own
<1> QED BY <1>3, <1>4, <1>5, <1>6, <1>7 DEF IInv

\* The user cancels.
LEMMA CancelStep ==
  ASSUME IInv, Cancel
  PROVE  IInv'
BY CloseStep DEF Cancel

\* The tab is mounted anew, with the interfaces that are shown or those of the
\* region.
LEMMA MountStep ==
  ASSUME IInv, Mount, shown' \in {shown, region}
  PROVE  IInv'
<1>1. /\ expanded' = NoForm /\ selected' = {} /\ eventErrors' \in {{}, eventErrors}
      /\ mine' = {} /\ crossed' = FALSE
      /\ UNCHANGED <<statuses, server, bounds>>
  BY DEF Mount
<1>2. NoForm \in Form /\ NoForm.content = "none"
  BY NetworkTabAssumption DEF NoForm, Form, Contents, Row, VLANs, NetworkTabAssumption
<1>3. IsMachine(region)' /\ IsMachine(shown)' /\ IsInterfaces(region)' /\ IsInterfaces(shown)'
  BY <1>1, ShownFacts DEF IInv, server
<1>4. TypeOK'
  BY <1>1, <1>2, <1>3 DEF IInv, TypeOK, Form, server, bounds
<1>5. Numbered' /\ Same' /\ Ids'
  BY <1>1 DEF IInv, Numbered, Same, Ids, server, bounds
<1>6. OfPhysical'
  BY <1>1, <1>2 DEF IInv, OfPhysical, IsPhysical, server
<1>7. Chosen'
  <2>1. PICK nics : nics = shown'
    OBVIOUS
  <2>2. Bonded(NoForm, {}, nics) /\ Fresh(NoForm, {}, nics)
    BY LeftSelection
  <2> QED BY <1>1, <2>1, <2>2 DEF Chosen
<1>8. Own'
  BY <1>1, <1>2 DEF Own
<1> QED BY <1>3, <1>4, <1>5, <1>6, <1>7, <1>8 DEF IInv

\* The user opens a form.
LEMMA OpensStep ==
  ASSUME IInv, TableShown, NEW f \in Form, Opens(f),
         Fresh(f, selected, shown),
         f.content = "addBond" => \A row \in selected : IsPhysical(row.nic)
  PROVE  IInv'
<1> DEFINE stays == Instance(f, shown) = Instance(expanded, shown)
<1>1. PICK g : g = [f EXCEPT !.again = stays /\ expanded.again]
  OBVIOUS
<1>2. /\ TypeOK /\ selected \subseteq Row /\ IsMachine(shown)
      /\ \A row \in selected : row.nic \in 1 .. nicsMade
  BY ShownFacts DEF IInv, Numbered
<1>3. /\ g \in Form /\ g.content = f.content /\ g.row = f.row /\ g.vlan = f.vlan
  <2>1. (stays /\ expanded.again) \in BOOLEAN
    OBVIOUS
  <2> QED BY <1>1, <2>1 DEF Form
<1>4. /\ clicks < MaxClicks /\ clicks' = clicks + 1
      /\ Render(g, selected, statuses, eventErrors)
      /\ mine' = {}
      /\ crossed' = (expanded' # NoForm
                       /\ ((\E r \in requests : r.op = Op(f, shown)) \/ (stays /\ Saving)))
      /\ UNCHANGED <<server, made>>
  BY <1>1 DEF Opens
<1> HIDE DEF stays
<1>5. /\ Component(g, shown) = Component(f, shown)
      /\ Instance(g, shown) = Instance(f, shown) /\ Op(g, shown) = Op(f, shown)
  BY <1>3, AlikeForms
<1>6. /\ shown' = shown /\ statuses' = statuses /\ eventErrors' \in {{}, eventErrors}
      /\ \/ expanded' = NoForm
         \/ /\ expanded'.content = g.content /\ expanded'.row = g.row
            /\ selected' = selected \/ Component(g, shown) = "EditBondForm"
  BY <1>3, <1>4, RenderFacts
<1>7. \A r \in requests' : \A p \in r.parents : IsPhysical(p)
  BY <1>4 DEF IInv, OfPhysical, server
<1>8. Bonded(g, selected, shown) \/ Instance(g, shown) # Instance(expanded, shown)
  <2>1. Component(expanded, shown) # "EditBondForm"
    BY TableFacts
  <2> QED BY <2>1 DEF Bonded, Instance
<1>9. Fresh(g, selected, shown)
  BY <1>3, AlikeChosen
<1>10. /\ selected' \subseteq Row /\ expanded' \in Form
       /\ IsMachine(region)' /\ IsMachine(shown)'
       /\ Numbered' /\ Same' /\ OfPhysical' /\ Chosen'
  BY <1>2, <1>3, <1>4, <1>7, <1>8, <1>9, RenderPart DEF server
<1>11. TypeOK'
  <2>1. clicks' \in 0 .. MaxClicks
    BY <1>2, <1>4, NetworkTabAssumption DEF TypeOK, NetworkTabAssumption
  <2>2. crossed' \in BOOLEAN
    BY <1>4
  <2> QED BY <1>2, <1>4, <1>6, <1>10, <2>1, <2>2 DEF TypeOK, Form, server
<1>12. Ids'
  BY <1>4 DEF IInv, Ids, server
<1>13. Own'
  <2>1. PICK next : next = expanded'
    OBVIOUS
  <2>2. CASE next = NoForm
    BY <2>1, <2>2 DEF Own, NoForm
  <2>3. CASE next # NoForm
    <3>1. Op(next, shown) = Op(f, shown)
      BY <1>5, <1>6, <2>1, <2>3, AlikeForms
    <3>2. ~crossed' => \A r \in requests : r.op # Op(f, shown)
      BY <1>4, <2>1, <2>3
    <3>3. ~crossed' => OwnOf({}, Op(next, shown), statuses, requests)
      BY <3>1, <3>2 DEF OwnOf
    <3> QED BY <1>4, <1>6, <2>1, <3>3 DEF Own, server
  <2> QED BY <2>2, <2>3
<1> QED BY <1>10, <1>11, <1>12, <1>13 DEF IInv

\* A form of an action, of the selection.
LEMMA OpenActionStep ==
  ASSUME IInv, OpenAction
  PROVE  IInv'
<1>1. TableShown
  BY DEF OpenAction
<1>2. NoForm \in Form
  BY NetworkTabAssumption DEF NoForm, Form, Contents, Row, VLANs, NetworkTabAssumption
<1>3. {"addBond", "addBridge", "addPhysical"} \subseteq Contents
  BY DEF Contents
<1>4. /\ IsMachine(shown) /\ IsInterfaces(shown) /\ selected \subseteq Row
      /\ selected \subseteq SelectableIn(shown)
  BY <1>1, ShownFacts, TableFacts DEF IInv, Chosen, Fresh
<1>5. ASSUME CanBond, NEW v \in {shown[row.nic].vlan : row \in selected},
             Opens([NoForm EXCEPT !.content = "addBond", !.vlan = v])
      PROVE  IInv'
  <2>1. PICK f : f = [NoForm EXCEPT !.content = "addBond", !.vlan = v]
    OBVIOUS
  <2>2. \A row \in selected : /\ row.nic # 0 /\ row \in Row
                              /\ getInterfaceType(shown, row) = {"physical"}
                              /\ shown[row.nic].vlan = v
    BY <1>4, <1>5 DEF CanBond, IInv, Numbered
  <2>3. \A row \in selected : row.nic \in DOMAIN shown /\ shown[row.nic].type = "physical"
    BY <2>2, PhysicalRow
  <2>4. v \in VLANs
    BY <1>4, <1>5, <2>3, NicFields
  <2>5. f \in Form /\ f.content = "addBond" /\ f.vlan = v
    BY <1>2, <1>3, <2>1, <2>4 DEF Form
  <2>6. \A row \in selected : IsPhysical(row.nic)
    BY <2>3, ShownFacts
  <2>7. Fresh(f, selected, shown)
    BY <1>4, <2>2, <2>5, SelectedMember DEF Fresh
  <2> QED BY <1>1, <1>5, <2>1, <2>5, <2>6, <2>7, OpensStep
<1>6. ASSUME CanBridge, Opens([NoForm EXCEPT !.content = "addBridge"])
      PROVE  IInv'
  <2>1. PICK f : f = [NoForm EXCEPT !.content = "addBridge"]
    OBVIOUS
  <2>2. f \in Form /\ f.content = "addBridge"
    BY <1>2, <1>3, <2>1 DEF Form
  <2>3. Fresh(f, selected, shown)
    BY <1>4, <1>6, <2>2 DEF Fresh, CanBridge
  <2> QED BY <1>1, <1>6, <2>1, <2>2, <2>3, OpensStep
<1>7. ASSUME Opens([NoForm EXCEPT !.content = "addPhysical"])
      PROVE  IInv'
  <2>1. PICK f : f = [NoForm EXCEPT !.content = "addPhysical"]
    OBVIOUS
  <2>2. f \in Form /\ f.content = "addPhysical"
    BY <1>2, <1>3, <2>1 DEF Form
  <2>3. Fresh(f, selected, shown)
    BY <1>4, <2>2 DEF Fresh
  <2> QED BY <1>1, <1>7, <2>1, <2>2, <2>3, OpensStep
<1> QED BY Zenon, <1>5, <1>6, <1>7 DEF OpenAction

\* A form of a row.
LEMMA OpenRowStep ==
  ASSUME IInv, OpenRow
  PROVE  IInv'
<1>1. PICK row \in Selectable : \E content \in Offers(row) :
        Opens([NoForm EXCEPT !.content = content,
                 !.row = IF row.link = 0 THEN row ELSE [row EXCEPT !.nic = 0]])
  BY DEF OpenRow
<1>2. PICK content \in Offers(row) :
        Opens([NoForm EXCEPT !.content = content,
                 !.row = IF row.link = 0 THEN row ELSE [row EXCEPT !.nic = 0]])
  BY <1>1
<1>3. PICK f : f = [NoForm EXCEPT !.content = content,
                      !.row = IF row.link = 0 THEN row ELSE [row EXCEPT !.nic = 0]]
  OBVIOUS
<1>4. content \in {"edit", "remove", "mark", "addAlias", "addVlan"}
  BY DEF Offers
<1>5. row \in Row /\ [row EXCEPT !.nic = 0] \in Row
  BY SelectableFacts, NetworkTabAssumption DEF Row, NetworkTabAssumption
<1>6. f \in Form /\ f.content = content
  <2>1. PICK r : r = IF row.link = 0 THEN row ELSE [row EXCEPT !.nic = 0]
    OBVIOUS
  <2>2. r \in Row /\ content \in Contents
    BY <1>4, <1>5, <2>1 DEF Contents
  <2>3. f = [NoForm EXCEPT !.content = content, !.row = r]
    BY <1>3, <2>1
  <2>4. f = [content |-> content, row |-> r, vlan |-> 1, editing |-> FALSE, again |-> FALSE]
    BY <2>3 DEF NoForm
  <2> QED BY <2>2, <2>4 DEF Form, VLANs
<1>7. TableShown /\ selected \subseteq SelectableIn(shown)
  BY TableFacts DEF OpenRow, IInv, Chosen, Fresh
<1>8. Fresh(f, selected, shown)
  BY <1>4, <1>6, <1>7 DEF Fresh
<1> QED BY <1>2, <1>3, <1>4, <1>6, <1>7, <1>8, OpensStep

\* What a form sends.
Sent(again) ==
  LET rows == IF expanded.content = "addBridge" THEN selected ELSE {expanded.row}
      nics == UNION {getInterfaceById(shown, row) : row \in rows}
  IN [id |-> made + 1, op |-> Op(expanded, shown), done |-> FALSE,
      nic |-> CHOOSE n \in 0 .. MaxNics : IF nics = {} THEN n = 0 ELSE n \in nics,
      link |-> expanded.row.link,
      parents |-> IF InBondForm THEN getParentIds(selected) ELSE {}]

\* It is a request, that names an interface of the form.
LEMMA SentFacts ==
  ASSUME IInv, NEW again, Submit(again)
  PROVE  /\ Sent(again) \in Request /\ requests' = requests \cup {Sent(again)}
         /\ Sent(again).id = made + 1 /\ Sent(again).op = Op(expanded, shown)
         /\ Sent(again).parents = IF InBondForm THEN getParentIds(selected) ELSE {}
         /\ LET rows == IF expanded.content = "addBridge" THEN selected ELSE {expanded.row}
                nics == UNION {getInterfaceById(shown, row) : row \in rows}
            IN nics # {} => Sent(again).nic \in nics
<1> DEFINE rows == IF expanded.content = "addBridge" THEN selected ELSE {expanded.row}
           nics == UNION {getInterfaceById(shown, row) : row \in rows}
           nic == CHOOSE n \in 0 .. MaxNics : IF nics = {} THEN n = 0 ELSE n \in nics
<1>1. /\ expanded \in Form /\ selected \subseteq Row /\ IsInterfaces(shown)
      /\ made \in 0 .. MaxRequests /\ made < MaxRequests
      /\ MaxNics \in Nat /\ MaxRequests \in Nat
  BY ShownFacts, NetworkTabAssumption DEF Submit, IInv, TypeOK, NetworkTabAssumption
<1>2. nics \subseteq 1 .. MaxNics
  BY <1>1 DEF getInterfaceById, IsInterfaces
<1> HIDE DEF nics
<1>3. \E n \in 0 .. MaxNics : IF nics = {} THEN n = 0 ELSE n \in nics
  BY <1>1, <1>2
<1>4. nic \in 0 .. MaxNics /\ (IF nics = {} THEN nic = 0 ELSE nic \in nics)
  BY <1>3
<1> HIDE DEF nic
<1>5. Sent(again) = [id |-> made + 1, op |-> Op(expanded, shown), done |-> FALSE,
                     nic |-> nic, link |-> expanded.row.link,
                     parents |-> IF InBondForm THEN getParentIds(selected) ELSE {}]
  BY DEF Sent, nic, nics
<1>6. requests' = requests \cup {Sent(again)}
  BY DEF Submit, Sent
<1>7. expanded.row.link \in 0 .. MaxLinks /\ Op(expanded, shown) \in Ops
  BY <1>1, OpFacts DEF Form, Row
<1>8. getParentIds(selected) \subseteq 1 .. MaxNics
  BY NetworkTabAssumption
     DEF getParentIds, IInv, TypeOK, Numbered, NetworkTabAssumption
<1>9. Sent(again) \in Request
  BY <1>1, <1>4, <1>5, <1>7, <1>8 DEF Request
<1> QED BY <1>4, <1>5, <1>6, <1>9 DEF nics

\* The interfaces that the form of a bond names are physical.
LEMMA BondFormFacts ==
  ASSUME IInv, InBondForm
  PROVE  /\ \A p \in getParentIds(selected) : IsPhysical(p)
         /\ \/ Component(expanded, shown) = "AddBondForm" /\ expanded.content = "addBond"
            \/ Component(expanded, shown) = "EditBondForm" /\ expanded.content = "edit"
<1>1. CASE Component(expanded, shown) = "AddBondForm"
  <2>1. expanded.content = "addBond"
    BY <1>1, ComponentFacts
  <2>2. \A row \in selected : IsPhysical(row.nic)
    BY <2>1 DEF IInv, OfPhysical
  <2> QED BY <1>1, <2>1, <2>2 DEF getParentIds
<1>2. CASE Component(expanded, shown) = "EditBondForm"
  <2>1. expanded.content = "edit"
    BY <1>2, ComponentFacts
  <2>2. PICK n \in DOMAIN shown : \A row \in selected : Member(shown, row, shown[n].vlan, {n})
    BY <1>2 DEF IInv, Chosen, Bonded
  <2>3. \A row \in selected : IsPhysical(row.nic)
    BY <2>2, ShownFacts DEF Member
  <2> QED BY <1>2, <2>1, <2>3 DEF getParentIds
<1> QED BY <1>1, <1>2 DEF InBondForm

\* The user submits the form.
LEMMA SubmitStep ==
  ASSUME IInv, NEW again \in BOOLEAN, Submit(again)
  PROVE  IInv'
<1>1. PICK f, r, op : /\ f = [expanded EXCEPT !.again = @ \/ again]
                      /\ r = Sent(again) /\ op = Op(expanded, shown)
  OBVIOUS
<1>2. PICK errors : /\ errors \in {{}, eventErrors}
                    /\ Render(f, selected, statuses \cup {op}, errors)
  BY <1>1 DEF Submit
<1>3. /\ made < MaxRequests /\ made' = made + 1 /\ Open /\ ~Saving
      /\ mine' = mine \cup {made + 1}
      /\ UNCHANGED <<region, nicsMade, linksMade, crossed, clicks>>
  BY DEF Submit
<1>4. /\ r \in Request /\ requests' = requests \cup {r}
      /\ r.id = made + 1 /\ r.op = op
      /\ r.parents = IF InBondForm THEN getParentIds(selected) ELSE {}
  BY <1>1, SentFacts
<1>5. /\ TypeOK /\ expanded \in Form /\ selected \subseteq Row
      /\ \A row \in selected : row.nic \in 1 .. nicsMade
  BY ShownFacts DEF IInv, Numbered
<1>6. f \in Form /\ f.content = expanded.content /\ f.row = expanded.row /\ f.vlan = expanded.vlan
  BY <1>1, <1>5 DEF Form
<1>7. /\ shown' = shown /\ statuses' = statuses \cup {op} /\ eventErrors' \in {{}, errors}
      /\ \/ expanded' = NoForm
         \/ expanded'.content = expanded.content /\ expanded'.row = expanded.row
  BY <1>2, <1>6, RenderFacts
<1>8. \A q \in requests' : \A p \in q.parents : IsPhysical(p)
  BY <1>4, BondFormFacts DEF IInv, OfPhysical
<1>9. /\ Bonded(f, selected, shown)
      /\ Fresh(f, selected, shown)
      /\ f.content = "addBond" => \A row \in selected : IsPhysical(row.nic)
  BY <1>3, <1>6, AlikeChosen DEF IInv, Chosen, OfPhysical
<1>10. /\ selected' \subseteq Row /\ expanded' \in Form
       /\ IsMachine(region)' /\ IsMachine(shown)'
       /\ Numbered' /\ Same' /\ OfPhysical' /\ Chosen'
  BY <1>2, <1>3, <1>5, <1>6, <1>8, <1>9, RenderPart
<1>11. made + 1 \in 1 .. MaxRequests /\ made \in Nat
  BY <1>3, <1>5, NetworkTabAssumption DEF TypeOK, NetworkTabAssumption
<1>12. op \in Ops
  BY <1>1, <1>5, OpFacts DEF Form
<1>13. TypeOK'
  BY <1>2, <1>3, <1>4, <1>5, <1>7, <1>10, <1>11, <1>12 DEF TypeOK, Form
<1>14. \A q \in requests : q.id <= made /\ q.id \in Nat /\ q.id # made + 1
  BY <1>5, <1>11 DEF IInv, Ids, TypeOK, Request
<1>15. Ids'
  BY <1>3, <1>4, <1>11, <1>14 DEF IInv, Ids
<1>16. Own'
  <2>1. expanded.content # "none"
    BY <1>3, ComponentFacts DEF Open
  <2>2. ASSUME expanded'.content # "none", ~crossed'
        PROVE  OwnOf(mine', op, statuses', requests')
    <3>1. OwnOf(mine, op, statuses, requests)
      BY <1>1, <1>3, <2>1, <2>2 DEF IInv, Own
    <3>2. \A q \in requests : q.op # op /\ q.id \notin mine
      BY <1>1, <1>3, <3>1 DEF OwnOf, Saving
    <3>3. \A q \in requests : q.id \notin mine'
      BY <1>3, <1>14, <3>2
    <3>4. r.id \in mine' /\ r.op = op /\ op \in statuses'
      BY <1>3, <1>4, <1>7
    <3> QED BY <1>4, <3>2, <3>3, <3>4 DEF OwnOf
  <2>3. PICK next : next = expanded'
    OBVIOUS
  <2>4. CASE next = NoForm
    BY <2>3, <2>4 DEF Own, NoForm
  <2>5. CASE next # NoForm
    <3>1. Op(next, shown) = op
      BY <1>1, <1>7, <2>3, <2>5, AlikeForms
    <3> QED BY <1>7, <2>2, <2>3, <3>1 DEF Own
  <2> QED BY <2>4, <2>5
<1> QED BY <1>10, <1>13, <1>15, <1>16 DEF IInv

\* The region does what a request asks for.
LEMMA RequestStep ==
  ASSUME IInv, NEW r \in requests, RegionDoes(r)
  PROVE  IInv'
<1>1. PICK d : d = [r EXCEPT !.done = TRUE]
  OBVIOUS
<1>2. /\ requests' = (requests \ {r}) \cup {d}
      /\ UNCHANGED <<store, tab, history, bounds>>
  BY <1>1 DEF RegionDoes
<1>3. TypeOK /\ r \in Request /\ requests \subseteq Request
  BY DEF IInv, TypeOK
<1>4. d \in Request /\ d.id = r.id /\ d.op = r.op /\ d.parents = r.parents
  BY <1>1, <1>3 DEF Request
<1>5. RegionOK' /\ Kept
  BY RegionOf, RegionDoesStep
<1>6. IsMachine(region)' /\ Numbered' /\ Same' /\ OfPhysical'
  BY <1>2, <1>4, <1>5, RegionPart DEF store, tab
<1>7. IsMachine(shown)' /\ Chosen'
  BY <1>2 DEF IInv, Chosen, store, tab, history
<1>8. TypeOK'
  <2>1. IsInterfaces(region') /\ nicsMade' \in 0 .. MaxNics /\ linksMade' \in 0 .. MaxLinks
    BY <1>5 DEF RegionOK, IsMachine
  <2> QED BY <1>2, <1>3, <1>4, <2>1 DEF TypeOK, store, tab, history, bounds
<1>9. Ids'
  <2>1. /\ \A q \in requests : q.id <= made
        /\ \A q, s \in requests : q.id = s.id => q = s
    BY DEF IInv, Ids
  <2>2. \A q \in requests' : q = d \/ (q \in requests /\ q # r /\ q.id # d.id)
    BY <1>2, <1>4, <2>1
  <2>3. \A q \in requests' : q.id <= made
    BY <1>4, <2>1, <2>2
  <2>4. \A q, s \in requests' : q.id = s.id => q = s
    BY <2>1, <2>2
  <2> QED BY <1>2, <2>3, <2>4 DEF Ids, bounds
<1>10. Own'
  <2>1. ASSUME OwnOf(mine, Op(expanded, shown), statuses, requests)
        PROVE  OwnOf(mine, Op(expanded, shown), statuses, requests')
    <3>1. \A q \in requests' : q = d \/ (q \in requests /\ q # r)
      BY <1>2
    <3>2. PICK op : op = Op(expanded, shown)
      OBVIOUS
    <3>3. \A q \in requests' : q.id \in mine <=> q.op = op
      BY <1>4, <2>1, <3>1, <3>2 DEF OwnOf
    <3>4. \A q, s \in requests' : q.id \in mine /\ s.id \in mine => q = s
      BY <1>4, <2>1, <3>1 DEF OwnOf
    <3>5. \A q \in requests' : q.id \in mine => q.op \in statuses
      BY <1>4, <2>1, <3>1 DEF OwnOf
    <3> QED BY <3>2, <3>3, <3>4, <3>5 DEF OwnOf
  <2> QED BY <1>2, <2>1 DEF IInv, Own, store, tab, history
<1> QED BY <1>6, <1>7, <1>8, <1>9, <1>10 DEF IInv

\* The region does what other users ask for.
LEMMA OthersStep ==
  ASSUME IInv, OthersChange
  PROVE  IInv'
<1>1. /\ made < MaxRequests /\ made' = made + 1
      /\ UNCHANGED <<store, tab, requests, history, clicks>>
  BY DEF OthersChange
<1>2. RegionOK' /\ Kept
  BY RegionOf, OthersChangeStep
<1>3. IsMachine(region)' /\ Numbered' /\ Same' /\ OfPhysical'
  BY <1>1, <1>2, RegionPart DEF store, tab
<1>4. IsMachine(shown)' /\ Chosen' /\ Own'
  BY <1>1 DEF IInv, Chosen, Own, store, tab, history
<1>5. made' \in 0 .. MaxRequests /\ made \in Nat
  BY <1>1, NetworkTabAssumption DEF IInv, TypeOK, NetworkTabAssumption
<1>6. TypeOK'
  <2>1. IsInterfaces(region') /\ nicsMade' \in 0 .. MaxNics /\ linksMade' \in 0 .. MaxLinks
    BY <1>2 DEF RegionOK, IsMachine
  <2> QED BY <1>1, <1>5, <2>1 DEF IInv, TypeOK, store, tab, history
<1>7. Ids'
  <2>1. \A q \in requests : q.id \in Nat
    BY DEF IInv, TypeOK, Request
  <2> QED BY <1>1, <1>5, <2>1 DEF IInv, Ids
<1> QED BY <1>3, <1>4, <1>6, <1>7 DEF IInv

\* An answer comes.
LEMMA ReplyStep ==
  ASSUME IInv, NEW r \in requests, ReplySuccess(r) \/ ReplyError(r)
  PROVE  IInv'
<1>1. PICK errors : /\ errors \in {eventErrors, eventErrors \cup {r.op}}
                    /\ Render(expanded, selected, statuses \ {r.op}, errors)
  BY DEF ReplySuccess, ReplyError
<1>2. /\ requests' = requests \ {r} /\ Remembers
      /\ UNCHANGED <<region, nicsMade, linksMade, bounds>>
  BY DEF ReplySuccess, ReplyError
<1>3. /\ TypeOK /\ selected \subseteq Row /\ r.op \in Ops
      /\ \A row \in selected : row.nic \in 1 .. nicsMade
  BY ShownFacts DEF IInv, TypeOK, Numbered, Request
<1>4. statuses \ {r.op} \subseteq Ops /\ errors \subseteq Ops /\ clicks' \in 0 .. MaxClicks
  BY <1>1, <1>2, <1>3 DEF TypeOK, bounds
<1>5. expanded.content = "addBond" => \A row \in selected : IsPhysical(row.nic)
  BY DEF IInv, OfPhysical
<1>6. ASSUME expanded.content # "none", ~crossed
      PROVE  OwnOf(mine, Op(expanded, shown), statuses \ {r.op}, requests')
  <2>1. PICK op : op = Op(expanded, shown)
    OBVIOUS
  <2>2. OwnOf(mine, op, statuses, requests)
    BY <1>6, <2>1 DEF IInv, Own
  <2>3. \A q \in requests' : q.id \in mine => q.op # r.op
    BY <1>2, <2>2 DEF OwnOf
  <2>4. OwnOf(mine, op, statuses \ {r.op}, requests')
    BY <1>2, <2>2, <2>3 DEF OwnOf
  <2> QED BY <2>1, <2>4
<1>7. Bonded(expanded, selected, shown) /\ Fresh(expanded, selected, shown)
  BY DEF IInv, Chosen
<1> QED BY <1>1, <1>2, <1>3, <1>4, <1>5, <1>6, <1>7, RenderStep DEF bounds

-----------------------------------------------------------------------------
(* The theorems.                                                             *)

\* The inductive invariant holds at first.
LEMMA InitInv == Init => IInv
<1> SUFFICES ASSUME Init PROVE IInv
  OBVIOUS
<1>1. /\ region \in Machines /\ shown = region
      /\ statuses = {} /\ eventErrors = {}
      /\ selected = {} /\ expanded = NoForm
      /\ requests = {} /\ nicsMade = Cardinality(DOMAIN region)
      /\ linksMade = Cardinality(LinkIds(region))
      /\ mine = {} /\ crossed = FALSE
      /\ clicks = 0 /\ made = 0
  BY DEF Init
<1>2. /\ IsMachine(region) /\ region \in Seq(Nic) /\ IsInterfaces(region)
      /\ {MaxNics, MaxLinks, MaxClicks, MaxRequests} \subseteq Nat
  BY <1>1, NetworkTabAssumption DEF NetworkTabAssumption, IsMachine
<1>3. DOMAIN region = 1 .. nicsMade /\ nicsMade \in Nat
  <2>1. PICK n \in Nat : DOMAIN region = 1 .. n
    BY <1>2
  <2>2. Cardinality(1 .. n) = n
    BY <2>1, FS_Interval
  <2> QED BY <1>1, <2>1, <2>2
<1>4. nicsMade \in 0 .. MaxNics
  BY <1>2, <1>3 DEF IsInterfaces
<1>5. LinkIds(region) = 1 .. linksMade /\ linksMade \in 0 .. MaxLinks
  <2>1. PICK l \in 0 .. MaxLinks : LinkIds(region) = 1 .. l
    BY <1>1, NetworkTabAssumption DEF NetworkTabAssumption
  <2>2. Cardinality(1 .. l) = l
    BY <2>1, FS_Interval
  <2> QED BY <1>1, <2>1, <2>2
<1>6. NoForm \in Form /\ NoForm.content = "none"
  BY <1>2 DEF NoForm, Form, Contents, Row, VLANs
<1>7. TypeOK
  <2>1. clicks \in 0 .. MaxClicks /\ made \in 0 .. MaxRequests
    BY <1>1, <1>2
  <2>2. IsInterfaces(region) /\ IsInterfaces(shown) /\ expanded \in Form
    BY <1>1, <1>2, <1>6
  <2>3. crossed \in BOOLEAN
    BY <1>1
  <2> QED BY <1>1, <1>4, <1>5, <2>1, <2>2, <2>3 DEF TypeOK, Form
<1>8. Numbered /\ Same
  BY <1>1, <1>3, <1>5 DEF Numbered, Same
<1>9. OfPhysical /\ Ids /\ Own
  BY <1>1, <1>6 DEF OfPhysical, Ids, Own
<1>10. Chosen
  BY <1>1, LeftSelection DEF Chosen
<1> QED BY <1>1, <1>2, <1>7, <1>8, <1>9, <1>10 DEF IInv

\* Every step keeps it.
LEMMA StepInv == IInv /\ [Next]_vars => IInv'
<1> SUFFICES ASSUME IInv, [Next]_vars PROVE IInv'
  OBVIOUS
<1>1. CASE Check
  BY <1>1, CheckStep
<1>2. CASE CheckMember
  BY <1>2, CheckMemberStep
<1>3. CASE ToggleMembers
  BY <1>3, ToggleMembersStep
<1>4. CASE OpenAction
  BY <1>4, OpenActionStep
<1>5. CASE OpenRow
  BY <1>5, OpenRowStep
<1>6. CASE Cancel
  BY <1>6, CancelStep
<1>7. CASE \E again \in BOOLEAN : Submit(again)
  BY <1>7, SubmitStep
<1>8. CASE \E r \in requests : RegionDoes(r) \/ ReplySuccess(r) \/ ReplyError(r)
  BY <1>8, RequestStep, ReplyStep
<1>9. CASE OthersChange
  BY <1>9, OthersStep
<1>10. CASE Leave \/ UpdateNotify
  BY <1>10, MountStep DEF Leave, UpdateNotify
<1>11. CASE UNCHANGED vars
  <2>1. UNCHANGED <<region, shown, statuses, eventErrors, selected, expanded, requests,
                    nicsMade, linksMade, mine, crossed, clicks, made>>
    BY <1>11 DEF vars, store, tab, server, history, bounds
  <2> QED BY <2>1 DEF IInv, TypeOK, Numbered, Same, OfPhysical, IsPhysical, Chosen, Ids, Own
<1> QED BY <1>1, <1>2, <1>3, <1>4, <1>5, <1>6, <1>7, <1>8, <1>9, <1>10, <1>11 DEF Next

\* The inductive invariant of the network tab.
LEMMA InvHolds == Spec => []IInv
  BY InitInv, StepInv, PTL DEF Spec

\* The table and its forms only ever name interfaces and links that can be, and
\* keep statuses and errors of the tab's operations.
THEOREM TypeCorrect == Spec => []TypeOK
<1>1. IInv => TypeOK
  BY DEF IInv
<1> QED BY <1>1, InvHolds, PTL

\* Two of a set, and a set of two.
LEMMA TwoOf ==
  ASSUME NEW S, IsFiniteSet(S)
  PROVE  /\ Cardinality(S) >= 2 => \E a, b \in S : a # b
         /\ (\E a, b \in S : a # b) => Cardinality(S) >= 2
<1>1. Cardinality(S) \in Nat
  BY FS_CardinalityType
<1>2. ASSUME Cardinality(S) >= 2
      PROVE  \E a, b \in S : a # b
  <2>1. Cardinality(S) # 0
    BY <1>2
  <2>2. S # {}
    BY <2>1, FS_EmptySet
  <2>3. PICK a \in S : TRUE
    BY <2>2
  <2>4. Cardinality({a}) = 1
    BY FS_Singleton
  <2>5. S # {a}
    BY <1>2, <2>4
  <2> QED BY <2>3, <2>5
<1>3. ASSUME \E a, b \in S : a # b
      PROVE  Cardinality(S) >= 2
  <2>1. PICK a \in S, b \in S : a # b
    BY <1>3
  <2>2. IsFiniteSet({a}) /\ Cardinality({a}) = 1 /\ IsFiniteSet({a} \cup {b})
    BY FS_Singleton, FS_Union
  <2>3. Cardinality({a} \cup {b}) = 2
    <3>1. b \notin {a}
      BY <2>1
    <3>2. Cardinality({a} \cup {b}) = Cardinality({a}) + 1
      BY <2>2, <3>1, FS_AddElement
    <3> QED BY <2>2, <3>2
  <2>4. {a} \cup {b} \subseteq S
    OBVIOUS
  <2>5. Cardinality({a} \cup {b}) <= Cardinality(S)
    BY <2>4, FS_Subset
  <2> QED BY <1>1, <2>3, <2>5
<1> QED BY <1>2, <1>3

\* A set of one.
LEMMA OneOf ==
  ASSUME NEW S, IsFiniteSet(S), Cardinality(S) = 1
  PROVE  \E a \in S : S = {a}
<1>1. S # {}
  BY FS_EmptySet
<1>2. PICK a \in S : TRUE
  BY <1>1
<1>3. \A b \in S : b = a
  <2> SUFFICES ASSUME NEW b \in S, b # a PROVE FALSE
    OBVIOUS
  <2>1. Cardinality(S) >= 2
    BY TwoOf
  <2> QED BY <2>1
<1> QED BY <1>2, <1>3

\* The rows there can be are finitely many.
LEMMA RowFinite == IsFiniteSet(Row)
<1>1. IsFiniteSet(0 .. MaxNics) /\ IsFiniteSet(0 .. MaxLinks)
  <2>1. MaxNics \in Int /\ MaxLinks \in Int /\ 0 \in Int
    BY NetworkTabAssumption DEF NetworkTabAssumption
  <2> QED BY <2>1, FS_Interval
<1> DEFINE pairs == (0 .. MaxNics) \X (0 .. MaxLinks)
           row(pair) == [nic |-> pair[1], link |-> pair[2]]
           rows == [pair \in pairs |-> row(pair)]
<1>2. IsFiniteSet(pairs)
  BY <1>1, FS_Product
<1> HIDE DEF pairs
<1>3. \A pair \in pairs : row(pair) \in Row
  BY DEF pairs, Row
<1>4. \A r \in Row : \E pair \in pairs : rows[pair] = r
  <2> SUFFICES ASSUME NEW r \in Row PROVE \E pair \in pairs : rows[pair] = r
    OBVIOUS
  <2>1. <<r.nic, r.link>> \in pairs /\ r = [nic |-> r.nic, link |-> r.link]
    BY DEF Row, pairs
  <2>2. rows[<<r.nic, r.link>>] = r
    BY <2>1
  <2> QED BY <2>1, <2>2
<1>5. rows \in Surjection(pairs, Row)
  BY <1>3, <1>4 DEF Surjection
<1> QED BY <1>2, <1>5, FS_Surjection

\* Members of a bond are so many interfaces, all of one VLAN.
LEMMA MemberRows ==
  ASSUME NEW nics, IsInterfaces(nics), NEW rows, rows \subseteq Row, NEW vlan, NEW bonds,
         \A row \in rows : Member(nics, row, vlan, bonds),
         Cardinality(rows) >= 2
  PROVE  LET parents == getParentIds(rows) IN
         /\ parents \subseteq DOMAIN nics
         /\ Cardinality(parents) >= 2
         /\ \A p \in parents : nics[p].type = "physical"
         /\ Cardinality({nics[p].vlan : p \in parents}) = 1
         /\ \A p \in parents : findBondOrBridgeChild(nics, p) \subseteq bonds
<1> DEFINE parents == getParentIds(rows)
<1>1. \A p \in parents : /\ p \in DOMAIN nics /\ nics[p].type = "physical"
                         /\ nics[p].vlan = vlan
                         /\ findBondOrBridgeChild(nics, p) \subseteq bonds
  BY DEF getParentIds, Member
<1>2. IsFiniteSet(rows) /\ IsFiniteSet(parents)
  <2>1. IsFiniteSet(rows)
    BY RowFinite, FS_Subset
  <2>2. IsFiniteSet(DOMAIN nics)
    <3>1. IsFiniteSet(1 .. MaxNics) /\ DOMAIN nics \subseteq 1 .. MaxNics
      BY FS_Interval, NetworkTabAssumption DEF NetworkTabAssumption, IsInterfaces
    <3> QED BY <3>1, FS_Subset
  <2>3. parents \subseteq DOMAIN nics
    BY <1>1
  <2> QED BY <2>1, <2>2, <2>3, FS_Subset
<1>3. PICK a \in rows, b \in rows : a # b
  BY <1>2, TwoOf
<1>4. a.nic # b.nic
  <2>1. a = [nic |-> a.nic, link |-> a.link] /\ b = [nic |-> b.nic, link |-> b.link]
    BY DEF Row
  <2>2. a.link = FirstLink(nics, a.nic) /\ b.link = FirstLink(nics, b.nic)
    BY DEF Member
  <2> QED BY <1>3, <2>1, <2>2
<1>5. a.nic \in parents /\ b.nic \in parents
  BY DEF getParentIds
<1>6. Cardinality(parents) >= 2
  BY <1>2, <1>4, <1>5, TwoOf
<1>7. {nics[p].vlan : p \in parents} = {vlan}
  BY <1>1, <1>5
<1>8. Cardinality({nics[p].vlan : p \in parents}) = 1
  BY <1>7, FS_Singleton
<1> QED BY <1>1, <1>6, <1>8

\* What is sent is sound.
LEMMA SentSound ==
  ASSUME IInv, NEW again, Submit(again)
  PROVE  Sound(Sent(again))
<1>1. PICK r : r = Sent(again)
  OBVIOUS
<1>2. /\ r.op = Op(expanded, shown)
      /\ r.parents = IF InBondForm THEN getParentIds(selected) ELSE {}
  BY <1>1, SentFacts
<1>3. /\ expanded \in Form /\ selected \subseteq Row /\ IsMachine(shown) /\ IsInterfaces(shown)
      /\ Bonded(expanded, selected, shown) /\ Fresh(expanded, selected, shown)
  BY ShownFacts DEF IInv, Chosen
<1>4. /\ r.op = "createBond" <=> expanded.content = "addBond"
      /\ r.op = "createBridge" <=> expanded.content = "addBridge"
  BY <1>2, <1>3, OpFacts DEF Form
<1>5. CASE InBondForm
  <2>1. Cardinality(selected) >= 2
    BY <1>5 DEF Submit
  <2>2. r.op # "createBridge" /\ r.parents = getParentIds(selected)
    BY <1>2, <1>4, <1>5, BondFormFacts
  <2>3. \E vlan : \A row \in selected : Member(shown, row, vlan, {r.nic})
    <3>1. CASE Component(expanded, shown) = "AddBondForm"
      <4>1. \A row \in selected : Member(shown, row, expanded.vlan, {})
        BY <1>3, <3>1, ComponentFacts DEF Fresh
      <4> QED BY <4>1 DEF Member
    <3>2. CASE Component(expanded, shown) = "EditBondForm"
      <4>1. PICK n \in DOMAIN shown :
              /\ getInterfaceById(shown, expanded.row) = {n}
              /\ \A row \in selected : Member(shown, row, shown[n].vlan, {n})
        BY <1>3, <3>2 DEF Bonded
      <4>2. expanded.content # "addBridge"
        BY <3>2, ComponentFacts
      <4>3. UNION {getInterfaceById(shown, row) : row \in {expanded.row}} = {n}
        BY <4>1
      <4>4. r.nic = n
        BY <1>1, <4>2, <4>3, SentFacts
      <4> QED BY <4>1, <4>4
    <3> QED BY <1>5, <3>1, <3>2 DEF InBondForm
  <2>4. PICK vlan : \A row \in selected : Member(shown, row, vlan, {r.nic})
    BY <2>3
  <2>5. PICK parents : parents = getParentIds(selected)
    OBVIOUS
  <2>6. /\ parents \subseteq DOMAIN shown
        /\ Cardinality(parents) >= 2
        /\ \A p \in parents : shown[p].type = "physical"
        /\ Cardinality({shown[p].vlan : p \in parents}) = 1
        /\ \A p \in parents : findBondOrBridgeChild(shown, p) \subseteq {r.nic}
    BY <1>3, <2>1, <2>4, <2>5, MemberRows
  <2> QED BY <1>1, <2>2, <2>5, <2>6 DEF Sound
<1>6. CASE ~InBondForm
  <2>1. r.parents = {} /\ r.op # "createBond"
    BY <1>2, <1>4, <1>6, ComponentFacts DEF InBondForm
  <2>2. CASE r.op # "createBridge"
    BY <1>1, <2>1, <2>2 DEF Sound
  <2>3. CASE r.op = "createBridge"
    <3>1. /\ expanded.content = "addBridge" /\ Cardinality(selected) = 1
          /\ \A row \in selected : getInterfaceType(shown, row) \notin {{"alias"}, {"bridge"}}
          /\ selected \subseteq SelectableIn(shown)
      BY <1>3, <1>4, <2>3, ComponentFacts DEF Fresh
    <3>2. IsFiniteSet(selected)
      <4>1. selected \subseteq Row /\ IsFiniteSet(Row)
        BY <1>3, RowFinite
      <4> QED BY <4>1, FS_Subset
    <3>3. PICK row \in selected : selected = {row}
      BY <3>1, <3>2, OneOf
    <3>4. /\ row \in Rows(shown) /\ ~isBondOrBridgeParent(shown, row)
          /\ row \in Row /\ row.nic \in DOMAIN shown /\ row.nic # 0
      BY <1>3, <3>1, RowFacts DEF SelectableIn
    <3>5. getInterfaceById(shown, row) = {row.nic}
      BY <3>4 DEF getInterfaceById
    <3>6. UNION {getInterfaceById(shown, q) : q \in selected} = {row.nic}
      BY <3>3, <3>5
    <3>7. r.nic = row.nic
      BY <1>1, <3>1, <3>6, SentFacts
    <3>8. ~isAlias(shown, row)
      BY <3>1 DEF getInterfaceType
    <3>9. getInterfaceType(shown, row) = {shown[row.nic].type}
      BY <3>5, <3>8 DEF getInterfaceType
    <3>10. shown[row.nic].type # "bridge"
      BY <3>1, <3>9
    <3>11. findBondOrBridgeChild(shown, row.nic) = {}
      BY <3>4, <3>5, <3>8 DEF isBondOrBridgeParent
    <3> QED BY <1>1, <2>1, <2>3, <3>4, <3>7, <3>10, <3>11 DEF Sound
  <2> QED BY <2>2, <2>3
<1> QED BY <1>5, <1>6

\* A request for a bond or a bridge is sound, whatever was checked and in whatever
\* form: nothing that was checked outlives the interfaces it was checked with.
THEOREM SoundRequests == Spec => RequestsSound
<1>1. ASSUME IInv, [Next]_vars, NEW r \in requests' \ requests, ~r.done
      PROVE  Sound(r)
  <2>1. CASE \E again \in BOOLEAN : Submit(again)
    <3>1. PICK again \in BOOLEAN : Submit(again)
      BY <2>1
    <3>2. r = Sent(again)
      BY <1>1, <3>1, SentFacts
    <3> QED BY <1>1, <3>1, <3>2, SentSound
  <2>2. CASE \E q \in requests : RegionDoes(q)
    <3>1. PICK q \in requests : RegionDoes(q)
      BY <2>2
    <3>2. r = [q EXCEPT !.done = TRUE] /\ q \in Request
      BY <1>1, <3>1 DEF RegionDoes, IInv, TypeOK
    <3> QED BY <1>1, <3>2 DEF Request
  <2>3. CASE \E q \in requests : ReplySuccess(q) \/ ReplyError(q)
    BY Zenon, <2>3 DEF ReplySuccess, ReplyError
  <2>4. CASE Check \/ CheckMember \/ OpenAction \/ OpenRow
    BY Zenon, <2>4 DEF Check, CheckMember, OpenAction, OpenRow, Opens, server
  <2>5. CASE ToggleMembers \/ Cancel \/ Leave \/ OthersChange \/ UpdateNotify
    BY <2>5 DEF ToggleMembers, Cancel, Leave, OthersChange, UpdateNotify, Mount, server
  <2>6. CASE UNCHANGED vars
    BY <2>6 DEF vars, server
  <2> QED BY <1>1, <2>1, <2>2, <2>3, <2>4, <2>5, <2>6 DEF Next
<1>2. IInv /\ [Next]_vars =>
        (\A r \in requests' \ requests : ~r.done => Sound(r))
  BY <1>1
<1> QED BY <1>2, InvHolds, PTL DEF Spec, RequestsSound

\* Only an answer takes a request away.
LEMMA OnlyReplies ==
  ASSUME IInv, [Next]_vars, NEW r \in requests, requests' = requests \ {r}
  PROVE  ReplySuccess(r) \/ ReplyError(r)
<1>1. CASE \E again \in BOOLEAN : Submit(again)
  <2>1. PICK q : q \in requests' /\ q.id = made + 1
    BY <1>1, SentFacts
  <2>2. q \in requests /\ q.id <= made /\ made \in Nat
    BY <2>1, NetworkTabAssumption DEF IInv, Ids, TypeOK, NetworkTabAssumption
  <2> QED BY <2>1, <2>2
<1>2. CASE \E q \in requests : RegionDoes(q)
  <2>1. PICK q \in requests : RegionDoes(q)
    BY <1>2
  <2>2. PICK d : d = [q EXCEPT !.done = TRUE]
    OBVIOUS
  <2>3. q \in Request /\ ~q.done /\ d \in requests'
    BY <2>1, <2>2 DEF RegionDoes, IInv, TypeOK
  <2>4. d.id = q.id /\ d.done
    BY <2>2, <2>3 DEF Request
  <2>5. d \in requests
    BY <2>3
  <2>6. d = q
    BY <2>4, <2>5 DEF IInv, Ids
  <2> QED BY <2>3, <2>4, <2>6
<1>3. CASE \E q \in requests : ReplySuccess(q) \/ ReplyError(q)
  <2>1. PICK q \in requests : ReplySuccess(q) \/ ReplyError(q)
    BY <1>3
  <2>2. requests \ {q} = requests \ {r}
    BY Zenon, <2>1 DEF ReplySuccess, ReplyError
  <2>3. q = r
    BY <2>2
  <2> QED BY <2>1, <2>3
<1>4. CASE Check \/ CheckMember \/ OpenAction \/ OpenRow
  BY Zenon, <1>4 DEF Check, CheckMember, OpenAction, OpenRow, Opens, server
<1>5. CASE ToggleMembers \/ Cancel \/ Leave \/ OthersChange \/ UpdateNotify
  BY <1>5 DEF ToggleMembers, Cancel, Leave, OthersChange, UpdateNotify, Mount, server
<1>6. CASE UNCHANGED vars
  BY <1>6 DEF vars, server
<1> QED BY <1>1, <1>2, <1>3, <1>4, <1>5, <1>6 DEF Next

\* What an answer makes of the form.
LEMMA AnswerCloses ==
  ASSUME IInv, NEW r \in requests, ReplySuccess(r) \/ ReplyError(r), Open, ~crossed
  PROVE  expanded' = NoForm <=> /\ r.done /\ r.id \in mine
                                /\ ~expanded.again /\ r.op \notin eventErrors
<1>1. PICK op, errors :
        /\ op = Op(expanded, shown)
        /\ errors = IF r.done THEN eventErrors ELSE eventErrors \cup {r.op}
  OBVIOUS
<1>2. Render(expanded, selected, statuses \ {r.op}, errors)
  BY <1>1 DEF ReplySuccess, ReplyError
<1>3. PICK saved : saved = Saved(expanded, statuses \ {r.op}, errors)
  OBVIOUS
<1>4. expanded' = IF saved /\ ~expanded.again THEN NoForm
                  ELSE [expanded EXCEPT !.again = @ /\ ~saved]
  BY <1>2, <1>3 DEF Render
<1>5. saved <=> op \in statuses /\ op \notin statuses \ {r.op} /\ op \notin errors
  BY <1>1, <1>3 DEF Saved, SavedAnyway, Saving
<1>6. expanded.content # "none" /\ expanded \in Form
  BY ComponentFacts, ShownFacts DEF Open
<1>7. [expanded EXCEPT !.again = @ /\ ~saved] # NoForm
  <2>1. [expanded EXCEPT !.again = @ /\ ~saved].content = expanded.content
    BY <1>6 DEF Form
  <2> QED BY <1>6, <2>1 DEF NoForm
<1>8. expanded' = NoForm <=> saved /\ ~expanded.again
  BY <1>4, <1>7
<1>9. /\ r.id \in mine <=> r.op = op
      /\ r.id \in mine => op \in statuses
  BY <1>1, <1>6 DEF IInv, Own, OwnOf
<1>10. saved <=> r.id \in mine /\ r.done /\ r.op \notin eventErrors
  BY <1>1, <1>5, <1>9
<1> QED BY <1>8, <1>10

\* An answer closes the form that is open exactly when it says that what the form
\* has sent has succeeded, as long as no other request is to be confused with it.
THEOREM OnlyOwnAnswer == Spec => OwnAnswerCloses
<1>1. IInv /\ [Next]_vars =>
        ( \A r \in requests : Open /\ ~crossed /\ requests' = requests \ {r} =>
            ( expanded' = NoForm <=>
                /\ r.done /\ r.id \in mine
                /\ ~expanded.again /\ r.op \notin eventErrors ) )
  <2> SUFFICES ASSUME IInv, [Next]_vars, NEW r \in requests,
                      Open, ~crossed, requests' = requests \ {r}
               PROVE  expanded' = NoForm <=> /\ r.done /\ r.id \in mine
                                             /\ ~expanded.again /\ r.op \notin eventErrors
    OBVIOUS
  <2> QED BY OnlyReplies, AnswerCloses
<1> QED BY <1>1, InvHolds, PTL DEF Spec, OwnAnswerCloses

=============================================================================
