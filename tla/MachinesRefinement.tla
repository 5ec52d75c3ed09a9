------------------------- MODULE MachinesRefinement -------------------------
(* Machines implements MachineList: batches, the channel, the region's delay *)
(* in announcing what it does and the order of the rows are details that a   *)
(* page which shows the list need not know of.                               *)
EXTENDS Machines

\* What a message shows, and what it is about.
RowsOf(m) ==
  IF m.type = "list" THEN {m.page[i] : i \in DOMAIN m.page}
  ELSE IF m.type \in {"get", "create", "update"} THEN {m.row} ELSE {}

IdsOf(m) ==
  {row.id : row \in RowsOf(m)} \union (IF m.type = "delete" THEN {m.id} ELSE {})

Owed == {changes[i].id : i \in DOMAIN changes}
          \union UNION {IdsOf(down[p]) : p \in DOMAIN down}

Versions == [id \in Shown |-> items[CHOOSE i \in DOMAIN items : items[i].id = id].v]

ML == INSTANCE MachineList WITH
        real   <- db,
        listed <- Versions,
        owed   <- Owed

\* Every behaviour of the machine slice and its channel is one of the list: a
\* page may show what is listed, for a row never goes back to an older version,
\* none comes from nowhere, and what is not on its way is right.
ImplementsMachineList == ML!Spec
=============================================================================
