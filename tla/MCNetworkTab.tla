---------------------------- MODULE MCNetworkTab ----------------------------
(* Machines for TLC: an interface with an alias beside one without a link,   *)
(* and a bond beside an interface that can join it.                          *)
EXTENDS NetworkTab

Physical(vlan, links) == [type |-> "physical", vlan |-> vlan, parents |-> {}, links |-> links]
Bond(parents) == [type |-> "bond", vlan |-> 1, parents |-> parents, links |-> <<>>]

MCMachines ==
  {<<Physical(1, <<1, 2>>), Physical(1, <<>>)>>,
   <<Physical(1, <<>>), Physical(1, <<>>), Bond({1, 2}), Physical(1, <<1>>)>>}
=============================================================================
