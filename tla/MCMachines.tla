----------------------------- MODULE MCMachines -----------------------------
(* Machines for TLC: the bounds are in the configurations.                   *)
EXTENDS MachinesRefinement
=============================================================================
