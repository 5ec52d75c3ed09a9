------------------------- MODULE MCRegionConnection -------------------------
(* RegionConnection for TLC: the bounds are in the configurations.           *)
EXTENDS RegionConnection
=============================================================================
