--------------------------- MODULE MCNodeActions ---------------------------
(* Two nodes for TLC.                                                        *)
EXTENDS NodeActions

CONSTANTS n1, n2
=============================================================================
