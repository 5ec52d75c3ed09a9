------------------------------ MODULE MCManager ------------------------------
(* Bounds for model checking Manager: the constants are given in the .cfg.    *)
EXTENDS Manager
=============================================================================
