------------------------------ MODULE MCSession ------------------------------
(* Session for TLC: the bounds are in the configuration.                      *)
EXTENDS Session
=============================================================================
