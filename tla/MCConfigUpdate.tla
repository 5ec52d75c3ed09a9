---------------------------- MODULE MCConfigUpdate ----------------------------
(* Two settings: a form that saves them both, one that saves them in the      *)
(* other order, and one that saves one alone.                                 *)
EXTENDS ConfigUpdate

MCName == {"a", "b"}
MCForms == {<<"a", "b">>, <<"b", "a">>, <<"b">>}
=============================================================================
