-------------------------------- MODULE MCFSM ---------------------------------
(* FSM for TLC: from A and B to one another, from B also to itself, and     *)
(* from C, which only force and "Off" enter, nowhere.                       *)
EXTENDS FSM

MCNames == {"A", "B", "C"}
MCAllowed == {<<"A", "B">>, <<"B", "A">>, <<"B", "B">>, <<"InternalError", "A">>}
===============================================================================
