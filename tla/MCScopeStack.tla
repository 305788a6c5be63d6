----------------------------- MODULE MCScopeStack -----------------------------
(***************************************************************************)
(* Small instances of ScopeStack: one function with a parameter, whose     *)
(* name "x" is also a variable of the program.                             *)
(***************************************************************************)
EXTENDS ScopeStack

MCName == {"f", "x"}

MCFunc == {[name |-> "f", params |-> <<"x">>]}
===============================================================================
