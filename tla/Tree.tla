--------------------------------- MODULE Tree ---------------------------------
(***************************************************************************)
(* The tree that the parser hands to the interpreter.                      *)
(***************************************************************************)
EXTENDS JSValue, AST

VARIABLE nodes
===============================================================================
