--------------------------------- MODULE MCGC ---------------------------------
(***************************************************************************)
(* A small instance of GC.  Three addresses allow for cycles, for sharing  *)
(* and for garbage that points at what is in use.                          *)
(***************************************************************************)
EXTENDS GC

MCObject == {"o1", "o2", "o3"}
===============================================================================
