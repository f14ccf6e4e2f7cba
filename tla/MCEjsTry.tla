------------------------------ MODULE MCEjsTry ------------------------------
(***************************************************************************)
(* Model checking of EjsTry by itself, with the functions of MCFunctions.   *)
(***************************************************************************)
EXTENDS EjsTry, MCFunctions
=============================================================================
