----------------------------- MODULE MCEjsArray -----------------------------
(***************************************************************************)
(* Values for the constants of EjsArray: up to three elements, a, b or      *)
(* undefined, in blocks of two.                                             *)
(***************************************************************************)
EXTENDS EjsArray, TLC

CONSTANTS a, b

MCInputs == {<<>>, <<b, a>>, <<a, a>>}
MCPositions == -2..3
MCDirections == {1, -1}
MCRank == (a :> 1) @@ (b :> 2) @@ (Undefined :> 3) @@ (Beyond :> 4)
=============================================================================
