---------------------------- MODULE MCLocalCache ----------------------------
(***************************************************************************)
(* Values for the constants of LocalCache.                                  *)
(***************************************************************************)
EXTENDS LocalCache

\* Three turns of the pruner, which reach three ticks ahead
MCFactors == <<1, 2, 4>>

\* No limits
MCNoLimits == {[keys |-> 0, mem |-> 0]}
=============================================================================
