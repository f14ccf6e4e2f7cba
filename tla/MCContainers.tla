---------------------------- MODULE MCContainers ----------------------------
(***************************************************************************)
(* Model checking of EjsPot and of LocalCache under limits: a script uses   *)
(* an object or a cache, and the other is left as it was made.              *)
(*                                                                          *)
(* The names of the properties collide in the smaller hash, and the hash is *)
(* made anew when the object outgrows it.  The cache has two keys and may   *)
(* be limited to one of them, with every way of dating an item.             *)
(***************************************************************************)
EXTENDS EjsPot, TLC

CONSTANTS n1, n2, other, v1, c1, k1, k2

MCHash == (n1 :> 0) @@ (n2 :> 3) @@ (Empty :> 0)
MCRank == (n1 :> 2) @@ (n2 :> 1) @@ (Empty :> 0)
MCOptions == {{"readonly"}}
MCSizes == <<2, 3>>
MCQNames == {Q(Empty, n1), Q(other, n1), Q(Empty, n2)}
MCOpen == <<Empty>>

VARIABLES uses, shared, stage, link, store, usedMem, limits, timer, holder, call, now, seen, destroyed, lost, crashed

Caches == {c1}
Keys == {k1, k2}
Ops == {"setLimits", "write", "inc", "expire"}
Lens == {1}
Modes == {"set", "add", "append", "other"}
Lifespans == {0, 1, 5}
Dates == 0..2
Limits == {[keys |-> 0, mem |-> 0], [keys |-> 1, mem |-> 3]}
Factors == <<1, 2, 4>>

Caching == INSTANCE LocalCache WITH
    Cache <- Caches, Key <- Keys, KeyLen <- 1, Shares <- BOOLEAN, MaxTime <- 2, MaxLen <- 2, MaxVersion <- 2,
    MaxUsed <- 4, Reclaims <- TRUE

cacheVars == <<shared, stage, link, store, usedMem, limits, timer, holder, call, now, seen, destroyed, lost, crashed>>
UsesObject == uses = "object" /\ Next /\ UNCHANGED <<uses, cacheVars>>
UsesCache == uses = "cache" /\ (Caching!Next \/ UNCHANGED cacheVars) /\ UNCHANGED <<uses, vars>>

MCInit == uses \in {"object", "cache"} /\ Init /\ Caching!Init
MCSpec == MCInit /\ [][UsesObject \/ UsesCache]_<<uses, vars, cacheVars>>

\* What LocalCache says of a cache

\* The pruner leaves a cache within its limits or with nothing that it may prune, and
\* prunes nothing else (ejsLocalCache.c:480 to 498).
PruneEnforcesLimits == Caching!PruneEnforcesLimits
=============================================================================
