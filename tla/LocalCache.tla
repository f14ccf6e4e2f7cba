----------------------------- MODULE LocalCache -----------------------------
(***************************************************************************)
(* The in-memory key/value cache: src/core/src/ejsLocalCache.c.             *)
(*                                                                          *)
(* A LocalCache object is a store of its own or, when it is made with       *)
(* {shared: true}, a link to the one the process shares (the static         *)
(* `shared`).  Objects linked to one store are used by interpreters that    *)
(* run on different threads.  Each operation takes the lock of the store,   *)
(* works and gives the lock back, which is one step here; what the code     *)
(* does outside the lock is a step of its own.  A timer of the runtime runs *)
(* the pruner on yet another thread.                                        *)
(*                                                                          *)
(* An object stands for the interpreter that uses it.  Data is abstracted   *)
(* to its length, and what `append` and `prepend` do to it is the same.     *)
(***************************************************************************)
EXTENDS Integers, FiniteSets, Sequences

CONSTANTS
    Cache,          \* the LocalCache objects
    Null,           \* a null pointer
    Key,            \* the keys
    KeyLen,         \* their length
    Shares,         \* whether objects are made {shared: true}
    Ops,            \* the operations that are called
    Lens,           \* the lengths of the data that are written
    Modes,          \* the modes of writing
    Lifespans,      \* the lifespans of items; 0 is never to expire
    Dates,          \* fixed dates of expiry; 0 is none
    Limits,         \* the limits that are set: [keys, mem], 0 is none
    Factors,        \* how far the pruner looks ahead, turn by turn
    MaxTime,        \* bound on the clock
    MaxLen,         \* bound on the length of an item
    MaxVersion,     \* bound on the updates of an item
    MaxUsed,        \* bound on usedMem, when it grows without an item
    Reclaims        \* the collector frees objects that are not referenced

ASSUME NullAssumption == Null \notin Cache
ASSUME DataAssumption == Lens \subseteq Nat /\ KeyLen \in Nat /\ Lifespans \subseteq Nat /\ Dates \subseteq Nat
ASSUME LimitAssumption == Limits \subseteq [keys : Nat, mem : Nat]
ASSUME FactorAssumption == Factors \in Seq(Nat) /\ Factors # <<>>
ASSUME BoundAssumption == /\ MaxTime \in Nat /\ MaxLen \in Nat /\ MaxVersion \in Nat
                          /\ MaxUsed \in Nat /\ Reclaims \in BOOLEAN

NoItem == [none |-> TRUE]
\* expires 0 is immortal; life is what inc adds to the time
Item == [len : Nat, expires : Nat, life : Nat, version : Nat]

\* What an interpreter knows of the version it has read, and what has
\* happened to the key since
NoRead == [none |-> TRUE]
Reading == [key : Key, version : Nat, since : {"same", "updated", "removed"}]

VARIABLES
    shared,     \* the singleton
    stage,      \* of each object: "none", "making", "made", "freed"
    link,       \* cache->shared
    store,      \* cache->store
    usedMem,    \* cache->usedMem
    limits,     \* cache->maxKeys and cache->maxMem
    timer,      \* cache->timer is set and its event scheduled
    holder,     \* the interpreter that holds cache->mutex between two steps
    call,       \* what each interpreter does: "idle", "op", "destroy"
    now,        \* mprGetTime
    seen,       \* the last version each interpreter has read
    destroyed,  \* destroy has removed the timer, with no write since
    lost,       \* a conditional write has overwritten an update
    crashed     \* a null pointer or freed memory has been used

vars == <<shared, stage, link, store, usedMem, limits, timer, holder, call, now,
          seen, destroyed, lost, crashed>>

StoreTypeOK ==
    /\ store \in [Cache -> [Key -> Item \cup {NoItem}]]
    /\ timer \in [Cache -> BOOLEAN]
    /\ now \in Nat
    /\ destroyed \in [Cache -> BOOLEAN]

UserTypeOK ==
    /\ stage \in [Cache -> {"none", "making", "made", "freed"}]
    /\ link \in [Cache -> Cache \cup {Null}]
    /\ shared \in Cache \cup {Null}
    /\ call \in [Cache -> {"idle", "op", "destroy"}]
    /\ seen \in [Cache -> Reading \cup {NoRead}]
    /\ lost \in BOOLEAN

TypeOK ==
    /\ StoreTypeOK
    /\ UserTypeOK
    /\ usedMem \in [Cache -> Int]
    /\ limits \in [Cache -> [keys : Nat, mem : Nat]]
    /\ holder \in [Cache -> Cache \cup {Null}]
    /\ crashed \in BOOLEAN

NoLimits == [keys |-> 0, mem |-> 0]
NoItems  == [k \in Key |-> NoItem]

Init ==
    /\ shared = Null
    /\ stage = [c \in Cache |-> "none"]
    /\ link = [c \in Cache |-> Null]
    /\ store = [c \in Cache |-> NoItems]
    /\ usedMem = [c \in Cache |-> 0]
    /\ limits = [c \in Cache |-> NoLimits]
    /\ timer = [c \in Cache |-> FALSE]
    /\ holder = [c \in Cache |-> Null]
    /\ call = [c \in Cache |-> "idle"]
    /\ now = 1
    /\ seen = [c \in Cache |-> NoRead]
    /\ destroyed = [c \in Cache |-> FALSE]
    /\ lost = FALSE
    /\ crashed = FALSE

-----------------------------------------------------------------------------
(***************************************************************************)
(* Stores and items.                                                        *)
(***************************************************************************)
Keys(o) == {k \in Key : store[o][k] # NoItem}

Size(item) == IF item = NoItem THEN 0 ELSE KeyLen + item.len

\* The memory of the items with a key in K, byte by byte
Bytes(o, K) == UNION {{k} \X (1..Size(store[o][k])) : k \in K}
SizeOf(o, K) == Cardinality(Bytes(o, K))

Stored(o) == SizeOf(o, Keys(o))

\* The item has expired at time t
Due(item, t) == item.expires # 0 /\ item.expires <= t

\* Put the item at k, or NoItem to remove the key
Put(o, k, item) == store' = [store EXCEPT ![o][k] = item]

\* Mutant: it is set
CountSet(o, delta) == usedMem' = [usedMem EXCEPT ![o] = delta]

\* usedMem += delta
Count(o, delta) == usedMem' = [usedMem EXCEPT ![o] = @ + delta]

\* Mutant: not counted
SameVersion(item) == item

\* item->version++
NewVersion(item) == [item EXCEPT !.version = @ + 1]

\* Where the operations of c go
Target(c) == IF link[c] = Null THEN c ELSE link[c]

\* The readings of k that the interpreters have of the store o
Since(o, k, event) ==
    seen' = [d \in Cache |->
                IF /\ seen[d] # NoRead /\ Target(d) = o
                   /\ seen[d].key = k /\ seen[d].since # "removed"
                THEN [seen[d] EXCEPT !.since = event] ELSE seen[d]]

-----------------------------------------------------------------------------
(***************************************************************************)
(* The objects.                                                             *)
(***************************************************************************)
\* localConstructor, up to its test of `shared`
Construct(c, wantShared, lim) ==
    /\ ~crashed /\ stage[c] = "none"
    /\ \/ /\ wantShared /\ shared # Null
          /\ link' = [link EXCEPT ![c] = shared]
          /\ stage' = [stage EXCEPT ![c] = "made"]
          /\ UNCHANGED limits
       \/ /\ wantShared => shared = Null
          /\ limits' = [limits EXCEPT ![c] = lim]
          /\ stage' = [stage EXCEPT ![c] = IF wantShared THEN "making" ELSE "made"]
          /\ UNCHANGED link
    /\ UNCHANGED <<shared, store, usedMem, timer, holder, call, now, seen, destroyed, lost, crashed>>

\* and its end, when it found none
ConstructShared(c) ==
    /\ ~crashed /\ stage[c] = "making"
    /\ shared' = c
    /\ stage' = [stage EXCEPT ![c] = "made"]
    /\ UNCHANGED <<link, store, usedMem, limits, timer, holder, call, now, seen, destroyed, lost, crashed>>

Idle(c) == ~crashed /\ stage[c] = "made" /\ call[c] = "idle"

\* cloneLocalCache: usedMem is copied, the items are not
Clone(c, d) ==
    /\ "clone" \in Ops /\ Idle(c) /\ stage[d] = "none"
    /\ stage' = [stage EXCEPT ![d] = "made"]
    /\ IF link[c] # Null \/ c = shared
       THEN /\ link' = [link EXCEPT ![d] = Target(c)]
            /\ UNCHANGED <<usedMem, limits>>
       ELSE /\ usedMem' = [usedMem EXCEPT ![d] = usedMem[c]]
            /\ limits' = [limits EXCEPT ![d] = limits[c]]
            /\ UNCHANGED link
    /\ UNCHANGED <<shared, store, timer, holder, call, now, seen, destroyed, lost, crashed>>

\* setLimits, which takes no lock; a limit it is not given is one that stays
SetLimits(c, lim) ==
    /\ "setLimits" \in Ops /\ Idle(c)
    /\ limits' = [limits EXCEPT ![Target(c)] = lim]
    /\ UNCHANGED <<shared, stage, link, store, usedMem, timer, holder, call, now,
                   seen, destroyed, lost, crashed>>

\* sl_destroy, which takes no lock either: its first test,
Destroy(c) ==
    /\ "destroy" \in Ops /\ Idle(c)
    /\ IF timer[c] /\ c # shared
       THEN call' = [call EXCEPT ![c] = "destroy"] /\ UNCHANGED shared
       ELSE shared' = (IF c = shared THEN Null ELSE shared) /\ UNCHANGED call
    /\ UNCHANGED <<stage, link, store, usedMem, limits, timer, holder, now,
                   seen, destroyed, lost, crashed>>

\* and mprRemoveEvent, which follows cache->timer
DestroyTimer(c) ==
    /\ ~crashed /\ call[c] = "destroy"
    /\ call' = [call EXCEPT ![c] = "idle"]
    /\ timer' = [timer EXCEPT ![c] = FALSE]
    /\ destroyed' = [destroyed EXCEPT ![c] = TRUE]
    /\ crashed' = ~timer[c]
    /\ UNCHANGED <<shared, stage, link, store, usedMem, limits, holder, now, seen, lost>>

\* The collector frees an object that neither its interpreter nor a link
\* refers to.  The event of its timer does not keep it (MPR_EVENT_STATIC_DATA).
Collect(c) ==
    /\ Reclaims /\ Idle(c)
    /\ \A d \in Cache : link[d] # c
    /\ stage' = [stage EXCEPT ![c] = "freed"]
    /\ link' = [link EXCEPT ![c] = Null]
    /\ shared' = IF c = shared THEN Null ELSE shared
    /\ seen' = [seen EXCEPT ![c] = NoRead]
    /\ UNCHANGED <<store, usedMem, limits, timer, holder, call, now, destroyed, lost, crashed>>

-----------------------------------------------------------------------------
(***************************************************************************)
(* The operations, each one step when it has the lock.                      *)
(***************************************************************************)
\* An interpreter calls one of them
Call(c) ==
    /\ Idle(c)
    /\ call' = [call EXCEPT ![c] = "op"]
    /\ UNCHANGED <<shared, stage, link, store, usedMem, limits, timer, holder, now,
                   seen, destroyed, lost, crashed>>

\* lock(cache); the mutex is recursive
Locks(c) == ~crashed /\ call[c] = "op" /\ holder[Target(c)] \in {Null, c}

Returns(c) == call' = [call EXCEPT ![c] = "idle"]

\* The version that is read is what a conditional write asks for
Read(c, k) ==
    /\ Locks(c)
    /\ LET item == store[Target(c)][k]
       IN  seen' = [seen EXCEPT ![c] =
                       IF item = NoItem THEN NoRead
                       ELSE IF Due(item, now) THEN NoRead
                       ELSE [key |-> k, version |-> item.version, since |-> "same"]]
    /\ Returns(c)
    /\ UNCHANGED <<shared, stage, link, store, usedMem, limits, timer, holder, now,
                   destroyed, lost, crashed>>

\* expires takes precedence over lifespan, and a lifespan of 0 keeps the old one
Dated(item, until, life) ==
    IF until # 0 THEN [item EXCEPT !.expires = until, !.life = 0]
    ELSE IF life = 0 THEN [item EXCEPT !.expires = 0]
    ELSE [item EXCEPT !.expires = now + life, !.life = life]

\* The item that a write makes of the old one.  A new key takes any mode as
\* set; a mode that is not known writes nothing but the version and the dates.
Written(old, mode, len, until, life) ==
    LET new == CASE old = NoItem -> [len |-> len, expires |-> 0, life |-> 0, version |-> 0]
                 [] old # NoItem /\ mode = "set" -> [old EXCEPT !.len = len]
                 [] old # NoItem /\ mode = "append" -> [old EXCEPT !.len = @ + len]
                 [] OTHER -> old
    IN  NewVersion(Dated(new, until, life))

\* sl_write.  When a key is added that exists, it returns with the lock.
Write(c, k, mode, len, until, life, check) ==
    LET o   == Target(c)
        old == store[o][k]
        new == Written(old, mode, len, until, life)
    IN  /\ Locks(c)
        /\ check => seen[c] # NoRead /\ seen[c].key = k
        /\ \/ /\ old # NoItem /\ check /\ old.version # seen[c].version
              /\ UNCHANGED <<store, usedMem, timer, holder, seen, destroyed, lost>>
           \/ /\ old # NoItem /\ (check => old.version = seen[c].version) /\ mode = "add"
              /\ holder' = [holder EXCEPT ![o] = c]
              /\ UNCHANGED <<store, usedMem, timer, seen, destroyed, lost>>
           \/ /\ old # NoItem => (check => old.version = seen[c].version) /\ mode # "add"
              /\ new.len <= MaxLen /\ new.version <= MaxVersion
              /\ Put(o, k, new)
              /\ Count(o, Size(new) - Size(old))
              /\ timer' = [timer EXCEPT ![o] = TRUE]
              /\ destroyed' = [destroyed EXCEPT ![o] = FALSE]
              /\ lost' = (lost \/ (check /\ old # NoItem /\ seen[c].since = "updated"))
              /\ Since(o, k, "updated")
              /\ UNCHANGED holder
        /\ Returns(c)
        /\ UNCHANGED <<shared, stage, link, limits, now, crashed>>

\* sl_inc.  The item it makes for a key that is missing is not stored.
Inc(c, k, len) ==
    LET o   == Target(c)
        old == store[o][k]
    IN  /\ Locks(c)
        /\ \/ /\ old = NoItem
              /\ usedMem[o] + len <= MaxUsed
              /\ Count(o, len)
              /\ UNCHANGED <<store, seen>>
           \/ /\ old # NoItem /\ old.version < MaxVersion
              /\ Put(o, k, NewVersion([old EXCEPT !.len = len, !.expires = now + old.life]))
              /\ Count(o, len - old.len)
              /\ Since(o, k, "updated")
        /\ Returns(c)
        /\ UNCHANGED <<shared, stage, link, limits, timer, holder, now, destroyed, lost, crashed>>

\* sl_expire; until is 0 for null, which removes the key
Expire(c, k, until) ==
    LET o   == Target(c)
        old == store[o][k]
    IN  /\ Locks(c)
        /\ \/ old = NoItem /\ UNCHANGED <<store, usedMem, seen>>
           \/ /\ old # NoItem /\ until # 0
              /\ Put(o, k, [old EXCEPT !.expires = until, !.life = 0])
              /\ UNCHANGED <<usedMem, seen>>
           \/ /\ old # NoItem /\ until = 0
              /\ Put(o, k, NoItem)
              /\ Count(o, -Size(old))
              /\ Since(o, k, "removed")
        /\ Returns(c)
        /\ UNCHANGED <<shared, stage, link, limits, timer, holder, now, destroyed, lost, crashed>>

\* sl_remove, of a key
RemoveKey(c, k) ==
    LET o == Target(c)
    IN  /\ Locks(c)
        /\ Put(o, k, NoItem)
        /\ Count(o, -Size(store[o][k]))
        /\ Since(o, k, "removed")
        /\ Returns(c)
        /\ UNCHANGED <<shared, stage, link, limits, timer, holder, now, destroyed, lost, crashed>>

\* and of all keys
RemoveAll(c) ==
    LET o == Target(c)
    IN  /\ Locks(c)
        /\ store' = [store EXCEPT ![o] = NoItems]
        /\ usedMem' = [usedMem EXCEPT ![o] = 0]
        /\ seen' = [d \in Cache |->
                       IF seen[d] # NoRead /\ Target(d) = o
                       THEN [seen[d] EXCEPT !.since = "removed"] ELSE seen[d]]
        /\ Returns(c)
        /\ UNCHANGED <<shared, stage, link, limits, timer, holder, now, destroyed, lost, crashed>>

Operation(c) ==
    \/ /\ "read" \in Ops
       /\ \E k \in Key : Read(c, k)
    \/ /\ "write" \in Ops
       /\ \E k \in Key, mode \in Modes, len \in Lens, until \in Dates,
            life \in Lifespans, check \in BOOLEAN : Write(c, k, mode, len, until, life, check)
    \/ /\ "inc" \in Ops
       /\ \E k \in Key, len \in Lens : Inc(c, k, len)
    \/ /\ "expire" \in Ops
       /\ \E k \in Key, until \in Dates : Expire(c, k, until)
    \/ /\ "remove" \in Ops
       /\ \/ \E k \in Key : RemoveKey(c, k)
          \/ RemoveAll(c)

-----------------------------------------------------------------------------
(***************************************************************************)
(* The pruner.                                                              *)
(***************************************************************************)
\* The keys and the memory are more than the limits, when only K are left
Over(o, K, used) ==
    \/ limits[o].keys # 0 /\ Cardinality(K) > limits[o].keys
    \/ limits[o].mem # 0 /\ used > limits[o].mem

\* The keys of K that are not due at time t
Undue(o, K, t) == {k \in K : ~Due(store[o][k], t)}

\* Mutant: every turn looks at the same time
PruneTurnStuck(o, s, factor) ==
    IF Over(o, s.keys, usedMem[o] - SizeOf(o, Keys(o) \ s.keys))
    THEN [keys |-> Undue(o, s.keys, s.when), when |-> s.when]
    ELSE s

\* One turn of the loop that prunes what is due the soonest
PruneTurn(o, s, factor) ==
    IF Over(o, s.keys, usedMem[o] - SizeOf(o, Keys(o) \ s.keys))
    THEN [keys |-> Undue(o, s.keys, s.when), when |-> s.when + factor]
    ELSE s

\* Mutant: the pruner runs once
TimerStops(kept) == FALSE

\* The event of the timer goes with the last item
TimerStays(kept) == kept # {}

\* The turns of that loop, after the one that prunes what is due now
Turns(o) ==
    LET turn[i \in 0..Len(Factors)] ==
            IF i = 0 THEN [keys |-> Undue(o, Keys(o), now), when |-> now]
            ELSE PruneTurn(o, turn[i - 1], Factors[i])
    IN  turn

\* The keys that are left when both loops have run
Kept(o) == Turns(o)[Len(Factors)].keys

\* localPruner.  The thread that runs it may be the one that holds the lock.
Prune(o) ==
    /\ ~crashed /\ timer[o]
    /\ \/ /\ stage[o] = "freed"
          /\ crashed' = TRUE
          /\ UNCHANGED <<store, usedMem, timer, seen>>
       \/ /\ stage[o] # "freed"
          /\ store' = [store EXCEPT ![o] = [k \in Key |-> IF k \in Kept(o) THEN store[o][k] ELSE NoItem]]
          /\ Count(o, -SizeOf(o, Keys(o) \ Kept(o)))
          /\ timer' = [timer EXCEPT ![o] = TimerStays(Kept(o))]
          /\ seen' = [d \in Cache |->
                         IF seen[d] # NoRead /\ Target(d) = o /\ seen[d].key \notin Kept(o)
                         THEN [seen[d] EXCEPT !.since = "removed"] ELSE seen[d]]
          /\ UNCHANGED crashed
    /\ UNCHANGED <<shared, stage, link, limits, holder, call, now, destroyed, lost>>

Tick ==
    /\ now < MaxTime
    /\ now' = now + 1
    /\ UNCHANGED <<shared, stage, link, store, usedMem, limits, timer, holder, call,
                   seen, destroyed, lost, crashed>>

-----------------------------------------------------------------------------
Next ==
    \/ \E c \in Cache, wantShared \in Shares, lim \in Limits : Construct(c, wantShared, lim)
    \/ \E c \in Cache : ConstructShared(c)
    \/ \E c, d \in Cache : Clone(c, d)
    \/ \E c \in Cache, lim \in Limits : SetLimits(c, lim)
    \/ \E c \in Cache : Destroy(c)
    \/ \E c \in Cache : DestroyTimer(c)
    \/ \E c \in Cache : Collect(c)
    \/ \E c \in Cache : Call(c)
    \/ \E c \in Cache : Operation(c)
    \/ \E o \in Cache : Prune(o)
    \/ Tick

Spec == Init /\ [][Next]_vars

\* A thread that has the lock goes on, and the runtime runs timers that are due
\* when the pruner can take the lock
Fairness ==
    /\ \A c \in Cache : WF_vars(Operation(c)) /\ WF_vars(DestroyTimer(c))
    /\ \A o \in Cache : WF_vars(holder[o] = Null /\ Prune(o))

FairSpec == Spec /\ Fairness

-----------------------------------------------------------------------------
(***************************************************************************)
(* Safety.                                                                  *)
(***************************************************************************)
\* usedMem, which the pruner holds against the memory limit and asserts not
\* to be negative (lines 477 and 499), never falls below what is stored,
\* whatever operations of several interpreters follow each other.
MemoryIsCounted == \A c \in Cache : usedMem[c] >= Stored(c)

\* A store with items has its timer, so that they are pruned: the pruner gives
\* it up with the last item and the next write starts it again, both under the
\* lock.  Only destroy, which takes no lock, leaves items without (line 84).
ItemsHaveTimer ==
    \A c \in Cache : (Keys(c) # {} /\ stage[c] = "made") => timer[c] \/ destroyed[c]

\* A conditional write never overwrites an update made since its version was
\* read, as long as the key has not been removed in between (lines 383 to 391,
\* and the version++ of write and inc).
CasSeesUpdates == ~lost

\* How far ahead of now the loop of the pruner has looked after each turn
Ahead[i \in 0..Len(Factors)] == IF i = 0 THEN 0 ELSE Ahead[i - 1] + Factors[i]
Horizon == Ahead[Len(Factors) - 1]

\* What the pruner leaves, and what it has taken
PrunedWell(o) ==
    /\ \/ ~Over(o, Keys(o), usedMem[o])'
       \/ \A k \in Keys(o)' : ~Due(store[o][k], now + Horizon)
    /\ \A k \in Keys(o) \ Keys(o)' :
           \/ Due(store[o][k], now)
           \/ /\ store[o][k].expires # 0
              /\ LET left == Undue(o, Keys(o), now)
                 IN  Over(o, left, usedMem[o] - SizeOf(o, Keys(o) \ left))

\* After the pruner has run, the store is within its limits or has no item left
\* that is due before the pruner's horizon; and an item that is not due is
\* pruned only from a store that is over its limits (lines 480 to 498).
PruneEnforcesLimits ==
    [][\A o \in Cache : (Prune(o) /\ ~crashed') => PrunedWell(o)]_vars

(***************************************************************************)
(* Liveness, under FairSpec.                                                *)
(***************************************************************************)
\* An item that is due is pruned, removed or renewed.
DueItemsGo ==
    \A o \in Cache, k \in Key :
        (stage[o] = "made" /\ store[o][k] # NoItem /\ Due(store[o][k], now))
            ~> (\/ store[o][k] = NoItem \/ ~Due(store[o][k], now)
                \/ destroyed[o] \/ holder[o] # Null \/ stage[o] = "freed" \/ crashed)

(***************************************************************************)
(* What the documentation and the assertions of the code say, and the code  *)
(* does not do.                                                             *)
(***************************************************************************)
\* LocalCache.es:20-21: "Multiple interpreters can use the local cache to
\* reliably share information".  The lock kept by a write blocks the others.
SharersAreNotBlocked == \A c \in Cache : call[c] = "op" ~> (call[c] = "idle" \/ crashed)

\* mpr.h:5556: "Use MPR_EVENT_STATIC_DATA if the data argument does not point
\* to an allocated memory object".  The cache is one, and may be collected.
PrunerFindsCache == \A c \in Cache : stage[c] = "freed" => ~timer[c]
=============================================================================
