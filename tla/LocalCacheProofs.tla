-------------------------- MODULE LocalCacheProofs --------------------------
(***************************************************************************)
(* Theorems about LocalCache, for any number of interpreters, caches, keys  *)
(* and items, any limits and any bounds.                                    *)
(***************************************************************************)
EXTENDS LocalCache, FiniteSetTheorems, WellFoundedInduction, TLAPS

-----------------------------------------------------------------------------
(***************************************************************************)
(* Items.                                                                   *)
(***************************************************************************)

\* An item is not the absence of one, nor a reading the absence of one.
LEMMA Absent == NoItem \notin Item /\ NoRead \notin Reading
<1>1. "none" \in DOMAIN NoItem /\ "none" \in DOMAIN NoRead
  BY DEF NoItem, NoRead
<1>2. \A item \in Item : DOMAIN item = {"len", "expires", "life", "version"}
  BY DEF Item
<1>3. \A r \in Reading : DOMAIN r = {"key", "version", "since"}
  BY DEF Reading
<1> QED BY <1>1, <1>2, <1>3

\* A write makes an item of what was there, one version later.
LEMMA WrittenType ==
    ASSUME now \in Nat, NEW old \in Item \cup {NoItem}, NEW mode \in Modes, NEW len \in Lens,
           NEW until \in Dates, NEW life \in Lifespans
    PROVE  /\ Written(old, mode, len, until, life) \in Item
           /\ old \in Item => Written(old, mode, len, until, life).version = old.version + 1
<1> USE DataAssumption
<1>1. len \in Nat /\ until \in Nat /\ life \in Nat
  OBVIOUS
<1> DEFINE new == CASE old = NoItem -> [len |-> len, expires |-> 0, life |-> 0, version |-> 0]
                    [] old # NoItem /\ mode = "set" -> [old EXCEPT !.len = len]
                    [] old # NoItem /\ mode = "append" -> [old EXCEPT !.len = @ + len]
                    [] OTHER -> old
<1>2. /\ new \in Item
      /\ old \in Item => new.version = old.version
  <2>1. CASE old = NoItem
    <3>1. new = [len |-> len, expires |-> 0, life |-> 0, version |-> 0]
      BY <2>1
    <3>2. old \notin Item
      BY <2>1, Absent
    <3> QED BY <3>1, <3>2, <1>1 DEF Item
  <2>2. CASE old \in Item
    <3>1. old # NoItem
      BY <2>2, Absent
    <3>2. \/ new = [old EXCEPT !.len = len]
          \/ new = [old EXCEPT !.len = old.len + len]
          \/ new = old
      BY <3>1
    <3>3. old.len \in Nat
      BY <2>2 DEF Item
    <3> HIDE DEF new
    <3> QED BY <2>2, <3>2, <3>3, <1>1 DEF Item
  <2> QED BY <2>1, <2>2
<1> HIDE DEF new
<1>3. /\ Dated(new, until, life) \in Item
      /\ Dated(new, until, life).version = new.version
  <2>1. now + life \in Nat
    BY <1>1
  <2> DEFINE made == Dated(new, until, life)
  <2>2. \/ made = [new EXCEPT !.expires = until, !.life = 0]
        \/ made = [new EXCEPT !.expires = 0]
        \/ made = [new EXCEPT !.expires = now + life, !.life = life]
    BY DEF Dated
  <2> SUFFICES made \in Item /\ made.version = new.version
    OBVIOUS
  <2> HIDE DEF made
  <2>3. CASE made = [new EXCEPT !.expires = until, !.life = 0]
    BY <1>1, <1>2, <2>3 DEF Item
  <2>4. CASE made = [new EXCEPT !.expires = 0]
    BY <1>1, <1>2, <2>4 DEF Item
  <2>5. CASE made = [new EXCEPT !.expires = now + life, !.life = life]
    BY <1>1, <1>2, <2>1, <2>5 DEF Item
  <2> QED BY <2>2, <2>3, <2>4, <2>5
<1> DEFINE dated == Dated(new, until, life)
<1>4. Written(old, mode, len, until, life) = NewVersion(dated)
  BY DEF Written, new
<1> HIDE DEF dated
<1>5. dated \in Item /\ dated.version = new.version
  BY <1>3 DEF dated
<1>6. dated.version \in Nat /\ NewVersion(dated) \in Item /\ NewVersion(dated).version = dated.version + 1
  BY <1>5 DEF Item, NewVersion
<1> QED BY <1>2, <1>4, <1>5, <1>6

-----------------------------------------------------------------------------
(***************************************************************************)
(* The inductive invariant.  A store is empty until its object is made,     *)
(* operations and links lead to objects that are made, and what an          *)
(* interpreter has read is in the store, as it was or updated, unless the   *)
(* key has been removed since.                                              *)
(***************************************************************************)
Made ==
    /\ \A c \in Cache : stage[c] \in {"none", "making"} => store[c] = NoItems
    /\ \A c \in Cache : stage[c] = "none" => seen[c] = NoRead
    /\ \A c \in Cache : call[c] # "idle" => stage[c] = "made"
    /\ \A c \in Cache : link[c] # Null => stage[link[c]] = "made"
    /\ shared # Null => stage[shared] = "made"

Current(r, item) ==
    r.since # "removed" =>
        /\ item # NoItem
        /\ r.since = "same" => item.version = r.version
        /\ r.since = "updated" => item.version > r.version

ReadingsHold ==
    \A d \in Cache : seen[d] # NoRead => Current(seen[d], store[Target(d)][seen[d].key])

Types == StoreTypeOK /\ UserTypeOK

Inv == Types /\ Made /\ ItemsHaveTimer /\ ReadingsHold /\ CasSeesUpdates

-----------------------------------------------------------------------------
(***************************************************************************)
(* What the helpers do to the store and to the readings.                    *)
(***************************************************************************)

\* The operations of an object that is made go to a store that is.
LEMMA TargetMade ==
    ASSUME Types, Made, NEW c \in Cache
    PROVE  /\ Target(c) \in Cache
           /\ stage[c] = "made" => stage[Target(c)] = "made"
<1>1. CASE link[c] = Null
  BY <1>1 DEF Target
<1>2. CASE link[c] # Null
  BY <1>2 DEF Target, Types, UserTypeOK, Made
<1> QED BY <1>1, <1>2

\* Put changes one key of one store.
LEMMA PutEffect ==
    ASSUME StoreTypeOK, NEW o \in Cache, NEW k \in Key, NEW item \in Item \cup {NoItem},
           Put(o, k, item)
    PROVE  /\ store' \in [Cache -> [Key -> Item \cup {NoItem}]]
           /\ store'[o][k] = item
           /\ \A p \in Cache, q \in Key : p # o \/ q # k => store'[p][q] = store[p][q]
           /\ \A p \in Cache : p # o => store'[p] = store[p]
BY DEF StoreTypeOK, Put

\* Since marks the readings of one key of one store, unless it was removed.
LEMMA SinceEffect ==
    ASSUME UserTypeOK, NEW o \in Cache, NEW k \in Key, NEW event \in {"updated", "removed"},
           Since(o, k, event)
    PROVE  /\ seen' \in [Cache -> Reading \cup {NoRead}]
           /\ \A d \in Cache :
                 /\ seen[d] = NoRead => seen'[d] = NoRead
                 /\ seen'[d] # NoRead =>
                       /\ seen[d] \in Reading
                       /\ seen'[d].key = seen[d].key
                       /\ seen'[d].version = seen[d].version
                       /\ \/ /\ Target(d) = o /\ seen[d].key = k /\ seen[d].since # "removed"
                             /\ seen'[d].since = event
                          \/ /\ ~(Target(d) = o /\ seen[d].key = k /\ seen[d].since # "removed")
                             /\ seen'[d] = seen[d]
<1>1. \A d \in Cache : seen[d] \in Reading \cup {NoRead}
  BY DEF UserTypeOK
<1>2. \A r \in Reading : /\ [r EXCEPT !.since = event] \in Reading
                        /\ [r EXCEPT !.since = event].key = r.key
                        /\ [r EXCEPT !.since = event].version = r.version
                        /\ [r EXCEPT !.since = event].since = event
  BY DEF Reading
<1>3. ASSUME NEW d \in Cache
      PROVE  \/ /\ seen[d] \in Reading /\ Target(d) = o /\ seen[d].key = k /\ seen[d].since # "removed"
                /\ seen'[d] = [seen[d] EXCEPT !.since = event]
             \/ /\ ~(seen[d] \in Reading /\ Target(d) = o /\ seen[d].key = k /\ seen[d].since # "removed")
                /\ seen'[d] = seen[d]
  BY <1>1, Absent DEF Since
<1>4. seen' \in [Cache -> Reading \cup {NoRead}]
  BY <1>1, <1>2, Absent DEF Since
<1> QED BY <1>1, <1>2, <1>3, <1>4, Absent

-----------------------------------------------------------------------------
(***************************************************************************)
(* The readings, when the store changes.                                    *)
(***************************************************************************)

\* An item that is new or has a later version keeps the readings.
LEMMA UpdateKeepsReadings ==
    ASSUME Types, ReadingsHold, NEW o \in Cache, NEW k \in Key, NEW item \in Item,
           store[o][k] \in Item => item.version = store[o][k].version + 1,
           Put(o, k, item), Since(o, k, "updated"), link' = link
    PROVE  ReadingsHold'
<1> SUFFICES ASSUME NEW d \in Cache, seen'[d] # NoRead
             PROVE  Current(seen'[d], store'[Target(d)][seen'[d].key])
  BY DEF ReadingsHold, Target
<1>1. /\ seen[d] \in Reading /\ seen[d] # NoRead
      /\ seen'[d].key = seen[d].key
      /\ seen'[d].version = seen[d].version
      /\ \/ /\ Target(d) = o /\ seen[d].key = k /\ seen[d].since # "removed"
            /\ seen'[d].since = "updated"
         \/ /\ ~(Target(d) = o /\ seen[d].key = k /\ seen[d].since # "removed")
            /\ seen'[d] = seen[d]
  BY SinceEffect DEF Types
<1>2. seen[d].key \in Key /\ seen[d].version \in Nat /\ Target(d) \in Cache
  BY <1>1 DEF Reading, Target, Types, UserTypeOK
<1>3. Current(seen[d], store[Target(d)][seen[d].key])
  BY <1>1 DEF ReadingsHold
<1>4. store[o][k] \in Item \cup {NoItem}
  BY DEF Types, StoreTypeOK
<1>5. /\ store'[o][k] = item
      /\ \A p \in Cache, q \in Key : p # o \/ q # k => store'[p][q] = store[p][q]
  BY PutEffect DEF Types
<1>6. CASE /\ Target(d) = o /\ seen[d].key = k /\ seen[d].since # "removed"
           /\ seen'[d].since = "updated"
  <2>1. store[o][k] # NoItem /\ store[o][k] \in Item
    BY <1>3, <1>4, <1>6 DEF Current
  <2>2. store[o][k].version \in Nat /\ store[o][k].version >= seen[d].version
    <3>1. store[o][k].version \in Nat
      BY <2>1 DEF Item
    <3>2. seen[d].since \in {"same", "updated"}
      BY <1>1, <1>6 DEF Reading
    <3>3. \/ store[o][k].version = seen[d].version
          \/ store[o][k].version > seen[d].version
      BY <1>3, <1>6, <3>2 DEF Current
    <3> QED BY <1>2, <3>1, <3>3
  <2>3. item.version > seen'[d].version
    BY <1>1, <1>2, <2>1, <2>2
  <2>4. item # NoItem
    BY Absent
  <2> QED BY <1>1, <1>5, <1>6, <2>3, <2>4 DEF Current
<1>7. CASE /\ ~(Target(d) = o /\ seen[d].key = k /\ seen[d].since # "removed")
           /\ seen'[d] = seen[d]
  <2>1. CASE seen[d].since = "removed"
    BY <1>7, <2>1 DEF Current
  <2>2. CASE Target(d) # o \/ seen[d].key # k
    BY <1>2, <1>3, <1>5, <1>7, <2>2
  <2> QED BY <1>7, <2>1, <2>2
<1> QED BY <1>1, <1>6, <1>7

\* A key that is removed keeps the readings, which are told.
LEMMA RemovalKeepsReadings ==
    ASSUME Types, ReadingsHold, NEW o \in Cache, NEW k \in Key,
           Put(o, k, NoItem), Since(o, k, "removed"), link' = link
    PROVE  ReadingsHold'
<1> SUFFICES ASSUME NEW d \in Cache, seen'[d] # NoRead
             PROVE  Current(seen'[d], store'[Target(d)][seen'[d].key])
  BY DEF ReadingsHold, Target
<1>1. /\ seen[d] \in Reading /\ seen[d] # NoRead
      /\ \/ seen'[d].since = "removed"
         \/ /\ ~(Target(d) = o /\ seen[d].key = k /\ seen[d].since # "removed")
            /\ seen'[d] = seen[d]
  BY SinceEffect DEF Types
<1>2. seen[d].key \in Key /\ Target(d) \in Cache
  BY <1>1 DEF Reading, Target, Types, UserTypeOK
<1>3. \A p \in Cache, q \in Key : p # o \/ q # k => store'[p][q] = store[p][q]
  BY PutEffect DEF Types
<1>4. CASE seen'[d].since = "removed"
  BY <1>4 DEF Current
<1>5. CASE seen[d].since # "removed" /\ seen'[d] = seen[d] /\ (Target(d) # o \/ seen[d].key # k)
  BY <1>1, <1>2, <1>3, <1>5 DEF ReadingsHold
<1> QED BY <1>1, <1>4, <1>5

\* A step that leaves all items but those with a key of K in the store of o
\* alone, and notes that these were removed.
Drops(o, K) ==
    /\ \A p \in Cache, q \in Key : p # o \/ q \notin K => store'[p][q] = store[p][q]
    /\ seen' = [d \in Cache |->
                   IF seen[d] # NoRead /\ Target(d) = o /\ seen[d].key \in K
                   THEN [seen[d] EXCEPT !.since = "removed"] ELSE seen[d]]

\* So do the keys of a store outside K, when K is all that it loses.
LEMMA DropKeepsReadings ==
    ASSUME Types, ReadingsHold, NEW o \in Cache, NEW K, Drops(o, K), link' = link
    PROVE  ReadingsHold' /\ seen' \in [Cache -> Reading \cup {NoRead}]
<1> USE DEF Drops
<1>1. \A r \in Reading : /\ [r EXCEPT !.since = "removed"] \in Reading
                        /\ [r EXCEPT !.since = "removed"].since = "removed"
  BY DEF Reading
<1>2. \A d \in Cache : seen[d] \in Reading \cup {NoRead}
  BY DEF Types, UserTypeOK
<1>3. seen' \in [Cache -> Reading \cup {NoRead}]
  BY <1>1, <1>2
<1>4. ASSUME NEW d \in Cache, seen'[d] # NoRead
      PROVE  Current(seen'[d], store'[Target(d)][seen'[d].key])
  <2>1. seen[d] \in Reading /\ seen[d] # NoRead
    BY <1>2, <1>4
  <2>2. seen[d].key \in Key /\ Target(d) \in Cache
    BY <2>1 DEF Reading, Target, Types, UserTypeOK
  <2>3. CASE Target(d) = o /\ seen[d].key \in K
    <3>1. seen'[d] = [seen[d] EXCEPT !.since = "removed"]
      BY <2>1, <2>3
    <3>2. seen'[d].since = "removed"
      BY <1>1, <2>1, <3>1
    <3> QED BY <3>2 DEF Current
  <2>4. CASE ~(Target(d) = o /\ seen[d].key \in K)
    <3>1. seen'[d] = seen[d]
      BY <2>4
    <3> QED BY <2>1, <2>2, <2>4, <3>1 DEF ReadingsHold
  <2> QED BY <2>3, <2>4
<1>5. ReadingsHold'
  BY <1>4 DEF ReadingsHold, Target
<1> QED BY <1>3, <1>5

-----------------------------------------------------------------------------
(***************************************************************************)
(* The operations.                                                          *)
(***************************************************************************)

\* An operation that has the lock leaves types and objects in order when it
\* changes no store but its own.
LEMMA OperationKeepsMade ==
    ASSUME Types, Made, NEW c \in Cache, Locks(c), Returns(c),
           UNCHANGED <<stage, link, shared, now>>,
           store' \in [Cache -> [Key -> Item \cup {NoItem}]],
           \A p \in Cache : p # Target(c) => store'[p] = store[p],
           seen' \in [Cache -> Reading \cup {NoRead}],
           \A d \in Cache : d # c /\ seen[d] = NoRead => seen'[d] = NoRead,
           timer' \in [Cache -> BOOLEAN], destroyed' \in [Cache -> BOOLEAN], lost' \in BOOLEAN
    PROVE  Types' /\ Made'
<1>1. call[c] = "op" /\ stage[c] = "made" /\ stage[Target(c)] = "made"
  BY TargetMade DEF Locks, Made
<1>2. call' \in [Cache -> {"idle", "op", "destroy"}] /\ \A d \in Cache : call'[d] \in {"idle", call[d]}
  BY DEF Returns, Types, UserTypeOK
<1>3. Types'
  BY <1>2 DEF Types, StoreTypeOK, UserTypeOK
<1>4. \A d \in Cache : stage[d] \in {"none", "making"} => store'[d] = NoItems
  BY <1>1 DEF Made
<1>5. \A d \in Cache : stage[d] = "none" => seen'[d] = NoRead
  BY <1>1 DEF Made
<1>6. NoItems' = NoItems
  BY DEF NoItems, NoItem
<1>7. Made'
  BY <1>2, <1>4, <1>5, <1>6 DEF Made, NoRead
<1> QED BY <1>3, <1>7

\* Items that stay have their timer, when it stays too.
LEMMA NoNewItemNeedsTimer ==
    ASSUME ItemsHaveTimer, UNCHANGED <<stage, timer, destroyed>>,
           \A p \in Cache, q \in Key : store'[p][q] # NoItem => store[p][q] # NoItem
    PROVE  ItemsHaveTimer'
BY DEF ItemsHaveTimer, Keys, NoItem

\* read
LEMMA ReadStep ==
    ASSUME Inv, NEW c \in Cache, NEW k \in Key, Read(c, k)
    PROVE  Inv'
<1> DEFINE item == store[Target(c)][k]
           r == IF item = NoItem THEN NoRead
                ELSE IF Due(item, now) THEN NoRead
                ELSE [key |-> k, version |-> item.version, since |-> "same"]
<1>1. /\ Types /\ Made /\ ItemsHaveTimer /\ ReadingsHold /\ CasSeesUpdates
      /\ Target(c) \in Cache
  BY TargetMade DEF Inv
<1>2. item \in Item \cup {NoItem}
  BY <1>1 DEF Types, StoreTypeOK
<1>3. /\ seen' = [seen EXCEPT ![c] = r]
      /\ Locks(c) /\ Returns(c)
      /\ UNCHANGED <<shared, stage, link, store, timer, now, destroyed, lost>>
  BY DEF Read
<1>4. r \in Reading \cup {NoRead} /\ (r # NoRead => Current(r, item) /\ r.key = k)
  <2> HIDE DEF item
  <2>1. CASE r = NoRead
    BY <2>1
  <2>2. CASE r # NoRead
    <3>1. item # NoItem /\ r = [key |-> k, version |-> item.version, since |-> "same"]
      BY <2>2
    <3>2. item.version \in Nat
      BY <1>2, <3>1 DEF Item
    <3> HIDE DEF r
    <3> QED BY <3>1, <3>2 DEF Reading, Current
  <2> QED BY <2>1, <2>2
<1> HIDE DEF r
<1>5. seen' \in [Cache -> Reading \cup {NoRead}] /\ \A d \in Cache : seen'[d] = IF d = c THEN r ELSE seen[d]
  BY <1>1, <1>3, <1>4 DEF Types, UserTypeOK
<1>6. Types' /\ Made'
  <2>1. /\ store' \in [Cache -> [Key -> Item \cup {NoItem}]]
        /\ \A p \in Cache : p # Target(c) => store'[p] = store[p]
        /\ timer' \in [Cache -> BOOLEAN] /\ destroyed' \in [Cache -> BOOLEAN] /\ lost' \in BOOLEAN
    BY <1>1, <1>3 DEF Types, StoreTypeOK, UserTypeOK
  <2> QED BY <1>1, <1>3, <1>5, <2>1, OperationKeepsMade
<1>7. ItemsHaveTimer'
  BY <1>1, <1>3, NoNewItemNeedsTimer
<1>8. ReadingsHold'
  <2> SUFFICES ASSUME NEW d \in Cache, seen'[d] # NoRead
               PROVE  Current(seen'[d], store[Target(d)][seen'[d].key])
    BY <1>3 DEF ReadingsHold, Target
  <2>1. CASE d = c
    BY <1>4, <1>5, <2>1
  <2>2. CASE d # c
    BY <1>1, <1>5, <2>2 DEF ReadingsHold
  <2> QED BY <2>1, <2>2
<1>9. CasSeesUpdates'
  BY <1>1, <1>3 DEF CasSeesUpdates
<1> QED BY <1>6, <1>7, <1>8, <1>9 DEF Inv

\* write: the version that a conditional write asks for is the one of the item,
\* and a reading that was updated since has an older one.
LEMMA WriteStep ==
    ASSUME Inv, NEW c \in Cache, NEW k \in Key, NEW mode \in Modes, NEW len \in Lens,
           NEW until \in Dates, NEW life \in Lifespans, NEW check \in BOOLEAN,
           Write(c, k, mode, len, until, life, check)
    PROVE  Inv'
<1> DEFINE o   == Target(c)
           old == store[o][k]
           new == Written(old, mode, len, until, life)
<1>1. /\ Types /\ Made /\ ItemsHaveTimer /\ ReadingsHold /\ CasSeesUpdates
      /\ o \in Cache
  BY TargetMade DEF Inv
<1>2. old \in Item \cup {NoItem} /\ now \in Nat
  BY <1>1 DEF Types, StoreTypeOK
<1>3. new \in Item /\ (old \in Item => new.version = old.version + 1)
  BY <1>2, WrittenType
<1> HIDE DEF new
<1>4. /\ Locks(c) /\ Returns(c)
      /\ check => seen[c] # NoRead /\ seen[c].key = k
      /\ UNCHANGED <<shared, stage, link, now>>
  BY DEF Write
<1>5. CASE UNCHANGED <<store, timer, seen, destroyed, lost>>
  <2>1. /\ store' \in [Cache -> [Key -> Item \cup {NoItem}]] /\ seen' \in [Cache -> Reading \cup {NoRead}]
        /\ timer' \in [Cache -> BOOLEAN] /\ destroyed' \in [Cache -> BOOLEAN] /\ lost' \in BOOLEAN
    BY <1>1, <1>5 DEF Types, StoreTypeOK, UserTypeOK
  <2>2. Types' /\ Made'
    BY <1>1, <1>4, <1>5, <2>1, OperationKeepsMade
  <2>3. ItemsHaveTimer'
    BY <1>1, <1>4, <1>5, NoNewItemNeedsTimer
  <2>4. ReadingsHold' /\ CasSeesUpdates'
    BY <1>1, <1>4, <1>5 DEF ReadingsHold, CasSeesUpdates, Target
  <2> QED BY <2>2, <2>3, <2>4 DEF Inv
<1>6. CASE /\ old # NoItem => (check => old.version = seen[c].version) /\ mode # "add"
           /\ Put(o, k, new)
           /\ timer' = [timer EXCEPT ![o] = TRUE]
           /\ destroyed' = [destroyed EXCEPT ![o] = FALSE]
           /\ lost' = (lost \/ (check /\ old # NoItem /\ seen[c].since = "updated"))
           /\ Since(o, k, "updated")
  <2>1. /\ store' \in [Cache -> [Key -> Item \cup {NoItem}]]
        /\ \A p \in Cache : p # o => store'[p] = store[p]
    BY <1>1, <1>3, <1>6, PutEffect DEF Types
  <2>2. /\ seen' \in [Cache -> Reading \cup {NoRead}]
        /\ \A d \in Cache : seen[d] = NoRead => seen'[d] = NoRead
    BY <1>1, <1>6, SinceEffect DEF Types
  <2>3. /\ timer' \in [Cache -> BOOLEAN] /\ \A p \in Cache : timer'[p] = (p = o \/ timer[p])
        /\ destroyed' \in [Cache -> BOOLEAN] /\ \A p \in Cache : p # o => destroyed'[p] = destroyed[p]
    BY <1>1, <1>6 DEF Types, StoreTypeOK
  <2>4. ~(check /\ old # NoItem /\ seen[c].since = "updated")
    <3> SUFFICES ASSUME check, old # NoItem, seen[c].since = "updated" PROVE FALSE
      OBVIOUS
    <3>1. Current(seen[c], old) /\ old.version = seen[c].version
      BY <1>1, <1>4, <1>6 DEF ReadingsHold
    <3>2. old.version > seen[c].version
      BY <3>1 DEF Current
    <3>3. old.version \in Nat
      BY <1>2 DEF Item
    <3> QED BY <3>1, <3>2, <3>3
  <2>5. lost' = FALSE
    BY <1>1, <1>6, <2>4 DEF CasSeesUpdates
  <2>6. Types' /\ Made'
    BY <1>1, <1>4, <2>1, <2>2, <2>3, <2>5, OperationKeepsMade
  <2>7. ItemsHaveTimer'
    <3> SUFFICES ASSUME NEW p \in Cache, Keys(p)' # {}, stage'[p] = "made"
                 PROVE  timer'[p] \/ destroyed'[p]
      BY DEF ItemsHaveTimer
    <3>1. CASE p = o
      BY <2>3, <3>1
    <3>2. CASE p # o
      <4>1. Keys(p)' = Keys(p)
        BY <2>1, <3>2 DEF Keys, NoItem
      <4> QED BY <1>1, <1>4, <2>3, <3>2, <4>1 DEF ItemsHaveTimer
    <3> QED BY <3>1, <3>2
  <2>8. ReadingsHold'
    BY <1>1, <1>3, <1>4, <1>6, UpdateKeepsReadings
  <2> QED BY <2>5, <2>6, <2>7, <2>8 DEF Inv, CasSeesUpdates
<1>7. \/ UNCHANGED <<store, timer, seen, destroyed, lost>>
      \/ /\ old # NoItem => (check => old.version = seen[c].version) /\ mode # "add"
         /\ Put(o, k, new)
         /\ timer' = [timer EXCEPT ![o] = TRUE]
         /\ destroyed' = [destroyed EXCEPT ![o] = FALSE]
         /\ lost' = (lost \/ (check /\ old # NoItem /\ seen[c].since = "updated"))
         /\ Since(o, k, "updated")
  BY DEF Write, new
<1> QED BY <1>5, <1>6, <1>7

\* An operation on one key that makes no item, drops none that is not told and
\* keeps the timer.
LEMMA OneKeyStep ==
    ASSUME Inv, NEW c \in Cache, NEW k \in Key, NEW item \in Item \cup {NoItem},
           Locks(c), Returns(c), Put(Target(c), k, item),
           store[Target(c)][k] = NoItem => item = NoItem,
           seen' \in [Cache -> Reading \cup {NoRead}],
           \A d \in Cache : seen[d] = NoRead => seen'[d] = NoRead,
           ReadingsHold',
           UNCHANGED <<shared, stage, link, timer, now, destroyed, lost>>
    PROVE  Inv'
<1>1. /\ Types /\ Made /\ ItemsHaveTimer /\ ReadingsHold /\ CasSeesUpdates
      /\ Target(c) \in Cache
  BY TargetMade DEF Inv
<1>2. /\ store' \in [Cache -> [Key -> Item \cup {NoItem}]]
      /\ store'[Target(c)][k] = item
      /\ \A p \in Cache, q \in Key : p # Target(c) \/ q # k => store'[p][q] = store[p][q]
      /\ \A p \in Cache : p # Target(c) => store'[p] = store[p]
  BY <1>1, PutEffect DEF Types
<1>3. timer' \in [Cache -> BOOLEAN] /\ destroyed' \in [Cache -> BOOLEAN] /\ lost' \in BOOLEAN
  BY <1>1 DEF Types, StoreTypeOK, UserTypeOK
<1>4. Types' /\ Made'
  BY <1>1, <1>2, <1>3, OperationKeepsMade
<1>5. \A p \in Cache, q \in Key : store'[p][q] # NoItem => store[p][q] # NoItem
  BY <1>1, <1>2
<1>6. ItemsHaveTimer'
  BY <1>1, <1>5, NoNewItemNeedsTimer
<1>7. CasSeesUpdates'
  BY <1>1 DEF CasSeesUpdates
<1> QED BY <1>4, <1>6, <1>7 DEF Inv

\* inc
LEMMA IncStep ==
    ASSUME Inv, NEW c \in Cache, NEW k \in Key, NEW len \in Lens, Inc(c, k, len)
    PROVE  Inv'
<1> DEFINE o    == Target(c)
           old  == store[o][k]
           item == NewVersion([old EXCEPT !.len = len, !.expires = now + old.life])
<1>1. /\ Types /\ Made /\ ItemsHaveTimer /\ ReadingsHold /\ CasSeesUpdates
      /\ o \in Cache
  BY TargetMade DEF Inv
<1>2. old \in Item \cup {NoItem} /\ now \in Nat
  BY <1>1 DEF Types, StoreTypeOK
<1>3. /\ Locks(c) /\ Returns(c)
      /\ UNCHANGED <<shared, stage, link, timer, now, destroyed, lost>>
      /\ \/ UNCHANGED <<store, seen>>
         \/ old # NoItem /\ Put(o, k, item) /\ Since(o, k, "updated")
  BY DEF Inc
<1>4. CASE UNCHANGED <<store, seen>>
  <2>1. Put(o, k, old)
    BY <1>1, <1>4 DEF Put, Types, StoreTypeOK
  <2>2. ReadingsHold' /\ seen' \in [Cache -> Reading \cup {NoRead}]
    BY <1>1, <1>3, <1>4 DEF ReadingsHold, Target, Types, UserTypeOK
  <2> QED BY <1>2, <1>3, <1>4, <2>1, <2>2, OneKeyStep
<1>5. CASE old # NoItem /\ Put(o, k, item) /\ Since(o, k, "updated")
  <2> HIDE DEF old
  <2>1. len \in Nat /\ now + old.life \in Nat /\ old.version \in Nat
    BY <1>2, <1>5, DataAssumption DEF Item
  <2>2. item \in Item /\ item.version = old.version + 1
    <3> DEFINE dated == [old EXCEPT !.len = len, !.expires = now + old.life]
    <3>1. dated \in Item /\ dated.version = old.version
      BY <1>2, <1>5, <2>1 DEF Item
    <3> HIDE DEF dated
    <3>2. NewVersion(dated) \in Item /\ NewVersion(dated).version = dated.version + 1
      BY <2>1, <3>1 DEF Item, NewVersion
    <3> QED BY <3>1, <3>2 DEF dated
  <2> HIDE DEF item
  <2> USE DEF old
  <2>3. ReadingsHold'
    BY <1>1, <1>3, <1>5, <2>2, UpdateKeepsReadings
  <2>4. /\ seen' \in [Cache -> Reading \cup {NoRead}]
        /\ \A d \in Cache : seen[d] = NoRead => seen'[d] = NoRead
    BY <1>1, <1>5, SinceEffect DEF Types
  <2> QED BY <1>3, <1>5, <2>2, <2>3, <2>4, OneKeyStep
<1> QED BY <1>3, <1>4, <1>5

\* remove, and expire with no date
LEMMA RemoveStep ==
    ASSUME Inv, NEW c \in Cache, NEW k \in Key, Locks(c), Returns(c),
           Put(Target(c), k, NoItem), Since(Target(c), k, "removed"),
           UNCHANGED <<shared, stage, link, timer, now, destroyed, lost>>
    PROVE  Inv'
<1>1. Types /\ Made /\ ReadingsHold /\ Target(c) \in Cache
  BY TargetMade DEF Inv
<1>2. ReadingsHold'
  BY <1>1, RemovalKeepsReadings
<1>3. /\ seen' \in [Cache -> Reading \cup {NoRead}]
      /\ \A d \in Cache : seen[d] = NoRead => seen'[d] = NoRead
  BY <1>1, SinceEffect DEF Types
<1> QED BY <1>2, <1>3, OneKeyStep

\* expire
LEMMA ExpireStep ==
    ASSUME Inv, NEW c \in Cache, NEW k \in Key, NEW until \in Dates, Expire(c, k, until)
    PROVE  Inv'
<1> DEFINE o   == Target(c)
           old == store[o][k]
           item == [old EXCEPT !.expires = until, !.life = 0]
<1>1. /\ Types /\ Made /\ ReadingsHold /\ o \in Cache
  BY TargetMade DEF Inv
<1>2. old \in Item \cup {NoItem} /\ until \in Nat
  BY <1>1, DataAssumption DEF Types, StoreTypeOK
<1>3. /\ Locks(c) /\ Returns(c)
      /\ UNCHANGED <<shared, stage, link, timer, now, destroyed, lost>>
      /\ \/ UNCHANGED <<store, seen>>
         \/ old # NoItem /\ Put(o, k, item) /\ UNCHANGED seen
         \/ Put(o, k, NoItem) /\ Since(o, k, "removed")
  BY DEF Expire
<1>4. seen \in [Cache -> Reading \cup {NoRead}]
  BY <1>1 DEF Types, UserTypeOK
<1>5. CASE UNCHANGED <<store, seen>>
  <2>1. Put(o, k, old)
    BY <1>1, <1>5 DEF Put, Types, StoreTypeOK
  <2>2. ReadingsHold'
    BY <1>1, <1>3, <1>5 DEF ReadingsHold, Target
  <2> QED BY <1>2, <1>3, <1>4, <1>5, <2>1, <2>2, OneKeyStep
<1>6. CASE old # NoItem /\ Put(o, k, item) /\ UNCHANGED seen
  <2>1. item \in Item /\ item.version = old.version /\ item # NoItem
    <3> HIDE DEF old
    <3>1. item \in Item /\ item.version = old.version
      BY <1>2, <1>6 DEF Item
    <3> QED BY <3>1, Absent
  <2> HIDE DEF item
  <2>2. /\ store'[o][k] = item
        /\ \A p \in Cache, q \in Key : p # o \/ q # k => store'[p][q] = store[p][q]
    BY <1>1, <1>6, <2>1, PutEffect DEF Types
  <2>3. ASSUME NEW d \in Cache, seen[d] # NoRead
        PROVE  Current(seen[d], store'[Target(d)][seen[d].key])
    <3>1. seen[d].key \in Key /\ Target(d) \in Cache
      BY <1>1, <1>4, <2>3 DEF Reading, Target, Types, UserTypeOK
    <3>2. Current(seen[d], store[Target(d)][seen[d].key])
      BY <1>1, <2>3 DEF ReadingsHold
    <3>3. CASE Target(d) = o /\ seen[d].key = k
      BY <2>1, <2>2, <3>2, <3>3 DEF Current
    <3>4. CASE Target(d) # o \/ seen[d].key # k
      BY <2>2, <3>1, <3>2, <3>4
    <3> QED BY <3>3, <3>4
  <2>4. ReadingsHold'
    BY <1>3, <1>6, <2>3 DEF ReadingsHold, Target
  <2> QED BY <1>3, <1>4, <1>6, <2>1, <2>4, OneKeyStep
<1>7. CASE Put(o, k, NoItem) /\ Since(o, k, "removed")
  BY <1>3, <1>7, RemoveStep
<1> QED BY <1>3, <1>5, <1>6, <1>7

\* remove of all keys
LEMMA RemoveAllStep ==
    ASSUME Inv, NEW c \in Cache, RemoveAll(c)
    PROVE  Inv'
<1> DEFINE o == Target(c)
<1>1. /\ Types /\ Made /\ ItemsHaveTimer /\ ReadingsHold /\ CasSeesUpdates
      /\ o \in Cache
  BY TargetMade DEF Inv
<1>2. /\ Locks(c) /\ Returns(c)
      /\ UNCHANGED <<shared, stage, link, timer, now, destroyed, lost>>
      /\ store' = [store EXCEPT ![o] = NoItems]
  BY DEF RemoveAll
<1>3. /\ store' \in [Cache -> [Key -> Item \cup {NoItem}]]
      /\ \A p \in Cache : p # o => store'[p] = store[p]
      /\ \A q \in Key : store'[o][q] = NoItem
  BY <1>1, <1>2 DEF Types, StoreTypeOK, NoItems
<1>4. seen' = [d \in Cache |->
                 IF seen[d] # NoRead /\ Target(d) = o /\ seen[d].key \in Key
                 THEN [seen[d] EXCEPT !.since = "removed"] ELSE seen[d]]
  <2>1. \A d \in Cache : seen[d] # NoRead => seen[d].key \in Key
    BY <1>1 DEF Types, UserTypeOK, Reading
  <2> QED BY <2>1 DEF RemoveAll
<1>5. ReadingsHold' /\ seen' \in [Cache -> Reading \cup {NoRead}]
  <2>1. Drops(o, Key)
    BY <1>3, <1>4 DEF Drops
  <2>2. link' = link
    BY <1>2
  <2> HIDE DEF o
  <2> QED BY <1>1, <2>1, <2>2, DropKeepsReadings
<1>6. \A d \in Cache : seen[d] = NoRead => seen'[d] = NoRead
  BY <1>4
<1>7. timer' \in [Cache -> BOOLEAN] /\ destroyed' \in [Cache -> BOOLEAN] /\ lost' \in BOOLEAN
  BY <1>1, <1>2 DEF Types, StoreTypeOK, UserTypeOK
<1>8. Types' /\ Made'
  BY <1>1, <1>2, <1>3, <1>5, <1>6, <1>7, OperationKeepsMade
<1>9. ItemsHaveTimer'
  BY <1>1, <1>2, <1>3, NoNewItemNeedsTimer
<1> QED BY <1>1, <1>2, <1>5, <1>8, <1>9 DEF Inv, CasSeesUpdates

\* The pruner gives its timer up only when it leaves no item.
LEMMA PruneStep ==
    ASSUME Inv, NEW o \in Cache, Prune(o)
    PROVE  Inv'
<1> DEFINE kept == Kept(o)
<1>1. Types /\ Made /\ ItemsHaveTimer /\ ReadingsHold /\ CasSeesUpdates
  BY DEF Inv
<1>2. UNCHANGED <<shared, stage, link, call, now, destroyed, lost>>
  BY DEF Prune
<1>3. CASE UNCHANGED <<store, timer, seen>>
  BY <1>1, <1>2, <1>3 DEF Inv, Types, StoreTypeOK, UserTypeOK, Made, ItemsHaveTimer, Keys,
                          ReadingsHold, Target, CasSeesUpdates, NoItem, NoItems, NoRead
<1>4. CASE /\ store' = [store EXCEPT ![o] = [q \in Key |-> IF q \in kept THEN store[o][q] ELSE NoItem]]
           /\ timer' = [timer EXCEPT ![o] = TimerStays(kept)]
           /\ seen' = [d \in Cache |->
                          IF seen[d] # NoRead /\ Target(d) = o /\ seen[d].key \notin kept
                          THEN [seen[d] EXCEPT !.since = "removed"] ELSE seen[d]]
  <2> HIDE DEF kept
  <2> DEFINE K == {q \in Key : q \notin kept}
  <2>1. /\ store' \in [Cache -> [Key -> Item \cup {NoItem}]]
        /\ \A p \in Cache : p # o => store'[p] = store[p]
        /\ \A q \in Key : store'[o][q] = IF q \in kept THEN store[o][q] ELSE NoItem
    BY <1>1, <1>4 DEF Types, StoreTypeOK
  <2>2. /\ timer' \in [Cache -> BOOLEAN]
        /\ \A p \in Cache : timer'[p] = IF p = o THEN kept # {} ELSE timer[p]
    BY <1>1, <1>4 DEF Types, StoreTypeOK, TimerStays
  <2>3. seen' = [d \in Cache |->
                   IF seen[d] # NoRead /\ Target(d) = o /\ seen[d].key \in K
                   THEN [seen[d] EXCEPT !.since = "removed"] ELSE seen[d]]
    <3>1. \A d \in Cache : seen[d] # NoRead => seen[d].key \in Key
      BY <1>1 DEF Types, UserTypeOK, Reading
    <3> QED BY <1>4, <3>1
  <2>4. \A p \in Cache, q \in Key : p # o \/ q \notin K => store'[p][q] = store[p][q]
    BY <2>1
  <2>5. ReadingsHold' /\ seen' \in [Cache -> Reading \cup {NoRead}]
    <3>1. Drops(o, K)
      BY <2>3, <2>4 DEF Drops
    <3>2. link' = link
      BY <1>2
    <3> HIDE DEF K
    <3> QED BY <1>1, <3>1, <3>2, DropKeepsReadings
  <2>6. Types'
    BY <1>1, <1>2, <2>1, <2>2, <2>5 DEF Types, StoreTypeOK, UserTypeOK
  <2>7. Made'
    <3>1. ASSUME NEW d \in Cache, stage[d] \in {"none", "making"}
          PROVE  store'[d] = NoItems
      <4>1. CASE d = o
        <5>1. \A q \in Key : store'[o][q] = NoItem
          BY <1>1, <2>1, <3>1, <4>1 DEF Made, NoItems
        <5> QED BY <2>1, <4>1, <5>1 DEF NoItems
      <4>2. CASE d # o
        BY <1>1, <2>1, <3>1, <4>2 DEF Made
      <4> QED BY <4>1, <4>2
    <3>2. \A d \in Cache : seen[d] = NoRead => seen'[d] = NoRead
      BY <2>3
    <3> QED BY <1>1, <1>2, <3>1, <3>2 DEF Made, NoItems, NoItem, NoRead
  <2>8. ItemsHaveTimer'
    <3> SUFFICES ASSUME NEW p \in Cache, Keys(p)' # {}, stage'[p] = "made"
                 PROVE  timer'[p] \/ destroyed'[p]
      BY DEF ItemsHaveTimer
    <3>1. CASE p = o
      <4>1. PICK q \in Key : store'[o][q] # NoItem
        BY <3>1 DEF Keys, NoItem
      <4>2. q \in kept
        BY <2>1, <4>1
      <4> QED BY <2>2, <3>1, <4>2
    <3>2. CASE p # o
      <4>1. Keys(p)' = Keys(p)
        BY <2>1, <3>2 DEF Keys, NoItem
      <4> QED BY <1>1, <1>2, <2>2, <3>2, <4>1 DEF ItemsHaveTimer
    <3> QED BY <3>1, <3>2
  <2> QED BY <1>1, <1>2, <2>5, <2>6, <2>7, <2>8 DEF Inv, CasSeesUpdates
<1> QED BY <1>3, <1>4 DEF Prune

-----------------------------------------------------------------------------
(***************************************************************************)
(* The objects.                                                             *)
(***************************************************************************)

\* A step that changes neither items nor readings, nor the links of objects
\* that are made, keeps what was read; and the timers, when it lets none go
\* but by destroy.
LEMMA QuietStep ==
    ASSUME Types, ItemsHaveTimer, ReadingsHold, CasSeesUpdates,
           \A d \in Cache : seen[d] # NoRead => Target(d)' = Target(d),
           UNCHANGED <<store, seen, lost>>,
           \A d \in Cache : stage'[d] = "made" => stage[d] = "made" \/ store[d] = NoItems,
           \A d \in Cache : timer[d] \/ destroyed[d] => timer'[d] \/ destroyed'[d]
    PROVE  ItemsHaveTimer' /\ ReadingsHold' /\ CasSeesUpdates'
<1>1. \A d \in Cache : store[d] = NoItems => Keys(d) = {}
  BY DEF Keys, NoItems
<1>2. \A d \in Cache : Keys(d)' = Keys(d)
  BY DEF Keys, NoItem
<1>3. ItemsHaveTimer'
  BY <1>1, <1>2 DEF ItemsHaveTimer
<1>4. ReadingsHold'
  BY DEF ReadingsHold, NoRead, Current, NoItem
<1> QED BY <1>3, <1>4 DEF CasSeesUpdates

\* The constructor, up to its test of the singleton and from there on.
LEMMA ConstructStep ==
    ASSUME Inv, NEW c \in Cache,
           \/ \E wantShared \in Shares, lim \in Limits : Construct(c, wantShared, lim)
           \/ ConstructShared(c)
    PROVE  Inv'
<1>1. Types /\ Made /\ ItemsHaveTimer /\ ReadingsHold /\ CasSeesUpdates
  BY DEF Inv
<1>2. UNCHANGED <<store, timer, call, now, seen, destroyed, lost>>
  BY DEF Construct, ConstructShared
<1>3. /\ stage[c] \in {"none", "making"}
      /\ stage' \in [Cache -> {"none", "making", "made", "freed"}]
      /\ \A d \in Cache : d # c => stage'[d] = stage[d]
      /\ stage'[c] \in {"making", "made"}
  BY <1>1 DEF Construct, ConstructShared, Types, UserTypeOK
<1>4. /\ shared' \in {shared, c} /\ (shared' # shared => stage'[c] = "made")
      /\ \/ link' = link
         \/ stage[c] = "none" /\ shared # Null /\ link' = [link EXCEPT ![c] = shared]
  BY <1>1, <1>3 DEF Construct, ConstructShared, Types, UserTypeOK
<1>5. /\ link' \in [Cache -> Cache \cup {Null}] /\ shared' \in Cache \cup {Null}
      /\ \A d \in Cache : link'[d] # link[d] => d = c /\ stage[c] = "none" /\ shared # Null /\ link'[c] = shared
  BY <1>1, <1>4 DEF Types, UserTypeOK
<1>6. Types'
  BY <1>1, <1>2, <1>3, <1>5 DEF Types, StoreTypeOK, UserTypeOK
<1>7. Made'
  <2>1. \A d \in Cache : stage[d] = "made" => stage'[d] = "made"
    BY <1>3
  <2>2. \A d \in Cache : stage'[d] \in {"none", "making"} => stage[d] \in {"none", "making"}
    BY <1>3
  <2>3. \A d \in Cache : stage'[d] = "none" => stage[d] = "none"
    BY <1>3
  <2>4. \A d \in Cache : link'[d] # Null => stage'[link'[d]] = "made"
    BY <1>1, <1>5, <2>1 DEF Made, Types, UserTypeOK
  <2>5. shared' # Null => stage'[shared'] = "made"
    BY <1>1, <1>4, <2>1 DEF Made, Types, UserTypeOK
  <2> QED BY <1>1, <1>2, <2>1, <2>2, <2>3, <2>4, <2>5 DEF Made, NoItems, NoItem, NoRead
<1>8. \A d \in Cache : seen[d] # NoRead => Target(d)' = Target(d)
  BY <1>1, <1>5 DEF Made, Target
<1>9. \A d \in Cache : stage'[d] = "made" => stage[d] = "made" \/ store[d] = NoItems
  BY <1>1, <1>3 DEF Made
<1>10. ItemsHaveTimer' /\ ReadingsHold' /\ CasSeesUpdates'
  BY <1>1, <1>2, <1>8, <1>9, QuietStep
<1> QED BY <1>6, <1>7, <1>10 DEF Inv

\* clone
LEMMA CloneStep ==
    ASSUME Inv, NEW c \in Cache, NEW d \in Cache, Clone(c, d)
    PROVE  Inv'
<1>1. Types /\ Made /\ ItemsHaveTimer /\ ReadingsHold /\ CasSeesUpdates
  BY DEF Inv
<1>2. /\ UNCHANGED <<shared, store, timer, call, now, seen, destroyed, lost>>
      /\ stage[c] = "made" /\ stage[d] = "none" /\ stage' = [stage EXCEPT ![d] = "made"]
      /\ link' = link \/ link' = [link EXCEPT ![d] = Target(c)]
  BY DEF Clone, Idle
<1>3. Target(c) \in Cache /\ stage[Target(c)] = "made"
  BY <1>1, <1>2, TargetMade
<1>4. /\ stage' \in [Cache -> {"none", "making", "made", "freed"}]
      /\ \A e \in Cache : stage'[e] = IF e = d THEN "made" ELSE stage[e]
      /\ link' \in [Cache -> Cache \cup {Null}]
      /\ \A e \in Cache : link'[e] # link[e] => e = d /\ link'[e] = Target(c)
  BY <1>1, <1>2, <1>3 DEF Types, UserTypeOK
<1>5. Types'
  BY <1>1, <1>2, <1>4 DEF Types, StoreTypeOK, UserTypeOK
<1>6. Made'
  <2>1. \A e \in Cache : link'[e] # Null => stage'[link'[e]] = "made"
    BY <1>1, <1>3, <1>4 DEF Made, Types, UserTypeOK
  <2>2. shared # Null => stage'[shared] = "made"
    BY <1>1, <1>4 DEF Made, Types, UserTypeOK
  <2> QED BY <1>1, <1>2, <1>4, <2>1, <2>2 DEF Made, NoItems, NoItem, NoRead
<1>7. \A e \in Cache : seen[e] # NoRead => Target(e)' = Target(e)
  BY <1>1, <1>2, <1>4 DEF Made, Target
<1>8. \A e \in Cache : stage'[e] = "made" => stage[e] = "made" \/ store[e] = NoItems
  BY <1>1, <1>2, <1>4 DEF Made
<1>9. ItemsHaveTimer' /\ ReadingsHold' /\ CasSeesUpdates'
  BY <1>1, <1>2, <1>7, <1>8, QuietStep
<1> QED BY <1>5, <1>6, <1>9 DEF Inv

\* The collector takes an object that no other one is linked to.
LEMMA CollectStep ==
    ASSUME Inv, NEW c \in Cache, Collect(c)
    PROVE  Inv'
<1>1. Types /\ Made /\ ItemsHaveTimer /\ ReadingsHold /\ CasSeesUpdates
  BY DEF Inv
<1>2. /\ UNCHANGED <<store, timer, call, now, destroyed, lost>>
      /\ call[c] = "idle" /\ \A d \in Cache : link[d] # c
      /\ stage' = [stage EXCEPT ![c] = "freed"]
      /\ link' = [link EXCEPT ![c] = Null]
      /\ shared' = IF c = shared THEN Null ELSE shared
      /\ seen' = [seen EXCEPT ![c] = NoRead]
  BY DEF Collect, Idle
<1>3. /\ stage' \in [Cache -> {"none", "making", "made", "freed"}]
      /\ \A d \in Cache : stage'[d] = IF d = c THEN "freed" ELSE stage[d]
      /\ link' \in [Cache -> Cache \cup {Null}]
      /\ \A d \in Cache : link'[d] = IF d = c THEN Null ELSE link[d]
      /\ seen' \in [Cache -> Reading \cup {NoRead}]
      /\ \A d \in Cache : seen'[d] = IF d = c THEN NoRead ELSE seen[d]
      /\ shared' \in Cache \cup {Null}
  BY <1>1, <1>2 DEF Types, UserTypeOK
<1>4. Types'
  BY <1>1, <1>2, <1>3 DEF Types, StoreTypeOK, UserTypeOK
<1>5. Made'
  <2>1. \A d \in Cache : link'[d] # Null => stage'[link'[d]] = "made"
    BY <1>1, <1>2, <1>3 DEF Made, Types, UserTypeOK
  <2>2. shared' # Null => stage'[shared'] = "made"
    BY <1>1, <1>2, <1>3 DEF Made, Types, UserTypeOK
  <2>3. \A d \in Cache : stage'[d] \in {"none", "making"} => store'[d] = NoItems
    BY <1>1, <1>2, <1>3 DEF Made
  <2>4. \A d \in Cache : stage'[d] = "none" => seen'[d] = NoRead
    BY <1>1, <1>2, <1>3 DEF Made
  <2>5. \A d \in Cache : call'[d] # "idle" => stage'[d] = "made"
    BY <1>1, <1>2, <1>3 DEF Made
  <2> QED BY <2>1, <2>2, <2>3, <2>4, <2>5 DEF Made, NoItems, NoItem, NoRead
<1>6. ItemsHaveTimer'
  <2>1. \A d \in Cache : Keys(d)' = Keys(d)
    BY <1>2 DEF Keys, NoItem
  <2> QED BY <1>1, <1>2, <1>3, <2>1 DEF ItemsHaveTimer
<1>7. ReadingsHold'
  <2> SUFFICES ASSUME NEW d \in Cache, seen'[d] # NoRead
               PROVE  Current(seen'[d], store[Target(d)'][seen'[d].key])
    BY <1>2 DEF ReadingsHold, NoRead, Current, NoItem
  <2>1. d # c /\ seen'[d] = seen[d] /\ Target(d)' = Target(d)
    BY <1>3 DEF Target
  <2> QED BY <1>1, <2>1 DEF ReadingsHold
<1> QED BY <1>1, <1>2, <1>4, <1>5, <1>6, <1>7 DEF Inv, CasSeesUpdates

\* Calls, limits, destroy and time.
LEMMA CallStep ==
    ASSUME Inv,
           \/ Tick
           \/ \E c \in Cache : Call(c) \/ Destroy(c) \/ DestroyTimer(c)
           \/ \E c \in Cache, lim \in Limits : SetLimits(c, lim)
    PROVE  Inv'
<1>1. Types /\ Made /\ ItemsHaveTimer /\ ReadingsHold /\ CasSeesUpdates
  BY DEF Inv
<1>2. UNCHANGED <<stage, link, store, seen, lost>>
  BY DEF Call, SetLimits, Destroy, DestroyTimer, Tick
<1>3. /\ shared' \in {shared, Null}
      /\ now' \in Nat
      /\ call' \in [Cache -> {"idle", "op", "destroy"}]
      /\ \A d \in Cache : call'[d] # "idle" => stage[d] = "made"
      /\ timer' \in [Cache -> BOOLEAN] /\ destroyed' \in [Cache -> BOOLEAN]
      /\ \A d \in Cache : timer[d] \/ destroyed[d] => timer'[d] \/ destroyed'[d]
  <2>1. ASSUME NEW c \in Cache, Call(c)
        PROVE  <1>3!:
    BY <1>1, <2>1 DEF Call, Idle, Types, StoreTypeOK, UserTypeOK, Made
  <2>2. ASSUME NEW c \in Cache, NEW lim \in Limits, SetLimits(c, lim)
        PROVE  <1>3!:
    BY <1>1, <2>2 DEF SetLimits, Types, StoreTypeOK, UserTypeOK, Made
  <2>3. ASSUME NEW c \in Cache, Destroy(c)
        PROVE  <1>3!:
    BY <1>1, <2>3 DEF Destroy, Idle, Types, StoreTypeOK, UserTypeOK, Made
  <2>4. ASSUME NEW c \in Cache, DestroyTimer(c)
        PROVE  <1>3!:
    BY <1>1, <2>4 DEF DestroyTimer, Types, StoreTypeOK, UserTypeOK, Made
  <2>5. CASE Tick
    BY <1>1, <2>5 DEF Tick, Types, StoreTypeOK, UserTypeOK, Made
  <2> QED BY <2>1, <2>2, <2>3, <2>4, <2>5
<1>4. Types'
  BY <1>1, <1>2, <1>3 DEF Types, StoreTypeOK, UserTypeOK
<1>5. Made'
  BY <1>1, <1>2, <1>3 DEF Made, NoItems, NoItem, NoRead
<1>6. \A d \in Cache : seen[d] # NoRead => Target(d)' = Target(d)
  BY <1>2 DEF Target
<1>7. ItemsHaveTimer' /\ ReadingsHold' /\ CasSeesUpdates'
  BY <1>1, <1>2, <1>3, <1>6, QuietStep
<1> QED BY <1>4, <1>5, <1>7 DEF Inv

-----------------------------------------------------------------------------
(***************************************************************************)
(* The theorems.                                                            *)
(***************************************************************************)

\* No object, no item and no reading to begin with.
LEMMA InitInv == Init => Inv
<1> SUFFICES ASSUME Init PROVE Inv
  OBVIOUS
<1>1. StoreTypeOK
  BY DEF Init, StoreTypeOK, NoItems
<1>2. UserTypeOK
  BY DEF Init, UserTypeOK
<1>3. Made
  BY DEF Init, Made
<1>4. ItemsHaveTimer /\ ReadingsHold /\ CasSeesUpdates
  BY DEF Init, ItemsHaveTimer, ReadingsHold, CasSeesUpdates, Keys, NoItems
<1> QED BY <1>1, <1>2, <1>3, <1>4 DEF Inv, Types

\* Every step keeps the invariant.
LEMMA NextInv == Inv /\ [Next]_vars => Inv'
<1> SUFFICES ASSUME Inv, [Next]_vars PROVE Inv'
  OBVIOUS
<1>1. ASSUME NEW c \in Cache,
             \/ \E wantShared \in Shares, lim \in Limits : Construct(c, wantShared, lim)
             \/ ConstructShared(c)
      PROVE  Inv'
  BY <1>1, ConstructStep
<1>2. ASSUME NEW c \in Cache, NEW d \in Cache, Clone(c, d)
      PROVE  Inv'
  BY <1>2, CloneStep
<1>3. CASE \/ Tick
           \/ \E c \in Cache : Call(c) \/ Destroy(c) \/ DestroyTimer(c)
           \/ \E c \in Cache, lim \in Limits : SetLimits(c, lim)
  BY <1>3, CallStep
<1>4. ASSUME NEW c \in Cache, Collect(c)
      PROVE  Inv'
  BY <1>4, CollectStep
<1>5. ASSUME NEW c \in Cache, Operation(c)
      PROVE  Inv'
  <2>1. ASSUME NEW k \in Key, RemoveKey(c, k)
        PROVE  Inv'
    BY <2>1, RemoveStep DEF RemoveKey
  <2> QED BY <1>5, <2>1, ReadStep, WriteStep, IncStep, ExpireStep, RemoveAllStep DEF Operation
<1>6. ASSUME NEW o \in Cache, Prune(o)
      PROVE  Inv'
  BY <1>6, PruneStep
<1>7. CASE UNCHANGED vars
  BY <1>7 DEF vars, Inv, Types, StoreTypeOK, UserTypeOK, Made, ItemsHaveTimer, Keys, ReadingsHold,
              Target, CasSeesUpdates, NoItem, NoItems, NoRead
<1> QED BY <1>1, <1>2, <1>3, <1>4, <1>5, <1>6, <1>7 DEF Next

\* The invariant holds in every state the cache can be in.
THEOREM Invariance == Spec => []Inv
<1> QED BY InitInv, NextInv, PTL DEF Spec

\* A conditional write never overwrites an update that came after the reading
\* of the version it asks for, whatever the caches, keys and interpreters.
THEOREM ConditionalWritesSeeUpdates == Spec => []CasSeesUpdates
<1>1. Inv => CasSeesUpdates
  BY DEF Inv
<1> QED BY <1>1, Invariance, PTL

\* A store with items has its timer, unless destroy took it away.
THEOREM PrunerIsScheduled == Spec => []ItemsHaveTimer
<1>1. Inv => ItemsHaveTimer
  BY DEF Inv
<1> QED BY <1>1, Invariance, PTL
-----------------------------------------------------------------------------
(***************************************************************************)
(* The memory.  What a store holds is counted byte by byte, so that a change *)
(* of an item is one of the bytes of its key.                               *)
(***************************************************************************)
Contents == [Key -> Item \cup {NoItem}]
Cells(st, K) == UNION {{k} \X (1..Size(st[k])) : k \in K}

\* An item takes memory, and no item none.
LEMMA SizeIs ==
    ASSUME NEW item \in Item \cup {NoItem}
    PROVE  Size(item) \in Nat /\ Size(NoItem) = 0 /\ (item \in Item => Size(item) = KeyLen + item.len)
<1>1. item # NoItem => item.len \in Nat
  BY DEF Item
<1>2. item \in Item => item # NoItem
  BY Absent
<1> QED BY <1>1, <1>2, DataAssumption DEF Size

\* The bytes of a key are as many as its item has.
LEMMA CellsOfKey ==
    ASSUME NEW k, NEW n \in Nat
    PROVE  IsFiniteSet({k} \X (1..n)) /\ Cardinality({k} \X (1..n)) = n
<1>1. IsFiniteSet({k}) /\ Cardinality({k}) = 1
  BY FS_Singleton
<1>2. IsFiniteSet(1..n) /\ Cardinality(1..n) = n
  BY FS_Interval
<1>3. IsFiniteSet({k} \X (1..n)) /\ Cardinality({k} \X (1..n)) = Cardinality({k}) * Cardinality(1..n)
  BY <1>1, <1>2, FS_Product
<1> QED BY <1>1, <1>2, <1>3

\* Different keys have different bytes.
LEMMA CellsApart ==
    ASSUME NEW st, NEW K, NEW L, K \cap L = {}
    PROVE  Cells(st, K \cup L) = Cells(st, K) \cup Cells(st, L) /\ Cells(st, K) \cap Cells(st, L) = {}
<1>1. Cells(st, K \cup L) = Cells(st, K) \cup Cells(st, L)
  BY DEF Cells
<1>2. ASSUME NEW u \in Cells(st, K), u \in Cells(st, L) PROVE FALSE
  <2>1. PICK k \in K : u \in {k} \X (1..Size(st[k]))
    BY DEF Cells
  <2>2. PICK l \in L : u \in {l} \X (1..Size(st[l]))
    BY <1>2 DEF Cells
  <2>3. u[1] = k /\ u[1] = l
    BY <2>1, <2>2
  <2>4. k \in K \cap L
    BY <2>1, <2>2, <2>3
  <2> QED BY <2>4
<1>3. Cells(st, K) \cap Cells(st, L) = {}
  BY <1>2
<1> QED BY <1>1, <1>3

\* Two parts of a store have together what each has.
LEMMA CellsAdd ==
    ASSUME NEW st, NEW K, NEW L, K \cap L = {}, IsFiniteSet(Cells(st, K)), IsFiniteSet(Cells(st, L))
    PROVE  /\ IsFiniteSet(Cells(st, K \cup L))
           /\ Cardinality(Cells(st, K \cup L)) = Cardinality(Cells(st, K)) + Cardinality(Cells(st, L))
<1> DEFINE A == Cells(st, K)
           B == Cells(st, L)
<1>1. Cells(st, K \cup L) = A \cup B /\ A \cap B = {}
  BY CellsApart
<1>2. IsFiniteSet(A) /\ IsFiniteSet(B)
  OBVIOUS
<1> HIDE DEF A, B
<1>3. Cardinality(A) \in Nat /\ Cardinality(B) \in Nat /\ Cardinality({}) = 0
  BY <1>2, FS_CardinalityType, FS_EmptySet
<1>4. IsFiniteSet(A \cup B) /\ Cardinality(A \cup B) = Cardinality(A) + Cardinality(B) - Cardinality(A \cap B)
  BY <1>2, FS_Union
<1>5. Cardinality(A \cup B) = Cardinality(A) + Cardinality(B)
  <2>1. A \cap B = {}
    BY <1>1
  <2>2. Cardinality(A \cap B) = 0
    BY <2>1, FS_EmptySet, Zenon
  <2> QED BY <1>3, <1>4, <2>2
<1>6. Cells(st, K) = A /\ Cells(st, L) = B
  BY DEF A, B
<1>7. IsFiniteSet(Cells(st, K \cup L)) /\ Cardinality(Cells(st, K \cup L)) = Cardinality(A) + Cardinality(B)
  <2>1. Cells(st, K \cup L) = A \cup B
    BY <1>1
  <2> QED BY <1>4, <1>5, <2>1, Zenon
<1> QED BY <1>6, <1>7, Zenon

\* Stores with the same items under some keys have the same bytes there.
LEMMA CellsSame ==
    ASSUME NEW st, NEW tt, NEW K, \A k \in K : tt[k] = st[k]
    PROVE  Cells(tt, K) = Cells(st, K)
<1>1. ASSUME NEW u PROVE u \in Cells(tt, K) <=> u \in Cells(st, K)
  <2>1. u \in Cells(tt, K) <=> \E k \in K : u \in {k} \X (1..Size(tt[k]))
    BY DEF Cells
  <2>2. u \in Cells(st, K) <=> \E k \in K : u \in {k} \X (1..Size(st[k]))
    BY DEF Cells
  <2> QED BY <2>1, <2>2
<1> QED BY <1>1

\* Part of a store that is finite is.
LEMMA CellsPart ==
    ASSUME NEW st, NEW K, NEW L \in SUBSET K, IsFiniteSet(Cells(st, K))
    PROVE  IsFiniteSet(Cells(st, L)) /\ Cells(st, L) \subseteq Cells(st, K)
<1>1. Cells(st, L) \in SUBSET Cells(st, K)
  BY DEF Cells
<1> QED BY <1>1, FS_Subset

\* A store in which one item is another has that much more or less.
LEMMA CellsPut ==
    ASSUME NEW st \in Contents, NEW tt \in Contents, NEW k \in Key, \A q \in Key : q # k => tt[q] = st[q],
           IsFiniteSet(Cells(st, Key))
    PROVE  /\ IsFiniteSet(Cells(tt, Key))
           /\ Cardinality(Cells(st, Key)) \in Nat /\ Cardinality(Cells(tt, Key)) \in Nat
           /\ Cardinality(Cells(tt, Key)) = Cardinality(Cells(st, Key)) + Size(tt[k]) - Size(st[k])
<1> DEFINE R == Key \ {k}
<1>1. Key = R \cup {k} /\ R \cap {k} = {} /\ R \in SUBSET Key
  OBVIOUS
<1>2. Cells(tt, R) = Cells(st, R) /\ IsFiniteSet(Cells(st, R))
  BY <1>1, CellsSame, CellsPart
<1>3. ASSUME NEW xx \in Contents
      PROVE  IsFiniteSet(Cells(xx, {k})) /\ Cardinality(Cells(xx, {k})) = Size(xx[k]) /\ Size(xx[k]) \in Nat
  <2>1. Size(xx[k]) \in Nat
    BY SizeIs DEF Contents
  <2>2. Cells(xx, {k}) = {k} \X (1..Size(xx[k]))
    BY DEF Cells
  <2> DEFINE n == Size(xx[k])
             C == {k} \X (1..n)
  <2>3. IsFiniteSet(C) /\ Cardinality(C) = n
    <3> HIDE DEF n
    <3>1. n \in Nat
      BY <2>1 DEF n
    <3> QED BY <3>1, CellsOfKey
  <2>4. Cells(xx, {k}) = C
    BY <2>2
  <2> HIDE DEF C
  <2> QED BY <2>1, <2>3, <2>4
<1>4. ASSUME NEW xx \in Contents, IsFiniteSet(Cells(xx, R))
      PROVE  /\ IsFiniteSet(Cells(xx, Key))
             /\ Cardinality(Cells(xx, Key)) = Cardinality(Cells(xx, R)) + Size(xx[k])
  <2> HIDE DEF R
  <2>1. IsFiniteSet(Cells(xx, {k})) /\ Cardinality(Cells(xx, {k})) = Size(xx[k])
    BY <1>3
  <2>2. /\ IsFiniteSet(Cells(xx, R \cup {k}))
        /\ Cardinality(Cells(xx, R \cup {k})) = Cardinality(Cells(xx, R)) + Cardinality(Cells(xx, {k}))
    BY <1>1, <1>4, <2>1, CellsAdd
  <2> QED BY <1>1, <2>1, <2>2
<1> HIDE DEF R
<1>5. /\ IsFiniteSet(Cells(tt, Key))
      /\ Cardinality(Cells(tt, Key)) = Cardinality(Cells(st, R)) + Size(tt[k])
      /\ Cardinality(Cells(st, Key)) = Cardinality(Cells(st, R)) + Size(st[k])
  BY <1>2, <1>4
<1>6. Cardinality(Cells(st, R)) \in Nat /\ Size(tt[k]) \in Nat /\ Size(st[k]) \in Nat
  BY <1>2, <1>3, FS_CardinalityType
<1>7. Cardinality(Cells(st, Key)) \in Nat /\ Cardinality(Cells(tt, Key)) \in Nat
  BY <1>5, FS_CardinalityType
<1> QED BY <1>5, <1>6, <1>7

\* What the memory of each object covers
Counted ==
    /\ usedMem \in [Cache -> Int]
    /\ \A c \in Cache : IsFiniteSet(Cells(store[c], Key)) /\ usedMem[c] >= Cardinality(Cells(store[c], Key))

\* A key without an item has no bytes.
LEMMA StoredIs ==
    ASSUME Types, NEW c \in Cache
    PROVE  store[c] \in Contents /\ Stored(c) = Cardinality(Cells(store[c], Key))
<1>1. store[c] \in Contents
  BY DEF Types, StoreTypeOK, Contents
<1>2. ASSUME NEW k \in Key, store[c][k] = NoItem PROVE {k} \X (1..Size(store[c][k])) = {}
  <2>1. Size(store[c][k]) = 0
    BY <1>2, SizeIs
  <2> QED BY <2>1
<1>3. Bytes(c, Keys(c)) = Cells(store[c], Key)
  BY <1>2 DEF Bytes, Cells, Keys
<1> QED BY <1>1, <1>3 DEF Stored, SizeOf

\* Memory that grows by as much as an item does covers it.
LEMMA PutCounts ==
    ASSUME Types, Counted, NEW o \in Cache, NEW k \in Key, NEW item \in Item \cup {NoItem}, Put(o, k, item),
           usedMem' \in [Cache -> Int], \A p \in Cache : p # o => usedMem'[p] = usedMem[p],
           usedMem'[o] >= usedMem[o] + Size(item) - Size(store[o][k])
    PROVE  Counted'
<1>1. /\ store' \in [Cache -> [Key -> Item \cup {NoItem}]] /\ store'[o][k] = item
      /\ \A q \in Key : q # k => store'[o][q] = store[o][q]
      /\ \A p \in Cache : p # o => store'[p] = store[p]
  BY PutEffect DEF Types
<1>2. store[o] \in Contents /\ store'[o] \in Contents
  BY <1>1 DEF Types, StoreTypeOK, Contents
<1> DEFINE old == Cardinality(Cells(store[o], Key))
           new == Cardinality(Cells(store'[o], Key))
<1>3. /\ IsFiniteSet(Cells(store'[o], Key)) /\ old \in Nat /\ new \in Nat
      /\ new = old + Size(item) - Size(store[o][k])
  BY <1>1, <1>2, CellsPut DEF Counted
<1>4. usedMem[o] \in Int /\ usedMem'[o] \in Int /\ usedMem[o] >= old
  BY DEF Counted
<1>5. Size(item) \in Nat /\ Size(store[o][k]) \in Nat
  BY <1>2, SizeIs DEF Contents
<1> HIDE DEF old, new
<1>6. usedMem'[o] >= new
  BY <1>3, <1>4, <1>5
<1>7. \A p \in Cache : IsFiniteSet(Cells(store'[p], Key)) /\ usedMem'[p] >= Cardinality(Cells(store'[p], Key))
  BY <1>1, <1>3, <1>6 DEF Counted, new
<1> QED BY <1>7 DEF Counted, Cells, Size, NoItem

\* Count changes the memory of one object.
LEMMA CountIs ==
    ASSUME Counted, NEW o \in Cache, NEW delta \in Int, Count(o, delta)
    PROVE  /\ usedMem' \in [Cache -> Int] /\ usedMem'[o] = usedMem[o] + delta
           /\ \A p \in Cache : p # o => usedMem'[p] = usedMem[p]
<1>1. usedMem[o] \in Int
  BY DEF Counted
<1> QED BY <1>1 DEF Counted, Count

\* A step that changes neither items nor memory.
LEMMA SameCounts == ASSUME Counted, UNCHANGED <<store, usedMem>> PROVE Counted'
BY DEF Counted, Cells, Size, NoItem
\* The operations on one key count what the item grows or shrinks by, and inc of
\* a missing one counts without storing.
LEMMA OperationCounts ==
    ASSUME Inv, Counted, NEW c \in Cache, Operation(c)
    PROVE  Counted'
<1> DEFINE o == Target(c)
<1>1. Types /\ Made /\ o \in Cache
  BY TargetMade DEF Inv
<1>2. ASSUME NEW k \in Key PROVE store[o][k] \in Item \cup {NoItem} /\ now \in Nat
  BY <1>1 DEF Types, StoreTypeOK
<1> HIDE DEF o
<1>3. ASSUME NEW k \in Key, NEW item \in Item \cup {NoItem}, Put(o, k, item),
             Count(o, Size(item) - Size(store[o][k]))
      PROVE  Counted'
  <2>1. Size(item) \in Nat /\ Size(store[o][k]) \in Nat /\ Size(item) - Size(store[o][k]) \in Int
    BY <1>2, SizeIs
  <2>2. /\ usedMem' \in [Cache -> Int] /\ usedMem'[o] = usedMem[o] + (Size(item) - Size(store[o][k]))
        /\ \A p \in Cache : p # o => usedMem'[p] = usedMem[p]
    BY <1>1, <1>3, <2>1, CountIs
  <2>3. usedMem[o] \in Int
    BY <1>1 DEF Counted
  <2>4. usedMem'[o] >= usedMem[o] + Size(item) - Size(store[o][k])
    BY <2>1, <2>2, <2>3
  <2> QED BY <1>1, <1>3, <2>2, <2>4, PutCounts
<1>4. ASSUME NEW k \in Key, Read(c, k) PROVE Counted'
  BY <1>4, SameCounts DEF Read
<1>5. ASSUME NEW k \in Key, NEW mode \in Modes, NEW len \in Lens, NEW until \in Dates, NEW life \in Lifespans,
             NEW check \in BOOLEAN, Write(c, k, mode, len, until, life, check)
      PROVE  Counted'
  <2>1. CASE UNCHANGED <<store, usedMem>>
    BY <2>1, SameCounts
  <2>2. CASE /\ Put(o, k, Written(store[o][k], mode, len, until, life))
             /\ Count(o, Size(Written(store[o][k], mode, len, until, life)) - Size(store[o][k]))
    <3>1. Written(store[o][k], mode, len, until, life) \in Item
      BY <1>2, WrittenType
    <3> QED BY <1>3, <2>2, <3>1
  <2> QED BY <1>5, <2>1, <2>2 DEF Write, o
<1>6. ASSUME NEW k \in Key, NEW len \in Lens, Inc(c, k, len) PROVE Counted'
  <2>1. len \in Nat
    BY DataAssumption
  <2>2. CASE Count(o, len) /\ UNCHANGED store
    <3>1. /\ usedMem' \in [Cache -> Int] /\ usedMem'[o] = usedMem[o] + len
          /\ \A p \in Cache : p # o => usedMem'[p] = usedMem[p]
      BY <1>1, <2>1, <2>2, CountIs
    <3>2. Put(o, k, store[o][k])
      BY <1>1, <2>2 DEF Put, Types, StoreTypeOK
    <3>3. usedMem[o] \in Int /\ Size(store[o][k]) \in Nat
      BY <1>1, <1>2, SizeIs DEF Counted
    <3>4. usedMem'[o] >= usedMem[o] + Size(store[o][k]) - Size(store[o][k])
      BY <2>1, <3>1, <3>3
    <3> QED BY <1>1, <1>2, <3>1, <3>2, <3>4, PutCounts
  <2>3. CASE /\ store[o][k] # NoItem
             /\ Put(o, k, NewVersion([store[o][k] EXCEPT !.len = len, !.expires = now + store[o][k].life]))
             /\ Count(o, len - store[o][k].len)
    <3> DEFINE old == store[o][k]
               dated == [old EXCEPT !.len = len, !.expires = now + old.life]
               item == NewVersion(dated)
    <3>1. old \in Item
      BY <1>2, <2>3
    <3> HIDE DEF old
    <3>2. old.len \in Nat /\ now + old.life \in Nat /\ old.version \in Nat
      BY <1>2, <3>1 DEF Item
    <3>3. dated \in Item /\ dated.len = len
      BY <2>1, <3>1, <3>2 DEF Item
    <3> HIDE DEF dated
    <3>4. item \in Item /\ item.len = len
      BY <3>3 DEF Item, NewVersion
    <3> HIDE DEF item
    <3>5. Size(item) = KeyLen + len /\ Size(old) = KeyLen + old.len
      BY <3>1, <3>4, SizeIs
    <3>6. Size(item) - Size(old) = len - old.len
      BY <2>1, <3>2, <3>5, DataAssumption
    <3>7. Put(o, k, item) /\ Count(o, len - old.len)
      BY <2>3 DEF item, dated, old
    <3>8. Count(o, Size(item) - Size(store[o][k]))
      BY <3>6, <3>7 DEF old
    <3> QED BY <1>3, <3>4, <3>7, <3>8
  <2> QED BY <1>6, <2>2, <2>3 DEF Inc, o
<1>7. ASSUME NEW k \in Key, Put(o, k, NoItem), Count(o, -Size(store[o][k])) PROVE Counted'
  <2>1. Size(NoItem) = 0 /\ Size(store[o][k]) \in Nat
    BY <1>2, SizeIs
  <2>2. Size(NoItem) - Size(store[o][k]) = -Size(store[o][k])
    BY <2>1
  <2>3. Count(o, Size(NoItem) - Size(store[o][k]))
    BY <1>7, <2>2
  <2> QED BY <1>3, <1>7, <2>3
<1>8. ASSUME NEW k \in Key, NEW until \in Dates, Expire(c, k, until) PROVE Counted'
  <2>1. CASE UNCHANGED <<store, usedMem>>
    BY <2>1, SameCounts
  <2>2. CASE /\ store[o][k] # NoItem /\ Put(o, k, [store[o][k] EXCEPT !.expires = until, !.life = 0])
             /\ UNCHANGED usedMem
    <3> DEFINE old == store[o][k]
               item == [old EXCEPT !.expires = until, !.life = 0]
    <3>1. old \in Item /\ until \in Nat
      BY <1>2, <2>2, DataAssumption
    <3> HIDE DEF old
    <3>2. item \in Item /\ item.len = old.len /\ old.len \in Nat
      BY <3>1 DEF Item
    <3> HIDE DEF item
    <3>3. Size(item) = Size(old) /\ Size(old) \in Nat
      BY <3>1, <3>2, SizeIs
    <3>4. /\ usedMem' \in [Cache -> Int] /\ usedMem'[o] \in Int
          /\ usedMem'[o] = usedMem[o] /\ \A p \in Cache : p # o => usedMem'[p] = usedMem[p]
      BY <1>1, <2>2 DEF Counted
    <3>5. usedMem'[o] >= usedMem[o] + Size(item) - Size(old)
      BY <3>3, <3>4
    <3>6. Put(o, k, item)
      BY <2>2 DEF item, old
    <3>7. usedMem'[o] >= usedMem[o] + Size(item) - Size(store[o][k])
      BY <3>5 DEF old
    <3> QED BY <1>1, <3>2, <3>4, <3>6, <3>7, PutCounts
  <2>3. CASE Put(o, k, NoItem) /\ Count(o, -Size(store[o][k]))
    BY <1>7, <2>3
  <2> QED BY <1>8, <2>1, <2>2, <2>3 DEF Expire, o
<1>9. ASSUME NEW k \in Key, RemoveKey(c, k) PROVE Counted'
  BY <1>7, <1>9 DEF RemoveKey, o
<1>10. ASSUME RemoveAll(c) PROVE Counted'
  <2>1. /\ usedMem' = [usedMem EXCEPT ![o] = 0] /\ store' = [store EXCEPT ![o] = NoItems]
    BY <1>10 DEF RemoveAll, o
  <2>2. /\ store'[o] = NoItems /\ usedMem'[o] = 0 /\ usedMem' \in [Cache -> Int]
        /\ \A p \in Cache : p # o => store'[p] = store[p] /\ usedMem'[p] = usedMem[p]
    BY <1>1, <2>1 DEF Counted, Types, StoreTypeOK
  <2>3. Cells(NoItems, Key) = {}
    <3>1. ASSUME NEW k \in Key PROVE Size(NoItems[k]) = 0
      BY SizeIs DEF NoItems
    <3> QED BY <3>1 DEF Cells
  <2>4. IsFiniteSet(Cells(NoItems, Key)) /\ Cardinality(Cells(NoItems, Key)) = 0
    BY <2>3, FS_EmptySet, Zenon
  <2>5. \A p \in Cache : IsFiniteSet(Cells(store'[p], Key)) /\ usedMem'[p] >= Cardinality(Cells(store'[p], Key))
    BY <2>2, <2>4 DEF Counted
  <2> QED BY <2>2, <2>5 DEF Counted, Cells, Size, NoItem
<1> QED BY <1>4, <1>5, <1>6, <1>8, <1>9, <1>10 DEF Operation

\* The pruner takes off what it has pruned.
LEMMA PruneCounts ==
    ASSUME Inv, Counted, NEW o \in Cache, Prune(o)
    PROVE  Counted'
<1>1. Types
  BY DEF Inv
<1>2. CASE UNCHANGED <<store, usedMem>>
  BY <1>2, SameCounts
<1>3. CASE /\ store' = [store EXCEPT ![o] = [k \in Key |-> IF k \in Kept(o) THEN store[o][k] ELSE NoItem]]
           /\ Count(o, -SizeOf(o, Keys(o) \ Kept(o)))
  <2> DEFINE K == Key \cap Kept(o)
             L == Key \ Kept(o)
             kept == Cardinality(Cells(store[o], K))
             gone == Cardinality(Cells(store[o], L))
  <2>1. /\ store'[o] = [k \in Key |-> IF k \in Kept(o) THEN store[o][k] ELSE NoItem]
        /\ \A p \in Cache : p # o => store'[p] = store[p]
    BY <1>1, <1>3 DEF Types, StoreTypeOK
  <2>2. Bytes(o, Keys(o) \ Kept(o)) = Cells(store[o], L)
    <3>1. ASSUME NEW k \in Key, store[o][k] = NoItem PROVE {k} \X (1..Size(store[o][k])) = {}
      <4>1. Size(store[o][k]) = 0
        BY <3>1, SizeIs
      <4> QED BY <4>1
    <3> QED BY <3>1 DEF Bytes, Cells, Keys
  <2>3. SizeOf(o, Keys(o) \ Kept(o)) = gone
    BY <2>2 DEF SizeOf
  <2>4. /\ Key = K \cup L /\ K \cap L = {} /\ K \in SUBSET Key /\ L \in SUBSET Key
    OBVIOUS
  <2>5. Cells(store'[o], Key) = Cells(store[o], K)
    <3>1. ASSUME NEW k \in Key PROVE {k} \X (1..Size(store'[o][k])) = IF k \in K THEN {k} \X (1..Size(store[o][k])) ELSE {}
      <4>1. Size(NoItem) = 0
        BY SizeIs
      <4> QED BY <2>1, <4>1
    <3> QED BY <3>1 DEF Cells
  <2> HIDE DEF K, L
  <2>6. IsFiniteSet(Cells(store[o], K)) /\ IsFiniteSet(Cells(store[o], L))
    BY <2>4, CellsPart DEF Counted
  <2>7. Cardinality(Cells(store[o], Key)) = kept + gone
    <3>1. Cardinality(Cells(store[o], K \cup L)) = kept + gone
      BY <2>4, <2>6, CellsAdd
    <3>2. K \cup L = Key
      BY <2>4
    <3> QED BY <3>1, <3>2, Zenon
  <2>8. kept \in Nat /\ gone \in Nat
    BY <2>6, FS_CardinalityType
  <2>9. IsFiniteSet(Cells(store'[o], Key)) /\ Cardinality(Cells(store'[o], Key)) = kept
    BY <2>5, <2>6
  <2> HIDE DEF kept, gone
  <2>10. Count(o, -gone) /\ -gone \in Int
    BY <1>3, <2>3, <2>8
  <2>11. /\ usedMem' \in [Cache -> Int] /\ usedMem'[o] = usedMem[o] + (-gone)
         /\ \A p \in Cache : p # o => usedMem'[p] = usedMem[p]
    BY <2>10, CountIs
  <2>12. usedMem[o] \in Int /\ usedMem[o] >= kept + gone
    BY <2>7 DEF Counted
  <2>13. usedMem'[o] >= kept
    BY <2>8, <2>11, <2>12
  <2>14. \A p \in Cache : IsFiniteSet(Cells(store'[p], Key)) /\ usedMem'[p] >= Cardinality(Cells(store'[p], Key))
    BY <2>1, <2>9, <2>11, <2>13 DEF Counted
  <2> QED BY <2>11, <2>14 DEF Counted, Cells, Size, NoItem
<1> QED BY <1>2, <1>3 DEF Prune

\* The copy of an object counts what the first one does, and has no items.
LEMMA CloneCounts ==
    ASSUME Inv, Counted, NEW c \in Cache, NEW d \in Cache, Clone(c, d)
    PROVE  Counted'
<1>1. CASE UNCHANGED <<store, usedMem>>
  BY <1>1, SameCounts
<1>2. CASE usedMem' = [usedMem EXCEPT ![d] = usedMem[c]] /\ UNCHANGED store
  <2>1. store[d] = NoItems
    BY DEF Inv, Made, Clone
  <2>2. Cells(NoItems, Key) = {}
    <3>1. ASSUME NEW k \in Key PROVE Size(NoItems[k]) = 0
      BY SizeIs DEF NoItems
    <3> QED BY <3>1 DEF Cells
  <2>3. IsFiniteSet(Cells(store[d], Key)) /\ Cardinality(Cells(store[d], Key)) = 0
    BY <2>1, <2>2, FS_EmptySet, Zenon
  <2>4. usedMem[c] \in Int /\ usedMem[c] >= 0
    <3>1. Cardinality(Cells(store[c], Key)) \in Nat
      BY FS_CardinalityType DEF Counted
    <3> QED BY <3>1 DEF Counted
  <2>5. /\ usedMem' \in [Cache -> Int] /\ usedMem'[d] = usedMem[c]
        /\ \A p \in Cache : p # d => usedMem'[p] = usedMem[p]
    BY <1>2 DEF Counted
  <2>6. \A p \in Cache : IsFiniteSet(Cells(store[p], Key)) /\ usedMem'[p] >= Cardinality(Cells(store[p], Key))
    BY <2>3, <2>4, <2>5 DEF Counted
  <2> QED BY <1>2, <2>5, <2>6 DEF Counted, Cells, Size, NoItem
<1> QED BY <1>1, <1>2 DEF Clone

\* No memory is used to begin with.
LEMMA InitCounts == Init => Counted
<1> SUFFICES ASSUME Init PROVE Counted
  OBVIOUS
<1>1. Cells(NoItems, Key) = {}
  <2>1. ASSUME NEW k \in Key PROVE Size(NoItems[k]) = 0
    BY SizeIs DEF NoItems
  <2> QED BY <2>1 DEF Cells
<1>2. IsFiniteSet(Cells(NoItems, Key)) /\ Cardinality(Cells(NoItems, Key)) = 0
  BY <1>1, FS_EmptySet, Zenon
<1>3. \A c \in Cache : store[c] = NoItems /\ usedMem[c] = 0
  BY DEF Init
<1>4. usedMem \in [Cache -> Int]
  BY DEF Init
<1> QED BY <1>2, <1>3, <1>4 DEF Counted

\* Every step counts what it changes.
LEMMA NextCounts == Inv /\ Counted /\ [Next]_vars => Counted'
<1> SUFFICES ASSUME Inv, Counted, [Next]_vars PROVE Counted'
  OBVIOUS
<1>1. ASSUME NEW c \in Cache,
             \/ \E wantShared \in Shares, lim \in Limits : Construct(c, wantShared, lim)
             \/ ConstructShared(c) \/ Destroy(c) \/ DestroyTimer(c) \/ Collect(c) \/ Call(c)
             \/ \E lim \in Limits : SetLimits(c, lim)
      PROVE  Counted'
  BY <1>1, SameCounts DEF Construct, ConstructShared, Destroy, DestroyTimer, Collect, Call, SetLimits
<1>2. CASE Tick \/ UNCHANGED vars
  BY <1>2, SameCounts DEF Tick, vars
<1> QED BY <1>1, <1>2, CloneCounts, OperationCounts, PruneCounts DEF Next

\* The memory that a cache counts never falls below what it stores, whatever
\* is written, appended, incremented, removed, pruned and cloned, so that the limit
\* on memory is kept by the count (ejsLocalCache.c:477).
THEOREM MemoryIsCovered == Spec => []MemoryIsCounted
<1>1. Spec => []Counted
  BY InitCounts, NextCounts, Invariance, PTL DEF Spec
<1>2. Inv /\ Counted => MemoryIsCounted
  BY StoredIs DEF Inv, Counted, MemoryIsCounted
<1> QED BY <1>1, <1>2, Invariance, PTL
-----------------------------------------------------------------------------
(***************************************************************************)
(* The loop of the pruner.                                                  *)
(***************************************************************************)

\* Some numbers have a least.
LEMMA Least ==
    ASSUME NEW S \in SUBSET Nat, S # {}
    PROVE  \E m \in S : \A k \in S : m <= k
<1> DEFINE R == OpToRel(<, Nat)
<1>1. IsWellFoundedOn(R, Nat)
  BY NatLessThanWellFounded
<1>2. \A x, y \in Nat : x < y => <<x, y>> \in R
  BY DEF OpToRel
<1> HIDE DEF R
<1>3. PICK x \in S : \A y \in S : ~(<<y, x>> \in R)
  BY <1>1, WFMin
<1>4. \A y \in S : y \in Nat /\ x \in Nat /\ ~(y < x)
  BY <1>2, <1>3
<1> QED BY <1>3, <1>4

\* What holds of 0, and of a number after it held of the one before, holds up to n.
LEMMA UpTo ==
    ASSUME NEW n \in Nat, NEW S, 0 \in S, \A i \in 0..n : i > 0 /\ i - 1 \in S => i \in S
    PROVE  0..n \subseteq S
<1> SUFFICES ASSUME 0..n \ S # {} PROVE FALSE
  OBVIOUS
<1> DEFINE T == 0..n \ S
<1>0. T \in SUBSET Nat /\ T # {}
  OBVIOUS
<1> HIDE DEF T
<1>1. PICK m \in T : \A k \in T : m <= k
  BY <1>0, Least
<1> USE DEF T
<1>2. m > 0 /\ m - 1 \in 0..n
  BY <1>1
<1>3. m - 1 \in S
  BY <1>1, <1>2
<1> QED BY <1>1, <1>2, <1>3

\* The pruner has its turns one after the other.
LEMMA TurnsAre ==
    ASSUME NEW o
    PROVE  /\ Turns(o)[0] = [keys |-> Undue(o, Keys(o), now), when |-> now]
           /\ \A i \in 1..Len(Factors) : Turns(o)[i] = PruneTurn(o, Turns(o)[i - 1], Factors[i])
<1> DEFINE start == [keys |-> Undue(o, Keys(o), now), when |-> now]
           Turn(s, i) == PruneTurn(o, s, Factors[i])
<1>0. Len(Factors) \in Nat
  BY FactorAssumption
<1> DEFINE Rec(n, t) == t = [i \in 0..n |-> IF i = 0 THEN start ELSE Turn(t[i - 1], i)]
<1>1. Turns(o) = CHOOSE t : Rec(Len(Factors), t)
  BY DEF Turns
<1> HIDE DEF start, Turn
<1>2. 0..Len(Factors) \subseteq {n \in Nat : \E t : Rec(n, t)}
  <2> DEFINE S == {n \in Nat : \E t : Rec(n, t)}
  <2>1. 0 \in S
    <3> DEFINE t == [i \in 0..0 |-> start]
    <3>1. Rec(0, t)
      OBVIOUS
    <3> QED BY <3>1
  <2>2. ASSUME NEW n \in 0..Len(Factors), n > 0, n - 1 \in S PROVE n \in S
    <3>1. PICK t : Rec(n - 1, t)
      BY <2>2
    <3> DEFINE u == [i \in 0..n |-> IF i = n THEN Turn(t[n - 1], n) ELSE t[i]]
    <3>2. n \in Nat /\ \A i \in 0..n : i # n => i \in 0..(n - 1)
      BY <1>0, <2>2
    <3>3. \A i \in 0..n : u[i] = IF i = 0 THEN start ELSE Turn(u[i - 1], i)
      <4> SUFFICES ASSUME NEW i \in 0..n PROVE u[i] = IF i = 0 THEN start ELSE Turn(u[i - 1], i)
        OBVIOUS
      <4>1. CASE i = 0
        BY <2>2, <3>1, <3>2, <4>1
      <4>2. CASE i = n
        BY <2>2, <3>2, <4>2
      <4>3. CASE i # 0 /\ i # n
        <5>1. i \in 0..(n - 1) /\ i - 1 \in 0..(n - 1) /\ i - 1 # n
          BY <3>2, <4>3
        <5>2. t[i] = Turn(t[i - 1], i)
          BY <3>1, <4>3, <5>1
        <5> QED BY <4>3, <5>1, <5>2
      <4> QED BY <4>1, <4>2, <4>3
    <3>4. Rec(n, u)
      BY <3>3
    <3> QED BY <3>2, <3>4
  <2> HIDE DEF S
  <2>3. 0..Len(Factors) \subseteq S
    BY <1>0, <2>1, <2>2, UpTo
  <2> QED BY <2>3 DEF S
<1>3. \E t : Rec(Len(Factors), t)
  <2>1. Len(Factors) \in 0..Len(Factors)
    BY <1>0
  <2> QED BY <1>2, <2>1
<1>4. Rec(Len(Factors), Turns(o))
  BY <1>1, <1>3
<1>5. /\ Turns(o)[0] = start
      /\ \A i \in 1..Len(Factors) : Turns(o)[i] = Turn(Turns(o)[i - 1], i)
  BY <1>0, <1>4
<1> QED BY <1>5 DEF start, Turn

\* How far a turn looks ahead is the sum of the steps before.
LEMMA AheadIs ==
    /\ Ahead[0] = 0
    /\ \A i \in 0..Len(Factors) : Ahead[i] \in Nat
    /\ \A i \in 1..Len(Factors) : Ahead[i] = Ahead[i - 1] + Factors[i]
<1>0. Len(Factors) \in Nat /\ \A i \in 1..Len(Factors) : Factors[i] \in Nat
  BY FactorAssumption
<1> DEFINE Rec(n, t) == t = [i \in 0..n |-> IF i = 0 THEN 0 ELSE t[i - 1] + Factors[i]]
<1>1. Ahead = CHOOSE t : Rec(Len(Factors), t)
  BY DEF Ahead
<1>2. 0..Len(Factors) \subseteq {n \in Nat : \E t : Rec(n, t)}
  <2> DEFINE S == {n \in Nat : \E t : Rec(n, t)}
  <2>1. 0 \in S
    <3> DEFINE t == [i \in 0..0 |-> 0]
    <3>1. Rec(0, t)
      OBVIOUS
    <3> QED BY <3>1
  <2>2. ASSUME NEW n \in 0..Len(Factors), n > 0, n - 1 \in S PROVE n \in S
    <3>1. PICK t : Rec(n - 1, t)
      BY <2>2
    <3> DEFINE u == [i \in 0..n |-> IF i = n THEN t[n - 1] + Factors[n] ELSE t[i]]
    <3>2. n \in Nat /\ \A i \in 0..n : i # n => i \in 0..(n - 1)
      BY <1>0, <2>2
    <3>3. \A i \in 0..n : u[i] = IF i = 0 THEN 0 ELSE u[i - 1] + Factors[i]
      <4> SUFFICES ASSUME NEW i \in 0..n PROVE u[i] = IF i = 0 THEN 0 ELSE u[i - 1] + Factors[i]
        OBVIOUS
      <4>1. CASE i = 0
        BY <2>2, <3>1, <3>2, <4>1
      <4>2. CASE i = n
        BY <2>2, <3>2, <4>2
      <4>3. CASE i # 0 /\ i # n
        <5>1. i \in 0..(n - 1) /\ i - 1 \in 0..(n - 1) /\ i - 1 # n
          BY <3>2, <4>3
        <5>2. t[i] = t[i - 1] + Factors[i]
          BY <3>1, <4>3, <5>1
        <5> QED BY <4>3, <5>1, <5>2
      <4> QED BY <4>1, <4>2, <4>3
    <3>4. Rec(n, u)
      BY <3>3
    <3> QED BY <3>2, <3>4
  <2> HIDE DEF S
  <2>3. 0..Len(Factors) \subseteq S
    BY <1>0, <2>1, <2>2, UpTo
  <2> QED BY <2>3 DEF S
<1>3. \E t : Rec(Len(Factors), t)
  <2>1. Len(Factors) \in 0..Len(Factors)
    BY <1>0
  <2> QED BY <1>2, <2>1
<1>4. Rec(Len(Factors), Ahead)
  BY <1>1, <1>3
<1>5. Ahead[0] = 0 /\ \A i \in 1..Len(Factors) : Ahead[i] = Ahead[i - 1] + Factors[i]
  BY <1>0, <1>4
<1> HIDE DEF Rec
<1>6. 0..Len(Factors) \subseteq {i \in 0..Len(Factors) : Ahead[i] \in Nat}
  <2> DEFINE S == {i \in 0..Len(Factors) : Ahead[i] \in Nat}
  <2>1. 0 \in S
    BY <1>0, <1>5
  <2>2. ASSUME NEW i \in 0..Len(Factors), i > 0, i - 1 \in S PROVE i \in S
    BY <1>0, <1>5, <2>2
  <2> HIDE DEF S
  <2>3. 0..Len(Factors) \subseteq S
    BY <1>0, <2>1, <2>2, UpTo
  <2> QED BY <2>3 DEF S
<1> QED BY <1>5, <1>6

\* Where the loop of the pruner is after turn i, with the keys K it has left of
\* those that were not due: it goes on from a later time, or is within the limits.
Left(o) == Undue(o, Keys(o), now)
Without(o, K) == Over(o, K, usedMem[o] - SizeOf(o, Keys(o) \ K))
Loop(o, i, K, when) ==
    /\ K \subseteq Left(o)
    /\ \/ when = now + Ahead[i] /\ (i > 0 => \A k \in K : ~Due(store[o][k], now + Ahead[i - 1]))
       \/ ~Without(o, K)
    /\ \A k \in Left(o) \ K : store[o][k].expires # 0
    /\ K # Left(o) => Without(o, Left(o))

\* Each turn leaves the loop like that.
LEMMA LoopGoes ==
    ASSUME now \in Nat, NEW o, NEW i \in 1..Len(Factors), NEW s, Loop(o, i - 1, s.keys, s.when)
    PROVE  Loop(o, i, PruneTurn(o, s, Factors[i]).keys, PruneTurn(o, s, Factors[i]).when)
<1> DEFINE K == s.keys
           when == s.when
           U == Undue(o, K, when)
<1>1. CASE ~Without(o, K)
  <2>1. PruneTurn(o, s, Factors[i]) = s
    BY <1>1 DEF PruneTurn, Without
  <2> QED BY <1>1, <2>1 DEF Loop
<1>2. CASE Without(o, K)
  <2>1. PruneTurn(o, s, Factors[i]) = [keys |-> U, when |-> when + Factors[i]]
    BY <1>2 DEF PruneTurn, Without
  <2>2. when = now + Ahead[i - 1] /\ when \in Nat
    <3>1. i - 1 \in 0..Len(Factors)
      BY FactorAssumption
    <3> QED BY <1>2, <3>1, AheadIs DEF Loop
  <2>3. when + Factors[i] = now + Ahead[i]
    <3>1. i - 1 \in 0..Len(Factors) /\ Factors[i] \in Nat /\ Ahead[i] = Ahead[i - 1] + Factors[i]
      BY FactorAssumption, AheadIs
    <3>2. Ahead[i - 1] \in Nat
      BY <3>1, AheadIs
    <3> QED BY <2>2, <3>1, <3>2
  <2>4. U \subseteq K /\ \A k \in U : ~Due(store[o][k], when)
    BY DEF Undue
  <2>5. \A k \in K \ U : store[o][k].expires # 0
    BY DEF Undue, Due
  <2> HIDE DEF U
  <2>6. \A k \in Left(o) \ U : store[o][k].expires # 0
    BY <2>5 DEF Loop
  <2>7. Without(o, Left(o))
    BY <1>2 DEF Loop
  <2>8. U \subseteq Left(o) /\ \A k \in U : ~Due(store[o][k], now + Ahead[i - 1])
    BY <2>2, <2>4 DEF Loop
  <2>9. Loop(o, i, U, when + Factors[i])
    BY <2>3, <2>6, <2>7, <2>8 DEF Loop
  <2> QED BY <2>1, <2>9
<1> QED BY <1>1, <1>2

\* The keys that the pruner keeps are within the limits or none of them is due for
\* as far as it looks, and it has taken others only as the limits asked for.
LEMMA KeptIs ==
    ASSUME now \in Nat, NEW o
    PROVE  /\ Kept(o) \subseteq Left(o)
           /\ ~Without(o, Kept(o)) \/ \A k \in Kept(o) : ~Due(store[o][k], now + Horizon)
           /\ \A k \in Left(o) \ Kept(o) : store[o][k].expires # 0 /\ Without(o, Left(o))
<1> DEFINE n == Len(Factors)
           S == {i \in 0..n : Loop(o, i, Turns(o)[i].keys, Turns(o)[i].when)}
<1>0. n \in Nat /\ n > 0
  BY FactorAssumption
<1>1. 0 \in S
  <2>1. Turns(o)[0].keys = Left(o) /\ Turns(o)[0].when = now
    <3>1. Turns(o)[0] = [keys |-> Left(o), when |-> now]
      BY TurnsAre, Zenon DEF Left
    <3> QED BY <3>1
  <2>2. Loop(o, 0, Left(o), now)
    BY AheadIs DEF Loop
  <2> QED BY <1>0, <2>1, <2>2
<1>2. ASSUME NEW i \in 0..n, i > 0, i - 1 \in S PROVE i \in S
  <2>1. i \in 1..Len(Factors)
    BY <1>0, <1>2
  <2>2. Turns(o)[i] = PruneTurn(o, Turns(o)[i - 1], Factors[i])
    BY <2>1, TurnsAre
  <2>3. Loop(o, i - 1, Turns(o)[i - 1].keys, Turns(o)[i - 1].when)
    BY <1>2
  <2>4. Loop(o, i, Turns(o)[i].keys, Turns(o)[i].when)
    BY <2>1, <2>2, <2>3, LoopGoes
  <2> QED BY <2>4
<1> HIDE DEF S
<1>3. n \in S
  <2>1. 0..n \subseteq S
    BY <1>0, <1>1, <1>2, UpTo
  <2>2. n \in 0..n
    BY <1>0
  <2> QED BY <2>1, <2>2
<1>4. Loop(o, n, Kept(o), Turns(o)[n].when)
  BY <1>3 DEF S, Kept
<1> QED BY <1>0, <1>4 DEF Loop, Horizon

\* Whatever is stored and however the limits are set, the pruner leaves a cache within
\* them or with nothing that is due before its horizon, and takes nothing else
\* (ejsLocalCache.c:480 to 498).
THEOREM PrunerKeepsLimits == Spec => PruneEnforcesLimits
<1>1. ASSUME Inv, Counted, NEW o \in Cache, Prune(o), ~crashed'
      PROVE  PrunedWell(o)
  <2> DEFINE K == Kept(o)
  <2>1. now \in Nat /\ store \in [Cache -> [Key -> Item \cup {NoItem}]] /\ usedMem \in [Cache -> Int]
    BY <1>1 DEF Inv, Types, StoreTypeOK, Counted
  <2>2. /\ store' = [store EXCEPT ![o] = [k \in Key |-> IF k \in K THEN store[o][k] ELSE NoItem]]
        /\ Count(o, -SizeOf(o, Keys(o) \ K)) /\ limits' = limits
    BY <1>1 DEF Prune
  <2>3. /\ K \subseteq Left(o)
        /\ ~Without(o, K) \/ \A k \in K : ~Due(store[o][k], now + Horizon)
        /\ \A k \in Left(o) \ K : store[o][k].expires # 0 /\ Without(o, Left(o))
    BY <2>1, KeptIs
  <2> HIDE DEF K
  <2>4. Left(o) \subseteq Keys(o) /\ \A k \in Keys(o) \ Left(o) : Due(store[o][k], now)
    BY DEF Left, Undue
  <2>5. Keys(o)' = K
    <3>1. \A k \in Key : store'[o][k] = IF k \in K THEN store[o][k] ELSE NoItem
      BY <2>1, <2>2
    <3>2. K \subseteq Key /\ \A k \in K : store[o][k] # NoItem
      BY <2>3, <2>4 DEF Keys
    <3>3. Keys(o)' = {k \in Key : store'[o][k] # NoItem}
      BY DEF Keys, NoItem
    <3> QED BY <3>1, <3>2, <3>3
  <2>6. usedMem'[o] = usedMem[o] - SizeOf(o, Keys(o) \ K)
    <3> DEFINE gone == SizeOf(o, Keys(o) \ K)
    <3>1. gone \in Nat
      <4>1. Bytes(o, Keys(o) \ K) \in SUBSET Cells(store[o], Key)
        BY DEF Bytes, Cells, Keys
      <4>2. IsFiniteSet(Cells(store[o], Key))
        BY <1>1 DEF Counted
      <4>3. IsFiniteSet(Bytes(o, Keys(o) \ K))
        BY <4>1, <4>2, FS_Subset
      <4> QED BY <4>3, FS_CardinalityType DEF SizeOf
    <3>2. Count(o, -gone)
      BY <2>2
    <3> HIDE DEF gone
    <3>3. usedMem'[o] = usedMem[o] + (-gone) /\ usedMem[o] \in Int
      BY <2>1, <3>1, <3>2 DEF Count
    <3>4. usedMem'[o] = usedMem[o] - gone
      BY <3>1, <3>3
    <3> QED BY <3>4 DEF gone
  <2>7. Over(o, Keys(o), usedMem[o])' <=> Without(o, K)
    BY <2>2, <2>5, <2>6 DEF Over, Without
  <2>8. \/ ~Over(o, Keys(o), usedMem[o])'
        \/ \A k \in Keys(o)' : ~Due(store[o][k], now + Horizon)
    BY <2>3, <2>5, <2>7
  <2>9. \A k \in Keys(o) \ Keys(o)' : Due(store[o][k], now) \/ (store[o][k].expires # 0 /\ Without(o, Left(o)))
    BY <2>3, <2>4, <2>5
  <2> QED BY <2>8, <2>9 DEF PrunedWell, Without, Left
<1>2. Spec => []Counted
  BY InitCounts, NextCounts, Invariance, PTL DEF Spec
<1>3. Inv /\ Counted /\ [Next]_vars
         => [\A o \in Cache : (Prune(o) /\ ~crashed') => PrunedWell(o)]_vars
  BY <1>1
<1> QED BY <1>2, <1>3, Invariance, PTL DEF Spec, PruneEnforcesLimits
=============================================================================
