------------------------------- MODULE EjsPot -------------------------------
(***************************************************************************)
(* Objects and their properties: src/core/src/ejsPot.c, with the lookup of  *)
(* names in vm/ejsScope.c, the stores of vm/ejsInterp.c and the functions   *)
(* of Object in ejsObject.c.                                                *)
(*                                                                          *)
(* A property lives in a slot.  Beyond a number of properties, the slots    *)
(* are also chained from the buckets of a hash of the names.  Slot numbers  *)
(* count from one here, and zero stands for the negative numbers of the     *)
(* code: no slot, or no next in a chain.                                    *)
(***************************************************************************)
EXTENDS Integers, Sequences

CONSTANTS
    QNames,         \* the qualified names of properties
    Empty,          \* ESV(empty), the empty string
    OpenSpaces,     \* the open namespaces, in the order of their lookup
    Value,          \* the values of properties
    Null,           \* null and undefined
    Options,        \* the sets of attributes that properties are defined with
    whash,          \* the hash of names
    rank,           \* the order of names
    HashMin,        \* EJS_HASH_MIN_PROP
    HashSizes,      \* hashSizes
    Round,          \* EJS_ROUND_PROP
    Lots,           \* EJS_LOTSA_PROP
    MaxProp         \* bound on the slots, below the largest of HashSizes

Name == {q.name : q \in QNames}
Space == {q.space : q \in QNames} \cup {Empty}
Names == Name \cup {Empty}
Opens == {OpenSpaces[i] : i \in DOMAIN OpenSpaces}

ASSUME NameAssumption ==
    /\ \A q \in QNames : q = [space |-> q.space, name |-> q.name]
    /\ OpenSpaces \in Seq(Opens) /\ Empty \in Opens
    /\ Empty \notin Name /\ Null \in Value
ASSUME OptionAssumption == Options \subseteq SUBSET {"fixed", "readonly"}
ASSUME HashAssumption == whash \in [Names -> Nat]
ASSUME SizeAssumption ==
    /\ HashSizes \in Seq(Nat \ {0}) /\ HashSizes # <<>>
    /\ HashMin \in Nat /\ MaxProp \in Nat /\ MaxProp <= HashSizes[Len(HashSizes)]
    /\ Round \in Nat \ {0} /\ Lots \in Nat

VARIABLES
    slots,          \* properties->slots up to numProp
    size,           \* properties->size, the slots there is space for
    hash,           \* properties->hash, of size 0 when there is none
    dynamic,        \* DYNAMIC(obj)
    result          \* of the last operation

vars == <<slots, size, hash, dynamic, result>>

NumProp == Len(slots)
Q(space, name) == [space |-> space, name |-> name]
NoHash == [size |-> 0, buckets |-> <<>>]

\* A slot as ejsZeroSlots leaves it
ZeroSlot == [qname |-> Q(Empty, Empty), value |-> Null, attributes |-> {}, hashChain |-> 0]
\* The slots with one of them replaced
With(ss, s, slot) == [t \in DOMAIN ss |-> IF t = s THEN slot ELSE ss[t]]
Linked(slot, s) == [slot EXCEPT !.hashChain = s]
Valued(slot, v) == [slot EXCEPT !.value = v]
Given(slot, v, attributes) == [Valued(slot, v) EXCEPT !.attributes = attributes]
Named(q) == [ZeroSlot EXCEPT !.qname = q]

-----------------------------------------------------------------------------
(* The hash of names *)
First(S) == IF S = {} THEN 0 ELSE CHOOSE s \in S : \A t \in S : s <= t

Index(q, h) == whash[q.name] % h.size

\* The slots that a walk along the chain of a bucket passes
Closed(S, ss, head) == head \in S \cup {0} /\ \A s \in S : ss[s].hashChain \in S \cup {0}
Chain(ss, head) == {s \in DOMAIN ss : \A S \in SUBSET DOMAIN ss : Closed(S, ss, head) => s \in S}
ChainOf(q, ss, h) == Chain(ss, h.buckets[Index(q, h)])

ejsGetHashSize(numProp) ==
    LET larger == {i \in DOMAIN HashSizes : numProp < HashSizes[i]}
    IN  HashSizes[IF larger = {} THEN Len(HashSizes) ELSE First(larger)]

\* All slots are hashed in their order, those of a name that is hashed already excepted
\* (deleted slots all have the empty name), so every chain ascends
Hashed(ss) == {s \in DOMAIN ss : \A t \in 1..(s - 1) : ss[t].qname # ss[s].qname}
InBucket(ss, n, index) == {s \in Hashed(ss) : whash[ss[s].qname.name] % n = index}
Rechained(ss, n) ==
    [s \in DOMAIN ss |->
        Linked(ss[s],
            IF s \in Hashed(ss) THEN First({t \in InBucket(ss, n, whash[ss[s].qname.name] % n) : t > s}) ELSE 0)]

ejsIndexProperties(p) ==
    LET wanted == ejsGetHashSize(Len(p.slots))
        n == IF p.hash.size < wanted THEN wanted ELSE p.hash.size
    IN  IF Len(p.slots) <= HashMin /\ p.hash.size = 0 THEN p
        ELSE [slots |-> Rechained(p.slots, n), size |-> p.size,
              hash |-> [size |-> n, buckets |-> [i \in 0..(n - 1) |-> First(InBucket(p.slots, n, i))]]]

\* Mutant of hashProperty: a slot becomes the head of its chain
hashPropertyHead(p, s) ==
    IF p.hash.size < Len(p.slots) THEN ejsIndexProperties(p)
    ELSE [p EXCEPT !.hash.buckets[Index(p.slots[s].qname, p.hash)] = s]

\* Links a slot at the end of the chain of its bucket
hashProperty(p, s) ==
    LET q == p.slots[s].qname
        chain == ChainOf(q, p.slots, p.hash)
        last == CHOOSE t \in chain : p.slots[t].hashChain = 0
    IN  IF p.hash.size < Len(p.slots) THEN ejsIndexProperties(p)
        ELSE IF \E t \in chain : p.slots[t].qname = q THEN p
        ELSE IF chain = {} THEN [p EXCEPT !.hash.buckets[Index(q, p.hash)] = s]
        ELSE [p EXCEPT !.slots = With(@, last, Linked(@[last], s))]

-----------------------------------------------------------------------------
(* Lookup *)
Slots(p, q) == IF p.hash.size = 0 THEN DOMAIN p.slots ELSE ChainOf(q, p.slots, p.hash)

ejsLookupPotProperty(p, q) == First({s \in Slots(p, q) : p.slots[s].qname = q})

\* Without a namespace, only a property with no other of its name is found
lookupUnique(p, n) ==
    LET same == {s \in Slots(p, Q(Empty, n)) : p.slots[s].qname.name = n}
    IN  IF \E s \in same : same = {s} THEN First(same) ELSE 0

ejsLookupVarWithNamespaces(p, n) ==
    LET only == lookupUnique(p, n)
        opened == First({i \in DOMAIN OpenSpaces : ejsLookupPotProperty(p, Q(OpenSpaces[i], n)) # 0})
    IN  IF only # 0 THEN (IF p.slots[only].qname.space \in Opens \cup {Empty} THEN only ELSE 0)
        ELSE IF opened = 0 THEN 0 ELSE ejsLookupPotProperty(p, Q(OpenSpaces[opened], n))

-----------------------------------------------------------------------------
(* Slots *)
RoundUp(n, unit) == ((n + unit - 1) \div unit) * unit

growSlots(old, n) ==
    LET factor == IF old \div 4 > Round THEN old \div 4 ELSE Round
    IN  IF n <= old THEN old
        ELSE RoundUp(IF n > Lots THEN ((n + factor) \div factor) * factor ELSE n, Round)

\* A new slot at the end, with its name
AddSlot(p, q) ==
    LET n == Len(p.slots) + 1
        named == [slots |-> Append(p.slots, Named(q)), size |-> growSlots(p.size, n), hash |-> p.hash]
    IN  IF p.hash.size # 0 \/ n > HashMin THEN hashProperty(named, n) ELSE named

DeletedSlot == [ZeroSlot EXCEPT !.attributes = {"deleted"}]

\* Mutant of Unlinked: the rest of the chain goes too
UnlinkedRest(ss, s) ==
    [t \in DOMAIN ss |-> IF ss[t].hashChain = s THEN Linked(ss[t], 0) ELSE ss[t]]

\* The slots without one in their chains
Unlinked(ss, s) ==
    [t \in DOMAIN ss |-> IF ss[t].hashChain = s THEN Linked(ss[t], ss[s].hashChain) ELSE ss[t]]
\* Unlinks a slot from its chain
removeHashEntry(p, s) ==
    LET index == Index(p.slots[s].qname, p.hash)
        heads == [p.hash.buckets EXCEPT ![index] = IF @ = s THEN p.slots[s].hashChain ELSE @]
    IN  IF p.hash.size = 0 THEN p
        ELSE [slots |-> Unlinked(p.slots, s), size |-> p.size, hash |-> [size |-> p.hash.size, buckets |-> heads]]

\* The slot is not used again
deletePotProperty(p, s) == [removeHashEntry(p, s) EXCEPT !.slots = With(@, s, DeletedSlot)]

Pot == [slots |-> slots, size |-> size, hash |-> hash]

-----------------------------------------------------------------------------
(* Operations of scripts *)
Becomes(p) ==
    /\ slots' = p.slots
    /\ size' = p.size
    /\ hash' = p.hash

Fails == result' = "throws" /\ UNCHANGED <<slots, size, hash, dynamic>>
Answers(r) == result' = r /\ UNCHANGED <<slots, size, hash, dynamic>>
Does(p, r) == Becomes(p) /\ result' = r /\ UNCHANGED dynamic

Init ==
    /\ slots = <<>>
    /\ size = 0
    /\ hash = NoHash
    /\ dynamic = TRUE
    /\ result = "done"

Get(s) == Answers(IF s = 0 THEN Null ELSE slots[s].value)

storePropertyToSlot(p, s, v) ==
    IF "readonly" \in p.slots[s].attributes /\ p.slots[s].value \notin {Null, v} THEN Fails
    ELSE Does([p EXCEPT !.slots = With(@, s, Valued(@[s], v))], "done")

\* A property that is not found is added to a dynamic object
storeProperty(s, q, v) ==
    IF s # 0 THEN storePropertyToSlot(Pot, s, v)
    ELSE IF ~dynamic THEN Fails
    ELSE NumProp < MaxProp /\ storePropertyToSlot(AddSlot(Pot, q), NumProp + 1, v)

\* The slot is looked up again by the name the first lookup has found, which is
\* none when it went through the open namespaces
Delete(s, named) ==
    IF s = 0 THEN Answers("done")
    ELSE IF "fixed" \in slots[s].attributes THEN Answers("kept")
    ELSE IF ~named THEN Fails
    ELSE Does(deletePotProperty(Pot, s), "done")

\* Adds or redefines a property; whether the object is dynamic makes no difference
defineProperty(q, v, attributes) ==
    LET s == ejsLookupPotProperty(Pot, q)
        p == IF s = 0 THEN AddSlot(Pot, q) ELSE Pot
        at == IF s = 0 THEN NumProp + 1 ELSE s
    IN  IF s # 0 /\ "fixed" \in slots[s].attributes THEN Fails
        ELSE /\ s = 0 => NumProp < MaxProp
             /\ Does([p EXCEPT !.slots = With(@, at, Given(@[at], v, attributes))], "done")

GetByName(n) == Get(ejsLookupVarWithNamespaces(Pot, n))
GetByQName(q) == Get(ejsLookupPotProperty(Pot, q))
PutByName(n, v) == storeProperty(ejsLookupVarWithNamespaces(Pot, n), Q(Empty, n), v)
PutByQName(q, v) == storeProperty(ejsLookupPotProperty(Pot, q), q, v)
DeleteByName(n) == Delete(ejsLookupVarWithNamespaces(Pot, n), lookupUnique(Pot, n) # 0)
DeleteByQName(q) == Delete(ejsLookupPotProperty(Pot, q), TRUE)

\* freeze, seal and preventExtensions differ in the attributes they add
Locked(ss, attributes) == [s \in DOMAIN ss |-> [ss[s] EXCEPT !.attributes = @ \cup attributes]]
Lock(attributes) ==
    /\ Becomes([Pot EXCEPT !.slots = Locked(slots, attributes)])
    /\ dynamic' = FALSE
    /\ result' = "done"
Freeze == Lock({"fixed", "readonly"})
Seal == Lock({"fixed"})
PreventExtensions == Lock({})

\* The slots are sorted in any order that puts their names in order, and hashed anew
Sorted(ss) ==
    {[i \in DOMAIN ss |-> ss[order[i]]] : order \in {o \in [DOMAIN ss -> DOMAIN ss] :
        /\ \A i, j \in DOMAIN ss : o[i] = o[j] => i = j
        /\ \A i, j \in DOMAIN ss : i < j => rank[ss[o[i]].qname.name] <= rank[ss[o[j]].qname.name]}}
sortProperties ==
    \E ss \in Sorted(slots) :
        LET p == ejsIndexProperties([Pot EXCEPT !.slots = ss])
        IN  /\ Becomes(p)
            /\ result' = "done" /\ UNCHANGED dynamic

\* The script goes on with a copy
Clone ==
    LET plain == [s \in DOMAIN slots |-> Linked(slots[s], 0)]
        copy == [slots |-> plain, size |-> growSlots(0, NumProp), hash |-> NoHash]
        p == IF NumProp > HashMin THEN ejsIndexProperties(copy) ELSE copy
    IN  /\ Becomes(p)
        /\ result' = "done" /\ UNCHANGED dynamic

Next ==
    \/ \E n \in Name : GetByName(n) \/ DeleteByName(n) \/ \E v \in Value : PutByName(n, v)
    \/ \E q \in {x \in QNames : x.space # Empty} :
        GetByQName(q) \/ DeleteByQName(q) \/ \E v \in Value : PutByQName(q, v)
    \/ \E q \in QNames, v \in Value, attributes \in Options : defineProperty(q, v, attributes)
    \/ Freeze \/ Seal \/ PreventExtensions \/ sortProperties \/ Clone

Spec == Init /\ [][Next]_vars

-----------------------------------------------------------------------------
(* Type correctness *)
Attributes == {"fixed", "readonly", "deleted"}
SlotType ==
    [qname : [space : Space, name : Names], value : Value, attributes : SUBSET Attributes, hashChain : 0..NumProp]
\* Slots and buckets stay within the slots there are
TypeOK ==
    /\ slots \in Seq(SlotType) /\ NumProp <= size
    /\ hash.size \in Nat /\ hash.buckets \in [0..(hash.size - 1) -> 0..NumProp]
    /\ dynamic \in BOOLEAN

(* Safety *)
\* The slots with a name that is in use
LiveOf(ss) == {s \in DOMAIN ss : ss[s].qname.name # Empty}
Live == LiveOf(slots)

\* Every property is found by its name, whatever was added, deleted and hashed anew
\* before (ejsLookupPotProperty, ejsPot.c:319)
LookupFinds == \A s \in Live : ejsLookupPotProperty(Pot, slots[s].qname) = s

\* A chain holds no slot twice, ends, and ascends (assertions of ejsPot.c:842)
ChainsEnd ==
    hash.size # 0 =>
        \A s \in DOMAIN slots :
            /\ slots[s].hashChain # 0 => slots[s].hashChain > s
            /\ \A t \in DOMAIN slots : slots[s].hashChain # 0 /\ slots[s].hashChain = slots[t].hashChain => s = t
            /\ slots[s].hashChain \notin {hash.buckets[i] : i \in DOMAIN hash.buckets} \ {0}

\* The hash of an object, which is made, linked, unlinked and outgrown while slots are
\* renamed and used again, finds every property and comes to an end
HashFinds == ChainsEnd /\ LookupFinds

(* Refinement *)
\* To a script the object is a map, and neither slots nor hash can be told
PropsOf(ss) ==
    [q \in {ss[s].qname : s \in LiveOf(ss)} |->
        LET s == CHOOSE s \in LiveOf(ss) : ss[s].qname = q
        IN  [value |-> ss[s].value, attributes |-> ss[s].attributes]]
Map == INSTANCE PropertyMap WITH props <- PropsOf(slots)
IsMap == Map!MapSpec
=============================================================================
