------------------------------ MODULE EjsArray ------------------------------
(***************************************************************************)
(* An array, src/core/src/ejsArray.c: a block of slots that grows and never *)
(* shrinks, and a length.  A script calls the array's methods; so do the    *)
(* functions that loops over the array (the iterators, and the methods of   *)
(* src/core/Array.es that are written with them) and sort call, while the   *)
(* loop or the sort is under way.                                           *)
(*                                                                          *)
(* Slots count from 0, as in the code.                                      *)
(***************************************************************************)
EXTENDS Integers, Sequences, FiniteSets

CONSTANTS
    Value,          \* elements
    Undefined,      \* the element undefined
    Beyond,         \* what a read outside of the block finds
    rank,           \* the order of elements as text, [Value \cup {Beyond} -> Int]
    Round,          \* EJS_ROUND_PROP, by which blocks grow
    Inputs,         \* the methods' arguments that are lists of values
    Positions,      \* their positions, counts, lengths and steps
    Directions,     \* of sorts: above, below or 0
    Outside,        \* the methods that the script calls
    Inside,         \* the methods that callbacks call
    MaxLen,         \* bound: length
    MaxDepth        \* bound: loops and sorts inside each other

ASSUME SizeAssumption == Round \in Nat \ {0} /\ MaxLen \in Nat /\ MaxLen < 256
ASSUME ElementAssumption ==
    /\ Undefined \in Value /\ Beyond \notin Value
    /\ rank \in [Value \cup {Beyond} -> Int] /\ Directions \subseteq Int
ASSUME ArgumentAssumption == Inputs \subseteq Seq(Value) /\ Positions \subseteq Int

VARIABLES
    data, length,   \* as in EjsArray
    frames,         \* the loops and sorts under way, the innermost first
    call,           \* the last call of a method, with its arguments and its result
    high            \* how many slots have held elements so far, for the properties only

vars == <<data, length, frames, call, high>>

Slot == Value \cup {Beyond}
Block(n) == [0..(n - 1) -> Slot]
Size(d) == Cardinality(DOMAIN d)
Larger(a, b) == IF a > b THEN a ELSE b
Smaller(a, b) == IF a < b THEN a ELSE b

Rounded(n) == ((n + Round - 1) \div Round) * Round

\* A block of its own size, or a new one whose slots from len on are undefined
growArray(d, len, n) ==
    IF n <= len \/ n <= Size(d) THEN d
    ELSE [i \in 0..(Rounded(n) - 1) |-> IF i < len THEN d[i] ELSE Undefined]

Read(d, i) == IF i \in DOMAIN d THEN d[i] ELSE Beyond

\* The n elements from slot i on
Elems(d, i, n) == [k \in 1..n |-> Read(d, i + k - 1)]
List == Elems(data, 0, length)

getArrayProperty(i) == IF i < 0 \/ i >= length THEN Undefined ELSE data[i]

\* The loops over slots: values are copied in from slot i on, slots move up from the
\* last one or down from the first one
CopyIn(d, i, values) == [k \in DOMAIN d |-> IF k - i + 1 \in DOMAIN values THEN values[k - i + 1] ELSE d[k]]
MoveUp(d, first, last, delta) == [k \in DOMAIN d |-> IF k \in first..last THEN d[k - delta] ELSE d[k]]
MoveDown(d, first, last, delta) == [k \in DOMAIN d |-> IF k \in first..last THEN Read(d, k + delta) ELSE d[k]]

None == [op |-> "none", args |-> <<>>, gives |-> <<>>]

Init ==
    /\ \E s \in Inputs :
        /\ data = CopyIn(growArray(<<>>, 0, Len(s)), 0, s)
        /\ length = Len(s) /\ high = length
    /\ frames = <<>>
    /\ call = None

-----------------------------------------------------------------------------
(***************************************************************************)
(* Loops and sorts, as far as methods change what they have under way      *)
(***************************************************************************)
\* What stays in its slot: of interest to the properties only
Defined(d, n) == {i \in 0..(n - 1) : d[i] # Undefined}

\* An iterator, the slots it has given, and those that have held an element since it was made
Iterator(kind) == [kind |-> kind, index |-> 0, limit |-> length, calls |-> FALSE,
                   taken |-> {}, kept |-> Defined(data, length)]

Watch(f, d, n) ==
    IF f.kind = "sort"
    THEN IF d = data /\ n = length THEN f ELSE [f EXCEPT !.alone = FALSE, !.start = <<>>, !.honest = FALSE]
    ELSE [f EXCEPT !.kept = @ \cap Defined(d, n)]
Watched(fs, d, n) == [k \in DOMAIN fs |-> Watch(fs[k], d, n)]

Top == Head(frames)

\* The script runs, or a function that a loop or a sort has called
Calling == frames # <<>> => Top.calls

\* The slots below reach may hold elements from now on
Reach(d, n, reach) == data' = d /\ length' = n /\ high' = Larger(high, reach)
Become(d, n) == Reach(d, n, n)

\* One call at a time: its result is taken before the next
Call(op, args, gives) ==
    /\ Calling /\ call = None
    /\ op \in IF frames = <<>> THEN Outside ELSE Inside
    /\ call' = [op |-> op, args |-> args, gives |-> gives]

Mutates(op, args, d, n, gives) == Call(op, args, gives) /\ Become(d, n) /\ frames' = Watched(frames, d, n)
Answered(op, args, gives) == Call(op, args, gives) /\ UNCHANGED <<data, length, frames, high>>

-----------------------------------------------------------------------------
(***************************************************************************)
(* Elements by their index, and length                                     *)
(***************************************************************************)
\* An index below 0 stands for the first free slot
checkSlot(i) == IF i < 0 THEN length ELSE i
setData(i, v) == [growArray(data, length, checkSlot(i) + 1) EXCEPT ![checkSlot(i)] = v]

get(i) == Answered("get", <<i>>, <<getArrayProperty(i)>>)

set(i, v) ==
    /\ checkSlot(i) < MaxLen
    /\ Mutates("set", <<i, v>>, setData(i, v), Larger(length, checkSlot(i) + 1), <<>>)

append(v) ==
    /\ length < MaxLen
    /\ Mutates("append", <<v>>, setData(length, v), length + 1, <<>>)

\* The name is looked up first, and what begins with a sign is not an index
deleteArrayProperty(i) ==
    IF i \notin 0..(length - 1) THEN Answered("delete", <<i>>, <<>>)
    ELSE Mutates("delete", <<i>>, [data EXCEPT ![i] = Undefined],
                 IF i + 1 = length THEN length - 1 ELSE length, <<>>)

setArrayLength(n) ==
    /\ n <= MaxLen
    /\ Mutates("length", <<n>>, growArray(data, length, n), Larger(n, 0), <<>>)

\* A mutant's: the block goes with the elements
clear_Frees == Mutates("clear", <<>>, <<>>, 0, <<>>)

clear == Mutates("clear", <<>>, data, 0, <<>>)

-----------------------------------------------------------------------------
(***************************************************************************)
(* Elements put in and taken out                                           *)
(***************************************************************************)
push(items) ==
    /\ length + Len(items) <= MaxLen
    /\ Mutates("push", <<items>>, CopyIn(growArray(data, length, length + Len(items)), length, items),
               length + Len(items), <<length + Len(items)>>)

pop ==
    IF length = 0 THEN Answered("pop", <<>>, <<Undefined>>)
    ELSE Mutates("pop", <<>>, data, length - 1, <<data[length - 1]>>)

shift ==
    IF length = 0 THEN Answered("shift", <<>>, <<Undefined>>)
    ELSE Mutates("shift", <<>>, MoveDown(data, 0, length - 2, 1), length - 1, <<data[0]>>)

\* A mutant's: the last element stays where it is
Inserted_Short(pos, items) ==
    LET n == length + Len(items)
    IN  CopyIn(MoveUp(growArray(data, length, n), pos + Len(items), n - 2, Len(items)), pos, items)

Inserted(pos, items) ==
    LET n == length + Len(items)
    IN  CopyIn(MoveUp(growArray(data, length, n), pos + Len(items), n - 1, Len(items)), pos, items)

unshift(items) ==
    /\ length + Len(items) <= MaxLen
    /\ Mutates("unshift", <<items>>, Inserted(0, items), length + Len(items), <<>>)

\* From the end if below 0, and within the array
FromEnd(i) == Larger(0, IF i < 0 THEN i + length ELSE i)

insert(pos, items) ==
    /\ length + Len(items) <= MaxLen
    /\ Mutates("insert", <<pos, items>>, Inserted(Smaller(FromEnd(pos), length), items), length + Len(items), <<>>)

\* More than there are, from the start, is cut down to the length, not to what is left
spliceCount(from, count) == Smaller(IF count < 0 THEN length - from + 1 ELSE count, length)

Spliced(from, count, items) ==
    LET delta == Len(items) - count
        n == length + delta
    IN  IF delta > 0
        THEN CopyIn(MoveUp(growArray(data, length, n), from + delta, n - 1, delta), from, items)
        ELSE MoveDown(CopyIn(data, from, items), from + Len(items), length - 1, -delta)

splice(start, count, items) ==
    LET from == Smaller(FromEnd(start), length - 1)
        removed == spliceCount(from, count)
    IN  IF length = 0
        THEN Answered("splice", <<start, count, items>>, IF count <= 0 THEN <<>> ELSE <<"Array is empty">>)
        ELSE /\ length + Len(items) - removed <= MaxLen
             \* A call that writes behind the block is left out
             /\ from + Len(items) <= Larger(Size(data), length + Len(items) - removed)
             /\ Call("splice", <<start, count, items>>, Elems(data, from, removed))
             /\ LET d == Spliced(from, removed, items)
                    n == length + Len(items) - removed
                IN  Reach(d, n, Larger(n, from + Len(items))) /\ frames' = Watched(frames, d, n)

-----------------------------------------------------------------------------
(***************************************************************************)
(* Elements looked for, removed by value and rearranged                    *)
(***************************************************************************)
\* A block and the length that is left of it
Left(d, n) == [d |-> d, n |-> n]
Without(p, i) == Left(MoveDown(p.d, i, p.n - 2, 1), p.n - 1)

\* The slot behind one that is removed is not looked at
RemovePass(p, v) ==
    LET pass[i \in 0..p.n] ==
        IF i = 0 THEN p
        ELSE LET q == pass[i - 1]
             IN  IF i <= q.n /\ q.d[i - 1] = v THEN Without(q, i - 1) ELSE q
    IN  pass[p.n]

removeArrayElements(elements) ==
    LET removed[j \in 0..Len(elements)] ==
        IF j = 0 THEN Left(data, length) ELSE RemovePass(removed[j - 1], elements[j])
    IN  removed[Len(elements)]

removeElements(elements) ==
    LET left == removeArrayElements(elements)
    IN  Mutates("removeElements", <<elements>>, left.d, left.n, <<>>)

\* Later slots that hold what slot i holds are removed
UniquePass(p, i) ==
    LET pass[k \in 0..p.n] ==
        IF k = 0 THEN [j |-> i + 1, p |-> p]
        ELSE LET q == pass[k - 1]
             IN  IF q.j >= q.p.n THEN q
                 ELSE IF q.p.d[q.j] = q.p.d[i] THEN [q EXCEPT !.p = Without(@, q.j)]
                 ELSE [q EXCEPT !.j = @ + 1]
    IN  pass[p.n].p

uniqueArray ==
    LET uniques[i \in 0..length] ==
        IF i = 0 THEN Left(data, length)
        ELSE IF i <= uniques[i - 1].n THEN UniquePass(uniques[i - 1], i - 1) ELSE uniques[i - 1]
    IN  uniques[length]

unique == Mutates("unique", <<>>, uniqueArray.d, uniqueArray.n, <<>>)

compactArray ==
    LET some[k \in 0..length] ==
        IF k = 0 THEN <<>> ELSE IF data[k - 1] = Undefined THEN some[k - 1] ELSE Append(some[k - 1], data[k - 1])
    IN  some[length]

compact ==
    LET some == compactArray
    IN  Mutates("compact", <<>>, CopyIn(data, 0, some \o [k \in 1..(length - Len(some)) |-> Undefined]), Len(some), <<>>)

\* The inner two slots change places first, then those around them
reverse == Mutates("reverse", <<>>, [k \in DOMAIN data |-> IF k < length THEN data[length - 1 - k] ELSE data[k]], length, <<>>)

First(s, v) == {k \in DOMAIN s : s[k] = v /\ \A m \in DOMAIN s : s[m] = v => m >= k}
Last(s, v) == {k \in DOMAIN s : s[k] = v /\ \A m \in DOMAIN s : s[m] = v => m <= k}
IndexIn(found, from) == IF found = {} THEN <<-1>> ELSE <<from + (CHOOSE k \in found : TRUE) - 1>>

indexOf(v, start) ==
    LET from == FromEnd(start)
    IN  Answered("indexOf", <<v, start>>, IndexIn(First(Elems(data, from, length - from), v), from))

lastIndexOf(v, start) ==
    LET from == Smaller(IF start < 0 THEN start + length ELSE start, length - 1)
    IN  Answered("lastIndexOf", <<v, start>>, IndexIn(Last(Elems(data, 0, from + 1), v), 0))

-----------------------------------------------------------------------------
(***************************************************************************)
(* Arrays made of this one                                                 *)
(***************************************************************************)
clone == Answered("clone", <<>>, List)

\* Of an array, whose elements are copied, or of values; values that do not fit in the
\* block of the new array are written behind it, which is left out
concat(items) == Answered("concat", <<items>>, List \o items)

\* The slots of a slice, start included even when it is the length
sliceSlots(start, end, step) ==
    LET from == Smaller(FromEnd(start), length)
        to == Smaller(FromEnd(end), length)
        by == IF step = 0 THEN 1 ELSE step
        count == IF by > 0 THEN (Larger(to - from, 0) + by - 1) \div by ELSE (Larger(from - to, 0) - by - 1) \div (-by)
    IN  [k \in 1..count |-> from + (k - 1) * by]

slice(start, end, step) ==
    LET slots == sliceSlots(start, end, step)
    IN  Answered("slice", <<start, end, step>>, [k \in DOMAIN slots |-> Read(data, slots[k])])

addUnique(s, v) == IF \E k \in DOMAIN s : s[k] = v THEN s ELSE Append(s, v)
Uniques(s, some) ==
    LET result[k \in 0..Len(s)] ==
        IF k = 0 THEN <<>> ELSE IF s[k] \in some THEN addUnique(result[k - 1], s[k]) ELSE result[k - 1]
    IN  result[Len(s)]

makeIntersection(items) == Answered("&", <<items>>, Uniques(List, {items[k] : k \in DOMAIN items}))
makeUnion(items) == Answered("|", <<items>>, Uniques(List \o items, Slot))

-----------------------------------------------------------------------------
(***************************************************************************)
(* Loops: for in, for each, and the methods that call a function for every *)
(* element                                                                  *)
(***************************************************************************)
\* Steps that are no call of a method
Silently == call = None /\ UNCHANGED call
Inward(f) == Calling /\ Len(frames) < MaxDepth /\ frames' = <<f>> \o frames
Onward(f) == frames' = <<f>> \o Tail(frames)

getArrayIterator(kind) ==
    /\ Inward(Iterator(kind))
    /\ Silently /\ UNCHANGED <<data, length, high>>

\* A mutant's: the index is advanced for the slot and for the body
nextArrayKey_Twice ==
    LET next == {i \in Top.index..(Top.limit - 1) : data[i] # Undefined}
    IN  /\ frames # <<>> /\ Top.kind # "sort" /\ ~Top.calls
        /\ \/ next = {} /\ frames' = Tail(frames)
           \/ \E i \in next :
                /\ \A k \in next : i <= k
                /\ Onward([Top EXCEPT !.index = i + 2, !.calls = TRUE, !.taken = @ \cup {i}])
        /\ Silently /\ UNCHANGED <<data, length, high>>

\* The next slot that is not undefined, of those the array had when the loop began; what
\* the array has now is not asked
nextArrayKey ==
    LET next == {i \in Top.index..(Top.limit - 1) : data[i] # Undefined}
    IN  /\ frames # <<>> /\ Top.kind # "sort" /\ ~Top.calls
        /\ \/ next = {} /\ frames' = Tail(frames)
           \/ \E i \in next :
                /\ \A k \in next : i <= k
                /\ Onward([Top EXCEPT !.index = i + 1, !.calls = TRUE, !.taken = @ \cup {i}])
        /\ Silently /\ UNCHANGED <<data, length, high>>

\* The body of the loop, or the function that a method calls, ends
BodyEnds ==
    /\ frames # <<>> /\ Top.kind = "loop" /\ Top.calls
    /\ Onward([Top EXCEPT !.calls = FALSE])
    /\ Silently /\ UNCHANGED <<data, length, high>>

\* transform stores what its function gives
transform(v) ==
    LET i == Top.index - 1
    IN  /\ frames # <<>> /\ Top.kind = "transform" /\ Top.calls
        /\ i < MaxLen
        /\ Become(setData(i, v), Larger(length, i + 1))
        /\ frames' = Watched(<<[Top EXCEPT !.calls = FALSE]>> \o Tail(frames), data', length')
        /\ call = None /\ call' = [op |-> "set", args |-> <<i, v>>, gives |-> <<>>]

\* A break, the answer that every, some and find wait for, or an exception, which also
\* leaves a sort
Leave ==
    /\ frames # <<>> /\ Top.calls
    /\ frames' = Tail(frames)
    /\ Silently /\ UNCHANGED <<data, length, high>>

-----------------------------------------------------------------------------
(***************************************************************************)
(* sort: the ranges that quickSort still has to do, and the partition it   *)
(* is in, if any                                                            *)
(***************************************************************************)
Span(p, r) == [p |-> p, r |-> r]

ejsSortArray(compare, direction) ==
    /\ \/ length <= 1 /\ Calling /\ UNCHANGED frames
       \/ length > 1 /\ Inward([kind |-> "sort", compare |-> compare, direction |-> direction, calls |-> FALSE,
                                todo |-> <<Span(0, length - 1)>>, part |-> <<>>,
                                start |-> List, alone |-> TRUE, honest |-> TRUE])
    /\ Silently /\ UNCHANGED <<data, length, high>>

Sorting == frames # <<>> /\ Top.kind = "sort" /\ ~Top.calls
Parting == Sorting /\ Top.part # <<>>
P == Head(Top.part)

\* The pivot is the last element of the range
quickSort ==
    /\ Sorting /\ Top.part = <<>> /\ Top.todo # <<>>
    /\ LET span == Head(Top.todo)
       IN  Onward([Top EXCEPT !.todo = Tail(@),
                   !.part = IF span.p < span.r
                            THEN <<[p |-> span.p, r |-> span.r, x |-> data[span.r], i |-> span.p, j |-> span.p - 1]>>
                            ELSE <<>>])
    /\ Silently /\ UNCHANGED <<data, length, high>>

Sign(n) == IF n > 0 THEN 1 ELSE IF n < 0 THEN -1 ELSE 0
Order(v, w) == Sign(rank[v] - rank[w])

\* What comes before the pivot changes places with the first that does not
Compared(order) ==
    LET front == order * Top.direction > 0
        d == IF front THEN [data EXCEPT ![P.j + 1] = data[P.i], ![P.i] = data[P.j + 1]] ELSE data
        part == [P EXCEPT !.i = @ + 1, !.j = IF front THEN @ + 1 ELSE @]
        honest == order = Order(getArrayProperty(P.r), getArrayProperty(P.i))
    IN  /\ Become(d, length)
        /\ frames' = <<[Top EXCEPT !.calls = FALSE, !.part = <<part>>, !.honest = @ /\ honest]>>
                     \o Watched(Tail(frames), d, length)
        /\ Silently

compareText == Parting /\ P.i < P.r /\ ~Top.compare /\ Compared(Order(P.x, data[P.i]))

compareCalls ==
    /\ Parting /\ P.i < P.r /\ Top.compare
    /\ Onward([Top EXCEPT !.calls = TRUE])
    /\ Silently /\ UNCHANGED <<data, length, high>>

compareEnds(order) ==
    /\ frames # <<>> /\ Top.kind = "sort" /\ Top.calls
    /\ Compared(order)

\* An answer that is not a number ends the partition, as if the pivot were at slot 0
compareFails ==
    /\ frames # <<>> /\ Top.kind = "sort" /\ Top.calls
    /\ Onward([Top EXCEPT !.calls = FALSE, !.part = <<>>, !.honest = FALSE,
                          !.todo = <<Span(P.p, -1), Span(1, P.r)>> \o @])
    /\ Silently /\ UNCHANGED <<data, length, high>>

\* A mutant's: what was there is not put behind
partition_Over ==
    /\ Parting /\ P.i = P.r
    /\ LET d == [data EXCEPT ![P.j + 1] = P.x]
       IN  /\ Become(d, length)
           /\ frames' = <<[Top EXCEPT !.part = <<>>, !.todo = <<Span(P.p, P.j), Span(P.j + 2, P.r)>> \o @]>>
                        \o Watched(Tail(frames), d, length)
    /\ Silently

\* The pivot goes between the two parts
partition ==
    /\ Parting /\ P.i = P.r
    /\ LET d == [data EXCEPT ![P.r] = data[P.j + 1], ![P.j + 1] = P.x]
       IN  /\ Become(d, length)
           /\ frames' = <<[Top EXCEPT !.part = <<>>, !.todo = <<Span(P.p, P.j), Span(P.j + 2, P.r)>> \o @]>>
                        \o Watched(Tail(frames), d, length)
    /\ Silently

SortReturns ==
    /\ Sorting /\ Top.part = <<>> /\ Top.todo = <<>>
    /\ frames' = Tail(frames)
    /\ Silently /\ UNCHANGED <<data, length, high>>

-----------------------------------------------------------------------------
\* The script or the function goes on with the result
Taken == call # None /\ call' = None /\ UNCHANGED <<data, length, frames, high>>

Methods ==
    \/ \E v \in Value, i \in Positions : set(i, v) \/ indexOf(v, i) \/ lastIndexOf(v, i)
    \/ \E v \in Value : append(v)
    \/ \E i \in Positions : get(i) \/ deleteArrayProperty(i) \/ setArrayLength(i)
    \/ \E items \in Inputs :
          \/ push(items) \/ unshift(items) \/ removeElements(items)
          \/ concat(items) \/ makeIntersection(items) \/ makeUnion(items)
          \/ \E i \in Positions : insert(i, items) \/ \E count \in Positions : splice(i, count, items)
    \/ \E start, end, step \in Positions : slice(start, end, step)
    \/ clear \/ pop \/ shift \/ unique \/ compact \/ reverse \/ clone

Around ==
    \/ \E kind \in {"loop", "transform"} : getArrayIterator(kind)
    \/ nextArrayKey \/ BodyEnds \/ Leave
    \/ \E v \in Value : transform(v)

Sorts ==
    \/ \E compare \in BOOLEAN, direction \in Directions : ejsSortArray(compare, direction)
    \/ quickSort \/ compareText \/ compareCalls \/ partition \/ SortReturns
    \/ compareFails \/ \E order \in {-1, 0, 1} : compareEnds(order)

Next == Taken \/ Methods \/ Around \/ Sorts

Spec == Init /\ [][Next]_vars

-----------------------------------------------------------------------------
(***************************************************************************)
(* Properties                                                               *)
(***************************************************************************)
\* Every variable has its type, and the length is within the block
TypeOK ==
    /\ data \in Block(Size(data)) /\ length \in 0..Size(data) /\ high \in length..Size(data)
    /\ \A k \in DOMAIN frames : frames[k].kind \in {"loop", "transform", "sort"}

\* Loops and sorts read and write slots of the block, though the functions they call may
\* take the elements away that they began with: iterators keep a length and partitions
\* keep indexes while data is replaced, and the block never shrinks
StaysInBlock ==
    \A k \in DOMAIN frames :
        IF frames[k].kind = "sort"
        THEN /\ \A m \in DOMAIN frames[k].todo : frames[k].todo[m].p >= 0 /\ frames[k].todo[m].r < Size(data)
             /\ \A m \in DOMAIN frames[k].part :
                    LET t == frames[k].part[m]
                    IN  0 <= t.p /\ t.p <= t.i /\ t.j < t.i /\ t.i <= t.r /\ t.r < Size(data) /\ t.p - 1 <= t.j
        ELSE frames[k].limit <= Size(data)

\* A loop has given every slot it has passed that holds an element and has held one
\* since the loop began, whatever the bodies did to the array
LoopsMissNothing ==
    \A k \in DOMAIN frames :
        frames[k].kind # "sort" => frames[k].kept \cap 0..(frames[k].index - 1) \subseteq frames[k].taken

Times(v, s) == Cardinality({k \in DOMAIN s : s[k] = v})

Ordered(s, direction) == \A k \in 1..(Len(s) - 1) : (rank[s[k + 1]] - rank[s[k]]) * direction >= 0

\* A sort that is alone with the array keeps its elements, at every call of the compare
\* function, which may throw, lie or answer no number; when the function has told the
\* order, the sort ends with the elements in it
SortKeeps ==
    \A k \in DOMAIN frames : frames[k].kind = "sort" /\ frames[k].alone =>
        /\ \A v \in Slot : Times(v, List) = Times(v, frames[k].start)
        /\ frames[k].todo = <<>> /\ frames[k].part = <<>> /\ frames[k].honest /\ frames[k].direction # 0 =>
               Ordered(List, frames[k].direction)

\* To a script an array is a list: every method does to it and gives what it means
Meaning == INSTANCE ArrayMeaning WITH list <- List
IsList == Meaning!ListSpec
=============================================================================
